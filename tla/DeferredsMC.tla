---------------------------- MODULE DeferredsMC ----------------------------
(* Instances of Deferreds for TLC. *)
EXTENDS DeferredsSpec, TLC

Uses(what, options, roots, makes, budget) ==
  [has : what, options : options, roots : {roots}, makes : {makes},
   calls : {budget}]

Lists   == Uses({"list"}, SUBSET Option, 0, 0, 4)
Dones   == Uses({"done"}, {{}}, 1, 1, 4)
Thens   == Uses({"then"}, {{}}, 1, 3, 4)
Notes   == Uses({"progress"}, {{}}, 1, 2, 3)
Pipes   == Uses({"pipe"}, {{}}, 1, 3, 3)
Whens   == Uses({"when"}, {{}}, 2, 4, 4)
Readies == Uses({"ready"}, {{}}, 1, 3, 4)

Pages == Lists \cup Dones \cup Thens \cup Notes \cup Pipes \cup Whens \cup Readies
Functions == {0, 1, 2}
=============================================================================
