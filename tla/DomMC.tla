------------------------------- MODULE DomMC -------------------------------
(* Pages for Dom. *)
EXTENDS DomSpec, TLC

CONSTANTS a, b, s, t, x, y

Under(p) == [n \in Node |-> IF n \in DOMAIN p THEN p[n] ELSE None]

\* a in the page, with b in it; or b by itself.
Nested == Under(a :> Document @@ b :> a)
Apart  == Under(a :> Document)
\* two scripts in an element that is not in the page; or one that is.
Loaded == Under(a :> Document @@ s :> b @@ t :> b)
Running == Under(a :> Document @@ s :> a @@ t :> b)

Uses(what, types, nodes, budget, starts) ==
  [uses : {what}, types : {types}, nodes : {nodes}, calls : {budget},
   parent : starts]

Clicks  == Uses({"events"}, {"click"}, {a, b}, 4, {Nested})
Bubbles == Uses({"events", "moves"}, {"click"}, {Document, a, b}, 3, {Nested})
Foci    == Uses({"events", "removal"}, {"focus", "focusin"}, {Document, b},
                3, {Nested})
Hovers  == Uses({"events"}, {"mouseenter"}, {Document, a, b}, 3, {Nested})
Cloned  == Uses({"events", "clones", "moves"}, {"focus"}, {a, b}, 3, {Nested})
Scripted == Uses({"moves", "removal"}, {}, {a, b}, 4, {Loaded, Running})
Moving   == Uses({"moves", "removal"}, {}, {Document, a, s}, 3, {Loaded})
Recopied == Uses({"moves", "clones"}, {}, {Document, a, s}, 3, {Loaded})
Datas   == Uses({"data", "removal", "clones"}, {}, {a, b}, 4, {Nested})
Looks   == Uses({"looks", "removal", "clones"}, {}, {a, b}, 4, {Nested})
Classes == Uses({"classes", "removal", "clones"}, {}, {b}, 4, {Nested})
Queues  == Uses({"queues", "removal"}, {}, {a, b}, 4, {Nested})

Pages == Clicks \cup Bubbles \cup Foci \cup Cloned \cup Scripted \cup Moving
           \cup Recopied \cup Datas \cup Looks \cup Classes
           \cup Queues \cup Hovers
=============================================================================
