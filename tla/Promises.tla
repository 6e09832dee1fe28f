------------------------------ MODULE Promises ------------------------------
(***************************************************************************)
(* What then promises: the contract of Promises/A+ that the comments of    *)
(* jQuery.Deferred name.  A promise gets one outcome at most, and from     *)
(* then on its reactions run with it: each once, in the order in which     *)
(* they were asked for, none of them forgotten.                            *)
(***************************************************************************)
EXTENDS Naturals, Sequences

CONSTANTS Promise,      \* all promises
          Outcome,      \* how a promise may end, and with what
          Reaction,     \* what then asks for
          Unsettled

VARIABLES outcome,      \* [Promise -> Outcome \cup {Unsettled}]
          reactions,    \* [Promise -> Seq(Reaction)]
          ran           \* [Promise -> Seq(Reaction \X Outcome)]

vars == <<outcome, reactions, ran>>

Init == /\ outcome = [p \in Promise |-> Unsettled]
        /\ reactions = [p \in Promise |-> <<>>]
        /\ ran = [p \in Promise |-> <<>>]

\* A call may ask for a reaction of one promise, or of several.
Then ==
  /\ reactions' \in [Promise -> Seq(Reaction)]
  /\ \A p \in Promise :
       reactions'[p] \in {reactions[p]}
                           \cup {Append(reactions[p], r) : r \in Reaction}
  /\ UNCHANGED <<outcome, ran>>

Settle(p) == /\ outcome[p] = Unsettled
             /\ \E o \in Outcome : outcome' = [outcome EXCEPT ![p] = o]
             /\ UNCHANGED <<reactions, ran>>

NextReaction(p) == reactions[p][Len(ran[p]) + 1]

React(p) ==
  /\ outcome[p] # Unsettled
  /\ Len(ran[p]) < Len(reactions[p])
  /\ ran' = [ran EXCEPT ![p] = Append(@, <<NextReaction(p), outcome[p]>>)]
  /\ UNCHANGED <<outcome, reactions>>

Next == Then \/ \E p \in Promise : Settle(p) \/ React(p)

Spec == Init /\ [][Next]_vars /\ \A p \in Promise : WF_vars(React(p))
=============================================================================
