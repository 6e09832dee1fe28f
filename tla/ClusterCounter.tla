--------------------------- MODULE ClusterCounter ---------------------------
(***************************************************************************)
(* The counter of play-java-akka-cluster-example: a cluster singleton that *)
(* HomeController asks with a timeout.  The singleton moves when members   *)
(* of the cluster change, and begins again at zero; messages can be lost   *)
(* then, and asks of several nodes arrive in any order.                    *)
(*                                                                         *)
(* Bounds: each of Ask is one request; MaxEra moves.                       *)
(***************************************************************************)
EXTENDS Integers, FiniteSets

CONSTANTS Ask, MaxEra

ASSUME CounterAssumption == MaxEra \in Nat /\ Ask \subseteq Nat

VARIABLES value,    \* the field of CounterActor
          era,      \* how often the singleton has moved
          ask       \* per request: where it is

counterVars == <<value, era, ask>>

\* at: the message or its reply is on its way, or neither.  number and era
\* come from the reply; before is history, who had an answer already.
NotAsked == [kind |-> "none", at |-> "none", number |-> 0, era |-> 0,
             result |-> "none", before |-> {}]

CounterInit ==
  /\ value = 0
  /\ era = 0
  /\ ask = [a \in Ask |-> NotAsked]

Answered == {a \in Ask : ask[a].result = "answer"}

\* index asks for GetValue, increment for Increment.  Asks are numbered as
\* they come.
Asks(a, kind) ==
  /\ ask[a].kind = "none" /\ \A b \in Ask : b < a => ask[b].kind # "none"
  /\ ask' = [ask EXCEPT ![a] = [NotAsked EXCEPT !.kind = kind, !.at = "sent",
                                                !.before = Answered]]
  /\ UNCHANGED <<value, era>>

Tells(a, number) ==
  [ask EXCEPT ![a].at = "replied", ![a].number = number, ![a].era = era]

\* mutant: the reply is sent first
TellFirst(a) ==
  /\ ask[a].at = "sent" /\ ask[a].kind = "increment"
  /\ value' = value + 1
  /\ ask' = Tells(a, value)
  /\ UNCHANGED era

\* mutant: an increment is answered and not counted
TellOnly(a) ==
  /\ ask[a].at = "sent" /\ ask[a].kind = "increment"
  /\ ask' = Tells(a, value + 1)
  /\ UNCHANGED <<value, era>>

onIncrement(a) ==
  /\ ask[a].at = "sent" /\ ask[a].kind = "increment"
  /\ value' = value + 1
  /\ ask' = Tells(a, value')
  /\ UNCHANGED era

onGetValue(a) ==
  /\ ask[a].at = "sent" /\ ask[a].kind = "get"
  /\ ask' = Tells(a, value)
  /\ UNCHANGED <<value, era>>

\* The reply comes to the ask, or to nobody when that has timed out.
Reply(a) ==
  /\ ask[a].at = "replied"
  /\ ask' = [ask EXCEPT ![a].at = "done",
                        ![a].result = IF @ = "none" THEN "answer" ELSE @]
  /\ UNCHANGED <<value, era>>

\* Three seconds are over: the user sees an error, the message is on its way
\* still.
AskTimesOut(a) ==
  /\ ask[a].kind # "none" /\ ask[a].result = "none"
  /\ ask' = [ask EXCEPT ![a].result = "error"]
  /\ UNCHANGED <<value, era>>

\* A message or a reply is lost.
Lose(a) ==
  /\ ask[a].at \in {"sent", "replied"}
  /\ ask' = [ask EXCEPT ![a].at = "done"]
  /\ UNCHANGED <<value, era>>

\* Another node runs the singleton: the field is a new one.
Relocate ==
  /\ era < MaxEra
  /\ era' = era + 1
  /\ value' = 0
  /\ UNCHANGED ask

CounterNext ==
  \/ \E a \in Ask :
       \/ \E kind \in {"get", "increment"} : Asks(a, kind)
       \/ onIncrement(a) \/ onGetValue(a)
       \/ Reply(a) \/ AskTimesOut(a) \/ Lose(a)
  \/ Relocate

-----------------------------------------------------------------------------
\* Types; and the value is the number of increments since the last move, each
\* counted once, whatever their users were told.
CounterOK ==
  /\ value \in Nat /\ era \in 0..MaxEra
  /\ ask \in [Ask -> [kind : {"none", "get", "increment"},
                      at : {"none", "sent", "replied", "done"},
                      number : Nat, era : 0..MaxEra,
                      result : {"none", "answer", "error"},
                      before : SUBSET Ask]]
  /\ value = Cardinality({a \in Ask : /\ ask[a].kind = "increment"
                                     /\ ask[a].number > 0
                                     /\ ask[a].era = era})

\* Until the singleton moves no number is given to two increments, though
\* some of them answered an error to their users.
NumbersOnce ==
  \A a, b \in Ask :
    /\ a # b /\ ask[a].number > 0 /\ ask[b].number > 0
    /\ ask[a].kind = "increment" /\ ask[b].kind = "increment"
    /\ ask[a].era = ask[b].era
    => ask[a].number # ask[b].number

\* Who asks after somebody's answer has come sees at least that number, and
\* more if it is an increment: unless the singleton has moved in between.
LaterSeesMore ==
  \A b \in Answered : \A a \in ask[b].before :
    ask[a].era = ask[b].era =>
      IF ask[b].kind = "increment" THEN ask[b].number > ask[a].number
      ELSE ask[b].number >= ask[a].number

\* The counter counts: each increment once, in one order that agrees with what
\* its users have seen.
CounterSafe == CounterOK /\ NumbersOnce /\ LaterSeesMore
=============================================================================
