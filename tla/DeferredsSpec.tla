--------------------------- MODULE DeferredsSpec ---------------------------
(***************************************************************************)
(* What the comments of jQuery.Callbacks, Deferred, when and ready promise *)
(* of the calls that Deferreds models.                                     *)
(***************************************************************************)
EXTENDS Deferreds

Value == {Undefined, No, Thenable, Values, TypeError}
           \cup {PromiseOf(d) : d \in Deferred}
           \cup {[is |-> i, n |-> n] : i \in {"data", "error"},
                                       n \in UNION {1..p.calls : p \in Page}}

\* The lists are lists, and the loop of a list is on the stack once at most
\* (fire and its flag `firing').
TypeOK ==
  /\ page \in Page /\ calls \in 0..page.calls
  /\ \A l \in ListId :
       /\ callbacks[l].memory \in Value \cup {None}
       /\ callbacks[l].gone => callbacks[l].list = <<>>
       /\ ~handlers[l].firing
       /\ Cardinality({i \in DOMAIN stack : stack[i] = Loop(l)})
            <= (IF callbacks[l].firing THEN 1 ELSE 0)
  /\ state \in [Deferred -> {"unborn", "pending", "resolved", "rejected"}]
  /\ maxDepth \in [Deferred -> Nat]
  /\ joined.remaining \in Int

\* An exception has left the loop of l: `firing' stays for ever.
Stuck(l) == /\ callbacks[l].firing
            /\ \A i \in DOMAIN stack : stack[i] # Loop(l)

Quiet == stack = <<>> /\ tasks = <<>>

Kinds(d) == {k \in {"resolve", "reject"} : state[d] = Final(k)}

\* done and fail: once the deferred is settled its functions have been called
\* with its value, each once, in the order of their adds, and those of
\* the other outcome never - whoever adds or settles from within them.  Only an
\* exception keeps some from being called.
CallbacksInOrder ==
  \A d \in Deferred : \A k \in {"resolve", "reject"} :
    LET l == <<d, k>>
    IN /\ \A i \in DOMAIN seen.log[l] :
            /\ k \in Kinds(d)
            /\ seen.log[l][i] = <<i, callbacks[l].memory>>
       /\ stack = <<>> /\ k \in Kinds(d) /\ ~Stuck(l)
            => Len(seen.log[l]) = seen.adds[l]

\* Callbacks: a function that was added once is called once with a value,
\* though "memory" calls those that come late.
NeverTwice ==
  LET log == seen.log[UserList]
  IN \A i, j \in DOMAIN log : log[i] = log[j] => i = j

\* Callbacks: remove moves the list under the loop, and still the loop passes
\* over nobody.  (empty within the loop is another matter: those that are added
\* afterwards can be passed over.)
NobodyPassedOver ==
  LET c == callbacks[UserList]
  IN c.firing /\ ~seen.emptied /\ c.memory # None =>
       \A i \in (1..c.index) \cap DOMAIN c.list :
         \E j \in DOMAIN seen.log[UserList] :
           seen.log[UserList][j] = <<c.list[i].n, c.memory>>

\* Callbacks: "once" lists are fired once, so all calls are of one value.
OnceIsOnce ==
  "once" \in page.options /\ page.has = "list" =>
    \A i, j \in DOMAIN seen.log[UserList] :
      seen.log[UserList][i][2] = seen.log[UserList][j][2]

\* progress: once the deferred has settled its progress functions are told
\* nothing new, even if one of them has settled it while values waited; those
\* that come late are told the last value again.
ProgressStops ==
  [][\A d \in Deferred : Kinds(d) # {} =>
       LET l == <<d, "notify">>
       IN \A i \in DOMAIN seen'.log[l] \ DOMAIN seen.log[l] :
            seen'.log[l][i][2] = seen.told[d]]_vars

\* The outcome of d, None while it has none.
OutcomeIfAny(d) ==
  IF Kinds(d) = {} THEN None
  ELSE LET k == CHOOSE k \in Kinds(d) : TRUE
       IN <<state[d], callbacks[<<d, k>>].memory>>

\* A promise that is resolved with a promise stands for that one.
Unwrapped(o) ==
  IF o[1] = "resolved" /\ o[2].is = "promise" THEN OutcomeIfAny(o[2].n) ELSE o

\* then: when nothing is left to do, the promise it has returned is what the
\* resolution procedure of Promises/A+ says: the result or the error of its
\* handler, or what the promise or the first call of the thenable
\* that the handler returned has become.  depth and maxDepth see to that.
ThenFollows ==
  Quiet => \A d \in Deferred :
    LET f == seen.follow[d]
    IN /\ f # None
       /\ f.how = "promise" /\ Kinds(f.v.n) # {} =>
            OutcomeIfAny(f.v.n)[2].is # "promise"
    =>
      OutcomeIfAny(d) = CASE f.how = "thenable" -> None
                          [] f.how = "promise"  -> OutcomeIfAny(f.v.n)
                          [] OTHER              -> <<f.how, f.v>>

\* when: the answer is resolved once all arguments are, with their values in
\* the order of the arguments; it is rejected once one of them is; else it
\* is pending.  A single argument is followed, and if it is resolved with a
\* promise, that one is.  The loop an exception has left tells nobody.
WhenFollows ==
  Quiet /\ joined.answer # Nobody =>
    LET EndOf(v)   == IF v.is = "promise" THEN OutcomeIfAny(v.n)
                      ELSE <<"resolved", v>>
        ends       == [i \in 1..Arguments |-> EndOf(joined.args[i])]
        rejections == {i \in 1..Arguments :
                         ends[i] # None /\ ends[i][1] = "rejected"}
        answer     == OutcomeIfAny(joined.answer)
    IN (\A l \in ListId : ~Stuck(l)) =>
         CASE Arguments = 0 -> answer = <<"resolved", Undefined>>
           [] Arguments = 1 ->
                \/ answer = IF ends[1] = None THEN None ELSE Unwrapped(ends[1])
                \/ ends[1] = <<"resolved", PromiseOf(joined.answer)>>
                     /\ answer = <<"rejected", TypeError>>
                \/ Unwrapped(ends[1])[2].is = "promise"
           [] rejections # {} -> \E i \in rejections : answer = ends[i]
           [] \E i \in 1..Arguments : ends[i] = None -> answer = None
           [] OTHER -> /\ answer = <<"resolved", Values>>
                       /\ \A i \in 1..Arguments :
                            joined.values[i - 1] = ends[i][2]

\* ready: functions run neither before the document is there nor while
\* somebody holds them back (readyWait).
ReadyIsNotEarly ==
  [][page.has = "ready" /\ state[1] = "pending" /\ state'[1] = "resolved"
       => readiness.isReady /\ readiness.holds = 0
          /\ (readiness.events > 0)]_vars

\* ready: and they do run once it is, and the last hold is released.
ReadyComes ==
  page.has = "ready" /\ Quiet /\ readiness.events = 2 /\ readiness.holds = 0
    => state[1] = "resolved"

\* Promises/A+, for the reactions that then asks for.
A == INSTANCE Promises WITH
       Promise <- Deferred,
       Outcome <- {"resolved", "rejected"} \X Value,
       Reaction <- 0..MaxDeferred,
       Unsettled <- None,
       outcome <- [d \in Deferred |-> OutcomeIfAny(d)],
       reactions <- seen.thens,
       ran <- seen.ran

\* then implements that contract: one outcome, and for each promise its
\* reactions with this outcome, in order, each once, all of them in the end.
ImplementsPromises == A!Spec

\* Callbacks and done, fail, progress: all functions are called, in order, once
\* for a value, whatever they themselves do to the list.
CallbacksRun ==
  /\ [](TypeOK /\ CallbacksInOrder /\ NeverTwice /\ NobodyPassedOver
          /\ OnceIsOnce)
  /\ ProgressStops

\* ready: neither early nor never.
ReadyInTime == []ReadyComes /\ ReadyIsNotEarly
=============================================================================
