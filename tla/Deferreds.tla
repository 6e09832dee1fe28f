----------------------------- MODULE Deferreds -----------------------------
(***************************************************************************)
(* jQuery.Deferred with then, pipe, always, when and ready, over the lists *)
(* of Callbacks.  JavaScript runs to completion, but the functions that a  *)
(* list calls may call every method again: `stack' holds the calls that    *)
(* are under way, innermost last.  A step is one turn of the innermost.    *)
(*                                                                         *)
(* `page' says what the scripts of the page use: one list of their own, a  *)
(* few deferreds, when, or ready.  Values are reduced to who made them.    *)
(* Each deferred d has for each kind a list of callbacks and one of the    *)
(* handlers of then, whose functions only set timers and so run at once.   *)
(*                                                                         *)
(* Bounds: MaxDeferred deferreds, and page.calls calls by the scripts.     *)
(***************************************************************************)
EXTENDS Callbacks, Integers

CONSTANTS Page, MaxDeferred, Function

ASSUME DeferredAssumption ==
  /\ MaxDeferred \in Nat
  /\ \A p \in Page : /\ p.has \in {"list", "done", "then", "progress", "pipe",
                                 "when", "ready"}
                     /\ p.options \subseteq Option
                     /\ p.roots \in 0..p.makes /\ p.makes \in 0..MaxDeferred
                     /\ p.calls \in Nat
                     /\ p.has = "ready" => p.roots = 1
  /\ None \notin [is : {"undefined", "false", "data", "error", "promise",
                         "thenable", "values"}, n : Int]
  /\ None \notin {"resolved", "rejected"} \X [is : {"undefined", "false",
       "data", "error", "promise", "thenable", "values"}, n : Int]

Kind     == {"notify", "resolve", "reject"}
Deferred == 1..MaxDeferred
Nobody   == 0                       \* the deferred of a then nobody listens to
UserList == <<Nobody, "resolve">>   \* the list of the page, if it makes one
ListId   == (Deferred \X Kind) \cup {UserList}

VARIABLES page,
          calls,      \* how many calls the scripts have made
          callbacks,  \* [ListId -> list]
          handlers,   \* [ListId -> list]
          state,      \* [Deferred -> unborn, pending, resolved or rejected]
          maxDepth,   \* [Deferred -> Nat]: of the then that made it
          stack,      \* calls under way
          tasks,      \* what setTimeout will run, in this order
          held,       \* functions that were handed to a foreign then
          joined,     \* the one call of when
          readiness,  \* readyWait, isReady, and the state of the document
          seen        \* history, for the properties only

vars == <<page, calls, callbacks, handlers, state, maxDepth, stack, tasks,
          held, joined, readiness, seen>>

fixed == <<page, maxDepth, held, readiness>>   \* what few steps change
inner == <<handlers, state, tasks>>

-----------------------------------------------------------------------------
(* Values.                                                                 *)

Undefined   == [is |-> "undefined", n |-> 0]
No          == [is |-> "false", n |-> 0]
Data(n)     == [is |-> "data", n |-> n]
Error(n)    == [is |-> "error", n |-> n]
TypeError   == Error(0)
PromiseOf(d) == [is |-> "promise", n |-> d]
Thenable    == [is |-> "thenable", n |-> 0]
Values      == [is |-> "values", n |-> 0]     \* those that when collects

(* Functions in a list: what they do, for which deferred and kind, and for *)
(* those of a script which one (f) and the number of the add (n).          *)

Entry(do, d, k) == [do |-> do, d |-> d, k |-> k, f |-> 0, n |-> 0]
User(f, n)      == [do |-> "user", d |-> Nobody, k |-> "resolve",
                    f |-> f, n |-> n]

(* The handlers of then: Identity, Thrower, a function of the page, or     *)
(* what resolve() of an outer then has returned.                           *)

Identity  == [h |-> "identity"]
Thrower   == [h |-> "thrower"]
Script    == [h |-> "script"]
Inner(fn) == [h |-> "inner", fn |-> fn]

\* What resolve(depth, deferred, handler, special) returns.
Resolve(depth, d, h, special) ==
  [depth |-> depth, d |-> d, h |-> h, special |-> special]

-----------------------------------------------------------------------------
Other(k) == IF k = "resolve" THEN "reject" ELSE "resolve"
Final(k) == IF k = "resolve" THEN "resolved" ELSE "rejected"

\* mutant: those who come after the outcome are told nothing
OptionsOnce(k) == IF k = "notify" THEN {} ELSE {"once"}

Options(k) == IF k = "notify" THEN {"memory"} ELSE {"once", "memory"}

\* mutant: the other outcome stays possible
ListenersOnly(d, k) ==
  IF k = "notify" THEN <<Entry("handlers", d, k)>>
  ELSE <<Entry("state", d, k), Entry("lock", d, "notify"),
         Entry("handlers", d, k)>>

\* The functions a list of a deferred has from the start.
Listeners(d, k) ==
  IF k = "notify" THEN <<Entry("handlers", d, k)>>
  ELSE <<Entry("state", d, k), Entry("disable", d, Other(k)),
         Entry("lock", d, "notify"), Entry("handlers", d, k)>>

NoWhen == [master |-> Nobody, remaining |-> 0, args |-> <<>>,
           values |-> <<>>, answer |-> Nobody]

Init ==
  /\ page \in Page
  /\ calls = 0
  /\ callbacks = [l \in ListId |->
       IF l = UserList THEN New(page.options)
       ELSE [New(Options(l[2])) EXCEPT !.list = Listeners(l[1], l[2])]]
  /\ handlers = [l \in ListId |-> New(Options(l[2]))]
  /\ state = [d \in Deferred |->
                IF d <= page.roots THEN "pending" ELSE "unborn"]
  /\ maxDepth = [d \in Deferred |-> 0]
  /\ stack = <<>>
  /\ held = {}
  /\ joined = NoWhen
  /\ \E loaded \in BOOLEAN :
       /\ loaded => page.has = "ready"
       /\ readiness = [wait |-> 1, isReady |-> FALSE, holds |-> 0,
                       events |-> IF loaded THEN 2 ELSE 0,
                       listening |-> ~loaded]
       /\ tasks = IF loaded THEN <<[do |-> "ready"]>> ELSE <<>>
  /\ seen = [log |-> [l \in ListId |-> <<>>],
             adds |-> [l \in ListId |-> 0],
             follow |-> [d \in Deferred |-> None],
             told |-> [d \in Deferred |-> None],
             thens |-> [d \in Deferred |-> <<>>],
             ran |-> [d \in Deferred |-> <<>>],
             emptied |-> FALSE]

-----------------------------------------------------------------------------
(* The stack.                                                              *)

Code      == [at |-> "code"]                      \* a function of the page
Loop(l)   == [at |-> "loop", l |-> l]             \* fire
Process(fn, v) ==                                 \* process of then
  [at |-> "process", fn |-> fn, v |-> v, step |-> "call"]
Adds(todo) == [at |-> "adds", todo |-> todo]      \* done(..).fail(..)
Pipe(d, k) == [at |-> "pipe", d |-> d, k |-> k]   \* the function of pipe
When(i, step) == [at |-> "when", i |-> i, step |-> step]

Running(at) == stack # <<>> /\ stack[Len(stack)].at = at
Top       == stack[Len(stack)]
Callers   == SubSeq(stack, 1, Len(stack) - 1)
Become(f) == Append(Callers, f)

\* List l becomes c; its loop is called if the method started it.
Start(l, c) == IF c.firing /\ ~callbacks[l].firing THEN <<Loop(l)>> ELSE <<>>

Apply(l, c, frames) ==
  /\ callbacks' = [callbacks EXCEPT ![l] = c]
  /\ stack' = frames \o Start(l, c)

\* Only the processes of resolve and reject have a try; in their catch, the
\* next exception is not theirs.
Catchers == {i \in DOMAIN stack : /\ stack[i].at = "process"
                                  /\ ~stack[i].fn.special
                                  /\ stack[i].step # "caught"}

Catcher == CHOOSE i \in Catchers : \A j \in Catchers : j <= i

\* History: the handler of this then has failed, or the foreign thenable it
\* returned, before that called anything.
Failed(p) ==
  /\ p.fn.d # Nobody
  /\ \/ p.fn.depth = 0 /\ p.step \in {"call", "wait", "got"}
     \/ /\ p.step = "done"
        /\ seen.follow[p.fn.d] = [how |-> "thenable",
                                  v |-> Data(p.fn.depth + 1)]

\* An exception leaves every call up to the next catch.  The loops it
\* leaves keep `firing'.
Throw(e) ==
  IF Catchers = {} THEN stack' = <<>> /\ seen' = seen
  ELSE LET p == stack[Catcher]
       IN /\ stack' = Append(SubSeq(stack, 1, Catcher - 1),
                             [p EXCEPT !.step = "threw", !.v = e])
          /\ seen' = IF Failed(p)
                     THEN [seen EXCEPT !.follow[p.fn.d] =
                             [how |-> "rejected", v |-> e]]
                     ELSE seen

Unborn == {d \in Deferred : state[d] = "unborn"}
Born   == Deferred \ Unborn
Fresh  == CHOOSE d \in Unborn : \A e \in Unborn : d <= e

-----------------------------------------------------------------------------
(* The handlers of then.  resolve() of depth 0 does nothing but set a      *)
(* timer, so a list of handlers is fired in one step.                      *)

Fired(c) == IF c.firing THEN Finish(c) ELSE c

\* The timers that c sets for the promise of e, having been fired with k.
Timers(e, k, c) ==
  IF ~c.firing THEN <<>>
  ELSE [i \in 1..(Len(c.list) - c.index) |->
          [do |-> "process", of |-> e, k |-> k,
           fn |-> c.list[c.index + i].fn, v |-> c.memory]]

\* on[k] is the handler for each kind; the last argument is newDefer.
Handler(c, k, on, d) ==
  Add(c, [fn |-> Resolve(0, d, on[k], k = "notify")])

HandlersAfter(hs, e, on, d) ==
  [l \in ListId |-> IF l[1] = e THEN Fired(Handler(hs[l], l[2], on, d))
                    ELSE hs[l]]

TimersOf(hs, e, on, d) ==
  LET Of(k) == Timers(e, k, Handler(hs[<<e, k>>], k, on, d))
  IN Of("notify") \o Of("resolve") \o Of("reject")

Then(e, on, d) ==
  /\ handlers' = HandlersAfter(handlers, e, on, d)
  /\ tasks' = tasks \o TimersOf(handlers, e, on, d)

-----------------------------------------------------------------------------
(* The functions a list calls.  Each says what becomes of `lists', which   *)
(* is callbacks after the loop has moved on, and of `frames', the stack.   *)

InvokeState(e, lists, frames) ==
  /\ e.do = "state"
  /\ state' = [state EXCEPT ![e.d] = Final(e.k)]
  /\ seen' = [seen EXCEPT !.told[e.d] =
                               callbacks[<<e.d, "notify">>].memory]
  /\ callbacks' = lists /\ stack' = frames
  /\ UNCHANGED <<handlers, tasks, joined>>

InvokeDisable(e, lists, frames) ==
  /\ e.do = "disable"
  /\ callbacks' = [lists EXCEPT ![<<e.d, e.k>>] = Disable(@)]
  /\ stack' = frames
  /\ UNCHANGED <<inner, joined, seen>>

InvokeLock(e, lists, frames) ==
  /\ e.do = "lock"
  /\ callbacks' = [lists EXCEPT ![<<e.d, e.k>>] = Lock(@)]
  /\ stack' = frames
  /\ UNCHANGED <<inner, joined, seen>>

InvokeHandlers(e, v, lists, frames) ==
  /\ e.do = "handlers"
  /\ LET l == <<e.d, e.k>>
         c == FireWith(handlers[l], v)
     IN /\ handlers' = [handlers EXCEPT ![l] = Fired(c)]
        /\ tasks' = tasks \o Timers(e.d, e.k, c)
  /\ callbacks' = lists /\ stack' = frames
  /\ UNCHANGED <<state, joined, seen>>

\* A function of the page; l is the list that calls it.
InvokeScript(e, v, l, lists, frames) ==
  /\ e.do = "user"
  /\ callbacks' = lists /\ stack' = Append(frames, Code)
  /\ seen' = [seen EXCEPT !.log[l] = Append(@, <<e.n, v>>)]
  /\ UNCHANGED <<inner, joined>>

Fire(l, v, lists, frames) ==
  LET c == FireWith(lists[l], v)
  IN /\ callbacks' = [lists EXCEPT ![l] = c]
     /\ stack' = frames \o (IF c.firing /\ ~lists[l].firing
                            THEN <<Loop(l)>> ELSE <<>>)

\* resolve, reject or notify of another deferred.
InvokeSettle(e, v, lists, frames) ==
  /\ e.do = "settle"
  /\ Fire(<<e.d, e.k>>, v, lists, frames)
  /\ UNCHANGED <<inner, joined, seen>>

\* The function that pipe adds, with a function of the page to call first.
InvokePipe(e, lists, frames) ==
  /\ e.do = "pipe"
  /\ callbacks' = lists /\ stack' = frames \o <<Pipe(e.d, e.k), Code>>
  /\ UNCHANGED <<inner, joined, seen>>

\* mutant: the order of arrival, not the place of the argument
UpdateByArrival(i, v) ==
  [joined EXCEPT !.values[Len(joined.args) - joined.remaining] = v,
                 !.remaining = @ - 1]

\* What updateFunc(i) leaves.
Update(i, v) == [joined EXCEPT !.values[i] = v, !.remaining = @ - 1]

InvokeUpdate(e, v, lists, frames) ==
  /\ e.do = "update"
  /\ joined' = Update(e.n, v)
  /\ IF joined'.remaining = 0
     THEN Fire(<<joined.master, "resolve">>, Values, lists, frames)
     ELSE callbacks' = lists /\ stack' = frames
  /\ UNCHANGED <<inner, seen>>

Invoke(e, v, l, lists, frames) ==
  \/ InvokeState(e, lists, frames)
  \/ InvokeDisable(e, lists, frames)
  \/ InvokeLock(e, lists, frames)
  \/ InvokeHandlers(e, v, lists, frames)
  \/ InvokeScript(e, v, l, lists, frames)
  \/ InvokeSettle(e, v, lists, frames)
  \/ InvokePipe(e, lists, frames)
  \/ InvokeUpdate(e, v, lists, frames)

-----------------------------------------------------------------------------
(* fire: the loop over one list.                                           *)

CallNext ==
  /\ Running("loop")
  /\ LET l == Top.l
         c == callbacks[l]
     IN /\ Pending(c)
        /\ Invoke(Current(c), c.memory, l,
                  [callbacks EXCEPT ![l] = Advance(c)], stack)
  /\ UNCHANGED <<fixed, calls>>

EndLoop ==
  /\ Running("loop")
  /\ LET l == Top.l
         c == callbacks[l]
     IN /\ ~Pending(c)
        /\ IF c.queue # <<>>
           THEN callbacks' = [callbacks EXCEPT ![l] = NextValue(c)]
                /\ stack' = stack
           ELSE callbacks' = [callbacks EXCEPT ![l] = Finish(c)]
                /\ stack' = Callers
  /\ UNCHANGED <<fixed, inner, calls, joined, seen>>

\* done(..).fail(..) and the like: one add after the other.
AddNext ==
  /\ Running("adds")
  /\ LET l    == Head(Top.todo)[1]
         rest == Tail(Top.todo)
     IN Apply(l, Add(callbacks[l], Head(Top.todo)[2]),
              IF rest = <<>> THEN Callers ELSE Become(Adds(rest)))
  /\ UNCHANGED <<fixed, inner, calls, joined, seen>>


-----------------------------------------------------------------------------
(* process: what a handler's timer runs.                                   *)

\* History: what becomes of newDefer when its handler has given v, as the
\* resolution procedure of Promises/A+ says; m is the depth that follows.
Follow(d, v, m) ==
  IF v = PromiseOf(d) THEN [how |-> "rejected", v |-> TypeError]
  ELSE IF v.is = "promise" THEN [how |-> "promise", v |-> v]
  ELSE IF v = Thenable THEN [how |-> "thenable", v |-> Data(m)]
  ELSE [how |-> "resolved", v |-> v]

Threw(e) == [how |-> "rejected", v |-> e]

At(step) == Running("process") /\ Top.step = step

Goes(step) == [Top EXCEPT !.step = step]

\* mutant: a thenable may call resolve and reject as often as it likes
NeverStale == FALSE

\* A resolution that a later one has overtaken.
Stale == Top.fn.d # Nobody /\ Top.fn.depth < maxDepth[Top.fn.d]

IgnoreStale ==
  /\ At("call") /\ Stale
  /\ stack' = Callers
  /\ UNCHANGED <<fixed, inner, calls, callbacks, joined, seen>>

CallHandler ==
  /\ At("call") /\ ~Stale
  /\ LET h == Top.fn.h
     IN \/ /\ h = Identity
           /\ stack' = Become(Goes("got")) /\ UNCHANGED seen
        \/ /\ h = Thrower
           /\ Throw(Top.v)
        \/ /\ h = Script
           /\ stack' = Append(Become(Goes("wait")), Code) /\ UNCHANGED seen
        \/ /\ h.h = "inner"
           /\ stack' = Append(Become([Goes("got") EXCEPT !.v = Undefined]),
                              Process(h.fn, Top.v))
           /\ UNCHANGED seen
  /\ UNCHANGED <<fixed, inner, calls, callbacks, joined>>

\* The functions a returned thenable is given, and the depth they belong to.
NextDepth(fn) == maxDepth[fn.d] + (IF fn.special THEN 0 ELSE 1)

Resolvers(fn) ==
  LET m == NextDepth(fn)
  IN [resolve |-> Resolve(m, fn.d, Identity, fn.special),
      reject  |-> Resolve(m, fn.d, Thrower, fn.special),
      notify  |-> Resolve(m, fn.d, Identity, TRUE)]

Inners(fn) ==
  LET r == Resolvers(fn)
  IN [resolve |-> Inner(r.resolve), reject |-> Inner(r.reject),
      notify  |-> IF fn.special THEN Identity ELSE Inner(r.notify)]

Learn(fn, v) ==
  IF fn.depth = 0 /\ ~fn.special
  THEN [seen EXCEPT !.follow[fn.d] = Follow(fn.d, v, NextDepth(fn))]
  ELSE seen

\* A handler of Nobody's then is an inner one, and returns nothing.
GotNothing ==
  /\ At("got") /\ Top.fn.d = Nobody
  /\ stack' = Callers
  /\ UNCHANGED <<fixed, inner, calls, callbacks, joined, seen>>

GotItself ==
  /\ At("got") /\ Top.fn.d # Nobody /\ Top.v = PromiseOf(Top.fn.d)
  /\ Throw(TypeError)
  /\ UNCHANGED <<fixed, inner, calls, callbacks, joined>>

\* A promise of jQuery: its own then is called.
GotPromise ==
  /\ At("got") /\ Top.fn.d # Nobody
  /\ Top.v.is = "promise" /\ Top.v.n # Top.fn.d
  /\ maxDepth' = [maxDepth EXCEPT ![Top.fn.d] = NextDepth(Top.fn)]
  /\ Then(Top.v.n, Inners(Top.fn), Nobody)
  /\ stack' = Become(Goes("done"))
  /\ seen' = [Learn(Top.fn, Top.v) EXCEPT
                !.thens[Top.v.n] = Append(@, Nobody)]
  /\ UNCHANGED <<page, calls, callbacks, state, held, joined, readiness>>

\* Any other thenable: its then is code of the page, which keeps resolve
\* and reject for later or for several calls.
GotThenable ==
  /\ At("got") /\ Top.fn.d # Nobody /\ Top.v = Thenable
  /\ maxDepth' = [maxDepth EXCEPT ![Top.fn.d] = NextDepth(Top.fn)]
  /\ LET r == Resolvers(Top.fn)
     IN held' = held \cup {r.resolve, r.reject}
                     \cup (IF Top.fn.special THEN {} ELSE {r.notify})
  /\ stack' = Append(Become(Goes("done")), Code)
  /\ seen' = Learn(Top.fn, Top.v)
  /\ UNCHANGED <<inner, page, calls, callbacks, joined, readiness>>

GotValue ==
  /\ At("got") /\ Top.fn.d # Nobody
  /\ Top.v.is \notin {"promise", "thenable"}
  /\ Fire(<<Top.fn.d, IF Top.fn.special THEN "notify" ELSE "resolve">>,
          Top.v, callbacks, Become(Goes("done")))
  /\ seen' = Learn(Top.fn, Top.v)
  /\ UNCHANGED <<fixed, inner, calls, joined>>

\* Exceptions after the resolution are ignored.
Catch ==
  /\ At("threw")
  /\ IF Top.fn.d # Nobody /\ Top.fn.depth + 1 >= maxDepth[Top.fn.d]
     THEN Fire(<<Top.fn.d, "reject">>, Top.v, callbacks,
               Become(Goes("caught")))
     ELSE callbacks' = callbacks /\ stack' = Callers
  /\ UNCHANGED <<fixed, inner, calls, joined, seen>>

EndProcess ==
  /\ At("done") \/ At("caught")
  /\ stack' = Callers
  /\ UNCHANGED <<fixed, inner, calls, callbacks, joined, seen>>


-----------------------------------------------------------------------------
(* when.                                                                   *)

\* adoptValue(value, resolve, reject): a promise is listened to, anything
\* else resolves at once.
Adopt(v, resolve, reject, frames) ==
  IF v.is = "promise"
  THEN /\ stack' = Append(frames, Adds(<<<<<<v.n, "resolve">>, resolve>>,
                                         <<<<v.n, "reject">>, reject>>>>))
       /\ UNCHANGED <<inner, callbacks, joined, seen>>
  ELSE Invoke(resolve, v, UserList, callbacks, frames)

RejectMaster == Entry("settle", joined.master, "reject")
UpdateAt(i)  == [Entry("update", joined.master, "resolve") EXCEPT !.n = i]
Arguments    == Len(joined.args)

\* One argument or none: the master follows it.
WhenSingle ==
  /\ Running("when") /\ Top.step = "single"
  /\ Adopt(joined.values[0], Entry("settle", joined.master, "resolve"),
           RejectMaster, Become(When(Top.i, "decide")))
  /\ UNCHANGED <<fixed, calls>>

\* If it is not settled yet, or with a thenable, then() unwraps it.
WhenDecide ==
  /\ Running("when") /\ Top.step = "decide"
  /\ IF \/ state[joined.master] = "pending"
        \/ joined.values[Top.i].is \in {"promise", "thenable"}
     THEN /\ Unborn # {}
          /\ Then(joined.master, [notify |-> Identity, resolve |-> Identity,
                                  reject |-> Thrower], Fresh)
          /\ state' = [state EXCEPT ![Fresh] = "pending"]
          /\ seen' = [seen EXCEPT !.thens[joined.master] = Append(@, Fresh)]
          /\ joined' = [joined EXCEPT !.answer = Fresh]
          /\ stack' = Callers
     ELSE /\ stack' = Become(When(Top.i, "loop"))
          /\ UNCHANGED <<inner, joined, seen>>
  /\ UNCHANGED <<fixed, calls, callbacks>>

\* Several arguments, the last one first.
WhenNext ==
  /\ Running("when") /\ Top.step = "loop"
  /\ IF Top.i = 0
     THEN /\ joined' = [joined EXCEPT !.answer = joined.master]
          /\ stack' = Callers
          /\ UNCHANGED <<inner, callbacks, seen>>
     ELSE Adopt(joined.values[Top.i - 1], UpdateAt(Top.i - 1), RejectMaster,
                Become(When(Top.i - 1, "loop")))
  /\ UNCHANGED <<fixed, calls>>

-----------------------------------------------------------------------------
(* What the code of the page may do.                                       *)

May(has) == /\ Running("code") /\ page.has \in has
            /\ calls < page.calls /\ calls' = calls + 1

\* done, fail, progress, or add of the page's own list.
CallAdd ==
  /\ May({"list", "done", "pipe"})
  /\ \E l \in ListId, f \in Function :
       /\ IF page.has = "list" THEN l = UserList
          ELSE l[1] \in Born /\ f = Nobody
       /\ LET n == seen.adds[l] + 1
          IN /\ Apply(l, Add(callbacks[l], User(f, n)), stack)
             /\ seen' = [seen EXCEPT !.adds[l] = n]
  /\ UNCHANGED <<fixed, inner, joined>>

\* remove, empty, disable, lock of the page's own list.
CallMethod ==
  /\ May({"list"})
  /\ LET c == callbacks[UserList]
     IN \/ /\ \E f \in Function : Apply(UserList, Remove(c, User(f, 0)), stack)
           /\ UNCHANGED seen
        \/ /\ Apply(UserList, Empty(c), stack)
           /\ seen' = [seen EXCEPT !.emptied = @ \/ c.firing]
        \/ Apply(UserList, Disable(c), stack) /\ UNCHANGED seen
        \/ Apply(UserList, Lock(c), stack) /\ UNCHANGED seen
  /\ UNCHANGED <<fixed, inner, joined>>

\* Promises that d may be resolved with on the page of when, none of which
\* waits for d: a circle of promises is unwrapped for ever.
Knowns(d) == IF page.has = "when"
             THEN {e \in (1..page.roots) \cup {joined.answer} : e > d} ELSE {}

\* fire, or resolve, reject and notify of a deferred the page has made.
CallFire ==
  /\ May({"list", "done", "then", "progress", "pipe", "when"})
  /\ \E l \in ListId :
       \E v \in {Data(calls')} \cup {PromiseOf(d) : d \in Knowns(l[1])} :
         /\ IF page.has = "list" THEN l = UserList ELSE l[1] \in 1..page.roots
         /\ page.has \in {"then", "when"} => l[2] # "notify"
         /\ Apply(l, FireWith(callbacks[l], v), stack)
  /\ UNCHANGED <<fixed, inner, joined, seen>>

CallAlways ==
  /\ May({"done"})
  /\ \E d \in Born :
       /\ seen' = [seen EXCEPT !.adds[<<d, "resolve">>] = @ + 1,
                               !.adds[<<d, "reject">>] = @ + 1]
       /\ LET U(k) == User(Nobody, seen'.adds[<<d, k>>])
          IN stack' = Append(stack,
               Adds(<<<<<<d, "resolve">>, U("resolve")>>,
                      <<<<d, "reject">>, U("reject")>>>>))
  /\ UNCHANGED <<fixed, inner, callbacks, joined>>

\* then, and catch, which is then without the first handler.
CallThen ==
  /\ May({"then", "progress", "pipe"})
  /\ Cardinality(Born) < page.makes
  /\ \E e \in Born, hd \in {Identity, Script}, hf \in {Thrower, Script} :
       /\ Script \in {hd, hf} \/ page.has # "then"
       /\ LET hp == IF page.has = "progress" THEN Script ELSE Identity
          IN Then(e, [resolve |-> hd, reject |-> hf, notify |-> hp], Fresh)
       /\ seen' = [seen EXCEPT !.thens[e] = Append(@, Fresh)]
  /\ state' = [state EXCEPT ![Fresh] = "pending"]
  /\ UNCHANGED <<fixed, callbacks, stack, joined>>

\* pipe, with a function for done, for fail, or for both.
CallPipe ==
  /\ May({"pipe"})
  /\ Cardinality(Born) < page.makes
  /\ \E e \in Born, fns \in (SUBSET {"resolve", "reject"}) \ {{}} :
       LET To(k) == <<<<e, k>>, Entry(IF k \in fns THEN "pipe" ELSE "settle",
                                      Fresh, k)>>
       IN stack' = Append(stack,
                     Adds(<<To("notify"), To("resolve"), To("reject")>>))
  /\ state' = [state EXCEPT ![Fresh] = "pending"]
  /\ UNCHANGED <<fixed, callbacks, handlers, tasks, joined, seen>>

\* A foreign thenable calls a function it was given.
CallHeld ==
  /\ May({"then", "progress"})
  /\ \E fn \in held, v \in {Data(calls')} \cup {PromiseOf(d) : d \in Born} :
       /\ stack' = Append(stack, Process(fn, v))
       /\ seen' = IF /\ ~fn.special
                     /\ seen.follow[fn.d] = [how |-> "thenable",
                                             v |-> Data(fn.depth)]
                  THEN [seen EXCEPT !.follow[fn.d] =
                          IF fn.h = Thrower THEN Threw(v)
                          ELSE Follow(fn.d, v, fn.depth + 1)]
                  ELSE seen
  /\ UNCHANGED <<fixed, inner, callbacks, joined>>

\* when, once: of no argument, one or two.
CallWhen ==
  /\ May({"when"})
  /\ joined = NoWhen /\ Unborn # {}
  /\ \E n \in 0..2 :
       \E args \in [1..n -> {Data(calls')} \cup
                            {PromiseOf(d) : d \in 1..page.roots}] :
         /\ joined' = [master |-> Fresh, remaining |-> n, answer |-> Nobody,
                       args |-> args,
                       values |-> [i \in 0..n |-> IF i < n THEN args[i + 1]
                                                  ELSE Undefined]]
         /\ stack' = Append(stack, When(n, IF n > 1 THEN "loop"
                                              ELSE "single"))
         /\ LET l == <<Fresh, "resolve">>
                update == [Entry("update", Fresh, "resolve") EXCEPT !.n = n]
            IN callbacks' = IF n <= 1
                            THEN [callbacks EXCEPT ![l] = Add(@, update)]
                            ELSE callbacks
  /\ state' = [state EXCEPT ![Fresh] = "pending"]
  /\ UNCHANGED <<fixed, handlers, tasks, seen>>


-----------------------------------------------------------------------------
(* The ready event.  Deferred 1 is readyList of such a page.               *)

\* ready(fn): then(fn), and a catch on what that returns.
CallReady ==
  /\ May({"ready"})
  /\ Cardinality(Born) + 1 < page.makes
  /\ LET d  == Fresh
         e  == CHOOSE e \in Unborn \ {d} : \A g \in Unborn \ {d} : e <= g
         on == [resolve |-> Script, reject |-> Thrower, notify |-> Identity]
         or == [resolve |-> Identity, reject |-> Script, notify |-> Identity]
         hs == HandlersAfter(handlers, 1, on, d)
     IN /\ handlers' = HandlersAfter(hs, d, or, e)
        /\ tasks' = tasks \o TimersOf(handlers, 1, on, d)
                            \o TimersOf(hs, d, or, e)
        /\ state' = [state EXCEPT ![d] = "pending", ![e] = "pending"]
        /\ seen' = [seen EXCEPT !.thens[1] = Append(@, d),
                                !.thens[d] = Append(@, e)]
  /\ UNCHANGED <<fixed, callbacks, stack, joined>>

ResolveReady(frames) ==
  Apply(<<1, "resolve">>, FireWith(callbacks[<<1, "resolve">>], Undefined),
        frames)

\* mutant: holds are not asked for
ReadyAtOnce(r) ==
  IF r.isReady THEN readiness' = r /\ UNCHANGED callbacks /\ stack' = <<>>
  ELSE /\ readiness' = [r EXCEPT !.isReady = TRUE, !.wait = @ - 1]
       /\ ResolveReady(<<>>)

\* mutant: a ready that has to wait leaves no trace
ReadyForgetful(r) ==
  IF r.isReady \/ r.wait > 1
  THEN readiness' = r /\ UNCHANGED callbacks /\ stack' = <<>>
  ELSE /\ readiness' = [r EXCEPT !.isReady = TRUE, !.wait = @ - 1]
       /\ ResolveReady(<<>>)

\* ready(), where r is readiness: once, and if nothing holds it back.
Ready(r) ==
  IF r.isReady THEN readiness' = r /\ UNCHANGED callbacks /\ stack' = <<>>
  ELSE /\ readiness' = [r EXCEPT !.isReady = TRUE, !.wait = @ - 1]
       /\ IF r.wait > 1 THEN UNCHANGED callbacks /\ stack' = <<>>
          ELSE ResolveReady(<<>>)

\* holdReady(true), and holdReady(false) that calls ready(true).  A page
\* releases what it holds and no more.
CallHold ==
  /\ May({"ready"})
  /\ \/ /\ readiness' = [readiness EXCEPT !.wait = @ + 1, !.holds = @ + 1]
        /\ UNCHANGED <<callbacks, stack>>
     \/ /\ readiness.holds > 0
        /\ LET last == readiness.wait = 1
           IN /\ readiness' = [readiness EXCEPT
                                 !.wait = @ - 1, !.holds = @ - 1,
                                 !.isReady = @ \/ last]
              /\ IF last THEN ResolveReady(stack)
                 ELSE UNCHANGED <<callbacks, stack>>
  /\ UNCHANGED <<inner, page, maxDepth, held, joined, seen>>

\* DOMContentLoaded, then load: completed takes itself from both.
DocumentEvent ==
  /\ stack = <<>> /\ page.has = "ready" /\ readiness.events < 2
  /\ IF readiness.listening
     THEN Ready([readiness EXCEPT !.events = @ + 1, !.listening = FALSE])
     ELSE /\ readiness' = [readiness EXCEPT !.events = @ + 1]
          /\ UNCHANGED <<callbacks, stack>>
  /\ UNCHANGED <<inner, page, calls, maxDepth, held, joined, seen>>

-----------------------------------------------------------------------------
(* Functions of the page begin, return and throw.                          *)

Caller == stack[Len(stack) - 1]

\* What a function returns matters to then, to pipe and to stopOnFalse.
Results ==
  IF Len(stack) = 1 THEN {Undefined}
  ELSE IF Caller.at = "process" /\ Caller.step = "wait"
       THEN {Undefined, Thenable} \cup {PromiseOf(d) : d \in Born}
  ELSE IF Caller.at = "pipe"
       THEN {Undefined} \cup {PromiseOf(d) : d \in Born \ {Caller.d}}
  ELSE IF page.has = "list" THEN {Undefined, No} ELSE {Undefined}

ReturnToLoop ==
  /\ Running("code") /\ Len(stack) > 1 /\ Caller.at = "loop"
  /\ \E v \in Results :
       callbacks' = IF v = No
                    THEN [callbacks EXCEPT ![Caller.l] = StopOnFalse(@)]
                    ELSE callbacks
  /\ stack' = Callers
  /\ UNCHANGED <<fixed, inner, calls, joined, seen>>

ReturnToThen ==
  /\ Running("code") /\ Len(stack) > 1
  /\ Caller.at = "process" /\ Caller.step = "wait"
  /\ \E v \in Results :
       stack' = Append(SubSeq(stack, 1, Len(stack) - 2),
                       [Caller EXCEPT !.step = "got", !.v = v])
  /\ UNCHANGED <<fixed, inner, calls, callbacks, joined, seen>>

\* What pipe's function returns: a promise is followed, a value goes on.
ReturnToPipe ==
  /\ Running("code") /\ Len(stack) > 1 /\ Caller.at = "pipe"
  /\ \E v \in Results :
       LET rest  == SubSeq(stack, 1, Len(stack) - 2)
           To(k) == <<<<v.n, k>>, Entry("settle", Caller.d, k)>>
       IN IF v.is = "promise"
          THEN /\ callbacks' = callbacks
               /\ stack' = Append(rest, Adds(<<To("notify"), To("resolve"),
                                               To("reject")>>))
          ELSE Fire(<<Caller.d, Caller.k>>, v, callbacks, rest)
  /\ UNCHANGED <<fixed, inner, calls, joined, seen>>

\* To the browser, or to then, which has the foreign thenable's answer.
ReturnFromScript ==
  /\ Running("code")
  /\ Len(stack) > 1 => Caller.at = "process" /\ Caller.step = "done"
  /\ stack' = Callers
  /\ UNCHANGED <<fixed, inner, calls, callbacks, joined, seen>>

\* An exception: of a handler, of a foreign thenable that has not called
\* anything, or of anybody else.
ThrowError ==
  /\ May({"list", "done", "then", "progress", "pipe", "when", "ready"})
  /\ Len(stack) > 1
  /\ Throw(Error(calls'))
  /\ UNCHANGED <<fixed, inner, callbacks, joined>>

\* A script of the page, or an event of its own.
RunScript ==
  /\ stack = <<>> /\ calls < page.calls
  /\ stack' = <<Code>>
  /\ UNCHANGED <<fixed, inner, calls, callbacks, joined, seen>>

\* setTimeout(process).
RunProcess ==
  /\ stack = <<>> /\ tasks # <<>> /\ Head(tasks).do = "process"
  /\ tasks' = Tail(tasks)
  /\ LET t == Head(tasks)
     IN /\ stack' = <<Process(t.fn, t.v)>>
        /\ seen' = IF t.k = "notify" THEN seen
                   ELSE [seen EXCEPT !.ran[t.of] =
                           Append(@, <<t.fn.d, <<Final(t.k), t.v>>>>)]
  /\ UNCHANGED <<fixed, calls, callbacks, handlers, state, joined>>

\* setTimeout(jQuery.ready), of a document that was loaded before.
RunReady ==
  /\ stack = <<>> /\ tasks # <<>> /\ Head(tasks).do = "ready"
  /\ tasks' = Tail(tasks)
  /\ Ready(readiness)
  /\ UNCHANGED <<page, calls, handlers, state, maxDepth, held, joined, seen>>

-----------------------------------------------------------------------------
Call == \/ CallAdd \/ CallMethod \/ CallFire \/ CallAlways \/ CallThen
        \/ CallPipe \/ CallHeld \/ CallWhen \/ CallReady \/ CallHold
        \/ ThrowError

\* jQuery, and functions that return.
Turn == \/ CallNext \/ EndLoop \/ AddNext
        \/ IgnoreStale \/ CallHandler \/ GotNothing \/ GotItself
        \/ GotPromise \/ GotThenable \/ GotValue \/ Catch \/ EndProcess
        \/ WhenSingle \/ WhenDecide \/ WhenNext
        \/ ReturnToLoop \/ ReturnToThen \/ ReturnToPipe \/ ReturnFromScript
        \/ RunProcess \/ RunReady \/ DocumentEvent

Next == Call \/ Turn \/ RunScript

Spec == Init /\ [][Next]_vars

\* Functions return and documents load; a timer that is due runs, though
\* events of the page keep coming.
FairSpec == /\ Spec
            /\ WF_vars(Turn)
            /\ SF_vars(RunProcess \/ RunReady \/ DocumentEvent)
=============================================================================
