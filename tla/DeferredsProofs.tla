-------------------------- MODULE DeferredsProofs --------------------------
(***************************************************************************)
(* Proofs about Deferreds: its lists, loops and calls under way, the time  *)
(* of ready, and that then keeps the contract of Promises.                 *)
(*                                                                         *)
(* ListInv is about what calls what.  For each deferred there are three    *)
(* cases: it is undecided and both its lists wait with the functions they  *)
(* were made with in front; it is being decided, and the loop that does it *)
(* is on top of the stack, at one of these functions; or it is decided.    *)
(* The functions of one list never meet an outcome that is half decided    *)
(* but their own, so each method is shown once to keep the calm, and the   *)
(* first turns of a loop are the only steps that break it.                 *)
(*                                                                         *)
(* ReadyInv and ReactInv rest on Keeps: a step leaves outcomes alone, and  *)
(* only the code of ready settles the deferred of ready.  ReactInv counts: *)
(* the reactions run, those whose timers are set and those whose handlers  *)
(* wait are, in this order, the ones that were asked for.                  *)
(***************************************************************************)
EXTENDS DeferredsSpec, FiniteSetTheorems, SequenceTheorems, WellFoundedInduction, TLAPS

-----------------------------------------------------------------------------
(* Lists, frames and timers *)

Doing == {"state", "disable", "lock", "handlers", "user", "settle", "pipe", "update"}

Entries == [do : Doing, d : Deferred \cup {Nobody}, k : Kind,
            f : Function \cup {Nobody}, n : Nat]

ListingOf(E) == [options : SUBSET Option, list : Seq(E), gone : BOOLEAN,
                 queue : Seq(Value), memory : Value \cup {None}, index : Nat,
                 locked : BOOLEAN, fired : BOOLEAN, firing : BOOLEAN]

\* A list of functions in E rests while it is not fired.
ListOf(E, c) == /\ c \in ListingOf(E)
                /\ c.gone => c.list = <<>>
                /\ ~c.firing => c.index = 0 /\ c.queue = <<>>
                /\ c.firing /\ c.memory = None => c.gone \/ "stopOnFalse" \in c.options

Listing == ListingOf(Entries)
List(c) == ListOf(Entries, c)

Outs == {"resolve", "reject"}

\* The deferreds that scripts and then() may settle: not the one of ready.
Mine(p) == {d \in Deferred : p.has = "ready" => d # 1}

\* A function that is added to the list of a deferred.
Late(M, J, e) ==
  \/ e.do = "user"
  \/ e.do \in {"settle", "pipe"} /\ e.d \in M
  \/ e.do = "update" /\ J.master \in M

Plain      == [h : {"identity", "thrower"}]
Plainly(M) == [depth : Nat, d : M \cup {Nobody}, h : Plain, special : BOOLEAN]
Nested(M)  == [h : {"identity", "thrower", "script"}]
                \cup [h : {"inner"}, fn : Plainly(M)]
Fn(M)      == [depth : Nat, d : M \cup {Nobody}, h : Nested(M), special : BOOLEAN]

ProcessStep == {"call", "wait", "got", "done", "threw", "caught"}
Processes(M) == [at : {"process"}, fn : Fn(M), v : Value, step : ProcessStep]
Todos == (Deferred \X Kind) \X Entries

Frame(M, J, f) ==
  \/ f = Code
  \/ f \in [at : {"loop"}, l : ListId]
  \/ f \in Processes(M)
  \/ /\ f \in [at : {"adds"}, todo : Seq(Todos)] /\ f.todo # <<>>
     /\ \A p \in DOMAIN f.todo : Late(M, J, f.todo[p][2])
  \/ f \in [at : {"pipe"}, d : M, k : Kind]
  \/ /\ f \in [at : {"when"}, i : Nat, step : {"single", "decide", "loop"}]
     /\ J.master \in M /\ f.i \in 0..Len(J.args)

Frames(M, J, K) == \E T : K \in Seq(T) /\ \A f \in T : Frame(M, J, f)

-----------------------------------------------------------------------------
(* The two lists of an outcome *)

Open(S, d) == S[d] \in {"unborn", "pending"}

\* The functions every such list begins with, then those that were added.
Starts(M, J, s, d, k) ==
  /\ Len(s) >= 4
  /\ s[1] = Entry("state", d, k) /\ s[2] = Entry("disable", d, Other(k))
  /\ s[3] = Entry("lock", d, "notify") /\ s[4] = Entry("handlers", d, k)
  /\ \A p \in DOMAIN s : p > 4 => Late(M, J, s[p])

Waiting(M, J, c, d, k) ==
  ~c.locked /\ ~c.firing /\ ~c.gone /\ c.memory = None /\ Starts(M, J, c.list, d, k)
First(M, J, c, d, k) ==
  /\ c.locked /\ c.firing /\ ~c.gone /\ c.memory # None /\ c.queue = <<>>
  /\ Starts(M, J, c.list, d, k)
Again(M, J, c) ==
  /\ c.locked /\ ~c.gone /\ c.memory # None /\ c.queue = <<>>
  /\ \A p \in DOMAIN c.list : Late(M, J, c.list[p])
  /\ c.firing \/ c.list = <<>>
Dead(c) == c.locked /\ ~c.firing /\ c.gone /\ c.memory = None

OnTop(K, f) == K # <<>> /\ K[Len(K)] = f

\* Nobody knows yet, d is being settled with k, or it has been.
Undecided(M, J, C, S, d) ==
  Open(S, d) /\ \A k \in Outs : Waiting(M, J, C[<<d, k>>], d, k)

Deciding(M, J, C, S, K, d, k) ==
  LET c == C[<<d, k>>]
      o == C[<<d, Other(k)>>]
  IN /\ First(M, J, c, d, k) /\ OnTop(K, Loop(<<d, k>>))
     /\ \/ c.index = 0 /\ Open(S, d) /\ Waiting(M, J, o, d, Other(k))
        \/ c.index = 1 /\ S[d] = Final(k) /\ Waiting(M, J, o, d, Other(k))
        \/ c.index \in {2, 3} /\ S[d] = Final(k) /\ Dead(o)

Decided(M, J, C, S, d, k) ==
  LET c == C[<<d, k>>]
  IN /\ \/ First(M, J, c, d, k) /\ c.index >= 4
        \/ Again(M, J, c)
     /\ Dead(C[<<d, Other(k)>>]) /\ S[d] = Final(k)

CalmAt(M, J, C, S, d) ==
  Undecided(M, J, C, S, d) \/ \E k \in Outs : Decided(M, J, C, S, d, k)

Calm(M, J, C, S) == \A d \in Deferred : CalmAt(M, J, C, S, d)

Outcomes(M, J, C, S, K) ==
  \A d \in Deferred :
    \/ CalmAt(M, J, C, S, d)
    \/ \E k \in Outs : Deciding(M, J, C, S, K, d, k)

Told(M, J, e, d) == e = Entry("handlers", d, "notify") \/ Late(M, J, e)

Lists(M, J, C) ==
  /\ C \in [ListId -> Listing]
  /\ \A l \in ListId : List(C[l])
  /\ \A l \in Deferred \X Kind : C[l].options = Options(l[2])
  /\ \A p \in DOMAIN C[UserList].list : C[UserList].list[p].do = "user"
  /\ \A d \in Deferred : \A p \in DOMAIN C[<<d, "notify">>].list :
       Told(M, J, C[<<d, "notify">>].list[p], d)

\* The loops under way are of different lists, which are firing.
Loops(C, K) ==
  /\ \A i \in DOMAIN K : K[i].at = "loop" => C[K[i].l].firing
  /\ \A i, j \in DOMAIN K :
       K[i].at = "loop" /\ K[j].at = "loop" /\ K[i].l = K[j].l => i = j

Arranged(M, J, C, S, K) ==
  Lists(M, J, C) /\ Outcomes(M, J, C, S, K) /\ Loops(C, K) /\ Frames(M, J, K)

-----------------------------------------------------------------------------
(* The rest *)

Joined(M, J) ==
  /\ J \in [master : M \cup {Nobody}, remaining : Int, args : Seq(Value),
            values : {J.values}, answer : Deferred \cup {Nobody}]
  /\ \A i \in DOMAIN J.values : J.values[i] \in Value
  /\ \/ J = NoWhen
     \/ J.master \in M /\ DOMAIN J.values = 0..Len(J.args)

Task(M, t) ==
  \/ t = [do |-> "ready"]
  \/ t \in [do : {"process"}, of : Deferred, k : Kind, fn : Fn(M), v : Value]

Tasks(M, T) == \E U : T \in Seq(U) /\ \A t \in U : Task(M, t)

\* What a list of handlers holds.
Hands(M) == [fn : Fn(M)]
Hand(fn) == [fn |-> fn]

\* A list of handlers: firing it takes one step.
Handling(M, k, c) ==
  /\ ListOf(Hands(M), c) /\ ~c.firing /\ ~c.gone /\ c.options = Options(k)
  /\ c.locked <=> k # "notify" /\ c.memory # None
  /\ c.locked => c.list = <<>>

SeenField == {"log", "adds", "follow", "told", "thens", "ran", "emptied"}

SeenIs(s) == DOMAIN s = SeenField /\ s.adds \in [ListId -> Nat]

Typed ==
  /\ page \in Page /\ calls \in 0..page.calls
  /\ state \in [Deferred -> {"unborn", "pending", "resolved", "rejected"}]
  /\ maxDepth \in [Deferred -> Nat]
  /\ Joined(Mine(page), joined) /\ held \subseteq Plainly(Mine(page))
  /\ DOMAIN handlers = ListId
  /\ \A l \in ListId : Handling(Mine(page), l[2], handlers[l])
  /\ Tasks(Mine(page), tasks)
  /\ \A i \in DOMAIN tasks : tasks[i].do = "ready" => page.has = "ready"
  /\ page.has = "ready" => 1 \in Deferred /\ state[1] # "unborn"
  /\ SeenIs(seen)

ListInv == Typed /\ Arranged(Mine(page), joined, callbacks, state, stack)

\* The deferred is being settled still.
Early(C, d, k) ==
  LET c == C[<<d, k>>]
  IN c.list # <<>> /\ c.list[1].do = "state" /\ c.index < 4

\* An outcome that is there stays, and the deferred of ready is left alone.
Keeps(M, C, S, D, R) ==
  /\ \A d \in Deferred : \A k \in Outs :
       /\ R[d] = Final(k) <=> S[d] = Final(k)
       /\ S[d] = Final(k) => /\ D[<<d, k>>].memory = C[<<d, k>>].memory
                             /\ Early(D, d, k) <=> Early(C, d, k)
  /\ \A d \in Deferred \ M : (\A j \in Outs : S[d] # Final(j)) =>
       \A k \in Outs : D[<<d, k>>].locked = C[<<d, k>>].locked

-----------------------------------------------------------------------------
(* Numbers *)

\* Induction over the numbers of a set.
LEMMA Induct ==
  ASSUME NEW G, 0 \in G, \A n \in Nat : n \in G => n + 1 \in G
  PROVE  Nat \subseteq G
<1> DEFINE R == OpToRel(<, Nat)
           T == Nat \ G
<1>1. \A a, b \in Nat : a < b => <<a, b>> \in R
  BY DEF OpToRel
<1>2. IsWellFoundedOn(R, Nat)
  BY NatLessThanWellFounded
<1> HIDE DEF R
<1> SUFFICES ASSUME T # {} PROVE FALSE
  OBVIOUS
<1>3. PICK k \in T : \A n \in T : ~(<<n, k>> \in R)
  BY <1>2, WFMin
<1>4. k - 1 \in Nat /\ k - 1 < k
  BY <1>3
<1>5. k - 1 \in G
  BY <1>1, <1>3, <1>4
<1> QED BY <1>3, <1>4, <1>5

\* A set of numbers that has a member has a least one.
LEMMA Least ==
  ASSUME NEW T \in SUBSET Nat, T # {}
  PROVE  \E k \in T : \A n \in T : k <= n
<1> DEFINE R == OpToRel(<, Nat)
<1>1. \A a, b \in Nat : a < b => <<a, b>> \in R
  BY DEF OpToRel
<1>2. IsWellFoundedOn(R, Nat)
  BY NatLessThanWellFounded
<1> HIDE DEF R
<1>3. PICK k \in T : \A n \in T : ~(<<n, k>> \in R)
  BY <1>2, WFMin
<1>4. ASSUME NEW n \in T PROVE k <= n
  <2>1. k \in Nat /\ n \in Nat /\ ~(n < k)
    BY <1>1, <1>3
  <2> QED BY <2>1
<1> QED BY <1>4

LEMMA Greatest ==
  ASSUME NEW n \in Nat, NEW T \in SUBSET (1..n), T # {}
  PROVE  \E k \in T : \A i \in T : i <= k
<1> DEFINE U == {n - i : i \in T}
<1>0. \A i \in T : i \in 1..n /\ n - i \in Nat
  OBVIOUS
<1>1. U \in SUBSET Nat /\ U # {}
  BY <1>0
<1>2. PICK m \in U : \A i \in U : m <= i
  BY <1>1, Least
<1>3. PICK k \in T : m = n - k
  BY <1>2
<1>4. \A i \in T : n - k <= n - i
  BY <1>2, <1>3
<1> QED BY <1>4

-----------------------------------------------------------------------------
(* Values and sequences *)

Tag == {"undefined", "false", "data", "error", "promise", "thenable", "values"}

LEMMA ValuesAre == \A v \in Value : v \in [is : Tag, n : Int]
<1>1. \A v \in {Undefined, No, Thenable, Values, TypeError} : v \in [is : Tag, n : Int]
  BY DEF Undefined, No, Thenable, Values, TypeError, Error, Tag
<1>2. \A d \in Deferred : PromiseOf(d) \in [is : Tag, n : Int]
  BY DEF PromiseOf, Deferred, Tag
<1>3. \A p \in Page : 1..p.calls \subseteq Int
  OBVIOUS
<1>4. \A i \in {"data", "error"} : \A n \in UNION {1..p.calls : p \in Page} :
          [is |-> i, n |-> n] \in [is : Tag, n : Int]
  BY <1>3 DEF Tag
<1> QED BY <1>1, <1>2, <1>4 DEF Value

LEMMA NoneIsNoValue == None \notin Value
BY ValuesAre, DeferredAssumption DEF Tag

LEMMA EmptyIsSeq == \A T : <<>> \in Seq(T)
OBVIOUS

LEMMA AppendIs ==
  ASSUME NEW T, NEW s \in Seq(T), NEW x \in T
  PROVE  /\ Append(s, x) \in Seq(T)
         /\ Len(s) \in Nat /\ DOMAIN s = 1..Len(s)
         /\ Len(Append(s, x)) = Len(s) + 1 /\ DOMAIN Append(s, x) = 1..(Len(s) + 1)
         /\ \A i \in 1..Len(s) : Append(s, x)[i] = s[i]
         /\ Append(s, x)[Len(s) + 1] = x
OBVIOUS

\* What comes off a queue of one.
LEMMA QueueOfOne ==
  ASSUME NEW x
  PROVE  Head(Append(<<>>, x)) = x /\ Tail(Append(<<>>, x)) = <<>>
<1>1. Append(<<>>, x) = <<x>>
  OBVIOUS
<1> QED BY <1>1

-----------------------------------------------------------------------------
(* The methods of a list *)

LEMMA BeginIs ==
  ASSUME NEW E, NEW c \in ListingOf(E), c.queue # <<>>, NEW e, e = Begin(c)
  PROVE  /\ e \in ListingOf(E) /\ e.options = c.options /\ e.list = c.list /\ e.gone = c.gone
         /\ e.memory = Head(c.queue) /\ e.queue = Tail(c.queue) /\ e.index = c.index
         /\ e.locked = (c.locked \/ "once" \in c.options) /\ e.firing
<1> DEFINE b == [c EXCEPT !.locked = @ \/ "once" \in c.options, !.fired = TRUE, !.firing = TRUE]
<1>1. /\ b \in ListingOf(E) /\ b.options = c.options /\ b.list = c.list /\ b.gone = c.gone
      /\ b.memory = c.memory /\ b.queue = c.queue /\ b.index = c.index
      /\ b.locked = (c.locked \/ "once" \in c.options) /\ b.firing
  BY DEF ListingOf
<1>2. e = Shift(b)
  BY DEF Begin
<1> HIDE DEF b
<1>3. Head(c.queue) \in Value /\ Tail(c.queue) \in Seq(Value)
  BY DEF ListingOf
<1>4. e = [b EXCEPT !.memory = Head(c.queue), !.queue = Tail(c.queue)]
  BY <1>1, <1>2 DEF Shift
<1> DEFINE h == Head(c.queue)
           t == Tail(c.queue)
<1> HIDE DEF h, t
<1>5. /\ e \in ListingOf(E) /\ e.options = b.options /\ e.list = b.list /\ e.gone = b.gone
      /\ e.memory = h /\ e.queue = t /\ e.index = b.index
      /\ e.locked = b.locked /\ e.firing = b.firing
  <2>1. e = [b EXCEPT !.memory = h, !.queue = t] /\ h \in Value /\ t \in Seq(Value)
    BY <1>3, <1>4 DEF h, t
  <2> QED BY <1>1, <2>1 DEF ListingOf
<1> QED BY <1>1, <1>5 DEF h, t

LEMMA FireOf ==
  ASSUME NEW E, NEW c, ListOf(E, c), NEW v \in Value, NEW e, e = FireWith(c, v)
  PROVE  /\ ListOf(E, e) /\ e.options = c.options /\ e.list = c.list /\ e.gone = c.gone
         /\ c.locked => e = c
         /\ ~c.locked /\ c.firing =>
              /\ e.memory = c.memory /\ e.queue = Append(c.queue, v) /\ e.index = c.index
              /\ ~e.locked /\ e.firing
         /\ ~c.locked /\ ~c.firing =>
              /\ e.memory = v /\ e.queue = <<>> /\ e.index = 0
              /\ e.locked = ("once" \in c.options) /\ e.firing
<1> DEFINE q == [c EXCEPT !.queue = Append(@, v)]
<1>0. c \in ListingOf(E)
  BY DEF ListOf
<1>1. /\ q \in ListingOf(E) /\ q.options = c.options /\ q.list = c.list /\ q.gone = c.gone
      /\ q.memory = c.memory /\ q.queue = Append(c.queue, v) /\ q.index = c.index
      /\ q.locked = c.locked /\ q.firing = c.firing /\ q.queue # <<>>
  <2>1. Append(c.queue, v) \in Seq(Value) /\ Append(c.queue, v) # <<>>
    BY <1>0 DEF ListingOf
  <2> QED BY <1>0, <2>1 DEF ListingOf
<1>2. e = IF c.locked THEN c ELSE IF c.firing THEN q ELSE Begin(q)
  BY DEF FireWith
<1> HIDE DEF q
<1>3. CASE c.locked
  BY <1>2, <1>3
<1>4. CASE ~c.locked /\ c.firing
  BY <1>1, <1>2, <1>4 DEF ListOf
<1>5. CASE ~c.locked /\ ~c.firing
  <2>1. e = Begin(q) /\ c.queue = <<>> /\ c.index = 0
    BY <1>2, <1>5 DEF ListOf
  <2>2. /\ e \in ListingOf(E) /\ e.options = q.options /\ e.list = q.list /\ e.gone = q.gone
        /\ e.memory = Head(q.queue) /\ e.queue = Tail(q.queue) /\ e.index = q.index
        /\ e.locked = (q.locked \/ "once" \in q.options) /\ e.firing
    BY <1>1, <2>1, BeginIs
  <2>3. e.memory = v /\ e.queue = <<>>
    BY <1>1, <2>1, <2>2, QueueOfOne
  <2>4. e.gone => e.list = <<>>
    BY <1>1, <2>2 DEF ListOf
  <2>5. e.locked = ("once" \in c.options)
    BY <1>1, <1>5, <2>2
  <2> QED BY <1>1, <1>5, <2>1, <2>2, <2>3, <2>4, <2>5, NoneIsNoValue DEF ListOf
<1> QED BY <1>3, <1>4, <1>5

LEMMA PushIs ==
  ASSUME NEW E, NEW c \in ListingOf(E), ~c.gone, NEW fn \in E, NEW e, e = Push(c, fn)
  PROVE  /\ e \in ListingOf(E) /\ e.options = c.options /\ e.gone = c.gone
         /\ e.memory = c.memory /\ e.queue = c.queue /\ e.index = c.index
         /\ e.locked = c.locked /\ e.firing = c.firing
         /\ \/ e.list = c.list /\ "unique" \in c.options /\ Has(c, fn)
            \/ e.list = Append(c.list, fn) /\ ~("unique" \in c.options /\ Has(c, fn))
<1>1. Append(c.list, fn) \in Seq(E)
  BY DEF ListingOf
<1> QED BY <1>1 DEF Push, ListingOf

LEMMA AddOf ==
  ASSUME NEW E, NEW c, ListOf(E, c), NEW fn \in E, NEW e, e = Add(c, fn)
  PROVE  /\ ListOf(E, e) /\ e.options = c.options /\ e.gone = c.gone
         /\ e.memory = c.memory /\ e.queue = c.queue
         /\ c.gone => e = c
         /\ ~c.gone =>
              \/ e.list = c.list /\ "unique" \in c.options /\ Has(c, fn)
              \/ e.list = Append(c.list, fn) /\ ~("unique" \in c.options /\ Has(c, fn))
         /\ \/ ~c.gone /\ c.memory # None /\ ~c.firing /\ e.firing /\ e.index = Len(c.list)
               /\ e.locked = (c.locked \/ "once" \in c.options)
            \/ ~(~c.gone /\ c.memory # None /\ ~c.firing) /\ e.firing = c.firing
               /\ e.index = c.index /\ e.locked = c.locked
<1>0. c \in ListingOf(E) /\ (~c.firing => c.queue = <<>>)
  BY DEF ListOf
<1>1. CASE c.gone
  BY <1>1 DEF Add
<1>2. CASE ~c.gone /\ c.memory # None /\ ~c.firing
  <2> DEFINE q == [c EXCEPT !.index = Len(c.list), !.queue = Append(@, c.memory)]
             p == Push(q, fn)
  <2>1. Append(c.queue, c.memory) \in Seq(Value) /\ Append(c.queue, c.memory) # <<>>
        /\ Len(c.list) \in Nat
    <3>1. c.queue \in Seq(Value) /\ c.memory \in Value /\ Len(c.list) \in Nat
      BY <1>0, <1>2 DEF ListingOf
    <3> QED BY <3>1
  <2>2. /\ q \in ListingOf(E) /\ q.options = c.options /\ q.list = c.list /\ q.gone = c.gone
        /\ q.memory = c.memory /\ q.queue = Append(c.queue, c.memory) /\ q.index = Len(c.list)
        /\ q.locked = c.locked /\ q.firing = c.firing
    BY <1>0, <2>1 DEF ListingOf
  <2>3. e = Begin(p)
    BY <1>2 DEF Add
  <2> HIDE DEF q
  <2>4. /\ p \in ListingOf(E) /\ p.options = q.options /\ p.gone = q.gone
        /\ p.memory = q.memory /\ p.queue = q.queue /\ p.index = q.index
        /\ p.locked = q.locked /\ p.firing = q.firing
        /\ \/ p.list = q.list /\ "unique" \in q.options /\ Has(q, fn)
           \/ p.list = Append(q.list, fn) /\ ~("unique" \in q.options /\ Has(q, fn))
    BY <1>2, <2>2, PushIs
  <2>5. Has(q, fn) <=> Has(c, fn)
    BY <2>2 DEF Has
  <2> HIDE DEF p
  <2>6. p.queue # <<>>
    BY <2>1, <2>2, <2>4
  <2>7. /\ e \in ListingOf(E) /\ e.options = p.options /\ e.list = p.list /\ e.gone = p.gone
        /\ e.memory = Head(p.queue) /\ e.queue = Tail(p.queue) /\ e.index = p.index
        /\ e.locked = (p.locked \/ "once" \in p.options) /\ e.firing
    BY <2>3, <2>4, <2>6, BeginIs
  <2>8. e.memory = c.memory /\ e.queue = <<>>
    BY <1>0, <1>2, <2>2, <2>4, <2>7, QueueOfOne
  <2>9. ListOf(E, e)
    BY <1>2, <2>2, <2>4, <2>7 DEF ListOf
  <2>10. e.queue = c.queue
    BY <1>0, <1>2, <2>8
  <2> QED BY <1>2, <2>2, <2>4, <2>5, <2>7, <2>8, <2>9, <2>10
<1>3. CASE ~c.gone /\ ~(c.memory # None /\ ~c.firing)
  <2>1. e = Push(c, fn)
    BY <1>3 DEF Add
  <2>2. /\ e \in ListingOf(E) /\ e.options = c.options /\ e.gone = c.gone
        /\ e.memory = c.memory /\ e.queue = c.queue /\ e.index = c.index
        /\ e.locked = c.locked /\ e.firing = c.firing
        /\ \/ e.list = c.list /\ "unique" \in c.options /\ Has(c, fn)
           \/ e.list = Append(c.list, fn) /\ ~("unique" \in c.options /\ Has(c, fn))
    BY <1>0, <1>3, <2>1, PushIs
  <2>3. ListOf(E, e)
    BY <1>3, <2>2 DEF ListOf
  <2> QED BY <1>3, <2>2, <2>3
<1> QED BY <1>1, <1>2, <1>3

LEMMA AdvanceIs ==
  ASSUME NEW c, List(c), c.firing, NEW e, e = Advance(c)
  PROVE  /\ List(e) /\ e.options = c.options /\ e.list = c.list /\ e.gone = c.gone
         /\ e.memory = c.memory /\ e.queue = c.queue /\ e.index = c.index + 1
         /\ e.locked = c.locked /\ e.firing
BY DEF List, ListOf, Listing, ListingOf, Listing, ListingOf, Advance

LEMMA NextIs ==
  ASSUME NEW c, List(c), c.firing, c.queue # <<>>, NEW e, e = NextValue(c)
  PROVE  /\ List(e) /\ e.options = c.options /\ e.list = c.list /\ e.gone = c.gone
         /\ e.memory = Head(c.queue) /\ e.queue = Tail(c.queue) /\ e.index = 0
         /\ e.locked = c.locked /\ e.firing
<1>1. Head(c.queue) \in Value /\ Tail(c.queue) \in Seq(Value)
  BY DEF List, ListOf, Listing, ListingOf, Listing, ListingOf
<1> QED BY <1>1, NoneIsNoValue DEF List, ListOf, Listing, ListingOf, NextValue, Shift

LEMMA FinishOf ==
  ASSUME NEW E, NEW c, ListOf(E, c), c.queue = <<>>, NEW e, e = Finish(c)
  PROVE  /\ ListOf(E, e) /\ e.options = c.options /\ e.queue = <<>> /\ e.index = 0 /\ ~e.firing
         /\ e.memory = (IF "memory" \in c.options THEN c.memory ELSE None)
         /\ e.locked = c.locked
         /\ c.locked => e.list = <<>> /\ e.gone = (e.memory = None)
         /\ ~c.locked => e.list = c.list /\ e.gone = c.gone
<1> DEFINE m == IF "memory" \in c.options THEN c.memory ELSE None
           b == [c EXCEPT !.memory = m, !.index = 0, !.firing = FALSE]
<1>1. m \in Value \cup {None}
  BY DEF ListOf, ListingOf
<1>2. e = IF b.locked THEN [b EXCEPT !.list = <<>>, !.gone = b.memory = None] ELSE b
  BY DEF Finish
<1> HIDE DEF m
<1>3. /\ b \in ListingOf(E) /\ b.options = c.options /\ b.list = c.list /\ b.gone = c.gone
      /\ b.memory = m /\ b.queue = c.queue /\ b.index = 0
      /\ b.locked = c.locked /\ ~b.firing
  BY <1>1 DEF ListOf, ListingOf
<1> HIDE DEF b
<1>4. CASE c.locked
  <2>1. e = [b EXCEPT !.list = <<>>, !.gone = b.memory = None]
    BY <1>2, <1>3, <1>4
  <2>2. /\ e \in ListingOf(E) /\ e.options = b.options /\ e.list = <<>> /\ e.gone = (b.memory = None)
        /\ e.memory = b.memory /\ e.queue = b.queue /\ e.index = b.index
        /\ e.locked = b.locked /\ e.firing = b.firing
    BY <1>3, <2>1, EmptyIsSeq DEF ListingOf
  <2> QED BY <1>3, <1>4, <2>2 DEF ListOf, m
<1>5. CASE ~c.locked
  <2>1. e = b
    BY <1>2, <1>3, <1>5
  <2>2. ListOf(E, e)
    BY <1>3, <2>1 DEF ListOf
  <2> QED BY <1>3, <1>5, <2>1, <2>2 DEF m
<1> QED BY <1>3, <1>4, <1>5 DEF ListOf, ListingOf

LEMMA DisableIs ==
  ASSUME NEW c, List(c), NEW e, e = Disable(c)
  PROVE  /\ List(e) /\ e.options = c.options /\ e.list = <<>> /\ e.gone
         /\ e.memory = None /\ e.queue = <<>> /\ e.index = c.index
         /\ e.locked /\ e.firing = c.firing
BY EmptyIsSeq DEF List, ListOf, Listing, ListingOf, Listing, ListingOf, Disable

LEMMA LockIs ==
  ASSUME NEW c, List(c), NEW e, e = Lock(c)
  PROVE  /\ List(e) /\ e.options = c.options /\ e.queue = <<>> /\ e.index = c.index
         /\ e.locked /\ e.firing = c.firing /\ e.memory = c.memory
         /\ \/ e = Disable(c) /\ c.memory = None /\ ~c.firing /\ e.list = <<>> /\ e.gone
            \/ (c.memory # None \/ c.firing) /\ e.list = c.list /\ e.gone = c.gone
<1>1. CASE c.memory = None /\ ~c.firing
  BY <1>1, DisableIs DEF Lock
<1>2. CASE ~(c.memory = None /\ ~c.firing)
  BY <1>2, EmptyIsSeq DEF List, ListOf, Listing, ListingOf, Listing, ListingOf, Lock
<1> QED BY <1>1, <1>2

LEMMA StopIs ==
  ASSUME NEW c, List(c), c.firing, NEW e, e = StopOnFalse(c)
  PROVE  /\ List(e) /\ e.options = c.options /\ e.list = c.list /\ e.gone = c.gone
         /\ e.queue = c.queue /\ e.locked = c.locked /\ e.firing
         /\ \/ e.memory = None /\ e.index = Len(c.list) /\ "stopOnFalse" \in c.options
            \/ e = c /\ "stopOnFalse" \notin c.options
<1>1. Len(c.list) \in Nat
  BY DEF List, ListOf, Listing, ListingOf, Listing, ListingOf
<1> QED BY <1>1 DEF List, ListOf, Listing, ListingOf, Listing, ListingOf, StopOnFalse

LEMMA EmptyIs ==
  ASSUME NEW c, List(c), NEW e, e = Empty(c)
  PROVE  /\ List(e) /\ e.options = c.options /\ e.list = <<>> /\ e.gone = c.gone
         /\ e.memory = c.memory /\ e.queue = c.queue /\ e.index = c.index
         /\ e.locked = c.locked /\ e.firing = c.firing
BY EmptyIsSeq DEF List, ListOf, Listing, ListingOf, Listing, ListingOf, Empty

LEMMA FireIs ==
  ASSUME NEW c, List(c), NEW v \in Value, NEW e, e = FireWith(c, v)
  PROVE  /\ List(e) /\ e.options = c.options /\ e.list = c.list /\ e.gone = c.gone
         /\ c.locked => e = c
         /\ ~c.locked /\ c.firing =>
              /\ e.memory = c.memory /\ e.queue = Append(c.queue, v) /\ e.index = c.index
              /\ ~e.locked /\ e.firing
         /\ ~c.locked /\ ~c.firing =>
              /\ e.memory = v /\ e.queue = <<>> /\ e.index = 0
              /\ e.locked = ("once" \in c.options) /\ e.firing
BY FireOf DEF List

LEMMA AddIs ==
  ASSUME NEW c, List(c), NEW fn \in Entries, NEW e, e = Add(c, fn)
  PROVE  /\ List(e) /\ e.options = c.options /\ e.gone = c.gone
         /\ e.memory = c.memory /\ e.queue = c.queue
         /\ c.gone => e = c
         /\ ~c.gone =>
              \/ e.list = c.list /\ "unique" \in c.options /\ Has(c, fn)
              \/ e.list = Append(c.list, fn) /\ ~("unique" \in c.options /\ Has(c, fn))
         /\ \/ ~c.gone /\ c.memory # None /\ ~c.firing /\ e.firing /\ e.index = Len(c.list)
               /\ e.locked = (c.locked \/ "once" \in c.options)
            \/ ~(~c.gone /\ c.memory # None /\ ~c.firing) /\ e.firing = c.firing
               /\ e.index = c.index /\ e.locked = c.locked
BY AddOf DEF List

LEMMA FinishIs ==
  ASSUME NEW c, List(c), c.queue = <<>>, NEW e, e = Finish(c)
  PROVE  /\ List(e) /\ e.options = c.options /\ e.queue = <<>> /\ e.index = 0 /\ ~e.firing
         /\ e.memory = (IF "memory" \in c.options THEN c.memory ELSE None)
         /\ e.locked = c.locked
         /\ c.locked => e.list = <<>> /\ e.gone = (e.memory = None)
         /\ ~c.locked => e.list = c.list /\ e.gone = c.gone
BY FinishOf DEF List
-----------------------------------------------------------------------------
(* Names of lists, and the stack *)

LEMMA ListIds ==
  /\ UserList \in ListId /\ UserList \notin Deferred \X Kind
  /\ \A d \in Deferred : \A k \in Kind : <<d, k>> \in ListId /\ <<d, k>> # UserList
  /\ \A l \in ListId : l = UserList \/ \E d \in Deferred : \E k \in Kind : l = <<d, k>>
  /\ Outs \subseteq Kind /\ "notify" \in Kind
  /\ \A k \in Outs : Other(k) \in Outs /\ Other(k) # k /\ Other(Other(k)) = k
  /\ \A k \in Outs : Options(k) = {"once", "memory"}
  /\ Options("notify") = {"memory"}
  /\ \A k \in Outs : k = "resolve" \/ k = "reject"
  /\ \A k \in Outs : Final(k) \notin {"unborn", "pending"}
  /\ \A j, k \in Outs : Final(j) = Final(k) => j = k
<1>1. UserList \in ListId /\ UserList \notin Deferred \X Kind
  BY DEF UserList, ListId, Nobody, Deferred, Kind
<1>2. \A d \in Deferred : \A k \in Kind : <<d, k>> \in ListId /\ <<d, k>> # UserList
  BY DEF UserList, ListId, Nobody, Deferred, Kind
<1>3. \A l \in ListId : l = UserList \/ \E d \in Deferred : \E k \in Kind : l = <<d, k>>
  BY DEF ListId
<1>4. \A k \in Outs : k = "resolve" \/ k = "reject"
  BY DEF Outs
<1>5. \A k \in Outs : Other(k) \in Outs /\ Other(k) # k /\ Other(Other(k)) = k
  BY <1>4 DEF Outs, Other
<1>6. \A k \in Outs : Options(k) = {"once", "memory"}
  BY <1>4 DEF Options
<1>7. \A k \in Outs : Final(k) \notin {"unborn", "pending"}
  BY <1>4 DEF Final
<1>8. \A j, k \in Outs : Final(j) = Final(k) => j = k
  BY <1>4 DEF Final
<1>9. Outs \subseteq Kind /\ "notify" \in Kind /\ Options("notify") = {"memory"}
  BY DEF Outs, Kind, Options
<1> QED BY <1>1, <1>2, <1>3, <1>4, <1>5, <1>6, <1>7, <1>8, <1>9

LEMMA SameName ==
  \A d, e, j, k : <<d, j>> = <<e, k>> => d = e /\ j = k
OBVIOUS

LEMMA FramesAre ==
  ASSUME NEW M, NEW J, NEW K, Frames(M, J, K)
  PROVE  /\ Len(K) \in Nat /\ DOMAIN K = 1..Len(K)
         /\ \A i \in 1..Len(K) : Frame(M, J, K[i])
         /\ K # <<>> => Len(K) \in 1..Len(K) /\ Frame(M, J, K[Len(K)])
         /\ K \o <<>> = K /\ \A f : K \o <<f>> = Append(K, f)
<1>1. PICK T : K \in Seq(T) /\ \A f \in T : Frame(M, J, f)
  BY DEF Frames
<1>2. \A f : K \o <<f>> = Append(K, f)
  <2> TAKE f
  <2>1. K \in Seq(T \cup {f})
    BY <1>1
  <2> QED BY <2>1
<1>3. K # <<>> => Len(K) \in 1..Len(K)
  BY <1>1
<1> QED BY <1>1, <1>2, <1>3

LEMMA FramePushed ==
  ASSUME NEW M, NEW J, NEW K, Frames(M, J, K), NEW f, Frame(M, J, f)
  PROVE  /\ Frames(M, J, Append(K, f)) /\ Len(Append(K, f)) = Len(K) + 1
         /\ Append(K, f) # <<>> /\ Append(K, f)[Len(K) + 1] = f
         /\ \A i \in 1..Len(K) : Append(K, f)[i] = K[i]
<1> DEFINE L == Append(K, f)
<1>1. PICK T : K \in Seq(T) /\ \A g \in T : Frame(M, J, g)
  BY DEF Frames
<1>2. K \in Seq(T \cup {f})
  BY <1>1
<1> DEFINE U == T \cup {f}
<1>3. /\ L \in Seq(U) /\ Len(L) = Len(K) + 1 /\ L[Len(K) + 1] = f
      /\ \A i \in 1..Len(K) : L[i] = K[i]
  <2>1. f \in U /\ K \in Seq(U)
    BY <1>2
  <2> HIDE DEF U
  <2> QED BY <2>1, AppendIs
<1>4. \A g \in U : Frame(M, J, g)
  BY <1>1
<1> HIDE DEF U
<1> HIDE DEF L
<1>5. L # <<>>
  <2>1. Len(K) \in Nat
    BY <1>1
  <2> QED BY <1>3, <2>1
<1>6. Frames(M, J, L)
  BY <1>3, <1>4 DEF Frames
<1> QED BY <1>3, <1>5, <1>6 DEF L

LEMMA FramePopped ==
  ASSUME NEW M, NEW J, NEW K, Frames(M, J, K), NEW f, Frame(M, J, f)
  PROVE  SubSeq(Append(K, f), 1, Len(Append(K, f)) - 1) = K
<1> DEFINE L == Append(K, f)
<1>1. PICK U : L \in Seq(U)
  BY FramePushed DEF Frames
<1>2. /\ Len(L) = Len(K) + 1 /\ Len(K) \in Nat /\ DOMAIN K = 1..Len(K)
      /\ \A i \in 1..Len(K) : L[i] = K[i]
  BY FramePushed, FramesAre
<1> HIDE DEF L
<1>3. PICK V : K \in Seq(V)
  BY DEF Frames
<1> DEFINE k == Len(K)
           P == SubSeq(L, 1, k)
<1>4. \A i \in 1..k : L[i] \in U
  BY <1>1, <1>2
<1>5. P \in Seq(U) /\ Len(P) = k /\ \A i \in 1..k : P[i] = L[i]
  BY <1>1, <1>2, <1>4, SubSeqProperties
<1> HIDE DEF P
<1>6. P = K
  BY <1>2, <1>3, <1>5
<1>7. Len(L) - 1 = k
  BY <1>2
<1>8. SubSeq(L, 1, Len(L) - 1) = K
  BY <1>6, <1>7 DEF P
<1> QED BY <1>8 DEF L

LEMMA FrameCut ==
  ASSUME NEW M, NEW J, NEW K, Frames(M, J, K), NEW n \in Nat, n <= Len(K)
  PROVE  /\ Frames(M, J, SubSeq(K, 1, n)) /\ Len(SubSeq(K, 1, n)) = n
         /\ \A i \in 1..n : SubSeq(K, 1, n)[i] = K[i]
<1>1. PICK T : K \in Seq(T) /\ \A f \in T : Frame(M, J, f)
  BY DEF Frames
<1>2. \A i \in 1..n : K[i] \in T
  BY <1>1
<1> DEFINE L == SubSeq(K, 1, n)
<1>3. L \in Seq(T) /\ Len(L) = n /\ \A i \in 1..n : L[i] = K[i]
  BY <1>1, <1>2, SubSeqProperties
<1> HIDE DEF L
<1>4. Frames(M, J, L)
  BY <1>1, <1>3 DEF Frames
<1> QED BY <1>3, <1>4 DEF L

LEMMA NoFrames ==
  ASSUME NEW M, NEW J, NEW C
  PROVE  Frames(M, J, <<>>) /\ Loops(C, <<>>)
<1> DEFINE s == <<>>
<1>1. Frames(M, J, s)
  <2>1. s \in Seq({}) /\ \A f \in {} : Frame(M, J, f)
    OBVIOUS
  <2> HIDE DEF s
  <2> QED BY <2>1 DEF Frames
<1>2. DOMAIN s = {}
  OBVIOUS
<1> HIDE DEF s
<1>3. Loops(C, s)
  BY <1>2 DEF Loops
<1> QED BY <1>1, <1>3 DEF s

\* The loops of L are among those of K.
LEMMA LoopsCut ==
  ASSUME NEW M, NEW J, NEW C, NEW K, Frames(M, J, K), Loops(C, K), NEW L, NEW n \in Nat,
         n <= Len(K), DOMAIN L = 1..n, \A i \in 1..n : L[i] = K[i]
  PROVE  Loops(C, L)
<1>1. \A i \in 1..n : i \in DOMAIN K
  BY FramesAre
<1> QED BY <1>1 DEF Loops

\* A frame on top that is no loop, or the first of its list.
LEMMA LoopsPushed ==
  ASSUME NEW M, NEW J, NEW C, NEW K, Frames(M, J, K), Loops(C, K), NEW f, Frame(M, J, f),
         NEW D, \A l : C[l].firing => D[l].firing,
         f.at = "loop" => ~C[f.l].firing /\ D[f.l].firing
  PROVE  Loops(D, Append(K, f))
<1> DEFINE L == Append(K, f)
<1>1. /\ Frames(M, J, L) /\ Len(L) = Len(K) + 1 /\ L[Len(K) + 1] = f
      /\ \A i \in 1..Len(K) : L[i] = K[i]
  BY FramePushed
<1> HIDE DEF L
<1>2. /\ Len(K) \in Nat /\ DOMAIN K = 1..Len(K) /\ DOMAIN L = 1..Len(L)
  BY <1>1, FramesAre
<1>3. \A i \in DOMAIN L : (i \in DOMAIN K /\ L[i] = K[i]) \/ (i = Len(L) /\ L[i] = f)
  BY <1>1, <1>2
<1>4. \A i \in DOMAIN L : L[i].at = "loop" => D[L[i].l].firing
  BY <1>3 DEF Loops
<1>5. ASSUME NEW i \in DOMAIN L, NEW j \in DOMAIN L, L[i].at = "loop", L[j].at = "loop",
             L[i].l = L[j].l
      PROVE  i = j
  <2>1. CASE i \in DOMAIN K /\ L[i] = K[i] /\ j \in DOMAIN K /\ L[j] = K[j]
    BY <1>5, <2>1 DEF Loops
  <2>2. CASE i \in DOMAIN K /\ L[i] = K[i] /\ L[j] = f
    BY <1>5, <2>2 DEF Loops
  <2>3. CASE L[i] = f /\ j \in DOMAIN K /\ L[j] = K[j]
    BY <1>5, <2>3 DEF Loops
  <2>4. CASE i = Len(L) /\ j = Len(L)
    BY <2>4
  <2> QED BY <1>3, <2>1, <2>2, <2>3, <2>4
<1> QED BY <1>4, <1>5 DEF Loops, L

\* Frames that differ are told by what they are at.
LEMMA FrameIs ==
  ASSUME NEW M, NEW J, NEW f, Frame(M, J, f)
  PROVE  /\ f.at \in {"code", "loop", "process", "adds", "pipe", "when"}
         /\ f.at = "loop" => f.l \in ListId /\ f = Loop(f.l)
         /\ f.at = "process" => f \in Processes(M)
         /\ f.at = "adds" => /\ f.todo \in Seq(Todos) /\ f.todo # <<>>
                             /\ \A p \in DOMAIN f.todo : Late(M, J, f.todo[p][2])
         /\ f.at = "pipe" => f.d \in M /\ f.k \in Kind
         /\ f.at = "when" => /\ J.master \in M /\ f.i \in 0..Len(J.args) /\ f.i \in Nat
                             /\ f.step \in {"single", "decide", "loop"}
<1>1. CASE f = Code
  BY <1>1 DEF Code
<1>2. CASE f \in [at : {"loop"}, l : ListId]
  BY <1>2 DEF Loop
<1>3. CASE f \in Processes(M)
  BY <1>3 DEF Processes
<1>4. CASE /\ f \in [at : {"adds"}, todo : Seq(Todos)] /\ f.todo # <<>>
           /\ \A p \in DOMAIN f.todo : Late(M, J, f.todo[p][2])
  BY <1>4
<1>5. CASE f \in [at : {"pipe"}, d : M, k : Kind]
  BY <1>5
<1>6. CASE /\ f \in [at : {"when"}, i : Nat, step : {"single", "decide", "loop"}]
           /\ J.master \in M /\ f.i \in 0..Len(J.args)
  BY <1>6
<1> QED BY <1>1, <1>2, <1>3, <1>4, <1>5, <1>6 DEF Frame

LEMMA LoopIsFrame ==
  ASSUME NEW M, NEW J, NEW l \in ListId
  PROVE  Frame(M, J, Loop(l)) /\ Loop(l).at = "loop" /\ Loop(l).l = l
BY DEF Frame, Loop

LEMMA CodeIsFrame == \A M, J : Frame(M, J, Code) /\ Code.at = "code"
BY DEF Frame, Code
-----------------------------------------------------------------------------
(* What a method does to the lists *)

LEMMA CalmSame ==
  ASSUME NEW M, NEW J, NEW C, NEW S, NEW D, NEW R, NEW d,
         \A k \in Outs : D[<<d, k>>] = C[<<d, k>>],
         R[d] = S[d] \/ (Open(S, d) /\ Open(R, d)), CalmAt(M, J, C, S, d)
  PROVE  CalmAt(M, J, D, R, d)
<1>1. CASE Undecided(M, J, C, S, d)
  BY <1>1 DEF Undecided, CalmAt, Open
<1>2. ASSUME NEW k \in Outs, Decided(M, J, C, S, d, k) PROVE CalmAt(M, J, D, R, d)
  <2>1. R[d] = Final(k) /\ Other(k) \in Outs
    BY <1>2, ListIds DEF Decided, Open
  <2>2. D[<<d, k>>] = C[<<d, k>>] /\ D[<<d, Other(k)>>] = C[<<d, Other(k)>>]
    BY <2>1
  <2> QED BY <1>2, <2>1, <2>2 DEF Decided, CalmAt
<1> QED BY <1>1, <1>2 DEF CalmAt

\* A list is exchanged for one with the same functions, or fewer.
LEMMA ListsSame ==
  ASSUME NEW M, NEW J, NEW C, Lists(M, J, C), NEW l \in ListId, NEW e, List(e),
         e.options = C[l].options,
         \A p \in DOMAIN e.list : \E q \in DOMAIN C[l].list : e.list[p] = C[l].list[q]
  PROVE  Lists(M, J, [C EXCEPT ![l] = e])
<1> DEFINE D == [C EXCEPT ![l] = e]
<1>1. /\ D \in [ListId -> Listing] /\ D[l] = e
      /\ \A m \in ListId : m # l => D[m] = C[m]
  BY DEF Lists, List, ListOf, Listing
<1> HIDE DEF D
<1>2. \A m \in ListId : /\ List(D[m]) /\ D[m].options = C[m].options
                        /\ \A p \in DOMAIN D[m].list :
                             \E q \in DOMAIN C[m].list : D[m].list[p] = C[m].list[q]
  BY <1>1 DEF Lists
<1>3. \A d \in Deferred : <<d, "notify">> \in ListId
  BY ListIds
<1>4. \A m \in Deferred \X Kind : m \in ListId
  BY DEF ListId
<1>5. \A p \in DOMAIN D[UserList].list : D[UserList].list[p].do = "user"
  BY <1>2, ListIds DEF Lists
<1>6. ASSUME NEW d \in Deferred
      PROVE  \A p \in DOMAIN D[<<d, "notify">>].list : Told(M, J, D[<<d, "notify">>].list[p], d)
  <2>1. \A q \in DOMAIN C[<<d, "notify">>].list : Told(M, J, C[<<d, "notify">>].list[q], d)
    BY DEF Lists
  <2> QED BY <1>2, <1>3, <2>1
<1>7. \A m \in Deferred \X Kind : D[m].options = Options(m[2])
  BY <1>2, <1>4 DEF Lists
<1>8. Lists(M, J, D)
  BY <1>1, <1>2, <1>5, <1>6, <1>7 DEF Lists
<1> QED BY <1>8 DEF D

\* A list is exchanged for one with a function more.
LEMMA ListsMore ==
  ASSUME NEW M, NEW J, NEW C, Lists(M, J, C), NEW l \in ListId, NEW e, List(e),
         e.options = C[l].options, NEW fn \in Entries,
         IF l = UserList THEN fn.do = "user" ELSE Late(M, J, fn),
         e.list \in {C[l].list, Append(C[l].list, fn)}
  PROVE  Lists(M, J, [C EXCEPT ![l] = e])
<1> DEFINE D == [C EXCEPT ![l] = e]
<1>1. /\ D \in [ListId -> Listing] /\ D[l] = e
      /\ \A m \in ListId : m # l => D[m] = C[m]
  BY DEF Lists, List, ListOf, Listing
<1> HIDE DEF D
<1>2. \A p \in DOMAIN e.list :
        e.list[p] = fn \/ \E q \in DOMAIN C[l].list : e.list[p] = C[l].list[q]
  <2>1. C[l].list \in Seq(Entries)
    BY DEF Lists, Listing, ListingOf
  <2>2. CASE e.list = C[l].list
    BY <2>2
  <2>3. CASE e.list = Append(C[l].list, fn)
    BY <2>1, <2>3, AppendIs
  <2> QED BY <2>2, <2>3
<1>3. \A m \in ListId : List(D[m]) /\ D[m].options = C[m].options
  BY <1>1 DEF Lists
<1>4. \A m \in Deferred \X Kind : m \in ListId
  BY DEF ListId
<1>5. \A p \in DOMAIN D[UserList].list : D[UserList].list[p].do = "user"
  BY <1>1, <1>2, ListIds DEF Lists
<1>6. ASSUME NEW d \in Deferred
      PROVE  \A p \in DOMAIN D[<<d, "notify">>].list : Told(M, J, D[<<d, "notify">>].list[p], d)
  <2> DEFINE m == <<d, "notify">>
  <2>1. m \in ListId /\ m # UserList
    BY ListIds
  <2>2. \A q \in DOMAIN C[m].list : Told(M, J, C[m].list[q], d)
    BY DEF Lists
  <2> HIDE DEF m
  <2>3. CASE l = m
    BY <1>1, <1>2, <2>1, <2>2, <2>3 DEF Told, m
  <2>4. CASE l # m
    BY <1>1, <2>1, <2>2, <2>4 DEF m
  <2> QED BY <2>3, <2>4
<1>7. \A m \in Deferred \X Kind : D[m].options = Options(m[2])
  BY <1>3, <1>4 DEF Lists
<1>8. Lists(M, J, D)
  BY <1>1, <1>3, <1>5, <1>6, <1>7 DEF Lists
<1> QED BY <1>8 DEF D

\* F, and the loop of l if the method has started it.
Called(F, l, c, e) == IF e.firing /\ ~c.firing THEN Append(F, Loop(l)) ELSE F

LEMMA CalledIs ==
  ASSUME NEW M, NEW J, NEW C, NEW F, Frames(M, J, F), Loops(C, F), NEW l \in ListId,
         C \in [ListId -> Listing], NEW e, C[l].firing => e.firing
  PROVE  /\ Frames(M, J, Called(F, l, C[l], e))
         /\ Loops([C EXCEPT ![l] = e], Called(F, l, C[l], e))
         /\ e.firing /\ ~C[l].firing => OnTop(Called(F, l, C[l], e), Loop(l))
<1> DEFINE D == [C EXCEPT ![l] = e]
           T == Called(F, l, C[l], e)
<1>1. \A m \in ListId : C[m].firing => D[m].firing
  OBVIOUS
<1>2. D[l] = e
  OBVIOUS
<1> HIDE DEF D
<1>3. CASE e.firing /\ ~C[l].firing
  <2>1. T = Append(F, Loop(l))
    BY <1>3 DEF Called
  <2>2. Frame(M, J, Loop(l)) /\ Loop(l).at = "loop" /\ Loop(l).l = l
    BY LoopIsFrame
  <2> HIDE DEF T
  <2>a. /\ Frames(M, J, T) /\ T # <<>> /\ T[Len(F) + 1] = Loop(l)
        /\ Len(T) = Len(F) + 1 /\ \A i \in 1..Len(F) : T[i] = F[i]
    BY <2>1, <2>2, FramePushed
  <2>b. /\ DOMAIN T = 1..Len(T) /\ Len(F) \in Nat /\ DOMAIN F = 1..Len(F)
        /\ \A i \in 1..Len(F) : Frame(M, J, F[i])
    BY <2>a, FramesAre
  <2>3. /\ Frames(M, J, T) /\ T # <<>> /\ T[Len(T)] = Loop(l) /\ DOMAIN T = 1..Len(T)
        /\ Len(T) = Len(F) + 1 /\ Len(F) \in Nat /\ DOMAIN F = 1..Len(F)
        /\ \A i \in 1..Len(F) : T[i] = F[i] /\ Frame(M, J, F[i])
    BY <2>a, <2>b
  <2>4. \A i \in DOMAIN T : (i \in DOMAIN F /\ T[i] = F[i]) \/ (i = Len(T) /\ T[i] = Loop(l))
    BY <2>3
  <2>5. \A i \in DOMAIN F : F[i].at = "loop" => F[i].l \in ListId /\ F[i].l # l
    BY <1>3, <2>3, FrameIs DEF Loops
  <2>6. \A i \in DOMAIN T : T[i].at = "loop" => D[T[i].l].firing
    BY <1>1, <1>2, <1>3, <2>2, <2>4, <2>5 DEF Loops
  <2>7. ASSUME NEW i \in DOMAIN T, NEW j \in DOMAIN T, T[i].at = "loop", T[j].at = "loop",
               T[i].l = T[j].l
        PROVE  i = j
    BY <2>2, <2>4, <2>5, <2>7 DEF Loops
  <2>8. Loops(D, T)
    BY <2>6, <2>7 DEF Loops
  <2> QED BY <2>3, <2>8 DEF OnTop, T, D
<1>4. CASE ~(e.firing /\ ~C[l].firing)
  <2>1. T = F
    BY <1>4 DEF Called
  <2>2. \A i \in DOMAIN F : F[i].at = "loop" => F[i].l \in ListId
    BY FramesAre, FrameIs
  <2>3. Loops(D, F)
    BY <1>1, <2>2 DEF Loops
  <2> QED BY <1>4, <2>1, <2>3 DEF D
<1> QED BY <1>3, <1>4

LEMMA KeepsSame == \A M, C, S : Keeps(M, C, S, C, S)
BY DEF Keeps

LEMMA KeepsTwice ==
  ASSUME NEW M, NEW C, NEW S, NEW D, NEW R, NEW E, NEW T,
         Keeps(M, C, S, D, R), Keeps(M, D, R, E, T)
  PROVE  Keeps(M, C, S, E, T)
<1>1. ASSUME NEW d \in Deferred, NEW k \in Outs
      PROVE  /\ T[d] = Final(k) <=> S[d] = Final(k)
             /\ S[d] = Final(k) => /\ E[<<d, k>>].memory = C[<<d, k>>].memory
                                   /\ Early(E, d, k) <=> Early(C, d, k)
  BY DEF Keeps
<1>2. ASSUME NEW d \in Deferred \ M, \A j \in Outs : S[d] # Final(j), NEW k \in Outs
      PROVE  E[<<d, k>>].locked = C[<<d, k>>].locked
  <2>1. \A j \in Outs : R[d] # Final(j)
    BY <1>2 DEF Keeps
  <2>2. D[<<d, k>>].locked = C[<<d, k>>].locked
    BY <1>2 DEF Keeps
  <2>3. E[<<d, k>>].locked = D[<<d, k>>].locked
    BY <2>1 DEF Keeps
  <2> QED BY <2>2, <2>3
<1> QED BY <1>1, <1>2 DEF Keeps

\* Nothing is early while it is calm.
LEMMA CalmIsLate ==
  ASSUME NEW M, NEW J, NEW C, Lists(M, J, C), NEW S, NEW d \in Deferred, CalmAt(M, J, C, S, d), NEW k \in Outs,
         S[d] = Final(k)
  PROVE  Decided(M, J, C, S, d, k) /\ ~Early(C, d, k)
<1>1. ~Open(S, d)
  BY ListIds DEF Open
<1>2. PICK j \in Outs : Decided(M, J, C, S, d, j)
  BY <1>1 DEF CalmAt, Undecided
<1>3. j = k
  BY <1>2, ListIds DEF Decided
<1> DEFINE c == C[<<d, k>>]
<1>0. c.index \in Nat /\ c.list \in Seq(Entries)
  <2>1. <<d, k>> \in ListId
    BY ListIds
  <2> QED BY <2>1 DEF Lists, Listing, ListingOf
<1>4. First(M, J, c, d, k) /\ c.index >= 4 => ~Early(C, d, k)
  <2>1. First(M, J, c, d, k) /\ c.index >= 4 => ~(c.index < 4)
    BY <1>0
  <2> QED BY <2>1 DEF Early
<1>5. Again(M, J, c) => ~Early(C, d, k)
  <2>1. c.list # <<>> /\ Again(M, J, c) => 1 \in DOMAIN c.list
    BY <1>0
  <2> QED BY <2>1 DEF Early, Again, Late
<1> QED BY <1>2, <1>3, <1>4, <1>5 DEF Decided
-----------------------------------------------------------------------------
(* fire, add and the loop, while every outcome is settled or open *)

\* Only the list l has changed.
LEMMA CalmBut ==
  ASSUME NEW M, NEW J, NEW C \in [ListId -> Listing], NEW S, Calm(M, J, C, S),
         NEW l \in ListId, NEW e,
         \A d \in Deferred : \A k \in Outs :
           l = <<d, k>> => CalmAt(M, J, [C EXCEPT ![l] = e], S, d)
  PROVE  Calm(M, J, [C EXCEPT ![l] = e], S)
<1> DEFINE D == [C EXCEPT ![l] = e]
<1>1. \A m \in ListId : m # l => D[m] = C[m]
  OBVIOUS
<1> HIDE DEF D
<1>2. ASSUME NEW d \in Deferred PROVE CalmAt(M, J, D, S, d)
  <2>1. CASE \E k \in Outs : l = <<d, k>>
    BY <2>1 DEF D
  <2>2. CASE \A k \in Outs : l # <<d, k>>
    <3>1. \A k \in Outs : <<d, k>> \in ListId
      BY ListIds
    <3>2. \A k \in Outs : D[<<d, k>>] = C[<<d, k>>]
      BY <1>1, <2>2, <3>1
    <3> QED BY <3>2, CalmSame DEF Calm
  <2> QED BY <2>1, <2>2
<1> QED BY <1>2 DEF Calm, D

LEMMA KeepsBut ==
  ASSUME NEW M, NEW J, NEW C, Lists(M, J, C), NEW S, Calm(M, J, C, S),
         NEW l \in ListId, NEW e, NEW N,
         \A d \in Deferred : \A k \in Outs : l = <<d, k>> =>
           /\ d \notin N => e.locked = C[l].locked
           /\ S[d] = Final(k) => /\ e.memory = C[l].memory
                                 /\ ~Early([C EXCEPT ![l] = e], d, k)
  PROVE  Keeps(N, C, S, [C EXCEPT ![l] = e], S)
<1> DEFINE D == [C EXCEPT ![l] = e]
<1>1. D[l] = e /\ \A m \in ListId : m # l => D[m] = C[m]
  BY DEF Lists
<1> HIDE DEF D
<1>2. ASSUME NEW d \in Deferred, NEW k \in Outs
      PROVE  /\ d \notin N => D[<<d, k>>].locked = C[<<d, k>>].locked
             /\ S[d] = Final(k) => /\ D[<<d, k>>].memory = C[<<d, k>>].memory
                                   /\ Early(D, d, k) <=> Early(C, d, k)
  <2>1. <<d, k>> \in ListId
    BY ListIds
  <2>2. S[d] = Final(k) => ~Early(C, d, k)
    BY CalmIsLate DEF Calm
  <2>3. CASE l = <<d, k>>
    <3>1. /\ d \notin N => e.locked = C[l].locked
          /\ S[d] = Final(k) => e.memory = C[l].memory /\ ~Early(D, d, k)
      BY <2>3 DEF D
    <3> QED BY <1>1, <2>2, <2>3, <3>1
  <2>4. CASE l # <<d, k>>
    <3>1. D[<<d, k>>] = C[<<d, k>>]
      BY <1>1, <2>1, <2>4
    <3> QED BY <3>1 DEF Early
  <2> QED BY <2>3, <2>4
<1>3. Keeps(N, C, S, D, S)
  BY <1>2 DEF Keeps
<1> QED BY <1>3 DEF D

LEMMA CalmEnough ==
  ASSUME NEW M, NEW J, NEW C, NEW S, NEW K, Calm(M, J, C, S)
  PROVE  Outcomes(M, J, C, S, K)
BY DEF Calm, Outcomes

LEMMA FireKeeps ==
  ASSUME NEW M, NEW J, NEW C, NEW S, NEW F, Lists(M, J, C), Calm(M, J, C, S), Loops(C, F),
         Frames(M, J, F), NEW l \in ListId, NEW v \in Value, NEW e, e = FireWith(C[l], v),
         NEW N, l[1] \in N \/ l = UserList \/ l[2] = "notify"
  PROVE  /\ Arranged(M, J, [C EXCEPT ![l] = e], S, Called(F, l, C[l], e))
         /\ Keeps(N, C, S, [C EXCEPT ![l] = e], S)
<1> DEFINE c == C[l]
           D == [C EXCEPT ![l] = e]
           T == Called(F, l, c, e)
<1>0. List(c) /\ C \in [ListId -> Listing]
  BY DEF Lists
<1>1. /\ List(e) /\ e.options = c.options /\ e.list = c.list /\ e.gone = c.gone
      /\ c.locked => e = c
      /\ ~c.locked /\ c.firing =>
           /\ e.memory = c.memory /\ e.queue = Append(c.queue, v) /\ e.index = c.index
           /\ ~e.locked /\ e.firing
      /\ ~c.locked /\ ~c.firing =>
           /\ e.memory = v /\ e.queue = <<>> /\ e.index = 0
           /\ e.locked = ("once" \in c.options) /\ e.firing
  BY <1>0, FireIs
<1>2. Lists(M, J, D)
  BY <1>1, ListsSame
<1>3. /\ Frames(M, J, T) /\ Loops(D, T)
      /\ e.firing /\ ~c.firing => OnTop(T, Loop(l))
  <2>1. c.firing => e.firing
    BY <1>1
  <2> QED BY <1>0, <2>1, CalledIs
<1>4. D[l] = e /\ \A m \in ListId : m # l => D[m] = C[m]
  BY <1>0
<1> HIDE DEF T
<1>5. CASE c.locked
  <2>1. D = C
    BY <1>0, <1>1, <1>5
  <2>2. Outcomes(M, J, D, S, T)
    BY <2>1, CalmEnough
  <2> QED BY <1>2, <1>3, <2>1, <2>2, KeepsSame DEF Arranged, T
<1> HIDE DEF D
<1>6. CASE ~c.locked /\ \A d \in Deferred : \A k \in Outs : l # <<d, k>>
  <2>1. Calm(M, J, D, S)
    BY <1>0, <1>6, CalmBut DEF D
  <2>2. Keeps(N, C, S, D, S)
    BY <1>6, KeepsBut DEF D
  <2> QED BY <1>2, <1>3, <2>1, <2>2, CalmEnough DEF Arranged, D, T
<1>7. ASSUME NEW d \in Deferred, NEW k \in Outs, l = <<d, k>>, ~c.locked
      PROVE  Outcomes(M, J, D, S, T) /\ Keeps(N, C, S, D, S)
  <2>1. Undecided(M, J, C, S, d)
    <3>1. CalmAt(M, J, C, S, d)
      BY DEF Calm
    <3>2. ASSUME NEW j \in Outs, Decided(M, J, C, S, d, j) PROVE FALSE
      <4>1. j = k \/ Other(j) = k
        BY ListIds DEF Other
      <4> QED BY <1>7, <3>2, <4>1 DEF Decided, First, Again, Dead
    <3> QED BY <3>1, <3>2 DEF CalmAt
  <2>2. /\ Waiting(M, J, c, d, k) /\ Open(S, d)
        /\ Waiting(M, J, C[<<d, Other(k)>>], d, Other(k))
    BY <1>7, <2>1, ListIds DEF Undecided
  <2>3. c.options = {"once", "memory"}
    BY <1>7, ListIds DEF Lists
  <2>4. /\ e.locked /\ e.firing /\ ~e.gone /\ e.memory = v /\ e.queue = <<>> /\ e.index = 0
        /\ Starts(M, J, e.list, d, k) /\ ~c.firing
    BY <1>1, <1>7, <2>2, <2>3 DEF Waiting
  <2>5. First(M, J, D[<<d, k>>], d, k) /\ D[<<d, k>>].index = 0
    BY <1>4, <1>7, <2>4, NoneIsNoValue DEF First
  <2>6. D[<<d, Other(k)>>] = C[<<d, Other(k)>>]
    <3>1. <<d, Other(k)>> \in ListId /\ <<d, Other(k)>> # l
      BY <1>7, ListIds
    <3> QED BY <1>4, <3>1
  <2>7. OnTop(T, Loop(<<d, k>>))
    BY <1>3, <1>7, <2>4
  <2>8. Deciding(M, J, D, S, T, d, k)
    BY <2>2, <2>5, <2>6, <2>7 DEF Deciding
  <2>9. ASSUME NEW b \in Deferred, b # d PROVE CalmAt(M, J, D, S, b)
    <3>1. \A j \in Outs : <<b, j>> \in ListId /\ <<b, j>> # l
      BY <1>7, <2>9, ListIds
    <3>2. \A j \in Outs : D[<<b, j>>] = C[<<b, j>>]
      BY <1>4, <3>1
    <3> QED BY <3>2, CalmSame DEF Calm
  <2>10. Outcomes(M, J, D, S, T)
    BY <2>8, <2>9 DEF Outcomes
  <2>11. d \in N
    BY <1>7, ListIds
  <2>12. \A j \in Outs : S[d] # Final(j)
    BY <2>2, ListIds DEF Open
  <2>13. Keeps(N, C, S, D, S)
    <3>1. \A b \in Deferred : \A j \in Outs : l = <<b, j>> => b = d
      BY <1>7
    <3> QED BY <2>11, <2>12, <3>1, KeepsBut DEF D
  <2> QED BY <2>10, <2>13
<1>8. CASE ~c.locked /\ \E d \in Deferred : \E k \in Outs : l = <<d, k>>
  BY <1>2, <1>3, <1>7, <1>8 DEF Arranged, D, T
<1> QED BY <1>5, <1>6, <1>8
LEMMA OutIs ==
  ASSUME NEW M, NEW J, NEW C, NEW S, NEW d \in Deferred, NEW k \in Outs, CalmAt(M, J, C, S, d)
  PROVE  \/ /\ Waiting(M, J, C[<<d, k>>], d, k) /\ Open(S, d)
            /\ Waiting(M, J, C[<<d, Other(k)>>], d, Other(k))
         \/ Dead(C[<<d, k>>]) /\ Decided(M, J, C, S, d, Other(k)) /\ S[d] # Final(k)
         \/ Decided(M, J, C, S, d, k)
<1>1. CASE Undecided(M, J, C, S, d)
  BY <1>1, ListIds DEF Undecided
<1>2. ASSUME NEW j \in Outs, j # k, Decided(M, J, C, S, d, j)
      PROVE  Dead(C[<<d, k>>]) /\ Decided(M, J, C, S, d, Other(k)) /\ S[d] # Final(k)
  <2>1. j = Other(k) /\ Other(j) = k /\ Final(j) # Final(k)
    BY <1>2, ListIds DEF Other
  <2> QED BY <1>2, <2>1 DEF Decided
<1> QED BY <1>1, <1>2 DEF CalmAt

\* What keeps CalmAt at the one list that has changed.
LEMMA CalmChanged ==
  ASSUME NEW M, NEW J, NEW C, Lists(M, J, C), NEW S, Calm(M, J, C, S), NEW l \in ListId, NEW e,
         NEW N,
         \A d \in Deferred : \A k \in Outs : l = <<d, k>> =>
           /\ Waiting(M, J, C[l], d, k) => Waiting(M, J, e, d, k)
           /\ Dead(C[l]) => Dead(e)
           /\ First(M, J, C[l], d, k) /\ C[l].index >= 4 =>
                ((First(M, J, e, d, k) /\ e.index >= 4) \/ Again(M, J, e)) /\ e.memory = C[l].memory
           /\ Again(M, J, C[l]) => Again(M, J, e) /\ e.memory = C[l].memory,
         Lists(M, J, [C EXCEPT ![l] = e])
  PROVE  /\ Calm(M, J, [C EXCEPT ![l] = e], S)
         /\ Keeps(N, C, S, [C EXCEPT ![l] = e], S)
<1> DEFINE c == C[l]
           D == [C EXCEPT ![l] = e]
<1>0. C \in [ListId -> Listing]
  BY DEF Lists
<1>1. D[l] = e /\ \A m \in ListId : m # l => D[m] = C[m]
  BY <1>0
<1>a. c.locked \in BOOLEAN /\ e.locked \in BOOLEAN
  BY <1>1 DEF Lists, Listing, ListingOf
<1> HIDE DEF D
<1>2. ASSUME NEW d \in Deferred, NEW k \in Outs, l = <<d, k>>
      PROVE  /\ CalmAt(M, J, D, S, d)
             /\ e.locked = c.locked
             /\ S[d] = Final(k) => e.memory = c.memory /\ ~Early(D, d, k)
  <2>1. /\ Waiting(M, J, c, d, k) => Waiting(M, J, e, d, k)
        /\ Dead(c) => Dead(e)
        /\ First(M, J, c, d, k) /\ c.index >= 4 =>
             ((First(M, J, e, d, k) /\ e.index >= 4) \/ Again(M, J, e)) /\ e.memory = c.memory
        /\ Again(M, J, c) => Again(M, J, e) /\ e.memory = c.memory
    BY <1>2
  <2>2. D[<<d, k>>] = e /\ D[<<d, Other(k)>>] = C[<<d, Other(k)>>]
    <3>1. <<d, Other(k)>> \in ListId /\ <<d, Other(k)>> # l
      BY <1>2, ListIds
    <3> QED BY <1>1, <1>2, <3>1
  <2>3. CASE /\ Waiting(M, J, c, d, k) /\ Open(S, d)
             /\ Waiting(M, J, C[<<d, Other(k)>>], d, Other(k))
    <3>1. \A j \in Outs : Waiting(M, J, D[<<d, j>>], d, j)
      <4>1. \A j \in Outs : j = k \/ j = Other(k)
        BY ListIds DEF Other
      <4> QED BY <2>1, <2>2, <2>3, <4>1
    <3>2. S[d] # Final(k)
      BY <2>3, ListIds DEF Open
    <3>3. CalmAt(M, J, D, S, d)
      BY <2>3, <3>1 DEF CalmAt, Undecided
    <3>4. e.locked = c.locked
      BY <1>a, <2>1, <2>3 DEF Waiting
    <3> QED BY <3>2, <3>3, <3>4
  <2>4. CASE Dead(c) /\ Decided(M, J, C, S, d, Other(k)) /\ S[d] # Final(k)
    <3>1. Decided(M, J, D, S, d, Other(k))
      <4>1. Other(Other(k)) = k
        BY ListIds
      <4> QED BY <1>2, <2>1, <2>2, <2>4, <4>1 DEF Decided
    <3>2. CalmAt(M, J, D, S, d)
      BY <3>1, ListIds DEF CalmAt
    <3>3. e.locked = c.locked
      BY <1>a, <2>1, <2>4 DEF Dead
    <3> QED BY <2>4, <3>2, <3>3
  <2>5. CASE Decided(M, J, C, S, d, k)
    <3>1. Decided(M, J, D, S, d, k) /\ e.memory = c.memory
      BY <1>2, <2>1, <2>2, <2>5 DEF Decided
    <3>2. CalmAt(M, J, D, S, d)
      BY <3>1 DEF CalmAt
    <3>3. e.locked = c.locked
      BY <1>2, <2>1, <2>5 DEF Decided, First, Again
    <3>4. ~Early(D, d, k)
      <4>1. Lists(M, J, D) /\ S[d] = Final(k)
        BY <2>5 DEF Decided, D
      <4> QED BY <3>2, <4>1, CalmIsLate
    <3> QED BY <3>1, <3>2, <3>3, <3>4
  <2>6. CalmAt(M, J, C, S, d)
    BY DEF Calm
  <2> QED BY <1>2, <2>3, <2>4, <2>5, <2>6, OutIs
<1>3. Calm(M, J, D, S)
  BY <1>0, <1>2, CalmBut DEF D
<1>4. Keeps(N, C, S, D, S)
  BY <1>2, KeepsBut DEF D
<1> QED BY <1>3, <1>4 DEF D

LEMMA LateAdded ==
  ASSUME NEW M, NEW J, NEW s \in Seq(Entries), NEW fn \in Entries, Late(M, J, fn),
         NEW t, t \in {s, Append(s, fn)}
  PROVE  /\ \A d, k : Starts(M, J, s, d, k) => Starts(M, J, t, d, k)
         /\ (\A p \in DOMAIN s : Late(M, J, s[p])) => \A p \in DOMAIN t : Late(M, J, t[p])
<1>1. CASE t = s
  BY <1>1
<1>2. CASE t = Append(s, fn)
  <2>1. /\ Len(s) \in Nat /\ DOMAIN s = 1..Len(s) /\ Len(t) = Len(s) + 1
        /\ DOMAIN t = 1..(Len(s) + 1)
        /\ \A i \in 1..Len(s) : t[i] = s[i]
        /\ t[Len(s) + 1] = fn
    BY <1>2, AppendIs
  <2>2. \A p \in DOMAIN t : (p \in DOMAIN s /\ t[p] = s[p]) \/ t[p] = fn
    BY <2>1
  <2>3. Len(s) >= 4 => Len(t) >= 4 /\ \A p \in 1..4 : t[p] = s[p]
    BY <2>1
  <2>4. ASSUME NEW d, NEW k, Starts(M, J, s, d, k) PROVE Starts(M, J, t, d, k)
    <3>1. Len(t) >= 4 /\ t[1] = s[1] /\ t[2] = s[2] /\ t[3] = s[3] /\ t[4] = s[4]
      BY <2>3, <2>4 DEF Starts
    <3> QED BY <2>2, <2>4, <3>1 DEF Starts
  <2> QED BY <2>2, <2>4
<1> QED BY <1>1, <1>2

LEMMA AddKeeps ==
  ASSUME NEW M, NEW J, NEW C, NEW S, NEW F, Lists(M, J, C), Calm(M, J, C, S), Loops(C, F),
         Frames(M, J, F), NEW l \in ListId, NEW fn \in Entries,
         IF l = UserList THEN fn.do = "user" ELSE Late(M, J, fn),
         NEW e, e = Add(C[l], fn), NEW N
  PROVE  /\ Arranged(M, J, [C EXCEPT ![l] = e], S, Called(F, l, C[l], e))
         /\ Calm(M, J, [C EXCEPT ![l] = e], S)
         /\ Keeps(N, C, S, [C EXCEPT ![l] = e], S)
<1> DEFINE c == C[l]
           D == [C EXCEPT ![l] = e]
           T == Called(F, l, c, e)
<1>0. List(c) /\ C \in [ListId -> Listing] /\ c \in Listing /\ c.list \in Seq(Entries)
  BY DEF Lists, Listing, ListingOf
<1>1. /\ List(e) /\ e.options = c.options /\ e.gone = c.gone
      /\ e.memory = c.memory /\ e.queue = c.queue
      /\ c.gone => e = c
      /\ ~c.gone =>
           \/ e.list = c.list /\ "unique" \in c.options /\ Has(c, fn)
           \/ e.list = Append(c.list, fn) /\ ~("unique" \in c.options /\ Has(c, fn))
      /\ \/ ~c.gone /\ c.memory # None /\ ~c.firing /\ e.firing /\ e.index = Len(c.list)
            /\ e.locked = (c.locked \/ "once" \in c.options)
         \/ ~(~c.gone /\ c.memory # None /\ ~c.firing) /\ e.firing = c.firing
            /\ e.index = c.index /\ e.locked = c.locked
  <2>1. List(c) /\ e = Add(c, fn)
    BY <1>0
  <2> HIDE DEF c
  <2> QED BY <2>1, AddIs
<1>2. e.list \in {c.list, Append(c.list, fn)}
  BY <1>1
<1>3. Lists(M, J, D)
  BY <1>1, <1>2, ListsMore
<1>4. Frames(M, J, T) /\ Loops(D, T)
  <2>1. c.firing => e.firing
    BY <1>1
  <2> QED BY <1>0, <2>1, CalledIs
<1>5. ASSUME NEW d \in Deferred, NEW k \in Outs, l = <<d, k>>
      PROVE  /\ Waiting(M, J, c, d, k) => Waiting(M, J, e, d, k)
             /\ Dead(c) => Dead(e)
             /\ First(M, J, c, d, k) /\ c.index >= 4 =>
                  ((First(M, J, e, d, k) /\ e.index >= 4) \/ Again(M, J, e)) /\ e.memory = c.memory
             /\ Again(M, J, c) => Again(M, J, e) /\ e.memory = c.memory
  <2>1. Late(M, J, fn)
    BY <1>5, ListIds
  <2>2. /\ Starts(M, J, c.list, d, k) => Starts(M, J, e.list, d, k)
        /\ (\A p \in DOMAIN c.list : Late(M, J, c.list[p])) =>
             \A p \in DOMAIN e.list : Late(M, J, e.list[p])
    BY <1>0, <1>2, <2>1, LateAdded
  <2>3. Waiting(M, J, c, d, k) => Waiting(M, J, e, d, k)
    BY <1>1, <2>2 DEF Waiting
  <2>4. Dead(c) => Dead(e)
    BY <1>1 DEF Dead
  <2>5. First(M, J, c, d, k) /\ c.index >= 4 =>
          First(M, J, e, d, k) /\ e.index >= 4 /\ e.memory = c.memory
    BY <1>1, <2>2 DEF First
  <2>6. Again(M, J, c) => Again(M, J, e) /\ e.memory = c.memory
    BY <1>1, <2>2 DEF Again
  <2> QED BY <2>3, <2>4, <2>5, <2>6
<1>6. Calm(M, J, D, S) /\ Keeps(N, C, S, D, S)
  BY <1>3, <1>5, CalmChanged
<1> QED BY <1>3, <1>4, <1>6, CalmEnough DEF Arranged

LEMMA AdvanceKeeps ==
  ASSUME NEW M, NEW J, NEW C, NEW S, NEW K, Lists(M, J, C), Calm(M, J, C, S), Loops(C, K),
         Frames(M, J, K), NEW l \in ListId, C[l].firing, NEW e, e = Advance(C[l]), NEW N
  PROVE  /\ Lists(M, J, [C EXCEPT ![l] = e]) /\ Calm(M, J, [C EXCEPT ![l] = e], S)
         /\ Loops([C EXCEPT ![l] = e], K) /\ Keeps(N, C, S, [C EXCEPT ![l] = e], S)
<1> DEFINE c == C[l]
           D == [C EXCEPT ![l] = e]
<1>0. List(c) /\ C \in [ListId -> Listing] /\ c \in Listing /\ c.index \in Nat
  BY DEF Lists, List, ListOf, Listing, ListingOf
<1>1. /\ List(e) /\ e.options = c.options /\ e.list = c.list /\ e.gone = c.gone
      /\ e.memory = c.memory /\ e.queue = c.queue /\ e.index = c.index + 1
      /\ e.locked = c.locked /\ e.firing
  BY <1>0, AdvanceIs
<1>2. Lists(M, J, D)
  BY <1>1, ListsSame
<1>3. Loops(D, K)
  <2>1. Called(K, l, c, e) = K
    BY DEF Called
  <2> QED BY <1>0, <1>1, <2>1, CalledIs
<1>4. ASSUME NEW d \in Deferred, NEW k \in Outs, l = <<d, k>>
      PROVE  /\ Waiting(M, J, c, d, k) => Waiting(M, J, e, d, k)
             /\ Dead(c) => Dead(e)
             /\ First(M, J, c, d, k) /\ c.index >= 4 =>
                  ((First(M, J, e, d, k) /\ e.index >= 4) \/ Again(M, J, e)) /\ e.memory = c.memory
             /\ Again(M, J, c) => Again(M, J, e) /\ e.memory = c.memory
  <2>1. ~Waiting(M, J, c, d, k) /\ ~Dead(c)
    BY DEF Waiting, Dead
  <2>2. First(M, J, c, d, k) /\ c.index >= 4 => First(M, J, e, d, k) /\ e.index >= 4
    BY <1>0, <1>1 DEF First
  <2>3. Again(M, J, c) => Again(M, J, e)
    BY <1>1 DEF Again
  <2> QED BY <1>1, <2>1, <2>2, <2>3
<1>5. Calm(M, J, D, S) /\ Keeps(N, C, S, D, S)
  BY <1>2, <1>4, CalmChanged
<1> QED BY <1>2, <1>3, <1>5

\* The loop of l is on top, and has nobody left to call.
LEMMA EndKeeps ==
  ASSUME NEW M, NEW J, NEW C, NEW S, NEW K, Lists(M, J, C), Calm(M, J, C, S), Loops(C, K),
         Frames(M, J, K), NEW l \in ListId, OnTop(K, Loop(l)), ~Pending(C[l]), NEW e, NEW L,
         IF C[l].queue # <<>> THEN e = NextValue(C[l]) /\ L = K
         ELSE e = Finish(C[l]) /\ L = SubSeq(K, 1, Len(K) - 1),
         NEW N
  PROVE  /\ Arranged(M, J, [C EXCEPT ![l] = e], S, L)
         /\ Keeps(N, C, S, [C EXCEPT ![l] = e], S)
<1> DEFINE c == C[l]
           D == [C EXCEPT ![l] = e]
<1>0. List(c) /\ C \in [ListId -> Listing] /\ c \in Listing /\ c.index \in Nat
  BY DEF Lists, List, ListOf, Listing, ListingOf
<1>1. /\ Len(K) \in Nat /\ DOMAIN K = 1..Len(K) /\ Len(K) \in DOMAIN K
      /\ K[Len(K)] = Loop(l) /\ Loop(l).at = "loop" /\ Loop(l).l = l
  BY FramesAre, LoopIsFrame DEF OnTop
<1>2. c.firing
  BY <1>1 DEF Loops
<1>3. D[l] = e /\ \A m \in ListId : m # l => D[m] = C[m]
  BY <1>0
<1> HIDE DEF D
<1>4. CASE c.queue # <<>>
  <2>1. /\ List(e) /\ e.options = c.options /\ e.list = c.list /\ e.gone = c.gone
        /\ e.index = 0 /\ e.locked = c.locked /\ e.firing
    BY <1>0, <1>2, <1>4, NextIs
  <2>2. Lists(M, J, D)
    BY <2>1, ListsSame DEF D
  <2>3. Loops(D, K)
    <3>1. Called(K, l, c, e) = K
      BY <1>2 DEF Called
    <3> QED BY <1>0, <2>1, <3>1, CalledIs DEF D
  <2>4. \A d, k : ~Waiting(M, J, c, d, k) /\ ~Dead(c) /\ ~First(M, J, c, d, k) /\ ~Again(M, J, c)
    BY <1>2, <1>4 DEF Waiting, Dead, First, Again
  <2>5. Calm(M, J, D, S) /\ Keeps(N, C, S, D, S)
    BY <2>2, <2>4, CalmChanged DEF D
  <2> QED BY <1>4, <2>2, <2>3, <2>5, CalmEnough DEF Arranged, D
<1>5. CASE c.queue = <<>>
  <2>1. /\ List(e) /\ e.options = c.options /\ e.queue = <<>> /\ e.index = 0 /\ ~e.firing
        /\ e.memory = (IF "memory" \in c.options THEN c.memory ELSE None)
        /\ e.locked = c.locked
        /\ c.locked => e.list = <<>> /\ e.gone = (e.memory = None)
        /\ ~c.locked => e.list = c.list /\ e.gone = c.gone
    BY <1>0, <1>5, FinishIs
  <2>2. \A p \in DOMAIN e.list : \E q \in DOMAIN c.list : e.list[p] = c.list[q]
    <3>1. CASE e.list = <<>>
      BY <3>1
    <3>2. CASE e.list = c.list
      BY <3>2
    <3> QED BY <2>1, <3>1, <3>2
  <2>3. Lists(M, J, D)
    BY <2>1, <2>2, ListsSame DEF D
  <2>4. /\ Frames(M, J, L) /\ Len(L) = Len(K) - 1 /\ DOMAIN L = 1..Len(L)
        /\ \A i \in 1..(Len(K) - 1) : L[i] = K[i]
    <3>1. Len(K) - 1 \in Nat /\ Len(K) - 1 <= Len(K)
      BY <1>1
    <3>2. Frames(M, J, L) /\ Len(L) = Len(K) - 1 /\ \A i \in 1..(Len(K) - 1) : L[i] = K[i]
      <4>1. L = SubSeq(K, 1, Len(K) - 1)
        BY <1>5
      <4> DEFINE n == Len(K) - 1
      <4>2. n \in Nat /\ n <= Len(K) /\ L = SubSeq(K, 1, n)
        BY <3>1, <4>1
      <4> HIDE DEF n
      <4>3. /\ Frames(M, J, SubSeq(K, 1, n)) /\ Len(SubSeq(K, 1, n)) = n
            /\ \A i \in 1..n : SubSeq(K, 1, n)[i] = K[i]
        BY <4>2, FrameCut
      <4> QED BY <4>2, <4>3 DEF n
    <3> QED BY <3>2, FramesAre
  <2>5. Loops(D, L)
    <3>1. \A i \in DOMAIN L : i \in DOMAIN K /\ L[i] = K[i] /\ i # Len(K) /\ Frame(M, J, K[i])
      BY <1>1, <2>4, FramesAre
    <3>2. ASSUME NEW i \in DOMAIN L, L[i].at = "loop" PROVE D[L[i].l].firing
      <4>1. K[i].l \in ListId /\ K[i].at = "loop"
        BY <3>1, <3>2, FrameIs
      <4>2. K[i].l # l
        BY <1>1, <3>1, <4>1 DEF Loops
      <4> QED BY <1>3, <3>1, <4>1, <4>2 DEF Loops
    <3> QED BY <3>1, <3>2 DEF Loops
  <2>6. ASSUME NEW d \in Deferred, NEW k \in Outs, l = <<d, k>>
        PROVE  /\ ~Waiting(M, J, c, d, k) /\ ~Dead(c)
               /\ First(M, J, c, d, k) \/ Again(M, J, c) => Again(M, J, e) /\ e.memory = c.memory
    <3>1. c.options = {"once", "memory"}
      BY <2>6, ListIds DEF Lists
    <3>2. First(M, J, c, d, k) \/ Again(M, J, c) => Again(M, J, e) /\ e.memory = c.memory
      <4>1. SUFFICES ASSUME First(M, J, c, d, k) \/ Again(M, J, c)
                     PROVE  Again(M, J, e) /\ e.memory = c.memory
        OBVIOUS
      <4>2. c.locked /\ c.memory # None
        BY <4>1 DEF First, Again
      <4>3. e.memory = c.memory /\ e.locked /\ e.list = <<>> /\ e.gone = (e.memory = None)
        BY <2>1, <3>1, <4>2
      <4>4. \A p \in DOMAIN e.list : Late(M, J, e.list[p])
        BY <4>3
      <4> QED BY <2>1, <4>2, <4>3, <4>4 DEF Again
    <3> QED BY <1>2, <3>2 DEF Waiting, Dead
  <2>7. Calm(M, J, D, S) /\ Keeps(N, C, S, D, S)
    BY <2>3, <2>6, CalmChanged DEF D
  <2> QED BY <2>3, <2>4, <2>5, <2>7, CalmEnough DEF Arranged, D
<1> QED BY <1>4, <1>5
-----------------------------------------------------------------------------
(* The call of when *)

\* J has the master and the arguments of the call, if there is one.
JoinLater(M, J, L) == J.master \in M => L.master = J.master /\ L.args = J.args

LEMMA LateLater ==
  ASSUME NEW M, NEW J, NEW L, JoinLater(M, J, L)
  PROVE  /\ \A e : Late(M, J, e) => Late(M, L, e)
         /\ \A f : Frame(M, J, f) => Frame(M, L, f)
         /\ \A e, d : Told(M, J, e, d) => Told(M, L, e, d)
<1>1. \A e : Late(M, J, e) => Late(M, L, e)
  BY DEF JoinLater, Late
<1>2. \A f : Frame(M, J, f) => Frame(M, L, f)
  <2> TAKE f
  <2> HAVE Frame(M, J, f)
  <2>1. CASE /\ f \in [at : {"when"}, i : Nat, step : {"single", "decide", "loop"}]
             /\ J.master \in M /\ f.i \in 0..Len(J.args)
    <3>1. L.master \in M /\ f.i \in 0..Len(L.args)
      BY <2>1 DEF JoinLater
    <3> QED BY <2>1, <3>1 DEF Frame
  <2>2. CASE /\ f \in [at : {"adds"}, todo : Seq(Todos)] /\ f.todo # <<>>
             /\ \A p \in DOMAIN f.todo : Late(M, J, f.todo[p][2])
    BY <1>1, <2>2 DEF Frame
  <2> QED BY <2>1, <2>2 DEF Frame
<1>3. \A e, d : Told(M, J, e, d) => Told(M, L, e, d)
  BY <1>1 DEF Told
<1> QED BY <1>1, <1>2, <1>3

LEMMA ListsLater ==
  ASSUME NEW M, NEW J, NEW L, JoinLater(M, J, L)
  PROVE  /\ \A C : Lists(M, J, C) => Lists(M, L, C)
         /\ \A K : Frames(M, J, K) => Frames(M, L, K)
<1>1. \A C : Lists(M, J, C) => Lists(M, L, C)
  BY LateLater DEF Lists
<1>2. \A K : Frames(M, J, K) => Frames(M, L, K)
  BY LateLater DEF Frames
<1> QED BY <1>1, <1>2

LEMMA CalmLater ==
  ASSUME NEW M, NEW J, NEW L, JoinLater(M, J, L), NEW C, NEW S
  PROVE  /\ Calm(M, J, C, S) => Calm(M, L, C, S)
         /\ \A K : Outcomes(M, J, C, S, K) => Outcomes(M, L, C, S, K)
<1>1. \A s, d, k : Starts(M, J, s, d, k) => Starts(M, L, s, d, k)
  BY LateLater DEF Starts
<1>2. \A c, d, k : Waiting(M, J, c, d, k) => Waiting(M, L, c, d, k)
  BY <1>1 DEF Waiting
<1>3. \A c, d, k : First(M, J, c, d, k) => First(M, L, c, d, k)
  BY <1>1 DEF First
<1>4. \A c : Again(M, J, c) => Again(M, L, c)
  BY LateLater DEF Again
<1>5. \A d : Undecided(M, J, C, S, d) => Undecided(M, L, C, S, d)
  BY <1>2 DEF Undecided
<1>6. \A d, k : Decided(M, J, C, S, d, k) => Decided(M, L, C, S, d, k)
  BY <1>3, <1>4 DEF Decided
<1>7. \A d : CalmAt(M, J, C, S, d) => CalmAt(M, L, C, S, d)
  BY <1>5, <1>6 DEF CalmAt
<1>8. \A K, d, k : Deciding(M, J, C, S, K, d, k) => Deciding(M, L, C, S, K, d, k)
  BY <1>2, <1>3 DEF Deciding
<1> QED BY <1>7, <1>8 DEF Calm, Outcomes

LEMMA ArrangedLater ==
  ASSUME NEW M, NEW J, NEW L, JoinLater(M, J, L), NEW C, NEW S, NEW K, Arranged(M, J, C, S, K)
  PROVE  Arranged(M, L, C, S, K)
BY ListsLater, CalmLater DEF Arranged

LEMMA NobodyIsNotMine ==
  ASSUME NEW M \in SUBSET Deferred
  PROVE  Nobody \notin M
BY DEF Nobody, Deferred

Updated(J, i, v) == [J EXCEPT !.values[i] = v, !.remaining = @ - 1]

LEMMA UpdateIs ==
  ASSUME NEW M \in SUBSET Deferred, NEW J, Joined(M, J), J.master \in M, NEW i, NEW v \in Value
  PROVE  Joined(M, Updated(J, i, v)) /\ JoinLater(M, J, Updated(J, i, v))
<1> DEFINE L == Updated(J, i, v)
<1> DEFINE w == [J.values EXCEPT ![i] = v]
<1>1. J # NoWhen
  BY NobodyIsNotMine DEF NoWhen
<1>2. DOMAIN w = DOMAIN J.values /\ \A j \in DOMAIN w : w[j] \in Value
  BY DEF Joined
<1> DEFINE r == J.remaining - 1
<1>a. r \in Int /\ J \in [master : M \cup {Nobody}, remaining : Int, args : Seq(Value),
                         values : {J.values}, answer : Deferred \cup {Nobody}]
  BY DEF Joined
<1>3. L = [J EXCEPT !.values = w, !.remaining = r]
  BY <1>a DEF Updated
<1> HIDE DEF w, L, r
<1>4. /\ L.master = J.master /\ L.args = J.args /\ L.values = w
      /\ L \in [master : M \cup {Nobody}, remaining : Int, args : Seq(Value),
                values : {w}, answer : Deferred \cup {Nobody}]
  BY <1>a, <1>3
<1>5. Joined(M, L) /\ JoinLater(M, J, L)
  BY <1>1, <1>2, <1>4 DEF Joined, JoinLater
<1> QED BY <1>5 DEF L

-----------------------------------------------------------------------------
(* The functions that lists call *)

LEMMA CalledAs ==
  ASSUME NEW M, NEW J, NEW F, Frames(M, J, F), NEW l, NEW c, NEW e
  PROVE  /\ F \o (IF e.firing /\ ~c.firing THEN <<Loop(l)>> ELSE <<>>) = Called(F, l, c, e)
BY FramesAre DEF Called

\* The list l has not changed, and a frame that is no loop is on top.
LEMMA PushedOnly ==
  ASSUME NEW M, NEW J, NEW C, NEW S, NEW F, Lists(M, J, C), Calm(M, J, C, S), Loops(C, F),
         Frames(M, J, F), NEW f, Frame(M, J, f), f.at # "loop"
  PROVE  Arranged(M, J, C, S, F) /\ Arranged(M, J, C, S, Append(F, f))
<1>1. Outcomes(M, J, C, S, F) /\ Outcomes(M, J, C, S, Append(F, f))
  BY CalmEnough
<1>2. Frames(M, J, Append(F, f))
  BY FramePushed
<1>3. Loops(C, Append(F, f))
  BY LoopsPushed
<1> QED BY <1>1, <1>2, <1>3 DEF Arranged

LEMMA TwoPushed ==
  ASSUME NEW M, NEW J, NEW F, Frames(M, J, F), NEW f, NEW g
  PROVE  F \o <<f, g>> = Append(Append(F, f), g)
<1>1. PICK T : F \in Seq(T)
  BY DEF Frames
<1>2. F \in Seq(T \cup {f, g})
  BY <1>1
<1> QED BY <1>2

LEMMA InvokeLate ==
  ASSUME NEW M, M = Mine(page), Joined(M, joined), NEW C, NEW F,
         Lists(M, joined, C), Calm(M, joined, C, state), Loops(C, F), Frames(M, joined, F),
         NEW e \in Entries, Late(M, joined, e), NEW v \in Value, NEW l,
         Invoke(e, v, l, C, F)
  PROVE  /\ Arranged(M, joined', callbacks', state, stack')
         /\ Keeps(M, C, state, callbacks', state)
         /\ UNCHANGED inner /\ Joined(M, joined')
<1>0. M \in SUBSET Deferred /\ e.do \notin {"state", "disable", "lock", "handlers"}
  BY DEF Mine, Late
<1>1. CASE InvokeScript(e, v, l, C, F)
  <2>1. callbacks' = C /\ stack' = Append(F, Code) /\ UNCHANGED <<inner, joined>>
    BY <1>1 DEF InvokeScript
  <2> QED BY <2>1, PushedOnly, CodeIsFrame, KeepsSame
<1>2. CASE InvokeSettle(e, v, C, F)
  <2> DEFINE m == <<e.d, e.k>>
             c == FireWith(C[m], v)
  <2>1. /\ e.d \in M /\ m \in ListId /\ m[1] \in M
    <3>1. e.d \in M /\ e.k \in Kind
      BY <1>2 DEF Late, InvokeSettle, Entries
    <3> QED BY <1>0, <3>1 DEF ListId
  <2>2. callbacks' = [C EXCEPT ![m] = c] /\ stack' = Called(F, m, C[m], c)
        /\ UNCHANGED <<inner, joined>>
    BY <1>2, CalledAs DEF InvokeSettle, Fire
  <2> HIDE DEF m
  <2> QED BY <2>1, <2>2, FireKeeps
<1>3. CASE InvokePipe(e, C, F)
  <2> DEFINE f == Pipe(e.d, e.k)
  <2>1. Frame(M, joined, f) /\ f.at # "loop"
    <3>1. e.d \in M /\ e.k \in Kind
      BY <1>3 DEF Late, InvokePipe, Entries
    <3> QED BY <3>1 DEF Frame, Pipe
  <2>2. callbacks' = C /\ stack' = F \o <<f, Code>> /\ UNCHANGED <<inner, joined>>
    BY <1>3 DEF InvokePipe
  <2> HIDE DEF f
  <2>3. Arranged(M, joined, C, state, Append(F, f))
    BY <2>1, PushedOnly
  <2>4. Arranged(M, joined, C, state, Append(Append(F, f), Code))
    BY <2>3, PushedOnly, CodeIsFrame DEF Arranged
  <2>5. stack' = Append(Append(F, f), Code)
    BY <2>2, TwoPushed
  <2> QED BY <2>2, <2>4, <2>5, KeepsSame
<1>4. CASE InvokeUpdate(e, v, C, F)
  <2>1. joined.master \in M
    BY <1>4 DEF Late, InvokeUpdate
  <2>2. joined' = [joined EXCEPT !.values[e.n] = v, !.remaining = @ - 1] /\ UNCHANGED inner
    BY <1>4 DEF InvokeUpdate, Update
  <2>3. Joined(M, joined') /\ JoinLater(M, joined, joined')
    <3>1. joined' = Updated(joined, e.n, v)
      BY <2>2 DEF Updated
    <3> QED BY <1>0, <2>1, <3>1, UpdateIs
  <2>4. CASE joined'.remaining = 0
    <3> DEFINE m == <<joined.master, "resolve">>
               c == FireWith(C[m], Values)
    <3>1. m \in ListId /\ m[1] \in M
      BY <1>0, <2>1, ListIds DEF Outs
    <3>2. callbacks' = [C EXCEPT ![m] = c] /\ stack' = Called(F, m, C[m], c)
      <4>1. Fire(m, Values, C, F)
        BY <1>4, <2>4 DEF InvokeUpdate
      <4> QED BY <4>1, CalledAs DEF Fire
    <3>3. Values \in Value
      BY DEF Value
    <3> HIDE DEF m
    <3>4. Arranged(M, joined, callbacks', state, stack') /\ Keeps(M, C, state, callbacks', state)
      BY <3>1, <3>2, <3>3, FireKeeps
    <3> QED BY <2>2, <2>3, <3>4, ArrangedLater
  <2>5. CASE joined'.remaining # 0
    <3>1. callbacks' = C /\ stack' = F
      BY <1>4, <2>5 DEF InvokeUpdate
    <3>2. Arranged(M, joined, C, state, F)
      BY PushedOnly, CodeIsFrame
    <3> QED BY <2>2, <2>3, <3>1, <3>2, ArrangedLater, KeepsSame
  <2> QED BY <2>4, <2>5
<1> QED BY <1>0, <1>1, <1>2, <1>3, <1>4
    DEF Invoke, InvokeState, InvokeDisable, InvokeLock, InvokeHandlers
-----------------------------------------------------------------------------
(* The stack of a step *)

LEMMA MineIs == Mine(page) \in SUBSET Deferred
BY DEF Mine

LEMMA DataIsValue ==
  ASSUME Typed
  PROVE  /\ page.calls \in Nat /\ calls \in 0..page.calls
         /\ \A n \in 1..page.calls : Data(n) \in Value /\ Error(n) \in Value
         /\ {Undefined, No, Thenable, Values, TypeError} \subseteq Value
         /\ \A d \in Deferred : PromiseOf(d) \in Value
<1>1. page \in Page /\ page.calls \in Nat /\ calls \in 0..page.calls
  BY DeferredAssumption DEF Typed
<1> DEFINE N == UNION {1..p.calls : p \in Page}
           B == {[is |-> i, n |-> n] : i \in {"data", "error"}, n \in N}
<1>2. \A n \in 1..page.calls : n \in N
  BY <1>1
<1>3. B \subseteq Value
  BY DEF Value
<1> HIDE DEF N
<1>4. ASSUME NEW n \in N PROVE [is |-> "data", n |-> n] \in B /\ [is |-> "error", n |-> n] \in B
  <2>1. \E i \in {"data", "error"}, m \in N : [is |-> "data", n |-> n] = [is |-> i, n |-> m]
    BY Zenon
  <2>2. \E i \in {"data", "error"}, m \in N : [is |-> "error", n |-> n] = [is |-> i, n |-> m]
    BY Zenon
  <2> QED BY <2>1, <2>2
<1> HIDE DEF B
<1>5. \A n \in 1..page.calls : Data(n) \in Value /\ Error(n) \in Value
  <2>1. \A n \in 1..page.calls : [is |-> "data", n |-> n] \in B /\ [is |-> "error", n |-> n] \in B
    BY <1>2, <1>4, Zenon
  <2>2. \A n \in 1..page.calls : [is |-> "data", n |-> n] \in Value /\ [is |-> "error", n |-> n] \in Value
    BY <1>3, <2>1, Zenon
  <2> QED BY <2>2, Zenon DEF Data, Error
<1> QED BY <1>1, <1>5 DEF Value

\* A value that is a promise is one of a deferred.
LEMMA PromiseIs ==
  ASSUME NEW v \in Value, v.is = "promise"
  PROVE  v.n \in Deferred /\ v = PromiseOf(v.n)
<1>1. v \notin {Undefined, No, Thenable, Values, TypeError}
  BY DEF Undefined, No, Thenable, Values, TypeError, Error
<1>2. \A i \in {"data", "error"} : \A n : v # [is |-> i, n |-> n]
  OBVIOUS
<1>3. PICK d \in Deferred : v = PromiseOf(d)
  BY <1>1, <1>2 DEF Value
<1> QED BY <1>3 DEF PromiseOf

LEMMA CalmUnless ==
  ASSUME NEW M, NEW J, NEW C, NEW S, NEW K, Outcomes(M, J, C, S, K),
         K = <<>> \/ K[Len(K)].at # "loop"
  PROVE  Calm(M, J, C, S)
<1>1. \A l : ~OnTop(K, Loop(l))
  BY DEF OnTop, Loop
<1>2. \A d, k : ~Deciding(M, J, C, S, K, d, k)
  BY <1>1 DEF Deciding
<1> QED BY <1>2 DEF Outcomes, Calm

\* What is below the innermost call.
LEMMA CallersAre ==
  ASSUME NEW M, NEW J, NEW C, Frames(M, J, stack), Loops(C, stack), stack # <<>>
  PROVE  /\ Frames(M, J, Callers) /\ Loops(C, Callers) /\ Frame(M, J, Top)
         /\ Len(stack) \in 1..Len(stack) /\ Len(Callers) = Len(stack) - 1
         /\ \A i \in 1..(Len(stack) - 1) : Callers[i] = stack[i]
         /\ \A f : Frame(M, J, f) /\ f.at # "loop" =>
              Frames(M, J, Become(f)) /\ Loops(C, Become(f))
<1>1. Len(stack) \in Nat /\ Len(stack) \in 1..Len(stack) /\ Frame(M, J, Top)
  BY FramesAre DEF Top
<1> DEFINE n == Len(stack) - 1
           L == Callers
<1>2. n \in Nat /\ n <= Len(stack) /\ L = SubSeq(stack, 1, n)
  BY <1>1 DEF Callers
<1> HIDE DEF n, L
<1>3. Frames(M, J, L) /\ Len(L) = n /\ \A i \in 1..n : L[i] = stack[i]
  BY <1>2, FrameCut
<1>4. DOMAIN L = 1..n
  BY <1>3, FramesAre
<1>5. Loops(C, L)
  BY <1>2, <1>3, <1>4, LoopsCut
<1>6. ASSUME NEW f, Frame(M, J, f), f.at # "loop"
      PROVE  Frames(M, J, Append(L, f)) /\ Loops(C, Append(L, f))
  BY <1>3, <1>5, <1>6, FramePushed, LoopsPushed
<1> QED BY <1>1, <1>3, <1>5, <1>6 DEF n, L, Become

\* The stack is cut, as by an exception.
LEMMA CutIs ==
  ASSUME NEW M, NEW J, NEW C, Frames(M, J, stack), Loops(C, stack), NEW n \in Nat,
         n <= Len(stack)
  PROVE  /\ Frames(M, J, SubSeq(stack, 1, n)) /\ Loops(C, SubSeq(stack, 1, n))
         /\ \A f : Frame(M, J, f) /\ f.at # "loop" =>
              /\ Frames(M, J, Append(SubSeq(stack, 1, n), f))
              /\ Loops(C, Append(SubSeq(stack, 1, n), f))
<1> DEFINE L == SubSeq(stack, 1, n)
<1>1. L = SubSeq(stack, 1, n)
  OBVIOUS
<1> HIDE DEF L
<1>3. Frames(M, J, L) /\ Len(L) = n /\ \A i \in 1..n : L[i] = stack[i]
  BY <1>1, FrameCut
<1>4. DOMAIN L = 1..n
  BY <1>3, FramesAre
<1>5. Loops(C, L)
  BY <1>3, <1>4, LoopsCut
<1>6. ASSUME NEW f, Frame(M, J, f), f.at # "loop"
      PROVE  Frames(M, J, Append(L, f)) /\ Loops(C, Append(L, f))
  BY <1>3, <1>5, <1>6, FramePushed, LoopsPushed
<1> QED BY <1>3, <1>5, <1>6 DEF L

LEMMA CatcherIs ==
  ASSUME NEW M, NEW J, Frames(M, J, stack), Catchers # {}
  PROVE  /\ Catcher \in Catchers /\ Catcher \in 1..Len(stack)
         /\ stack[Catcher] \in Processes(M) /\ ~stack[Catcher].fn.special
<1>1. Len(stack) \in Nat /\ DOMAIN stack = 1..Len(stack)
  BY FramesAre
<1>2. Catchers \in SUBSET (1..Len(stack))
  BY <1>1 DEF Catchers
<1>3. \E k \in Catchers : \A i \in Catchers : i <= k
  BY <1>1, <1>2, Greatest
<1>4. Catcher \in Catchers
  BY <1>3 DEF Catcher
<1>5. stack[Catcher].at = "process" /\ ~stack[Catcher].fn.special
  BY <1>4 DEF Catchers
<1>6. Frame(M, J, stack[Catcher])
  BY <1>2, <1>4, FramesAre
<1> QED BY <1>2, <1>4, <1>5, <1>6, FrameIs

LEMMA ProcessIs ==
  ASSUME NEW M, NEW p \in Processes(M), NEW J
  PROVE  /\ Frame(M, J, p) /\ p.at # "loop" /\ p.fn \in Fn(M) /\ p.v \in Value
<1>1. p.at = "process" /\ p.fn \in Fn(M) /\ p.v \in Value
  BY DEF Processes
<1>2. Frame(M, J, p)
  BY DEF Frame
<1> QED BY <1>1, <1>2

Moved(p, s, v) == [p EXCEPT !.step = s, !.v = v]

LEMMA ProcessGoes ==
  ASSUME NEW M, NEW p \in Processes(M), NEW s \in ProcessStep
  PROVE  /\ [p EXCEPT !.step = s] \in Processes(M)
         /\ \A v \in Value : Moved(p, s, v) \in Processes(M)
<1>1. p = [at |-> p.at, fn |-> p.fn, v |-> p.v, step |-> p.step]
      /\ p.at \in {"process"} /\ p.fn \in Fn(M) /\ p.v \in Value
  BY DEF Processes
<1> DEFINE a == p.at
           q == p.fn
           w == p.v
           t == p.step
<1>2. p = [at |-> a, fn |-> q, v |-> w, step |-> t] /\ a \in {"process"} /\ q \in Fn(M) /\ w \in Value
  BY <1>1
<1> HIDE DEF a, q, w, t
<1>3. [p EXCEPT !.step = s] = [at |-> a, fn |-> q, v |-> w, step |-> s]
  BY <1>2
<1>4. ASSUME NEW v \in Value PROVE Moved(p, s, v) \in Processes(M)
  <2> DEFINE r == [p EXCEPT !.step = s]
  <2>1. r = [at |-> a, fn |-> q, v |-> w, step |-> s]
    BY <1>3
  <2>2. Moved(p, s, v) = [r EXCEPT !.v = v]
    BY Zenon DEF Moved
  <2> HIDE DEF r
  <2>3. [r EXCEPT !.v = v] = [at |-> a, fn |-> q, v |-> v, step |-> s]
    BY <2>1
  <2>4. [at |-> a, fn |-> q, v |-> v, step |-> s] \in Processes(M)
    BY <1>2 DEF Processes
  <2> QED BY <2>2, <2>3, <2>4
<1>5. [p EXCEPT !.step = s] \in Processes(M)
  <2>1. [at |-> a, fn |-> q, v |-> w, step |-> s] \in Processes(M)
    BY <1>2 DEF Processes
  <2> QED BY <1>3, <2>1
<1> QED BY <1>4, <1>5

\* An exception changes of the history only what then follows.
LEMMA ThrowIs ==
  ASSUME NEW M, NEW J, NEW C, Frames(M, J, stack), Loops(C, stack), NEW e \in Value, Throw(e),
         DOMAIN seen = SeenField
  PROVE  /\ Frames(M, J, stack') /\ Loops(C, stack') /\ DOMAIN seen' = SeenField
         /\ \A x \in SeenField \ {"follow"} : seen'[x] = seen[x]
<1>1. CASE Catchers = {}
  <2>1. stack' = <<>> /\ seen' = seen
    BY <1>1 DEF Throw
  <2>3. Frames(M, J, stack') /\ Loops(C, stack')
    BY <2>1, NoFrames
  <2> QED BY <2>1, <2>3
<1>2. CASE Catchers # {}
  <2> DEFINE p == stack[Catcher]
             f == Moved(p, "threw", e)
             n == Catcher - 1
  <2>1. p \in Processes(M) /\ Catcher \in 1..Len(stack) /\ Len(stack) \in Nat
    BY <1>2, CatcherIs, FramesAre
  <2>3. stack' = Append(SubSeq(stack, 1, n), f)
        /\ (seen' = seen \/ seen' = [seen EXCEPT !.follow[p.fn.d] =
                             [how |-> "rejected", v |-> e]])
    BY <1>2, Zenon DEF Throw, Moved
  <2>4. DOMAIN seen' = SeenField /\ \A x \in SeenField \ {"follow"} : seen'[x] = seen[x]
    BY <2>3
  <2>5. n \in Nat /\ n <= Len(stack)
    BY <2>1
  <2>6. Frame(M, J, f) /\ f.at # "loop"
    <3> HIDE DEF p
    <3>1. "threw" \in ProcessStep
      BY DEF ProcessStep
    <3>2. f \in Processes(M)
      <4>1. p \in Processes(M)
        BY <2>1
      <4>2. \A v \in Value : Moved(p, "threw", v) \in Processes(M)
        BY <3>1, <4>1, ProcessGoes
      <4> QED BY <4>2
    <3> HIDE DEF f
    <3> QED BY <3>2, ProcessIs
  <2> HIDE DEF f, n
  <2> QED BY <2>3, <2>4, <2>5, <2>6, CutIs
<1> QED BY <1>1, <1>2

\* The lists stay as they are; deferreds may be born, or the call of when go on.
LEMMA StaysArranged ==
  ASSUME NEW M, NEW J, NEW C, NEW S, NEW K, Arranged(M, J, C, S, K), Calm(M, J, C, S),
         NEW J2, JoinLater(M, J, J2), NEW K2, Frames(M, J, K2) \/ Frames(M, J2, K2),
         Loops(C, K2), NEW R, \A d \in Deferred : R[d] = S[d] \/ (Open(S, d) /\ Open(R, d)),
         NEW N
  PROVE  Arranged(M, J2, C, R, K2) /\ Calm(M, J2, C, R) /\ Keeps(N, C, S, C, R)
<1>1. Lists(M, J2, C) /\ Frames(M, J2, K2)
  BY ListsLater DEF Arranged
<1>2. Calm(M, J2, C, S)
  BY CalmLater
<1>3. Calm(M, J2, C, R)
  BY <1>2, CalmSame DEF Calm
<1>4. \A d \in Deferred : \A k \in Outs : R[d] = Final(k) <=> S[d] = Final(k)
  BY ListIds DEF Open
<1>5. Keeps(N, C, S, C, R)
  BY <1>4 DEF Keeps
<1> QED BY <1>1, <1>3, <1>5, CalmEnough DEF Arranged
-----------------------------------------------------------------------------
(* Lists of handlers, and timers *)

LEMMA OptionsAre ==
  \A k \in Kind : /\ "memory" \in Options(k) /\ "unique" \notin Options(k)
                  /\ "once" \in Options(k) <=> k # "notify"
BY DEF Options, Kind

\* A function more for a list of handlers.
Added(c, fn) == Add(c, Hand(fn))

LEMMA HandlerAdded ==
  ASSUME NEW M, NEW k \in Kind, NEW c, Handling(M, k, c), NEW fn \in Fn(M)
  PROVE  /\ Handling(M, k, Fired(Added(c, fn))) /\ ListOf(Hands(M), Added(c, fn))
         /\ Fired(Added(c, fn)).memory = c.memory /\ Fired(Added(c, fn)).locked = c.locked
         /\ Added(c, fn).memory = c.memory /\ Added(c, fn).list = Append(c.list, Hand(fn))
         /\ ~c.locked => Fired(Added(c, fn)).list = Added(c, fn).list
         /\ c.memory = None => ~Added(c, fn).firing
         /\ c.memory # None => Added(c, fn).firing /\ Added(c, fn).index = Len(c.list)
<1> DEFINE E == Hands(M)
           a == Added(c, fn)
           f == Hand(fn)
<1>1. f \in E
  BY DEF Hands, Hand
<1>2. ListOf(E, c) /\ ~c.firing /\ ~c.gone /\ c.options = Options(k)
      /\ (c.locked <=> k # "notify" /\ c.memory # None)
      /\ (c.locked => c.list = <<>>) /\ c.queue = <<>> /\ c.locked \in BOOLEAN
  BY DEF Handling, ListOf, ListingOf
<1>a. a = Add(c, f)
  BY DEF Added
<1> HIDE DEF E, f, a, a
<1>3. /\ ListOf(E, a) /\ a.options = c.options /\ a.gone = c.gone
      /\ a.memory = c.memory /\ a.queue = c.queue
      /\ a.list = Append(c.list, f)
      /\ \/ c.memory # None /\ a.firing /\ a.index = Len(c.list)
            /\ a.locked = (c.locked \/ "once" \in c.options)
         \/ ~(c.memory # None) /\ a.firing = c.firing
            /\ a.index = c.index /\ a.locked = c.locked
  <2>1. /\ ListOf(E, a) /\ a.options = c.options /\ a.gone = c.gone
        /\ a.memory = c.memory /\ a.queue = c.queue
        /\ ~c.gone =>
             \/ a.list = c.list /\ "unique" \in c.options /\ Has(c, f)
             \/ a.list = Append(c.list, f) /\ ~("unique" \in c.options /\ Has(c, f))
        /\ \/ ~c.gone /\ c.memory # None /\ ~c.firing /\ a.firing /\ a.index = Len(c.list)
              /\ a.locked = (c.locked \/ "once" \in c.options)
           \/ ~(~c.gone /\ c.memory # None /\ ~c.firing) /\ a.firing = c.firing
              /\ a.index = c.index /\ a.locked = c.locked
    BY <1>1, <1>2, <1>a, AddOf
  <2>2. "unique" \notin c.options
    BY <1>2, OptionsAre
  <2> QED BY <1>2, <2>1, <2>2
<1>4. CASE c.memory = None
  <2>1. ~a.firing /\ Fired(a) = a
    BY <1>2, <1>3, <1>4 DEF Fired
  <2>2. Handling(M, k, a)
    BY <1>2, <1>3, <1>4, <2>1 DEF Handling, E
  <2> QED BY <1>2, <1>3, <1>4, <2>1, <2>2 DEF E, f, a
<1>5. CASE c.memory # None
  <2> DEFINE b == Finish(a)
  <2>1. a.firing /\ a.index = Len(c.list) /\ a.queue = <<>> /\ a.locked = c.locked
    BY <1>2, <1>3, <1>5, OptionsAre
  <2>2. Fired(a) = b
    BY <2>1 DEF Fired
  <2>3. /\ ListOf(E, b) /\ b.options = a.options /\ ~b.firing
        /\ b.memory = (IF "memory" \in a.options THEN a.memory ELSE None)
        /\ b.locked = a.locked
        /\ a.locked => b.list = <<>> /\ b.gone = (b.memory = None)
        /\ ~a.locked => b.list = a.list /\ b.gone = a.gone
    BY <1>3, <2>1, FinishOf
  <2> HIDE DEF b
  <2>4. b.memory = c.memory
    BY <1>2, <1>3, <2>3, OptionsAre
  <2>5. Handling(M, k, b)
    BY <1>2, <1>3, <1>5, <2>1, <2>3, <2>4 DEF Handling, E
  <2> QED BY <1>2, <1>3, <1>5, <2>1, <2>2, <2>3, <2>4, <2>5 DEF E, f, a
<1> QED BY <1>4, <1>5

\* What firing a list of handlers makes of it: a is the list while it is fired.
FiredSo(M, k, c, v, a) ==
  /\ Handling(M, k, Fired(a)) /\ ListOf(Hands(M), a)
  /\ c.locked => Fired(a) = c /\ ~a.firing
  /\ ~c.locked =>
       /\ a.firing /\ a.memory = v /\ a.index = 0 /\ a.list = c.list
       /\ Fired(a).memory = v /\ (Fired(a).locked <=> k # "notify")
       /\ k = "notify" => Fired(a).list = c.list

LEMMA HandlersFired ==
  ASSUME NEW M, NEW k \in Kind, NEW c, Handling(M, k, c), NEW v \in Value,
         NEW a, a = FireWith(c, v)
  PROVE  FiredSo(M, k, c, v, a)
<1> USE DEF FiredSo
<1> DEFINE E == Hands(M)
<1>2. ListOf(E, c) /\ ~c.firing /\ ~c.gone /\ c.options = Options(k)
      /\ (c.locked <=> k # "notify" /\ c.memory # None)
      /\ (c.locked => c.list = <<>>) /\ c.queue = <<>> /\ c.locked \in BOOLEAN
  BY DEF Handling, ListOf, ListingOf
<1> HIDE DEF E
<1>3. /\ ListOf(E, a) /\ a.options = c.options /\ a.list = c.list /\ a.gone = c.gone
      /\ c.locked => a = c
      /\ ~c.locked /\ ~c.firing =>
           /\ a.memory = v /\ a.queue = <<>> /\ a.index = 0
           /\ a.locked = ("once" \in c.options) /\ a.firing
  BY <1>2, FireOf
<1>4. CASE c.locked
  BY <1>2, <1>3, <1>4 DEF Fired, E
<1>5. CASE ~c.locked
  <2> DEFINE b == Finish(a)
  <2>1. Fired(a) = b
    BY <1>2, <1>3, <1>5 DEF Fired
  <2>2. /\ ListOf(E, b) /\ b.options = a.options /\ ~b.firing
        /\ b.memory = (IF "memory" \in a.options THEN a.memory ELSE None)
        /\ b.locked = a.locked
        /\ a.locked => b.list = <<>> /\ b.gone = (b.memory = None)
        /\ ~a.locked => b.list = a.list /\ b.gone = a.gone
    <3>1. ListOf(E, a) /\ a.queue = <<>>
      BY <1>2, <1>3, <1>5
    <3> QED BY <3>1, FinishOf
  <2> HIDE DEF b
  <2>3. b.memory = v /\ v # None /\ (b.locked <=> k # "notify")
    <3>1. /\ a.memory = v /\ a.locked = ("once" \in Options(k)) /\ a.options = Options(k)
      BY <1>2, <1>3, <1>5
    <3>2. "memory" \in Options(k) /\ ("once" \in Options(k) <=> k # "notify")
      BY OptionsAre
    <3> QED BY <2>2, <3>1, <3>2, NoneIsNoValue
  <2>4. Handling(M, k, b)
    BY <1>2, <1>3, <1>5, <2>2, <2>3 DEF Handling, E
  <2> QED BY <1>2, <1>3, <1>5, <2>1, <2>2, <2>3, <2>4 DEF E
<1> QED BY <1>4, <1>5

Timer(e, k, fn, v) == [do |-> "process", of |-> e, k |-> k, fn |-> fn, v |-> v]

LEMMA TimersAre ==
  ASSUME NEW M, NEW e \in Deferred, NEW k \in Kind, NEW c, ListOf(Hands(M), c),
         c.firing => c.memory \in Value /\ c.index <= Len(c.list)
  PROVE  /\ Tasks(M, Timers(e, k, c))
         /\ \A i \in DOMAIN Timers(e, k, c) : Timers(e, k, c)[i].do = "process"
         /\ ~c.firing => Timers(e, k, c) = <<>>
         /\ c.firing => /\ Len(Timers(e, k, c)) = Len(c.list) - c.index
                        /\ DOMAIN Timers(e, k, c) = 1..(Len(c.list) - c.index)
                        /\ \A i \in 1..(Len(c.list) - c.index) :
                             Timers(e, k, c)[i] = Timer(e, k, c.list[c.index + i].fn, c.memory)
<1> DEFINE U == [do : {"process"}, of : Deferred, k : Kind, fn : Fn(M), v : Value]
           T == Timers(e, k, c)
<1>1. \A t \in U : Task(M, t) /\ t.do = "process"
  BY DEF Task
<1>2. c.list \in Seq(Hands(M)) /\ c.index \in Nat
  BY DEF ListOf, ListingOf
<1> HIDE DEF U
<1>3. CASE ~c.firing
  <2>1. T = <<>>
    BY <1>3 DEF Timers
  <2>2. T \in Seq(U)
    BY <2>1, EmptyIsSeq
  <2> HIDE DEF T
  <2>3. Tasks(M, T)
    BY <1>1, <2>2 DEF Tasks
  <2>4. \A i \in DOMAIN T : T[i].do = "process"
    BY <2>1
  <2> QED BY <1>3, <2>1, <2>3, <2>4 DEF T
<1>4. CASE c.firing
  <2> DEFINE n == Len(c.list) - c.index
             g == [i \in 1..n |-> Timer(e, k, c.list[c.index + i].fn, c.memory)]
  <2>1. T = g
    BY <1>4 DEF Timers, Timer
  <2>2. n \in Nat /\ \A i \in 1..n : c.index + i \in 1..Len(c.list)
    BY <1>2, <1>4
  <2> HIDE DEF n
  <2>3. \A i \in 1..n : c.list[c.index + i].fn \in Fn(M)
    <3>1. \A j \in 1..Len(c.list) : c.list[j] \in Hands(M)
      <4> DEFINE s == c.list
      <4>1. s \in Seq(Hands(M))
        BY <1>2
      <4> HIDE DEF s
      <4>2. \A j \in 1..Len(s) : s[j] \in Hands(M)
        BY <4>1
      <4> QED BY <4>2 DEF s
    <3>2. \A i \in 1..n : c.list[c.index + i] \in Hands(M)
      BY <2>2, <3>1
    <3> QED BY <3>2 DEF Hands
  <2>4. \A i \in 1..n : Timer(e, k, c.list[c.index + i].fn, c.memory) \in U
    BY <1>4, <2>3 DEF Timer, U
  <2> HIDE DEF n
  <2>5. g \in Seq(U) /\ Len(g) = n /\ DOMAIN g = 1..n
    BY <2>2, <2>4
  <2>6. \A i \in 1..n : g[i] = Timer(e, k, c.list[c.index + i].fn, c.memory)
    OBVIOUS
  <2> HIDE DEF g, T
  <2>7. Tasks(M, T) /\ \A i \in DOMAIN T : T[i].do = "process"
    <3>1. \A i \in DOMAIN T : T[i] \in U
      BY <2>1, <2>5
    <3> QED BY <1>1, <2>1, <2>5, <3>1 DEF Tasks
  <2> QED BY <1>4, <2>1, <2>5, <2>6, <2>7 DEF T, n
<1> QED BY <1>3, <1>4

LEMMA TasksAre ==
  ASSUME NEW M, NEW T, Tasks(M, T)
  PROVE  /\ Len(T) \in Nat /\ DOMAIN T = 1..Len(T) /\ \A i \in 1..Len(T) : Task(M, T[i])
         /\ T # <<>> => /\ Head(T) = T[1] /\ Tasks(M, Tail(T)) /\ Len(Tail(T)) = Len(T) - 1
                        /\ 1 \in 1..Len(T)
                        /\ \A i \in 1..(Len(T) - 1) : Tail(T)[i] = T[i + 1]
<1>1. PICK U : T \in Seq(U) /\ \A t \in U : Task(M, t)
  BY DEF Tasks
<1>2. Len(T) \in Nat /\ DOMAIN T = 1..Len(T) /\ \A i \in 1..Len(T) : T[i] \in U
  BY <1>1
<1>3. ASSUME T # <<>>
      PROVE  /\ Head(T) = T[1] /\ Tail(T) \in Seq(U) /\ Len(Tail(T)) = Len(T) - 1
             /\ 1 \in 1..Len(T)
             /\ \A i \in 1..(Len(T) - 1) : Tail(T)[i] = T[i + 1]
  BY <1>1, <1>3
<1> QED BY <1>1, <1>2, <1>3 DEF Tasks

LEMMA TasksJoined ==
  ASSUME NEW M, NEW T, Tasks(M, T), NEW X, Tasks(M, X)
  PROVE  /\ Tasks(M, T \o X) /\ Len(T \o X) = Len(T) + Len(X)
         /\ Len(T) \in Nat /\ Len(X) \in Nat /\ DOMAIN T = 1..Len(T) /\ DOMAIN X = 1..Len(X)
         /\ DOMAIN (T \o X) = 1..(Len(T) + Len(X))
         /\ \A i \in 1..Len(T) : (T \o X)[i] = T[i]
         /\ \A i \in 1..Len(X) : (T \o X)[Len(T) + i] = X[i]
         /\ \A i \in 1..(Len(T) + Len(X)) :
              (T \o X)[i] = IF i <= Len(T) THEN T[i] ELSE X[i - Len(T)]
<1>1. PICK U : T \in Seq(U) /\ \A t \in U : Task(M, t)
  BY DEF Tasks
<1>2. PICK V : X \in Seq(V) /\ \A t \in V : Task(M, t)
  BY DEF Tasks
<1> DEFINE W == U \cup V
<1>3. T \in Seq(W) /\ X \in Seq(W) /\ \A t \in W : Task(M, t)
  BY <1>1, <1>2
<1> HIDE DEF W
<1>4. /\ T \o X \in Seq(W) /\ Len(T \o X) = Len(T) + Len(X)
      /\ Len(T) \in Nat /\ Len(X) \in Nat /\ DOMAIN T = 1..Len(T) /\ DOMAIN X = 1..Len(X)
      /\ DOMAIN (T \o X) = 1..(Len(T) + Len(X))
      /\ \A i \in 1..(Len(T) + Len(X)) :
           (T \o X)[i] = IF i <= Len(T) THEN T[i] ELSE X[i - Len(T)]
  BY <1>3
<1>5. /\ \A i \in 1..Len(T) : (T \o X)[i] = T[i]
      /\ \A i \in 1..Len(X) : (T \o X)[Len(T) + i] = X[i]
  BY <1>4
<1> QED BY <1>3, <1>4, <1>5 DEF Tasks

\* Timers of then(), all of them for process.
LEMMA ThenIs ==
  ASSUME NEW M \in SUBSET Deferred, NEW hs, DOMAIN hs = ListId,
         \A l \in ListId : Handling(M, l[2], hs[l]),
         NEW e \in Deferred, NEW on, \A k \in Kind : on[k] \in Nested(M), NEW d \in M \cup {Nobody}
  PROVE  /\ DOMAIN HandlersAfter(hs, e, on, d) = ListId
         /\ \A l \in ListId : Handling(M, l[2], HandlersAfter(hs, e, on, d)[l])
         /\ Tasks(M, TimersOf(hs, e, on, d))
         /\ \A i \in DOMAIN TimersOf(hs, e, on, d) : TimersOf(hs, e, on, d)[i].do = "process"
<1>1. \A l \in ListId : l[2] \in Kind
  BY DEF ListId, UserList, Kind
<1>2. \A k \in Kind : Resolve(0, d, on[k], k = "notify") \in Fn(M)
  BY DEF Resolve, Fn
<1>3. ASSUME NEW l \in ListId, l[1] = e
      PROVE  /\ Handling(M, l[2], Fired(Handler(hs[l], l[2], on, d)))
             /\ Tasks(M, Timers(e, l[2], Handler(hs[l], l[2], on, d)))
             /\ \A i \in DOMAIN Timers(e, l[2], Handler(hs[l], l[2], on, d)) :
                  Timers(e, l[2], Handler(hs[l], l[2], on, d))[i].do = "process"
  <2> DEFINE c == hs[l]
             k == l[2]
             fn == Resolve(0, d, on[k], k = "notify")
             a == Handler(c, k, on, d)
  <2>1. k \in Kind /\ fn \in Fn(M) /\ Handling(M, k, c) /\ a = Added(c, fn)
    BY <1>1, <1>2 DEF Handler, Added, Hand
  <2> HIDE DEF c, k, fn, a
  <2>2. /\ Handling(M, k, Fired(a)) /\ ListOf(Hands(M), a)
        /\ a.memory = c.memory /\ a.list = Append(c.list, Hand(fn))
        /\ c.memory = None => ~a.firing
        /\ c.memory # None => a.firing /\ a.index = Len(c.list)
    <3>1. /\ Handling(M, k, Fired(Added(c, fn))) /\ ListOf(Hands(M), Added(c, fn))
          /\ Added(c, fn).memory = c.memory /\ Added(c, fn).list = Append(c.list, Hand(fn))
          /\ c.memory = None => ~Added(c, fn).firing
          /\ c.memory # None => Added(c, fn).firing /\ Added(c, fn).index = Len(c.list)
      BY <2>1, HandlerAdded
    <3> QED BY <2>1, <3>1, Zenon
  <2>3. a.firing => a.memory \in Value /\ a.index <= Len(a.list)
    <3>1. c.list \in Seq(Hands(M)) /\ c.memory \in Value \cup {None}
      BY <2>1 DEF Handling, ListOf, ListingOf
    <3>2. Len(c.list) \in Nat /\ Len(Append(c.list, Hand(fn))) = Len(c.list) + 1
      BY <3>1
    <3> QED BY <2>2, <3>1, <3>2
  <2>4. /\ Tasks(M, Timers(e, k, a))
        /\ \A i \in DOMAIN Timers(e, k, a) : Timers(e, k, a)[i].do = "process"
    <3>1. k \in Kind /\ ListOf(Hands(M), a)
      BY <2>1, <2>2
    <3> QED BY <2>3, <3>1, TimersAre
  <2> QED BY <2>2, <2>4 DEF a, c, k
<1>4. ASSUME NEW l \in ListId PROVE Handling(M, l[2], HandlersAfter(hs, e, on, d)[l])
  BY <1>3 DEF HandlersAfter
<1> DEFINE Of(k) == Timers(e, k, Handler(hs[<<e, k>>], k, on, d))
<1>5. \A k \in Kind : Tasks(M, Of(k)) /\ \A i \in DOMAIN Of(k) : Of(k)[i].do = "process"
  <2>1. \A k \in Kind : <<e, k>> \in ListId /\ <<e, k>>[1] = e /\ <<e, k>>[2] = k
    BY ListIds
  <2> QED BY <1>3, <2>1
<1>6. "notify" \in Kind /\ "resolve" \in Kind /\ "reject" \in Kind
  BY DEF Kind
<1> DEFINE x == Of("notify")
           y == Of("resolve")
           z == Of("reject")
<1>7. TimersOf(hs, e, on, d) = (x \o y) \o z
  BY DEF TimersOf
<1>8. /\ Tasks(M, x) /\ Tasks(M, y) /\ Tasks(M, z)
      /\ \A i \in DOMAIN x : x[i].do = "process"
      /\ \A i \in DOMAIN y : y[i].do = "process"
      /\ \A i \in DOMAIN z : z[i].do = "process"
  BY <1>5, <1>6
<1> HIDE DEF x, y, z, Of
<1> DEFINE w == x \o y
<1>9. Tasks(M, w) /\ \A i \in DOMAIN w : w[i].do = "process"
  <2>1. /\ Tasks(M, w) /\ Len(x) \in Nat /\ Len(y) \in Nat
        /\ DOMAIN x = 1..Len(x) /\ DOMAIN y = 1..Len(y) /\ DOMAIN w = 1..(Len(x) + Len(y))
        /\ \A i \in 1..(Len(x) + Len(y)) : w[i] = IF i <= Len(x) THEN x[i] ELSE y[i - Len(x)]
    BY <1>8, TasksJoined
  <2> HIDE DEF w
  <2>2. \A i \in 1..(Len(x) + Len(y)) : i <= Len(x) \/ i - Len(x) \in 1..Len(y)
    BY <2>1
  <2>3. \A i \in 1..(Len(x) + Len(y)) : i <= Len(x) => i \in 1..Len(x)
    BY <2>1
  <2> QED BY <1>8, <2>1, <2>2, <2>3
<1> HIDE DEF w
<1> DEFINE u == w \o z
<1>10. Tasks(M, u) /\ \A i \in DOMAIN u : u[i].do = "process"
  <2>1. /\ Tasks(M, u) /\ Len(w) \in Nat /\ Len(z) \in Nat
        /\ DOMAIN w = 1..Len(w) /\ DOMAIN z = 1..Len(z) /\ DOMAIN u = 1..(Len(w) + Len(z))
        /\ \A i \in 1..(Len(w) + Len(z)) : u[i] = IF i <= Len(w) THEN w[i] ELSE z[i - Len(w)]
    BY <1>8, <1>9, TasksJoined
  <2> HIDE DEF u
  <2>2. \A i \in 1..(Len(w) + Len(z)) : i <= Len(w) \/ i - Len(w) \in 1..Len(z)
    BY <2>1
  <2>3. \A i \in 1..(Len(w) + Len(z)) : i <= Len(w) => i \in 1..Len(w)
    BY <2>1
  <2>4. ASSUME NEW i \in DOMAIN u PROVE u[i].do = "process"
    <3>1. i \in 1..(Len(w) + Len(z))
      BY <2>1
    <3>2. CASE i <= Len(w)
      BY <1>9, <2>1, <2>3, <3>1, <3>2
    <3>3. CASE ~(i <= Len(w))
      BY <1>8, <2>1, <2>2, <3>1, <3>3
    <3> QED BY <3>2, <3>3
  <2> QED BY <2>1, <2>4
<1>11. TimersOf(hs, e, on, d) = u
  BY <1>7 DEF w
<1> HIDE DEF u
<1>12. DOMAIN HandlersAfter(hs, e, on, d) = ListId
  BY DEF HandlersAfter
<1> QED BY <1>4, <1>10, <1>11, <1>12
-----------------------------------------------------------------------------
(* Deferreds that are made *)

LEMMA FreshIs ==
  ASSUME Unborn # {}
  PROVE  Fresh \in Deferred /\ state[Fresh] = "unborn"
<1>1. Unborn \in SUBSET Nat
  BY DEF Unborn, Deferred
<1>2. \E d \in Unborn : \A e \in Unborn : d <= e
  BY <1>1, Least
<1>3. Fresh \in Unborn
  BY <1>2 DEF Fresh
<1> QED BY <1>3 DEF Unborn

\* While the page has made fewer than it may there is one to make.
LEMMA SomeUnborn ==
  ASSUME Typed
  PROVE  /\ Cardinality(Born) < page.makes => Unborn # {}
         /\ Cardinality(Born) + 1 < page.makes =>
              \A d \in Unborn : \E e \in Unborn \ {d} : \A g \in Unborn \ {d} : e <= g
<1>1. MaxDeferred \in Nat /\ page.makes \in 0..MaxDeferred
  BY DeferredAssumption DEF Typed
<1>2. IsFiniteSet(Deferred) /\ Cardinality(Deferred) = MaxDeferred
  BY <1>1, FS_Interval DEF Deferred
<1>3. ASSUME Cardinality(Born) < page.makes PROVE Unborn # {}
  <2>1. SUFFICES ASSUME Unborn = {} PROVE FALSE
    OBVIOUS
  <2>2. Born = Deferred
    BY <2>1 DEF Born
  <2> QED BY <1>1, <1>2, <1>3, <2>2
<1>4. ASSUME Cardinality(Born) + 1 < page.makes, NEW d \in Unborn
      PROVE  \E e \in Unborn \ {d} : \A g \in Unborn \ {d} : e <= g
  <2>1. Unborn \ {d} # {}
    <3>1. SUFFICES ASSUME Unborn \ {d} = {} PROVE FALSE
      OBVIOUS
    <3>2. d \in Deferred
      BY DEF Unborn
    <3>3. Born = Deferred \ {d}
      BY <3>1 DEF Born
    <3>4. Cardinality(Deferred \ {d}) = Cardinality(Deferred) - 1
      BY <1>2, <3>2, FS_RemoveElement
    <3> QED BY <1>1, <1>2, <1>4, <3>3, <3>4
  <2>2. Unborn \ {d} \in SUBSET Nat
    BY DEF Unborn, Deferred
  <2> QED BY <2>1, <2>2, Least
<1> QED BY <1>3, <1>4

-----------------------------------------------------------------------------
(* What all steps have in common *)

CallsGo == calls' = calls \/ (calls < page.calls /\ calls' = calls + 1)

LEMMA CallsCount ==
  ASSUME Typed, CallsGo
  PROVE  calls' \in 0..page.calls
BY DataIsValue DEF CallsGo

LEMMA TypedSame ==
  ASSUME Typed, page' = page, CallsGo, UNCHANGED <<maxDepth, held, handlers, state, tasks>>,
         Joined(Mine(page), joined'), SeenIs(seen')
  PROVE  Typed'
<1>1. calls' \in 0..page'.calls
  BY CallsCount
<1> QED BY <1>1 DEF Typed

\* The step keeps the invariant and the outcomes there are.
Onward == ListInv' /\ Keeps(Mine(page), callbacks, state, callbacks', state')

\* The lists stay as they are.
LEMMA QuietStep ==
  ASSUME ListInv, Calm(Mine(page), joined, callbacks, state), Typed', page' = page,
         callbacks' = callbacks,
         \A d \in Deferred : state'[d] = state[d] \/ (Open(state, d) /\ Open(state', d)),
         JoinLater(Mine(page), joined, joined'),
         Frames(Mine(page), joined, stack') \/ Frames(Mine(page), joined', stack'),
         Loops(callbacks, stack')
  PROVE  Onward
<1> DEFINE M == Mine(page)
<1>1. Arranged(M, joined, callbacks, state, stack)
  BY DEF ListInv
<1> HIDE DEF M
<1>2. /\ Arranged(M, joined', callbacks, state', stack')
      /\ Keeps(M, callbacks, state, callbacks, state')
  BY <1>1, StaysArranged DEF M
<1> QED BY <1>2 DEF M, Onward, ListInv

LEMMA SameJoin == \A M, J : JoinLater(M, J, J)
BY DEF JoinLater

\* A step between two turns of loops.
LEMMA InsideCalls ==
  ASSUME ListInv, stack # <<>>, Top.at # "loop"
  PROVE  /\ Calm(Mine(page), joined, callbacks, state)
         /\ Lists(Mine(page), joined, callbacks)
         /\ Frames(Mine(page), joined, Callers) /\ Loops(callbacks, Callers)
         /\ Frame(Mine(page), joined, Top)
         /\ Frames(Mine(page), joined, stack) /\ Loops(callbacks, stack)
         /\ \A f : Frame(Mine(page), joined, f) /\ f.at # "loop" =>
              /\ Frames(Mine(page), joined, Become(f)) /\ Loops(callbacks, Become(f))
              /\ Frames(Mine(page), joined, Append(stack, f))
              /\ Loops(callbacks, Append(stack, f))
<1> DEFINE M == Mine(page)
<1>1. /\ Lists(M, joined, callbacks) /\ Outcomes(M, joined, callbacks, state, stack)
      /\ Loops(callbacks, stack) /\ Frames(M, joined, stack)
  BY DEF ListInv, Arranged
<1> HIDE DEF M
<1>2. Calm(M, joined, callbacks, state)
  BY <1>1, CalmUnless DEF Top
<1>3. /\ Frames(M, joined, Callers) /\ Loops(callbacks, Callers) /\ Frame(M, joined, Top)
      /\ \A f : Frame(M, joined, f) /\ f.at # "loop" =>
           Frames(M, joined, Become(f)) /\ Loops(callbacks, Become(f))
  BY <1>1, CallersAre
<1>4. \A f : Frame(M, joined, f) /\ f.at # "loop" =>
        Frames(M, joined, Append(stack, f)) /\ Loops(callbacks, Append(stack, f))
  BY <1>1, FramePushed, LoopsPushed
<1> QED BY <1>1, <1>2, <1>3, <1>4 DEF M

\* A step of the browser.
LEMMA OutsideCalls ==
  ASSUME ListInv, stack = <<>>
  PROVE  /\ Calm(Mine(page), joined, callbacks, state)
         /\ Lists(Mine(page), joined, callbacks)
         /\ Frames(Mine(page), joined, <<>>) /\ Loops(callbacks, <<>>)
         /\ \A f : Frame(Mine(page), joined, f) /\ f.at # "loop" =>
              Frames(Mine(page), joined, <<f>>) /\ Loops(callbacks, <<f>>)
<1> DEFINE M == Mine(page)
<1>1. /\ Lists(M, joined, callbacks) /\ Outcomes(M, joined, callbacks, state, stack)
  BY DEF ListInv, Arranged
<1> HIDE DEF M
<1>2. Calm(M, joined, callbacks, state)
  BY <1>1, CalmUnless
<1>3. Frames(M, joined, <<>>) /\ Loops(callbacks, <<>>)
  BY NoFrames
<1>4. \A f : Append(<<>>, f) = <<f>>
  OBVIOUS
<1>5. \A f : Frame(M, joined, f) /\ f.at # "loop" =>
        Frames(M, joined, Append(<<>>, f)) /\ Loops(callbacks, Append(<<>>, f))
  BY <1>3, FramePushed, LoopsPushed
<1> QED BY <1>1, <1>2, <1>3, <1>4, <1>5 DEF M

LEMMA RunsWhat ==
  ASSUME NEW at, Running(at)
  PROVE  stack # <<>> /\ Top.at = at
BY DEF Running, Top

-----------------------------------------------------------------------------
(* process of then *)

LEMMA RunsProcess ==
  ASSUME ListInv, NEW s, At(s)
  PROVE  /\ stack # <<>> /\ Top.at # "loop" /\ Top.step = s
         /\ Top \in Processes(Mine(page)) /\ Top.fn \in Fn(Mine(page)) /\ Top.v \in Value
         /\ \A t \in ProcessStep : /\ Frame(Mine(page), joined, Goes(t)) /\ Goes(t).at # "loop"
<1>1. stack # <<>> /\ Top.at = "process" /\ Top.step = s
  BY RunsWhat DEF At
<1>2. Frame(Mine(page), joined, Top)
  BY <1>1, InsideCalls
<1>3. Top \in Processes(Mine(page))
  BY <1>1, <1>2, FrameIs
<1> DEFINE M == Mine(page)
           p == Top
<1>4. p \in Processes(M)
  BY <1>3
<1> HIDE DEF M, p
<1>5. p.fn \in Fn(M) /\ p.v \in Value
  BY <1>4, ProcessIs
<1>6. \A t \in ProcessStep : [p EXCEPT !.step = t] \in Processes(M)
  BY <1>4, ProcessGoes
<1>7. \A q \in Processes(M) : Frame(M, joined, q) /\ q.at # "loop"
  BY ProcessIs
<1>8. \A t \in ProcessStep : Goes(t) \in Processes(M)
  BY <1>6 DEF Goes, p
<1> QED BY <1>1, <1>4, <1>5, <1>7, <1>8 DEF M, p

LEMMA PoppedIsFine ==
  ASSUME ListInv, stack # <<>>, Top.at # "loop", stack' = Callers,
         page' = page, CallsGo, UNCHANGED <<maxDepth, held, inner, callbacks, joined, seen>>
  PROVE  Onward
<1>1. Typed'
  <2>1. Joined(Mine(page), joined') /\ SeenIs(seen') /\ Typed
    BY DEF ListInv, Typed
  <2> QED BY <2>1, TypedSame DEF inner
<1> QED BY <1>1, InsideCalls, QuietStep, SameJoin DEF inner

LEMMA IgnoreStaleGoes == ASSUME ListInv, IgnoreStale PROVE Onward
<1>1. At("call") /\ stack' = Callers /\ UNCHANGED <<fixed, inner, calls, callbacks, joined, seen>>
  BY DEF IgnoreStale
<1>2. stack # <<>> /\ Top.at # "loop"
  BY <1>1, RunsProcess
<1> QED BY <1>1, <1>2, PoppedIsFine DEF fixed, CallsGo

LEMMA EndProcessGoes == ASSUME ListInv, EndProcess PROVE Onward
<1>1. (At("done") \/ At("caught")) /\ stack' = Callers
      /\ UNCHANGED <<fixed, inner, calls, callbacks, joined, seen>>
  BY DEF EndProcess
<1>2. stack # <<>> /\ Top.at # "loop"
  BY <1>1, RunsProcess
<1> QED BY <1>1, <1>2, PoppedIsFine DEF fixed, CallsGo

LEMMA GotNothingGoes == ASSUME ListInv, GotNothing PROVE Onward
<1>1. At("got") /\ stack' = Callers
      /\ UNCHANGED <<fixed, inner, calls, callbacks, joined, seen>>
  BY DEF GotNothing
<1>2. stack # <<>> /\ Top.at # "loop"
  BY <1>1, RunsProcess
<1> QED BY <1>1, <1>2, PoppedIsFine DEF fixed, CallsGo

LEMMA ThrownIsFine ==
  ASSUME ListInv, stack # <<>>, Top.at # "loop", NEW e \in Value, Throw(e),
         page' = page, CallsGo, UNCHANGED <<maxDepth, held, inner, callbacks, joined>>
  PROVE  Onward
<1>1. /\ Frames(Mine(page), joined, stack') /\ Loops(callbacks, stack') /\ SeenIs(seen')
  <2>1. DOMAIN seen = SeenField /\ seen.adds \in [ListId -> Nat]
    BY DEF ListInv, Typed, SeenIs
  <2>2. Frames(Mine(page), joined, stack) /\ Loops(callbacks, stack)
    BY InsideCalls
  <2>3. /\ Frames(Mine(page), joined, stack') /\ Loops(callbacks, stack') /\ DOMAIN seen' = SeenField
        /\ \A x \in SeenField \ {"follow"} : seen'[x] = seen[x]
    BY <2>1, <2>2, ThrowIs
  <2> QED BY <2>1, <2>3 DEF SeenIs, SeenField
<1>2. Typed'
  <2>1. Joined(Mine(page), joined') /\ Typed
    BY DEF ListInv, Typed
  <2> QED BY <1>1, <2>1, TypedSame DEF inner
<1> QED BY <1>1, <1>2, InsideCalls, QuietStep, SameJoin DEF inner

LEMMA GotItselfGoes == ASSUME ListInv, GotItself PROVE Onward
<1>1. At("got") /\ Throw(TypeError) /\ UNCHANGED <<fixed, inner, calls, callbacks, joined>>
  BY DEF GotItself
<1>2. stack # <<>> /\ Top.at # "loop"
  BY <1>1, RunsProcess
<1>3. TypeError \in Value
  BY DEF Value
<1> QED BY <1>1, <1>2, <1>3, ThrownIsFine DEF fixed, CallsGo
LEMMA HandlersAre ==
  ASSUME NEW M
  PROVE  /\ Identity \in Nested(M) /\ Thrower \in Nested(M) /\ Script \in Nested(M)
         /\ \A fn \in Plainly(M) : Inner(fn) \in Nested(M)
         /\ Plainly(M) \subseteq Fn(M)
         /\ Identity \in Plain /\ Thrower \in Plain
         /\ \A h \in Nested(M) : h.h = "inner" => h.fn \in Plainly(M)
<1>1. Identity \in [h : {"identity", "thrower", "script"}]
      /\ Thrower \in [h : {"identity", "thrower", "script"}]
      /\ Script \in [h : {"identity", "thrower", "script"}]
  BY DEF Identity, Thrower, Script
<1>2. \A fn \in Plainly(M) : Inner(fn) \in [h : {"inner"}, fn : Plainly(M)]
  BY DEF Inner
<1>3. Plain \subseteq [h : {"identity", "thrower", "script"}]
  BY DEF Plain
<1>4. Plain \subseteq Nested(M)
  BY <1>3 DEF Nested
<1>5. Plainly(M) \subseteq Fn(M)
  BY <1>4 DEF Plainly, Fn
<1>6. Identity \in Plain /\ Thrower \in Plain
  BY DEF Identity, Thrower, Plain
<1>7. ASSUME NEW h \in Nested(M), h.h = "inner" PROVE h.fn \in Plainly(M)
  <2>1. h \notin [h : {"identity", "thrower", "script"}]
    BY <1>7
  <2>2. h \in [h : {"inner"}, fn : Plainly(M)]
    BY <2>1 DEF Nested
  <2> QED BY <2>2
<1> QED BY <1>1, <1>2, <1>5, <1>6, <1>7 DEF Nested

LEMMA TypedStep ==
  ASSUME Typed, page' = page, CallsGo, maxDepth' \in [Deferred -> Nat],
         held' \subseteq Plainly(Mine(page)), DOMAIN handlers' = ListId,
         \A l \in ListId : Handling(Mine(page), l[2], handlers'[l]),
         Tasks(Mine(page), tasks'),
         \A i \in DOMAIN tasks' : tasks'[i].do = "ready" => page.has = "ready",
         state' \in [Deferred -> {"unborn", "pending", "resolved", "rejected"}],
         page.has = "ready" => state'[1] # "unborn",
         Joined(Mine(page), joined'), SeenIs(seen')
  PROVE  Typed'
<1>1. calls' \in 0..page'.calls
  BY CallsCount
<1> QED BY <1>1 DEF Typed

LEMMA ThenTyped ==
  ASSUME Typed, NEW e \in Deferred, NEW on, \A k \in Kind : on[k] \in Nested(Mine(page)),
         NEW d \in Mine(page) \cup {Nobody}, Then(e, on, d)
  PROVE  /\ DOMAIN handlers' = ListId
         /\ \A l \in ListId : Handling(Mine(page), l[2], handlers'[l])
         /\ Tasks(Mine(page), tasks')
         /\ \A i \in DOMAIN tasks' : tasks'[i].do = "ready" => page.has = "ready"
<1> DEFINE M == Mine(page)
           X == TimersOf(handlers, e, on, d)
<1>1. /\ M \in SUBSET Deferred /\ DOMAIN handlers = ListId
      /\ \A l \in ListId : Handling(M, l[2], handlers[l])
      /\ Tasks(M, tasks) /\ \A k \in Kind : on[k] \in Nested(M)
      /\ \A i \in DOMAIN tasks : tasks[i].do = "ready" => page.has = "ready"
      /\ d \in M \cup {Nobody}
  BY MineIs DEF Typed
<1> HIDE DEF M
<1>2. handlers' = HandlersAfter(handlers, e, on, d) /\ tasks' = tasks \o X
  BY DEF Then
<1>3. /\ DOMAIN HandlersAfter(handlers, e, on, d) = ListId
      /\ \A l \in ListId : Handling(M, l[2], HandlersAfter(handlers, e, on, d)[l])
      /\ Tasks(M, X) /\ \A i \in DOMAIN X : X[i].do = "process"
  BY <1>1, ThenIs
<1> HIDE DEF X
<1>4. /\ Tasks(M, tasks \o X) /\ Len(tasks) \in Nat /\ Len(X) \in Nat
      /\ DOMAIN tasks = 1..Len(tasks) /\ DOMAIN X = 1..Len(X)
      /\ DOMAIN (tasks \o X) = 1..(Len(tasks) + Len(X))
      /\ \A i \in 1..(Len(tasks) + Len(X)) :
           (tasks \o X)[i] = IF i <= Len(tasks) THEN tasks[i] ELSE X[i - Len(tasks)]
  BY <1>1, <1>3, TasksJoined
<1>5. ASSUME NEW i \in DOMAIN tasks', tasks'[i].do = "ready" PROVE page.has = "ready"
  <2>1. i \in 1..(Len(tasks) + Len(X))
    BY <1>2, <1>4
  <2>2. CASE i <= Len(tasks)
    <3>1. i \in DOMAIN tasks /\ tasks'[i] = tasks[i]
      BY <1>2, <1>4, <2>1, <2>2
    <3> QED BY <1>1, <1>5, <3>1
  <2>3. CASE ~(i <= Len(tasks))
    <3>1. i - Len(tasks) \in DOMAIN X /\ tasks'[i] = X[i - Len(tasks)]
      BY <1>2, <1>4, <2>1, <2>3
    <3> QED BY <1>3, <1>5, <3>1
  <2> QED BY <2>2, <2>3
<1> QED BY <1>2, <1>3, <1>4, <1>5 DEF M

LEMMA CallHandlerGoes == ASSUME ListInv, CallHandler PROVE Onward
<1> DEFINE M == Mine(page)
           p == Top
           h == p.fn.h
<1>1. At("call") /\ UNCHANGED <<fixed, inner, calls, callbacks, joined>>
      /\ \/ stack' = Become(Goes("got")) /\ UNCHANGED seen
         \/ Throw(p.v)
         \/ stack' = Append(Become(Goes("wait")), Code) /\ UNCHANGED seen
         \/ /\ h.h = "inner"
            /\ stack' = Append(Become([Goes("got") EXCEPT !.v = Undefined]), Process(h.fn, p.v))
            /\ UNCHANGED seen
  BY DEF CallHandler
<1>2. /\ stack # <<>> /\ p.at # "loop"
      /\ p \in Processes(M) /\ p.fn \in Fn(M) /\ p.v \in Value
      /\ \A t \in ProcessStep : Frame(M, joined, Goes(t)) /\ Goes(t).at # "loop"
  BY <1>1, RunsProcess
<1>3. /\ \A f : Frame(M, joined, f) /\ f.at # "loop" =>
           Frames(M, joined, Become(f)) /\ Loops(callbacks, Become(f))
      /\ Calm(M, joined, callbacks, state)
  BY <1>2, InsideCalls
<1>4. Typed /\ Joined(M, joined) /\ SeenIs(seen)
  BY DEF ListInv, Typed
<1>5. page' = page /\ CallsGo
  BY <1>1 DEF fixed, CallsGo
<1>6. CASE Throw(p.v)
  <2> HIDE DEF p
  <2>1. p.v \in Value
    BY <1>2
  <2> QED BY <1>1, <1>2, <1>5, <1>6, <2>1, ThrownIsFine DEF fixed, p
<1>7. ASSUME UNCHANGED seen, Frames(M, joined, stack'), Loops(callbacks, stack')
      PROVE  Onward
  <2>1. Typed'
    BY <1>1, <1>4, <1>5, <1>7, TypedSame DEF fixed, inner
  <2> QED BY <1>1, <1>3, <1>5, <1>7, <2>1, QuietStep, SameJoin DEF inner
<1>8. CASE stack' = Become(Goes("got")) /\ UNCHANGED seen
  <2>1. "got" \in ProcessStep
    BY DEF ProcessStep
  <2> HIDE DEF M
  <2> QED BY <1>2, <1>3, <1>7, <1>8, <2>1
<1> HIDE DEF M
<1>9. ASSUME NEW f, NEW g, Frame(M, joined, f), f.at # "loop", Frame(M, joined, g), g.at # "loop"
      PROVE  Frames(M, joined, Append(Become(f), g)) /\ Loops(callbacks, Append(Become(f), g))
  <2>1. Frames(M, joined, Become(f)) /\ Loops(callbacks, Become(f))
    BY <1>3, <1>9
  <2> QED BY <1>9, <2>1, FramePushed, LoopsPushed
<1>10. CASE stack' = Append(Become(Goes("wait")), Code) /\ UNCHANGED seen
  <2>1. "wait" \in ProcessStep
    BY DEF ProcessStep
  <2>2. Frame(M, joined, Code) /\ Code.at # "loop"
    BY CodeIsFrame
  <2>3. Frame(M, joined, Goes("wait")) /\ Goes("wait").at # "loop"
    BY <1>2, <2>1
  <2> QED BY <1>7, <1>9, <1>10, <2>2, <2>3
<1>11. CASE /\ h.h = "inner"
            /\ stack' = Append(Become([Goes("got") EXCEPT !.v = Undefined]), Process(h.fn, p.v))
            /\ UNCHANGED seen
  <2> DEFINE f == Moved(p, "got", Undefined)
             g == Process(h.fn, p.v)
  <2>1. stack' = Append(Become(f), g)
    BY <1>11, Zenon DEF Moved, Goes
  <2>2. "got" \in ProcessStep /\ Undefined \in Value
    BY DEF ProcessStep, Value
  <2>3. f \in Processes(M)
    <3> HIDE DEF p
    <3> QED BY <1>2, <2>2, ProcessGoes
  <2>4. h.fn \in Fn(M)
    <3>1. h \in Nested(M)
      BY <1>2 DEF Fn
    <3> HIDE DEF h
    <3> QED BY <1>11, <3>1, HandlersAre
  <2>5. g \in Processes(M)
    BY <1>2, <2>4 DEF Processes, Process, ProcessStep
  <2> HIDE DEF f, g
  <2>6. Frame(M, joined, f) /\ f.at # "loop" /\ Frame(M, joined, g) /\ g.at # "loop"
    BY <2>3, <2>5, ProcessIs
  <2> QED BY <1>7, <1>9, <1>11, <2>1, <2>6
<1> QED BY <1>1, <1>6, <1>8, <1>10, <1>11

LEMMA ResolversAre ==
  ASSUME ListInv, NEW fn \in Fn(Mine(page)), fn.d # Nobody
  PROVE  /\ fn.d \in Mine(page) /\ fn.d \in Deferred /\ NextDepth(fn) \in Nat
         /\ \A h \in Plain, s \in BOOLEAN : Resolve(NextDepth(fn), fn.d, h, s) \in Plainly(Mine(page))
         /\ fn.special \in BOOLEAN
         /\ [maxDepth EXCEPT ![fn.d] = NextDepth(fn)] \in [Deferred -> Nat]
<1>1. fn.d \in Mine(page) /\ fn.special \in BOOLEAN
  BY DEF Fn
<1>2. fn.d \in Deferred
  BY <1>1, MineIs
<1>3. maxDepth \in [Deferred -> Nat]
  BY DEF ListInv, Typed
<1>4. maxDepth[fn.d] \in Nat
  BY <1>2, <1>3
<1>5. NextDepth(fn) \in Nat
  BY <1>1, <1>4 DEF NextDepth
<1> DEFINE m == NextDepth(fn)
<1>6. m \in Nat
  BY <1>5
<1> HIDE DEF m
<1>7. [maxDepth EXCEPT ![fn.d] = m] \in [Deferred -> Nat]
  BY <1>3, <1>6
<1>8. \A h \in Plain, s \in BOOLEAN : Resolve(m, fn.d, h, s) \in Plainly(Mine(page))
  BY <1>1, <1>6 DEF Resolve, Plainly
<1> QED BY <1>1, <1>2, <1>6, <1>7, <1>8 DEF m

LEMMA LearnIs ==
  ASSUME DOMAIN seen = SeenField, NEW fn, NEW v
  PROVE  /\ DOMAIN Learn(fn, v) = SeenField
         /\ \A x \in SeenField \ {"follow"} : Learn(fn, v)[x] = seen[x]
BY DEF Learn, SeenField

LEMMA GotThenableGoes == ASSUME ListInv, GotThenable PROVE Onward
<1> DEFINE M == Mine(page)
           p == Top
           fn == p.fn
<1>1. /\ At("got") /\ fn.d # Nobody
      /\ maxDepth' = [maxDepth EXCEPT ![fn.d] = NextDepth(fn)]
      /\ held' = held \cup {Resolvers(fn).resolve, Resolvers(fn).reject}
                      \cup (IF fn.special THEN {} ELSE {Resolvers(fn).notify})
      /\ stack' = Append(Become(Goes("done")), Code)
      /\ seen' = Learn(fn, p.v)
      /\ UNCHANGED <<inner, page, calls, callbacks, joined, readiness>>
  BY DEF GotThenable
<1>2. /\ stack # <<>> /\ p.at # "loop" /\ fn \in Fn(M)
      /\ \A t \in ProcessStep : Frame(M, joined, Goes(t)) /\ Goes(t).at # "loop"
  BY <1>1, RunsProcess
<1>3. /\ \A f : Frame(M, joined, f) /\ f.at # "loop" =>
           Frames(M, joined, Become(f)) /\ Loops(callbacks, Become(f))
      /\ Calm(M, joined, callbacks, state)
  BY <1>2, InsideCalls
<1> HIDE DEF p, fn
<1>4. /\ [maxDepth EXCEPT ![fn.d] = NextDepth(fn)] \in [Deferred -> Nat]
      /\ \A h \in Plain, s \in BOOLEAN : Resolve(NextDepth(fn), fn.d, h, s) \in Plainly(M)
      /\ fn.special \in BOOLEAN
  BY <1>1, <1>2, ResolversAre
<1>5. held' \subseteq Plainly(M)
  <2> DEFINE a == Resolve(NextDepth(fn), fn.d, Identity, fn.special)
             b == Resolve(NextDepth(fn), fn.d, Thrower, fn.special)
             c == Resolve(NextDepth(fn), fn.d, Identity, TRUE)
  <2>1. a \in Plainly(M) /\ b \in Plainly(M) /\ c \in Plainly(M)
    BY <1>4, HandlersAre
  <2>2. Resolvers(fn).resolve = a /\ Resolvers(fn).reject = b /\ Resolvers(fn).notify = c
    BY DEF Resolvers
  <2>3. held \subseteq Plainly(M)
    BY DEF ListInv, Typed
  <2> HIDE DEF a, b, c, M
  <2> QED BY <1>1, <2>1, <2>2, <2>3
<1>6. SeenIs(seen')
  <2>1. DOMAIN seen = SeenField /\ seen.adds \in [ListId -> Nat]
    BY DEF ListInv, Typed, SeenIs
  <2>2. DOMAIN seen' = SeenField /\ \A x \in SeenField \ {"follow"} : seen'[x] = seen[x]
    BY <1>1, <2>1, LearnIs
  <2> QED BY <2>1, <2>2 DEF SeenIs, SeenField
<1>7. Typed'
  <2>1. Typed /\ CallsGo
    BY <1>1 DEF ListInv, CallsGo
  <2> QED BY <1>1, <1>4, <1>5, <1>6, <2>1 DEF Typed, inner, CallsGo
<1>8. Frames(M, joined, stack') /\ Loops(callbacks, stack')
  <2> HIDE DEF M
  <2>1. "done" \in ProcessStep
    BY DEF ProcessStep
  <2>2. Frames(M, joined, Become(Goes("done"))) /\ Loops(callbacks, Become(Goes("done")))
    BY <1>2, <1>3, <2>1
  <2>3. Frame(M, joined, Code) /\ Code.at # "loop"
    BY CodeIsFrame
  <2> QED BY <1>1, <2>2, <2>3, FramePushed, LoopsPushed
<1> QED BY <1>1, <1>3, <1>7, <1>8, QuietStep, SameJoin DEF inner

LEMMA GotPromiseGoes == ASSUME ListInv, GotPromise PROVE Onward
<1> DEFINE M == Mine(page)
           p == Top
           fn == p.fn
           e == p.v.n
<1>1. /\ At("got") /\ fn.d # Nobody /\ p.v.is = "promise"
      /\ maxDepth' = [maxDepth EXCEPT ![fn.d] = NextDepth(fn)]
      /\ Then(e, Inners(fn), Nobody)
      /\ stack' = Become(Goes("done"))
      /\ seen' = [Learn(fn, p.v) EXCEPT !.thens[e] = Append(@, Nobody)]
      /\ UNCHANGED <<page, calls, callbacks, state, held, joined, readiness>>
  BY DEF GotPromise
<1>2. /\ stack # <<>> /\ p.at # "loop" /\ fn \in Fn(M) /\ p.v \in Value
      /\ \A t \in ProcessStep : Frame(M, joined, Goes(t)) /\ Goes(t).at # "loop"
  BY <1>1, RunsProcess
<1>3. /\ \A f : Frame(M, joined, f) /\ f.at # "loop" =>
           Frames(M, joined, Become(f)) /\ Loops(callbacks, Become(f))
      /\ Calm(M, joined, callbacks, state)
  BY <1>2, InsideCalls
<1> HIDE DEF p, fn
<1>4. /\ [maxDepth EXCEPT ![fn.d] = NextDepth(fn)] \in [Deferred -> Nat]
      /\ \A h \in Plain, s \in BOOLEAN : Resolve(NextDepth(fn), fn.d, h, s) \in Plainly(M)
      /\ fn.special \in BOOLEAN
  BY <1>1, <1>2, ResolversAre
<1>5. e \in Deferred
  <2> HIDE DEF M
  <2> QED BY <1>1, <1>2, PromiseIs
<1>6. \A k \in Kind : Inners(fn)[k] \in Nested(M)
  <2> DEFINE a == Resolve(NextDepth(fn), fn.d, Identity, fn.special)
             b == Resolve(NextDepth(fn), fn.d, Thrower, fn.special)
             c == Resolve(NextDepth(fn), fn.d, Identity, TRUE)
  <2>1. a \in Plainly(M) /\ b \in Plainly(M) /\ c \in Plainly(M)
    BY <1>4, HandlersAre
  <2>2. Resolvers(fn).resolve = a /\ Resolvers(fn).reject = b /\ Resolvers(fn).notify = c
    BY DEF Resolvers
  <2> HIDE DEF a, b, c, M
  <2>3. /\ Inners(fn)["resolve"] = Inner(a) /\ Inners(fn)["reject"] = Inner(b)
        /\ Inners(fn)["notify"] \in {Identity, Inner(c)}
    BY <2>2 DEF Inners
  <2>4. /\ Inner(a) \in Nested(M) /\ Inner(b) \in Nested(M) /\ Inner(c) \in Nested(M)
        /\ Identity \in Nested(M)
    BY <2>1, HandlersAre
  <2> QED BY <2>3, <2>4 DEF Kind
<1>7. Nobody \in M \cup {Nobody}
  OBVIOUS
<1>8. Typed
  BY DEF ListInv
<1> HIDE DEF e
<1>9. /\ DOMAIN handlers' = ListId
      /\ \A l \in ListId : Handling(M, l[2], handlers'[l])
      /\ Tasks(M, tasks')
      /\ \A i \in DOMAIN tasks' : tasks'[i].do = "ready" => page.has = "ready"
  BY <1>1, <1>5, <1>6, <1>7, <1>8, ThenTyped
<1>10. SeenIs(seen')
  <2>1. DOMAIN seen = SeenField /\ seen.adds \in [ListId -> Nat]
    BY DEF ListInv, Typed, SeenIs
  <2> DEFINE s == Learn(fn, p.v)
  <2>2. DOMAIN s = SeenField /\ \A x \in SeenField \ {"follow"} : s[x] = seen[x]
    BY <2>1, LearnIs
  <2>3. seen' = [s EXCEPT !.thens[e] = Append(@, Nobody)]
    BY <1>1
  <2> HIDE DEF s
  <2>4. DOMAIN seen' = SeenField /\ seen'.adds = s.adds
    BY <2>2, <2>3 DEF SeenField
  <2> QED BY <2>1, <2>2, <2>4 DEF SeenIs, SeenField
<1>11. Typed'
  BY <1>1, <1>4, <1>8, <1>9, <1>10 DEF Typed
<1>12. Frames(M, joined, stack') /\ Loops(callbacks, stack')
  <2> HIDE DEF M
  <2>1. "done" \in ProcessStep
    BY DEF ProcessStep
  <2> QED BY <1>1, <1>2, <1>3, <2>1
<1> QED BY <1>1, <1>3, <1>11, <1>12, QuietStep, SameJoin
-----------------------------------------------------------------------------
(* Steps that change lists *)

LEMMA FireStep ==
  ASSUME ListInv, Calm(Mine(page), joined, callbacks, state), Typed', page' = page,
         state' = state, JoinLater(Mine(page), joined, joined'),
         NEW F, Frames(Mine(page), joined, F), Loops(callbacks, F),
         NEW l \in ListId, NEW N, l[1] \in N \/ l = UserList \/ l[2] = "notify",
         NEW v \in Value, Fire(l, v, callbacks, F)
  PROVE  ListInv' /\ Keeps(N, callbacks, state, callbacks', state')
<1> DEFINE M == Mine(page)
           c == FireWith(callbacks[l], v)
<1>1. Lists(M, joined, callbacks)
  BY DEF ListInv, Arranged
<1> HIDE DEF M
<1>2. callbacks' = [callbacks EXCEPT ![l] = c] /\ stack' = Called(F, l, callbacks[l], c)
  BY CalledAs DEF Fire, M
<1>3. /\ Arranged(M, joined, [callbacks EXCEPT ![l] = c], state, Called(F, l, callbacks[l], c))
      /\ Keeps(N, callbacks, state, [callbacks EXCEPT ![l] = c], state)
  BY <1>1, FireKeeps DEF M
<1> HIDE DEF c
<1>4. Arranged(M, joined', callbacks', state', stack') /\ Keeps(N, callbacks, state, callbacks', state')
  BY <1>2, <1>3, ArrangedLater DEF M
<1> QED BY <1>4 DEF M, ListInv

LEMMA ApplyFires ==
  ASSUME NEW l, NEW v, NEW F, Apply(l, FireWith(callbacks[l], v), F)
  PROVE  Fire(l, v, callbacks, F)
BY DEF Apply, Fire, Start

LEMMA GotValueGoes == ASSUME ListInv, GotValue PROVE Onward
<1> DEFINE M == Mine(page)
           p == Top
           fn == p.fn
           l == <<fn.d, IF fn.special THEN "notify" ELSE "resolve">>
           F == Become(Goes("done"))
<1>1. /\ At("got") /\ fn.d # Nobody
      /\ Fire(l, p.v, callbacks, F)
      /\ seen' = Learn(fn, p.v)
      /\ UNCHANGED <<fixed, inner, calls, joined>>
  BY DEF GotValue
<1>2. /\ stack # <<>> /\ p.at # "loop" /\ fn \in Fn(M) /\ p.v \in Value
      /\ \A t \in ProcessStep : Frame(M, joined, Goes(t)) /\ Goes(t).at # "loop"
  BY <1>1, RunsProcess
<1>3. /\ \A f : Frame(M, joined, f) /\ f.at # "loop" =>
           Frames(M, joined, Become(f)) /\ Loops(callbacks, Become(f))
      /\ Calm(M, joined, callbacks, state)
  BY <1>2, InsideCalls
<1> HIDE DEF p, fn
<1>4. fn.d \in M /\ fn.d \in Deferred
  BY <1>1, <1>2, ResolversAre
<1>5. SeenIs(seen')
  <2>1. DOMAIN seen = SeenField /\ seen.adds \in [ListId -> Nat]
    BY DEF ListInv, Typed, SeenIs
  <2>2. DOMAIN seen' = SeenField /\ \A x \in SeenField \ {"follow"} : seen'[x] = seen[x]
    BY <1>1, <2>1, LearnIs
  <2> QED BY <2>1, <2>2 DEF SeenIs, SeenField
<1>6. Typed'
  <2>1. Typed /\ Joined(M, joined')
    BY <1>1 DEF ListInv, Typed
  <2> QED BY <1>1, <1>5, <2>1, TypedSame DEF fixed, inner, CallsGo
<1>7. l \in ListId /\ l[1] \in M
  <2>1. "notify" \in Kind /\ "resolve" \in Kind
    BY DEF Kind
  <2> HIDE DEF M
  <2> QED BY <1>4, <2>1, ListIds
<1>8. Frames(M, joined, F) /\ Loops(callbacks, F)
  <2>1. "done" \in ProcessStep
    BY DEF ProcessStep
  <2> HIDE DEF M
  <2> QED BY <1>2, <1>3, <2>1
<1> HIDE DEF l, F
<1> QED BY <1>1, <1>2, <1>3, <1>6, <1>7, <1>8, FireStep, SameJoin DEF fixed, inner, Onward

LEMMA CatchGoes == ASSUME ListInv, Catch PROVE Onward
<1> DEFINE M == Mine(page)
           p == Top
           fn == p.fn
           l == <<fn.d, "reject">>
           F == Become(Goes("caught"))
<1>1. /\ At("threw")
      /\ UNCHANGED <<fixed, inner, calls, joined, seen>>
      /\ \/ fn.d # Nobody /\ Fire(l, p.v, callbacks, F)
         \/ callbacks' = callbacks /\ stack' = Callers
  BY DEF Catch
<1>2. /\ stack # <<>> /\ p.at # "loop" /\ fn \in Fn(M) /\ p.v \in Value
      /\ \A t \in ProcessStep : Frame(M, joined, Goes(t)) /\ Goes(t).at # "loop"
  BY <1>1, RunsProcess
<1>3. /\ \A f : Frame(M, joined, f) /\ f.at # "loop" =>
           Frames(M, joined, Become(f)) /\ Loops(callbacks, Become(f))
      /\ Calm(M, joined, callbacks, state)
  BY <1>2, InsideCalls
<1>4. CASE callbacks' = callbacks /\ stack' = Callers
  BY <1>1, <1>2, <1>4, PoppedIsFine DEF fixed, CallsGo
<1> HIDE DEF p, fn
<1>5. CASE fn.d # Nobody /\ Fire(l, p.v, callbacks, F)
  <2>1. fn.d \in M /\ fn.d \in Deferred
    BY <1>2, <1>5, ResolversAre
  <2>2. Typed'
    <3>1. Typed /\ Joined(M, joined') /\ SeenIs(seen')
      BY <1>1 DEF ListInv, Typed
    <3> QED BY <1>1, <3>1, TypedSame DEF fixed, inner, CallsGo
  <2>3. l \in ListId /\ l[1] \in M
    <3>1. "reject" \in Kind
      BY DEF Kind
    <3> HIDE DEF M
    <3> QED BY <2>1, <3>1, ListIds
  <2>4. Frames(M, joined, F) /\ Loops(callbacks, F)
    <3>1. "caught" \in ProcessStep
      BY DEF ProcessStep
    <3> HIDE DEF M
    <3> QED BY <1>2, <1>3, <3>1
  <2> HIDE DEF l, F
  <2> QED BY <1>1, <1>2, <1>3, <1>5, <2>2, <2>3, <2>4, FireStep, SameJoin DEF fixed, inner, Onward
<1> QED BY <1>1, <1>4, <1>5

-----------------------------------------------------------------------------
(* Functions of the page begin, return and throw *)

LEMMA RunsCode ==
  ASSUME ListInv, Running("code")
  PROVE  /\ stack # <<>> /\ Top.at # "loop"
         /\ Calm(Mine(page), joined, callbacks, state)
         /\ Lists(Mine(page), joined, callbacks)
         /\ Frames(Mine(page), joined, stack) /\ Loops(callbacks, stack)
         /\ Frames(Mine(page), joined, Callers) /\ Loops(callbacks, Callers)
         /\ Mine(page) \in SUBSET Deferred /\ Typed
         /\ \A f : Frame(Mine(page), joined, f) /\ f.at # "loop" =>
              /\ Frames(Mine(page), joined, Append(stack, f))
              /\ Loops(callbacks, Append(stack, f))
<1>1. stack # <<>> /\ Top.at = "code"
  BY RunsWhat
<1>2. Typed
  BY DEF ListInv
<1> QED BY <1>1, <1>2, InsideCalls, MineIs

\* The frames below the two innermost, and the one that called a script.
LEMMA CallerIs ==
  ASSUME ListInv, Running("code"), Len(stack) > 1
  PROVE  /\ Frame(Mine(page), joined, Caller)
         /\ Frames(Mine(page), joined, SubSeq(stack, 1, Len(stack) - 2))
         /\ Loops(callbacks, SubSeq(stack, 1, Len(stack) - 2))
         /\ \A f : Frame(Mine(page), joined, f) /\ f.at # "loop" =>
              /\ Frames(Mine(page), joined, Append(SubSeq(stack, 1, Len(stack) - 2), f))
              /\ Loops(callbacks, Append(SubSeq(stack, 1, Len(stack) - 2), f))
<1> DEFINE M == Mine(page)
           n == Len(stack) - 2
<1>1. Frames(M, joined, stack) /\ Loops(callbacks, stack)
  BY RunsCode
<1> HIDE DEF M
<1>2. Len(stack) \in Nat /\ \A i \in 1..Len(stack) : Frame(M, joined, stack[i])
  BY <1>1, FramesAre
<1>3. Len(stack) - 1 \in 1..Len(stack) /\ n \in Nat /\ n <= Len(stack)
  BY <1>2
<1>4. Frame(M, joined, Caller)
  BY <1>2, <1>3 DEF Caller
<1> HIDE DEF n
<1>5. /\ Frames(M, joined, SubSeq(stack, 1, n)) /\ Loops(callbacks, SubSeq(stack, 1, n))
      /\ \A f : Frame(M, joined, f) /\ f.at # "loop" =>
              /\ Frames(M, joined, Append(SubSeq(stack, 1, n), f))
              /\ Loops(callbacks, Append(SubSeq(stack, 1, n), f))
  BY <1>1, <1>3, CutIs
<1> QED BY <1>4, <1>5 DEF M, n

LEMMA ReturnFromScriptGoes == ASSUME ListInv, ReturnFromScript PROVE Onward
<1>1. Running("code") /\ stack' = Callers
      /\ UNCHANGED <<fixed, inner, calls, callbacks, joined, seen>>
  BY DEF ReturnFromScript
<1>2. stack # <<>> /\ Top.at # "loop"
  BY <1>1, RunsCode
<1> QED BY <1>1, <1>2, PoppedIsFine DEF fixed, CallsGo

\* Nothing but the stack and the count of calls has changed.
LEMMA StackOnly ==
  ASSUME ListInv, Calm(Mine(page), joined, callbacks, state), page' = page, CallsGo,
         UNCHANGED <<maxDepth, held, inner, callbacks, joined>>, SeenIs(seen'),
         Frames(Mine(page), joined, stack'), Loops(callbacks, stack')
  PROVE  Onward
<1>1. Typed'
  <2>1. Joined(Mine(page), joined') /\ Typed
    BY DEF ListInv, Typed
  <2> QED BY <2>1, TypedSame DEF inner
<1> QED BY <1>1, QuietStep, SameJoin DEF inner

LEMMA RunScriptGoes == ASSUME ListInv, RunScript PROVE Onward
<1>1. stack = <<>> /\ stack' = <<Code>>
      /\ UNCHANGED <<fixed, inner, calls, callbacks, joined, seen>>
  BY DEF RunScript
<1>2. /\ Calm(Mine(page), joined, callbacks, state)
      /\ Frames(Mine(page), joined, stack') /\ Loops(callbacks, stack')
  BY <1>1, OutsideCalls, CodeIsFrame
<1>3. SeenIs(seen')
  BY <1>1 DEF ListInv, Typed
<1> QED BY <1>1, <1>2, <1>3, StackOnly DEF fixed, CallsGo

LEMMA ThrowErrorGoes == ASSUME ListInv, ThrowError PROVE Onward
<1>1. Running("code") /\ calls < page.calls /\ calls' = calls + 1 /\ Throw(Error(calls'))
      /\ UNCHANGED <<fixed, inner, callbacks, joined>>
  BY DEF ThrowError, May
<1>2. stack # <<>> /\ Top.at # "loop" /\ Typed
  BY <1>1, RunsCode
<1>3. Error(calls') \in Value
  <2>1. calls' \in 1..page.calls
    BY <1>1, <1>2, DataIsValue
  <2> QED BY <1>2, <2>1, DataIsValue
<1> QED BY <1>1, <1>2, <1>3, ThrownIsFine DEF fixed, CallsGo

LEMMA ResultsAre ==
  ASSUME Typed, NEW v \in Results
  PROVE  v \in Value
<1>1. Results \subseteq {Undefined, Thenable, No} \cup {PromiseOf(d) : d \in Deferred}
  BY DEF Results, Born
<1> QED BY <1>1, DataIsValue

LEMMA ReturnToThenGoes == ASSUME ListInv, ReturnToThen PROVE Onward
<1> DEFINE q == Caller
<1>1. /\ Running("code") /\ Len(stack) > 1 /\ q.at = "process"
      /\ UNCHANGED <<fixed, inner, calls, callbacks, joined, seen>>
      /\ \E v \in Results : stack' = Append(SubSeq(stack, 1, Len(stack) - 2), Moved(q, "got", v))
  BY DEF ReturnToThen, Moved
<1>2. PICK v \in Results : stack' = Append(SubSeq(stack, 1, Len(stack) - 2), Moved(q, "got", v))
  BY <1>1
<1>3. Calm(Mine(page), joined, callbacks, state) /\ Typed
  BY <1>1, RunsCode
<1>4. /\ Frame(Mine(page), joined, q)
      /\ \A f : Frame(Mine(page), joined, f) /\ f.at # "loop" =>
              /\ Frames(Mine(page), joined, Append(SubSeq(stack, 1, Len(stack) - 2), f))
              /\ Loops(callbacks, Append(SubSeq(stack, 1, Len(stack) - 2), f))
  BY <1>1, CallerIs
<1> HIDE DEF q
<1>5. q \in Processes(Mine(page)) /\ v \in Value /\ "got" \in ProcessStep
  BY <1>1, <1>3, <1>4, FrameIs, ResultsAre DEF ProcessStep
<1>6. Moved(q, "got", v) \in Processes(Mine(page))
  BY <1>5, ProcessGoes
<1>7. Frame(Mine(page), joined, Moved(q, "got", v)) /\ Moved(q, "got", v).at # "loop"
  BY <1>6, ProcessIs
<1>8. SeenIs(seen')
  BY <1>1 DEF ListInv, Typed
<1> QED BY <1>1, <1>2, <1>3, <1>4, <1>7, <1>8, StackOnly DEF fixed, CallsGo
-----------------------------------------------------------------------------
(* What Remove leaves *)

\* The function Without is defined with.
Rests(g, s, f, n) ==
  g = [i \in 0..n |-> IF i = 0 THEN <<>>
                      ELSE IF s[i].f = f THEN g[i - 1] ELSE Append(g[i - 1], s[i])]

LEMMA RestsExist ==
  ASSUME NEW s, NEW f, NEW n \in Nat
  PROVE  \E g : Rests(g, s, f, n)
<1> DEFINE G == {m \in Nat : \E g : Rests(g, s, f, m)}
<1>1. 0 \in G
  <2>1. Rests([i \in 0..0 |-> <<>>], s, f, 0)
    BY DEF Rests
  <2> QED BY <2>1
<1>2. ASSUME NEW m \in Nat, m \in G PROVE m + 1 \in G
  <2>1. PICK g : Rests(g, s, f, m)
    BY <1>2
  <2> DEFINE h == [i \in 0..(m + 1) |->
                     IF i # m + 1 THEN g[i]
                     ELSE IF s[i].f = f THEN g[m] ELSE Append(g[m], s[i])]
  <2>2. ASSUME NEW i \in 0..(m + 1)
        PROVE  h[i] = IF i = 0 THEN <<>>
                      ELSE IF s[i].f = f THEN h[i - 1] ELSE Append(h[i - 1], s[i])
    <3>1. CASE i = m + 1
      <4>1. i # 0 /\ i - 1 = m /\ m \in 0..(m + 1) /\ m # m + 1
        BY <3>1
      <4>2. h[i - 1] = g[m]
        BY <4>1
      <4> QED BY <3>1, <4>1, <4>2
    <3>2. CASE i # m + 1
      <4>1. i \in 0..m /\ h[i] = g[i]
        BY <3>2
      <4>2. g[i] = IF i = 0 THEN <<>>
                   ELSE IF s[i].f = f THEN g[i - 1] ELSE Append(g[i - 1], s[i])
        BY <2>1, <4>1 DEF Rests
      <4>3. i # 0 => i - 1 # m + 1 /\ i - 1 \in 0..(m + 1)
        BY <4>1
      <4>4. i # 0 => h[i - 1] = g[i - 1]
        BY <4>3
      <4> HIDE DEF h
      <4> QED BY <4>1, <4>2, <4>4
    <3> QED BY <3>1, <3>2
  <2>3. Rests(h, s, f, m + 1)
    BY <2>2 DEF Rests
  <2> QED BY <2>3
<1> HIDE DEF G
<1>3. n \in G
  BY <1>1, <1>2, Induct
<1> QED BY <1>3 DEF G

\* The entries that are left are entries of s.
LEMMA WithoutIs ==
  ASSUME NEW E, NEW s \in Seq(E), NEW f
  PROVE  /\ Without(s, f) \in Seq(E)
         /\ \A p \in DOMAIN Without(s, f) : \E q \in DOMAIN s : Without(s, f)[p] = s[q]
<1> DEFINE n == Len(s)
           g == CHOOSE r : Rests(r, s, f, n)
           Q == {s[q] : q \in DOMAIN s}
<1>0. n \in Nat /\ DOMAIN s = 1..n /\ s \in Seq(Q) /\ Q \subseteq E
  OBVIOUS
<1>1. Rests(g, s, f, n)
  <2>1. \E r : Rests(r, s, f, n)
    BY <1>0, RestsExist
  <2> QED BY <2>1
<1>2. Without(s, f) = g[n]
  BY DEF Without, Rests
<1>a. \A i \in DOMAIN s : s[i] \in Q
  OBVIOUS
<1>b. \A x \in Q : \E q \in DOMAIN s : x = s[q]
  OBVIOUS
<1> HIDE DEF g, n, Q
<1> DEFINE G == {m \in Nat : m <= n => g[m] \in Seq(Q)}
<1>3. 0 \in G
  <2>1. g[0] = <<>>
    BY <1>0, <1>1 DEF Rests
  <2> QED BY <2>1, EmptyIsSeq
<1>4. ASSUME NEW m \in Nat, m \in G PROVE m + 1 \in G
  <2>1. SUFFICES ASSUME m + 1 <= n PROVE g[m + 1] \in Seq(Q)
    OBVIOUS
  <2>2. m + 1 \in 0..n /\ m + 1 # 0 /\ (m + 1) - 1 = m /\ m + 1 \in DOMAIN s
    BY <1>0, <2>1
  <2>3. g[m + 1] = IF s[m + 1].f = f THEN g[m] ELSE Append(g[m], s[m + 1])
    BY <1>1, <2>2 DEF Rests
  <2>4. g[m] \in Seq(Q) /\ s[m + 1] \in Q
    BY <1>0, <1>4, <1>a, <2>1, <2>2
  <2> QED BY <2>3, <2>4
<1> HIDE DEF G
<1>5. n \in G
  BY <1>0, <1>3, <1>4, Induct
<1>6. g[n] \in Seq(Q)
  BY <1>0, <1>5 DEF G
<1> DEFINE w == g[n]
<1>7. w \in Seq(E) /\ \A p \in DOMAIN w : w[p] \in Q
  BY <1>0, <1>6
<1> HIDE DEF w
<1> QED BY <1>2, <1>7, <1>b DEF w

LEMMA RemoveIs ==
  ASSUME NEW c, List(c), NEW fn
  PROVE  /\ List(Remove(c, fn)) /\ Remove(c, fn).options = c.options
         /\ Remove(c, fn).firing = c.firing
         /\ \A p \in DOMAIN Remove(c, fn).list :
              \E q \in DOMAIN c.list : Remove(c, fn).list[p] = c.list[q]
<1> DEFINE s == c.list
           i == c.index
           w == Without(s, fn.f)
           K == {p \in DOMAIN s : p <= i /\ s[p].f = fn.f}
           j == i - Cardinality(K)
           e == Remove(c, fn)
<1>1. s \in Seq(Entries) /\ i \in Nat /\ (c.gone => s = <<>>) /\ (~c.firing => i = 0)
  BY DEF List, ListOf, Listing, ListingOf
<1>2. /\ w \in Seq(Entries) /\ \A p \in DOMAIN w : \E q \in DOMAIN s : w[p] = s[q]
  BY <1>1, WithoutIs
<1>3. j \in Nat /\ j <= i
  <2>1. K \subseteq 1..i
    BY <1>1
  <2>0. i \in Nat
    BY <1>1
  <2> HIDE DEF K, i
  <2>2. IsFiniteSet(1..i) /\ Cardinality(1..i) = i
    BY <2>0, FS_Interval
  <2>3. Cardinality(K) <= i /\ IsFiniteSet(K)
    BY <2>1, <2>2, FS_Subset
  <2>4. Cardinality(K) \in Nat
    BY <2>3, FS_CardinalityType
  <2> QED BY <1>1, <2>3, <2>4
<1>4. c.gone => w = <<>>
  <2> HIDE DEF w, s
  <2>1. s = <<>> => DOMAIN s = {}
    OBVIOUS
  <2>2. s = <<>> => \A p \in DOMAIN w : FALSE
    BY <1>2, <2>1
  <2>3. s = <<>> => w = <<>>
    <3>1. DOMAIN w = 1..Len(w) /\ Len(w) \in Nat /\ (Len(w) = 0 => w = <<>>)
      BY <1>2
    <3>2. Len(w) # 0 => 1 \in DOMAIN w
      BY <3>1
    <3> QED BY <2>2, <3>1, <3>2
  <2> QED BY <1>1, <2>3
<1>5. e = [c EXCEPT !.list = w, !.index = j]
  BY DEF Remove
<1> HIDE DEF w, j, e
<1>6. /\ e.list = w /\ e.index = j /\ e.options = c.options /\ e.gone = c.gone
      /\ e.queue = c.queue /\ e.memory = c.memory /\ e.locked = c.locked /\ e.firing = c.firing
      /\ e \in Listing
  BY <1>2, <1>3, <1>5 DEF List, ListOf, Listing, ListingOf
<1>7. List(e)
  <2>1. (~c.firing => c.queue = <<>>) /\ (~e.firing => e.index = 0)
    BY <1>1, <1>3, <1>6 DEF List, ListOf
  <2> QED BY <1>1, <1>4, <1>6, <2>1 DEF List, ListOf, Listing
<1> QED BY <1>2, <1>6, <1>7 DEF e

-----------------------------------------------------------------------------
(* The page's own list *)

LEMMA NobodyElse ==
  \A d \in Deferred : \A k \in Outs : UserList # <<d, k>>
BY ListIds

LEMMA UserListChanged ==
  ASSUME ListInv, Calm(Mine(page), joined, callbacks, state), Typed', page' = page,
         state' = state, joined' = joined, NEW e, List(e),
         e.options = callbacks[UserList].options, e.firing = callbacks[UserList].firing,
         \A p \in DOMAIN e.list :
           \E q \in DOMAIN callbacks[UserList].list : e.list[p] = callbacks[UserList].list[q],
         callbacks' = [callbacks EXCEPT ![UserList] = e],
         Frames(Mine(page), joined, stack'), Loops(callbacks, stack')
  PROVE  Onward
<1> DEFINE M == Mine(page)
<1>0. Lists(M, joined, callbacks)
  BY DEF ListInv, Arranged
<1> HIDE DEF M
<1>1. Lists(M, joined, callbacks')
  BY <1>0, ListIds, ListsSame
<1>a. callbacks \in [ListId -> Listing] /\ UserList \in ListId
  BY <1>0, ListIds DEF Lists
<1>2. Calm(M, joined, callbacks', state)
  BY <1>a, NobodyElse, CalmBut DEF M
<1>3. Keeps(M, callbacks, state, callbacks', state)
  BY <1>0, <1>a, NobodyElse, KeepsBut DEF M
<1>4. Loops(callbacks', stack')
  <2>1. \A l \in ListId : callbacks[l].firing => callbacks'[l].firing
    BY <1>a
  <2>2. \A i \in DOMAIN stack' : stack'[i].at = "loop" => stack'[i].l \in ListId
    BY FramesAre, FrameIs
  <2> QED BY <2>1, <2>2 DEF Loops
<1>5. Arranged(M, joined, callbacks', state, stack')
  BY <1>1, <1>2, <1>4, CalmEnough DEF Arranged, M
<1> QED BY <1>3, <1>5 DEF M, ListInv, Onward

LEMMA ApplyIs ==
  ASSUME NEW M, NEW J, NEW F, Frames(M, J, F), NEW l, NEW c, Apply(l, c, F)
  PROVE  /\ callbacks' = [callbacks EXCEPT ![l] = c]
         /\ stack' = Called(F, l, callbacks[l], c)
         /\ (c.firing => callbacks[l].firing) => stack' = F
<1>1. callbacks' = [callbacks EXCEPT ![l] = c] /\ stack' = F \o Start(l, c)
  BY DEF Apply
<1>2. F \o <<>> = F /\ \A f : F \o <<f>> = Append(F, f)
  BY FramesAre
<1> QED BY <1>1, <1>2 DEF Start, Called

LEMMA SeenSame ==
  ASSUME Typed, UNCHANGED seen
  PROVE  SeenIs(seen')
BY DEF Typed

LEMMA CallMethodGoes == ASSUME ListInv, CallMethod PROVE Onward
<1> DEFINE c == callbacks[UserList]
<1>1. /\ Running("code") /\ calls < page.calls /\ calls' = calls + 1
      /\ UNCHANGED <<fixed, inner, joined>>
      /\ \/ (\E f \in Function : Apply(UserList, Remove(c, User(f, 0)), stack)) /\ UNCHANGED seen
         \/ /\ Apply(UserList, Empty(c), stack)
            /\ seen' = [seen EXCEPT !.emptied = @ \/ c.firing]
         \/ Apply(UserList, Disable(c), stack) /\ UNCHANGED seen
         \/ Apply(UserList, Lock(c), stack) /\ UNCHANGED seen
  BY DEF CallMethod, May
<1>2. /\ Calm(Mine(page), joined, callbacks, state) /\ Typed
      /\ Lists(Mine(page), joined, callbacks)
      /\ Frames(Mine(page), joined, stack) /\ Loops(callbacks, stack)
  BY <1>1, RunsCode
<1>3. List(c)
  BY <1>2, ListIds DEF Lists
<1>4. SeenIs(seen')
  <2>1. UNCHANGED seen \/ seen' = [seen EXCEPT !.emptied = @ \/ c.firing]
    BY <1>1
  <2>2. SeenIs(seen)
    BY <1>2 DEF Typed
  <2> HIDE DEF c
  <2> QED BY <2>1, <2>2 DEF SeenIs, SeenField
<1>5. Typed' /\ CallsGo
  <2>1. Joined(Mine(page), joined') /\ CallsGo
    BY <1>1, <1>2 DEF Typed, CallsGo
  <2> QED BY <1>1, <1>2, <1>4, <2>1, TypedSame DEF fixed, inner
<1> HIDE DEF c
<1>6. ASSUME NEW e, List(e), e.options = c.options, e.firing = c.firing,
             \A p \in DOMAIN e.list : \E q \in DOMAIN c.list : e.list[p] = c.list[q],
             Apply(UserList, e, stack)
      PROVE  Onward
  <2>1. callbacks' = [callbacks EXCEPT ![UserList] = e] /\ stack' = stack
    BY <1>2, <1>6, ApplyIs DEF c
  <2> QED BY <1>1, <1>2, <1>5, <1>6, <2>1, UserListChanged DEF c, fixed, inner
<1>7. CASE \E f \in Function : Apply(UserList, Remove(c, User(f, 0)), stack)
  BY <1>3, <1>6, <1>7, RemoveIs
<1>8. CASE Apply(UserList, Empty(c), stack)
  <2> DEFINE e == Empty(c)
  <2>1. List(e) /\ e.options = c.options /\ e.firing = c.firing /\ e.list = <<>>
    BY <1>3, EmptyIs
  <2> HIDE DEF e
  <2>2. \A p \in DOMAIN e.list : \E q \in DOMAIN c.list : e.list[p] = c.list[q]
    BY <2>1
  <2> QED BY <1>6, <1>8, <2>1, <2>2 DEF e
<1>9. CASE Apply(UserList, Disable(c), stack)
  <2> DEFINE e == Disable(c)
  <2>1. List(e) /\ e.options = c.options /\ e.firing = c.firing /\ e.list = <<>>
    BY <1>3, DisableIs
  <2> HIDE DEF e
  <2>2. \A p \in DOMAIN e.list : \E q \in DOMAIN c.list : e.list[p] = c.list[q]
    BY <2>1
  <2> QED BY <1>6, <1>9, <2>1, <2>2 DEF e
<1>10. CASE Apply(UserList, Lock(c), stack)
  <2> DEFINE e == Lock(c)
  <2>1. List(e) /\ e.options = c.options /\ e.firing = c.firing
        /\ (e.list = <<>> \/ e.list = c.list)
    BY <1>3, LockIs
  <2> HIDE DEF e
  <2>2. \A p \in DOMAIN e.list : \E q \in DOMAIN c.list : e.list[p] = c.list[q]
    BY <2>1
  <2> QED BY <1>6, <1>10, <2>1, <2>2 DEF e
<1> QED BY <1>1, <1>7, <1>8, <1>9, <1>10

-----------------------------------------------------------------------------
(* What the code of the page calls *)

LEMMA AddStep ==
  ASSUME ListInv, Calm(Mine(page), joined, callbacks, state), Typed', page' = page,
         state' = state, joined' = joined,
         NEW F, Frames(Mine(page), joined, F), Loops(callbacks, F),
         NEW l \in ListId, NEW fn \in Entries,
         IF l = UserList THEN fn.do = "user" ELSE Late(Mine(page), joined, fn),
         Apply(l, Add(callbacks[l], fn), F)
  PROVE  Onward
<1> DEFINE M == Mine(page)
           c == Add(callbacks[l], fn)
<1>1. Lists(M, joined, callbacks)
  BY DEF ListInv, Arranged
<1> HIDE DEF M
<1>2. callbacks' = [callbacks EXCEPT ![l] = c] /\ stack' = Called(F, l, callbacks[l], c)
  BY ApplyIs DEF M
<1>3. /\ Arranged(M, joined, [callbacks EXCEPT ![l] = c], state, Called(F, l, callbacks[l], c))
      /\ Keeps(M, callbacks, state, [callbacks EXCEPT ![l] = c], state)
  BY <1>1, AddKeeps DEF M
<1> HIDE DEF c
<1> QED BY <1>2, <1>3 DEF M, ListInv, Onward

LEMMA UserIs ==
  ASSUME NEW f \in Function \cup {Nobody}, NEW n \in Nat
  PROVE  User(f, n) \in Entries /\ User(f, n).do = "user"
BY ListIds DEF User, Entries, Doing, Outs

\* One more add, of the functions that count.
LEMMA AddsCount ==
  ASSUME Typed, NEW l \in ListId
  PROVE  /\ seen.adds[l] + 1 \in Nat
         /\ SeenIs([seen EXCEPT !.adds[l] = seen.adds[l] + 1])
<1>1. DOMAIN seen = SeenField /\ seen.adds \in [ListId -> Nat]
  BY DEF Typed, SeenIs
<1> DEFINE s == [seen EXCEPT !.adds[l] = seen.adds[l] + 1]
<1>2. DOMAIN s = SeenField /\ s.adds = [seen.adds EXCEPT ![l] = seen.adds[l] + 1]
  BY <1>1 DEF SeenField
<1> HIDE DEF s
<1>3. seen.adds[l] + 1 \in Nat
  BY <1>1
<1>4. SeenIs(s)
  BY <1>1, <1>2, <1>3 DEF SeenIs
<1> QED BY <1>3, <1>4 DEF s

LEMMA CallAddGoes == ASSUME ListInv, CallAdd PROVE Onward
<1>1. /\ Running("code") /\ calls < page.calls /\ calls' = calls + 1
      /\ UNCHANGED <<fixed, inner, joined>>
  BY DEF CallAdd, May
<1>2. PICK l \in ListId, f \in Function :
        /\ Apply(l, Add(callbacks[l], User(f, seen.adds[l] + 1)), stack)
        /\ seen' = [seen EXCEPT !.adds[l] = seen.adds[l] + 1]
  BY DEF CallAdd
<1>3. /\ Calm(Mine(page), joined, callbacks, state) /\ Typed
      /\ Frames(Mine(page), joined, stack) /\ Loops(callbacks, stack)
  BY <1>1, RunsCode
<1> DEFINE n == seen.adds[l] + 1
           fn == User(f, n)
<1>4. n \in Nat /\ SeenIs(seen')
  BY <1>2, <1>3, AddsCount
<1> HIDE DEF n
<1>5. fn \in Entries /\ fn.do = "user"
  BY <1>4, UserIs
<1>6. Typed'
  <2>1. Joined(Mine(page), joined') /\ CallsGo
    BY <1>1, <1>3 DEF Typed, CallsGo
  <2> QED BY <1>1, <1>3, <1>4, <2>1, TypedSame DEF fixed, inner
<1>7. Apply(l, Add(callbacks[l], fn), stack)
  BY <1>2 DEF n
<1> HIDE DEF fn
<1>8. Late(Mine(page), joined, fn)
  BY <1>5 DEF Late
<1> QED BY <1>1, <1>3, <1>5, <1>6, <1>7, <1>8, AddStep DEF fixed, inner

LEMMA TodoIs ==
  ASSUME NEW s \in Seq(Todos), s # <<>>
  PROVE  /\ Head(s) = s[1] /\ 1 \in DOMAIN s
         /\ Head(s)[1] \in ListId /\ Head(s)[1] # UserList /\ Head(s)[2] \in Entries
         /\ Tail(s) \in Seq(Todos)
         /\ \A p \in DOMAIN Tail(s) : p + 1 \in DOMAIN s /\ Tail(s)[p] = s[p + 1]
<1>1. Head(s) = s[1] /\ 1 \in DOMAIN s /\ Head(s) \in Todos
  OBVIOUS
<1>2. Head(s)[1] \in Deferred \X Kind /\ Head(s)[2] \in Entries
  BY <1>1 DEF Todos
<1>3. Head(s)[1] \in ListId /\ Head(s)[1] # UserList
  BY <1>2, ListIds DEF ListId
<1>4. Tail(s) \in Seq(Todos) /\ \A p \in DOMAIN Tail(s) : p + 1 \in DOMAIN s /\ Tail(s)[p] = s[p + 1]
  OBVIOUS
<1> QED BY <1>1, <1>2, <1>3, <1>4

LEMMA AddNextGoes == ASSUME ListInv, AddNext PROVE Onward
<1> DEFINE M == Mine(page)
           t == Top.todo
           l == Head(t)[1]
           fn == Head(t)[2]
           F == IF Tail(t) = <<>> THEN Callers ELSE Become(Adds(Tail(t)))
<1>1. /\ Running("adds") /\ Apply(l, Add(callbacks[l], fn), F)
      /\ UNCHANGED <<fixed, inner, calls, joined, seen>>
  BY DEF AddNext
<1>2. stack # <<>> /\ Top.at = "adds"
  BY <1>1, RunsWhat
<1>3. /\ Calm(M, joined, callbacks, state) /\ Frame(M, joined, Top)
      /\ Frames(M, joined, Callers) /\ Loops(callbacks, Callers)
      /\ \A f : Frame(M, joined, f) /\ f.at # "loop" =>
           Frames(M, joined, Become(f)) /\ Loops(callbacks, Become(f))
  BY <1>2, InsideCalls
<1> HIDE DEF M
<1>4. t \in Seq(Todos) /\ t # <<>> /\ \A p \in DOMAIN t : Late(M, joined, t[p][2])
  BY <1>2, <1>3, FrameIs
<1> HIDE DEF t
<1>5. /\ l \in ListId /\ l # UserList /\ fn \in Entries
      /\ Head(t) = t[1] /\ 1 \in DOMAIN t
      /\ Tail(t) \in Seq(Todos)
      /\ \A p \in DOMAIN Tail(t) : p + 1 \in DOMAIN t /\ Tail(t)[p] = t[p + 1]
  BY <1>4, TodoIs
<1>6. Late(M, joined, fn)
  BY <1>4, <1>5
<1>7. Frames(M, joined, F) /\ Loops(callbacks, F)
  <2>1. CASE Tail(t) = <<>>
    BY <1>3, <2>1
  <2>2. CASE Tail(t) # <<>>
    <3> DEFINE s == Tail(t)
    <3>1. \A p \in DOMAIN s : Late(M, joined, s[p][2])
      BY <1>4, <1>5
    <3>2. s \in Seq(Todos) /\ s # <<>>
      BY <1>5, <2>2
    <3> HIDE DEF s
    <3>3. Frame(M, joined, Adds(s)) /\ Adds(s).at # "loop"
      BY <3>1, <3>2 DEF Frame, Adds
    <3> QED BY <1>3, <2>2, <3>3 DEF s
  <2> QED BY <2>1, <2>2
<1>8. Typed'
  <2>1. Typed /\ Joined(M, joined') /\ SeenIs(seen') /\ CallsGo
    BY <1>1 DEF ListInv, Typed, M, CallsGo
  <2> QED BY <1>1, <2>1, TypedSame DEF M, fixed, inner
<1> HIDE DEF l, fn, F
<1> QED BY <1>1, <1>3, <1>5, <1>6, <1>7, <1>8, AddStep DEF M, fixed, inner

LEMMA RootsAre ==
  ASSUME Typed
  PROVE  /\ \A d \in 1..page.roots : d \in Deferred
         /\ page.has # "ready" => Mine(page) = Deferred
<1>1. page.roots \in 0..page.makes /\ page.makes \in 0..MaxDeferred /\ MaxDeferred \in Nat
  BY DeferredAssumption DEF Typed
<1>2. \A d \in 1..page.roots : d \in Deferred
  BY <1>1 DEF Deferred
<1>3. page.has # "ready" => Mine(page) = Deferred
  BY DEF Mine
<1> QED BY <1>2, <1>3

LEMMA CallFireGoes == ASSUME ListInv, CallFire PROVE Onward
<1>1. /\ Running("code") /\ calls < page.calls /\ calls' = calls + 1 /\ page.has # "ready"
      /\ UNCHANGED <<fixed, inner, joined, seen>>
  BY DEF CallFire, May
<1>2. PICK l \in ListId : \E v \in {Data(calls')} \cup {PromiseOf(d) : d \in Knowns(l[1])} :
         /\ IF page.has = "list" THEN l = UserList ELSE l[1] \in 1..page.roots
         /\ Apply(l, FireWith(callbacks[l], v), stack)
  BY DEF CallFire
<1>3. PICK v \in {Data(calls')} \cup {PromiseOf(d) : d \in Knowns(l[1])} :
         /\ IF page.has = "list" THEN l = UserList ELSE l[1] \in 1..page.roots
         /\ Apply(l, FireWith(callbacks[l], v), stack)
  BY <1>2
<1>4. /\ Calm(Mine(page), joined, callbacks, state) /\ Typed
      /\ Frames(Mine(page), joined, stack) /\ Loops(callbacks, stack)
  BY <1>1, RunsCode
<1>5. l[1] \in Mine(page) \/ l = UserList
  BY <1>1, <1>3, <1>4, RootsAre
<1>6. v \in Value
  <2>1. CASE v = Data(calls')
    <3>1. calls' \in 1..page.calls
      BY <1>1, <1>4, DataIsValue
    <3> QED BY <1>4, <2>1, <3>1, DataIsValue
  <2>2. ASSUME NEW d \in Knowns(l[1]), v = PromiseOf(d) PROVE v \in Value
    <3>1. l[1] \in 1..page.roots /\ d \in (1..page.roots) \cup {joined.answer} /\ d > l[1]
      BY <1>3 DEF Knowns
    <3>2. joined.answer \in Deferred \cup {Nobody} /\ \A e \in 1..page.roots : e \in Deferred
      BY <1>4, RootsAre DEF Typed, Joined
    <3>3. d \in Deferred
      BY <3>1, <3>2 DEF Nobody
    <3> QED BY <1>4, <2>2, <3>3, DataIsValue
  <2> QED BY <2>1, <2>2
<1>7. Typed'
  <2>1. Joined(Mine(page), joined') /\ SeenIs(seen') /\ CallsGo
    BY <1>1, <1>4 DEF Typed, CallsGo
  <2> QED BY <1>1, <1>4, <2>1, TypedSame DEF fixed, inner
<1>8. Fire(l, v, callbacks, stack)
  BY <1>3, ApplyFires
<1> QED BY <1>1, <1>4, <1>5, <1>6, <1>7, <1>8, FireStep, SameJoin DEF fixed, inner, Onward

\* A deferred is made.
LEMMA BornIs ==
  ASSUME Typed, NEW d \in Deferred, state[d] = "unborn",
         NEW R, R = [state EXCEPT ![d] = "pending"]
  PROVE  /\ R \in [Deferred -> {"unborn", "pending", "resolved", "rejected"}]
         /\ \A e \in Deferred : R[e] = state[e] \/ (Open(state, e) /\ Open(R, e))
         /\ page.has = "ready" => R[1] # "unborn"
BY DEF Typed, Open

LEMMA TwoAdds ==
  ASSUME NEW M, NEW J, NEW a \in Deferred \X Kind, NEW b \in Deferred \X Kind,
         NEW f \in Entries, Late(M, J, f), NEW g \in Entries, Late(M, J, g)
  PROVE  /\ Frame(M, J, Adds(<<<<a, f>>, <<b, g>>>>))
         /\ Adds(<<<<a, f>>, <<b, g>>>>).at # "loop"
<1> DEFINE x == <<a, f>>
           y == <<b, g>>
<1>1. x \in Todos /\ y \in Todos /\ x[2] = f /\ y[2] = g
  BY DEF Todos
<1> HIDE DEF x, y
<1> DEFINE s == <<x, y>>
<1>2. s \in Seq(Todos) /\ s # <<>> /\ \A p \in DOMAIN s : s[p] \in {x, y}
  BY <1>1
<1> HIDE DEF s
<1>3. Frame(M, J, Adds(s)) /\ Adds(s).at # "loop"
  BY <1>1, <1>2 DEF Frame, Adds
<1> QED BY <1>3 DEF s, x, y

LEMMA ThreeAdds ==
  ASSUME NEW M, NEW J, NEW a \in Deferred \X Kind, NEW b \in Deferred \X Kind,
         NEW c \in Deferred \X Kind,
         NEW f \in Entries, Late(M, J, f), NEW g \in Entries, Late(M, J, g),
         NEW h \in Entries, Late(M, J, h)
  PROVE  /\ Frame(M, J, Adds(<<<<a, f>>, <<b, g>>, <<c, h>>>>))
         /\ Adds(<<<<a, f>>, <<b, g>>, <<c, h>>>>).at # "loop"
<1> DEFINE x == <<a, f>>
           y == <<b, g>>
           z == <<c, h>>
<1>1. x \in Todos /\ y \in Todos /\ z \in Todos /\ x[2] = f /\ y[2] = g /\ z[2] = h
  BY DEF Todos
<1> HIDE DEF x, y, z
<1> DEFINE s == <<x, y, z>>
<1>2. s \in Seq(Todos) /\ s # <<>> /\ \A p \in DOMAIN s : s[p] \in {x, y, z}
  BY <1>1
<1> HIDE DEF s
<1>3. Frame(M, J, Adds(s)) /\ Adds(s).at # "loop"
  BY <1>1, <1>2 DEF Frame, Adds
<1> QED BY <1>3 DEF s, x, y, z

LEMMA CallAlwaysGoes == ASSUME ListInv, CallAlways PROVE Onward
<1> DEFINE A1(d) == <<d, "resolve">>
           A2(d) == <<d, "reject">>
           U(d, k) == User(Nobody, seen'.adds[<<d, k>>])
<1>1. /\ Running("code") /\ calls < page.calls /\ calls' = calls + 1
      /\ UNCHANGED <<fixed, inner, callbacks, joined>>
  BY DEF CallAlways, May
<1>2. PICK d \in Born :
        /\ seen' = [seen EXCEPT !.adds[A1(d)] = @ + 1, !.adds[A2(d)] = @ + 1]
        /\ stack' = Append(stack, Adds(<<<<A1(d), U(d, "resolve")>>, <<A2(d), U(d, "reject")>>>>))
  BY DEF CallAlways
<1>3. /\ Calm(Mine(page), joined, callbacks, state) /\ Typed
      /\ \A f : Frame(Mine(page), joined, f) /\ f.at # "loop" =>
           Frames(Mine(page), joined, Append(stack, f)) /\ Loops(callbacks, Append(stack, f))
  BY <1>1, RunsCode
<1>4. d \in Deferred /\ A1(d) \in ListId /\ A2(d) \in ListId
      /\ A1(d) \in Deferred \X Kind /\ A2(d) \in Deferred \X Kind
  BY ListIds DEF Born, Kind
<1> DEFINE a == A1(d)
           b == A2(d)
<1>5. SeenIs(seen')
  <2>1. DOMAIN seen = SeenField /\ seen.adds \in [ListId -> Nat]
    BY <1>3 DEF Typed, SeenIs
  <2>2. seen' = [seen EXCEPT !.adds[a] = @ + 1, !.adds[b] = @ + 1] /\ a \in ListId /\ b \in ListId
    BY <1>2, <1>4
  <2> HIDE DEF a, b
  <2>3. /\ DOMAIN seen' = SeenField
        /\ seen'.adds = [[seen.adds EXCEPT ![a] = @ + 1] EXCEPT ![b] = @ + 1]
    BY <2>1, <2>2 DEF SeenField
  <2>4. [seen.adds EXCEPT ![a] = @ + 1] \in [ListId -> Nat]
    BY <2>1, <2>2
  <2>5. seen'.adds \in [ListId -> Nat]
    BY <2>2, <2>3, <2>4
  <2> QED BY <2>3, <2>5 DEF SeenIs
<1>6. \A k \in {"resolve", "reject"} : U(d, k) \in Entries /\ Late(Mine(page), joined, U(d, k))
  <2>1. \A k \in {"resolve", "reject"} : seen'.adds[<<d, k>>] \in Nat
    BY <1>4, <1>5 DEF SeenIs
  <2>2. \A n \in Nat : User(Nobody, n) \in Entries /\ User(Nobody, n).do = "user"
    BY UserIs
  <2> QED BY <2>1, <2>2 DEF Late
<1> DEFINE F == Adds(<<<<a, U(d, "resolve")>>, <<b, U(d, "reject")>>>>)
<1>7. Frame(Mine(page), joined, F) /\ F.at # "loop"
  <2> DEFINE u == U(d, "resolve")
             w == U(d, "reject")
  <2>1. u \in Entries /\ w \in Entries /\ Late(Mine(page), joined, u) /\ Late(Mine(page), joined, w)
        /\ a \in Deferred \X Kind /\ b \in Deferred \X Kind
    BY <1>4, <1>6
  <2> HIDE DEF u, w, a, b
  <2>2. Frame(Mine(page), joined, Adds(<<<<a, u>>, <<b, w>>>>)) /\ Adds(<<<<a, u>>, <<b, w>>>>).at # "loop"
    BY <2>1, TwoAdds
  <2> QED BY <2>2 DEF u, w
<1>8. stack' = Append(stack, F)
  BY <1>2
<1> HIDE DEF F
<1>9. Frames(Mine(page), joined, stack') /\ Loops(callbacks, stack')
  BY <1>3, <1>7, <1>8
<1> QED BY <1>1, <1>3, <1>5, <1>9, StackOnly DEF fixed, CallsGo

LEMMA CallThenGoes == ASSUME ListInv, CallThen PROVE Onward
<1> DEFINE M == Mine(page)
           On(hd, hf) == [resolve |-> hd, reject |-> hf,
                          notify |-> IF page.has = "progress" THEN Script ELSE Identity]
<1>1. /\ Running("code") /\ calls < page.calls /\ calls' = calls + 1 /\ page.has # "ready"
      /\ Cardinality(Born) < page.makes
      /\ state' = [state EXCEPT ![Fresh] = "pending"]
      /\ UNCHANGED <<fixed, callbacks, stack, joined>>
  BY DEF CallThen, May
<1>2. PICK e \in Born, hd \in {Identity, Script}, hf \in {Thrower, Script} :
        Then(e, On(hd, hf), Fresh) /\ seen' = [seen EXCEPT !.thens[e] = Append(@, Fresh)]
  BY DEF CallThen
<1>3. /\ Calm(M, joined, callbacks, state) /\ Typed
      /\ Frames(M, joined, stack) /\ Loops(callbacks, stack)
  BY <1>1, RunsCode
<1>4. Fresh \in Deferred /\ state[Fresh] = "unborn" /\ M = Deferred
  BY <1>1, <1>3, SomeUnborn, FreshIs, RootsAre
<1>5. /\ state' \in [Deferred -> {"unborn", "pending", "resolved", "rejected"}]
      /\ \A d \in Deferred : state'[d] = state[d] \/ (Open(state, d) /\ Open(state', d))
      /\ page.has = "ready" => state'[1] # "unborn"
  BY <1>1, <1>3, <1>4, BornIs
<1> DEFINE on == On(hd, hf)
<1>6. \A k \in Kind : on[k] \in Nested(M)
  <2>1. \A k \in Kind : on[k] \in {Identity, Thrower, Script}
    BY DEF Kind
  <2> HIDE DEF on
  <2> QED BY <2>1, HandlersAre
<1>7. Then(e, on, Fresh) /\ e \in Deferred /\ Fresh \in M \cup {Nobody}
  BY <1>2, <1>4 DEF Born
<1> HIDE DEF on, M
<1>8. /\ DOMAIN handlers' = ListId
      /\ \A l \in ListId : Handling(M, l[2], handlers'[l])
      /\ Tasks(M, tasks')
      /\ \A i \in DOMAIN tasks' : tasks'[i].do = "ready" => page.has = "ready"
  BY <1>3, <1>6, <1>7, ThenTyped DEF M
<1>9. SeenIs(seen')
  <2>1. SeenIs(seen)
    BY <1>3 DEF Typed
  <2> QED BY <1>2, <2>1 DEF SeenIs, SeenField
<1>10. Typed'
  <2>1. /\ Joined(M, joined') /\ CallsGo /\ maxDepth' \in [Deferred -> Nat] /\ held' \subseteq Plainly(M)
    BY <1>1, <1>3 DEF Typed, CallsGo, fixed, M
  <2> QED BY <1>1, <1>3, <1>5, <1>8, <1>9, <2>1, TypedStep DEF fixed, M
<1> QED BY <1>1, <1>3, <1>5, <1>10, QuietStep, SameJoin DEF fixed, M

LEMMA EntryIs ==
  ASSUME NEW do \in {"settle", "pipe", "update"}, NEW d \in Deferred, NEW k \in Kind
  PROVE  /\ Entry(do, d, k) \in Entries /\ Entry(do, d, k).do = do /\ Entry(do, d, k).d = d
         /\ Entry(do, d, k).k = k
BY DEF Entry, Entries, Doing, Nobody

LEMMA CallPipeGoes == ASSUME ListInv, CallPipe PROVE Onward
<1> DEFINE M == Mine(page)
           E(fns, k) == Entry(IF k \in fns THEN "pipe" ELSE "settle", Fresh, k)
<1>1. /\ Running("code") /\ calls < page.calls /\ calls' = calls + 1 /\ page.has # "ready"
      /\ Cardinality(Born) < page.makes
      /\ state' = [state EXCEPT ![Fresh] = "pending"]
      /\ UNCHANGED <<fixed, callbacks, handlers, tasks, joined, seen>>
  BY DEF CallPipe, May
<1>2. PICK e \in Born, fns \in (SUBSET {"resolve", "reject"}) \ {{}} :
        stack' = Append(stack, Adds(<<<<<<e, "notify">>, E(fns, "notify")>>,
                                      <<<<e, "resolve">>, E(fns, "resolve")>>,
                                      <<<<e, "reject">>, E(fns, "reject")>>>>))
  BY DEF CallPipe
<1>3. /\ Calm(M, joined, callbacks, state) /\ Typed
      /\ \A f : Frame(M, joined, f) /\ f.at # "loop" =>
           Frames(M, joined, Append(stack, f)) /\ Loops(callbacks, Append(stack, f))
  BY <1>1, RunsCode
<1>4. Fresh \in Deferred /\ state[Fresh] = "unborn" /\ M = Deferred
  BY <1>1, <1>3, SomeUnborn, FreshIs, RootsAre
<1>5. /\ state' \in [Deferred -> {"unborn", "pending", "resolved", "rejected"}]
      /\ \A d \in Deferred : state'[d] = state[d] \/ (Open(state, d) /\ Open(state', d))
      /\ page.has = "ready" => state'[1] # "unborn"
  BY <1>1, <1>3, <1>4, BornIs
<1> HIDE DEF M
<1>6. \A k \in Kind : E(fns, k) \in Entries /\ Late(M, joined, E(fns, k))
  <2> TAKE k \in Kind
  <2> DEFINE do == IF k \in fns THEN "pipe" ELSE "settle"
  <2>1. do \in {"settle", "pipe"}
    OBVIOUS
  <2> HIDE DEF do
  <2>3. Entry(do, Fresh, k) \in Entries /\ Entry(do, Fresh, k).do = do /\ Entry(do, Fresh, k).d = Fresh
    BY <1>4, <2>1, EntryIs
  <2>4. Late(M, joined, Entry(do, Fresh, k))
    BY <1>4, <2>1, <2>3 DEF Late
  <2> QED BY <2>3, <2>4 DEF do
<1> DEFINE a == E(fns, "notify")
           b == E(fns, "resolve")
           c == E(fns, "reject")
           x == <<e, "notify">>
           y == <<e, "resolve">>
           z == <<e, "reject">>
           F == Adds(<<<<x, a>>, <<y, b>>, <<z, c>>>>)
<1>7. stack' = Append(stack, F)
  BY <1>2
<1>8. Frame(M, joined, F) /\ F.at # "loop"
  <2>1. /\ a \in Entries /\ Late(M, joined, a) /\ b \in Entries /\ Late(M, joined, b)
        /\ c \in Entries /\ Late(M, joined, c)
    BY <1>6 DEF Kind
  <2>2. x \in Deferred \X Kind /\ y \in Deferred \X Kind /\ z \in Deferred \X Kind
    BY DEF Born, Kind
  <2> HIDE DEF a, b, c, x, y, z
  <2> QED BY <2>1, <2>2, ThreeAdds
<1> HIDE DEF F
<1>9. Frames(M, joined, stack') /\ Loops(callbacks, stack')
  BY <1>3, <1>7, <1>8
<1>10. Typed'
  <2>1. /\ Joined(M, joined') /\ CallsGo /\ maxDepth' \in [Deferred -> Nat] /\ held' \subseteq Plainly(M)
        /\ DOMAIN handlers' = ListId /\ \A l \in ListId : Handling(M, l[2], handlers'[l])
        /\ Tasks(M, tasks') /\ SeenIs(seen')
        /\ \A i \in DOMAIN tasks' : tasks'[i].do = "ready" => page.has = "ready"
    BY <1>1, <1>3 DEF Typed, CallsGo, fixed, M
  <2> QED BY <1>1, <1>3, <1>5, <2>1, TypedStep DEF fixed, M
<1> QED BY <1>1, <1>3, <1>5, <1>9, <1>10, QuietStep, SameJoin DEF fixed, M

LEMMA CallHeldGoes == ASSUME ListInv, CallHeld PROVE Onward
<1> DEFINE M == Mine(page)
<1>1. /\ Running("code") /\ calls < page.calls /\ calls' = calls + 1
      /\ UNCHANGED <<fixed, inner, callbacks, joined>>
  BY DEF CallHeld, May
<1>2. PICK fn \in held, v \in {Data(calls')} \cup {PromiseOf(d) : d \in Born} :
        /\ stack' = Append(stack, Process(fn, v))
        /\ seen' = seen \/ \E x : seen' = [seen EXCEPT !.follow[fn.d] = x]
  BY DEF CallHeld
<1>3. /\ Calm(M, joined, callbacks, state) /\ Typed
      /\ \A f : Frame(M, joined, f) /\ f.at # "loop" =>
           Frames(M, joined, Append(stack, f)) /\ Loops(callbacks, Append(stack, f))
  BY <1>1, RunsCode
<1> HIDE DEF M
<1>4. v \in Value
  <2>1. CASE v = Data(calls')
    <3>1. calls' \in 1..page.calls
      BY <1>1, <1>3, DataIsValue
    <3> QED BY <1>3, <2>1, <3>1, DataIsValue
  <2>2. CASE v \in {PromiseOf(d) : d \in Born}
    BY <1>3, <2>2, DataIsValue DEF Born
  <2> QED BY <2>1, <2>2
<1>5. fn \in Fn(M)
  BY <1>3, HandlersAre DEF Typed, M
<1>6. Frame(M, joined, Process(fn, v)) /\ Process(fn, v).at # "loop"
  <2>1. Process(fn, v) \in Processes(M)
    BY <1>4, <1>5 DEF Process, Processes, ProcessStep
  <2> QED BY <2>1, ProcessIs
<1>7. SeenIs(seen')
  <2>1. SeenIs(seen)
    BY <1>3 DEF Typed
  <2> QED BY <1>2, <2>1 DEF SeenIs, SeenField
<1> QED BY <1>1, <1>2, <1>3, <1>6, <1>7, StackOnly DEF fixed, CallsGo, M

-----------------------------------------------------------------------------
(* Loops, timers and ready *)

LEMMA EndLoopGoes == ASSUME ListInv, EndLoop PROVE Onward
<1> DEFINE M == Mine(page)
           l == Top.l
           c == callbacks[l]
<1>1. /\ Running("loop") /\ ~Pending(c)
      /\ IF c.queue # <<>>
         THEN callbacks' = [callbacks EXCEPT ![l] = NextValue(c)] /\ stack' = stack
         ELSE callbacks' = [callbacks EXCEPT ![l] = Finish(c)] /\ stack' = Callers
      /\ UNCHANGED <<fixed, inner, calls, joined, seen>>
  BY DEF EndLoop
<1>2. /\ Lists(M, joined, callbacks) /\ Outcomes(M, joined, callbacks, state, stack)
      /\ Loops(callbacks, stack) /\ Frames(M, joined, stack)
  BY DEF ListInv, Arranged
<1> HIDE DEF M
<1>3. stack # <<>> /\ Top.at = "loop"
  BY <1>1, RunsWhat
<1>4. l \in ListId /\ OnTop(stack, Loop(l))
  BY <1>2, <1>3, FramesAre, FrameIs DEF Top, OnTop
<1>5. Calm(M, joined, callbacks, state)
  <2>1. \A d \in Deferred : \A k \in Outs : ~Deciding(M, joined, callbacks, state, stack, d, k)
    <3>1. SUFFICES ASSUME NEW d \in Deferred, NEW k \in Outs,
                          Deciding(M, joined, callbacks, state, stack, d, k)
                   PROVE  FALSE
      OBVIOUS
    <3>2. OnTop(stack, Loop(<<d, k>>)) /\ callbacks[<<d, k>>].index \in 0..3
          /\ Len(callbacks[<<d, k>>].list) >= 4
      BY <3>1 DEF Deciding, First, Starts
    <3>3. l = <<d, k>>
      BY <1>4, <3>2 DEF OnTop, Loop
    <3> HIDE DEF l
    <3>4. Len(callbacks[<<d, k>>].list) \in Nat
      <4>1. callbacks[<<d, k>>] \in Listing
        BY <1>2, <1>4, <3>3 DEF Lists
      <4> QED BY <4>1 DEF Listing, ListingOf
    <3> QED BY <1>1, <3>2, <3>3, <3>4 DEF Pending
  <2> QED BY <1>2, <2>1 DEF Outcomes, Calm
<1> HIDE DEF l
<1>6. PICK e : callbacks' = [callbacks EXCEPT ![l] = e]
               /\ IF c.queue # <<>> THEN e = NextValue(c) /\ stack' = stack
                  ELSE e = Finish(c) /\ stack' = SubSeq(stack, 1, Len(stack) - 1)
  BY <1>1 DEF Callers
<1>7. /\ Arranged(M, joined, [callbacks EXCEPT ![l] = e], state, stack')
      /\ Keeps(M, callbacks, state, [callbacks EXCEPT ![l] = e], state)
  BY <1>1, <1>2, <1>4, <1>5, <1>6, EndKeeps
<1>8. Typed'
  <2>1. Typed /\ Joined(M, joined') /\ SeenIs(seen') /\ CallsGo
    BY <1>1 DEF ListInv, Typed, M, CallsGo
  <2> QED BY <1>1, <2>1, TypedSame DEF M, fixed, inner
<1> QED BY <1>1, <1>6, <1>7, <1>8 DEF M, ListInv, Onward, fixed, inner

LEMMA RunProcessGoes == ASSUME ListInv, RunProcess PROVE Onward
<1> DEFINE M == Mine(page)
           t == Head(tasks)
<1>1. /\ stack = <<>> /\ tasks # <<>> /\ t.do = "process" /\ tasks' = Tail(tasks)
      /\ stack' = <<Process(t.fn, t.v)>>
      /\ \/ seen' = seen
         \/ \E x : seen' = [seen EXCEPT !.ran[t.of] = x]
      /\ UNCHANGED <<fixed, calls, callbacks, handlers, state, joined>>
  BY DEF RunProcess
<1>2. Typed
  BY DEF ListInv
<1>3. /\ Calm(M, joined, callbacks, state)
      /\ \A f : Frame(M, joined, f) /\ f.at # "loop" =>
              Frames(M, joined, <<f>>) /\ Loops(callbacks, <<f>>)
  BY <1>1, OutsideCalls
<1> HIDE DEF M
<1>4. /\ Tasks(M, Tail(tasks)) /\ t = tasks[1] /\ 1 \in 1..Len(tasks) /\ Task(M, t)
      /\ DOMAIN tasks = 1..Len(tasks) /\ Len(tasks) \in Nat
      /\ Len(Tail(tasks)) = Len(tasks) - 1
      /\ \A i \in 1..(Len(tasks) - 1) : Tail(tasks)[i] = tasks[i + 1]
  <2>1. Tasks(M, tasks)
    BY <1>2 DEF Typed, M
  <2>2. \A i \in 1..Len(tasks) : Task(M, tasks[i])
    BY <2>1, TasksAre
  <2> QED BY <1>1, <2>1, <2>2, TasksAre
<1> HIDE DEF t
<1>5. t.fn \in Fn(M) /\ t.v \in Value
  <2>1. t # [do |-> "ready"]
    BY <1>1
  <2> QED BY <1>4, <2>1 DEF Task
<1>6. Frames(M, joined, stack') /\ Loops(callbacks, stack')
  <2>1. Process(t.fn, t.v) \in Processes(M)
    BY <1>5 DEF Process, Processes, ProcessStep
  <2>2. Frame(M, joined, Process(t.fn, t.v)) /\ Process(t.fn, t.v).at # "loop"
    BY <2>1, ProcessIs
  <2> QED BY <1>1, <1>3, <2>2
<1>7. SeenIs(seen')
  <2>1. SeenIs(seen)
    BY <1>2 DEF Typed
  <2> QED BY <1>1, <2>1 DEF SeenIs, SeenField
<1>8. \A i \in DOMAIN tasks' : tasks'[i].do = "ready" => page.has = "ready"
  <2>1. DOMAIN tasks' = 1..(Len(tasks) - 1)
    <3>1. Tasks(M, tasks')
      BY <1>1, <1>4
    <3> QED BY <1>1, <1>4, <3>1, TasksAre
  <2>2. \A i \in DOMAIN tasks : tasks[i].do = "ready" => page.has = "ready"
    BY <1>2 DEF Typed
  <2>3. ASSUME NEW i \in DOMAIN tasks' PROVE tasks'[i] = tasks[i + 1] /\ i + 1 \in DOMAIN tasks
    <3>1. i \in 1..(Len(tasks) - 1) /\ i + 1 \in 1..Len(tasks)
      BY <1>4, <2>1
    <3> QED BY <1>1, <1>4, <3>1
  <2> QED BY <2>2, <2>3
<1>9. Typed'
  <2>1. /\ Joined(M, joined') /\ CallsGo /\ maxDepth' \in [Deferred -> Nat] /\ held' \subseteq Plainly(M)
        /\ DOMAIN handlers' = ListId /\ \A l \in ListId : Handling(M, l[2], handlers'[l])
        /\ Tasks(M, tasks')
        /\ page.has = "ready" => state'[1] # "unborn"
        /\ state' \in [Deferred -> {"unborn", "pending", "resolved", "rejected"}]
    BY <1>1, <1>2, <1>4 DEF Typed, CallsGo, fixed, M
  <2> QED BY <1>1, <1>2, <1>7, <1>8, <2>1, TypedStep DEF fixed, M
<1> QED BY <1>1, <1>3, <1>6, <1>9, QuietStep, SameJoin DEF fixed, M

\* Readiness that is fulfilled settles the first deferred, which is not Mine.
Advanced == ListInv' /\ Keeps(Deferred, callbacks, state, callbacks', state')

LEMMA OnwardIs == ASSUME Onward PROVE Advanced
BY MineIs DEF Onward, Advanced, Keeps

LEMMA ResolveReadyGoes ==
  ASSUME ListInv, Calm(Mine(page), joined, callbacks, state), Typed', page' = page,
         page.has = "ready", state' = state, joined' = joined,
         NEW F, Frames(Mine(page), joined, F), Loops(callbacks, F), ResolveReady(F)
  PROVE  Advanced
<1> DEFINE l == <<1, "resolve">>
<1>1. 1 \in Deferred /\ "resolve" \in Kind /\ Typed
  BY DEF ListInv, Typed, Kind
<1>2. l \in ListId /\ l[1] \in Deferred
  BY <1>1, ListIds
<1>3. Undefined \in Value
  BY <1>1, DataIsValue
<1>4. Fire(l, Undefined, callbacks, F)
  BY ApplyFires DEF ResolveReady
<1> HIDE DEF l
<1> QED BY <1>2, <1>3, <1>4, FireStep, SameJoin DEF Advanced

LEMMA ReadyGoes ==
  ASSUME ListInv, stack = <<>>, page.has = "ready", Typed', page' = page,
         state' = state, joined' = joined, NEW r, Ready(r)
  PROVE  Advanced
<1>1. /\ Calm(Mine(page), joined, callbacks, state)
      /\ Frames(Mine(page), joined, <<>>) /\ Loops(callbacks, <<>>)
  BY OutsideCalls
<1>2. CASE UNCHANGED callbacks /\ stack' = <<>>
  BY <1>1, <1>2, QuietStep, SameJoin, OnwardIs
<1>3. CASE ResolveReady(<<>>)
  BY <1>1, <1>3, ResolveReadyGoes
<1> QED BY <1>2, <1>3 DEF Ready

LEMMA CallHoldGoes == ASSUME ListInv, CallHold PROVE Advanced
<1>1. /\ Running("code") /\ calls < page.calls /\ calls' = calls + 1 /\ page.has = "ready"
      /\ UNCHANGED <<inner, page, maxDepth, held, joined, seen>>
      /\ UNCHANGED <<callbacks, stack>> \/ ResolveReady(stack)
  BY DEF CallHold, May
<1>2. /\ Calm(Mine(page), joined, callbacks, state) /\ Typed
      /\ Frames(Mine(page), joined, stack) /\ Loops(callbacks, stack)
  BY <1>1, RunsCode
<1>3. Typed'
  <2>1. Joined(Mine(page), joined') /\ SeenIs(seen') /\ CallsGo
    BY <1>1, <1>2 DEF Typed, CallsGo
  <2> QED BY <1>1, <1>2, <2>1, TypedSame DEF inner
<1>4. CASE UNCHANGED <<callbacks, stack>>
  BY <1>1, <1>2, <1>3, <1>4, QuietStep, SameJoin, OnwardIs DEF inner
<1>5. CASE ResolveReady(stack)
  BY <1>1, <1>2, <1>3, <1>5, ResolveReadyGoes DEF inner
<1> QED BY <1>1, <1>4, <1>5

LEMMA DocumentEventGoes == ASSUME ListInv, DocumentEvent PROVE Advanced
<1>1. /\ stack = <<>> /\ page.has = "ready"
      /\ UNCHANGED <<inner, page, calls, maxDepth, held, joined, seen>>
      /\ UNCHANGED <<callbacks, stack>> \/ \E r : Ready(r)
  BY DEF DocumentEvent
<1>2. Typed'
  <2>1. Typed /\ Joined(Mine(page), joined') /\ SeenIs(seen') /\ CallsGo
    BY <1>1 DEF ListInv, Typed, CallsGo
  <2> QED BY <1>1, <2>1, TypedSame DEF inner
<1>3. CASE UNCHANGED <<callbacks, stack>>
  <2>1. /\ Calm(Mine(page), joined, callbacks, state)
        /\ Frames(Mine(page), joined, stack') /\ Loops(callbacks, stack')
    BY <1>1, <1>3, OutsideCalls
  <2> QED BY <1>1, <1>2, <1>3, <2>1, QuietStep, SameJoin, OnwardIs DEF inner
<1>4. CASE \E r : Ready(r)
  BY <1>1, <1>2, <1>4, ReadyGoes DEF inner
<1> QED BY <1>1, <1>3, <1>4

LEMMA RunReadyGoes == ASSUME ListInv, RunReady PROVE Advanced
<1> DEFINE M == Mine(page)
           t == Head(tasks)
<1>1. /\ stack = <<>> /\ tasks # <<>> /\ t.do = "ready" /\ tasks' = Tail(tasks)
      /\ Ready(readiness)
      /\ UNCHANGED <<page, calls, handlers, state, maxDepth, held, joined, seen>>
  BY DEF RunReady
<1>2. Typed
  BY DEF ListInv
<1> HIDE DEF M
<1>4. /\ Tasks(M, Tail(tasks)) /\ t = tasks[1] /\ 1 \in 1..Len(tasks)
      /\ DOMAIN tasks = 1..Len(tasks)
  <2>1. Tasks(M, tasks)
    BY <1>2 DEF Typed, M
  <2> QED BY <1>1, <2>1, TasksAre
<1>5. page.has = "ready"
  BY <1>1, <1>2, <1>4 DEF Typed
<1>9. Typed'
  <2>1. /\ Joined(M, joined') /\ CallsGo /\ maxDepth' \in [Deferred -> Nat] /\ held' \subseteq Plainly(M)
        /\ DOMAIN handlers' = ListId /\ \A l \in ListId : Handling(M, l[2], handlers'[l])
        /\ Tasks(M, tasks')
        /\ page.has = "ready" => state'[1] # "unborn"
        /\ state' \in [Deferred -> {"unborn", "pending", "resolved", "rejected"}]
        /\ SeenIs(seen')
    BY <1>1, <1>2, <1>4 DEF Typed, CallsGo, M
  <2> QED BY <1>1, <1>2, <1>5, <2>1, TypedStep DEF M
<1> QED BY <1>1, <1>5, <1>9, ReadyGoes

-----------------------------------------------------------------------------
(* What the functions of the page return *)

LEMMA ReturnToLoopGoes == ASSUME ListInv, ReturnToLoop PROVE Onward
<1> DEFINE M == Mine(page)
           q == Caller
           l == q.l
           c == callbacks[l]
           e == StopOnFalse(c)
<1>1. /\ Running("code") /\ Len(stack) > 1 /\ q.at = "loop" /\ stack' = Callers
      /\ UNCHANGED <<fixed, inner, calls, joined, seen>>
      /\ callbacks' = [callbacks EXCEPT ![l] = e] \/ callbacks' = callbacks
  BY DEF ReturnToLoop
<1>2. /\ stack # <<>> /\ Top.at # "loop"
      /\ Calm(M, joined, callbacks, state) /\ Lists(M, joined, callbacks)
      /\ Frames(M, joined, stack) /\ Loops(callbacks, stack)
      /\ Frames(M, joined, Callers) /\ Loops(callbacks, Callers) /\ Typed
  BY <1>1, RunsCode
<1>3. CASE callbacks' = callbacks
  BY <1>1, <1>2, <1>3, PoppedIsFine DEF fixed, CallsGo
<1>4. l \in ListId /\ c.firing
  <2>1. Frame(M, joined, q)
    BY <1>1, CallerIs
  <2>2. l \in ListId
    BY <1>1, <2>1, FrameIs
  <2>3. Len(stack) - 1 \in DOMAIN stack
    BY <1>1, <1>2, FramesAre
  <2>4. c.firing
    BY <1>1, <1>2, <2>3 DEF Loops, Caller
  <2> QED BY <2>2, <2>4
<1>5. Typed'
  <2>1. Joined(M, joined') /\ SeenIs(seen') /\ CallsGo
    BY <1>1, <1>2 DEF Typed, CallsGo
  <2> QED BY <1>1, <1>2, <2>1, TypedSame DEF fixed, inner
<1> HIDE DEF l, M, q
<1>6. List(c) /\ callbacks \in [ListId -> Listing]
  BY <1>2, <1>4 DEF Lists
<1>7. /\ List(e) /\ e.options = c.options /\ e.list = c.list /\ e.firing
      /\ e = c \/ "stopOnFalse" \in c.options
  <2> HIDE DEF c, e
  <2>1. e = StopOnFalse(c) /\ c.firing
    BY <1>4 DEF c, e
  <2> QED BY <1>6, <2>1, StopIs
<1>8. CASE l # UserList
  <2>1. "stopOnFalse" \notin c.options
    <3>1. l \in Deferred \X Kind /\ Options(l[2]) \subseteq {"once", "memory"}
      BY <1>4, <1>8 DEF ListId, Options
    <3> QED BY <1>2, <3>1 DEF Lists
  <2>2. [callbacks EXCEPT ![l] = e] = callbacks
    BY <1>4, <1>6, <1>7, <2>1
  <2> QED BY <1>1, <1>3, <2>2
<1>9. CASE callbacks' = [callbacks EXCEPT ![l] = e] /\ l = UserList
  <2> HIDE DEF e
  <2>1. /\ e.firing = c.firing
        /\ \A p \in DOMAIN e.list : \E r \in DOMAIN c.list : e.list[p] = c.list[r]
    <3>1. c.firing \in BOOLEAN /\ e.firing \in BOOLEAN
      BY <1>6, <1>7 DEF List, ListOf, Listing, ListingOf
    <3> QED BY <1>4, <1>7, <3>1
  <2> QED BY <1>1, <1>2, <1>5, <1>7, <1>9, <2>1, UserListChanged DEF M, fixed, inner
<1> QED BY <1>1, <1>3, <1>8, <1>9

LEMMA ReturnToPipeGoes == ASSUME ListInv, ReturnToPipe PROVE Onward
<1> DEFINE M == Mine(page)
           q == Caller
           F == SubSeq(stack, 1, Len(stack) - 2)
           E(k) == Entry("settle", q.d, k)
<1>1. /\ Running("code") /\ Len(stack) > 1 /\ q.at = "pipe"
      /\ UNCHANGED <<fixed, inner, calls, joined, seen>>
  BY DEF ReturnToPipe
<1>2. PICK v \in Results :
        IF v.is = "promise"
        THEN /\ callbacks' = callbacks
             /\ stack' = Append(F, Adds(<<<<<<v.n, "notify">>, E("notify")>>,
                                          <<<<v.n, "resolve">>, E("resolve")>>,
                                          <<<<v.n, "reject">>, E("reject")>>>>))
        ELSE Fire(<<q.d, q.k>>, v, callbacks, F)
  BY DEF ReturnToPipe
<1>3. /\ Calm(M, joined, callbacks, state) /\ Typed
      /\ Frame(M, joined, q)
      /\ Frames(M, joined, F) /\ Loops(callbacks, F)
      /\ \A f : Frame(M, joined, f) /\ f.at # "loop" =>
           Frames(M, joined, Append(F, f)) /\ Loops(callbacks, Append(F, f))
  BY <1>1, RunsCode, CallerIs
<1>4. v \in Value /\ M \in SUBSET Deferred
  BY <1>3, ResultsAre, MineIs
<1>5. SeenIs(seen') /\ Typed'
  <2>1. Joined(M, joined') /\ SeenIs(seen') /\ CallsGo
    BY <1>1, <1>3 DEF Typed, CallsGo
  <2> QED BY <1>1, <1>3, <2>1, TypedSame DEF fixed, inner
<1> HIDE DEF M, q, F
<1>6. q.d \in M /\ q.k \in Kind /\ q.d \in Deferred
  BY <1>1, <1>3, <1>4, FrameIs
<1>7. CASE v.is = "promise"
  <2>1. v.n \in Deferred
    BY <1>4, <1>7, PromiseIs
  <2>2. \A k \in Kind : E(k) \in Entries /\ Late(M, joined, E(k)) /\ <<v.n, k>> \in Deferred \X Kind
    BY <1>6, <2>1, EntryIs DEF Late
  <2> DEFINE a == E("notify")
             b == E("resolve")
             c == E("reject")
             x == <<v.n, "notify">>
             y == <<v.n, "resolve">>
             z == <<v.n, "reject">>
             W == Adds(<<<<x, a>>, <<y, b>>, <<z, c>>>>)
  <2>3. stack' = Append(F, W) /\ callbacks' = callbacks
    BY <1>2, <1>7
  <2>4. Frame(M, joined, W) /\ W.at # "loop"
    <3>1. /\ a \in Entries /\ Late(M, joined, a) /\ b \in Entries /\ Late(M, joined, b)
          /\ c \in Entries /\ Late(M, joined, c)
          /\ x \in Deferred \X Kind /\ y \in Deferred \X Kind /\ z \in Deferred \X Kind
      BY <2>2 DEF Kind
    <3> HIDE DEF a, b, c, x, y, z
    <3> QED BY <3>1, ThreeAdds
  <2> HIDE DEF W
  <2>5. Frames(M, joined, stack') /\ Loops(callbacks, stack')
    BY <1>3, <2>3, <2>4
  <2> QED BY <1>1, <1>3, <1>5, <2>3, <2>5, StackOnly DEF M, fixed, CallsGo
<1>8. CASE v.is # "promise"
  <2> DEFINE l == <<q.d, q.k>>
  <2>1. l \in ListId /\ l[1] \in M
    BY <1>6, ListIds
  <2>2. Fire(l, v, callbacks, F)
    BY <1>2, <1>8
  <2> HIDE DEF l
  <2> QED BY <1>1, <1>3, <1>4, <1>5, <2>1, <2>2, FireStep, SameJoin DEF M, fixed, inner, Onward
<1> QED BY <1>7, <1>8

-----------------------------------------------------------------------------
(* when *)

LEMMA InvokeSeen ==
  ASSUME SeenIs(seen), NEW e, NEW v, NEW l, NEW C, NEW F, Invoke(e, v, l, C, F)
  PROVE  SeenIs(seen')
<1>1. \/ seen' = seen
      \/ \E x : seen' = [seen EXCEPT !.told[e.d] = x]
      \/ \E x : seen' = [seen EXCEPT !.log[l] = x]
  BY DEF Invoke, InvokeState, InvokeDisable, InvokeLock, InvokeHandlers, InvokeScript,
         InvokeSettle, InvokePipe, InvokeUpdate
<1> QED BY <1>1 DEF SeenIs, SeenField

LEMMA AdoptGoes ==
  ASSUME ListInv, Calm(Mine(page), joined, callbacks, state), NEW v \in Value,
         NEW e \in Entries, Late(Mine(page), joined, e),
         NEW g \in Entries, Late(Mine(page), joined, g),
         NEW F, Frames(Mine(page), joined, F), Loops(callbacks, F),
         Adopt(v, e, g, F), UNCHANGED <<fixed, calls>>
  PROVE  Onward
<1> DEFINE M == Mine(page)
<1>0. /\ Lists(M, joined, callbacks) /\ Typed /\ Joined(M, joined) /\ SeenIs(seen)
      /\ M \in SUBSET Deferred
  BY MineIs DEF ListInv, Arranged, Typed
<1>m. M = Mine(page)
  OBVIOUS
<1> HIDE DEF M
<1>1. CASE v.is = "promise"
  <2> DEFINE x == <<v.n, "resolve">>
             y == <<v.n, "reject">>
             W == Adds(<<<<x, e>>, <<y, g>>>>)
  <2>1. /\ stack' = Append(F, W)
        /\ UNCHANGED <<inner, callbacks, joined, seen>>
    BY <1>1 DEF Adopt
  <2>2. Frame(M, joined, W) /\ W.at # "loop"
    <3>1. v.n \in Deferred
      BY <1>1, PromiseIs
    <3>2. x \in Deferred \X Kind /\ y \in Deferred \X Kind
      BY <3>1 DEF Kind
    <3> HIDE DEF x, y
    <3> QED BY <3>2, TwoAdds DEF M
  <2> HIDE DEF W
  <2>3. Frames(M, joined, stack') /\ Loops(callbacks, stack')
    BY <2>1, <2>2, FramePushed, LoopsPushed DEF M
  <2>4. SeenIs(seen')
    BY <1>0, <2>1
  <2> QED BY <1>0, <2>1, <2>3, <2>4, StackOnly DEF M, fixed, CallsGo
<1>2. CASE v.is # "promise"
  <2>1. Invoke(e, v, UserList, callbacks, F)
    BY <1>2 DEF Adopt
  <2>2. /\ Arranged(M, joined', callbacks', state, stack')
        /\ Keeps(M, callbacks, state, callbacks', state)
        /\ UNCHANGED inner /\ Joined(M, joined')
    BY <1>0, <1>m, <2>1, InvokeLate
  <2>3. SeenIs(seen')
    BY <1>0, <2>1, InvokeSeen
  <2>4. Typed'
    BY <1>0, <2>2, <2>3, TypedSame DEF M, fixed, inner, CallsGo
  <2> QED BY <2>2, <2>4 DEF M, ListInv, Onward, fixed, inner
<1> QED BY <1>1, <1>2

\* A frame of when is on top.
LEMMA RunsWhen ==
  ASSUME ListInv, Running("when")
  PROVE  /\ stack # <<>> /\ Top.at # "loop" /\ Top.i \in 0..Len(joined.args)
         /\ Top.step \in {"single", "decide", "loop"}
         /\ joined.master \in Mine(page) /\ joined.master \in Deferred
         /\ Len(joined.args) \in Nat /\ joined # NoWhen
         /\ \A i \in 0..Len(joined.args) : joined.values[i] \in Value
         /\ \A i \in 0..Len(joined.args), s \in {"single", "decide", "loop"} :
              /\ Frame(Mine(page), joined, When(i, s)) /\ When(i, s).at # "loop"
<1> DEFINE M == Mine(page)
<1>1. stack # <<>> /\ Top.at = "when"
  BY RunsWhat
<1>2. Frame(M, joined, Top) /\ M \in SUBSET Deferred /\ Joined(M, joined)
  BY <1>1, InsideCalls, MineIs DEF ListInv, Typed
<1> HIDE DEF M
<1>3. /\ joined.master \in M /\ Top.i \in 0..Len(joined.args) /\ Top.i \in Nat
      /\ Top.step \in {"single", "decide", "loop"}
  BY <1>1, <1>2, FrameIs
<1>4. Nobody \notin M
  BY <1>2, NobodyIsNotMine
<1>5. joined # NoWhen /\ joined.args \in Seq(Value)
  BY <1>2, <1>3, <1>4 DEF Joined, NoWhen
<1>6. /\ Len(joined.args) \in Nat
      /\ \A i \in 0..Len(joined.args) : joined.values[i] \in Value
  BY <1>2, <1>5 DEF Joined
<1>7. \A i \in 0..Len(joined.args), s \in {"single", "decide", "loop"} :
        Frame(M, joined, When(i, s)) /\ When(i, s).at # "loop"
  BY <1>3, <1>6 DEF When, Frame
<1> QED BY <1>1, <1>2, <1>3, <1>5, <1>6, <1>7 DEF M

LEMMA MasterIs ==
  ASSUME joined.master \in Mine(page), joined.master \in Deferred
  PROVE  /\ RejectMaster \in Entries /\ Late(Mine(page), joined, RejectMaster)
         /\ Entry("settle", joined.master, "resolve") \in Entries
         /\ Late(Mine(page), joined, Entry("settle", joined.master, "resolve"))
         /\ \A i \in Nat : UpdateAt(i) \in Entries /\ Late(Mine(page), joined, UpdateAt(i))
BY DEF RejectMaster, UpdateAt, Entry, Entries, Doing, Nobody, Kind, Late

LEMMA WhenSingleGoes == ASSUME ListInv, WhenSingle PROVE Onward
<1> DEFINE F == Become(When(Top.i, "decide"))
           e == Entry("settle", joined.master, "resolve")
           v == joined.values[0]
<1>1. Running("when") /\ Adopt(v, e, RejectMaster, F) /\ UNCHANGED <<fixed, calls>>
  BY DEF WhenSingle
<1>2. /\ stack # <<>> /\ Top.at # "loop" /\ Top.i \in 0..Len(joined.args)
      /\ joined.master \in Mine(page) /\ joined.master \in Deferred
      /\ 0 \in 0..Len(joined.args)
      /\ \A i \in 0..Len(joined.args) : joined.values[i] \in Value
      /\ \A i \in 0..Len(joined.args), s \in {"single", "decide", "loop"} :
           /\ Frame(Mine(page), joined, When(i, s)) /\ When(i, s).at # "loop"
  BY <1>1, RunsWhen
<1>3. /\ Calm(Mine(page), joined, callbacks, state)
      /\ \A f : Frame(Mine(page), joined, f) /\ f.at # "loop" =>
              /\ Frames(Mine(page), joined, Become(f)) /\ Loops(callbacks, Become(f))
  BY <1>2, InsideCalls
<1>4. Frames(Mine(page), joined, F) /\ Loops(callbacks, F)
  BY <1>2, <1>3
<1>5. /\ RejectMaster \in Entries /\ Late(Mine(page), joined, RejectMaster)
      /\ e \in Entries /\ Late(Mine(page), joined, e) /\ v \in Value
  BY <1>2, MasterIs
<1> HIDE DEF e, F, v
<1> QED BY <1>1, <1>3, <1>4, <1>5, AdoptGoes

LEMMA WhenNextGoes == ASSUME ListInv, WhenNext PROVE Onward
<1> DEFINE i == Top.i - 1
           F == Become(When(i, "loop"))
           e == UpdateAt(i)
           v == joined.values[i]
<1>1. /\ Running("when") /\ UNCHANGED <<fixed, calls>>
      /\ \/ /\ joined' = [joined EXCEPT !.answer = joined.master]
            /\ stack' = Callers
            /\ UNCHANGED <<inner, callbacks, seen>>
         \/ Top.i # 0 /\ Adopt(v, e, RejectMaster, F)
  BY DEF WhenNext
<1>2. /\ stack # <<>> /\ Top.at # "loop" /\ Top.i \in 0..Len(joined.args)
      /\ joined.master \in Mine(page) /\ joined.master \in Deferred
      /\ Len(joined.args) \in Nat
      /\ \A j \in 0..Len(joined.args) : joined.values[j] \in Value
      /\ \A j \in 0..Len(joined.args), s \in {"single", "decide", "loop"} :
           /\ Frame(Mine(page), joined, When(j, s)) /\ When(j, s).at # "loop"
  BY <1>1, RunsWhen
<1>3. /\ Calm(Mine(page), joined, callbacks, state)
      /\ Frames(Mine(page), joined, Callers) /\ Loops(callbacks, Callers)
      /\ \A f : Frame(Mine(page), joined, f) /\ f.at # "loop" =>
              /\ Frames(Mine(page), joined, Become(f)) /\ Loops(callbacks, Become(f))
  BY <1>2, InsideCalls
<1>4. CASE Top.i # 0 /\ Adopt(v, e, RejectMaster, F)
  <2>1. i \in 0..Len(joined.args) /\ i \in Nat
    BY <1>2, <1>4
  <2> HIDE DEF i
  <2>2. Frames(Mine(page), joined, F) /\ Loops(callbacks, F)
    BY <1>2, <1>3, <2>1
  <2>3. /\ RejectMaster \in Entries /\ Late(Mine(page), joined, RejectMaster)
        /\ e \in Entries /\ Late(Mine(page), joined, e) /\ v \in Value
    BY <1>2, <2>1, MasterIs
  <2> HIDE DEF e, F, v
  <2> QED BY <1>1, <1>3, <1>4, <2>2, <2>3, AdoptGoes
<1>5. CASE /\ joined' = [joined EXCEPT !.answer = joined.master]
           /\ stack' = Callers
           /\ UNCHANGED <<inner, callbacks, seen>>
  <2>1. Joined(Mine(page), joined) /\ SeenIs(seen) /\ Typed
    BY DEF ListInv, Typed
  <2>2. Joined(Mine(page), joined') /\ JoinLater(Mine(page), joined, joined')
    BY <1>2, <1>5, <2>1 DEF Joined, JoinLater, NoWhen
  <2>3. Typed'
    BY <1>1, <1>5, <2>1, <2>2, TypedSame DEF fixed, inner, CallsGo
  <2> QED BY <1>1, <1>3, <1>5, <2>2, <2>3, QuietStep DEF fixed, inner
<1> QED BY <1>1, <1>4, <1>5

LEMMA WhenDecideGoes == ASSUME ListInv, WhenDecide PROVE Onward
<1> DEFINE M == Mine(page)
           on == [notify |-> Identity, resolve |-> Identity, reject |-> Thrower]
<1>1. Running("when") /\ UNCHANGED <<fixed, calls, callbacks>>
  BY DEF WhenDecide
<1>2. /\ stack # <<>> /\ Top.at # "loop" /\ Top.i \in 0..Len(joined.args)
      /\ joined.master \in M /\ joined.master \in Deferred /\ joined # NoWhen
      /\ \A j \in 0..Len(joined.args), s \in {"single", "decide", "loop"} :
           /\ Frame(M, joined, When(j, s)) /\ When(j, s).at # "loop"
  BY <1>1, RunsWhen
<1>3. /\ Calm(M, joined, callbacks, state)
      /\ Frames(M, joined, Callers) /\ Loops(callbacks, Callers)
      /\ \A f : Frame(M, joined, f) /\ f.at # "loop" =>
              /\ Frames(M, joined, Become(f)) /\ Loops(callbacks, Become(f))
  BY <1>2, InsideCalls
<1>4. Joined(M, joined) /\ SeenIs(seen) /\ Typed
  BY DEF ListInv, Typed
<1>5. CASE /\ stack' = Become(When(Top.i, "loop"))
           /\ UNCHANGED <<inner, joined, seen>>
  <2>1. Frames(M, joined, stack') /\ Loops(callbacks, stack')
    BY <1>2, <1>3, <1>5
  <2>2. SeenIs(seen')
    BY <1>4, <1>5
  <2> QED BY <1>1, <1>3, <1>5, <2>1, <2>2, StackOnly DEF fixed, CallsGo
<1>6. CASE /\ Unborn # {}
           /\ Then(joined.master, on, Fresh)
           /\ state' = [state EXCEPT ![Fresh] = "pending"]
           /\ seen' = [seen EXCEPT !.thens[joined.master] = Append(@, Fresh)]
           /\ joined' = [joined EXCEPT !.answer = Fresh]
           /\ stack' = Callers
  <2>1. Fresh \in Deferred /\ state[Fresh] = "unborn"
    BY <1>6, FreshIs
  <2>2. Fresh \in M
    <3>1. page.has = "ready" => Fresh # 1
      BY <1>4, <2>1 DEF Typed
    <3> QED BY <2>1, <3>1 DEF Mine
  <2>3. /\ state' \in [Deferred -> {"unborn", "pending", "resolved", "rejected"}]
        /\ \A d \in Deferred : state'[d] = state[d] \/ (Open(state, d) /\ Open(state', d))
        /\ page.has = "ready" => state'[1] # "unborn"
    BY <1>4, <1>6, <2>1, BornIs
  <2>m. M = Mine(page)
    OBVIOUS
  <2> HIDE DEF M
  <2>4. \A k \in Kind : on[k] \in Nested(M)
    <3>1. \A k \in Kind : on[k] \in {Identity, Thrower}
      BY DEF Kind
    <3> HIDE DEF on
    <3> QED BY <3>1, HandlersAre
  <2> HIDE DEF on
  <2>5. /\ DOMAIN handlers' = ListId
        /\ \A l \in ListId : Handling(M, l[2], handlers'[l])
        /\ Tasks(M, tasks')
        /\ \A i \in DOMAIN tasks' : tasks'[i].do = "ready" => page.has = "ready"
    <3> DEFINE e == joined.master
               d == Fresh
    <3>1. e \in Deferred /\ d \in M \cup {Nobody} /\ Then(e, on, d)
      BY <1>2, <1>6, <2>2
    <3> HIDE DEF e, d
    <3> QED BY <1>4, <2>4, <3>1, ThenTyped DEF M
  <2>6. SeenIs(seen')
    BY <1>4, <1>6 DEF SeenIs, SeenField
  <2>7. Joined(M, joined') /\ JoinLater(M, joined, joined')
    <3> DEFINE d == Fresh
    <3>1. d \in Deferred /\ joined' = [joined EXCEPT !.answer = d]
      BY <1>6, <2>1
    <3> HIDE DEF d
    <3> QED BY <1>2, <1>4, <3>1 DEF Joined, JoinLater, NoWhen
  <2>8. Typed'
    <3>1. CallsGo /\ maxDepth' \in [Deferred -> Nat] /\ held' \subseteq Plainly(M)
      BY <1>1, <1>4, <2>m DEF Typed, CallsGo, fixed
    <3> QED BY <1>1, <1>4, <2>3, <2>5, <2>6, <2>7, <2>m, <3>1, TypedStep DEF fixed
  <2> QED BY <1>1, <1>3, <1>6, <2>3, <2>7, <2>8, <2>m, QuietStep DEF fixed
<1> QED BY <1>1, <1>5, <1>6 DEF WhenDecide

\* A list that nobody has fired is not started by an add.
LEMMA QuietAdd ==
  ASSUME NEW M, NEW J, NEW C, NEW S, NEW F, Lists(M, J, C), Calm(M, J, C, S), Loops(C, F),
         Frames(M, J, F), NEW d \in Deferred, Open(S, d), NEW fn \in Entries, Late(M, J, fn),
         NEW k \in Outs, NEW e, e = Add(C[<<d, k>>], fn), NEW N
  PROVE  /\ Arranged(M, J, [C EXCEPT ![<<d, k>>] = e], S, F)
         /\ Keeps(N, C, S, [C EXCEPT ![<<d, k>>] = e], S)
<1> DEFINE l == <<d, k>>
<1>1. l \in ListId /\ l # UserList /\ k \in Kind
  BY ListIds
<1>2. C[l].memory = None /\ ~C[l].firing
  <2>1. \A j \in Outs : ~Decided(M, J, C, S, d, j)
    BY ListIds DEF Open, Decided
  <2>2. Undecided(M, J, C, S, d)
    BY <2>1 DEF Calm, CalmAt
  <2> QED BY <2>2 DEF Undecided, Waiting
<1> HIDE DEF l
<1>3. List(C[l])
  BY <1>1 DEF Lists
<1>4. ~e.firing
  <2> DEFINE c == C[l]
  <2>1. e = Add(c, fn) /\ List(c) /\ c.memory = None /\ ~c.firing
    BY <1>2, <1>3 DEF l
  <2> HIDE DEF c
  <2> QED BY <2>1, AddIs
<1>5. /\ Arranged(M, J, [C EXCEPT ![l] = e], S, Called(F, l, C[l], e))
      /\ Keeps(N, C, S, [C EXCEPT ![l] = e], S)
  <2>1. e = Add(C[l], fn)
    BY DEF l
  <2> QED BY <1>1, <2>1, AddKeeps
<1>6. Called(F, l, C[l], e) = F
  BY <1>4 DEF Called
<1> QED BY <1>5, <1>6 DEF l

LEMMA CallWhenGoes == ASSUME ListInv, CallWhen PROVE Onward
<1> DEFINE M == Mine(page)
           D == Fresh
           l == <<D, "resolve">>
           Update1(n) == [Entry("update", D, "resolve") EXCEPT !.n = n]
           Step(n) == IF n > 1 THEN "loop" ELSE "single"
           Given(n, args) == [i \in 0..n |-> IF i < n THEN args[i + 1] ELSE Undefined]
<1>1. /\ Running("code") /\ calls < page.calls /\ calls' = calls + 1 /\ page.has = "when"
      /\ joined = NoWhen /\ Unborn # {}
      /\ state' = [state EXCEPT ![D] = "pending"]
      /\ UNCHANGED <<fixed, handlers, tasks, seen>>
  BY DEF CallWhen, May
<1>a. PICK n \in 0..2 : \E args \in [1..n -> {Data(calls')} \cup {PromiseOf(d) : d \in 1..page.roots}] :
        /\ joined' = [master |-> D, remaining |-> n, answer |-> Nobody, args |-> args,
                      values |-> Given(n, args)]
        /\ stack' = Append(stack, When(n, Step(n)))
        /\ callbacks' = IF n <= 1 THEN [callbacks EXCEPT ![l] = Add(@, Update1(n))]
                        ELSE callbacks
  BY DEF CallWhen
<1>2. PICK args \in [1..n -> {Data(calls')} \cup {PromiseOf(d) : d \in 1..page.roots}] :
        /\ joined' = [master |-> D, remaining |-> n, answer |-> Nobody, args |-> args,
                      values |-> Given(n, args)]
        /\ stack' = Append(stack, When(n, Step(n)))
        /\ callbacks' = IF n <= 1 THEN [callbacks EXCEPT ![l] = Add(@, Update1(n))]
                        ELSE callbacks
  BY <1>a
<1>3. /\ Calm(M, joined, callbacks, state) /\ Typed
      /\ Frames(M, joined, stack) /\ Loops(callbacks, stack)
  BY <1>1, RunsCode
<1>4. D \in Deferred /\ state[D] = "unborn" /\ M = Deferred
  BY <1>1, <1>3, FreshIs, RootsAre
<1>5. /\ state' \in [Deferred -> {"unborn", "pending", "resolved", "rejected"}]
      /\ \A d \in Deferred : state'[d] = state[d] \/ (Open(state, d) /\ Open(state', d))
      /\ page.has = "ready" => state'[1] # "unborn"
  BY <1>1, <1>3, <1>4, BornIs
<1>6. \A i \in 1..n : args[i] \in Value
  <2>1. calls' \in 1..page.calls
    BY <1>1, <1>3, DataIsValue
  <2> QED BY <1>3, <2>1, DataIsValue, RootsAre
<1>7. Open(state', D)
  BY <1>1, <1>3, <1>4 DEF Open, Typed
<1>m. M = Mine(page)
  OBVIOUS
<1> HIDE DEF M, D
<1> DEFINE V == Given(n, args)
<1>8. DOMAIN V = 0..n /\ \A i \in 0..n : V[i] \in Value
  <2>1. \A i \in 0..n : V[i] = IF i < n THEN args[i + 1] ELSE Undefined
    OBVIOUS
  <2>2. Undefined \in Value
    BY <1>3, DataIsValue
  <2>3. \A i \in 0..n : i < n => i + 1 \in 1..n
    OBVIOUS
  <2> HIDE DEF V
  <2>4. \A i \in 0..n : V[i] \in Value
    BY <1>6, <2>1, <2>2, <2>3
  <2> QED BY <2>4 DEF V
<1> HIDE DEF V
<1>9. args \in Seq(Value) /\ Len(args) = n
  <2>1. args \in [1..n -> Value] /\ n \in Nat
    BY <1>6
  <2> QED BY <2>1
<1>10. Joined(M, joined') /\ JoinLater(M, joined, joined') /\ joined'.master = D /\ joined'.args = args
  <2>1. joined' = [master |-> D, remaining |-> n, answer |-> Nobody, args |-> args, values |-> V]
    BY <1>2 DEF V
  <2>2. Nobody \notin M
    BY <1>4, NobodyIsNotMine
  <2> QED BY <1>1, <1>4, <1>8, <1>9, <2>1, <2>2 DEF Joined, JoinLater, NoWhen
<1>11. Frame(M, joined', When(n, Step(n))) /\ When(n, Step(n)).at # "loop"
  <2>1. Step(n) \in {"single", "decide", "loop"}
    OBVIOUS
  <2> HIDE DEF Step
  <2> QED BY <1>4, <1>9, <1>10, <2>1 DEF Frame, When
<1>12. /\ Frames(M, joined', stack') /\ Loops(callbacks, stack')
  <2> DEFINE f == When(n, Step(n))
             J2 == joined'
  <2>1. stack' = Append(stack, f) /\ Frame(M, J2, f) /\ f.at # "loop" /\ JoinLater(M, joined, J2)
    BY <1>2, <1>10, <1>11
  <2> HIDE DEF f, J2
  <2>2. Frames(M, J2, stack)
    BY <1>3, <2>1, ListsLater
  <2>3. Frames(M, J2, Append(stack, f)) /\ Loops(callbacks, Append(stack, f))
    BY <1>3, <2>1, <2>2, FramePushed, LoopsPushed
  <2> QED BY <2>1, <2>3 DEF J2
<1>13. Typed'
  <2>1. /\ CallsGo /\ maxDepth' \in [Deferred -> Nat] /\ held' \subseteq Plainly(M)
        /\ DOMAIN handlers' = ListId /\ \A j \in ListId : Handling(M, j[2], handlers'[j])
        /\ Tasks(M, tasks') /\ SeenIs(seen')
        /\ \A i \in DOMAIN tasks' : tasks'[i].do = "ready" => page.has = "ready"
    BY <1>1, <1>3, <1>m DEF Typed, CallsGo, fixed
  <2> QED BY <1>1, <1>3, <1>5, <1>10, <1>m, <2>1, TypedStep DEF fixed
<1>14. /\ Arranged(M, joined', callbacks, state', stack') /\ Calm(M, joined', callbacks, state')
       /\ Keeps(M, callbacks, state, callbacks, state')
  <2>1. Arranged(M, joined, callbacks, state, stack)
    BY <1>m DEF ListInv
  <2> QED BY <1>3, <1>5, <1>10, <1>12, <2>1, StaysArranged
<1>15. CASE callbacks' = callbacks
  BY <1>1, <1>13, <1>14, <1>15, <1>m DEF ListInv, Onward, fixed
<1>16. CASE callbacks' = [callbacks EXCEPT ![l] = Add(@, Update1(n))]
  <2> DEFINE fn == Update1(n)
             c == Add(callbacks[l], fn)
             J2 == joined'
             R == state'
             K == stack'
  <2>1. fn \in Entries /\ Late(M, J2, fn)
    <3>1. Entry("update", D, "resolve") \in Entries /\ Entry("update", D, "resolve").do = "update"
      BY <1>4, EntryIs DEF Kind
    <3>2. fn \in Entries /\ fn.do = "update"
      BY <3>1 DEF Entries
    <3> HIDE DEF fn
    <3> QED BY <1>4, <1>10, <3>2 DEF Late
  <2>2. "resolve" \in Outs /\ Lists(M, J2, callbacks) /\ Open(R, D)
        /\ Calm(M, J2, callbacks, R) /\ Loops(callbacks, K) /\ Frames(M, J2, K)
    BY <1>7, <1>12, <1>14 DEF Arranged, Outs
  <2> HIDE DEF fn, J2, R, K
  <2>3. /\ Arranged(M, J2, [callbacks EXCEPT ![l] = c], R, K)
        /\ Keeps(M, callbacks, R, [callbacks EXCEPT ![l] = c], R)
    BY <1>4, <2>1, <2>2, QuietAdd
  <2>4. callbacks' = [callbacks EXCEPT ![l] = c]
    BY <1>16 DEF fn
  <2>5. Keeps(M, callbacks, state, callbacks', R)
    <3> HIDE DEF l, c
    <3> QED BY <1>14, <2>3, <2>4, KeepsTwice DEF R
  <2> HIDE DEF c
  <2> QED BY <1>1, <1>13, <1>m, <2>3, <2>4, <2>5 DEF J2, R, K, ListInv, Onward, fixed
<1> QED BY <1>2, <1>15, <1>16

LEMMA CallReadyGoes == ASSUME ListInv, CallReady PROVE Onward
<1> DEFINE M == Mine(page)
           d == Fresh
           U == Unborn \ {d}
           e == CHOOSE x \in U : \A g \in U : x <= g
           on == [resolve |-> Script, reject |-> Thrower, notify |-> Identity]
           or == [resolve |-> Identity, reject |-> Script, notify |-> Identity]
           hs == HandlersAfter(handlers, 1, on, d)
           X == TimersOf(handlers, 1, on, d)
           Y == TimersOf(hs, d, or, e)
<1>1. /\ Running("code") /\ calls < page.calls /\ calls' = calls + 1 /\ page.has = "ready"
      /\ Cardinality(Born) + 1 < page.makes
      /\ handlers' = HandlersAfter(hs, d, or, e)
      /\ tasks' = (tasks \o X) \o Y
      /\ state' = [state EXCEPT ![d] = "pending", ![e] = "pending"]
      /\ seen' = [seen EXCEPT !.thens[1] = Append(@, d), !.thens[d] = Append(@, e)]
      /\ UNCHANGED <<fixed, callbacks, stack, joined>>
  BY DEF CallReady, May
<1>2. /\ Calm(M, joined, callbacks, state) /\ Typed
      /\ Frames(M, joined, stack) /\ Loops(callbacks, stack) /\ M \in SUBSET Deferred
  BY <1>1, RunsCode
<1>3. Unborn # {} /\ \E x \in U : \A g \in U : x <= g
  <2>1. /\ Cardinality(Born) < page.makes => Unborn # {}
        /\ \A y \in Unborn : \E x \in Unborn \ {y} : \A g \in Unborn \ {y} : x <= g
    BY <1>1, <1>2, SomeUnborn
  <2>2. Unborn # {}
    <3>1. Cardinality(Born) \in Nat
      <4>1. MaxDeferred \in Nat
        BY DeferredAssumption
      <4>2. IsFiniteSet(Deferred) /\ Born \subseteq Deferred
        BY <4>1, FS_Interval DEF Deferred, Born
      <4> QED BY <4>2, FS_Subset, FS_CardinalityType
    <3>2. page.makes \in Nat
      BY <1>2, DeferredAssumption DEF Typed
    <3> QED BY <1>1, <2>1, <3>1, <3>2
  <2>3. d \in Unborn
    BY <2>2, FreshIs DEF Unborn
  <2> QED BY <2>1, <2>2, <2>3
<1>4. d \in Deferred /\ state[d] = "unborn" /\ e \in U
  BY <1>3, FreshIs
<1>5. e \in Deferred /\ state[e] = "unborn" /\ e # d
  BY <1>4 DEF Unborn
<1>6. d # 1 /\ e # 1 /\ 1 \in Deferred /\ d \in M /\ e \in M
  BY <1>1, <1>2, <1>4, <1>5 DEF Typed, Mine
<1>m. M = Mine(page)
  OBVIOUS
<1> HIDE DEF M, d, e, U
<1>7. (\A k \in Kind : on[k] \in Nested(M)) /\ (\A k \in Kind : or[k] \in Nested(M))
  <2>1. \A k \in Kind : on[k] \in {Identity, Thrower, Script} /\ or[k] \in {Identity, Thrower, Script}
    BY DEF Kind
  <2> HIDE DEF on, or
  <2> QED BY <2>1, HandlersAre
<1> HIDE DEF on, or
<1>8. /\ DOMAIN hs = ListId /\ \A l \in ListId : Handling(M, l[2], hs[l])
      /\ Tasks(M, X) /\ \A i \in DOMAIN X : X[i].do = "process"
  <2>1. DOMAIN handlers = ListId /\ \A l \in ListId : Handling(M, l[2], handlers[l])
    BY <1>2, <1>m DEF Typed
  <2> QED BY <1>2, <1>6, <1>7, <2>1, ThenIs
<1> HIDE DEF hs, X
<1>9. /\ DOMAIN handlers' = ListId /\ \A l \in ListId : Handling(M, l[2], handlers'[l])
      /\ Tasks(M, Y) /\ \A i \in DOMAIN Y : Y[i].do = "process"
  <2>1. d \in Deferred /\ e \in M \cup {Nobody}
    BY <1>4, <1>6
  <2>2. /\ DOMAIN HandlersAfter(hs, d, or, e) = ListId
        /\ \A l \in ListId : Handling(M, l[2], HandlersAfter(hs, d, or, e)[l])
        /\ Tasks(M, TimersOf(hs, d, or, e))
        /\ \A i \in DOMAIN TimersOf(hs, d, or, e) : TimersOf(hs, d, or, e)[i].do = "process"
    BY <1>2, <1>7, <1>8, <2>1, ThenIs
  <2> QED BY <1>1, <2>2
<1> HIDE DEF Y
<1>10. Tasks(M, tasks')
  <2>1. Tasks(M, tasks)
    BY <1>2, <1>m DEF Typed
  <2>2. Tasks(M, tasks \o X)
    BY <1>8, <2>1, TasksJoined
  <2> QED BY <1>1, <1>9, <2>2, TasksJoined
<1>11. /\ state' \in [Deferred -> {"unborn", "pending", "resolved", "rejected"}]
       /\ \A x \in Deferred : state'[x] = state[x] \/ (Open(state, x) /\ Open(state', x))
       /\ state'[1] # "unborn"
  BY <1>1, <1>2, <1>4, <1>5, <1>6 DEF Typed, Open
<1>12. SeenIs(seen')
  BY <1>1, <1>2 DEF Typed, SeenIs, SeenField
<1>13. Typed'
  <2>1. /\ CallsGo /\ maxDepth' \in [Deferred -> Nat] /\ held' \subseteq Plainly(M)
        /\ Joined(M, joined')
        /\ \A i \in DOMAIN tasks' : tasks'[i].do = "ready" => page.has = "ready"
    BY <1>1, <1>2, <1>m DEF Typed, CallsGo, fixed
  <2> QED BY <1>1, <1>2, <1>9, <1>10, <1>11, <1>12, <1>m, <2>1, TypedStep DEF fixed
<1> QED BY <1>1, <1>2, <1>11, <1>13, <1>m, QuietStep, SameJoin DEF fixed

-----------------------------------------------------------------------------
(* A turn of a loop *)

\* The functions that then() has added are told.
LEMMA HandlersTyped ==
  ASSUME Typed, NEW d \in Deferred, NEW k \in Kind, NEW v \in Value,
         handlers' = [handlers EXCEPT ![<<d, k>>] = Fired(FireWith(handlers[<<d, k>>], v))],
         tasks' = tasks \o Timers(d, k, FireWith(handlers[<<d, k>>], v))
  PROVE  /\ DOMAIN handlers' = ListId
         /\ \A l \in ListId : Handling(Mine(page), l[2], handlers'[l])
         /\ Tasks(Mine(page), tasks')
         /\ \A i \in DOMAIN tasks' : tasks'[i].do = "ready" => page.has = "ready"
<1> DEFINE M == Mine(page)
           h == <<d, k>>
           a == FireWith(handlers[h], v)
           X == Timers(d, k, a)
           c == handlers[h]
<1>1. /\ DOMAIN handlers = ListId /\ h \in ListId /\ h[2] = k
      /\ \A l \in ListId : Handling(M, l[2], handlers[l])
      /\ Tasks(M, tasks)
      /\ \A i \in DOMAIN tasks : tasks[i].do = "ready" => page.has = "ready"
  BY ListIds DEF Typed
<1> HIDE DEF M, h
<1>2. Handling(M, k, c)
  BY <1>1
<1>3. /\ Handling(M, k, Fired(a)) /\ ListOf(Hands(M), a)
      /\ a.firing => a.memory = v /\ a.index = 0
  <2> HIDE DEF c, a
  <2>1. a = FireWith(c, v)
    BY DEF a, c
  <2>2. /\ Handling(M, k, Fired(a)) /\ ListOf(Hands(M), a)
        /\ c.locked => Fired(a) = c /\ ~a.firing
        /\ ~c.locked =>
             /\ a.firing /\ a.memory = v /\ a.index = 0 /\ a.list = c.list
             /\ Fired(a).memory = v /\ (Fired(a).locked <=> k # "notify")
             /\ k = "notify" => Fired(a).list = c.list
    <3>1. FiredSo(M, k, c, v, a)
      BY <1>2, <2>1, HandlersFired
    <3> QED BY <3>1 DEF FiredSo
  <2>3. CASE c.locked
    BY <2>2, <2>3
  <2>4. CASE ~c.locked
    BY <2>2, <2>4
  <2> QED BY <2>3, <2>4
<1> HIDE DEF a, c
<1>4. Tasks(M, X) /\ \A i \in DOMAIN X : X[i].do = "process"
  <2>1. a.firing => a.memory \in Value /\ a.index <= Len(a.list)
    <3>1. Len(a.list) \in Nat
      BY <1>3 DEF ListOf, ListingOf
    <3> QED BY <1>3, <3>1
  <2> QED BY <1>3, <2>1, TimersAre
<1> HIDE DEF X
<1>5. /\ Tasks(M, tasks \o X) /\ Len(tasks) \in Nat /\ Len(X) \in Nat
      /\ DOMAIN tasks = 1..Len(tasks) /\ DOMAIN X = 1..Len(X)
      /\ DOMAIN (tasks \o X) = 1..(Len(tasks) + Len(X))
      /\ \A i \in 1..(Len(tasks) + Len(X)) :
           (tasks \o X)[i] = IF i <= Len(tasks) THEN tasks[i] ELSE X[i - Len(tasks)]
  BY <1>1, <1>4, TasksJoined
<1>6. tasks' = tasks \o X /\ handlers' = [handlers EXCEPT ![h] = Fired(a)]
  BY DEF X, a, h
<1>7. ASSUME NEW i \in DOMAIN tasks', tasks'[i].do = "ready" PROVE page.has = "ready"
  <2>1. i \in 1..(Len(tasks) + Len(X))
    BY <1>5, <1>6
  <2>2. CASE i <= Len(tasks)
    <3>1. i \in DOMAIN tasks /\ tasks'[i] = tasks[i]
      BY <1>5, <1>6, <2>1, <2>2
    <3> QED BY <1>1, <1>7, <3>1
  <2>3. CASE ~(i <= Len(tasks))
    <3>1. i - Len(tasks) \in DOMAIN X /\ tasks'[i] = X[i - Len(tasks)]
      BY <1>5, <1>6, <2>1, <2>3
    <3> QED BY <1>4, <1>7, <3>1
  <2> QED BY <2>2, <2>3
<1>8. DOMAIN handlers' = ListId /\ \A l \in ListId : Handling(M, l[2], handlers'[l])
  <2>1. ASSUME NEW l \in ListId PROVE Handling(M, l[2], handlers'[l])
    <3>1. CASE l = h
      BY <1>1, <1>3, <1>6, <3>1
    <3>2. CASE l # h
      BY <1>1, <1>6, <3>2
    <3> QED BY <3>1, <3>2
  <2> QED BY <1>1, <1>6, <2>1
<1> QED BY <1>5, <1>6, <1>7, <1>8 DEF M

\* The loop that is on top.
LEMMA RunsLoop ==
  ASSUME ListInv, Running("loop"), Pending(callbacks[Top.l])
  PROVE  LET l == Top.l
             c == callbacks[l]
         IN /\ stack # <<>> /\ l \in ListId /\ OnTop(stack, Loop(l)) /\ c.firing
            /\ List(c) /\ c.index \in Nat /\ c.index + 1 \in DOMAIN c.list
            /\ Current(c) \in Entries /\ Current(c) = c.list[c.index + 1]
            /\ l # UserList => c.memory \in Value
            /\ Lists(Mine(page), joined, callbacks)
            /\ Outcomes(Mine(page), joined, callbacks, state, stack)
            /\ Loops(callbacks, stack) /\ Frames(Mine(page), joined, stack)
            /\ Typed /\ Joined(Mine(page), joined) /\ SeenIs(seen)
            /\ callbacks \in [ListId -> Listing]
<1> DEFINE M == Mine(page)
           l == Top.l
           c == callbacks[l]
<1>1. /\ Lists(M, joined, callbacks) /\ Outcomes(M, joined, callbacks, state, stack)
      /\ Loops(callbacks, stack) /\ Frames(M, joined, stack)
      /\ Typed /\ Joined(M, joined) /\ SeenIs(seen)
  BY DEF ListInv, Arranged, Typed
<1>2. stack # <<>> /\ Top.at = "loop"
  BY RunsWhat
<1> HIDE DEF M
<1>3. l \in ListId /\ OnTop(stack, Loop(l)) /\ Len(stack) \in DOMAIN stack
  BY <1>1, <1>2, FramesAre, FrameIs DEF Top, OnTop
<1>4. c.firing
  BY <1>1, <1>2, <1>3 DEF Loops, Top
<1>5. List(c) /\ callbacks \in [ListId -> Listing]
  BY <1>1, <1>3 DEF Lists
<1>6. l # UserList => "stopOnFalse" \notin c.options
  <2>1. l # UserList => l \in Deferred \X Kind /\ Options(l[2]) \subseteq {"once", "memory"}
    BY <1>3 DEF ListId, Options
  <2> QED BY <1>1, <2>1 DEF Lists
<1>7. Pending(c)
  OBVIOUS
<1> HIDE DEF l, c
<1>8. /\ c.index \in Nat /\ c.list \in Seq(Entries) /\ c.memory \in Value \cup {None}
      /\ c.gone => c.list = <<>>
  BY <1>5 DEF List, ListOf, Listing, ListingOf
<1>9. c.index + 1 \in DOMAIN c.list /\ Current(c) = c.list[c.index + 1] /\ c.list # <<>>
  BY <1>7, <1>8 DEF Pending, Current
<1>10. Current(c) \in Entries
  BY <1>8, <1>9
<1>11. l # UserList => c.memory \in Value
  BY <1>4, <1>5, <1>6, <1>8, <1>9 DEF List, ListOf
<1> QED BY <1>1, <1>2, <1>3, <1>4, <1>5, <1>8, <1>9, <1>10, <1>11 DEF M, l, c

\* Who is called while it is calm.
LEMMA CalmCurrent ==
  ASSUME NEW M, NEW J, NEW C, Lists(M, J, C), NEW S, Calm(M, J, C, S), NEW l \in ListId,
         C[l].firing, C[l].index \in Nat, C[l].index + 1 \in DOMAIN C[l].list
  PROVE  LET e == C[l].list[C[l].index + 1]
         IN \/ l = UserList /\ e.do = "user"
            \/ l # UserList /\ Late(M, J, e)
            \/ \E d \in Deferred : l = <<d, "notify">> /\ e = Entry("handlers", d, "notify")
<1> DEFINE c == C[l]
           p == c.index + 1
           e == c.list[p]
<1>1. CASE l = UserList
  BY <1>1 DEF Lists
<1>2. ASSUME NEW d \in Deferred, l = <<d, "notify">> PROVE Told(M, J, e, d) /\ l # UserList
  BY <1>2, ListIds DEF Lists
<1>3. ASSUME NEW d \in Deferred, NEW k \in Outs, l = <<d, k>> PROVE Late(M, J, e) /\ l # UserList
  <2>1. Decided(M, J, C, S, d, k)
    <3>1. CalmAt(M, J, C, S, d)
      BY DEF Calm
    <3>2. ~Waiting(M, J, C[<<d, k>>], d, k) /\ ~Dead(C[<<d, k>>])
      BY <1>3 DEF Waiting, Dead
    <3> QED BY <3>1, <3>2, OutIs
  <2>2. (First(M, J, c, d, k) /\ c.index >= 4) \/ Again(M, J, c)
    BY <1>3, <2>1 DEF Decided
  <2>3. l # UserList
    BY <1>3, NobodyElse
  <2>4. CASE First(M, J, c, d, k) /\ c.index >= 4
    BY <2>3, <2>4 DEF First, Starts
  <2>5. CASE Again(M, J, c)
    BY <2>3, <2>5 DEF Again
  <2> QED BY <2>2, <2>4, <2>5
<1>4. l = UserList \/ \E d \in Deferred : l = <<d, "notify">> \/ \E k \in Outs : l = <<d, k>>
  <2>1. \A k \in Kind : k = "notify" \/ k \in Outs
    BY DEF Kind, Outs
  <2> QED BY <2>1, ListIds
<1> QED BY <1>1, <1>2, <1>3, <1>4 DEF Told

LEMMA InvokesUser ==
  ASSUME NEW e, e.do = "user", NEW v, NEW l, NEW C, NEW F, Invoke(e, v, l, C, F)
  PROVE  /\ callbacks' = C /\ stack' = Append(F, Code) /\ UNCHANGED <<inner, joined>>
         /\ seen' = [seen EXCEPT !.log[l] = Append(@, <<e.n, v>>)]
BY DEF Invoke, InvokeState, InvokeDisable, InvokeLock, InvokeHandlers, InvokeScript,
       InvokeSettle, InvokePipe, InvokeUpdate

LEMMA InvokesHandlers ==
  ASSUME NEW d, NEW k, NEW v, NEW l, NEW C, NEW F, Invoke(Entry("handlers", d, k), v, l, C, F)
  PROVE  /\ callbacks' = C /\ stack' = F /\ UNCHANGED <<state, joined, seen>>
         /\ handlers' = [handlers EXCEPT ![<<d, k>>] = Fired(FireWith(handlers[<<d, k>>], v))]
         /\ tasks' = tasks \o Timers(d, k, FireWith(handlers[<<d, k>>], v))
<1> DEFINE e == Entry("handlers", d, k)
<1>1. e.do = "handlers" /\ e.d = d /\ e.k = k
  BY DEF Entry
<1> HIDE DEF e
<1>2. InvokeHandlers(e, v, C, F)
  BY <1>1 DEF Invoke, InvokeState, InvokeDisable, InvokeLock, InvokeScript,
       InvokeSettle, InvokePipe, InvokeUpdate, e
<1> QED BY <1>1, <1>2 DEF InvokeHandlers

LEMMA CalmTurn ==
  ASSUME ListInv, CallNext, Calm(Mine(page), joined, callbacks, state)
  PROVE  Onward
<1> DEFINE M == Mine(page)
           l == Top.l
           c == callbacks[l]
           e == Current(c)
           D == [callbacks EXCEPT ![l] = Advance(c)]
<1>1. /\ Running("loop") /\ Pending(c) /\ Invoke(e, c.memory, l, D, stack)
      /\ UNCHANGED <<fixed, calls>>
  BY DEF CallNext
<1>2. /\ l \in ListId /\ c.firing /\ c.index \in Nat /\ c.index + 1 \in DOMAIN c.list
      /\ e \in Entries /\ e = c.list[c.index + 1]
      /\ l # UserList => c.memory \in Value
      /\ Lists(M, joined, callbacks)
      /\ Loops(callbacks, stack) /\ Frames(M, joined, stack)
      /\ Typed /\ Joined(M, joined) /\ SeenIs(seen)
  BY <1>1, RunsLoop
<1>m. M = Mine(page) /\ Calm(M, joined, callbacks, state)
  OBVIOUS
<1> HIDE DEF M, l
<1>3. /\ Lists(M, joined, D) /\ Calm(M, joined, D, state) /\ Loops(D, stack)
      /\ Keeps(M, callbacks, state, D, state)
  BY <1>2, <1>m, AdvanceKeeps
<1>4. \/ l = UserList /\ e.do = "user"
      \/ l # UserList /\ Late(M, joined, e)
      \/ \E d \in Deferred : l = <<d, "notify">> /\ e = Entry("handlers", d, "notify")
  BY <1>2, <1>m, CalmCurrent
<1>5. SeenIs(seen')
  BY <1>1, <1>2, InvokeSeen
<1> HIDE DEF D, e, c
<1>6. CASE l = UserList /\ e.do = "user"
  <2>1. /\ callbacks' = D /\ stack' = Append(stack, Code) /\ UNCHANGED <<inner, joined>>
    BY <1>1, <1>6, InvokesUser
  <2>2. Arranged(M, joined, D, state, Append(stack, Code))
    <3>1. Frame(M, joined, Code) /\ Code.at # "loop"
      BY CodeIsFrame
    <3> QED BY <1>2, <1>3, <3>1, PushedOnly
  <2>3. Typed'
    BY <1>1, <1>2, <1>5, <1>m, <2>1, TypedSame DEF fixed, inner, CallsGo
  <2> QED BY <1>1, <1>3, <1>m, <2>1, <2>2, <2>3 DEF ListInv, Onward, fixed, inner
<1>7. CASE l # UserList /\ Late(M, joined, e)
  <2>1. /\ Arranged(M, joined', callbacks', state, stack')
        /\ Keeps(M, D, state, callbacks', state)
        /\ UNCHANGED inner /\ Joined(M, joined')
    BY <1>1, <1>2, <1>3, <1>7, <1>m, InvokeLate
  <2>2. Keeps(M, callbacks, state, callbacks', state)
    BY <1>3, <2>1, KeepsTwice
  <2>3. Typed'
    BY <1>1, <1>2, <1>5, <1>m, <2>1, TypedSame DEF fixed, inner, CallsGo
  <2> QED BY <1>1, <1>m, <2>1, <2>2, <2>3 DEF ListInv, Onward, fixed, inner
<1>8. ASSUME NEW d \in Deferred, l = <<d, "notify">>, e = Entry("handlers", d, "notify")
      PROVE  Onward
  <2> DEFINE v == c.memory
             k == "notify"
  <2>1. v \in Value /\ k \in Kind
    <3>1. l # UserList
      BY <1>8, ListIds DEF Kind
    <3> QED BY <1>2, <3>1 DEF Kind
  <2> HIDE DEF v, k
  <2>2. /\ callbacks' = D /\ stack' = stack /\ UNCHANGED <<state, joined, seen>>
        /\ handlers' = [handlers EXCEPT ![<<d, k>>] = Fired(FireWith(handlers[<<d, k>>], v))]
        /\ tasks' = tasks \o Timers(d, k, FireWith(handlers[<<d, k>>], v))
    BY <1>1, <1>8, InvokesHandlers DEF v, k
  <2>3. /\ DOMAIN handlers' = ListId
        /\ \A j \in ListId : Handling(M, j[2], handlers'[j])
        /\ Tasks(M, tasks')
        /\ \A i \in DOMAIN tasks' : tasks'[i].do = "ready" => page.has = "ready"
    BY <1>2, <1>m, <2>1, <2>2, HandlersTyped
  <2>4. Typed'
    <3>1. /\ Joined(M, joined') /\ CallsGo /\ maxDepth' \in [Deferred -> Nat] /\ held' \subseteq Plainly(M)
          /\ state' \in [Deferred -> {"unborn", "pending", "resolved", "rejected"}]
      BY <1>1, <1>2, <1>m, <2>2 DEF Typed, CallsGo, fixed
    <3>2. page.has = "ready" => state'[1] # "unborn"
      BY <1>2, <2>2 DEF Typed
    <3> QED BY <1>1, <1>2, <1>5, <1>m, <2>3, <3>1, <3>2, TypedStep DEF fixed
  <2>5. Arranged(M, joined, D, state, stack)
    BY <1>2, <1>3, CalmEnough DEF Arranged
  <2> QED BY <1>1, <1>3, <1>m, <2>2, <2>4, <2>5 DEF ListInv, Onward, fixed
<1> QED BY <1>4, <1>6, <1>7, <1>8

\* A deferred gets its outcome, and later its handlers are told.
Next1(d, k) == [callbacks EXCEPT ![<<d, k>>] = Advance(callbacks[<<d, k>>])]

Settles(d, k) ==
  /\ First(Mine(page), joined, callbacks[<<d, k>>], d, k) /\ callbacks[<<d, k>>].index = 0
  /\ Open(state, d) /\ OnTop(stack, Loop(<<d, k>>))
  /\ state' = [state EXCEPT ![d] = Final(k)]
  /\ seen' = [seen EXCEPT !.told[d] = callbacks[<<d, "notify">>].memory]
  /\ callbacks' = Next1(d, k)
  /\ UNCHANGED <<stack, handlers, tasks, joined>>

Tells(d, k) ==
  /\ First(Mine(page), joined, callbacks[<<d, k>>], d, k) /\ callbacks[<<d, k>>].index = 3
  /\ state[d] = Final(k) /\ OnTop(stack, Loop(<<d, k>>))
  /\ callbacks' = Next1(d, k)
  /\ LET h == handlers[<<d, k>>]
         v == callbacks[<<d, k>>].memory
     IN /\ handlers' = [handlers EXCEPT ![<<d, k>>] = Fired(FireWith(h, v))]
        /\ tasks' = tasks \o Timers(d, k, FireWith(h, v))
  /\ UNCHANGED <<state, stack, joined, seen>>

\* The lists of others are as calm as they were.
SameBut(D, C, d) ==
  \A e \in Deferred : \A j \in Outs : e # d => D[<<e, j>>] = C[<<e, j>>]

LEMMA OthersCalm ==
  ASSUME NEW M, NEW J, NEW C, NEW S, NEW K, Outcomes(M, J, C, S, K), NEW d \in Deferred,
         NEW k \in Outs, OnTop(K, Loop(<<d, k>>)),
         NEW D, SameBut(D, C, d), NEW R,
         \A e \in Deferred : e # d => R[e] = S[e]
  PROVE  \A e \in Deferred : e # d => CalmAt(M, J, D, R, e)
<1> SUFFICES ASSUME NEW e \in Deferred, e # d
             PROVE  CalmAt(M, J, D, R, e)
  OBVIOUS
<1>1. \A j : ~OnTop(K, Loop(<<e, j>>))
  BY SameName DEF OnTop, Loop
<1>2. CalmAt(M, J, C, S, e)
  BY <1>1 DEF Outcomes, Deciding
<1> QED BY <1>2, CalmSame DEF SameBut

\* What the four turns have in common.
LEMMA FirstTurn ==
  ASSUME NEW M, NEW J, NEW C, Lists(M, J, C), NEW K, Loops(C, K), Frames(M, J, K),
         NEW d \in Deferred, NEW k \in Outs, First(M, J, C[<<d, k>>], d, k),
         C[<<d, k>>].index \in 0..3, NEW e, e = Advance(C[<<d, k>>])
  PROVE  LET l == <<d, k>>
             D == [C EXCEPT ![l] = e]
         IN /\ Lists(M, J, D) /\ Loops(D, K) /\ D[l] = e
            /\ \A j \in ListId : j # l => D[j] = C[j]
            /\ First(M, J, e, d, k) /\ e.index = C[l].index + 1 /\ e.memory = C[l].memory
            /\ e.list = C[l].list
<1> DEFINE l == <<d, k>>
           c == C[l]
           D == [C EXCEPT ![l] = e]
<1>1. l \in ListId
  BY ListIds
<1>2. c.firing
  BY DEF First
<1> HIDE DEF l
<1>3. List(c) /\ C \in [ListId -> Listing]
  BY <1>1 DEF Lists
<1>4. /\ List(e) /\ e.options = c.options /\ e.list = c.list /\ e.gone = c.gone
      /\ e.memory = c.memory /\ e.queue = c.queue /\ e.index = c.index + 1
      /\ e.locked = c.locked /\ e.firing
  <2>1. e = Advance(c)
    BY DEF l
  <2> HIDE DEF c
  <2> QED BY <1>2, <1>3, <2>1, AdvanceIs
<1>5. Lists(M, J, D)
  BY <1>1, <1>4, ListsSame
<1>6. Loops(D, K)
  <2>1. Called(K, l, c, e) = K
    BY <1>2 DEF Called
  <2> QED BY <1>1, <1>2, <1>3, <1>4, <2>1, CalledIs
<1>7. First(M, J, c, d, k)
  BY DEF l
<1>8. First(M, J, e, d, k)
  BY <1>4, <1>7 DEF First
<1>9. D[l] = e /\ \A j \in ListId : j # l => D[j] = C[j]
  BY <1>1, <1>3
<1> HIDE DEF c, D
<1> QED BY <1>4, <1>5, <1>6, <1>8, <1>9 DEF l, c, D

\* An Early list of a deferred.
LEMMA EarlyIs ==
  ASSUME NEW M, NEW J, NEW C, NEW d, NEW k, First(M, J, C[<<d, k>>], d, k)
  PROVE  Early(C, d, k) <=> C[<<d, k>>].index < 4
BY DEF First, Starts, Early, Entry

LEMMA InvokesState ==
  ASSUME NEW d, NEW k, NEW v, NEW l, NEW C, NEW F, Invoke(Entry("state", d, k), v, l, C, F)
  PROVE  /\ callbacks' = C /\ stack' = F /\ UNCHANGED <<handlers, tasks, joined>>
         /\ state' = [state EXCEPT ![d] = Final(k)]
         /\ seen' = [seen EXCEPT !.told[d] = callbacks[<<d, "notify">>].memory]
<1> DEFINE e == Entry("state", d, k)
<1>1. e.do = "state" /\ e.d = d /\ e.k = k
  BY DEF Entry
<1> HIDE DEF e
<1>2. InvokeState(e, C, F)
  BY <1>1 DEF Invoke, InvokeHandlers, InvokeDisable, InvokeLock, InvokeScript,
       InvokeSettle, InvokePipe, InvokeUpdate, e
<1> QED BY <1>1, <1>2 DEF InvokeState

LEMMA InvokesDisable ==
  ASSUME NEW d, NEW k, NEW v, NEW l, NEW C, NEW F, Invoke(Entry("disable", d, k), v, l, C, F)
  PROVE  /\ stack' = F /\ UNCHANGED <<inner, joined, seen>>
         /\ callbacks' = [C EXCEPT ![<<d, k>>] = Disable(C[<<d, k>>])]
<1> DEFINE e == Entry("disable", d, k)
<1>1. e.do = "disable" /\ e.d = d /\ e.k = k
  BY DEF Entry
<1> HIDE DEF e
<1>2. InvokeDisable(e, C, F)
  BY <1>1 DEF Invoke, InvokeHandlers, InvokeState, InvokeLock, InvokeScript,
       InvokeSettle, InvokePipe, InvokeUpdate, e
<1> QED BY <1>1, <1>2 DEF InvokeDisable

LEMMA InvokesLock ==
  ASSUME NEW d, NEW k, NEW v, NEW l, NEW C, NEW F, Invoke(Entry("lock", d, k), v, l, C, F)
  PROVE  /\ stack' = F /\ UNCHANGED <<inner, joined, seen>>
         /\ callbacks' = [C EXCEPT ![<<d, k>>] = Lock(C[<<d, k>>])]
<1> DEFINE e == Entry("lock", d, k)
<1>1. e.do = "lock" /\ e.d = d /\ e.k = k
  BY DEF Entry
<1> HIDE DEF e
<1>2. InvokeLock(e, C, F)
  BY <1>1 DEF Invoke, InvokeHandlers, InvokeState, InvokeDisable, InvokeScript,
       InvokeSettle, InvokePipe, InvokeUpdate, e
<1> QED BY <1>1, <1>2 DEF InvokeLock

LEMMA StageKeeps ==
  ASSUME NEW C, NEW S, NEW D, NEW d \in Deferred, NEW k \in Outs, S[d] = Final(k),
         D[<<d, k>>].memory = C[<<d, k>>].memory, Early(D, d, k) <=> Early(C, d, k),
         \A e \in Deferred : \A j \in Outs : e # d => D[<<e, j>>] = C[<<e, j>>],
         NEW N
  PROVE  Keeps(N, C, S, D, S)
<1>1. ASSUME NEW e \in Deferred, NEW j \in Outs, S[e] = Final(j)
      PROVE  /\ D[<<e, j>>].memory = C[<<e, j>>].memory
             /\ Early(D, e, j) <=> Early(C, e, j)
  <2>1. CASE e = d
    <3>1. j = k
      BY <1>1, <2>1, ListIds
    <3> QED BY <2>1, <3>1
  <2>2. CASE e # d
    BY <2>2 DEF Early
  <2> QED BY <2>1, <2>2
<1>2. ASSUME NEW e \in Deferred, \A j \in Outs : S[e] # Final(j)
      PROVE  \A j \in Outs : D[<<e, j>>].locked = C[<<e, j>>].locked
  BY <1>2
<1> QED BY <1>1, <1>2 DEF Keeps

\* A list of d other than l has changed, and nobody else's.
LEMMA StageLists ==
  ASSUME NEW M, NEW J, NEW D, Lists(M, J, D), NEW K, Loops(D, K), Frames(M, J, K),
         NEW x \in ListId, NEW y, List(y), y.options = D[x].options, y.firing = D[x].firing,
         y.list \in {D[x].list, <<>>}
  PROVE  Lists(M, J, [D EXCEPT ![x] = y]) /\ Loops([D EXCEPT ![x] = y], K)
<1>1. Lists(M, J, [D EXCEPT ![x] = y])
  BY ListsSame
<1>2. D \in [ListId -> Listing] /\ D[x].firing => y.firing
  BY DEF Lists
<1>3. Called(K, x, D[x], y) = K
  BY DEF Called
<1>4. D \in [ListId -> Listing]
  BY DEF Lists
<1>5. Loops([D EXCEPT ![x] = y], Called(K, x, D[x], y))
  BY <1>4, CalledIs
<1> QED BY <1>1, <1>3, <1>5

LEMMA DecidingTurn ==
  ASSUME ListInv, CallNext, NEW d \in Deferred, NEW k \in Outs,
         Deciding(Mine(page), joined, callbacks, state, stack, d, k)
  PROVE  /\ ListInv'
         /\ \/ Keeps(Mine(page), callbacks, state, callbacks', state') /\ UNCHANGED <<inner, seen>>
            \/ Settles(d, k) \/ Tells(d, k)
<1> DEFINE M == Mine(page)
           l == <<d, k>>
           c == callbacks[l]
           a == Advance(c)
           D == [callbacks EXCEPT ![l] = a]
           o == <<d, Other(k)>>
           f == Current(c)
<1>1. /\ First(M, joined, c, d, k) /\ OnTop(stack, Loop(l))
      /\ \/ c.index = 0 /\ Open(state, d) /\ Waiting(M, joined, callbacks[o], d, Other(k))
         \/ c.index = 1 /\ state[d] = Final(k) /\ Waiting(M, joined, callbacks[o], d, Other(k))
         \/ c.index \in {2, 3} /\ state[d] = Final(k) /\ Dead(callbacks[o])
  BY DEF Deciding
<1>2. /\ Running("loop") /\ Pending(c) /\ Invoke(f, c.memory, l, D, stack)
      /\ UNCHANGED <<fixed, calls>> /\ Top.l = l
  <2>1. Top = Loop(l)
    BY <1>1 DEF OnTop, Top
  <2>2. Top.l = l
    BY <2>1 DEF Loop
  <2> HIDE DEF l
  <2> QED BY <2>2 DEF CallNext
<1>3. /\ l \in ListId /\ o \in ListId /\ <<d, "notify">> \in ListId
      /\ o # l /\ <<d, "notify">> # l /\ <<d, "notify">> # o /\ l # UserList
      /\ k \in Kind /\ Other(k) \in Outs /\ Other(k) # k /\ Other(Other(k)) = k
      /\ \A e \in Deferred, j \in Outs :
           e # d => <<e, j>> # l /\ <<e, j>> # o /\ <<e, j>> # <<d, "notify">> /\ <<e, j>> \in ListId
  BY ListIds DEF Outs, Kind
<1>4. /\ f = c.list[c.index + 1] /\ c.memory \in Value
      /\ Lists(M, joined, callbacks)
      /\ Outcomes(M, joined, callbacks, state, stack)
      /\ Loops(callbacks, stack) /\ Frames(M, joined, stack)
      /\ Typed /\ Joined(M, joined) /\ SeenIs(seen)
  <2> HIDE DEF l, M
  <2>1. Pending(callbacks[Top.l])
    BY <1>2
  <2> QED BY <1>2, <1>3, <2>1, RunsLoop DEF M
<1>m. M = Mine(page) /\ M \in SUBSET Deferred
  BY MineIs
<1> HIDE DEF M
<1>5. /\ Lists(M, joined, D) /\ Loops(D, stack) /\ D[l] = a
      /\ \A j \in ListId : j # l => D[j] = callbacks[j]
      /\ First(M, joined, a, d, k) /\ a.index = c.index + 1 /\ a.memory = c.memory
      /\ a.list = c.list
  BY <1>1, <1>4, FirstTurn
<1>6. /\ c.index = 0 => f = Entry("state", d, k)
      /\ c.index = 1 => f = Entry("disable", d, Other(k))
      /\ c.index = 2 => f = Entry("lock", d, "notify")
      /\ c.index = 3 => f = Entry("handlers", d, k)
  BY <1>1, <1>4 DEF First, Starts
<1>7. SeenIs(seen')
  BY <1>2, <1>4, InvokeSeen
<1> HIDE DEF D, f, a, c, l, o
<1>8. ASSUME UNCHANGED <<handlers, tasks, joined>>,
             state' = state \/ state' = [state EXCEPT ![d] = Final(k)]
      PROVE  Typed'
  <2>1. /\ Joined(M, joined') /\ CallsGo /\ maxDepth' \in [Deferred -> Nat] /\ held' \subseteq Plainly(M)
        /\ DOMAIN handlers' = ListId /\ \A j \in ListId : Handling(M, j[2], handlers'[j])
        /\ Tasks(M, tasks')
        /\ \A i \in DOMAIN tasks' : tasks'[i].do = "ready" => page.has = "ready"
    BY <1>2, <1>4, <1>8, <1>m DEF Typed, CallsGo, fixed
  <2>2. state' \in [Deferred -> {"unborn", "pending", "resolved", "rejected"}]
        /\ (page.has = "ready" => state'[1] # "unborn")
    <3>1. Final(k) \in {"resolved", "rejected"}
      BY DEF Final
    <3> QED BY <1>4, <1>8, <3>1 DEF Typed
  <2> QED BY <1>2, <1>4, <1>7, <1>m, <2>1, <2>2, TypedStep DEF fixed
<1>a. OnTop(stack, Loop(<<d, k>>))
  BY <1>1 DEF l
<1>b. SameBut(D, callbacks, d)
  BY <1>3, <1>5 DEF SameBut
<1>9. CASE c.index = 0
  <2>1. /\ callbacks' = D /\ stack' = stack /\ UNCHANGED <<handlers, tasks, joined>>
        /\ state' = [state EXCEPT ![d] = Final(k)]
        /\ seen' = [seen EXCEPT !.told[d] = callbacks[<<d, "notify">>].memory]
    BY <1>2, <1>6, <1>9, InvokesState
  <2>2. Typed'
    BY <1>8, <2>1
  <2>3. state'[d] = Final(k) /\ \A e \in Deferred : e # d => state'[e] = state[e]
    BY <1>4, <2>1 DEF Typed
  <2>4. \A e \in Deferred : e # d => CalmAt(M, joined, D, state', e)
    <3> DEFINE R == state'
    <3>1. \A e \in Deferred : e # d => R[e] = state[e]
      BY <2>3
    <3> HIDE DEF R
    <3> QED BY <1>4, <1>a, <1>b, <3>1, OthersCalm DEF R
  <2>5. Deciding(M, joined, D, state', stack, d, k)
    BY <1>1, <1>3, <1>5, <1>9, <2>3 DEF Deciding, l, o
  <2>6. Outcomes(M, joined, D, state', stack)
    BY <2>4, <2>5 DEF Outcomes
  <2>7. ListInv'
    BY <1>2, <1>4, <1>5, <1>m, <2>1, <2>2, <2>6 DEF ListInv, Arranged, fixed
  <2>8. Settles(d, k)
    BY <1>1, <1>9, <1>m, <2>1 DEF Settles, Next1, D, a, l, c
  <2> QED BY <2>7, <2>8
<1>10. CASE c.index = 1
  <2> DEFINE y == Disable(D[o])
             E == [D EXCEPT ![o] = y]
  <2>1. /\ callbacks' = E /\ stack' = stack /\ UNCHANGED <<inner, joined, seen>>
    BY <1>2, <1>6, <1>10, InvokesDisable DEF o
  <2>2. D[o] = callbacks[o] /\ Waiting(M, joined, callbacks[o], d, Other(k)) /\ List(D[o])
        /\ state[d] = Final(k)
    BY <1>1, <1>3, <1>5, <1>10 DEF Lists
  <2>3. /\ List(y) /\ y.options = D[o].options /\ y.list = <<>> /\ y.firing = D[o].firing /\ Dead(y)
    <3> DEFINE z == D[o]
    <3>1. List(z) /\ ~z.firing /\ y = Disable(z)
      BY <2>2 DEF Waiting
    <3> HIDE DEF z, y
    <3>2. /\ List(y) /\ y.options = z.options /\ y.list = <<>> /\ y.gone
          /\ y.memory = None /\ y.locked /\ y.firing = z.firing
      BY <3>1, DisableIs
    <3> QED BY <3>1, <3>2 DEF Dead, z
  <2> HIDE DEF y
  <2>4. Lists(M, joined, E) /\ Loops(E, stack)
    BY <1>3, <1>4, <1>5, <2>3, StageLists
  <2>5. E[o] = y /\ E[l] = a /\ \A e \in Deferred, j \in Outs : e # d => E[<<e, j>>] = callbacks[<<e, j>>]
    <3>1. D \in [ListId -> Listing]
      BY <1>5 DEF Lists
    <3> QED BY <1>3, <1>5, <3>1
  <2> HIDE DEF E
  <2>6. \A e \in Deferred : e # d => CalmAt(M, joined, E, state, e)
    <3>1. SameBut(E, callbacks, d)
      BY <2>5 DEF SameBut
    <3>2. \A e \in Deferred : e # d => state[e] = state[e]
      OBVIOUS
    <3> QED BY <1>4, <1>a, <3>1, <3>2, OthersCalm
  <2>7. Deciding(M, joined, E, state, stack, d, k)
    <3>1. a.index = 2
      BY <1>5, <1>10
    <3> QED BY <1>1, <1>5, <2>2, <2>3, <2>5, <3>1 DEF Deciding, l, o
  <2>8. Outcomes(M, joined, E, state, stack)
    BY <2>6, <2>7 DEF Outcomes
  <2>9. Typed'
    BY <1>8, <2>1 DEF inner
  <2>10. ListInv'
    BY <1>2, <1>4, <1>m, <2>1, <2>4, <2>8, <2>9 DEF ListInv, Arranged, fixed, inner
  <2>11. Early(E, d, k) <=> Early(callbacks, d, k)
    <3>1. First(M, joined, E[<<d, k>>], d, k) /\ E[<<d, k>>].index < 4
      BY <1>5, <1>10, <2>5 DEF l
    <3>2. First(M, joined, callbacks[<<d, k>>], d, k) /\ callbacks[<<d, k>>].index < 4
      BY <1>1, <1>10 DEF l, c
    <3> QED BY <3>1, <3>2, EarlyIs
  <2>12. Keeps(M, callbacks, state, E, state)
    <3>1. E[<<d, k>>].memory = callbacks[<<d, k>>].memory
      BY <1>5, <2>5 DEF l, c
    <3> QED BY <2>2, <2>5, <2>11, <3>1, StageKeeps
  <2> QED BY <1>m, <2>1, <2>10, <2>12 DEF inner
<1>11. CASE c.index = 2
  <2> DEFINE x == <<d, "notify">>
             y == Lock(D[x])
             E == [D EXCEPT ![x] = y]
  <2>1. /\ callbacks' = E /\ stack' = stack /\ UNCHANGED <<inner, joined, seen>>
    BY <1>2, <1>6, <1>11, InvokesLock
  <2>2. D[x] = callbacks[x] /\ Dead(callbacks[o]) /\ List(D[x])
        /\ state[d] = Final(k)
    BY <1>1, <1>3, <1>5, <1>11 DEF Lists
  <2>3. /\ List(y) /\ y.options = D[x].options /\ y.list \in {D[x].list, <<>>} /\ y.firing = D[x].firing
    <3> DEFINE z == D[x]
    <3>1. List(z) /\ y = Lock(z)
      BY <2>2
    <3> HIDE DEF z, y
    <3>2. /\ List(y) /\ y.options = z.options /\ y.list \in {z.list, <<>>} /\ y.firing = z.firing
      BY <3>1, LockIs
    <3> QED BY <3>1, <3>2 DEF z
  <2>x. x \in ListId /\ x # l /\ x # o
    BY <1>3
  <2>y. \A e \in Deferred, j \in Outs : e # d => <<e, j>> # x
    BY <1>3
  <2> HIDE DEF y, x
  <2>4. Lists(M, joined, E) /\ Loops(E, stack)
    BY <1>4, <1>5, <2>3, <2>x, StageLists
  <2>5. /\ E[o] = callbacks[o] /\ E[l] = a
        /\ \A e \in Deferred, j \in Outs : e # d => E[<<e, j>>] = callbacks[<<e, j>>]
    <3>1. D \in [ListId -> Listing]
      BY <1>5 DEF Lists
    <3> QED BY <1>3, <1>5, <2>x, <2>y, <3>1
  <2> HIDE DEF E
  <2>6. \A e \in Deferred : e # d => CalmAt(M, joined, E, state, e)
    <3>1. SameBut(E, callbacks, d)
      BY <2>5 DEF SameBut
    <3>2. \A e \in Deferred : e # d => state[e] = state[e]
      OBVIOUS
    <3> QED BY <1>4, <1>a, <3>1, <3>2, OthersCalm
  <2>7. Deciding(M, joined, E, state, stack, d, k)
    <3>1. a.index = 3
      BY <1>5, <1>11
    <3> QED BY <1>1, <1>5, <2>2, <2>5, <3>1 DEF Deciding, l, o
  <2>8. Outcomes(M, joined, E, state, stack)
    BY <2>6, <2>7 DEF Outcomes
  <2>9. Typed'
    BY <1>8, <2>1 DEF inner
  <2>10. ListInv'
    BY <1>2, <1>4, <1>m, <2>1, <2>4, <2>8, <2>9 DEF ListInv, Arranged, fixed, inner
  <2>11. Early(E, d, k) <=> Early(callbacks, d, k)
    <3>1. First(M, joined, E[<<d, k>>], d, k) /\ E[<<d, k>>].index < 4
      BY <1>5, <1>11, <2>5 DEF l
    <3>2. First(M, joined, callbacks[<<d, k>>], d, k) /\ callbacks[<<d, k>>].index < 4
      BY <1>1, <1>11 DEF l, c
    <3> QED BY <3>1, <3>2, EarlyIs
  <2>12. Keeps(M, callbacks, state, E, state)
    <3>1. E[<<d, k>>].memory = callbacks[<<d, k>>].memory
      BY <1>5, <2>5 DEF l, c
    <3> QED BY <2>2, <2>5, <2>11, <3>1, StageKeeps
  <2> QED BY <1>m, <2>1, <2>10, <2>12 DEF inner
<1>12. CASE c.index = 3
  <2> DEFINE v == c.memory
  <2>0. Invoke(Entry("handlers", d, k), v, l, D, stack)
    BY <1>2, <1>6, <1>12
  <2>v. v = callbacks[<<d, k>>].memory /\ v \in Value
    BY <1>4 DEF c, l
  <2> HIDE DEF v
  <2>1. /\ callbacks' = D /\ stack' = stack /\ UNCHANGED <<state, joined, seen>>
        /\ handlers' = [handlers EXCEPT ![<<d, k>>] = Fired(FireWith(handlers[<<d, k>>], v))]
        /\ tasks' = tasks \o Timers(d, k, FireWith(handlers[<<d, k>>], v))
    BY <2>0, InvokesHandlers
  <2>2. state[d] = Final(k) /\ Dead(D[o]) /\ a.index >= 4
    BY <1>1, <1>3, <1>5, <1>12
  <2>3. /\ DOMAIN handlers' = ListId
        /\ \A j \in ListId : Handling(M, j[2], handlers'[j])
        /\ Tasks(M, tasks')
        /\ \A i \in DOMAIN tasks' : tasks'[i].do = "ready" => page.has = "ready"
    BY <1>3, <1>4, <1>m, <2>1, <2>v, HandlersTyped
  <2>4. Typed'
    <3>1. /\ Joined(M, joined') /\ CallsGo /\ maxDepth' \in [Deferred -> Nat] /\ held' \subseteq Plainly(M)
          /\ state' \in [Deferred -> {"unborn", "pending", "resolved", "rejected"}]
      BY <1>2, <1>4, <1>m, <2>1 DEF Typed, CallsGo, fixed
    <3>2. page.has = "ready" => state'[1] # "unborn"
      BY <1>4, <2>1 DEF Typed
    <3> QED BY <1>2, <1>4, <1>7, <1>m, <2>3, <3>1, <3>2, TypedStep DEF fixed
  <2>5. \A e \in Deferred : e # d => CalmAt(M, joined, D, state, e)
    <3>2. \A e \in Deferred : e # d => state[e] = state[e]
      OBVIOUS
    <3> QED BY <1>4, <1>a, <1>b, <3>2, OthersCalm
  <2>6. Decided(M, joined, D, state, d, k)
    BY <1>5, <2>2 DEF Decided, l, o
  <2>7. Outcomes(M, joined, D, state, stack)
    BY <2>5, <2>6 DEF Outcomes, CalmAt
  <2>8. ListInv'
    BY <1>2, <1>4, <1>5, <1>m, <2>1, <2>4, <2>7 DEF ListInv, Arranged, fixed
  <2>9. callbacks' = Next1(d, k)
    BY <2>1 DEF Next1, D, a, c, l
  <2>10. Tells(d, k)
    BY <1>1, <1>12, <1>m, <2>1, <2>2, <2>v, <2>9 DEF Tells, l, c
  <2> QED BY <2>8, <2>10
<1> QED BY <1>1, <1>9, <1>10, <1>11, <1>12

LEMMA CallNextGoes ==
  ASSUME ListInv, CallNext
  PROVE  /\ ListInv'
         /\ \/ Keeps(Mine(page), callbacks, state, callbacks', state')
            \/ \E d \in Deferred, k \in Outs : Settles(d, k) \/ Tells(d, k)
<1>1. Outcomes(Mine(page), joined, callbacks, state, stack)
  BY DEF ListInv, Arranged
<1>2. CASE Calm(Mine(page), joined, callbacks, state)
  BY <1>2, CalmTurn DEF Onward
<1>3. CASE \E d \in Deferred, k \in Outs : Deciding(Mine(page), joined, callbacks, state, stack, d, k)
  BY <1>3, DecidingTurn
<1> QED BY <1>1, <1>2, <1>3 DEF Outcomes, Calm

-----------------------------------------------------------------------------
(* All steps *)

\* What settles or tells nobody, and what readiness does not.
Ordinary ==
  \/ CallAdd \/ CallMethod \/ CallFire \/ CallAlways \/ CallThen
  \/ CallPipe \/ CallHeld \/ CallWhen \/ CallReady \/ ThrowError
  \/ EndLoop \/ AddNext
  \/ IgnoreStale \/ CallHandler \/ GotNothing \/ GotItself
  \/ GotPromise \/ GotThenable \/ GotValue \/ Catch \/ EndProcess
  \/ WhenSingle \/ WhenDecide \/ WhenNext
  \/ ReturnToLoop \/ ReturnToThen \/ ReturnToPipe \/ ReturnFromScript
  \/ RunProcess \/ RunScript

LEMMA OrdinaryGoes == ASSUME ListInv, Ordinary PROVE Onward
BY CallAddGoes, CallMethodGoes, CallFireGoes, CallAlwaysGoes, CallThenGoes, CallPipeGoes,
   CallHeldGoes, CallWhenGoes, CallReadyGoes, ThrowErrorGoes, EndLoopGoes, AddNextGoes,
   IgnoreStaleGoes, CallHandlerGoes, GotNothingGoes, GotItselfGoes, GotPromiseGoes,
   GotThenableGoes, GotValueGoes, CatchGoes, EndProcessGoes, WhenSingleGoes, WhenDecideGoes,
   WhenNextGoes, ReturnToLoopGoes, ReturnToThenGoes, ReturnToPipeGoes, ReturnFromScriptGoes,
   RunProcessGoes, RunScriptGoes
   DEF Ordinary

LEMMA NextIsStep ==
  ASSUME Next
  PROVE  Ordinary \/ CallNext \/ CallHold \/ DocumentEvent \/ RunReady
BY DEF Next, Call, Turn, Ordinary

LEMMA StepGoes ==
  ASSUME ListInv, Next
  PROVE  /\ ListInv'
         /\ \/ Keeps(Deferred, callbacks, state, callbacks', state')
            \/ \E d \in Deferred, k \in Outs : Settles(d, k) \/ Tells(d, k)
<1>1. CASE Ordinary
  BY <1>1, OrdinaryGoes, OnwardIs DEF Onward, Advanced
<1>2. CASE CallNext
  BY <1>2, CallNextGoes, MineIs DEF Keeps
<1>3. CASE CallHold \/ DocumentEvent \/ RunReady
  BY <1>3, CallHoldGoes, DocumentEventGoes, RunReadyGoes DEF Advanced
<1> QED BY <1>1, <1>2, <1>3, NextIsStep

LEMMA StutterGoes ==
  ASSUME ListInv, UNCHANGED vars
  PROVE  ListInv'
<1>1. /\ page' = page /\ calls' = calls /\ callbacks' = callbacks /\ handlers' = handlers
      /\ state' = state /\ maxDepth' = maxDepth /\ stack' = stack /\ tasks' = tasks
      /\ held' = held /\ joined' = joined /\ seen' = seen
  BY DEF vars
<1>2. Typed'
  BY <1>1 DEF ListInv, Typed
<1>3. Arranged(Mine(page), joined, callbacks, state, stack)'
  BY <1>1 DEF ListInv
<1> QED BY <1>2, <1>3 DEF ListInv

-----------------------------------------------------------------------------
(* The start *)

LEMMA NewIs ==
  ASSUME NEW E, NEW options \in SUBSET Option
  PROVE  /\ ListOf(E, New(options)) /\ New(options).options = options
         /\ New(options).list = <<>> /\ ~New(options).gone /\ New(options).memory = None
         /\ ~New(options).locked /\ ~New(options).firing /\ New(options).index = 0
BY EmptyIsSeq DEF ListOf, ListingOf, New

LEMMA ListenersAre ==
  ASSUME NEW d \in Deferred, NEW k \in Kind
  PROVE  /\ Listeners(d, k) \in Seq(Entries)
         /\ k # "notify" => \A M, J : Starts(M, J, Listeners(d, k), d, k)
         /\ k = "notify" => Listeners(d, k) = <<Entry("handlers", d, "notify")>>
<1>1. \A do \in Doing, j \in Kind : Entry(do, d, j) \in Entries
  BY DEF Entry, Entries, Nobody
<1>2. {"state", "disable", "lock", "handlers"} \subseteq Doing /\ "notify" \in Kind /\ Other(k) \in Kind
  BY DEF Doing, Kind, Other
<1>3. CASE k = "notify"
  <2> DEFINE x == Entry("handlers", d, k)
  <2>1. x \in Entries
    BY <1>1, <1>2
  <2> HIDE DEF x
  <2>2. Listeners(d, k) = <<x>> /\ <<x>> \in Seq(Entries)
    BY <1>3, <2>1 DEF Listeners, x
  <2> QED BY <1>3, <2>2 DEF x
<1>4. CASE k # "notify"
  <2> DEFINE x == Entry("state", d, k)
             y == Entry("disable", d, Other(k))
             z == Entry("lock", d, "notify")
             w == Entry("handlers", d, k)
             s == <<x, y, z, w>>
  <2>1. x \in Entries /\ y \in Entries /\ z \in Entries /\ w \in Entries
    BY <1>1, <1>2
  <2>2. Listeners(d, k) = s
    BY <1>4 DEF Listeners
  <2>3. s \in Seq(Entries) /\ Len(s) = 4 /\ s[1] = x /\ s[2] = y /\ s[3] = z /\ s[4] = w
        /\ DOMAIN s = 1..4
    <3> HIDE DEF x, y, z, w
    <3> QED BY <2>1
  <2> HIDE DEF s
  <2>4. \A M, J : Starts(M, J, s, d, k)
    BY <2>3 DEF Starts
  <2> QED BY <1>4, <2>2, <2>3, <2>4
<1> QED BY <1>3, <1>4

\* A list of a deferred at the start.
LEMMA BornListIs ==
  ASSUME NEW d \in Deferred, NEW k \in Kind, NEW c,
         c = [New(Options(k)) EXCEPT !.list = Listeners(d, k)]
  PROVE  /\ List(c) /\ c.options = Options(k) /\ c.list = Listeners(d, k) /\ ~c.gone
         /\ c.memory = None /\ ~c.locked /\ ~c.firing
<1> DEFINE n == New(Options(k))
           s == Listeners(d, k)
<1>1. Options(k) \in SUBSET Option
  BY DEF Options, Option
<1>2. /\ ListOf(Entries, n) /\ n.options = Options(k) /\ ~n.gone /\ n.memory = None
      /\ ~n.locked /\ ~n.firing /\ n.index = 0 /\ s \in Seq(Entries)
  BY <1>1, NewIs, ListenersAre
<1>3. c = [n EXCEPT !.list = s]
  OBVIOUS
<1> HIDE DEF n, s
<1>4. /\ c.options = n.options /\ c.list = s /\ c.gone = n.gone /\ c.memory = n.memory
      /\ c.locked = n.locked /\ c.firing = n.firing /\ c.index = n.index /\ c.queue = n.queue
      /\ c \in ListingOf(Entries)
  BY <1>2, <1>3 DEF ListOf, ListingOf
<1>5. List(c)
  BY <1>2, <1>4 DEF List, ListOf
<1> QED BY <1>2, <1>4, <1>5 DEF s

LEMMA InitIs == ASSUME Init PROVE ListInv
<1> DEFINE M == Mine(page)
<1>1. /\ page \in Page /\ calls = 0 /\ stack = <<>> /\ held = {} /\ joined = NoWhen
      /\ callbacks = [l \in ListId |->
           IF l = UserList THEN New(page.options)
           ELSE [New(Options(l[2])) EXCEPT !.list = Listeners(l[1], l[2])]]
      /\ handlers = [l \in ListId |-> New(Options(l[2]))]
      /\ state = [d \in Deferred |-> IF d <= page.roots THEN "pending" ELSE "unborn"]
      /\ maxDepth = [d \in Deferred |-> 0]
  BY DEF Init
<1>2. tasks = <<>> \/ (tasks = <<[do |-> "ready"]>> /\ page.has = "ready")
  BY DEF Init
<1>3. SeenIs(seen)
  <2>1. DOMAIN seen = SeenField /\ seen.adds = [l \in ListId |-> 0]
    BY DEF Init, SeenField
  <2> QED BY <2>1 DEF SeenIs
<1>4. /\ page.options \in SUBSET Option /\ page.calls \in Nat
      /\ page.has = "ready" => page.roots = 1
      /\ page.roots \in 0..page.makes /\ page.makes \in 0..MaxDeferred /\ MaxDeferred \in Nat
  BY <1>1, DeferredAssumption
<1>5. Joined(M, joined)
  <2>1. <<>> \in Seq(Value)
    BY EmptyIsSeq
  <2>2. DOMAIN <<>> = {}
    OBVIOUS
  <2> QED BY <1>1, <2>1, <2>2 DEF Joined, NoWhen
<1>6. DOMAIN handlers = ListId /\ \A l \in ListId : Handling(M, l[2], handlers[l])
  <2>1. ASSUME NEW l \in ListId PROVE Handling(M, l[2], handlers[l])
    <3> DEFINE k == l[2]
               c == handlers[l]
    <3>1. k \in Kind /\ Options(k) \in SUBSET Option /\ c = New(Options(k))
      BY <1>1 DEF ListId, UserList, Kind, Options, Option
    <3> HIDE DEF k, c
    <3>2. /\ ListOf(Hands(M), c) /\ c.options = Options(k)
          /\ c.list = <<>> /\ ~c.gone /\ c.memory = None /\ ~c.locked /\ ~c.firing
      BY <3>1, NewIs
    <3>3. Handling(M, k, c)
      BY <3>2 DEF Handling
    <3> QED BY <3>3 DEF k, c
  <2> QED BY <1>1, <2>1
<1>7. Tasks(M, tasks) /\ \A i \in DOMAIN tasks : tasks[i].do = "ready" => page.has = "ready"
  <2>1. CASE tasks = <<>>
    <3>1. tasks \in Seq({}) /\ DOMAIN tasks = {}
      BY <2>1
    <3> QED BY <3>1 DEF Tasks
  <2>2. CASE tasks = <<[do |-> "ready"]>> /\ page.has = "ready"
    <3> DEFINE t == [do |-> "ready"]
    <3>1. Task(M, t)
      BY DEF Task
    <3>2. tasks = <<t>>
      BY <2>2
    <3> HIDE DEF t
    <3> DEFINE U == {t}
    <3>3. t \in U /\ (\A x \in U : x = t)
      OBVIOUS
    <3> HIDE DEF U
    <3>4. <<t>> \in Seq(U)
      BY <3>3
    <3>5. tasks \in Seq(U) /\ DOMAIN tasks = {1} /\ tasks[1] = t
      BY <3>2, <3>4
    <3>6. Tasks(M, tasks)
      BY <3>1, <3>3, <3>5 DEF Tasks
    <3> QED BY <2>2, <3>6
  <2> QED BY <1>2, <2>1, <2>2
<1>8. /\ state \in [Deferred -> {"unborn", "pending", "resolved", "rejected"}]
      /\ maxDepth \in [Deferred -> Nat]
      /\ page.has = "ready" => 1 \in Deferred /\ state[1] # "unborn"
      /\ \A d \in Deferred : Open(state, d)
  <2>1. page.has = "ready" => 1 \in Deferred /\ 1 <= page.roots
    BY <1>4 DEF Deferred
  <2> QED BY <1>1, <2>1 DEF Open
<1>9. Typed
  BY <1>1, <1>3, <1>4, <1>5, <1>6, <1>7, <1>8 DEF Typed
<1> HIDE DEF M
<1>10. /\ callbacks[UserList] = New(page.options)
       /\ \A d \in Deferred : \A k \in Kind :
            callbacks[<<d, k>>] = [New(Options(k)) EXCEPT !.list = Listeners(d, k)]
  BY <1>1, ListIds
<1>11. /\ List(callbacks[UserList]) /\ callbacks[UserList].list = <<>>
  BY <1>4, <1>10, NewIs DEF List
<1>12. \A d \in Deferred : \A k \in Kind :
         LET c == callbacks[<<d, k>>]
         IN /\ List(c) /\ c.options = Options(k) /\ c.list = Listeners(d, k) /\ ~c.gone
            /\ c.memory = None /\ ~c.locked /\ ~c.firing
  BY <1>10, BornListIs
<1>13. Lists(M, joined, callbacks)
  <2>1. \A l \in ListId : List(callbacks[l])
    BY <1>11, <1>12, ListIds
  <2>2. callbacks \in [ListId -> Listing]
    BY <1>1, <2>1 DEF List, ListOf, Listing
  <2>3. \A l \in Deferred \X Kind : callbacks[l].options = Options(l[2])
    BY <1>12
  <2>4. \A d \in Deferred : \A p \in DOMAIN callbacks[<<d, "notify">>].list :
          Told(M, joined, callbacks[<<d, "notify">>].list[p], d)
    <3> SUFFICES ASSUME NEW d \in Deferred, NEW p \in DOMAIN callbacks[<<d, "notify">>].list
                 PROVE  Told(M, joined, callbacks[<<d, "notify">>].list[p], d)
      OBVIOUS
    <3> DEFINE x == Entry("handlers", d, "notify")
    <3>1. callbacks[<<d, "notify">>].list = <<x>>
      BY <1>12, ListenersAre, ListIds
    <3> HIDE DEF x
    <3>2. callbacks[<<d, "notify">>].list[p] = x
      BY <3>1
    <3> QED BY <3>2 DEF Told, x
  <2> QED BY <1>11, <2>1, <2>2, <2>3, <2>4 DEF Lists
<1>14. Calm(M, joined, callbacks, state)
  <2>1. ASSUME NEW d \in Deferred, NEW k \in Outs
        PROVE  Waiting(M, joined, callbacks[<<d, k>>], d, k)
    <3>1. k \in Kind /\ k # "notify"
      BY DEF Outs, Kind
    <3>2. Starts(M, joined, Listeners(d, k), d, k)
      BY <3>1, ListenersAre
    <3> QED BY <1>12, <3>1, <3>2 DEF Waiting
  <2> QED BY <1>8, <2>1 DEF Calm, CalmAt, Undecided
<1>15. Arranged(M, joined, callbacks, state, stack)
  BY <1>1, <1>13, <1>14, CalmEnough, NoFrames DEF Arranged
<1> QED BY <1>9, <1>15 DEF ListInv, M

\* However the functions of the page call each other, a deferred is undecided, being decided
\* by the innermost call, or decided for good with its other list dead; no list has
\* two loops; and every call under way has what it needs to go on.
THEOREM ListsStayArranged == Spec => []ListInv
<1>1. Init => ListInv
  BY InitIs
<1>2. ListInv /\ [Next]_vars => ListInv'
  BY StepGoes, StutterGoes
<1> QED BY <1>1, <1>2, PTL DEF Spec

\* DeferredsSpec!TypeOK: a list that is gone is empty, handlers are not fired within
\* themselves, and frames, timers and values are of their kinds.
THEOREM DeferredsAreTyped == Spec => []TypeOK
<1>1. ListInv => TypeOK
  <2> SUFFICES ASSUME ListInv PROVE TypeOK
    OBVIOUS
  <2>1. /\ Typed /\ Lists(Mine(page), joined, callbacks) /\ Loops(callbacks, stack)
        /\ Frames(Mine(page), joined, stack) /\ Joined(Mine(page), joined)
    BY DEF ListInv, Arranged, Typed
  <2>2. ASSUME NEW l \in ListId
        PROVE  /\ callbacks[l].memory \in Value \cup {None}
               /\ callbacks[l].gone => callbacks[l].list = <<>>
               /\ ~handlers[l].firing
    <3>1. List(callbacks[l]) /\ Handling(Mine(page), l[2], handlers[l])
      BY <2>1 DEF Lists, Typed
    <3> QED BY <3>1 DEF List, ListOf, Listing, ListingOf, Handling
  <2>3. ASSUME NEW l \in ListId
        PROVE  Cardinality({i \in DOMAIN stack : stack[i] = Loop(l)})
                 <= (IF callbacks[l].firing THEN 1 ELSE 0)
    <3> DEFINE T == {i \in DOMAIN stack : stack[i] = Loop(l)}
    <3>1. Loop(l).at = "loop" /\ Loop(l).l = l
      BY DEF Loop
    <3>2. \A i, j \in T : i = j
      BY <2>1, <3>1 DEF Loops
    <3>3. ~callbacks[l].firing => T = {}
      BY <2>1, <3>1 DEF Loops
    <3> HIDE DEF T
    <3>4. T = {} \/ \E i \in T : T = {i}
      BY <3>2
    <3>5. T # {} => callbacks[l].firing
      BY <3>3
    <3>6. Cardinality(T) = IF T = {} THEN 0 ELSE 1
      BY <3>4, FS_EmptySet, FS_Singleton
    <3>7. Cardinality(T) <= (IF callbacks[l].firing THEN 1 ELSE 0)
      BY <3>5, <3>6
    <3> QED BY <3>7 DEF T
  <2> QED BY <2>1, <2>2, <2>3 DEF TypeOK, Typed, Joined
<1> QED BY <1>1, ListsStayArranged, PTL

-----------------------------------------------------------------------------
(* What a step does to handlers and timers *)

SeenStays == seen'.thens = seen.thens /\ seen'.ran = seen.ran

\* A step that has to do with nobody's then().
Still == UNCHANGED <<page, readiness, handlers, tasks>> /\ SeenStays

\* then(): e is asked for a reaction for the sake of d.
Asks(e, on, d) ==
  /\ e \in Deferred /\ d \in Mine(page) \cup {Nobody}
  /\ \A k \in Kind : on[k] \in Nested(Mine(page))
  /\ Then(e, on, d)
  /\ seen'.thens = [seen.thens EXCEPT ![e] = Append(@, d)] /\ seen'.ran = seen.ran
  /\ UNCHANGED <<page, readiness>>

\* ready(): one then() after the other.
AsksTwice(e, on, d, or, b) ==
  LET hs == HandlersAfter(handlers, e, on, d)
  IN /\ e \in Deferred /\ d # e /\ d \in Mine(page) /\ b \in Mine(page)
     /\ \A k \in Kind : on[k] \in Nested(Mine(page)) /\ or[k] \in Nested(Mine(page))
     /\ handlers' = HandlersAfter(hs, d, or, b)
     /\ tasks' = (tasks \o TimersOf(handlers, e, on, d)) \o TimersOf(hs, d, or, b)
     /\ seen'.thens = [seen.thens EXCEPT ![e] = Append(@, d), ![d] = Append(@, b)]
     /\ seen'.ran = seen.ran
     /\ UNCHANGED <<page, readiness>>

\* The progress handlers of d are told.
Notifies(d) ==
  LET l == <<d, "notify">>
      v == callbacks[l].memory
  IN /\ v \in Value
     /\ handlers' = [handlers EXCEPT ![l] = Fired(FireWith(handlers[l], v))]
     /\ tasks' = tasks \o Timers(d, "notify", FireWith(handlers[l], v))
     /\ seen' = seen /\ UNCHANGED <<page, readiness>>

LEMMA SeenHas == ASSUME ListInv PROVE DOMAIN seen = SeenField
BY DEF ListInv, Typed, SeenIs

LEMMA ThrowSeen ==
  ASSUME DOMAIN seen = SeenField, NEW e, Throw(e)
  PROVE  SeenStays
<1>1. seen' = seen \/ \E d, x : seen' = [seen EXCEPT !.follow[d] = x]
  BY DEF Throw
<1> QED BY <1>1 DEF SeenStays, SeenField

LEMMA LearnSeen ==
  ASSUME DOMAIN seen = SeenField, NEW fn, NEW v, seen' = Learn(fn, v)
  PROVE  SeenStays
BY DEF Learn, SeenStays, SeenField

LEMMA InvokeStill ==
  ASSUME DOMAIN seen = SeenField, NEW e, e.do \notin {"state", "handlers"},
         NEW v, NEW l, NEW C, NEW F, Invoke(e, v, l, C, F)
  PROVE  UNCHANGED <<handlers, tasks>> /\ SeenStays
<1>1. UNCHANGED inner
  BY DEF Invoke, InvokeState, InvokeDisable, InvokeLock, InvokeHandlers, InvokeScript,
         InvokeSettle, InvokePipe, InvokeUpdate
<1>2. \/ seen' = seen
      \/ \E x : seen' = [seen EXCEPT !.log[l] = x]
  BY DEF Invoke, InvokeState, InvokeDisable, InvokeLock, InvokeHandlers, InvokeScript,
         InvokeSettle, InvokePipe, InvokeUpdate
<1> QED BY <1>1, <1>2 DEF inner, SeenStays, SeenField

LEMMA AdoptStill ==
  ASSUME DOMAIN seen = SeenField, NEW v, NEW e, e.do \notin {"state", "handlers"}, NEW g,
         NEW F, Adopt(v, e, g, F)
  PROVE  UNCHANGED <<handlers, tasks>> /\ SeenStays
<1>1. CASE v.is = "promise"
  BY <1>1 DEF Adopt, inner, SeenStays
<1>2. CASE v.is # "promise"
  <2>1. Invoke(e, v, UserList, callbacks, F)
    BY <1>2 DEF Adopt
  <2> QED BY <2>1, InvokeStill
<1> QED BY <1>1, <1>2

\* The calls of scripts, but those of then and its like.
LEMMA CallsStill ==
  ASSUME ListInv,
         CallAdd \/ CallMethod \/ CallFire \/ CallAlways \/ CallPipe \/ CallHeld \/ CallWhen
           \/ ThrowError
  PROVE  Still
<1>1. DOMAIN seen = SeenField
  BY SeenHas
<1>2. CASE CallAdd
  <2>1. UNCHANGED <<fixed, inner>> /\ \E l, n : seen' = [seen EXCEPT !.adds[l] = n]
    BY <1>2 DEF CallAdd
  <2> QED BY <1>1, <2>1 DEF Still, SeenStays, SeenField, fixed, inner
<1>3. CASE CallMethod
  <2>1. UNCHANGED <<fixed, inner>> /\ (seen' = seen \/ \E x : seen' = [seen EXCEPT !.emptied = x])
    BY <1>3 DEF CallMethod
  <2> QED BY <1>1, <2>1 DEF Still, SeenStays, SeenField, fixed, inner
<1>4. CASE CallFire
  BY <1>4 DEF CallFire, Still, SeenStays, fixed, inner
<1>5. CASE CallAlways
  <2>1. UNCHANGED <<fixed, inner>>
        /\ \E l, m, x, y : seen' = [seen EXCEPT !.adds[l] = x, !.adds[m] = y]
    BY <1>5 DEF CallAlways
  <2> QED BY <1>1, <2>1 DEF Still, SeenStays, SeenField, fixed, inner
<1>6. CASE CallPipe
  BY <1>6 DEF CallPipe, Still, SeenStays, fixed, inner
<1>7. CASE CallHeld
  <2>1. UNCHANGED <<fixed, inner>>
        /\ (seen' = seen \/ \E d, x : seen' = [seen EXCEPT !.follow[d] = x])
    BY <1>7 DEF CallHeld
  <2> QED BY <1>1, <2>1 DEF Still, SeenStays, SeenField, fixed, inner
<1>8. CASE CallWhen
  BY <1>8 DEF CallWhen, Still, SeenStays, fixed, inner
<1>9. CASE ThrowError
  <2>1. UNCHANGED <<fixed, inner>> /\ Throw(Error(calls'))
    BY <1>9 DEF ThrowError
  <2>2. SeenStays
    BY <1>1, <2>1, ThrowSeen
  <2> QED BY <2>1, <2>2 DEF Still, fixed, inner
<1> QED BY <1>2, <1>3, <1>4, <1>5, <1>6, <1>7, <1>8, <1>9

LEMMA TurnsStill ==
  ASSUME ListInv,
         EndLoop \/ AddNext \/ IgnoreStale \/ CallHandler \/ GotNothing \/ GotItself
           \/ GotThenable \/ GotValue \/ Catch \/ EndProcess \/ WhenSingle \/ WhenNext
           \/ ReturnToLoop \/ ReturnToThen \/ ReturnToPipe \/ ReturnFromScript \/ RunScript
  PROVE  Still
<1>1. DOMAIN seen = SeenField
  BY SeenHas
<1>2. CASE EndLoop \/ AddNext \/ IgnoreStale \/ GotNothing \/ Catch \/ EndProcess
  <2>1. UNCHANGED <<fixed, inner, seen>>
    BY <1>2 DEF EndLoop, AddNext, IgnoreStale, GotNothing, Catch, EndProcess
  <2> QED BY <2>1 DEF Still, SeenStays, fixed, inner
<1>3. CASE ReturnToLoop \/ ReturnToThen \/ ReturnToPipe \/ ReturnFromScript \/ RunScript
  <2>1. UNCHANGED <<fixed, inner, seen>>
    BY <1>3 DEF ReturnToLoop, ReturnToThen, ReturnToPipe, ReturnFromScript, RunScript
  <2> QED BY <2>1 DEF Still, SeenStays, fixed, inner
<1>4. CASE CallHandler
  <2>1. UNCHANGED <<fixed, inner>> /\ (seen' = seen \/ Throw(Top.v))
    BY <1>4 DEF CallHandler
  <2>2. SeenStays
    BY <1>1, <2>1, ThrowSeen DEF SeenStays
  <2> QED BY <2>1, <2>2 DEF Still, fixed, inner
<1>5. CASE GotItself
  <2>1. UNCHANGED <<fixed, inner>> /\ Throw(TypeError)
    BY <1>5 DEF GotItself
  <2>2. SeenStays
    BY <1>1, <2>1, ThrowSeen
  <2> QED BY <2>1, <2>2 DEF Still, fixed, inner
<1>6. CASE GotThenable
  <2>1. UNCHANGED <<inner, page, readiness>> /\ seen' = Learn(Top.fn, Top.v)
    BY <1>6 DEF GotThenable
  <2>2. SeenStays
    BY <1>1, <2>1, LearnSeen
  <2> QED BY <2>1, <2>2 DEF Still, inner
<1>7. CASE GotValue
  <2>1. UNCHANGED <<fixed, inner>> /\ seen' = Learn(Top.fn, Top.v)
    BY <1>7 DEF GotValue
  <2>2. SeenStays
    BY <1>1, <2>1, LearnSeen
  <2> QED BY <2>1, <2>2 DEF Still, fixed, inner
<1>8. CASE WhenSingle
  <2> DEFINE e == Entry("settle", joined.master, "resolve")
  <2>1. UNCHANGED fixed /\ \E v, g, F : Adopt(v, e, g, F)
    BY <1>8 DEF WhenSingle
  <2>2. e.do \notin {"state", "handlers"}
    BY DEF Entry
  <2> HIDE DEF e
  <2>3. UNCHANGED <<handlers, tasks>> /\ SeenStays
    BY <1>1, <2>1, <2>2, AdoptStill
  <2> QED BY <2>1, <2>3 DEF Still, fixed
<1>9. CASE WhenNext
  <2> DEFINE e == UpdateAt(Top.i - 1)
  <2>1. UNCHANGED fixed /\ (UNCHANGED <<inner, seen>> \/ \E v, g, F : Adopt(v, e, g, F))
    BY <1>9 DEF WhenNext
  <2>2. e.do \notin {"state", "handlers"}
    BY DEF UpdateAt, Entry
  <2> HIDE DEF e
  <2>3. UNCHANGED <<handlers, tasks>> /\ SeenStays
    BY <1>1, <2>1, <2>2, AdoptStill DEF inner, SeenStays
  <2> QED BY <2>1, <2>3 DEF Still, fixed
<1> QED BY <1>2, <1>3, <1>4, <1>5, <1>6, <1>7, <1>8, <1>9

LEMMA CallThenAsks ==
  ASSUME ListInv, CallThen
  PROVE  \E e, on, d : Asks(e, on, d)
<1> DEFINE M == Mine(page)
           On(hd, hf) == [resolve |-> hd, reject |-> hf,
                          notify |-> IF page.has = "progress" THEN Script ELSE Identity]
<1>1. /\ Running("code") /\ page.has # "ready" /\ Cardinality(Born) < page.makes
      /\ UNCHANGED fixed
  BY DEF CallThen, May
<1>2. PICK e \in Born, hd \in {Identity, Script}, hf \in {Thrower, Script} :
        Then(e, On(hd, hf), Fresh) /\ seen' = [seen EXCEPT !.thens[e] = Append(@, Fresh)]
  BY DEF CallThen
<1>3. Typed /\ DOMAIN seen = SeenField
  BY SeenHas DEF ListInv
<1>4. Fresh \in Deferred /\ M = Deferred
  BY <1>1, <1>3, SomeUnborn, FreshIs, RootsAre
<1> DEFINE on == On(hd, hf)
           d == Fresh
<1>6. \A k \in Kind : on[k] \in Nested(M)
  <2>1. \A k \in Kind : on[k] \in {Identity, Thrower, Script}
    BY DEF Kind
  <2> HIDE DEF on
  <2> QED BY <2>1, HandlersAre
<1>7. Then(e, on, d) /\ e \in Deferred /\ d \in M \cup {Nobody}
  BY <1>2, <1>4 DEF Born
<1>8. seen' = [seen EXCEPT !.thens[e] = Append(@, d)]
  BY <1>2
<1> HIDE DEF on, d
<1>9. seen'.thens = [seen.thens EXCEPT ![e] = Append(@, d)] /\ seen'.ran = seen.ran
  BY <1>3, <1>8 DEF SeenField
<1>10. Asks(e, on, d)
  BY <1>1, <1>6, <1>7, <1>9 DEF Asks, fixed
<1> QED BY <1>10

LEMMA WhenDecideAsks ==
  ASSUME ListInv, WhenDecide
  PROVE  Still \/ \E e, on, d : Asks(e, on, d)
<1> DEFINE M == Mine(page)
           on == [notify |-> Identity, resolve |-> Identity, reject |-> Thrower]
           e == joined.master
           d == Fresh
<1>1. Running("when") /\ UNCHANGED fixed
  BY DEF WhenDecide
<1>2. stack # <<>> /\ e \in M /\ e \in Deferred
  BY <1>1, RunsWhen
<1>3. Typed /\ DOMAIN seen = SeenField
  BY SeenHas DEF ListInv
<1>4. CASE UNCHANGED <<inner, seen>>
  BY <1>1, <1>4 DEF Still, SeenStays, fixed, inner
<1>5. CASE /\ Unborn # {} /\ Then(e, on, d)
           /\ seen' = [seen EXCEPT !.thens[e] = Append(@, d)]
  <2>1. d \in Deferred /\ state[d] = "unborn"
    BY <1>5, FreshIs
  <2>2. d \in M
    <3>1. page.has = "ready" => d # 1
      BY <1>3, <2>1 DEF Typed
    <3> QED BY <2>1, <3>1 DEF Mine
  <2>4. \A k \in Kind : on[k] \in Nested(M)
    <3>1. \A k \in Kind : on[k] \in {Identity, Thrower}
      BY DEF Kind
    <3> HIDE DEF on
    <3> QED BY <3>1, HandlersAre
  <2> HIDE DEF on, d, e
  <2>5. seen'.thens = [seen.thens EXCEPT ![e] = Append(@, d)] /\ seen'.ran = seen.ran
    BY <1>3, <1>5 DEF SeenField
  <2>6. Asks(e, on, d)
    BY <1>1, <1>2, <1>5, <2>2, <2>4, <2>5 DEF Asks, fixed
  <2> QED BY <2>6
<1> QED BY <1>4, <1>5 DEF WhenDecide

LEMMA GotPromiseAsks ==
  ASSUME ListInv, GotPromise
  PROVE  \E e, on, d : Asks(e, on, d)
<1> DEFINE M == Mine(page)
           p == Top
           fn == p.fn
           e == p.v.n
<1>1. /\ At("got") /\ fn.d # Nobody /\ p.v.is = "promise"
      /\ Then(e, Inners(fn), Nobody)
      /\ seen' = [Learn(fn, p.v) EXCEPT !.thens[e] = Append(@, Nobody)]
      /\ UNCHANGED <<page, readiness>>
  BY DEF GotPromise
<1>2. fn \in Fn(M) /\ p.v \in Value
  BY <1>1, RunsProcess
<1> HIDE DEF p, fn
<1>4. /\ \A h \in Plain, s \in BOOLEAN : Resolve(NextDepth(fn), fn.d, h, s) \in Plainly(M)
      /\ fn.special \in BOOLEAN
  BY <1>1, <1>2, ResolversAre
<1>5. e \in Deferred
  <2> HIDE DEF M
  <2> QED BY <1>1, <1>2, PromiseIs
<1>6. \A k \in Kind : Inners(fn)[k] \in Nested(M)
  <2> DEFINE a == Resolve(NextDepth(fn), fn.d, Identity, fn.special)
             b == Resolve(NextDepth(fn), fn.d, Thrower, fn.special)
             c == Resolve(NextDepth(fn), fn.d, Identity, TRUE)
  <2>1. a \in Plainly(M) /\ b \in Plainly(M) /\ c \in Plainly(M)
    BY <1>4, HandlersAre
  <2>2. Resolvers(fn).resolve = a /\ Resolvers(fn).reject = b /\ Resolvers(fn).notify = c
    BY DEF Resolvers
  <2> HIDE DEF a, b, c, M
  <2>3. /\ Inners(fn)["resolve"] = Inner(a) /\ Inners(fn)["reject"] = Inner(b)
        /\ Inners(fn)["notify"] \in {Identity, Inner(c)}
    BY <2>2 DEF Inners
  <2>4. /\ Inner(a) \in Nested(M) /\ Inner(b) \in Nested(M) /\ Inner(c) \in Nested(M)
        /\ Identity \in Nested(M)
    BY <2>1, HandlersAre
  <2> QED BY <2>3, <2>4 DEF Kind
<1> HIDE DEF e
<1>7. seen'.thens = [seen.thens EXCEPT ![e] = Append(@, Nobody)] /\ seen'.ran = seen.ran
  <2> DEFINE s == Learn(fn, p.v)
  <2>1. DOMAIN seen = SeenField
    BY SeenHas
  <2>2. DOMAIN s = SeenField /\ \A x \in SeenField \ {"follow"} : s[x] = seen[x]
    BY <2>1, LearnIs
  <2>3. seen' = [s EXCEPT !.thens[e] = Append(@, Nobody)]
    BY <1>1
  <2> HIDE DEF s
  <2>4. s.thens = seen.thens /\ s.ran = seen.ran
    BY <2>2 DEF SeenField
  <2>5. seen'.thens = [s.thens EXCEPT ![e] = Append(@, Nobody)] /\ seen'.ran = s.ran
    BY <2>2, <2>3 DEF SeenField
  <2> QED BY <2>4, <2>5
<1>8. Asks(e, Inners(fn), Nobody)
  <2> DEFINE on == Inners(fn)
  <2>1. Then(e, on, Nobody) /\ \A k \in Kind : on[k] \in Nested(M)
    BY <1>1, <1>6
  <2> HIDE DEF on
  <2>2. Asks(e, on, Nobody)
    BY <1>1, <1>5, <1>7, <2>1 DEF Asks
  <2> QED BY <2>2 DEF on
<1> QED BY <1>8

LEMMA CallReadyAsks ==
  ASSUME ListInv, CallReady
  PROVE  \E e, on, d, or, b : AsksTwice(e, on, d, or, b)
<1> DEFINE M == Mine(page)
           d == Fresh
           U == Unborn \ {d}
           e == CHOOSE x \in U : \A g \in U : x <= g
           on == [resolve |-> Script, reject |-> Thrower, notify |-> Identity]
           or == [resolve |-> Identity, reject |-> Script, notify |-> Identity]
           hs == HandlersAfter(handlers, 1, on, d)
           X == TimersOf(handlers, 1, on, d)
           Y == TimersOf(hs, d, or, e)
<1>1. /\ page.has = "ready"
      /\ Cardinality(Born) + 1 < page.makes
      /\ handlers' = HandlersAfter(hs, d, or, e)
      /\ tasks' = (tasks \o X) \o Y
      /\ seen' = [seen EXCEPT !.thens[1] = Append(@, d), !.thens[d] = Append(@, e)]
      /\ UNCHANGED fixed
  BY DEF CallReady, May
<1>2. Typed /\ DOMAIN seen = SeenField
  BY SeenHas DEF ListInv
<1>3. Unborn # {} /\ \E x \in U : \A g \in U : x <= g
  <2>1. /\ Cardinality(Born) < page.makes => Unborn # {}
        /\ \A y \in Unborn : \E x \in Unborn \ {y} : \A g \in Unborn \ {y} : x <= g
    BY <1>1, <1>2, SomeUnborn
  <2>2. Unborn # {}
    <3>1. Cardinality(Born) \in Nat
      <4>1. MaxDeferred \in Nat
        BY DeferredAssumption
      <4>2. IsFiniteSet(Deferred) /\ Born \subseteq Deferred
        BY <4>1, FS_Interval DEF Deferred, Born
      <4> QED BY <4>2, FS_Subset, FS_CardinalityType
    <3>2. page.makes \in Nat
      BY <1>2, DeferredAssumption DEF Typed
    <3> QED BY <1>1, <2>1, <3>1, <3>2
  <2>3. d \in Unborn
    BY <2>2, FreshIs DEF Unborn
  <2> QED BY <2>1, <2>2, <2>3
<1>4. d \in Deferred /\ state[d] = "unborn" /\ e \in U
  BY <1>3, FreshIs
<1>5. e \in Deferred /\ state[e] = "unborn" /\ e # d
  BY <1>4 DEF Unborn
<1>6. d # 1 /\ e # 1 /\ 1 \in Deferred /\ d \in M /\ e \in M
  BY <1>1, <1>2, <1>4, <1>5 DEF Typed, Mine
<1>m. M = Mine(page)
  OBVIOUS
<1> HIDE DEF M, d, e, U
<1>7. (\A k \in Kind : on[k] \in Nested(M)) /\ (\A k \in Kind : or[k] \in Nested(M))
  <2>1. \A k \in Kind : on[k] \in {Identity, Thrower, Script} /\ or[k] \in {Identity, Thrower, Script}
    BY DEF Kind
  <2> HIDE DEF on, or
  <2> QED BY <2>1, HandlersAre
<1> HIDE DEF on, or
<1>8. /\ seen'.thens = [seen.thens EXCEPT ![1] = Append(@, d), ![d] = Append(@, e)]
      /\ seen'.ran = seen.ran
  <2> DEFINE t == seen.thens
  <2>1. seen'.thens = [t EXCEPT ![1] = Append(@, d), ![d] = Append(@, e)] /\ seen'.ran = seen.ran
    BY <1>1, <1>2 DEF SeenField
  <2> QED BY <2>1
<1>9. AsksTwice(1, on, d, or, e)
  BY <1>1, <1>6, <1>7, <1>8, <1>m DEF AsksTwice, fixed
<1> QED BY <1>9

LEMMA CallNextTells ==
  ASSUME ListInv, CallNext
  PROVE  /\ ListInv'
         /\ \/ /\ Keeps(Mine(page), callbacks, state, callbacks', state')
               /\ Still \/ \E d \in Deferred : Notifies(d)
            \/ \E d \in Deferred, k \in Outs : Settles(d, k) \/ Tells(d, k)
<1> DEFINE M == Mine(page)
           l == Top.l
           c == callbacks[l]
           e == Current(c)
           D == [callbacks EXCEPT ![l] = Advance(c)]
<1>1. /\ Running("loop") /\ Pending(c) /\ Invoke(e, c.memory, l, D, stack)
      /\ UNCHANGED <<page, readiness>>
  BY DEF CallNext, fixed
<1>2. DOMAIN seen = SeenField
  BY SeenHas
<1>3. Outcomes(M, joined, callbacks, state, stack)
  BY DEF ListInv, Arranged
<1>4. CASE Calm(M, joined, callbacks, state)
  <2>1. ListInv' /\ Keeps(M, callbacks, state, callbacks', state')
    BY <1>4, CalmTurn DEF Onward
  <2>2. /\ l \in ListId /\ c.firing /\ c.index \in Nat /\ c.index + 1 \in DOMAIN c.list
        /\ e = c.list[c.index + 1]
        /\ l # UserList => c.memory \in Value
        /\ Lists(M, joined, callbacks)
    BY <1>1, RunsLoop
  <2> HIDE DEF M, l
  <2>3. \/ l = UserList /\ e.do = "user"
        \/ l # UserList /\ Late(M, joined, e)
        \/ \E d \in Deferred : l = <<d, "notify">> /\ e = Entry("handlers", d, "notify")
    BY <1>4, <2>2, CalmCurrent
  <2> HIDE DEF D, e, c
  <2>4. CASE e.do \notin {"state", "handlers"}
    <3>1. UNCHANGED <<handlers, tasks>> /\ SeenStays
      BY <1>1, <1>2, <2>4, InvokeStill
    <3> QED BY <1>1, <2>1, <3>1 DEF Still, M
  <2>5. ASSUME NEW d \in Deferred, l = <<d, "notify">>, e = Entry("handlers", d, "notify")
        PROVE  Notifies(d)
    <3> DEFINE v == c.memory
    <3>1. v \in Value /\ v = callbacks[<<d, "notify">>].memory
      BY <2>2, <2>5, ListIds DEF c
    <3>2. Invoke(Entry("handlers", d, "notify"), v, l, D, stack)
      BY <1>1, <2>5
    <3> HIDE DEF v
    <3>3. /\ seen' = seen
          /\ handlers' = [handlers EXCEPT ![<<d, "notify">>] = Fired(FireWith(handlers[<<d, "notify">>], v))]
          /\ tasks' = tasks \o Timers(d, "notify", FireWith(handlers[<<d, "notify">>], v))
      BY <3>2, InvokesHandlers
    <3> QED BY <1>1, <3>1, <3>3 DEF Notifies
  <2> QED BY <2>1, <2>3, <2>4, <2>5 DEF Late, M
<1>5. ASSUME NEW d \in Deferred, NEW k \in Outs, Deciding(M, joined, callbacks, state, stack, d, k)
      PROVE  /\ ListInv'
             /\ \/ Keeps(M, callbacks, state, callbacks', state') /\ UNCHANGED <<inner, seen>>
                \/ Settles(d, k) \/ Tells(d, k)
  BY <1>5, DecidingTurn
<1>7. UNCHANGED <<inner, seen>> => Still
  BY <1>1 DEF Still, SeenStays, inner
<1> QED BY <1>3, <1>4, <1>5, <1>7 DEF Outcomes, Calm

\* All steps, by what they do to handlers and timers.
LEMMA StepIs ==
  ASSUME ListInv, Next
  PROVE  /\ ListInv'
         /\ \/ /\ Keeps(Mine(page), callbacks, state, callbacks', state')
               /\ \/ Still
                  \/ \E e, on, d : Asks(e, on, d)
                  \/ \E e, on, d, or, b : AsksTwice(e, on, d, or, b)
                  \/ \E d \in Deferred : Notifies(d)
                  \/ RunProcess
            \/ /\ UNCHANGED <<page, readiness>>
               /\ \E d \in Deferred, k \in Outs : Settles(d, k) \/ Tells(d, k)
            \/ /\ Keeps(Deferred, callbacks, state, callbacks', state')
               /\ CallHold \/ DocumentEvent \/ RunReady
<1>1. CASE Ordinary
  <2>1. ListInv' /\ Keeps(Mine(page), callbacks, state, callbacks', state')
    BY <1>1, OrdinaryGoes DEF Onward
  <2>2. \/ Still
        \/ \E e, on, d : Asks(e, on, d)
        \/ \E e, on, d, or, b : AsksTwice(e, on, d, or, b)
        \/ RunProcess
    BY <1>1, CallsStill, TurnsStill, CallThenAsks, WhenDecideAsks, GotPromiseAsks, CallReadyAsks
       DEF Ordinary
  <2> QED BY <2>1, <2>2
<1>2. CASE CallNext
  <2>1. UNCHANGED <<page, readiness>>
    BY <1>2 DEF CallNext, fixed
  <2> QED BY <1>2, <2>1, CallNextTells
<1>3. CASE CallHold \/ DocumentEvent \/ RunReady
  BY <1>3, CallHoldGoes, DocumentEventGoes, RunReadyGoes DEF Advanced
<1> QED BY <1>1, <1>2, <1>3, NextIsStep

-----------------------------------------------------------------------------
(* ready *)

HasReady(T) == \E i \in DOMAIN T : T[i].do = "ready"

Readinesses == [wait : Int, isReady : BOOLEAN, holds : Nat, events : 0..2, listening : BOOLEAN]

\* Readiness r, given the state s of the first deferred, whether its two lists are
\* locked, and whether the timer of ready is still to run.
Readied(r, s, resolved, rejected, waits) ==
  /\ r \in Readinesses
  /\ r.wait = r.holds + (IF r.isReady THEN 0 ELSE 1)
  /\ r.isReady => r.events > 0
  /\ \/ r.isReady
     \/ r.events = 0 /\ r.listening
     \/ waits
  /\ waits => r.events = 2
  /\ s # "rejected"
  /\ r.isReady /\ r.holds = 0 => resolved \/ s = "resolved"
  /\ s = "pending" => /\ ~rejected
                      /\ resolved => r.isReady /\ r.holds = 0

Locked(C, k) == C[<<1, k>>].locked

ReadyInv ==
  page.has = "ready" =>
    Readied(readiness, state[1], Locked(callbacks, "resolve"), Locked(callbacks, "reject"),
            HasReady(tasks))

\* Timers that processes wait for are not the one of ready.
LEMMA ReadyJoined ==
  ASSUME NEW M, NEW T, Tasks(M, T), NEW X, Tasks(M, X), \A i \in DOMAIN X : X[i].do = "process"
  PROVE  HasReady(T \o X) <=> HasReady(T)
<1>1. /\ Len(T) \in Nat /\ Len(X) \in Nat /\ DOMAIN T = 1..Len(T) /\ DOMAIN X = 1..Len(X)
      /\ DOMAIN (T \o X) = 1..(Len(T) + Len(X))
      /\ \A i \in 1..(Len(T) + Len(X)) :
           (T \o X)[i] = IF i <= Len(T) THEN T[i] ELSE X[i - Len(T)]
  BY TasksJoined
<1> DEFINE Y == T \o X
<1> HIDE DEF Y
<1>2. ASSUME NEW i \in DOMAIN T PROVE i \in DOMAIN Y /\ Y[i] = T[i]
  BY <1>1 DEF Y
<1>3. ASSUME NEW i \in DOMAIN Y PROVE (i \in DOMAIN T /\ Y[i] = T[i]) \/ Y[i].do = "process"
  <2>1. i \in 1..(Len(T) + Len(X))
    BY <1>1 DEF Y
  <2>2. CASE i <= Len(T)
    BY <1>1, <2>1, <2>2 DEF Y
  <2>3. CASE ~(i <= Len(T))
    <3>1. i - Len(T) \in DOMAIN X /\ Y[i] = X[i - Len(T)]
      BY <1>1, <2>1, <2>3 DEF Y
    <3> QED BY <3>1
  <2> QED BY <2>2, <2>3
<1> QED BY <1>2, <1>3 DEF HasReady, Y

LEMMA ReadyTail ==
  ASSUME NEW M, NEW T, Tasks(M, T), T # <<>>
  PROVE  /\ HasReady(Tail(T)) => HasReady(T)
         /\ Head(T).do # "ready" /\ HasReady(T) => HasReady(Tail(T))
         /\ Head(T).do = "ready" => HasReady(T)
<1> DEFINE Y == Tail(T)
<1>1. /\ Len(T) \in Nat /\ DOMAIN T = 1..Len(T) /\ Head(T) = T[1] /\ 1 \in 1..Len(T)
      /\ Len(Y) = Len(T) - 1 /\ \A i \in 1..(Len(T) - 1) : Y[i] = T[i + 1]
      /\ DOMAIN Y = 1..Len(Y)
  <2>1. Tasks(M, Y)
    BY TasksAre
  <2>2. DOMAIN Y = 1..Len(Y)
    BY <2>1, TasksAre
  <2> QED BY <2>2, TasksAre
<1> HIDE DEF Y
<1>2. ASSUME NEW i \in DOMAIN Y PROVE i + 1 \in DOMAIN T /\ Y[i] = T[i + 1]
  BY <1>1
<1>3. ASSUME NEW i \in DOMAIN T, i # 1 PROVE i - 1 \in DOMAIN Y /\ Y[i - 1] = T[i]
  <2>1. i - 1 \in 1..(Len(T) - 1) /\ (i - 1) + 1 = i
    BY <1>1, <1>3
  <2> QED BY <1>1, <2>1
<1>4. HasReady(Y) => HasReady(T)
  BY <1>2 DEF HasReady
<1>5. T[1].do # "ready" /\ HasReady(T) => HasReady(Y)
  <2> SUFFICES ASSUME T[1].do # "ready", NEW i \in DOMAIN T, T[i].do = "ready"
               PROVE  HasReady(Y)
    BY DEF HasReady
  <2>1. i # 1
    OBVIOUS
  <2> QED BY <1>3, <2>1 DEF HasReady
<1>6. T[1].do = "ready" => HasReady(T)
  BY <1>1 DEF HasReady
<1> QED BY <1>1, <1>4, <1>5, <1>6 DEF Y

LEMMA FiredTimers ==
  ASSUME Typed, NEW d \in Deferred, NEW k \in Kind, NEW v \in Value,
         NEW a, a = FireWith(handlers[<<d, k>>], v)
  PROVE  /\ Tasks(Mine(page), Timers(d, k, a))
         /\ \A i \in DOMAIN Timers(d, k, a) : Timers(d, k, a)[i].do = "process"
<1> DEFINE M == Mine(page)
           h == <<d, k>>
           c == handlers[h]
<1>1. Handling(M, k, c)
  BY ListIds DEF Typed
<1> HIDE DEF M, c
<1>2. a = FireWith(c, v)
  BY DEF c
<1>3. ListOf(Hands(M), a) /\ (a.firing => a.memory = v /\ a.index = 0)
  BY <1>1, <1>2, HandlersFired DEF FiredSo
<1>4. a.firing => a.memory \in Value /\ a.index <= Len(a.list)
  <2>1. Len(a.list) \in Nat
    BY <1>3 DEF ListOf, ListingOf
  <2> QED BY <1>3, <2>1
<1>5. /\ Tasks(M, Timers(d, k, a))
      /\ \A i \in DOMAIN Timers(d, k, a) : Timers(d, k, a)[i].do = "process"
  BY <1>3, <1>4, TimersAre
<1> QED BY <1>5 DEF M

\* Nobody but ready's own timer is waited for by ready.
LEMMA ReadyStays ==
  ASSUME ListInv,
         \/ Still
         \/ \E e, on, d : Asks(e, on, d)
         \/ \E e, on, d, or, b : AsksTwice(e, on, d, or, b)
         \/ \E d \in Deferred : Notifies(d)
         \/ RunProcess
         \/ \E d \in Deferred, k \in Outs : Settles(d, k)
  PROVE  HasReady(tasks') <=> HasReady(tasks)
<1> DEFINE M == Mine(page)
<1>1. /\ Typed /\ M \in SUBSET Deferred /\ Tasks(M, tasks) /\ DOMAIN handlers = ListId
      /\ \A l \in ListId : Handling(M, l[2], handlers[l])
  BY MineIs DEF ListInv, Typed
<1>m. M = Mine(page)
  OBVIOUS
<1> HIDE DEF M
<1>2. CASE Still
  BY <1>2 DEF Still
<1>3. ASSUME NEW e, NEW on, NEW d, Asks(e, on, d)
      PROVE  HasReady(tasks') <=> HasReady(tasks)
  <2> DEFINE X == TimersOf(handlers, e, on, d)
  <2>1. /\ e \in Deferred /\ d \in M \cup {Nobody} /\ \A k \in Kind : on[k] \in Nested(M)
        /\ tasks' = tasks \o X
    BY <1>3, <1>m DEF Asks, Then
  <2>2. Tasks(M, X) /\ \A i \in DOMAIN X : X[i].do = "process"
    BY <1>1, <2>1, ThenIs
  <2> HIDE DEF X
  <2> QED BY <1>1, <2>1, <2>2, ReadyJoined
<1>4. ASSUME NEW e, NEW on, NEW d, NEW or, NEW b, AsksTwice(e, on, d, or, b)
      PROVE  HasReady(tasks') <=> HasReady(tasks)
  <2> DEFINE hs == HandlersAfter(handlers, e, on, d)
             X == TimersOf(handlers, e, on, d)
             Y == TimersOf(hs, d, or, b)
  <2>1. /\ e \in Deferred /\ d \in M /\ d \in Deferred /\ b \in M
        /\ \A k \in Kind : on[k] \in Nested(M) /\ or[k] \in Nested(M)
        /\ tasks' = (tasks \o X) \o Y
    BY <1>1, <1>4, <1>m DEF AsksTwice
  <2>2. /\ Tasks(M, X) /\ \A i \in DOMAIN X : X[i].do = "process"
        /\ DOMAIN hs = ListId /\ \A l \in ListId : Handling(M, l[2], hs[l])
    <3>1. d \in M \cup {Nobody} /\ \A k \in Kind : on[k] \in Nested(M)
      BY <2>1
    <3> QED BY <1>1, <2>1, <3>1, ThenIs
  <2> HIDE DEF X, hs
  <2>3. Tasks(M, Y) /\ \A i \in DOMAIN Y : Y[i].do = "process"
    <3>1. b \in M \cup {Nobody} /\ \A k \in Kind : or[k] \in Nested(M)
      BY <2>1
    <3> QED BY <1>1, <2>1, <2>2, <3>1, ThenIs
  <2> HIDE DEF Y
  <2> DEFINE T == tasks \o X
  <2>4. (HasReady(T) <=> HasReady(tasks)) /\ Tasks(M, T)
    BY <1>1, <2>2, ReadyJoined, TasksJoined
  <2> HIDE DEF T
  <2>5. HasReady(T \o Y) <=> HasReady(T)
    BY <2>3, <2>4, ReadyJoined
  <2> QED BY <2>1, <2>4, <2>5 DEF T
<1>5. ASSUME NEW d \in Deferred, Notifies(d)
      PROVE  HasReady(tasks') <=> HasReady(tasks)
  <2> DEFINE k == "notify"
             v == callbacks[<<d, k>>].memory
             a == FireWith(handlers[<<d, k>>], v)
             X == Timers(d, k, a)
  <2>1. v \in Value /\ tasks' = tasks \o X /\ k \in Kind
    BY <1>5 DEF Notifies, Kind
  <2> HIDE DEF v, k
  <2>2. a = FireWith(handlers[<<d, k>>], v)
    OBVIOUS
  <2> HIDE DEF a
  <2>3. Tasks(M, X) /\ \A i \in DOMAIN X : X[i].do = "process"
    BY <1>1, <1>m, <2>1, <2>2, FiredTimers
  <2> HIDE DEF X
  <2> QED BY <1>1, <2>1, <2>3, ReadyJoined
<1>6. CASE RunProcess
  <2>1. tasks # <<>> /\ Head(tasks).do = "process" /\ tasks' = Tail(tasks)
    BY <1>6 DEF RunProcess
  <2> QED BY <1>1, <2>1, ReadyTail
<1>7. ASSUME NEW d \in Deferred, NEW k \in Outs, Settles(d, k)
      PROVE  HasReady(tasks') <=> HasReady(tasks)
  BY <1>7 DEF Settles
<1> QED BY <1>2, <1>3, <1>4, <1>5, <1>6, <1>7

\* Readiness does not change, nor what the first deferred has to do with it.
LEMMA ReadiedSame ==
  ASSUME ListInv, ListInv', ReadyInv, page.has = "ready", UNCHANGED <<page, readiness>>,
         Keeps(Mine(page), callbacks, state, callbacks', state'),
         HasReady(tasks') <=> HasReady(tasks)
  PROVE  ReadyInv'
<1> DEFINE s == state[1]
           t == state'[1]
<1>1. /\ 1 \in Deferred /\ 1 \notin Mine(page) /\ s # "unborn" /\ t # "unborn"
      /\ s \in {"unborn", "pending", "resolved", "rejected"}
      /\ t \in {"unborn", "pending", "resolved", "rejected"}
  BY DEF ListInv, Typed, Mine
<1>2. (t = "resolved" <=> s = "resolved") /\ (t = "rejected" <=> s = "rejected")
  <2>1. "resolve" \in Outs /\ "reject" \in Outs /\ Final("resolve") = "resolved"
        /\ Final("reject") = "rejected"
    BY DEF Outs, Final
  <2>2. \A k \in Outs : t = Final(k) <=> s = Final(k)
    BY <1>1 DEF Keeps
  <2> QED BY <2>1, <2>2
<1>3. s = "pending" => \A k \in Outs : Locked(callbacks', k) = Locked(callbacks, k)
  <2>1. ASSUME s = "pending" PROVE \A k \in Outs : s # Final(k)
    BY <2>1 DEF Final
  <2> QED BY <1>1, <2>1 DEF Keeps, Locked
<1>4. "resolve" \in Outs /\ "reject" \in Outs
  BY DEF Outs
<1>5. Readied(readiness, s, Locked(callbacks, "resolve"), Locked(callbacks, "reject"), HasReady(tasks))
  BY DEF ReadyInv
<1> HIDE DEF s, t
<1>6. Readied(readiness, t, Locked(callbacks', "resolve"), Locked(callbacks', "reject"), HasReady(tasks'))
  <2>1. s = t
    BY <1>1, <1>2
  <2>2. CASE s = "pending"
    BY <1>3, <1>4, <1>5, <2>1, <2>2 DEF Readied
  <2>3. CASE s = "resolved"
    BY <1>5, <2>1, <2>3 DEF Readied
  <2> QED BY <1>1, <1>5, <2>2, <2>3 DEF Readied
<1> QED BY <1>6 DEF ReadyInv, Locked, t

LEMMA ReadySettles ==
  ASSUME ListInv, ReadyInv, page.has = "ready", UNCHANGED <<page, readiness>>,
         NEW d \in Deferred, NEW k \in Outs, Settles(d, k)
  PROVE  /\ ReadyInv'
         /\ state[1] # "resolved" /\ state'[1] = "resolved" =>
              readiness.isReady /\ readiness.holds = 0 /\ readiness.events > 0
<1> DEFINE s == state[1]
           l == <<d, k>>
<1>1. /\ First(Mine(page), joined, callbacks[l], d, k) /\ Open(state, d)
      /\ state' = [state EXCEPT ![d] = Final(k)]
      /\ callbacks' = Next1(d, k) /\ tasks' = tasks
  BY DEF Settles
<1>2. /\ 1 \in Deferred /\ s # "unborn" /\ callbacks \in [ListId -> Listing]
      /\ s \in {"unborn", "pending", "resolved", "rejected"} /\ l \in ListId
      /\ state \in [Deferred -> {"unborn", "pending", "resolved", "rejected"}]
  BY ListIds DEF ListInv, Arranged, Lists, Typed
<1>3. Readied(readiness, s, Locked(callbacks, "resolve"), Locked(callbacks, "reject"), HasReady(tasks))
  BY DEF ReadyInv
<1>4. CASE d # 1
  <2>1. state'[1] = s
    BY <1>1, <1>2, <1>4
  <2>2. \A j : <<1, j>> # l
    BY <1>4
  <2>3. \A j \in Outs : callbacks'[<<1, j>>] = callbacks[<<1, j>>]
    BY <1>1, <1>2, <2>2, ListIds DEF Next1
  <2>4. "resolve" \in Outs /\ "reject" \in Outs
    BY DEF Outs
  <2>5. \A j \in Outs : Locked(callbacks', j) = Locked(callbacks, j)
    BY <2>3 DEF Locked
  <2> HIDE DEF s
  <2>6. ReadyInv'
    BY <1>1, <1>3, <2>1, <2>4, <2>5 DEF ReadyInv, Locked
  <2> QED BY <2>1, <2>6 DEF s
<1>5. CASE d = 1
  <2>1. s = "pending"
    BY <1>1, <1>2, <1>5 DEF Open
  <2>2. callbacks[<<1, k>>].locked
    BY <1>1, <1>5 DEF First
  <2>3. k = "resolve"
    <3>1. k = "resolve" \/ k = "reject"
      BY DEF Outs
    <3> QED BY <1>3, <2>1, <2>2, <3>1 DEF Readied, Locked
  <2>4. state'[1] = "resolved"
    BY <1>1, <1>2, <1>5, <2>3 DEF Final
  <2>5. readiness.isReady /\ readiness.holds = 0
    BY <1>3, <2>1, <2>2, <2>3 DEF Readied, Locked
  <2>6. readiness.events > 0
    BY <1>3, <2>5 DEF Readied
  <2> HIDE DEF s
  <2>7. \A a, b : Readied(readiness, "resolved", a, b, HasReady(tasks))
    BY <1>3 DEF Readied
  <2>8. ReadyInv'
    <3> DEFINE x == Locked(callbacks', "resolve")
               y == Locked(callbacks', "reject")
               r == readiness'
               T == tasks'
    <3>1. r = readiness /\ T = tasks
      BY <1>1
    <3> HIDE DEF x, y, r, T
    <3>2. Readied(r, "resolved", x, y, HasReady(T))
      BY <2>7, <3>1
    <3> QED BY <2>4, <3>2 DEF ReadyInv, Locked, x, y, r, T
  <2> QED BY <2>5, <2>6, <2>8
<1> QED BY <1>4, <1>5

LEMMA ReadyTells ==
  ASSUME ListInv, ReadyInv, page.has = "ready", UNCHANGED <<page, readiness>>,
         NEW d \in Deferred, NEW k \in Outs, Tells(d, k)
  PROVE  ReadyInv'
<1> DEFINE s == state[1]
           l == <<d, k>>
           v == callbacks[l].memory
           a == FireWith(handlers[l], v)
           X == Timers(d, k, a)
           M == Mine(page)
<1>1. /\ First(M, joined, callbacks[l], d, k) /\ state[d] = Final(k)
      /\ state' = state /\ callbacks' = Next1(d, k) /\ tasks' = tasks \o X
  BY DEF Tells
<1>2. /\ 1 \in Deferred /\ callbacks \in [ListId -> Listing] /\ l \in ListId
      /\ Typed /\ Tasks(M, tasks) /\ List(callbacks[l]) /\ k \in Kind
  BY ListIds DEF ListInv, Arranged, Lists, Typed
<1>3. Readied(readiness, s, Locked(callbacks, "resolve"), Locked(callbacks, "reject"), HasReady(tasks))
  BY DEF ReadyInv
<1>4. HasReady(tasks') <=> HasReady(tasks)
  <2>1. v \in Value
    <3>1. v # None
      BY <1>1 DEF First
    <3> QED BY <1>2, <3>1 DEF List, ListOf, ListingOf
  <2>2. a = FireWith(handlers[<<d, k>>], v)
    OBVIOUS
  <2> HIDE DEF a, v
  <2>3. Tasks(M, X) /\ \A i \in DOMAIN X : X[i].do = "process"
    BY <1>2, <2>1, <2>2, FiredTimers
  <2> HIDE DEF X, M
  <2> QED BY <1>1, <1>2, <2>3, ReadyJoined
<1>5. CASE d # 1
  <2>2. \A j : <<1, j>> # l
    BY <1>5
  <2>3. \A j \in Outs : callbacks'[<<1, j>>] = callbacks[<<1, j>>]
    BY <1>1, <1>2, <2>2, ListIds DEF Next1
  <2>4. "resolve" \in Outs /\ "reject" \in Outs
    BY DEF Outs
  <2>5. \A j \in Outs : Locked(callbacks', j) = Locked(callbacks, j)
    BY <2>3 DEF Locked
  <2> HIDE DEF s
  <2>6. Readied(readiness, s, Locked(callbacks', "resolve"), Locked(callbacks', "reject"), HasReady(tasks'))
    BY <1>3, <1>4, <2>4, <2>5 DEF Readied
  <2> QED BY <1>1, <2>6 DEF ReadyInv, Locked, s
<1>6. CASE d = 1
  <2>1. s = "resolved"
    <3>1. k = "resolve" \/ k = "reject"
      BY DEF Outs
    <3> QED BY <1>1, <1>3, <1>6, <3>1 DEF Readied, Final
  <2>2. \A x, y : Readied(readiness, "resolved", x, y, HasReady(tasks'))
    BY <1>3, <1>4, <2>1 DEF Readied
  <2> DEFINE x == Locked(callbacks', "resolve")
             y == Locked(callbacks', "reject")
             r == readiness'
             T == tasks'
  <2>3. r = readiness /\ state'[1] = "resolved"
    BY <1>1, <2>1
  <2>4. \A p, q : Readied(readiness, "resolved", p, q, HasReady(T))
    BY <2>2
  <2> HIDE DEF x, y, r, T
  <2>5. Readied(r, "resolved", x, y, HasReady(T))
    BY <2>3, <2>4
  <2> QED BY <2>3, <2>5 DEF ReadyInv, Locked, x, y, r, T
<1> QED BY <1>5, <1>6

\* While it is calm the lists of the first deferred are locked when it has an outcome.
LEMMA CalmReady ==
  ASSUME ListInv, ReadyInv, page.has = "ready", Calm(Mine(page), joined, callbacks, state)
  PROVE  /\ state[1] = "pending" =>
              ~callbacks[<<1, "resolve">>].locked /\ ~callbacks[<<1, "reject">>].locked
         /\ state[1] = "pending" \/ state[1] = "resolved"
         /\ state[1] = "pending" => Waiting(Mine(page), joined, callbacks[<<1, "resolve">>], 1, "resolve")
         /\ state[1] = "resolved" => callbacks[<<1, "resolve">>].locked
<1>1. /\ 1 \in Deferred /\ state[1] # "unborn" /\ state[1] # "rejected"
      /\ state[1] \in {"unborn", "pending", "resolved", "rejected"}
  BY DEF ListInv, Typed, ReadyInv, Readied
<1>2. "resolve" \in Outs /\ "reject" \in Outs /\ Final("resolve") = "resolved"
      /\ Final("reject") = "rejected" /\ \A k \in Outs : k = "resolve" \/ k = "reject"
  BY DEF Outs, Final
<1>3. CalmAt(Mine(page), joined, callbacks, state, 1)
  BY <1>1 DEF Calm
<1>4. CASE Undecided(Mine(page), joined, callbacks, state, 1)
  BY <1>1, <1>2, <1>4 DEF Undecided, Waiting, Open
<1>5. ASSUME NEW k \in Outs, Decided(Mine(page), joined, callbacks, state, 1, k)
      PROVE  state[1] = "resolved" /\ callbacks[<<1, "resolve">>].locked
  <2>1. state[1] = Final(k) /\ callbacks[<<1, k>>].locked
    BY <1>5 DEF Decided, First, Again
  <2> QED BY <1>1, <1>2, <2>1
<1> QED BY <1>1, <1>3, <1>4, <1>5 DEF CalmAt

LEMMA ReadyFires ==
  ASSUME ListInv, ReadyInv, page.has = "ready", Calm(Mine(page), joined, callbacks, state),
         NEW F, ResolveReady(F)
  PROVE  /\ callbacks'[<<1, "resolve">>].locked
         /\ callbacks'[<<1, "reject">>] = callbacks[<<1, "reject">>]
<1> DEFINE l == <<1, "resolve">>
           o == <<1, "reject">>
           c == callbacks[l]
           e == FireWith(c, Undefined)
<1>1. callbacks' = [callbacks EXCEPT ![l] = e]
  BY DEF ResolveReady, Apply
<1>2. /\ 1 \in Deferred /\ callbacks \in [ListId -> Listing] /\ l \in ListId /\ o \in ListId
      /\ l # o /\ List(c) /\ Undefined \in Value /\ "once" \in c.options
  <2>1. /\ 1 \in Deferred /\ "resolve" \in Kind /\ "reject" \in Kind /\ Typed
        /\ Lists(Mine(page), joined, callbacks)
    BY DEF ListInv, Arranged, Typed, Kind
  <2>2. l \in ListId /\ o \in ListId /\ l # o /\ l \in Deferred \X Kind
    BY <2>1, ListIds
  <2>3. c.options = Options("resolve")
    BY <2>1, <2>2 DEF Lists
  <2>4. "once" \in Options("resolve")
    BY DEF Options
  <2> QED BY <2>1, <2>2, <2>3, <2>4, DataIsValue DEF Lists
<1>3. c.locked \/ ~c.firing
  BY CalmReady DEF Waiting
<1>4. e.locked
  <2> HIDE DEF c
  <2>1. e = FireWith(c, Undefined)
    OBVIOUS
  <2> HIDE DEF e
  <2>2. c.locked => e = c
    BY <1>2, <2>1, FireIs
  <2>3. ~c.locked /\ ~c.firing => e.locked
    BY <1>2, <2>1, FireIs
  <2> QED BY <1>3, <2>2, <2>3
<1> HIDE DEF e, l, o
<1> QED BY <1>1, <1>2, <1>4 DEF l, o

LEMMA ReadiedIs ==
  ASSUME NEW r, NEW s, NEW x, NEW y, NEW w, Readied(r, s, x, y, w)
  PROVE  /\ r.wait \in Int /\ r.isReady \in BOOLEAN /\ r.holds \in Nat /\ r.events \in 0..2
         /\ r.listening \in BOOLEAN /\ r = [wait |-> r.wait, isReady |-> r.isReady,
              holds |-> r.holds, events |-> r.events, listening |-> r.listening]
         /\ DOMAIN r = {"wait", "isReady", "holds", "events", "listening"}
BY DEF Readied, Readinesses

(* Readiness with other values. *)

LEMMA ReadinessUp ==
  ASSUME NEW r \in Readinesses
  PROVE  LET q == [r EXCEPT !.wait = @ + 1, !.holds = @ + 1]
         IN /\ q \in Readinesses
            /\ q.wait = r.wait + 1 /\ q.holds = r.holds + 1 /\ q.isReady = r.isReady
            /\ q.events = r.events /\ q.listening = r.listening
<1> DEFINE w == r.wait + 1
           h == r.holds + 1
           q == [r EXCEPT !.wait = w, !.holds = h]
<1>1. w \in Int /\ h \in Nat
  BY DEF Readinesses
<1> HIDE DEF w, h
<1>2. /\ q \in Readinesses
      /\ q.wait = w /\ q.holds = h /\ q.isReady = r.isReady
      /\ q.events = r.events /\ q.listening = r.listening
  BY <1>1 DEF Readinesses
<1> HIDE DEF q
<1> QED BY <1>1, <1>2 DEF q, w, h

LEMMA ReadinessDown ==
  ASSUME NEW r \in Readinesses, r.holds > 0, NEW last \in BOOLEAN
  PROVE  LET q == [r EXCEPT !.wait = @ - 1, !.holds = @ - 1, !.isReady = @ \/ last]
         IN /\ q \in Readinesses
            /\ q.wait = r.wait - 1 /\ q.holds = r.holds - 1 /\ (q.isReady <=> r.isReady \/ last)
            /\ q.events = r.events /\ q.listening = r.listening
<1> DEFINE w == r.wait - 1
           h == r.holds - 1
           b == r.isReady \/ last
           q == [r EXCEPT !.wait = w, !.holds = h, !.isReady = b]
<1>1. w \in Int /\ h \in Nat /\ b \in BOOLEAN
  BY DEF Readinesses
<1> HIDE DEF w, h, b
<1>2. /\ q \in Readinesses
      /\ q.wait = w /\ q.holds = h /\ q.isReady = b
      /\ q.events = r.events /\ q.listening = r.listening
  BY <1>1 DEF Readinesses
<1> HIDE DEF q
<1> QED BY <1>1, <1>2 DEF q, w, h, b

LEMMA ReadinessOn ==
  ASSUME NEW r \in Readinesses
  PROVE  LET q == [r EXCEPT !.isReady = TRUE, !.wait = @ - 1]
         IN /\ q \in Readinesses
            /\ q.wait = r.wait - 1 /\ q.holds = r.holds /\ q.isReady
            /\ q.events = r.events /\ q.listening = r.listening
<1> DEFINE w == r.wait - 1
           q == [r EXCEPT !.isReady = TRUE, !.wait = w]
<1>1. w \in Int
  BY DEF Readinesses
<1> HIDE DEF w
<1>2. /\ q \in Readinesses
      /\ q.wait = w /\ q.holds = r.holds /\ q.isReady = TRUE
      /\ q.events = r.events /\ q.listening = r.listening
  BY <1>1 DEF Readinesses
<1> HIDE DEF q
<1> QED BY <1>1, <1>2 DEF q, w

LEMMA ReadinessHeard ==
  ASSUME NEW r \in Readinesses, r.events < 2
  PROVE  LET q == [r EXCEPT !.events = @ + 1, !.listening = FALSE]
         IN /\ q \in Readinesses
            /\ q.wait = r.wait /\ q.holds = r.holds /\ q.isReady = r.isReady
            /\ q.events = r.events + 1 /\ q.listening = FALSE
<1> DEFINE v == r.events + 1
           q == [r EXCEPT !.events = v, !.listening = FALSE]
<1>1. v \in 0..2
  BY DEF Readinesses
<1> HIDE DEF v
<1>2. /\ q \in Readinesses
      /\ q.wait = r.wait /\ q.holds = r.holds /\ q.isReady = r.isReady
      /\ q.events = v /\ q.listening = FALSE
  BY <1>1 DEF Readinesses
<1> HIDE DEF q
<1> QED BY <1>1, <1>2 DEF q, v

LEMMA ReadinessMore ==
  ASSUME NEW r \in Readinesses, r.events < 2
  PROVE  LET q == [r EXCEPT !.events = @ + 1]
         IN /\ q \in Readinesses
            /\ q.wait = r.wait /\ q.holds = r.holds /\ q.isReady = r.isReady
            /\ q.events = r.events + 1 /\ q.listening = r.listening
BY DEF Readinesses

\* Readiness is fulfilled: whatever the first deferred is, it is locked.
LEMMA ReadyFired ==
  ASSUME ListInv, ReadyInv, page.has = "ready", Calm(Mine(page), joined, callbacks, state),
         UNCHANGED <<page, state>>, NEW F, ResolveReady(F),
         readiness' \in Readinesses, readiness'.wait = 0, readiness'.holds = 0,
         readiness'.isReady, readiness'.events > 0,
         HasReady(tasks') => readiness'.events = 2
  PROVE  ReadyInv'
<1>1. /\ callbacks'[<<1, "resolve">>].locked
      /\ callbacks'[<<1, "reject">>] = callbacks[<<1, "reject">>]
  BY ReadyFires
<1>2. /\ state[1] = "pending" \/ state[1] = "resolved"
      /\ state[1] = "pending" => ~callbacks[<<1, "reject">>].locked
  BY CalmReady
<1> DEFINE r == readiness'
           s == state'[1]
           x == Locked(callbacks', "resolve")
           y == Locked(callbacks', "reject")
           T == tasks'
<1>3. /\ x = TRUE \/ x <=> TRUE
      /\ x
      /\ s = "pending" => ~y
      /\ s = "pending" \/ s = "resolved"
  BY <1>1, <1>2 DEF Locked
<1>4. page'.has = "ready"
  OBVIOUS
<1>5. /\ r \in Readinesses /\ r.wait = 0 /\ r.holds = 0 /\ r.isReady /\ r.events > 0
      /\ HasReady(T) => r.events = 2
  OBVIOUS
<1> HIDE DEF r, s, x, y, T
<1>6. Readied(r, s, x, y, HasReady(T))
  BY <1>3, <1>5 DEF Readied, Readinesses
<1> QED BY <1>4, <1>6 DEF ReadyInv, r, s, x, y, T

\* Nothing of the first deferred has changed, and readiness is fine.
LEMMA ReadyQuiet ==
  ASSUME page.has = "ready", UNCHANGED <<page, state, callbacks>>,
         Readied(readiness', state[1], Locked(callbacks, "resolve"), Locked(callbacks, "reject"),
                 HasReady(tasks'))
  PROVE  ReadyInv'
<1> DEFINE r == readiness'
           T == tasks'
           p == page'
           s == state'
           C == callbacks'
<1>1. p.has = "ready" /\ s = state /\ C = callbacks
  OBVIOUS
<1>2. Readied(r, state[1], Locked(callbacks, "resolve"), Locked(callbacks, "reject"), HasReady(T))
  OBVIOUS
<1> HIDE DEF r, T, p, s, C
<1>3. Readied(r, s[1], Locked(C, "resolve"), Locked(C, "reject"), HasReady(T))
  BY <1>1, <1>2
<1> QED BY <1>3 DEF ReadyInv, r, T, p, s, C

LEMMA ReadyHold ==
  ASSUME ListInv, ReadyInv, CallHold
  PROVE  ReadyInv'
<1> DEFINE r == readiness
           last == r.wait = 1
           up == [r EXCEPT !.wait = @ + 1, !.holds = @ + 1]
           down == [r EXCEPT !.wait = @ - 1, !.holds = @ - 1, !.isReady = @ \/ last]
           s == state[1]
           x == Locked(callbacks, "resolve")
           y == Locked(callbacks, "reject")
<1>1. /\ Running("code") /\ page.has = "ready"
      /\ UNCHANGED <<page, state, tasks>>
      /\ \/ r' = up /\ UNCHANGED callbacks
         \/ /\ r.holds > 0 /\ r' = down
            /\ IF last THEN ResolveReady(stack) ELSE UNCHANGED callbacks
  BY DEF CallHold, May, inner
<1>2. Calm(Mine(page), joined, callbacks, state)
  BY <1>1, RunsCode
<1>3. Readied(r, s, x, y, HasReady(tasks))
  BY <1>1 DEF ReadyInv
<1>c. s = "pending" => ~x /\ ~y
  BY <1>1, <1>2, CalmReady DEF Locked
<1> HIDE DEF s, x, y
<1>4. /\ r.wait \in Int /\ r.isReady \in BOOLEAN /\ r.holds \in Nat /\ r.events \in 0..2
      /\ r.listening \in BOOLEAN /\ r \in Readinesses
      /\ DOMAIN r = {"wait", "isReady", "holds", "events", "listening"}
  BY <1>3, ReadiedIs DEF Readied
<1>5. CASE r' = up /\ UNCHANGED callbacks
  <2>1. /\ r'.wait = r.wait + 1 /\ r'.holds = r.holds + 1 /\ r'.isReady = r.isReady
        /\ r'.events = r.events /\ r'.listening = r.listening /\ r' \in Readinesses
    BY <1>4, <1>5, ReadinessUp
  <2> DEFINE q == r'
             T == tasks'
  <2>2. T = tasks
    BY <1>1
  <2> HIDE DEF q, T
  <2>3. /\ q.wait = r.wait + 1 /\ q.holds = r.holds + 1 /\ q.isReady = r.isReady
        /\ q.events = r.events /\ q.listening = r.listening /\ q \in Readinesses
    BY <2>1 DEF q
  <2>4. Readied(q, s, x, y, HasReady(T))
    BY <1>3, <1>4, <1>c, <2>2, <2>3 DEF Readied
  <2> QED BY <1>1, <1>5, <2>4, ReadyQuiet DEF q, T, s, x, y
<1>6. CASE /\ r.holds > 0 /\ r' = down
           /\ IF last THEN ResolveReady(stack) ELSE UNCHANGED callbacks
  <2>0. last \in BOOLEAN
    OBVIOUS
  <2> HIDE DEF last
  <2>1. /\ r'.wait = r.wait - 1 /\ r'.holds = r.holds - 1 /\ (r'.isReady <=> r.isReady \/ last)
        /\ r'.events = r.events /\ r'.listening = r.listening /\ r' \in Readinesses
    BY <1>4, <1>6, <2>0, ReadinessDown
  <2> DEFINE q == r'
             T == tasks'
  <2>2. T = tasks
    BY <1>1
  <2>3. /\ q.wait = r.wait - 1 /\ q.holds = r.holds - 1 /\ (q.isReady <=> r.isReady \/ last)
        /\ q.events = r.events /\ q.listening = r.listening /\ q \in Readinesses
    BY <2>1
  <2>6. /\ r.wait = r.holds + (IF r.isReady THEN 0 ELSE 1)
        /\ r.isReady => r.events > 0
    BY <1>3 DEF Readied
  <2>4. CASE last /\ ResolveReady(stack)
    <3>1. r.isReady /\ r.holds = 1 /\ r.events > 0
      BY <1>4, <1>6, <2>4, <2>6 DEF last
    <3>2. /\ q \in Readinesses /\ q.wait = 0 /\ q.holds = 0 /\ q.isReady /\ q.events > 0
      BY <1>4, <2>3, <2>4, <3>1 DEF last
    <3>3. HasReady(T) => q.events = 2
      BY <1>3, <2>2, <2>3 DEF Readied
    <3> QED BY <1>1, <1>2, <2>4, <3>2, <3>3, ReadyFired
  <2>5. CASE ~last /\ UNCHANGED callbacks
    <3> HIDE DEF q, T
    <3>0. q.isReady <=> r.isReady
      BY <1>4, <2>3, <2>5
    <3>1. q.isReady => q.holds # 0
      BY <1>4, <1>6, <2>3, <2>5, <2>6, <3>0 DEF last
    <3>2. q.wait = q.holds + (IF q.isReady THEN 0 ELSE 1)
      BY <1>4, <2>3, <2>6, <3>0
    <3> DEFINE w == HasReady(T)
    <3>5. Readied(r, s, x, y, w)
      BY <1>3, <2>2
    <3> HIDE DEF w
    <3>4. /\ r.isReady => r.events > 0
          /\ \/ r.isReady
             \/ r.events = 0 /\ r.listening
             \/ w
          /\ w => r.events = 2
          /\ s # "rejected" /\ (s = "pending" => ~x /\ ~y)
      BY <1>c, <3>5 DEF Readied
    <3>6. q \in Readinesses /\ q.events = r.events /\ q.listening = r.listening
      BY <2>3
    <3>7. /\ q.isReady => q.events > 0
          /\ \/ q.isReady
             \/ q.events = 0 /\ q.listening
             \/ w
          /\ w => q.events = 2
      BY <3>0, <3>4, <3>6
    <3>8. /\ q.isReady /\ q.holds = 0 => x \/ s = "resolved"
          /\ s = "pending" => /\ ~y
                              /\ x => q.isReady /\ q.holds = 0
          /\ s # "rejected"
      BY <3>1, <3>4
    <3> HIDE DEF s, x, y
    <3>3. Readied(q, s, x, y, w)
      BY <3>2, <3>6, <3>7, <3>8 DEF Readied
    <3> QED BY <1>1, <2>5, <3>3, ReadyQuiet DEF q, T, s, x, y, w
  <2> QED BY <1>1, <1>6, <2>4, <2>5
<1> QED BY <1>1, <1>5, <1>6

\* ready(), of the document.
LEMMA ReadyRuns ==
  ASSUME ListInv, ReadyInv, page.has = "ready", stack = <<>>, UNCHANGED <<page, state>>,
         NEW q, Ready(q), q \in Readinesses, q.events > 0,
         q.wait = q.holds + (IF q.isReady THEN 0 ELSE 1),
         q.isReady = readiness.isReady, q.holds = readiness.holds,
         HasReady(tasks') => q.events = 2
  PROVE  ReadyInv'
<1> DEFINE s == state[1]
           x == Locked(callbacks, "resolve")
           y == Locked(callbacks, "reject")
           T == tasks'
           p == readiness'
           on == [q EXCEPT !.isReady = TRUE, !.wait = @ - 1]
<1>1. Calm(Mine(page), joined, callbacks, state)
  BY OutsideCalls
<1>2. Readied(readiness, s, x, y, HasReady(tasks))
  BY DEF ReadyInv
<1>3. (s = "pending" => ~x /\ ~y) /\ (s = "pending" \/ s = "resolved")
  BY <1>1, CalmReady DEF Locked
<1>4. /\ q.wait \in Int /\ q.isReady \in BOOLEAN /\ q.holds \in Nat /\ q.events \in 0..2
      /\ q.listening \in BOOLEAN
      /\ DOMAIN q = {"wait", "isReady", "holds", "events", "listening"}
  BY DEF Readinesses
<1>5. \/ q.isReady /\ p = q /\ UNCHANGED callbacks
      \/ ~q.isReady /\ p = on /\ q.wait > 1 /\ UNCHANGED callbacks
      \/ ~q.isReady /\ p = on /\ ~(q.wait > 1) /\ ResolveReady(<<>>)
  BY DEF Ready
<1>6. /\ on.wait = q.wait - 1 /\ on.isReady /\ on.holds = q.holds
      /\ on.events = q.events /\ on \in Readinesses
  BY ReadinessOn
<1> HIDE DEF on
<1>7. HasReady(T) => q.events = 2
  OBVIOUS
<1>8. CASE q.isReady /\ p = q /\ UNCHANGED callbacks
  <2> HIDE DEF s, x, y, T, p
  <2>1. Readied(p, s, x, y, HasReady(T))
    BY <1>2, <1>3, <1>4, <1>7, <1>8 DEF Readied
  <2> QED BY <1>8, <2>1, ReadyQuiet DEF s, x, y, T, p
<1>9. CASE ~q.isReady /\ p = on /\ q.wait > 1 /\ UNCHANGED callbacks
  <2> HIDE DEF s, x, y, T, p
  <2>1. Readied(p, s, x, y, HasReady(T))
    BY <1>2, <1>3, <1>4, <1>6, <1>7, <1>9 DEF Readied
  <2> QED BY <1>9, <2>1, ReadyQuiet DEF s, x, y, T, p
<1>10. CASE ~q.isReady /\ p = on /\ ~(q.wait > 1) /\ ResolveReady(<<>>)
  <2>1. /\ p \in Readinesses /\ p.wait = 0 /\ p.holds = 0 /\ p.isReady /\ p.events > 0
        /\ HasReady(T) => p.events = 2
    <3>1. q.wait = q.holds + 1
      BY <1>4, <1>10
    <3>2. q.wait = 1 /\ q.holds = 0
      BY <1>4, <1>10, <3>1
    <3> HIDE DEF s, x, y, T, p
    <3> QED BY <1>6, <1>7, <1>10, <3>2
  <2> QED BY <1>1, <1>10, <2>1, ReadyFired
<1> QED BY <1>5, <1>8, <1>9, <1>10

LEMMA ReadyDocument ==
  ASSUME ListInv, ReadyInv, DocumentEvent
  PROVE  ReadyInv'
<1> DEFINE r == readiness
           heard == [r EXCEPT !.events = @ + 1, !.listening = FALSE]
           more == [r EXCEPT !.events = @ + 1]
           s == state[1]
           x == Locked(callbacks, "resolve")
           y == Locked(callbacks, "reject")
<1>1. /\ stack = <<>> /\ page.has = "ready" /\ r.events < 2
      /\ UNCHANGED <<page, state, tasks>>
      /\ \/ r.listening /\ Ready(heard)
         \/ ~r.listening /\ r' = more /\ UNCHANGED callbacks
  BY DEF DocumentEvent, inner
<1>3. Readied(r, s, x, y, HasReady(tasks))
  BY <1>1 DEF ReadyInv
<1> HIDE DEF s, x, y
<1>4. /\ r.wait \in Int /\ r.isReady \in BOOLEAN /\ r.holds \in Nat /\ r.events \in 0..2
      /\ r.listening \in BOOLEAN /\ r \in Readinesses
      /\ DOMAIN r = {"wait", "isReady", "holds", "events", "listening"}
  BY <1>3, ReadiedIs DEF Readied
<1>5. ~HasReady(tasks)
  BY <1>1, <1>3 DEF Readied
<1>6. CASE r.listening /\ Ready(heard)
  <2>1. /\ heard.wait = r.wait /\ heard.holds = r.holds /\ heard.isReady = r.isReady
        /\ heard.events = r.events + 1 /\ heard \in Readinesses
    BY <1>1, <1>4, ReadinessHeard
  <2> HIDE DEF heard
  <2>2. heard.wait = heard.holds + (IF heard.isReady THEN 0 ELSE 1) /\ heard.events > 0
    BY <1>3, <1>4, <2>1 DEF Readied
  <2>3. ~HasReady(tasks')
    BY <1>1, <1>5
  <2> QED BY <1>1, <1>6, <2>1, <2>2, <2>3, ReadyRuns
<1>7. CASE ~r.listening /\ r' = more /\ UNCHANGED callbacks
  <2>1. /\ r'.wait = r.wait /\ r'.holds = r.holds /\ r'.isReady = r.isReady
        /\ r'.events = r.events + 1 /\ r'.listening = r.listening /\ r' \in Readinesses
    BY <1>1, <1>4, <1>7, ReadinessMore
  <2> DEFINE q == r'
             T == tasks'
  <2>2. T = tasks
    BY <1>1
  <2> HIDE DEF q, T
  <2>3. /\ q.wait = r.wait /\ q.holds = r.holds /\ q.isReady = r.isReady
        /\ q.events = r.events + 1 /\ q.listening = r.listening /\ q \in Readinesses
    BY <2>1 DEF q
  <2>4. Readied(q, s, x, y, HasReady(T))
    BY <1>3, <1>4, <1>5, <1>7, <2>2, <2>3 DEF Readied
  <2> QED BY <1>1, <1>7, <2>4, ReadyQuiet DEF q, T, s, x, y
<1> QED BY <1>1, <1>6, <1>7

LEMMA ReadyTimer ==
  ASSUME ListInv, ReadyInv, RunReady
  PROVE  ReadyInv'
<1> DEFINE M == Mine(page)
           r == readiness
<1>1. /\ stack = <<>> /\ tasks # <<>> /\ Head(tasks).do = "ready" /\ tasks' = Tail(tasks)
      /\ Ready(readiness) /\ UNCHANGED <<page, state>>
  BY DEF RunReady
<1>2. Tasks(M, tasks) /\ \A i \in DOMAIN tasks : tasks[i].do = "ready" => page.has = "ready"
  BY DEF ListInv, Typed
<1> HIDE DEF M
<1>3. HasReady(tasks) /\ page.has = "ready"
  BY <1>1, <1>2, ReadyTail DEF HasReady
<1>4. Readied(r, state[1], Locked(callbacks, "resolve"), Locked(callbacks, "reject"), HasReady(tasks))
  BY <1>3 DEF ReadyInv
<1>5. /\ r \in Readinesses /\ r.events = 2 /\ r.events > 0
      /\ r.wait = r.holds + (IF r.isReady THEN 0 ELSE 1)
  BY <1>3, <1>4 DEF Readied
<1> QED BY <1>1, <1>3, <1>5, ReadyRuns

LEMMA ReadyInitIs ==
  ASSUME Init
  PROVE  ReadyInv
<1> SUFFICES ASSUME page.has = "ready" PROVE ReadyInv
  BY DEF ReadyInv
<1> DEFINE T == tasks
           r == readiness
<1>1. PICK loaded \in BOOLEAN :
       /\ r = [wait |-> 1, isReady |-> FALSE, holds |-> 0,
               events |-> IF loaded THEN 2 ELSE 0, listening |-> ~loaded]
       /\ tasks = IF loaded THEN <<[do |-> "ready"]>> ELSE <<>>
  BY DEF Init
<1>2. ListInv /\ stack = <<>>
  BY InitIs DEF Init
<1>3. page \in Page /\ page.roots = 1 /\ 1 \in Deferred
  BY <1>2, DeferredAssumption DEF ListInv, Typed
<1>4. state[1] = "pending"
  BY <1>3 DEF Init
<1>5. HasReady(tasks) <=> loaded
  <2>1. CASE loaded
    <3> DEFINE t == [do |-> "ready"]
    <3>1. t.do = "ready"
      OBVIOUS
    <3>2. tasks = <<t>>
      BY <1>1, <2>1
    <3> HIDE DEF t
    <3>3. 1 \in DOMAIN tasks /\ tasks[1] = t
      BY <3>2
    <3> QED BY <2>1, <3>1, <3>3 DEF HasReady
  <2>2. CASE ~loaded
    <3>1. tasks = <<>>
      BY <1>1, <2>2
    <3>2. DOMAIN tasks = {}
      BY <3>1
    <3> QED BY <2>2, <3>2 DEF HasReady
  <2> QED BY <2>1, <2>2
<1>6. ~callbacks[<<1, "resolve">>].locked /\ ~callbacks[<<1, "reject">>].locked
  <2>1. \A k \in {"resolve", "reject"} : <<1, k>> \in ListId /\ <<1, k>> # UserList /\ k \in Kind
    BY <1>3, ListIds DEF Kind
  <2>2. \A k \in {"resolve", "reject"} :
          callbacks[<<1, k>>] = [New(Options(k)) EXCEPT !.list = Listeners(1, k)]
    BY <2>1 DEF Init
  <2>3. \A k \in {"resolve", "reject"} : ~callbacks[<<1, k>>].locked
    BY <1>3, <2>1, <2>2, BornListIs
  <2> QED BY <2>3
<1>7. /\ r.wait = 1 /\ r.isReady = FALSE /\ r.holds = 0 /\ r.events = (IF loaded THEN 2 ELSE 0)
      /\ r.listening = ~loaded /\ r \in Readinesses
  BY <1>1 DEF Readinesses
<1> DEFINE x == Locked(callbacks, "resolve")
           y == Locked(callbacks, "reject")
           w == HasReady(T)
<1>8. ~x /\ ~y /\ (w <=> loaded)
  BY <1>5, <1>6 DEF Locked
<1> HIDE DEF r, x, y, w
<1>10. (loaded => r.events = 2) /\ (~loaded => r.events = 0 /\ r.listening)
  BY <1>7
<1>9. Readied(r, "pending", x, y, w)
  BY <1>7, <1>8, <1>10 DEF Readied
<1> QED BY <1>4, <1>9 DEF ReadyInv, r, x, y, w

LEMMA ReadyStep ==
  ASSUME ListInv, ReadyInv, Next
  PROVE  /\ ReadyInv'
         /\ page.has = "ready" /\ state[1] = "pending" /\ state'[1] = "resolved" =>
              readiness.isReady /\ readiness.holds = 0 /\ readiness.events > 0
<1> DEFINE Goal == /\ ReadyInv'
                   /\ page.has = "ready" /\ state[1] = "pending" /\ state'[1] = "resolved" =>
                        readiness.isReady /\ readiness.holds = 0 /\ readiness.events > 0
<1>1. ListInv'
  BY StepIs
<1>2. CASE /\ Keeps(Mine(page), callbacks, state, callbacks', state')
           /\ \/ Still
              \/ \E e, on, d : Asks(e, on, d)
              \/ \E e, on, d, or, b : AsksTwice(e, on, d, or, b)
              \/ \E d \in Deferred : Notifies(d)
              \/ RunProcess
  <2>1. UNCHANGED <<page, readiness>>
    <3>1. CASE Still
      BY <3>1 DEF Still
    <3>2. CASE \E e, on, d : Asks(e, on, d)
      BY <3>2 DEF Asks
    <3>3. CASE \E e, on, d, or, b : AsksTwice(e, on, d, or, b)
      BY <3>3 DEF AsksTwice
    <3>4. CASE \E d \in Deferred : Notifies(d)
      BY <3>4 DEF Notifies
    <3>5. CASE RunProcess
      BY <3>5 DEF RunProcess, fixed
    <3> QED BY <1>2, <3>1, <3>2, <3>3, <3>4, <3>5
  <2>2. HasReady(tasks') <=> HasReady(tasks)
    BY <1>2, ReadyStays
  <2>3. page.has = "ready" => ReadyInv'
    BY <1>1, <1>2, <2>1, <2>2, ReadiedSame
  <2>4. page.has # "ready" => ReadyInv'
    BY <2>1 DEF ReadyInv
  <2>5. page.has = "ready" /\ state[1] = "pending" => state'[1] # "resolved"
    <3>1. ASSUME page.has = "ready" PROVE 1 \in Deferred
      BY <3>1 DEF ListInv, Typed
    <3>2. "resolve" \in Outs /\ Final("resolve") = "resolved"
      BY DEF Outs, Final
    <3> QED BY <1>2, <3>1, <3>2 DEF Keeps
  <2> QED BY <2>3, <2>4, <2>5
<1>3. CASE /\ UNCHANGED <<page, readiness>>
           /\ \E d \in Deferred, k \in Outs : Settles(d, k) \/ Tells(d, k)
  <2>1. CASE page.has = "ready"
    <3>1. ASSUME NEW d \in Deferred, NEW k \in Outs, Settles(d, k) PROVE Goal
      BY <1>3, <2>1, <3>1, ReadySettles
    <3>2. ASSUME NEW d \in Deferred, NEW k \in Outs, Tells(d, k) PROVE Goal
      <4>1. ReadyInv'
        BY <1>3, <2>1, <3>2, ReadyTells
      <4>2. state' = state
        BY <3>2 DEF Tells
      <4> QED BY <4>1, <4>2
    <3> QED BY <1>3, <3>1, <3>2
  <2>2. CASE page.has # "ready"
    BY <1>3, <2>2 DEF ReadyInv
  <2> QED BY <2>1, <2>2
<1>4. CASE CallHold \/ DocumentEvent \/ RunReady
  <2>1. ReadyInv'
    BY <1>4, ReadyHold, ReadyDocument, ReadyTimer
  <2>2. state' = state
    BY <1>4 DEF CallHold, DocumentEvent, RunReady, inner
  <2> QED BY <2>1, <2>2
<1> QED BY <1>2, <1>3, <1>4, StepIs

LEMMA ReadyStutter ==
  ASSUME ReadyInv, UNCHANGED vars
  PROVE  ReadyInv'
<1> DEFINE p == page'
           r == readiness'
           s == state'
           C == callbacks'
           T == tasks'
<1>1. p = page /\ r = readiness /\ s = state /\ C = callbacks /\ T = tasks
  BY DEF vars
<1> HIDE DEF p, r, s, C, T
<1>2. p.has = "ready" => Readied(r, s[1], Locked(C, "resolve"), Locked(C, "reject"), HasReady(T))
  BY <1>1 DEF ReadyInv
<1> QED BY <1>2 DEF ReadyInv, p, r, s, C, T

\* DeferredsSpec!ReadyInTime: the functions of ready run neither while the document
\* loads or somebody holds them back, nor never.
THEOREM ReadyComesInTime == Spec => ReadyInTime
<1> DEFINE Inv == ListInv /\ ReadyInv
<1>1. Init => Inv
  BY InitIs, ReadyInitIs
<1>2. Inv /\ [Next]_vars => Inv'
  BY StepIs, StutterGoes, ReadyStep, ReadyStutter
<1>3. Inv => ReadyComes
  <2> SUFFICES ASSUME Inv, page.has = "ready", Quiet, readiness.events = 2, readiness.holds = 0
               PROVE  state[1] = "resolved"
    BY DEF ReadyComes
  <2>1. Calm(Mine(page), joined, callbacks, state)
    BY OutsideCalls DEF Quiet
  <2>2. ~HasReady(tasks)
    <3>1. DOMAIN tasks = {}
      BY DEF Quiet
    <3> QED BY <3>1 DEF HasReady
  <2>3. /\ state[1] = "pending" =>
              ~callbacks[<<1, "resolve">>].locked /\ ~callbacks[<<1, "reject">>].locked
        /\ state[1] = "pending" \/ state[1] = "resolved"
    BY <2>1, CalmReady
  <2>4. readiness.isReady
    BY <2>2 DEF ReadyInv, Readied
  <2>5. Locked(callbacks, "resolve") \/ state[1] = "resolved"
    BY <2>4 DEF ReadyInv, Readied
  <2> QED BY <2>3, <2>5 DEF Locked
<1>4. Inv /\ [Next]_vars =>
        [page.has = "ready" /\ state[1] = "pending" /\ state'[1] = "resolved"
           => readiness.isReady /\ readiness.holds = 0 /\ (readiness.events > 0)]_vars
  BY ReadyStep
<1> HIDE DEF Inv
<1> QED BY <1>1, <1>2, <1>3, <1>4, PTL DEF Spec, ReadyInTime, ReadyIsNotEarly

-----------------------------------------------------------------------------
(* The reactions of then: those that have run, those whose timers are set, and those *)
(* whose handlers wait are, in this order, the ones that were asked for.             *)

\* A timer that runs a reaction of d.
Of(t, d) == t.do = "process" /\ t.k \in Outs /\ t.of = d

\* g counts the reactions of d that have run when T has come to a place, from r on.
Lined(g, T, d, r) ==
  /\ g \in [0..Len(T) -> Nat] /\ g[0] = r
  /\ \A i \in 1..Len(T) : g[i] = g[i - 1] + (IF Of(T[i], d) THEN 1 ELSE 0)

\* Each timer runs the reaction whose turn it is, with the outcome of d.
Due(g, T, d, C, S, th) ==
  \A i \in 1..Len(T) : Of(T[i], d) =>
    /\ g[i] \in 1..Len(th) /\ T[i].fn.d = th[g[i]]
    /\ S[d] = Final(T[i].k) /\ T[i].v = C[<<d, T[i].k>>].memory

\* The timers T run the reactions after r up to m.
Owed(T, d, r, m, C, S, th) ==
  \E g : Lined(g, T, d, r) /\ g[Len(T)] = m /\ Due(g, T, d, C, S, th)

\* The handlers of d still wait, all those after m.
Untold(m, d, H, C, S, th) ==
  \A k \in Outs :
    LET h == H[<<d, k>>]
    IN /\ ~h.locked /\ Len(h.list) + m = Len(th)
       /\ \A j \in 1..Len(h.list) : h.list[j].fn.d = th[m + j]
       /\ S[d] = Final(k) => Early(C, d, k)

\* They have been told of k, and there are none after m.
Answered(m, d, k, H, C, S, th) ==
  /\ H[<<d, k>>].locked /\ ~H[<<d, Other(k)>>].locked
  /\ H[<<d, k>>].memory = C[<<d, k>>].memory
  /\ S[d] = Final(k) /\ ~Early(C, d, k) /\ Len(th) = m

Reacts(d, T, H, C, S, th, r) ==
  \E m \in Nat :
    /\ Owed(T, d, r, m, C, S, th)
    /\ Untold(m, d, H, C, S, th) \/ \E k \in Outs : Answered(m, d, k, H, C, S, th)

Named  == 0..MaxDeferred
Ends   == {"resolved", "rejected"} \X Value

ReactInv ==
  /\ seen.thens \in [Deferred -> Seq(Named)]
  /\ seen.ran \in [Deferred -> Seq(Named \X Ends)]
  /\ \A d \in Deferred :
       Reacts(d, tasks, handlers, callbacks, state, seen.thens[d], Len(seen.ran[d]))

LEMMA OutsAre ==
  /\ \A k \in Outs : k \in Kind /\ k # "notify" /\ Other(k) \in Outs /\ Other(k) # k
                     /\ Other(Other(k)) = k
  /\ \A k, j \in Outs : Final(k) = Final(j) => k = j
  /\ \A k, j \in Outs : j # k => j = Other(k)
BY DEF Outs, Kind, Final, Other

LEMMA OwedJoined ==
  ASSUME NEW M, NEW T, Tasks(M, T), NEW X, Tasks(M, X), NEW d, NEW r, NEW m, NEW n,
         NEW C, NEW S, NEW th, Owed(T, d, r, m, C, S, th), Owed(X, d, m, n, C, S, th)
  PROVE  Owed(T \o X, d, r, n, C, S, th)
<1> DEFINE Y == T \o X
           t == Len(T)
           x == Len(X)
<1>1. /\ t \in Nat /\ x \in Nat /\ Len(Y) = t + x
      /\ \A i \in 1..t : Y[i] = T[i]
      /\ \A i \in 1..x : Y[t + i] = X[i]
  BY TasksJoined
<1>2. PICK g : Lined(g, T, d, r) /\ g[t] = m /\ Due(g, T, d, C, S, th)
  BY DEF Owed
<1>3. PICK e : Lined(e, X, d, m) /\ e[x] = n /\ Due(e, X, d, C, S, th)
  BY DEF Owed
<1> DEFINE h == [i \in 0..(t + x) |-> IF i <= t THEN g[i] ELSE e[i - t]]
<1> HIDE DEF Y
<1>4. /\ \A i \in 0..t : g[i] \in Nat
      /\ \A i \in 0..x : e[i] \in Nat
      /\ g[0] = r /\ e[0] = m
  <2>1. g \in [0..t -> Nat] /\ e \in [0..x -> Nat] /\ g[0] = r /\ e[0] = m
    BY <1>2, <1>3 DEF Lined
  <2> HIDE DEF t, x
  <2> QED BY <2>1
<1>5. /\ \A i \in 1..t : g[i] = g[i - 1] + (IF Of(T[i], d) THEN 1 ELSE 0)
      /\ \A i \in 1..x : e[i] = e[i - 1] + (IF Of(X[i], d) THEN 1 ELSE 0)
  BY <1>2, <1>3 DEF Lined
<1> HIDE DEF t, x
<1>6. /\ \A i \in 0..t : h[i] = g[i]
      /\ \A i \in 0..x : h[t + i] = e[i]
      /\ h \in [0..(t + x) -> Nat]
  <2>1. \A i \in 0..t : i \in 0..(t + x) /\ h[i] = g[i]
    BY <1>1
  <2>2. \A i \in 0..x : t + i \in 0..(t + x)
    BY <1>1
  <2>3. \A i \in 1..x : ~(t + i <= t) /\ (t + i) - t = i
    BY <1>1
  <2>4. \A i \in 1..x : h[t + i] = e[i]
    BY <2>2, <2>3
  <2>5. h[t + 0] = e[0]
    BY <1>1, <1>2, <1>4, <2>1
  <2>6. \A i \in 0..(t + x) : i <= t \/ i - t \in 0..x
    BY <1>1
  <2>7. \A i \in 0..(t + x) : (IF i <= t THEN g[i] ELSE e[i - t]) \in Nat
    BY <1>1, <1>4, <2>6
  <2>8. \A i \in 0..x : i = 0 \/ i \in 1..x
    BY <1>1
  <2>9. \A i \in 0..x : h[t + i] = e[i]
    BY <2>4, <2>5, <2>8
  <2>10. h \in [0..(t + x) -> Nat]
    BY <2>7
  <2> QED BY <2>1, <2>9, <2>10
<1> HIDE DEF h
<1>7. \A i \in 1..(t + x) : i \in 1..t \/ \E j \in 1..x : i = t + j
  <2> SUFFICES ASSUME NEW i \in 1..(t + x), ~(i \in 1..t) PROVE \E j \in 1..x : i = t + j
    OBVIOUS
  <2>1. i - t \in 1..x /\ i = t + (i - t)
    BY <1>1
  <2> QED BY <2>1
<1>8. \A j \in 1..x : h[t + j] = e[j] /\ h[(t + j) - 1] = e[j - 1] /\ Y[t + j] = X[j]
  <2> SUFFICES ASSUME NEW j \in 1..x
               PROVE  h[t + j] = e[j] /\ h[(t + j) - 1] = e[j - 1] /\ Y[t + j] = X[j]
    OBVIOUS
  <2>1. j \in 0..x /\ j - 1 \in 0..x /\ t + (j - 1) = (t + j) - 1
    BY <1>1
  <2> QED BY <1>1, <1>6, <2>1
<1>9. \A i \in 1..t : h[i] = g[i] /\ h[i - 1] = g[i - 1] /\ Y[i] = T[i]
  <2> SUFFICES ASSUME NEW i \in 1..t
               PROVE  h[i] = g[i] /\ h[i - 1] = g[i - 1] /\ Y[i] = T[i]
    OBVIOUS
  <2>1. i \in 0..t /\ i - 1 \in 0..t
    BY <1>1
  <2> QED BY <1>1, <1>6, <2>1
<1>10. Lined(h, Y, d, r)
  <2>1. \A i \in 1..(t + x) : h[i] = h[i - 1] + (IF Of(Y[i], d) THEN 1 ELSE 0)
    <3> SUFFICES ASSUME NEW i \in 1..(t + x)
                 PROVE  h[i] = h[i - 1] + (IF Of(Y[i], d) THEN 1 ELSE 0)
      OBVIOUS
    <3>1. CASE i \in 1..t
      BY <1>5, <1>9, <3>1
    <3>2. ASSUME NEW j \in 1..x, i = t + j PROVE h[i] = h[i - 1] + (IF Of(Y[i], d) THEN 1 ELSE 0)
      BY <1>5, <1>8, <3>2
    <3> QED BY <1>7, <3>1, <3>2
  <2>2. h[0] = r
    <3>1. 0 \in 0..t
      BY <1>1
    <3> QED BY <1>4, <1>6, <3>1
  <2>3. Len(Y) = t + x
    BY <1>1
  <2> QED BY <1>6, <2>1, <2>2, <2>3 DEF Lined
<1>11. Due(h, Y, d, C, S, th)
  <2> SUFFICES ASSUME NEW i \in 1..(t + x), Of(Y[i], d)
               PROVE  /\ h[i] \in 1..Len(th) /\ Y[i].fn.d = th[h[i]]
                      /\ S[d] = Final(Y[i].k) /\ Y[i].v = C[<<d, Y[i].k>>].memory
    BY <1>1 DEF Due
  <2>1. CASE i \in 1..t
    BY <1>2, <1>9, <2>1 DEF Due, t
  <2>2. ASSUME NEW j \in 1..x, i = t + j
        PROVE  /\ h[i] \in 1..Len(th) /\ Y[i].fn.d = th[h[i]]
               /\ S[d] = Final(Y[i].k) /\ Y[i].v = C[<<d, Y[i].k>>].memory
    <3>1. Y[i] = X[j] /\ h[i] = e[j]
      BY <1>8, <2>2
    <3> QED BY <1>3, <2>2, <3>1 DEF Due, x
  <2> QED BY <1>7, <2>1, <2>2
<1>12. h[Len(Y)] = n
  <2>1. x \in 0..x
    BY <1>1
  <2> QED BY <1>1, <1>3, <1>6, <2>1
<1> QED BY <1>10, <1>11, <1>12 DEF Owed, Y

LEMMA OwedNone ==
  ASSUME NEW M, NEW X, Tasks(M, X), NEW d, NEW m \in Nat, NEW C, NEW S, NEW th,
         \A i \in DOMAIN X : ~Of(X[i], d)
  PROVE  Owed(X, d, m, m, C, S, th)
<1> DEFINE x == Len(X)
           h == [i \in 0..x |-> m]
<1>1. x \in Nat /\ DOMAIN X = 1..x
  BY TasksAre
<1> HIDE DEF x
<1>2. /\ h \in [0..x -> Nat] /\ h[0] = m /\ h[x] = m
      /\ \A i \in 1..x : h[i] = m /\ h[i - 1] = m
  BY <1>1
<1> HIDE DEF h
<1>3. \A i \in 1..x : h[i] = h[i - 1] + (IF Of(X[i], d) THEN 1 ELSE 0)
  BY <1>1, <1>2
<1>4. Lined(h, X, d, m) /\ h[Len(X)] = m
  BY <1>2, <1>3 DEF Lined, x
<1>5. Due(h, X, d, C, S, th)
  BY <1>1 DEF Due, x
<1> QED BY <1>4, <1>5 DEF Owed

LEMMA OwedAll ==
  ASSUME NEW M, NEW X, Tasks(M, X), NEW d, NEW m \in Nat, NEW C, NEW S, NEW th,
         \A i \in 1..Len(X) :
           /\ Of(X[i], d) /\ m + i \in 1..Len(th) /\ X[i].fn.d = th[m + i]
           /\ S[d] = Final(X[i].k) /\ X[i].v = C[<<d, X[i].k>>].memory
  PROVE  Owed(X, d, m, m + Len(X), C, S, th)
<1> DEFINE x == Len(X)
           h == [i \in 0..x |-> m + i]
<1>1. x \in Nat
  BY TasksAre
<1> HIDE DEF x
<1>2. /\ h \in [0..x -> Nat] /\ h[0] = m /\ h[x] = m + x
      /\ \A i \in 1..x : h[i] = m + i /\ h[i - 1] = m + (i - 1)
  BY <1>1
<1> HIDE DEF h
<1>6. \A i \in 1..x : Of(X[i], d)
  BY DEF x
<1>7. \A i \in 1..x : m + i = (m + (i - 1)) + 1
  BY <1>1
<1>3. \A i \in 1..x : h[i] = h[i - 1] + (IF Of(X[i], d) THEN 1 ELSE 0)
  BY <1>2, <1>6, <1>7
<1>4. Lined(h, X, d, m) /\ h[Len(X)] = m + Len(X)
  BY <1>2, <1>3 DEF Lined, x
<1>5. Due(h, X, d, C, S, th)
  BY <1>2 DEF Due, x
<1> QED BY <1>4, <1>5 DEF Owed

LEMMA OwedUpTo ==
  ASSUME NEW M, NEW T, Tasks(M, T), NEW d, NEW r, NEW m, NEW C, NEW S, NEW th,
         Owed(T, d, r, m, C, S, th)
  PROVE  r \in Nat /\ m \in Nat
<1>1. Len(T) \in Nat
  BY TasksAre
<1>2. PICK g : Lined(g, T, d, r) /\ g[Len(T)] = m
  BY DEF Owed
<1> DEFINE t == Len(T)
<1>3. g \in [0..t -> Nat] /\ g[0] = r /\ g[t] = m /\ t \in Nat
  BY <1>1, <1>2 DEF Lined
<1> HIDE DEF t
<1>4. 0 \in 0..t /\ t \in 0..t
  BY <1>3
<1> QED BY <1>3, <1>4

LEMMA OwedLonger ==
  ASSUME NEW T, NEW d, NEW r, NEW m, NEW C, NEW S, NEW th, th \in Seq(Named),
         NEW b \in Named, Owed(T, d, r, m, C, S, th)
  PROVE  Owed(T, d, r, m, C, S, Append(th, b))
<1> DEFINE a == Append(th, b)
<1>1. Len(th) \in Nat /\ Len(a) = Len(th) + 1 /\ \A i \in 1..Len(th) : a[i] = th[i]
  <2> DEFINE U == Named
  <2>1. th \in Seq(U) /\ b \in U
    OBVIOUS
  <2> HIDE DEF U
  <2> QED BY <2>1
<1> HIDE DEF a
<1>2. PICK g : Lined(g, T, d, r) /\ g[Len(T)] = m /\ Due(g, T, d, C, S, th)
  BY DEF Owed
<1>3. \A i \in 1..Len(th) : i \in 1..Len(a)
  BY <1>1
<1>4. Due(g, T, d, C, S, a)
  BY <1>1, <1>2, <1>3 DEF Due
<1> QED BY <1>2, <1>4 DEF Owed, a

LEMMA OwedKeeps ==
  ASSUME NEW M, NEW T, Tasks(M, T), NEW d \in Deferred, NEW r, NEW m, NEW C, NEW S, NEW D, NEW R,
         NEW th, Owed(T, d, r, m, C, S, th),
         \A k \in Outs : S[d] = Final(k) =>
           R[d] = Final(k) /\ D[<<d, k>>].memory = C[<<d, k>>].memory
  PROVE  Owed(T, d, r, m, D, R, th)
<1>1. PICK g : Lined(g, T, d, r) /\ g[Len(T)] = m /\ Due(g, T, d, C, S, th)
  BY DEF Owed
<1>2. Due(g, T, d, D, R, th)
  BY <1>1 DEF Due, Of
<1> QED BY <1>1, <1>2 DEF Owed

LEMMA OwedTail ==
  ASSUME NEW M, NEW T, Tasks(M, T), T # <<>>, NEW d \in Deferred, NEW r, NEW m, NEW C, NEW S,
         NEW th, Owed(T, d, r, m, C, S, th)
  PROVE  /\ ~Of(Head(T), d) => Owed(Tail(T), d, r, m, C, S, th)
         /\ Of(Head(T), d) =>
              /\ Owed(Tail(T), d, r + 1, m, C, S, th)
              /\ r + 1 \in 1..Len(th) /\ Head(T).fn.d = th[r + 1]
              /\ S[d] = Final(Head(T).k) /\ Head(T).v = C[<<d, Head(T).k>>].memory
<1> DEFINE Y == Tail(T)
           y == Len(Y)
           t == Len(T)
<1>1. /\ t \in Nat /\ Head(T) = T[1] /\ 1 \in 1..t /\ y = t - 1 /\ y \in Nat
      /\ \A i \in 1..y : Y[i] = T[i + 1]
  BY TasksAre
<1>2. PICK g : Lined(g, T, d, r) /\ g[t] = m /\ Due(g, T, d, C, S, th)
  BY DEF Owed
<1>3. g \in [0..t -> Nat] /\ g[0] = r /\ \A i \in 1..t : g[i] = g[i - 1] + (IF Of(T[i], d) THEN 1 ELSE 0)
  BY <1>2 DEF Lined
<1> DEFINE h == [i \in 0..y |-> g[i + 1]]
           q == r + (IF Of(T[1], d) THEN 1 ELSE 0)
<1>a. y = Len(Y) /\ t = Len(T)
  OBVIOUS
<1> HIDE DEF Y, y, t
<1>4. g[1] = q /\ r \in Nat
  <2>1. 1 - 1 = 0 /\ 0 \in 0..t
    BY <1>1
  <2> QED BY <1>1, <1>3, <2>1
<1>5. /\ h \in [0..y -> Nat] /\ h[0] = g[1] /\ h[y] = g[t]
      /\ \A i \in 1..y : h[i] = g[i + 1] /\ h[i - 1] = g[i] /\ i + 1 \in 1..t /\ (i + 1) - 1 = i
  <2>1. \A i \in 0..y : i + 1 \in 0..t
    BY <1>1
  <2>2. \A i \in 0..y : g[i + 1] \in Nat
    BY <1>3, <2>1
  <2>3. 0 \in 0..y /\ y \in 0..y /\ y + 1 = t /\ 0 + 1 = 1
    BY <1>1
  <2>4. \A i \in 1..y : i \in 0..y /\ i - 1 \in 0..y /\ (i - 1) + 1 = i /\ i + 1 \in 1..t /\ (i + 1) - 1 = i
    BY <1>1
  <2>5. h \in [0..y -> Nat] /\ \A i \in 0..y : h[i] = g[i + 1]
    BY <2>2
  <2> HIDE DEF h
  <2> QED BY <2>3, <2>4, <2>5
<1> HIDE DEF h
<1>6. \A i \in 1..y : h[i] = h[i - 1] + (IF Of(Y[i], d) THEN 1 ELSE 0)
  <2> SUFFICES ASSUME NEW i \in 1..y PROVE h[i] = h[i - 1] + (IF Of(Y[i], d) THEN 1 ELSE 0)
    OBVIOUS
  <2> DEFINE j == i + 1
  <2>1. j \in 1..t /\ g[j] = g[j - 1] + (IF Of(T[j], d) THEN 1 ELSE 0) /\ j - 1 = i
    BY <1>3, <1>5
  <2> QED BY <1>1, <1>5, <2>1
<1>7. Lined(h, Y, d, q) /\ h[Len(Y)] = m
  BY <1>2, <1>4, <1>5, <1>6, <1>a DEF Lined
<1>8. Due(h, Y, d, C, S, th)
  <2> SUFFICES ASSUME NEW i \in 1..y, Of(Y[i], d)
               PROVE  /\ h[i] \in 1..Len(th) /\ Y[i].fn.d = th[h[i]]
                      /\ S[d] = Final(Y[i].k) /\ Y[i].v = C[<<d, Y[i].k>>].memory
    BY <1>a DEF Due
  <2>1. Y[i] = T[i + 1] /\ h[i] = g[i + 1] /\ i + 1 \in 1..Len(T)
    BY <1>1, <1>5, <1>a
  <2> QED BY <1>2, <2>1 DEF Due
<1>9. Owed(Y, d, q, m, C, S, th)
  BY <1>7, <1>8 DEF Owed
<1>10. Of(T[1], d) => /\ g[1] \in 1..Len(th) /\ T[1].fn.d = th[g[1]]
                      /\ S[d] = Final(T[1].k) /\ T[1].v = C[<<d, T[1].k>>].memory
  BY <1>1, <1>2 DEF Due, t
<1>11. Of(T[1], d) => q = r + 1
  OBVIOUS
<1>12. ~Of(T[1], d) => q = r
  BY <1>4
<1> HIDE DEF q
<1> QED BY <1>1, <1>4, <1>9, <1>10, <1>11, <1>12 DEF Y

\* What Keeps says of d.
KeepsAt(C, S, D, R, d) ==
  \A k \in Outs : /\ R[d] = Final(k) <=> S[d] = Final(k)
                  /\ S[d] = Final(k) => /\ D[<<d, k>>].memory = C[<<d, k>>].memory
                                        /\ Early(D, d, k) <=> Early(C, d, k)

LEMMA KeepsEach ==
  ASSUME NEW N, NEW C, NEW S, NEW D, NEW R, Keeps(N, C, S, D, R), NEW d \in Deferred
  PROVE  KeepsAt(C, S, D, R, d)
BY DEF Keeps, KeepsAt

LEMMA ReactsSame ==
  ASSUME NEW M, NEW T, Tasks(M, T), NEW d \in Deferred, NEW C, NEW S, NEW D, NEW R,
         KeepsAt(C, S, D, R, d), NEW H, NEW th, NEW r, Reacts(d, T, H, C, S, th, r)
  PROVE  Reacts(d, T, H, D, R, th, r)
<1>1. \A k \in Outs : /\ R[d] = Final(k) <=> S[d] = Final(k)
                      /\ S[d] = Final(k) => /\ D[<<d, k>>].memory = C[<<d, k>>].memory
                                            /\ Early(D, d, k) <=> Early(C, d, k)
  BY DEF KeepsAt
<1>2. PICK m \in Nat :
        /\ Owed(T, d, r, m, C, S, th)
        /\ Untold(m, d, H, C, S, th) \/ \E k \in Outs : Answered(m, d, k, H, C, S, th)
  BY DEF Reacts
<1>3. Owed(T, d, r, m, D, R, th)
  BY <1>1, <1>2, OwedKeeps
<1>4. CASE Untold(m, d, H, C, S, th)
  <2>1. Untold(m, d, H, D, R, th)
    BY <1>1, <1>4 DEF Untold
  <2> QED BY <1>3, <2>1 DEF Reacts
<1>5. ASSUME NEW k \in Outs, Answered(m, d, k, H, C, S, th)
      PROVE  Answered(m, d, k, H, D, R, th)
  BY <1>1, <1>5 DEF Answered
<1> QED BY <1>2, <1>3, <1>4, <1>5 DEF Reacts

\* Timers and handlers of others are more.
LEMMA ReactsOthers ==
  ASSUME NEW M, NEW T, Tasks(M, T), NEW X, Tasks(M, X), NEW d \in Deferred,
         \A i \in DOMAIN X : ~Of(X[i], d), NEW H, NEW I,
         \A k \in Outs : I[<<d, k>>] = H[<<d, k>>],
         NEW C, NEW S, NEW th, NEW r, Reacts(d, T, H, C, S, th, r)
  PROVE  Reacts(d, T \o X, I, C, S, th, r)
<1>1. PICK m \in Nat :
        /\ Owed(T, d, r, m, C, S, th)
        /\ Untold(m, d, H, C, S, th) \/ \E k \in Outs : Answered(m, d, k, H, C, S, th)
  BY DEF Reacts
<1>2. Owed(T \o X, d, r, m, C, S, th)
  <2>1. Owed(X, d, m, m, C, S, th)
    BY OwedNone
  <2> QED BY <1>1, <2>1, OwedJoined
<1>3. Untold(m, d, H, C, S, th) => Untold(m, d, I, C, S, th)
  BY DEF Untold
<1>4. \A k \in Outs : Answered(m, d, k, H, C, S, th) => Answered(m, d, k, I, C, S, th)
  BY OutsAre DEF Answered
<1> DEFINE Y == T \o X
<1> HIDE DEF Y
<1>5. Reacts(d, Y, I, C, S, th, r)
  BY <1>1, <1>2, <1>3, <1>4 DEF Reacts, Y
<1> QED BY <1>5 DEF Y

LEMMA ReactsTail ==
  ASSUME NEW M, NEW T, Tasks(M, T), T # <<>>, NEW d \in Deferred, NEW H,
         NEW C, NEW S, NEW th, NEW r, Reacts(d, T, H, C, S, th, r)
  PROVE  /\ ~Of(Head(T), d) => Reacts(d, Tail(T), H, C, S, th, r)
         /\ Of(Head(T), d) =>
              /\ Reacts(d, Tail(T), H, C, S, th, r + 1)
              /\ r + 1 \in 1..Len(th) /\ Head(T).fn.d = th[r + 1]
              /\ S[d] = Final(Head(T).k) /\ Head(T).v = C[<<d, Head(T).k>>].memory
<1>1. PICK m \in Nat :
        /\ Owed(T, d, r, m, C, S, th)
        /\ Untold(m, d, H, C, S, th) \/ \E k \in Outs : Answered(m, d, k, H, C, S, th)
  BY DEF Reacts
<1>2. /\ ~Of(Head(T), d) => Owed(Tail(T), d, r, m, C, S, th)
      /\ Of(Head(T), d) =>
           /\ Owed(Tail(T), d, r + 1, m, C, S, th)
           /\ r + 1 \in 1..Len(th) /\ Head(T).fn.d = th[r + 1]
           /\ S[d] = Final(Head(T).k) /\ Head(T).v = C[<<d, Head(T).k>>].memory
  BY <1>1, OwedTail
<1> DEFINE Y == Tail(T)
           q == r + 1
<1> HIDE DEF Y, q
<1>3. ~Of(Head(T), d) => Reacts(d, Y, H, C, S, th, r)
  BY <1>1, <1>2 DEF Reacts, Y
<1>4. Of(Head(T), d) => Reacts(d, Y, H, C, S, th, q)
  BY <1>1, <1>2 DEF Reacts, Y, q
<1> QED BY <1>2, <1>3, <1>4 DEF Y, q

\* then() makes f of the list of handlers c of e, and sets the timers w.
AskedTo(M, c, f, w, b, k, e) ==
  /\ Tasks(M, w) /\ DOMAIN w = 1..Len(w)
  /\ f.memory = c.memory /\ f.locked = c.locked
  /\ c.memory = None => w = <<>>
  /\ ~c.locked => /\ Len(c.list) \in Nat /\ Len(f.list) = Len(c.list) + 1
                  /\ \A j \in 1..Len(c.list) : f.list[j] = c.list[j]
                  /\ f.list[Len(c.list) + 1].fn.d = b
  /\ c.memory # None => Len(w) = 1 /\ w[1].fn.d = b
  /\ \A i \in DOMAIN w : w[i].do = "process" /\ w[i].k = k /\ w[i].of = e /\ w[i].v = c.memory
  /\ c.locked <=> k # "notify" /\ c.memory # None

LEMMA AskedIs ==
  ASSUME NEW M \in SUBSET Deferred, NEW hs, DOMAIN hs = ListId,
         \A l \in ListId : Handling(M, l[2], hs[l]),
         NEW e \in Deferred, NEW on, \A k \in Kind : on[k] \in Nested(M),
         NEW b \in M \cup {Nobody}, NEW k \in Kind
  PROVE  AskedTo(M, hs[<<e, k>>], HandlersAfter(hs, e, on, b)[<<e, k>>],
                 Timers(e, k, Handler(hs[<<e, k>>], k, on, b)), b, k, e)
<1> DEFINE l == <<e, k>>
           c == hs[l]
           fn == Resolve(0, b, on[k], k = "notify")
           h == Handler(c, k, on, b)
           f == HandlersAfter(hs, e, on, b)[l]
           w == Timers(e, k, h)
<1>1. l \in ListId /\ l[1] = e /\ l[2] = k
  BY ListIds
<1>2. /\ fn \in Fn(M) /\ fn.d = b
  BY DEF Resolve, Fn
<1>3. f = Fired(h)
  BY <1>1 DEF HandlersAfter
<1>4. Handling(M, k, c) /\ h = Added(c, fn)
  BY <1>1 DEF Handler, Added, Hand
<1> HIDE DEF l, c, fn, h, f
<1>5. /\ ListOf(Hands(M), h) /\ f.memory = c.memory /\ f.locked = c.locked
      /\ h.memory = c.memory /\ h.list = Append(c.list, Hand(fn))
      /\ ~c.locked => f.list = h.list
      /\ c.memory = None => ~h.firing
      /\ c.memory # None => h.firing /\ h.index = Len(c.list)
  <2>1. /\ ListOf(Hands(M), Added(c, fn)) /\ Fired(Added(c, fn)).memory = c.memory
        /\ Fired(Added(c, fn)).locked = c.locked
        /\ Added(c, fn).memory = c.memory /\ Added(c, fn).list = Append(c.list, Hand(fn))
        /\ ~c.locked => Fired(Added(c, fn)).list = Added(c, fn).list
        /\ c.memory = None => ~Added(c, fn).firing
        /\ c.memory # None => Added(c, fn).firing /\ Added(c, fn).index = Len(c.list)
    BY <1>2, <1>4, HandlerAdded
  <2> QED BY <1>3, <1>4, <2>1, Zenon
<1>6. c.list \in Seq(Hands(M)) /\ c.memory \in Value \cup {None} /\ (c.locked <=> k # "notify" /\ c.memory # None)
  BY <1>4 DEF Handling, ListOf, ListingOf
<1>7. /\ Len(c.list) \in Nat /\ Len(h.list) = Len(c.list) + 1
      /\ \A j \in 1..Len(c.list) : h.list[j] = c.list[j]
      /\ h.list[Len(c.list) + 1] = Hand(fn)
  <2> DEFINE s == c.list
             x == Hand(fn)
             U == Hands(M)
  <2>1. s \in Seq(U) /\ h.list = Append(s, x)
    BY <1>5, <1>6
  <2> HIDE DEF s, x, U
  <2>2. /\ Len(s) \in Nat /\ Len(h.list) = Len(s) + 1
        /\ \A j \in 1..Len(s) : h.list[j] = s[j]
        /\ h.list[Len(s) + 1] = x
    BY <2>1
  <2> QED BY <2>2 DEF s, x
<1>8. Hand(fn).fn.d = b
  BY <1>2 DEF Hand
<1>9. h.firing => h.memory \in Value /\ h.index <= Len(h.list)
  BY <1>5, <1>6, <1>7
<1>10. /\ Tasks(M, w)
       /\ ~h.firing => w = <<>>
       /\ h.firing => /\ Len(w) = Len(h.list) - h.index
                      /\ DOMAIN w = 1..(Len(h.list) - h.index)
                      /\ \A i \in 1..(Len(h.list) - h.index) :
                           w[i] = Timer(e, k, h.list[h.index + i].fn, h.memory)
  <2>1. ListOf(Hands(M), h)
    BY <1>5
  <2> QED BY <2>1, <1>9, TimersAre
<1> HIDE DEF w
<1>11. CASE c.memory = None
  <2>1. w = <<>>
    BY <1>5, <1>10, <1>11
  <2>2. DOMAIN w = 1..Len(w) /\ DOMAIN w = {}
    BY <2>1
  <2> QED BY <1>5, <1>6, <1>7, <1>8, <1>10, <1>11, <2>1, <2>2 DEF w, h, f, c, l, AskedTo
<1>12. CASE c.memory # None
  <2>1. Len(h.list) - h.index = 1 /\ h.firing /\ h.index + 1 = Len(c.list) + 1
    BY <1>5, <1>7, <1>12
  <2>2. Len(w) = 1 /\ DOMAIN w = 1..1 /\ w[1] = Timer(e, k, Hand(fn).fn, c.memory)
    BY <1>5, <1>7, <1>10, <2>1
  <2>3. \A i \in DOMAIN w : i = 1
    BY <2>2
  <2>4. w[1].do = "process" /\ w[1].k = k /\ w[1].of = e /\ w[1].v = c.memory /\ w[1].fn.d = b
    BY <1>8, <2>2 DEF Timer
  <2>5. DOMAIN w = 1..Len(w) /\ Len(w) = 1 /\ w[1].fn.d = b
    BY <2>2, <2>4
  <2>6. \A i \in DOMAIN w : w[i].do = "process" /\ w[i].k = k /\ w[i].of = e /\ w[i].v = c.memory
    BY <2>3, <2>4
  <2>7. ~c.locked => /\ Len(c.list) \in Nat /\ Len(f.list) = Len(c.list) + 1
                     /\ \A j \in 1..Len(c.list) : f.list[j] = c.list[j]
                     /\ f.list[Len(c.list) + 1].fn.d = b
    BY <1>5, <1>7, <1>8
  <2>8. AskedTo(M, c, f, w, b, k, e)
    BY <1>5, <1>6, <1>10, <1>12, <2>5, <2>6, <2>7 DEF AskedTo
  <2> QED BY <2>8 DEF w, h, f, c, l
<1> QED BY <1>11, <1>12

\* Timers of one kind that run the reactions of nobody, or that of d whose turn it is.
LEMMA OwedAsked ==
  ASSUME NEW M, NEW w, Tasks(M, w), DOMAIN w = 1..Len(w), NEW d, NEW k \in Outs, NEW b, NEW v,
         NEW m \in Nat, NEW C, NEW S, NEW th,
         \A i \in DOMAIN w : w[i].do = "process" /\ w[i].k = k /\ w[i].of = d /\ w[i].v = v,
         v # None => Len(w) = 1 /\ w[1].fn.d = b,
         v = None => w = <<>>,
         v # None => /\ m + 1 = Len(th) /\ th[m + 1] = b
                     /\ S[d] = Final(k) /\ v = C[<<d, k>>].memory
  PROVE  Owed(w, d, m, IF v = None THEN m ELSE m + 1, C, S, th)
<1>1. CASE v = None
  <2>1. w = <<>>
    BY <1>1
  <2>2. DOMAIN w = {}
    BY <2>1
  <2>3. Owed(w, d, m, m, C, S, th)
    BY <2>2, OwedNone
  <2> QED BY <1>1, <2>3
<1>2. CASE v # None
  <2>1. \A i \in 1..Len(w) :
          /\ Of(w[i], d) /\ m + i \in 1..Len(th) /\ w[i].fn.d = th[m + i]
          /\ S[d] = Final(w[i].k) /\ w[i].v = C[<<d, w[i].k>>].memory
    <3>1. Len(w) = 1
      BY <1>2
    <3>2. \A i \in 1..Len(w) : i = 1 /\ i \in DOMAIN w
      BY <3>1
    <3>3. m + 1 \in 1..Len(th)
      BY <1>2
    <3> QED BY <1>2, <3>2, <3>3 DEF Of
  <2>2. Owed(w, d, m, m + Len(w), C, S, th)
    BY <2>1, OwedAll
  <2>3. m + Len(w) = m + 1
    BY <1>2
  <2> QED BY <1>2, <2>2, <2>3
<1> QED BY <1>1, <1>2

\* then(): the new reaction waits with the others, or its timer is set.
LEMMA ReactsAsked ==
  ASSUME NEW M \in SUBSET Deferred, NEW hs, DOMAIN hs = ListId,
         \A l \in ListId : Handling(M, l[2], hs[l]),
         NEW e \in Deferred, NEW on, \A k \in Kind : on[k] \in Nested(M),
         NEW b \in M \cup {Nobody},
         NEW T, Tasks(M, T), NEW C, NEW S, NEW th, th \in Seq(Named), NEW r,
         Reacts(e, T, hs, C, S, th, r)
  PROVE  Reacts(e, T \o TimersOf(hs, e, on, b), HandlersAfter(hs, e, on, b), C, S,
                Append(th, b), r)
<1> DEFINE w(k) == Timers(e, k, Handler(hs[<<e, k>>], k, on, b))
           c(k) == hs[<<e, k>>]
           HA == HandlersAfter(hs, e, on, b)
           f(k) == HA[<<e, k>>]
           ta == Append(th, b)
           W == TimersOf(hs, e, on, b)
<1>1. ASSUME NEW k \in Kind
      PROVE  /\ Tasks(M, w(k)) /\ DOMAIN w(k) = 1..Len(w(k))
             /\ f(k).memory = c(k).memory /\ f(k).locked = c(k).locked
             /\ c(k).memory = None => w(k) = <<>>
             /\ ~c(k).locked =>
                  /\ Len(c(k).list) \in Nat /\ Len(f(k).list) = Len(c(k).list) + 1
                  /\ \A j \in 1..Len(c(k).list) : f(k).list[j] = c(k).list[j]
                  /\ f(k).list[Len(c(k).list) + 1].fn.d = b
             /\ c(k).memory # None => Len(w(k)) = 1 /\ w(k)[1].fn.d = b
             /\ \A i \in DOMAIN w(k) : /\ w(k)[i].do = "process" /\ w(k)[i].k = k
                                       /\ w(k)[i].of = e /\ w(k)[i].v = c(k).memory
             /\ c(k).locked <=> k # "notify" /\ c(k).memory # None
  <2>1. AskedTo(M, c(k), f(k), w(k), b, k, e)
    BY AskedIs
  <2> QED BY <2>1 DEF AskedTo
<1>2. W = (w("notify") \o w("resolve")) \o w("reject")
  BY DEF TimersOf
<1>3. b \in Named
  <2>1. Deferred \subseteq Named /\ Nobody \in Named
    BY DeferredAssumption DEF Named, Deferred, Nobody
  <2> QED BY <2>1
<1>4. Len(th) \in Nat /\ Len(ta) = Len(th) + 1 /\ ta[Len(th) + 1] = b
      /\ \A j \in 1..Len(th) : ta[j] = th[j]
  <2> DEFINE U == Named
  <2>1. th \in Seq(U) /\ b \in U
    BY <1>3
  <2> HIDE DEF U
  <2> QED BY <2>1
<1> HIDE DEF w, c, f, HA, ta, W
<1>5. PICK m \in Nat :
        /\ Owed(T, e, r, m, C, S, th)
        /\ Untold(m, e, hs, C, S, th) \/ \E k \in Outs : Answered(m, e, k, hs, C, S, th)
  BY DEF Reacts
<1>6. Owed(T, e, r, m, C, S, ta)
  BY <1>3, <1>5, OwedLonger DEF ta
<1>7. Owed(w("notify"), e, m, m, C, S, ta)
  <2>1. "notify" \in Kind /\ "notify" \notin Outs
    BY DEF Kind, Outs
  <2>2. \A i \in DOMAIN w("notify") : ~Of(w("notify")[i], e)
    BY <1>1, <2>1 DEF Of
  <2> QED BY <1>1, <2>1, <2>2, OwedNone
<1>8. ASSUME NEW n \in Nat, NEW o \in Nat, Owed(w("resolve"), e, m, n, C, S, ta),
             Owed(w("reject"), e, n, o, C, S, ta)
      PROVE  Owed(T \o W, e, r, o, C, S, ta)
  <2> DEFINE x == w("notify")
             y == w("resolve")
             z == w("reject")
  <2>1. Tasks(M, x) /\ Tasks(M, y) /\ Tasks(M, z)
    BY <1>1 DEF Kind
  <2>2. Owed(x, e, m, m, C, S, ta) /\ Owed(y, e, m, n, C, S, ta) /\ Owed(z, e, n, o, C, S, ta)
    BY <1>7, <1>8
  <2>3. W = (x \o y) \o z
    BY <1>2
  <2> HIDE DEF x, y, z
  <2> DEFINE p == x \o y
  <2>4. Owed(p, e, m, n, C, S, ta) /\ Tasks(M, p)
    BY <2>1, <2>2, OwedJoined, TasksJoined
  <2> HIDE DEF p
  <2>5. Owed(p \o z, e, m, o, C, S, ta) /\ Tasks(M, p \o z)
    BY <2>1, <2>2, <2>4, OwedJoined, TasksJoined
  <2>6. Owed(W, e, m, o, C, S, ta) /\ Tasks(M, W)
    BY <2>3, <2>5 DEF p
  <2> QED BY <1>6, <2>6, OwedJoined
<1>9. CASE Untold(m, e, hs, C, S, th)
  <2>1. ASSUME NEW k \in Outs
        PROVE  /\ ~c(k).locked /\ Len(c(k).list) + m = Len(th)
               /\ \A j \in 1..Len(c(k).list) : c(k).list[j].fn.d = th[m + j]
               /\ S[e] = Final(k) => Early(C, e, k)
    BY <1>9 DEF Untold, c
  <2>2. ASSUME NEW k \in Outs PROVE Owed(w(k), e, m, m, C, S, ta)
    <3>1. k \in Kind /\ k # "notify"
      BY OutsAre
    <3>2. c(k).memory = None
      BY <1>1, <2>1, <3>1
    <3>3. w(k) = <<>>
      BY <1>1, <3>1, <3>2
    <3>4. DOMAIN w(k) = {}
      BY <3>3
    <3>5. Tasks(M, w(k))
      BY <1>1, <3>1
    <3> QED BY <3>4, <3>5, OwedNone
  <2>3. Owed(T \o W, e, r, m, C, S, ta)
    <3>1. "resolve" \in Outs /\ "reject" \in Outs
      BY DEF Outs
    <3> QED BY <1>8, <2>2, <3>1
  <2>4. ASSUME NEW k \in Outs
        PROVE  /\ ~f(k).locked /\ Len(f(k).list) + m = Len(ta)
               /\ \A j \in 1..Len(f(k).list) : f(k).list[j].fn.d = ta[m + j]
               /\ S[e] = Final(k) => Early(C, e, k)
    <3> DEFINE s == c(k).list
               g == f(k).list
    <3>1. /\ k \in Kind /\ ~c(k).locked /\ f(k).locked = c(k).locked
          /\ Len(s) \in Nat /\ Len(g) = Len(s) + 1
          /\ \A j \in 1..Len(s) : g[j] = s[j]
          /\ g[Len(s) + 1].fn.d = b
      <4>1. k \in Kind
        BY OutsAre
      <4> QED BY <1>1, <2>1, <4>1
    <3>2. /\ Len(s) + m = Len(th) /\ \A j \in 1..Len(s) : s[j].fn.d = th[m + j]
      BY <2>1
    <3> HIDE DEF s, g
    <3>5. Len(s) \in Nat /\ Len(g) = Len(s) + 1 /\ Len(s) + m = Len(th) /\ Len(ta) = Len(th) + 1
      BY <1>4, <3>1, <3>2
    <3>3. Len(g) + m = Len(ta)
      BY <3>5
    <3>4. ASSUME NEW j \in 1..Len(g) PROVE g[j].fn.d = ta[m + j]
      <4>1. CASE j \in 1..Len(s)
        <5>1. m + j \in 1..Len(th)
          BY <3>1, <3>2, <4>1
        <5>2. g[j].fn.d = th[m + j]
          BY <3>1, <3>2, <4>1
        <5> QED BY <1>4, <5>1, <5>2
      <4>2. CASE j = Len(s) + 1
        <5>1. m + j = Len(th) + 1
          BY <3>5, <4>2
        <5> QED BY <1>4, <3>1, <4>2, <5>1
      <4> QED BY <3>1, <4>1, <4>2
    <3> QED BY <2>1, <3>1, <3>3, <3>4 DEF g
  <2>5. Untold(m, e, HA, C, S, ta)
    BY <2>4 DEF Untold, f
  <2> DEFINE Y == T \o W
  <2> HIDE DEF Y
  <2>6. Reacts(e, Y, HA, C, S, ta, r)
    BY <2>3, <2>5 DEF Reacts, Y
  <2> QED BY <2>6 DEF Y, W, HA, ta
<1>10. ASSUME NEW k \in Outs, Answered(m, e, k, hs, C, S, th)
       PROVE  Reacts(e, T \o W, HA, C, S, ta, r)
  <2>1. /\ c(k).locked /\ ~c(Other(k)).locked /\ c(k).memory = C[<<e, k>>].memory
        /\ S[e] = Final(k) /\ ~Early(C, e, k) /\ Len(th) = m
    BY <1>10 DEF Answered, c
  <2>2. ASSUME NEW j \in Outs, NEW n \in Nat, j = k => n = m
        PROVE  Owed(w(j), e, n, IF j = k THEN n + 1 ELSE n, C, S, ta)
    <3>1. j \in Kind /\ j # "notify"
      BY OutsAre
    <3>2. IF j = k THEN c(j).memory # None ELSE c(j).memory = None
      <4>1. j # k => j = Other(k)
        BY OutsAre
      <4> QED BY <1>1, <2>1, <3>1, <4>1
    <3> DEFINE v == c(j).memory
               x == w(j)
    <3>3. /\ Tasks(M, x) /\ DOMAIN x = 1..Len(x)
          /\ \A i \in DOMAIN x : x[i].do = "process" /\ x[i].k = j /\ x[i].of = e /\ x[i].v = v
          /\ v # None => Len(x) = 1 /\ x[1].fn.d = b
          /\ v = None => x = <<>>
      BY <1>1, <3>1
    <3>4. v # None => /\ n + 1 = Len(ta) /\ ta[n + 1] = b
                      /\ S[e] = Final(j) /\ v = C[<<e, j>>].memory
      BY <1>4, <2>1, <2>2, <3>2
    <3>5. (v = None) <=> (j # k)
      BY <3>2
    <3> HIDE DEF v, x
    <3>6. Owed(x, e, n, IF v = None THEN n ELSE n + 1, C, S, ta)
      BY <3>3, <3>4, OwedAsked
    <3> QED BY <3>5, <3>6 DEF x
  <2>3. Owed(T \o W, e, r, m + 1, C, S, ta)
    <3>1. "resolve" \in Outs /\ "reject" \in Outs /\ (k = "resolve" \/ k = "reject")
          /\ "resolve" # "reject"
      BY DEF Outs
    <3>2. CASE k = "resolve"
      <4>1. Owed(w("resolve"), e, m, m + 1, C, S, ta)
        BY <2>2, <3>1, <3>2
      <4>2. Owed(w("reject"), e, m + 1, m + 1, C, S, ta)
        <5>1. m + 1 \in Nat /\ "reject" # k
          BY <3>1, <3>2
        <5> QED BY <2>2, <3>1, <5>1
      <4>3. m + 1 \in Nat
        OBVIOUS
      <4> QED BY <1>8, <4>1, <4>2, <4>3
    <3>3. CASE k = "reject"
      <4>1. Owed(w("resolve"), e, m, m, C, S, ta)
        BY <2>2, <3>1, <3>3
      <4>2. Owed(w("reject"), e, m, m + 1, C, S, ta)
        BY <2>2, <3>1, <3>3
      <4>3. m + 1 \in Nat
        OBVIOUS
      <4> QED BY <1>8, <4>1, <4>2, <4>3
    <3> QED BY <3>1, <3>2, <3>3
  <2>4. Answered(m + 1, e, k, HA, C, S, ta)
    <3>1. k \in Kind /\ Other(k) \in Kind
      BY OutsAre
    <3>2. f(k).locked /\ ~f(Other(k)).locked /\ f(k).memory = C[<<e, k>>].memory
      BY <1>1, <2>1, <3>1
    <3> QED BY <1>4, <2>1, <3>2 DEF Answered, f
  <2> DEFINE Y == T \o W
             q == m + 1
  <2>5. q \in Nat
    OBVIOUS
  <2> HIDE DEF Y, q
  <2>6. Reacts(e, Y, HA, C, S, ta, r)
    BY <2>3, <2>4, <2>5 DEF Reacts, Y, q
  <2> QED BY <2>6 DEF Y
<1>11. Reacts(e, T \o W, HA, C, S, ta, r)
  BY <1>5, <1>9, <1>10 DEF W, HA, ta
<1> QED BY <1>11 DEF W, HA, ta

LEMMA OfJoined ==
  ASSUME NEW M, NEW T, Tasks(M, T), NEW X, Tasks(M, X), NEW e,
         \A i \in DOMAIN T : T[i].of = e, \A i \in DOMAIN X : X[i].of = e
  PROVE  Tasks(M, T \o X) /\ \A i \in DOMAIN (T \o X) : (T \o X)[i].of = e
<1>1. /\ Tasks(M, T \o X) /\ Len(T) \in Nat /\ Len(X) \in Nat
      /\ DOMAIN T = 1..Len(T) /\ DOMAIN X = 1..Len(X)
      /\ DOMAIN (T \o X) = 1..(Len(T) + Len(X))
      /\ \A i \in 1..(Len(T) + Len(X)) :
           (T \o X)[i] = IF i <= Len(T) THEN T[i] ELSE X[i - Len(T)]
  BY TasksJoined
<1> DEFINE Y == T \o X
           t == Len(T)
           x == Len(X)
<1> HIDE DEF Y
<1>2. ASSUME NEW i \in DOMAIN Y PROVE Y[i].of = e
  <2>1. i \in 1..(t + x) /\ Y[i] = IF i <= t THEN T[i] ELSE X[i - t]
    BY <1>1 DEF Y
  <2>2. CASE i <= t
    <3>1. i \in DOMAIN T
      BY <1>1, <2>1, <2>2
    <3> QED BY <2>1, <2>2, <3>1
  <2>3. CASE ~(i <= t)
    <3>1. i - t \in DOMAIN X
      BY <1>1, <2>1, <2>3
    <3> QED BY <2>1, <2>3, <3>1
  <2> QED BY <2>2, <2>3
<1> QED BY <1>1, <1>2 DEF Y

LEMMA TimersOfAre ==
  ASSUME NEW M \in SUBSET Deferred, NEW hs, DOMAIN hs = ListId,
         \A l \in ListId : Handling(M, l[2], hs[l]),
         NEW e \in Deferred, NEW on, \A k \in Kind : on[k] \in Nested(M),
         NEW b \in M \cup {Nobody}
  PROVE  \A i \in DOMAIN TimersOf(hs, e, on, b) : TimersOf(hs, e, on, b)[i].of = e
<1> DEFINE w(k) == Timers(e, k, Handler(hs[<<e, k>>], k, on, b))
           x == w("notify")
           y == w("resolve")
           z == w("reject")
<1>1. ASSUME NEW k \in Kind PROVE Tasks(M, w(k)) /\ \A i \in DOMAIN w(k) : w(k)[i].of = e
  <2>1. AskedTo(M, hs[<<e, k>>], HandlersAfter(hs, e, on, b)[<<e, k>>], w(k), b, k, e)
    BY AskedIs
  <2> HIDE DEF w
  <2> QED BY <2>1 DEF AskedTo
<1>2. TimersOf(hs, e, on, b) = (x \o y) \o z
  BY DEF TimersOf
<1> HIDE DEF w
<1>3. /\ Tasks(M, x) /\ Tasks(M, y) /\ Tasks(M, z)
      /\ \A i \in DOMAIN x : x[i].of = e
      /\ \A i \in DOMAIN y : y[i].of = e
      /\ \A i \in DOMAIN z : z[i].of = e
  BY <1>1 DEF Kind
<1> HIDE DEF x, y, z
<1> DEFINE p == x \o y
<1>4. Tasks(M, p) /\ \A i \in DOMAIN p : p[i].of = e
  BY <1>3, OfJoined
<1> HIDE DEF p
<1>5. \A i \in DOMAIN (p \o z) : (p \o z)[i].of = e
  BY <1>3, <1>4, OfJoined
<1> QED BY <1>2, <1>5 DEF p

\* then(), for everybody.
LEMMA ReactsThen ==
  ASSUME NEW M \in SUBSET Deferred, NEW hs, DOMAIN hs = ListId,
         \A l \in ListId : Handling(M, l[2], hs[l]),
         NEW e \in Deferred, NEW on, \A k \in Kind : on[k] \in Nested(M),
         NEW b \in M \cup {Nobody},
         NEW T, Tasks(M, T), NEW C, NEW S, NEW d \in Deferred, NEW th, th \in Seq(Named), NEW r,
         Reacts(d, T, hs, C, S, th, r)
  PROVE  Reacts(d, T \o TimersOf(hs, e, on, b), HandlersAfter(hs, e, on, b), C, S,
                IF d = e THEN Append(th, b) ELSE th, r)
<1>1. CASE d = e
  BY <1>1, ReactsAsked
<1>2. CASE d # e
  <2> DEFINE X == TimersOf(hs, e, on, b)
             I == HandlersAfter(hs, e, on, b)
  <2>1. \A k \in Outs : I[<<d, k>>] = hs[<<d, k>>]
    <3>1. \A k \in Outs : <<d, k>> \in ListId /\ <<d, k>>[1] = d
      BY ListIds, OutsAre
    <3> QED BY <1>2, <3>1 DEF HandlersAfter
  <2>2. \A i \in DOMAIN X : ~Of(X[i], d)
    BY <1>2, TimersOfAre DEF Of
  <2>3. Tasks(M, X)
    BY ThenIs
  <2> HIDE DEF X, I
  <2>4. Reacts(d, T \o X, I, C, S, th, r)
    BY <2>1, <2>2, <2>3, ReactsOthers
  <2> QED BY <1>2, <2>4 DEF X, I
<1> QED BY <1>1, <1>2

\* d gets its outcome.
SettledAs(M, J, C, S, D, R, d, k) ==
  /\ C \in [ListId -> Listing] /\ S \in [Deferred -> {"unborn", "pending", "resolved", "rejected"}]
  /\ First(M, J, C[<<d, k>>], d, k) /\ C[<<d, k>>].index = 0 /\ Open(S, d)
  /\ R = [S EXCEPT ![d] = Final(k)]
  /\ D = [C EXCEPT ![<<d, k>>] = Advance(C[<<d, k>>])]

LEMMA ReactsSettled ==
  ASSUME NEW M, NEW T, Tasks(M, T), NEW d \in Deferred, NEW k \in Outs, NEW C, NEW S, NEW D, NEW R,
         NEW J, SettledAs(M, J, C, S, D, R, d, k),
         NEW p \in Deferred, NEW H, NEW th, NEW r, Reacts(p, T, H, C, S, th, r)
  PROVE  Reacts(p, T, H, D, R, th, r)
<1> DEFINE l == <<d, k>>
           c == C[l]
           a == Advance(c)
<1>0. /\ C \in [ListId -> Listing] /\ S \in [Deferred -> {"unborn", "pending", "resolved", "rejected"}]
      /\ First(M, J, C[<<d, k>>], d, k) /\ C[<<d, k>>].index = 0 /\ Open(S, d)
      /\ R = [S EXCEPT ![d] = Final(k)]
      /\ D = [C EXCEPT ![<<d, k>>] = Advance(C[<<d, k>>])]
  BY DEF SettledAs
<1>1. /\ l \in ListId /\ \A j \in Outs : <<p, j>> \in ListId
      /\ \A j \in Outs : <<p, j>> = l <=> p = d /\ j = k
  BY ListIds, OutsAre
<1>2. a.list = c.list /\ a.memory = c.memory /\ a.index = 1
  <2>1. c \in Listing /\ c.index = 0
    BY <1>0, <1>1
  <2> HIDE DEF c
  <2> QED BY <2>1 DEF Advance, Listing, ListingOf
<1>3. D[l] = a /\ \A m \in ListId : m # l => D[m] = C[m]
  BY <1>0, <1>1
<1>4. CASE p # d
  <2>1. KeepsAt(C, S, D, R, p)
    <3>1. R[p] = S[p] /\ \A j \in Outs : D[<<p, j>>] = C[<<p, j>>]
      <4> HIDE DEF l, a
      <4> QED BY <1>0, <1>1, <1>3, <1>4
    <3> QED BY <3>1 DEF KeepsAt, Early
  <2> QED BY <2>1, ReactsSame
<1>5. CASE p = d
  <2>1. \A j \in Outs : S[d] # Final(j)
    BY <1>0 DEF Open, Final, Outs
  <2>2. PICK m \in Nat :
          /\ Owed(T, d, r, m, C, S, th)
          /\ Untold(m, d, H, C, S, th) \/ \E j \in Outs : Answered(m, d, j, H, C, S, th)
    BY <1>5 DEF Reacts
  <2>3. Untold(m, d, H, C, S, th)
    BY <2>1, <2>2 DEF Answered
  <2>4. Owed(T, d, r, m, D, R, th)
    BY <2>1, <2>2, OwedKeeps
  <2>5. Early(D, d, k)
    <3>1. a.list # <<>> /\ a.list[1].do = "state"
      BY <1>0, <1>2 DEF First, Starts, Entry
    <3> HIDE DEF a, l
    <3> QED BY <1>2, <1>3, <3>1 DEF Early, l
  <2>6. \A j \in Outs : R[d] = Final(j) => j = k
    BY <1>0, OutsAre
  <2>7. Untold(m, d, H, D, R, th)
    BY <2>3, <2>5, <2>6 DEF Untold
  <2> QED BY <1>5, <2>4, <2>7 DEF Reacts
<1> QED BY <1>4, <1>5

LEMMA ReactsTold ==
  ASSUME NEW M, NEW T, Tasks(M, T), NEW d \in Deferred, NEW k \in Outs, NEW C, NEW S, NEW D,
         C \in [ListId -> Listing],
         NEW J, First(M, J, C[<<d, k>>], d, k), C[<<d, k>>].index = 3, S[d] = Final(k),
         D = [C EXCEPT ![<<d, k>>] = Advance(C[<<d, k>>])],
         NEW H, DOMAIN H = ListId, \A l \in ListId : Handling(M, l[2], H[l]),
         NEW v \in Value, v = C[<<d, k>>].memory,
         NEW p \in Deferred, NEW th, NEW r, Reacts(p, T, H, C, S, th, r)
  PROVE  Reacts(p, T \o Timers(d, k, FireWith(H[<<d, k>>], v)),
                [H EXCEPT ![<<d, k>>] = Fired(FireWith(H[<<d, k>>], v))], D, S, th, r)
<1> DEFINE l == <<d, k>>
           c == C[l]
           b == Advance(c)
           h == H[l]
           a == FireWith(h, v)
           X == Timers(d, k, a)
           I == [H EXCEPT ![l] = Fired(a)]
<1>1. /\ l \in ListId /\ \A j \in Outs : <<p, j>> \in ListId
      /\ \A j \in Outs : <<p, j>> = l <=> p = d /\ j = k
      /\ k \in Kind /\ k # "notify" /\ l[2] = k
  BY ListIds, OutsAre
<1>2. b.list = c.list /\ b.memory = c.memory /\ b.index = 4
  <2>1. c \in Listing /\ c.index = 3
    BY <1>1
  <2> HIDE DEF c
  <2> QED BY <2>1 DEF Advance, Listing, ListingOf
<1>3. /\ D[l] = b /\ \A m \in ListId : m # l => D[m] = C[m]
      /\ I[l] = Fired(a) /\ \A m \in ListId : m # l => I[m] = H[m]
  BY <1>1
<1>4. Handling(M, k, h)
  BY <1>1
<1>5. a = FireWith(h, v)
  OBVIOUS
<1> HIDE DEF a
<1>6. /\ ListOf(Hands(M), a)
      /\ h.locked => ~a.firing
      /\ ~h.locked => /\ a.firing /\ a.memory = v /\ a.index = 0 /\ a.list = h.list
                      /\ Fired(a).memory = v /\ Fired(a).locked
  BY <1>1, <1>4, <1>5, HandlersFired DEF FiredSo
<1>7. Len(a.list) \in Nat
  BY <1>6 DEF ListOf, ListingOf
<1>8. /\ Tasks(M, X)
      /\ ~a.firing => X = <<>>
      /\ a.firing => /\ Len(X) = Len(a.list) - a.index
                     /\ DOMAIN X = 1..(Len(a.list) - a.index)
                     /\ \A i \in 1..(Len(a.list) - a.index) :
                          X[i] = Timer(d, k, a.list[a.index + i].fn, a.memory)
  <2>1. a.firing => a.memory \in Value /\ a.index <= Len(a.list)
    BY <1>6, <1>7
  <2> QED BY <1>1, <1>6, <2>1, TimersAre
<1>9. CASE p # d
  <2>1. KeepsAt(C, S, D, S, p)
    <3>1. \A j \in Outs : D[<<p, j>>] = C[<<p, j>>]
      <4> HIDE DEF l, b
      <4> QED BY <1>1, <1>3, <1>9
    <3> QED BY <3>1 DEF KeepsAt, Early
  <2>2. Reacts(p, T, H, D, S, th, r)
    BY <2>1, ReactsSame
  <2>3. \A j \in Outs : I[<<p, j>>] = H[<<p, j>>]
    <3> HIDE DEF l, I
    <3> QED BY <1>1, <1>3, <1>9
  <2>4. \A i \in DOMAIN X : ~Of(X[i], p)
    <3>1. CASE a.firing
      <4>1. \A i \in DOMAIN X : X[i].of = d
        <5> HIDE DEF X
        <5> QED BY <1>8, <3>1 DEF Timer
      <4> QED BY <1>9, <4>1 DEF Of
    <3>2. CASE ~a.firing
      <4>1. X = <<>>
        BY <1>8, <3>2
      <4> HIDE DEF X
      <4>2. DOMAIN X = {}
        BY <4>1
      <4> QED BY <4>2
    <3> QED BY <3>1, <3>2
  <2> HIDE DEF X, I
  <2>5. Reacts(p, T \o X, I, D, S, th, r)
    BY <1>8, <2>2, <2>3, <2>4, ReactsOthers
  <2> QED BY <2>5 DEF X, I, a, h, l
<1>10. CASE p = d
  <2>1. PICK m \in Nat :
          /\ Owed(T, d, r, m, C, S, th)
          /\ Untold(m, d, H, C, S, th) \/ \E j \in Outs : Answered(m, d, j, H, C, S, th)
    BY <1>10 DEF Reacts
  <2>2. Early(C, d, k)
    <3>1. c.list # <<>> /\ c.list[1].do = "state" /\ c.index = 3
      BY DEF First, Starts, Entry
    <3> QED BY <3>1 DEF Early
  <2>3. Untold(m, d, H, C, S, th)
    <3>1. ASSUME NEW j \in Outs, Answered(m, d, j, H, C, S, th) PROVE FALSE
      <4>1. j = k
        BY <3>1, OutsAre DEF Answered
      <4> QED BY <2>2, <3>1, <4>1 DEF Answered
    <3> QED BY <2>1, <3>1
  <2>4. /\ ~h.locked /\ Len(h.list) + m = Len(th)
        /\ \A j \in 1..Len(h.list) : h.list[j].fn.d = th[m + j]
    BY <2>3 DEF Untold
  <2>5. a.firing /\ a.memory = v /\ a.index = 0 /\ a.list = h.list /\ Fired(a).memory = v /\ Fired(a).locked
    BY <1>6, <2>4
  <2> DEFINE s == h.list
  <2>6. Len(s) \in Nat /\ Len(s) + m = Len(th)
    BY <1>7, <2>4, <2>5
  <2>7. /\ Len(X) = Len(s)
        /\ \A i \in 1..Len(s) : X[i] = Timer(d, k, s[i].fn, v)
    <3>1. Len(a.list) - a.index = Len(s) /\ \A i \in 1..Len(s) : a.index + i = i
      BY <2>5, <2>6
    <3> HIDE DEF X
    <3> QED BY <1>8, <2>5, <3>1
  <2>8. \A i \in 1..Len(X) :
          /\ Of(X[i], d) /\ m + i \in 1..Len(th) /\ X[i].fn.d = th[m + i]
          /\ S[d] = Final(X[i].k) /\ X[i].v = C[<<d, X[i].k>>].memory
    <3> SUFFICES ASSUME NEW i \in 1..Len(X)
                 PROVE  /\ Of(X[i], d) /\ m + i \in 1..Len(th) /\ X[i].fn.d = th[m + i]
                        /\ S[d] = Final(X[i].k) /\ X[i].v = C[<<d, X[i].k>>].memory
      OBVIOUS
    <3> HIDE DEF X
    <3>1. i \in 1..Len(s) /\ X[i] = Timer(d, k, s[i].fn, v)
      BY <2>7
    <3>2. X[i].do = "process" /\ X[i].k = k /\ X[i].of = d /\ X[i].v = v /\ X[i].fn.d = s[i].fn.d
      BY <3>1 DEF Timer
    <3>3. m + i \in 1..Len(th)
      <4> HIDE DEF s
      <4> QED BY <2>6, <3>1
    <3>4. s[i].fn.d = th[m + i]
      BY <2>4, <3>1
    <3> QED BY <3>2, <3>3, <3>4 DEF Of
  <2> DEFINE n == m + Len(X)
  <2>9. Owed(X, d, m, n, C, S, th)
    <3> HIDE DEF X
    <3> QED BY <1>8, <2>8, OwedAll
  <2>10. n = Len(th) /\ n \in Nat
    <3> HIDE DEF X, s
    <3> QED BY <2>6, <2>7
  <2> HIDE DEF n
  <2> DEFINE Y == T \o X
  <2>11. Owed(Y, d, r, n, C, S, th) /\ Tasks(M, Y)
    <3> HIDE DEF X
    <3> QED BY <1>8, <2>1, <2>9, OwedJoined, TasksJoined
  <2>12. \A j \in Outs : j # k => j = Other(k)
    BY OutsAre
  <2>13. \A j \in Outs : D[<<d, j>>].memory = C[<<d, j>>].memory
    <3>1. \A j \in Outs : j # k => <<d, j>> # l
      OBVIOUS
    <3> HIDE DEF b, l
    <3>2. \A j \in Outs : j # k => D[<<d, j>>] = C[<<d, j>>]
      BY <1>1, <1>3, <1>10, <3>1
    <3>3. D[<<d, k>>].memory = C[<<d, k>>].memory
      BY <1>2, <1>3 DEF l
    <3> QED BY <3>2, <3>3
  <2> HIDE DEF Y
  <2>14. Owed(Y, d, r, n, D, S, th)
    BY <2>11, <2>13, OwedKeeps
  <2>15. Answered(n, d, k, I, D, S, th)
    <3>1. I[<<d, k>>].locked /\ I[<<d, k>>].memory = v
      <4> HIDE DEF I
      <4> QED BY <1>3, <2>5
    <3>2. ~I[<<d, Other(k)>>].locked
      <4>1. Other(k) \in Outs /\ Other(k) # k
        BY OutsAre
      <4>2. <<d, Other(k)>> \in ListId /\ <<d, Other(k)>> # l
        BY <1>1, <1>10, <4>1
      <4>3. I[<<d, Other(k)>>] = H[<<d, Other(k)>>]
        <5> HIDE DEF I, l
        <5> QED BY <1>3, <4>2
      <4>4. ~H[<<d, Other(k)>>].locked
        BY <2>3, <4>1 DEF Untold
      <4> QED BY <4>3, <4>4
    <3>3. ~Early(D, d, k)
      <4>1. D[<<d, k>>].index = 4
        BY <1>2, <1>3
      <4> QED BY <4>1 DEF Early
    <3>4. I[<<d, k>>].memory = D[<<d, k>>].memory
      BY <2>13, <3>1
    <3> QED BY <2>10, <3>1, <3>2, <3>3, <3>4 DEF Answered
  <2> HIDE DEF X, I
  <2>16. Reacts(d, Y, I, D, S, th, r)
    BY <2>10, <2>14, <2>15 DEF Reacts
  <2> QED BY <1>10, <2>16 DEF Y, X, I, a, h, l
<1> QED BY <1>9, <1>10

\* Each class of steps, for everybody: first what becomes of lists and outcomes, then
\* what becomes of handlers and timers.
LEMMA ReactsKept ==
  ASSUME ListInv, ReactInv, NEW N, NEW D, NEW R, Keeps(N, callbacks, state, D, R)
  PROVE  \A d \in Deferred :
           Reacts(d, tasks, handlers, D, R, seen.thens[d], Len(seen.ran[d]))
<1> SUFFICES ASSUME NEW d \in Deferred
             PROVE  Reacts(d, tasks, handlers, D, R, seen.thens[d], Len(seen.ran[d]))
  OBVIOUS
<1> DEFINE r == Len(seen.ran[d])
           th == seen.thens[d]
<1>1. Reacts(d, tasks, handlers, callbacks, state, th, r)
  BY DEF ReactInv
<1>2. Tasks(Mine(page), tasks)
  BY DEF ListInv, Typed
<1>3. KeepsAt(callbacks, state, D, R, d)
  BY KeepsEach
<1> HIDE DEF r, th
<1> QED BY <1>1, <1>2, <1>3, ReactsSame DEF r, th

LEMMA ThensAre ==
  ASSUME NEW t \in [Deferred -> Seq(Named)], NEW e \in Deferred, NEW b \in Named
  PROVE  /\ [t EXCEPT ![e] = Append(@, b)] \in [Deferred -> Seq(Named)]
         /\ \A p \in Deferred : [t EXCEPT ![e] = Append(@, b)][p]
                                  = IF p = e THEN Append(t[p], b) ELSE t[p]
<1> DEFINE U == Seq(Named)
           u == [t EXCEPT ![e] = Append(@, b)]
<1>1. t[e] \in Seq(Named)
  OBVIOUS
<1>2. Append(t[e], b) \in U
  <2> DEFINE s == t[e]
             N == Named
  <2>1. s \in Seq(N) /\ b \in N
    BY <1>1
  <2> HIDE DEF s, N
  <2>2. Append(s, b) \in Seq(N)
    BY <2>1
  <2> QED BY <2>2 DEF s, N
<1>3. u = [t EXCEPT ![e] = Append(t[e], b)] /\ t \in [Deferred -> U]
  OBVIOUS
<1> HIDE DEF U
<1> QED BY <1>2, <1>3 DEF U

LEMMA NamedAre ==
  ASSUME NEW b \in Mine(page) \cup {Nobody}
  PROVE  b \in Named
BY DeferredAssumption DEF Mine, Named, Deferred, Nobody

LEMMA ReactAsks ==
  ASSUME ListInv, ReactInv, NEW N, Keeps(N, callbacks, state, callbacks', state'),
         NEW e, NEW on, NEW b, Asks(e, on, b)
  PROVE  ReactInv'
<1> DEFINE M == Mine(page)
           D == callbacks'
           R == state'
           T == tasks'
           I == handlers'
           u == seen'.thens
           q == seen'.ran
           t == seen.thens
<1>1. /\ M \in SUBSET Deferred /\ Tasks(M, tasks) /\ DOMAIN handlers = ListId
      /\ \A l \in ListId : Handling(M, l[2], handlers[l])
  BY MineIs DEF ListInv, Typed
<1>2. /\ e \in Deferred /\ b \in M \cup {Nobody} /\ b \in Named
      /\ \A k \in Kind : on[k] \in Nested(M)
      /\ I = HandlersAfter(handlers, e, on, b) /\ T = tasks \o TimersOf(handlers, e, on, b)
      /\ u = [t EXCEPT ![e] = Append(@, b)] /\ q = seen.ran
  BY NamedAre DEF Asks, Then
<1>3. t \in [Deferred -> Seq(Named)] /\ seen.ran \in [Deferred -> Seq(Named \X Ends)]
  BY DEF ReactInv
<1> HIDE DEF D, R
<1>4. \A p \in Deferred : Reacts(p, tasks, handlers, D, R, t[p], Len(seen.ran[p]))
  BY ReactsKept DEF D, R
<1> HIDE DEF M, T, I, u, q, t
<1>5. /\ u \in [Deferred -> Seq(Named)]
      /\ \A p \in Deferred : u[p] = IF p = e THEN Append(t[p], b) ELSE t[p]
  BY <1>2, <1>3, ThensAre
<1>6. ASSUME NEW p \in Deferred PROVE Reacts(p, T, I, D, R, u[p], Len(q[p]))
  <2> DEFINE th == t[p]
             r == Len(seen.ran[p])
  <2>1. th \in Seq(Named)
    BY <1>3
  <2>2. Reacts(p, tasks, handlers, D, R, th, r)
    BY <1>4
  <2> HIDE DEF th, r
  <2>3. Reacts(p, tasks \o TimersOf(handlers, e, on, b), HandlersAfter(handlers, e, on, b),
               D, R, IF p = e THEN Append(th, b) ELSE th, r)
    BY <1>1, <1>2, <2>1, <2>2, ReactsThen
  <2> QED BY <1>2, <1>5, <2>3 DEF th, r
<1>7. q \in [Deferred -> Seq(Named \X Ends)]
  BY <1>2, <1>3
<1> QED BY <1>5, <1>6, <1>7 DEF ReactInv, D, R, T, I, u, q

LEMMA ReactAsksTwice ==
  ASSUME ListInv, ReactInv, NEW N, Keeps(N, callbacks, state, callbacks', state'),
         NEW e, NEW on, NEW b, NEW or, NEW a, AsksTwice(e, on, b, or, a)
  PROVE  ReactInv'
<1> DEFINE M == Mine(page)
           D == callbacks'
           R == state'
           T == tasks'
           I == handlers'
           u == seen'.thens
           q == seen'.ran
           t == seen.thens
           hs == HandlersAfter(handlers, e, on, b)
           X == TimersOf(handlers, e, on, b)
           Y == tasks \o X
           w == [t EXCEPT ![e] = Append(@, b)]
<1>1. /\ M \in SUBSET Deferred /\ Tasks(M, tasks) /\ DOMAIN handlers = ListId
      /\ \A l \in ListId : Handling(M, l[2], handlers[l])
  BY MineIs DEF ListInv, Typed
<1>2. /\ e \in Deferred /\ b \in M /\ a \in M /\ b \in Named /\ a \in Named /\ b # e
      /\ b \in M \cup {Nobody} /\ a \in M \cup {Nobody}
      /\ (\A k \in Kind : on[k] \in Nested(M)) /\ (\A k \in Kind : or[k] \in Nested(M))
      /\ I = HandlersAfter(hs, b, or, a) /\ T = Y \o TimersOf(hs, b, or, a)
      /\ u = [t EXCEPT ![e] = Append(@, b), ![b] = Append(@, a)] /\ q = seen.ran
  BY NamedAre DEF AsksTwice
<1>3. t \in [Deferred -> Seq(Named)] /\ seen.ran \in [Deferred -> Seq(Named \X Ends)]
  BY DEF ReactInv
<1>4. b \in Deferred
  BY <1>1, <1>2
<1> HIDE DEF D, R
<1>5. \A p \in Deferred : Reacts(p, tasks, handlers, D, R, t[p], Len(seen.ran[p]))
  BY ReactsKept DEF D, R
<1> HIDE DEF M, T, I, u, q, t
<1>6. u = [w EXCEPT ![b] = Append(@, a)]
  BY <1>2, <1>3, <1>4
<1>7. /\ w \in [Deferred -> Seq(Named)]
      /\ \A p \in Deferred : w[p] = IF p = e THEN Append(t[p], b) ELSE t[p]
  BY <1>2, <1>3, ThensAre
<1> HIDE DEF w
<1>8. /\ u \in [Deferred -> Seq(Named)]
      /\ \A p \in Deferred : u[p] = IF p = b THEN Append(w[p], a) ELSE w[p]
  <2>1. w \in [Deferred -> Seq(Named)] /\ b \in Deferred /\ a \in Named
    BY <1>2, <1>4, <1>7
  <2>2. /\ [w EXCEPT ![b] = Append(@, a)] \in [Deferred -> Seq(Named)]
        /\ \A p \in Deferred : [w EXCEPT ![b] = Append(@, a)][p]
                                 = IF p = b THEN Append(w[p], a) ELSE w[p]
    BY <2>1, ThensAre
  <2> QED BY <1>6, <2>2
<1>9. /\ DOMAIN hs = ListId /\ \A l \in ListId : Handling(M, l[2], hs[l])
      /\ Tasks(M, X)
  <2>1. /\ e \in Deferred /\ b \in M \cup {Nobody} /\ \A k \in Kind : on[k] \in Nested(M)
    BY <1>2
  <2> QED BY <1>1, <2>1, ThenIs
<1>10. Tasks(M, Y)
  <2> HIDE DEF X
  <2> QED BY <1>1, <1>9, TasksJoined
<1>11. ASSUME NEW p \in Deferred PROVE Reacts(p, T, I, D, R, u[p], Len(q[p]))
  <2> DEFINE th == t[p]
             r == Len(seen.ran[p])
             v == w[p]
  <2>1. th \in Seq(Named) /\ v \in Seq(Named)
    BY <1>3, <1>7
  <2>2. Reacts(p, tasks, handlers, D, R, th, r)
    BY <1>5
  <2> HIDE DEF th, r, v
  <2>3. Reacts(p, Y, hs, D, R, IF p = e THEN Append(th, b) ELSE th, r)
    BY <1>1, <1>2, <2>1, <2>2, ReactsThen
  <2>4. Reacts(p, Y, hs, D, R, v, r)
    BY <1>7, <2>3 DEF th, v
  <2> HIDE DEF Y, hs
  <2>5. Reacts(p, Y \o TimersOf(hs, b, or, a), HandlersAfter(hs, b, or, a),
               D, R, IF p = b THEN Append(v, a) ELSE v, r)
    BY <1>1, <1>2, <1>4, <1>9, <1>10, <2>1, <2>4, ReactsThen
  <2> QED BY <1>2, <1>8, <2>5 DEF v, r
<1>12. q \in [Deferred -> Seq(Named \X Ends)]
  BY <1>2, <1>3
<1> QED BY <1>8, <1>11, <1>12 DEF ReactInv, D, R, T, I, u, q

LEMMA ReactNotifies ==
  ASSUME ListInv, ReactInv, NEW N, Keeps(N, callbacks, state, callbacks', state'),
         NEW e \in Deferred, Notifies(e)
  PROVE  ReactInv'
<1> DEFINE M == Mine(page)
           D == callbacks'
           R == state'
           T == tasks'
           I == handlers'
           s == seen'
           l == <<e, "notify">>
           v == callbacks[l].memory
           a == FireWith(handlers[l], v)
           X == Timers(e, "notify", a)
<1>1. /\ M \in SUBSET Deferred /\ Tasks(M, tasks) /\ DOMAIN handlers = ListId
      /\ \A j \in ListId : Handling(M, j[2], handlers[j])
  BY MineIs DEF ListInv, Typed
<1>2. /\ v \in Value /\ s = seen /\ T = tasks \o X
      /\ I = [handlers EXCEPT ![l] = Fired(a)]
  BY DEF Notifies
<1> HIDE DEF D, R
<1>3. \A p \in Deferred : Reacts(p, tasks, handlers, D, R, seen.thens[p], Len(seen.ran[p]))
  BY ReactsKept DEF D, R
<1>4. Tasks(M, X) /\ \A i \in DOMAIN X : X[i].k = "notify"
  <2> DEFINE c == handlers[l]
             k == "notify"
  <2>1. k \in Kind /\ Handling(M, k, c)
    BY <1>1, ListIds DEF Kind
  <2> HIDE DEF v, M
  <2>2. a = FireWith(c, v)
    OBVIOUS
  <2> HIDE DEF a, c, k
  <2>3. ListOf(Hands(M), a) /\ (a.firing => a.memory = v /\ a.index = 0)
    BY <1>2, <2>1, <2>2, HandlersFired DEF FiredSo
  <2>4. a.firing => a.memory \in Value /\ a.index <= Len(a.list)
    <3>1. Len(a.list) \in Nat
      BY <2>3 DEF ListOf, ListingOf
    <3> QED BY <1>2, <2>3, <3>1
  <2> DEFINE Z == Timers(e, k, a)
             n == Len(a.list) - a.index
  <2>5. /\ Tasks(M, Z)
        /\ ~a.firing => Z = <<>>
        /\ a.firing => DOMAIN Z = 1..n /\ \A i \in 1..n : Z[i] = Timer(e, k, a.list[a.index + i].fn, a.memory)
    BY <2>1, <2>3, <2>4, TimersAre
  <2> HIDE DEF Z, n
  <2>6. \A i \in DOMAIN Z : Z[i].k = k
    <3>1. CASE ~a.firing
      <4>1. DOMAIN Z = {}
        BY <2>5, <3>1
      <4> QED BY <4>1
    <3>2. CASE a.firing
      BY <2>5, <3>2 DEF Timer
    <3> QED BY <3>1, <3>2
  <2> QED BY <2>5, <2>6 DEF k, Z
<1> HIDE DEF M, T, I, s, v, a, X
<1>5. ASSUME NEW p \in Deferred PROVE Reacts(p, T, I, D, R, s.thens[p], Len(s.ran[p]))
  <2> DEFINE th == seen.thens[p]
             r == Len(seen.ran[p])
  <2>1. Reacts(p, tasks, handlers, D, R, th, r)
    BY <1>3
  <2> HIDE DEF th, r
  <2>2. \A i \in DOMAIN X : ~Of(X[i], p)
    BY <1>4, OutsAre DEF Of
  <2>3. \A k \in Outs : I[<<p, k>>] = handlers[<<p, k>>]
    <3>1. \A k \in Outs : <<p, k>> \in ListId /\ <<p, k>> # l
      BY ListIds, OutsAre
    <3> QED BY <1>1, <1>2, <3>1
  <2>4. Reacts(p, tasks \o X, I, D, R, th, r)
    BY <1>1, <1>4, <2>1, <2>2, <2>3, ReactsOthers
  <2> QED BY <1>2, <2>4 DEF th, r
<1>6. s.thens \in [Deferred -> Seq(Named)] /\ s.ran \in [Deferred -> Seq(Named \X Ends)]
  BY <1>2 DEF ReactInv
<1> QED BY <1>5, <1>6 DEF ReactInv, D, R, T, I, s

LEMMA ReactStill ==
  ASSUME ListInv, ReactInv, NEW N, Keeps(N, callbacks, state, callbacks', state'),
         UNCHANGED <<handlers, tasks>>, SeenStays
  PROVE  ReactInv'
<1> DEFINE D == callbacks'
           R == state'
           T == tasks'
           I == handlers'
           u == seen'.thens
           q == seen'.ran
<1>1. T = tasks /\ I = handlers /\ u = seen.thens /\ q = seen.ran
  BY DEF SeenStays
<1> HIDE DEF D, R
<1>2. \A p \in Deferred : Reacts(p, tasks, handlers, D, R, seen.thens[p], Len(seen.ran[p]))
  BY ReactsKept DEF D, R
<1>3. u \in [Deferred -> Seq(Named)] /\ q \in [Deferred -> Seq(Named \X Ends)]
  BY <1>1 DEF ReactInv
<1> HIDE DEF T, I, u, q
<1>4. \A p \in Deferred : Reacts(p, T, I, D, R, u[p], Len(q[p]))
  BY <1>1, <1>2
<1> QED BY <1>3, <1>4 DEF ReactInv, D, R, T, I, u, q

\* A reaction of d, for the sake of b, begins to run with the outcome k and v.
ReactsNow(d, b, k, v) ==
  /\ d \in Deferred /\ k \in Outs /\ state[d] = Final(k) /\ v = callbacks[<<d, k>>].memory
  /\ v \in Value /\ Len(seen.ran[d]) + 1 \in 1..Len(seen.thens[d])
  /\ b = seen.thens[d][Len(seen.ran[d]) + 1]
  /\ seen'.thens = seen.thens
  /\ seen'.ran = [seen.ran EXCEPT ![d] = Append(@, <<b, <<Final(k), v>>>>)]

LEMMA RanAre ==
  ASSUME NEW q \in [Deferred -> Seq(Named \X Ends)], NEW e \in Deferred, NEW b \in Named,
         NEW k \in Outs, NEW v \in Value
  PROVE  /\ [q EXCEPT ![e] = Append(@, <<b, <<Final(k), v>>>>)]
               \in [Deferred -> Seq(Named \X Ends)]
         /\ \A p \in Deferred : [q EXCEPT ![e] = Append(@, <<b, <<Final(k), v>>>>)][p]
                                  = IF p = e THEN Append(q[p], <<b, <<Final(k), v>>>>) ELSE q[p]
<1> DEFINE N == Named \X Ends
           x == <<b, <<Final(k), v>>>>
           u == [q EXCEPT ![e] = Append(@, x)]
           s == q[e]
<1>1. x \in N
  BY DEF Ends, Final
<1>2. s \in Seq(N) /\ q \in [Deferred -> Seq(N)]
  OBVIOUS
<1> HIDE DEF N, x, s
<1>3. Append(s, x) \in Seq(N)
  BY <1>1, <1>2
<1> DEFINE U == Seq(N)
           y == Append(s, x)
<1>4. q \in [Deferred -> U] /\ y \in U
  BY <1>2, <1>3
<1>5. u = [q EXCEPT ![e] = y]
  BY DEF s
<1> HIDE DEF U, y, u
<1>6. /\ u \in [Deferred -> U]
      /\ \A p \in Deferred : u[p] = IF p = e THEN y ELSE q[p]
  BY <1>4, <1>5
<1>7. \A p \in Deferred : u[p] = IF p = e THEN Append(q[p], x) ELSE q[p]
  BY <1>6 DEF y, s
<1> QED BY <1>6, <1>7 DEF U, N, u, x

LEMMA ReactRuns ==
  ASSUME ListInv, ReactInv, RunProcess
  PROVE  /\ ReactInv'
         /\ \/ SeenStays
            \/ \E d, b, k, v : ReactsNow(d, b, k, v)
<1> DEFINE M == Mine(page)
           t == Head(tasks)
           T == tasks'
           q == seen'.ran
           u == seen'.thens
           b == t.fn.d
<1>1. /\ tasks # <<>> /\ t.do = "process" /\ T = Tail(tasks)
      /\ callbacks' = callbacks /\ handlers' = handlers /\ state' = state
      /\ seen' = IF t.k = "notify" THEN seen
                 ELSE [seen EXCEPT !.ran[t.of] = Append(@, <<b, <<Final(t.k), t.v>>>>)]
  BY DEF RunProcess
<1>2. M \in SUBSET Deferred /\ Tasks(M, tasks) /\ DOMAIN seen = SeenField
  BY MineIs, SeenHas DEF ListInv, Typed
<1>3. /\ t.of \in Deferred /\ t.k \in Kind /\ t.v \in Value /\ b \in Named
  <2>1. Task(M, t)
    BY <1>1, <1>2, TasksAre
  <2>2. t.of \in Deferred /\ t.k \in Kind /\ t.v \in Value /\ t.fn \in Fn(M)
    <3>1. [do |-> "ready"].do # "process"
      OBVIOUS
    <3> QED BY <1>1, <2>1, <3>1 DEF Task
  <2>3. b \in M \cup {Nobody}
    BY <2>2 DEF Fn
  <2> QED BY <2>2, <2>3, NamedAre
<1>4. /\ seen.thens \in [Deferred -> Seq(Named)] /\ seen.ran \in [Deferred -> Seq(Named \X Ends)]
      /\ \A p \in Deferred :
           Reacts(p, tasks, handlers, callbacks, state, seen.thens[p], Len(seen.ran[p]))
  BY DEF ReactInv
<1> HIDE DEF M
<1>5. ASSUME NEW p \in Deferred
      PROVE  /\ ~Of(t, p) => Reacts(p, T, handlers, callbacks, state, seen.thens[p], Len(seen.ran[p]))
             /\ Of(t, p) =>
                  /\ Reacts(p, T, handlers, callbacks, state, seen.thens[p], Len(seen.ran[p]) + 1)
                  /\ Len(seen.ran[p]) + 1 \in 1..Len(seen.thens[p])
                  /\ b = seen.thens[p][Len(seen.ran[p]) + 1]
                  /\ state[p] = Final(t.k) /\ t.v = callbacks[<<p, t.k>>].memory
  <2> DEFINE th == seen.thens[p]
             r == Len(seen.ran[p])
  <2>1. Reacts(p, tasks, handlers, callbacks, state, th, r)
    BY <1>4
  <2> HIDE DEF th, r
  <2> QED BY <1>1, <1>2, <2>1, ReactsTail DEF th, r
<1> HIDE DEF T, q, u, b
<1>6. CASE t.k = "notify"
  <2>1. seen' = seen
    BY <1>1, <1>6
  <2>2. \A p \in Deferred : ~Of(t, p)
    BY <1>6, OutsAre DEF Of
  <2> HIDE DEF t
  <2>4. q = seen.ran /\ u = seen.thens
    BY <2>1 DEF q, u
  <2> DEFINE C == callbacks'
             H == handlers'
             S == state'
  <2>5. C = callbacks /\ H = handlers /\ S = state
    BY <1>1
  <2> HIDE DEF C, H, S
  <2>6. \A p \in Deferred : Reacts(p, T, H, C, S, u[p], Len(q[p]))
    BY <1>5, <2>2, <2>4, <2>5
  <2>3. ReactInv'
    BY <1>4, <2>4, <2>6 DEF ReactInv, T, C, H, S, q, u
  <2> QED BY <2>1, <2>3 DEF SeenStays
<1>7. CASE t.k # "notify"
  <2> DEFINE d == t.of
             k == t.k
             v == t.v
  <2>1. k \in Outs
    BY <1>3, <1>7 DEF Kind, Outs
  <2>2. \A p \in Deferred : Of(t, p) <=> p = d
    BY <1>1, <2>1 DEF Of
  <2>3. seen' = [seen EXCEPT !.ran[d] = Append(@, <<b, <<Final(k), v>>>>)]
    BY <1>1, <1>7
  <2>6. d \in Deferred /\ v \in Value /\ b \in Named
    BY <1>3
  <2>7. ASSUME NEW p \in Deferred
        PROVE  /\ p # d => Reacts(p, T, handlers, callbacks, state, seen.thens[p], Len(seen.ran[p]))
               /\ p = d =>
                  /\ Reacts(p, T, handlers, callbacks, state, seen.thens[p], Len(seen.ran[p]) + 1)
                  /\ Len(seen.ran[p]) + 1 \in 1..Len(seen.thens[p])
                  /\ b = seen.thens[p][Len(seen.ran[p]) + 1]
                  /\ state[p] = Final(k) /\ v = callbacks[<<p, k>>].memory
    BY <1>5, <2>2
  <2> HIDE DEF d, k, v, t
  <2>4. q = [seen.ran EXCEPT ![d] = Append(@, <<b, <<Final(k), v>>>>)] /\ u = seen.thens
    BY <1>2, <2>3 DEF q, u, SeenField
  <2>5. /\ q \in [Deferred -> Seq(Named \X Ends)]
        /\ \A p \in Deferred : q[p] = IF p = d THEN Append(seen.ran[p], <<b, <<Final(k), v>>>>)
                                      ELSE seen.ran[p]
    <3> DEFINE w == seen.ran
    <3>1. w \in [Deferred -> Seq(Named \X Ends)]
      BY <1>4
    <3> HIDE DEF w
    <3>2. /\ [w EXCEPT ![d] = Append(@, <<b, <<Final(k), v>>>>)]
               \in [Deferred -> Seq(Named \X Ends)]
          /\ \A p \in Deferred : [w EXCEPT ![d] = Append(@, <<b, <<Final(k), v>>>>)][p]
                                   = IF p = d THEN Append(w[p], <<b, <<Final(k), v>>>>) ELSE w[p]
      BY <3>1, <2>1, <2>6, RanAre
    <3> QED BY <2>4, <3>2 DEF w
  <2>8. \A p \in Deferred : Len(q[p]) = IF p = d THEN Len(seen.ran[p]) + 1 ELSE Len(seen.ran[p])
    <3> SUFFICES ASSUME NEW p \in Deferred
                 PROVE  Len(q[p]) = IF p = d THEN Len(seen.ran[p]) + 1 ELSE Len(seen.ran[p])
      OBVIOUS
    <3> DEFINE s == seen.ran[p]
               U == Named \X Ends
               x == <<b, <<Final(k), v>>>>
    <3>1. s \in Seq(U) /\ q[p] = IF p = d THEN Append(s, x) ELSE s
      BY <1>4, <2>5
    <3> HIDE DEF s, U, x
    <3>2. Len(Append(s, x)) = Len(s) + 1
      BY <3>1
    <3> QED BY <3>1, <3>2 DEF s
  <2> DEFINE C == callbacks'
             H == handlers'
             S == state'
  <2>9. C = callbacks /\ H = handlers /\ S = state
    BY <1>1
  <2> HIDE DEF C, H, S
  <2>10. \A p \in Deferred : Reacts(p, T, H, C, S, u[p], Len(q[p]))
    BY <2>4, <2>7, <2>8, <2>9
  <2>11. u \in [Deferred -> Seq(Named)]
    BY <1>4, <2>4
  <2>12. ReactInv'
    BY <2>5, <2>10, <2>11 DEF ReactInv, T, C, H, S, q, u
  <2>13. ReactsNow(d, b, k, v)
    BY <2>1, <2>4, <2>6, <2>7 DEF ReactsNow, q, u
  <2> QED BY <2>12, <2>13
<1> QED BY <1>6, <1>7

LEMMA ReactSettles ==
  ASSUME ListInv, ReactInv, NEW e \in Deferred, NEW k \in Outs, Settles(e, k)
  PROVE  ReactInv' /\ SeenStays
<1> DEFINE M == Mine(page)
           D == callbacks'
           R == state'
           T == tasks'
           I == handlers'
           u == seen'.thens
           q == seen'.ran
<1>1. SeenStays
  <2>1. \E x : seen' = [seen EXCEPT !.told[e] = x]
    BY DEF Settles
  <2> QED BY <2>1, SeenHas DEF SeenStays, SeenField
<1>2. T = tasks /\ I = handlers /\ u = seen.thens /\ q = seen.ran
  BY <1>1 DEF SeenStays, Settles
<1>3. /\ Tasks(M, tasks) /\ callbacks \in [ListId -> Listing]
      /\ state \in [Deferred -> {"unborn", "pending", "resolved", "rejected"}]
  BY DEF ListInv, Typed, Arranged, Lists
<1>4. /\ First(M, joined, callbacks[<<e, k>>], e, k) /\ callbacks[<<e, k>>].index = 0
      /\ Open(state, e) /\ R = [state EXCEPT ![e] = Final(k)]
      /\ D = [callbacks EXCEPT ![<<e, k>>] = Advance(callbacks[<<e, k>>])]
  BY DEF Settles, Next1
<1> HIDE DEF M, D, R, T, I, u, q
<1>5. ASSUME NEW p \in Deferred PROVE Reacts(p, T, I, D, R, u[p], Len(q[p]))
  <2> DEFINE th == seen.thens[p]
             r == Len(seen.ran[p])
  <2>1. Reacts(p, tasks, handlers, callbacks, state, th, r)
    BY DEF ReactInv
  <2> HIDE DEF th, r
  <2>2. Reacts(p, tasks, handlers, D, R, th, r)
    <3> DEFINE C == callbacks
               S == state
               J == joined
    <3>1. /\ Tasks(M, tasks) /\ C \in [ListId -> Listing]
          /\ S \in [Deferred -> {"unborn", "pending", "resolved", "rejected"}]
          /\ First(M, J, C[<<e, k>>], e, k) /\ C[<<e, k>>].index = 0
          /\ Open(S, e) /\ R = [S EXCEPT ![e] = Final(k)]
          /\ D = [C EXCEPT ![<<e, k>>] = Advance(C[<<e, k>>])]
          /\ Reacts(p, tasks, handlers, C, S, th, r)
      BY <1>3, <1>4, <2>1
    <3>2. SettledAs(M, J, C, S, D, R, e, k)
      BY <3>1 DEF SettledAs
    <3> HIDE DEF C, S, J
    <3> QED BY <3>1, <3>2, ReactsSettled
  <2> QED BY <1>2, <2>2 DEF th, r
<1>6. u \in [Deferred -> Seq(Named)] /\ q \in [Deferred -> Seq(Named \X Ends)]
  BY <1>2 DEF ReactInv
<1>7. ReactInv'
  BY <1>5, <1>6 DEF ReactInv, D, R, T, I, u, q
<1> QED BY <1>1, <1>7

LEMMA ReactTells ==
  ASSUME ListInv, ReactInv, NEW e \in Deferred, NEW k \in Outs, Tells(e, k)
  PROVE  ReactInv' /\ SeenStays
<1> DEFINE M == Mine(page)
           D == callbacks'
           R == state'
           T == tasks'
           I == handlers'
           s == seen'
           v == callbacks[<<e, k>>].memory
<1>1. s = seen /\ R = state
  BY DEF Tells
<1>2. /\ Tasks(M, tasks) /\ callbacks \in [ListId -> Listing] /\ DOMAIN handlers = ListId
      /\ \A l \in ListId : Handling(M, l[2], handlers[l])
  BY DEF ListInv, Typed, Arranged, Lists
<1>3. /\ First(M, joined, callbacks[<<e, k>>], e, k) /\ callbacks[<<e, k>>].index = 3
      /\ state[e] = Final(k)
      /\ D = [callbacks EXCEPT ![<<e, k>>] = Advance(callbacks[<<e, k>>])]
      /\ I = [handlers EXCEPT ![<<e, k>>] = Fired(FireWith(handlers[<<e, k>>], v))]
      /\ T = tasks \o Timers(e, k, FireWith(handlers[<<e, k>>], v))
  BY DEF Tells, Next1
<1>4. v \in Value
  <2>1. callbacks[<<e, k>>] \in Listing
    BY <1>2, ListIds, OutsAre
  <2> QED BY <1>3, <2>1 DEF Listing, ListingOf, First
<1>v. v = callbacks[<<e, k>>].memory
  OBVIOUS
<1> HIDE DEF M, D, R, T, I, s, v
<1>5. ASSUME NEW p \in Deferred PROVE Reacts(p, T, I, D, R, s.thens[p], Len(s.ran[p]))
  <2> DEFINE th == seen.thens[p]
             r == Len(seen.ran[p])
  <2>1. Reacts(p, tasks, handlers, callbacks, state, th, r)
    BY DEF ReactInv
  <2> HIDE DEF th, r
  <2>2. Reacts(p, tasks \o Timers(e, k, FireWith(handlers[<<e, k>>], v)),
               [handlers EXCEPT ![<<e, k>>] = Fired(FireWith(handlers[<<e, k>>], v))],
               D, state, th, r)
    BY <1>2, <1>3, <1>4, <1>v, <2>1, ReactsTold
  <2> QED BY <1>1, <1>3, <2>2 DEF th, r
<1>6. s.thens \in [Deferred -> Seq(Named)] /\ s.ran \in [Deferred -> Seq(Named \X Ends)]
  BY <1>1 DEF ReactInv
<1>7. ReactInv'
  BY <1>5, <1>6 DEF ReactInv, D, R, T, I, s
<1> QED BY <1>1, <1>7 DEF SeenStays, s

LEMMA ReactReadyRuns ==
  ASSUME ListInv, ReactInv, NEW N, Keeps(N, callbacks, state, callbacks', state'), RunReady
  PROVE  ReactInv' /\ SeenStays
<1> DEFINE D == callbacks'
           R == state'
           T == tasks'
           I == handlers'
           s == seen'
<1>1. /\ tasks # <<>> /\ Head(tasks).do = "ready" /\ T = Tail(tasks)
      /\ I = handlers /\ s = seen
  BY DEF RunReady
<1>2. Tasks(Mine(page), tasks)
  BY DEF ListInv, Typed
<1> HIDE DEF D, R
<1>3. \A p \in Deferred : Reacts(p, tasks, handlers, D, R, seen.thens[p], Len(seen.ran[p]))
  BY ReactsKept DEF D, R
<1> HIDE DEF T, I, s
<1>4. ASSUME NEW p \in Deferred PROVE Reacts(p, T, I, D, R, s.thens[p], Len(s.ran[p]))
  <2> DEFINE th == seen.thens[p]
             r == Len(seen.ran[p])
  <2>1. Reacts(p, tasks, handlers, D, R, th, r) /\ ~Of(Head(tasks), p)
    BY <1>1, <1>3 DEF Of
  <2> HIDE DEF th, r
  <2>2. Reacts(p, Tail(tasks), handlers, D, R, th, r)
    BY <1>1, <1>2, <2>1, ReactsTail
  <2> QED BY <1>1, <2>2 DEF th, r
<1>5. s.thens \in [Deferred -> Seq(Named)] /\ s.ran \in [Deferred -> Seq(Named \X Ends)]
  BY <1>1 DEF ReactInv
<1>6. ReactInv'
  BY <1>4, <1>5 DEF ReactInv, D, R, T, I, s
<1> QED BY <1>1, <1>6 DEF SeenStays, s

LEMMA ReactInitIs == ASSUME Init PROVE ReactInv
<1>1. /\ handlers = [l \in ListId |-> New(Options(l[2]))]
      /\ state = [d \in Deferred |-> IF d <= page.roots THEN "pending" ELSE "unborn"]
      /\ tasks = <<>> \/ tasks = <<[do |-> "ready"]>>
      /\ seen.thens = [d \in Deferred |-> <<>>] /\ seen.ran = [d \in Deferred |-> <<>>]
  BY DEF Init
<1>2. Tasks(Mine(page), tasks)
  BY InitIs DEF ListInv, Typed
<1>3. ASSUME NEW d \in Deferred
      PROVE  Reacts(d, tasks, handlers, callbacks, state, <<>>, 0)
  <2>1. \A i \in DOMAIN tasks : ~Of(tasks[i], d)
    <3>1. CASE tasks = <<>>
      <4>1. DOMAIN tasks = {}
        BY <3>1
      <4> QED BY <4>1
    <3>2. CASE tasks = <<[do |-> "ready"]>>
      <4>1. \A i \in DOMAIN tasks : tasks[i] = [do |-> "ready"]
        BY <3>2
      <4>2. [do |-> "ready"].do # "process"
        OBVIOUS
      <4> QED BY <4>1, <4>2 DEF Of
    <3> QED BY <1>1, <3>1, <3>2
  <2>2. Owed(tasks, d, 0, 0, callbacks, state, <<>>)
    BY <1>2, <2>1, OwedNone
  <2>3. ASSUME NEW k \in Outs
        PROVE  ~handlers[<<d, k>>].locked /\ handlers[<<d, k>>].list = <<>>
    <3>1. <<d, k>> \in ListId
      BY ListIds, OutsAre
    <3> QED BY <1>1, <3>1 DEF New
  <2>4. \A k \in Outs : state[d] # Final(k)
    BY <1>1 DEF Final
  <2>5. Untold(0, d, handlers, callbacks, state, <<>>)
    <3>1. Len(<<>>) = 0 /\ Len(<<>>) + 0 = Len(<<>>)
      OBVIOUS
    <3>2. \A j \in 1..Len(<<>>) : FALSE
      OBVIOUS
    <3> QED BY <2>3, <2>4, <3>1, <3>2 DEF Untold
  <2> QED BY <2>2, <2>5 DEF Reacts
<1>4. /\ seen.thens \in [Deferred -> Seq(Named)]
      /\ seen.ran \in [Deferred -> Seq(Named \X Ends)]
  <2> DEFINE U == Seq(Named)
             V == Seq(Named \X Ends)
  <2>1. <<>> \in U /\ <<>> \in V
    BY EmptyIsSeq
  <2> HIDE DEF U, V
  <2>2. seen.thens \in [Deferred -> U] /\ seen.ran \in [Deferred -> V]
    BY <1>1, <2>1
  <2> QED BY <2>2 DEF U, V
<1>5. Len(<<>>) = 0
  OBVIOUS
<1>6. \A d \in Deferred : seen.thens[d] = <<>> /\ Len(seen.ran[d]) = 0
  BY <1>1, <1>5
<1> QED BY <1>3, <1>4, <1>6 DEF ReactInv

LEMMA ReactStutter ==
  ASSUME ListInv, ReactInv, UNCHANGED vars
  PROVE  ReactInv'
<1> DEFINE D == callbacks'
           R == state'
<1>1. D = callbacks /\ R = state /\ UNCHANGED <<handlers, tasks, seen>>
  BY DEF vars
<1> HIDE DEF D, R
<1>2. Keeps(Deferred, callbacks, state, D, R)
  BY <1>1, KeepsSame
<1>3. SeenStays
  BY <1>1 DEF SeenStays
<1> QED BY <1>1, <1>2, <1>3, ReactStill DEF D, R

-----------------------------------------------------------------------------
(* What a promise has become. *)

OutcomeOf(C, S, d) ==
  LET K == {k \in {"resolve", "reject"} : S[d] = Final(k)}
  IN IF K = {} THEN None
     ELSE LET k == CHOOSE k \in K : TRUE
          IN <<S[d], C[<<d, k>>].memory>>

LEMMA OutcomeIs ==
  ASSUME NEW C, NEW S, NEW d
  PROVE  /\ (\A k \in Outs : S[d] # Final(k)) => OutcomeOf(C, S, d) = None
         /\ \A k \in Outs : S[d] = Final(k) =>
              OutcomeOf(C, S, d) = <<Final(k), C[<<d, k>>].memory>>
<1> DEFINE K == {k \in {"resolve", "reject"} : S[d] = Final(k)}
<1>1. ASSUME \A k \in Outs : S[d] # Final(k) PROVE OutcomeOf(C, S, d) = None
  <2>1. K = {}
    BY <1>1 DEF Outs
  <2> QED BY <2>1 DEF OutcomeOf
<1>2. ASSUME NEW k \in Outs, S[d] = Final(k)
      PROVE  OutcomeOf(C, S, d) = <<Final(k), C[<<d, k>>].memory>>
  <2>1. K = {k}
    <3>1. \A j \in Outs : S[d] = Final(j) => j = k
      BY <1>2, OutsAre
    <3> QED BY <1>2, <3>1 DEF Outs
  <2>2. (CHOOSE j \in K : TRUE) = k
    BY <2>1
  <2> QED BY <1>2, <2>1, <2>2 DEF OutcomeOf
<1> QED BY <1>1, <1>2

LEMMA OutcomeKept ==
  ASSUME NEW N, NEW C, NEW S, NEW D, NEW R, Keeps(N, C, S, D, R), NEW d \in Deferred
  PROVE  OutcomeOf(D, R, d) = OutcomeOf(C, S, d)
<1>1. \A k \in Outs : /\ R[d] = Final(k) <=> S[d] = Final(k)
                      /\ S[d] = Final(k) => D[<<d, k>>].memory = C[<<d, k>>].memory
  <2>1. KeepsAt(C, S, D, R, d)
    BY KeepsEach
  <2> QED BY <2>1 DEF KeepsAt
<1>2. CASE \A k \in Outs : S[d] # Final(k)
  <2>1. \A k \in Outs : R[d] # Final(k)
    BY <1>1, <1>2
  <2>2. OutcomeOf(D, R, d) = None
    BY <2>1, OutcomeIs
  <2>3. OutcomeOf(C, S, d) = None
    BY <1>2, OutcomeIs
  <2> QED BY <2>2, <2>3
<1>3. ASSUME NEW k \in Outs, S[d] = Final(k)
      PROVE  OutcomeOf(D, R, d) = OutcomeOf(C, S, d)
  <2>1. OutcomeOf(C, S, d) = <<Final(k), C[<<d, k>>].memory>>
    BY <1>3, OutcomeIs
  <2>2. R[d] = Final(k) /\ D[<<d, k>>].memory = C[<<d, k>>].memory
    BY <1>1, <1>3
  <2>3. OutcomeOf(D, R, d) = <<Final(k), D[<<d, k>>].memory>>
    BY <2>2, OutcomeIs
  <2> QED BY <2>1, <2>2, <2>3
<1> QED BY <1>2, <1>3

\* Values, and so outcomes, are not None.
LEMMA NoneIsNoEnd == None \notin Ends
<1>1. \A v \in Value : v \in [is : Tag, n : Int]
  BY ValuesAre
<1>2. Ends \subseteq {"resolved", "rejected"} \X [is : Tag, n : Int]
  BY <1>1 DEF Ends
<1> QED BY <1>2, DeferredAssumption DEF Tag

LEMMA OutcomesAre ==
  ASSUME ListInv, NEW d \in Deferred, NEW k \in Outs, state[d] = Final(k)
  PROVE  <<Final(k), callbacks[<<d, k>>].memory>> \in Ends
<1> DEFINE M == Mine(page)
           c == callbacks[<<d, k>>]
<1>1. Lists(M, joined, callbacks) /\ Outcomes(M, joined, callbacks, state, stack)
  BY DEF ListInv, Arranged
<1>2. c.memory \in Value \cup {None}
  <2>1. <<d, k>> \in ListId
    BY ListIds, OutsAre
  <2> QED BY <1>1, <2>1 DEF Lists, Listing, ListingOf
<1>3. c.memory # None
  <2>1. CASE CalmAt(M, joined, callbacks, state, d)
    <3>1. Decided(M, joined, callbacks, state, d, k)
      BY <1>1, <2>1, CalmIsLate
    <3> QED BY <3>1 DEF Decided, First, Again
  <2>2. ASSUME NEW j \in Outs, Deciding(M, joined, callbacks, state, stack, d, j)
        PROVE  c.memory # None
    <3>1. ~Open(state, d)
      BY DEF Open, Final, Outs
    <3>2. state[d] = Final(j) /\ First(M, joined, callbacks[<<d, j>>], d, j)
      BY <2>2, <3>1 DEF Deciding
    <3>3. j = k
      BY <3>2, OutsAre
    <3> QED BY <3>2, <3>3 DEF First
  <2> QED BY <1>1, <2>1, <2>2 DEF Outcomes
<1>4. Final(k) \in {"resolved", "rejected"}
  BY DEF Final
<1> QED BY <1>2, <1>3, <1>4 DEF Ends

LEMMA StepReacts ==
  ASSUME ListInv, ReactInv, Next
  PROVE  /\ ReactInv'
         /\ \/ /\ \E N : Keeps(N, callbacks, state, callbacks', state')
               /\ \/ SeenStays
                  \/ \E e, on, d : Asks(e, on, d)
                  \/ \E e, on, d, or, b : AsksTwice(e, on, d, or, b)
                  \/ \E d, b, k, v : ReactsNow(d, b, k, v)
            \/ \E d \in Deferred, k \in Outs : Settles(d, k) /\ SeenStays
            \/ \E d \in Deferred, k \in Outs : Tells(d, k) /\ SeenStays
<1>1. ASSUME NEW N, Keeps(N, callbacks, state, callbacks', state'),
             UNCHANGED <<handlers, tasks>>, SeenStays
      PROVE  ReactInv'
  BY <1>1, ReactStill
<1>2. CASE /\ Keeps(Mine(page), callbacks, state, callbacks', state')
           /\ \/ Still
              \/ \E e, on, d : Asks(e, on, d)
              \/ \E e, on, d, or, b : AsksTwice(e, on, d, or, b)
              \/ \E d \in Deferred : Notifies(d)
              \/ RunProcess
  <2>1. CASE Still
    BY <1>1, <1>2, <2>1 DEF Still
  <2>2. ASSUME NEW e, NEW on, NEW d, Asks(e, on, d) PROVE ReactInv'
    BY <1>2, <2>2, ReactAsks
  <2>3. ASSUME NEW e, NEW on, NEW d, NEW or, NEW b, AsksTwice(e, on, d, or, b) PROVE ReactInv'
    BY <1>2, <2>3, ReactAsksTwice
  <2>4. ASSUME NEW d \in Deferred, Notifies(d) PROVE ReactInv' /\ SeenStays
    BY <1>2, <2>4, ReactNotifies DEF Notifies, SeenStays
  <2>5. CASE RunProcess
    BY <1>2, <2>5, ReactRuns
  <2> QED BY <1>2, <2>1, <2>2, <2>3, <2>4, <2>5
<1>3. ASSUME NEW d \in Deferred, NEW k \in Outs, Settles(d, k) PROVE ReactInv' /\ SeenStays
  BY <1>3, ReactSettles
<1>4. ASSUME NEW d \in Deferred, NEW k \in Outs, Tells(d, k) PROVE ReactInv' /\ SeenStays
  BY <1>4, ReactTells
<1>5. CASE /\ Keeps(Deferred, callbacks, state, callbacks', state')
           /\ CallHold \/ DocumentEvent \/ RunReady
  <2>1. CASE CallHold \/ DocumentEvent
    <3>1. UNCHANGED <<handlers, tasks>> /\ SeenStays
      BY <2>1 DEF CallHold, DocumentEvent, inner, SeenStays
    <3> QED BY <1>1, <1>5, <3>1
  <2>2. CASE RunReady
    BY <1>5, <2>2, ReactReadyRuns
  <2> QED BY <1>5, <2>1, <2>2
<1> QED BY <1>2, <1>3, <1>4, <1>5, StepIs

\* The outcomes before and after a step.
OutcomesOf(C, S) == [d \in Deferred |-> OutcomeOf(C, S, d)]

LEMMA OutcomesMap ==
  /\ [d \in Deferred |-> OutcomeIfAny(d)] = OutcomesOf(callbacks, state)
  /\ [d \in Deferred |-> OutcomeIfAny(d)]' = OutcomesOf(callbacks', state')
BY DEF OutcomesOf, OutcomeOf, OutcomeIfAny, Kinds

LEMMA StepImplements ==
  ASSUME ListInv, ReactInv, Next
  PROVE  [A!Next]_(A!vars)
<1> DEFINE O == OutcomesOf(callbacks, state)
           P == OutcomesOf(callbacks', state')
           C == callbacks'
           R == state'
<1>1. ListInv' /\ ReactInv'
  BY StepIs, StepReacts
<1>2. O = [d \in Deferred |-> OutcomeIfAny(d)] /\ P = [d \in Deferred |-> OutcomeIfAny(d)]'
  BY OutcomesMap
<1>3. ASSUME NEW N, Keeps(N, callbacks, state, callbacks', state') PROVE P = O
  <2>1. Keeps(N, callbacks, state, C, R)
    BY <1>3
  <2> HIDE DEF C, R
  <2>2. \A d \in Deferred : OutcomeOf(C, R, d) = OutcomeOf(callbacks, state, d)
    BY <2>1, OutcomeKept
  <2>3. OutcomesOf(C, R) = OutcomesOf(callbacks, state)
    BY <2>2 DEF OutcomesOf
  <2> QED BY <2>3 DEF C, R
<1>4. \A d \in Deferred : O[d] = OutcomeOf(callbacks, state, d)
  BY DEF OutcomesOf
<1>5. seen.thens \in [Deferred -> Seq(Named)] /\ seen.ran \in [Deferred -> Seq(Named \X Ends)]
  BY DEF ReactInv
<1>6. CASE P = O /\ SeenStays
  BY <1>2, <1>6 DEF SeenStays, A!vars
<1>7. ASSUME NEW e, NEW on, NEW b, Asks(e, on, b), P = O
      PROVE  A!Then
  <2> DEFINE u == seen'.thens
  <2>1. /\ e \in Deferred /\ b \in Named /\ u = [seen.thens EXCEPT ![e] = Append(@, b)]
        /\ seen'.ran = seen.ran
    BY <1>7, NamedAre DEF Asks
  <2>2. \A p \in Deferred : u[p] \in {seen.thens[p]} \cup {Append(seen.thens[p], x) : x \in Named}
    <3>1. \A p \in Deferred : u[p] = IF p = e THEN Append(seen.thens[p], b) ELSE seen.thens[p]
      BY <1>5, <2>1, ThensAre
    <3> QED BY <2>1, <3>1
  <2>3. u \in [Deferred -> Seq(Named)]
    BY <1>1 DEF ReactInv
  <2> QED BY <1>2, <1>7, <2>1, <2>2, <2>3 DEF A!Then, Named
<1>8. ASSUME NEW e, NEW on, NEW b, NEW or, NEW a, AsksTwice(e, on, b, or, a), P = O
      PROVE  A!Then
  <2> DEFINE u == seen'.thens
             t == seen.thens
  <2>1. /\ e \in Deferred /\ b \in Named /\ a \in Named /\ b # e
        /\ u = [t EXCEPT ![e] = Append(@, b), ![b] = Append(@, a)]
        /\ seen'.ran = seen.ran
    BY <1>8, NamedAre DEF AsksTwice
  <2>2. \A p \in Deferred : u[p] \in {t[p]} \cup {Append(t[p], x) : x \in Named}
    <3> SUFFICES ASSUME NEW p \in Deferred
                 PROVE  u[p] = t[p] \/ u[p] = Append(t[p], b) \/ u[p] = Append(t[p], a)
      BY <2>1
    <3> HIDE DEF u, t
    <3> QED BY <1>5, <2>1 DEF t
  <2>3. u \in [Deferred -> Seq(Named)]
    BY <1>1 DEF ReactInv
  <2> QED BY <1>2, <1>8, <2>1, <2>2, <2>3 DEF A!Then, Named
<1>9. ASSUME NEW d, NEW b, NEW k, NEW v, ReactsNow(d, b, k, v), P = O
      PROVE  d \in Deferred /\ A!React(d)
  <2>1. O[d] = <<Final(k), v>> /\ d \in Deferred
    BY <1>4, <1>9, OutcomeIs DEF ReactsNow
  <2>2. <<Final(k), v>> \in Ends
    BY <1>9 DEF ReactsNow, Ends, Final
  <2>3. O[d] # None
    BY <2>1, <2>2, NoneIsNoEnd
  <2>4. Len(seen.ran[d]) < Len(seen.thens[d])
    <3> DEFINE s == seen.ran[d]
               t == seen.thens[d]
               U == Named \X Ends
               N == Named
    <3>1. s \in Seq(U) /\ t \in Seq(N) /\ Len(s) + 1 \in 1..Len(t)
      BY <1>5, <1>9, <2>1 DEF ReactsNow
    <3> HIDE DEF s, t, U, N
    <3>2. Len(s) < Len(t)
      BY <3>1
    <3> QED BY <3>2 DEF s, t
  <2>5. /\ seen'.thens = seen.thens
        /\ seen'.ran = [seen.ran EXCEPT ![d] = Append(@, <<seen.thens[d][Len(seen.ran[d]) + 1], O[d]>>)]
    BY <1>9, <2>1 DEF ReactsNow
  <2> QED BY <1>2, <1>9, <2>1, <2>3, <2>4, <2>5 DEF A!React, A!NextReaction
<1>10. ASSUME NEW d \in Deferred, NEW k \in Outs, Settles(d, k), SeenStays
       PROVE  A!Settle(d)
  <2> DEFINE o == <<Final(k), callbacks'[<<d, k>>].memory>>
  <2>1. O[d] = None
    <3>1. \A j \in Outs : state[d] # Final(j)
      BY <1>10 DEF Settles, Open, Outs, Final
    <3> QED BY <1>4, <3>1, OutcomeIs
  <2>2. R[d] = Final(k) /\ \A p \in Deferred : p # d => R[p] = state[p]
    <3>1. state \in [Deferred -> {"unborn", "pending", "resolved", "rejected"}]
      BY DEF ListInv, Typed
    <3> QED BY <1>10, <3>1 DEF Settles
  <2>3. o \in Ends
    <3> DEFINE l == <<d, k>>
               c == callbacks[l]
    <3>1. /\ C = [callbacks EXCEPT ![l] = Advance(c)] /\ callbacks \in [ListId -> Listing]
          /\ l \in ListId /\ c.memory # None
      BY <1>10, ListIds, OutsAre DEF Settles, Next1, First, ListInv, Arranged, Lists
    <3>2. Advance(c).memory = c.memory /\ c.memory \in Value
      <4>1. c \in Listing /\ c.memory # None
        BY <3>1
      <4> HIDE DEF c
      <4> QED BY <4>1 DEF Advance, Listing, ListingOf
    <3>3. C[l] = Advance(c)
      <4> HIDE DEF C, l
      <4> QED BY <3>1
    <3> HIDE DEF C, c
    <3> QED BY <3>2, <3>3 DEF Ends, Final, C
  <2>4. OutcomeOf(C, R, d) = o
    <3> HIDE DEF R, C
    <3>1. OutcomeOf(C, R, d) = <<Final(k), C[<<d, k>>].memory>>
      BY <2>2, OutcomeIs
    <3> QED BY <3>1 DEF C
  <2>5. ASSUME NEW p \in Deferred, p # d
        PROVE  OutcomeOf(C, R, p) = OutcomeOf(callbacks, state, p)
    <3>1. \A j \in Outs : C[<<p, j>>] = callbacks[<<p, j>>]
      <4>1. callbacks \in [ListId -> Listing]
        BY DEF ListInv, Arranged, Lists
      <4>2. \A j \in Outs : <<p, j>> # <<d, k>> /\ <<p, j>> \in ListId
        BY <2>5, ListIds, OutsAre
      <4> QED BY <1>10, <4>1, <4>2 DEF Settles, Next1
    <3>2. R[p] = state[p]
      BY <2>2, <2>5
    <3> HIDE DEF C, R
    <3>3. ASSUME \A j \in Outs : state[p] # Final(j)
          PROVE  OutcomeOf(C, R, p) = OutcomeOf(callbacks, state, p)
      <4>1. OutcomeOf(C, R, p) = None
        BY <3>2, <3>3, OutcomeIs
      <4>2. OutcomeOf(callbacks, state, p) = None
        BY <3>3, OutcomeIs
      <4> QED BY <4>1, <4>2
    <3>4. ASSUME NEW j \in Outs, state[p] = Final(j)
          PROVE  OutcomeOf(C, R, p) = OutcomeOf(callbacks, state, p)
      <4>1. R[p] = Final(j) /\ C[<<p, j>>].memory = callbacks[<<p, j>>].memory
        BY <3>1, <3>2, <3>4
      <4>2. OutcomeOf(C, R, p) = <<Final(j), C[<<p, j>>].memory>>
        BY <4>1, OutcomeIs
      <4>3. OutcomeOf(callbacks, state, p) = <<Final(j), callbacks[<<p, j>>].memory>>
        BY <3>4, OutcomeIs
      <4> QED BY <4>1, <4>2, <4>3
    <3> QED BY <3>3, <3>4
  <2>6. P = [O EXCEPT ![d] = o]
    <3> HIDE DEF C, R, o
    <3>1. OutcomesOf(C, R) = [OutcomesOf(callbacks, state) EXCEPT ![d] = o]
      BY <2>4, <2>5 DEF OutcomesOf
    <3> QED BY <3>1 DEF C, R
  <2> HIDE DEF O, P, o
  <2>7. \E x \in Ends : P = [O EXCEPT ![d] = x]
    BY <2>3, <2>6
  <2> QED BY <1>2, <1>10, <2>1, <2>7 DEF A!Settle, SeenStays, Ends
<1>11. ASSUME NEW d \in Deferred, NEW k \in Outs, Tells(d, k) PROVE P = O
  <2>1. R = state
    BY <1>11 DEF Tells
  <2>2. \A l \in ListId : C[l].memory = callbacks[l].memory
    <3> DEFINE l == <<d, k>>
               c == callbacks[l]
    <3>1. /\ C = [callbacks EXCEPT ![l] = Advance(c)] /\ callbacks \in [ListId -> Listing]
          /\ l \in ListId
      BY <1>11, ListIds, OutsAre DEF Tells, Next1, ListInv, Arranged, Lists
    <3>2. Advance(c).memory = c.memory
      <4>1. c \in Listing
        BY <3>1
      <4> HIDE DEF c
      <4> QED BY <4>1 DEF Advance, Listing, ListingOf
    <3> HIDE DEF C, l
    <3> QED BY <3>1, <3>2
  <2> HIDE DEF C, R
  <2>3. ASSUME NEW p \in Deferred PROVE OutcomeOf(C, R, p) = OutcomeOf(callbacks, state, p)
    <3>1. ASSUME NEW j \in Outs, state[p] = Final(j)
          PROVE  OutcomeOf(C, R, p) = OutcomeOf(callbacks, state, p)
      <4>1. C[<<p, j>>].memory = callbacks[<<p, j>>].memory
        BY <2>2, ListIds, OutsAre
      <4> QED BY <2>1, <3>1, <4>1, OutcomeIs
    <3>2. ASSUME \A j \in Outs : state[p] # Final(j)
          PROVE  OutcomeOf(C, R, p) = OutcomeOf(callbacks, state, p)
      <4>1. OutcomeOf(C, R, p) = None
        BY <2>1, <3>2, OutcomeIs
      <4>2. OutcomeOf(callbacks, state, p) = None
        BY <3>2, OutcomeIs
      <4> QED BY <4>1, <4>2
    <3> QED BY <3>1, <3>2
  <2>4. OutcomesOf(C, R) = OutcomesOf(callbacks, state)
    BY <2>3 DEF OutcomesOf
  <2> QED BY <2>4 DEF C, R
<1> HIDE DEF O, P
<1>12. A!Then => A!Next
  BY DEF A!Next
<1>13. ASSUME NEW d \in Deferred, A!Settle(d) \/ A!React(d) PROVE A!Next
  BY <1>13 DEF A!Next
<1> QED BY <1>3, <1>6, <1>7, <1>8, <1>9, <1>10, <1>11, <1>12, <1>13, StepReacts

\* Deferreds and then implement the contract of Promises/A+: DeferredsSpec!ImplementsPromises
\* but for its fairness.
THEOREM ThenKeepsPromises == Spec => A!Init /\ [][A!Next]_(A!vars)
<1> DEFINE Inv == ListInv /\ ReactInv
<1>1. Init => Inv /\ A!Init
  <2> SUFFICES ASSUME Init PROVE Inv /\ A!Init
    OBVIOUS
  <2>1. Inv
    BY InitIs, ReactInitIs
  <2>2. \A d \in Deferred : OutcomeOf(callbacks, state, d) = None
    <3>1. \A d \in Deferred : \A k \in Outs : state[d] # Final(k)
      BY DEF Init, Final
    <3> QED BY <3>1, OutcomeIs
  <2>3. [d \in Deferred |-> OutcomeIfAny(d)] = [d \in Deferred |-> None]
    BY <2>2, OutcomesMap DEF OutcomesOf
  <2>4. seen.thens = [d \in Deferred |-> <<>>] /\ seen.ran = [d \in Deferred |-> <<>>]
    BY DEF Init
  <2> QED BY <2>1, <2>3, <2>4 DEF A!Init
<1>2. Inv /\ [Next]_vars => Inv'
  BY StepIs, StutterGoes, StepReacts, ReactStutter
<1>3. Inv /\ [Next]_vars => [A!Next]_(A!vars)
  <2>1. ASSUME UNCHANGED vars PROVE UNCHANGED A!vars
    <3>1. callbacks' = callbacks /\ state' = state /\ seen' = seen
      BY <2>1 DEF vars
    <3>2. OutcomesOf(callbacks', state') = OutcomesOf(callbacks, state)
      BY <3>1
    <3>3. [d \in Deferred |-> OutcomeIfAny(d)]' = [d \in Deferred |-> OutcomeIfAny(d)]
      BY <3>2, OutcomesMap
    <3> QED BY <3>1, <3>3 DEF A!vars
  <2> QED BY <2>1, StepImplements
<1> HIDE DEF Inv
<1> QED BY <1>1, <1>2, <1>3, PTL DEF Spec
=============================================================================
