-------------------------- MODULE CallbacksProofs --------------------------
(***************************************************************************)
(* More proofs about Deferreds: its lists call what was added to them.     *)
(*                                                                         *)
(* OwnInv is about the page's own list: which of its functions were told   *)
(* what, and that the loop has passed all of those ahead of it.  OrderInv  *)
(* is about the lists of an outcome and keeps a ledger: of the functions   *)
(* that were added, those in the log have been called, one after the other *)
(* in the order they came, and the others wait in this order, in the list  *)
(* or in the frames of an always() that is half done.  ToldInv is about    *)
(* the notify list: once its deferred is decided it tells nobody news.     *)
(***************************************************************************)
EXTENDS DeferredsProofs

-----------------------------------------------------------------------------
(* The page's own list *)

IsData(v, m) == \E i \in 1..m : v = Data(i)

\* A log of calls: of which add the function was, and what it was told.
Log == Seq(Nat \X (Value \cup {None}))

\* The list c with log L, after a adds and m calls: nobody is told one value twice, for
\* what waits is new to all, and what is told is new to those ahead.
Distinct(c, L, a, m) ==
  /\ \A j \in DOMAIN L : L[j][1] <= a /\ (L[j][2] = None \/ IsData(L[j][2], m))
  /\ c.memory = None \/ IsData(c.memory, m)
  /\ \A i \in DOMAIN c.list : c.list[i].n \in 1..a
  /\ \A i, j \in DOMAIN c.list : c.list[i].n = c.list[j].n => i = j
  /\ \A i \in DOMAIN c.queue :
       /\ IsData(c.queue[i], m) /\ c.queue[i] # c.memory
       /\ \A j \in DOMAIN L : L[j][2] # c.queue[i]
  /\ \A i, j \in DOMAIN c.queue : c.queue[i] = c.queue[j] => i = j
  /\ \A i, j \in DOMAIN L : L[i] = L[j] => i = j
  /\ c.firing => \A i \in DOMAIN c.list : i > c.index =>
                   \A j \in DOMAIN L : L[j] # <<c.list[i].n, c.memory>>

\* Those behind the loop have been told, if the list was never emptied under it.
Passed(c, L, emptied) ==
  /\ c.gone => c.memory = None /\ c.locked
  /\ c.locked => c.queue = <<>>
  /\ ~emptied /\ ~c.gone => c.index <= Len(c.list)
  /\ ~emptied /\ c.memory # None =>
       \A i \in DOMAIN c.list : (c.firing => i <= c.index) =>
         \E j \in DOMAIN L : L[j] = <<c.list[i].n, c.memory>>

Single(c, L) ==
  "once" \in c.options =>
    /\ ~c.locked => L = <<>> /\ c.memory = None /\ ~c.firing
    /\ \A j \in DOMAIN L : L[j][2] = c.memory \/ c.memory = None
    /\ \A i, j \in DOMAIN L : L[i][2] = L[j][2]

Own(c, L, a, m, emptied) ==
  /\ L \in Log /\ a \in Nat /\ m \in Nat /\ emptied \in BOOLEAN
  /\ Distinct(c, L, a, m) /\ Passed(c, L, emptied) /\ Single(c, L)

LEMMA DataIs ==
  /\ \A i, j : Data(i) = Data(j) => i = j
  /\ \A m \in Nat : \A v : IsData(v, m) => v # None
  /\ \A m \in Nat : \A v : IsData(v, m) => v # Data(m + 1)
  /\ \A m, k \in Nat : \A v : IsData(v, m) /\ m <= k => IsData(v, k)
  /\ \A m \in Nat : IsData(Data(m + 1), m + 1)
<1>1. \A i, j : Data(i) = Data(j) => i = j
  BY DEF Data
<1>2. \A m \in Nat : \A i \in 1..m : Data(i) # None
  BY DeferredAssumption DEF Data
<1>3. \A m \in Nat : \A i \in 1..m : i # m + 1
  OBVIOUS
<1>4. \A m, k \in Nat : \A i \in 1..m : m <= k => i \in 1..k
  OBVIOUS
<1>5. \A m \in Nat : m + 1 \in 1..(m + 1)
  OBVIOUS
<1> QED BY <1>1, <1>2, <1>3, <1>4, <1>5 DEF IsData

\* Calls that have nothing to do with the list.
LEMMA OwnLater ==
  ASSUME NEW c, NEW L, NEW a, NEW m, NEW em, Own(c, L, a, m, em), NEW k \in Nat, m <= k
  PROVE  Own(c, L, a, k, em)
BY DataIs DEF Own, Distinct

LEMMA LogIs ==
  ASSUME NEW L, L \in Log
  PROVE  /\ Len(L) \in Nat /\ DOMAIN L = 1..Len(L)
         /\ \A j \in DOMAIN L : L[j] \in Nat \X (Value \cup {None})
         /\ (DOMAIN L = {} => L = <<>>)
BY DEF Log

LEMMA ListIs ==
  ASSUME NEW c, List(c)
  PROVE  /\ c.list \in Seq(Entries) /\ c.queue \in Seq(Value) /\ c.memory \in Value \cup {None}
         /\ c.index \in Nat /\ c.locked \in BOOLEAN /\ c.firing \in BOOLEAN /\ c.gone \in BOOLEAN
         /\ Len(c.list) \in Nat /\ DOMAIN c.list = 1..Len(c.list)
         /\ Len(c.queue) \in Nat /\ DOMAIN c.queue = 1..Len(c.queue)
         /\ c.gone => c.list = <<>>
         /\ ~c.firing => c.index = 0 /\ c.queue = <<>>
BY DEF List, ListOf, Listing, ListingOf

LEMMA OwnAdded ==
  ASSUME NEW c, List(c), NEW L, NEW a, NEW m, NEW em, Own(c, L, a, m, em),
         ~(c.firing /\ c.memory = None /\ ~c.gone),
         NEW f \in Function \cup {Nobody}, NEW e, e = Add(c, User(f, a + 1))
  PROVE  Own(e, L, a + 1, m, em)
<1> DEFINE u == User(f, a + 1)
<1>0. L \in Log /\ a \in Nat /\ m \in Nat /\ Distinct(c, L, a, m) /\ Passed(c, L, em) /\ Single(c, L)
  BY DEF Own
<1>1. u \in Entries /\ u.n = a + 1
  BY <1>0, UserIs DEF User
<1> HIDE DEF u
<1>2. /\ List(e) /\ e.options = c.options /\ e.gone = c.gone
      /\ e.memory = c.memory /\ e.queue = c.queue
      /\ c.gone => e = c
      /\ ~c.gone => e.list = c.list \/ e.list = Append(c.list, u)
      /\ \/ ~c.gone /\ c.memory # None /\ ~c.firing /\ e.firing /\ e.index = Len(c.list)
            /\ e.locked = (c.locked \/ "once" \in c.options)
         \/ ~(~c.gone /\ c.memory # None /\ ~c.firing) /\ e.firing = c.firing
            /\ e.index = c.index /\ e.locked = c.locked
  BY <1>1, AddIs DEF u
<1>3. /\ c.list \in Seq(Entries) /\ Len(c.list) \in Nat /\ DOMAIN c.list = 1..Len(c.list)
      /\ c.index \in Nat /\ c.firing \in BOOLEAN /\ c.locked \in BOOLEAN /\ c.gone \in BOOLEAN
      /\ ~c.firing => c.queue = <<>> /\ c.index = 0
  BY ListIs
<1>4. /\ e.list \in Seq(Entries) /\ DOMAIN e.list = 1..Len(e.list) /\ Len(e.list) \in Nat
      /\ Len(c.list) <= Len(e.list)
      /\ \A i \in DOMAIN c.list : i \in DOMAIN e.list /\ e.list[i] = c.list[i]
      /\ \A i \in DOMAIN e.list : i \in DOMAIN c.list \/ (i = Len(c.list) + 1 /\ e.list[i] = u)
  <2>1. CASE e.list = c.list
    BY <1>3, <2>1
  <2>2. CASE e.list = Append(c.list, u)
    <3> DEFINE z == Append(c.list, u)
    <3>1. /\ z \in Seq(Entries) /\ Len(z) = Len(c.list) + 1 /\ DOMAIN z = 1..(Len(c.list) + 1)
          /\ (\A i \in 1..Len(c.list) : z[i] = c.list[i]) /\ z[Len(c.list) + 1] = u
      BY <1>1, <1>3, AppendIs
    <3>2. e.list = z
      BY <2>2
    <3> HIDE DEF z
    <3> QED BY <1>3, <3>1, <3>2
  <2>3. e.list = c.list \/ e.list = Append(c.list, u)
    <3>1. CASE c.gone
      BY <1>2, <3>1
    <3>2. CASE ~c.gone
      BY <1>2, <3>2
    <3> QED BY <3>1, <3>2
  <2> QED BY <2>1, <2>2, <2>3
<1>5. Distinct(e, L, a + 1, m)
  <2>1. \A j \in DOMAIN L : L[j][1] \in Nat /\ L[j][1] <= a
    BY <1>0, LogIs DEF Distinct
  <2>2. \A i \in DOMAIN e.list : e.list[i].n \in 1..(a + 1)
    BY <1>0, <1>1, <1>4 DEF Distinct
  <2>3. \A i \in DOMAIN c.list : c.list[i].n # a + 1
    BY <1>0 DEF Distinct
  <2>4. ASSUME NEW i \in DOMAIN e.list, NEW j \in DOMAIN e.list,
               e.list[i].n = e.list[j].n
        PROVE  i = j
    <3>1. CASE i \in DOMAIN c.list /\ j \in DOMAIN c.list
      <4>1. c.list[i].n = c.list[j].n
        BY <1>4, <2>4, <3>1
      <4> QED BY <1>0, <3>1, <4>1 DEF Distinct
    <3>2. CASE i \in DOMAIN c.list /\ j \notin DOMAIN c.list
      BY <1>1, <1>4, <2>3, <2>4, <3>2
    <3>3. CASE i \notin DOMAIN c.list /\ j \in DOMAIN c.list
      BY <1>1, <1>4, <2>3, <2>4, <3>3
    <3>4. CASE i \notin DOMAIN c.list /\ j \notin DOMAIN c.list
      BY <1>4, <3>4
    <3> QED BY <3>1, <3>2, <3>3, <3>4
  <2>5. ASSUME e.firing, NEW i \in DOMAIN e.list, i > e.index, NEW j \in DOMAIN L
        PROVE  L[j] # <<e.list[i].n, e.memory>>
    <3>1. CASE e.list[i] = u
      BY <1>0, <1>1, <2>1, <3>1
    <3>2. CASE i \in DOMAIN c.list
      <4>1. c.firing /\ e.index = c.index
        BY <1>2, <1>3, <2>5, <3>2
      <4> QED BY <1>0, <1>2, <1>4, <2>5, <3>2, <4>1 DEF Distinct
    <3> QED BY <1>4, <3>1, <3>2
  <2>6. \A j \in DOMAIN L : L[j][1] <= a + 1
    BY <1>0, <2>1
  <2> QED BY <1>0, <1>2, <2>2, <2>4, <2>5, <2>6 DEF Distinct
<1>6. Passed(e, L, em)
  <2>1. ~em /\ ~e.gone => e.index <= Len(e.list)
    BY <1>0, <1>2, <1>3, <1>4 DEF Passed
  <2>2. ASSUME ~em, e.memory # None, NEW i \in DOMAIN e.list, e.firing => i <= e.index
        PROVE  \E j \in DOMAIN L : L[j] = <<e.list[i].n, e.memory>>
    <3>1. CASE c.gone
      BY <1>0, <1>2, <2>2, <3>1 DEF Passed
    <3>2. CASE ~c.gone
      <4>1. i \in DOMAIN c.list /\ (c.firing => i <= c.index)
        BY <1>0, <1>2, <1>3, <1>4, <2>2, <3>2 DEF Passed
      <4> QED BY <1>0, <1>2, <1>4, <2>2, <4>1 DEF Passed
    <3> QED BY <3>1, <3>2
  <2>3. e.gone => e.memory = None /\ e.locked
    BY <1>0, <1>2 DEF Passed
  <2>4. e.locked => e.queue = <<>>
    BY <1>0, <1>2, <1>3 DEF Passed
  <2> QED BY <2>1, <2>2, <2>3, <2>4 DEF Passed
<1>7. Single(e, L)
  BY <1>0, <1>2, <1>3 DEF Single
<1> QED BY <1>0, <1>5, <1>6, <1>7 DEF Own

LEMMA OwnFired ==
  ASSUME NEW c, List(c), NEW L, NEW a, NEW m, NEW em, Own(c, L, a, m, em),
         Data(m + 1) \in Value, NEW e, e = FireWith(c, Data(m + 1))
  PROVE  Own(e, L, a, m + 1, em)
<1> DEFINE v == Data(m + 1)
<1>0. L \in Log /\ a \in Nat /\ m \in Nat /\ Distinct(c, L, a, m) /\ Passed(c, L, em) /\ Single(c, L)
  BY DEF Own
<1>a. v # None /\ IsData(v, m + 1) /\ m + 1 \in Nat
  BY <1>0, DataIs
<1>b. \A x : IsData(x, m) => x # v /\ x # None /\ IsData(x, m + 1)
  BY <1>0, DataIs
<1>v. v \in Value
  OBVIOUS
<1> HIDE DEF v
<1>1. /\ c.list \in Seq(Entries) /\ Len(c.list) \in Nat /\ DOMAIN c.list = 1..Len(c.list)
      /\ c.queue \in Seq(Value) /\ c.locked \in BOOLEAN /\ c.firing \in BOOLEAN
  BY ListIs
<1>2. /\ e.options = c.options /\ e.list = c.list /\ e.gone = c.gone
      /\ c.locked => e = c
      /\ ~c.locked /\ c.firing =>
           /\ e.memory = c.memory /\ e.queue = Append(c.queue, v) /\ e.index = c.index
           /\ ~e.locked /\ e.firing
      /\ ~c.locked /\ ~c.firing =>
           /\ e.memory = v /\ e.queue = <<>> /\ e.index = 0
           /\ e.locked = ("once" \in c.options) /\ e.firing
  BY <1>v, FireIs DEF v
<1>3. CASE c.locked
  BY <1>0, <1>2, <1>3, <1>a, OwnLater DEF Own
<1>4. CASE ~c.locked /\ c.firing
  <2> DEFINE q == Append(c.queue, v)
  <2>1. /\ DOMAIN q = 1..(Len(c.queue) + 1) /\ DOMAIN c.queue = 1..Len(c.queue)
        /\ Len(c.queue) \in Nat
        /\ \A i \in DOMAIN c.queue : q[i] = c.queue[i]
        /\ q[Len(c.queue) + 1] = v
    BY <1>1, <1>v, AppendIs
  <2> HIDE DEF q
  <2>2. e.queue = q
    BY <1>2, <1>4 DEF q
  <2>3. \A i \in DOMAIN q : (i \in DOMAIN c.queue /\ q[i] = c.queue[i]) \/ (i = Len(c.queue) + 1 /\ q[i] = v)
    BY <2>1
  <2>4. \A i \in DOMAIN q : IsData(q[i], m + 1) /\ q[i] # c.memory /\ \A j \in DOMAIN L : L[j][2] # q[i]
    <3>1. \A i \in DOMAIN c.queue : IsData(c.queue[i], m + 1) /\ c.queue[i] # c.memory
                                    /\ \A j \in DOMAIN L : L[j][2] # c.queue[i]
      BY <1>0, <1>b DEF Distinct
    <3>2. v # c.memory
      BY <1>0, <1>a, <1>b DEF Distinct
    <3>3. \A j \in DOMAIN L : L[j][2] # v
      BY <1>0, <1>a, <1>b DEF Distinct
    <3> QED BY <1>a, <2>3, <3>1, <3>2, <3>3
  <2>5. \A i, j \in DOMAIN q : q[i] = q[j] => i = j
    <3>1. \A i \in DOMAIN c.queue : c.queue[i] # v
      BY <1>0, <1>b DEF Distinct
    <3> QED BY <1>0, <2>3, <3>1 DEF Distinct
  <2>6. Distinct(e, L, a, m + 1)
    BY <1>0, <1>2, <1>4, <1>b, <2>2, <2>4, <2>5 DEF Distinct
  <2>7. Passed(e, L, em)
    BY <1>0, <1>2, <1>4 DEF Passed
  <2>8. Single(e, L)
    BY <1>0, <1>2, <1>4 DEF Single
  <2> QED BY <1>0, <1>a, <2>6, <2>7, <2>8 DEF Own
<1>5. CASE ~c.locked /\ ~c.firing
  <2>1. \A j \in DOMAIN L : L[j][2] # v
    BY <1>0, <1>a, <1>b DEF Distinct
  <2>2. \A n : \A j \in DOMAIN L : L[j] # <<n, v>>
    BY <2>1
  <2>3. e.memory = v /\ e.queue = <<>> /\ e.index = 0 /\ e.firing /\ DOMAIN e.queue = {}
    BY <1>2, <1>5
  <2>4. Distinct(e, L, a, m + 1)
    BY <1>0, <1>2, <1>a, <1>b, <2>2, <2>3 DEF Distinct
  <2>5. Passed(e, L, em)
    BY <1>0, <1>1, <1>2, <1>5, <2>3 DEF Passed
  <2>6. Single(e, L)
    <3>1. "once" \in e.options => L = <<>> /\ e.locked
      BY <1>0, <1>2, <1>5 DEF Single
    <3>2. L = <<>> => DOMAIN L = {}
      OBVIOUS
    <3> QED BY <3>1, <3>2 DEF Single
  <2> QED BY <1>0, <1>a, <2>4, <2>5, <2>6 DEF Own
<1> QED BY <1>1, <1>3, <1>4, <1>5

LEMMA OwnNext ==
  ASSUME NEW c, List(c), c.firing, c.queue # <<>>, NEW L, NEW a, NEW m, NEW em,
         Own(c, L, a, m, em), NEW e, e = NextValue(c)
  PROVE  Own(e, L, a, m, em)
<1> DEFINE q == c.queue
           t == Tail(q)
<1>0. L \in Log /\ a \in Nat /\ m \in Nat /\ Distinct(c, L, a, m) /\ Passed(c, L, em) /\ Single(c, L)
  BY DEF Own
<1>1. /\ c.list \in Seq(Entries) /\ Len(c.list) \in Nat /\ DOMAIN c.list = 1..Len(c.list)
      /\ q \in Seq(Value)
  BY ListIs
<1>2. /\ e.options = c.options /\ e.list = c.list /\ e.gone = c.gone
      /\ e.memory = Head(q) /\ e.queue = t /\ e.index = 0
      /\ e.locked = c.locked /\ e.firing
  BY NextIs
<1>3. q # <<>>
  OBVIOUS
<1> HIDE DEF q
<1>4. /\ 1 \in DOMAIN q /\ Head(q) = q[1]
      /\ \A i \in DOMAIN t : i + 1 \in DOMAIN q /\ t[i] = q[i + 1] /\ i + 1 # 1 /\ i \in Nat
  BY <1>1, <1>3
<1> HIDE DEF t
<1>5. \A i \in DOMAIN q : IsData(q[i], m) /\ \A j \in DOMAIN L : L[j][2] # q[i]
  BY <1>0 DEF Distinct, q
<1>6. \A i, j \in DOMAIN q : q[i] = q[j] => i = j
  BY <1>0 DEF Distinct, q
<1>7. \A i \in DOMAIN t : /\ IsData(t[i], m) /\ t[i] # Head(q)
                          /\ \A j \in DOMAIN L : L[j][2] # t[i]
  BY <1>4, <1>5, <1>6
<1>8. \A i, j \in DOMAIN t : t[i] = t[j] => i = j
  <2> SUFFICES ASSUME NEW i \in DOMAIN t, NEW j \in DOMAIN t, t[i] = t[j] PROVE i = j
    OBVIOUS
  <2>1. i + 1 = j + 1 /\ i \in Nat /\ j \in Nat
    BY <1>4, <1>6
  <2> QED BY <2>1
<1>9. IsData(Head(q), m) /\ \A j \in DOMAIN L : L[j][2] # Head(q)
  BY <1>4, <1>5
<1>10. \A n : \A j \in DOMAIN L : L[j] # <<n, Head(q)>>
  BY <1>9
<1>11. Distinct(e, L, a, m)
  BY <1>0, <1>2, <1>7, <1>8, <1>9, <1>10 DEF Distinct
<1>12. ~c.gone /\ ~c.locked
  BY <1>0, <1>3 DEF Passed, q
<1>13. Passed(e, L, em)
  BY <1>1, <1>2, <1>12 DEF Passed
<1>14. Single(e, L)
  BY <1>0, <1>2, <1>12 DEF Single
<1> QED BY <1>0, <1>11, <1>13, <1>14 DEF Own

LEMMA OwnFinished ==
  ASSUME NEW c, List(c), c.firing, c.queue = <<>>, ~Pending(c), NEW L, NEW a, NEW m, NEW em,
         Own(c, L, a, m, em), NEW e, e = Finish(c)
  PROVE  Own(e, L, a, m, em)
<1>0. L \in Log /\ a \in Nat /\ m \in Nat /\ Distinct(c, L, a, m) /\ Passed(c, L, em) /\ Single(c, L)
  BY DEF Own
<1>1. /\ Len(c.list) \in Nat /\ DOMAIN c.list = 1..Len(c.list) /\ c.index \in Nat
      /\ c.locked \in BOOLEAN
  BY ListIs
<1>2. /\ e.options = c.options /\ e.queue = <<>> /\ e.index = 0 /\ ~e.firing
      /\ e.memory = (IF "memory" \in c.options THEN c.memory ELSE None)
      /\ e.locked = c.locked
      /\ c.locked => e.list = <<>> /\ e.gone = (e.memory = None)
      /\ ~c.locked => e.list = c.list /\ e.gone = c.gone
  BY FinishIs
<1>3. DOMAIN e.queue = {} /\ (c.locked => DOMAIN e.list = {})
  BY <1>2
<1>4. e.memory = c.memory \/ e.memory = None
  BY <1>2
<1>5. \A i \in DOMAIN c.list : i <= c.index
  BY <1>1 DEF Pending
<1>6. Distinct(e, L, a, m)
  BY <1>0, <1>1, <1>2, <1>3, <1>4 DEF Distinct
<1>7. Passed(e, L, em)
  <2>1. e.gone => e.memory = None /\ e.locked
    <3>1. CASE c.locked
      BY <1>2, <3>1
    <3>2. CASE ~c.locked
      BY <1>0, <1>2, <3>2 DEF Passed
    <3> QED BY <3>1, <3>2
  <2>2. e.index <= Len(e.list)
    <3>1. CASE c.locked
      BY <1>2, <3>1
    <3>2. CASE ~c.locked
      BY <1>1, <1>2, <3>2
    <3> QED BY <3>1, <3>2
  <2>3. ASSUME ~em, e.memory # None, NEW i \in DOMAIN e.list
        PROVE  \E j \in DOMAIN L : L[j] = <<e.list[i].n, e.memory>>
    <3>1. ~c.locked /\ e.list = c.list /\ e.memory = c.memory
      BY <1>2, <1>3, <1>4, <2>3
    <3> QED BY <1>0, <1>5, <2>3, <3>1 DEF Passed
  <2> QED BY <1>2, <2>1, <2>2, <2>3 DEF Passed
<1>8. Single(e, L)
  BY <1>0, <1>2, <1>4 DEF Single
<1> QED BY <1>0, <1>6, <1>7, <1>8 DEF Own

\* The next function is called, which has to have a value.
LEMMA OwnCalled ==
  ASSUME NEW c, List(c), c.firing, Pending(c), c.memory # None, NEW L, NEW a, NEW m, NEW em,
         Own(c, L, a, m, em), NEW e, e = Advance(c)
  PROVE  Own(e, Append(L, <<Current(c).n, c.memory>>), a, m, em)
<1> DEFINE p == c.index + 1
           x == <<c.list[p].n, c.memory>>
           R == Append(L, x)
<1>0. L \in Log /\ a \in Nat /\ m \in Nat /\ Distinct(c, L, a, m) /\ Passed(c, L, em) /\ Single(c, L)
  BY DEF Own
<1>1. /\ Len(c.list) \in Nat /\ DOMAIN c.list = 1..Len(c.list) /\ c.index \in Nat
      /\ c.locked \in BOOLEAN /\ c.memory \in Value \cup {None}
      /\ c.gone => c.list = <<>>
  BY ListIs
<1>2. /\ e.options = c.options /\ e.list = c.list /\ e.gone = c.gone
      /\ e.memory = c.memory /\ e.queue = c.queue /\ e.index = p
      /\ e.locked = c.locked /\ e.firing
  BY AdvanceIs
<1>3. p \in DOMAIN c.list /\ p <= Len(c.list) /\ p > c.index
  BY <1>1 DEF Pending
<1>4. c.list[p].n \in 1..a /\ x[1] = c.list[p].n /\ x[2] = c.memory
  BY <1>0, <1>3 DEF Distinct
<1>5. x \in Nat \X (Value \cup {None})
  BY <1>0, <1>1, <1>4
<1>6. \A j \in DOMAIN L : L[j] # x
  BY <1>0, <1>3 DEF Distinct
<1>c. Current(c) = c.list[p]
  BY DEF Current
<1> HIDE DEF x
<1>7. /\ R \in Log /\ DOMAIN L = 1..Len(L) /\ DOMAIN R = 1..(Len(L) + 1) /\ Len(L) \in Nat
      /\ \A j \in DOMAIN L : R[j] = L[j]
      /\ R[Len(L) + 1] = x
  BY <1>0, <1>5, AppendIs DEF Log
<1> HIDE DEF R
<1>8. \A j \in DOMAIN R : (j \in DOMAIN L /\ R[j] = L[j]) \/ (j = Len(L) + 1 /\ R[j] = x)
  BY <1>7
<1>9. \A j \in DOMAIN L : j \in DOMAIN R /\ R[j] = L[j]
  BY <1>7
<1>10. Distinct(e, R, a, m)
  <2>1. \A j \in DOMAIN R : R[j][1] <= a /\ (R[j][2] = None \/ IsData(R[j][2], m))
    BY <1>0, <1>4, <1>8 DEF Distinct
  <2>2. \A i \in DOMAIN c.queue : \A j \in DOMAIN R : R[j][2] # c.queue[i]
    BY <1>0, <1>4, <1>8 DEF Distinct
  <2>3. \A i, j \in DOMAIN R : R[i] = R[j] => i = j
    BY <1>0, <1>6, <1>8 DEF Distinct
  <2>4. ASSUME NEW i \in DOMAIN c.list, i > p, NEW j \in DOMAIN R
        PROVE  R[j] # <<c.list[i].n, c.memory>>
    <3>1. i > c.index /\ i # p
      BY <1>1, <1>3, <2>4
    <3>2. c.list[i].n # c.list[p].n
      BY <1>0, <1>3, <3>1 DEF Distinct
    <3>3. CASE R[j] = x
      BY <1>4, <3>2, <3>3
    <3>4. CASE j \in DOMAIN L /\ R[j] = L[j]
      BY <1>0, <3>1, <3>4 DEF Distinct
    <3> QED BY <1>8, <3>3, <3>4
  <2> QED BY <1>0, <1>2, <2>1, <2>2, <2>3, <2>4 DEF Distinct
<1>11. Passed(e, R, em)
  <2>1. ASSUME ~em, NEW i \in DOMAIN c.list, i <= p
        PROVE  \E j \in DOMAIN R : R[j] = <<c.list[i].n, c.memory>>
    <3>1. CASE i = p
      <4>1. Len(L) + 1 \in DOMAIN R
        BY <1>7
      <4> QED BY <1>7, <3>1, <4>1 DEF x
    <3>2. CASE i # p
      <4>1. i <= c.index
        BY <1>1, <2>1, <3>2
      <4>2. \E j \in DOMAIN L : L[j] = <<c.list[i].n, c.memory>>
        BY <1>0, <2>1, <4>1 DEF Passed
      <4> QED BY <1>9, <4>2
    <3> QED BY <3>1, <3>2
  <2> QED BY <1>0, <1>2, <1>3, <2>1 DEF Passed
<1>12. Single(e, R)
  <2>1. SUFFICES ASSUME "once" \in c.options
                 PROVE  /\ c.locked
                        /\ \A j \in DOMAIN R : R[j][2] = c.memory
    BY <1>2, <2>1 DEF Single
  <2>2. c.locked /\ \A j \in DOMAIN L : L[j][2] = c.memory
    BY <1>0, <2>1 DEF Single
  <2> QED BY <1>4, <1>8, <2>2
<1> QED BY <1>0, <1>7, <1>10, <1>11, <1>12, <1>c DEF Own, R, x

LEMMA OwnStopped ==
  ASSUME NEW c, List(c), c.firing, NEW L, NEW a, NEW m, NEW em,
         Own(c, L, a, m, em), NEW e, e = StopOnFalse(c)
  PROVE  Own(e, L, a, m, em)
<1>0. L \in Log /\ a \in Nat /\ m \in Nat /\ Distinct(c, L, a, m) /\ Passed(c, L, em) /\ Single(c, L)
  BY DEF Own
<1>1. /\ Len(c.list) \in Nat /\ DOMAIN c.list = 1..Len(c.list)
  BY ListIs
<1>2. /\ e.options = c.options /\ e.list = c.list /\ e.gone = c.gone
      /\ e.queue = c.queue /\ e.locked = c.locked /\ e.firing
      /\ \/ e.memory = None /\ e.index = Len(c.list) /\ "stopOnFalse" \in c.options
         \/ e = c /\ "stopOnFalse" \notin c.options
  BY StopIs
<1>3. CASE e = c
  BY <1>3
<1>4. CASE e.memory = None /\ e.index = Len(c.list)
  <2>1. \A x : IsData(x, m) => x # None
    BY <1>0, DataIs
  <2>2. \A i \in DOMAIN c.list : ~(i > e.index)
    BY <1>1, <1>4
  <2>3. Distinct(e, L, a, m)
    BY <1>0, <1>2, <1>4, <2>1, <2>2 DEF Distinct
  <2>4. Passed(e, L, em)
    BY <1>0, <1>1, <1>2, <1>4 DEF Passed
  <2>5. Single(e, L)
    BY <1>0, <1>2, <1>4 DEF Single
  <2> QED BY <1>0, <2>3, <2>4, <2>5 DEF Own
<1> QED BY <1>2, <1>3, <1>4

LEMMA OwnEmptied ==
  ASSUME NEW c, List(c), NEW L, NEW a, NEW m, NEW em, Own(c, L, a, m, em), NEW e, e = Empty(c)
  PROVE  Own(e, L, a, m, em \/ c.firing)
<1>0. L \in Log /\ a \in Nat /\ m \in Nat /\ Distinct(c, L, a, m) /\ Passed(c, L, em) /\ Single(c, L)
      /\ em \in BOOLEAN
  BY DEF Own
<1>1. /\ c.firing \in BOOLEAN /\ (~c.firing => c.index = 0)
  BY ListIs
<1>2. /\ e.options = c.options /\ e.list = <<>> /\ e.gone = c.gone
      /\ e.memory = c.memory /\ e.queue = c.queue /\ e.index = c.index
      /\ e.locked = c.locked /\ e.firing = c.firing
  BY EmptyIs
<1>3. DOMAIN e.list = {} /\ Len(e.list) = 0
  BY <1>2
<1>4. Distinct(e, L, a, m)
  BY <1>0, <1>2, <1>3 DEF Distinct
<1>5. Passed(e, L, em \/ c.firing)
  BY <1>0, <1>1, <1>2, <1>3 DEF Passed
<1>6. Single(e, L)
  BY <1>0, <1>2 DEF Single
<1>7. (em \/ c.firing) \in BOOLEAN
  BY <1>0, <1>1
<1> QED BY <1>0, <1>4, <1>5, <1>6, <1>7 DEF Own

LEMMA OwnDisabled ==
  ASSUME NEW c, List(c), NEW L, NEW a, NEW m, NEW em, Own(c, L, a, m, em), NEW e, e = Disable(c)
  PROVE  Own(e, L, a, m, em)
<1>0. L \in Log /\ a \in Nat /\ m \in Nat /\ Distinct(c, L, a, m) /\ Passed(c, L, em) /\ Single(c, L)
  BY DEF Own
<1>2. /\ e.options = c.options /\ e.list = <<>> /\ e.gone
      /\ e.memory = None /\ e.queue = <<>> /\ e.locked /\ e.firing = c.firing
  BY DisableIs
<1>3. DOMAIN e.list = {} /\ DOMAIN e.queue = {}
  BY <1>2
<1>4. Distinct(e, L, a, m)
  BY <1>0, <1>2, <1>3 DEF Distinct
<1>5. Passed(e, L, em)
  BY <1>2 DEF Passed
<1>6. Single(e, L)
  BY <1>0, <1>2 DEF Single
<1> QED BY <1>0, <1>4, <1>5, <1>6 DEF Own

LEMMA OwnLocked ==
  ASSUME NEW c, List(c), NEW L, NEW a, NEW m, NEW em, Own(c, L, a, m, em), NEW e, e = Lock(c)
  PROVE  Own(e, L, a, m, em)
<1>0. L \in Log /\ a \in Nat /\ m \in Nat /\ Distinct(c, L, a, m) /\ Passed(c, L, em) /\ Single(c, L)
  BY DEF Own
<1>1. c.locked \in BOOLEAN
  BY ListIs
<1>2. /\ e.options = c.options /\ e.queue = <<>> /\ e.index = c.index
      /\ e.locked /\ e.firing = c.firing /\ e.memory = c.memory
      /\ \/ e = Disable(c) /\ c.memory = None /\ ~c.firing /\ e.list = <<>> /\ e.gone
         \/ (c.memory # None \/ c.firing) /\ e.list = c.list /\ e.gone = c.gone
  BY LockIs
<1>3. CASE e = Disable(c)
  BY <1>3, OwnDisabled
<1>4. CASE e.list = c.list /\ e.gone = c.gone
  <2>1. DOMAIN e.queue = {}
    BY <1>2
  <2>2. Distinct(e, L, a, m)
    BY <1>0, <1>2, <1>4, <2>1 DEF Distinct
  <2>3. Passed(e, L, em)
    BY <1>0, <1>2, <1>4 DEF Passed
  <2>4. Single(e, L)
    BY <1>0, <1>2, <1>4 DEF Single
  <2> QED BY <1>0, <2>2, <2>3, <2>4 DEF Own
<1> QED BY <1>2, <1>3, <1>4

\* Where the entries that are left have been, and which of them were at b or before.
Kept(s, w, h, t, b) ==
  /\ \A p \in DOMAIN w : h[p] \in DOMAIN s /\ w[p] = s[h[p]]
  /\ \A p, q \in DOMAIN w : h[p] = h[q] => p = q
  /\ \A p \in DOMAIN w : h[p] <= b <=> p <= t

Before(s, f, b, m) == {i \in 1..m : i <= b /\ s[i].f = f}

LEMMA BeforeIs ==
  ASSUME NEW s, NEW f, NEW b \in Nat, NEW m \in Nat
  PROVE  /\ Cardinality(Before(s, f, b, m)) \in Nat
         /\ Cardinality(Before(s, f, b, 0)) = 0
         /\ m + 1 <= b /\ s[m + 1].f = f =>
              Cardinality(Before(s, f, b, m + 1)) = Cardinality(Before(s, f, b, m)) + 1
         /\ ~(m + 1 <= b /\ s[m + 1].f = f) =>
              Cardinality(Before(s, f, b, m + 1)) = Cardinality(Before(s, f, b, m))
<1> DEFINE B == Before(s, f, b, m)
<1>1. IsFiniteSet(B)
  <2>1. B \subseteq 1..m
    BY DEF Before
  <2>2. IsFiniteSet(1..m)
    BY FS_Interval
  <2> HIDE DEF B
  <2> QED BY <2>1, <2>2, FS_Subset
<1>2. Before(s, f, b, 0) = {}
  BY DEF Before
<1>3. Before(s, f, b, m + 1) = IF m + 1 <= b /\ s[m + 1].f = f THEN B \cup {m + 1} ELSE B
  BY DEF Before
<1>4. m + 1 \notin B
  BY DEF Before
<1> HIDE DEF B
<1>5. Cardinality(B) \in Nat /\ Cardinality(B \cup {m + 1}) = Cardinality(B) + 1
  BY <1>1, <1>4, FS_AddElement, FS_CardinalityType
<1> QED BY <1>2, <1>3, <1>5, FS_EmptySet DEF B

LEMMA WithoutKeeps ==
  ASSUME NEW E, NEW s \in Seq(E), NEW f, NEW b \in Nat
  PROVE  LET w == Without(s, f)
             t == b - Cardinality(Before(s, f, b, Len(s)))
         IN /\ w \in Seq(E) /\ \E h : Kept(s, w, h, t, b)
            /\ b <= Len(s) => t <= Len(w)
<1> DEFINE n == Len(s)
           g == CHOOSE r : Rests(r, s, f, n)
           Lim(m) == (IF m <= b THEN m ELSE b) - Cardinality(Before(s, f, b, m))
           Good(m) == /\ g[m] \in Seq(E) /\ Lim(m) <= Len(g[m]) /\ Lim(m) \in Nat
                      /\ m <= b => Lim(m) = Len(g[m])
                      /\ \E h : /\ Kept(s, g[m], h, Lim(m), b)
                                /\ \A p \in DOMAIN g[m] : h[p] \in 1..m
           G == {m \in Nat : m <= n => Good(m)}
<1>0. n \in Nat /\ DOMAIN s = 1..n /\ \A i \in 1..n : s[i] \in E
  OBVIOUS
<1>1. Rests(g, s, f, n)
  <2>1. \E r : Rests(r, s, f, n)
    BY <1>0, RestsExist
  <2> QED BY <2>1
<1>2. Without(s, f) = g[n]
  BY DEF Without, Rests
<1> HIDE DEF g, n
<1>3. \A m \in Nat : Cardinality(Before(s, f, b, m)) \in Nat
  BY BeforeIs
<1>4. 0 \in G
  <2>1. g[0] = <<>>
    BY <1>0, <1>1 DEF Rests
  <2>2. g[0] \in Seq(E) /\ Len(g[0]) = 0 /\ DOMAIN g[0] = {}
    BY <2>1, EmptyIsSeq
  <2>3. Lim(0) = 0
    BY BeforeIs
  <2> HIDE DEF Lim
  <2>4. Kept(s, g[0], <<>>, Lim(0), b)
    BY <2>2 DEF Kept
  <2>5. Good(0)
    BY <2>2, <2>3, <2>4
  <2> QED BY <2>5
<1>5. ASSUME NEW m \in Nat, m \in G PROVE m + 1 \in G
  <2>1. SUFFICES ASSUME m + 1 <= n PROVE Good(m + 1)
    OBVIOUS
  <2> DEFINE k == m + 1
             K == Cardinality(Before(s, f, b, m))
             u == g[m]
             w == g[k]
             hit == s[k].f = f
  <2>2. k \in 0..n /\ k # 0 /\ k - 1 = m /\ k \in DOMAIN s /\ s[k] \in E /\ m <= n /\ k \in Nat
        /\ k \notin 1..m /\ \A i \in 1..m : i \in 1..k
    BY <1>0, <2>1
  <2>3. w = IF hit THEN u ELSE Append(u, s[k])
    BY <1>1, <2>2 DEF Rests
  <2>4. Good(m)
    BY <1>5, <2>2
  <2>5. PICK h : Kept(s, u, h, Lim(m), b) /\ \A p \in DOMAIN u : h[p] \in 1..m
    BY <2>4
  <2>6. /\ u \in Seq(E) /\ Lim(m) <= Len(u) /\ Lim(m) \in Nat
        /\ m <= b => Lim(m) = Len(u)
    BY <2>4
  <2>7. Lim(k) = IF k <= b /\ ~hit THEN Lim(m) + 1 ELSE Lim(m)
    <3>0. /\ m + 1 <= b /\ s[m + 1].f = f =>
               Cardinality(Before(s, f, b, m + 1)) = Cardinality(Before(s, f, b, m)) + 1
          /\ ~(m + 1 <= b /\ s[m + 1].f = f) =>
               Cardinality(Before(s, f, b, m + 1)) = Cardinality(Before(s, f, b, m))
      BY BeforeIs
    <3>1. /\ k <= b /\ hit => Cardinality(Before(s, f, b, k)) = K + 1
          /\ ~(k <= b /\ hit) => Cardinality(Before(s, f, b, k)) = K
          /\ K \in Nat
      BY <1>3, <3>0
    <3> HIDE DEF K
    <3>2. CASE k <= b
      <4>1. m <= b
        BY <3>2
      <4> QED BY <3>1, <3>2, <4>1 DEF K
    <3>3. CASE ~(k <= b)
      <4>1. (IF m <= b THEN m ELSE b) = b
        BY <3>3
      <4> QED BY <3>1, <3>3, <4>1 DEF K
    <3> QED BY <3>2, <3>3
  <2> HIDE DEF Lim, K
  <2>8. /\ Len(u) \in Nat /\ DOMAIN u = 1..Len(u)
    BY <2>6
  <2> HIDE DEF u, w, k, hit
  <2>9. CASE hit
    <3>1. w = u /\ Lim(k) = Lim(m)
      BY <2>3, <2>7, <2>9
    <3>2. k <= b => m <= b
      BY DEF k
    <3>3. \A p \in DOMAIN u : h[p] \in 1..k
      BY <2>2, <2>5
    <3> QED BY <2>5, <2>6, <3>1, <3>2, <3>3 DEF u, w, k
  <2>10. CASE ~hit
    <3> DEFINE r == [p \in 1..(Len(u) + 1) |-> IF p = Len(u) + 1 THEN k ELSE h[p]]
    <3>1. w = Append(u, s[k])
      BY <2>3, <2>10
    <3>2. /\ w \in Seq(E) /\ DOMAIN w = 1..(Len(u) + 1) /\ Len(w) = Len(u) + 1
          /\ \A p \in 1..Len(u) : w[p] = u[p]
          /\ w[Len(u) + 1] = s[k]
      BY <2>2, <2>6, <3>1, AppendIs
    <3>3. \A p \in 1..Len(u) : p # Len(u) + 1 /\ p \in 1..(Len(u) + 1)
      BY <2>8
    <3>4. r[Len(u) + 1] = k /\ \A p \in 1..Len(u) : r[p] = h[p]
      <4>1. Len(u) + 1 \in 1..(Len(u) + 1)
        BY <2>8
      <4> QED BY <3>3, <4>1
    <3> HIDE DEF r
    <3>5. \A p \in DOMAIN w : p \in DOMAIN u \/ p = Len(u) + 1
      BY <2>8, <3>2
    <3>6. \A p \in DOMAIN w : r[p] \in 1..k /\ r[p] \in DOMAIN s /\ w[p] = s[r[p]]
      <4>1. \A p \in DOMAIN u : r[p] = h[p] /\ w[p] = u[p] /\ h[p] \in 1..m
                                /\ h[p] \in DOMAIN s /\ u[p] = s[h[p]]
        BY <2>5, <2>8, <3>2, <3>4 DEF Kept
      <4>2. k \in 1..k
        BY DEF k
      <4> QED BY <2>2, <3>2, <3>4, <3>5, <4>1, <4>2
    <3>7. \A p, q \in DOMAIN w : r[p] = r[q] => p = q
      <4>1. \A p \in DOMAIN u : r[p] = h[p] /\ h[p] \in 1..m /\ h[p] # k
        BY <2>2, <2>5, <2>8, <3>4
      <4> QED BY <2>5, <3>4, <3>5, <4>1 DEF Kept
    <3>8. \A p \in DOMAIN w : r[p] <= b <=> p <= Lim(k)
      <4>1. ASSUME NEW p \in DOMAIN u PROVE r[p] <= b <=> p <= Lim(k)
        <5>1. r[p] = h[p] /\ (h[p] <= b <=> p <= Lim(m)) /\ p <= Len(u) /\ p \in Nat /\ Len(u) \in Nat
          BY <2>5, <2>8, <3>4, <4>1 DEF Kept
        <5>2. CASE k <= b
          <6>1. Lim(m) = Len(u)
            BY <2>6, <5>2 DEF k
          <6> QED BY <2>7, <2>10, <5>1, <5>2, <6>1
        <5>3. CASE ~(k <= b)
          BY <2>7, <5>1, <5>3
        <5> QED BY <5>2, <5>3
      <4>2. k <= b <=> Len(u) + 1 <= Lim(k)
        <5>1. CASE k <= b
          <6>1. Lim(m) = Len(u)
            BY <2>6, <5>1 DEF k
          <6> QED BY <2>7, <2>8, <2>10, <5>1, <6>1
        <5>2. CASE ~(k <= b)
          BY <2>6, <2>7, <2>8, <5>2
        <5> QED BY <5>1, <5>2
      <4> QED BY <3>4, <3>5, <4>1, <4>2
    <3>9. Lim(k) \in Nat /\ Lim(k) <= Len(w) /\ (k <= b => Lim(k) = Len(w))
      <4>1. CASE k <= b
        <5>1. Lim(m) = Len(u)
          BY <2>6, <4>1 DEF k
        <5> QED BY <2>7, <2>8, <2>10, <3>2, <4>1, <5>1
      <4>2. CASE ~(k <= b)
        BY <2>6, <2>7, <2>8, <3>2, <4>2
      <4> QED BY <4>1, <4>2
    <3>10. Kept(s, w, r, Lim(k), b)
      BY <3>6, <3>7, <3>8 DEF Kept
    <3> QED BY <3>2, <3>6, <3>9, <3>10 DEF w, k
  <2> QED BY <2>9, <2>10
<1> HIDE DEF G
<1>6. n \in G
  BY <1>0, <1>4, <1>5, Induct
<1>7. Good(n)
  BY <1>0, <1>6 DEF G
<1> DEFINE C == Cardinality(Before(s, f, b, n))
           w == g[n]
<1>8. PICK h : Kept(s, w, h, Lim(n), b) /\ \A p \in DOMAIN w : h[p] \in 1..n
  BY <1>7
<1>9. w \in Seq(E) /\ Lim(n) <= Len(w) /\ Lim(n) \in Nat /\ (n <= b => Lim(n) = Len(w))
      /\ DOMAIN w = 1..Len(w) /\ Len(w) \in Nat
  BY <1>7
<1>10. Lim(n) = (IF n <= b THEN n ELSE b) - C /\ C \in Nat
  BY <1>0, <1>3
<1> HIDE DEF C, Lim, w
<1>11. Kept(s, w, h, b - C, b)
  <2>1. CASE b <= n
    <3>1. Lim(n) = b - C
      BY <1>0, <1>10, <2>1
    <3> QED BY <1>8, <3>1
  <2>2. CASE ~(b <= n)
    <3>1. Len(w) = n - C /\ n <= b
      BY <1>0, <1>9, <1>10, <2>2
    <3>2. \A p \in DOMAIN w : p <= b - C /\ h[p] <= b
      BY <1>0, <1>8, <1>9, <1>10, <3>1
    <3> QED BY <1>8, <3>2 DEF Kept
  <2> QED BY <2>1, <2>2
<1>12. b <= n => b - C <= Len(w)
  BY <1>0, <1>9, <1>10
<1> QED BY <1>2, <1>9, <1>11, <1>12 DEF C, w, n

LEMMA OwnRemoved ==
  ASSUME NEW c, List(c), NEW L, NEW a, NEW m, NEW em, Own(c, L, a, m, em), NEW fn,
         NEW e, e = Remove(c, fn)
  PROVE  Own(e, L, a, m, em)
<1> DEFINE s == c.list
           b == c.index
           w == Without(s, fn.f)
           t == b - Cardinality(Before(s, fn.f, b, Len(s)))
<1>0. L \in Log /\ a \in Nat /\ m \in Nat /\ Distinct(c, L, a, m) /\ Passed(c, L, em) /\ Single(c, L)
  BY DEF Own
<1>1. /\ s \in Seq(Entries) /\ Len(s) \in Nat /\ DOMAIN s = 1..Len(s) /\ b \in Nat
      /\ c \in Listing /\ c.firing \in BOOLEAN
  BY ListIs DEF List, ListOf, Listing
<1>2. w \in Seq(Entries) /\ (\E h : Kept(s, w, h, t, b)) /\ (b <= Len(s) => t <= Len(w))
  BY <1>1, WithoutKeeps
<1>3. e = [c EXCEPT !.list = w, !.index = t]
  BY <1>1 DEF Remove, Before
<1>4. PICK h : Kept(s, w, h, t, b)
  BY <1>2
<1> HIDE DEF w, t
<1>5. /\ e.list = w /\ e.index = t /\ e.options = c.options /\ e.gone = c.gone
      /\ e.queue = c.queue /\ e.memory = c.memory /\ e.locked = c.locked /\ e.firing = c.firing
  BY <1>1, <1>3 DEF Listing, ListingOf
<1>6. \A p \in DOMAIN w : h[p] \in DOMAIN s /\ w[p] = s[h[p]] /\ (h[p] <= b <=> p <= t)
  BY <1>4 DEF Kept
<1>7. \A p, q \in DOMAIN w : h[p] = h[q] => p = q
  BY <1>4 DEF Kept
<1>8. Distinct(e, L, a, m)
  <2>1. \A p \in DOMAIN w : w[p].n \in 1..a
    BY <1>0, <1>6 DEF Distinct
  <2>2. \A p, q \in DOMAIN w : w[p].n = w[q].n => p = q
    BY <1>0, <1>6, <1>7 DEF Distinct
  <2>3. ASSUME c.firing, NEW p \in DOMAIN w, p > t, NEW j \in DOMAIN L
        PROVE  L[j] # <<w[p].n, c.memory>>
    <3>1. h[p] \in DOMAIN s /\ h[p] > b
      <4>1. h[p] \in Nat /\ b \in Nat /\ p \in Nat /\ h[p] \in DOMAIN s
        BY <1>1, <1>2, <1>6, <2>3
      <4>2. t \in Int
        <5>1. Cardinality(Before(s, fn.f, b, Len(s))) \in Nat
          BY <1>1, BeforeIs
        <5> QED BY <1>1, <5>1 DEF t
      <4> QED BY <1>6, <2>3, <4>1, <4>2
    <3> QED BY <1>0, <1>6, <2>3, <3>1 DEF Distinct
  <2> QED BY <1>0, <1>5, <2>1, <2>2, <2>3 DEF Distinct
<1>9. Passed(e, L, em)
  <2>1. ASSUME ~em, c.memory # None, NEW p \in DOMAIN w, c.firing => p <= t
        PROVE  \E j \in DOMAIN L : L[j] = <<w[p].n, c.memory>>
    <3>1. h[p] \in DOMAIN s /\ (c.firing => h[p] <= b)
      BY <1>6, <2>1
    <3> QED BY <1>0, <1>6, <2>1, <3>1 DEF Passed
  <2> QED BY <1>0, <1>2, <1>5, <2>1 DEF Passed
<1>10. Single(e, L)
  BY <1>0, <1>5 DEF Single
<1> QED BY <1>0, <1>8, <1>9, <1>10 DEF Own

-----------------------------------------------------------------------------
(* What a step does to the lists and the logs *)

\* Adds of the page's functions are left in this frame.
Urgent(f) == f.at = "adds" /\ \E p \in DOMAIN f.todo : f.todo[p][2].do = "user"

\* Such frames in F are from below the innermost call.
Below(F) ==
  /\ \E T : F \in Seq(T)
  /\ \A i \in DOMAIN F : Urgent(F[i]) => \E j \in 1..(Len(stack) - 1) : F[i] = stack[j]

SameLog == /\ seen'.log = seen.log /\ seen'.adds = seen.adds
           /\ seen'.told = seen.told /\ seen'.emptied = seen.emptied

\* Lists are left alone, or one list of a deferred is fired, or waits for when.
OneList ==
  \/ callbacks' = callbacks
  \/ \E l \in Deferred \X Kind :
       \/ \E v : callbacks' = [callbacks EXCEPT ![l] = FireWith(callbacks[l], v)]
       \/ \E e \in Entries : /\ e.do = "update"
                             /\ callbacks' = [callbacks EXCEPT ![l] = Add(callbacks[l], e)]

\* A step that is not about functions of the page in lists.
Aside == SameLog /\ Below(stack') /\ OneList /\ (stack = <<>> \/ Top.at \notin {"loop", "adds"})

LEMMA BelowIs ==
  ASSUME ListInv
  PROVE  /\ Below(<<>>)
         /\ stack # <<>> => Below(Callers)
         /\ \A n \in Nat : n < Len(stack) => Below(SubSeq(stack, 1, n))
         /\ stack # <<>> /\ Top.at # "adds" => Below(stack)
         /\ stack # <<>> => Len(stack) - 1 \in Nat
<1>1. Frames(Mine(page), joined, stack)
  BY DEF ListInv, Arranged
<1>2. PICK T : stack \in Seq(T)
  BY <1>1 DEF Frames
<1>3. Len(stack) \in Nat /\ DOMAIN stack = 1..Len(stack) /\ (stack # <<>> => Len(stack) \in 1..Len(stack))
  BY <1>1, FramesAre
<1>4. Below(<<>>)
  <2> DEFINE s == <<>>
  <2>1. s \in Seq({}) /\ DOMAIN s = {}
    OBVIOUS
  <2> HIDE DEF s
  <2>2. Below(s)
    BY <2>1 DEF Below
  <2> QED BY <2>2 DEF s
<1>5. ASSUME NEW n \in Nat, n < Len(stack) PROVE Below(SubSeq(stack, 1, n))
  <2> DEFINE L == SubSeq(stack, 1, n)
  <2>1. Frames(Mine(page), joined, L) /\ Len(L) = n /\ \A i \in 1..n : L[i] = stack[i]
    BY <1>1, <1>3, <1>5, FrameCut
  <2> HIDE DEF L
  <2>2. DOMAIN L = 1..n /\ (\E U : L \in Seq(U))
    BY <2>1, FramesAre DEF Frames
  <2>3. \A i \in 1..n : i \in 1..(Len(stack) - 1)
    BY <1>3, <1>5
  <2>4. Below(L)
    BY <2>1, <2>2, <2>3 DEF Below
  <2> QED BY <2>4 DEF L
<1>6. stack # <<>> => Len(stack) - 1 \in Nat /\ Len(stack) - 1 < Len(stack)
  BY <1>3
<1>7. stack # <<>> => Below(Callers)
  BY <1>5, <1>6 DEF Callers
<1>8. ASSUME stack # <<>>, Top.at # "adds" PROVE Below(stack)
  <2>1. \A i \in DOMAIN stack : i = Len(stack) \/ i \in 1..(Len(stack) - 1)
    BY <1>3
  <2>2. ~Urgent(stack[Len(stack)])
    BY <1>8 DEF Top, Urgent
  <2> QED BY <1>2, <2>1, <2>2 DEF Below
<1> QED BY <1>4, <1>5, <1>6, <1>7, <1>8

LEMMA BelowPushed ==
  ASSUME NEW F, Below(F), NEW f, ~Urgent(f)
  PROVE  Below(Append(F, f)) /\ F \o <<>> = F /\ F \o <<f>> = Append(F, f)
<1>1. PICK T : F \in Seq(T)
  BY DEF Below
<1> DEFINE U == T \cup {f}
           L == Append(F, f)
<1>2. F \in Seq(U) /\ f \in U
  BY <1>1
<1> HIDE DEF U
<1>3. /\ L \in Seq(U) /\ Len(F) \in Nat /\ DOMAIN F = 1..Len(F) /\ DOMAIN L = 1..(Len(F) + 1)
      /\ \A i \in 1..Len(F) : L[i] = F[i]
      /\ L[Len(F) + 1] = f
  BY <1>2, AppendIs
<1>4. F \o <<>> = F /\ F \o <<f>> = Append(F, f)
  BY <1>2
<1> HIDE DEF L
<1>5. \A i \in DOMAIN L : (i \in DOMAIN F /\ L[i] = F[i]) \/ L[i] = f
  BY <1>3
<1>6. Below(L)
  BY <1>3, <1>5 DEF Below
<1> QED BY <1>4, <1>6 DEF L

LEMMA NotUrgent ==
  /\ ~Urgent(Code) /\ \A l : ~Urgent(Loop(l)) /\ \A fn, v : ~Urgent(Process(fn, v))
  /\ \A d, k : ~Urgent(Pipe(d, k)) /\ \A i, s : ~Urgent(When(i, s))
BY DEF Urgent, Code, Loop, Process, Pipe, When

\* A frame of process goes on as one.
LEMMA ProcessNotUrgent ==
  ASSUME NEW M, NEW p \in Processes(M)
  PROVE  /\ \A s : ~Urgent([p EXCEPT !.step = s])
         /\ \A s, v : ~Urgent([p EXCEPT !.step = s, !.v = v])
         /\ \A s, v : ~Urgent([[p EXCEPT !.step = s] EXCEPT !.v = v])
BY DEF Processes, Urgent

LEMMA BelowFired ==
  ASSUME NEW F, Below(F), NEW l, NEW v, NEW C, Fire(l, v, C, F)
  PROVE  Below(stack') /\ callbacks' = [C EXCEPT ![l] = FireWith(C[l], v)]
<1>1. stack' = F \o <<Loop(l)>> \/ stack' = F \o <<>>
  BY DEF Fire
<1>2. Below(F \o <<Loop(l)>>) /\ Below(F \o <<>>)
  <2>1. ~Urgent(Loop(l))
    BY NotUrgent
  <2> QED BY <2>1, BelowPushed
<1>3. callbacks' = [C EXCEPT ![l] = FireWith(C[l], v)]
  BY DEF Fire
<1> QED BY <1>1, <1>2, <1>3

LEMMA BelowApplied ==
  ASSUME NEW F, Below(F), NEW l, NEW c, Apply(l, c, F)
  PROVE  Below(stack') /\ callbacks' = [callbacks EXCEPT ![l] = c]
<1>1. stack' = F \o <<Loop(l)>> \/ stack' = F \o <<>>
  BY DEF Apply, Start
<1>2. Below(F \o <<Loop(l)>>) /\ Below(F \o <<>>)
  <2>1. ~Urgent(Loop(l))
    BY NotUrgent
  <2> QED BY <2>1, BelowPushed
<1> QED BY <1>1, <1>2 DEF Apply

LEMMA OneFired ==
  ASSUME NEW l \in Deferred \X Kind, NEW v,
         callbacks' = [callbacks EXCEPT ![l] = FireWith(callbacks[l], v)]
  PROVE  OneList
BY DEF OneList

\* The history of a step that changes nothing the lists are about.
LEMMA LogsKept ==
  ASSUME DOMAIN seen = SeenField,
         \/ seen' = seen
         \/ \E d, x : seen' = [seen EXCEPT !.follow[d] = x]
         \/ \E d, x : seen' = [seen EXCEPT !.thens[d] = x]
         \/ \E d, x, e, y : seen' = [seen EXCEPT !.thens[d] = x, !.thens[e] = y]
         \/ \E d, x : seen' = [seen EXCEPT !.ran[d] = x]
         \/ \E d, x, e, y : seen' = [[seen EXCEPT !.follow[d] = x] EXCEPT !.thens[e] = y]
  PROVE  SameLog
BY DEF SameLog, SeenField

LEMMA BelowThrown ==
  ASSUME ListInv, NEW e, Throw(e)
  PROVE  Below(stack') /\ SameLog
<1>0. Frames(Mine(page), joined, stack) /\ DOMAIN seen = SeenField
  BY DEF ListInv, Arranged, Typed, SeenIs
<1>1. CASE Catchers = {}
  <2>1. stack' = <<>> /\ seen' = seen
    BY <1>1 DEF Throw
  <2>2. Below(<<>>)
    BY BelowIs
  <2> QED BY <1>0, <2>1, <2>2, LogsKept
<1>2. CASE Catchers # {}
  <2> DEFINE p == stack[Catcher]
             f == [p EXCEPT !.step = "threw", !.v = e]
             n == Catcher - 1
  <2>1. p \in Processes(Mine(page)) /\ Catcher \in 1..Len(stack) /\ Len(stack) \in Nat
    BY <1>0, <1>2, CatcherIs, FramesAre
  <2>2. stack' = Append(SubSeq(stack, 1, n), f)
    BY <1>2, Zenon DEF Throw
  <2>3. \/ seen' = seen
        \/ \E d, x : seen' = [seen EXCEPT !.follow[d] = x]
    BY <1>2, Zenon DEF Throw
  <2>4. n \in Nat /\ n < Len(stack)
    BY <2>1
  <2>5. ~Urgent(f)
    BY <2>1, ProcessNotUrgent
  <2> HIDE DEF f, n
  <2>6. Below(SubSeq(stack, 1, n))
    BY <2>4, BelowIs
  <2> QED BY <1>0, <2>2, <2>3, <2>5, <2>6, BelowPushed, LogsKept
<1> QED BY <1>1, <1>2

\* Frames that listen to two or three lists for others than the page.
LEMMA OthersAdds ==
  ASSUME NEW a, NEW b, NEW e, e.do # "user", NEW g, g.do # "user"
  PROVE  ~Urgent(Adds(<<<<a, e>>, <<b, g>>>>))
<1> DEFINE s == <<<<a, e>>, <<b, g>>>>
<1>1. \A p \in DOMAIN s : s[p][2] = e \/ s[p][2] = g
  OBVIOUS
<1> HIDE DEF s
<1>2. ~Urgent(Adds(s))
  BY <1>1 DEF Urgent, Adds
<1> QED BY <1>2 DEF s

LEMMA OthersThree ==
  ASSUME NEW a, NEW b, NEW c, NEW e, e.do # "user", NEW g, g.do # "user", NEW h, h.do # "user"
  PROVE  ~Urgent(Adds(<<<<a, e>>, <<b, g>>, <<c, h>>>>))
<1> DEFINE s == <<<<a, e>>, <<b, g>>, <<c, h>>>>
<1>1. \A p \in DOMAIN s : s[p][2] = e \/ s[p][2] = g \/ s[p][2] = h
  OBVIOUS
<1> HIDE DEF s
<1>2. ~Urgent(Adds(s))
  BY <1>1 DEF Urgent, Adds
<1> QED BY <1>2 DEF s

LEMMA EntryDoes == \A do, d, k : Entry(do, d, k).do = do
BY DEF Entry

\* A function of the page is running, or a process.
LEMMA CodeBelow ==
  ASSUME ListInv, Running("code")
  PROVE  /\ stack # <<>> /\ Top.at = "code" /\ Top.at \notin {"loop", "adds"}
         /\ Below(stack) /\ Below(Callers) /\ DOMAIN seen = SeenField
<1>1. stack # <<>> /\ Top.at = "code"
  BY RunsWhat
<1> QED BY <1>1, BelowIs, SeenHas

LEMMA ProcessBelow ==
  ASSUME ListInv, NEW s, At(s)
  PROVE  /\ stack # <<>> /\ Top.at \notin {"loop", "adds"}
         /\ Below(Callers) /\ DOMAIN seen = SeenField
         /\ \A t : ~Urgent(Goes(t)) /\ \A v : ~Urgent([Goes(t) EXCEPT !.v = v])
         /\ \A t : Below(Become(Goes(t)))
<1>1. stack # <<>> /\ Top.at = "process"
  BY RunsWhat DEF At
<1>2. Top \in Processes(Mine(page))
  BY RunsProcess
<1>3. \A t : ~Urgent(Goes(t)) /\ \A v : ~Urgent([Goes(t) EXCEPT !.v = v])
  BY <1>2, ProcessNotUrgent DEF Goes
<1>4. Below(Callers)
  BY <1>1, BelowIs
<1>5. \A t : Below(Become(Goes(t)))
  BY <1>3, <1>4, BelowPushed DEF Become
<1> QED BY <1>1, <1>3, <1>4, <1>5, SeenHas

LEMMA CallThenAside == ASSUME ListInv, CallThen PROVE Aside
<1>1. Running("code") /\ UNCHANGED <<callbacks, stack>>
      /\ \E e, x : seen' = [seen EXCEPT !.thens[e] = x]
  BY DEF CallThen, May
<1>2. SameLog
  BY <1>1, CodeBelow, LogsKept
<1> QED BY <1>1, <1>2, CodeBelow DEF Aside, OneList

LEMMA CallPipeAside == ASSUME ListInv, CallPipe PROVE Aside
<1>1. Running("code") /\ UNCHANGED <<callbacks, seen>>
  BY DEF CallPipe, May
<1>2. PICK e \in Born, fns \in (SUBSET {"resolve", "reject"}) \ {{}} :
         LET To(k) == <<<<e, k>>, Entry(IF k \in fns THEN "pipe" ELSE "settle",
                                        Fresh, k)>>
         IN stack' = Append(stack,
                       Adds(<<To("notify"), To("resolve"), To("reject")>>))
  BY DEF CallPipe
<1> DEFINE x(k) == Entry(IF k \in fns THEN "pipe" ELSE "settle", Fresh, k)
           a == x("notify")
           b == x("resolve")
           c == x("reject")
           i == <<e, "notify">>
           j == <<e, "resolve">>
           k == <<e, "reject">>
<1>3. stack' = Append(stack, Adds(<<<<i, a>>, <<j, b>>, <<k, c>>>>))
  BY <1>2
<1>4. a.do # "user" /\ b.do # "user" /\ c.do # "user"
  BY EntryDoes
<1> HIDE DEF a, b, c, i, j, k
<1>5. ~Urgent(Adds(<<<<i, a>>, <<j, b>>, <<k, c>>>>))
  BY <1>4, OthersThree
<1>6. Below(stack')
  BY <1>1, <1>3, <1>5, CodeBelow, BelowPushed
<1>7. SameLog
  BY <1>1, CodeBelow, LogsKept
<1> QED BY <1>1, <1>6, <1>7, CodeBelow DEF Aside, OneList

LEMMA CallHeldAside == ASSUME ListInv, CallHeld PROVE Aside
<1>1. Running("code") /\ callbacks' = callbacks
      /\ (seen' = seen \/ \E d, x : seen' = [seen EXCEPT !.follow[d] = x])
      /\ \E fn, v : stack' = Append(stack, Process(fn, v))
  BY DEF CallHeld, May
<1>2. PICK fn, v : stack' = Append(stack, Process(fn, v))
  BY <1>1
<1>3. Below(stack')
  <2>1. ~Urgent(Process(fn, v))
    BY NotUrgent
  <2> QED BY <1>1, <1>2, <2>1, CodeBelow, BelowPushed
<1>4. SameLog
  BY <1>1, CodeBelow, LogsKept
<1> QED BY <1>1, <1>3, <1>4, CodeBelow DEF Aside, OneList

LEMMA CallWhenAside == ASSUME ListInv, CallWhen PROVE Aside
<1>1. Running("code") /\ Unborn # {} /\ seen' = seen
  BY DEF CallWhen, May
<1>2. PICK n \in 0..2 :
         /\ \E i, s : stack' = Append(stack, When(i, s))
         /\ LET l == <<Fresh, "resolve">>
                update == [Entry("update", Fresh, "resolve") EXCEPT !.n = n]
            IN callbacks' = IF n <= 1
                            THEN [callbacks EXCEPT ![l] = Add(@, update)]
                            ELSE callbacks
  BY DEF CallWhen
<1>3. Below(stack')
  BY <1>1, <1>2, CodeBelow, BelowPushed, NotUrgent
<1>4. SameLog
  BY <1>1, CodeBelow, LogsKept
<1>5. OneList
  <2> DEFINE l == <<Fresh, "resolve">>
             e == [Entry("update", Fresh, "resolve") EXCEPT !.n = n]
  <2>1. Fresh \in Deferred
    BY <1>1, FreshIs
  <2>2. l \in Deferred \X Kind
    BY <2>1 DEF Kind
  <2>3. e \in Entries /\ e.do = "update"
    BY <2>1 DEF Entry, Entries, Doing, Kind, Nobody
  <2>4. callbacks' = callbacks \/ callbacks' = [callbacks EXCEPT ![l] = Add(callbacks[l], e)]
    BY <1>2
  <2> HIDE DEF l, e
  <2> QED BY <2>2, <2>3, <2>4 DEF OneList
<1> QED BY <1>1, <1>3, <1>4, <1>5, CodeBelow DEF Aside

LEMMA CallReadyAside == ASSUME ListInv, CallReady PROVE Aside
<1>1. Running("code") /\ UNCHANGED <<callbacks, stack>>
      /\ \E d, x, e, y : seen' = [seen EXCEPT !.thens[d] = x, !.thens[e] = y]
  BY DEF CallReady, May
<1>2. SameLog
  BY <1>1, CodeBelow, LogsKept
<1> QED BY <1>1, <1>2, CodeBelow DEF Aside, OneList

LEMMA ThrowErrorAside == ASSUME ListInv, ThrowError PROVE Aside
<1>1. Running("code") /\ callbacks' = callbacks /\ Throw(Error(calls'))
  BY DEF ThrowError, May
<1> QED BY <1>1, CodeBelow, BelowThrown DEF Aside, OneList

LEMMA ResolveReadyAside ==
  ASSUME ListInv, page.has = "ready", NEW F, Below(F), ResolveReady(F)
  PROVE  Below(stack') /\ OneList
<1> DEFINE l == <<1, "resolve">>
<1>1. l \in Deferred \X Kind
  BY DEF ListInv, Typed, Kind
<1>2. Apply(l, FireWith(callbacks[l], Undefined), F)
  BY DEF ResolveReady
<1> HIDE DEF l
<1> QED BY <1>1, <1>2, BelowApplied, OneFired

LEMMA CallHoldAside == ASSUME ListInv, CallHold PROVE Aside
<1>1. Running("code") /\ page.has = "ready" /\ seen' = seen
      /\ (UNCHANGED <<callbacks, stack>> \/ ResolveReady(stack))
  BY DEF CallHold, May
<1>2. SameLog
  BY <1>1, CodeBelow, LogsKept
<1> QED BY <1>1, <1>2, CodeBelow, ResolveReadyAside DEF Aside, OneList

LEMMA PoppedAside ==
  ASSUME ListInv, IgnoreStale \/ GotNothing \/ EndProcess
  PROVE  Aside
<1>1. (\E s : At(s)) /\ stack' = Callers /\ UNCHANGED <<callbacks, seen>>
  BY DEF IgnoreStale, GotNothing, EndProcess
<1>2. SameLog
  BY <1>1, ProcessBelow, LogsKept
<1> QED BY <1>1, <1>2, ProcessBelow DEF Aside, OneList

LEMMA CallHandlerAside == ASSUME ListInv, CallHandler PROVE Aside
<1>1. At("call") /\ callbacks' = callbacks
      /\ \/ stack' = Become(Goes("got")) /\ seen' = seen
         \/ Throw(Top.v)
         \/ stack' = Append(Become(Goes("wait")), Code) /\ seen' = seen
         \/ /\ stack' = Append(Become([Goes("got") EXCEPT !.v = Undefined]),
                               Process(Top.fn.h.fn, Top.v))
            /\ seen' = seen
  BY DEF CallHandler
<1>2. Below(Become([Goes("got") EXCEPT !.v = Undefined]))
  BY <1>1, ProcessBelow, BelowPushed DEF Become
<1>3. Below(stack') /\ SameLog
  <2>1. CASE stack' = Become(Goes("got")) /\ seen' = seen
    BY <1>1, <2>1, ProcessBelow, LogsKept
  <2>2. CASE Throw(Top.v)
    BY <2>2, BelowThrown
  <2>3. CASE stack' = Append(Become(Goes("wait")), Code) /\ seen' = seen
    BY <1>1, <2>3, ProcessBelow, LogsKept, BelowPushed, NotUrgent
  <2>4. CASE /\ stack' = Append(Become([Goes("got") EXCEPT !.v = Undefined]),
                                Process(Top.fn.h.fn, Top.v))
             /\ seen' = seen
    BY <1>1, <1>2, <2>4, ProcessBelow, LogsKept, BelowPushed, NotUrgent
  <2> QED BY <1>1, <2>1, <2>2, <2>3, <2>4
<1> QED BY <1>1, <1>3, ProcessBelow DEF Aside, OneList

LEMMA GotItselfAside == ASSUME ListInv, GotItself PROVE Aside
<1>1. At("got") /\ callbacks' = callbacks /\ Throw(TypeError)
  BY DEF GotItself
<1> QED BY <1>1, ProcessBelow, BelowThrown DEF Aside, OneList

LEMMA GotPromiseAside == ASSUME ListInv, GotPromise PROVE Aside
<1>1. At("got") /\ callbacks' = callbacks /\ stack' = Become(Goes("done"))
      /\ seen' = [Learn(Top.fn, Top.v) EXCEPT !.thens[Top.v.n] = Append(@, Nobody)]
  BY DEF GotPromise
<1>2. \/ \E d, x : seen' = [seen EXCEPT !.thens[d] = x]
      \/ \E d, x, e, y : seen' = [[seen EXCEPT !.follow[d] = x] EXCEPT !.thens[e] = y]
  BY <1>1 DEF Learn
<1>3. SameLog
  BY <1>1, <1>2, ProcessBelow, LogsKept
<1> QED BY <1>1, <1>3, ProcessBelow DEF Aside, OneList

LEMMA GotThenableAside == ASSUME ListInv, GotThenable PROVE Aside
<1>1. At("got") /\ callbacks' = callbacks /\ stack' = Append(Become(Goes("done")), Code)
      /\ seen' = Learn(Top.fn, Top.v)
  BY DEF GotThenable
<1>2. seen' = seen \/ \E d, x : seen' = [seen EXCEPT !.follow[d] = x]
  BY <1>1 DEF Learn
<1>3. SameLog
  BY <1>1, <1>2, ProcessBelow, LogsKept
<1>4. Below(stack')
  BY <1>1, ProcessBelow, BelowPushed, NotUrgent
<1> QED BY <1>1, <1>3, <1>4, ProcessBelow DEF Aside, OneList

LEMMA GotValueAside == ASSUME ListInv, GotValue PROVE Aside
<1> DEFINE l == <<Top.fn.d, IF Top.fn.special THEN "notify" ELSE "resolve">>
           F == Become(Goes("done"))
<1>1. At("got") /\ Top.fn.d # Nobody /\ Fire(l, Top.v, callbacks, F)
      /\ seen' = Learn(Top.fn, Top.v)
  BY DEF GotValue
<1>2. seen' = seen \/ \E d, x : seen' = [seen EXCEPT !.follow[d] = x]
  BY <1>1 DEF Learn
<1>3. SameLog
  BY <1>1, <1>2, ProcessBelow, LogsKept
<1>4. l \in Deferred \X Kind
  <2>1. Top.fn.d \in Deferred
    BY <1>1, RunsProcess, ResolversAre
  <2> QED BY <2>1 DEF Kind
<1>5. Below(F)
  BY <1>1, ProcessBelow
<1> HIDE DEF l, F
<1> QED BY <1>1, <1>3, <1>4, <1>5, ProcessBelow, BelowFired, OneFired DEF Aside

LEMMA CatchAside == ASSUME ListInv, Catch PROVE Aside
<1> DEFINE l == <<Top.fn.d, "reject">>
           F == Become(Goes("caught"))
<1>1. At("threw") /\ seen' = seen
      /\ \/ Top.fn.d # Nobody /\ Fire(l, Top.v, callbacks, F)
         \/ callbacks' = callbacks /\ stack' = Callers
  BY DEF Catch
<1>3. SameLog
  BY <1>1, ProcessBelow, LogsKept
<1>4. Top.fn.d # Nobody => l \in Deferred \X Kind
  <2>1. Top.fn.d # Nobody => Top.fn.d \in Deferred
    BY <1>1, RunsProcess, ResolversAre
  <2> QED BY <2>1 DEF Kind
<1>5. Below(F) /\ Below(Callers)
  BY <1>1, ProcessBelow
<1> HIDE DEF l, F
<1>6. CASE Top.fn.d # Nobody /\ Fire(l, Top.v, callbacks, F)
  BY <1>1, <1>3, <1>4, <1>5, <1>6, ProcessBelow, BelowFired, OneFired DEF Aside
<1>7. CASE callbacks' = callbacks /\ stack' = Callers
  BY <1>1, <1>3, <1>5, <1>7, ProcessBelow DEF Aside, OneList
<1> QED BY <1>1, <1>6, <1>7

\* resolve and its like, and what updateFunc has returned.
LEMMA BelowInvoked ==
  ASSUME NEW e \in Entries, Late(Mine(page), joined, e), e.do \in {"settle", "update"},
         joined.master \in Deferred, NEW v, NEW q, NEW C, NEW F, Below(F),
         Invoke(e, v, q, C, F)
  PROVE  /\ Below(stack') /\ seen' = seen
         /\ \/ callbacks' = C
            \/ \E l \in Deferred \X Kind : \E x : callbacks' = [C EXCEPT ![l] = FireWith(C[l], x)]
<1>1. InvokeSettle(e, v, C, F) \/ InvokeUpdate(e, v, C, F)
  BY DEF Invoke, InvokeState, InvokeDisable, InvokeLock, InvokeHandlers, InvokeScript,
         InvokePipe
<1>2. CASE InvokeSettle(e, v, C, F)
  <2> DEFINE l == <<e.d, e.k>>
  <2>1. l \in Deferred \X Kind
    BY <1>2, MineIs DEF InvokeSettle, Late, Entries
  <2>2. Fire(l, v, C, F) /\ seen' = seen
    BY <1>2 DEF InvokeSettle
  <2> HIDE DEF l
  <2> QED BY <2>1, <2>2, BelowFired
<1>3. CASE InvokeUpdate(e, v, C, F)
  <2> DEFINE l == <<joined.master, "resolve">>
  <2>1. l \in Deferred \X Kind
    BY DEF Kind
  <2>2. seen' = seen /\ (Fire(l, Values, C, F) \/ (callbacks' = C /\ stack' = F))
    BY <1>3 DEF InvokeUpdate
  <2> HIDE DEF l
  <2> QED BY <2>1, <2>2, BelowFired
<1> QED BY <1>1, <1>2, <1>3

LEMMA AdoptAside ==
  ASSUME DOMAIN seen = SeenField, NEW v, joined.master \in Deferred,
         NEW e \in Entries, Late(Mine(page), joined, e), e.do \in {"settle", "update"},
         NEW F, Below(F), Adopt(v, e, RejectMaster, F)
  PROVE  Below(stack') /\ OneList /\ SameLog
<1>1. CASE v.is = "promise"
  <2> DEFINE x == <<v.n, "resolve">>
             y == <<v.n, "reject">>
             g == RejectMaster
  <2>1. stack' = Append(F, Adds(<<<<x, e>>, <<y, g>>>>)) /\ UNCHANGED <<callbacks, seen>>
    BY <1>1 DEF Adopt
  <2>2. g.do # "user"
    BY EntryDoes DEF RejectMaster
  <2> HIDE DEF x, y, g
  <2>3. ~Urgent(Adds(<<<<x, e>>, <<y, g>>>>))
    BY <2>2, OthersAdds
  <2>4. Below(stack')
    BY <2>1, <2>3, BelowPushed
  <2> QED BY <2>1, <2>4, LogsKept DEF OneList
<1>2. CASE v.is # "promise"
  <2>1. Invoke(e, v, UserList, callbacks, F)
    BY <1>2 DEF Adopt
  <2>2. /\ Below(stack') /\ seen' = seen
        /\ \/ callbacks' = callbacks
           \/ \E l \in Deferred \X Kind :
                \E x : callbacks' = [callbacks EXCEPT ![l] = FireWith(callbacks[l], x)]
    BY <2>1, BelowInvoked
  <2> QED BY <2>2, LogsKept DEF OneList
<1> QED BY <1>1, <1>2

LEMMA WhenBelow ==
  ASSUME ListInv, Running("when")
  PROVE  /\ stack # <<>> /\ Top.at \notin {"loop", "adds"}
         /\ Below(Callers) /\ DOMAIN seen = SeenField
         /\ \A i, s : Below(Become(When(i, s)))
<1>1. stack # <<>> /\ Top.at = "when"
  BY RunsWhat
<1>2. Below(Callers)
  BY <1>1, BelowIs
<1>3. ASSUME NEW i, NEW s PROVE Below(Become(When(i, s)))
  <2>1. ~Urgent(When(i, s))
    BY NotUrgent
  <2> QED BY <1>2, <2>1, BelowPushed DEF Become
<1> QED BY <1>1, <1>2, <1>3, SeenHas

LEMMA WhenSingleAside == ASSUME ListInv, WhenSingle PROVE Aside
<1> DEFINE e == Entry("settle", joined.master, "resolve")
           v == joined.values[0]
           F == Become(When(Top.i, "decide"))
<1>1. Running("when") /\ Adopt(v, e, RejectMaster, F)
  BY DEF WhenSingle
<1>2. joined.master \in Mine(page) /\ joined.master \in Deferred
  BY <1>1, RunsWhen
<1>3. e \in Entries /\ Late(Mine(page), joined, e) /\ e.do = "settle"
  BY <1>2, MasterIs, EntryDoes
<1>4. Below(F)
  BY <1>1, WhenBelow
<1> HIDE DEF e, v, F
<1> QED BY <1>1, <1>2, <1>3, <1>4, WhenBelow, AdoptAside DEF Aside

LEMMA WhenNextAside == ASSUME ListInv, WhenNext PROVE Aside
<1> DEFINE i == Top.i - 1
           e == UpdateAt(i)
           v == joined.values[i]
           F == Become(When(i, "loop"))
<1>1. /\ Running("when")
      /\ \/ stack' = Callers /\ UNCHANGED <<callbacks, seen>>
         \/ Top.i # 0 /\ Adopt(v, e, RejectMaster, F)
  BY DEF WhenNext
<1>2. CASE stack' = Callers /\ UNCHANGED <<callbacks, seen>>
  <2>1. SameLog
    BY <1>1, <1>2, WhenBelow, LogsKept
  <2> QED BY <1>1, <1>2, <2>1, WhenBelow DEF Aside, OneList
<1>3. CASE Top.i # 0 /\ Adopt(v, e, RejectMaster, F)
  <2>1. joined.master \in Mine(page) /\ joined.master \in Deferred /\ i \in Nat
    BY <1>1, <1>3, RunsWhen
  <2> HIDE DEF i
  <2>2. e \in Entries /\ Late(Mine(page), joined, e) /\ e.do = "update"
    <3>1. e.do = "update"
      BY DEF UpdateAt, Entry
    <3> QED BY <2>1, <3>1, MasterIs
  <2>3. Below(F)
    BY <1>1, WhenBelow
  <2> HIDE DEF e, v, F
  <2> QED BY <1>1, <1>3, <2>1, <2>2, <2>3, WhenBelow, AdoptAside DEF Aside
<1> QED BY <1>1, <1>2, <1>3

LEMMA WhenDecideAside == ASSUME ListInv, WhenDecide PROVE Aside
<1>1. /\ Running("when") /\ callbacks' = callbacks
      /\ \/ stack' = Callers /\ \E d, x : seen' = [seen EXCEPT !.thens[d] = x]
         \/ stack' = Become(When(Top.i, "loop")) /\ seen' = seen
  BY DEF WhenDecide
<1>2. SameLog
  BY <1>1, WhenBelow, LogsKept
<1>3. Below(stack')
  BY <1>1, WhenBelow
<1> QED BY <1>1, <1>2, <1>3, WhenBelow DEF Aside, OneList

LEMMA RunScriptAside == ASSUME ListInv, RunScript PROVE Aside
<1>1. stack = <<>> /\ stack' = <<Code>> /\ UNCHANGED <<callbacks, seen>>
  BY DEF RunScript
<1>2. SameLog
  BY <1>1, SeenHas, LogsKept
<1>3. Below(stack')
  <2> DEFINE F == <<>>
  <2>1. Below(F) /\ ~Urgent(Code) /\ stack' = Append(F, Code)
    BY <1>1, BelowIs, NotUrgent
  <2> HIDE DEF F
  <2> QED BY <2>1, BelowPushed
<1> QED BY <1>1, <1>2, <1>3 DEF Aside, OneList

LEMMA RunProcessAside == ASSUME ListInv, RunProcess PROVE Aside
<1>1. /\ stack = <<>> /\ callbacks' = callbacks
      /\ seen' = seen \/ \E d, x : seen' = [seen EXCEPT !.ran[d] = x]
  BY DEF RunProcess
<1>2. SameLog
  BY <1>1, SeenHas, LogsKept
<1>3. Below(stack')
  <2> DEFINE F == <<>>
             p == Process(Head(tasks).fn, Head(tasks).v)
  <2>1. stack' = <<p>>
    BY DEF RunProcess
  <2>2. ~Urgent(p)
    BY NotUrgent
  <2> HIDE DEF p
  <2>3. Below(F) /\ stack' = Append(F, p)
    BY <2>1, BelowIs
  <2> HIDE DEF F
  <2> QED BY <2>2, <2>3, BelowPushed
<1> QED BY <1>1, <1>2, <1>3 DEF Aside, OneList

LEMMA ReadyAside ==
  ASSUME ListInv, stack = <<>>, page.has = "ready", NEW r, Ready(r), seen' = seen
  PROVE  Aside
<1>1. (UNCHANGED callbacks /\ stack' = <<>>) \/ ResolveReady(<<>>)
  BY DEF Ready
<1>2. SameLog
  BY SeenHas, LogsKept
<1>3. CASE UNCHANGED callbacks /\ stack' = <<>>
  BY <1>2, <1>3, BelowIs DEF Aside, OneList
<1>4. CASE ResolveReady(<<>>)
  <2> DEFINE F == <<>>
  <2>1. Below(F) /\ ResolveReady(F)
    BY <1>4, BelowIs
  <2> HIDE DEF F
  <2> QED BY <1>2, <2>1, ResolveReadyAside DEF Aside
<1> QED BY <1>1, <1>3, <1>4

LEMMA RunReadyAside == ASSUME ListInv, RunReady PROVE Aside
<1>1. stack = <<>> /\ tasks # <<>> /\ Head(tasks).do = "ready" /\ Ready(readiness) /\ seen' = seen
  BY DEF RunReady
<1>2. page.has = "ready"
  <2>1. 1 \in DOMAIN tasks /\ tasks[1] = Head(tasks)
    BY <1>1 DEF ListInv, Typed, Tasks
  <2> QED BY <1>1, <2>1 DEF ListInv, Typed
<1> QED BY <1>1, <1>2, ReadyAside

LEMMA DocumentEventAside == ASSUME ListInv, DocumentEvent PROVE Aside
<1>1. /\ stack = <<>> /\ page.has = "ready" /\ seen' = seen
      /\ UNCHANGED <<callbacks, stack>> \/ \E r : Ready(r)
  BY DEF DocumentEvent
<1>2. CASE \E r : Ready(r)
  BY <1>1, <1>2, ReadyAside
<1>3. CASE UNCHANGED <<callbacks, stack>>
  BY <1>1, <1>3, SeenHas, LogsKept, BelowIs DEF Aside, OneList
<1> QED BY <1>1, <1>2, <1>3

LEMMA CutBelow ==
  ASSUME ListInv, Running("code"), Len(stack) > 1
  PROVE  /\ Below(SubSeq(stack, 1, Len(stack) - 2)) /\ Frame(Mine(page), joined, Caller)
         /\ Caller = stack[Len(stack) - 1] /\ Len(stack) - 1 \in DOMAIN stack
<1>1. Frames(Mine(page), joined, stack) /\ Frame(Mine(page), joined, Caller)
  BY RunsCode, CallerIs
<1>2. Len(stack) \in Nat /\ DOMAIN stack = 1..Len(stack)
  BY <1>1, FramesAre
<1>3. Len(stack) - 2 \in Nat /\ Len(stack) - 2 < Len(stack) /\ Len(stack) - 1 \in 1..Len(stack)
  BY <1>2
<1> QED BY <1>1, <1>2, <1>3, BelowIs DEF Caller

LEMMA ReturnFromScriptAside == ASSUME ListInv, ReturnFromScript PROVE Aside
<1>1. Running("code") /\ stack' = Callers /\ UNCHANGED <<callbacks, seen>>
  BY DEF ReturnFromScript
<1>2. SameLog
  BY <1>1, CodeBelow, LogsKept
<1> QED BY <1>1, <1>2, CodeBelow DEF Aside, OneList

LEMMA ReturnToThenAside == ASSUME ListInv, ReturnToThen PROVE Aside
<1> DEFINE F == SubSeq(stack, 1, Len(stack) - 2)
<1>1. /\ Running("code") /\ Len(stack) > 1 /\ Caller.at = "process"
      /\ UNCHANGED <<callbacks, seen>>
      /\ \E v : stack' = Append(F, [Caller EXCEPT !.step = "got", !.v = v])
  BY DEF ReturnToThen
<1>2. PICK v : stack' = Append(F, [Caller EXCEPT !.step = "got", !.v = v])
  BY <1>1
<1>3. Below(F) /\ Frame(Mine(page), joined, Caller)
  BY <1>1, CutBelow
<1>4. ~Urgent([Caller EXCEPT !.step = "got", !.v = v])
  <2>1. Caller \in Processes(Mine(page))
    BY <1>1, <1>3, FrameIs
  <2> QED BY <2>1, ProcessNotUrgent
<1> HIDE DEF F
<1>5. Below(stack')
  BY <1>2, <1>3, <1>4, BelowPushed
<1>6. SameLog
  BY <1>1, CodeBelow, LogsKept
<1> QED BY <1>1, <1>5, <1>6, CodeBelow DEF Aside, OneList

LEMMA ReturnToPipeAside == ASSUME ListInv, ReturnToPipe PROVE Aside
<1> DEFINE F == SubSeq(stack, 1, Len(stack) - 2)
           E(k) == Entry("settle", Caller.d, k)
<1>1. Running("code") /\ Len(stack) > 1 /\ Caller.at = "pipe" /\ seen' = seen
  BY DEF ReturnToPipe
<1>2. PICK v \in Results :
        IF v.is = "promise"
        THEN /\ callbacks' = callbacks
             /\ stack' = Append(F, Adds(<<<<<<v.n, "notify">>, E("notify")>>,
                                          <<<<v.n, "resolve">>, E("resolve")>>,
                                          <<<<v.n, "reject">>, E("reject")>>>>))
        ELSE Fire(<<Caller.d, Caller.k>>, v, callbacks, F)
  BY DEF ReturnToPipe
<1>3. Below(F) /\ Frame(Mine(page), joined, Caller)
  BY <1>1, CutBelow
<1>4. SameLog
  BY <1>1, CodeBelow, LogsKept
<1>5. CASE v.is = "promise"
  <2> DEFINE x == E("notify")
             y == E("resolve")
             z == E("reject")
             i == <<v.n, "notify">>
             j == <<v.n, "resolve">>
             k == <<v.n, "reject">>
  <2>1. callbacks' = callbacks /\ stack' = Append(F, Adds(<<<<i, x>>, <<j, y>>, <<k, z>>>>))
    BY <1>2, <1>5
  <2>2. x.do # "user" /\ y.do # "user" /\ z.do # "user"
    BY EntryDoes
  <2> HIDE DEF x, y, z, i, j, k, F
  <2>3. ~Urgent(Adds(<<<<i, x>>, <<j, y>>, <<k, z>>>>))
    BY <2>2, OthersThree
  <2> QED BY <1>1, <1>3, <1>4, <2>1, <2>3, CodeBelow, BelowPushed DEF Aside, OneList
<1>6. CASE v.is # "promise"
  <2> DEFINE l == <<Caller.d, Caller.k>>
  <2>1. Fire(l, v, callbacks, F)
    BY <1>2, <1>6
  <2>2. l \in Deferred \X Kind
    <3>1. Caller.d \in Mine(page) /\ Caller.k \in Kind
      BY <1>1, <1>3, FrameIs
    <3> QED BY <3>1, MineIs
  <2> HIDE DEF l, F
  <2> QED BY <1>1, <1>3, <1>4, <2>1, <2>2, CodeBelow, BelowFired, OneFired DEF Aside
<1> QED BY <1>5, <1>6

\* All other steps are about functions of the page in lists.
LEMMA MostAreAside ==
  ASSUME ListInv, Next
  PROVE  \/ Aside
         \/ CallAdd \/ CallMethod \/ CallFire \/ CallAlways
         \/ CallNext \/ EndLoop \/ AddNext \/ ReturnToLoop
BY CallThenAside, CallPipeAside, CallHeldAside, CallWhenAside, CallReadyAside, CallHoldAside,
   ThrowErrorAside, PoppedAside, CallHandlerAside, GotItselfAside, GotPromiseAside,
   GotThenableAside, GotValueAside, CatchAside, WhenSingleAside, WhenDecideAside,
   WhenNextAside, ReturnToThenAside, ReturnToPipeAside, ReturnFromScriptAside,
   RunProcessAside, RunReadyAside, DocumentEventAside, RunScriptAside
   DEF Next, Call, Turn

\* The page stays, and calls are counted.
LEMMA PageStays ==
  ASSUME Next
  PROVE  page' = page /\ CallsGo
BY DEF Next, Call, Turn, CallAdd, CallMethod, CallFire, CallAlways, CallThen, CallPipe,
       CallHeld, CallWhen, CallReady, CallHold, ThrowError, May, CallNext, EndLoop, AddNext,
       IgnoreStale, CallHandler, GotNothing, GotItself, GotPromise, GotThenable, GotValue,
       Catch, EndProcess, WhenSingle, WhenDecide, WhenNext, ReturnToLoop, ReturnToThen,
       ReturnToPipe, ReturnFromScript, RunProcess, RunReady, DocumentEvent, RunScript,
       fixed, CallsGo

-----------------------------------------------------------------------------
(* The page's own list, step by step *)

\* Who has been stopped by false knows no value, and is at the end.
Halted(c, K) ==
  c.firing /\ c.memory = None /\ ~c.gone => OnTop(K, Loop(UserList)) /\ c.index >= Len(c.list)

OwnInv ==
  /\ seen.log \in [ListId -> Log]
  /\ callbacks[UserList].options = page.options
  /\ page.has # "list" =>
       callbacks[UserList] = New(page.options) /\ seen.log[UserList] = <<>>
  /\ Own(callbacks[UserList], seen.log[UserList], seen.adds[UserList], calls, seen.emptied)
  /\ Halted(callbacks[UserList], stack)

LEMMA TypesAre ==
  ASSUME ListInv
  PROVE  /\ Lists(Mine(page), joined, callbacks) /\ Frames(Mine(page), joined, stack)
         /\ Loops(callbacks, stack) /\ callbacks \in [ListId -> Listing]
         /\ \A l \in ListId : List(callbacks[l])
         /\ DOMAIN seen = SeenField /\ seen.adds \in [ListId -> Nat]
         /\ calls \in Nat /\ page.calls \in Nat /\ page \in Page
         /\ Len(stack) \in Nat /\ DOMAIN stack = 1..Len(stack)
<1>1. Typed /\ Lists(Mine(page), joined, callbacks) /\ Frames(Mine(page), joined, stack)
      /\ Loops(callbacks, stack)
  BY DEF ListInv, Arranged
<1>2. calls \in Nat /\ page.calls \in Nat /\ page \in Page
  BY <1>1, DeferredAssumption DEF Typed
<1>3. DOMAIN seen = SeenField /\ seen.adds \in [ListId -> Nat]
  BY <1>1 DEF Typed, SeenIs
<1>4. callbacks \in [ListId -> Listing] /\ \A l \in ListId : List(callbacks[l])
  BY <1>1 DEF Lists
<1> QED BY <1>1, <1>2, <1>3, <1>4, FramesAre

LEMMA CallsLater ==
  ASSUME ListInv, CallsGo
  PROVE  calls' \in Nat /\ calls <= calls'
<1>1. calls \in Nat
  BY TypesAre
<1> QED BY <1>1 DEF CallsGo

\* A step that has nothing to do with this list, which is not on top.
LEMMA OwnKept ==
  ASSUME ListInv, OwnInv, page' = page, CallsGo, ~OnTop(stack, Loop(UserList)),
         callbacks'[UserList] = callbacks[UserList],
         seen'.log \in [ListId -> Log], seen'.log[UserList] = seen.log[UserList],
         seen'.adds[UserList] = seen.adds[UserList], seen'.emptied = seen.emptied
  PROVE  OwnInv'
<1> DEFINE c == callbacks[UserList]
           L == seen.log[UserList]
           a == seen.adds[UserList]
           em == seen.emptied
           k == calls'
<1>1. calls' \in Nat /\ calls <= calls'
  BY CallsLater
<1>2. Own(c, L, a, calls, em)
  BY DEF OwnInv
<1> HIDE DEF c, L, a, em
<1>3. Own(c, L, a, k, em)
  <2> HIDE DEF k
  <2>1. k \in Nat /\ calls <= k
    BY <1>1 DEF k
  <2> QED BY <1>2, <2>1, OwnLater
<1>4. Halted(c, stack')
  BY DEF OwnInv, Halted, c
<1>5. Own(callbacks[UserList], seen.log[UserList], seen.adds[UserList], calls, seen.emptied)'
  BY <1>3 DEF c, L, a, em, k
<1> QED BY <1>4, <1>5 DEF OwnInv, c

\* A step of this list.
LEMMA OwnChanged ==
  ASSUME ListInv, OwnInv, page.has = "list", page' = page, NEW e,
         callbacks' = [callbacks EXCEPT ![UserList] = e], e.options = callbacks[UserList].options,
         seen'.log \in [ListId -> Log],
         Own(e, seen'.log[UserList], seen'.adds[UserList], calls', seen'.emptied),
         Halted(e, stack')
  PROVE  OwnInv'
<1>1. callbacks'[UserList] = e
  BY TypesAre, ListIds
<1> QED BY <1>1 DEF OwnInv

LEMMA OwnStutter ==
  ASSUME ListInv, OwnInv, UNCHANGED vars
  PROVE  OwnInv'
BY DEF vars, OwnInv, Own, Halted, OnTop

LEMMA OwnAside ==
  ASSUME ListInv, OwnInv, Next, Aside
  PROVE  OwnInv'
<1>1. page' = page /\ CallsGo
  BY PageStays
<1>2. callbacks'[UserList] = callbacks[UserList]
  <2>1. callbacks \in [ListId -> Listing] /\ UserList \in ListId /\ UserList \notin Deferred \X Kind
    BY TypesAre, ListIds
  <2>2. callbacks' = callbacks \/ \E l \in Deferred \X Kind : \E c : callbacks' = [callbacks EXCEPT ![l] = c]
    BY DEF Aside, OneList
  <2> QED BY <2>1, <2>2
<1>3. ~OnTop(stack, Loop(UserList))
  BY DEF Aside, OnTop, Top, Loop
<1>4. seen'.log = seen.log /\ seen'.adds = seen.adds /\ seen'.emptied = seen.emptied
  BY DEF Aside, SameLog
<1>5. seen'.log \in [ListId -> Log]
  BY <1>4 DEF OwnInv
<1> QED BY <1>1, <1>2, <1>3, <1>4, <1>5, OwnKept

\* Below a function of the page the list is awake.
LEMMA OwnAwake ==
  ASSUME ListInv, OwnInv, Running("code")
  PROVE  /\ ~(callbacks[UserList].firing /\ callbacks[UserList].memory = None
                /\ ~callbacks[UserList].gone)
         /\ ~OnTop(stack, Loop(UserList)) /\ stack # <<>>
         /\ List(callbacks[UserList]) /\ UserList \in ListId
         /\ Own(callbacks[UserList], seen.log[UserList], seen.adds[UserList], calls, seen.emptied)
<1>1. stack # <<>> /\ Top.at = "code"
  BY CodeBelow
<1>2. ~OnTop(stack, Loop(UserList))
  BY <1>1 DEF OnTop, Top, Loop
<1> QED BY <1>1, <1>2, TypesAre, ListIds DEF OwnInv, Halted

LEMMA OwnCallAdd == ASSUME ListInv, OwnInv, CallAdd PROVE OwnInv'
<1>1. Running("code") /\ page' = page /\ calls' = calls + 1 /\ CallsGo
  BY DEF CallAdd, May, fixed, CallsGo
<1>2. PICK l \in ListId, f \in Function :
        /\ IF page.has = "list" THEN l = UserList ELSE l[1] \in Born /\ f = Nobody
        /\ Apply(l, Add(callbacks[l], User(f, seen.adds[l] + 1)), stack)
        /\ seen' = [seen EXCEPT !.adds[l] = seen.adds[l] + 1]
  BY DEF CallAdd
<1> DEFINE c == callbacks[UserList]
           L == seen.log[UserList]
           a == seen.adds[UserList]
           em == seen.emptied
<1>3. /\ ~(c.firing /\ c.memory = None /\ ~c.gone) /\ ~OnTop(stack, Loop(UserList))
      /\ List(c) /\ UserList \in ListId /\ Own(c, L, a, calls, em)
  BY <1>1, OwnAwake
<1>4. DOMAIN seen = SeenField /\ seen.adds \in [ListId -> Nat] /\ calls \in Nat
      /\ callbacks \in [ListId -> Listing]
  BY TypesAre
<1>5. /\ seen'.log = seen.log /\ seen'.emptied = seen.emptied
      /\ seen'.adds = [seen.adds EXCEPT ![l] = seen.adds[l] + 1]
  BY <1>2, <1>4 DEF SeenField
<1>6. seen'.log \in [ListId -> Log]
  BY <1>5 DEF OwnInv
<1>7. CASE l # UserList
  <2>1. callbacks'[UserList] = c
    BY <1>2, <1>3, <1>4, <1>7 DEF Apply
  <2> QED BY <1>1, <1>3, <1>4, <1>5, <1>6, <1>7, <2>1, OwnKept
<1>8. CASE l = UserList
  <2> DEFINE u == User(f, a + 1)
             e == Add(c, u)
             m == calls + 1
  <2>1. page.has = "list"
    <3>1. l[1] \notin Born
      BY <1>8 DEF UserList, Born, Deferred, Nobody
    <3> QED BY <1>2, <3>1
  <2>2. callbacks' = [callbacks EXCEPT ![UserList] = e]
    BY <1>2, <1>8 DEF Apply
  <2>3. u \in Entries
    <3>1. a + 1 \in Nat
      BY <1>3, <1>4
    <3> QED BY <3>1, UserIs
  <2>4. seen'.adds[UserList] = a + 1
    BY <1>3, <1>4, <1>5, <1>8
  <2>5. Own(e, L, a + 1, m, em)
    <3> HIDE DEF c, L, em
    <3>1. Own(e, L, a + 1, calls, em)
      BY <1>3, OwnAdded
    <3> HIDE DEF e
    <3>2. m \in Nat /\ calls <= m
      BY <1>4
    <3> HIDE DEF m
    <3> QED BY <3>1, <3>2, OwnLater
  <2>6. e.options = c.options /\ Halted(e, stack')
    <3> HIDE DEF c, u
    <3>1. /\ e.options = c.options /\ e.gone = c.gone /\ e.memory = c.memory
          /\ e.firing = c.firing \/ (e.firing /\ c.memory # None)
      BY <1>3, <2>3, AddIs
    <3> HIDE DEF e
    <3> QED BY <1>3, <3>1 DEF Halted
  <2> HIDE DEF e, c, u
  <2> QED BY <1>1, <1>5, <1>6, <2>1, <2>2, <2>4, <2>5, <2>6, OwnChanged DEF c
<1> QED BY <1>7, <1>8

LEMMA OwnCallFire == ASSUME ListInv, OwnInv, CallFire PROVE OwnInv'
<1>1. Running("code") /\ page' = page /\ calls < page.calls /\ calls' = calls + 1 /\ CallsGo
      /\ seen' = seen
  BY DEF CallFire, May, fixed, CallsGo
<1>2. PICK l \in ListId : \E v \in {Data(calls')} \cup {PromiseOf(d) : d \in Knowns(l[1])} :
         /\ IF page.has = "list" THEN l = UserList ELSE l[1] \in 1..page.roots
         /\ Apply(l, FireWith(callbacks[l], v), stack)
  BY DEF CallFire
<1>3. PICK v \in {Data(calls')} \cup {PromiseOf(d) : d \in Knowns(l[1])} :
         /\ IF page.has = "list" THEN l = UserList ELSE l[1] \in 1..page.roots
         /\ Apply(l, FireWith(callbacks[l], v), stack)
  BY <1>2
<1> DEFINE c == callbacks[UserList]
           L == seen.log[UserList]
           a == seen.adds[UserList]
           em == seen.emptied
<1>4. /\ ~(c.firing /\ c.memory = None /\ ~c.gone) /\ ~OnTop(stack, Loop(UserList))
      /\ List(c) /\ UserList \in ListId /\ Own(c, L, a, calls, em)
  BY <1>1, OwnAwake
<1>5. calls \in Nat /\ page.calls \in Nat /\ callbacks \in [ListId -> Listing]
  BY TypesAre
<1>6. seen'.log \in [ListId -> Log]
  BY <1>1 DEF OwnInv
<1>7. CASE l # UserList
  <2>1. callbacks'[UserList] = c
    BY <1>3, <1>4, <1>5, <1>7 DEF Apply
  <2> QED BY <1>1, <1>4, <1>6, <2>1, OwnKept
<1>8. CASE l = UserList
  <2> DEFINE m == calls + 1
             e == FireWith(c, Data(m))
  <2>1. page.has = "list"
    <3>1. l[1] \notin 1..page.roots
      BY <1>8 DEF UserList, Nobody
    <3> QED BY <1>3, <3>1
  <2>2. v = Data(m)
    <3>1. Knowns(l[1]) = {}
      BY <2>1 DEF Knowns
    <3> QED BY <1>1, <1>3, <3>1
  <2>3. callbacks' = [callbacks EXCEPT ![UserList] = e]
    BY <1>3, <1>8, <2>2 DEF Apply
  <2>4. Data(m) \in Value
    <3>1. m \in 1..page.calls
      BY <1>1, <1>5
    <3> QED BY <3>1, DataIsValue, TypesAre DEF ListInv
  <2>5. Own(e, L, a, m, em)
    <3> HIDE DEF c, L, em, a
    <3> QED BY <1>4, <2>4, OwnFired
  <2>6. e.options = c.options /\ Halted(e, stack')
    <3> HIDE DEF c
    <3>1. /\ e.options = c.options /\ e.gone = c.gone
          /\ e = c \/ e.memory = Data(m) \/ (e.memory = c.memory /\ c.firing)
      BY <1>4, <2>4, FireIs, ListIs
    <3>2. Data(m) # None
      BY <2>4, NoneIsNoValue
    <3> HIDE DEF e
    <3> QED BY <1>4, <3>1, <3>2 DEF Halted
  <2>7. Own(e, seen'.log[UserList], seen'.adds[UserList], calls', seen'.emptied)
    BY <1>1, <2>5
  <2> HIDE DEF e
  <2> QED BY <1>1, <1>6, <2>1, <2>3, <2>6, <2>7, OwnChanged
<1> QED BY <1>7, <1>8

LEMMA OwnCallMethod == ASSUME ListInv, OwnInv, CallMethod PROVE OwnInv'
<1> DEFINE c == callbacks[UserList]
           L == seen.log[UserList]
           a == seen.adds[UserList]
           em == seen.emptied
           m == calls + 1
<1>1. /\ Running("code") /\ page.has = "list" /\ page' = page /\ calls' = m
      /\ \/ /\ \E f \in Function : Apply(UserList, Remove(c, User(f, 0)), stack)
            /\ seen' = seen
         \/ /\ Apply(UserList, Empty(c), stack)
            /\ seen' = [seen EXCEPT !.emptied = @ \/ c.firing]
         \/ Apply(UserList, Disable(c), stack) /\ seen' = seen
         \/ Apply(UserList, Lock(c), stack) /\ seen' = seen
  BY DEF CallMethod, May, fixed
<1>2. /\ ~(c.firing /\ c.memory = None /\ ~c.gone)
      /\ List(c) /\ Own(c, L, a, calls, em)
  BY <1>1, OwnAwake
<1>3. DOMAIN seen = SeenField /\ calls \in Nat
  BY TypesAre
<1>4. m \in Nat /\ calls <= m
  BY <1>3
<1>5. seen.log \in [ListId -> Log]
  BY DEF OwnInv
<1>6. ASSUME NEW e, Apply(UserList, e, stack), e.options = c.options, NEW b,
             Own(e, L, a, calls, b), Halted(e, stack'),
             seen'.log = seen.log, seen'.adds = seen.adds, seen'.emptied = b
      PROVE  OwnInv'
  <2>1. callbacks' = [callbacks EXCEPT ![UserList] = e]
    BY <1>6 DEF Apply
  <2> HIDE DEF m
  <2>2. Own(e, L, a, m, b)
    <3> HIDE DEF L, a
    <3> QED BY <1>4, <1>6, OwnLater
  <2>3. Own(e, seen'.log[UserList], seen'.adds[UserList], calls', seen'.emptied)
    BY <1>1, <1>6, <2>2
  <2>4. seen'.log \in [ListId -> Log]
    BY <1>5, <1>6
  <2> QED BY <1>1, <1>6, <2>1, <2>3, <2>4, OwnChanged
<1>7. ASSUME NEW e, e.gone = c.gone, e.firing = c.firing, e.memory = c.memory
      PROVE  Halted(e, stack')
  BY <1>2, <1>7 DEF Halted
<1> HIDE DEF c, L, a, em
<1>8. CASE (\E f \in Function : Apply(UserList, Remove(c, User(f, 0)), stack)) /\ seen' = seen
  <2>1. PICK f \in Function : Apply(UserList, Remove(c, User(f, 0)), stack)
    BY <1>8
  <2> DEFINE fn == User(f, 0)
             e == Remove(c, fn)
  <2> HIDE DEF fn
  <2>2. Own(e, L, a, calls, em)
    BY <1>2, OwnRemoved
  <2>3. e.gone = c.gone /\ e.firing = c.firing /\ e.memory = c.memory /\ e.options = c.options
    BY <1>2 DEF Remove, List, ListOf, Listing, ListingOf
  <2> HIDE DEF e
  <2> QED BY <1>6, <1>7, <1>8, <2>1, <2>2, <2>3 DEF e, fn, em
<1>9. CASE Apply(UserList, Empty(c), stack) /\ seen' = [seen EXCEPT !.emptied = @ \/ c.firing]
  <2> DEFINE e == Empty(c)
             b == em \/ c.firing
  <2>1. Own(e, L, a, calls, b)
    BY <1>2, OwnEmptied
  <2>2. e.gone = c.gone /\ e.firing = c.firing /\ e.memory = c.memory /\ e.options = c.options
    BY <1>2 DEF Empty, List, ListOf, Listing, ListingOf
  <2>3. seen'.log = seen.log /\ seen'.adds = seen.adds /\ seen'.emptied = b
    BY <1>3, <1>9 DEF SeenField, em
  <2> HIDE DEF e, b
  <2> QED BY <1>6, <1>7, <1>9, <2>1, <2>2, <2>3 DEF e
<1>10. CASE Apply(UserList, Disable(c), stack) /\ seen' = seen
  <2> DEFINE e == Disable(c)
  <2>1. Own(e, L, a, calls, em)
    BY <1>2, OwnDisabled
  <2>2. e.gone /\ e.options = c.options
    BY <1>2, DisableIs
  <2> HIDE DEF e
  <2>3. Halted(e, stack')
    BY <2>2 DEF Halted
  <2> QED BY <1>6, <1>10, <2>1, <2>2, <2>3 DEF e, em
<1>11. CASE Apply(UserList, Lock(c), stack) /\ seen' = seen
  <2> DEFINE e == Lock(c)
  <2>1. Own(e, L, a, calls, em)
    BY <1>2, OwnLocked
  <2>2. /\ e.options = c.options /\ e.memory = c.memory /\ e.firing = c.firing
        /\ e.gone \/ e.gone = c.gone
    BY <1>2, LockIs
  <2> HIDE DEF e
  <2>3. Halted(e, stack')
    BY <1>2, <2>2 DEF Halted
  <2> QED BY <1>6, <1>11, <2>1, <2>2, <2>3 DEF e, em
<1> QED BY <1>1, <1>8, <1>9, <1>10, <1>11 DEF c

LEMMA OwnCallAlways == ASSUME ListInv, OwnInv, CallAlways PROVE OwnInv'
<1>1. Running("code") /\ page' = page /\ CallsGo /\ callbacks' = callbacks
  BY DEF CallAlways, May, fixed, CallsGo
<1>2. PICK d \in Born : seen' = [seen EXCEPT !.adds[<<d, "resolve">>] = @ + 1,
                                             !.adds[<<d, "reject">>] = @ + 1]
  BY DEF CallAlways
<1>3. DOMAIN seen = SeenField /\ seen.adds \in [ListId -> Nat]
  BY TypesAre
<1>4. UserList # <<d, "resolve">> /\ UserList # <<d, "reject">> /\ UserList \in ListId
  <2>1. d \in Deferred
    BY DEF Born
  <2> QED BY <2>1, ListIds DEF Kind
<1> DEFINE x == <<d, "resolve">>
           y == <<d, "reject">>
<1>5. /\ seen'.log = seen.log /\ seen'.emptied = seen.emptied
      /\ \E p, q : seen'.adds = [[seen.adds EXCEPT ![x] = p] EXCEPT ![y] = q]
  BY <1>2, <1>3 DEF SeenField
<1> HIDE DEF x, y
<1>6. seen'.adds[UserList] = seen.adds[UserList]
  <2>1. UserList # x /\ UserList # y
    BY <1>4 DEF x, y
  <2> QED BY <1>3, <1>4, <1>5, <2>1
<1>7. seen'.log \in [ListId -> Log] /\ seen'.log[UserList] = seen.log[UserList]
  BY <1>5 DEF OwnInv
<1> QED BY <1>1, <1>5, <1>6, <1>7, OwnAwake, OwnKept

LEMMA OwnAddNext == ASSUME ListInv, OwnInv, AddNext PROVE OwnInv'
<1> DEFINE l == Head(Top.todo)[1]
<1>1. Running("adds") /\ page' = page /\ CallsGo /\ seen' = seen
      /\ \E c : callbacks' = [callbacks EXCEPT ![l] = c]
  BY DEF AddNext, Apply, fixed, CallsGo
<1>2. stack # <<>> /\ Top.at = "adds"
  BY <1>1, RunsWhat
<1>3. Frame(Mine(page), joined, Top)
  BY <1>2, InsideCalls
<1>4. l # UserList
  BY <1>2, <1>3, FrameIs, TodoIs
<1> HIDE DEF l
<1>5. callbacks'[UserList] = callbacks[UserList]
  BY <1>1, <1>4, TypesAre, ListIds
<1>6. ~OnTop(stack, Loop(UserList))
  BY <1>2 DEF OnTop, Top, Loop
<1>7. seen'.log \in [ListId -> Log] /\ seen'.log[UserList] = seen.log[UserList]
      /\ seen'.adds[UserList] = seen.adds[UserList] /\ seen'.emptied = seen.emptied
  BY <1>1 DEF OwnInv
<1> QED BY <1>1, <1>5, <1>6, <1>7, OwnKept

\* The loop on top is one of the stack, and its list is firing.
LEMMA TopLoop ==
  ASSUME ListInv, Running("loop")
  PROVE  /\ stack # <<>> /\ Top.l \in ListId /\ Top = Loop(Top.l) /\ OnTop(stack, Loop(Top.l))
         /\ callbacks[Top.l].firing /\ List(callbacks[Top.l])
         /\ \A l : OnTop(stack, Loop(l)) => l = Top.l
<1>1. stack # <<>> /\ Top.at = "loop"
  BY RunsWhat
<1>2. Frame(Mine(page), joined, Top) /\ Len(stack) \in DOMAIN stack
  BY <1>1, TypesAre, FramesAre DEF Top
<1>3. Top.l \in ListId /\ Top = Loop(Top.l)
  BY <1>1, <1>2, FrameIs
<1>4. callbacks[Top.l].firing
  BY <1>1, <1>2, TypesAre DEF Loops, Top
<1>5. \A l : OnTop(stack, Loop(l)) => l = Top.l
  BY DEF OnTop, Top, Loop
<1> QED BY <1>1, <1>3, <1>4, <1>5, TypesAre DEF OnTop, Top

\* Only a page with a list of its own fires it.
LEMMA OwnFires ==
  ASSUME OwnInv, callbacks[UserList].firing
  PROVE  page.has = "list"
BY DEF OwnInv, New

LEMMA OwnEndLoop == ASSUME ListInv, OwnInv, EndLoop PROVE OwnInv'
<1> DEFINE l == Top.l
           c == callbacks[l]
<1>1. /\ Running("loop") /\ ~Pending(c) /\ page' = page /\ CallsGo /\ seen' = seen /\ calls' = calls
      /\ IF c.queue # <<>>
         THEN callbacks' = [callbacks EXCEPT ![l] = NextValue(c)] /\ stack' = stack
         ELSE callbacks' = [callbacks EXCEPT ![l] = Finish(c)] /\ stack' = Callers
  BY DEF EndLoop, fixed, CallsGo
<1>2. /\ l \in ListId /\ c.firing /\ List(c) /\ OnTop(stack, Loop(l))
      /\ \A k : OnTop(stack, Loop(k)) => k = l
  BY <1>1, TopLoop
<1> HIDE DEF l
<1>3. /\ seen'.log \in [ListId -> Log] /\ seen'.log[UserList] = seen.log[UserList]
      /\ seen'.adds[UserList] = seen.adds[UserList] /\ seen'.emptied = seen.emptied
  BY <1>1 DEF OwnInv
<1>4. CASE l # UserList
  <2>1. callbacks'[UserList] = callbacks[UserList]
    BY <1>1, <1>4, TypesAre, ListIds
  <2> QED BY <1>1, <1>2, <1>3, <1>4, <2>1, OwnKept
<1>5. CASE l = UserList
  <2> DEFINE L == seen.log[UserList]
             a == seen.adds[UserList]
             em == seen.emptied
  <2>1. page.has = "list" /\ Own(c, L, a, calls, em)
    BY <1>2, <1>5, OwnFires DEF OwnInv
  <2>2. ASSUME NEW e, callbacks' = [callbacks EXCEPT ![l] = e], e.options = c.options,
               Own(e, L, a, calls, em), Halted(e, stack')
        PROVE  OwnInv'
    <3>1. Own(e, seen'.log[UserList], seen'.adds[UserList], calls', seen'.emptied)
      BY <1>1, <2>2
    <3> QED BY <1>1, <1>3, <1>5, <2>1, <2>2, <3>1, OwnChanged
  <2> HIDE DEF c, L, a, em
  <2>3. CASE c.queue # <<>>
    <3> DEFINE e == NextValue(c)
    <3>1. Own(e, L, a, calls, em)
      BY <1>2, <2>1, <2>3, OwnNext
    <3>2. e.options = c.options /\ e.memory # None
      <4>1. c.queue \in Seq(Value) /\ Head(c.queue) \in Value
        BY <1>2, <2>3, ListIs
      <4>2. e.memory = Head(c.queue) /\ e.options = c.options
        BY <1>2 DEF NextValue, Shift, List, ListOf, Listing, ListingOf
      <4> HIDE DEF e
      <4> QED BY <4>1, <4>2, NoneIsNoValue
    <3> HIDE DEF e
    <3> QED BY <1>1, <2>2, <2>3, <3>1, <3>2 DEF Halted, e
  <2>4. CASE c.queue = <<>>
    <3> DEFINE e == Finish(c)
    <3>1. Own(e, L, a, calls, em)
      BY <1>1, <1>2, <2>1, <2>4, OwnFinished
    <3>2. e.options = c.options /\ ~e.firing
      BY <1>2, <2>4, FinishIs
    <3> HIDE DEF e
    <3> QED BY <1>1, <2>2, <2>4, <3>1, <3>2 DEF Halted, e
  <2> QED BY <2>3, <2>4
<1> QED BY <1>4, <1>5

-----------------------------------------------------------------------------
(* What a loop calls *)

\* Who is called by the loop of a deferred's list.
CurrentOf(d, k, e) ==
  \/ Late(Mine(page), joined, e)
  \/ e = Entry("handlers", d, k)
  \/ k \in Outs /\ e \in {Entry("state", d, k), Entry("disable", d, Other(k)),
                          Entry("lock", d, "notify")}

LEMMA CurrentIs ==
  ASSUME ListInv, Running("loop"), Pending(callbacks[Top.l]), NEW d \in Deferred, NEW k \in Kind,
         Top.l = <<d, k>>
  PROVE  CurrentOf(d, k, Current(callbacks[Top.l]))
<1> DEFINE l == Top.l
           c == callbacks[l]
           M == Mine(page)
           p == c.index + 1
           e == Current(c)
<1>1. /\ c.firing /\ c.index \in Nat /\ p \in DOMAIN c.list /\ e = c.list[p]
      /\ Lists(M, joined, callbacks) /\ Outcomes(M, joined, callbacks, state, stack)
  BY RunsLoop
<1>2. CASE k = "notify"
  <2>1. Told(M, joined, e, d)
    BY <1>1, <1>2 DEF Lists
  <2> QED BY <1>2, <2>1 DEF Told, CurrentOf
<1>3. CASE k \in Outs
  <2>1. First(M, joined, c, d, k) \/ Again(M, joined, c)
    <3>1. ~Waiting(M, joined, c, d, k) /\ ~Dead(c)
      BY <1>1 DEF Waiting, Dead
    <3>2. \A j \in Outs : j = k \/ k = Other(j)
      BY <1>3 DEF Outs, Other
    <3>3. c = callbacks[<<d, k>>]
      OBVIOUS
    <3> HIDE DEF c
    <3>4. CASE CalmAt(M, joined, callbacks, state, d)
      <4>1. CASE Undecided(M, joined, callbacks, state, d)
        BY <1>3, <3>1, <3>3, <4>1 DEF Undecided
      <4>2. ASSUME NEW j \in Outs, Decided(M, joined, callbacks, state, d, j)
            PROVE  First(M, joined, c, d, k) \/ Again(M, joined, c)
        BY <3>1, <3>2, <3>3, <4>2 DEF Decided
      <4> QED BY <3>4, <4>1, <4>2 DEF CalmAt
    <3>5. ASSUME NEW j \in Outs, Deciding(M, joined, callbacks, state, stack, d, j)
          PROVE  First(M, joined, c, d, k)
      <4>1. CASE j = k
        BY <3>3, <3>5, <4>1 DEF Deciding
      <4>2. CASE k = Other(j)
        BY <3>1, <3>3, <3>5, <4>2 DEF Deciding
      <4> QED BY <3>2, <4>1, <4>2
    <3> QED BY <1>1, <3>4, <3>5 DEF Outcomes
  <2>2. CASE Again(M, joined, c)
    BY <1>1, <2>2 DEF Again, CurrentOf
  <2>3. CASE First(M, joined, c, d, k)
    <3>1. Starts(M, joined, c.list, d, k)
      BY <2>3 DEF First
    <3>2. p \in Nat /\ (p = 1 \/ p = 2 \/ p = 3 \/ p = 4 \/ p > 4)
      BY <1>1
    <3> HIDE DEF c, p
    <3>3. CASE p > 4
      BY <1>1, <3>1, <3>3 DEF Starts, CurrentOf, M, c
    <3>4. CASE p \in 1..4
      BY <1>1, <1>3, <3>1, <3>2, <3>4 DEF Starts, CurrentOf, c
    <3> QED BY <3>2, <3>3, <3>4
  <2> QED BY <2>1, <2>2, <2>3
<1> QED BY <1>2, <1>3 DEF Kind, Outs

\* What it does to the lists C, and to the logs.
Told1(l, e, v) ==
  \/ e.do = "user" /\ seen' = [seen EXCEPT !.log[l] = Append(@, <<e.n, v>>)]
  \/ e.do = "state" /\ \E x : seen' = [seen EXCEPT !.told[e.d] = x]
  \/ e.do \notin {"user", "state"} /\ seen' = seen

LEMMA InvokeSays ==
  ASSUME NEW e, NEW v, NEW l, NEW C, NEW F, Invoke(e, v, l, C, F)
  PROVE  Told1(l, e, v)
BY DEF Told1, Invoke, InvokeState, InvokeDisable, InvokeLock, InvokeHandlers, InvokeScript,
       InvokeSettle, InvokePipe, InvokeUpdate

\* The lists that a turn of a deferred's loop changes are of deferreds.
LEMMA InvokeChanges ==
  ASSUME ListInv, NEW d \in Deferred, NEW k \in Kind, NEW e \in Entries, CurrentOf(d, k, e),
         NEW v, NEW l, NEW C, NEW F, Invoke(e, v, l, C, F)
  PROVE  callbacks' = C \/ \E m \in Deferred \X Kind : \E c : callbacks' = [C EXCEPT ![m] = c]
<1>1. CASE e.do \in {"state", "handlers", "user", "pipe"}
  BY <1>1 DEF Invoke, InvokeState, InvokeDisable, InvokeLock, InvokeHandlers, InvokeScript,
       InvokeSettle, InvokePipe, InvokeUpdate
<1>2. CASE e.do \in {"disable", "lock"}
  <2>1. e.d \in Deferred
    BY <1>2 DEF CurrentOf, Late, Entry
  <2> DEFINE m == <<e.d, e.k>>
  <2>2. m \in Deferred \X Kind
    BY <2>1 DEF Entries
  <2>3. \E c : callbacks' = [C EXCEPT ![m] = c]
    BY <1>2 DEF Invoke, InvokeState, InvokeDisable, InvokeLock, InvokeHandlers, InvokeScript,
       InvokeSettle, InvokePipe, InvokeUpdate
  <2> HIDE DEF m
  <2> QED BY <2>2, <2>3
<1>3. CASE e.do = "settle"
  <2>1. e.d \in Deferred
    BY <1>3, MineIs DEF CurrentOf, Late, Entry
  <2> DEFINE m == <<e.d, e.k>>
  <2>2. m \in Deferred \X Kind
    BY <2>1 DEF Entries
  <2>3. \E c : callbacks' = [C EXCEPT ![m] = c]
    BY <1>3 DEF Invoke, InvokeState, InvokeDisable, InvokeLock, InvokeHandlers, InvokeScript,
       InvokeSettle, InvokePipe, InvokeUpdate, Fire
  <2> HIDE DEF m
  <2> QED BY <2>2, <2>3
<1>4. CASE e.do = "update"
  <2>1. joined.master \in Deferred
    BY <1>4, MineIs DEF CurrentOf, Late, Entry
  <2> DEFINE m == <<joined.master, "resolve">>
  <2>2. m \in Deferred \X Kind
    BY <2>1 DEF Kind
  <2>3. callbacks' = C \/ \E c : callbacks' = [C EXCEPT ![m] = c]
    BY <1>4 DEF Invoke, InvokeState, InvokeDisable, InvokeLock, InvokeHandlers, InvokeScript,
       InvokeSettle, InvokePipe, InvokeUpdate, Fire
  <2> HIDE DEF m
  <2> QED BY <2>2, <2>3
<1> QED BY <1>1, <1>2, <1>3, <1>4 DEF Entries, Doing

LEMMA OwnCallNext == ASSUME ListInv, OwnInv, CallNext PROVE OwnInv'
<1> DEFINE l == Top.l
           c == callbacks[l]
           e == Current(c)
           C == [callbacks EXCEPT ![l] = Advance(c)]
<1>1. /\ Running("loop") /\ Pending(c) /\ Invoke(e, c.memory, l, C, stack)
      /\ page' = page /\ calls' = calls /\ CallsGo
  BY DEF CallNext, fixed, CallsGo
<1>2. /\ l \in ListId /\ c.firing /\ List(c) /\ e \in Entries /\ e = c.list[c.index + 1]
      /\ c.index + 1 \in DOMAIN c.list
      /\ callbacks \in [ListId -> Listing] /\ Lists(Mine(page), joined, callbacks)
      /\ c.gone => c.list = <<>>
      /\ \A k : OnTop(stack, Loop(k)) => k = l
  BY <1>1, RunsLoop, TopLoop, ListIs
<1>3. Told1(l, e, c.memory)
  BY <1>1, InvokeSays
<1>4. DOMAIN seen = SeenField /\ seen.log \in [ListId -> Log] /\ UserList \in ListId
  BY TypesAre, ListIds DEF OwnInv
<1> DEFINE v == c.memory
           x == <<e.n, v>>
<1>5. seen'.adds = seen.adds /\ seen'.emptied = seen.emptied
      /\ (seen'.log = seen.log \/ seen'.log = [seen.log EXCEPT ![l] = Append(seen.log[l], x)])
  <2> HIDE DEF e, v
  <2>1. CASE e.do = "user" /\ seen' = [seen EXCEPT !.log[l] = Append(@, <<e.n, v>>)]
    BY <1>4, <2>1 DEF SeenField
  <2>2. CASE \E y : seen' = [seen EXCEPT !.told[e.d] = y]
    BY <1>4, <2>2 DEF SeenField
  <2>3. CASE seen' = seen
    BY <1>4, <2>3
  <2> QED BY <1>3, <2>1, <2>2, <2>3 DEF Told1, v
<1>6. seen'.log \in [ListId -> Log]
  <2>1. x \in Nat \X (Value \cup {None})
    BY <1>2, ListIs DEF Entries
  <2> DEFINE S == Nat \X (Value \cup {None})
  <2>2. seen.log[l] \in Seq(S)
    BY <1>2, <1>4 DEF Log
  <2> HIDE DEF S, x
  <2>3. Append(seen.log[l], x) \in Seq(S)
    BY <2>1, <2>2 DEF S
  <2>4. Append(seen.log[l], x) \in Log
    BY <2>3 DEF S, Log
  <2> HIDE DEF l
  <2> QED BY <1>2, <1>4, <1>5, <2>4
<1> HIDE DEF l
<1>7. CASE l # UserList
  <2>1. PICK d \in Deferred, k \in Kind : l = <<d, k>>
    BY <1>2, <1>7, ListIds
  <2>2. CurrentOf(d, k, e)
    BY <1>1, <2>1, CurrentIs DEF l
  <2>3. callbacks' = C \/ \E m \in Deferred \X Kind : \E y : callbacks' = [C EXCEPT ![m] = y]
    <3> HIDE DEF e, C, c
    <3> QED BY <1>1, <1>2, <2>2, InvokeChanges
  <2>4. callbacks'[UserList] = callbacks[UserList]
    <3>1. DOMAIN C = ListId /\ C[UserList] = callbacks[UserList]
      BY <1>2, <1>4, <1>7
    <3> HIDE DEF C
    <3> QED BY <1>4, <2>3, <3>1, ListIds
  <2>5. seen'.log[UserList] = seen.log[UserList]
    <3> HIDE DEF x
    <3> QED BY <1>4, <1>5, <1>7
  <2> QED BY <1>1, <1>2, <1>5, <1>6, <1>7, <2>4, <2>5, OwnKept
<1>8. CASE l = UserList
  <2> DEFINE L == seen.log[UserList]
             a == seen.adds[UserList]
             em == seen.emptied
             b == Advance(c)
             R == Append(L, x)
  <2>1. page.has = "list" /\ Own(c, L, a, calls, em)
    BY <1>2, <1>8, OwnFires DEF OwnInv
  <2>2. e.do = "user"
    BY <1>2, <1>8 DEF Lists
  <2>3. c.memory # None
    <3>1. ~c.gone /\ ~(c.index >= Len(c.list))
      <4>1. c.index \in Nat /\ Len(c.list) \in Nat /\ c.index < Len(c.list)
        BY <1>1, <1>2, ListIs DEF Pending
      <4>2. ~c.gone
        BY <1>2, <4>1
      <4> QED BY <4>1, <4>2
    <3> QED BY <1>2, <1>8, <3>1 DEF OwnInv, Halted
  <2>4. callbacks' = [callbacks EXCEPT ![UserList] = b]
    <3> HIDE DEF e, b
    <3>1. callbacks' = C
      BY <1>1, <2>2, InvokesUser
    <3> QED BY <1>8, <3>1 DEF b
  <2>5. seen'.log[UserList] = R
    <3>1. seen' = [seen EXCEPT !.log[l] = Append(@, x)]
      BY <1>3, <2>2 DEF Told1
    <3> HIDE DEF x
    <3> QED BY <1>4, <1>8, <3>1 DEF SeenField
  <2>6. Own(b, R, a, calls, em)
    <3> HIDE DEF L, a, em
    <3>1. Own(b, Append(L, <<Current(c).n, c.memory>>), a, calls, em)
      <4> HIDE DEF c
      <4> QED BY <1>1, <1>2, <2>1, <2>3, OwnCalled DEF c
    <3> QED BY <3>1
  <2>7. b.options = c.options /\ b.memory = c.memory
    <3> HIDE DEF c
    <3> QED BY <1>2 DEF Advance, List, ListOf, Listing, ListingOf
  <2>8. Halted(b, stack')
    BY <2>3, <2>7 DEF Halted
  <2>9. Own(b, seen'.log[UserList], seen'.adds[UserList], calls', seen'.emptied)
    <3> HIDE DEF b, R
    <3> QED BY <1>1, <1>5, <2>5, <2>6
  <2> HIDE DEF b
  <2> QED BY <1>1, <1>6, <1>8, <2>1, <2>4, <2>7, <2>8, <2>9, OwnChanged
<1> QED BY <1>7, <1>8

LEMMA OwnReturnToLoop == ASSUME ListInv, OwnInv, ReturnToLoop PROVE OwnInv'
<1> DEFINE q == Caller
           l == q.l
           c == callbacks[l]
           e == StopOnFalse(c)
<1>1. /\ Running("code") /\ Len(stack) > 1 /\ q.at = "loop" /\ stack' = Callers
      /\ page' = page /\ seen' = seen /\ calls' = calls /\ CallsGo
      /\ \E v \in Results : callbacks' = IF v = No THEN [callbacks EXCEPT ![l] = e] ELSE callbacks
  BY DEF ReturnToLoop, fixed, CallsGo
<1>2. /\ ~(callbacks[UserList].firing /\ callbacks[UserList].memory = None
             /\ ~callbacks[UserList].gone)
      /\ ~OnTop(stack, Loop(UserList)) /\ UserList \in ListId
      /\ callbacks \in [ListId -> Listing]
  BY <1>1, OwnAwake, TypesAre
<1>3. /\ seen'.log \in [ListId -> Log] /\ seen'.log[UserList] = seen.log[UserList]
      /\ seen'.adds[UserList] = seen.adds[UserList] /\ seen'.emptied = seen.emptied
  BY <1>1 DEF OwnInv
<1>4. CASE callbacks'[UserList] = callbacks[UserList]
  BY <1>1, <1>2, <1>3, <1>4, OwnKept
<1>5. CASE l = UserList /\ callbacks' = [callbacks EXCEPT ![l] = e]
  <2> DEFINE L == seen.log[UserList]
             a == seen.adds[UserList]
             em == seen.emptied
  <2>1. c.firing /\ List(c) /\ q = Loop(l) /\ OnTop(Callers, q)
    <3>1. Frame(Mine(page), joined, q) /\ q = stack[Len(stack) - 1]
          /\ Len(stack) - 1 \in DOMAIN stack
      BY <1>1, CutBelow
    <3>2. q = Loop(l) /\ l \in ListId
      BY <1>1, <3>1, FrameIs
    <3>3. c.firing
      BY <1>1, <3>1, TypesAre DEF Loops
    <3>4. OnTop(Callers, q)
      <4> DEFINE n == Len(stack) - 1
                 K == SubSeq(stack, 1, n)
      <4>1. n \in Nat /\ n <= Len(stack) /\ n \in 1..n
        BY <1>1, TypesAre
      <4>2. Len(K) = n /\ \A i \in 1..n : K[i] = stack[i]
        <5> HIDE DEF n
        <5> QED BY <4>1, TypesAre, FrameCut
      <4>3. K # <<>>
        <5> HIDE DEF K
        <5>1. n > 0
          BY <4>1
        <5> QED BY <4>2, <5>1
      <4> QED BY <3>1, <4>1, <4>2, <4>3 DEF OnTop, Callers
    <3> QED BY <3>2, <3>3, <3>4, TypesAre
  <2>2. page.has = "list" /\ Own(c, L, a, calls, em)
    BY <1>5, <2>1, OwnFires DEF OwnInv
  <2>3. Own(e, L, a, calls, em)
    <3> HIDE DEF c, L, a, em
    <3> QED BY <2>1, <2>2, OwnStopped
  <2>4. /\ e.options = c.options /\ e.list = c.list
        /\ (e.memory = None /\ e.index = Len(c.list)) \/ e = c
    <3> HIDE DEF c
    <3> QED BY <2>1, StopIs
  <2>5. Halted(e, stack')
    <3>1. Len(c.list) \in Nat
      BY <2>1, ListIs
    <3>2. ~(c.firing /\ c.memory = None /\ ~c.gone)
      BY <1>2, <1>5
    <3> HIDE DEF e, c
    <3> QED BY <1>1, <1>5, <2>1, <2>4, <3>1, <3>2 DEF Halted
  <2>6. Own(e, seen'.log[UserList], seen'.adds[UserList], calls', seen'.emptied)
    <3> HIDE DEF e
    <3> QED BY <1>1, <2>3
  <2> HIDE DEF e
  <2> QED BY <1>1, <1>3, <1>5, <2>2, <2>4, <2>5, <2>6, OwnChanged
<1>6. callbacks'[UserList] = callbacks[UserList]
      \/ (l = UserList /\ callbacks' = [callbacks EXCEPT ![l] = e])
  <2> HIDE DEF l, e
  <2> QED BY <1>1, <1>2
<1> QED BY <1>4, <1>5, <1>6

LEMMA OwnStep ==
  ASSUME ListInv, OwnInv, Next
  PROVE  OwnInv'
BY MostAreAside, OwnAside, OwnCallAdd, OwnCallMethod, OwnCallFire, OwnCallAlways,
   OwnCallNext, OwnEndLoop, OwnAddNext, OwnReturnToLoop

LEMMA OwnInitIs == ASSUME Init PROVE OwnInv
<1> DEFINE c == callbacks[UserList]
           L == seen.log[UserList]
           s == <<>>
<1>1. page \in Page /\ calls = 0
      /\ callbacks = [l \in ListId |->
           IF l = UserList THEN New(page.options)
           ELSE [New(Options(l[2])) EXCEPT !.list = Listeners(l[1], l[2])]]
      /\ seen.log = [l \in ListId |-> s] /\ seen.adds = [l \in ListId |-> 0]
      /\ seen.emptied = FALSE
  BY DEF Init
<1>2. c = New(page.options) /\ L = s /\ seen.adds[UserList] = 0
  BY <1>1, ListIds
<1>3. s \in Log /\ DOMAIN s = {} /\ s = <<>>
  BY EmptyIsSeq DEF Log
<1>4. /\ c.options = page.options /\ c.list = s /\ c.queue = s /\ c.memory = None
      /\ c.index = 0 /\ ~c.gone /\ ~c.locked /\ ~c.firing /\ Len(s) = 0
  BY <1>2 DEF New
<1>5. seen.log \in [ListId -> Log]
  BY <1>1, <1>3
<1> HIDE DEF s
<1>6. Own(c, s, 0, 0, FALSE)
  <2>1. Distinct(c, s, 0, 0)
    BY <1>3, <1>4 DEF Distinct
  <2>2. Passed(c, s, FALSE)
    BY <1>3, <1>4 DEF Passed
  <2>3. Single(c, s)
    BY <1>3, <1>4 DEF Single
  <2> QED BY <1>3, <2>1, <2>2, <2>3 DEF Own
<1>7. Halted(c, stack)
  BY <1>4 DEF Halted
<1>8. page.has # "list" => c = New(page.options) /\ L = <<>>
  BY <1>2, <1>3
<1> QED BY <1>1, <1>2, <1>4, <1>5, <1>6, <1>7, <1>8 DEF OwnInv

LEMMA OwnAlways == Spec => [](ListInv /\ OwnInv)
<1>1. Init => ListInv /\ OwnInv
  BY InitIs, OwnInitIs
<1>2. ListInv /\ OwnInv /\ [Next]_vars => (ListInv /\ OwnInv)'
  BY StepGoes, StutterGoes, OwnStep, OwnStutter
<1> QED BY <1>1, <1>2, PTL DEF Spec

LEMMA OwnSays ==
  ASSUME ListInv, OwnInv
  PROVE  NeverTwice /\ NobodyPassedOver /\ OnceIsOnce
<1> DEFINE c == callbacks[UserList]
           L == seen.log[UserList]
<1>1. /\ Distinct(c, L, seen.adds[UserList], calls) /\ Passed(c, L, seen.emptied) /\ Single(c, L)
      /\ c.options = page.options
  BY DEF OwnInv, Own
<1>2. List(c)
  BY TypesAre, ListIds
<1>3. NeverTwice
  BY <1>1 DEF Distinct, NeverTwice
<1>4. NobodyPassedOver
  <2>1. SUFFICES ASSUME c.firing, ~seen.emptied, c.memory # None,
                        NEW i \in (1..c.index) \cap DOMAIN c.list
                 PROVE  \E j \in DOMAIN L : L[j] = <<c.list[i].n, c.memory>>
    BY DEF NobodyPassedOver
  <2>2. i \in DOMAIN c.list /\ i <= c.index
    BY <1>2, <2>1, ListIs
  <2> HIDE DEF c, L
  <2> QED BY <1>1, <2>1, <2>2 DEF Passed
<1>5. OnceIsOnce
  BY <1>1 DEF Single, OnceIsOnce
<1> QED BY <1>3, <1>4, <1>5

-----------------------------------------------------------------------------
(* What the lists of an outcome owe the functions of the page *)

\* A list of an outcome, whatever its turn is.
Shape(c) ==
  /\ c.options = {"once", "memory"}
  /\ ~c.locked => ~c.firing /\ ~c.gone /\ c.memory = None
  /\ ~c.firing /\ ~c.gone /\ c.memory # None => c.list = <<>>
  /\ c.firing => c.locked /\ ~c.gone /\ c.memory # None /\ c.queue = <<>>

\* A function of the page that is to be called still.
Waits(c, i) == i > c.index /\ c.list[i].do = "user"

\* Of T adds those in L have been called, in order, and the rest waits, in order.
Ledger(c, L, T) ==
  /\ L \in Log /\ T \in Int
  /\ c.gone => L = <<>>
  /\ ~c.gone =>
       /\ \A i \in DOMAIN L : L[i] = <<i, c.memory>>
       /\ c.memory = None => L = <<>>
       /\ c.index <= Len(c.list) /\ Len(L) <= T
       /\ \A i \in DOMAIN c.list : Waits(c, i) => c.list[i].n \in (Len(L) + 1)..T
       /\ \A i, j \in DOMAIN c.list :
            Waits(c, i) /\ Waits(c, j) /\ i < j => c.list[i].n < c.list[j].n
       /\ \A m \in (Len(L) + 1)..T : \E i \in DOMAIN c.list : Waits(c, i) /\ c.list[i].n = m

\* Of a list that is gone nothing is owed.
LEMMA LedgerGone ==
  ASSUME NEW c, c.gone, NEW L, NEW T, Ledger(c, L, T), NEW e, e.gone, NEW S \in Int
  PROVE  Ledger(e, L, S)
BY DEF Ledger

LEMMA LedgerFired ==
  ASSUME NEW c, List(c), Shape(c), NEW L, NEW T, Ledger(c, L, T),
         NEW v, NEW e, e = FireWith(c, v)
  PROVE  Ledger(e, L, T) /\ e.gone = c.gone
<1>1. CASE c.locked
  <2>1. e = c
    BY <1>1 DEF FireWith
  <2> QED BY <2>1
<1>2. CASE ~c.locked
  <2>1. ~c.firing /\ ~c.gone /\ c.memory = None
    BY <1>2 DEF Shape
  <2> DEFINE z == Append(c.queue, v)
             q == [c EXCEPT !.queue = z]
  <2>2. e = Begin(q)
    BY <1>2, <2>1 DEF FireWith
  <2>3. e.list = c.list /\ e.gone = c.gone /\ e.index = c.index
    <3> HIDE DEF z
    <3> QED BY <2>2 DEF Begin, Shift, List, ListOf, Listing, ListingOf
  <2>4. L = <<>> /\ DOMAIN L = {}
    BY <2>1 DEF Ledger
  <2>5. \A i : Waits(e, i) <=> Waits(c, i)
    BY <2>3 DEF Waits
  <2> HIDE DEF Waits
  <2> QED BY <2>1, <2>3, <2>4, <2>5 DEF Ledger
<1> QED BY <1>1, <1>2

LEMMA LedgerAdded ==
  ASSUME NEW c, List(c), Shape(c), NEW L, NEW T, Ledger(c, L, T),
         NEW u \in Entries, NEW e, e = Add(c, u)
  PROVE  /\ u.do # "user" => Ledger(e, L, T)
         /\ u.do = "user" /\ u.n = T + 1 => Ledger(e, L, T + 1)
         /\ c.gone => e = c
<1>1. CASE c.gone
  <2>1. e = c
    BY <1>1, AddIs
  <2>2. T \in Int /\ T + 1 \in Int
    BY DEF Ledger
  <2> QED BY <1>1, <2>1, <2>2, LedgerGone
<1>2. CASE ~c.gone
  <2> DEFINE z == Append(c.list, u)
             n == Len(c.list)
  <2>1. /\ e.list = z /\ ~e.gone /\ e.memory = c.memory /\ e.index = c.index
    <3>1. "unique" \notin c.options
      BY DEF Shape
    <3>2. c.memory # None /\ ~c.firing => Len(c.list) = 0 /\ c.index = 0
      <4>1. c.memory # None /\ ~c.firing => c.list = <<>> /\ c.index = 0
        BY <1>2, ListIs DEF Shape
      <4> QED BY <4>1
    <3> HIDE DEF z
    <3> QED BY <1>2, <3>1, <3>2, AddIs DEF z
  <2>2. /\ n \in Nat /\ DOMAIN c.list = 1..n /\ c.index \in Nat
        /\ DOMAIN z = 1..(n + 1) /\ Len(z) = n + 1 /\ z[n + 1] = u
        /\ \A i \in 1..n : z[i] = c.list[i]
    BY ListIs, AppendIs
  <2>3. /\ L \in Log /\ T \in Int /\ Len(L) \in Nat
        /\ \A i \in DOMAIN L : L[i] = <<i, c.memory>>
        /\ c.memory = None => L = <<>>
        /\ c.index <= n /\ Len(L) <= T
        /\ \A i \in 1..n : Waits(c, i) => c.list[i].n \in (Len(L) + 1)..T
        /\ \A i, j \in 1..n :
             Waits(c, i) /\ Waits(c, j) /\ i < j => c.list[i].n < c.list[j].n
        /\ \A m \in (Len(L) + 1)..T : \E i \in 1..n : Waits(c, i) /\ c.list[i].n = m
    <3> HIDE DEF n
    <3> QED BY <1>2, <2>2, LogIs DEF Ledger, n
  <2> HIDE DEF n, z
  <2>4. \A i \in 1..n : Waits(e, i) <=> Waits(c, i)
    BY <2>1, <2>2 DEF Waits
  <2>5. Waits(e, n + 1) <=> u.do = "user"
    BY <2>1, <2>2, <2>3 DEF Waits
  <2>6. \A i \in 1..(n + 1) : i \in 1..n \/ i = n + 1
    BY <2>2
  <2>7. \A i \in 1..n : i \in 1..(n + 1) /\ i < n + 1
    BY <2>2
  <2> DEFINE l == Len(L)
  <2> HIDE DEF l
  <2>8. ASSUME u.do # "user" PROVE Ledger(e, L, T)
    <3>1. \A i \in 1..(n + 1) : Waits(e, i) => i \in 1..n /\ Waits(c, i) /\ z[i] = c.list[i]
      BY <2>2, <2>4, <2>5, <2>6, <2>8
    <3>2. c.index <= n + 1
      BY <2>2, <2>3
    <3>3. \A m \in (Len(L) + 1)..T : \E i \in 1..(n + 1) : Waits(e, i) /\ z[i].n = m
      BY <2>2, <2>3, <2>4, <2>7
    <3>4. \A i \in 1..(n + 1) : Waits(e, i) => z[i].n \in (Len(L) + 1)..T
      BY <2>3, <3>1
    <3>5. \A i, j \in 1..(n + 1) : Waits(e, i) /\ Waits(e, j) /\ i < j => z[i].n < z[j].n
      BY <2>3, <3>1
    <3> QED BY <2>1, <2>2, <2>3, <3>2, <3>3, <3>4, <3>5 DEF Ledger
  <2>9. ASSUME u.do = "user", u.n = T + 1 PROVE Ledger(e, L, T + 1)
    <3>1. c.index <= n + 1 /\ Len(L) <= T + 1 /\ T + 1 \in Int
      BY <2>2, <2>3
    <3>2. \A i \in 1..(n + 1) : Waits(e, i) => z[i].n \in (Len(L) + 1)..(T + 1)
      <4>1. \A i \in 1..n : Waits(e, i) => z[i].n \in (Len(L) + 1)..T
        BY <2>2, <2>3, <2>4
      <4>2. \A m \in (Len(L) + 1)..T : m \in (Len(L) + 1)..(T + 1)
        BY <2>3
      <4>3. T + 1 \in (Len(L) + 1)..(T + 1)
        BY <2>3
      <4> QED BY <2>2, <2>6, <2>9, <4>1, <4>2, <4>3
    <3>3. ASSUME NEW i \in 1..(n + 1), NEW j \in 1..(n + 1), Waits(e, i), Waits(e, j), i < j
          PROVE  z[i].n < z[j].n
      <4>1. i \in 1..n /\ Waits(c, i) /\ z[i] = c.list[i]
        BY <2>2, <2>4, <3>3
      <4>2. CASE j \in 1..n
        BY <2>2, <2>3, <2>4, <3>3, <4>1, <4>2
      <4>3. CASE j = n + 1
        BY <2>2, <2>3, <2>9, <4>1, <4>3
      <4> QED BY <2>6, <4>2, <4>3
    <3>4. ASSUME NEW m \in (Len(L) + 1)..(T + 1)
          PROVE  \E i \in 1..(n + 1) : Waits(e, i) /\ z[i].n = m
      <4>1. CASE m = T + 1
        <5>1. n + 1 \in 1..(n + 1)
          BY <2>2
        <5> QED BY <2>2, <2>5, <2>9, <4>1, <5>1
      <4>2. CASE m # T + 1
        <5>1. m \in (Len(L) + 1)..T
          BY <2>3, <3>4, <4>2
        <5> QED BY <2>2, <2>3, <2>4, <2>7, <5>1
      <4> QED BY <4>1, <4>2
    <3> QED BY <2>1, <2>2, <2>3, <3>1, <3>2, <3>3, <3>4 DEF Ledger
  <2> QED BY <1>2, <2>8, <2>9
<1> QED BY <1>1, <1>2

\* The loop moves on, and calls the function if it is one of the page.
LEMMA LedgerAdvanced ==
  ASSUME NEW c, List(c), Shape(c), c.firing, Pending(c), NEW L, NEW T, Ledger(c, L, T),
         NEW e, e = Advance(c)
  PROVE  /\ Current(c).do # "user" => Ledger(e, L, T)
         /\ Current(c).do = "user" => Ledger(e, Append(L, <<Current(c).n, c.memory>>), T)
         /\ Shape(e) /\ List(e)
<1> DEFINE n == Len(c.list)
           p == c.index + 1
           u == Current(c)
           s == c.list
           mem == c.memory
           l == Len(L)
<1>1. /\ List(e) /\ e.options = c.options /\ e.list = s /\ e.gone = c.gone
      /\ e.memory = mem /\ e.queue = c.queue /\ e.index = p
      /\ e.locked = c.locked /\ e.firing
  BY AdvanceIs
<1>2. Shape(e)
  BY <1>1 DEF Shape
<1>3. n \in Nat /\ Len(s) = n /\ DOMAIN s = 1..n /\ c.index \in Nat /\ s \in Seq(Entries)
      /\ mem \in Value \cup {None}
  BY ListIs
<1>4. p \in 1..n /\ u = s[p] /\ c.index < p
  BY <1>3 DEF Pending, Current
<1>5. ~c.gone /\ mem # None /\ s[p] \in Entries /\ s[p].n \in Nat
  <2>1. ~c.gone /\ mem # None
    BY DEF Shape
  <2> HIDE DEF n, p, s
  <2>2. s[p] \in Entries
    BY <1>3, <1>4
  <2> QED BY <2>1, <2>2 DEF Entries
<1>6. /\ L \in Log /\ T \in Int /\ l \in Nat /\ DOMAIN L = 1..l
      /\ \A i \in 1..l : L[i] = <<i, mem>>
      /\ l <= T
      /\ \A i \in 1..n : Waits(c, i) => s[i].n \in (l + 1)..T
      /\ \A i, j \in 1..n : Waits(c, i) /\ Waits(c, j) /\ i < j => s[i].n < s[j].n
      /\ \A m \in (l + 1)..T : \E i \in 1..n : Waits(c, i) /\ s[i].n = m
  <2> HIDE DEF n
  <2> QED BY <1>3, <1>5, LogIs DEF Ledger, n
<1>7. \A i \in 1..n : Waits(e, i) <=> Waits(c, i) /\ i # p
  BY <1>1, <1>3 DEF Waits
<1>8. Waits(c, p) <=> u.do = "user"
  BY <1>3, <1>4 DEF Waits
<1> HIDE DEF u, p, s, mem
<1>9. ASSUME u.do # "user" PROVE Ledger(e, L, T)
  <2>1. \A i \in 1..n : Waits(e, i) <=> Waits(c, i)
    BY <1>7, <1>8, <1>9
  <2>2. p <= n
    BY <1>3, <1>4
  <2>3. \A i, j \in 1..n : Waits(e, i) /\ Waits(e, j) /\ i < j => s[i].n < s[j].n
    BY <1>6, <2>1
  <2>4. \A m \in (l + 1)..T : \E i \in 1..n : Waits(e, i) /\ s[i].n = m
    BY <1>6, <2>1
  <2>5. \A i \in 1..n : Waits(e, i) => s[i].n \in (l + 1)..T
    BY <1>6, <2>1
  <2> HIDE DEF n, l
  <2>6. ~e.gone /\ Len(e.list) = n /\ DOMAIN e.list = 1..n /\ e.index <= n /\ l = Len(L)
        /\ e.memory # None
    BY <1>1, <1>3, <1>5, <2>2 DEF l
  <2>7. /\ \A i \in DOMAIN L : L[i] = <<i, e.memory>>
        /\ Len(L) <= T /\ T \in Int /\ L \in Log
    BY <1>1, <1>6, <2>6
  <2>8. \A i \in 1..n : Waits(e, i) => s[i].n \in (Len(L) + 1)..T
    BY <2>5, <2>6
  <2>9. \A m \in (Len(L) + 1)..T : \E i \in 1..n : Waits(e, i) /\ s[i].n = m
    BY <2>4, <2>6
  <2> QED BY <1>1, <2>3, <2>6, <2>7, <2>8, <2>9 DEF Ledger
<1>10. ASSUME u.do = "user" PROVE Ledger(e, Append(L, <<u.n, mem>>), T)
  <2>1. u.n = l + 1 /\ l + 1 <= T
    <3>1. u.n \in (l + 1)..T
      BY <1>4, <1>6, <1>8, <1>10
    <3>2. l + 1 \in (l + 1)..T
      BY <1>6, <3>1
    <3>3. PICK i \in 1..n : Waits(c, i) /\ s[i].n = l + 1
      BY <1>6, <3>2
    <3>4. i = p
      <4>1. i \in Nat /\ p \in Nat /\ p <= i
        BY <1>3, <3>3 DEF Waits, p
      <4>2. ~(p < i)
        BY <1>4, <1>6, <1>8, <1>10, <3>1, <3>3
      <4> QED BY <4>1, <4>2
    <3> QED BY <1>4, <1>6, <3>1, <3>3, <3>4
  <2> DEFINE x == <<u.n, mem>>
             R == Append(L, x)
  <2>2. x = <<l + 1, mem>> /\ x \in Nat \X (Value \cup {None})
    BY <1>3, <1>6, <2>1
  <2>3. R \in Log /\ Len(R) = l + 1 /\ DOMAIN R = 1..(l + 1) /\ R[l + 1] = x
        /\ \A i \in 1..l : R[i] = L[i]
    <3> DEFINE U == Nat \X (Value \cup {None})
    <3>1. L \in Seq(U) /\ x \in U
      BY <1>6, <2>2 DEF Log
    <3> HIDE DEF U, x
    <3>2. R \in Seq(U) /\ Len(R) = l + 1 /\ DOMAIN R = 1..(l + 1) /\ R[l + 1] = x
          /\ \A i \in 1..l : R[i] = L[i]
      BY <3>1, AppendIs
    <3> QED BY <3>2 DEF U, Log
  <2> HIDE DEF x, R, l
  <2>4. \A i \in 1..(l + 1) : R[i] = <<i, mem>>
    <3>1. \A i \in 1..(l + 1) : i \in 1..l \/ i = l + 1
      BY <1>6
    <3> QED BY <1>6, <2>2, <2>3, <3>1
  <2>5. p <= n
    BY <1>3, <1>4
  <2>6. \A i \in 1..n : Waits(e, i) => s[i].n \in (l + 2)..T
    <3> SUFFICES ASSUME NEW i \in 1..n, Waits(e, i)
                 PROVE  s[i].n \in (l + 2)..T
      OBVIOUS
    <3>1. Waits(c, i) /\ p < i
      BY <1>1, <1>3, <1>7 DEF Waits
    <3>2. s[p].n < s[i].n /\ s[i].n \in (l + 1)..T
      BY <1>4, <1>6, <1>8, <1>10, <3>1
    <3> QED BY <1>4, <1>6, <2>1, <3>2
  <2>7. \A m \in (l + 2)..T : \E i \in 1..n : Waits(e, i) /\ s[i].n = m
    <3> SUFFICES ASSUME NEW m \in (l + 2)..T
                 PROVE  \E i \in 1..n : Waits(e, i) /\ s[i].n = m
      OBVIOUS
    <3>1. m \in (l + 1)..T /\ m # l + 1
      BY <1>6
    <3>2. PICK i \in 1..n : Waits(c, i) /\ s[i].n = m
      BY <1>6, <3>1
    <3>3. i # p
      BY <1>4, <2>1, <3>1, <3>2
    <3> QED BY <1>7, <3>2, <3>3
  <2>8. \A i, j \in 1..n : Waits(e, i) /\ Waits(e, j) /\ i < j => s[i].n < s[j].n
    BY <1>6, <1>7
  <2>9. Len(R) + 1 = l + 2
    BY <1>6, <2>3
  <2> HIDE DEF n
  <2>a. ~e.gone /\ Len(e.list) = n /\ DOMAIN e.list = 1..n /\ e.index <= n /\ e.memory # None
    BY <1>1, <1>3, <1>5, <2>5
  <2>b. Len(R) <= T /\ T \in Int
    BY <1>6, <2>1, <2>3
  <2>10. Ledger(e, R, T)
    BY <1>1, <2>3, <2>4, <2>6, <2>7, <2>8, <2>9, <2>a, <2>b DEF Ledger
  <2> QED BY <2>10 DEF R, x
<1> QED BY <1>1, <1>2, <1>9, <1>10 DEF u, mem

LEMMA LedgerFinished ==
  ASSUME NEW c, List(c), Shape(c), c.firing, ~Pending(c), NEW L, NEW T, Ledger(c, L, T),
         NEW e, e = Finish(c)
  PROVE  Ledger(e, L, T) /\ ~e.gone
<1>1. /\ "memory" \in c.options /\ c.locked /\ ~c.gone /\ c.memory # None /\ c.queue = <<>>
  BY DEF Shape
<1>2. e.list = <<>> /\ ~e.gone /\ e.memory = c.memory /\ e.index = 0
  BY <1>1, FinishIs
<1> DEFINE s == e.list
<1>3. DOMAIN s = {} /\ Len(s) = 0
  <2>1. s = <<>>
    BY <1>2
  <2> QED BY <2>1
<1>4. /\ L \in Log /\ T \in Int /\ Len(L) \in Nat
      /\ \A i \in DOMAIN L : L[i] = <<i, c.memory>>
      /\ Len(L) <= T
      /\ \A m \in (Len(L) + 1)..T : \E i \in DOMAIN c.list : Waits(c, i) /\ c.list[i].n = m
  BY <1>1, LogIs DEF Ledger
<1>5. \A i \in DOMAIN c.list : ~Waits(c, i)
  <2>1. c.index \in Nat /\ Len(c.list) \in Nat /\ DOMAIN c.list = 1..Len(c.list)
    BY ListIs
  <2>2. Len(c.list) <= c.index
    BY <2>1 DEF Pending
  <2> QED BY <2>1, <2>2 DEF Waits
<1>6. (Len(L) + 1)..T = {}
  BY <1>4, <1>5
<1> HIDE DEF s
<1> QED BY <1>1, <1>2, <1>3, <1>4, <1>6 DEF Ledger, s

LEMMA LedgerDisabled ==
  ASSUME NEW c, List(c), c.memory = None, NEW L, NEW T, Ledger(c, L, T), NEW e, e = Disable(c)
  PROVE  Ledger(e, L, T) /\ e.gone
<1>1. e.gone
  BY DisableIs
<1>2. L = <<>>
  BY DEF Ledger
<1> QED BY <1>1, <1>2 DEF Ledger

LEMMA OutShape ==
  ASSUME ListInv, NEW d \in Deferred, NEW k \in Outs
  PROVE  LET c == callbacks[<<d, k>>]
             o == callbacks[<<d, Other(k)>>]
         IN /\ List(c) /\ Shape(c)
            /\ c.memory # None => o.memory = None
            /\ c.memory # None /\ ~c.firing => o.gone
<1> DEFINE M == Mine(page)
           c == callbacks[<<d, k>>]
           o == callbacks[<<d, Other(k)>>]
<1>1. /\ Lists(M, joined, callbacks) /\ Outcomes(M, joined, callbacks, state, stack)
      /\ <<d, k>> \in ListId /\ k \in Kind /\ <<d, k>> \in Deferred \X Kind
  BY ListIds DEF ListInv, Arranged
<1>2. List(c) /\ c.options = {"once", "memory"}
  <2>1. c.options = Options(<<d, k>>[2])
    BY <1>1 DEF Lists
  <2>2. Options(<<d, k>>[2]) = {"once", "memory"}
    BY ListIds
  <2> QED BY <1>1, <2>1, <2>2 DEF Lists
<1> HIDE DEF c, o
<1>3. ASSUME Waiting(M, joined, c, d, k) \/ Dead(c)
      PROVE  Shape(c) /\ c.memory = None
  BY <1>2, <1>3 DEF Waiting, Dead, Shape
<1>4. ASSUME First(M, joined, c, d, k) PROVE Shape(c) /\ c.firing
  BY <1>2, <1>4 DEF First, Shape
<1>5. ASSUME Again(M, joined, c) PROVE Shape(c)
  BY <1>2, <1>5 DEF Again, Shape
<1>6. ASSUME NEW j, Waiting(M, joined, o, d, j) \/ Dead(o)
      PROVE  o.memory = None
  BY <1>6 DEF Waiting, Dead
<1>7. ASSUME Dead(o) PROVE o.memory = None /\ o.gone
  BY <1>7 DEF Dead
<1>8. CASE CalmAt(M, joined, callbacks, state, d)
  <2>1. \/ Waiting(M, joined, c, d, k)
        \/ Dead(c)
        \/ Decided(M, joined, callbacks, state, d, k)
    BY <1>8, OutIs DEF c
  <2>2. CASE Decided(M, joined, callbacks, state, d, k)
    <3>1. (First(M, joined, c, d, k) \/ Again(M, joined, c)) /\ Dead(o)
      BY <2>2 DEF Decided, c, o
    <3> QED BY <1>2, <1>4, <1>5, <1>7, <3>1 DEF c, o
  <2> QED BY <1>2, <1>3, <2>1, <2>2 DEF c, o
<1>9. ASSUME NEW j \in Outs, Deciding(M, joined, callbacks, state, stack, d, j)
      PROVE  /\ Shape(c)
             /\ c.memory # None => o.memory = None
             /\ c.memory # None /\ ~c.firing => o.gone
  <2>1. CASE j = k
    <3>1. First(M, joined, c, d, k) /\ (Waiting(M, joined, o, d, Other(k)) \/ Dead(o))
      BY <1>9, <2>1 DEF Deciding, c, o
    <3> QED BY <1>4, <1>6, <3>1
  <2>2. CASE k = Other(j)
    <3>1. Waiting(M, joined, c, d, k) \/ Dead(c)
      BY <1>9, <2>2 DEF Deciding, c
    <3> QED BY <1>3, <3>1
  <2>3. j = k \/ k = Other(j)
    BY DEF Outs, Other
  <2> QED BY <2>1, <2>2, <2>3
<1> QED BY <1>1, <1>2, <1>8, <1>9 DEF Outcomes, c, o

\* What is left of always().
Both(d, m, n) ==
  Adds(<<<<<<d, "resolve">>, User(Nobody, m)>>, <<<<d, "reject">>, User(Nobody, n)>>>>)
Last(d, n) == Adds(<<<<<<d, "reject">>, User(Nobody, n)>>>>)

\* An add to l has been counted, and comes next.
Promised(K, l) ==
  /\ K # <<>> /\ K[Len(K)].at = "adds"
  /\ \E p \in DOMAIN K[Len(K)].todo : /\ K[Len(K)].todo[p][1] = l
                                      /\ K[Len(K)].todo[p][2].do = "user"

Arrived(A1, K, l) == IF Promised(K, l) THEN A1[l] - 1 ELSE A1[l]

\* The frame f of always(): what it adds comes next, or is for a list that is gone.
InVain(C, f) == \E d \in Deferred : \E n : f = Last(d, n) /\ C[<<d, "reject">>].gone

InTime(A1, f) ==
  \E d \in Deferred : \/ f = Both(d, A1[<<d, "resolve">>], A1[<<d, "reject">>])
                      \/ f = Last(d, A1[<<d, "reject">>])

AddsOK(C, A1, K) ==
  \A i \in DOMAIN K : Urgent(K[i]) => InVain(C, K[i]) \/ (i = Len(K) /\ InTime(A1, K[i]))

Outcome1(d, k) ==
  /\ seen.log[<<d, k>>] # <<>> => state[d] = Final(k)
  /\ Ledger(callbacks[<<d, k>>], seen.log[<<d, k>>], Arrived(seen.adds, stack, <<d, k>>))

OrderInv ==
  /\ \A d \in Deferred : \A k \in Outs : Outcome1(d, k)
  /\ AddsOK(callbacks, seen.adds, stack)

LEMMA BothIs ==
  ASSUME NEW d, NEW m, NEW n
  PROVE  /\ Both(d, m, n).at = "adds" /\ Last(d, n).at = "adds"
         /\ Both(d, m, n).todo = <<<<<<d, "resolve">>, User(Nobody, m)>>,
                                   <<<<d, "reject">>, User(Nobody, n)>>>>
         /\ Last(d, n).todo = <<<<<<d, "reject">>, User(Nobody, n)>>>>
         /\ Urgent(Both(d, m, n)) /\ Urgent(Last(d, n))
BY DEF Both, Last, Adds, Urgent, User

\* Who is promised something by these frames.
LEMMA PromisedBy ==
  ASSUME NEW K, K # <<>>, NEW d, NEW m, NEW n, NEW l
  PROVE  /\ K[Len(K)] = Last(d, n) => (Promised(K, l) <=> l = <<d, "reject">>)
         /\ K[Len(K)] = Both(d, m, n) =>
              (Promised(K, l) <=> l = <<d, "reject">> \/ l = <<d, "resolve">>)
         /\ ~Urgent(K[Len(K)]) => ~Promised(K, l)
<1> DEFINE f == K[Len(K)]
           x == User(Nobody, m)
           y == User(Nobody, n)
<1>1. x.do = "user" /\ y.do = "user"
  BY DEF User
<1> HIDE DEF f, x, y
<1>2. ASSUME f = Last(d, n) PROVE Promised(K, l) <=> l = <<d, "reject">>
  <2>1. f.at = "adds" /\ f.todo = <<<<<<d, "reject">>, y>>>>
    BY <1>2, BothIs DEF y
  <2>2. DOMAIN f.todo = {1} /\ f.todo[1][1] = <<d, "reject">> /\ f.todo[1][2] = y
    BY <2>1
  <2> QED BY <1>1, <2>1, <2>2 DEF Promised, f
<1>3. ASSUME f = Both(d, m, n)
      PROVE  Promised(K, l) <=> l = <<d, "reject">> \/ l = <<d, "resolve">>
  <2>1. f.at = "adds" /\ f.todo = <<<<<<d, "resolve">>, x>>, <<<<d, "reject">>, y>>>>
    BY <1>3, BothIs DEF x, y
  <2>2. DOMAIN f.todo = {1, 2} /\ f.todo[1][1] = <<d, "resolve">> /\ f.todo[1][2] = x
        /\ f.todo[2][1] = <<d, "reject">> /\ f.todo[2][2] = y
    BY <2>1
  <2> QED BY <1>1, <2>1, <2>2 DEF Promised, f
<1>4. ASSUME ~Urgent(f) PROVE ~Promised(K, l)
  BY <1>4 DEF Urgent, Promised, f
<1> QED BY <1>2, <1>3, <1>4 DEF f

\* Steps that leave no new adds of always behind.
LEMMA OrderBelow ==
  ASSUME ListInv, OrderInv, Below(stack'),
         \A d \in Deferred : callbacks[<<d, "reject">>].gone => callbacks'[<<d, "reject">>].gone,
         \A d \in Deferred : \A k \in Outs :
           /\ seen'.log[<<d, k>>] # <<>> => state'[d] = Final(k)
           /\ Ledger(callbacks'[<<d, k>>], seen'.log[<<d, k>>], seen'.adds[<<d, k>>])
  PROVE  OrderInv'
<1> DEFINE C == callbacks'
           L == seen'.log
           B == seen'.adds
           K == stack'
<1>1. Len(stack) \in Nat /\ DOMAIN stack = 1..Len(stack)
  BY TypesAre
<1>2. ASSUME NEW f, Urgent(f), NEW j \in 1..(Len(stack) - 1), f = stack[j]
      PROVE  InVain(C, f)
  <2>1. j \in DOMAIN stack /\ j # Len(stack)
    BY <1>1
  <2>2. InVain(callbacks, f)
    BY <1>2, <2>1 DEF OrderInv, AddsOK
  <2>3. \A d \in Deferred : callbacks[<<d, "reject">>].gone => C[<<d, "reject">>].gone
    OBVIOUS
  <2> HIDE DEF C
  <2> QED BY <2>2, <2>3 DEF InVain
<1>3. \A i \in DOMAIN K : Urgent(K[i]) => InVain(C, K[i])
  BY <1>2 DEF Below
<1>4. PICK T : K \in Seq(T)
  BY DEF Below
<1>5. K # <<>> => Len(K) \in DOMAIN K
  BY <1>4
<1>6. \A d \in Deferred : \A k \in Outs :
        /\ L[<<d, k>>] # <<>> => state'[d] = Final(k)
        /\ Ledger(C[<<d, k>>], L[<<d, k>>], B[<<d, k>>])
  OBVIOUS
<1> HIDE DEF C, L, B, K
<1>7. AddsOK(C, B, K)
  BY <1>3 DEF AddsOK
<1>8. ASSUME NEW d \in Deferred, NEW k \in Outs
      PROVE  Ledger(C[<<d, k>>], L[<<d, k>>], Arrived(B, K, <<d, k>>))
  <2>1. CASE ~Promised(K, <<d, k>>)
    BY <1>6, <2>1 DEF Arrived
  <2>2. CASE Promised(K, <<d, k>>)
    <3>1. K # <<>> /\ Urgent(K[Len(K)])
      BY <2>2 DEF Promised, Urgent
    <3>2. PICK a \in Deferred : \E n : K[Len(K)] = Last(a, n) /\ C[<<a, "reject">>].gone
      BY <1>3, <1>5, <3>1 DEF InVain
    <3>3. PICK n : K[Len(K)] = Last(a, n)
      BY <3>2
    <3>4. <<d, k>> = <<a, "reject">>
      BY <2>2, <3>1, <3>3, PromisedBy
    <3>5. C[<<d, k>>].gone
      BY <3>2, <3>4
    <3> DEFINE c == C[<<d, k>>]
               M == L[<<d, k>>]
               S == B[<<d, k>>]
               R == Arrived(B, K, <<d, k>>)
    <3>6. Ledger(c, M, S) /\ c.gone
      BY <1>6, <3>5
    <3>7. R = S - 1
      BY <2>2 DEF Arrived
    <3> HIDE DEF c, M, S, R
    <3>8. R \in Int
      BY <3>6, <3>7 DEF Ledger
    <3>9. Ledger(c, M, R)
      BY <3>6, <3>8, LedgerGone
    <3> QED BY <3>9 DEF c, M, R
  <2> QED BY <2>1, <2>2
<1>9. \A d \in Deferred : \A k \in Outs : Outcome1(d, k)'
  BY <1>6, <1>8 DEF Outcome1, C, L, B, K
<1> QED BY <1>7, <1>9 DEF OrderInv, C, B, K

LEMMA SettledStays ==
  ASSUME ListInv, Next, NEW d \in Deferred, NEW k \in Outs, state[d] = Final(k)
  PROVE  state'[d] = Final(k)
<1>1. CASE Keeps(Deferred, callbacks, state, callbacks', state')
  BY <1>1 DEF Keeps
<1>2. ASSUME NEW a \in Deferred, NEW j \in Outs, Settles(a, j)
      PROVE  state'[d] = Final(k)
  <2>1. d # a
    BY <1>2, ListIds DEF Settles, Open
  <2>2. state' = [state EXCEPT ![a] = Final(j)] /\ d \in DOMAIN state
    BY <1>2 DEF Settles, ListInv, Typed
  <2> QED BY <2>1, <2>2
<1>3. ASSUME NEW a \in Deferred, NEW j \in Outs, Tells(a, j)
      PROVE  state'[d] = Final(k)
  BY <1>3 DEF Tells
<1> QED BY <1>1, <1>2, <1>3, StepGoes

\* Nothing is promised while nobody adds.
LEMMA Unpromised ==
  ASSUME ListInv, OrderInv, stack = <<>> \/ ~Urgent(Top), NEW d \in Deferred, NEW k \in Outs
  PROVE  Ledger(callbacks[<<d, k>>], seen.log[<<d, k>>], seen.adds[<<d, k>>])
<1>1. ~Promised(stack, <<d, k>>)
  BY PromisedBy DEF Promised, Top
<1>2. Ledger(callbacks[<<d, k>>], seen.log[<<d, k>>], Arrived(seen.adds, stack, <<d, k>>))
  BY DEF OrderInv, Outcome1
<1> QED BY <1>1, <1>2 DEF Arrived

\* Steps that call nobody of the page.
LEMMA OrderKept ==
  ASSUME ListInv, OrderInv, Next, Below(stack'), seen'.log = seen.log,
         \A d \in Deferred : \A k \in Outs :
           /\ callbacks[<<d, k>>].gone => callbacks'[<<d, k>>].gone
           /\ Ledger(callbacks'[<<d, k>>], seen.log[<<d, k>>], seen'.adds[<<d, k>>])
  PROVE  OrderInv'
<1>1. ASSUME NEW d \in Deferred, NEW k \in Outs, seen'.log[<<d, k>>] # <<>>
      PROVE  state'[d] = Final(k)
  <2>1. state[d] = Final(k)
    BY <1>1 DEF OrderInv, Outcome1
  <2> QED BY <2>1, SettledStays
<1>2. \A d \in Deferred : callbacks[<<d, "reject">>].gone => callbacks'[<<d, "reject">>].gone
  BY DEF Outs
<1>3. \A d \in Deferred : \A k \in Outs :
        Ledger(callbacks'[<<d, k>>], seen'.log[<<d, k>>], seen'.adds[<<d, k>>])
  OBVIOUS
<1> QED BY <1>1, <1>2, <1>3, OrderBelow

LEMMA OrderStutter ==
  ASSUME OrderInv, UNCHANGED vars
  PROVE  OrderInv'
BY DEF vars, OrderInv, Outcome1, AddsOK

\* A list of an outcome after a step of all lists but those of outcomes, or of one of them.
LEMMA OrderOne ==
  ASSUME ListInv, OrderInv, Next, Below(stack'), seen'.log = seen.log, seen'.adds = seen.adds,
         stack = <<>> \/ ~Urgent(Top),
         NEW l \in ListId, NEW x, callbacks' = [callbacks EXCEPT ![l] = x],
         \A d \in Deferred : \A k \in Outs : l = <<d, k>> =>
           /\ callbacks[l].gone => x.gone
           /\ Ledger(x, seen.log[l], seen.adds[l])
  PROVE  OrderInv'
<1>1. ASSUME NEW d \in Deferred, NEW k \in Outs
      PROVE  /\ callbacks[<<d, k>>].gone => callbacks'[<<d, k>>].gone
             /\ Ledger(callbacks'[<<d, k>>], seen.log[<<d, k>>], seen'.adds[<<d, k>>])
  <2>0. callbacks \in [ListId -> Listing] /\ <<d, k>> \in ListId
    BY TypesAre, ListIds
  <2>1. CASE l = <<d, k>>
    <3>1. callbacks'[<<d, k>>] = x
      BY <2>0, <2>1
    <3> QED BY <2>1, <3>1
  <2>2. CASE l # <<d, k>>
    <3>1. callbacks'[<<d, k>>] = callbacks[<<d, k>>]
      BY <2>0, <2>2
    <3>2. Ledger(callbacks[<<d, k>>], seen.log[<<d, k>>], seen.adds[<<d, k>>])
      BY Unpromised
    <3> QED BY <3>1, <3>2
  <2> QED BY <2>1, <2>2
<1> QED BY <1>1, OrderKept

LEMMA OrderSame ==
  ASSUME ListInv, OrderInv, Next, Below(stack'), seen'.log = seen.log, seen'.adds = seen.adds,
         stack = <<>> \/ ~Urgent(Top),
         \A d \in Deferred : \A k \in Outs : callbacks'[<<d, k>>] = callbacks[<<d, k>>]
  PROVE  OrderInv'
<1>1. ASSUME NEW d \in Deferred, NEW k \in Outs
      PROVE  /\ callbacks[<<d, k>>].gone => callbacks'[<<d, k>>].gone
             /\ Ledger(callbacks'[<<d, k>>], seen.log[<<d, k>>], seen'.adds[<<d, k>>])
  BY Unpromised
<1> QED BY <1>1, OrderKept

LEMMA OrderFired ==
  ASSUME ListInv, OrderInv, Next, Below(stack'), seen'.log = seen.log, seen'.adds = seen.adds,
         stack = <<>> \/ ~Urgent(Top),
         NEW l \in ListId, NEW v, callbacks' = [callbacks EXCEPT ![l] = FireWith(callbacks[l], v)]
  PROVE  OrderInv'
<1> DEFINE c == callbacks[l]
           x == FireWith(c, v)
<1>1. ASSUME NEW d \in Deferred, NEW k \in Outs, l = <<d, k>>
      PROVE  /\ c.gone => x.gone
             /\ Ledger(x, seen.log[l], seen.adds[l])
  <2>1. List(c) /\ Shape(c)
    BY <1>1, OutShape
  <2>2. Ledger(c, seen.log[l], seen.adds[l])
    BY <1>1, Unpromised
  <2> HIDE DEF c
  <2>3. x.gone = c.gone /\ Ledger(x, seen.log[l], seen.adds[l])
    BY <2>1, <2>2, LedgerFired
  <2> QED BY <2>3
<1> HIDE DEF c, x
<1> QED BY <1>1, OrderOne DEF c, x

\* A function that is not of the page is added.
LEMMA OrderAdded ==
  ASSUME ListInv, OrderInv, Next, Below(stack'), seen'.log = seen.log, seen'.adds = seen.adds,
         stack = <<>> \/ ~Urgent(Top),
         NEW l \in ListId, NEW u \in Entries, u.do # "user",
         callbacks' = [callbacks EXCEPT ![l] = Add(callbacks[l], u)]
  PROVE  OrderInv'
<1> DEFINE c == callbacks[l]
           x == Add(c, u)
<1>1. ASSUME NEW d \in Deferred, NEW k \in Outs, l = <<d, k>>
      PROVE  /\ c.gone => x.gone
             /\ Ledger(x, seen.log[l], seen.adds[l])
  <2>1. List(c) /\ Shape(c)
    BY <1>1, OutShape
  <2>2. Ledger(c, seen.log[l], seen.adds[l])
    BY <1>1, Unpromised
  <2> HIDE DEF c
  <2>3. (c.gone => x = c) /\ Ledger(x, seen.log[l], seen.adds[l])
    BY <2>1, <2>2, LedgerAdded
  <2> QED BY <2>3
<1> HIDE DEF c, x
<1> QED BY <1>1, OrderOne DEF c, x

LEMMA OrderAside ==
  ASSUME ListInv, OrderInv, Next, Aside
  PROVE  OrderInv'
<1>1. /\ Below(stack') /\ seen'.log = seen.log /\ seen'.adds = seen.adds
      /\ stack = <<>> \/ ~Urgent(Top)
  BY DEF Aside, SameLog, Urgent
<1>2. CASE callbacks' = callbacks
  BY <1>1, <1>2, OrderSame
<1>3. \A l \in Deferred \X Kind : l \in ListId
  BY DEF ListId
<1>4. ASSUME NEW l \in Deferred \X Kind, NEW v,
             callbacks' = [callbacks EXCEPT ![l] = FireWith(callbacks[l], v)]
      PROVE  OrderInv'
  BY <1>1, <1>3, <1>4, OrderFired
<1>5. ASSUME NEW l \in Deferred \X Kind, NEW e \in Entries, e.do = "update",
             callbacks' = [callbacks EXCEPT ![l] = Add(callbacks[l], e)]
      PROVE  OrderInv'
  BY <1>1, <1>3, <1>5, OrderAdded
<1> QED BY <1>2, <1>4, <1>5 DEF Aside, OneList

LEMMA OrderCallAdd == ASSUME ListInv, OrderInv, Next, CallAdd PROVE OrderInv'
<1>1. Running("code")
  BY DEF CallAdd, May
<1>2. PICK l \in ListId, f \in Function :
        /\ Apply(l, Add(callbacks[l], User(f, seen.adds[l] + 1)), stack)
        /\ seen' = [seen EXCEPT !.adds[l] = seen.adds[l] + 1]
  BY DEF CallAdd
<1>3. Top.at = "code" /\ Below(stack) /\ DOMAIN seen = SeenField /\ stack # <<>>
  BY <1>1, CodeBelow
<1>4. seen.adds \in [ListId -> Nat] /\ callbacks \in [ListId -> Listing]
  BY TypesAre
<1> DEFINE n == seen.adds[l] + 1
           c == callbacks[l]
           u == User(f, n)
           x == Add(c, u)
<1>5. seen'.log = seen.log /\ seen'.adds = [seen.adds EXCEPT ![l] = n]
  BY <1>2, <1>3 DEF SeenField
<1>6. u \in Entries /\ u.do = "user" /\ u.n = n /\ n \in Nat
  <2>1. n \in Nat
    BY <1>4
  <2> HIDE DEF n
  <2> QED BY <2>1, UserIs DEF User
<1>7. Below(stack') /\ callbacks' = [callbacks EXCEPT ![l] = x]
  <2>1. Apply(l, x, stack)
    BY <1>2
  <2> HIDE DEF x
  <2> QED BY <1>3, <2>1, BelowApplied
<1>8. ASSUME NEW d \in Deferred, NEW k \in Outs
      PROVE  /\ callbacks[<<d, k>>].gone => callbacks'[<<d, k>>].gone
             /\ Ledger(callbacks'[<<d, k>>], seen.log[<<d, k>>], seen'.adds[<<d, k>>])
  <2>1. <<d, k>> \in ListId
    BY ListIds
  <2>2. Ledger(callbacks[<<d, k>>], seen.log[<<d, k>>], seen.adds[<<d, k>>])
    BY <1>3, Unpromised DEF Urgent
  <2>3. CASE l # <<d, k>>
    <3> HIDE DEF x, n
    <3>1. callbacks'[<<d, k>>] = callbacks[<<d, k>>] /\ seen'.adds[<<d, k>>] = seen.adds[<<d, k>>]
      BY <1>4, <1>5, <1>7, <2>1, <2>3
    <3> QED BY <2>2, <3>1
  <2>4. CASE l = <<d, k>>
    <3> DEFINE L == seen.log[l]
               T == seen.adds[l]
    <3>1. List(c) /\ Shape(c)
      BY <2>4, OutShape
    <3>2. Ledger(c, L, T)
      BY <2>2, <2>4
    <3>3. Ledger(x, L, n) /\ (c.gone => x = c)
      <4>1. u.n = T + 1 /\ n = T + 1
        BY <1>6
      <4> HIDE DEF c, u, n, L, T
      <4>2. Ledger(x, L, T + 1) /\ (c.gone => x = c)
        BY <1>6, <3>1, <3>2, <4>1, LedgerAdded
      <4> QED BY <4>1, <4>2
    <3> HIDE DEF x, n
    <3>4. callbacks'[l] = x /\ seen'.adds[l] = n
      BY <1>4, <1>5, <1>7, <2>1, <2>4
    <3> QED BY <2>4, <3>3, <3>4
  <2> QED BY <2>3, <2>4
<1> QED BY <1>5, <1>7, <1>8, OrderKept

LEMMA OrderCallMethod == ASSUME ListInv, OrderInv, Next, CallMethod PROVE OrderInv'
<1>1. /\ Running("code")
      /\ \E e : Apply(UserList, e, stack)
      /\ seen' = seen \/ \E y : seen' = [seen EXCEPT !.emptied = y]
  BY DEF CallMethod, May
<1>2. Top.at = "code" /\ Below(stack) /\ DOMAIN seen = SeenField /\ stack # <<>>
  BY <1>1, CodeBelow
<1>3. seen'.log = seen.log /\ seen'.adds = seen.adds
  BY <1>1, <1>2 DEF SeenField
<1>4. PICK e : Apply(UserList, e, stack)
  BY <1>1
<1>5. Below(stack') /\ callbacks' = [callbacks EXCEPT ![UserList] = e]
  BY <1>2, <1>4, BelowApplied
<1>6. \A d \in Deferred : \A k \in Outs : callbacks'[<<d, k>>] = callbacks[<<d, k>>]
  BY <1>5, TypesAre, ListIds
<1> QED BY <1>2, <1>3, <1>5, <1>6, OrderSame DEF Urgent

LEMMA OrderCallFire == ASSUME ListInv, OrderInv, Next, CallFire PROVE OrderInv'
<1>1. Running("code") /\ seen' = seen
  BY DEF CallFire, May
<1>2. PICK l \in ListId : \E v : Apply(l, FireWith(callbacks[l], v), stack)
  BY DEF CallFire
<1>3. PICK v : Apply(l, FireWith(callbacks[l], v), stack)
  BY <1>2
<1>4. Top.at = "code" /\ Below(stack) /\ stack # <<>>
  BY <1>1, CodeBelow
<1> DEFINE x == FireWith(callbacks[l], v)
<1>5. Below(stack') /\ callbacks' = [callbacks EXCEPT ![l] = x]
  <2> HIDE DEF x
  <2> QED BY <1>3, <1>4, BelowApplied DEF x
<1> QED BY <1>1, <1>4, <1>5, OrderFired DEF Urgent

LEMMA OrderReturnToLoop == ASSUME ListInv, OrderInv, Next, ReturnToLoop PROVE OrderInv'
<1> DEFINE q == Caller
           l == q.l
           c == callbacks[l]
           e == StopOnFalse(c)
<1>1. /\ Running("code") /\ Len(stack) > 1 /\ q.at = "loop" /\ stack' = Callers
      /\ seen' = seen
      /\ \E v \in Results : callbacks' = IF v = No THEN [callbacks EXCEPT ![l] = e] ELSE callbacks
  BY DEF ReturnToLoop
<1>2. Top.at = "code" /\ Below(Callers) /\ stack # <<>>
  BY <1>1, CodeBelow
<1>3. l \in ListId
  BY <1>1, CutBelow, FrameIs
<1>4. CASE callbacks' = callbacks
  BY <1>1, <1>2, <1>4, OrderSame DEF Urgent
<1>5. CASE callbacks' = [callbacks EXCEPT ![l] = e]
  <2>1. ASSUME NEW d \in Deferred, NEW k \in Outs, l = <<d, k>>
        PROVE  /\ c.gone => e.gone
               /\ Ledger(e, seen.log[l], seen.adds[l])
    <3>1. Shape(c) /\ Ledger(c, seen.log[l], seen.adds[l])
      BY <1>2, <2>1, OutShape, Unpromised DEF Urgent
    <3> HIDE DEF c
    <3>2. e = c
      BY <3>1 DEF Shape, StopOnFalse
    <3> HIDE DEF e
    <3> QED BY <3>1, <3>2
  <2> HIDE DEF e, c, l
  <2> QED BY <1>1, <1>2, <1>3, <1>5, <2>1, OrderOne DEF Urgent, c
<1> QED BY <1>1, <1>4, <1>5

LEMMA OrderEndLoop == ASSUME ListInv, OrderInv, Next, EndLoop PROVE OrderInv'
<1> DEFINE l == Top.l
           c == callbacks[l]
<1>1. /\ Running("loop") /\ ~Pending(c) /\ seen' = seen
      /\ IF c.queue # <<>>
         THEN callbacks' = [callbacks EXCEPT ![l] = NextValue(c)] /\ stack' = stack
         ELSE callbacks' = [callbacks EXCEPT ![l] = Finish(c)] /\ stack' = Callers
  BY DEF EndLoop
<1>2. l \in ListId /\ c.firing /\ List(c) /\ Top.at = "loop" /\ stack # <<>>
  BY <1>1, TopLoop DEF Loop
<1>3. Below(stack')
  BY <1>1, <1>2, BelowIs
<1> HIDE DEF l
<1>4. ASSUME NEW d \in Deferred, NEW k \in Outs, l = <<d, k>>
      PROVE  Shape(c) /\ Ledger(c, seen.log[l], seen.adds[l]) /\ c.queue = <<>>
  <2>1. Shape(c) /\ Ledger(c, seen.log[l], seen.adds[l])
    BY <1>2, <1>4, OutShape, Unpromised DEF Urgent
  <2> QED BY <1>2, <2>1 DEF Shape
<1>5. CASE c.queue # <<>>
  <2> DEFINE e == NextValue(c)
  <2> HIDE DEF e
  <2>1. callbacks' = [callbacks EXCEPT ![l] = e]
    BY <1>1, <1>5 DEF e
  <2> QED BY <1>1, <1>2, <1>3, <1>4, <1>5, <2>1, OrderOne DEF Urgent
<1>6. CASE c.queue = <<>>
  <2> DEFINE e == Finish(c)
  <2>1. callbacks' = [callbacks EXCEPT ![l] = e]
    BY <1>1, <1>6
  <2>2. ASSUME NEW d \in Deferred, NEW k \in Outs, l = <<d, k>>
        PROVE  (c.gone => e.gone) /\ Ledger(e, seen.log[l], seen.adds[l])
    <3>1. Shape(c) /\ Ledger(c, seen.log[l], seen.adds[l])
      BY <1>4, <2>2
    <3> HIDE DEF c
    <3>2. Ledger(e, seen.log[l], seen.adds[l]) /\ ~c.gone
      BY <1>1, <1>2, <3>1, LedgerFinished DEF Shape
    <3> QED BY <3>2
  <2> HIDE DEF e, c
  <2> QED BY <1>1, <1>2, <1>3, <2>1, <2>2, OrderOne DEF Urgent, c
<1> QED BY <1>5, <1>6

LEMMA OrderCallAlways == ASSUME ListInv, OrderInv, Next, CallAlways PROVE OrderInv'
<1>1. Running("code") /\ callbacks' = callbacks
  BY DEF CallAlways, May
<1>2. PICK d \in Born :
        /\ seen' = [seen EXCEPT !.adds[<<d, "resolve">>] = @ + 1,
                                !.adds[<<d, "reject">>] = @ + 1]
        /\ stack' = Append(stack, Both(d, seen'.adds[<<d, "resolve">>], seen'.adds[<<d, "reject">>]))
  BY DEF CallAlways, Both
<1>3. Top.at = "code" /\ DOMAIN seen = SeenField /\ stack # <<>>
  BY <1>1, CodeBelow
<1> DEFINE p == <<d, "resolve">>
           q == <<d, "reject">>
           A0 == seen.adds
           B == seen'.adds
           f == Both(d, B[p], B[q])
           K == stack'
           n == Len(stack)
<1>4. /\ d \in Deferred /\ p \in ListId /\ q \in ListId /\ p # q
      /\ A0 \in [ListId -> Nat] /\ n \in Nat /\ DOMAIN stack = 1..n
  BY TypesAre, ListIds DEF Born, Kind
<1>5. /\ seen'.log = seen.log
      /\ B = [[A0 EXCEPT ![p] = @ + 1] EXCEPT ![q] = @ + 1]
  <2> HIDE DEF p, q
  <2>1. seen' = [seen EXCEPT !.adds[p] = @ + 1, !.adds[q] = @ + 1]
    BY <1>2 DEF p, q
  <2> QED BY <1>3, <2>1 DEF SeenField
<1>6. /\ B[p] = A0[p] + 1 /\ B[q] = A0[q] + 1
      /\ \A l \in ListId : l # p /\ l # q => B[l] = A0[l]
  <2> HIDE DEF p, q, A0, B
  <2> QED BY <1>4, <1>5
<1>7. /\ Len(K) = n + 1 /\ DOMAIN K = 1..(n + 1) /\ K[n + 1] = f /\ K # <<>>
      /\ \A i \in 1..n : K[i] = stack[i]
  <2>1. PICK T : stack \in Seq(T)
    BY TypesAre DEF Frames
  <2> DEFINE U == T \cup {f}
  <2>2. stack \in Seq(U) /\ f \in U
    BY <2>1
  <2>3. K = Append(stack, f)
    BY <1>2
  <2> HIDE DEF U, f, K
  <2>4. Len(K) = n + 1 /\ DOMAIN K = 1..(n + 1) /\ K[n + 1] = f /\ \A i \in 1..n : K[i] = stack[i]
    BY <2>2, <2>3, AppendIs
  <2>5. K # <<>>
    BY <1>4, <2>4
  <2> QED BY <2>4, <2>5
<1>8. AddsOK(callbacks', B, K)
  <2>1. ASSUME NEW i \in 1..(n + 1), Urgent(K[i])
        PROVE  InVain(callbacks', K[i]) \/ (i = n + 1 /\ InTime(B, K[i]))
    <3>1. CASE i = n + 1
      <4> HIDE DEF B, K
      <4> QED BY <1>4, <1>7, <3>1 DEF InTime, f
    <3>2. CASE i # n + 1
      <4>1. i \in 1..n /\ K[i] = stack[i]
        BY <1>4, <1>7, <3>2
      <4>2. i # Len(stack)
        BY <1>3, <2>1, <4>1 DEF Urgent, Top
      <4>3. InVain(callbacks, stack[i])
        BY <1>4, <2>1, <4>1, <4>2 DEF OrderInv, AddsOK
      <4> QED BY <1>1, <4>1, <4>3 DEF InVain
    <3> QED BY <3>1, <3>2
  <2> HIDE DEF B, K
  <2> QED BY <1>7, <2>1 DEF AddsOK
<1>9. ASSUME NEW e \in Deferred, NEW k \in Outs
      PROVE  Outcome1(e, k)'
  <2> DEFINE l == <<e, k>>
  <2>1. l \in ListId /\ (k = "resolve" \/ k = "reject")
    BY ListIds
  <2>2. Ledger(callbacks[l], seen.log[l], A0[l])
    BY <1>3, Unpromised DEF Urgent
  <2>3. Arrived(B, K, l) = A0[l]
    <3>1. A0[l] \in Nat
      BY <1>4, <2>1
    <3>2. Promised(K, l) <=> l = q \/ l = p
      <4> HIDE DEF K, l, B
      <4> QED BY <1>7, PromisedBy DEF f
    <3>3. CASE l = p \/ l = q
      <4> HIDE DEF K, l, B, A0
      <4> QED BY <1>6, <3>1, <3>2, <3>3 DEF Arrived
    <3>4. CASE l # p /\ l # q
      <4> HIDE DEF K, l, B, A0
      <4> QED BY <1>6, <2>1, <3>2, <3>4 DEF Arrived
    <3> QED BY <3>3, <3>4
  <2>4. seen'.log[l] # <<>> => state'[e] = Final(k)
    <3>1. seen.log[l] # <<>> => state[e] = Final(k)
      BY DEF OrderInv, Outcome1
    <3> QED BY <1>5, <3>1, SettledStays
  <2> HIDE DEF l, A0
  <2>5. Ledger(callbacks'[l], seen'.log[l], Arrived(B, K, l))
    BY <1>1, <1>5, <2>2, <2>3
  <2> QED BY <2>4, <2>5 DEF Outcome1, l
<1> QED BY <1>8, <1>9 DEF OrderInv

\* The loop that an add starts tells the other outcome's list is gone.
LEMMA AddStarts ==
  ASSUME ListInv, NEW d \in Deferred, NEW k \in Outs, NEW u \in Entries,
         NEW e, e = Add(callbacks[<<d, k>>], u), e.firing, ~callbacks[<<d, k>>].firing
  PROVE  callbacks[<<d, Other(k)>>].gone
<1> DEFINE c == callbacks[<<d, k>>]
           o == callbacks[<<d, Other(k)>>]
<1>1. List(c) /\ (c.memory # None /\ ~c.firing => o.gone)
  BY OutShape
<1> HIDE DEF c, o
<1>2. e = Add(c, u) /\ e.firing /\ ~c.firing
  BY DEF c
<1>3. c.memory # None
  BY <1>1, <1>2, AddIs
<1> QED BY <1>1, <1>2, <1>3 DEF o

LEMMA AddsNext ==
  ASSUME ListInv, AddNext
  PROVE  /\ stack # <<>> /\ Top.at = "adds" /\ Top.todo \in Seq(Todos) /\ Top.todo # <<>>
         /\ Frames(Mine(page), joined, Callers) /\ Below(Callers)
         /\ Len(Callers) = Len(stack) - 1 /\ Len(stack) \in DOMAIN stack
         /\ \A i \in 1..(Len(stack) - 1) : Callers[i] = stack[i]
         /\ seen' = seen
<1>1. Running("adds") /\ seen' = seen
  BY DEF AddNext
<1>2. stack # <<>> /\ Top.at = "adds"
  BY <1>1, RunsWhat
<1>3. /\ Frames(Mine(page), joined, stack) /\ Len(stack) \in Nat /\ DOMAIN stack = 1..Len(stack)
  BY TypesAre
<1>4. Len(stack) \in DOMAIN stack /\ Frame(Mine(page), joined, Top)
  BY <1>2, <1>3, FramesAre DEF Top
<1>5. Top.todo \in Seq(Todos) /\ Top.todo # <<>>
  BY <1>2, <1>4, FrameIs
<1> DEFINE n == Len(stack) - 1
<1>6. n \in Nat /\ n <= Len(stack)
  BY <1>3, <1>4
<1> HIDE DEF n
<1>7. /\ Frames(Mine(page), joined, SubSeq(stack, 1, n)) /\ Len(SubSeq(stack, 1, n)) = n
      /\ \A i \in 1..n : SubSeq(stack, 1, n)[i] = stack[i]
  BY <1>3, <1>6, FrameCut
<1> QED BY <1>1, <1>2, <1>4, <1>5, <1>7, BelowIs DEF Callers, n

\* Functions that are not of the page.
LEMMA OrderOthers == ASSUME ListInv, OrderInv, Next, AddNext, ~Urgent(Top) PROVE OrderInv'
<1> DEFINE t == Top.todo
           l == Head(t)[1]
           u == Head(t)[2]
           s == Tail(t)
           F == IF s = <<>> THEN Callers ELSE Become(Adds(s))
<1>1. Apply(l, Add(callbacks[l], u), F)
  BY DEF AddNext
<1>2. /\ stack # <<>> /\ Top.at = "adds" /\ t \in Seq(Todos) /\ t # <<>> /\ Below(Callers)
      /\ seen' = seen
  BY AddsNext
<1> HIDE DEF t
<1>3. /\ l \in ListId /\ u \in Entries /\ Head(t) = t[1] /\ 1 \in DOMAIN t
      /\ \A p \in DOMAIN s : p + 1 \in DOMAIN t /\ s[p] = t[p + 1]
  BY <1>2, TodoIs
<1>4. \A p \in DOMAIN t : t[p][2].do # "user"
  BY <1>2 DEF Urgent, t
<1>5. u.do # "user"
  BY <1>3, <1>4
<1>6. ~Urgent(Adds(s))
  <2> HIDE DEF s
  <2> QED BY <1>3, <1>4 DEF Urgent, Adds
<1>7. Below(F)
  <2> DEFINE f == Adds(s)
  <2> HIDE DEF f
  <2>1. ~Urgent(f)
    BY <1>6 DEF f
  <2>2. Below(Append(Callers, f))
    BY <1>2, <2>1, BelowPushed
  <2> QED BY <1>2, <2>2 DEF Become, f
<1> HIDE DEF l, u, F
<1>8. Below(stack') /\ callbacks' = [callbacks EXCEPT ![l] = Add(callbacks[l], u)]
  <2> DEFINE x == Add(callbacks[l], u)
  <2> HIDE DEF x
  <2>1. Below(stack') /\ callbacks' = [callbacks EXCEPT ![l] = x]
    BY <1>1, <1>7, BelowApplied DEF x
  <2> QED BY <2>1 DEF x
<1> QED BY <1>2, <1>3, <1>5, <1>8, OrderAdded

\* The second add of always.
LEMMA OrderLast ==
  ASSUME ListInv, OrderInv, Next, AddNext, NEW d \in Deferred, NEW n, Top = Last(d, n),
         callbacks[<<d, "reject">>].gone \/ n = seen.adds[<<d, "reject">>]
  PROVE  OrderInv'
<1> DEFINE l == <<d, "reject">>
           u == User(Nobody, n)
           c == callbacks[l]
           e == Add(c, u)
<1>1. /\ stack # <<>> /\ Top.todo \in Seq(Todos) /\ Top.todo # <<>> /\ Below(Callers)
      /\ seen' = seen
  BY AddsNext
<1>2. Top.todo = <<<<l, u>>>>
  BY BothIs
<1>3. Head(Top.todo) = <<l, u>> /\ Tail(Top.todo) = <<>>
  BY <1>2
<1>4. u \in Entries
  <2>1. Head(Top.todo)[2] \in Entries
    BY <1>1, TodoIs
  <2> QED BY <1>3, <2>1
<1>5. Apply(l, e, Callers)
  <2>1. Apply(Head(Top.todo)[1], Add(callbacks[Head(Top.todo)[1]], Head(Top.todo)[2]),
              IF Tail(Top.todo) = <<>> THEN Callers ELSE Become(Adds(Tail(Top.todo))))
    BY DEF AddNext
  <2>2. Head(Top.todo)[1] = l /\ Head(Top.todo)[2] = u
    BY <1>3
  <2> QED BY <1>3, <2>1, <2>2
<1>6. Below(stack') /\ callbacks' = [callbacks EXCEPT ![l] = e]
  <2> HIDE DEF e, l
  <2> QED BY <1>1, <1>5, BelowApplied
<1>7. callbacks \in [ListId -> Listing] /\ l \in ListId /\ seen.adds \in [ListId -> Nat]
  BY TypesAre, ListIds DEF Kind
<1>8. u.do = "user" /\ u.n = n
  BY DEF User
<1>9. \A x : Promised(stack, x) <=> x = l
  BY <1>1, PromisedBy DEF Top
<1>10. ASSUME NEW a \in Deferred, NEW k \in Outs
       PROVE  /\ callbacks[<<a, k>>].gone => callbacks'[<<a, k>>].gone
              /\ Ledger(callbacks'[<<a, k>>], seen.log[<<a, k>>], seen'.adds[<<a, k>>])
  <2>1. Ledger(callbacks[<<a, k>>], seen.log[<<a, k>>], Arrived(seen.adds, stack, <<a, k>>))
    BY DEF OrderInv, Outcome1
  <2>2. <<a, k>> \in ListId
    BY ListIds
  <2>3. CASE <<a, k>> # l
    <3>1. Arrived(seen.adds, stack, <<a, k>>) = seen.adds[<<a, k>>]
      BY <1>9, <2>3 DEF Arrived
    <3> HIDE DEF e, l
    <3>2. callbacks'[<<a, k>>] = callbacks[<<a, k>>]
      BY <1>6, <1>7, <2>2, <2>3
    <3> QED BY <1>1, <2>1, <3>1, <3>2
  <2>4. CASE <<a, k>> = l
    <3> DEFINE L == seen.log[l]
               A0 == seen.adds[l]
               T == A0 - 1
    <3>1. List(c) /\ Shape(c)
      BY <2>4, OutShape
    <3>2. Ledger(c, L, T)
      <4>1. Arrived(seen.adds, stack, l) = T
        BY <1>9 DEF Arrived
      <4> HIDE DEF c, T
      <4> QED BY <2>1, <2>4, <4>1 DEF c
    <3>3. A0 \in Nat /\ A0 \in Int /\ T + 1 = A0
      BY <1>7
    <3>4. Ledger(e, L, A0) /\ (c.gone => e.gone)
      <4> HIDE DEF c, u, L, T, A0
      <4>1. /\ u.n = T + 1 => Ledger(e, L, T + 1)
            /\ c.gone => e = c
        BY <1>4, <1>8, <3>1, <3>2, LedgerAdded
      <4>2. CASE c.gone
        <5>1. e = c
          BY <4>1, <4>2
        <5> QED BY <3>2, <3>3, <4>2, <5>1, LedgerGone
      <4>3. CASE ~c.gone
        <5>1. u.n = A0
          BY <1>8, <4>3 DEF A0, c
        <5> QED BY <3>3, <4>1, <4>3, <5>1
      <4> QED BY <4>2, <4>3
    <3>5. callbacks'[l] = e
      <4> HIDE DEF e, l
      <4> QED BY <1>6, <1>7
    <3> HIDE DEF e, c
    <3> QED BY <1>1, <2>4, <3>4, <3>5 DEF c
  <2> QED BY <2>3, <2>4
<1> QED BY <1>1, <1>6, <1>10, OrderKept

\* The first add of always: if it calls its function at once, the other list is gone.
LEMMA OrderBoth ==
  ASSUME ListInv, OrderInv, Next, AddNext, NEW d \in Deferred,
         Top = Both(d, seen.adds[<<d, "resolve">>], seen.adds[<<d, "reject">>])
  PROVE  OrderInv'
<1> DEFINE r == <<d, "resolve">>
           q == <<d, "reject">>
           A0 == seen.adds
           m == A0[r]
           n == A0[q]
           u == User(Nobody, m)
           c == callbacks[r]
           e == Add(c, u)
           g == Last(d, n)
           K == stack'
           N == Len(Callers)
           starts == e.firing /\ ~c.firing
<1>1. /\ stack # <<>> /\ Top.todo \in Seq(Todos) /\ Top.todo # <<>>
      /\ Frames(Mine(page), joined, Callers) /\ N = Len(stack) - 1 /\ Len(stack) \in DOMAIN stack
      /\ \A i \in 1..(Len(stack) - 1) : Callers[i] = stack[i]
      /\ seen' = seen
  BY AddsNext
<1>2. Top.todo = <<<<r, u>>, <<q, User(Nobody, n)>>>>
  BY BothIs
<1>3. Head(Top.todo) = <<r, u>> /\ Tail(Top.todo) = <<<<q, User(Nobody, n)>>>>
      /\ Tail(Top.todo) # <<>>
  BY <1>2
<1>4. u \in Entries /\ u.do = "user" /\ u.n = m
  <2>1. Head(Top.todo)[2] \in Entries
    BY <1>1, TodoIs
  <2> QED BY <1>3, <2>1 DEF User
<1>5. Apply(r, e, Append(Callers, g))
  <2>1. Apply(Head(Top.todo)[1], Add(callbacks[Head(Top.todo)[1]], Head(Top.todo)[2]),
              IF Tail(Top.todo) = <<>> THEN Callers ELSE Become(Adds(Tail(Top.todo))))
    BY DEF AddNext
  <2>2. Head(Top.todo)[1] = r /\ Head(Top.todo)[2] = u
    <3> HIDE DEF r, u
    <3> QED BY <1>3
  <2>3. Become(Adds(Tail(Top.todo))) = Append(Callers, g)
    BY <1>3 DEF Become, Last
  <2> QED BY <1>3, <2>1, <2>2, <2>3
<1>6. /\ callbacks' = [callbacks EXCEPT ![r] = e]
      /\ ~starts => K = Append(Callers, g) \o <<>>
      /\ starts => K = Append(Callers, g) \o <<Loop(r)>>
  <2> HIDE DEF e, g, r, K
  <2>1. callbacks' = [callbacks EXCEPT ![r] = e] /\ K = Append(Callers, g) \o Start(r, e)
    BY <1>5 DEF Apply, K
  <2>2. Start(r, e) = IF starts THEN <<Loop(r)>> ELSE <<>>
    BY DEF Start, starts
  <2> HIDE DEF starts
  <2> QED BY <2>1, <2>2
<1>7. /\ callbacks \in [ListId -> Listing] /\ r \in ListId /\ q \in ListId /\ r # q
      /\ A0 \in [ListId -> Nat] /\ Len(stack) \in Nat /\ DOMAIN stack = 1..Len(stack)
  BY TypesAre, ListIds DEF Kind
<1>8. N \in Nat
  BY <1>1, <1>7
<1>9. /\ ~starts => /\ Len(K) = N + 1 /\ DOMAIN K = 1..(N + 1) /\ K[N + 1] = g
                    /\ \A i \in 1..N : K[i] = stack[i]
      /\ starts => /\ Len(K) = N + 2 /\ DOMAIN K = 1..(N + 2)
                   /\ K[N + 2] = Loop(r) /\ K[N + 1] = g
                   /\ \A i \in 1..N : K[i] = stack[i]
  <2>1. PICK T : Callers \in Seq(T)
    BY <1>1 DEF Frames
  <2> DEFINE f == Loop(r)
             U == T \cup {g, f}
             P == Append(Callers, g)
  <2>2. Callers \in Seq(U) /\ g \in U /\ f \in U
    BY <2>1
  <2>3. \A i \in 1..N : Callers[i] = stack[i]
    BY <1>1
  <2>4. (~starts => K = P \o <<>>) /\ (starts => K = P \o <<f>>)
    BY <1>6
  <2> HIDE DEF U, f, g, K, starts, P
  <2>5. /\ P \in Seq(U) /\ Len(P) = N + 1 /\ DOMAIN P = 1..(N + 1) /\ P[N + 1] = g
        /\ \A i \in 1..N : P[i] = Callers[i]
    BY <2>2, AppendIs DEF P
  <2>6. P \o <<>> = P /\ P \o <<f>> = Append(P, f)
    BY <2>2, <2>5
  <2>7. /\ Len(Append(P, f)) = N + 2 /\ DOMAIN Append(P, f) = 1..(N + 2)
        /\ Append(P, f)[N + 2] = f
        /\ \A i \in 1..(N + 1) : Append(P, f)[i] = P[i]
    <3>1. /\ Len(Append(P, f)) = Len(P) + 1 /\ DOMAIN Append(P, f) = 1..(Len(P) + 1)
          /\ Append(P, f)[Len(P) + 1] = f
          /\ \A i \in 1..Len(P) : Append(P, f)[i] = P[i]
      BY <2>2, <2>5, AppendIs
    <3>2. Len(P) + 1 = N + 2
      BY <1>8, <2>5
    <3> QED BY <2>5, <3>1, <3>2
  <2>8. N + 1 \in 1..(N + 1) /\ \A i \in 1..N : i \in 1..(N + 1)
    BY <1>8
  <2>9. ASSUME ~starts
        PROVE  /\ Len(K) = N + 1 /\ DOMAIN K = 1..(N + 1) /\ K[N + 1] = g
               /\ \A i \in 1..N : K[i] = stack[i]
    BY <2>3, <2>4, <2>5, <2>6, <2>9
  <2>10. ASSUME starts
         PROVE  /\ Len(K) = N + 2 /\ DOMAIN K = 1..(N + 2)
                /\ K[N + 2] = f /\ K[N + 1] = g
                /\ \A i \in 1..N : K[i] = stack[i]
    BY <2>3, <2>4, <2>5, <2>6, <2>7, <2>8, <2>10
  <2> QED BY <2>9, <2>10 DEF f
<1>10. starts => callbacks[q].gone
  <2>1. ASSUME starts PROVE callbacks[<<d, Other("resolve")>>].gone
    BY <1>4, <2>1, AddStarts DEF Outs
  <2> QED BY <2>1 DEF Other
<1>11. /\ callbacks'[r] = e
       /\ \A l \in ListId : l # r => callbacks'[l] = callbacks[l]
  <2> HIDE DEF e, r
  <2> QED BY <1>6, <1>7
<1>12. \A f : InVain(callbacks, f) => InVain(callbacks', f)
  <2>1. \A a \in Deferred : <<a, "reject">> \in ListId /\ <<a, "reject">> # r
    BY ListIds DEF Outs
  <2> HIDE DEF r
  <2> QED BY <1>11, <2>1 DEF InVain
<1>13. Urgent(g) /\ ~Urgent(Loop(r)) /\ \A l : Promised(stack, l) <=> l = q \/ l = r
  <2>1. Urgent(g)
    BY BothIs
  <2>2. \A l : Promised(stack, l) <=> l = q \/ l = r
    BY <1>1, PromisedBy DEF Top
  <2> QED BY <2>1, <2>2, NotUrgent
<1>14. /\ K # <<>>
       /\ ~starts => \A l : Promised(K, l) <=> l = q
       /\ starts => \A l : ~Promised(K, l)
  <2>1. K # <<>>
    BY <1>8, <1>9
  <2> HIDE DEF K, starts, N, r
  <2>2. ASSUME ~starts, NEW l PROVE Promised(K, l) <=> l = q
    BY <1>9, <2>1, <2>2, PromisedBy
  <2>3. ASSUME starts, NEW l PROVE ~Promised(K, l)
    <3>1. K[Len(K)] = Loop(r)
      BY <1>9, <2>3
    <3> QED BY <1>13, <2>1, <3>1, PromisedBy
  <2> QED BY <2>1, <2>2, <2>3
<1>15. AddsOK(callbacks', A0, K)
  <2>1. \A i \in 1..N : Urgent(K[i]) => InVain(callbacks', K[i])
    <3> SUFFICES ASSUME NEW i \in 1..N, Urgent(K[i]) PROVE InVain(callbacks', K[i])
      OBVIOUS
    <3>1. K[i] = stack[i]
      <4> HIDE DEF K, starts, N
      <4> QED BY <1>9
    <3>2. i \in DOMAIN stack /\ i # Len(stack)
      BY <1>1, <1>7
    <3>3. InVain(callbacks, stack[i])
      <4> HIDE DEF K, N
      <4> QED BY <3>1, <3>2 DEF OrderInv, AddsOK
    <3> HIDE DEF K
    <3> QED BY <1>12, <3>1, <3>3
  <2>2. starts => InVain(callbacks', g)
    <3>1. starts => InVain(callbacks, g)
      <4> HIDE DEF starts
      <4> QED BY <1>10 DEF InVain, q, g
    <3> HIDE DEF starts, g
    <3> QED BY <1>12, <3>1
  <2>3. InTime(A0, g)
    BY DEF InTime
  <2>4. \A i \in 1..(N + 1) : i \in 1..N \/ i = N + 1
    BY <1>8
  <2>5. \A i \in 1..(N + 2) : i \in 1..N \/ i = N + 1 \/ i = N + 2
    BY <1>8
  <2> HIDE DEF starts, g, K, N, r, A0
  <2>6. CASE ~starts
    BY <1>9, <2>1, <2>3, <2>4, <2>6 DEF AddsOK
  <2>7. CASE starts
    BY <1>9, <1>13, <2>1, <2>2, <2>5, <2>7 DEF AddsOK
  <2> QED BY <2>6, <2>7
<1>16. ASSUME NEW a \in Deferred, NEW k \in Outs
       PROVE  Outcome1(a, k)'
  <2> DEFINE l == <<a, k>>
             L == seen.log[l]
  <2>1. l \in ListId
    BY ListIds
  <2>2. List(callbacks[l]) /\ Shape(callbacks[l])
    BY OutShape
  <2>3. Ledger(callbacks[l], L, Arrived(A0, stack, l))
    BY DEF OrderInv, Outcome1
  <2>4. seen'.log[l] # <<>> => state'[a] = Final(k)
    <3>1. L # <<>> => state[a] = Final(k)
      BY DEF OrderInv, Outcome1
    <3> QED BY <1>1, <3>1, SettledStays
  <2> HIDE DEF l, K, starts, e, r, q, A0, u, c, L
  <2>5. A0[l] \in Int /\ A0[l] - 1 + 1 = A0[l]
    BY <1>7, <2>1
  <2>6. ASSUME l = r PROVE Ledger(callbacks'[l], L, Arrived(A0, K, l))
    <3> DEFINE T == A0[l] - 1
    <3>1. Ledger(c, L, T)
      BY <1>13, <2>3, <2>6 DEF Arrived, c
    <3>2. u.n = T + 1
      BY <1>4, <2>5, <2>6 DEF m
    <3> HIDE DEF T
    <3>3. Ledger(e, L, T + 1)
      BY <1>4, <2>2, <2>6, <3>1, <3>2, LedgerAdded DEF e, c
    <3>4. Ledger(e, L, A0[l])
      BY <2>5, <3>3 DEF T
    <3>5. Arrived(A0, K, l) = A0[l]
      BY <1>7, <1>14, <2>6 DEF Arrived
    <3> QED BY <1>11, <2>6, <3>4, <3>5
  <2>7. ASSUME l = q PROVE Ledger(callbacks'[l], L, Arrived(A0, K, l))
    <3>1. callbacks'[l] = callbacks[l]
      BY <1>7, <1>11, <2>1, <2>7
    <3>2. Ledger(callbacks[l], L, A0[l] - 1)
      BY <1>13, <2>3, <2>7 DEF Arrived
    <3>3. CASE ~starts
      BY <1>14, <2>7, <3>1, <3>2, <3>3 DEF Arrived
    <3>4. CASE starts
      <4>1. callbacks[l].gone
        BY <1>10, <2>7, <3>4
      <4>2. Ledger(callbacks[l], L, A0[l])
        BY <2>5, <3>2, <4>1, LedgerGone
      <4> QED BY <1>14, <3>1, <3>4, <4>2 DEF Arrived
    <3> QED BY <3>3, <3>4
  <2>8. ASSUME l # r, l # q PROVE Ledger(callbacks'[l], L, Arrived(A0, K, l))
    <3>1. callbacks'[l] = callbacks[l]
      BY <1>11, <2>1, <2>8
    <3>2. Ledger(callbacks[l], L, A0[l])
      BY <1>13, <2>3, <2>8 DEF Arrived
    <3>3. ~Promised(K, l)
      BY <1>14, <2>8
    <3> QED BY <3>1, <3>2, <3>3 DEF Arrived
  <2>9. Ledger(callbacks'[l], L, Arrived(A0, K, l))
    BY <2>6, <2>7, <2>8
  <2>10. seen'.log[l] = L /\ seen'.adds = A0
    BY <1>1 DEF L, A0
  <2> QED BY <2>4, <2>9, <2>10 DEF Outcome1, l, K
<1> QED BY <1>1, <1>15, <1>16 DEF OrderInv

LEMMA OrderAddNext == ASSUME ListInv, OrderInv, Next, AddNext PROVE OrderInv'
<1>1. stack # <<>> /\ Len(stack) \in DOMAIN stack
  BY AddsNext
<1>2. CASE ~Urgent(Top)
  BY <1>2, OrderOthers
<1>3. ASSUME NEW d \in Deferred, NEW n, Top = Last(d, n),
             callbacks[<<d, "reject">>].gone \/ n = seen.adds[<<d, "reject">>]
      PROVE  OrderInv'
  BY <1>3, OrderLast
<1>4. CASE Urgent(Top)
  <2>1. InVain(callbacks, Top) \/ InTime(seen.adds, Top)
    BY <1>1, <1>4 DEF OrderInv, AddsOK, Top
  <2>2. CASE InVain(callbacks, Top)
    BY <1>3, <2>2 DEF InVain
  <2>3. CASE InTime(seen.adds, Top)
    <3>1. PICK d \in Deferred :
            \/ Top = Both(d, seen.adds[<<d, "resolve">>], seen.adds[<<d, "reject">>])
            \/ Top = Last(d, seen.adds[<<d, "reject">>])
      BY <2>3 DEF InTime
    <3>2. CASE Top = Last(d, seen.adds[<<d, "reject">>])
      BY <1>3, <3>2
    <3>3. CASE Top = Both(d, seen.adds[<<d, "resolve">>], seen.adds[<<d, "reject">>])
      BY <3>3, OrderBoth
    <3> QED BY <3>1, <3>2, <3>3
  <2> QED BY <2>1, <2>2, <2>3
<1> QED BY <1>2, <1>4

\* What the call of e does to the lists and the stack.
Does(e, v, l, C, F) ==
  /\ e.do \in {"state", "handlers"} => callbacks' = C /\ stack' = F
  /\ e.do = "user" => /\ callbacks' = C /\ stack' = Append(F, Code)
                      /\ seen' = [seen EXCEPT !.log[l] = Append(@, <<e.n, v>>)]
  /\ e.do = "pipe" => callbacks' = C /\ stack' = F \o <<Pipe(e.d, e.k), Code>>
  /\ e.do = "disable" => /\ callbacks' = [C EXCEPT ![<<e.d, e.k>>] = Disable(@)]
                         /\ stack' = F
  /\ e.do = "lock" => /\ callbacks' = [C EXCEPT ![<<e.d, e.k>>] = Lock(@)]
                      /\ stack' = F
  /\ e.do = "settle" => Fire(<<e.d, e.k>>, v, C, F)
  /\ e.do = "update" => \/ callbacks' = C /\ stack' = F
                        \/ Fire(<<joined.master, "resolve">>, Values, C, F)

LEMMA InvokeDoes ==
  ASSUME NEW e, NEW v, NEW l, NEW C, NEW F, Invoke(e, v, l, C, F)
  PROVE  Does(e, v, l, C, F)
<1>1. ASSUME InvokeState(e, C, F) PROVE e.do = "state" /\ callbacks' = C /\ stack' = F
  BY <1>1 DEF InvokeState
<1>2. ASSUME InvokeDisable(e, C, F)
      PROVE  /\ e.do = "disable" /\ callbacks' = [C EXCEPT ![<<e.d, e.k>>] = Disable(@)]
             /\ stack' = F
  BY <1>2 DEF InvokeDisable
<1>3. ASSUME InvokeLock(e, C, F)
      PROVE  /\ e.do = "lock" /\ callbacks' = [C EXCEPT ![<<e.d, e.k>>] = Lock(@)]
             /\ stack' = F
  BY <1>3 DEF InvokeLock
<1>4. ASSUME InvokeHandlers(e, v, C, F) PROVE e.do = "handlers" /\ callbacks' = C /\ stack' = F
  BY <1>4 DEF InvokeHandlers
<1>5. ASSUME InvokeScript(e, v, l, C, F)
      PROVE  /\ e.do = "user" /\ callbacks' = C /\ stack' = Append(F, Code)
             /\ seen' = [seen EXCEPT !.log[l] = Append(@, <<e.n, v>>)]
  BY <1>5 DEF InvokeScript
<1>6. ASSUME InvokeSettle(e, v, C, F) PROVE e.do = "settle" /\ Fire(<<e.d, e.k>>, v, C, F)
  BY <1>6 DEF InvokeSettle
<1>7. ASSUME InvokePipe(e, C, F)
      PROVE  e.do = "pipe" /\ callbacks' = C /\ stack' = F \o <<Pipe(e.d, e.k), Code>>
  BY <1>7 DEF InvokePipe
<1>8. ASSUME InvokeUpdate(e, v, C, F)
      PROVE  /\ e.do = "update"
             /\ \/ callbacks' = C /\ stack' = F
                \/ Fire(<<joined.master, "resolve">>, Values, C, F)
  BY <1>8 DEF InvokeUpdate
<1> QED BY <1>1, <1>2, <1>3, <1>4, <1>5, <1>6, <1>7, <1>8 DEF Invoke, Does

\* A function of the page is not called before the deferred has its state.
LEMMA UserSettled ==
  ASSUME ListInv, Running("loop"), NEW d \in Deferred, NEW k \in Outs, Top.l = <<d, k>>,
         Current(callbacks[<<d, k>>]).do = "user"
  PROVE  state[d] = Final(k)
<1> DEFINE M == Mine(page)
           c == callbacks[<<d, k>>]
<1>1. c.firing /\ OnTop(stack, Loop(<<d, k>>))
      /\ \A l : OnTop(stack, Loop(l)) => l = <<d, k>>
  BY TopLoop
<1>2. CASE CalmAt(M, joined, callbacks, state, d)
  <2>1. Decided(M, joined, callbacks, state, d, k)
    BY <1>1, <1>2, OutIs DEF Waiting, Dead
  <2> QED BY <2>1 DEF Decided
<1>3. ASSUME NEW j \in Outs, Deciding(M, joined, callbacks, state, stack, d, j)
      PROVE  state[d] = Final(k)
  <2>1. j = k
    BY <1>1, <1>3 DEF Deciding
  <2>2. CASE c.index = 0
    <3>1. c.list[1] = Entry("state", d, k)
      BY <1>3, <2>1 DEF Deciding, First, Starts
    <3>2. c.list[1].do = "user"
      BY <2>2 DEF Current
    <3> QED BY <3>1, <3>2, EntryDoes
  <2>3. CASE c.index # 0
    BY <1>3, <2>1, <2>3 DEF Deciding
  <2> QED BY <2>2, <2>3
<1> QED BY <1>2, <1>3 DEF ListInv, Arranged, Outcomes

\* The lists of the outcomes when the loop of l moves on to a function of jQuery.
LEMMA OutAdvanced ==
  ASSUME ListInv, OrderInv, Running("loop"), Pending(callbacks[Top.l]),
         Current(callbacks[Top.l]).do # "user",
         NEW C, C = [callbacks EXCEPT ![Top.l] = Advance(callbacks[Top.l])],
         NEW a \in Deferred, NEW k \in Outs
  PROVE  LET x == <<a, k>>
         IN /\ List(C[x]) /\ Shape(C[x]) /\ C[x].gone = callbacks[x].gone
            /\ C[x].memory = callbacks[x].memory
            /\ Ledger(C[x], seen.log[x], seen.adds[x])
<1> DEFINE x == <<a, k>>
           c == callbacks[x]
           L == seen.log[x]
           T == seen.adds[x]
<1>1. /\ callbacks \in [ListId -> Listing] /\ x \in ListId /\ Top.l \in ListId
      /\ Top.at = "loop" /\ callbacks[Top.l].firing
  BY TypesAre, TopLoop, ListIds DEF Loop
<1>2. List(c) /\ Shape(c) /\ Ledger(c, L, T)
  BY <1>1, OutShape, Unpromised DEF Urgent
<1> HIDE DEF c, x, L, T
<1>3. CASE x # Top.l
  <2>1. C[x] = c
    BY <1>1, <1>3 DEF c
  <2> QED BY <1>2, <2>1 DEF c, x, L, T
<1>4. CASE x = Top.l
  <2> DEFINE e == Advance(c)
  <2>1. c.firing /\ Pending(c) /\ Current(c).do # "user"
    BY <1>1, <1>4 DEF c
  <2>2. e.gone = c.gone /\ e.memory = c.memory
    BY <1>2, <2>1, AdvanceIs
  <2>3. Ledger(e, L, T) /\ Shape(e) /\ List(e)
    <3> HIDE DEF e
    <3> QED BY <1>2, <2>1, LedgerAdvanced DEF e
  <2>4. C = [callbacks EXCEPT ![x] = e]
    BY <1>4 DEF c
  <2> HIDE DEF e
  <2>5. C[x] = e
    BY <1>1, <2>4
  <2> QED BY <2>2, <2>3, <2>5 DEF c, x, L, T
<1> QED BY <1>3, <1>4

\* The call of a function of the page.
LEMMA OrderCallsUser ==
  ASSUME ListInv, OwnInv, OrderInv, Next, Running("loop"), Pending(callbacks[Top.l]),
         Current(callbacks[Top.l]).do = "user",
         CallNext
  PROVE  OrderInv'
<1> DEFINE l == Top.l
           c == callbacks[l]
           e == Current(c)
           v == c.memory
           C == [callbacks EXCEPT ![l] = Advance(c)]
           z == Append(seen.log[l], <<e.n, v>>)
<1>1. /\ callbacks' = C /\ stack' = Append(stack, Code)
      /\ seen' = [seen EXCEPT !.log[l] = z]
  <2>1. Invoke(e, v, l, C, stack)
    BY DEF CallNext
  <2>2. e.do = "user"
    OBVIOUS
  <2> HIDE DEF e, v, l, C
  <2>3. Does(e, v, l, C, stack)
    BY <2>1, InvokeDoes
  <2> QED BY <2>2, <2>3 DEF Does
<1>2. /\ l \in ListId /\ callbacks \in [ListId -> Listing] /\ List(c) /\ c.firing
      /\ Top.at = "loop" /\ stack # <<>>
      /\ DOMAIN seen = SeenField /\ seen.log \in [ListId -> Log]
  BY TypesAre, TopLoop DEF OwnInv, Loop
<1>3. Below(stack')
  BY <1>1, <1>2, BelowIs, BelowPushed, NotUrgent
<1>4. seen'.adds = seen.adds /\ seen'.log = [seen.log EXCEPT ![l] = z]
  <2> HIDE DEF z, l
  <2> QED BY <1>1, <1>2 DEF SeenField
<1>5. ASSUME NEW a \in Deferred, NEW k \in Outs
      PROVE  /\ seen'.log[<<a, k>>] # <<>> => state'[a] = Final(k)
             /\ Ledger(callbacks'[<<a, k>>], seen'.log[<<a, k>>], seen'.adds[<<a, k>>])
             /\ callbacks[<<a, k>>].gone => callbacks'[<<a, k>>].gone
  <2> DEFINE x == <<a, k>>
             T == seen.adds[x]
  <2>1. x \in ListId /\ Ledger(callbacks[x], seen.log[x], T)
    BY <1>2, ListIds, Unpromised DEF Urgent
  <2>2. seen.log[x] # <<>> => state'[a] = Final(k)
    <3>1. seen.log[x] # <<>> => state[a] = Final(k)
      BY DEF OrderInv, Outcome1
    <3> QED BY <3>1, SettledStays
  <2>3. CASE x # l
    <3> HIDE DEF x, z, l, c
    <3>1. callbacks'[x] = callbacks[x] /\ seen'.log[x] = seen.log[x]
      BY <1>1, <1>2, <1>4, <2>1, <2>3
    <3> QED BY <1>4, <2>1, <2>2, <3>1 DEF x
  <2>4. CASE x = l
    <3> DEFINE b == Advance(c)
    <3>1. state'[a] = Final(k)
      <4>1. state[a] = Final(k)
        BY <2>4, UserSettled
      <4> QED BY <4>1, SettledStays
    <3>2. Ledger(b, z, T)
      <4>1. Shape(c) /\ Ledger(c, seen.log[l], T) /\ Pending(c) /\ e.do = "user"
        BY <2>1, <2>4, OutShape
      <4> HIDE DEF b, c, T, l
      <4> QED BY <1>2, <4>1, LedgerAdvanced DEF b
    <3>3. b.gone = c.gone
      BY <1>2, AdvanceIs
    <3> HIDE DEF x, z, l, c, b
    <3>4. callbacks'[x] = b /\ seen'.log[x] = z
      BY <1>1, <1>2, <1>4, <2>1, <2>4 DEF b
    <3> QED BY <1>4, <2>4, <3>1, <3>2, <3>3, <3>4 DEF x, T, c
  <2> QED BY <2>3, <2>4
<1>6. \A d \in Deferred : callbacks[<<d, "reject">>].gone => callbacks'[<<d, "reject">>].gone
  BY <1>5 DEF Outs
<1> QED BY <1>3, <1>5, <1>6, OrderBelow

\* The call of a function of jQuery.
LEMMA OrderCallsOther ==
  ASSUME ListInv, OrderInv, Next, CallNext, Current(callbacks[Top.l]).do # "user"
  PROVE  OrderInv'
<1> DEFINE l == Top.l
           c == callbacks[l]
           e == Current(c)
           v == c.memory
           C == [callbacks EXCEPT ![l] = Advance(c)]
<1>1. /\ Running("loop") /\ Pending(c) /\ Invoke(e, v, l, C, stack)
  BY DEF CallNext
<1>2. /\ l \in ListId /\ callbacks \in [ListId -> Listing] /\ List(c) /\ c.firing
      /\ Top.at = "loop" /\ stack # <<>> /\ e \in Entries
      /\ DOMAIN seen = SeenField /\ Lists(Mine(page), joined, callbacks)
      /\ c.index + 1 \in DOMAIN c.list /\ e = c.list[c.index + 1]
  BY <1>1, TypesAre, TopLoop, RunsLoop DEF Loop
<1>3. l # UserList
  BY <1>2 DEF Lists
<1>4. PICK d \in Deferred, k \in Kind : l = <<d, k>>
  BY <1>2, <1>3, ListIds
<1>5. CurrentOf(d, k, e) /\ e.do # "user"
  BY <1>1, <1>4, CurrentIs
<1>6. Below(stack)
  BY <1>2, BelowIs
<1>7. seen'.log = seen.log /\ seen'.adds = seen.adds
  <2>1. Told1(l, e, v)
    BY <1>1, InvokeSays
  <2> HIDE DEF e, v, l
  <2> QED BY <1>2, <1>5, <2>1 DEF Told1, SeenField
<1>8. ASSUME NEW a \in Deferred, NEW j \in Outs
      PROVE  LET x == <<a, j>>
             IN /\ List(C[x]) /\ Shape(C[x]) /\ C[x].gone = callbacks[x].gone
                /\ C[x].memory = callbacks[x].memory
                /\ Ledger(C[x], seen.log[x], seen.adds[x])
  <2>1. C = [callbacks EXCEPT ![Top.l] = Advance(callbacks[Top.l])]
    OBVIOUS
  <2> HIDE DEF C
  <2> QED BY <1>1, <2>1, OutAdvanced
<1>9. DOMAIN C = ListId
  BY <1>2
<1> HIDE DEF C, e, v, c, l
<1>a. Does(e, v, l, C, stack)
  BY <1>1, InvokeDoes
<1>10. ASSUME Below(stack'), callbacks' = C
       PROVE  OrderInv'
  <2>1. ASSUME NEW a \in Deferred, NEW j \in Outs
        PROVE  /\ callbacks[<<a, j>>].gone => callbacks'[<<a, j>>].gone
               /\ Ledger(callbacks'[<<a, j>>], seen.log[<<a, j>>], seen'.adds[<<a, j>>])
    BY <1>7, <1>8, <1>10
  <2> QED BY <1>7, <1>10, <2>1, OrderKept
<1>11. ASSUME Below(stack'), NEW m, NEW w, callbacks' = [C EXCEPT ![m] = w],
              \A a \in Deferred : \A j \in Outs : m = <<a, j>> =>
                /\ callbacks[m].gone => w.gone
                /\ Ledger(w, seen.log[m], seen.adds[m])
       PROVE  OrderInv'
  <2>1. ASSUME NEW a \in Deferred, NEW j \in Outs
        PROVE  /\ callbacks[<<a, j>>].gone => callbacks'[<<a, j>>].gone
               /\ Ledger(callbacks'[<<a, j>>], seen.log[<<a, j>>], seen'.adds[<<a, j>>])
    <3> DEFINE x == <<a, j>>
    <3>1. x \in ListId
      BY ListIds
    <3>2. CASE x = m
      <4>1. callbacks'[x] = w
        <5> HIDE DEF x
        <5> QED BY <1>9, <1>11, <3>1, <3>2
      <4> QED BY <1>7, <1>11, <3>2, <4>1
    <3>3. CASE x # m
      <4>1. callbacks'[x] = C[x]
        <5> HIDE DEF x
        <5> QED BY <1>9, <1>11, <3>1, <3>3
      <4> QED BY <1>7, <1>8, <4>1
    <3> QED BY <3>2, <3>3
  <2> QED BY <1>7, <1>11, <2>1, OrderKept
<1>12. ASSUME NEW m, NEW y, Fire(m, y, C, stack)
       PROVE  OrderInv'
  <2> DEFINE w == FireWith(C[m], y)
  <2>1. Below(stack') /\ callbacks' = [C EXCEPT ![m] = w]
    BY <1>6, <1>12, BelowFired
  <2>2. ASSUME NEW a \in Deferred, NEW j \in Outs, m = <<a, j>>
        PROVE  (callbacks[m].gone => w.gone) /\ Ledger(w, seen.log[m], seen.adds[m])
    <3> DEFINE b == C[m]
               L == seen.log[m]
               T == seen.adds[m]
    <3>1. List(b) /\ Shape(b) /\ b.gone = callbacks[m].gone /\ Ledger(b, L, T)
      BY <1>8, <2>2
    <3> HIDE DEF b, L, T
    <3>2. ASSUME NEW u, u = FireWith(b, y)
          PROVE  u.gone = b.gone /\ Ledger(u, L, T)
      BY <3>1, <3>2, LedgerFired
    <3> QED BY <3>1, <3>2 DEF b, L, T
  <2> HIDE DEF w
  <2> QED BY <1>11, <2>1, <2>2
<1>13. CASE e.do \in {"state", "handlers"}
  BY <1>a, <1>6, <1>10, <1>13 DEF Does
<1>14. CASE e.do = "pipe"
  <2> DEFINE p == Pipe(e.d, e.k)
  <2>1. callbacks' = C /\ stack' = stack \o <<p, Code>>
    BY <1>a, <1>14 DEF Does
  <2>2. ~Urgent(p) /\ ~Urgent(Code)
    BY NotUrgent
  <2> HIDE DEF p
  <2>3. stack \o <<p, Code>> = Append(Append(stack, p), Code)
    <3>1. PICK T : stack \in Seq(T)
      BY <1>6 DEF Below
    <3> DEFINE U == T \cup {p, Code}
    <3>2. stack \in Seq(U) /\ p \in U /\ Code \in U
      BY <3>1
    <3> HIDE DEF U
    <3> QED BY <3>2
  <2>4. Below(Append(Append(stack, p), Code))
    BY <1>6, <2>2, BelowPushed
  <2> QED BY <1>10, <2>1, <2>3, <2>4
<1>15. CASE e.do = "settle"
  BY <1>a, <1>12, <1>15 DEF Does
<1>16. CASE e.do = "update"
  BY <1>a, <1>6, <1>10, <1>12, <1>16 DEF Does
<1>17. CASE e.do = "lock"
  <2> DEFINE m == <<e.d, e.k>>
             w == Lock(C[m])
  <2>1. m = <<d, "notify">>
    BY <1>5, <1>17 DEF CurrentOf, Late, Entry
  <2>2. Below(stack') /\ callbacks' = [C EXCEPT ![m] = w]
    BY <1>a, <1>6, <1>17 DEF Does
  <2>3. \A a \in Deferred : \A j \in Outs : m # <<a, j>>
    BY <2>1 DEF Outs
  <2> HIDE DEF m, w
  <2> QED BY <1>11, <2>2, <2>3
<1>18. CASE e.do = "disable"
  <2>1. k \in Outs /\ e.d = d /\ e.k = Other(k)
    BY <1>5, <1>18 DEF CurrentOf, Late, Entry
  <2> DEFINE m == <<d, Other(k)>>
             w == Disable(C[m])
  <2>2. Below(stack') /\ callbacks' = [C EXCEPT ![m] = w]
    BY <1>a, <1>6, <1>18, <2>1 DEF Does
  <2>3. callbacks[m].memory = None
    <3>1. Shape(c) /\ (c.memory # None => callbacks[m].memory = None)
      BY <1>4, <2>1, OutShape DEF c
    <3> QED BY <1>2, <3>1 DEF Shape
  <2>4. w.gone /\ Ledger(w, seen.log[m], seen.adds[m])
    <3> DEFINE b == C[m]
               L == seen.log[m]
               T == seen.adds[m]
    <3>1. List(b) /\ b.memory = None /\ Ledger(b, L, T)
      BY <1>8, <2>1, <2>3, ListIds
    <3> HIDE DEF b, L, T
    <3>2. ASSUME NEW u, u = Disable(b)
          PROVE  u.gone /\ Ledger(u, L, T)
      BY <3>1, <3>2, LedgerDisabled
    <3> QED BY <3>1, <3>2 DEF b, L, T
  <2> HIDE DEF m, w
  <2> QED BY <1>11, <2>2, <2>4
<1> QED BY <1>2, <1>5, <1>13, <1>14, <1>15, <1>16, <1>17, <1>18 DEF Entries, Doing

LEMMA OrderStep ==
  ASSUME ListInv, OwnInv, OrderInv, Next
  PROVE  OrderInv'
<1>1. CASE Aside
  BY <1>1, OrderAside
<1>2. CASE CallAdd \/ CallMethod \/ CallFire \/ CallAlways
  BY <1>2, OrderCallAdd, OrderCallMethod, OrderCallFire, OrderCallAlways
<1>3. CASE EndLoop \/ AddNext \/ ReturnToLoop
  BY <1>3, OrderEndLoop, OrderAddNext, OrderReturnToLoop
<1>4. CASE CallNext
  <2>1. Running("loop") /\ Pending(callbacks[Top.l])
    BY <1>4 DEF CallNext
  <2> QED BY <1>4, <2>1, OrderCallsUser, OrderCallsOther
<1> QED BY <1>1, <1>2, <1>3, <1>4, MostAreAside

LEMMA OrderInitIs == ASSUME Init, ListInv PROVE OrderInv
<1>1. /\ stack = <<>> /\ seen.log = [l \in ListId |-> <<>>] /\ seen.adds = [l \in ListId |-> 0]
      /\ callbacks = [l \in ListId |->
           IF l = UserList THEN New(page.options)
           ELSE [New(Options(l[2])) EXCEPT !.list = Listeners(l[1], l[2])]]
  BY DEF Init
<1>2. AddsOK(callbacks, seen.adds, stack)
  BY <1>1 DEF AddsOK
<1>3. ASSUME NEW d \in Deferred, NEW k \in Outs
      PROVE  Outcome1(d, k)
  <2> DEFINE l == <<d, k>>
             s == Listeners(d, k)
             c == callbacks[l]
  <2>1. l \in ListId /\ l # UserList
    BY ListIds
  <2>2. c.list = s /\ c.memory = None /\ ~c.gone /\ c.index = 0
    <3> HIDE DEF s
    <3>1. c = [New(Options(k)) EXCEPT !.list = s]
      BY <1>1, <2>1 DEF s
    <3> HIDE DEF c
    <3> QED BY <3>1 DEF New
  <2>3. Len(s) = 4 /\ DOMAIN s = 1..4 /\ \A i \in 1..4 : s[i].do # "user"
    <3>1. s = <<Entry("state", d, k), Entry("disable", d, Other(k)),
                Entry("lock", d, "notify"), Entry("handlers", d, k)>>
      BY DEF Listeners, Outs
    <3> HIDE DEF s
    <3> QED BY <3>1, EntryDoes
  <2>4. seen.log[l] = <<>> /\ seen.adds[l] = 0 /\ Arrived(seen.adds, stack, l) = 0
    <3> HIDE DEF l
    <3> QED BY <1>1, <2>1 DEF Arrived, Promised
  <2>5. <<>> \in Log /\ DOMAIN <<>> = {} /\ Len(<<>>) = 0
    BY EmptyIsSeq DEF Log
  <2> HIDE DEF c, s
  <2>6. Ledger(c, <<>>, 0)
    BY <2>2, <2>3, <2>5 DEF Ledger, Waits
  <2> QED BY <2>4, <2>6 DEF Outcome1, c
<1> QED BY <1>2, <1>3 DEF OrderInv

LEMMA OrderAlways == Spec => [](ListInv /\ OwnInv /\ OrderInv)
<1>1. Spec => [](ListInv /\ OwnInv)
  BY OwnAlways
<1>2. ASSUME ListInv /\ OwnInv, OrderInv, [Next]_vars
      PROVE  OrderInv'
  BY <1>2, OrderStep, OrderStutter
<1>3. Init /\ ListInv => OrderInv
  BY OrderInitIs
<1> QED BY <1>1, <1>2, <1>3, PTL DEF Spec

LEMMA OrderSays ==
  ASSUME ListInv, OrderInv
  PROVE  CallbacksInOrder
<1> SUFFICES ASSUME NEW d \in Deferred, NEW k \in Outs
             PROVE  LET l == <<d, k>>
                    IN /\ \A i \in DOMAIN seen.log[l] :
                            /\ k \in Kinds(d)
                            /\ seen.log[l][i] = <<i, callbacks[l].memory>>
                       /\ stack = <<>> /\ k \in Kinds(d) /\ ~Stuck(l)
                            => Len(seen.log[l]) = seen.adds[l]
  BY DEF CallbacksInOrder, Outs
<1> DEFINE l == <<d, k>>
           c == callbacks[l]
           L == seen.log[l]
           T == seen.adds[l]
<1>1. k \in Kinds(d) <=> state[d] = Final(k)
  BY DEF Kinds, Outs
<1>2. /\ L # <<>> => state[d] = Final(k)
      /\ Ledger(c, L, Arrived(seen.adds, stack, l))
  BY DEF OrderInv, Outcome1
<1>3. ASSUME NEW i \in DOMAIN L
      PROVE  k \in Kinds(d) /\ L[i] = <<i, c.memory>>
  <2>1. L # <<>>
    BY <1>3
  <2> HIDE DEF c, L
  <2> QED BY <1>1, <1>2, <1>3, <2>1 DEF Ledger
<1>4. ASSUME stack = <<>>, state[d] = Final(k), ~Stuck(l)
      PROVE  Len(L) = T
  <2>1. ~c.firing
    BY <1>4 DEF Stuck
  <2>2. CalmAt(Mine(page), joined, callbacks, state, d)
    BY <1>4 DEF ListInv, Arranged, Outcomes, Deciding, OnTop
  <2>3. Decided(Mine(page), joined, callbacks, state, d, k)
    BY <1>4, <2>2, OutIs, ListIds DEF Open
  <2>4. ~c.gone /\ c.list = <<>>
    BY <2>1, <2>3 DEF Decided, First, Again
  <2>5. Ledger(c, L, T)
    BY <1>4, Unpromised
  <2> DEFINE s == c.list
  <2>6. s = <<>> /\ DOMAIN s = {}
    BY <2>4
  <2> HIDE DEF c, L, T
  <2>7. L \in Log /\ T \in Int /\ Len(L) <= T /\ \A m \in (Len(L) + 1)..T : FALSE
    <3> HIDE DEF s
    <3> QED BY <2>4, <2>5, <2>6 DEF Ledger, s
  <2>8. Len(L) \in Nat
    BY <2>7, LogIs
  <2>9. T \notin (Len(L) + 1)..T
    BY <2>7
  <2> QED BY <2>7, <2>8, <2>9
<1> QED BY <1>1, <1>3, <1>4

-----------------------------------------------------------------------------
(* What progress is told once the deferred is settled *)

\* The list of notify is closed: nobody is told anything but the last value.
Closed(c) == c.locked /\ c.queue = <<>>

\* The deferred has just settled, and the loop of its outcome has yet to lock progress.
Closing(C, K, d) ==
  \E k \in Outs : LET c == C[<<d, k>>]
                  IN /\ OnTop(K, Loop(<<d, k>>)) /\ c.index < 3
                     /\ c.list # <<>> /\ c.list[1].do = "state"

ToldAt(d) ==
  LET c == callbacks[<<d, "notify">>]
  IN c.memory = seen.told[d] /\ (Closed(c) \/ Closing(callbacks, stack, d))

ToldInv == /\ seen.told \in [Deferred -> Value \cup {None}]
           /\ \A d \in Deferred : ~Open(state, d) => ToldAt(d)

StaysClosed(c, e) == Closed(c) => Closed(e) /\ e.memory = c.memory

\* Whatever is done to a closed list leaves it closed, with the value it had.
LEMMA ClosedStays ==
  ASSUME NEW c, List(c), c.options = {"memory"}
  PROVE  /\ StaysClosed(c, c)
         /\ \A u \in Entries : StaysClosed(c, Add(c, u))
         /\ \A v : StaysClosed(c, FireWith(c, v))
         /\ c.firing => StaysClosed(c, Advance(c))
         /\ StaysClosed(c, Lock(c))
         /\ StaysClosed(c, StopOnFalse(c))
         /\ c.firing /\ c.queue # <<>> => StaysClosed(c, NextValue(c))
         /\ c.firing /\ c.queue = <<>> => StaysClosed(c, Finish(c))
<1>1. StaysClosed(c, c)
  BY DEF StaysClosed
<1>2. ASSUME NEW u \in Entries PROVE StaysClosed(c, Add(c, u))
  <2> DEFINE e == Add(c, u)
  <2>1. e.memory = c.memory /\ e.queue = c.queue
    BY AddIs
  <2>2. c.locked => e.locked
    BY AddIs
  <2> HIDE DEF e
  <2> QED BY <2>1, <2>2 DEF e, StaysClosed, Closed
<1>3. ASSUME NEW v PROVE StaysClosed(c, FireWith(c, v))
  BY DEF StaysClosed, Closed, FireWith
<1>4. ASSUME c.firing PROVE StaysClosed(c, Advance(c))
  BY <1>4, AdvanceIs DEF StaysClosed, Closed
<1>5. StaysClosed(c, Lock(c))
  BY LockIs DEF StaysClosed, Closed
<1>6. StaysClosed(c, StopOnFalse(c))
  BY DEF StaysClosed, StopOnFalse
<1>7. ASSUME c.firing, c.queue # <<>> PROVE StaysClosed(c, NextValue(c))
  BY <1>7 DEF StaysClosed, Closed
<1>8. ASSUME c.firing, c.queue = <<>> PROVE StaysClosed(c, Finish(c))
  BY <1>8, FinishIs DEF StaysClosed, Closed
<1> QED BY <1>1, <1>2, <1>3, <1>4, <1>5, <1>6, <1>7, <1>8

\* A step of one list.
LEMMA OneStaysClosed ==
  ASSUME ListInv, NEW n \in ListId, NEW C, NEW m, NEW w, C = [callbacks EXCEPT ![m] = w],
         m = n => StaysClosed(callbacks[n], w)
  PROVE  StaysClosed(callbacks[n], C[n])
<1>1. callbacks \in [ListId -> Listing]
  BY TypesAre
<1>2. CASE m = n
  <2>1. C[n] = w
    BY <1>1, <1>2
  <2> QED BY <1>2, <2>1
<1>3. CASE m # n
  <2>1. C[n] = callbacks[n]
    BY <1>1, <1>3
  <2> QED BY <2>1 DEF StaysClosed
<1> QED BY <1>2, <1>3

\* The list of progress once it is closed.
LEMMA NotifyIs ==
  ASSUME ListInv, NEW d \in Deferred, NEW n, n = <<d, "notify">>
  PROVE  /\ n \in ListId /\ n # UserList /\ List(callbacks[n]) /\ callbacks[n].options = {"memory"}
         /\ \A k \in Outs : n # <<d, k>>
         /\ \A a : \A k \in Outs : n # <<a, k>>
<1>1. n \in ListId /\ n # UserList /\ n \in Deferred \X Kind /\ n[2] = "notify"
  BY ListIds
<1>2. callbacks[n].options = Options(n[2])
  BY <1>1, TypesAre DEF Lists
<1> QED BY <1>1, <1>2, TypesAre, ListIds DEF Outs

LEMMA AsideStaysClosed ==
  ASSUME ListInv, Aside, NEW d \in Deferred
  PROVE  StaysClosed(callbacks[<<d, "notify">>], callbacks'[<<d, "notify">>])
<1> DEFINE n == <<d, "notify">>
           c == callbacks[n]
<1>1. n \in ListId /\ List(c) /\ c.options = {"memory"}
  BY NotifyIs
<1> SUFFICES StaysClosed(c, callbacks'[n])
  OBVIOUS
<1> HIDE DEF n
<1>2. CASE callbacks' = callbacks
  BY <1>2 DEF StaysClosed
<1>3. ASSUME NEW m \in Deferred \X Kind, NEW v,
             callbacks' = [callbacks EXCEPT ![m] = FireWith(callbacks[m], v)]
      PROVE  StaysClosed(c, callbacks'[n])
  <2> DEFINE w == FireWith(callbacks[m], v)
  <2>1. m = n => StaysClosed(c, w)
    BY <1>1, ClosedStays
  <2>2. callbacks' = [callbacks EXCEPT ![m] = w]
    BY <1>3
  <2> HIDE DEF w
  <2> QED BY <1>1, <2>1, <2>2, OneStaysClosed
<1>4. ASSUME NEW m \in Deferred \X Kind, NEW u \in Entries, u.do = "update",
             callbacks' = [callbacks EXCEPT ![m] = Add(callbacks[m], u)]
      PROVE  StaysClosed(c, callbacks'[n])
  <2> DEFINE w == Add(callbacks[m], u)
  <2>1. m = n => StaysClosed(c, w)
    BY <1>1, ClosedStays
  <2>2. callbacks' = [callbacks EXCEPT ![m] = w]
    BY <1>4
  <2> HIDE DEF w
  <2> QED BY <1>1, <2>1, <2>2, OneStaysClosed
<1> QED BY <1>2, <1>3, <1>4 DEF Aside, OneList

LEMMA CallsStayClosed ==
  ASSUME ListInv, CallAdd \/ CallMethod \/ CallFire \/ CallAlways, NEW d \in Deferred
  PROVE  StaysClosed(callbacks[<<d, "notify">>], callbacks'[<<d, "notify">>])
<1> DEFINE n == <<d, "notify">>
           c == callbacks[n]
<1>1. n \in ListId /\ n # UserList /\ List(c) /\ c.options = {"memory"}
  BY NotifyIs
<1>2. callbacks \in [ListId -> Listing] /\ seen.adds \in [ListId -> Nat]
  BY TypesAre
<1> HIDE DEF n
<1>3. CASE CallAdd
  <2>1. PICK l \in ListId, f \in Function :
          callbacks' = [callbacks EXCEPT ![l] = Add(callbacks[l], User(f, seen.adds[l] + 1))]
    BY <1>3 DEF CallAdd, Apply
  <2> DEFINE u == User(f, seen.adds[l] + 1)
             w == Add(callbacks[l], u)
  <2>2. u \in Entries
    <3>1. seen.adds[l] + 1 \in Nat
      BY <1>2
    <3> QED BY <3>1, UserIs
  <2>3. callbacks' = [callbacks EXCEPT ![l] = w]
    BY <2>1
  <2> HIDE DEF u
  <2>4. l = n => StaysClosed(c, w)
    BY <1>1, <2>2, ClosedStays
  <2> HIDE DEF w
  <2> QED BY <1>1, <2>3, <2>4, OneStaysClosed DEF n
<1>4. CASE CallMethod
  <2>1. PICK w : callbacks' = [callbacks EXCEPT ![UserList] = w]
    BY <1>4 DEF CallMethod, Apply
  <2> QED BY <1>1, <2>1, OneStaysClosed DEF n
<1>5. CASE CallFire
  <2>1. PICK l \in ListId : \E v :
          callbacks' = [callbacks EXCEPT ![l] = FireWith(callbacks[l], v)]
    BY <1>5 DEF CallFire, Apply
  <2>2. PICK v : callbacks' = [callbacks EXCEPT ![l] = FireWith(callbacks[l], v)]
    BY <2>1
  <2> DEFINE w == FireWith(callbacks[l], v)
  <2>3. callbacks' = [callbacks EXCEPT ![l] = w]
    BY <2>2
  <2>4. l = n => StaysClosed(c, w)
    BY <1>1, ClosedStays
  <2> HIDE DEF w
  <2> QED BY <1>1, <2>3, <2>4, OneStaysClosed DEF n
<1>6. CASE CallAlways
  BY <1>6 DEF CallAlways, StaysClosed
<1> QED BY <1>3, <1>4, <1>5, <1>6

LEMMA LoopsStayClosed ==
  ASSUME ListInv, EndLoop \/ AddNext \/ ReturnToLoop, NEW d \in Deferred
  PROVE  StaysClosed(callbacks[<<d, "notify">>], callbacks'[<<d, "notify">>])
<1> DEFINE n == <<d, "notify">>
           c == callbacks[n]
<1>1. n \in ListId /\ n # UserList /\ List(c) /\ c.options = {"memory"}
  BY NotifyIs
<1> HIDE DEF n
<1>2. CASE EndLoop
  <2> DEFINE l == Top.l
  <2>1. /\ Running("loop")
        /\ IF callbacks[l].queue # <<>>
           THEN callbacks' = [callbacks EXCEPT ![l] = NextValue(callbacks[l])]
           ELSE callbacks' = [callbacks EXCEPT ![l] = Finish(callbacks[l])]
    BY <1>2 DEF EndLoop
  <2>2. callbacks[l].firing
    BY <2>1, TopLoop
  <2> HIDE DEF l
  <2>3. CASE callbacks[l].queue # <<>>
    <3> DEFINE w == NextValue(callbacks[l])
    <3>1. callbacks' = [callbacks EXCEPT ![l] = w]
      BY <2>1, <2>3
    <3>2. l = n => StaysClosed(c, w)
      BY <1>1, <2>2, <2>3, ClosedStays
    <3> HIDE DEF w
    <3> QED BY <1>1, <3>1, <3>2, OneStaysClosed DEF n
  <2>4. CASE callbacks[l].queue = <<>>
    <3> DEFINE w == Finish(callbacks[l])
    <3>1. callbacks' = [callbacks EXCEPT ![l] = w]
      BY <2>1, <2>4
    <3>2. l = n => StaysClosed(c, w)
      BY <1>1, <2>2, <2>4, ClosedStays
    <3> HIDE DEF w
    <3> QED BY <1>1, <3>1, <3>2, OneStaysClosed DEF n
  <2> QED BY <2>3, <2>4
<1>3. CASE AddNext
  <2> DEFINE t == Top.todo
             l == Head(t)[1]
             u == Head(t)[2]
             w == Add(callbacks[l], u)
  <2>1. callbacks' = [callbacks EXCEPT ![l] = w]
    BY <1>3 DEF AddNext, Apply
  <2>2. t \in Seq(Todos) /\ t # <<>>
    BY <1>3, AddsNext
  <2>3. u \in Entries
    BY <2>2, TodoIs
  <2> HIDE DEF l, u
  <2>4. l = n => StaysClosed(c, w)
    BY <1>1, <2>3, ClosedStays
  <2> HIDE DEF w
  <2> QED BY <1>1, <2>1, <2>4, OneStaysClosed DEF n
<1>4. CASE ReturnToLoop
  <2> DEFINE l == Caller.l
             w == StopOnFalse(callbacks[l])
  <2>1. callbacks' = callbacks \/ callbacks' = [callbacks EXCEPT ![l] = w]
    BY <1>4 DEF ReturnToLoop
  <2> HIDE DEF l
  <2>2. l = n => StaysClosed(c, w)
    BY <1>1, ClosedStays
  <2> HIDE DEF w
  <2>3. CASE callbacks' = [callbacks EXCEPT ![l] = w]
    BY <1>1, <2>2, <2>3, OneStaysClosed DEF n
  <2>4. CASE callbacks' = callbacks
    BY <2>4 DEF StaysClosed
  <2> QED BY <2>1, <2>3, <2>4
<1> QED BY <1>2, <1>3, <1>4

LEMMA CallNextStaysClosed ==
  ASSUME ListInv, CallNext, NEW d \in Deferred
  PROVE  StaysClosed(callbacks[<<d, "notify">>], callbacks'[<<d, "notify">>])
<1> DEFINE n == <<d, "notify">>
           c == callbacks[n]
           l == Top.l
           b == callbacks[l]
           e == Current(b)
           C == [callbacks EXCEPT ![l] = Advance(b)]
<1>1. n \in ListId /\ n # UserList /\ List(c) /\ c.options = {"memory"}
      /\ \A a : \A k \in Outs : n # <<a, k>>
  BY NotifyIs
<1>2. /\ Running("loop") /\ Pending(b) /\ Does(e, b.memory, l, C, stack)
  BY InvokeDoes DEF CallNext
<1>3. /\ l \in ListId /\ callbacks \in [ListId -> Listing] /\ b.firing /\ e \in Entries
      /\ Lists(Mine(page), joined, callbacks) /\ b.index + 1 \in DOMAIN b.list
      /\ e = b.list[b.index + 1]
  BY <1>2, TypesAre, TopLoop, RunsLoop
<1>4. e.do = "user" \/ \E a \in Deferred : \E k \in Kind : l = <<a, k>> /\ CurrentOf(a, k, e)
  <2>1. CASE l = UserList
    BY <1>3, <2>1 DEF Lists
  <2>2. CASE l # UserList
    <3>1. PICK a \in Deferred, k \in Kind : l = <<a, k>>
      BY <1>3, <2>2, ListIds
    <3>2. CurrentOf(a, k, e)
      BY <1>2, <3>1, CurrentIs
    <3> QED BY <3>1, <3>2
  <2> QED BY <2>1, <2>2
<1> SUFFICES StaysClosed(c, callbacks'[n])
  OBVIOUS
<1> HIDE DEF l, e, n
<1>5. StaysClosed(c, C[n]) /\ List(C[n]) /\ C[n].options = {"memory"} /\ DOMAIN C = ListId
  <2> DEFINE w == Advance(b)
  <2>1. l = n => StaysClosed(c, w) /\ List(w) /\ w.options = {"memory"}
    BY <1>1, <1>3, ClosedStays, AdvanceIs
  <2>2. C = [callbacks EXCEPT ![l] = w]
    OBVIOUS
  <2> HIDE DEF w, C
  <2>3. StaysClosed(c, C[n]) /\ DOMAIN C = ListId
    BY <1>1, <1>3, <2>1, <2>2, OneStaysClosed
  <2>4. C[n] = (IF l = n THEN w ELSE callbacks[n])
    BY <1>1, <1>3, <2>2
  <2> QED BY <1>1, <2>1, <2>3, <2>4
<1> HIDE DEF C
<1>6. CASE callbacks' = C
  BY <1>5, <1>6
<1>7. ASSUME NEW m, NEW w, callbacks' = [C EXCEPT ![m] = w], m = n => StaysClosed(C[n], w)
      PROVE  StaysClosed(c, callbacks'[n])
  <2>1. CASE m = n
    <3>1. callbacks'[n] = w
      BY <1>1, <1>5, <1>7, <2>1
    <3> QED BY <1>5, <1>7, <2>1, <3>1 DEF StaysClosed
  <2>2. CASE m # n
    <3>1. callbacks'[n] = C[n]
      BY <1>1, <1>5, <1>7, <2>2
    <3> QED BY <1>5, <3>1
  <2> QED BY <2>1, <2>2
<1>8. ASSUME NEW m, NEW v, Fire(m, v, C, stack)
      PROVE  StaysClosed(c, callbacks'[n])
  <2> DEFINE w == FireWith(C[m], v)
  <2>1. callbacks' = [C EXCEPT ![m] = w]
    BY <1>8 DEF Fire
  <2>2. m = n => StaysClosed(C[n], w)
    BY <1>5, ClosedStays
  <2> HIDE DEF w
  <2> QED BY <1>7, <2>1, <2>2
<1>9. CASE e.do \in {"state", "handlers", "user", "pipe"}
  BY <1>2, <1>6, <1>9 DEF Does
<1>10. CASE e.do \in {"settle", "update"}
  BY <1>2, <1>6, <1>8, <1>10 DEF Does
<1>11. CASE e.do = "lock"
  <2> DEFINE m == <<e.d, e.k>>
             w == Lock(C[m])
  <2>1. callbacks' = [C EXCEPT ![m] = w]
    BY <1>2, <1>11 DEF Does
  <2>2. m = n => StaysClosed(C[n], w)
    BY <1>5, ClosedStays
  <2> HIDE DEF m, w
  <2> QED BY <1>7, <2>1, <2>2
<1>12. CASE e.do = "disable"
  <2> DEFINE m == <<e.d, e.k>>
             w == Disable(C[m])
  <2>1. callbacks' = [C EXCEPT ![m] = w]
    BY <1>2, <1>12 DEF Does
  <2>2. PICK k \in Outs : e.k = Other(k)
    BY <1>4, <1>12 DEF CurrentOf, Late, Entry
  <2>3. m # n
    BY <1>1, <2>2, ListIds
  <2> HIDE DEF m, w
  <2> QED BY <1>7, <2>1, <2>3
<1> QED BY <1>3, <1>9, <1>10, <1>11, <1>12 DEF Entries, Doing

LEMMA NotifyStaysClosed ==
  ASSUME ListInv, Next, NEW d \in Deferred
  PROVE  StaysClosed(callbacks[<<d, "notify">>], callbacks'[<<d, "notify">>])
BY MostAreAside, AsideStaysClosed, CallsStayClosed, LoopsStayClosed, CallNextStaysClosed

\* Only the loop of its outcome tells a deferred what progress ends with.
LEMMA ToldStays ==
  ASSUME ListInv, ToldInv, Next
  PROVE  /\ seen'.told \in [Deferred -> Value \cup {None}]
         /\ \A d \in Deferred : ~Open(state, d) => seen'.told[d] = seen.told[d]
<1>1. CASE seen'.told = seen.told
  BY <1>1 DEF ToldInv
<1>2. ASSUME NEW a \in Deferred,
             seen' = [seen EXCEPT !.told[a] = callbacks[<<a, "notify">>].memory]
      PROVE  /\ seen'.told \in [Deferred -> Value \cup {None}]
             /\ \A d \in Deferred : ~Open(state, d) => seen'.told[d] = seen.told[d]
  <2> DEFINE y == callbacks[<<a, "notify">>].memory
  <2>1. y \in Value \cup {None}
    BY NotifyIs, ListIs
  <2>2. ~Open(state, a) => y = seen.told[a]
    BY DEF ToldInv, ToldAt
  <2> HIDE DEF y
  <2>3. seen'.told = [seen.told EXCEPT ![a] = y]
    BY <1>2, TypesAre DEF SeenField, y
  <2>4. seen.told \in [Deferred -> Value \cup {None}]
    BY DEF ToldInv
  <2> QED BY <2>1, <2>2, <2>3, <2>4
<1>3. CASE Aside
  BY <1>1, <1>3 DEF Aside, SameLog
<1>4. CASE CallAdd
  <2>1. \E l, n : seen' = [seen EXCEPT !.adds[l] = n]
    BY <1>4 DEF CallAdd
  <2> QED BY <1>1, <2>1, TypesAre DEF SeenField
<1>5. CASE CallMethod
  <2>1. seen' = seen \/ \E x : seen' = [seen EXCEPT !.emptied = x]
    BY <1>5 DEF CallMethod
  <2> QED BY <1>1, <2>1, TypesAre DEF SeenField
<1>6. CASE CallAlways
  <2>1. \E l, n, k, m : seen' = [seen EXCEPT !.adds[l] = n, !.adds[k] = m]
    BY <1>6 DEF CallAlways
  <2> QED BY <1>1, <2>1, TypesAre DEF SeenField
<1>7. CASE CallFire \/ EndLoop \/ AddNext \/ ReturnToLoop
  BY <1>1, <1>7 DEF CallFire, EndLoop, AddNext, ReturnToLoop
<1>8. CASE CallNext
  <2> DEFINE l == Top.l
             c == callbacks[l]
             e == Current(c)
             C == [callbacks EXCEPT ![l] = Advance(c)]
  <2>1. Running("loop") /\ Pending(c) /\ Invoke(e, c.memory, l, C, stack)
    BY <1>8 DEF CallNext
  <2>2. e \in Entries /\ Lists(Mine(page), joined, callbacks) /\ l \in ListId
        /\ c.index + 1 \in DOMAIN c.list /\ e = c.list[c.index + 1]
    BY <2>1, TypesAre, TopLoop, RunsLoop
  <2>3. CASE e.do # "state"
    <3>1. Told1(l, e, c.memory)
      BY <2>1, InvokeSays
    <3> HIDE DEF l, e
    <3> QED BY <1>1, <2>3, <3>1, TypesAre DEF Told1, SeenField
  <2>4. CASE e.do = "state"
    <3>1. l # UserList
      BY <2>2, <2>4 DEF Lists
    <3>2. PICK a \in Deferred, k \in Kind : l = <<a, k>>
      BY <2>2, <3>1, ListIds
    <3>3. CurrentOf(a, k, e)
      BY <2>1, <3>2, CurrentIs
    <3>4. e.d = a
      BY <2>4, <3>3 DEF CurrentOf, Late, Entry
    <3> HIDE DEF e, C, l
    <3>5. seen' = [seen EXCEPT !.told[e.d] = callbacks[<<e.d, "notify">>].memory]
      BY <2>1, <2>4 DEF Invoke, InvokeState, InvokeDisable, InvokeLock, InvokeHandlers,
           InvokeScript, InvokeSettle, InvokePipe, InvokeUpdate
    <3> QED BY <1>2, <3>4, <3>5
  <2> QED BY <2>3, <2>4
<1> QED BY <1>3, <1>4, <1>5, <1>6, <1>7, <1>8, MostAreAside

\* Between the state and the lock of progress the loop of the outcome is alone.
LEMMA ClosingGoes ==
  ASSUME ListInv, Next, NEW d \in Deferred, ~Open(state, d), Closing(callbacks, stack, d)
  PROVE  LET c == callbacks[<<d, "notify">>]
             e == callbacks'[<<d, "notify">>]
         IN e.memory = c.memory /\ (Closed(e) \/ Closing(callbacks', stack', d))
<1> DEFINE n == <<d, "notify">>
           M == Mine(page)
<1>1. PICK k \in Outs : /\ OnTop(stack, Loop(<<d, k>>)) /\ callbacks[<<d, k>>].index < 3
                        /\ callbacks[<<d, k>>].list # <<>>
                        /\ callbacks[<<d, k>>].list[1].do = "state"
  BY DEF Closing
<1> DEFINE l == <<d, k>>
           o == <<d, Other(k)>>
           c == callbacks[l]
           b == Advance(c)
           C == [callbacks EXCEPT ![l] = b]
<1>2. Running("loop") /\ Top.l = l
  BY <1>1 DEF OnTop, Running, Top, Loop
<1>3. /\ l \in ListId /\ c.firing /\ List(c) /\ callbacks \in [ListId -> Listing]
      /\ \A x : OnTop(stack, Loop(x)) => x = l
      /\ o \in ListId /\ n \in ListId /\ l # n /\ o # n /\ l # o /\ List(callbacks[n])
  BY <1>2, TopLoop, TypesAre, NotifyIs, ListIds
<1>4. 1 \in DOMAIN c.list
  <2>1. Len(c.list) # 0
    BY <1>1, <1>3, ListIs
  <2> QED BY <1>3, <2>1, ListIs
<1>5. First(M, joined, c, d, k) /\ c.index \in {1, 2}
  <2>1. CASE CalmAt(M, joined, callbacks, state, d)
    <3>1. Decided(M, joined, callbacks, state, d, k)
      BY <1>3, <2>1, OutIs DEF Waiting, Dead
    <3>2. Again(M, joined, c)
      BY <1>1, <3>1, <1>3, ListIs DEF Decided
    <3>3. Late(M, joined, c.list[1])
      BY <1>4, <3>2 DEF Again
    <3> QED BY <1>1, <3>3 DEF Late
  <2>2. ASSUME NEW j \in Outs, Deciding(M, joined, callbacks, state, stack, d, j)
        PROVE  First(M, joined, c, d, k) /\ c.index \in {1, 2}
    <3>1. j = k
      BY <1>3, <2>2 DEF Deciding
    <3> QED BY <1>1, <2>2, <3>1 DEF Deciding
  <2> QED BY <2>1, <2>2 DEF ListInv, Arranged, Outcomes
<1>6. Pending(c) /\ Current(c) = c.list[c.index + 1]
      /\ c.list[2] = Entry("disable", d, Other(k)) /\ c.list[3] = Entry("lock", d, "notify")
  <2>1. Len(c.list) \in Nat /\ Len(c.list) >= 4
    BY <1>3, <1>5, ListIs DEF First, Starts
  <2> QED BY <1>5, <2>1 DEF First, Starts, Pending, Current
<1>7. CallNext
  <2>1. Top.at = "loop" /\ stack # <<>>
    BY <1>2, TopLoop DEF Loop
  <2>2. ~Aside
    BY <2>1 DEF Aside
  <2>3. ~Running("code") /\ ~Running("adds")
    BY <2>1, RunsWhat
  <2>4. ~EndLoop
    BY <1>2, <1>6 DEF EndLoop
  <2> QED BY <2>2, <2>3, <2>4, MostAreAside
         DEF CallAdd, CallMethod, CallFire, CallAlways, AddNext, ReturnToLoop, May
<1>8. Does(Current(c), c.memory, l, C, stack)
  BY <1>2, <1>7, InvokeDoes DEF CallNext
<1>9. b.list = c.list /\ b.index = c.index + 1
  BY <1>3, AdvanceIs
<1>10. C \in [ListId -> Listing] /\ C[l] = b /\ C[n] = callbacks[n]
  <2>1. b \in Listing
    BY <1>3, AdvanceIs DEF List, ListOf, Listing
  <2> HIDE DEF b, l, n
  <2> QED BY <1>3, <2>1
<1>11. CASE c.index = 1
  <2> DEFINE w == Disable(C[o])
  <2>1. callbacks' = [C EXCEPT ![o] = w] /\ stack' = stack
    BY <1>6, <1>8, <1>11 DEF Does, Entry
  <2> HIDE DEF w, o, l, n, b, C, c
  <2>2. callbacks'[l] = b /\ callbacks'[n] = callbacks[n]
    BY <1>3, <1>10, <2>1
  <2>3. Closing(callbacks', stack', d)
    BY <1>1, <1>9, <1>11, <2>1, <2>2 DEF Closing, l, c
  <2> QED BY <2>2, <2>3 DEF n
<1>12. CASE c.index = 2
  <2> DEFINE w == Lock(callbacks[n])
  <2>1. callbacks' = [C EXCEPT ![n] = Lock(C[n])]
    BY <1>6, <1>8, <1>12 DEF Does, Entry
  <2>2. Closed(w) /\ w.memory = callbacks[n].memory
    BY <1>3, LockIs DEF Closed
  <2>3. callbacks'[n] = w
    <3>1. callbacks' = [C EXCEPT ![n] = w]
      BY <1>10, <2>1
    <3> HIDE DEF w, C, n
    <3> QED BY <1>3, <1>10, <3>1
  <2> HIDE DEF w
  <2> QED BY <2>2, <2>3
<1> QED BY <1>5, <1>11, <1>12

LEMMA ToldStep ==
  ASSUME ListInv, ToldInv, Next
  PROVE  ToldInv'
<1>1. seen'.told \in [Deferred -> Value \cup {None}]
      /\ \A d \in Deferred : ~Open(state, d) => seen'.told[d] = seen.told[d]
  BY ToldStays
<1>2. ASSUME NEW d \in Deferred, ~Open(state, d)
      PROVE  ToldAt(d)'
  <2> DEFINE n == <<d, "notify">>
             c == callbacks[n]
             e == callbacks'[n]
  <2>1. c.memory = seen.told[d] /\ (Closed(c) \/ Closing(callbacks, stack, d))
    BY <1>2 DEF ToldInv, ToldAt
  <2>2. e.memory = c.memory /\ (Closed(e) \/ Closing(callbacks', stack', d))
    <3>1. CASE Closed(c)
      BY <3>1, NotifyStaysClosed DEF StaysClosed
    <3>2. CASE Closing(callbacks, stack, d)
      BY <1>2, <3>2, ClosingGoes
    <3> QED BY <2>1, <3>1, <3>2
  <2>3. seen'.told[d] = seen.told[d]
    BY <1>1, <1>2
  <2> HIDE DEF c, e
  <2> QED BY <2>1, <2>2, <2>3 DEF ToldAt, c, e
<1>3. ASSUME NEW d \in Deferred, Open(state, d), ~Open(state', d)
      PROVE  ToldAt(d)'
  <2>1. PICK k \in Outs : Settles(d, k)
    <3>1. ASSUME Keeps(Deferred, callbacks, state, callbacks', state') PROVE FALSE
      <4>1. state'[d] \in {"unborn", "pending", "resolved", "rejected"}
        BY StepGoes DEF ListInv, Typed
      <4>2. \E k \in Outs : state'[d] = Final(k)
        BY <1>3, <4>1 DEF Open, Outs, Final
      <4>3. \E k \in Outs : state[d] = Final(k)
        BY <3>1, <4>2 DEF Keeps
      <4> QED BY <1>3, <4>3, ListIds DEF Open
    <3>2. ASSUME NEW a \in Deferred, NEW j \in Outs, Tells(a, j) PROVE FALSE
      BY <1>3, <3>2 DEF Tells
    <3>3. ASSUME NEW a \in Deferred, NEW j \in Outs, Settles(a, j) PROVE a = d
      <4>1. state' = [state EXCEPT ![a] = Final(j)]
        BY <3>3 DEF Settles
      <4>2. DOMAIN state = Deferred
        BY DEF ListInv, Typed
      <4>3. a # d => state'[d] = state[d]
        BY <4>1, <4>2
      <4> QED BY <1>3, <4>3 DEF Open
    <3> QED BY <3>1, <3>2, <3>3, StepGoes
  <2> DEFINE n == <<d, "notify">>
             l == <<d, k>>
             b == Advance(callbacks[l])
             y == callbacks[n].memory
  <2>2. /\ callbacks \in [ListId -> Listing] /\ l \in ListId /\ n \in ListId /\ n # l
        /\ List(callbacks[l])
    BY TypesAre, ListIds, NotifyIs
  <2>3. /\ callbacks' = [callbacks EXCEPT ![l] = b] /\ stack' = stack
        /\ OnTop(stack, Loop(l)) /\ callbacks[l].index = 0 /\ callbacks[l].firing
        /\ callbacks[l].list # <<>> /\ callbacks[l].list[1].do = "state"
    <3>1. /\ First(Mine(page), joined, callbacks[l], d, k) /\ callbacks[l].index = 0
          /\ OnTop(stack, Loop(l)) /\ callbacks' = Next1(d, k) /\ stack' = stack
      BY <2>1 DEF Settles
    <3>2. /\ callbacks[l].firing /\ Len(callbacks[l].list) >= 4
          /\ callbacks[l].list[1] = Entry("state", d, k)
      BY <3>1 DEF First, Starts
    <3>3. callbacks[l].list # <<>>
      BY <3>2
    <3> QED BY <3>1, <3>2, <3>3, EntryDoes DEF Next1
  <2>4. b.list = callbacks[l].list /\ b.index = 1
    BY <2>2, <2>3, AdvanceIs
  <2>5. seen'.told[d] = y
    <3>1. seen' = [seen EXCEPT !.told[d] = y]
      BY <2>1 DEF Settles
    <3>2. seen.told \in [Deferred -> Value \cup {None}] /\ DOMAIN seen = SeenField
      BY TypesAre DEF ToldInv
    <3> HIDE DEF y
    <3> QED BY <3>1, <3>2 DEF SeenField
  <2> HIDE DEF b, l, n
  <2>6. callbacks'[l] = b /\ callbacks'[n] = callbacks[n]
    BY <2>2, <2>3
  <2>7. Closing(callbacks', stack', d)
    BY <2>3, <2>4, <2>6 DEF Closing, l
  <2> QED BY <2>5, <2>6, <2>7 DEF ToldAt, n
<1> QED BY <1>1, <1>2, <1>3 DEF ToldInv

\* Only a loop calls functions of the page.
LEMMA OnlyLoopsCall == ASSUME ListInv, Next, ~CallNext PROVE seen'.log = seen.log
<1>1. CASE Aside
  BY <1>1 DEF Aside, SameLog
<1>2. CASE CallAdd
  <2>1. \E l, n : seen' = [seen EXCEPT !.adds[l] = n]
    BY <1>2 DEF CallAdd
  <2> QED BY <2>1, TypesAre DEF SeenField
<1>3. CASE CallMethod
  <2>1. seen' = seen \/ \E x : seen' = [seen EXCEPT !.emptied = x]
    BY <1>3 DEF CallMethod
  <2> QED BY <2>1, TypesAre DEF SeenField
<1>4. CASE CallAlways
  <2>1. \E l, n, k, m : seen' = [seen EXCEPT !.adds[l] = n, !.adds[k] = m]
    BY <1>4 DEF CallAlways
  <2> QED BY <2>1, TypesAre DEF SeenField
<1>5. CASE CallFire \/ EndLoop \/ AddNext \/ ReturnToLoop
  BY <1>5 DEF CallFire, EndLoop, AddNext, ReturnToLoop
<1> QED BY <1>1, <1>2, <1>3, <1>4, <1>5, MostAreAside

LEMMA ProgressStep ==
  ASSUME ListInv, OwnInv, ToldInv, Next, NEW d \in Deferred, Kinds(d) # {}
  PROVE  LET l == <<d, "notify">>
         IN \A i \in DOMAIN seen'.log[l] \ DOMAIN seen.log[l] :
              seen'.log[l][i][2] = seen.told[d]
<1> DEFINE l == <<d, "notify">>
           q == Top.l
           c == callbacks[q]
           e == Current(c)
           x == <<e.n, c.memory>>
           L == seen.log[l]
           R == seen'.log[l]
<1>1. callbacks[l].memory = seen.told[d]
  <2>1. ~Open(state, d)
    BY ListIds DEF Kinds, Open, Outs
  <2> QED BY <2>1 DEF ToldInv, ToldAt
<1>2. seen.log \in [ListId -> Log] /\ l \in ListId /\ L \in Log
  BY NotifyIs DEF OwnInv
<1>3. CASE ~CallNext
  BY <1>3, OnlyLoopsCall
<1>4. CASE CallNext
  <2>1. /\ Running("loop") /\ Pending(c)
        /\ Told1(q, e, c.memory)
    BY <1>4, InvokeSays DEF CallNext
  <2> HIDE DEF l, q, e, L, R
  <2>2. CASE seen'.log = seen.log
    BY <2>2 DEF l
  <2>3. CASE seen' = [seen EXCEPT !.log[q] = Append(@, <<e.n, c.memory>>)]
    <3> DEFINE z == Append(seen.log[q], x)
    <3>1. seen'.log = [seen.log EXCEPT ![q] = z]
      BY <2>3, TypesAre DEF SeenField
    <3>2. CASE q # l
      <4> HIDE DEF z
      <4>1. R = L
        BY <1>2, <3>1, <3>2 DEF R, L
      <4> QED BY <4>1 DEF R, L, l
    <3>3. CASE q = l
      <4>1. R = Append(L, x)
        <5>1. z = Append(L, x)
          BY <3>3 DEF L
        <5> HIDE DEF z
        <5> QED BY <1>2, <3>1, <3>3, <5>1 DEF R
      <4>2. x \in Nat \X (Value \cup {None}) /\ x[2] = seen.told[d]
        <5>1. e \in Entries /\ List(c)
          BY <2>1, RunsLoop, TopLoop DEF e, q
        <5>2. e.n \in Nat
          BY <5>1 DEF Entries
        <5> QED BY <1>1, <3>3, <5>1, <5>2, ListIs
      <4> DEFINE U == Nat \X (Value \cup {None})
      <4>3. L \in Seq(U) /\ x \in U
        BY <1>2, <4>2 DEF Log
      <4> HIDE DEF U, x
      <4>4. /\ Len(L) \in Nat /\ DOMAIN L = 1..Len(L) /\ DOMAIN R = 1..(Len(L) + 1)
            /\ R[Len(L) + 1] = x
        BY <4>1, <4>3, AppendIs
      <4>5. ASSUME NEW i \in DOMAIN R, i \notin DOMAIN L PROVE i = Len(L) + 1
        BY <4>4, <4>5
      <4> QED BY <4>2, <4>4, <4>5 DEF R, L, l
    <3> QED BY <3>2, <3>3
  <2> QED BY <2>1, <2>2, <2>3, TypesAre DEF Told1, SeenField
<1> QED BY <1>3, <1>4

LEMMA ToldStutter ==
  ASSUME ToldInv, UNCHANGED vars
  PROVE  ToldInv'
BY DEF vars, ToldInv, ToldAt, Closing

LEMMA ToldInitIs == ASSUME Init PROVE ToldInv
<1>1. /\ state = [d \in Deferred |-> IF d <= page.roots THEN "pending" ELSE "unborn"]
      /\ seen.told = [d \in Deferred |-> None]
  BY DEF Init
<1> QED BY <1>1 DEF ToldInv, Open

\* Everything the calls of the functions of the page rest on.
LEMMA CallsAlways == Spec => [](ListInv /\ OwnInv /\ OrderInv /\ ToldInv)
<1>1. Spec => [](ListInv /\ OwnInv /\ OrderInv)
  BY OrderAlways
<1>2. ASSUME ListInv /\ OwnInv /\ OrderInv, ToldInv, [Next]_vars
      PROVE  ToldInv'
  BY <1>2, ToldStep, ToldStutter
<1>3. Init => ToldInv
  BY ToldInitIs
<1> QED BY <1>1, <1>2, <1>3, PTL DEF Spec

\* DeferredsSpec!CallbacksRun, of jQuery.Callbacks and of done, fail and progress of a
\* deferred: the functions of the page that a list holds are called in the order in which they
\* were added, each once for a value, and nobody is passed over, whatever those functions
\* add, remove, fire or settle while the list calls them; a list with once is fired once; and
\* progress tells nothing new once the deferred has settled.
THEOREM CallbacksAreRun == Spec => CallbacksRun
<1>1. Spec => [](ListInv /\ OwnInv /\ OrderInv /\ ToldInv)
  BY CallsAlways
<1>2. Spec => []TypeOK
  BY DeferredsAreTyped
<1>3. ListInv /\ OwnInv /\ OrderInv =>
        CallbacksInOrder /\ NeverTwice /\ NobodyPassedOver /\ OnceIsOnce
  BY OrderSays, OwnSays
<1> DEFINE P == \A d \in Deferred : Kinds(d) # {} =>
                  LET l == <<d, "notify">>
                  IN \A i \in DOMAIN seen'.log[l] \ DOMAIN seen.log[l] :
                       seen'.log[l][i][2] = seen.told[d]
<1>4. ASSUME ListInv /\ OwnInv /\ OrderInv /\ ToldInv, Next PROVE P
  BY <1>4, ProgressStep
<1>5. Spec => [][P]_vars
  <2> HIDE DEF P
  <2> QED BY <1>1, <1>4, PTL DEF Spec
<1>6. Spec => ProgressStops
  BY <1>5 DEF ProgressStops
<1>7. Spec => [](TypeOK /\ CallbacksInOrder /\ NeverTwice /\ NobodyPassedOver /\ OnceIsOnce)
  BY <1>1, <1>2, <1>3, PTL
<1> QED BY <1>6, <1>7 DEF CallbacksRun

=============================================================================
