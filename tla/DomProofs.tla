----------------------------- MODULE DomProofs -----------------------------
(***************************************************************************)
(* Proofs about Dom: looks and classes come back, data does not outlive    *)
(* its element, queues keep their order and promises their time, whatever  *)
(* the page does to the tree in between; listeners are bound for exactly   *)
(* the handlers there are; and a script runs once, wherever it is moved.   *)
(*                                                                         *)
(* The record of Elements has many fields and a method writes few of them. *)
(* The methods are put together from a few kinds of steps: one that leaves *)
(* everything alone but the tree, one that cleans a set of nodes, one that *)
(* copies nodes, and those that write one node.  Each kind keeps what is   *)
(* known of a node, so all methods do.                                     *)
(*                                                                         *)
(* Handlers come second.  The tree is first.  Path and Without are         *)
(* recursive functions, so that they are defined is proved by induction:   *)
(* over the depth of a node, which Tree bounds, and over the length of a   *)
(* list.  Then Wired, which relates lists, listeners and the count of      *)
(* focusin, is carried through every method of Elements; a method that     *)
(* moves content under a node has to show that the node is not in the      *)
(* content (UpTo).  Last come the calls under way: what a frame may hold   *)
(* (Frame), and the steps of Dom.                                          *)
(*                                                                         *)
(* Scripts come third: what a method does to the scripts of the page       *)
(* (Follows), and what an evaluation has left to do (ScriptInv).           *)
(***************************************************************************)
EXTENDS DomSpec, FiniteSetTheorems, FunctionTheorems, SequenceTheorems,
        WellFoundedInduction, TLAPS

Fields ==
  {"parent", "made", "origin", "attr", "events", "bound", "attaches", "capture",
   "evaled", "user", "hasAttrs", "style", "display", "class", "kept", "pointer",
   "queue", "hooks", "running", "waits", "count", "ran", "clean", "leaked",
   "upset", "asked", "due", "last", "moves", "answer", "looks", "asWas", "away",
   "entered"}

\* Fields that are functions of the nodes.
PerNode == {"origin", "attr", "events", "user", "style", "display", "class", "kept",
            "queue", "running", "last", "answer", "looks", "asWas", "away"}

Shape(D) ==
  /\ DOMAIN D = Fields
  /\ \A x \in PerNode : DOMAIN D[x] = Node
  /\ Node \ Spare \subseteq D.made /\ D.made \subseteq Node

\* All fields but those of X are as they were.
SameBut(D, E, X) == \A x \in Fields \ X : E[x] = D[x]

-----------------------------------------------------------------------------
(* What is known of looks and classes *)

LooksOf(D, n) ==
  /\ n \notin D.made => D.looks[n] = None /\ D.asWas[n] = None /\ D.away[n] = None
  /\ D.display[n] = None \/ D.display[n] # "none"
  /\ D.looks[n] = "hidden" => D.style[n] = "none"
  /\ D.looks[n] = "shown" => D.style[n] # "none" /\ (D.style[n] = "" => ~BySheet(D, n))
  /\ D.asWas[n] # None => D.display[n] = D.asWas[n]
  /\ D.class[n] \subseteq Class
  /\ D.kept[n] = None \/ D.kept[n] \subseteq Class
  /\ D.away[n] # None /\ n \notin D.upset => D.kept[n] = D.away[n]

LookInv(D) == \A n \in Node : LooksOf(D, n)

(* What is known of data *)

\* n keeps nothing.
Blank(D, n) ==
  /\ D.events[n] = NoEvents /\ \A t \in Kept : <<n, t>> \notin D.bound
  /\ D.user[n] = None /\ D.display[n] = None
  /\ D.kept[n] = None
  /\ n \notin D.hooks
  /\ D.queue[n] = <<>>

DataInv(D) ==
  /\ D.clean \subseteq D.made
  /\ \A n \in D.clean : Blank(D, n)
  /\ \A n \in Node : /\ n \notin D.made => D.answer[n] = None
                     /\ D.answer[n] # None => D.user[n] = D.answer[n]

(* What is known of queues, when c calls have been made *)

\* The functions of a queue, and the last that was called, are in order.
Ordered(D, n, c) ==
  /\ D.queue[n] \in Seq(Nat) /\ D.last[n] \in Nat /\ D.last[n] <= c
  /\ \A i \in 1..Len(D.queue[n]) :
       D.queue[n][i] = 0 \/ (D.last[n] < D.queue[n][i] /\ D.queue[n][i] <= c)
  /\ \A i, j \in 1..Len(D.queue[n]) : i < j => D.queue[n][i] < D.queue[n][j]
  /\ D.running[n] \subseteq 1..c

\* One function runs, or nothing is queued.
Sentinel(D, n) ==
  n \notin D.upset =>
    IF D.running[n] = {} THEN D.queue[n] = <<>> /\ n \notin D.hooks
    ELSE /\ \E f \in D.running[n] : D.running[n] = {f}
         /\ D.queue[n] # <<>> /\ D.queue[n][1] = 0 /\ n \in D.hooks

\* promise() counts the queues it waits for, and the others have nothing that
\* it was asked for.
Counted(D, c) ==
  /\ D.due \subseteq 1..c
  /\ D.waits \subseteq D.asked /\ D.asked \subseteq Node
  /\ D.asked \cap D.upset = {} =>
       /\ D.waits \subseteq D.hooks
       /\ D.count = Cardinality(D.waits)
       /\ \A n \in D.asked \ D.waits : Pending(D, n) \cap D.due = {}

QueueInv(D, c) ==
  /\ \A n \in Node : Ordered(D, n, c) /\ Sentinel(D, n)
  /\ Counted(D, c)

DomInv(D, c) == Shape(D) /\ LookInv(D) /\ DataInv(D) /\ QueueInv(D, c)

-----------------------------------------------------------------------------
(* What the methods on the tree leave alone: the answers the page has had. *)

Faithful(D, E) ==
  /\ E.looks = D.looks /\ E.away = D.away /\ E.last = D.last
  /\ \A n \in Node : E.answer[n] \in {D.answer[n], None}

LEMMA FaithfulTwice ==
  ASSUME NEW D, NEW E, NEW F, Faithful(D, E), Faithful(E, F)
  PROVE  Faithful(D, F)
BY DEF Faithful

Elsewhere == {"parent", "evaled", "moves", "pointer", "entered", "ran", "attr",
              "attaches", "capture", "leaked", "hasAttrs"}

LEMMA PlainStep ==
  ASSUME NEW D, NEW E, NEW c, DomInv(D, c), DOMAIN E = Fields,
         SameBut(D, E, Elsewhere), DOMAIN E.attr = Node
  PROVE  /\ DomInv(E, c) /\ Faithful(D, E)
         /\ \A n \in Node : Blank(D, n) => Blank(E, n)
         /\ E.made = D.made
<1>1. /\ E.made = D.made /\ E.origin = D.origin /\ E.events = D.events /\ E.bound = D.bound
      /\ E.user = D.user /\ E.style = D.style /\ E.display = D.display /\ E.class = D.class
      /\ E.kept = D.kept /\ E.queue = D.queue /\ E.hooks = D.hooks /\ E.running = D.running
      /\ E.waits = D.waits /\ E.count = D.count /\ E.clean = D.clean /\ E.upset = D.upset
      /\ E.asked = D.asked /\ E.due = D.due /\ E.last = D.last /\ E.answer = D.answer
      /\ E.looks = D.looks /\ E.asWas = D.asWas /\ E.away = D.away
  BY DEF SameBut, Fields, Elsewhere
<1>2. Shape(E)
  <2>1. \A x \in PerNode : x = "attr" \/ x \in Fields \ Elsewhere
    BY DEF PerNode, Fields, Elsewhere
  <2>2. \A x \in PerNode : x = "attr" \/ E[x] = D[x]
    BY <2>1 DEF SameBut
  <2>3. \A x \in PerNode : DOMAIN E[x] = Node
    <3> SUFFICES ASSUME NEW x \in PerNode PROVE DOMAIN E[x] = Node
      OBVIOUS
    <3>1. CASE x = "attr"
      <4>1. E[x] = E.attr
        BY <3>1
      <4> QED BY <4>1
    <3>2. CASE E[x] = D[x]
      <4>1. DOMAIN D[x] = Node
        BY DEF DomInv, Shape
      <4> QED BY <3>2, <4>1
    <3> QED BY <2>2, <3>1, <3>2
  <2> QED BY <1>1, <2>3 DEF DomInv, Shape
<1>3. LookInv(E)
  <2> SUFFICES ASSUME NEW n \in Node PROVE LooksOf(E, n)
    BY DEF LookInv
  <2>1. LooksOf(D, n)
    BY DEF DomInv, LookInv
  <2>2. /\ E.looks[n] = D.looks[n] /\ E.asWas[n] = D.asWas[n] /\ E.away[n] = D.away[n]
        /\ E.display[n] = D.display[n] /\ E.style[n] = D.style[n] /\ E.origin[n] = D.origin[n]
        /\ E.kept[n] = D.kept[n] /\ E.class[n] = D.class[n]
        /\ (n \in E.upset <=> n \in D.upset) /\ (n \in E.made <=> n \in D.made)
    BY <1>1
  <2> QED BY <2>1, <2>2 DEF LooksOf, BySheet
<1>4. DataInv(E) /\ \A n \in Node : Blank(D, n) => Blank(E, n)
  BY <1>1 DEF DomInv, DataInv, Blank
<1>5. QueueInv(E, c)
  BY <1>1 DEF DomInv, QueueInv, Ordered, Sentinel, Counted, Pending
<1>6. Faithful(D, E)
  BY <1>1 DEF Faithful
<1> QED BY <1>1, <1>2, <1>3, <1>4, <1>5, <1>6 DEF DomInv

\* Everything that is known of n is as it was.
SameAt(D, E, n) ==
  /\ E.events[n] = D.events[n]
  /\ \A t \in Kept : <<n, t>> \in E.bound <=> <<n, t>> \in D.bound
  /\ E.user[n] = D.user[n] /\ E.answer[n] = D.answer[n]
  /\ E.display[n] = D.display[n] /\ E.style[n] = D.style[n] /\ E.origin[n] = D.origin[n]
  /\ E.looks[n] = D.looks[n] /\ E.asWas[n] = D.asWas[n]
  /\ E.kept[n] = D.kept[n] /\ E.away[n] = D.away[n] /\ E.class[n] = D.class[n]
  /\ E.queue[n] = D.queue[n] /\ E.running[n] = D.running[n] /\ E.last[n] = D.last[n]
  /\ n \in E.made <=> n \in D.made
  /\ n \in E.upset <=> n \in D.upset
  /\ n \in E.hooks <=> n \in D.hooks

LEMMA SameAtKeeps ==
  ASSUME NEW D, NEW E, NEW c, NEW n, SameAt(D, E, n)
  PROVE  /\ LooksOf(D, n) => LooksOf(E, n)
         /\ Blank(D, n) => Blank(E, n)
         /\ Ordered(D, n, c) => Ordered(E, n, c)
         /\ Sentinel(D, n) => Sentinel(E, n)
         /\ Pending(E, n) = Pending(D, n)
<1>1. LooksOf(D, n) => LooksOf(E, n)
  BY DEF SameAt, LooksOf, BySheet
<1>2. Blank(D, n) => Blank(E, n)
  BY DEF SameAt, Blank
<1>3. Ordered(D, n, c) => Ordered(E, n, c)
  BY DEF SameAt, Ordered
<1>4. Sentinel(D, n) => Sentinel(E, n)
  BY DEF SameAt, Sentinel
<1>5. Pending(E, n) = Pending(D, n)
  BY DEF SameAt, Pending
<1> QED BY <1>1, <1>2, <1>3, <1>4, <1>5

\* More calls put nothing out of order.
LEMMA MoreCalls ==
  ASSUME NEW D, NEW c \in Nat, NEW d \in Nat, c <= d, DomInv(D, c)
  PROVE  DomInv(D, d)
<1>1. \A n \in Node : Ordered(D, n, d)
  <2> SUFFICES ASSUME NEW n \in Node PROVE Ordered(D, n, d)
    OBVIOUS
  <2>1. Ordered(D, n, c)
    BY DEF DomInv, QueueInv
  <2>2. \A i \in 1..Len(D.queue[n]) : D.queue[n][i] \in Nat
    BY <2>1, SMTT(30) DEF Ordered
  <2>3. \A i \in 1..Len(D.queue[n]) : D.queue[n][i] <= c => D.queue[n][i] <= d
    BY <2>2
  <2>4. 1..c \subseteq 1..d
    OBVIOUS
  <2> QED BY <2>1, <2>3, <2>4 DEF Ordered
<1>2. Counted(D, d)
  <2>1. 1..c \subseteq 1..d
    OBVIOUS
  <2> QED BY <2>1 DEF DomInv, QueueInv, Counted
<1> QED BY <1>1, <1>2 DEF DomInv, QueueInv

-----------------------------------------------------------------------------
(* cleanData *)

\* What E has of D when the nodes of S were cleaned.
Cleaned(D, E, S) ==
  /\ E.made = D.made /\ E.looks = D.looks /\ E.away = D.away /\ E.last = D.last
  /\ E.asked = D.asked /\ E.due = D.due /\ E.count = D.count /\ E.clean = D.clean
  /\ E.style = D.style /\ E.origin = D.origin /\ E.running = D.running
  /\ E.class = D.class
  /\ E.upset = D.upset \cup S /\ E.hooks = D.hooks \ S /\ E.waits = D.waits \ S
  /\ E.bound = {b \in D.bound : b[1] \notin S}
  /\ E.events = [n \in Node |-> IF n \in S THEN NoEvents ELSE D.events[n]]
  /\ E.user = [n \in Node |-> IF n \in S THEN None ELSE D.user[n]]
  /\ E.answer = [n \in Node |-> IF n \in S THEN None ELSE D.answer[n]]
  /\ E.display = [n \in Node |-> IF n \in S THEN None ELSE D.display[n]]
  /\ E.asWas = [n \in Node |-> IF n \in S THEN None ELSE D.asWas[n]]
  /\ E.kept = [n \in Node |-> IF n \in S THEN None ELSE D.kept[n]]
  /\ E.queue = [n \in Node |-> IF n \in S THEN <<>> ELSE D.queue[n]]

LEMMA CleanFields ==
  ASSUME NEW D, NEW S, Shape(D)
  PROVE  Shape(CleanData(D, S)) /\ Cleaned(D, CleanData(D, S), S)
<1> DEFINE U == Unbound(D, S)
           E == CleanData(D, S)
<1>1. DOMAIN U = Fields /\ U.bound = {b \in D.bound : b[1] \notin S}
      /\ SameBut(D, U, {"attaches", "capture", "bound", "leaked"})
  BY DEF Shape, Unbound, Detached, Fields, SameBut
<1>2. /\ U.made = D.made /\ U.looks = D.looks /\ U.away = D.away /\ U.last = D.last
      /\ U.asked = D.asked /\ U.due = D.due /\ U.count = D.count /\ U.clean = D.clean
      /\ U.style = D.style /\ U.origin = D.origin /\ U.running = D.running
      /\ U.upset = D.upset /\ U.hooks = D.hooks /\ U.waits = D.waits
      /\ U.events = D.events /\ U.user = D.user /\ U.answer = D.answer
      /\ U.display = D.display /\ U.asWas = D.asWas /\ U.kept = D.kept
      /\ U.queue = D.queue /\ U.attr = D.attr /\ U.class = D.class
  BY <1>1 DEF SameBut, Fields
<1>3. E = Forgotten(U, S)
  BY DEF CleanData
<1> HIDE DEF U, E
<1>4. /\ DOMAIN E = Fields
      /\ E.made = U.made /\ E.looks = U.looks /\ E.away = U.away /\ E.last = U.last
      /\ E.asked = U.asked /\ E.due = U.due /\ E.count = U.count /\ E.clean = U.clean
      /\ E.style = U.style /\ E.origin = U.origin /\ E.running = U.running
      /\ E.attr = U.attr /\ E.class = U.class
      /\ E.upset = U.upset \cup S /\ E.hooks = U.hooks \ S /\ E.waits = U.waits \ S
      /\ E.bound = U.bound
  BY <1>1, <1>3 DEF Forgotten, Fields
<1>5. /\ E.events = [n \in Node |-> IF n \in S THEN NoEvents ELSE U.events[n]]
      /\ E.user = [n \in Node |-> IF n \in S THEN None ELSE U.user[n]]
      /\ E.answer = [n \in Node |-> IF n \in S THEN None ELSE U.answer[n]]
      /\ E.display = [n \in Node |-> IF n \in S THEN None ELSE U.display[n]]
      /\ E.asWas = [n \in Node |-> IF n \in S THEN None ELSE U.asWas[n]]
      /\ E.kept = [n \in Node |-> IF n \in S THEN None ELSE U.kept[n]]
      /\ E.queue = [n \in Node |-> IF n \in S THEN <<>> ELSE U.queue[n]]
  BY <1>1, <1>3 DEF Forgotten, Fields
<1>6. Shape(E)
  <2>1. \A x \in {"style", "origin", "running", "attr", "class", "looks", "away", "last"} :
           DOMAIN D[x] = Node
    BY DEF Shape, PerNode
  <2>2. /\ DOMAIN E.style = Node /\ DOMAIN E.origin = Node /\ DOMAIN E.running = Node
        /\ DOMAIN E.attr = Node /\ DOMAIN E.class = Node /\ DOMAIN E.looks = Node
        /\ DOMAIN E.away = Node /\ DOMAIN E.last = Node
    BY <1>2, <1>4, <2>1
  <2>3. /\ DOMAIN E.events = Node /\ DOMAIN E.user = Node /\ DOMAIN E.answer = Node
        /\ DOMAIN E.display = Node /\ DOMAIN E.asWas = Node /\ DOMAIN E.kept = Node
        /\ DOMAIN E.queue = Node
    BY <1>5
  <2>4. \A x \in PerNode : DOMAIN E[x] = Node
    BY <2>2, <2>3 DEF PerNode
  <2> QED BY <1>2, <1>4, <2>4 DEF Shape
<1> QED BY <1>1, <1>2, <1>4, <1>5, <1>6 DEF E, Cleaned

LEMMA CleanKeeps ==
  ASSUME NEW D, NEW c, NEW S \in SUBSET Node, DomInv(D, c)
  PROVE  /\ DomInv(CleanData(D, S), c) /\ Faithful(D, CleanData(D, S))
         /\ CleanData(D, S).made = D.made
         /\ \A n \in Node : Blank(D, n) \/ n \in S => Blank(CleanData(D, S), n)
<1> DEFINE E == CleanData(D, S)
<1>0. Shape(E) /\ Cleaned(D, E, S)
  BY CleanFields DEF DomInv
<1> HIDE DEF E
<1>1. /\ E.made = D.made /\ E.looks = D.looks /\ E.away = D.away /\ E.last = D.last
      /\ E.asked = D.asked /\ E.due = D.due /\ E.count = D.count /\ E.clean = D.clean
      /\ E.style = D.style /\ E.origin = D.origin /\ E.running = D.running
      /\ E.class = D.class /\ E.upset = D.upset \cup S /\ E.hooks = D.hooks \ S /\ E.waits = D.waits \ S
      /\ E.bound = {b \in D.bound : b[1] \notin S}
      /\ E.events = [n \in Node |-> IF n \in S THEN NoEvents ELSE D.events[n]]
      /\ E.user = [n \in Node |-> IF n \in S THEN None ELSE D.user[n]]
      /\ E.answer = [n \in Node |-> IF n \in S THEN None ELSE D.answer[n]]
      /\ E.display = [n \in Node |-> IF n \in S THEN None ELSE D.display[n]]
      /\ E.asWas = [n \in Node |-> IF n \in S THEN None ELSE D.asWas[n]]
      /\ E.kept = [n \in Node |-> IF n \in S THEN None ELSE D.kept[n]]
      /\ E.queue = [n \in Node |-> IF n \in S THEN <<>> ELSE D.queue[n]]
  BY <1>0 DEF Cleaned
<1>2. ASSUME NEW n \in Node, n \notin S PROVE SameAt(D, E, n)
  BY <1>1, <1>2 DEF SameAt
<1>3. ASSUME NEW n \in S PROVE Blank(E, n)
  <2>1. n \in Node
    OBVIOUS
  <2>2. \A t \in Kept : <<n, t>> \notin E.bound
    BY <1>1
  <2> QED BY <1>1, <2>1, <2>2 DEF Blank
<1>4. \A n \in Node : Blank(D, n) \/ n \in S => Blank(E, n)
  BY <1>2, <1>3, SameAtKeeps
<1>5. ASSUME NEW n \in S, LooksOf(D, n) PROVE LooksOf(E, n)
  <2>1. n \in Node /\ n \in E.upset
    BY <1>1
  <2>2. E.asWas[n] = None /\ E.display[n] = None
    BY <1>1, <2>1
  <2>3. /\ E.looks[n] = D.looks[n] /\ E.style[n] = D.style[n] /\ E.origin[n] = D.origin[n]
        /\ E.away[n] = D.away[n] /\ (n \in E.made <=> n \in D.made)
        /\ E.class[n] = D.class[n] /\ E.kept[n] = None
    BY <1>1, <2>1
  <2> QED BY <1>5, <2>1, <2>2, <2>3 DEF LooksOf, BySheet
<1>6. LookInv(E)
  BY <1>2, <1>5, SameAtKeeps DEF DomInv, LookInv
<1>7. DataInv(E)
  <2>1. \A n \in E.clean : Blank(E, n)
    BY <1>1, <1>4 DEF DomInv, DataInv, Shape
  <2>2. \A n \in Node : /\ n \notin E.made => E.answer[n] = None
                        /\ E.answer[n] # None => E.user[n] = E.answer[n]
    BY <1>1 DEF DomInv, DataInv
  <2> QED BY <1>1, <2>1, <2>2 DEF DomInv, DataInv
<1>8. ASSUME NEW n \in S, Ordered(D, n, c) PROVE Ordered(E, n, c) /\ Sentinel(E, n)
  <2>1. n \in Node /\ n \in E.upset
    BY <1>1
  <2>2. E.queue[n] = <<>> /\ E.last[n] = D.last[n] /\ E.running[n] = D.running[n]
    BY <1>1, <2>1
  <2> QED BY <1>8, <2>1, <2>2 DEF Ordered, Sentinel
<1>9. Counted(E, c)
  <2>1. Counted(D, c)
    BY DEF DomInv, QueueInv
  <2> SUFFICES ASSUME E.asked \cap E.upset = {}
               PROVE  /\ E.waits \subseteq E.hooks
                      /\ E.count = Cardinality(E.waits)
                      /\ \A n \in E.asked \ E.waits : Pending(E, n) \cap E.due = {}
    BY <1>1, <2>1 DEF Counted
  <2>2. D.asked \cap D.upset = {} /\ D.asked \cap S = {}
    BY <1>1
  <2>3. E.waits = D.waits
    BY <1>1, <2>1, <2>2 DEF Counted
  <2>4. \A n \in D.asked : SameAt(D, E, n)
    BY <1>2, <2>1, <2>2 DEF Counted
  <2>5. \A n \in D.asked : Pending(E, n) = Pending(D, n)
    BY <2>4, SameAtKeeps
  <2>6. /\ D.waits \subseteq D.hooks /\ D.count = Cardinality(D.waits)
        /\ \A n \in D.asked \ D.waits : Pending(D, n) \cap D.due = {}
    BY <2>1, <2>2 DEF Counted
  <2>7. D.waits \subseteq D.asked
    BY <2>1 DEF Counted
  <2>8. E.waits \subseteq E.hooks
    BY <1>1, <2>2, <2>3, <2>6, <2>7
  <2>9. \A n \in E.asked \ E.waits : Pending(E, n) \cap E.due = {}
    BY <1>1, <2>3, <2>5, <2>6
  <2> QED BY <1>1, <2>3, <2>6, <2>8, <2>9
<1>10. QueueInv(E, c)
  BY <1>2, <1>8, <1>9, SameAtKeeps DEF DomInv, QueueInv
<1>11. Faithful(D, E)
  BY <1>1 DEF Faithful
<1> QED BY <1>0, <1>1, <1>4, <1>6, <1>7, <1>10, <1>11 DEF DomInv, E

-----------------------------------------------------------------------------
(* The tree *)

Keeps(D, E, c) == DomInv(E, c) /\ Faithful(D, E)

LEMMA KeepsTwice ==
  ASSUME NEW D, NEW E, NEW F, NEW c, Keeps(D, E, c), Keeps(E, F, c)
  PROVE  Keeps(D, F, c)
BY FaithfulTwice DEF Keeps

\* Nothing is known of a node that was not known, but that it is clean.
LEMMA AllSame ==
  ASSUME NEW D, NEW E, NEW c, DomInv(D, c), Shape(E),
         \A n \in Node : SameAt(D, E, n),
         E.made = D.made, E.waits = D.waits, E.asked = D.asked, E.due = D.due,
         E.count = D.count, E.looks = D.looks, E.away = D.away, E.last = D.last,
         E.clean \subseteq D.made, \A n \in E.clean : Blank(D, n)
  PROVE  Keeps(D, E, c)
<1>1. LookInv(E)
  BY SameAtKeeps DEF DomInv, LookInv
<1>2. DataInv(E)
  <2>1. \A n \in E.clean : Blank(E, n)
    BY SameAtKeeps DEF DomInv, Shape
  <2>2. \A n \in Node : /\ n \notin E.made => E.answer[n] = None
                        /\ E.answer[n] # None => E.user[n] = E.answer[n]
    BY DEF DomInv, DataInv, SameAt
  <2> QED BY <2>1, <2>2 DEF DataInv
<1>3. Counted(E, c)
  <2>1. Counted(D, c)
    BY DEF DomInv, QueueInv
  <2>2. \A n \in Node : Pending(E, n) = Pending(D, n)
    BY SameAtKeeps
  <2>3. \A n \in Node : (n \in E.upset <=> n \in D.upset) /\ (n \in E.hooks <=> n \in D.hooks)
    BY DEF SameAt
  <2>4. D.waits \subseteq D.asked /\ D.asked \subseteq Node
    BY <2>1 DEF Counted
  <2> SUFFICES ASSUME E.asked \cap E.upset = {}
               PROVE  /\ E.waits \subseteq E.hooks
                      /\ E.count = Cardinality(E.waits)
                      /\ \A n \in E.asked \ E.waits : Pending(E, n) \cap E.due = {}
    BY <2>1, <2>4 DEF Counted
  <2>5. D.asked \cap D.upset = {}
    BY <2>3, <2>4
  <2>6. /\ D.waits \subseteq D.hooks /\ D.count = Cardinality(D.waits)
        /\ \A n \in D.asked \ D.waits : Pending(D, n) \cap D.due = {}
    BY <2>1, <2>5 DEF Counted
  <2>7. E.waits \subseteq E.hooks
    BY <2>3, <2>4, <2>6
  <2>8. \A n \in E.asked \ E.waits : Pending(E, n) \cap E.due = {}
    BY <2>2, <2>4, <2>6
  <2> QED BY <2>6, <2>7, <2>8
<1>4. QueueInv(E, c)
  BY <1>3, SameAtKeeps DEF DomInv, QueueInv
<1>5. Faithful(D, E)
  BY DEF Faithful, SameAt
<1> QED BY <1>1, <1>2, <1>4, <1>5 DEF Keeps, DomInv

\* The tree changes, and nodes that keep nothing are known to be clean.
LEMMA MarkStep ==
  ASSUME NEW D, NEW E, NEW c, NEW S, DomInv(D, c), DOMAIN E = Fields,
         SameBut(D, E, {"parent", "clean"}), E.clean = D.clean \cup S,
         S \subseteq D.made, \A n \in S : Blank(D, n)
  PROVE  Keeps(D, E, c) /\ E.made = D.made /\ \A n \in Node : Blank(D, n) => Blank(E, n)
<1>1. /\ E.made = D.made /\ E.origin = D.origin /\ E.events = D.events /\ E.bound = D.bound
      /\ E.user = D.user /\ E.style = D.style /\ E.display = D.display
      /\ E.class = D.class /\ E.kept = D.kept /\ E.queue = D.queue /\ E.hooks = D.hooks /\ E.running = D.running
      /\ E.waits = D.waits /\ E.count = D.count /\ E.upset = D.upset
      /\ E.asked = D.asked /\ E.due = D.due /\ E.last = D.last /\ E.answer = D.answer
      /\ E.looks = D.looks /\ E.asWas = D.asWas /\ E.away = D.away
  BY DEF SameBut, Fields
<1>2. \A n \in Node : SameAt(D, E, n)
  BY <1>1 DEF SameAt
<1>3. Shape(E)
  <2>1. \A x \in PerNode : x \in Fields \ {"parent", "clean"}
    BY DEF PerNode, Fields
  <2>2. \A x \in PerNode : E[x] = D[x]
    BY <2>1 DEF SameBut
  <2> QED BY <1>1, <2>2 DEF DomInv, Shape
<1>4. E.clean \subseteq D.made /\ \A n \in E.clean : Blank(D, n)
  BY DEF DomInv, DataInv
<1> QED BY <1>1, <1>2, <1>3, <1>4, AllSame, SameAtKeeps

LEMMA LinkedKeeps ==
  ASSUME NEW D, NEW c, NEW n, NEW p, DomInv(D, c)
  PROVE  /\ Keeps(D, Linked(D, n, p), c) /\ Linked(D, n, p).made = D.made
         /\ \A m \in Node : Blank(D, m) => Blank(Linked(D, n, p), m)
<1> DEFINE E == Linked(D, n, p)
<1>1. DOMAIN D = Fields
  BY DEF DomInv, Shape
<1>2. DOMAIN E = Fields /\ SameBut(D, E, {"parent", "clean"}) /\ E.clean = D.clean \cup {}
  BY <1>1 DEF Linked, SameBut, Fields
<1> DEFINE none == {}
<1>3. none \subseteq D.made /\ (\A m \in none : Blank(D, m)) /\ E.clean = D.clean \cup none
  BY <1>2
<1> HIDE DEF E, none
<1>4. Keeps(D, E, c) /\ E.made = D.made /\ \A m \in Node : Blank(D, m) => Blank(E, m)
  BY <1>2, <1>3, MarkStep
<1> QED BY <1>4 DEF E

LEMMA FragmentKeeps ==
  ASSUME NEW D, NEW c, NEW n, DomInv(D, c)
  PROVE  Keeps(D, Fragment(D, n), c) /\ Fragment(D, n).made = D.made
<1> DEFINE E == Fragment(D, n)
<1>1. DOMAIN D = Fields /\ DOMAIN D.attr = Node
  BY DEF DomInv, Shape, PerNode
<1>2. DOMAIN E = Fields /\ SameBut(D, E, Elsewhere) /\ DOMAIN E.attr = Node
  BY <1>1 DEF Fragment, Linked, SameBut, Fields, Elsewhere
<1> HIDE DEF E
<1>3. Keeps(D, E, c) /\ E.made = D.made
  BY <1>2, PlainStep DEF Keeps
<1> QED BY <1>3 DEF E

LEMMA MovedKeeps ==
  ASSUME NEW D, NEW c, DomInv(D, c)
  PROVE  Keeps(D, Moved(D), c)
<1> DEFINE E == Moved(D)
<1>1. DOMAIN D = Fields /\ DOMAIN D.attr = Node
  BY DEF DomInv, Shape, PerNode
<1>2. DOMAIN E = Fields /\ SameBut(D, E, Elsewhere) /\ DOMAIN E.attr = Node
  BY <1>1 DEF Moved, SameBut, Fields, Elsewhere
<1> HIDE DEF E
<1>3. Keeps(D, E, c)
  BY <1>2, PlainStep DEF Keeps
<1> QED BY <1>3 DEF E

LEMMA GetAllMade ==
  ASSUME NEW D, NEW c, NEW n, DomInv(D, c)
  PROVE  GetAll(D, n) \subseteq D.made /\ GetAll(D, n) \subseteq Node
BY DEF DomInv, Shape, GetAll

LEMMA RemoveKeeps ==
  ASSUME NEW D, NEW c, NEW n, DomInv(D, c)
  PROVE  Keeps(D, Remove(D, n), c)
<1> DEFINE S == GetAll(D, n)
           W == CleanData(D, S)
           L == Linked(W, n, None)
           E == Remove(D, n)
<1>1. S \subseteq D.made /\ S \in SUBSET Node
  BY GetAllMade
<1>2. Keeps(D, W, c) /\ W.made = D.made /\ \A m \in S : Blank(W, m)
  <2> HIDE DEF S
  <2> QED BY <1>1, CleanKeeps DEF Keeps
<1> HIDE DEF W
<1>3. Keeps(W, L, c) /\ L.made = D.made /\ \A m \in S : Blank(L, m)
  <2> HIDE DEF S
  <2> QED BY <1>1, <1>2, LinkedKeeps DEF Keeps
<1>4. E = [L EXCEPT !.clean = @ \cup S]
  BY DEF Remove, W
<1> HIDE DEF L, S, E
<1>5. DOMAIN L = Fields
  BY <1>3 DEF Keeps, DomInv, Shape
<1>6. DOMAIN E = Fields /\ SameBut(L, E, {"parent", "clean"}) /\ E.clean = L.clean \cup S
  BY <1>4, <1>5 DEF SameBut, Fields
<1>7. Keeps(L, E, c)
  BY <1>1, <1>3, <1>6, MarkStep DEF Keeps
<1>8. Keeps(D, E, c)
  BY <1>2, <1>3, <1>7, KeepsTwice
<1> QED BY <1>8 DEF E

LEMMA EmptyKeeps ==
  ASSUME NEW D, NEW c, NEW n, DomInv(D, c)
  PROVE  Keeps(D, Empty(D, n), c) /\ Empty(D, n).made = D.made
<1> DEFINE S == GetAll(D, n) \ {n}
           W == CleanData(D, S)
           E == Empty(D, n)
<1>1. S \subseteq D.made /\ S \in SUBSET Node
  BY GetAllMade
<1>2. Keeps(D, W, c) /\ W.made = D.made /\ \A m \in S : Blank(W, m)
  <2> HIDE DEF S
  <2> QED BY <1>1, CleanKeeps DEF Keeps
<1>3. DOMAIN W = Fields
  BY <1>2 DEF Keeps, DomInv, Shape
<1>4. E = [W EXCEPT !.parent = [m \in Node |-> IF @[m] = n THEN None ELSE @[m]],
                    !.clean  = @ \cup S]
  BY DEF Empty
<1> HIDE DEF W, S, E
<1>5. DOMAIN E = Fields /\ SameBut(W, E, {"parent", "clean"}) /\ E.clean = W.clean \cup S
  BY <1>3, <1>4 DEF SameBut, Fields
<1>6. Keeps(W, E, c) /\ E.made = W.made
  BY <1>1, <1>2, <1>5, MarkStep DEF Keeps
<1>7. Keeps(D, E, c)
  BY <1>2, <1>6, KeepsTwice
<1> QED BY <1>2, <1>6, <1>7 DEF E

-----------------------------------------------------------------------------
(* Clones *)

\* There are enough nodes for a copy of all.
LEMMA CopyExists ==
  ASSUME NEW D, NEW n, D.made \subseteq Node, CanCopy(D, n)
  PROVE  CopyOf(D, n) \in Copies(D, n)
<1> DEFINE G == GetAll(D, n)
           T == Spare \ D.made
           p == Cardinality(G)
           q == Cardinality(T)
<1>1. IsFiniteSet(G) /\ IsFiniteSet(T)
  <2>1. G \subseteq Node /\ T \subseteq Node
    BY DEF GetAll, Node
  <2> QED BY <2>1, FS_Subset, ElementsAssumption
<1>2. p <= q
  BY DEF CanCopy
<1> HIDE DEF G, T
<1>3. p \in Nat /\ q \in Nat /\ ExistsBijection(1..p, G) /\ ExistsBijection(1..q, T)
  BY <1>1, FS_CardinalityType
<1> HIDE DEF p, q
<1>4. ExistsInjection(G, 1..p)
  <2>1. ExistsBijection(G, 1..p)
    BY <1>3, Fun_ExistsBijSymmetric
  <2> QED BY <2>1 DEF ExistsBijection, ExistsInjection, Bijection
<1>5. ExistsInjection(1..p, 1..q)
  <2> DEFINE same == [i \in 1..p |-> i]
  <2>1. \A i \in 1..p : i \in 1..q
    BY <1>2, <1>3
  <2>2. same \in [1..p -> 1..q]
    BY <2>1
  <2>3. same \in Injection(1..p, 1..q)
    BY <2>2 DEF Injection, IsInjective
  <2> QED BY <2>3 DEF ExistsInjection
<1>6. ExistsInjection(1..q, T)
  BY <1>3 DEF ExistsBijection, ExistsInjection, Bijection
<1>7. ExistsInjection(G, T)
  BY <1>4, <1>5, <1>6, Fun_ExistsInjTransitive
<1>8. PICK f \in Injection(G, T) : TRUE
  BY <1>7 DEF ExistsInjection
<1>9. f \in [G -> T] /\ \A a, b \in G : f[a] = f[b] => a = b
  BY <1>8, Fun_InjectionProperties
<1>10. f \in Copies(D, n)
  BY <1>9 DEF Copies, G, T
<1> QED BY <1>10 DEF CopyOf

\* What E has of D when K are new copies of nodes.
Cloned(D, E, K) ==
  /\ E.made = D.made \cup K /\ E.looks = D.looks /\ E.away = D.away /\ E.last = D.last
  /\ E.asked = D.asked /\ E.due = D.due /\ E.count = D.count /\ E.clean = D.clean
  /\ E.asWas = D.asWas /\ E.answer = D.answer
  /\ E.queue = D.queue /\ E.running = D.running /\ E.upset = D.upset
  /\ E.hooks = D.hooks /\ E.waits = D.waits
  /\ \A n \in Node \ K :
       /\ E.events[n] = D.events[n] /\ E.user[n] = D.user[n] /\ E.kept[n] = D.kept[n]
       /\ E.display[n] = D.display[n] /\ E.style[n] = D.style[n]
       /\ E.origin[n] = D.origin[n] /\ E.class[n] = D.class[n]
       /\ \A t \in Kept : <<n, t>> \in E.bound <=> <<n, t>> \in D.bound
  /\ \A k \in K : /\ \E m \in Node : E.display[k] = D.display[m]
                  /\ \E m \in Node : E.class[k] = D.class[m]
                  /\ \E m \in Node : E.kept[k] = D.kept[m]

LEMMA ClonedKeeps ==
  ASSUME NEW D, NEW E, NEW c, NEW K \in SUBSET (Node \ D.made), DomInv(D, c),
         Shape(E), Cloned(D, E, K)
  PROVE  Keeps(D, E, c)
<1>1. ASSUME NEW n \in Node \ K PROVE SameAt(D, E, n)
  BY DEF Cloned, SameAt
<1>2. ASSUME NEW k \in K PROVE LooksOf(E, k)
  <2>1. PICK m \in Node : E.display[k] = D.display[m]
    BY DEF Cloned
  <2>2. LooksOf(D, m) /\ LooksOf(D, k)
    BY DEF DomInv, LookInv
  <2>5. E.class[k] \subseteq Class
    <3>1. PICK l \in Node : E.class[k] = D.class[l]
      BY DEF Cloned
    <3> QED BY <3>1 DEF DomInv, LookInv, LooksOf
  <2>6. E.kept[k] = None \/ E.kept[k] \subseteq Class
    <3>1. PICK l \in Node : E.kept[k] = D.kept[l]
      BY DEF Cloned
    <3> QED BY <3>1 DEF DomInv, LookInv, LooksOf
  <2>3. E.looks[k] = None /\ E.asWas[k] = None /\ E.away[k] = None
    BY <2>2 DEF LooksOf, Cloned
  <2>4. None # "hidden" /\ None # "shown"
    BY ElementsAssumption
  <2> QED BY <2>1, <2>2, <2>3, <2>4, <2>5, <2>6 DEF LooksOf
<1>3. LookInv(E)
  BY <1>1, <1>2, SameAtKeeps DEF DomInv, LookInv
<1>4. DataInv(E)
  <2>1. E.clean \cap K = {} /\ E.clean \subseteq E.made
    BY DEF DomInv, DataInv, Cloned
  <2>2. \A n \in E.clean : Blank(E, n)
    BY <1>1, <2>1, SameAtKeeps DEF DomInv, DataInv, Cloned, Shape
  <2>3. ASSUME NEW n \in Node
        PROVE  /\ n \notin E.made => E.answer[n] = None
               /\ E.answer[n] # None => E.user[n] = E.answer[n]
    BY <2>3 DEF DomInv, DataInv, Cloned
  <2> QED BY <2>1, <2>2, <2>3 DEF DataInv
<1>5. QueueInv(E, c)
  <2>1. \A n \in Node : Ordered(E, n, c) /\ Sentinel(E, n)
    BY DEF DomInv, QueueInv, Ordered, Sentinel, Cloned
  <2>2. Counted(E, c)
    BY DEF DomInv, QueueInv, Counted, Cloned, Pending
  <2> QED BY <2>1, <2>2 DEF QueueInv
<1>6. Faithful(D, E)
  BY DEF Faithful, Cloned
<1> QED BY <1>3, <1>4, <1>5, <1>6 DEF Keeps, DomInv

LEMMA CopiedFields ==
  ASSUME NEW D, NEW n, NEW G \in SUBSET D.made, NEW f \in [G -> Spare \ D.made], Shape(D)
  PROVE  /\ Shape(Copied(D, n, f))
         /\ Cloned(D, Copied(D, n, f), {f[m] : m \in G})
<1> DEFINE K == {f[m] : m \in G}
           Of(k) == CHOOSE m \in G : f[m] = k
           E == Copied(D, n, f)
           origin == [k \in Node |-> IF k \notin K THEN D.origin[k]
                                     ELSE IF Of(k) \in Spare THEN D.origin[Of(k)]
                                     ELSE Of(k)]
           parent == [k \in Node |-> IF k \notin K THEN D.parent[k]
                                     ELSE IF Of(k) = n THEN None
                                     ELSE f[D.parent[Of(k)]]]
           From(x) == [k \in Node |-> x[IF k \in K THEN Of(k) ELSE k]]
<1>1. DOMAIN f = G
  OBVIOUS
<1>2. E = [D EXCEPT !.made = @ \cup K, !.parent = parent, !.origin = origin,
                    !.attr = From(D.attr), !.style = From(D.style),
                    !.class = From(D.class)]
  BY <1>1 DEF Copied
<1> HIDE DEF E, parent
<1>3. DOMAIN D = Fields
  BY DEF Shape
<1>4. /\ DOMAIN E = Fields
      /\ SameBut(D, E, {"made", "parent", "origin", "attr", "style", "class"})
      /\ E.made = D.made \cup K /\ E.origin = origin /\ E.attr = From(D.attr)
      /\ E.style = From(D.style) /\ E.class = From(D.class)
  <2> HIDE DEF K, From, origin
  <2> QED BY <1>2, <1>3 DEF SameBut, Fields
<1>5. K \subseteq Node
  BY DEF Node
<1>6. Shape(E)
  <2>1. /\ DOMAIN E.origin = Node /\ DOMAIN E.attr = Node /\ DOMAIN E.style = Node
        /\ DOMAIN E.class = Node
    BY <1>4
  <2>2. \A x \in PerNode \ {"origin", "attr", "style", "class"} :
          x \in Fields \ {"made", "parent", "origin", "attr", "style", "class"}
    BY DEF PerNode, Fields
  <2>3. \A x \in PerNode \ {"origin", "attr", "style", "class"} : E[x] = D[x]
    BY <1>4, <2>2 DEF SameBut
  <2>4. \A x \in PerNode : DOMAIN E[x] = Node
    BY <2>1, <2>3 DEF Shape
  <2>5. E.made \subseteq Node
    BY <1>4, <1>5 DEF Shape
  <2> QED BY <1>4, <2>4, <2>5 DEF Shape
<1>7. Cloned(D, E, K)
  <2>1. /\ E.looks = D.looks /\ E.away = D.away /\ E.last = D.last
        /\ E.asked = D.asked /\ E.due = D.due /\ E.count = D.count /\ E.clean = D.clean
        /\ E.asWas = D.asWas /\ E.answer = D.answer
        /\ E.queue = D.queue /\ E.running = D.running /\ E.upset = D.upset
        /\ E.hooks = D.hooks /\ E.waits = D.waits /\ E.events = D.events
        /\ E.user = D.user /\ E.kept = D.kept /\ E.display = D.display
        /\ E.bound = D.bound
    BY <1>4 DEF SameBut, Fields
  <2>2. \A m \in Node \ K : /\ E.style[m] = D.style[m] /\ E.origin[m] = D.origin[m]
                           /\ E.class[m] = D.class[m]
    BY <1>4
  <2>3. \A k \in K : \E m \in Node : E.class[k] = D.class[m]
    <3> SUFFICES ASSUME NEW k \in K PROVE \E m \in Node : E.class[k] = D.class[m]
      OBVIOUS
    <3>1. PICK m \in G : f[m] = k
      OBVIOUS
    <3>2. Of(k) \in G /\ Of(k) \in Node
      BY <3>1 DEF Shape
    <3>3. E.class[k] = D.class[Of(k)]
      BY <1>4, <1>5
    <3> QED BY <3>2, <3>3
  <2> HIDE DEF K
  <2> QED BY <1>4, <1>5, <2>1, <2>2, <2>3 DEF Cloned
<1> QED BY <1>6, <1>7 DEF E

LEMMA WithDataFields ==
  ASSUME NEW D, NEW E, NEW G \in SUBSET D.made, NEW f \in [G -> Spare \ D.made],
         Shape(D), Shape(E), Cloned(D, E, {f[m] : m \in G}),
         E.bound = D.bound, E.display = D.display, E.kept = D.kept
  PROVE  Shape(WithData(E, f)) /\ Cloned(D, WithData(E, f), {f[m] : m \in G})
<1> DEFINE K == {f[m] : m \in G}
           Of(k) == CHOOSE m \in G : f[m] = k
           F == WithData(E, f)
           new == {k \in K : Has(E, Of(k), "focusin")}
           From(x) == [k \in Node |-> x[IF k \in K THEN Of(k) ELSE k]]
           bound == E.bound \cup {<<f[b[1]], b[2]>> : b \in {b \in E.bound : b[1] \in G}}
<1>1. DOMAIN f = G
  OBVIOUS
<1>2. F = [E EXCEPT !.events = From(E.events), !.bound = bound,
                    !.attaches = @ + Cardinality(new),
                    !.capture = @ \/ (E.attaches = 0 /\ new # {}),
                    !.hasAttrs = @ \cup {f[m] : m \in G \cap @},
                    !.display = From(E.display), !.kept = From(E.kept),
                    !.user = From(E.user)]
  BY <1>1 DEF WithData
<1> HIDE DEF F, new
<1>3. DOMAIN E = Fields
  BY DEF Shape
<1>4. /\ DOMAIN F = Fields
      /\ SameBut(E, F, {"events", "bound", "attaches", "capture", "hasAttrs",
                        "display", "kept", "user"})
      /\ F.events = From(E.events) /\ F.bound = bound /\ F.display = From(E.display)
      /\ F.kept = From(E.kept) /\ F.user = From(E.user)
  <2> HIDE DEF K, From, bound
  <2> QED BY <1>2, <1>3 DEF SameBut, Fields
<1>5. K \subseteq Node /\ G \subseteq Node
  BY DEF Node, Shape
<1>6. Shape(F)
  <2>1. /\ DOMAIN F.events = Node /\ DOMAIN F.display = Node /\ DOMAIN F.kept = Node
        /\ DOMAIN F.user = Node
    BY <1>4
  <2>2. \A x \in PerNode \ {"events", "display", "kept", "user"} :
          x \in Fields \ {"events", "bound", "attaches", "capture", "hasAttrs",
                        "display", "kept", "user"}
    BY DEF PerNode, Fields
  <2>3. \A x \in PerNode \ {"events", "display", "kept", "user"} : F[x] = E[x]
    BY <1>4, <2>2 DEF SameBut
  <2>4. \A x \in PerNode : DOMAIN F[x] = Node
    BY <2>1, <2>3 DEF Shape
  <2>5. F.made = E.made
    BY <1>4 DEF SameBut, Fields
  <2> QED BY <1>4, <2>4, <2>5 DEF Shape
<1>7. Cloned(D, F, K)
  <2>0. /\ F.looks = E.looks /\ F.away = E.away /\ F.last = E.last
        /\ F.asked = E.asked /\ F.due = E.due /\ F.count = E.count /\ F.clean = E.clean
        /\ F.asWas = E.asWas /\ F.answer = E.answer /\ F.made = E.made
        /\ F.queue = E.queue /\ F.running = E.running /\ F.upset = E.upset
        /\ F.hooks = E.hooks /\ F.waits = E.waits
        /\ F.style = E.style /\ F.origin = E.origin /\ F.class = E.class
    BY <1>4, ZenonT(60) DEF SameBut, Fields
  <2>1. \A m \in Node \ K :
          /\ F.events[m] = E.events[m] /\ F.user[m] = E.user[m]
          /\ F.kept[m] = E.kept[m] /\ F.display[m] = E.display[m]
    BY <1>4
  <2>2. \A m \in Node \ K : \A t \in Kept : <<m, t>> \in F.bound <=> <<m, t>> \in D.bound
    BY <1>4
  <2>3. \A k \in K : /\ \E m \in Node : F.display[k] = D.display[m]
                    /\ \E m \in Node : F.kept[k] = D.kept[m]
    <3> SUFFICES ASSUME NEW k \in K
                 PROVE  /\ \E m \in Node : F.display[k] = D.display[m]
                        /\ \E m \in Node : F.kept[k] = D.kept[m]
      OBVIOUS
    <3>1. PICK m \in G : f[m] = k
      OBVIOUS
    <3>2. Of(k) \in G
      BY <3>1
    <3>3. F.display[k] = D.display[Of(k)] /\ F.kept[k] = D.kept[Of(k)]
      BY <1>4, <1>5
    <3> QED BY <1>5, <3>2, <3>3
  <2> HIDE DEF K, From, bound
  <2>4. Cloned(D, E, K)
    BY DEF K
  <2> QED BY <2>0, <2>1, <2>2, <2>3, <2>4 DEF Cloned
<1> QED BY <1>6, <1>7 DEF F

LEMMA CloneKeeps ==
  ASSUME NEW D, NEW c, NEW n, NEW w, NEW G \in SUBSET D.made,
         NEW f \in [G -> Spare \ D.made], DomInv(D, c)
  PROVE  Keeps(D, Clone(D, n, w, f), c)
<1> DEFINE K == {f[m] : m \in G}
           C == Copied(D, n, f)
           W == IF w THEN WithData(C, f) ELSE C
           E == Clone(D, n, w, f)
<1>1. Shape(D) /\ K \in SUBSET (Node \ D.made)
  BY DEF DomInv, Node
<1>2. Shape(C) /\ Cloned(D, C, K)
  BY <1>1, CopiedFields
<1>3. C.bound = D.bound /\ C.display = D.display /\ C.kept = D.kept
  BY <1>1 DEF Copied, Shape, Fields
<1> HIDE DEF C
<1>4. Shape(W) /\ Cloned(D, W, K)
  BY <1>1, <1>2, <1>3, WithDataFields
<1>5. PICK v, r : E = [W EXCEPT !.evaled = v, !.ran = r]
  BY DEF Clone, C
<1> HIDE DEF W, K, E
<1>6. DOMAIN W = Fields
  BY <1>4 DEF Shape
<1>7. DOMAIN E = Fields /\ SameBut(W, E, {"evaled", "ran"})
  BY <1>5, <1>6 DEF SameBut, Fields
<1>8. Shape(E)
  <2>1. \A x \in PerNode : x \in Fields \ {"evaled", "ran"}
    BY DEF PerNode, Fields
  <2>2. \A x \in PerNode : E[x] = W[x]
    BY <1>7, <2>1 DEF SameBut
  <2>3. E.made = W.made
    BY <1>7 DEF SameBut, Fields
  <2> QED BY <1>4, <1>7, <2>2, <2>3 DEF Shape
<1>9. Cloned(D, E, K)
  <2>1. /\ E.looks = W.looks /\ E.away = W.away /\ E.last = W.last
        /\ E.asked = W.asked /\ E.due = W.due /\ E.count = W.count /\ E.clean = W.clean
        /\ E.asWas = W.asWas /\ E.answer = W.answer /\ E.made = W.made
        /\ E.queue = W.queue /\ E.running = W.running /\ E.upset = W.upset
        /\ E.hooks = W.hooks /\ E.waits = W.waits /\ E.events = W.events
        /\ E.style = W.style /\ E.origin = W.origin /\ E.user = W.user /\ E.class = W.class
        /\ E.kept = W.kept /\ E.display = W.display /\ E.bound = W.bound
    BY <1>7 DEF SameBut, Fields
  <2> QED BY <1>4, <2>1 DEF Cloned
<1>10. Keeps(D, E, c)
  BY <1>1, <1>8, <1>9, ClonedKeeps
<1> QED BY <1>10 DEF E

-----------------------------------------------------------------------------
(* Content goes somewhere *)

LEMMA ReplacedKeeps ==
  ASSUME NEW D, NEW c, NEW n, DomInv(D, c)
  PROVE  Keeps(D, [CleanData(D, GetAll(D, n)) EXCEPT !.clean = @ \cup GetAll(D, n)], c)
<1> DEFINE S == GetAll(D, n)
           W == CleanData(D, S)
           E == [W EXCEPT !.clean = @ \cup S]
<1>1. S \subseteq D.made /\ S \in SUBSET Node
  BY GetAllMade
<1> HIDE DEF S
<1>2. Keeps(D, W, c) /\ W.made = D.made /\ \A m \in S : Blank(W, m)
  BY <1>1, CleanKeeps DEF Keeps
<1>3. DOMAIN W = Fields
  BY <1>2 DEF Keeps, DomInv, Shape
<1> HIDE DEF W
<1>4. DOMAIN E = Fields /\ SameBut(W, E, {"parent", "clean"}) /\ E.clean = W.clean \cup S
  BY <1>3 DEF SameBut, Fields
<1>5. S \subseteq W.made
  BY <1>1, <1>2
<1> HIDE DEF E
<1>6. Keeps(W, E, c)
  BY <1>2, <1>4, <1>5, MarkStep DEF Keeps
<1>7. Keeps(D, E, c)
  BY <1>2, <1>6, KeepsTwice
<1> QED BY <1>7 DEF E, W, S

How == {"append", "before", "replaceWith"}

LEMMA PutKeeps ==
  ASSUME NEW D, NEW c, NEW how \in How, NEW t, NEW n, DomInv(D, c)
  PROVE  Keeps(D, Put(D, how, t, n), c)
<1>0. Keeps(D, D, c)
  BY DEF Keeps, Faithful
<1>1. CASE how = "append"
  <2>1. Put(D, how, t, n) = Linked(D, n, t)
    BY <1>1 DEF Put
  <2> QED BY <2>1, LinkedKeeps
<1>2. CASE how = "before"
  <2>1. Put(D, how, t, n) = IF D.parent[t] = None THEN D ELSE Linked(D, n, D.parent[t])
    BY <1>2 DEF Put
  <2> QED BY <1>0, <2>1, LinkedKeeps
<1>3. CASE how = "replaceWith"
  <2> DEFINE E == [CleanData(D, GetAll(D, t)) EXCEPT !.clean = @ \cup GetAll(D, t)]
             F == Linked(E, t, None)
             p == D.parent[t]
  <2>1. Put(D, how, t, n) = IF p = None THEN E ELSE Linked(F, n, p)
    BY <1>3 DEF Put
  <2>2. Keeps(D, E, c)
    BY ReplacedKeeps
  <2> HIDE DEF E, p
  <2>3. Keeps(E, F, c)
    BY <2>2, LinkedKeeps DEF Keeps
  <2> HIDE DEF F
  <2>4. Keeps(F, Linked(F, n, p), c)
    BY <2>3, LinkedKeeps DEF Keeps
  <2>5. Keeps(D, Linked(F, n, p), c)
    BY <2>2, <2>3, <2>4, KeepsTwice
  <2> QED BY <2>1, <2>2, <2>5
<1> QED BY <1>1, <1>2, <1>3 DEF How

LEMMA DomManipKeeps ==
  ASSUME NEW D, NEW c, NEW how \in How, NEW targets, NEW n, DomInv(D, c),
         Len(targets) # 1 => CanCopy(D, n)
  PROVE  Keeps(D, DomManip(D, how, targets, n), c)
<1> DEFINE E == Fragment(D, n)
           f == CopyOf(D, n)
           C == Clone(E, n, TRUE, f)
           P == Put(C, how, targets[1], f[n])
           R == Put(P, how, targets[2], n)
           O == Put(E, how, targets[1], n)
<1>1. Keeps(D, E, c) /\ E.made = D.made
  BY FragmentKeeps
<1>2. DomManip(D, how, targets, n) = IF Len(targets) = 1 THEN O ELSE R
  BY DEF DomManip
<1> HIDE DEF E
<1>3. Keeps(D, O, c)
  BY <1>1, PutKeeps, KeepsTwice DEF Keeps
<1>4. ASSUME CanCopy(D, n) PROVE Keeps(D, R, c)
  <2>1. f \in [GetAll(D, n) -> Spare \ E.made] /\ GetAll(D, n) \in SUBSET E.made
    BY <1>1, <1>4, CopyExists, GetAllMade DEF Copies, DomInv, Shape
  <2> HIDE DEF f
  <2>2. Keeps(E, C, c)
    BY <1>1, <2>1, CloneKeeps DEF Keeps
  <2> HIDE DEF C
  <2>3. Keeps(C, P, c)
    BY <2>2, PutKeeps DEF Keeps
  <2> HIDE DEF P
  <2>4. Keeps(P, R, c)
    BY <2>3, PutKeeps DEF Keeps
  <2> HIDE DEF R
  <2> QED BY <1>1, <2>2, <2>3, <2>4, KeepsTwice
<1> QED BY <1>2, <1>3, <1>4

LEMMA IgnoredKeeps ==
  ASSUME NEW D, NEW c, NEW how, NEW targets, NEW n, DomInv(D, c)
  PROVE  Keeps(D, Ignored(D, how, targets, n), c)
<1>1. Keeps(D, D, c)
  BY DEF Keeps, Faithful
<1>2. \A m : Keeps(D, Remove(D, m), c)
  BY RemoveKeeps
<1>3. \/ Ignored(D, how, targets, n) = D
      \/ \E m : Ignored(D, how, targets, n) = Remove(D, m)
  BY DEF Ignored
<1> QED BY <1>1, <1>2, <1>3

-----------------------------------------------------------------------------
(* Events *)

\* n's lists, and what is bound for it, change: all the rest that is known
\* stays.
LEMMA EventStep ==
  ASSUME NEW D, NEW E, NEW c, NEW n, DomInv(D, c), DOMAIN E = Fields,
         SameBut(D, E, {"events", "bound", "attaches", "capture", "leaked", "clean"}),
         DOMAIN E.events = Node, \A m \in Node \ {n} : E.events[m] = D.events[m],
         \A m \in Node \ {n}, t \in Kept : <<m, t>> \in E.bound <=> <<m, t>> \in D.bound,
         \/ E.clean = D.clean \ {n}
         \/ E.clean = D.clean /\ n \notin D.clean
  PROVE  Keeps(D, E, c)
<1>1. /\ E.made = D.made /\ E.origin = D.origin /\ E.asWas = D.asWas
      /\ E.user = D.user /\ E.style = D.style /\ E.display = D.display
      /\ E.class = D.class /\ E.kept = D.kept /\ E.queue = D.queue /\ E.hooks = D.hooks /\ E.running = D.running
      /\ E.waits = D.waits /\ E.count = D.count /\ E.upset = D.upset
      /\ E.asked = D.asked /\ E.due = D.due /\ E.last = D.last /\ E.answer = D.answer
      /\ E.looks = D.looks /\ E.away = D.away
  BY DEF SameBut, Fields
<1>2. \A m \in Node \ {n} : SameAt(D, E, m)
  BY <1>1 DEF SameAt
<1>3. Shape(E)
  <2>1. \A x \in PerNode \ {"events"} :
          x \in Fields \ {"events", "bound", "attaches", "capture", "leaked", "clean"}
    BY DEF PerNode, Fields
  <2>2. \A x \in PerNode \ {"events"} : E[x] = D[x]
    BY <2>1 DEF SameBut
  <2> QED BY <1>1, <2>2 DEF DomInv, Shape
<1>4. LookInv(E)
  <2> SUFFICES ASSUME NEW m \in Node PROVE LooksOf(E, m)
    BY DEF LookInv
  <2>1. LooksOf(D, m)
    BY DEF DomInv, LookInv
  <2>2. /\ E.looks[m] = D.looks[m] /\ E.asWas[m] = D.asWas[m] /\ E.away[m] = D.away[m]
        /\ E.display[m] = D.display[m] /\ E.style[m] = D.style[m] /\ E.origin[m] = D.origin[m]
        /\ E.kept[m] = D.kept[m] /\ E.class[m] = D.class[m]
        /\ (m \in E.upset <=> m \in D.upset) /\ (m \in E.made <=> m \in D.made)
    BY <1>1
  <2> QED BY <2>1, <2>2 DEF LooksOf, BySheet
<1>5. DataInv(E)
  <2>1. E.clean \subseteq D.clean \ {n} /\ D.clean \subseteq Node
    BY DEF DomInv, DataInv, Shape
  <2>2. \A m \in E.clean : Blank(E, m)
    BY <1>2, <2>1, SameAtKeeps DEF DomInv, DataInv
  <2> QED BY <1>1, <2>1, <2>2 DEF DomInv, DataInv
<1>6. QueueInv(E, c)
  BY <1>1 DEF DomInv, QueueInv, Ordered, Sentinel, Counted, Pending
<1>7. Faithful(D, E)
  BY <1>1 DEF Faithful
<1> QED BY <1>3, <1>4, <1>5, <1>6, <1>7 DEF Keeps, DomInv

LEMMA AddEventKeeps ==
  ASSUME NEW D, NEW c, NEW n \in Node, NEW h, DomInv(D, c)
  PROVE  Keeps(D, AddEvent(D, n, h), c)
<1> DEFINE type == TypeOf(h.origType, h.selector)
           S == IF Has(D, n, type) THEN D ELSE SetUp(D, n, type)
           E == AddEvent(D, n, h)
           lists == [u \in DOMAIN D.events[n] \cup {type} |->
                       IF u = type THEN Insert(Handlers(D, n, type), h)
                       ELSE D.events[n][u]]
<1>0. Shape(D) /\ DOMAIN D.events = Node
  BY DEF DomInv, Shape, PerNode
<1> HIDE DEF type
<1>1. /\ DOMAIN S = Fields /\ SameBut(D, S, {"bound", "attaches", "capture"})
      /\ S.events = D.events /\ S.clean = D.clean
      /\ S.bound \in {D.bound, D.bound \cup {<<n, type>>}}
  BY <1>0 DEF Shape, SetUp, SameBut, Fields
<1>2. E = [S EXCEPT !.clean = @ \ {n}, !.events[n] = lists]
  BY <1>1 DEF AddEvent, type
<1> HIDE DEF S, lists, E
<1>3. /\ DOMAIN E = Fields
      /\ SameBut(D, E, {"events", "bound", "attaches", "capture", "leaked", "clean"})
      /\ E.events = [D.events EXCEPT ![n] = lists] /\ E.clean = D.clean \ {n}
      /\ E.bound = S.bound
  BY <1>1, <1>2 DEF SameBut, Fields
<1>4. /\ DOMAIN E.events = Node /\ \A m \in Node \ {n} : E.events[m] = D.events[m]
  BY <1>0, <1>3
<1>5. \A m \in Node \ {n}, t \in Kept : <<m, t>> \in E.bound <=> <<m, t>> \in D.bound
  BY <1>1, <1>3
<1>6. Keeps(D, E, c)
  BY <1>3, <1>4, <1>5, EventStep
<1> QED BY <1>6 DEF E

LEMMA DropKeeps ==
  ASSUME NEW D, NEW c, NEW n, NEW asked, NEW t, NEW H, DomInv(D, c)
  PROVE  Keeps(D, Drop(D, n, asked, t, H), c)
<1>0. Shape(D) /\ DOMAIN D.events = Node
  BY DEF DomInv, Shape, PerNode
<1>1. CASE ~Has(D, n, t)
  <2>1. Drop(D, n, asked, t, H) = D
    BY <1>1, ZenonT(60) DEF Drop
  <2> QED BY <2>1 DEF Keeps, Faithful
<1>2. CASE Has(D, n, t)
  <2> DEFINE E == Drop(D, n, asked, t, H)
             T == TearDown(D, n, asked, t)
             lists == [u \in DOMAIN D.events[n] \ {t} |-> D.events[n][u]]
  <2>1. n \notin D.clean
    BY <1>2 DEF DomInv, DataInv, Blank, Has, NoEvents
  <2>2. /\ DOMAIN T = Fields /\ SameBut(D, T, {"bound", "attaches", "capture", "leaked"})
        /\ T.events = D.events /\ T.clean = D.clean
        /\ T.bound \in {D.bound, D.bound \ {<<n, t>>}}
    BY <1>0 DEF Shape, TearDown, Detached, SameBut, Fields
  <2>3. PICK left : \/ E = [D EXCEPT !.events[n][t] = left]
                    \/ E = [T EXCEPT !.events[n] = lists]
    <3> HIDE DEF T
    <3> DEFINE l == Handlers(D, n, t)
               left == [list |-> Without(l.list, H),
                        delegateCount |-> l.delegateCount -
                          Cardinality({h \in H \cap Listed(D, n, t) : h.selector})]
    <3>1. E = IF left.list # <<>> THEN [D EXCEPT !.events[n][t] = left]
              ELSE [T EXCEPT !.events[n] = [u \in DOMAIN @ \ {t} |-> @[u]]]
      BY <1>2, ZenonT(60) DEF Drop, T
    <3>2. [T EXCEPT !.events[n] = [u \in DOMAIN @ \ {t} |-> @[u]]]
            = [T EXCEPT !.events[n] = lists]
      BY <2>2
    <3> HIDE DEF left, lists, E
    <3> QED BY <3>1, <3>2
  <2> HIDE DEF E, T, lists
  <2>4. /\ DOMAIN E = Fields
        /\ SameBut(D, E, {"events", "bound", "attaches", "capture", "leaked", "clean"})
        /\ E.clean = D.clean /\ DOMAIN E.events = Node
        /\ \A m \in Node \ {n} : E.events[m] = D.events[m]
        /\ E.bound \in {D.bound, T.bound}
    <3>1. CASE E = [D EXCEPT !.events[n][t] = left]
      BY <1>0, <3>1 DEF Shape, SameBut, Fields
    <3>2. CASE E = [T EXCEPT !.events[n] = lists]
      BY <1>0, <2>2, <3>2 DEF SameBut, Fields
    <3> QED BY <2>3, <3>1, <3>2
  <2>5. \A m \in Node \ {n}, u \in Kept : <<m, u>> \in E.bound <=> <<m, u>> \in D.bound
    BY <2>2, <2>4
  <2>6. Keeps(D, E, c)
    BY <2>1, <2>4, <2>5, EventStep
  <2> QED BY <2>6 DEF E
<1> QED BY <1>1, <1>2

LEMMA KeptDrop ==
  ASSUME NEW D, NEW E, NEW c, NEW n, NEW asked, NEW t, NEW H, Keeps(D, E, c)
  PROVE  Keeps(D, Drop(E, n, asked, t, H), c)
BY DropKeeps, KeepsTwice DEF Keeps

LEMMA OffAllKeeps ==
  ASSUME NEW D, NEW c, NEW n \in Node, DomInv(D, c)
  PROVE  Keeps(D, OffAll(D, n), c)
<1> DEFINE Less(E, t) == Drop(E, n, t, t, Listed(E, n, t))
           A == Less(D, "click")
           B == Less(A, "focus")
           F == Less(B, "focusin")
           G == Less(F, "mouseover")
<1>1. Keeps(D, D, c)
  BY DEF Keeps, Faithful
<1>2. Keeps(D, A, c)
  BY <1>1, KeptDrop
<1> HIDE DEF A
<1>3. Keeps(D, B, c)
  BY <1>2, KeptDrop
<1> HIDE DEF B
<1>4. Keeps(D, F, c)
  BY <1>3, KeptDrop
<1> HIDE DEF F
<1>5. Keeps(D, G, c)
  BY <1>4, KeptDrop
<1>6. OffAll(D, n) = G
  BY DEF OffAll, A, B, F
<1> QED BY <1>5, <1>6

LEMMA OffKeeps ==
  ASSUME NEW D, NEW c, NEW n, NEW t, NEW selector, NEW ids, DomInv(D, c)
  PROVE  Keeps(D, Off(D, n, t, selector, ids), c)
BY DropKeeps DEF Off

\* The pointer and the elements that it has entered are nobody's business.
LEMMA PointerKeeps ==
  ASSUME NEW D, NEW c, NEW p, NEW q, DomInv(D, c)
  PROVE  Keeps(D, [D EXCEPT !.pointer = p, !.entered = q], c)
<1> DEFINE E == [D EXCEPT !.pointer = p, !.entered = q]
<1>1. DOMAIN D = Fields /\ DOMAIN D.attr = Node
  BY DEF DomInv, Shape, PerNode
<1>2. DOMAIN E = Fields /\ SameBut(D, E, Elsewhere) /\ DOMAIN E.attr = Node
  BY <1>1 DEF SameBut, Fields, Elsewhere
<1> HIDE DEF E
<1>3. Keeps(D, E, c)
  BY <1>2, PlainStep DEF Keeps
<1> QED BY <1>3 DEF E

LEMMA EnteredKeeps ==
  ASSUME NEW D, NEW c, NEW q, DomInv(D, c)
  PROVE  Keeps(D, [D EXCEPT !.entered = q], c)
<1> DEFINE E == [D EXCEPT !.entered = q]
<1>1. DOMAIN D = Fields /\ DOMAIN D.attr = Node
  BY DEF DomInv, Shape, PerNode
<1>2. DOMAIN E = Fields /\ SameBut(D, E, Elsewhere) /\ DOMAIN E.attr = Node
  BY <1>1 DEF SameBut, Fields, Elsewhere
<1> HIDE DEF E
<1>3. Keeps(D, E, c)
  BY <1>2, PlainStep DEF Keeps
<1> QED BY <1>3 DEF E

LEMMA RanKeeps ==
  ASSUME NEW D, NEW c, NEW q, DomInv(D, c)
  PROVE  Keeps(D, [D EXCEPT !.ran = q], c)
<1> DEFINE E == [D EXCEPT !.ran = q]
<1>1. DOMAIN D = Fields /\ DOMAIN D.attr = Node
  BY DEF DomInv, Shape, PerNode
<1>2. DOMAIN E = Fields /\ SameBut(D, E, Elsewhere) /\ DOMAIN E.attr = Node
  BY <1>1 DEF SameBut, Fields, Elsewhere
<1> HIDE DEF E
<1>3. Keeps(D, E, c)
  BY <1>2, PlainStep DEF Keeps
<1> QED BY <1>3 DEF E

-----------------------------------------------------------------------------
(* Data, looks and classes of one node *)

\* What the page was told stays true: the four promises that a step makes.
Promised(D, E) ==
  \A n \in Node :
    /\ None \notin {D.answer[n], E.answer[n]} => E.answer[n] = D.answer[n]
    /\ D.asWas[n] \notin {None, ""} /\ D.looks[n] = "hidden" /\ E.looks[n] = "shown"
         => E.style[n] = D.asWas[n]
    /\ D.away[n] # None /\ E.away[n] = None /\ n \notin E.upset
         => E.class[n] = D.away[n]
    /\ E.last[n] # D.last[n] => E.last[n] > D.last[n]

LEMMA KeepsPromises ==
  ASSUME NEW D, NEW E, NEW c, Keeps(D, E, c)
  PROVE  DomInv(E, c) /\ Promised(D, E)
BY DEF Keeps, Faithful, Promised

\* f changes at n only.
OnlyAt(f, g, n) == DOMAIN g = Node /\ \A m \in Node \ {n} : g[m] = f[m]

Written == {"user", "answer", "attr", "hasAttrs", "style", "looks", "asWas", "display",
            "class", "kept", "away", "clean"}

\* E differs from D in what n has.
Writes(D, E, n) ==
  /\ DOMAIN E = Fields /\ SameBut(D, E, Written)
  /\ OnlyAt(D.user, E.user, n) /\ OnlyAt(D.answer, E.answer, n)
  /\ OnlyAt(D.attr, E.attr, n) /\ OnlyAt(D.style, E.style, n)
  /\ OnlyAt(D.looks, E.looks, n) /\ OnlyAt(D.asWas, E.asWas, n)
  /\ OnlyAt(D.display, E.display, n) /\ OnlyAt(D.class, E.class, n)
  /\ OnlyAt(D.kept, E.kept, n) /\ OnlyAt(D.away, E.away, n)

LEMMA NodeStep ==
  ASSUME NEW D, NEW E, NEW c, NEW n \in D.made, DomInv(D, c), Writes(D, E, n),
         LooksOf(E, n), E.answer[n] # None => E.user[n] = E.answer[n],
         \/ E.clean = D.clean \ {n}
         \/ E.clean = D.clean /\ (Blank(D, n) => Blank(E, n))
  PROVE  DomInv(E, c)
<1>1. /\ E.made = D.made /\ E.origin = D.origin /\ E.events = D.events /\ E.bound = D.bound
      /\ E.queue = D.queue /\ E.hooks = D.hooks /\ E.running = D.running
      /\ E.waits = D.waits /\ E.count = D.count /\ E.upset = D.upset
      /\ E.asked = D.asked /\ E.due = D.due /\ E.last = D.last
  BY DEF Writes, SameBut, Fields, Written
<1>2. ASSUME NEW m \in Node \ {n} PROVE SameAt(D, E, m)
  BY <1>1 DEF Writes, OnlyAt, SameAt
<1>3. n \in Node
  BY DEF DomInv, Shape
<1>4. Shape(E)
  <2>1. \A x \in PerNode : \/ x \in Fields \ Written
                           \/ x \in {"user", "answer", "attr", "style", "looks", "asWas",
                                     "display", "class", "kept", "away"}
    BY DEF PerNode, Fields, Written
  <2>2. \A x \in {"user", "answer", "attr", "style", "looks", "asWas", "display", "class",
                  "kept", "away"} : DOMAIN E[x] = Node
    BY DEF Writes, OnlyAt
  <2>3. \A x \in PerNode : x \in Fields \ Written => E[x] = D[x]
    BY DEF Writes, SameBut
  <2>4. \A x \in PerNode : DOMAIN D[x] = Node
    BY DEF DomInv, Shape
  <2>5. \A x \in PerNode : DOMAIN E[x] = Node
    BY <2>1, <2>2, <2>3, <2>4
  <2> QED BY <1>1, <2>5 DEF DomInv, Shape, Writes
<1>5. LookInv(E)
  BY <1>2, SameAtKeeps DEF DomInv, LookInv
<1>6. DataInv(E)
  <2>1. E.clean \subseteq E.made
    BY <1>1 DEF DomInv, DataInv
  <2>2. \A m \in E.clean \ {n} : Blank(E, m)
    BY <1>1, <1>2, <2>1, SameAtKeeps DEF DomInv, DataInv, Shape
  <2>3. n \in E.clean => Blank(E, n)
    BY DEF DomInv, DataInv
  <2>4. \A m \in Node \ {n} : /\ m \notin E.made => E.answer[m] = None
                              /\ E.answer[m] # None => E.user[m] = E.answer[m]
    BY <1>2 DEF DomInv, DataInv, SameAt
  <2> QED BY <1>1, <2>1, <2>2, <2>3, <2>4 DEF DataInv
<1>7. QueueInv(E, c)
  BY <1>1 DEF DomInv, QueueInv, Ordered, Sentinel, Counted, Pending
<1> QED BY <1>4, <1>5, <1>6, <1>7 DEF DomInv

LEMMA Domains ==
  ASSUME NEW D, NEW c, DomInv(D, c)
  PROVE  /\ DOMAIN D = Fields
         /\ DOMAIN D.user = Node /\ DOMAIN D.answer = Node /\ DOMAIN D.attr = Node
         /\ DOMAIN D.style = Node /\ DOMAIN D.looks = Node /\ DOMAIN D.asWas = Node
         /\ DOMAIN D.display = Node /\ DOMAIN D.class = Node /\ DOMAIN D.kept = Node
         /\ DOMAIN D.away = Node /\ DOMAIN D.queue = Node /\ DOMAIN D.running = Node
         /\ DOMAIN D.last = Node /\ D.made \subseteq Node
BY DEF DomInv, Shape, PerNode

\* A step that leaves looks, classes and queues alone, and the answers of the
\* nodes that it does not forget.
LEMMA DataPromises ==
  ASSUME NEW D, NEW E, E.looks = D.looks, E.away = D.away, E.last = D.last,
         \A n \in Node : E.answer[n] \in {D.answer[n], None} \/ D.answer[n] = None
  PROVE  Promised(D, E)
BY DEF Promised

LEMMA LooksStay ==
  ASSUME NEW D, NEW E, NEW n, LooksOf(D, n),
         E.looks[n] = D.looks[n], E.asWas[n] = D.asWas[n], E.away[n] = D.away[n],
         E.display[n] = D.display[n], E.style[n] = D.style[n], E.origin[n] = D.origin[n],
         E.class[n] = D.class[n], E.kept[n] = D.kept[n],
         n \in E.made <=> n \in D.made, n \in E.upset <=> n \in D.upset
  PROVE  LooksOf(E, n)
BY DEF LooksOf, BySheet

\* The data of n changes.
LEMMA DataStep ==
  ASSUME NEW D, NEW E, NEW c, NEW n \in D.made, DomInv(D, c), DOMAIN E = Fields,
         SameBut(D, E, {"user", "answer", "clean"}),
         OnlyAt(D.user, E.user, n), OnlyAt(D.answer, E.answer, n),
         E.answer[n] \in {None, E.user[n]},
         E.answer[n] \in {D.answer[n], None} \/ D.answer[n] = None,
         E.clean = D.clean \ {n} \/ (E.clean = D.clean /\ E.user[n] = None)
  PROVE  DomInv(E, c) /\ Promised(D, E)
<1>1. /\ E.made = D.made /\ E.origin = D.origin /\ E.events = D.events /\ E.bound = D.bound
      /\ E.queue = D.queue /\ E.hooks = D.hooks /\ E.upset = D.upset /\ E.last = D.last
      /\ E.attr = D.attr /\ E.style = D.style /\ E.looks = D.looks /\ E.asWas = D.asWas
      /\ E.display = D.display /\ E.class = D.class /\ E.kept = D.kept /\ E.away = D.away
  BY DEF SameBut, Fields
<1>2. SameBut(D, E, Written)
  BY DEF SameBut, Written
<1>3. Writes(D, E, n)
  BY <1>1, <1>2, Domains DEF Writes, OnlyAt
<1>4. LooksOf(E, n)
  <2>1. n \in Node /\ LooksOf(D, n)
    BY Domains DEF DomInv, LookInv
  <2> QED BY <1>1, <2>1, LooksStay
<1>5. E.clean = D.clean => (Blank(D, n) /\ E.user[n] = None => Blank(E, n))
  BY <1>1 DEF Blank
<1>6. DomInv(E, c)
  BY <1>3, <1>4, <1>5, NodeStep
<1>7. Promised(D, E)
  <2>1. \A m \in Node : E.answer[m] \in {D.answer[m], None} \/ D.answer[m] = None
    BY DEF OnlyAt
  <2> QED BY <1>1, <2>1, DataPromises
<1> QED BY <1>6, <1>7

LEMMA SetDataKeeps ==
  ASSUME NEW D, NEW c, NEW n \in D.made, NEW v, DomInv(D, c)
  PROVE  DomInv(SetData(D, n, v), c) /\ Promised(D, SetData(D, n, v))
<1> DEFINE E == SetData(D, n, v)
<1>0. n \in Node /\ DOMAIN D = Fields
  BY Domains
<1>1. /\ DOMAIN E = Fields /\ SameBut(D, E, {"user", "answer", "clean"})
      /\ E.user = [D.user EXCEPT ![n] = v] /\ E.answer = [D.answer EXCEPT ![n] = None]
      /\ E.clean = D.clean \ {n}
  BY <1>0 DEF SetData, SameBut, Fields
<1> HIDE DEF E
<1>2. OnlyAt(D.user, E.user, n) /\ OnlyAt(D.answer, E.answer, n) /\ E.answer[n] = None
  BY <1>0, <1>1, Domains DEF OnlyAt
<1>3. DomInv(E, c) /\ Promised(D, E)
  BY <1>1, <1>2, DataStep
<1> QED BY <1>3 DEF E

LEMMA RemoveDataKeeps ==
  ASSUME NEW D, NEW c, NEW n \in D.made, DomInv(D, c)
  PROVE  DomInv(RemoveData(D, n), c) /\ Promised(D, RemoveData(D, n))
<1> DEFINE E == RemoveData(D, n)
<1>0. n \in Node /\ DOMAIN D = Fields
  BY Domains
<1>1. /\ DOMAIN E = Fields /\ SameBut(D, E, {"user", "answer", "clean"})
      /\ E.user = [D.user EXCEPT ![n] = None] /\ E.answer = [D.answer EXCEPT ![n] = None]
      /\ E.clean = D.clean
  BY <1>0 DEF RemoveData, SameBut, Fields
<1> HIDE DEF E
<1>2. /\ OnlyAt(D.user, E.user, n) /\ OnlyAt(D.answer, E.answer, n)
      /\ E.answer[n] = None /\ E.user[n] = None
  BY <1>0, <1>1, Domains DEF OnlyAt
<1>3. DomInv(E, c) /\ Promised(D, E)
  BY <1>1, <1>2, DataStep
<1> QED BY <1>3 DEF E

LEMMA SetAttrKeeps ==
  ASSUME NEW D, NEW c, NEW n \in D.made, NEW v, DomInv(D, c)
  PROVE  DomInv(SetAttr(D, n, v), c) /\ Promised(D, SetAttr(D, n, v))
<1> DEFINE E == SetAttr(D, n, v)
<1>1. DOMAIN E = Fields /\ SameBut(D, E, Elsewhere) /\ DOMAIN E.attr = Node
  BY Domains DEF SetAttr, SameBut, Fields, Elsewhere
<1> HIDE DEF E
<1>2. Keeps(D, E, c)
  BY <1>1, PlainStep DEF Keeps
<1> QED BY <1>2, KeepsPromises DEF E

LEMMA ReadKeeps ==
  ASSUME NEW D, NEW c, NEW n \in D.made, DomInv(D, c)
  PROVE  DomInv(Read(D, n), c) /\ Promised(D, Read(D, n))
<1> DEFINE v == Value(D, n)
           E == Read(D, n)
<1>0. n \in Node /\ DOMAIN D = Fields
  BY Domains
<1>1. D.answer[n] # None => v = D.answer[n]
  BY <1>0 DEF Value, DomInv, DataInv
<1>2. E = [[D EXCEPT !.user[n] = v, !.answer[n] = None, !.clean = @ \ {n}]
             EXCEPT !.answer[n] = v]
  BY DEF Read, SetData
<1> HIDE DEF v, E
<1>3. /\ DOMAIN E = Fields /\ SameBut(D, E, {"user", "answer", "clean"})
      /\ E.user = [D.user EXCEPT ![n] = v]
      /\ E.answer = [[D.answer EXCEPT ![n] = None] EXCEPT ![n] = v]
      /\ E.clean = D.clean \ {n}
  BY <1>0, <1>2 DEF SameBut, Fields
<1>4. /\ OnlyAt(D.user, E.user, n) /\ OnlyAt(D.answer, E.answer, n)
      /\ E.answer[n] = v /\ E.user[n] = v
  BY <1>0, <1>3, Domains DEF OnlyAt
<1>5. DomInv(E, c) /\ Promised(D, E)
  BY <1>1, <1>3, <1>4, DataStep
<1> QED BY <1>5 DEF E

LEMMA ReadAllKeeps ==
  ASSUME NEW D, NEW c, NEW n \in D.made, DomInv(D, c)
  PROVE  DomInv(ReadAll(D, n), c) /\ Promised(D, ReadAll(D, n))
<1>1. CASE n \in D.hasAttrs
  <2>1. ReadAll(D, n) = D
    BY <1>1 DEF ReadAll
  <2> QED BY <2>1, DataPromises
<1>2. CASE n \notin D.hasAttrs
  <2> DEFINE R == Read(D, n)
             E == [R EXCEPT !.hasAttrs = @ \cup {n}]
  <2>1. ReadAll(D, n) = E
    BY <1>2 DEF ReadAll
  <2>2. DomInv(R, c) /\ Promised(D, R)
    BY ReadKeeps
  <2> HIDE DEF R
  <2>3. DOMAIN E = Fields /\ SameBut(R, E, Elsewhere) /\ DOMAIN E.attr = Node
    BY <2>2, Domains DEF SameBut, Fields, Elsewhere
  <2>4. /\ E.looks = R.looks /\ E.away = R.away /\ E.last = R.last
        /\ E.answer = R.answer /\ E.style = R.style /\ E.class = R.class
        /\ E.upset = R.upset
    BY <2>2, Domains DEF Fields
  <2> HIDE DEF E
  <2>5. DomInv(E, c)
    BY <2>2, <2>3, PlainStep
  <2>6. Promised(D, E)
    BY <2>2, <2>4, ZenonT(60) DEF Promised
  <2> QED BY <2>1, <2>5, <2>6
<1> QED BY <1>1, <1>2

\* The looks of n change.
LEMMA LooksStep ==
  ASSUME NEW D, NEW E, NEW c, NEW n \in D.made, DomInv(D, c), DOMAIN E = Fields,
         SameBut(D, E, {"style", "looks", "asWas", "display", "clean"}),
         OnlyAt(D.style, E.style, n), OnlyAt(D.looks, E.looks, n),
         OnlyAt(D.asWas, E.asWas, n), OnlyAt(D.display, E.display, n),
         LooksOf(E, n),
         D.asWas[n] \notin {None, ""} /\ D.looks[n] = "hidden" /\ E.looks[n] = "shown"
           => E.style[n] = D.asWas[n],
         E.clean = D.clean \ {n} \/ (E.clean = D.clean /\ E.display = D.display)
  PROVE  DomInv(E, c) /\ Promised(D, E)
<1>1. /\ E.made = D.made /\ E.origin = D.origin /\ E.events = D.events /\ E.bound = D.bound
      /\ E.queue = D.queue /\ E.hooks = D.hooks /\ E.upset = D.upset /\ E.last = D.last
      /\ E.attr = D.attr /\ E.user = D.user /\ E.answer = D.answer
      /\ E.class = D.class /\ E.kept = D.kept /\ E.away = D.away
  BY ZenonT(60) DEF SameBut, Fields
<1>2. SameBut(D, E, Written)
  BY DEF SameBut, Written
<1>3. Writes(D, E, n)
  <2>1. /\ OnlyAt(D.user, E.user, n) /\ OnlyAt(D.answer, E.answer, n)
        /\ OnlyAt(D.attr, E.attr, n) /\ OnlyAt(D.class, E.class, n)
        /\ OnlyAt(D.kept, E.kept, n) /\ OnlyAt(D.away, E.away, n)
    <3>1. /\ DOMAIN D.user = Node /\ DOMAIN D.answer = Node /\ DOMAIN D.attr = Node
          /\ DOMAIN D.class = Node /\ DOMAIN D.kept = Node /\ DOMAIN D.away = Node
      BY Domains
    <3> QED BY <1>1, <3>1 DEF OnlyAt
  <2> QED BY <1>2, <2>1 DEF Writes
<1>4. E.clean = D.clean /\ E.display = D.display => (Blank(D, n) => Blank(E, n))
  BY <1>1 DEF Blank
<1>5. E.answer[n] # None => E.user[n] = E.answer[n]
  BY <1>1, Domains DEF DomInv, DataInv
<1>6. DomInv(E, c)
  BY <1>3, <1>4, <1>5, NodeStep
<1>7. Promised(D, E)
  BY <1>1 DEF Promised, OnlyAt
<1> QED BY <1>6, <1>7

LEMMA SetStyleKeeps ==
  ASSUME NEW D, NEW c, NEW n \in D.made, NEW v, DomInv(D, c)
  PROVE  DomInv(SetStyle(D, n, v), c) /\ Promised(D, SetStyle(D, n, v))
<1> DEFINE E == SetStyle(D, n, v)
<1>0. n \in Node /\ DOMAIN D = Fields /\ LooksOf(D, n)
  BY Domains DEF DomInv, LookInv
<1>1. /\ DOMAIN E = Fields
      /\ SameBut(D, E, {"style", "looks", "asWas", "display", "clean"})
      /\ E.style = [D.style EXCEPT ![n] = v] /\ E.looks = [D.looks EXCEPT ![n] = None]
      /\ E.asWas = [D.asWas EXCEPT ![n] = None]
      /\ E.display = D.display /\ E.clean = D.clean
      /\ E.made = D.made /\ E.class = D.class /\ E.kept = D.kept /\ E.away = D.away
      /\ E.upset = D.upset
  BY <1>0 DEF SetStyle, SameBut, Fields
<1> HIDE DEF E
<1>2. /\ OnlyAt(D.style, E.style, n) /\ OnlyAt(D.looks, E.looks, n)
      /\ OnlyAt(D.asWas, E.asWas, n) /\ OnlyAt(D.display, E.display, n)
      /\ E.looks[n] = None /\ E.asWas[n] = None
  BY <1>0, <1>1, Domains DEF OnlyAt
<1>3. None # "shown" /\ None # "hidden"
  BY ElementsAssumption
<1>4. LooksOf(E, n)
  BY <1>0, <1>1, <1>2, <1>3 DEF LooksOf
<1>5. DomInv(E, c) /\ Promised(D, E)
  BY <1>1, <1>2, <1>3, <1>4, LooksStep
<1> QED BY <1>5 DEF E

LEMMA HideKeeps ==
  ASSUME NEW D, NEW c, NEW n \in D.made, DomInv(D, c)
  PROVE  DomInv(Hide(D, n), c) /\ Promised(D, Hide(D, n))
<1> DEFINE E == Hide(D, n)
<1>0. n \in Node /\ DOMAIN D = Fields /\ LooksOf(D, n)
  BY Domains DEF DomInv, LookInv
<1>1. CASE D.style[n] = "none"
  <2>1. E = [D EXCEPT !.looks[n] = "hidden"]
    BY <1>1 DEF Hide
  <2>2. /\ DOMAIN E = Fields
        /\ SameBut(D, E, {"style", "looks", "asWas", "display", "clean"})
        /\ E.style = D.style /\ E.looks = [D.looks EXCEPT ![n] = "hidden"]
        /\ E.asWas = D.asWas /\ E.display = D.display /\ E.clean = D.clean
        /\ E.made = D.made /\ E.class = D.class /\ E.kept = D.kept /\ E.away = D.away
        /\ E.upset = D.upset
    BY <1>0, <2>1 DEF SameBut, Fields
  <2> HIDE DEF E
  <2>3. /\ OnlyAt(D.style, E.style, n) /\ OnlyAt(D.looks, E.looks, n)
        /\ OnlyAt(D.asWas, E.asWas, n) /\ OnlyAt(D.display, E.display, n)
        /\ E.looks[n] = "hidden"
    BY <1>0, <2>2, Domains DEF OnlyAt
  <2>4. LooksOf(E, n)
    BY <1>0, <1>1, <2>2, <2>3 DEF LooksOf
  <2>5. DomInv(E, c) /\ Promised(D, E)
    BY <2>2, <2>3, <2>4, LooksStep
  <2> QED BY <2>5 DEF E
<1>2. CASE D.style[n] # "none"
  <2> DEFINE v == D.style[n]
  <2>1. E = [D EXCEPT !.style[n] = "none", !.display[n] = v, !.asWas[n] = v,
                      !.looks[n] = "hidden", !.clean = @ \ {n}]
    BY <1>2 DEF Hide
  <2> HIDE DEF v, E
  <2>2. /\ DOMAIN E = Fields
        /\ SameBut(D, E, {"style", "looks", "asWas", "display", "clean"})
        /\ E.style = [D.style EXCEPT ![n] = "none"]
        /\ E.looks = [D.looks EXCEPT ![n] = "hidden"]
        /\ E.asWas = [D.asWas EXCEPT ![n] = v] /\ E.display = [D.display EXCEPT ![n] = v]
        /\ E.clean = D.clean \ {n}
        /\ E.made = D.made /\ E.class = D.class /\ E.kept = D.kept /\ E.away = D.away
        /\ E.upset = D.upset
    BY <1>0, <2>1 DEF SameBut, Fields
  <2>3. /\ OnlyAt(D.style, E.style, n) /\ OnlyAt(D.looks, E.looks, n)
        /\ OnlyAt(D.asWas, E.asWas, n) /\ OnlyAt(D.display, E.display, n)
        /\ E.looks[n] = "hidden" /\ E.style[n] = "none"
        /\ E.asWas[n] = v /\ E.display[n] = v
    BY <1>0, <2>2, Domains DEF OnlyAt
  <2>4. LooksOf(E, n)
    BY <1>0, <1>2, <2>2, <2>3 DEF LooksOf, v
  <2>5. DomInv(E, c) /\ Promised(D, E)
    BY <2>2, <2>3, <2>4, LooksStep
  <2> QED BY <2>5 DEF E
<1> QED BY <1>1, <1>2

LEMMA ShowKeeps ==
  ASSUME NEW D, NEW c, NEW n \in D.made, DomInv(D, c)
  PROVE  DomInv(Show(D, n), c) /\ Promised(D, Show(D, n))
<1> DEFINE v == IF D.display[n] = None THEN "" ELSE D.display[n]
           F == IF D.style[n] = "none" THEN [D EXCEPT !.style[n] = v] ELSE D
           w == IF F.style[n] = "" /\ IsHidden(F, n) THEN "block" ELSE F.style[n]
           l == IF Contained(D, n) THEN "shown" ELSE None
           E == Show(D, n)
<1>0. n \in Node /\ DOMAIN D = Fields /\ LooksOf(D, n) /\ n \in DOMAIN D.style
  BY Domains DEF DomInv, LookInv
<1>1. E = [F EXCEPT !.style[n] = w, !.looks[n] = l]
  BY DEF Show
<1>2. F.style[n] = IF D.style[n] = "none" THEN v ELSE D.style[n]
  <2> HIDE DEF v
  <2> QED BY <1>0 DEF Fields
<1>3. F.style[n] # "none" /\ (D.asWas[n] # None /\ D.style[n] = "none" => F.style[n] = D.asWas[n])
  <2> HIDE DEF F
  <2>1. v # "none"
    BY <1>0 DEF LooksOf
  <2>2. D.asWas[n] # None => v = D.asWas[n]
    BY <1>0 DEF LooksOf
  <2> HIDE DEF v
  <2> QED BY <1>2, <2>1, <2>2
<1>4. F.parent = D.parent /\ F.origin = D.origin
  BY <1>0 DEF Fields
<1>5. Contained(F, n) <=> Contained(D, n)
  BY <1>4, SMTT(40) DEF Contained, Ancestors, Path
<1>6. w # "none" /\ (l = "shown" /\ w = "" => ~BySheet(D, n))
  <2>1. w = "" /\ l = "shown" => ~IsHidden(F, n) /\ F.style[n] = "" /\ Contained(D, n)
    BY ElementsAssumption
  <2>2. w = "" /\ l = "shown" => ~BySheet(F, n)
    BY <1>5, <2>1 DEF IsHidden
  <2> QED BY <1>3, <1>4, <2>2 DEF BySheet
<1>7. F.style[n] # "" => w = F.style[n]
  OBVIOUS
<1>8. l \in {"shown", None} /\ l # "hidden"
  BY ElementsAssumption
<1>9. /\ DOMAIN F = Fields /\ SameBut(D, F, {"style"})
      /\ DOMAIN F.style = Node /\ \A m \in Node \ {n} : F.style[m] = D.style[m]
  <2>1. DOMAIN D.style = Node
    BY Domains
  <2> HIDE DEF v
  <2> QED BY <1>0, <2>1 DEF SameBut, Fields
<1> HIDE DEF E, F, w, l, v
<1>10. /\ DOMAIN E = Fields
       /\ SameBut(F, E, {"style", "looks"})
       /\ E.style = [F.style EXCEPT ![n] = w] /\ E.looks = [F.looks EXCEPT ![n] = l]
  BY <1>1, <1>9 DEF SameBut, Fields
<1>11. /\ SameBut(D, E, {"style", "looks", "asWas", "display", "clean"})
       /\ E.asWas = D.asWas /\ E.display = D.display /\ E.clean = D.clean
       /\ E.made = D.made /\ E.class = D.class /\ E.kept = D.kept /\ E.away = D.away
       /\ E.upset = D.upset /\ E.origin = D.origin /\ E.looks = [D.looks EXCEPT ![n] = l]
  BY <1>9, <1>10 DEF SameBut, Fields
<1>12. /\ OnlyAt(D.style, E.style, n) /\ OnlyAt(D.looks, E.looks, n)
       /\ OnlyAt(D.asWas, E.asWas, n) /\ OnlyAt(D.display, E.display, n)
       /\ E.looks[n] = l /\ E.style[n] = w
  BY <1>0, <1>9, <1>10, <1>11, Domains DEF OnlyAt
<1>13. LooksOf(E, n)
  BY <1>0, <1>6, <1>8, <1>11, <1>12 DEF LooksOf, BySheet
<1>14. D.asWas[n] \notin {None, ""} /\ D.looks[n] = "hidden" => E.style[n] = D.asWas[n]
  BY <1>0, <1>3, <1>7, <1>12 DEF LooksOf
<1>15. DomInv(E, c) /\ Promised(D, E)
  BY <1>10, <1>11, <1>12, <1>13, <1>14, LooksStep
<1> QED BY <1>15 DEF E

\* The classes of n change.
LEMMA ClassStep ==
  ASSUME NEW D, NEW E, NEW c, NEW n \in D.made, DomInv(D, c), DOMAIN E = Fields,
         SameBut(D, E, {"class", "kept", "away", "clean"}),
         OnlyAt(D.class, E.class, n), OnlyAt(D.kept, E.kept, n), OnlyAt(D.away, E.away, n),
         E.class[n] \subseteq Class, E.kept[n] = None \/ E.kept[n] \subseteq Class,
         E.away[n] # None /\ n \notin E.upset => E.kept[n] = E.away[n],
         D.away[n] # None /\ E.away[n] = None /\ n \notin E.upset
           => E.class[n] = D.away[n],
         E.clean = D.clean \ {n} \/ (E.clean = D.clean /\ E.kept = D.kept)
  PROVE  DomInv(E, c) /\ Promised(D, E)
<1>1. /\ E.made = D.made /\ E.origin = D.origin /\ E.events = D.events /\ E.bound = D.bound
      /\ E.queue = D.queue /\ E.hooks = D.hooks /\ E.upset = D.upset /\ E.last = D.last
      /\ E.attr = D.attr /\ E.user = D.user /\ E.answer = D.answer
      /\ E.style = D.style /\ E.looks = D.looks /\ E.asWas = D.asWas /\ E.display = D.display
  BY DEF SameBut, Fields
<1>2. SameBut(D, E, Written)
  BY DEF SameBut, Written
<1>3. Writes(D, E, n)
  <2>1. /\ OnlyAt(D.user, E.user, n) /\ OnlyAt(D.answer, E.answer, n)
        /\ OnlyAt(D.attr, E.attr, n) /\ OnlyAt(D.style, E.style, n)
        /\ OnlyAt(D.looks, E.looks, n) /\ OnlyAt(D.asWas, E.asWas, n)
        /\ OnlyAt(D.display, E.display, n)
    BY <1>1, Domains DEF OnlyAt
  <2> QED BY <1>2, <2>1 DEF Writes
<1>4. E.clean = D.clean /\ E.kept = D.kept => (Blank(D, n) => Blank(E, n))
  BY <1>1 DEF Blank
<1>5. E.answer[n] # None => E.user[n] = E.answer[n]
  BY <1>1, Domains DEF DomInv, DataInv
<1>6. LooksOf(E, n)
  <2>1. LooksOf(D, n)
    BY Domains DEF DomInv, LookInv
  <2>2. /\ E.looks[n] = D.looks[n] /\ E.asWas[n] = D.asWas[n] /\ E.style[n] = D.style[n]
        /\ E.display[n] = D.display[n] /\ n \in E.made /\ (BySheet(E, n) <=> BySheet(D, n))
    BY <1>1 DEF BySheet
  <2> QED BY <2>1, <2>2 DEF LooksOf
<1>7. DomInv(E, c)
  BY <1>3, <1>4, <1>5, <1>6, NodeStep
<1>8. Promised(D, E)
  BY <1>1 DEF Promised, OnlyAt
<1> QED BY <1>7, <1>8

\* The class attribute alone.
LEMMA ClassOnly ==
  ASSUME NEW D, NEW c, NEW n \in D.made, NEW v \in SUBSET Class, DomInv(D, c)
  PROVE  DomInv([D EXCEPT !.class[n] = v], c) /\ Promised(D, [D EXCEPT !.class[n] = v])
<1> DEFINE E == [D EXCEPT !.class[n] = v]
<1>0. n \in Node /\ DOMAIN D = Fields /\ LooksOf(D, n)
  BY Domains DEF DomInv, LookInv
<1>1. /\ DOMAIN E = Fields
      /\ SameBut(D, E, {"class", "kept", "away", "clean"})
      /\ E.class = [D.class EXCEPT ![n] = v] /\ E.kept = D.kept /\ E.away = D.away
      /\ E.clean = D.clean /\ E.upset = D.upset
  BY <1>0 DEF SameBut, Fields
<1> HIDE DEF E
<1>2. /\ OnlyAt(D.class, E.class, n) /\ OnlyAt(D.kept, E.kept, n)
      /\ OnlyAt(D.away, E.away, n) /\ E.class[n] = v
  BY <1>0, <1>1, Domains DEF OnlyAt
<1>3. /\ E.kept[n] = None \/ E.kept[n] \subseteq Class
      /\ E.away[n] # None /\ n \notin E.upset => E.kept[n] = E.away[n]
      /\ ~(D.away[n] # None /\ E.away[n] = None)
  BY <1>0, <1>1 DEF LooksOf
<1>4. DomInv(E, c) /\ Promised(D, E)
  BY <1>1, <1>2, <1>3, ClassStep
<1> QED BY <1>4 DEF E

LEMMA AddClassKeeps ==
  ASSUME NEW D, NEW c, NEW n \in D.made, NEW k \in Class, DomInv(D, c)
  PROVE  /\ DomInv(AddClass(D, n, k), c) /\ Promised(D, AddClass(D, n, k))
         /\ DomInv(RemoveClass(D, n, k), c) /\ Promised(D, RemoveClass(D, n, k))
         /\ DomInv(ToggleOne(D, n, k), c) /\ Promised(D, ToggleOne(D, n, k))
<1>0. n \in Node /\ D.class[n] \subseteq Class
  BY Domains DEF DomInv, LookInv, LooksOf
<1>1. DomInv(AddClass(D, n, k), c) /\ Promised(D, AddClass(D, n, k))
  <2>1. D.class[n] \cup {k} \in SUBSET Class
    BY <1>0
  <2>2. AddClass(D, n, k) = [D EXCEPT !.class[n] = D.class[n] \cup {k}]
    BY DEF AddClass
  <2> QED BY <2>1, <2>2, ClassOnly
<1>2. DomInv(RemoveClass(D, n, k), c) /\ Promised(D, RemoveClass(D, n, k))
  <2>1. D.class[n] \ {k} \in SUBSET Class
    BY <1>0
  <2>2. RemoveClass(D, n, k) = [D EXCEPT !.class[n] = D.class[n] \ {k}]
    BY DEF RemoveClass
  <2> QED BY <2>1, <2>2, ClassOnly
<1>3. ToggleOne(D, n, k) \in {AddClass(D, n, k), RemoveClass(D, n, k)}
  BY DEF ToggleOne
<1> QED BY <1>1, <1>2, <1>3

LEMMA StripKeeps ==
  ASSUME NEW D, NEW c, NEW n \in D.made, DomInv(D, c)
  PROVE  DomInv(Strip(D, n), c) /\ Promised(D, Strip(D, n))
<1> DEFINE E == Strip(D, n)
           v == D.class[n]
<1>0. n \in Node /\ DOMAIN D = Fields /\ LooksOf(D, n)
  BY Domains DEF DomInv, LookInv
<1>1. CASE v = {}
  <2>1. E = D
    BY <1>1 DEF Strip
  <2> QED BY <2>1, DataPromises
<1>2. CASE v # {}
  <2>1. E = [D EXCEPT !.class[n] = {}, !.kept[n] = v, !.clean = @ \ {n}, !.away[n] = v]
    BY <1>2 DEF Strip
  <2>2. v \subseteq Class /\ v # None
    BY <1>0, ClassAssumption DEF LooksOf
  <2> HIDE DEF E, v
  <2>3. /\ DOMAIN E = Fields
        /\ SameBut(D, E, {"class", "kept", "away", "clean"})
        /\ E.class = [D.class EXCEPT ![n] = {}] /\ E.kept = [D.kept EXCEPT ![n] = v]
        /\ E.away = [D.away EXCEPT ![n] = v] /\ E.clean = D.clean \ {n}
    BY <1>0, <2>1 DEF SameBut, Fields
  <2>4. /\ OnlyAt(D.class, E.class, n) /\ OnlyAt(D.kept, E.kept, n)
        /\ OnlyAt(D.away, E.away, n)
        /\ E.class[n] = {} /\ E.kept[n] = v /\ E.away[n] = v
    BY <1>0, <2>3, Domains DEF OnlyAt
  <2>5. DomInv(E, c) /\ Promised(D, E)
    BY <2>2, <2>3, <2>4, ClassStep
  <2> QED BY <2>5 DEF E
<1> QED BY <1>1, <1>2

LEMMA ToggleAllKeeps ==
  ASSUME NEW D, NEW c, NEW n \in D.made, DomInv(D, c)
  PROVE  DomInv(ToggleAll(D, n), c) /\ Promised(D, ToggleAll(D, n))
<1> DEFINE E == ToggleAll(D, n)
           v == IF D.kept[n] = None THEN {} ELSE D.kept[n]
<1>0. n \in Node /\ DOMAIN D = Fields /\ LooksOf(D, n)
  BY Domains DEF DomInv, LookInv
<1>1. CASE D.class[n] # {}
  <2>1. E = Strip(D, n)
    BY <1>1 DEF ToggleAll
  <2> QED BY <2>1, StripKeeps
<1>2. CASE D.class[n] = {}
  <2>1. E = [D EXCEPT !.class[n] = v, !.away[n] = None]
    BY <1>2 DEF ToggleAll
  <2>2. /\ v \subseteq Class
        /\ D.away[n] # None /\ n \notin D.upset => v = D.away[n]
    BY <1>0 DEF LooksOf
  <2> HIDE DEF E, v
  <2>3. /\ DOMAIN E = Fields
        /\ SameBut(D, E, {"class", "kept", "away", "clean"})
        /\ E.class = [D.class EXCEPT ![n] = v] /\ E.kept = D.kept
        /\ E.away = [D.away EXCEPT ![n] = None] /\ E.clean = D.clean /\ E.upset = D.upset
    BY <1>0, <2>1 DEF SameBut, Fields
  <2>4. /\ OnlyAt(D.class, E.class, n) /\ OnlyAt(D.kept, E.kept, n)
        /\ OnlyAt(D.away, E.away, n) /\ E.class[n] = v /\ E.away[n] = None
        /\ (E.kept[n] = None \/ E.kept[n] \subseteq Class)
    BY <1>0, <2>3, Domains, ZenonT(60) DEF OnlyAt, LooksOf
  <2>5. DomInv(E, c) /\ Promised(D, E)
    BY <2>2, <2>3, <2>4, ClassStep
  <2> QED BY <2>5 DEF E
<1> QED BY <1>1, <1>2

-----------------------------------------------------------------------------
(* The queue of one node *)

\* The numbers of q grow, and those that are no sentinel lie after l.
Growing(q, l, c) ==
  /\ q \in Seq(Nat)
  /\ \A i \in 1..Len(q) : q[i] = 0 \/ (l < q[i] /\ q[i] <= c)
  /\ \A i, j \in 1..Len(q) : i < j => q[i] < q[j]

\* What dequeue makes of a queue in order.
LEMMA NextInOrder ==
  ASSUME NEW q, NEW l \in Nat, NEW c \in Nat, Growing(q, l, c), First(q) # <<>>
  PROVE  /\ Head(First(q)) \in Nat /\ l < Head(First(q)) /\ Head(First(q)) <= c
         /\ \E j \in 1..Len(q) : q[j] = Head(First(q))
         /\ Growing(<<0>> \o Tail(First(q)), Head(First(q)), c)
         /\ <<0>> \o Tail(First(q)) # <<>> /\ (<<0>> \o Tail(First(q)))[1] = 0
         /\ \A i \in 1..Len(<<0>> \o Tail(First(q))) :
              \/ (<<0>> \o Tail(First(q)))[i] = 0
              \/ \E j \in 1..Len(q) : q[j] = (<<0>> \o Tail(First(q)))[i]
<1> DEFINE r == First(q)
           t == <<0>> \o Tail(r)
<1>1. PICK k \in {0, 1} : /\ r \in Seq(Nat) /\ Len(r) = Len(q) - k
                          /\ \A i \in 1..Len(r) : r[i] = q[i + k]
                          /\ \A i \in 1..Len(r) : i + k \in 1..Len(q)
                          /\ k = 0 => q[1] # 0
                          /\ k = 1 => q[1] = 0 /\ 1 \in 1..Len(q)
  <2>1. q \in Seq(Nat)
    BY DEF Growing
  <2>2. CASE q # <<>> /\ Head(q) = 0
    <3>1. r = Tail(q)
      BY <2>2 DEF First, Progress
    <3> QED BY <2>1, <2>2, <3>1
  <2>3. CASE ~(q # <<>> /\ Head(q) = 0)
    <3>1. r = q
      BY <2>3 DEF First, Progress
    <3> QED BY <2>1, <2>3, <3>1
  <2> QED BY <2>2, <2>3
<1>2. r # <<>>
  OBVIOUS
<1> HIDE DEF r
<1>3. 1 \in 1..Len(r) /\ Head(r) = r[1]
  BY <1>1, <1>2
<1>4. r[1] # 0
  <2>1. CASE k = 0
    BY <1>1, <1>3, <2>1
  <2>2. CASE k = 1
    <3>1. r[1] = q[2] /\ 2 \in 1..Len(q) /\ q[1] = 0 /\ 1 \in 1..Len(q)
      BY <1>1, <1>3, <2>2
    <3>2. q[1] < q[2]
      BY <3>1 DEF Growing
    <3> QED BY <3>1, <3>2
  <2> QED BY <2>1, <2>2
<1>5. \A i \in 1..Len(r) : r[i] \in Nat /\ (r[i] = 0 \/ (l < r[i] /\ r[i] <= c))
  <2>1. \A i \in 1..Len(q) : q[i] \in Nat /\ (q[i] = 0 \/ (l < q[i] /\ q[i] <= c))
    BY DEF Growing
  <2> QED BY <1>1, <2>1
<1>6. \A i, j \in 1..Len(r) : i < j => r[i] < r[j]
  <2> SUFFICES ASSUME NEW i \in 1..Len(r), NEW j \in 1..Len(r), i < j PROVE r[i] < r[j]
    OBVIOUS
  <2>1. r[i] = q[i + k] /\ r[j] = q[j + k] /\ i + k \in 1..Len(q) /\ j + k \in 1..Len(q)
    BY <1>1
  <2>2. i + k < j + k
    OBVIOUS
  <2> HIDE DEF r
  <2> QED BY <2>1, <2>2 DEF Growing
<1>7. r[1] \in Nat /\ l < r[1] /\ r[1] <= c
  BY <1>3, <1>4, <1>5
<1>8. \A i \in 1..Len(r) : i # 1 => r[1] < r[i] /\ r[i] <= c
  BY <1>3, <1>5, <1>6, <1>7
<1>9. t \in Seq(Nat) /\ Len(t) = Len(r) /\ t[1] = 0 /\ \A i \in 1..Len(r) : i # 1 => t[i] = r[i]
  BY <1>1, <1>2
<1> HIDE DEF t
<1>10. Growing(t, r[1], c)
  <2>1. \A i \in 1..Len(t) : t[i] = 0 \/ (r[1] < t[i] /\ t[i] <= c)
    BY <1>8, <1>9
  <2>2. ASSUME NEW i \in 1..Len(t), NEW j \in 1..Len(t), i < j PROVE t[i] < t[j]
    <3>1. j # 1 /\ t[j] = r[j] /\ r[1] < r[j] /\ r[j] \in Nat
      BY <1>5, <1>8, <1>9, <2>2
    <3>2. CASE i = 1
      BY <1>7, <1>9, <3>1, <3>2
    <3>3. CASE i # 1
      BY <1>6, <1>9, <2>2, <3>1, <3>3
    <3> QED BY <3>2, <3>3
  <2> QED BY <1>9, <2>1, <2>2 DEF Growing
<1>11. \A i \in 1..Len(t) : t[i] = 0 \/ \E j \in 1..Len(q) : q[j] = t[i]
  BY <1>1, <1>9
<1>12. \E j \in 1..Len(q) : q[j] = r[1]
  BY <1>1, <1>3
<1>13. t # <<>>
  BY <1>3, <1>9
<1> QED BY <1>3, <1>7, <1>9, <1>10, <1>11, <1>12, <1>13 DEF r, t

\* A later function goes to the end of a queue in order.
LEMMA LastInOrder ==
  ASSUME NEW q, NEW l \in Nat, NEW c \in Nat, Growing(q, l, c), l <= c
  PROVE  /\ Growing(Append(q, c + 1), l, c + 1)
         /\ Append(q, c + 1) # <<>>
         /\ Head(Append(q, c + 1)) = (IF q = <<>> THEN c + 1 ELSE q[1])
         /\ Append(q, c + 1)[1] = Head(Append(q, c + 1))
         /\ \A i \in 1..Len(Append(q, c + 1)) :
              \/ Append(q, c + 1)[i] = c + 1
              \/ \E j \in 1..Len(q) : q[j] = Append(q, c + 1)[i]
<1> DEFINE t == Append(q, c + 1)
<1>1. /\ q \in Seq(Nat) /\ t \in Seq(Nat) /\ Len(t) = Len(q) + 1 /\ t[Len(t)] = c + 1
      /\ \A i \in 1..Len(q) : t[i] = q[i] /\ q[i] \in Nat
  BY DEF Growing
<1>2. \A i \in 1..Len(q) : q[i] <= c
  BY <1>1 DEF Growing
<1>3. t # <<>> /\ Head(t) = t[1] /\ t[1] = (IF q = <<>> THEN c + 1 ELSE q[1])
  <2>1. CASE q = <<>>
    BY <1>1, <2>1
  <2>2. CASE q # <<>>
    <3>1. 1 \in 1..Len(q)
      BY <1>1, <2>2
    <3> QED BY <1>1, <2>2, <3>1
  <2> QED BY <2>1, <2>2
<1> HIDE DEF t
<1>4. \A i \in 1..Len(t) : i = Len(t) \/ i \in 1..Len(q)
  BY <1>1
<1>5. \A i \in 1..Len(t) : t[i] = 0 \/ (l < t[i] /\ t[i] <= c + 1)
  BY <1>1, <1>2, <1>4, SMTT(40) DEF Growing
<1>6. ASSUME NEW i \in 1..Len(t), NEW j \in 1..Len(t), i < j PROVE t[i] < t[j]
  <2>1. i \in 1..Len(q) /\ t[i] = q[i] /\ q[i] \in Nat /\ q[i] <= c
    BY <1>1, <1>2, <1>4, <1>6, SMTT(40)
  <2>2. CASE j = Len(t)
    BY <1>1, <2>1, <2>2
  <2>3. CASE j \in 1..Len(q)
    BY <1>1, <1>6, <2>1, <2>3 DEF Growing
  <2> QED BY <1>4, <2>2, <2>3
<1>7. \A i \in 1..Len(t) : t[i] = c + 1 \/ \E j \in 1..Len(q) : q[j] = t[i]
  BY <1>1, <1>4
<1> QED BY <1>1, <1>3, <1>5, <1>6, <1>7 DEF t, Growing

LEMMA OrderedGrows ==
  ASSUME NEW D, NEW n, NEW c \in Nat
  PROVE  Ordered(D, n, c) <=>
           /\ Growing(D.queue[n], D.last[n], c)
           /\ D.last[n] \in Nat /\ D.last[n] <= c /\ D.running[n] \subseteq 1..c
BY DEF Ordered, Growing

QueueFields == {"queue", "hooks", "running", "waits", "count", "last", "upset", "clean",
                "asked", "due"}

\* The queue of n changes, or what promise() waits for.
LEMMA QueueStep ==
  ASSUME NEW D, NEW E, NEW d, NEW n \in D.made, Shape(D), LookInv(D), DataInv(D),
         DOMAIN E = Fields, SameBut(D, E, QueueFields),
         OnlyAt(D.queue, E.queue, n), OnlyAt(D.running, E.running, n),
         OnlyAt(D.last, E.last, n),
         \A m \in Node \ {n} : m \in E.hooks <=> m \in D.hooks,
         D.upset \subseteq E.upset,
         \/ E.clean = D.clean \ {n} \/ (E.clean = D.clean /\ n \notin D.clean)
         \/ E.clean = D.clean /\ E.queue[n] = <<>> /\ n \notin E.hooks
  PROVE  Shape(E) /\ LookInv(E) /\ DataInv(E)
<1>1. /\ E.made = D.made /\ E.origin = D.origin /\ E.events = D.events /\ E.bound = D.bound
      /\ E.user = D.user /\ E.answer = D.answer /\ E.style = D.style /\ E.looks = D.looks
      /\ E.asWas = D.asWas /\ E.display = D.display /\ E.class = D.class
      /\ E.kept = D.kept /\ E.away = D.away
  BY DEF SameBut, Fields, QueueFields
<1>2. Shape(E)
  <2>1. \A x \in PerNode : x \in Fields \ QueueFields \/ x \in {"queue", "running", "last"}
    BY DEF PerNode, Fields, QueueFields
  <2>2. \A x \in {"queue", "running", "last"} : DOMAIN E[x] = Node
    BY DEF OnlyAt
  <2>3. \A x \in PerNode : x \in Fields \ QueueFields => E[x] = D[x]
    BY DEF SameBut
  <2>4. \A x \in PerNode : DOMAIN D[x] = Node
    BY DEF Shape
  <2>5. \A x \in PerNode : DOMAIN E[x] = Node
    BY <2>1, <2>2, <2>3, <2>4
  <2> QED BY <1>1, <2>5 DEF Shape
<1>3. LookInv(E)
  <2> SUFFICES ASSUME NEW m \in Node PROVE LooksOf(E, m)
    BY DEF LookInv
  <2>1. LooksOf(D, m)
    BY DEF LookInv
  <2>2. BySheet(E, m) <=> BySheet(D, m)
    BY <1>1 DEF BySheet
  <2>3. /\ E.looks[m] = D.looks[m] /\ E.asWas[m] = D.asWas[m] /\ E.away[m] = D.away[m]
        /\ E.display[m] = D.display[m] /\ E.style[m] = D.style[m]
        /\ E.kept[m] = D.kept[m] /\ E.class[m] = D.class[m]
        /\ (m \in E.made <=> m \in D.made)
    BY <1>1
  <2>4. m \in D.upset => m \in E.upset
    OBVIOUS
  <2> QED BY <2>1, <2>2, <2>3, <2>4 DEF LooksOf
<1>4. DataInv(E)
  <2>1. E.clean \subseteq E.made /\ E.clean \subseteq D.clean
    BY <1>1 DEF DataInv
  <2>2. ASSUME NEW m \in E.clean PROVE Blank(E, m)
    <3>1. Blank(D, m) /\ m \in Node
      BY <2>1 DEF DataInv, Shape
    <3>2. (E.queue[m] = D.queue[m] /\ (m \in E.hooks <=> m \in D.hooks))
            \/ (E.queue[m] = <<>> /\ m \notin E.hooks)
      BY <2>2, <3>1 DEF OnlyAt
    <3> QED BY <1>1, <3>1, <3>2 DEF Blank
  <2> QED BY <1>1, <2>1, <2>2 DEF DataInv
<1> QED BY <1>2, <1>3, <1>4

LEMMA QueuePromises ==
  ASSUME NEW D, NEW E, NEW n, SameBut(D, E, QueueFields), OnlyAt(D.last, E.last, n),
         E.last[n] # D.last[n] => E.last[n] > D.last[n]
  PROVE  Promised(D, E)
<1>1. E.answer = D.answer /\ E.looks = D.looks /\ E.away = D.away
  BY DEF SameBut, Fields, QueueFields
<1> QED BY <1>1 DEF Promised, OnlyAt

LEMMA OthersWait ==
  ASSUME NEW D, NEW E, NEW c, NEW n, NEW m \in Node \ {n},
         OnlyAt(D.queue, E.queue, n), OnlyAt(D.running, E.running, n),
         OnlyAt(D.last, E.last, n), m \in E.hooks <=> m \in D.hooks, D.upset \subseteq E.upset
  PROVE  /\ Ordered(D, m, c) => Ordered(E, m, c)
         /\ Sentinel(D, m) => Sentinel(E, m)
         /\ Pending(E, m) = Pending(D, m)
<1>1. E.queue[m] = D.queue[m] /\ E.running[m] = D.running[m] /\ E.last[m] = D.last[m]
  BY DEF OnlyAt
<1>2. Ordered(D, m, c) => Ordered(E, m, c)
  BY <1>1 DEF Ordered
<1>3. Sentinel(D, m) => Sentinel(E, m)
  BY <1>1 DEF Sentinel
<1>4. Pending(E, m) = Pending(D, m)
  BY <1>1 DEF Pending
<1> QED BY <1>2, <1>3, <1>4

\* All that is known but that n's queue has a sentinel, and nothing of n runs.
Almost(D, n, c) ==
  /\ Shape(D) /\ LookInv(D) /\ DataInv(D)
  /\ \A m \in Node : Ordered(D, m, c)
  /\ \A m \in Node \ {n} : Sentinel(D, m)
  /\ Counted(D, c)
  /\ n \notin D.upset => D.running[n] = {}

\* The fields that FireEmpty leaves, once it has been decided that it fires.
LEMMA FireFields ==
  ASSUME NEW D, NEW n \in Node, Shape(D)
  PROVE  /\ DOMAIN FireEmpty(D, n) = Fields
         /\ SameBut(D, FireEmpty(D, n), QueueFields)
         /\ FireEmpty(D, n).queue[n] = <<>>
         /\ OnlyAt(D.queue, FireEmpty(D, n).queue, n)
         /\ FireEmpty(D, n).running = D.running /\ FireEmpty(D, n).last = D.last
         /\ FireEmpty(D, n).hooks = D.hooks \ {n} /\ FireEmpty(D, n).waits = D.waits \ {n}
         /\ FireEmpty(D, n).count = D.count - (IF n \in D.waits THEN 1 ELSE 0)
         /\ FireEmpty(D, n).clean = D.clean /\ FireEmpty(D, n).upset = D.upset
         /\ FireEmpty(D, n).asked = D.asked /\ FireEmpty(D, n).due = D.due
<1> DEFINE E == FireEmpty(D, n)
           d == D.count - (IF n \in D.waits THEN 1 ELSE 0)
<1>1. DOMAIN D = Fields /\ DOMAIN D.queue = Node
  BY DEF Shape, PerNode
<1>2. E = [D EXCEPT !.queue[n] = <<>>, !.hooks = @ \ {n}, !.waits = @ \ {n}, !.count = d]
  BY <1>1 DEF FireEmpty, Fields
<1> HIDE DEF E, d
<1>3. /\ DOMAIN E = Fields /\ SameBut(D, E, QueueFields)
      /\ E.queue = [D.queue EXCEPT ![n] = <<>>]
      /\ E.running = D.running /\ E.last = D.last
      /\ E.hooks = D.hooks \ {n} /\ E.waits = D.waits \ {n} /\ E.count = d
      /\ E.clean = D.clean /\ E.upset = D.upset /\ E.asked = D.asked /\ E.due = D.due
  BY <1>1, <1>2 DEF SameBut, Fields, QueueFields
<1>4. E.queue[n] = <<>> /\ OnlyAt(D.queue, E.queue, n)
  BY <1>1, <1>3 DEF OnlyAt
<1> QED BY <1>3, <1>4 DEF E, d

LEMMA SameOnly ==
  ASSUME NEW D, NEW n, Shape(D)
  PROVE  OnlyAt(D.queue, D.queue, n) /\ OnlyAt(D.running, D.running, n)
         /\ OnlyAt(D.last, D.last, n)
<1>1. DOMAIN D.queue = Node /\ DOMAIN D.running = Node /\ DOMAIN D.last = Node
  BY DEF Shape, PerNode
<1> QED BY <1>1 DEF OnlyAt

\* One queue less is waited for.
LEMMA OneLess ==
  ASSUME NEW W \in SUBSET Node, NEW n
  PROVE  Cardinality(W \ {n}) = Cardinality(W) - (IF n \in W THEN 1 ELSE 0)
<1>1. IsFiniteSet(W)
  BY FS_Subset, ElementsAssumption
<1>2. Cardinality(W) \in Nat
  BY <1>1, FS_CardinalityType
<1> QED BY <1>1, <1>2, FS_RemoveElement

LEMMA FireKeeps ==
  ASSUME NEW D, NEW c \in Nat, NEW n \in D.made, Almost(D, n, c)
  PROVE  DomInv(FireEmpty(D, n), c) /\ Promised(D, FireEmpty(D, n))
<1> DEFINE E == FireEmpty(D, n)
<1>0. n \in Node
  BY DEF Almost, Shape
<1>1. /\ DOMAIN E = Fields /\ SameBut(D, E, QueueFields)
      /\ E.queue[n] = <<>> /\ OnlyAt(D.queue, E.queue, n)
      /\ E.running = D.running /\ E.last = D.last
      /\ E.hooks = D.hooks \ {n} /\ E.waits = D.waits \ {n}
      /\ E.count = D.count - (IF n \in D.waits THEN 1 ELSE 0)
      /\ E.clean = D.clean /\ E.upset = D.upset /\ E.asked = D.asked /\ E.due = D.due
  BY <1>0, FireFields DEF Almost
<1> HIDE DEF E
<1>2. OnlyAt(D.running, E.running, n) /\ OnlyAt(D.last, E.last, n)
  BY <1>1, SameOnly DEF Almost
<1>3. Shape(E) /\ LookInv(E) /\ DataInv(E)
  BY <1>0, <1>1, <1>2, QueueStep DEF Almost
<1>4. ASSUME NEW m \in Node \ {n}
      PROVE  Ordered(E, m, c) /\ Sentinel(E, m) /\ Pending(E, m) = Pending(D, m)
  <2>1. m \in E.hooks <=> m \in D.hooks
    BY <1>1
  <2> QED BY <1>1, <1>2, <2>1, OthersWait DEF Almost
<1>5. Ordered(E, n, c)
  BY <1>0, <1>1 DEF Almost, Ordered
<1>6. Sentinel(E, n) /\ (n \notin E.upset => Pending(E, n) = {})
  BY <1>1 DEF Almost, Sentinel, Pending
<1>7. Counted(E, c)
  <2>1. Counted(D, c)
    BY DEF Almost
  <2>2. /\ D.due \subseteq 1..c /\ D.waits \subseteq D.asked /\ D.asked \subseteq Node
    BY <2>1 DEF Counted
  <2> SUFFICES ASSUME E.asked \cap E.upset = {}
               PROVE  /\ E.waits \subseteq E.hooks
                      /\ E.count = Cardinality(E.waits)
                      /\ \A m \in E.asked \ E.waits : Pending(E, m) \cap E.due = {}
    BY <1>1, <2>2 DEF Counted
  <2>3. /\ D.waits \subseteq D.hooks /\ D.count = Cardinality(D.waits)
        /\ \A m \in D.asked \ D.waits : Pending(D, m) \cap D.due = {}
    BY <1>1, <2>1 DEF Counted
  <2>4. E.waits \subseteq E.hooks
    BY <1>1, <2>3
  <2>5. E.count = Cardinality(E.waits)
    BY <1>1, <2>2, <2>3, OneLess
  <2>6. ASSUME NEW m \in E.asked \ E.waits PROVE Pending(E, m) \cap E.due = {}
    <3>1. CASE m = n
      BY <1>1, <1>6, <3>1
    <3>2. CASE m # n
      BY <1>1, <1>4, <2>2, <2>3, <3>2
    <3> QED BY <3>1, <3>2
  <2> QED BY <2>4, <2>5, <2>6
<1>8. DomInv(E, c)
  BY <1>3, <1>4, <1>5, <1>6, <1>7 DEF DomInv, QueueInv
<1>9. Promised(D, E)
  BY <1>1, <1>2, QueuePromises
<1> QED BY <1>8, <1>9 DEF E

LEMMA DequeueKeeps ==
  ASSUME NEW D, NEW c \in Nat, NEW n \in D.made, Almost(D, n, c)
  PROVE  DomInv(Dequeue(D, n), c) /\ Promised(D, Dequeue(D, n))
<1> DEFINE q == First(D.queue[n])
           f == Head(q)
           r == <<0>> \o Tail(q)
           E == Dequeue(D, n)
<1>0. /\ n \in Node /\ DOMAIN D = Fields /\ DOMAIN D.queue = Node
      /\ DOMAIN D.running = Node /\ DOMAIN D.last = Node
  BY DEF Almost, Shape, PerNode
<1>1. CASE q = <<>>
  <2>1. E = FireEmpty(D, n)
    BY <1>1 DEF Dequeue
  <2> QED BY <2>1, FireKeeps
<1>2. CASE q # <<>>
  <2>1. E = [D EXCEPT !.queue[n] = r, !.hooks = @ \cup {n},
                      !.running[n] = @ \cup {f}, !.last[n] = f]
    BY <1>2 DEF Dequeue, Progress
  <2>2. /\ Growing(D.queue[n], D.last[n], c) /\ D.last[n] \in Nat
        /\ D.running[n] \subseteq 1..c /\ D.queue[n] \in Seq(Nat)
    BY <1>0, OrderedGrows DEF Almost, Growing
  <2>3. /\ f \in Nat /\ D.last[n] < f /\ f <= c
        /\ \E j \in 1..Len(D.queue[n]) : D.queue[n][j] = f
        /\ Growing(r, f, c) /\ r # <<>> /\ r[1] = 0
        /\ \A i \in 1..Len(r) : r[i] = 0 \/ \E j \in 1..Len(D.queue[n]) : D.queue[n][j] = r[i]
    BY <1>2, <2>2, NextInOrder
  <2>4. n \notin D.clean
    <3>1. D.queue[n] # <<>>
      BY <1>2 DEF First
    <3> QED BY <3>1 DEF Almost, DataInv, Blank
  <2> HIDE DEF E, r, f, q
  <2>5. /\ DOMAIN E = Fields /\ SameBut(D, E, QueueFields)
        /\ E.queue = [D.queue EXCEPT ![n] = r] /\ E.hooks = D.hooks \cup {n}
        /\ E.running = [D.running EXCEPT ![n] = @ \cup {f}]
        /\ E.last = [D.last EXCEPT ![n] = f]
        /\ E.waits = D.waits /\ E.count = D.count /\ E.asked = D.asked /\ E.due = D.due
        /\ E.clean = D.clean /\ E.upset = D.upset
    BY <1>0, <2>1 DEF SameBut, Fields, QueueFields
  <2>6. /\ OnlyAt(D.queue, E.queue, n) /\ OnlyAt(D.running, E.running, n)
        /\ OnlyAt(D.last, E.last, n)
        /\ E.queue[n] = r /\ E.running[n] = D.running[n] \cup {f} /\ E.last[n] = f
    BY <1>0, <2>5 DEF OnlyAt
  <2>7. Shape(E) /\ LookInv(E) /\ DataInv(E)
    BY <2>4, <2>5, <2>6, QueueStep DEF Almost
  <2>8. ASSUME NEW m \in Node \ {n}
        PROVE  Ordered(E, m, c) /\ Sentinel(E, m) /\ Pending(E, m) = Pending(D, m)
    <3>1. m \in E.hooks <=> m \in D.hooks
      BY <2>5
    <3> QED BY <2>5, <2>6, <3>1, OthersWait DEF Almost
  <2>9. Ordered(E, n, c)
    <3>1. f \in 1..c
      BY <2>2, <2>3
    <3> QED BY <2>2, <2>3, <2>6, <3>1, OrderedGrows
  <2>10. Sentinel(E, n)
    <3> SUFFICES ASSUME n \notin E.upset
                 PROVE  E.running[n] = {f} /\ E.queue[n] # <<>> /\ E.queue[n][1] = 0
                        /\ n \in E.hooks
      BY DEF Sentinel
    <3> QED BY <2>3, <2>5, <2>6 DEF Almost
  <2>11. Pending(E, n) \subseteq Pending(D, n)
    <3>0. DOMAIN D.queue[n] = 1..Len(D.queue[n]) /\ DOMAIN r = 1..Len(r)
      BY <2>2, <2>3 DEF Growing
    <3>1. f \in Pending(D, n)
      BY <2>2, <2>3, <3>0 DEF Pending, Progress
    <3>2. \A i \in DOMAIN r : r[i] = 0 \/ r[i] \in Pending(D, n)
      BY <2>3, <3>0 DEF Pending, Progress
    <3> QED BY <2>6, <3>1, <3>2 DEF Pending, Progress
  <2>12. Counted(E, c)
    <3>1. \A m \in Node : Pending(E, m) \subseteq Pending(D, m)
      BY <2>8, <2>11
    <3> QED BY <2>5, <3>1 DEF Almost, Counted
  <2>13. DomInv(E, c)
    BY <2>7, <2>8, <2>9, <2>10, <2>12 DEF DomInv, QueueInv
  <2>14. Promised(D, E)
    BY <2>2, <2>3, <2>5, <2>6, QueuePromises
  <2> QED BY <2>13, <2>14 DEF E
<1> QED BY <1>1, <1>2

\* A promise made from what was prepared is one made from the start.
LEMMA PromisedFrom ==
  ASSUME NEW D, NEW P, NEW E, Promised(P, E), P.answer = D.answer, P.asWas = D.asWas,
         P.looks = D.looks, P.away = D.away, P.last = D.last
  PROVE  Promised(D, E)
BY DEF Promised

LEMMA ClearQueueKeeps ==
  ASSUME NEW D, NEW c, NEW n \in D.made, DomInv(D, c)
  PROVE  DomInv(ClearQueue(D, n), c) /\ Promised(D, ClearQueue(D, n))
<1> DEFINE F == FireEmpty(D, n)
           E == ClearQueue(D, n)
<1>0. n \in Node /\ Shape(D) /\ LookInv(D) /\ DataInv(D)
  BY DEF DomInv, Shape
<1>1. /\ DOMAIN F = Fields /\ SameBut(D, F, QueueFields)
      /\ F.queue[n] = <<>> /\ OnlyAt(D.queue, F.queue, n)
      /\ F.running = D.running /\ F.last = D.last
      /\ F.hooks = D.hooks \ {n} /\ F.waits = D.waits \ {n}
      /\ F.count = D.count - (IF n \in D.waits THEN 1 ELSE 0)
      /\ F.clean = D.clean /\ F.upset = D.upset /\ F.asked = D.asked /\ F.due = D.due
  BY <1>0, FireFields
<1>2. E = [F EXCEPT !.upset = @ \cup {n}]
  BY DEF ClearQueue
<1> HIDE DEF E, F
<1>3. /\ DOMAIN E = Fields /\ SameBut(F, E, {"upset"})
      /\ E.queue = F.queue /\ E.running = F.running /\ E.last = F.last
      /\ E.hooks = F.hooks /\ E.waits = F.waits /\ E.count = F.count
      /\ E.clean = F.clean /\ E.upset = F.upset \cup {n} /\ E.asked = F.asked
      /\ E.due = F.due
  BY <1>1, <1>2 DEF SameBut, Fields
<1>4. SameBut(D, E, QueueFields)
  BY <1>1, <1>3 DEF SameBut, QueueFields
<1>5. /\ OnlyAt(D.queue, E.queue, n) /\ OnlyAt(D.running, E.running, n)
      /\ OnlyAt(D.last, E.last, n)
  BY <1>0, <1>1, <1>3, SameOnly
<1>6. Shape(E) /\ LookInv(E) /\ DataInv(E)
  BY <1>0, <1>1, <1>3, <1>4, <1>5, QueueStep
<1>7. ASSUME NEW m \in Node \ {n}
      PROVE  Ordered(E, m, c) /\ Sentinel(E, m) /\ Pending(E, m) = Pending(D, m)
  <2>1. (m \in E.hooks <=> m \in D.hooks) /\ D.upset \subseteq E.upset
    BY <1>1, <1>3
  <2>2. Ordered(D, m, c) /\ Sentinel(D, m)
    BY DEF DomInv, QueueInv
  <2> QED BY <1>5, <2>1, <2>2, OthersWait
<1>8. Ordered(E, n, c) /\ Sentinel(E, n)
  <2>1. Ordered(D, n, c)
    BY <1>0 DEF DomInv, QueueInv
  <2>2. /\ E.queue[n] = <<>> /\ E.last[n] = D.last[n] /\ E.running[n] = D.running[n]
        /\ n \in E.upset
    BY <1>1, <1>3
  <2> QED BY <2>1, <2>2 DEF Ordered, Sentinel
<1>9. Counted(E, c)
  <2>1. Counted(D, c)
    BY DEF DomInv, QueueInv
  <2>2. D.due \subseteq 1..c /\ D.waits \subseteq D.asked /\ D.asked \subseteq Node
    BY <2>1 DEF Counted
  <2> SUFFICES ASSUME E.asked \cap E.upset = {}
               PROVE  /\ E.waits \subseteq E.hooks
                      /\ E.count = Cardinality(E.waits)
                      /\ \A m \in E.asked \ E.waits : Pending(E, m) \cap E.due = {}
    BY <1>1, <1>3, <2>2 DEF Counted
  <2>3. D.asked \cap D.upset = {} /\ n \notin D.asked
    BY <1>1, <1>3
  <2>4. /\ D.waits \subseteq D.hooks /\ D.count = Cardinality(D.waits)
        /\ \A m \in D.asked \ D.waits : Pending(D, m) \cap D.due = {}
    BY <2>1, <2>3 DEF Counted
  <2>5. E.waits = D.waits /\ E.waits \subseteq E.hooks
    BY <1>1, <1>3, <2>2, <2>3, <2>4
  <2>6. E.count = Cardinality(E.waits)
    BY <1>1, <1>3, <2>2, <2>4, OneLess
  <2>7. \A m \in E.asked \ E.waits : Pending(E, m) \cap E.due = {}
    BY <1>1, <1>3, <1>7, <2>2, <2>3, <2>4, <2>5
  <2> QED BY <2>5, <2>6, <2>7
<1>10. DomInv(E, c)
  BY <1>6, <1>7, <1>8, <1>9 DEF DomInv, QueueInv
<1>11. Promised(D, E)
  BY <1>1, <1>3, <1>4, <1>5, QueuePromises
<1> QED BY <1>10, <1>11 DEF E

\* The page dequeues by hand.
LEMMA ByHandKeeps ==
  ASSUME NEW D, NEW c \in Nat, NEW n \in D.made, DomInv(D, c)
  PROVE  /\ DomInv(Dequeue([D EXCEPT !.upset = @ \cup {n}], n), c)
         /\ Promised(D, Dequeue([D EXCEPT !.upset = @ \cup {n}], n))
<1> DEFINE P == [D EXCEPT !.upset = @ \cup {n}]
<1>0. n \in Node /\ Shape(D) /\ LookInv(D) /\ DataInv(D) /\ DOMAIN D = Fields
  BY DEF DomInv, Shape
<1>1. /\ DOMAIN P = Fields /\ SameBut(D, P, {"upset"})
      /\ P.upset = D.upset \cup {n} /\ P.queue = D.queue /\ P.running = D.running
      /\ P.last = D.last /\ P.hooks = D.hooks /\ P.waits = D.waits /\ P.count = D.count
      /\ P.asked = D.asked /\ P.due = D.due /\ P.clean = D.clean /\ P.made = D.made
      /\ P.answer = D.answer /\ P.looks = D.looks /\ P.away = D.away /\ P.asWas = D.asWas
  BY <1>0 DEF SameBut, Fields
<1> HIDE DEF P
<1>2. Shape(P) /\ LookInv(P) /\ DataInv(P)
  <2>1. SameBut(D, P, QueueFields)
    BY <1>1 DEF SameBut, QueueFields
  <2>2. /\ OnlyAt(D.queue, P.queue, n) /\ OnlyAt(D.running, P.running, n)
        /\ OnlyAt(D.last, P.last, n)
    BY <1>0, <1>1, SameOnly
  <2>3. n \in P.clean => P.queue[n] = <<>> /\ n \notin P.hooks
    BY <1>0, <1>1 DEF DataInv, Blank
  <2> QED BY <1>0, <1>1, <2>1, <2>2, <2>3, QueueStep
<1>3. Almost(P, n, c)
  <2>1. \A m \in Node : Ordered(P, m, c) /\ Sentinel(P, m)
    BY <1>1 DEF DomInv, QueueInv, Ordered, Sentinel
  <2>2. Counted(P, c)
    BY <1>1 DEF DomInv, QueueInv, Counted, Pending
  <2> QED BY <1>1, <1>2, <2>1, <2>2 DEF Almost
<1>4. DomInv(Dequeue(P, n), c) /\ Promised(P, Dequeue(P, n))
  BY <1>1, <1>3, DequeueKeeps
<1>5. Promised(D, Dequeue(P, n))
  BY <1>1, <1>4, PromisedFrom
<1> QED BY <1>4, <1>5 DEF P

\* A function of the queue calls next().
LEMMA RunNextKeeps ==
  ASSUME NEW D, NEW c \in Nat, NEW n \in D.made, NEW f \in D.running[n], DomInv(D, c)
  PROVE  /\ DomInv(Dequeue([D EXCEPT !.running[n] = @ \ {f}], n), c)
         /\ Promised(D, Dequeue([D EXCEPT !.running[n] = @ \ {f}], n))
<1> DEFINE P == [D EXCEPT !.running[n] = @ \ {f}]
<1>0. n \in Node /\ Shape(D) /\ LookInv(D) /\ DataInv(D) /\ DOMAIN D = Fields
      /\ DOMAIN D.running = Node
  BY DEF DomInv, Shape, PerNode
<1>1. /\ DOMAIN P = Fields /\ SameBut(D, P, {"running"})
      /\ P.running = [D.running EXCEPT ![n] = @ \ {f}]
      /\ P.upset = D.upset /\ P.queue = D.queue
      /\ P.last = D.last /\ P.hooks = D.hooks /\ P.waits = D.waits /\ P.count = D.count
      /\ P.asked = D.asked /\ P.due = D.due /\ P.clean = D.clean /\ P.made = D.made
      /\ P.answer = D.answer /\ P.looks = D.looks /\ P.away = D.away /\ P.asWas = D.asWas
  BY <1>0 DEF SameBut, Fields
<1> HIDE DEF P
<1>2. /\ OnlyAt(D.queue, P.queue, n) /\ OnlyAt(D.running, P.running, n)
      /\ OnlyAt(D.last, P.last, n) /\ P.running[n] = D.running[n] \ {f}
  <2>1. OnlyAt(D.running, P.running, n) /\ P.running[n] = D.running[n] \ {f}
    BY <1>0, <1>1 DEF OnlyAt
  <2> QED BY <1>0, <1>1, <2>1, SameOnly
<1>3. Shape(P) /\ LookInv(P) /\ DataInv(P)
  <2>1. SameBut(D, P, QueueFields)
    BY <1>1 DEF SameBut, QueueFields
  <2>2. n \in P.clean => P.queue[n] = <<>> /\ n \notin P.hooks
    BY <1>0, <1>1 DEF DataInv, Blank
  <2> QED BY <1>0, <1>1, <1>2, <2>1, <2>2, QueueStep
<1>4. Almost(P, n, c)
  <2>1. ASSUME NEW m \in Node \ {n}
        PROVE  Ordered(P, m, c) /\ Sentinel(P, m) /\ Pending(P, m) = Pending(D, m)
    <3>1. Ordered(D, m, c) /\ Sentinel(D, m)
      BY DEF DomInv, QueueInv
    <3>2. (m \in P.hooks <=> m \in D.hooks) /\ D.upset \subseteq P.upset
      BY <1>1
    <3> QED BY <1>2, <3>1, <3>2, OthersWait
  <2>2. Ordered(P, n, c) /\ Pending(P, n) \subseteq Pending(D, n)
    BY <1>0, <1>1, <1>2 DEF DomInv, QueueInv, Ordered, Pending
  <2>3. n \notin P.upset => P.running[n] = {}
    BY <1>0, <1>1, <1>2 DEF DomInv, QueueInv, Sentinel
  <2>4. Counted(P, c)
    <3>1. \A m \in Node : Pending(P, m) \subseteq Pending(D, m)
      BY <2>1, <2>2
    <3> QED BY <1>1, <3>1 DEF DomInv, QueueInv, Counted
  <2>5. \A m \in Node : Ordered(P, m, c)
    BY <2>1, <2>2
  <2> QED BY <1>3, <2>1, <2>3, <2>4, <2>5 DEF Almost
<1>5. DomInv(Dequeue(P, n), c) /\ Promised(P, Dequeue(P, n))
  BY <1>1, <1>4, DequeueKeeps
<1>6. Promised(D, Dequeue(P, n))
  BY <1>1, <1>5, PromisedFrom
<1> QED BY <1>5, <1>6 DEF P

\* A function is queued, and starts when nothing is in progress.
LEMMA QueueKeeps ==
  ASSUME NEW D, NEW c \in Nat, NEW n \in D.made, DomInv(D, c)
  PROVE  LET E == Queue(D, n, c + 1)
         IN IF Head(E.queue[n]) = Progress THEN DomInv(E, c + 1) /\ Promised(D, E)
            ELSE DomInv(Dequeue(E, n), c + 1) /\ Promised(D, Dequeue(E, n))
<1> DEFINE E == Queue(D, n, c + 1)
           q == D.queue[n]
           r == Append(q, c + 1)
<1>0. n \in Node /\ Shape(D) /\ LookInv(D) /\ DataInv(D) /\ DOMAIN D = Fields
      /\ DOMAIN D.queue = Node
  BY DEF DomInv, Shape, PerNode
<1>1. Ordered(D, n, c) /\ Sentinel(D, n)
  BY <1>0 DEF DomInv, QueueInv
<1>2. /\ Growing(q, D.last[n], c) /\ D.last[n] \in Nat /\ D.last[n] <= c
      /\ D.running[n] \subseteq 1..c /\ q \in Seq(Nat)
  BY <1>1, OrderedGrows DEF Growing
<1>3. /\ Growing(r, D.last[n], c + 1) /\ r # <<>>
      /\ Head(r) = (IF q = <<>> THEN c + 1 ELSE q[1]) /\ r[1] = Head(r)
      /\ \A i \in 1..Len(r) : r[i] = c + 1 \/ \E j \in 1..Len(q) : q[j] = r[i]
  <2> HIDE DEF q
  <2>1. Growing(q, D.last[n], c) /\ D.last[n] \in Nat /\ D.last[n] <= c
    BY <1>2
  <2> QED BY ONLY <2>1, LastInOrder, c \in Nat, SMTT(60)
<1>4. /\ DOMAIN E = Fields /\ SameBut(D, E, QueueFields)
      /\ E.queue = [D.queue EXCEPT ![n] = Append(@, c + 1)]
      /\ E.hooks = D.hooks \cup {n} /\ E.clean = D.clean \ {n}
      /\ E.running = D.running /\ E.upset = D.upset
      /\ E.last = D.last /\ E.waits = D.waits /\ E.count = D.count
      /\ E.asked = D.asked /\ E.due = D.due /\ E.made = D.made
      /\ E.answer = D.answer /\ E.looks = D.looks /\ E.away = D.away /\ E.asWas = D.asWas
  BY <1>0 DEF Queue, SameBut, Fields, QueueFields
<1>5. E.queue[n] = r /\ OnlyAt(D.queue, E.queue, n)
  BY <1>0, <1>4 DEF OnlyAt
<1> HIDE DEF E, r, q
<1>6. OnlyAt(D.running, E.running, n) /\ OnlyAt(D.last, E.last, n)
  BY <1>0, <1>4, SameOnly
<1>7. Shape(E) /\ LookInv(E) /\ DataInv(E)
  BY <1>0, <1>4, <1>5, <1>6, QueueStep
<1>8. DomInv(D, c + 1)
  BY MoreCalls
<1>9. ASSUME NEW m \in Node \ {n}
      PROVE  Ordered(E, m, c + 1) /\ Sentinel(E, m) /\ Pending(E, m) = Pending(D, m)
  <2>1. Ordered(D, m, c + 1) /\ Sentinel(D, m)
    BY <1>8 DEF DomInv, QueueInv
  <2>2. (m \in E.hooks <=> m \in D.hooks) /\ D.upset \subseteq E.upset
    BY <1>4
  <2> QED BY <1>4, <1>5, <1>6, <2>1, <2>2, OthersWait
<1>10. Ordered(E, n, c + 1)
  <2>1. D.running[n] \subseteq 1..(c + 1) /\ D.last[n] <= c + 1 /\ c + 1 \in Nat
    BY <1>2
  <2> QED BY <1>2, <1>3, <1>4, <1>5, <2>1, OrderedGrows
<1>11. Pending(E, n) \subseteq Pending(D, n) \cup {c + 1}
  <2>1. DOMAIN q = 1..Len(q) /\ DOMAIN r = 1..Len(r)
    BY <1>2, <1>3 DEF Growing
  <2>2. \A i \in DOMAIN r : r[i] = c + 1 \/ r[i] = 0 \/ r[i] \in Pending(D, n)
    BY <1>3, <2>1 DEF Pending, Progress, q
  <2>3. D.running[n] \subseteq Pending(D, n)
    BY DEF Pending
  <2> QED BY <1>4, <1>5, <2>2, <2>3 DEF Pending, Progress
<1>12. Counted(E, c + 1)
  <2>1. Counted(D, c) /\ Counted(D, c + 1)
    BY <1>8 DEF DomInv, QueueInv
  <2>2. D.due \subseteq 1..c /\ c + 1 \notin 1..c
    BY <2>1 DEF Counted
  <2>3. \A m \in Node : Pending(E, m) \cap D.due \subseteq Pending(D, m) \cap D.due
    BY <1>9, <1>11, <2>2
  <2> QED BY <1>4, <2>1, <2>3 DEF Counted
<1>13. Promised(D, E)
  BY <1>4, <1>6, QueuePromises
<1>14. CASE Head(r) = Progress
  <2>1. q # <<>> /\ q[1] = 0
    BY <1>3, <1>14 DEF Progress
  <2>2. Sentinel(E, n)
    BY <1>1, <1>3, <1>4, <1>5, <1>14, <2>1, SMTT(40) DEF Sentinel, Progress, q
  <2>3. DomInv(E, c + 1)
    BY <1>7, <1>9, <1>10, <1>12, <2>2 DEF DomInv, QueueInv
  <2> QED BY <1>5, <1>13, <1>14, <2>3 DEF E
<1>15. CASE Head(r) # Progress
  <2>1. n \notin E.upset => E.running[n] = {}
    <3>1. q = <<>> \/ q[1] # 0
      BY <1>3, <1>15 DEF Progress
    <3> QED BY <1>1, <1>4, <3>1 DEF Sentinel, q
  <2>2. Almost(E, n, c + 1)
    <3>1. \A m \in Node : Ordered(E, m, c + 1)
      BY <1>9, <1>10
    <3> QED BY <1>7, <1>9, <1>12, <2>1, <3>1 DEF Almost
  <2>3. DomInv(Dequeue(E, n), c + 1) /\ Promised(E, Dequeue(E, n))
    <3>1. c + 1 \in Nat /\ n \in E.made
      BY <1>4
    <3> QED BY <2>2, <3>1, DequeueKeeps
  <2>4. Promised(D, Dequeue(E, n))
    BY <1>4, <2>3, PromisedFrom
  <2> QED BY <1>5, <1>15, <2>3, <2>4 DEF E
<1> QED BY <1>14, <1>15

LEMMA PromiseKeeps ==
  ASSUME NEW D, NEW c \in Nat, NEW S \in SUBSET Node, DomInv(D, c)
  PROVE  DomInv(Promise(D, S), c) /\ Promised(D, Promise(D, S))
<1> DEFINE E == Promise(D, S)
           k == Cardinality(S \cap D.hooks)
           due == UNION {Pending(D, n) : n \in S}
<1>0. Shape(D) /\ LookInv(D) /\ DataInv(D) /\ DOMAIN D = Fields
  BY DEF DomInv, Shape
<1>1. E = [D EXCEPT !.waits = S \cap D.hooks, !.count = k, !.asked = S, !.due = due]
  BY DEF Promise
<1>2. due \subseteq 1..c
  <2> SUFFICES ASSUME NEW n \in S PROVE Pending(D, n) \subseteq 1..c
    OBVIOUS
  <2>1. Ordered(D, n, c)
    BY DEF DomInv, QueueInv
  <2>2. /\ D.queue[n] \in Seq(Nat) /\ D.running[n] \subseteq 1..c /\ D.last[n] \in Nat
        /\ \A i \in 1..Len(D.queue[n]) :
             D.queue[n][i] = 0 \/ (D.last[n] < D.queue[n][i] /\ D.queue[n][i] <= c)
    BY <2>1 DEF Ordered
  <2>3. \A i \in DOMAIN D.queue[n] : D.queue[n][i] # 0 => D.queue[n][i] \in 1..c
    BY <2>2
  <2> QED BY <2>2, <2>3 DEF Pending, Progress
<1> HIDE DEF E, k
<1>3. ASSUME NEW n \in S, n \notin D.upset, n \notin D.hooks PROVE Pending(D, n) = {}
  <2>1. Sentinel(D, n)
    BY DEF DomInv, QueueInv
  <2>2. D.running[n] = {} /\ D.queue[n] = <<>>
    BY <1>3, <2>1 DEF Sentinel
  <2> QED BY <2>2 DEF Pending
<1> HIDE DEF due
<1>4. /\ DOMAIN E = Fields /\ SameBut(D, E, {"waits", "count", "asked", "due"})
      /\ E.queue = D.queue /\ E.hooks = D.hooks /\ E.running = D.running
      /\ E.upset = D.upset /\ E.last = D.last /\ E.clean = D.clean /\ E.made = D.made
      /\ E.waits = S \cap D.hooks /\ E.count = k /\ E.asked = S /\ E.due = due
      /\ E.answer = D.answer /\ E.looks = D.looks /\ E.away = D.away
      /\ E.origin = D.origin /\ E.events = D.events /\ E.bound = D.bound
      /\ E.user = D.user /\ E.style = D.style /\ E.asWas = D.asWas
      /\ E.display = D.display /\ E.class = D.class /\ E.kept = D.kept
  BY <1>0, <1>1 DEF SameBut, Fields
<1>5. \A n \in Node : SameAt(D, E, n)
  BY <1>4 DEF SameAt
<1>6. Shape(E)
  <2>1. \A x \in PerNode : x \in Fields \ {"waits", "count", "asked", "due"}
    BY DEF PerNode, Fields
  <2>2. \A x \in PerNode : E[x] = D[x]
    BY <1>4, <2>1 DEF SameBut
  <2> QED BY <1>0, <1>4, <2>2 DEF Shape
<1>7. LookInv(E) /\ (\A n \in Node : Ordered(E, n, c) /\ Sentinel(E, n))
  BY <1>5, SameAtKeeps DEF DomInv, LookInv, QueueInv
<1>8. DataInv(E)
  BY <1>0, <1>4 DEF DataInv, Blank
<1>9. Counted(E, c)
  <2>1. \A n \in Node : Pending(E, n) = Pending(D, n)
    BY <1>5, SameAtKeeps
  <2>2. S \cap D.upset = {} => \A n \in S \ D.hooks : Pending(D, n) = {}
    BY <1>3
  <2> QED BY <1>2, <1>4, <2>1, <2>2 DEF Counted, k
<1>10. DomInv(E, c)
  BY <1>6, <1>7, <1>8, <1>9 DEF DomInv, QueueInv
<1>11. Promised(D, E)
  BY <1>4, DataPromises
<1> QED BY <1>10, <1>11 DEF E

-----------------------------------------------------------------------------
(* The page *)

Inv == calls \in Nat /\ page \in Page /\ DomInv(dom, calls)

\* What a step has to show.
Good == Inv' /\ Promised(dom, dom')

LEMMA InitInv ==
  ASSUME Init PROVE Inv
<1> DEFINE D == Fresh(page)
<1>1. dom = D /\ calls = 0 /\ page \in Page
  BY DEF Init
<1>2. Shape(D)
  <2>1. DOMAIN D = Fields
    BY DEF Fresh, Fields
  <2>2. \A x \in PerNode : DOMAIN D[x] = Node
    <3>1. /\ DOMAIN D.origin = Node /\ DOMAIN D.attr = Node /\ DOMAIN D.events = Node
          /\ DOMAIN D.user = Node /\ DOMAIN D.style = Node /\ DOMAIN D.display = Node
          /\ DOMAIN D.class = Node /\ DOMAIN D.kept = Node /\ DOMAIN D.queue = Node
          /\ DOMAIN D.running = Node /\ DOMAIN D.last = Node /\ DOMAIN D.answer = Node
          /\ DOMAIN D.looks = Node /\ DOMAIN D.asWas = Node /\ DOMAIN D.away = Node
      BY DEF Fresh
    <3> HIDE DEF D
    <3> QED BY <3>1 DEF PerNode
  <2>3. Node \ Spare \subseteq D.made /\ D.made \subseteq Node
    BY DEF Fresh, Node
  <2> QED BY <2>1, <2>2, <2>3 DEF Shape
<1>3. /\ D.clean = {} /\ D.upset = {} /\ D.asked = {} /\ D.due = {} /\ D.waits = {}
      /\ D.hooks = {} /\ D.count = 0
      /\ \A n \in Node : /\ D.looks[n] = None /\ D.asWas[n] = None /\ D.away[n] = None
                         /\ D.display[n] = None /\ D.style[n] = "" /\ D.class[n] = {"c"}
                         /\ D.kept[n] = None /\ D.answer[n] = None
                         /\ D.queue[n] = <<>> /\ D.last[n] = 0 /\ D.running[n] = {}
  BY DEF Fresh
<1> HIDE DEF D
<1>4. LookInv(D)
  <2>1. None # "shown" /\ None # "hidden"
    BY ElementsAssumption
  <2> QED BY <1>3, <2>1 DEF LookInv, LooksOf, Class
<1>5. DataInv(D)
  BY <1>3 DEF DataInv
<1>6. \A n \in Node : Ordered(D, n, 0) /\ Sentinel(D, n)
  <2>1. <<>> \in Seq(Nat) /\ Len(<<>>) = 0
    OBVIOUS
  <2> SUFFICES ASSUME NEW n \in Node PROVE Ordered(D, n, 0) /\ Sentinel(D, n)
    OBVIOUS
  <2>2. D.queue[n] = <<>> /\ D.last[n] = 0 /\ D.running[n] = {} /\ n \notin D.hooks
    BY <1>3
  <2> QED BY <2>1, <2>2 DEF Ordered, Sentinel
<1>7. Counted(D, 0)
  BY <1>3, FS_EmptySet DEF Counted
<1> QED BY <1>1, <1>2, <1>4, <1>5, <1>6, <1>7 DEF Inv, DomInv, QueueInv

LEMMA CalledIsGood ==
  ASSUME Inv, NEW use, Call(use), DomInv(dom', calls), Promised(dom, dom')
  PROVE  Good
<1>1. calls' = calls + 1 /\ page' = page
  BY DEF Call
<1>2. DomInv(dom', calls + 1)
  BY MoreCalls DEF Inv
<1> QED BY <1>1, <1>2 DEF Good, Inv

LEMMA CalledAndKept ==
  ASSUME Inv, NEW use, Call(use), Keeps(dom, dom', calls)
  PROVE  Good
BY CalledIsGood, KeepsPromises

LEMMA CalledElsewhere ==
  ASSUME Inv, NEW use, Call(use), UNCHANGED dom
  PROVE  Good
<1>1. DomInv(dom', calls) /\ Promised(dom, dom')
  BY DEF Inv, Promised
<1> QED BY <1>1, CalledIsGood

LEMMA Quiet ==
  ASSUME Inv, UNCHANGED <<page, calls>>, Keeps(dom, dom', calls)
  PROVE  Good
BY KeepsPromises DEF Good, Inv

LEMMA Still ==
  ASSUME Inv, UNCHANGED <<page, calls, dom>>
  PROVE  Good
BY DEF Good, Inv, Promised

LEMMA HeldAreMade ==
  ASSUME Inv PROVE MayHold \subseteq dom.made /\ MayHold \subseteq Node
<1>1. page.nodes \subseteq Node \ Spare
  BY DomAssumption DEF Inv
<1>2. Node \ Spare \subseteq dom.made /\ dom.made \subseteq Node
  BY DEF Inv, DomInv, Shape
<1> QED BY <1>1, <1>2 DEF MayHold

\* Events leave all promises alone.
LEMMA EventsAreGood ==
  ASSUME Inv, NEW n \in MayHold, NEW t,
         \/ \E selector, one \in BOOLEAN : CallOn(n, t, selector, one)
         \/ \E selector \in BOOLEAN : CallOff(n, t, selector)
         \/ CallTrigger(n, t) \/ CallTriggerHandler(n, t) \/ UserEvent(n, t)
         \/ CallOffAll(n)
  PROVE  Good
<1>0. n \in Node /\ DomInv(dom, calls)
  BY HeldAreMade DEF Inv
<1>1. ASSUME NEW selector, NEW one, CallOn(n, t, selector, one) PROVE Good
  <2>1. Keeps(dom, dom', calls)
    BY <1>0, <1>1, AddEventKeeps DEF CallOn
  <2> QED BY <1>1, <2>1, CalledAndKept DEF CallOn
<1>2. ASSUME NEW selector, CallOff(n, t, selector) PROVE Good
  <2>1. Keeps(dom, dom', calls)
    BY <1>0, <1>2, OffKeeps DEF CallOff
  <2> QED BY <1>2, <2>1, CalledAndKept DEF CallOff
<1>3. CASE CallTrigger(n, t)
  BY <1>3, CalledElsewhere DEF CallTrigger
<1>4. CASE CallTriggerHandler(n, t)
  BY <1>4, CalledElsewhere DEF CallTriggerHandler
<1>5. CASE UserEvent(n, t)
  <2>1. Call("events")
    BY <1>5 DEF UserEvent
  <2>2. UNCHANGED dom \/ \E p, q : dom' = [dom EXCEPT !.pointer = p, !.entered = q]
    BY <1>5 DEF UserEvent
  <2>3. ASSUME NEW p, NEW q, dom' = [dom EXCEPT !.pointer = p, !.entered = q] PROVE Good
    BY <1>0, <2>1, <2>3, PointerKeeps, CalledAndKept
  <2> QED BY <2>1, <2>2, <2>3, CalledElsewhere
<1>6. CASE CallOffAll(n)
  <2>1. Keeps(dom, dom', calls)
    BY <1>0, <1>6, OffAllKeeps DEF CallOffAll
  <2> QED BY <1>6, <2>1, CalledAndKept DEF CallOffAll
<1> QED BY <1>1, <1>2, <1>3, <1>4, <1>5, <1>6

LEMMA MovedToo ==
  ASSUME NEW D, NEW E, NEW c, Keeps(D, E, c)
  PROVE  Keeps(D, Moved(E), c)
BY MovedKeeps, KeepsTwice DEF Keeps

\* So do removals, moves and clones.
LEMMA TreesAreGood ==
  ASSUME Inv, NEW n \in MayHold,
         \/ CallRemove(n) \/ CallDetach(n) \/ CallEmpty(n)
         \/ \E m \in MayHold : CallHtml(n, m)
         \/ \E withData \in BOOLEAN : CallClone(n, withData)
  PROVE  Good
<1>0. DomInv(dom, calls)
  BY DEF Inv
<1>1. CASE CallRemove(n)
  <2>1. Keeps(dom, dom', calls)
    BY <1>0, <1>1, RemoveKeeps, MovedToo DEF CallRemove
  <2> QED BY <1>1, <2>1, CalledAndKept DEF CallRemove
<1>2. CASE CallDetach(n)
  <2>1. Keeps(dom, dom', calls)
    BY <1>0, <1>2, FragmentKeeps, MovedToo DEF CallDetach, Detach
  <2> QED BY <1>2, <2>1, CalledAndKept DEF CallDetach
<1>3. CASE CallEmpty(n)
  <2>1. Keeps(dom, dom', calls)
    BY <1>0, <1>3, EmptyKeeps, MovedToo DEF CallEmpty
  <2> QED BY <1>3, <2>1, CalledAndKept DEF CallEmpty
<1>4. ASSUME NEW m \in MayHold, CallHtml(n, m) PROVE Good
  <2> DEFINE E == Empty(dom, n)
             F == DomManip(E, "append", <<n>>, m)
  <2>1. Keeps(dom, E, calls)
    BY <1>0, EmptyKeeps
  <2>2. dom' = Moved(F)
    BY <1>4 DEF CallHtml
  <2> HIDE DEF E
  <2>3. Len(<<n>>) = 1 /\ "append" \in How
    BY DEF How
  <2>4. Keeps(E, F, calls)
    BY <2>1, <2>3, DomManipKeeps DEF Keeps
  <2> HIDE DEF F
  <2>5. Keeps(dom, dom', calls)
    BY <2>1, <2>2, <2>4, KeepsTwice, MovedToo
  <2> QED BY <1>4, <2>5, CalledAndKept DEF CallHtml
<1>5. ASSUME NEW withData, CallClone(n, withData) PROVE Good
  <2> DEFINE f == CopyOf(dom, n)
             G == GetAll(dom, n)
  <2>1. f \in [G -> Spare \ dom.made] /\ G \in SUBSET dom.made
    BY <1>0, <1>5, CopyExists, GetAllMade DEF CallClone, Copies, DomInv, Shape
  <2>2. dom' = Clone(dom, n, withData, f)
    BY <1>5 DEF CallClone
  <2> HIDE DEF f, G
  <2>3. Keeps(dom, dom', calls)
    BY <1>0, <2>1, <2>2, CloneKeeps
  <2> QED BY <1>5, <2>3, CalledAndKept DEF CallClone
<1> QED BY <1>1, <1>2, <1>3, <1>4, <1>5

LEMMA InsertIsGood ==
  ASSUME Inv, NEW how \in How, NEW targets \in Targets, NEW n \in MayHold,
         CallInsert(how, targets, n)
  PROVE  Good
<1>0. DomInv(dom, calls) /\ Call("moves")
  BY DEF Inv, CallInsert
<1>1. CASE \E i \in DOMAIN targets : targets[i] = n
  <2>1. dom' = Moved(Ignored(dom, how, targets, n))
    BY <1>1 DEF CallInsert
  <2>2. Keeps(dom, dom', calls)
    BY <1>0, <2>1, IgnoredKeeps, MovedToo
  <2> QED BY <1>0, <2>2, CalledAndKept
<1>2. CASE ~ \E i \in DOMAIN targets : targets[i] = n
  <2>1. /\ dom' = Moved(DomManip(dom, how, targets, n))
        /\ Len(targets) = 2 => CanCopy(dom, n)
    BY <1>2 DEF CallInsert
  <2>2. Len(targets) \in {1, 2}
    BY DEF Targets
  <2>3. Keeps(dom, DomManip(dom, how, targets, n), calls)
    BY <1>0, <2>1, <2>2, DomManipKeeps
  <2>4. Keeps(dom, dom', calls)
    BY <2>1, <2>3, MovedToo
  <2> QED BY <1>0, <2>4, CalledAndKept
<1> QED BY <1>1, <1>2

\* Data, looks and classes.
LEMMA NodesAreGood ==
  ASSUME Inv, NEW n \in MayHold,
         CallData(n) \/ CallLooks(n) \/ \E k \in Class : CallClasses(n, k)
  PROVE  Good
<1>0. DomInv(dom, calls) /\ n \in dom.made
  BY HeldAreMade DEF Inv
<1>1. CASE CallData(n)
  <2>1. /\ Call("data")
        /\ \/ dom' = SetData(dom, n, 2) \/ dom' = RemoveData(dom, n)
           \/ dom' = SetAttr(dom, n, 2) \/ dom' = Read(dom, n) \/ dom' = ReadAll(dom, n)
    BY <1>1 DEF CallData
  <2>2. DomInv(dom', calls) /\ Promised(dom, dom')
    BY <1>0, <2>1, SetDataKeeps, RemoveDataKeeps, SetAttrKeeps, ReadKeeps, ReadAllKeeps
  <2> QED BY <2>1, <2>2, CalledIsGood
<1>2. CASE CallLooks(n)
  <2>1. /\ Call("looks")
        /\ \/ dom' = Show(dom, n) \/ dom' = Hide(dom, n) \/ dom' = Toggle(dom, n)
           \/ \E v \in Display : dom' = SetStyle(dom, n, v)
    BY <1>2 DEF CallLooks
  <2>2. Toggle(dom, n) \in {Show(dom, n), Hide(dom, n)}
    BY DEF Toggle
  <2>3. DomInv(dom', calls) /\ Promised(dom, dom')
    BY <1>0, <2>1, <2>2, ShowKeeps, HideKeeps, SetStyleKeeps
  <2> QED BY <2>1, <2>3, CalledIsGood
<1>3. ASSUME NEW k \in Class, CallClasses(n, k) PROVE Good
  <2>1. /\ Call("classes")
        /\ \/ dom' = AddClass(dom, n, k) \/ dom' = RemoveClass(dom, n, k)
           \/ dom' = ToggleOne(dom, n, k) \/ dom' = Strip(dom, n) \/ dom' = ToggleAll(dom, n)
    BY <1>3 DEF CallClasses
  <2>2. DomInv(dom', calls) /\ Promised(dom, dom')
    BY <1>0, <2>1, AddClassKeeps, StripKeeps, ToggleAllKeeps
  <2> QED BY <2>1, <2>2, CalledIsGood
<1> QED BY <1>1, <1>2, <1>3

LEMMA QueuesAreGood ==
  ASSUME Inv,
         \/ \E n \in MayHold : \/ CallQueue(n) \/ CallClearQueue(n) \/ CallDequeue(n)
                               \/ RunNext(n)
         \/ \E S \in SUBSET MayHold : S # {} /\ CallPromise(S)
  PROVE  Good
<1>0. /\ DomInv(dom, calls) /\ calls \in Nat /\ page \in Page
      /\ MayHold \subseteq dom.made /\ MayHold \subseteq Node
  BY HeldAreMade DEF Inv
<1>1. ASSUME NEW n \in MayHold, CallQueue(n) PROVE Good
  <2> DEFINE E == Queue(dom, n, calls + 1)
  <2>1. /\ Call("queues")
        /\ dom' = IF Head(E.queue[n]) = Progress THEN E ELSE Dequeue(E, n)
    BY <1>1 DEF CallQueue, Dequeued
  <2>2. IF Head(E.queue[n]) = Progress THEN DomInv(E, calls + 1) /\ Promised(dom, E)
        ELSE DomInv(Dequeue(E, n), calls + 1) /\ Promised(dom, Dequeue(E, n))
    BY <1>0, QueueKeeps
  <2> HIDE DEF E
  <2>3. DomInv(dom', calls + 1) /\ Promised(dom, dom')
    BY <2>1, <2>2
  <2> QED BY <1>0, <2>1, <2>3 DEF Call, Good, Inv
<1>2. ASSUME NEW n \in MayHold, CallClearQueue(n) PROVE Good
  <2>1. DomInv(dom', calls) /\ Promised(dom, dom')
    BY <1>0, <1>2, ClearQueueKeeps DEF CallClearQueue
  <2> QED BY <1>2, <2>1, CalledIsGood DEF CallClearQueue
<1>3. ASSUME NEW n \in MayHold, CallDequeue(n) PROVE Good
  <2>1. DomInv(dom', calls) /\ Promised(dom, dom')
    BY <1>0, <1>3, ByHandKeeps DEF CallDequeue, Dequeued
  <2> QED BY <1>3, <2>1, CalledIsGood DEF CallDequeue
<1>4. ASSUME NEW n \in MayHold, RunNext(n) PROVE Good
  <2>1. /\ UNCHANGED <<page, calls>>
        /\ \E f \in dom.running[n] : dom' = Dequeue([dom EXCEPT !.running[n] = @ \ {f}], n)
    BY <1>4 DEF RunNext, Dequeued
  <2>2. DomInv(dom', calls) /\ Promised(dom, dom')
    BY <1>0, <2>1, RunNextKeeps
  <2> QED BY <1>0, <2>1, <2>2 DEF Good, Inv
<1>5. ASSUME NEW S \in SUBSET MayHold, CallPromise(S) PROVE Good
  <2>1. DomInv(dom', calls) /\ Promised(dom, dom')
    BY <1>0, <1>5, PromiseKeeps DEF CallPromise
  <2> QED BY <1>5, <2>1, CalledIsGood DEF CallPromise
<1> QED BY <1>1, <1>2, <1>3, <1>4, <1>5

LEMMA OneFirstKeeps ==
  ASSUME NEW D, NEW c, NEW q, DomInv(D, c)
  PROVE  Keeps(D, OneFirst(D, q), c)
<1>1. Keeps(D, D, c)
  BY DEF Keeps, Faithful
<1> QED BY <1>1, OffKeeps DEF OneFirst

\* The steps that nobody calls.
LEMMA RestIsGood ==
  ASSUME Inv,
         \/ \E answer \in {"go", "false", "stop"} : Return(answer)
         \/ Dispatch \/ CallHandler \/ EndDispatch \/ DefaultAction \/ EndEvent
         \/ Evaluate
  PROVE  Good
<1>0. DomInv(dom, calls)
  BY DEF Inv
<1>1. ASSUME NEW answer, Return(answer) PROVE Good
  BY <1>1, Still DEF Return
<1>2. CASE Dispatch
  BY <1>2, Still DEF Dispatch
<1>3. CASE CallHandler
  <2>1. /\ UNCHANGED <<page, calls>>
        /\ UNCHANGED dom \/ \E q, s : dom' = [OneFirst(dom, q) EXCEPT !.entered = s]
    BY <1>3 DEF CallHandler
  <2>2. ASSUME NEW q, NEW s, dom' = [OneFirst(dom, q) EXCEPT !.entered = s] PROVE Good
    <3>1. Keeps(dom, OneFirst(dom, q), calls)
      BY <1>0, OneFirstKeeps
    <3>2. Keeps(OneFirst(dom, q), dom', calls)
      BY <2>2, <3>1, EnteredKeeps DEF Keeps
    <3> QED BY <2>1, <3>1, <3>2, KeepsTwice, Quiet
  <2> QED BY <2>1, <2>2, Still
<1>4. CASE EndDispatch
  BY <1>4, Still DEF EndDispatch
<1>5. CASE DefaultAction
  BY <1>5, Still DEF DefaultAction
<1>6. CASE EndEvent
  BY <1>6, Still DEF EndEvent
<1>7. CASE Evaluate
  <2>1. /\ UNCHANGED <<page, calls>>
        /\ UNCHANGED dom \/ \E s : dom' = [dom EXCEPT !.ran = s]
    BY <1>7 DEF Evaluate
  <2>2. ASSUME NEW s, dom' = [dom EXCEPT !.ran = s] PROVE Good
    BY <1>0, <2>1, <2>2, RanKeeps, Quiet
  <2> QED BY <2>1, <2>2, Still
<1> QED BY <1>1, <1>2, <1>3, <1>4, <1>5, <1>6, <1>7

LEMMA StepIsGood ==
  ASSUME Inv, [Next]_vars PROVE Good
<1>1. CASE UNCHANGED vars
  BY <1>1, Still DEF vars
<1>2. CASE Next
  BY <1>2, EventsAreGood, TreesAreGood, InsertIsGood, NodesAreGood, QueuesAreGood, RestIsGood
     DEF Next, How
<1> QED BY <1>1, <1>2

\* All that is known of a page stays known: types of the lists of queues and of
\* classes, what hide() and toggleClass() remember, the sentinels of queues
\* (jquery-3.2.0.slim.js: cleanData, show and hide, toggleClass, queue).
THEOREM PageInvariant == Spec => []Inv
<1>1. Inv /\ [Next]_vars => Inv'
  BY StepIsGood DEF Good
<1> QED BY <1>1, InitInv, PTL DEF Spec

LEMMA LooksFollow ==
  ASSUME Inv PROVE LooksAsAsked
<1> SUFFICES ASSUME NEW n \in dom.made
             PROVE  /\ dom.looks[n] = "shown" => ~IsHidden(dom, n)
                    /\ dom.looks[n] = "hidden" => IsHidden(dom, n)
  BY DEF LooksAsAsked
<1>1. LooksOf(dom, n)
  BY DEF Inv, DomInv, LookInv, Shape
<1> QED BY <1>1 DEF LooksOf, IsHidden

\* What show() showed stays visible and what hide() hid stays hidden; show()
\* gives back the style that hide() found, and toggleClass() the classes that
\* it took away (showHide and toggleClass of jquery-3.2.0.slim.js).
THEOREM LooksComeBack == Spec => LooksReturn
<1>1. Inv /\ [Next]_vars => [Next /\ Inv' /\ Promised(dom, dom')]_vars
  BY StepIsGood DEF Good
<1>2. [Next /\ Inv' /\ Promised(dom, dom')]_vars =>
        /\ [\A n \in Node :
              dom.asWas[n] \notin {None, ""} /\ dom.looks[n] = "hidden"
                /\ dom'.looks[n] = "shown" => dom'.style[n] = dom.asWas[n]]_vars
        /\ [\A n \in Node : dom.away[n] # None /\ dom'.away[n] = None
                               /\ n \notin dom'.upset =>
              dom'.class[n] = dom.away[n]]_vars
  BY DEF Promised
<1>3. Inv => LooksAsAsked
  BY LooksFollow
<1> QED BY <1>1, <1>2, <1>3, PageInvariant, PTL
           DEF Spec, LooksReturn, ShowRestores, ClassesReturn

LEMMA DataGoes ==
  ASSUME Inv PROVE NothingKept
<1> SUFFICES ASSUME NEW n \in dom.clean
             PROVE  /\ dom.events[n] = NoEvents /\ \A t \in Kept : <<n, t>> \notin dom.bound
                    /\ dom.user[n] = None /\ dom.display[n] = None
                    /\ dom.kept[n] = None
                    /\ n \notin dom.hooks
  BY DEF NothingKept
<1>1. Blank(dom, n)
  BY DEF Inv, DomInv, DataInv
<1> QED BY <1>1 DEF Blank

\* What was removed keeps no handlers, data or queue until it is used again, and
\* data(key) gives the same answer until the page sets, removes or cleans the
\* data (cleanData, Data and dataAttr of jquery-3.2.0.slim.js).
THEOREM DataIsKept == Spec => DataKept
<1>1. Inv /\ [Next]_vars => [Next /\ Inv' /\ Promised(dom, dom')]_vars
  BY StepIsGood DEF Good
<1>2. [Next /\ Inv' /\ Promised(dom, dom')]_vars =>
        [\A n \in Node : None \notin {dom.answer[n], dom'.answer[n]} =>
           dom'.answer[n] = dom.answer[n]]_vars
  BY DEF Promised
<1>3. Inv => NothingKept
  BY DataGoes
<1> QED BY <1>1, <1>2, <1>3, PageInvariant, PTL DEF Spec, DataKept, DataStays

LEMMA OneRuns ==
  ASSUME Inv PROVE OneAtATime
<1> SUFFICES ASSUME NEW n \in Node, n \notin dom.upset
             PROVE  Cardinality(dom.running[n]) <= 1
  BY DEF OneAtATime
<1>1. dom.running[n] = {} \/ \E f \in dom.running[n] : dom.running[n] = {f}
  BY DEF Inv, DomInv, QueueInv, Sentinel
<1>2. CASE dom.running[n] = {}
  BY <1>2, FS_EmptySet
<1>3. ASSUME NEW f, dom.running[n] = {f} PROVE Cardinality(dom.running[n]) <= 1
  <2>1. Cardinality({f}) = 1
    BY FS_Singleton
  <2> QED BY <1>3, <2>1
<1> QED BY <1>1, <1>2, <1>3

LEMMA ResolvedInTime ==
  ASSUME Inv PROVE PromiseInTime
<1> SUFFICES ASSUME dom.asked \cap dom.upset = {}
             PROVE  /\ dom.count = 0 =>
                         \A n \in dom.asked : Pending(dom, n) \cap dom.due = {}
                    /\ dom.count > 0 => \E n \in dom.asked : Pending(dom, n) # {}
  BY DEF PromiseInTime
<1>1. /\ dom.waits \subseteq dom.asked /\ dom.asked \subseteq Node
      /\ dom.waits \subseteq dom.hooks
      /\ dom.count = Cardinality(dom.waits)
      /\ \A n \in dom.asked \ dom.waits : Pending(dom, n) \cap dom.due = {}
  BY DEF Inv, DomInv, QueueInv, Counted
<1>2. IsFiniteSet(dom.waits)
  BY <1>1, FS_Subset, ElementsAssumption
<1>3. ASSUME dom.count = 0 PROVE \A n \in dom.asked : Pending(dom, n) \cap dom.due = {}
  <2>1. dom.waits = {}
    BY <1>1, <1>2, <1>3, FS_EmptySet
  <2> QED BY <1>1, <2>1
<1>4. ASSUME dom.count > 0 PROVE \E n \in dom.asked : Pending(dom, n) # {}
  <2>1. dom.waits # {}
    <3>1. Cardinality({}) = 0
      BY FS_EmptySet
    <3> QED BY <1>1, <1>4, <3>1
  <2>2. PICK n \in dom.waits : TRUE
    BY <2>1
  <2>3. n \in dom.asked /\ n \in dom.hooks /\ n \notin dom.upset /\ Sentinel(dom, n)
    BY <1>1 DEF Inv, DomInv, QueueInv
  <2>4. dom.running[n] # {}
    BY <2>3 DEF Sentinel
  <2> QED BY <2>3, <2>4 DEF Pending
<1> QED BY <1>3, <1>4

\* One function of an element runs at a time, they start in the order in which
\* they were queued, and promise() is resolved neither before nor after the last
\* of them (queue, dequeue and promise of jquery-3.2.0.slim.js).
THEOREM QueuesKeepOrder == Spec => QueuesRun
<1>1. Inv /\ [Next]_vars => [Next /\ Inv' /\ Promised(dom, dom')]_vars
  BY StepIsGood DEF Good
<1>2. [Next /\ Inv' /\ Promised(dom, dom')]_vars =>
        [\A n \in Node : dom'.last[n] # dom.last[n] => dom'.last[n] > dom.last[n]]_vars
  BY DEF Promised
<1>3. Inv => OneAtATime /\ PromiseInTime
  BY OneRuns, ResolvedInTime
<1> QED BY <1>1, <1>2, <1>3, PageInvariant, PTL DEF Spec, QueuesRun, QueueInOrder

-----------------------------------------------------------------------------
(* Listeners and handlers *)

\* Induction over the numbers of a set.
LEMMA Induct ==
  ASSUME NEW G, 0 \in G, \A n \in Nat : n \in G => n + 1 \in G
  PROVE  Nat \subseteq G
<1> DEFINE R == OpToRel(<, Nat)
           T == Nat \ G
<1>1. \A a, b \in Nat : a < b => <<a, b>> \in R
  BY DEF OpToRel
<1>2. IsWellFoundedOn(R, Nat)
  BY NatLessThanWellFounded
<1> HIDE DEF R
<1> SUFFICES ASSUME T # {} PROVE FALSE
  OBVIOUS
<1>3. PICK k \in T : \A n \in T : ~(<<n, k>> \in R)
  BY <1>2, WFMin
<1>4. k - 1 \in Nat /\ k - 1 < k
  BY <1>3
<1>5. k - 1 \in G
  BY <1>1, <1>3, <1>4
<1> QED BY <1>3, <1>4, <1>5

\* A set of numbers that has a member has a least one.
LEMMA Least ==
  ASSUME NEW T \in SUBSET Nat, T # {}
  PROVE  \E k \in T : \A n \in T : k <= n
<1> DEFINE R == OpToRel(<, Nat)
<1>1. \A a, b \in Nat : a < b => <<a, b>> \in R
  BY DEF OpToRel
<1>2. IsWellFoundedOn(R, Nat)
  BY NatLessThanWellFounded
<1> HIDE DEF R
<1>3. PICK k \in T : \A n \in T : ~(<<n, k>> \in R)
  BY <1>2, WFMin
<1>4. ASSUME NEW n \in T PROVE k <= n
  <2>1. k \in Nat /\ n \in Nat /\ ~(n < k)
    BY <1>1, <1>3
  <2> QED BY <2>1
<1> QED BY <1>4

-----------------------------------------------------------------------------
(* Lists of handlers *)

\* The function Without is defined with.
Sieve(g, s, H, n) ==
  g = [i \in 0..n |->
         IF i = 0 THEN <<>>
         ELSE IF s[i] \in H THEN g[i - 1] ELSE Append(g[i - 1], s[i])]

LEMMA SieveExists ==
  ASSUME NEW s, NEW H, NEW n \in Nat
  PROVE  \E g : Sieve(g, s, H, n)
<1> DEFINE G == {m \in Nat : \E g : Sieve(g, s, H, m)}
<1>1. 0 \in G
  <2>1. Sieve([i \in 0..0 |-> <<>>], s, H, 0)
    BY DEF Sieve
  <2> QED BY <2>1
<1>2. ASSUME NEW m \in Nat, m \in G PROVE m + 1 \in G
  <2>1. PICK g : Sieve(g, s, H, m)
    BY <1>2
  <2> DEFINE h == [i \in 0..(m + 1) |->
                     IF i # m + 1 THEN g[i]
                     ELSE IF s[i] \in H THEN g[m] ELSE Append(g[m], s[i])]
  <2>2. ASSUME NEW i \in 0..(m + 1)
        PROVE  h[i] = IF i = 0 THEN <<>>
                      ELSE IF s[i] \in H THEN h[i - 1] ELSE Append(h[i - 1], s[i])
    <3>1. CASE i = m + 1
      <4>1. i # 0 /\ i - 1 = m /\ m \in 0..(m + 1) /\ m # m + 1
        BY <3>1
      <4>2. h[i - 1] = g[m]
        BY <4>1
      <4> QED BY <3>1, <4>1, <4>2
    <3>2. CASE i # m + 1
      <4>1. i \in 0..m /\ h[i] = g[i]
        BY <3>2
      <4>2. g[i] = IF i = 0 THEN <<>>
                   ELSE IF s[i] \in H THEN g[i - 1] ELSE Append(g[i - 1], s[i])
        BY <2>1, <4>1 DEF Sieve
      <4>3. i # 0 => i - 1 # m + 1 /\ i - 1 \in 0..(m + 1)
        BY <4>1
      <4>4. i # 0 => h[i - 1] = g[i - 1]
        BY <4>3
      <4> HIDE DEF h
      <4> QED BY <4>1, <4>2, <4>4
    <3> QED BY <3>1, <3>2
  <2>3. Sieve(h, s, H, m + 1)
    BY <2>2 DEF Sieve
  <2> QED BY <2>3
<1> HIDE DEF G
<1>3. n \in G
  BY <1>1, <1>2, Induct
<1> QED BY <1>3 DEF G

\* Without keeps a member after the other.
LEMMA SieveSteps ==
  ASSUME NEW s, NEW H, NEW n \in Nat, Len(s) = n
  PROVE  \E g : /\ Without(s, H) = g[n]
                /\ g[0] = <<>>
                /\ \A i \in 1..n : g[i] = IF s[i] \in H THEN g[i - 1]
                                          ELSE Append(g[i - 1], s[i])
<1> DEFINE g == CHOOSE f : Sieve(f, s, H, n)
<1>1. Sieve(g, s, H, n)
  <2>1. \E f : Sieve(f, s, H, n)
    BY SieveExists
  <2> QED BY <2>1
<1>2. Without(s, H) = g[n]
  BY DEF Without, Sieve
<1> HIDE DEF g
<1>3. g[0] = <<>>
  BY <1>1 DEF Sieve
<1>4. ASSUME NEW i \in 1..n
      PROVE  g[i] = IF s[i] \in H THEN g[i - 1] ELSE Append(g[i - 1], s[i])
  <2>1. i \in 0..n /\ i # 0
    OBVIOUS
  <2> QED BY <1>1, <2>1 DEF Sieve
<1> QED BY <1>2, <1>3, <1>4

\* No handler twice, and the first k are the delegates.
InFront(s, k) ==
  /\ s \in Seq(Handler) /\ k \in 0..Len(s)
  /\ \A i, j \in 1..Len(s) : s[i].id = s[j].id => i = j
  /\ \A i \in 1..Len(s) : s[i].selector <=> i <= k

\* The delegates of s that are left, without those of H.
Delegates(s, k, H) ==
  k - Cardinality({h \in H \cap {s[i] : i \in DOMAIN s} : h.selector})

LEMMA Filtered ==
  ASSUME NEW s, NEW k, NEW H, InFront(s, k)
  PROVE  /\ InFront(Without(s, H), Delegates(s, k, H))
         /\ \A a \in 1..Len(Without(s, H)) :
              \E i \in 1..Len(s) : Without(s, H)[a] = s[i]
<1> DEFINE w == Without(s, H)
           d == Delegates(s, k, H)
<1>a. /\ s \in Seq(Handler) /\ k \in 0..Len(s)
      /\ \A i, j \in 1..Len(s) : s[i].id = s[j].id => i = j
      /\ \A i \in 1..Len(s) : s[i].selector <=> i <= k
  BY DEF InFront
<1>0. /\ Len(s) \in Nat /\ DOMAIN s = 1..Len(s) /\ k \in Nat /\ k <= Len(s)
      /\ \A i \in 1..Len(s) : s[i] \in Handler
  BY <1>a, LenProperties, ElementOfSeq
<1>1. PICK g : /\ Without(s, H) = g[Len(s)]
               /\ g[0] = <<>>
               /\ \A i \in 1..Len(s) : g[i] = IF s[i] \in H THEN g[i - 1]
                                              ELSE Append(g[i - 1], s[i])
  BY <1>0, SieveSteps
<1> DEFINE R(i) == {h \in H : h.selector /\ \E m \in 1..i : h = s[m]}
           q(i) == (IF i <= k THEN i ELSE k) - Cardinality(R(i))
           Fits(i) == /\ g[i] \in Seq(Handler)
                      /\ \A a \in 1..Len(g[i]) : \E m \in 1..i : g[i][a] = s[m]
                      /\ \A a, b \in 1..Len(g[i]) : g[i][a].id = g[i][b].id => a = b
                      /\ IsFiniteSet(R(i))
                      /\ q(i) \in 0..Len(g[i])
                      /\ i <= k => q(i) = Len(g[i])
                      /\ \A a \in 1..Len(g[i]) : g[i][a].selector <=> a <= q(i)
           G == {i \in Nat : i <= Len(s) => Fits(i)}
<1>2. 0 \in G
  <2>1. R(0) = {}
    OBVIOUS
  <2>2. Cardinality(R(0)) = 0 /\ IsFiniteSet(R(0))
    BY <2>1, FS_EmptySet
  <2>3. g[0] \in Seq(Handler) /\ Len(g[0]) = 0
    BY <1>1
  <2>4. q(0) = 0
    BY <1>0, <2>2
  <2> HIDE DEF R, q
  <2> QED BY <1>0, <2>2, <2>3, <2>4
<1>3. ASSUME NEW i \in Nat, i \in G PROVE i + 1 \in G
  <2> SUFFICES ASSUME i + 1 <= Len(s) PROVE Fits(i + 1)
    <3> HIDE DEF Fits
    <3> QED OBVIOUS
  <2> DEFINE e == s[i + 1]
  <2>1. Fits(i)
    <3> HIDE DEF Fits
    <3> QED BY <1>0, <1>3
  <2>2. /\ i + 1 \in 1..Len(s) /\ e \in Handler /\ e.selector \in BOOLEAN
        /\ e.selector <=> i + 1 <= k
        /\ \A m \in 1..i : m \in 1..Len(s) /\ s[m].id # e.id /\ s[m] # e
        /\ 1..i \subseteq 1..(i + 1)
    <3>1. i + 1 \in 1..Len(s) /\ e \in Handler
      BY <1>0
    <3>2. ASSUME NEW m \in 1..i PROVE m \in 1..Len(s) /\ s[m].id # e.id
      <4>1. m \in 1..Len(s) /\ m # i + 1
        BY <1>0
      <4> QED BY <1>a, <3>1, <4>1
    <3> QED BY <1>a, <3>1, <3>2 DEF Handler
  <2>3. g[i + 1] = IF e \in H THEN g[i] ELSE Append(g[i], e)
    <3>1. (i + 1) - 1 = i
      OBVIOUS
    <3> QED BY <1>1, <2>2, <3>1
  <2>4. /\ IsFiniteSet(R(i + 1))
        /\ Cardinality(R(i)) \in Nat
        /\ Cardinality(R(i + 1)) = Cardinality(R(i)) +
             (IF e \in H /\ e.selector THEN 1 ELSE 0)
    <3>1. Cardinality(R(i)) \in Nat
      BY <2>1, FS_CardinalityType
    <3>2. \A m : m \in 1..(i + 1) <=> m \in 1..i \/ m = i + 1
      OBVIOUS
    <3>3. CASE e \in H /\ e.selector
      <4>1. R(i + 1) = R(i) \cup {e} /\ e \notin R(i)
        BY <2>2, <3>2, <3>3
      <4> HIDE DEF R, e
      <4> QED BY <2>1, <3>1, <3>3, <4>1, FS_AddElement
    <3>4. CASE ~(e \in H /\ e.selector)
      <4>1. R(i + 1) = R(i)
        BY <2>2, <3>2, <3>4
      <4> HIDE DEF R, e
      <4> QED BY <2>1, <3>1, <3>4, <4>1
    <3> QED BY <3>3, <3>4
  <2>5. Len(g[i]) \in Nat /\ q(i) \in Int
    BY <2>1
  <2> DEFINE old == g[i]
             new == g[i + 1]
             o == q(i)
             n == q(i + 1)
             fin(j) == IsFiniteSet(R(j))
  <2>6. n = IF e \in H \/ ~e.selector THEN o ELSE o + 1
    <3> DEFINE x == Cardinality(R(i))
               y == Cardinality(R(i + 1))
    <3>1. o = (IF i <= k THEN i ELSE k) - x /\ n = (IF i + 1 <= k THEN i + 1 ELSE k) - y
      OBVIOUS
    <3> HIDE DEF x, y, o, n
    <3>2. x \in Nat /\ y = x + (IF e \in H /\ e.selector THEN 1 ELSE 0)
      BY <2>4 DEF x, y
    <3> QED BY <1>0, <2>2, <3>1, <3>2
  <2>7. /\ old \in Seq(Handler) /\ o \in 0..Len(old)
        /\ \A a \in 1..Len(old) : \E m \in 1..i : old[a] = s[m]
        /\ \A a, b \in 1..Len(old) : old[a].id = old[b].id => a = b
        /\ i <= k => o = Len(old)
        /\ \A a \in 1..Len(old) : old[a].selector <=> a <= o
    BY <2>1
  <2> HIDE DEF o, n, e, old, R, q
  <2>8. CASE e \in H
    <3>1. new = old /\ n = o
      BY <2>3, <2>6, <2>8 DEF old
    <3>2. i + 1 <= k => n = Len(new)
      BY <1>0, <2>7, <3>1
    <3>3. \A a \in 1..Len(new) : \E m \in 1..(i + 1) : new[a] = s[m]
      BY <2>2, <2>7, <3>1
    <3> HIDE DEF new
    <3>4. /\ new \in Seq(Handler) /\ n \in 0..Len(new)
          /\ \A a, b \in 1..Len(new) : new[a].id = new[b].id => a = b
          /\ \A a \in 1..Len(new) : new[a].selector <=> a <= n
      BY <2>7, <3>1
    <3> QED BY <2>4, <3>2, <3>3, <3>4 DEF new, n
  <2>9. CASE e \notin H
    <3>1. /\ new = Append(old, e) /\ new \in Seq(Handler) /\ Len(new) = Len(old) + 1
          /\ \A a \in 1..Len(old) : new[a] = old[a]
          /\ new[Len(old) + 1] = e
      BY <2>2, <2>3, <2>7, <2>9, AppendProperties DEF old
    <3> HIDE DEF new
    <3>0. Len(old) \in Nat
      BY <2>7
    <3>2. \A a \in 1..Len(new) : a \in 1..Len(old) \/ a = Len(old) + 1
      BY <3>0, <3>1
    <3>3. \A a \in 1..Len(new) : \E m \in 1..(i + 1) : new[a] = s[m]
      <4>1. i + 1 \in 1..(i + 1) /\ e = s[i + 1]
        BY DEF e
      <4> QED BY <2>2, <2>7, <3>1, <3>2, <4>1
    <3>4. ASSUME NEW a \in 1..Len(new), NEW b \in 1..Len(new), new[a].id = new[b].id
          PROVE  a = b
      <4>1. ASSUME NEW z \in 1..Len(old) PROVE new[z].id # e.id
        <5>1. PICK m \in 1..i : old[z] = s[m]
          BY <2>7
        <5> QED BY <2>2, <3>1, <5>1
      <4>2. CASE a \in 1..Len(old) /\ b \in 1..Len(old)
        BY <2>7, <3>1, <3>4, <4>2
      <4> QED BY <3>1, <3>2, <3>4, <4>1, <4>2
    <3>5. n \in 0..Len(new) /\ (i + 1 <= k => n = Len(new))
      BY <1>0, <2>2, <2>6, <2>7, <2>9, <3>0, <3>1
    <3>6. ASSUME NEW a \in 1..Len(new)
          PROVE  new[a].selector <=> a <= n
      <4>1. CASE a \in 1..Len(old)
        <5>1. new[a].selector <=> a <= o
          BY <2>7, <3>1, <4>1
        <5>2. CASE ~e.selector
          BY <2>6, <2>9, <5>1, <5>2
        <5>3. CASE e.selector
          <6>1. o = Len(old) /\ n = o + 1
            BY <1>0, <2>2, <2>6, <2>7, <2>9, <5>3
          <6> QED BY <3>0, <4>1, <5>1, <6>1
        <5> QED BY <5>2, <5>3
      <4>2. CASE a = Len(old) + 1
        <5>1. new[a].selector <=> e.selector
          BY <3>1, <4>2
        <5>2. CASE ~e.selector
          BY <2>6, <2>7, <2>9, <3>0, <4>2, <5>1, <5>2
        <5>3. CASE e.selector
          <6>1. o = Len(old) /\ n = o + 1
            BY <1>0, <2>2, <2>6, <2>7, <2>9, <5>3
          <6> QED BY <4>2, <5>1, <5>3, <6>1, <3>0
        <5> QED BY <5>2, <5>3
      <4> QED BY <3>2, <4>1, <4>2
    <3> QED BY <2>4, <3>1, <3>3, <3>4, <3>5, <3>6 DEF new, n
  <2> QED BY <2>8, <2>9
<1>4. Fits(Len(s))
  <2> HIDE DEF Fits
  <2>1. Len(s) \in G
    BY <1>0, <1>2, <1>3, Induct
  <2> QED BY <1>0, <2>1
<1>5. q(Len(s)) = d
  <2>1. R(Len(s)) = {h \in H \cap {s[i] : i \in DOMAIN s} : h.selector}
    BY <1>0
  <2>2. (IF Len(s) <= k THEN Len(s) ELSE k) = k
    <3> DEFINE n == Len(s)
    <3> HIDE DEF n
    <3>1. n \in Nat /\ k \in Nat /\ k <= n
      BY <1>0 DEF n
    <3>2. (IF n <= k THEN n ELSE k) = k
      BY ONLY <3>1
    <3> QED BY ONLY <3>2 DEF n
  <2> HIDE DEF R
  <2> QED BY <2>1, <2>2 DEF d, Delegates
<1>6. w = g[Len(s)]
  BY <1>1
<1> HIDE DEF q, R, w, d
<1>7. /\ w \in Seq(Handler) /\ d \in 0..Len(w)
      /\ \A a \in 1..Len(w) : \E i \in 1..Len(s) : w[a] = s[i]
  BY <1>4, <1>5, <1>6
<1>8. /\ \A a, b \in 1..Len(w) : w[a].id = w[b].id => a = b
      /\ \A a \in 1..Len(w) : w[a].selector <=> a <= d
  BY <1>4, <1>5, <1>6
<1> QED BY <1>7, <1>8 DEF InFront, w, d

\* What is known of a list of handlers of type t.
Orderly(l, t, c) ==
  /\ l \in [list : Seq(Handler), delegateCount : Nat]
  /\ l.list # <<>> /\ l.delegateCount <= Len(l.list)
  /\ \A i \in 1..Len(l.list) :
       /\ l.list[i].id <= c /\ TypeOf(l.list[i].origType, l.list[i].selector) = t
       /\ l.list[i].selector <=> i <= l.delegateCount
  /\ \A i, j \in 1..Len(l.list) : l.list[i].id = l.list[j].id => i = j

LEMMA OrderlyLater ==
  ASSUME NEW l, NEW t, NEW c \in Nat, NEW e \in Nat, c <= e, Orderly(l, t, c)
  PROVE  Orderly(l, t, e)
<1>0. l.list \in Seq(Handler)
  BY DEF Orderly
<1>1. /\ Len(l.list) \in Nat
      /\ \A i \in 1..Len(l.list) : l.list[i].id \in Nat
  <2> DEFINE s == l.list
  <2> HIDE DEF s
  <2>1. Len(s) \in Nat /\ \A i \in 1..Len(s) : s[i] \in Handler
    BY <1>0, LenProperties, ElementOfSeq DEF s
  <2> QED BY <2>1 DEF Handler, s
<1>2. \A i \in 1..Len(l.list) : l.list[i].id <= e
  BY <1>1 DEF Orderly
<1> QED BY <1>2 DEF Orderly

\* A handler of a new id comes into its place.
LEMMA InsertOrderly ==
  ASSUME NEW l, NEW t, NEW c \in Nat, l = NoHandlers \/ Orderly(l, t, c),
         NEW h \in Handler, h.id = c + 1, TypeOf(h.origType, h.selector) = t
  PROVE  Orderly(Insert(l, h), t, c + 1)
<1> DEFINE s == l.list
           k == l.delegateCount
           n == Len(s)
<1>1. /\ l = [list |-> s, delegateCount |-> k] /\ s \in Seq(Handler) /\ k \in 0..n
      /\ n \in Nat /\ k \in Nat
      /\ \A i \in 1..n :
           /\ s[i] \in Handler /\ s[i].id \in Nat /\ s[i].id <= c
           /\ TypeOf(s[i].origType, s[i].selector) = t
           /\ s[i].selector <=> i <= k
      /\ \A i, j \in 1..n : s[i].id = s[j].id => i = j
  <2>1. CASE l = NoHandlers
    BY <2>1 DEF NoHandlers
  <2>2. CASE Orderly(l, t, c)
    <3>0. s \in Seq(Handler)
      BY <2>2 DEF Orderly
    <3>1. n \in Nat /\ \A i \in 1..n : s[i] \in Handler /\ s[i].id \in Nat
      <4> HIDE DEF s
      <4>1. n \in Nat /\ \A i \in 1..n : s[i] \in Handler
        BY <3>0, LenProperties, ElementOfSeq
      <4> QED BY <4>1 DEF Handler
    <3>2. l = [list |-> s, delegateCount |-> k] /\ k \in Nat /\ k <= n
      BY <2>2 DEF Orderly
    <3> QED BY <2>2, <3>1, <3>2, SMTT(40) DEF Orderly
  <2> QED BY <2>1, <2>2
<1>2. h.selector \in BOOLEAN /\ h.id \in Nat
  BY DEF Handler
<1>3. CASE ~h.selector
  <2> DEFINE w == Append(s, h)
  <2>1. Insert(l, h) = [list |-> w, delegateCount |-> k]
    BY <1>1, <1>3 DEF Insert
  <2>2. /\ w \in Seq(Handler) /\ Len(w) = n + 1
        /\ \A i \in 1..n : w[i] = s[i]
        /\ w[n + 1] = h
    BY <1>1, AppendProperties
  <2> HIDE DEF w
  <2>3. \A i \in 1..Len(w) : i \in 1..n \/ i = n + 1
    BY <1>1, <2>2
  <2>4. \A i \in 1..Len(w) : /\ w[i].id <= c + 1
                             /\ TypeOf(w[i].origType, w[i].selector) = t
                             /\ w[i].selector <=> i <= k
    BY <1>1, <1>2, <1>3, <2>2, <2>3
  <2>5. \A i, j \in 1..Len(w) : w[i].id = w[j].id => i = j
    <3> HIDE DEF n
    <3> QED BY <1>1, <2>2, <2>3, SMTT(40)
  <2>6. w # <<>> /\ k <= Len(w)
    BY <1>1, <2>2
  <2> QED BY <1>1, <2>1, <2>2, <2>4, <2>5, <2>6 DEF Orderly
<1>4. CASE h.selector
  <2> DEFINE a == SubSeq(s, 1, k)
             b == SubSeq(s, k + 1, n)
             w == a \o <<h>> \o b
  <2>1. Insert(l, h) = [list |-> w, delegateCount |-> k + 1]
    BY <1>4 DEF Insert
  <2>2. /\ a \in Seq(Handler) /\ Len(a) = k /\ \A i \in 1..k : a[i] = s[i]
        /\ b \in Seq(Handler) /\ Len(b) = n - k /\ \A i \in 1..(n - k) : b[i] = s[k + i]
    <3>1. a \in Seq(Handler) /\ Len(a) = k /\ \A i \in 1..k : a[i] = s[i]
      BY <1>1
    <3>2. b \in Seq(Handler) /\ Len(b) = n - k
      BY <1>1
    <3>3. \A i \in 1..(n - k) : b[i] = s[(k + 1) + i - 1]
      BY <1>1
    <3>4. \A i \in 1..(n - k) : (k + 1) + i - 1 = k + i
      BY <1>1
    <3> QED BY <3>1, <3>2, <3>3, <3>4
  <2> HIDE DEF a, b
  <2>3. /\ w \in Seq(Handler) /\ Len(w) = n + 1
        /\ \A i \in 1..(n + 1) : w[i] = IF i <= k THEN s[i] ELSE IF i = k + 1 THEN h
                                        ELSE s[i - 1]
    <3>1. /\ (a \o <<h>>) \in Seq(Handler) /\ Len(a \o <<h>>) = k + 1
          /\ \A i \in 1..(k + 1) : (a \o <<h>>)[i] = IF i <= k THEN s[i] ELSE h
      BY <1>1, <2>2
    <3> DEFINE u == a \o <<h>>
    <3> HIDE DEF u
    <3>2. u \in Seq(Handler) /\ Len(u) = k + 1
           /\ \A i \in 1..(k + 1) : u[i] = IF i <= k THEN s[i] ELSE h
      BY <3>1 DEF u
    <3>3. w = u \o b
      BY DEF u
    <3> HIDE DEF w, n
    <3>4. w \in Seq(Handler) /\ Len(w) = n + 1
      <4>1. w \in Seq(Handler) /\ Len(w) = Len(u) + Len(b)
        BY <2>2, <3>2, <3>3, ConcatProperties
      <4>2. n \in Nat /\ k \in Nat
        BY <1>1 DEF n
      <4>3. (k + 1) + (n - k) = n + 1
        BY <4>2
      <4> QED BY <2>2, <3>2, <4>1, <4>3
    <3>5. ASSUME NEW i \in 1..(n + 1)
          PROVE  w[i] = IF i <= k THEN s[i] ELSE IF i = k + 1 THEN h ELSE s[i - 1]
      <4>1. i \in 1..(Len(u) + Len(b))
        BY <1>1, <2>2, <3>2
      <4>2. w[i] = IF i <= k + 1 THEN u[i] ELSE b[i - (k + 1)]
        BY <2>2, <3>2, <3>3, <4>1, SMTT(40)
      <4>3. CASE i <= k + 1
        BY <1>1, <3>2, <4>2, <4>3
      <4>4. CASE ~(i <= k + 1)
        <5>0. n \in Nat /\ k \in Nat
          BY <1>1 DEF n
        <5> HIDE DEF k
        <5>1. i - (k + 1) \in 1..(n - k) /\ k + (i - (k + 1)) = i - 1 /\ ~(i <= k) /\ i # k + 1
          BY <4>4, <5>0
        <5>2. b[i - (k + 1)] = s[i - 1]
          BY <2>2, <5>1
        <5> QED BY <4>2, <4>4, <5>1, <5>2
      <4> QED BY <4>3, <4>4
    <3> QED BY <3>4, <3>5
  <2> HIDE DEF w, n, s, k
  <2>4. ASSUME NEW i \in 1..(n + 1)
        PROVE  /\ w[i].id <= c + 1 /\ TypeOf(w[i].origType, w[i].selector) = t
               /\ w[i].selector <=> i <= k + 1
               /\ w[i].id = c + 1 <=> i = k + 1
    <3>1. CASE i <= k
      <4>1. w[i] = s[i] /\ i \in 1..n
        BY <1>1, <2>3, <3>1
      <4> QED BY <1>1, <3>1, <4>1
    <3>2. CASE i = k + 1
      <4>0. k \in Nat
        BY <1>1
      <4>1. w[i] = h
        BY <2>3, <3>2, <4>0
      <4>2. i <= k + 1 /\ c + 1 <= c + 1
        BY <3>2, <4>0
      <4> QED BY <1>2, <1>4, <3>2, <4>1, <4>2
    <3>3. CASE ~(i <= k) /\ i # k + 1
      <4>1. w[i] = s[i - 1] /\ i - 1 \in 1..n
        BY <1>1, <2>3, <3>3
      <4> QED BY <1>1, <3>3, <4>1
    <3> QED BY <3>1, <3>2, <3>3
  <2>5. ASSUME NEW i \in 1..(n + 1), NEW j \in 1..(n + 1), w[i].id = w[j].id
        PROVE  i = j
    <3>1. CASE i = k + 1 \/ j = k + 1
      BY <2>4, <2>5, <3>1
    <3>2. CASE i # k + 1 /\ j # k + 1
      <4> DEFINE x == IF i <= k THEN i ELSE i - 1
                 y == IF j <= k THEN j ELSE j - 1
      <4>1. x \in 1..n /\ y \in 1..n /\ w[i] = s[x] /\ w[j] = s[y]
        BY <1>1, <2>3, <3>2
      <4>2. x = y
        <5> HIDE DEF x, y
        <5> QED BY <1>1, <2>5, <4>1
      <4> QED BY <1>1, <3>2, <4>2
    <3> QED BY <3>1, <3>2
  <2>6. w # <<>> /\ k + 1 <= Len(w) /\ k + 1 \in Nat
    BY <1>1, <2>3
  <2> QED BY <1>1, <2>1, <2>3, <2>4, <2>5, <2>6, SMTT(40) DEF Orderly
<1> QED BY <1>2, <1>3, <1>4

\* What is left of a list is a list again.
LEMMA FilterOrderly ==
  ASSUME NEW l, NEW t, NEW c, NEW H, Orderly(l, t, c), NEW left,
         left = [list |-> Without(l.list, H),
                 delegateCount |-> l.delegateCount -
                   Cardinality({h \in H \cap {l.list[i] : i \in DOMAIN l.list} : h.selector})],
         left.list # <<>>
  PROVE  Orderly(left, t, c)
<1> DEFINE s == l.list
           k == l.delegateCount
           w == left.list
           d == left.delegateCount
<1>1. /\ InFront(s, k)
      /\ \A i \in 1..Len(s) : s[i].id <= c /\ TypeOf(s[i].origType, s[i].selector) = t
  <2>1. s \in Seq(Handler) /\ k \in Nat /\ k <= Len(s)
    BY DEF Orderly
  <2>2. Len(s) \in Nat
    BY <2>1, LenProperties
  <2> QED BY <2>1, <2>2 DEF Orderly, InFront
<1>2. /\ w = Without(s, H) /\ d = Delegates(s, k, H)
      /\ left = [list |-> w, delegateCount |-> d]
  BY DEF Delegates
<1> HIDE DEF s, k, w, d
<1>a. /\ InFront(w, d)
      /\ \A a \in 1..Len(w) : \E i \in 1..Len(s) : w[a] = s[i]
  BY <1>1, <1>2, Filtered
<1>3. /\ w \in Seq(Handler) /\ d \in 0..Len(w)
      /\ \A a \in 1..Len(w) : \E i \in 1..Len(s) : w[a] = s[i]
      /\ \A a, b \in 1..Len(w) : w[a].id = w[b].id => a = b
      /\ \A a \in 1..Len(w) : w[a].selector <=> a <= d
  BY <1>a DEF InFront
<1>4. d \in Nat /\ d <= Len(w)
  BY <1>3
<1>5. \A a \in 1..Len(w) : w[a].id <= c /\ TypeOf(w[a].origType, w[a].selector) = t
  BY <1>1, <1>3
<1>6. w # <<>>
  BY DEF w
<1>7. left.list = w /\ left.delegateCount = d
  BY DEF w, d
<1>8. left \in [list : Seq(Handler), delegateCount : Nat]
  BY <1>2, <1>3, <1>4
<1> QED BY ONLY <1>3, <1>4, <1>5, <1>6, <1>7, <1>8 DEF Orderly

-----------------------------------------------------------------------------
(* The tree *)

\* Every node lies deeper than its parent.
Tree(D) ==
  /\ D.parent \in [Node -> D.made \cup {None}] /\ D.made \subseteq Node
  /\ \E r \in [Node -> Nat], k \in Nat : \A n \in Node :
       /\ r[n] < k
       /\ D.parent[n] # None => r[D.parent[n]] < r[n]

LEMMA NoneIsNoNode == None \notin Node
BY ElementsAssumption

\* The function Path is defined with.
Climbing(g, D) ==
  g = [m \in Node \cup {None} |->
         IF m = None THEN <<>> ELSE <<m>> \o g[D.parent[m]]]

LEMMA ClimbingExists ==
  ASSUME NEW D, Tree(D)
  PROVE  \E g : Climbing(g, D)
<1> DEFINE Up == Node \cup {None}
<1>1. PICK r \in [Node -> Nat], k \in Nat :
        \A n \in Node : r[n] < k /\ (D.parent[n] # None => r[D.parent[n]] < r[n])
  BY DEF Tree
<1>2. \A n \in Node : D.parent[n] \in Up /\ r[n] \in Nat
  BY DEF Tree
<1> DEFINE Below(g, i) ==
             /\ DOMAIN g = Up /\ g = [m \in Up |-> g[m]] /\ g[None] = <<>>
             /\ \A m \in Node : r[m] < i => g[m] = <<m>> \o g[D.parent[m]]
           G == {i \in Nat : \E g : Below(g, i)}
<1>3. 0 \in G
  <2>1. Below([m \in Up |-> <<>>], 0)
    BY <1>2
  <2> HIDE DEF Below
  <2> QED BY <2>1
<1>4. ASSUME NEW i \in Nat, i \in G PROVE i + 1 \in G
  <2>1. PICK g : Below(g, i)
    BY <1>4
  <2> DEFINE h == [m \in Up |-> IF m # None /\ r[m] = i THEN <<m>> \o g[D.parent[m]]
                                ELSE g[m]]
  <2>2. DOMAIN h = Up /\ h = [m \in Up |-> h[m]] /\ h[None] = <<>>
    BY <2>1
  <2>3. \A m \in Node : h[m] = IF r[m] = i THEN <<m>> \o g[D.parent[m]] ELSE g[m]
    BY NoneIsNoNode
  <2>4. ASSUME NEW m \in Node, r[m] < i + 1 PROVE h[m] = <<m>> \o h[D.parent[m]]
    <3>1. h[D.parent[m]] = g[D.parent[m]]
      <4>1. CASE D.parent[m] = None
        BY <2>1, <2>2, <4>1
      <4>2. CASE D.parent[m] # None
        <5>1. D.parent[m] \in Node /\ r[D.parent[m]] < r[m]
          BY <1>1, <1>2, <4>2
        <5>2. r[D.parent[m]] # i
          BY <1>2, <2>4, <5>1
        <5> QED BY <2>3, <5>1, <5>2
      <4> QED BY <4>1, <4>2
    <3>2. CASE r[m] = i
      BY <2>3, <3>1, <3>2
    <3>3. CASE r[m] # i
      <4>1. r[m] < i
        BY <1>2, <2>4, <3>3
      <4> QED BY <2>1, <2>3, <3>1, <3>3, <4>1
    <3> QED BY <3>2, <3>3
  <2> HIDE DEF h
  <2>5. Below(h, i + 1)
    BY <2>2, <2>4
  <2> HIDE DEF Below
  <2> QED BY <2>5
<1> HIDE DEF G
<1>5. k \in G
  BY <1>3, <1>4, Induct
<1>6. PICK g : Below(g, k)
  BY <1>5 DEF G
<1>7. \A m \in Up : g[m] = IF m = None THEN <<>> ELSE <<m>> \o g[D.parent[m]]
  BY <1>1, <1>6
<1>8. g = [m \in Up |-> IF m = None THEN <<>> ELSE <<m>> \o g[D.parent[m]]]
  <2> DEFINE e(m) == IF m = None THEN <<>> ELSE <<m>> \o g[D.parent[m]]
  <2>1. \A m \in Up : g[m] = e(m)
    BY <1>7
  <2>2. g = [m \in Up |-> g[m]]
    BY <1>6
  <2> HIDE DEF e
  <2>3. g = [m \in Up |-> e(m)]
    BY <2>1, <2>2
  <2> QED BY <2>3 DEF e
<1> QED BY <1>8 DEF Climbing

\* A path begins with its node, and goes on with its parent's.
LEMMA PathUp ==
  ASSUME NEW D, Tree(D)
  PROVE  /\ Path(D, None) = <<>>
         /\ \A n \in Node : /\ Path(D, n) \in Seq(Node)
                            /\ Path(D, n) = <<n>> \o Path(D, D.parent[n])
                            /\ Path(D, D.parent[n]) \in Seq(Node)
<1> DEFINE g == CHOOSE f : Climbing(f, D)
<1>1. Climbing(g, D)
  <2>1. \E f : Climbing(f, D)
    BY ClimbingExists
  <2> QED BY <2>1
<1>2. \A n : Path(D, n) = g[n]
  BY DEF Path, Climbing
<1> HIDE DEF g
<1>3. g[None] = <<>> /\ \A n \in Node : g[n] = <<n>> \o g[D.parent[n]]
  BY <1>1, NoneIsNoNode DEF Climbing
<1>4. PICK r \in [Node -> Nat], k \in Nat :
        \A n \in Node : r[n] < k /\ (D.parent[n] # None => r[D.parent[n]] < r[n])
  BY DEF Tree
<1>5. \A n \in Node : D.parent[n] \in Node \cup {None} /\ r[n] \in Nat
  BY DEF Tree
<1>s. <<>> \in Seq(Node) /\ \A n \in Node : \A q \in Seq(Node) : <<n>> \o q \in Seq(Node)
  <2>1. ASSUME NEW n \in Node, NEW q \in Seq(Node) PROVE <<n>> \o q \in Seq(Node)
    <3>1. <<n>> \in Seq(Node)
      OBVIOUS
    <3> QED BY <3>1
  <2> QED BY <2>1
<1> DEFINE G == {i \in Nat : \A n \in Node : r[n] < i => g[n] \in Seq(Node)}
<1>6. 0 \in G
  BY <1>5
<1>7. ASSUME NEW i \in Nat, i \in G PROVE i + 1 \in G
  <2>1. ASSUME NEW n \in Node, r[n] < i + 1 PROVE g[n] \in Seq(Node)
    <3>1. g[D.parent[n]] \in Seq(Node)
      <4>1. CASE D.parent[n] = None
        BY <1>3, <1>s, <4>1
      <4>2. CASE D.parent[n] # None
        <5>1. D.parent[n] \in Node /\ r[D.parent[n]] < i
          BY <1>4, <1>5, <2>1, <4>2
        <5> QED BY <1>7, <5>1
      <4> QED BY <4>1, <4>2
    <3> QED BY <1>3, <1>s, <3>1
  <2> QED BY <2>1
<1> HIDE DEF G
<1>8. k \in G
  BY <1>6, <1>7, Induct
<1>9. \A n \in Node : g[n] \in Seq(Node)
  BY <1>4, <1>8 DEF G
<1>10. \A n \in Node : g[D.parent[n]] \in Seq(Node)
  <2>1. ASSUME NEW n \in Node PROVE g[D.parent[n]] \in Seq(Node)
    <3>1. CASE D.parent[n] = None
      BY <1>3, <1>s, <3>1
    <3>2. CASE D.parent[n] # None
      BY <1>5, <1>9, <3>2
    <3> QED BY <3>1, <3>2
  <2> QED BY <2>1
<1> QED BY <1>2, <1>3, <1>9, <1>10

LEMMA AncestorsUp ==
  ASSUME NEW D, Tree(D)
  PROVE  /\ Ancestors(D, None) = {}
         /\ \A n \in Node : /\ Ancestors(D, n) = {n} \cup Ancestors(D, D.parent[n])
                            /\ Ancestors(D, n) \subseteq Node
<1>1. Ancestors(D, None) = {}
  BY PathUp DEF Ancestors
<1>2. ASSUME NEW n \in Node
      PROVE  /\ Ancestors(D, n) = {n} \cup Ancestors(D, D.parent[n])
             /\ Ancestors(D, n) \subseteq Node
  <2> DEFINE p == Path(D, n)
             q == Path(D, D.parent[n])
  <2>1. p \in Seq(Node) /\ p = <<n>> \o q /\ q \in Seq(Node)
    BY PathUp
  <2> HIDE DEF p, q
  <2>2. Len(q) \in Nat /\ Len(p) = 1 + Len(q)
    BY <2>1
  <2>3. p[1] = n /\ \A i \in 1..Len(q) : p[i + 1] = q[i]
    BY <2>1
  <2>4. {p[i] : i \in 1..Len(p)} = {n} \cup {q[i] : i \in 1..Len(q)}
    <3>1. ASSUME NEW i \in 1..Len(p) PROVE p[i] \in {n} \cup {q[j] : j \in 1..Len(q)}
      <4>1. CASE i = 1
        BY <2>3, <4>1
      <4>2. CASE i # 1
        <5>1. i - 1 \in 1..Len(q) /\ (i - 1) + 1 = i
          BY <2>2, <4>2
        <5>2. p[i] = q[i - 1]
          BY <2>3, <5>1
        <5> QED BY <5>1, <5>2
      <4> QED BY <4>1, <4>2
    <3>2. 1 \in 1..Len(p) /\ \A i \in 1..Len(q) : i + 1 \in 1..Len(p)
      BY <2>2
    <3>3. n \in {p[i] : i \in 1..Len(p)}
      BY <2>3, <3>2
    <3>4. ASSUME NEW i \in 1..Len(q) PROVE q[i] \in {p[j] : j \in 1..Len(p)}
      BY <2>3, <3>2
    <3> QED BY <3>1, <3>3, <3>4
  <2>5. /\ Ancestors(D, n) = {p[i] : i \in DOMAIN p}
        /\ Ancestors(D, D.parent[n]) = {q[i] : i \in DOMAIN q}
    BY DEF Ancestors, p, q
  <2>6. DOMAIN p = 1..Len(p) /\ DOMAIN q = 1..Len(q) /\ \A i \in 1..Len(p) : p[i] \in Node
    BY <2>1, LenProperties, ElementOfSeq
  <2> QED BY <2>4, <2>5, <2>6
<1> QED BY <1>1, <1>2

\* Nodes with all their ancestors.
UpTo(D, U) == \A n \in U : D.parent[n] # None => D.parent[n] \in U

LEMMA AncestorsClosed ==
  ASSUME NEW D, Tree(D), NEW n \in Node
  PROVE  UpTo(D, Ancestors(D, n)) /\ n \in Ancestors(D, n)
<1>1. PICK r \in [Node -> Nat], k \in Nat :
        \A m \in Node : r[m] < k /\ (D.parent[m] # None => r[D.parent[m]] < r[m])
  BY DEF Tree
<1>2. \A m \in Node : D.parent[m] \in Node \cup {None} /\ r[m] \in Nat
  BY DEF Tree
<1> DEFINE G == {i \in Nat : \A m \in Node : r[m] < i => UpTo(D, Ancestors(D, m))}
<1>3. 0 \in G
  BY <1>2
<1>4. ASSUME NEW i \in Nat, i \in G PROVE i + 1 \in G
  <2>1. ASSUME NEW m \in Node, r[m] < i + 1 PROVE UpTo(D, Ancestors(D, m))
    <3>1. Ancestors(D, m) = {m} \cup Ancestors(D, D.parent[m])
      BY AncestorsUp
    <3>2. CASE D.parent[m] = None
      BY <3>1, <3>2, AncestorsUp DEF UpTo
    <3>3. CASE D.parent[m] # None
      <4>1. D.parent[m] \in Node /\ r[D.parent[m]] < i
        BY <1>1, <1>2, <2>1, <3>3
      <4>2. UpTo(D, Ancestors(D, D.parent[m]))
        BY <1>4, <4>1
      <4>3. D.parent[m] \in Ancestors(D, D.parent[m])
        BY <4>1, AncestorsUp
      <4> QED BY <3>1, <4>2, <4>3 DEF UpTo
    <3> QED BY <3>2, <3>3
  <2> QED BY <2>1
<1> HIDE DEF G
<1>5. k \in G
  BY <1>3, <1>4, Induct
<1>6. UpTo(D, Ancestors(D, n))
  BY <1>1, <1>5 DEF G
<1> QED BY <1>6, AncestorsUp

\* A node may be put under another that is not below it.
LEMMA LinkedIsTree ==
  ASSUME NEW D, Tree(D), NEW E, NEW c \in Node, NEW p, NEW U \in SUBSET Node,
         E.made = D.made, E.parent = [D.parent EXCEPT ![c] = p],
         p = None \/ (p \in U /\ p \in D.made), UpTo(D, U), c \notin U
  PROVE  Tree(E) /\ UpTo(E, U)
<1>1. PICK r \in [Node -> Nat], k \in Nat :
        \A m \in Node : r[m] < k /\ (D.parent[m] # None => r[D.parent[m]] < r[m])
  BY DEF Tree
<1>2. \A m \in Node : D.parent[m] \in Node \cup {None} /\ r[m] \in Nat
  BY DEF Tree
<1>3. E.parent \in [Node -> D.made \cup {None}]
  BY DEF Tree
<1>4. E.parent[c] = p /\ \A m \in Node \ {c} : E.parent[m] = D.parent[m]
  BY DEF Tree
<1>5. UpTo(E, U)
  BY <1>4 DEF UpTo
<1> DEFINE s == [m \in Node |-> IF m \in U THEN r[m] ELSE r[m] + k]
<1>6. s \in [Node -> Nat] /\ k + k \in Nat /\ k \in Nat
  BY <1>2
<1>7. ASSUME NEW m \in Node
      PROVE  s[m] < k + k /\ (E.parent[m] # None => s[E.parent[m]] < s[m])
  <2>1. s[m] = (IF m \in U THEN r[m] ELSE r[m] + k) /\ s[m] \in Nat
    BY <1>6
  <2>2. s[m] < k + k
    BY <1>1, <1>2, <2>1
  <2>3. ASSUME E.parent[m] # None PROVE s[E.parent[m]] < s[m]
    <3> DEFINE q == E.parent[m]
    <3>1. q \in Node /\ r[q] \in Nat /\ r[q] < k /\ s[q] = IF q \in U THEN r[q] ELSE r[q] + k
      BY <1>1, <1>2, <1>3, <2>3 DEF Tree
    <3>2. CASE m = c
      <4>1. q \in U /\ m \notin U
        BY <1>4, <2>3, <3>2
      <4> QED BY <1>2, <2>1, <3>1, <4>1
    <3>3. CASE m # c
      <4>1. q = D.parent[m] /\ r[q] < r[m]
        BY <1>1, <1>4, <2>3, <3>3
      <4>2. m \in U => q \in U
        BY <2>3, <4>1 DEF UpTo
      <4> DEFINE a == r[q]
                 b == r[m]
                 x == s[q]
                 y == s[m]
      <4>3. /\ a \in Nat /\ b \in Nat /\ k \in Nat /\ a < b
            /\ x = IF q \in U THEN a ELSE a + k
            /\ y = IF m \in U THEN b ELSE b + k
        BY <1>2, <1>6, <2>1, <3>1, <4>1
      <4>4. x < y
        <5> HIDE DEF q, a, b, x, y
        <5> QED BY ONLY <4>2, <4>3
      <4> QED BY <4>4
    <3> QED BY <3>2, <3>3
  <2> QED BY <2>2, <2>3
<1>8. Tree(E)
  <2> HIDE DEF s
  <2>1. E.made \subseteq Node
    BY DEF Tree
  <2> QED BY <1>3, <1>6, <1>7, <2>1 DEF Tree
<1> QED BY <1>5, <1>8

-----------------------------------------------------------------------------
(* What is known of handlers, of the tree and of the queues together *)

\* The nodes that want focusin.
Wanting(D) == {n \in Node : Has(D, n, "focusin")}

\* Listeners are bound, and counted, for the handlers there are.
Wired(D, c) ==
  /\ DOMAIN D.events = Node
  /\ \A n \in Node : \A t \in DOMAIN D.events[n] :
       t \in Kept /\ Orderly(D.events[n][t], t, c)
  /\ D.bound \subseteq Node \X Kept
  /\ \A n \in Node, t \in Kept \ {"focusin"} : <<n, t>> \in D.bound <=> Has(D, n, t)
  /\ \A n \in Node \ D.made : DOMAIN D.events[n] = {}
  /\ D.attaches \in Nat /\ D.leaked \in Nat
  /\ D.capture \in BOOLEAN /\ (D.capture <=> D.attaches > 0)
  /\ D.attaches = Cardinality(Wanting(D)) + D.leaked

Waiting(D) ==
  /\ D.queue \in [Node -> Seq(Nat)]
  /\ D.count \in Nat /\ D.waits \subseteq Node /\ Cardinality(D.waits) <= D.count

Held(D, c) == DOMAIN D = Fields /\ Tree(D) /\ Wired(D, c) /\ Waiting(D)

\* Fields that do not matter to these.
Beside == Fields \ {"parent", "made", "events", "bound", "attaches", "capture", "leaked",
                    "queue", "count", "waits"}

\* Fields that do not matter to scripts either.
Plain == Beside \ {"origin", "evaled", "ran", "upset"}

LEMMA WiredSame ==
  ASSUME NEW D, NEW E, NEW c, Wired(D, c), E.events = D.events, E.bound = D.bound,
         E.made = D.made, E.attaches = D.attaches, E.capture = D.capture,
         E.leaked = D.leaked
  PROVE  Wired(E, c)
<1>1. Wanting(E) = Wanting(D) /\ \A n, t : Has(E, n, t) <=> Has(D, n, t)
  BY DEF Wanting, Has
<1> QED BY <1>1 DEF Wired

LEMMA TreeSame ==
  ASSUME NEW D, NEW E, Tree(D), E.parent = D.parent, E.made = D.made
  PROVE  Tree(E)
BY DEF Tree

LEMMA WaitingSame ==
  ASSUME NEW D, NEW E, Waiting(D), E.queue = D.queue, E.count = D.count,
         E.waits = D.waits
  PROVE  Waiting(E)
BY DEF Waiting

LEMMA HeldSame ==
  ASSUME NEW D, NEW E, NEW c, Held(D, c), DOMAIN E = Fields, SameBut(D, E, Beside)
  PROVE  Held(E, c) /\ E.made = D.made
<1>1. /\ E.parent = D.parent /\ E.made = D.made /\ E.events = D.events
      /\ E.bound = D.bound /\ E.attaches = D.attaches /\ E.capture = D.capture
      /\ E.leaked = D.leaked /\ E.queue = D.queue /\ E.count = D.count
      /\ E.waits = D.waits
  BY DEF SameBut, Beside, Fields
<1> QED BY <1>1, WiredSame, TreeSame, WaitingSame DEF Held

LEMMA SameTwice ==
  ASSUME NEW D, NEW E, NEW F, NEW X, SameBut(D, E, X), SameBut(E, F, X)
  PROVE  SameBut(D, F, X)
BY DEF SameBut

\* The methods on data, looks and classes.
LEMMA NodesAreHeld ==
  ASSUME NEW D, NEW c, Held(D, c), NEW n, NEW v, NEW E,
         E \in {SetData(D, n, v), RemoveData(D, n), SetAttr(D, n, v), Read(D, n),
                ReadAll(D, n), Show(D, n), Hide(D, n), Toggle(D, n), SetStyle(D, n, v),
                AddClass(D, n, v), RemoveClass(D, n, v), ToggleOne(D, n, v),
                Strip(D, n), ToggleAll(D, n)}
  PROVE  Held(E, c) /\ E.made = D.made /\ SameBut(D, E, Plain)
<1> DEFINE Near(F, G) == DOMAIN F = Fields => DOMAIN G = Fields /\ SameBut(F, G, Plain)
<1>0. DOMAIN D = Fields
  BY DEF Held
<1>1. \A x : Near(D, SetData(D, n, x)) /\ Near(D, SetAttr(D, n, x))
             /\ Near(D, SetStyle(D, n, x)) /\ Near(D, RemoveData(D, n))
  <2>1. ASSUME NEW x PROVE Near(D, SetData(D, n, x))
    BY ZenonT(60) DEF SetData, SameBut, Plain, Beside, Fields
  <2>2. ASSUME NEW x PROVE Near(D, SetAttr(D, n, x))
    BY DEF SetAttr, SameBut, Plain, Beside, Fields
  <2>3. ASSUME NEW x PROVE Near(D, SetStyle(D, n, x))
    BY ZenonT(60) DEF SetStyle, SameBut, Plain, Beside, Fields
  <2>4. Near(D, RemoveData(D, n))
    BY ZenonT(60) DEF RemoveData, SameBut, Plain, Beside, Fields
  <2> HIDE DEF Near
  <2> QED BY <2>1, <2>2, <2>3, <2>4
<1>2. Near(D, Read(D, n))
  <2> DEFINE F == SetData(D, n, Value(D, n))
  <2>1. DOMAIN F = Fields /\ SameBut(D, F, Plain)
    BY <1>0, <1>1
  <2>2. Read(D, n) = [F EXCEPT !.answer[n] = Value(D, n)]
    BY DEF Read
  <2> HIDE DEF F
  <2>3. Near(F, Read(D, n))
    BY <2>1, <2>2 DEF SameBut, Plain, Beside, Fields
  <2> QED BY <2>1, <2>3, SameTwice
<1>3. Near(D, ReadAll(D, n))
  <2> DEFINE F == Read(D, n)
  <2>1. DOMAIN F = Fields /\ SameBut(D, F, Plain)
    BY <1>0, <1>2
  <2>2. ReadAll(D, n) = IF n \in D.hasAttrs THEN D ELSE [F EXCEPT !.hasAttrs = @ \cup {n}]
    BY DEF ReadAll
  <2> HIDE DEF F
  <2>3. Near(F, [F EXCEPT !.hasAttrs = @ \cup {n}])
    BY <2>1 DEF SameBut, Plain, Beside, Fields
  <2>4. Near(D, [F EXCEPT !.hasAttrs = @ \cup {n}])
    BY <2>1, <2>3, SameTwice
  <2>5. Near(D, D)
    BY DEF SameBut
  <2> QED BY <2>2, <2>4, <2>5
<1>4. Near(D, Hide(D, n))
  BY ZenonT(60) DEF Hide, SameBut, Plain, Beside, Fields
<1>5. Near(D, Show(D, n))
  <2> DEFINE F == IF D.style[n] = "none"
                  THEN [D EXCEPT !.style[n] = IF D.display[n] = None THEN ""
                                              ELSE D.display[n]]
                  ELSE D
  <2>1. DOMAIN F = Fields /\ SameBut(D, F, Plain)
    BY <1>0, ZenonT(60) DEF SameBut, Plain, Beside, Fields
  <2> DEFINE z == IF Contained(D, n) THEN "shown" ELSE None
  <2>2. Show(D, n) = [F EXCEPT !.style[n] = IF @ = "" /\ IsHidden(F, n) THEN "block" ELSE @,
                               !.looks[n] = z]
    BY DEF Show
  <2> HIDE DEF F, z
  <2>3. Near(F, Show(D, n))
    BY <2>1, <2>2, ZenonT(60) DEF SameBut, Plain, Beside, Fields
  <2> QED BY <2>1, <2>3, SameTwice
<1>6. Near(D, Toggle(D, n))
  BY <1>4, <1>5 DEF Toggle
<1>7. \A x : Near(D, AddClass(D, n, x)) /\ Near(D, RemoveClass(D, n, x))
             /\ Near(D, ToggleOne(D, n, x))
  BY DEF AddClass, RemoveClass, ToggleOne, SameBut, Plain, Beside, Fields
<1>8. Near(D, Strip(D, n))
  BY ZenonT(60) DEF Strip, SameBut, Plain, Beside, Fields
<1>9. Near(D, ToggleAll(D, n))
  <2> DEFINE z == IF D.kept[n] = None THEN {} ELSE D.kept[n]
  <2>1. ToggleAll(D, n) = IF D.class[n] # {} THEN Strip(D, n)
                          ELSE [D EXCEPT !.class[n] = z, !.away[n] = None]
    BY DEF ToggleAll
  <2> HIDE DEF z
  <2>2. Near(D, [D EXCEPT !.class[n] = z, !.away[n] = None])
    BY ZenonT(60) DEF SameBut, Plain, Beside, Fields
  <2> QED BY <1>8, <2>1, <2>2
<1> HIDE DEF Near
<1>10. Near(D, E)
  BY <1>1, <1>2, <1>3, <1>4, <1>5, <1>6, <1>7, <1>8, <1>9
<1>11. DOMAIN E = Fields /\ SameBut(D, E, Plain)
  BY <1>0, <1>10 DEF Near
<1>12. SameBut(D, E, Beside)
  BY <1>11 DEF SameBut, Plain
<1> QED BY <1>11, <1>12, HeldSame

-----------------------------------------------------------------------------
(* Queues *)

LEMMA WaitingLess ==
  ASSUME NEW D, NEW E, Waiting(D), NEW n, E.queue \in [Node -> Seq(Nat)],
         E.waits = D.waits \ {n},
         E.count = D.count - (IF n \in D.waits THEN 1 ELSE 0)
  PROVE  Waiting(E)
<1>1. IsFiniteSet(D.waits) /\ Cardinality(D.waits) \in Nat
  BY ElementsAssumption, FS_Subset, FS_CardinalityType DEF Waiting
<1>2. CASE n \in D.waits
  <2>1. Cardinality(E.waits) = Cardinality(D.waits) - 1
    BY <1>1, <1>2, FS_RemoveElement
  <2>2. IsFiniteSet(E.waits) /\ Cardinality(E.waits) \in Nat
    BY <1>1, FS_Subset, FS_CardinalityType
  <2> QED BY <1>1, <1>2, <2>1, <2>2 DEF Waiting
<1>3. CASE n \notin D.waits
  <2>1. E.waits = D.waits /\ E.count = D.count
    BY <1>3 DEF Waiting
  <2> QED BY <2>1 DEF Waiting
<1> QED BY <1>2, <1>3

\* The methods on queues leave the rest alone.
LEMMA QueuesApart ==
  ASSUME NEW D, NEW E, NEW c, Held(D, c), DOMAIN E = Fields, SameBut(D, E, QueueFields),
         Waiting(E)
  PROVE  Held(E, c) /\ E.made = D.made
<1>1. /\ E.parent = D.parent /\ E.made = D.made /\ E.events = D.events
      /\ E.bound = D.bound /\ E.attaches = D.attaches /\ E.capture = D.capture
      /\ E.leaked = D.leaked
  BY DEF SameBut, QueueFields, Fields
<1> QED BY <1>1, WiredSame, TreeSame DEF Held

LEMMA FireIsHeld ==
  ASSUME NEW D, NEW c, Held(D, c), NEW n \in Node
  PROVE  Held(FireEmpty(D, n), c) /\ FireEmpty(D, n).made = D.made
<1> DEFINE E == FireEmpty(D, n)
<1>0. DOMAIN D = Fields /\ D.queue \in [Node -> Seq(Nat)]
  BY DEF Held, Waiting
<1>1. DOMAIN E = Fields /\ SameBut(D, E, QueueFields)
  BY <1>0 DEF FireEmpty, SameBut, QueueFields, Fields
<1>2. /\ E.queue = [D.queue EXCEPT ![n] = <<>>] /\ E.waits = D.waits \ {n}
      /\ E.count = D.count - (IF n \in D.waits THEN 1 ELSE 0)
  BY <1>0 DEF FireEmpty, Fields
<1> HIDE DEF E
<1>3. E.queue \in [Node -> Seq(Nat)]
  BY <1>0, <1>2
<1>4. Waiting(E)
  BY <1>2, <1>3, WaitingLess DEF Held
<1>5. Held(E, c) /\ E.made = D.made
  BY <1>1, <1>4, QueuesApart
<1> QED BY <1>5 DEF E

LEMMA FirstIsQueue ==
  ASSUME NEW q \in Seq(Nat)
  PROVE  First(q) \in Seq(Nat)
BY DEF First

LEMMA DequeueIsHeld ==
  ASSUME NEW D, NEW c, Held(D, c), NEW n \in Node
  PROVE  Held(Dequeue(D, n), c) /\ Dequeue(D, n).made = D.made
<1> DEFINE q == First(D.queue[n])
           z == <<Progress>> \o Tail(q)
           E == [D EXCEPT !.queue[n] = z, !.hooks = @ \cup {n},
                          !.running[n] = @ \cup {Head(q)}, !.last[n] = Head(q)]
<1>0. DOMAIN D = Fields /\ D.queue \in [Node -> Seq(Nat)]
  BY DEF Held, Waiting
<1>1. q \in Seq(Nat)
  BY <1>0, FirstIsQueue
<1>2. CASE q = <<>>
  <2>1. Dequeue(D, n) = FireEmpty(D, n)
    BY <1>2 DEF Dequeue
  <2> QED BY <2>1, FireIsHeld
<1>3. CASE q # <<>>
  <2>1. Dequeue(D, n) = E
    BY <1>3 DEF Dequeue
  <2>2. z \in Seq(Nat)
    <3>1. <<Progress>> \in Seq(Nat) /\ Tail(q) \in Seq(Nat)
      BY <1>1, <1>3 DEF Progress
    <3> QED BY <3>1
  <2> HIDE DEF q, z
  <2>3. /\ DOMAIN E = Fields /\ SameBut(D, E, QueueFields)
        /\ E.queue = [D.queue EXCEPT ![n] = z] /\ E.waits = D.waits /\ E.count = D.count
    BY <1>0 DEF SameBut, QueueFields, Fields
  <2> HIDE DEF E
  <2>4. E.queue \in [Node -> Seq(Nat)]
    BY <1>0, <2>2, <2>3
  <2>5. Waiting(E)
    BY <2>3, <2>4 DEF Held, Waiting
  <2>6. Held(E, c) /\ E.made = D.made
    BY <2>3, <2>5, QueuesApart
  <2> QED BY <2>1, <2>6
<1> QED BY <1>2, <1>3

LEMMA QueueIsHeld ==
  ASSUME NEW D, NEW c, Held(D, c), NEW n \in Node, NEW f \in Nat
  PROVE  Held(Queue(D, n, f), c) /\ Queue(D, n, f).made = D.made
<1> DEFINE E == Queue(D, n, f)
<1>0. DOMAIN D = Fields /\ D.queue \in [Node -> Seq(Nat)]
  BY DEF Held, Waiting
<1>1. /\ DOMAIN E = Fields /\ SameBut(D, E, QueueFields)
      /\ E.queue = [D.queue EXCEPT ![n] = Append(@, f)]
      /\ E.waits = D.waits /\ E.count = D.count
  BY <1>0 DEF Queue, SameBut, QueueFields, Fields
<1> HIDE DEF E
<1>2. Append(D.queue[n], f) \in Seq(Nat)
  BY <1>0
<1>3. E.queue \in [Node -> Seq(Nat)]
  BY <1>0, <1>1, <1>2
<1>4. Waiting(E)
  BY <1>1, <1>3 DEF Held, Waiting
<1>5. Held(E, c) /\ E.made = D.made
  BY <1>1, <1>4, QueuesApart
<1> QED BY <1>5 DEF E

LEMMA UpsetIsHeld ==
  ASSUME NEW D, NEW c, Held(D, c), NEW n, NEW S
  PROVE  /\ Held([D EXCEPT !.upset = S], c) /\ [D EXCEPT !.upset = S].made = D.made
         /\ Held([D EXCEPT !.running[n] = S], c)
         /\ [D EXCEPT !.running[n] = S].made = D.made
<1> DEFINE E == [D EXCEPT !.upset = S]
           F == [D EXCEPT !.running[n] = S]
<1>0. DOMAIN D = Fields
  BY DEF Held
<1>1. DOMAIN E = Fields /\ SameBut(D, E, Beside)
  BY <1>0 DEF SameBut, Beside, Fields
<1>2. DOMAIN F = Fields /\ SameBut(D, F, Beside)
  BY <1>0 DEF SameBut, Beside, Fields
<1> HIDE DEF E, F
<1>3. Held(E, c) /\ E.made = D.made /\ Held(F, c) /\ F.made = D.made
  BY <1>1, <1>2, HeldSame
<1> QED BY <1>3 DEF E, F

LEMMA ClearQueueIsHeld ==
  ASSUME NEW D, NEW c, Held(D, c), NEW n \in Node
  PROVE  Held(ClearQueue(D, n), c) /\ ClearQueue(D, n).made = D.made
<1> DEFINE E == FireEmpty(D, n)
<1>1. Held(E, c) /\ E.made = D.made
  BY FireIsHeld
<1> DEFINE S == E.upset \cup {n}
<1>2. ClearQueue(D, n) = [E EXCEPT !.upset = S]
  BY DEF ClearQueue
<1> HIDE DEF E, S
<1>3. Held([E EXCEPT !.upset = S], c) /\ [E EXCEPT !.upset = S].made = E.made
  BY <1>1, UpsetIsHeld
<1> QED BY <1>1, <1>2, <1>3

LEMMA PromiseIsHeld ==
  ASSUME NEW D, NEW c, Held(D, c), NEW S \in SUBSET Node
  PROVE  Held(Promise(D, S), c) /\ Promise(D, S).made = D.made
<1> DEFINE E == Promise(D, S)
           W == S \cap D.hooks
<1>0. DOMAIN D = Fields
  BY DEF Held
<1>1. /\ DOMAIN E = Fields /\ SameBut(D, E, QueueFields)
      /\ E.queue = D.queue /\ E.waits = W /\ E.count = Cardinality(W)
  <2> DEFINE A == UNION {Pending(D, n) : n \in S}
  <2>1. E = [D EXCEPT !.waits = W, !.count = Cardinality(W), !.asked = S, !.due = A]
    BY DEF Promise
  <2> HIDE DEF A, E, W
  <2> QED BY <1>0, <2>1 DEF SameBut, QueueFields, Fields
<1>2. IsFiniteSet(W) /\ Cardinality(W) \in Nat /\ W \subseteq Node
  BY ElementsAssumption, FS_Subset, FS_CardinalityType
<1> HIDE DEF E, W
<1>3. Waiting(E)
  BY <1>1, <1>2 DEF Held, Waiting
<1>4. Held(E, c) /\ E.made = D.made
  BY <1>1, <1>3, QueuesApart
<1> QED BY <1>4 DEF E

-----------------------------------------------------------------------------
(* on and off *)

LEMMA TypeIsKept ==
  ASSUME NEW t \in Type, NEW selector \in BOOLEAN
  PROVE  TypeOf(t, selector) \in Kept
BY DEF Type, Kept, TypeOf

LEMMA WantingFinite ==
  ASSUME NEW D
  PROVE  IsFiniteSet(Wanting(D)) /\ Cardinality(Wanting(D)) \in Nat
BY ElementsAssumption, FS_Subset, FS_CardinalityType DEF Wanting

\* The handlers of one node change, its listeners with them, and the count.
LEMMA WiredAt ==
  ASSUME NEW D, NEW E, NEW c \in Nat, NEW e \in Nat, c <= e, Wired(D, c),
         NEW n \in Node, n \in D.made,
         E.made = D.made, DOMAIN E.events = Node,
         \A m \in Node \ {n} : E.events[m] = D.events[m],
         \A t \in DOMAIN E.events[n] : t \in Kept /\ Orderly(E.events[n][t], t, e),
         E.bound \subseteq Node \X Kept,
         \A m \in Node \ {n}, t \in Kept : <<m, t>> \in E.bound <=> <<m, t>> \in D.bound,
         \A t \in Kept \ {"focusin"} : <<n, t>> \in E.bound <=> Has(E, n, t),
         E.leaked \in Nat, E.capture \in BOOLEAN, E.capture <=> E.attaches > 0,
         E.attaches + D.leaked = D.attaches + E.leaked
                                 + (IF Has(E, n, "focusin") THEN 1 ELSE 0)
                                 - (IF Has(D, n, "focusin") THEN 1 ELSE 0),
         E.attaches \in Int
  PROVE  Wired(E, e)
<1>1. /\ IsFiniteSet(Wanting(D)) /\ Cardinality(Wanting(D)) \in Nat
      /\ IsFiniteSet(Wanting(E)) /\ Cardinality(Wanting(E)) \in Nat
  BY WantingFinite
<1>2. /\ \A m \in Node \ {n} : m \in Wanting(E) <=> m \in Wanting(D)
      /\ n \in Wanting(E) <=> Has(E, n, "focusin")
      /\ n \in Wanting(D) <=> Has(D, n, "focusin")
      /\ Wanting(D) \subseteq Node /\ Wanting(E) \subseteq Node
  BY DEF Wanting, Has
<1>3. Cardinality(Wanting(E)) = Cardinality(Wanting(D))
        + (IF Has(E, n, "focusin") THEN 1 ELSE 0) - (IF Has(D, n, "focusin") THEN 1 ELSE 0)
  <2>1. CASE Has(E, n, "focusin") <=> Has(D, n, "focusin")
    <3>1. Wanting(E) = Wanting(D)
      <4> DEFINE a == Wanting(E)
                 b == Wanting(D)
      <4>1. /\ \A m \in Node : m \in a <=> m \in b
            /\ a \subseteq Node /\ b \subseteq Node
        BY <1>2, <2>1
      <4> HIDE DEF a, b
      <4>2. a = b
        BY ONLY <4>1
      <4> QED BY <4>2 DEF a, b
    <3> QED BY <1>1, <2>1, <3>1
  <2>2. CASE Has(E, n, "focusin") /\ ~Has(D, n, "focusin")
    <3>1. Wanting(E) = Wanting(D) \cup {n} /\ n \notin Wanting(D)
      BY <1>2, <2>2
    <3>2. Cardinality(Wanting(E)) = Cardinality(Wanting(D)) + 1
      BY <1>1, <3>1, FS_AddElement
    <3> QED BY <1>1, <2>2, <3>2
  <2>3. CASE ~Has(E, n, "focusin") /\ Has(D, n, "focusin")
    <3>1. Wanting(E) = Wanting(D) \ {n} /\ n \in Wanting(D)
      BY <1>2, <2>3
    <3>2. Cardinality(Wanting(E)) = Cardinality(Wanting(D)) - 1
      BY <1>1, <3>1, FS_RemoveElement
    <3> QED BY <1>1, <2>3, <3>2
  <2> QED BY <2>1, <2>2, <2>3
<1>4. D.attaches = Cardinality(Wanting(D)) + D.leaked /\ D.leaked \in Nat
  BY DEF Wired
<1>5. E.attaches = Cardinality(Wanting(E)) + E.leaked /\ E.attaches \in Nat
  <2> DEFINE x == Cardinality(Wanting(D))
             y == Cardinality(Wanting(E))
             u == IF Has(E, n, "focusin") THEN 1 ELSE 0
             v == IF Has(D, n, "focusin") THEN 1 ELSE 0
  <2>1. /\ x \in Nat /\ y \in Nat /\ u \in Int /\ v \in Int /\ y = x + u - v
        /\ D.attaches = x + D.leaked /\ D.leaked \in Nat
        /\ E.attaches + D.leaked = D.attaches + E.leaked + u - v
        /\ E.leaked \in Nat /\ E.attaches \in Int
    BY <1>1, <1>3, <1>4
  <2> HIDE DEF x, y, u, v
  <2>2. E.attaches = y + E.leaked /\ E.attaches \in Nat
    BY ONLY <2>1
  <2> QED BY <2>2 DEF y
<1>6. ASSUME NEW m \in Node, NEW t \in DOMAIN E.events[m]
      PROVE  t \in Kept /\ Orderly(E.events[m][t], t, e)
  <2>1. CASE m # n
    <3>1. E.events[m] = D.events[m]
      BY <2>1
    <3>2. t \in Kept /\ Orderly(D.events[m][t], t, c)
      BY <1>6, <3>1 DEF Wired
    <3> QED BY <3>1, <3>2, OrderlyLater
  <2> QED BY <1>6, <2>1
<1>7. ASSUME NEW m \in Node, NEW t \in Kept \ {"focusin"}
      PROVE  <<m, t>> \in E.bound <=> Has(E, m, t)
  <2>1. CASE m # n
    <3>1. <<m, t>> \in D.bound <=> Has(D, m, t)
      BY DEF Wired
    <3> QED BY <2>1, <3>1 DEF Has
  <2> QED BY <2>1
<1>8. \A m \in Node \ E.made : DOMAIN E.events[m] = {}
  BY DEF Wired
<1>9. E.leaked \in Nat
  OBVIOUS
<1> QED BY ONLY <1>5, <1>6, <1>7, <1>8, <1>9, DOMAIN E.events = Node,
          E.bound \subseteq Node \X Kept, E.capture \in BOOLEAN,
          E.capture <=> E.attaches > 0 DEF Wired

\* What the operators on listeners do to the record.
LEMMA SetUpFields ==
  ASSUME NEW D, NEW c, Held(D, c), NEW n, NEW t
  PROVE  LET E == SetUp(D, n, t) IN
         /\ DOMAIN E = Fields /\ SameBut(D, E, {"bound", "attaches", "capture"})
         /\ E.bound = IF t = "focusin" THEN D.bound ELSE D.bound \cup {<<n, t>>}
         /\ E.attaches = IF t = "focusin" THEN D.attaches + 1 ELSE D.attaches
         /\ E.capture = IF t = "focusin" THEN D.capture \/ D.attaches = 0 ELSE D.capture
<1>1. DOMAIN D = Fields
  BY DEF Held
<1>2. CASE t = "focusin"
  BY <1>1, <1>2 DEF SetUp, SameBut, Fields
<1>3. CASE t # "focusin"
  BY <1>1, <1>3 DEF SetUp, SameBut, Fields
<1> QED BY <1>2, <1>3

Torn(D, E, n, asked, t) ==
  LET torn == t = "focusin" /\ asked = "focusin" IN
  /\ DOMAIN E = Fields /\ SameBut(D, E, {"bound", "attaches", "capture", "leaked"})
  /\ E.bound = IF t = "focusin" THEN D.bound ELSE D.bound \ {<<n, t>>}
  /\ E.attaches = IF torn THEN D.attaches - 1 ELSE D.attaches
  /\ E.capture = IF torn THEN D.capture /\ (1 = 0 \/ D.attaches # 1) ELSE D.capture
  /\ E.leaked = IF t = "focusin" /\ ~torn THEN D.leaked + 1 ELSE D.leaked

LEMMA TearDownFields ==
  ASSUME NEW D, NEW c, Held(D, c), NEW n, NEW asked, NEW t
  PROVE  Torn(D, TearDown(D, n, asked, t), n, asked, t)
<1>1. DOMAIN D = Fields
  BY DEF Held
<1>2. CASE t = "focusin" /\ asked = "focusin"
  BY <1>1, <1>2 DEF Torn, TearDown, Detached, SameBut, Fields
<1>3. CASE t # "focusin"
  BY <1>1, <1>3 DEF Torn, TearDown, SameBut, Fields
<1>4. CASE t = "focusin" /\ asked # "focusin"
  BY <1>1, <1>4 DEF Torn, TearDown, SameBut, Fields
<1> QED BY <1>2, <1>3, <1>4

LEMMA HandlersAre ==
  ASSUME NEW D, NEW c, Wired(D, c), NEW n \in Node, NEW t
  PROVE  /\ ~Has(D, n, t) => Handlers(D, n, t) = NoHandlers
         /\ Has(D, n, t) => /\ Handlers(D, n, t) = D.events[n][t]
                            /\ Orderly(Handlers(D, n, t), t, c) /\ t \in Kept
BY DEF Wired, Handlers, Has

\* on: a handler of a new id.
LEMMA AddEventIsHeld ==
  ASSUME NEW D, NEW c \in Nat, Held(D, c), NEW n \in D.made, NEW h \in Handler, h.id = c + 1
  PROVE  Held(AddEvent(D, n, h), c + 1) /\ AddEvent(D, n, h).made = D.made
<1> DEFINE type == TypeOf(h.origType, h.selector)
           l == Insert(Handlers(D, n, type), h)
           S == IF Has(D, n, type) THEN D ELSE SetUp(D, n, type)
           lists == [u \in DOMAIN D.events[n] \cup {type} |->
                       IF u = type THEN l ELSE D.events[n][u]]
           E == [S EXCEPT !.clean = @ \ {n}, !.events[n] = lists]
<1>0. /\ DOMAIN D = Fields /\ Tree(D) /\ Wired(D, c) /\ Waiting(D) /\ n \in Node
      /\ DOMAIN D.events = Node
  BY DEF Held, Tree, Wired
<1>1. type \in Kept
  BY TypeIsKept DEF Handler
<1>2. Orderly(l, type, c + 1)
  BY <1>0, HandlersAre, InsertOrderly
<1>3. /\ DOMAIN S = Fields /\ SameBut(D, S, {"bound", "attaches", "capture"})
      /\ S.bound = IF Has(D, n, type) \/ type = "focusin" THEN D.bound
                   ELSE D.bound \cup {<<n, type>>}
      /\ S.attaches = IF Has(D, n, type) \/ type # "focusin" THEN D.attaches
                      ELSE D.attaches + 1
      /\ S.capture = IF Has(D, n, type) \/ type # "focusin" THEN D.capture
                     ELSE D.capture \/ D.attaches = 0
  <2>1. CASE Has(D, n, type)
    BY <1>0, <2>1 DEF SameBut
  <2>2. CASE ~Has(D, n, type)
    <3>1. S = SetUp(D, n, type)
      BY <2>2
    <3> HIDE DEF S, type
    <3>2. /\ DOMAIN S = Fields /\ SameBut(D, S, {"bound", "attaches", "capture"})
          /\ S.bound = IF type = "focusin" THEN D.bound ELSE D.bound \cup {<<n, type>>}
          /\ S.attaches = IF type = "focusin" THEN D.attaches + 1 ELSE D.attaches
          /\ S.capture = IF type = "focusin" THEN D.capture \/ D.attaches = 0 ELSE D.capture
      BY <3>1, SetUpFields
    <3> QED BY <2>2, <3>2
  <2> QED BY <2>1, <2>2
<1>4. AddEvent(D, n, h) = E
  <2>1. S.events = D.events
    BY <1>3 DEF SameBut, Fields
  <2>2. AddEvent(D, n, h) =
          [S EXCEPT !.clean = @ \ {n},
                    !.events[n] = [u \in DOMAIN @ \cup {type} |->
                                     IF u = type THEN l ELSE @[u]]]
    BY ZenonT(60) DEF AddEvent
  <2> HIDE DEF S, l, type
  <2> QED BY <2>1, <2>2
<1> HIDE DEF S, l, type
<1>5. /\ DOMAIN E = Fields
      /\ SameBut(D, E, {"events", "bound", "attaches", "capture", "clean"})
      /\ E.events = [D.events EXCEPT ![n] = lists]
      /\ E.bound = S.bound /\ E.attaches = S.attaches /\ E.capture = S.capture
  <2> HIDE DEF lists
  <2> QED BY <1>3 DEF SameBut, Fields
<1> HIDE DEF E
<1>6. /\ E.made = D.made /\ E.leaked = D.leaked /\ E.parent = D.parent
      /\ E.queue = D.queue /\ E.count = D.count /\ E.waits = D.waits
  BY <1>5 DEF SameBut, Fields
<1>7. /\ DOMAIN E.events = Node /\ E.events[n] = lists
      /\ \A m \in Node \ {n} : E.events[m] = D.events[m]
  BY <1>0, <1>5
<1>8. /\ \A u : Has(E, n, u) <=> Has(D, n, u) \/ u = type
      /\ \A u \in DOMAIN D.events[n] : u # type => E.events[n][u] = D.events[n][u]
      /\ E.events[n][type] = l
  BY <1>7 DEF Has
<1>9. ASSUME NEW u \in DOMAIN E.events[n]
      PROVE  u \in Kept /\ Orderly(E.events[n][u], u, c + 1)
  <2>1. CASE u = type
    BY <1>1, <1>2, <1>8, <2>1
  <2>2. CASE u # type
    <3>1. u \in DOMAIN D.events[n] /\ E.events[n][u] = D.events[n][u]
      BY <1>8, <1>9, <2>2 DEF Has
    <3>2. u \in Kept /\ Orderly(D.events[n][u], u, c)
      BY <1>0, <3>1 DEF Wired
    <3> QED BY <3>1, <3>2, OrderlyLater
  <2> QED BY <2>1, <2>2
<1>10. /\ D.bound \subseteq Node \X Kept /\ D.leaked \in Nat
       /\ \A u \in Kept \ {"focusin"} : <<n, u>> \in D.bound <=> Has(D, n, u)
       /\ D.attaches \in Nat /\ D.capture \in BOOLEAN /\ (D.capture <=> D.attaches > 0)
  BY <1>0 DEF Wired
<1>11. E.bound \subseteq Node \X Kept
  BY <1>0, <1>1, <1>3, <1>5, <1>10
<1>12. \A m \in Node \ {n}, u \in Kept : <<m, u>> \in E.bound <=> <<m, u>> \in D.bound
  BY <1>3, <1>5
<1>13. \A u \in Kept \ {"focusin"} : <<n, u>> \in E.bound <=> Has(E, n, u)
  BY <1>3, <1>5, <1>8, <1>10
<1>14. /\ E.capture \in BOOLEAN /\ (E.capture <=> E.attaches > 0)
       /\ E.attaches + D.leaked = D.attaches + E.leaked
                                  + (IF Has(E, n, "focusin") THEN 1 ELSE 0)
                                  - (IF Has(D, n, "focusin") THEN 1 ELSE 0)
       /\ E.attaches \in Int /\ E.leaked \in Nat
  <2>1. Has(E, n, "focusin") <=> Has(D, n, "focusin") \/ type = "focusin"
    BY <1>8
  <2>2. CASE Has(D, n, type) \/ type # "focusin"
    <3>1. E.attaches = D.attaches /\ E.capture = D.capture
      BY <1>3, <1>5, <2>2
    <3> QED BY <1>6, <1>10, <2>1, <2>2, <3>1
  <2>3. CASE ~Has(D, n, type) /\ type = "focusin"
    <3>1. E.attaches = D.attaches + 1
      BY <1>3, <1>5, <2>3
    <3>2. E.capture = (D.capture \/ D.attaches = 0)
      BY <1>3, <1>5, <2>3, ZenonT(60)
    <3>3. D.capture \/ D.attaches = 0
      BY <1>10
    <3>4. E.capture \in BOOLEAN /\ E.capture
      BY ONLY <3>2, <3>3, ZenonT(60)
    <3>5. E.attaches > 0
      BY <1>10, <3>1
    <3> QED BY <1>6, <1>10, <2>1, <2>3, <3>1, <3>4, <3>5
  <2> QED BY <2>2, <2>3
<1>15. Wired(E, c + 1)
  <2>1. c + 1 \in Nat /\ c <= c + 1
    OBVIOUS
  <2> QED BY ONLY <2>1, <1>0, <1>6, <1>7, <1>9, <1>11, <1>12, <1>13, <1>14, WiredAt, c \in Nat,
          n \in D.made
<1>16. Held(E, c + 1)
  BY <1>0, <1>5, <1>6, <1>15, TreeSame, WaitingSame DEF Held
<1> QED BY <1>4, <1>6, <1>16

\* off: some handlers of a type.
LEMMA DropIsHeld ==
  ASSUME NEW D, NEW c \in Nat, Held(D, c), NEW n \in Node, NEW asked, NEW t, NEW H
  PROVE  Held(Drop(D, n, asked, t, H), c) /\ Drop(D, n, asked, t, H).made = D.made
<1>0. /\ DOMAIN D = Fields /\ Tree(D) /\ Wired(D, c) /\ Waiting(D)
      /\ DOMAIN D.events = Node
  BY DEF Held, Wired
<1>1. CASE ~Has(D, n, t)
  <2>1. Drop(D, n, asked, t, H) = D
    BY <1>1, ZenonT(60) DEF Drop
  <2> QED BY <2>1
<1>2. CASE Has(D, n, t)
  <2> DEFINE l == Handlers(D, n, t)
             left == [list |-> Without(l.list, H),
                      delegateCount |-> l.delegateCount -
                        Cardinality({h \in H \cap Listed(D, n, t) : h.selector})]
             T == TearDown(D, n, asked, t)
             lists == [u \in DOMAIN D.events[n] \ {t} |-> D.events[n][u]]
             E == Drop(D, n, asked, t, H)
             torn == t = "focusin" /\ asked = "focusin"
  <2>1. n \in D.made
    BY <1>0, <1>2 DEF Wired, Has
  <2>20. Torn(D, T, n, asked, t)
    BY TearDownFields
  <2>2. /\ DOMAIN T = Fields /\ SameBut(D, T, {"bound", "attaches", "capture", "leaked"})
        /\ T.bound = IF t = "focusin" THEN D.bound ELSE D.bound \ {<<n, t>>}
        /\ T.attaches = IF torn THEN D.attaches - 1 ELSE D.attaches
        /\ T.capture = IF torn THEN D.capture /\ (1 = 0 \/ D.attaches # 1)
                       ELSE D.capture
        /\ T.leaked = IF t = "focusin" /\ ~torn THEN D.leaked + 1 ELSE D.leaked
    <3> HIDE DEF T
    <3> QED BY <2>20 DEF Torn
  <2>3. E = IF left.list # <<>> THEN [D EXCEPT !.events[n][t] = left]
            ELSE [T EXCEPT !.events[n] = lists]
    <3>1. E = IF left.list # <<>> THEN [D EXCEPT !.events[n][t] = left]
              ELSE [T EXCEPT !.events[n] = [u \in DOMAIN @ \ {t} |-> @[u]]]
      BY <1>2, ZenonT(60) DEF Drop
    <3>2. T.events = D.events
      BY <2>2 DEF SameBut, Fields
    <3> HIDE DEF E, T, left
    <3> QED BY <3>1, <3>2
  <2>4. /\ l = D.events[n][t] /\ Orderly(l, t, c) /\ t \in Kept
    BY <1>0, <1>2, HandlersAre
  <2>5. left.list # <<>> => Orderly(left, t, c)
    <3>1. Listed(D, n, t) = {l.list[i] : i \in DOMAIN l.list}
      BY DEF Listed
    <3> HIDE DEF l
    <3> QED BY <2>4, <3>1, FilterOrderly
  <2> HIDE DEF left, l, T, E
  <2>6. /\ D.bound \subseteq Node \X Kept /\ D.leaked \in Nat
        /\ \A u \in Kept \ {"focusin"} : <<n, u>> \in D.bound <=> Has(D, n, u)
        /\ D.attaches \in Nat /\ D.capture \in BOOLEAN /\ (D.capture <=> D.attaches > 0)
        /\ \A u \in DOMAIN D.events[n] : u \in Kept /\ Orderly(D.events[n][u], u, c)
    BY <1>0 DEF Wired
  <2>7. CASE left.list # <<>>
    <3>1. E = [D EXCEPT !.events[n][t] = left]
      BY <2>3, <2>7
    <3>2. /\ DOMAIN E = Fields /\ SameBut(D, E, {"events"})
          /\ E.events = [D.events EXCEPT ![n] = [D.events[n] EXCEPT ![t] = left]]
      BY <1>0, <3>1 DEF SameBut, Fields
    <3>3. /\ E.made = D.made /\ E.leaked = D.leaked /\ E.parent = D.parent
          /\ E.queue = D.queue /\ E.count = D.count /\ E.waits = D.waits
          /\ E.bound = D.bound /\ E.attaches = D.attaches /\ E.capture = D.capture
      BY <3>2 DEF SameBut, Fields
    <3>4. /\ DOMAIN E.events = Node /\ E.events[n] = [D.events[n] EXCEPT ![t] = left]
          /\ \A m \in Node \ {n} : E.events[m] = D.events[m]
      BY <1>0, <3>2
    <3>5. \A u : Has(E, n, u) <=> Has(D, n, u)
      BY <3>4 DEF Has
    <3>6. ASSUME NEW u \in DOMAIN E.events[n]
          PROVE  u \in Kept /\ Orderly(E.events[n][u], u, c)
      <4>1. u \in DOMAIN D.events[n]
        BY <3>4, <3>6
      <4>2. CASE u = t
        <5>1. E.events[n][u] = left
          BY <3>4, <4>1, <4>2
        <5> QED BY <2>4, <2>5, <2>7, <4>2, <5>1
      <4>3. CASE u # t
        <5>1. E.events[n][u] = D.events[n][u]
          BY <3>4, <4>1, <4>3
        <5> QED BY <2>6, <4>1, <5>1
      <4> QED BY <4>2, <4>3
    <3>7. /\ E.attaches + D.leaked = D.attaches + E.leaked
                                     + (IF Has(E, n, "focusin") THEN 1 ELSE 0)
                                     - (IF Has(D, n, "focusin") THEN 1 ELSE 0)
          /\ E.attaches \in Int /\ E.leaked \in Nat
      BY <2>6, <3>3, <3>5
    <3>8. /\ \A u \in Kept \ {"focusin"} : <<n, u>> \in E.bound <=> Has(E, n, u)
          /\ E.bound \subseteq Node \X Kept
          /\ E.capture \in BOOLEAN /\ (E.capture <=> E.attaches > 0)
          /\ \A m \in Node \ {n}, u \in Kept : <<m, u>> \in E.bound <=> <<m, u>> \in D.bound
      BY <2>6, <3>3, <3>5
    <3>9. Wired(E, c)
      <4>1. c <= c
        OBVIOUS
      <4> QED BY ONLY <4>1, <1>0, <2>1, <3>3, <3>4, <3>6, <3>7, <3>8, WiredAt, c \in Nat,
                      n \in Node
    <3>10. Held(E, c)
      BY <1>0, <3>2, <3>3, <3>9, TreeSame, WaitingSame DEF Held
    <3> QED BY <3>3, <3>10 DEF E
  <2>8. CASE left.list = <<>>
    <3>1. E = [T EXCEPT !.events[n] = lists]
      BY <2>3, <2>8
    <3>2. /\ DOMAIN E = Fields
          /\ SameBut(D, E, {"events", "bound", "attaches", "capture", "leaked"})
          /\ E.events = [D.events EXCEPT ![n] = lists]
          /\ E.bound = T.bound /\ E.attaches = T.attaches /\ E.capture = T.capture
          /\ E.leaked = T.leaked
      <4> HIDE DEF lists
      <4> QED BY <2>2, <3>1 DEF SameBut, Fields
    <3>3. /\ E.made = D.made /\ E.parent = D.parent
          /\ E.queue = D.queue /\ E.count = D.count /\ E.waits = D.waits
      BY <3>2 DEF SameBut, Fields
    <3>4. /\ DOMAIN E.events = Node /\ E.events[n] = lists
          /\ \A m \in Node \ {n} : E.events[m] = D.events[m]
      BY <1>0, <3>2
    <3>5. \A u : Has(E, n, u) <=> Has(D, n, u) /\ u # t
      BY <3>4 DEF Has
    <3>6. ASSUME NEW u \in DOMAIN E.events[n]
          PROVE  u \in Kept /\ Orderly(E.events[n][u], u, c)
      BY <2>6, <3>4, <3>6
    <3>7. /\ E.capture \in BOOLEAN /\ (E.capture <=> E.attaches > 0)
          /\ E.attaches + D.leaked = D.attaches + E.leaked
                                     + (IF Has(E, n, "focusin") THEN 1 ELSE 0)
                                     - (IF Has(D, n, "focusin") THEN 1 ELSE 0)
          /\ E.attaches \in Int /\ E.leaked \in Nat
      <4>1. Has(E, n, "focusin") <=> Has(D, n, "focusin") /\ t # "focusin"
        BY <3>5
      <4>2. CASE t # "focusin"
        <5>1. E.attaches = D.attaches /\ E.capture = D.capture /\ E.leaked = D.leaked
          BY <2>2, <3>2, <4>2
        <5> QED BY <2>6, <4>1, <4>2, <5>1
      <4>3. CASE t = "focusin" /\ ~torn
        <5>1. /\ E.attaches = D.attaches /\ E.capture = D.capture
              /\ E.leaked = D.leaked + 1 /\ Has(D, n, "focusin")
          BY <1>2, <2>2, <3>2, <4>3
        <5> QED BY <2>6, <4>1, <4>3, <5>1
      <4>4. CASE torn
        <5>0. t = "focusin"
          BY <4>4
        <5>1. /\ E.attaches = D.attaches - 1 /\ Has(D, n, "focusin")
              /\ E.leaked = D.leaked
          BY <1>2, <2>2, <3>2, <4>4
        <5>2. E.capture = (D.capture /\ (1 = 0 \/ D.attaches # 1))
          BY <2>2, <3>2, <4>4, ZenonT(60)
        <5>3. D.attaches >= 1
          <6>1. n \in Wanting(D) /\ D.attaches = Cardinality(Wanting(D)) + D.leaked
                /\ D.leaked \in Nat
            BY <1>0, <5>1 DEF Wired, Wanting
          <6>2. Cardinality(Wanting(D)) # 0
            BY <6>1, WantingFinite, FS_EmptySet
          <6> QED BY <6>1, <6>2, WantingFinite
        <5>4. E.capture \in BOOLEAN
          BY ONLY <5>2, ZenonT(60)
        <5>5. E.capture <=> D.capture /\ D.attaches # 1
          <6>1. 1 # 0
            OBVIOUS
          <6> QED BY ONLY <5>2, <6>1, ZenonT(60)
        <5>6. D.capture /\ D.attaches # 1 <=> D.attaches - 1 > 0
          BY <2>6, <5>3
        <5> QED BY <2>6, <4>1, <5>0, <5>1, <5>4, <5>5, <5>6
      <4> QED BY <4>2, <4>3, <4>4
    <3>8. /\ \A u \in Kept \ {"focusin"} : <<n, u>> \in E.bound <=> Has(E, n, u)
          /\ E.bound \subseteq Node \X Kept
          /\ \A m \in Node \ {n}, u \in Kept : <<m, u>> \in E.bound <=> <<m, u>> \in D.bound
      BY <2>2, <2>6, <3>2, <3>5
    <3>9. Wired(E, c)
      <4>1. c <= c
        OBVIOUS
      <4> QED BY ONLY <4>1, <1>0, <2>1, <3>3, <3>4, <3>6, <3>7, <3>8, WiredAt, c \in Nat,
                      n \in Node
    <3>10. Held(E, c)
      BY <1>0, <3>2, <3>3, <3>9, TreeSame, WaitingSame DEF Held
    <3> QED BY <3>3, <3>10 DEF E
  <2> QED BY <2>7, <2>8
<1> QED BY <1>1, <1>2

LEMMA OffIsHeld ==
  ASSUME NEW D, NEW c \in Nat, Held(D, c), NEW n \in Node, NEW t, NEW selector, NEW ids
  PROVE  Held(Off(D, n, t, selector, ids), c) /\ Off(D, n, t, selector, ids).made = D.made
BY DropIsHeld DEF Off

LEMMA OffAllIsHeld ==
  ASSUME NEW D, NEW c \in Nat, Held(D, c), NEW n \in Node
  PROVE  Held(OffAll(D, n), c) /\ OffAll(D, n).made = D.made
<1> DEFINE Less(E, t) == Drop(E, n, t, t, Listed(E, n, t))
<1>1. \A E, t : Held(E, c) => Held(Less(E, t), c) /\ Less(E, t).made = E.made
  BY DropIsHeld
<1>2. OffAll(D, n) = Less(Less(Less(Less(D, "click"), "focus"), "focusin"), "mouseover")
  BY DEF OffAll
<1> HIDE DEF Less
<1> QED BY <1>1, <1>2

LEMMA OneFirstIsHeld ==
  ASSUME NEW D, NEW c \in Nat, Held(D, c), NEW q, q.on \in Node
  PROVE  Held(OneFirst(D, q), c) /\ OneFirst(D, q).made = D.made
BY OffIsHeld DEF OneFirst

-----------------------------------------------------------------------------
(* remove, empty and detach *)

LEMMA CountParts ==
  ASSUME NEW S, NEW T, IsFiniteSet(S), IsFiniteSet(T), S \cap T = {}
  PROVE  /\ IsFiniteSet(S \cup T)
         /\ Cardinality(S \cup T) = Cardinality(S) + Cardinality(T)
         /\ Cardinality(S) \in Nat /\ Cardinality(T) \in Nat
<1>1. Cardinality(S) \in Nat /\ Cardinality(T) \in Nat
  BY FS_CardinalityType
<1>2. Cardinality(S \cap T) = 0
  BY FS_EmptySet
<1>3. /\ IsFiniteSet(S \cup T)
      /\ Cardinality(S \cup T) = Cardinality(S) + Cardinality(T) - Cardinality(S \cap T)
  BY FS_Union
<1> QED BY <1>1, <1>2, <1>3

\* What cleanData leaves of events, listeners and queues.
LEMMA CleanWires ==
  ASSUME NEW D, NEW c, Held(D, c), NEW S \in SUBSET Node
  PROVE  LET E == CleanData(D, S)
             ended == {n \in S : "focusin" \in TornDown(D, n)}
             left == {n \in S : Has(D, n, "focusin")} \ ended
             k == Cardinality(ended)
         IN /\ DOMAIN E = Fields /\ E.made = D.made /\ E.parent = D.parent
            /\ E.events = [n \in Node |-> IF n \in S THEN NoEvents ELSE D.events[n]]
            /\ E.bound = {b \in D.bound : b[1] \notin S}
            /\ E.attaches = D.attaches - k
            /\ E.capture = (D.capture /\ (k = 0 \/ D.attaches # k))
            /\ E.leaked = D.leaked + Cardinality(left)
            /\ E.queue = [n \in Node |-> IF n \in S THEN <<>> ELSE D.queue[n]]
            /\ E.waits = D.waits \ S /\ E.count = D.count
<1> DEFINE ended == {n \in S : "focusin" \in TornDown(D, n)}
           left == {n \in S : Has(D, n, "focusin")} \ ended
           k == Cardinality(ended)
           T == Detached(D, k)
           U == Unbound(D, S)
           E == CleanData(D, S)
<1>0. DOMAIN D = Fields
  BY DEF Held
<1>1. /\ DOMAIN T = Fields /\ SameBut(D, T, {"attaches", "capture"})
      /\ T.attaches = D.attaches - k
      /\ T.capture = (D.capture /\ (k = 0 \/ D.attaches # k))
  <2> HIDE DEF k
  <2> QED BY <1>0 DEF Detached, SameBut, Fields
<1>2. U = [T EXCEPT !.bound = {b \in @ : b[1] \notin S}, !.leaked = @ + Cardinality(left)]
  BY DEF Unbound
<1> HIDE DEF T, left, ended
<1>3. /\ DOMAIN U = Fields /\ SameBut(T, U, {"bound", "leaked"})
      /\ U.bound = {b \in T.bound : b[1] \notin S} /\ U.leaked = T.leaked + Cardinality(left)
  <2> HIDE DEF U
  <2> QED BY <1>1, <1>2 DEF SameBut, Fields
<1>4. E = Forgotten(U, S)
  BY DEF CleanData
<1> HIDE DEF U, E, k
<1>5. /\ T.made = D.made /\ T.parent = D.parent /\ T.events = D.events /\ T.bound = D.bound
      /\ T.leaked = D.leaked /\ T.queue = D.queue /\ T.waits = D.waits /\ T.count = D.count
  BY <1>1 DEF SameBut, Fields
<1>6. /\ U.made = D.made /\ U.parent = D.parent /\ U.events = D.events
      /\ U.queue = D.queue /\ U.waits = D.waits /\ U.count = D.count
      /\ U.attaches = T.attaches /\ U.capture = T.capture
  BY <1>3, <1>5 DEF SameBut, Fields
<1>7. /\ DOMAIN E = Fields
      /\ E.made = U.made /\ E.parent = U.parent /\ E.bound = U.bound
      /\ E.attaches = U.attaches /\ E.capture = U.capture /\ E.leaked = U.leaked
      /\ E.count = U.count /\ E.waits = U.waits \ S
  BY <1>3, <1>4 DEF Forgotten, Fields
<1>8. /\ E.events = [n \in Node |-> IF n \in S THEN NoEvents ELSE U.events[n]]
      /\ E.queue = [n \in Node |-> IF n \in S THEN <<>> ELSE U.queue[n]]
  BY <1>3, <1>4 DEF Forgotten, Fields
<1>9. E.events = [n \in Node |-> IF n \in S THEN NoEvents ELSE D.events[n]]
  BY <1>6, <1>8
<1>10. E.queue = [n \in Node |-> IF n \in S THEN <<>> ELSE D.queue[n]]
  BY <1>6, <1>8
<1>11. /\ E.made = D.made /\ E.parent = D.parent /\ E.bound = {b \in D.bound : b[1] \notin S}
       /\ E.attaches = D.attaches - k /\ E.leaked = D.leaked + Cardinality(left)
       /\ E.waits = D.waits \ S /\ E.count = D.count
  BY <1>1, <1>3, <1>5, <1>6, <1>7
<1>12. E.capture = (D.capture /\ (k = 0 \/ D.attaches # k))
  BY <1>1, <1>6, <1>7, ZenonT(60)
<1> QED BY <1>7, <1>9, <1>10, <1>11, <1>12 DEF E, k, left, ended

\* cleanData: the count goes down for what it takes off, and the rest is leaked.
LEMMA CleanIsHeld ==
  ASSUME NEW D, NEW c, Held(D, c), NEW S \in SUBSET Node
  PROVE  LET E == CleanData(D, S)
         IN Held(E, c) /\ E.made = D.made /\ E.parent = D.parent
<1> DEFINE E == CleanData(D, S)
           ended == {n \in S : "focusin" \in TornDown(D, n)}
           left == {n \in S : Has(D, n, "focusin")} \ ended
           k == Cardinality(ended)
           W == Wanting(D)
           V == Wanting(E)
<1>0. Tree(D) /\ Wired(D, c) /\ Waiting(D)
  BY DEF Held
<1>1. /\ DOMAIN E = Fields /\ E.made = D.made /\ E.parent = D.parent
      /\ E.events = [n \in Node |-> IF n \in S THEN NoEvents ELSE D.events[n]]
      /\ E.bound = {b \in D.bound : b[1] \notin S}
      /\ E.attaches = D.attaches - k
      /\ E.capture = (D.capture /\ (k = 0 \/ D.attaches # k))
      /\ E.leaked = D.leaked + Cardinality(left)
      /\ E.queue = [n \in Node |-> IF n \in S THEN <<>> ELSE D.queue[n]]
      /\ E.waits = D.waits \ S /\ E.count = D.count
  BY CleanWires
<1>2. /\ ended \subseteq W /\ left \subseteq W /\ ended \cap left = {}
      /\ ended \cup left = W \cap S
  <2>1. \A n \in S : n \in ended => Has(D, n, "focusin")
    BY DEF TornDown, Has
  <2>2. \A n \in S : Has(D, n, "focusin") <=> n \in W
    BY DEF Wanting
  <2>3. \A n : n \in ended => n \in S
    OBVIOUS
  <2>4. \A n : n \in left <=> n \in S /\ Has(D, n, "focusin") /\ n \notin ended
    OBVIOUS
  <2> HIDE DEF ended, left, W
  <2> QED BY <2>1, <2>2, <2>3, <2>4
<1> HIDE DEF E, ended, left
<1>3. \A n \in Node : /\ n \in S => E.events[n] = NoEvents /\ DOMAIN E.events[n] = {}
                      /\ n \notin S => E.events[n] = D.events[n]
  BY <1>1 DEF NoEvents
<1>4. V = W \ S
  BY <1>3 DEF Wanting, Has
<1>5. /\ Cardinality(W) = Cardinality(V) + (k + Cardinality(left))
      /\ Cardinality(V) \in Nat /\ k \in Nat /\ Cardinality(left) \in Nat
  <2> HIDE DEF W, V
  <2>1. IsFiniteSet(W)
    BY WantingFinite DEF W
  <2>2. IsFiniteSet(V) /\ IsFiniteSet(ended) /\ IsFiniteSet(left)
    BY <1>2, <1>4, <2>1, FS_Subset
  <2>3. /\ Cardinality(ended \cup left) = k + Cardinality(left) /\ IsFiniteSet(ended \cup left)
        /\ k \in Nat /\ Cardinality(left) \in Nat
    BY <1>2, <2>2, CountParts
  <2>4. W = V \cup (ended \cup left) /\ V \cap (ended \cup left) = {}
    BY <1>2, <1>4
  <2>5. /\ Cardinality(W) = Cardinality(V) + Cardinality(ended \cup left)
        /\ Cardinality(V) \in Nat
    BY <2>2, <2>3, <2>4, CountParts
  <2> QED BY <2>3, <2>5
<1>6. /\ E.attaches \in Nat /\ E.leaked \in Nat
      /\ E.attaches = Cardinality(V) + E.leaked
      /\ E.capture \in BOOLEAN /\ (E.capture <=> E.attaches > 0)
  <2>1. /\ D.attaches = Cardinality(W) + D.leaked /\ D.leaked \in Nat /\ D.attaches \in Nat
        /\ D.capture \in BOOLEAN /\ (D.capture <=> D.attaches > 0)
    BY <1>0 DEF Wired
  <2> DEFINE x == Cardinality(V)
             y == Cardinality(left)
             w == Cardinality(W)
  <2>2. /\ x \in Nat /\ y \in Nat /\ k \in Nat /\ w = x + (k + y)
        /\ D.attaches = w + D.leaked /\ D.leaked \in Nat
        /\ E.attaches = D.attaches - k /\ E.leaked = D.leaked + y
    BY <1>1, <1>5, <2>1
  <2> HIDE DEF x, y, w, k
  <2>3. E.attaches \in Nat /\ E.leaked \in Nat /\ E.attaches = x + E.leaked
    BY ONLY <2>2
  <2>4. E.capture \in BOOLEAN /\ (E.capture <=> D.capture /\ (k = 0 \/ D.attaches # k))
    BY ONLY <1>1, ZenonT(60)
  <2>5. D.attaches > 0 /\ (k = 0 \/ D.attaches # k) <=> E.attaches > 0
    BY ONLY <2>2, <2>3
  <2> QED BY <2>1, <2>3, <2>4, <2>5 DEF x
<1>7. /\ E.bound \subseteq Node \X Kept
      /\ \A n \in Node, t \in Kept \ {"focusin"} : <<n, t>> \in E.bound <=> Has(E, n, t)
  <2>1. /\ D.bound \subseteq Node \X Kept
        /\ \A n \in Node, t \in Kept \ {"focusin"} : <<n, t>> \in D.bound <=> Has(D, n, t)
    BY <1>0 DEF Wired
  <2>2. ASSUME NEW n \in Node, NEW t \in Kept \ {"focusin"}
        PROVE  <<n, t>> \in E.bound <=> Has(E, n, t)
    <3>1. CASE n \in S
      BY <1>1, <1>3, <3>1 DEF Has
    <3>2. CASE n \notin S
      BY <1>1, <1>3, <2>1, <3>2 DEF Has
    <3> QED BY <3>1, <3>2
  <2> QED BY <1>1, <2>1, <2>2
<1>8. \A n \in Node : \A t \in DOMAIN E.events[n] : t \in Kept /\ Orderly(E.events[n][t], t, c)
  BY <1>0, <1>3 DEF Wired
<1>9. \A n \in Node \ E.made : DOMAIN E.events[n] = {}
  BY <1>0, <1>1, <1>3 DEF Wired
<1>10. DOMAIN E.events = Node
  BY <1>1
<1>11. Wired(E, c)
  BY ONLY <1>6, <1>7, <1>8, <1>9, <1>10 DEF Wired
<1>12. Waiting(E)
  <2>1. E.queue \in [Node -> Seq(Nat)]
    BY <1>0, <1>1 DEF Waiting
  <2>2. IsFiniteSet(D.waits) /\ Cardinality(D.waits) \in Nat
    BY <1>0, ElementsAssumption, FS_Subset, FS_CardinalityType DEF Waiting
  <2>3. Cardinality(E.waits) <= Cardinality(D.waits) /\ Cardinality(E.waits) \in Nat
    <3>1. E.waits \in SUBSET D.waits
      BY <1>1
    <3> QED BY <2>2, <3>1, FS_Subset, FS_CardinalityType
  <2>4. E.count = D.count /\ D.count \in Nat /\ Cardinality(D.waits) <= D.count
        /\ E.waits \subseteq Node
    BY <1>0, <1>1 DEF Waiting
  <2>5. Cardinality(E.waits) <= E.count
    BY <2>2, <2>3, <2>4
  <2> QED BY <2>1, <2>4, <2>5 DEF Waiting
<1>13. Tree(E)
  BY <1>0, <1>1, TreeSame
<1>14. Held(E, c) /\ E.made = D.made /\ E.parent = D.parent
  BY <1>1, <1>11, <1>12, <1>13 DEF Held
<1> QED BY <1>14 DEF E

LEMMA LinkedIsHeld ==
  ASSUME NEW D, NEW c, Held(D, c), NEW n \in Node, NEW p, NEW U \in SUBSET Node,
         p = None \/ (p \in U /\ p \in D.made), UpTo(D, U), n \notin U
  PROVE  LET E == Linked(D, n, p)
         IN Held(E, c) /\ UpTo(E, U) /\ SameBut(D, E, {"parent"})
<1> DEFINE E == Linked(D, n, p)
<1>1. DOMAIN D = Fields /\ Tree(D) /\ Wired(D, c) /\ Waiting(D)
  BY DEF Held
<1>2. /\ DOMAIN E = Fields /\ SameBut(D, E, {"parent"})
      /\ E.parent = [D.parent EXCEPT ![n] = p]
  BY <1>1 DEF Linked, SameBut, Fields
<1> HIDE DEF E
<1>3. /\ E.made = D.made /\ E.events = D.events /\ E.bound = D.bound
      /\ E.attaches = D.attaches /\ E.capture = D.capture /\ E.leaked = D.leaked
      /\ E.queue = D.queue /\ E.count = D.count /\ E.waits = D.waits
  BY <1>2 DEF SameBut, Fields
<1>4. Tree(E) /\ UpTo(E, U)
  BY <1>1, <1>2, <1>3, LinkedIsTree
<1>5. Held(E, c)
  BY <1>1, <1>2, <1>3, <1>4, WiredSame, WaitingSame DEF Held
<1> QED BY <1>2, <1>4, <1>5 DEF E

\* Taken out of its place.
LEMMA UnlinkedIsHeld ==
  ASSUME NEW D, NEW c, Held(D, c), NEW n \in Node
  PROVE  LET E == Linked(D, n, None)
         IN /\ Held(E, c) /\ SameBut(D, E, {"parent"})
            /\ \A m \in Node \ {n} : E.parent[m] = D.parent[m]
            /\ \A U \in SUBSET Node : UpTo(D, U) => UpTo(E, U)
<1> DEFINE E == Linked(D, n, None)
<1>1. DOMAIN D = Fields /\ D.parent \in [Node -> D.made \cup {None}]
  BY DEF Held, Tree
<1>2. E.parent = [D.parent EXCEPT ![n] = None]
  BY <1>1 DEF Linked, Fields
<1>3. Held(E, c) /\ SameBut(D, E, {"parent"})
  <2>1. UpTo(D, {}) /\ n \notin {}
    BY DEF UpTo
  <2> QED BY <2>1, LinkedIsHeld
<1> HIDE DEF E
<1>4. E.parent[n] = None /\ \A m \in Node \ {n} : E.parent[m] = D.parent[m]
  BY <1>1, <1>2
<1>5. ASSUME NEW U \in SUBSET Node, UpTo(D, U) PROVE UpTo(E, U)
  BY <1>4, <1>5 DEF UpTo
<1> QED BY <1>3, <1>4, <1>5 DEF E

LEMMA FragmentIsHeld ==
  ASSUME NEW D, NEW c, Held(D, c), NEW n \in Node
  PROVE  LET E == Fragment(D, n)
         IN /\ Held(E, c) /\ E.made = D.made
            /\ \A m \in Node \ {n} : E.parent[m] = D.parent[m]
            /\ \A U \in SUBSET Node : UpTo(D, U) => UpTo(E, U)
<1> DEFINE E == Fragment(D, n)
           L == Linked(D, n, None)
           x == D.evaled \cup (IF Contained(D, n) THEN Scripts(D, n) ELSE {})
<1>1. /\ Held(L, c) /\ SameBut(D, L, {"parent"})
      /\ \A m \in Node \ {n} : L.parent[m] = D.parent[m]
      /\ \A U \in SUBSET Node : UpTo(D, U) => UpTo(L, U)
  BY UnlinkedIsHeld
<1>2. L.evaled = D.evaled /\ L.made = D.made
  BY <1>1 DEF SameBut, Fields
<1>3. E = [L EXCEPT !.evaled = x]
  <2>1. E = [L EXCEPT !.evaled = @ \cup (IF Contained(D, n) THEN Scripts(D, n) ELSE {})]
    BY DEF Fragment
  <2> HIDE DEF L, E
  <2> QED BY <1>2, <2>1
<1> HIDE DEF L, x, E
<1>4. DOMAIN E = Fields /\ SameBut(L, E, Beside) /\ E.parent = L.parent
  BY <1>1, <1>3 DEF Held, SameBut, Beside, Fields
<1>5. Held(E, c) /\ E.made = D.made
  BY <1>1, <1>2, <1>4, HeldSame
<1>6. \A U \in SUBSET Node : UpTo(D, U) => UpTo(E, U)
  BY <1>1, <1>4 DEF UpTo
<1> QED BY <1>1, <1>4, <1>5, <1>6 DEF E

\* What a method writes besides.
LEMMA MarkIsHeld ==
  ASSUME NEW D, NEW c, Held(D, c), NEW S
  PROVE  LET E == [D EXCEPT !.clean = @ \cup S]
         IN Held(E, c) /\ E.made = D.made /\ E.parent = D.parent
<1> DEFINE E == [D EXCEPT !.clean = @ \cup S]
<1>1. DOMAIN E = Fields /\ SameBut(D, E, Beside) /\ E.parent = D.parent
  BY DEF Held, SameBut, Beside, Fields
<1> HIDE DEF E
<1>2. Held(E, c) /\ E.made = D.made
  BY <1>1, HeldSame
<1> QED BY <1>1, <1>2 DEF E

LEMMA MovedIsHeld ==
  ASSUME NEW D, NEW c, Held(D, c)
  PROVE  Held(Moved(D), c) /\ Moved(D).made = D.made
<1> DEFINE E == Moved(D)
<1>1. DOMAIN E = Fields /\ SameBut(D, E, Beside)
  BY DEF Moved, Held, SameBut, Beside, Fields
<1> HIDE DEF E
<1>2. Held(E, c) /\ E.made = D.made
  BY <1>1, HeldSame
<1> QED BY <1>2 DEF E

LEMMA GetAllNodes ==
  ASSUME NEW D, NEW c, Held(D, c), NEW n
  PROVE  GetAll(D, n) \in SUBSET D.made /\ GetAll(D, n) \in SUBSET Node
BY DEF Held, Tree, GetAll

LEMMA RemoveIsHeld ==
  ASSUME NEW D, NEW c, Held(D, c), NEW n \in Node
  PROVE  Held(Remove(D, n), c) /\ Remove(D, n).made = D.made
<1> DEFINE S == GetAll(D, n)
           W == CleanData(D, S)
           L == Linked(W, n, None)
           E == Remove(D, n)
<1>1. S \in SUBSET Node
  BY GetAllNodes
<1>2. E = [L EXCEPT !.clean = @ \cup S]
  BY DEF Remove
<1> HIDE DEF S
<1>3. Held(W, c) /\ W.made = D.made
  BY <1>1, CleanIsHeld
<1> HIDE DEF W
<1>4. Held(L, c) /\ L.made = D.made
  <2>1. Held(L, c) /\ SameBut(W, L, {"parent"})
    BY <1>3, UnlinkedIsHeld
  <2> QED BY <1>3, <2>1 DEF SameBut, Fields
<1> HIDE DEF L, E
<1>5. Held(E, c) /\ E.made = D.made
  BY <1>2, <1>4, MarkIsHeld
<1> QED BY <1>5 DEF E

LEMMA EmptyIsHeld ==
  ASSUME NEW D, NEW c, Held(D, c), NEW n \in Node
  PROVE  LET E == Empty(D, n)
         IN /\ Held(E, c) /\ E.made = D.made
            /\ \A U \in SUBSET Node : UpTo(D, U) => UpTo(E, U)
<1> DEFINE S == GetAll(D, n) \ {n}
           W == CleanData(D, S)
           E == Empty(D, n)
           parent == [m \in Node |-> IF D.parent[m] = n THEN None ELSE D.parent[m]]
<1>1. S \in SUBSET Node
  BY GetAllNodes
<1>2. E = [W EXCEPT !.parent = [m \in Node |-> IF @[m] = n THEN None ELSE @[m]],
                    !.clean = @ \cup S]
  BY DEF Empty
<1> HIDE DEF S
<1>3. Held(W, c) /\ W.made = D.made /\ W.parent = D.parent
  BY <1>1, CleanIsHeld
<1> HIDE DEF W, E
<1>4. DOMAIN W = Fields /\ Tree(W) /\ Wired(W, c) /\ Waiting(W)
  BY <1>3 DEF Held
<1>5. E = [W EXCEPT !.parent = parent, !.clean = @ \cup S]
  BY <1>2, <1>3
<1>6. DOMAIN E = Fields /\ SameBut(W, E, {"parent", "clean"}) /\ E.parent = parent
  <2> HIDE DEF parent
  <2> QED BY <1>4, <1>5 DEF SameBut, Fields
<1>7. /\ E.made = W.made /\ E.events = W.events /\ E.bound = W.bound
      /\ E.attaches = W.attaches /\ E.capture = W.capture /\ E.leaked = W.leaked
      /\ E.queue = W.queue /\ E.count = W.count /\ E.waits = W.waits
  BY <1>6 DEF SameBut, Fields
<1>8. \A m \in Node : E.parent[m] = None \/ E.parent[m] = D.parent[m]
  BY <1>6
<1>9. Tree(E)
  <2>1. PICK r \in [Node -> Nat], k \in Nat :
          \A m \in Node : r[m] < k /\ (D.parent[m] # None => r[D.parent[m]] < r[m])
    BY <1>3, <1>4 DEF Tree
  <2>2. \A m \in Node : r[m] < k /\ (E.parent[m] # None => r[E.parent[m]] < r[m])
    BY <1>8, <2>1
  <2>3. E.parent \in [Node -> E.made \cup {None}]
    <3>1. \A m \in Node : D.parent[m] \in D.made \cup {None}
      BY <1>3, <1>4 DEF Tree
    <3> QED BY <1>3, <1>6, <1>7, <3>1
  <2>4. E.made \subseteq Node
    BY <1>4, <1>7 DEF Tree
  <2> QED BY <2>2, <2>3, <2>4 DEF Tree
<1>10. Held(E, c)
  BY <1>4, <1>6, <1>7, <1>9, WiredSame, WaitingSame DEF Held
<1>11. ASSUME NEW U \in SUBSET Node, UpTo(D, U) PROVE UpTo(E, U)
  BY <1>8, <1>11 DEF UpTo
<1> QED BY <1>3, <1>7, <1>10, <1>11 DEF E

-----------------------------------------------------------------------------
(* clone *)

\* What n contains is n and what hangs below it.
LEMMA GetAllUp ==
  ASSUME NEW D, NEW c, Held(D, c), NEW n \in D.made
  PROVE  /\ n \in GetAll(D, n)
         /\ \A m \in GetAll(D, n) \ {n} : D.parent[m] \in GetAll(D, n)
<1>1. Tree(D) /\ D.made \subseteq Node /\ n \in Node
  BY DEF Held, Tree
<1>2. n \in GetAll(D, n)
  BY <1>1, AncestorsUp DEF GetAll
<1>3. ASSUME NEW m \in GetAll(D, n) \ {n} PROVE D.parent[m] \in GetAll(D, n)
  <2>1. m \in Node /\ n \in Ancestors(D, m)
    BY <1>1 DEF GetAll
  <2>2. n \in Ancestors(D, D.parent[m])
    BY <1>1, <1>3, <2>1, AncestorsUp
  <2>3. D.parent[m] # None
    BY <1>1, <2>2, AncestorsUp
  <2>4. D.parent[m] \in D.made
    BY <1>1, <2>1, <2>3 DEF Tree
  <2> QED BY <2>2, <2>4 DEF GetAll
<1> QED BY <1>2, <1>3

\* What G has is copied to new nodes, one for each.
Copying(D, n, G, f) ==
  /\ G \in SUBSET D.made /\ n \in G
  /\ \A m \in G \ {n} : D.parent[m] \in G
  /\ f \in [G -> Spare \ D.made] /\ \A m, k \in G : f[m] = f[k] => m = k

LEMMA CopiedIsHeld ==
  ASSUME NEW D, NEW c, Held(D, c), NEW n, NEW G, NEW f, Copying(D, n, G, f)
  PROVE  LET E == Copied(D, n, f)
             K == {f[m] : m \in G}
         IN /\ Held(E, c) /\ E.made = D.made \cup K /\ E.events = D.events
            /\ \A k \in Node \ K : E.parent[k] = D.parent[k]
<1> DEFINE K == {f[m] : m \in G}
           Of(k) == CHOOSE m \in G : f[m] = k
           E == Copied(D, n, f)
           parent == [k \in Node |-> IF k \notin K THEN D.parent[k]
                                     ELSE IF Of(k) = n THEN None
                                     ELSE f[D.parent[Of(k)]]]
           origin == [k \in Node |-> IF k \notin K THEN D.origin[k]
                                     ELSE IF Of(k) \in Spare THEN D.origin[Of(k)]
                                     ELSE Of(k)]
           From(x) == [k \in Node |-> x[IF k \in K THEN Of(k) ELSE k]]
<1>0. /\ DOMAIN D = Fields /\ Tree(D) /\ Wired(D, c) /\ Waiting(D) /\ D.made \subseteq Node
      /\ DOMAIN f = G /\ G \subseteq Node
  BY DEF Held, Tree, Copying
<1>1. E = [D EXCEPT !.made = @ \cup K, !.parent = parent, !.origin = origin,
                    !.attr = From(D.attr), !.style = From(D.style),
                    !.class = From(D.class)]
  BY <1>0 DEF Copied
<1>2. /\ K \subseteq Node /\ K \cap D.made = {}
      /\ \A m \in G : f[m] \in K
      /\ \A k \in K : Of(k) \in G /\ f[Of(k)] = k
      /\ \A m \in G : Of(f[m]) = m
  <2>1. ASSUME NEW k \in K PROVE Of(k) \in G /\ f[Of(k)] = k
    <3>1. \E m \in G : f[m] = k
      OBVIOUS
    <3> QED BY <3>1
  <2>2. ASSUME NEW m \in G PROVE Of(f[m]) = m /\ f[m] \in K
    <3>1. f[m] \in K
      OBVIOUS
    <3>2. Of(f[m]) \in G /\ f[Of(f[m])] = f[m]
      BY <2>1, <3>1
    <3> HIDE DEF Of, K
    <3> QED BY <3>1, <3>2 DEF Copying
  <2>3. \A m \in G : f[m] \in Node /\ f[m] \notin D.made
    BY DEF Copying, Node
  <2> HIDE DEF Of
  <2> QED BY <2>1, <2>2, <2>3
<1> HIDE DEF E
<1>3. /\ DOMAIN E = Fields
      /\ SameBut(D, E, {"made", "parent", "origin", "attr", "style", "class"})
      /\ E.made = D.made \cup K /\ E.parent = parent
  <2> HIDE DEF K, From, origin, parent
  <2> QED BY <1>0, <1>1 DEF SameBut, Fields
<1> HIDE DEF K, Of
<1>4. /\ \A k \in Node \ K : E.parent[k] = D.parent[k]
      /\ \A k \in K : E.parent[k] = IF Of(k) = n THEN None ELSE f[D.parent[Of(k)]]
  BY <1>2, <1>3
<1> HIDE DEF parent
<1>5. /\ E.events = D.events /\ E.bound = D.bound /\ E.attaches = D.attaches
      /\ E.capture = D.capture /\ E.leaked = D.leaked
      /\ E.queue = D.queue /\ E.count = D.count /\ E.waits = D.waits
  BY <1>3 DEF SameBut, Fields
<1>6. Tree(E)
  <2>1. PICK r \in [Node -> Nat], k \in Nat :
          \A m \in Node : r[m] < k /\ (D.parent[m] # None => r[D.parent[m]] < r[m])
    BY <1>0 DEF Tree
  <2> DEFINE s == [m \in Node |-> IF m \in K THEN r[Of(m)] ELSE r[m]]
  <2>2. s \in [Node -> Nat] /\ \A m \in Node : s[m] < k
    BY <1>0, <1>2, <2>1
  <2>3. \A m \in Node : D.parent[m] \in D.made \cup {None}
    BY <1>0 DEF Tree
  <2>4. ASSUME NEW m \in Node
        PROVE  /\ E.parent[m] \in E.made \cup {None}
               /\ E.parent[m] # None => s[E.parent[m]] < s[m]
    <3>1. CASE m \notin K
      <4>1. E.parent[m] = D.parent[m] /\ D.parent[m] \in D.made \cup {None}
        BY <1>4, <2>3, <3>1
      <4>2. D.parent[m] # None => D.parent[m] \notin K /\ D.parent[m] \in Node
        BY <1>0, <1>2, <4>1
      <4>3. D.parent[m] # None => s[D.parent[m]] = r[D.parent[m]]
        BY <4>2
      <4>4. s[m] = r[m]
        BY <3>1
      <4> HIDE DEF s
      <4> QED BY <1>3, <2>1, <4>1, <4>3, <4>4
    <3>2. CASE m \in K
      <4>1. E.parent[m] = IF Of(m) = n THEN None ELSE f[D.parent[Of(m)]]
        BY <1>4, <3>2
      <4>2. Of(m) \in G /\ s[m] = r[Of(m)]
        BY <1>2, <3>2
      <4>3. CASE Of(m) = n
        BY <4>1, <4>3
      <4>4. CASE Of(m) # n
        <5> DEFINE q == D.parent[Of(m)]
        <5>1. q \in G
          BY <4>2, <4>4 DEF Copying
        <5>2. f[q] \in K /\ Of(f[q]) = q /\ f[q] \in Node
          BY <1>2, <5>1
        <5>3. s[f[q]] = r[q]
          BY <5>2
        <5>4. q # None
          BY <1>0, <5>1, NoneIsNoNode
        <5>5. r[q] < r[Of(m)]
          BY <1>0, <2>1, <4>2, <5>4
        <5> HIDE DEF q, s
        <5>6. E.parent[m] = f[q]
          BY <4>1, <4>4 DEF q
        <5> QED BY <1>3, <4>2, <5>2, <5>3, <5>5, <5>6
      <4> QED BY <4>3, <4>4
    <3> QED BY <3>1, <3>2
  <2> HIDE DEF s
  <2>5. E.made \subseteq Node
    BY <1>0, <1>2, <1>3
  <2>6. E.parent \in [Node -> E.made \cup {None}]
    <3>1. DOMAIN E.parent = Node /\ E.parent = [m \in Node |-> E.parent[m]]
      BY <1>3 DEF parent
    <3> QED BY <2>4, <3>1
  <2> QED BY <2>2, <2>4, <2>5, <2>6 DEF Tree
<1>7. Wired(E, c)
  <2>1. Wanting(E) = Wanting(D) /\ \A m, t : Has(E, m, t) <=> Has(D, m, t)
    BY <1>5 DEF Wanting, Has
  <2>2. \A m \in Node \ E.made : DOMAIN E.events[m] = {}
    BY <1>0, <1>3, <1>5 DEF Wired
  <2> QED BY <1>0, <1>5, <2>1, <2>2 DEF Wired
<1>8. Held(E, c)
  BY <1>0, <1>3, <1>5, <1>6, <1>7, WaitingSame DEF Held
<1> QED BY <1>3, <1>4, <1>5, <1>8 DEF E, K

LEMMA WithDataIsHeld ==
  ASSUME NEW D, NEW c, Held(D, c), NEW G \in SUBSET Node, NEW f \in [G -> D.made],
         \A m, k \in G : f[m] = f[k] => m = k,
         \A m \in G : DOMAIN D.events[f[m]] = {} /\ f[m] \notin G
  PROVE  LET E == WithData(D, f)
         IN Held(E, c) /\ E.made = D.made /\ E.parent = D.parent
<1> DEFINE K == {f[m] : m \in G}
           Of(k) == CHOOSE m \in G : f[m] = k
           E == WithData(D, f)
           new == {k \in K : Has(D, Of(k), "focusin")}
           more == {<<f[b[1]], b[2]>> : b \in {b \in D.bound : b[1] \in G}}
           From(x) == [k \in Node |-> x[IF k \in K THEN Of(k) ELSE k]]
           W == Wanting(D)
           V == Wanting(E)
<1>0. /\ DOMAIN D = Fields /\ Tree(D) /\ Wired(D, c) /\ Waiting(D) /\ D.made \subseteq Node
      /\ DOMAIN f = G
  BY DEF Held, Tree
<1>1. E = [D EXCEPT !.events = From(D.events), !.bound = @ \cup more,
                    !.attaches = @ + Cardinality(new),
                    !.capture = @ \/ (D.attaches = 0 /\ new # {}),
                    !.hasAttrs = @ \cup {f[m] : m \in G \cap @},
                    !.display = From(D.display), !.kept = From(D.kept),
                    !.user = From(D.user)]
  BY <1>0 DEF WithData
<1>2. /\ K \subseteq Node /\ K \subseteq D.made /\ K \cap G = {}
      /\ \A k \in K : Of(k) \in G /\ f[Of(k)] = k /\ DOMAIN D.events[k] = {}
      /\ \A m \in G : Of(f[m]) = m
      /\ \A m \in G : f[m] \in K
  <2>1. ASSUME NEW k \in K
        PROVE  Of(k) \in G /\ f[Of(k)] = k /\ DOMAIN D.events[k] = {} /\ k \notin G
    <3>1. PICK m \in G : f[m] = k
      OBVIOUS
    <3> QED BY <3>1
  <2>2. ASSUME NEW m \in G PROVE Of(f[m]) = m
    <3>1. f[m] \in K
      OBVIOUS
    <3>2. Of(f[m]) \in G /\ f[Of(f[m])] = f[m]
      BY <2>1, <3>1
    <3> HIDE DEF Of, K
    <3> QED BY <3>2
  <2>3. \A m \in G : f[m] \in D.made
    OBVIOUS
  <2>4. \A m \in G : f[m] \in K
    OBVIOUS
  <2>5. K \subseteq D.made
    BY <2>3
  <2> HIDE DEF Of, K
  <2> QED BY <1>0, <2>1, <2>2, <2>4, <2>5
<1> HIDE DEF E
<1>3. /\ DOMAIN E = Fields
      /\ SameBut(D, E, {"events", "bound", "attaches", "capture", "hasAttrs",
                        "display", "kept", "user"})
      /\ E.events = From(D.events) /\ E.bound = D.bound \cup more
      /\ E.attaches = D.attaches + Cardinality(new)
  <2> HIDE DEF K, From, more, new
  <2> QED BY <1>0, <1>1 DEF SameBut, Fields
<1>4. E.capture = (D.capture \/ (D.attaches = 0 /\ new # {}))
  <2> HIDE DEF K, From, more, new
  <2> QED BY <1>0, <1>1 DEF Fields
<1> HIDE DEF Of
<1>5. /\ DOMAIN E.events = Node
      /\ \A k \in K : E.events[k] = D.events[Of(k)]
      /\ \A m \in Node \ K : E.events[m] = D.events[m]
  <2> HIDE DEF K
  <2> QED BY <1>2, <1>3
<1>6. /\ E.made = D.made /\ E.parent = D.parent /\ E.leaked = D.leaked
      /\ E.queue = D.queue /\ E.count = D.count /\ E.waits = D.waits
  BY <1>3 DEF SameBut, Fields
<1>7. V = W \cup new /\ W \cap new = {} /\ new \subseteq Node
  <2>1. \A k \in K : k \in Node /\ (k \in V <=> Has(D, Of(k), "focusin")) /\ k \notin W
    <3> HIDE DEF K
    <3> QED BY <1>2, <1>5 DEF Wanting, Has
  <2>2. \A m \in Node \ K : m \in V <=> m \in W
    <3> HIDE DEF K
    <3> QED BY <1>5 DEF Wanting, Has
  <2>3. V \subseteq Node /\ W \subseteq Node
    BY DEF Wanting
  <2> HIDE DEF K, V, W
  <2> QED BY <1>2, <2>1, <2>2, <2>3
<1>8. /\ Cardinality(V) = Cardinality(W) + Cardinality(new)
      /\ Cardinality(W) \in Nat /\ Cardinality(new) \in Nat
      /\ Cardinality(new) = 0 <=> new = {}
  <2> HIDE DEF V, new, W
  <2>1. IsFiniteSet(W)
    BY WantingFinite DEF W
  <2>2. IsFiniteSet(new)
    BY <1>7, ElementsAssumption, FS_Subset
  <2> QED BY <1>7, <2>1, <2>2, CountParts, FS_EmptySet
<1>9. /\ E.attaches \in Nat /\ E.leaked \in Nat /\ E.attaches = Cardinality(V) + E.leaked
      /\ E.capture \in BOOLEAN /\ (E.capture <=> E.attaches > 0)
  <2> HIDE DEF V, W, new
  <2>1. /\ D.attaches = Cardinality(W) + D.leaked /\ D.leaked \in Nat /\ D.attaches \in Nat
        /\ D.capture \in BOOLEAN /\ (D.capture <=> D.attaches > 0)
    BY <1>0 DEF Wired, W
  <2>2. E.capture \in BOOLEAN /\ (E.capture <=> D.capture \/ (D.attaches = 0 /\ new # {}))
    BY ONLY <1>4, ZenonT(60)
  <2>3. E.attaches \in Nat /\ E.attaches = Cardinality(V) + E.leaked
    BY <1>3, <1>6, <1>8, <2>1
  <2>4. E.attaches > 0 <=> D.attaches > 0 \/ (D.attaches = 0 /\ new # {})
    BY <1>3, <1>8, <2>1
  <2> QED BY <1>6, <2>1, <2>2, <2>3, <2>4
<1>10. \A m \in Node : \A t \in DOMAIN E.events[m] :
         t \in Kept /\ Orderly(E.events[m][t], t, c)
  <2>1. \A m \in Node : \E k \in Node : E.events[m] = D.events[k]
    <3> HIDE DEF K
    <3> QED BY <1>2, <1>5
  <2> QED BY <1>0, <2>1 DEF Wired
<1>11. \A m \in Node \ E.made : DOMAIN E.events[m] = {}
  <2> HIDE DEF K
  <2> QED BY <1>0, <1>2, <1>5, <1>6 DEF Wired
<1>12. D.bound \subseteq Node \X Kept
       /\ \A m \in Node, t \in Kept \ {"focusin"} : <<m, t>> \in D.bound <=> Has(D, m, t)
  BY <1>0 DEF Wired
<1>13. E.bound \subseteq Node \X Kept
  <2>1. \A b \in D.bound : b[1] \in G => <<f[b[1]], b[2]>> \in Node \X Kept
    BY <1>0, <1>12
  <2>2. more \subseteq Node \X Kept
    BY <2>1
  <2> HIDE DEF more
  <2> QED BY <1>3, <1>12, <2>2
<1>14. ASSUME NEW m \in Node, NEW t \in Kept \ {"focusin"}
       PROVE  <<m, t>> \in E.bound <=> Has(E, m, t)
  <2>1. <<m, t>> \in more <=> \E a \in G : m = f[a] /\ <<a, t>> \in D.bound
    <3>1. ASSUME <<m, t>> \in more PROVE \E a \in G : m = f[a] /\ <<a, t>> \in D.bound
      <4>1. PICK b \in D.bound : b[1] \in G /\ <<m, t>> = <<f[b[1]], b[2]>>
        BY <3>1
      <4>2. b = <<b[1], t>> /\ m = f[b[1]]
        BY <1>12, <4>1
      <4> QED BY <4>1, <4>2
    <3>2. ASSUME NEW a \in G, m = f[a], <<a, t>> \in D.bound PROVE <<m, t>> \in more
      <4>1. <<a, t>>[1] = a /\ <<a, t>>[2] = t
        OBVIOUS
      <4>2. <<f[<<a, t>>[1]], <<a, t>>[2]>> \in more
        BY <3>2, <4>1
      <4> QED BY <3>2, <4>1, <4>2
    <3> HIDE DEF more
    <3> QED BY <3>1, <3>2
  <2> HIDE DEF more
  <2>2. CASE m \in K
    <3> HIDE DEF K
    <3>1. <<m, t>> \notin D.bound
      BY <1>2, <1>12, <2>2 DEF Has
    <3>2. <<m, t>> \in more <=> <<Of(m), t>> \in D.bound
      BY <1>2, <2>1, <2>2
    <3>3. <<Of(m), t>> \in D.bound <=> Has(D, Of(m), t)
      BY <1>2, <1>12, <2>2
    <3>4. Has(E, m, t) <=> Has(D, Of(m), t)
      BY <1>5, <2>2 DEF Has
    <3> QED BY <1>3, <3>1, <3>2, <3>3, <3>4
  <2>3. CASE m \notin K
    <3>1. <<m, t>> \notin more
      BY <1>2, <2>1, <2>3
    <3>2. Has(E, m, t) <=> Has(D, m, t)
      <4> HIDE DEF K
      <4> QED BY <1>5, <2>3 DEF Has
    <3> QED BY <1>3, <1>12, <3>1, <3>2
  <2> QED BY <2>2, <2>3
<1> HIDE DEF K, more, new, From
<1>15. Wired(E, c)
  BY ONLY <1>5, <1>9, <1>10, <1>11, <1>13, <1>14 DEF Wired
<1>16. Held(E, c)
  BY <1>0, <1>3, <1>6, <1>15, TreeSame, WaitingSame DEF Held
<1> QED BY <1>6, <1>16 DEF E

LEMMA CloneIsHeld ==
  ASSUME NEW D, NEW c, Held(D, c), NEW n, NEW w, NEW G, NEW f, Copying(D, n, G, f)
  PROVE  LET E == Clone(D, n, w, f)
             K == {f[m] : m \in G}
         IN /\ Held(E, c) /\ E.made = D.made \cup K
            /\ \A k \in Node \ K : E.parent[k] = D.parent[k]
<1> DEFINE K == {f[m] : m \in G}
           C == Copied(D, n, f)
           W == IF w THEN WithData(C, f) ELSE C
           E == Clone(D, n, w, f)
<1>1. /\ Held(C, c) /\ C.made = D.made \cup K /\ C.events = D.events
      /\ \A k \in Node \ K : C.parent[k] = D.parent[k]
  BY CopiedIsHeld
<1>2. PICK v, r : E = [W EXCEPT !.evaled = v, !.ran = r]
  BY DEF Clone
<1> HIDE DEF C
<1>3. /\ G \in SUBSET Node /\ f \in [G -> C.made]
      /\ \A m, k \in G : f[m] = f[k] => m = k
      /\ \A m \in G : DOMAIN C.events[f[m]] = {} /\ f[m] \notin G
  <2>1. D.made \subseteq Node /\ \A m \in Node \ D.made : DOMAIN D.events[m] = {}
    BY DEF Held, Tree, Wired
  <2>2. \A m \in G : f[m] \in Node \ D.made /\ f[m] \in K
    BY DEF Copying, Node
  <2>3. \A m \in G : f[m] \in C.made
    BY <1>1, <2>2
  <2> HIDE DEF K
  <2> QED BY <1>1, <2>1, <2>2, <2>3 DEF Copying
<1>4. Held(W, c) /\ W.made = C.made /\ W.parent = C.parent
  <2>1. CASE w
    <3>1. W = WithData(C, f)
      BY <2>1
    <3> QED BY <1>1, <1>3, <3>1, WithDataIsHeld
  <2>2. CASE ~w
    BY <1>1, <2>2
  <2> QED BY <2>1, <2>2
<1> HIDE DEF W, E
<1>5. DOMAIN E = Fields /\ SameBut(W, E, Beside) /\ E.parent = W.parent
  BY <1>2, <1>4, ZenonT(60) DEF Held, SameBut, Beside, Fields
<1>6. Held(E, c) /\ E.made = W.made
  BY <1>4, <1>5, HeldSame
<1> HIDE DEF K
<1> QED BY <1>1, <1>4, <1>5, <1>6 DEF E, K

-----------------------------------------------------------------------------
(* append, before, replaceWith *)

\* The content goes below nodes that it does not contain; no other node gets
\* a new parent.
LEMMA PutIsHeld ==
  ASSUME NEW D, NEW c, Held(D, c), NEW how \in How, NEW t \in D.made, NEW n \in Node,
         NEW U \in SUBSET Node, t \in U, UpTo(D, U), n \notin U
  PROVE  LET E == Put(D, how, t, n)
         IN /\ Held(E, c) /\ E.made = D.made
            /\ \A V \in SUBSET Node : UpTo(D, V) /\ n \notin V => UpTo(E, V)
<1> DEFINE p == D.parent[t]
           E == Put(D, how, t, n)
           S == GetAll(D, t)
           W == CleanData(D, S)
           M == [W EXCEPT !.clean = @ \cup S]
           F == Linked(M, t, None)
<1>0. t \in Node /\ D.parent \in [Node -> D.made \cup {None}]
  BY DEF Held, Tree
<1>1. p = None \/ (p \in U /\ p \in D.made)
  BY <1>0 DEF UpTo
<1> HIDE DEF p
<1>2. ASSUME NEW A, Held(A, c), A.made = D.made, NEW q, q = None \/ (q \in U /\ q \in D.made),
             \A V \in SUBSET Node : UpTo(D, V) => UpTo(A, V)
      PROVE  LET B == Linked(A, n, q)
             IN /\ Held(B, c) /\ B.made = D.made
                /\ \A V \in SUBSET Node : UpTo(D, V) /\ n \notin V => UpTo(B, V)
  <2> DEFINE B == Linked(A, n, q)
  <2>1. UpTo(A, U)
    BY <1>2
  <2>2. Held(B, c) /\ SameBut(A, B, {"parent"})
    BY <1>2, <2>1, LinkedIsHeld
  <2>3. B.made = A.made
    <3> HIDE DEF B
    <3> QED BY <2>2 DEF SameBut, Fields
  <2>4. \A m \in Node \ {n} : B.parent[m] = A.parent[m]
    <3>1. B.parent = [A.parent EXCEPT ![n] = q]
      BY <1>2 DEF Linked, Held, Fields
    <3>2. A.parent \in [Node -> A.made \cup {None}]
      BY <1>2 DEF Held, Tree
    <3> HIDE DEF B
    <3> QED BY <3>1, <3>2
  <2> HIDE DEF B
  <2>5. ASSUME NEW V \in SUBSET Node, UpTo(D, V), n \notin V PROVE UpTo(B, V)
    <3>1. UpTo(A, V)
      BY <1>2, <2>5
    <3> QED BY <2>4, <2>5, <3>1 DEF UpTo
  <2> QED BY <1>2, <2>2, <2>3, <2>5 DEF B
<1>3. CASE how = "append"
  <2>1. E = Linked(D, n, t)
    BY <1>3 DEF Put
  <2> HIDE DEF E
  <2>2. Held(E, c) /\ E.made = D.made
        /\ \A V \in SUBSET Node : UpTo(D, V) /\ n \notin V => UpTo(E, V)
    BY <1>2, <2>1
  <2> QED BY <2>2 DEF E
<1>4. CASE how = "before"
  <2>1. E = IF p = None THEN D ELSE Linked(D, n, p)
    BY <1>4 DEF Put, p
  <2> HIDE DEF E
  <2>2. Held(E, c) /\ E.made = D.made
        /\ \A V \in SUBSET Node : UpTo(D, V) /\ n \notin V => UpTo(E, V)
    BY <1>1, <1>2, <2>1
  <2> QED BY <2>2 DEF E
<1>5. CASE how = "replaceWith"
  <2>1. E = IF p = None THEN M ELSE Linked(F, n, p)
    BY <1>5 DEF Put, p
  <2>2. Held(W, c) /\ W.made = D.made /\ W.parent = D.parent
    BY GetAllNodes, CleanIsHeld
  <2> HIDE DEF W, S
  <2>3. Held(M, c) /\ M.made = D.made /\ M.parent = D.parent
    BY <2>2, MarkIsHeld
  <2>4. \A V \in SUBSET Node : UpTo(D, V) => UpTo(M, V)
    BY <2>3 DEF UpTo
  <2> HIDE DEF M
  <2>5. /\ Held(F, c) /\ SameBut(M, F, {"parent"})
        /\ \A V \in SUBSET Node : UpTo(M, V) => UpTo(F, V)
    BY <1>0, <2>3, UnlinkedIsHeld
  <2> HIDE DEF F
  <2>6. F.made = D.made /\ \A V \in SUBSET Node : UpTo(D, V) => UpTo(F, V)
    BY <2>3, <2>4, <2>5 DEF SameBut, Fields
  <2> HIDE DEF E
  <2>7. Held(E, c) /\ E.made = D.made
        /\ \A V \in SUBSET Node : UpTo(D, V) /\ n \notin V => UpTo(E, V)
    BY <1>1, <1>2, <2>1, <2>3, <2>4, <2>5, <2>6
  <2> QED BY <2>7 DEF E
<1> QED BY <1>3, <1>4, <1>5 DEF How

LEMMA InsertOneIsHeld ==
  ASSUME NEW D, NEW c, Held(D, c), NEW how \in How, NEW targets, Len(targets) = 1,
         targets[1] \in D.made, NEW n \in Node,
         NEW U \in SUBSET Node, targets[1] \in U, UpTo(D, U), n \notin U
  PROVE  LET E == DomManip(D, how, targets, n)
         IN Held(E, c) /\ E.made = D.made
<1> DEFINE E == Fragment(D, n)
<1>1. /\ Held(E, c) /\ E.made = D.made
      /\ \A V \in SUBSET Node : UpTo(D, V) => UpTo(E, V)
  BY FragmentIsHeld
<1>2. DomManip(D, how, targets, n) = Put(E, how, targets[1], n)
  BY DEF DomManip
<1> HIDE DEF E
<1>3. UpTo(E, U)
  BY <1>1
<1> QED BY <1>1, <1>2, <1>3, PutIsHeld

\* The first target gets a copy.
LEMMA InsertTwoIsHeld ==
  ASSUME NEW D, NEW c, Held(D, c), NEW how \in How, NEW targets, Len(targets) # 1,
         targets[1] \in D.made, targets[2] \in D.made, NEW n \in D.made, CanCopy(D, n),
         NEW U \in SUBSET Node, targets[2] \in U, UpTo(D, U), n \notin U
  PROVE  LET E == DomManip(D, how, targets, n)
         IN Held(E, c) /\ D.made \subseteq E.made
<1> DEFINE G == GetAll(D, n)
           f == CopyOf(D, n)
           K == {f[m] : m \in G}
           E == Fragment(D, n)
           C == Clone(E, n, TRUE, f)
           P == Put(C, how, targets[1], f[n])
           R == Put(P, how, targets[2], n)
           V == U \cap D.made
<1>0. n \in Node /\ D.made \subseteq Node
  BY DEF Held, Tree
<1>1. /\ Held(E, c) /\ E.made = D.made
      /\ \A m \in Node \ {n} : E.parent[m] = D.parent[m]
      /\ \A X \in SUBSET Node : UpTo(D, X) => UpTo(E, X)
  BY <1>0, FragmentIsHeld
<1>2. DomManip(D, how, targets, n) = R
  BY DEF DomManip
<1>3. Copying(E, n, G, f)
  <2>1. f \in [G -> Spare \ D.made] /\ \A m, k \in G : f[m] = f[k] => m = k
    BY <1>0, CopyExists DEF Copies
  <2>2. n \in G /\ G \in SUBSET D.made /\ \A m \in G \ {n} : D.parent[m] \in G
    BY GetAllUp, GetAllNodes
  <2> HIDE DEF f, G, E
  <2>3. \A m \in G \ {n} : E.parent[m] \in G
    BY <1>0, <1>1, <2>2
  <2> QED BY <1>1, <2>1, <2>2, <2>3 DEF Copying
<1> HIDE DEF f, G, E
<1>4. /\ Held(C, c) /\ C.made = D.made \cup K
      /\ \A k \in Node \ K : C.parent[k] = E.parent[k]
  <2>1. /\ Held(C, c) /\ C.made = E.made \cup K
        /\ \A k \in Node \ K : C.parent[k] = E.parent[k]
    <3> DEFINE B(w) == Clone(E, n, w, f)
    <3>1. \A w : /\ Held(B(w), c) /\ B(w).made = E.made \cup K
                 /\ \A k \in Node \ K : B(w).parent[k] = E.parent[k]
      BY <1>1, <1>3, CloneIsHeld
    <3>2. C = B(TRUE)
      OBVIOUS
    <3> HIDE DEF B, C, K
    <3> QED BY <3>1, <3>2, ZenonT(60)
  <2> HIDE DEF C, K
  <2> QED BY <1>1, <2>1
<1>5. f[n] \in K /\ f[n] \in Node /\ K \cap D.made = {}
  BY <1>1, <1>3 DEF Copying, Node
<1> HIDE DEF K, C
<1>6. \A X \in SUBSET D.made : UpTo(E, X) => UpTo(C, X)
  BY <1>0, <1>4, <1>5 DEF UpTo
<1>7. /\ UpTo(E, D.made) /\ UpTo(E, V) /\ V \in SUBSET D.made
  <2>1. \A m \in Node : E.parent[m] \in D.made \cup {None}
    BY <1>1 DEF Held, Tree
  <2>2. UpTo(E, D.made)
    BY <1>0, <2>1 DEF UpTo
  <2>3. UpTo(E, U)
    BY <1>1
  <2> QED BY <2>2, <2>3 DEF UpTo
<1>8. UpTo(C, D.made) /\ UpTo(C, V)
  BY <1>6, <1>7
<1>9. targets[2] \in V /\ n \notin V /\ f[n] \notin V /\ f[n] \notin D.made /\ V \in SUBSET Node
      /\ D.made \in SUBSET Node
  BY <1>0, <1>5
<1> HIDE DEF V
<1>10. Held(P, c) /\ P.made = C.made /\ UpTo(P, V)
  <2>1. targets[1] \in C.made
    BY <1>4
  <2> QED BY <1>4, <1>5, <1>8, <1>9, <2>1, PutIsHeld
<1> HIDE DEF P
<1>11. Held(R, c) /\ R.made = P.made
  <2>1. targets[2] \in P.made
    BY <1>4, <1>10
  <2> QED BY <1>0, <1>9, <1>10, <2>1, PutIsHeld
<1> HIDE DEF R
<1> QED BY <1>2, <1>4, <1>10, <1>11

LEMMA IgnoredIsHeld ==
  ASSUME NEW D, NEW c, Held(D, c), NEW how, NEW targets, NEW n,
         \A i \in DOMAIN targets : targets[i] \in Node
  PROVE  LET E == Ignored(D, how, targets, n)
         IN Held(E, c) /\ E.made = D.made
<1> DEFINE others == {targets[i] : i \in DOMAIN targets} \ {n}
           other == CHOOSE t \in others : TRUE
           E == Ignored(D, how, targets, n)
<1>1. E = IF how = "replaceWith" /\ others # {} THEN Remove(D, other) ELSE D
  BY DEF Ignored
<1>2. others # {} => other \in Node
  OBVIOUS
<1> HIDE DEF others, other, E
<1>3. Held(E, c) /\ E.made = D.made
  BY <1>1, <1>2, RemoveIsHeld
<1> QED BY <1>3 DEF E

-----------------------------------------------------------------------------
(* The calls under way *)

\* What is left to call are handlers of nodes.
Entries(r) == \E S : r \in Seq(S) /\ \A q \in S : q.on \in Node

Steps == Node \X (Kept \cup {"capture"})

EventFrame(D, f) ==
  /\ {"at", "target", "path"} \subseteq DOMAIN f
  /\ f.at = "event" /\ f.target \in D.made /\ f.path \in Seq(Steps)

DispatchFrame(f) ==
  {"at", "rest"} \subseteq DOMAIN f /\ f.at = "dispatch" /\ Entries(f.rest)

Frame(D, f) ==
  \/ EventFrame(D, f)
  \/ DispatchFrame(f)
  \/ "at" \in DOMAIN f /\ f.at \in {"code", "eval"}

Frames(D, s) == \E S : s \in Seq(S) /\ \A f \in S : Frame(D, f)

LEMMA FramesAre ==
  ASSUME NEW D, NEW s, Frames(D, s)
  PROVE  /\ Len(s) \in Nat /\ DOMAIN s = 1..Len(s)
         /\ \A i \in 1..Len(s) : Frame(D, s[i])
BY DEF Frames

LEMMA FramesLater ==
  ASSUME NEW D, NEW E, NEW s, Frames(D, s), D.made \subseteq E.made
  PROVE  Frames(E, s)
<1>1. \A f : Frame(D, f) => Frame(E, f)
  BY DEF Frame, EventFrame
<1> QED BY <1>1 DEF Frames

LEMMA FramePushed ==
  ASSUME NEW D, NEW s, Frames(D, s), NEW f, Frame(D, f)
  PROVE  Frames(D, Append(s, f))
<1>1. PICK S : s \in Seq(S) /\ \A g \in S : Frame(D, g)
  BY DEF Frames
<1>2. Append(s, f) \in Seq(S \cup {f})
  <2>1. s \in Seq(S \cup {f})
    BY <1>1
  <2> QED BY <2>1
<1> QED BY <1>1, <1>2 DEF Frames

LEMMA FramePopped ==
  ASSUME NEW D, NEW s, Frames(D, s)
  PROVE  Frames(D, SubSeq(s, 1, Len(s) - 1))
<1>1. PICK S : s \in Seq(S) /\ \A g \in S : Frame(D, g)
  BY DEF Frames
<1>2. SubSeq(s, 1, Len(s) - 1) \in Seq(S)
  <2> DEFINE k == Len(s) - 1
  <2>1. \A i \in 1..k : s[i] \in S
    BY <1>1
  <2> QED BY <1>1, <2>1, SubSeqProperties
<1> QED BY <1>1, <1>2 DEF Frames

LEMMA FrameChanged ==
  ASSUME NEW D, NEW s, Frames(D, s), NEW i, NEW f, i \in DOMAIN s => Frame(D, f)
  PROVE  Frames(D, [s EXCEPT ![i] = f])
<1>1. PICK S : s \in Seq(S) /\ \A g \in S : Frame(D, g)
  BY DEF Frames
<1>2. CASE i \in DOMAIN s
  <2>1. [s EXCEPT ![i] = f] \in Seq(S \cup {f})
    <3>1. s \in Seq(S \cup {f}) /\ i \in 1..Len(s)
      BY <1>1, <1>2
    <3> QED BY <3>1, ExceptSeq
  <2> QED BY <1>1, <1>2, <2>1 DEF Frames
<1>3. CASE i \notin DOMAIN s
  <2>1. [s EXCEPT ![i] = f] = s
    BY <1>1, <1>3
  <2> QED BY <2>1
<1> QED BY <1>2, <1>3

\* What a frame may write besides.
LEMMA FrameMarked ==
  ASSUME NEW D, NEW f, Frame(D, f), NEW x, NEW v, x \notin {"at", "target", "path", "rest"}
  PROVE  Frame(D, [f EXCEPT ![x] = v])
<1> DEFINE g == [f EXCEPT ![x] = v]
<1>1. DOMAIN g = DOMAIN f
  OBVIOUS
<1>2. \A y \in {"at", "target", "path", "rest"} : y \in DOMAIN f => g[y] = f[y]
  OBVIOUS
<1> HIDE DEF g
<1>3. Frame(D, g)
  BY <1>1, <1>2 DEF Frame, EventFrame, DispatchFrame
<1> QED BY <1>3 DEF g

LEMMA EventIsFrame ==
  ASSUME NEW D, NEW by, NEW t, NEW target \in D.made, NEW path \in Seq(Steps)
  PROVE  Frame(D, Event(by, t, target, path))
<1> DEFINE due == IF by = "default" THEN {}
                  ELSE UNION {{<<path[i][1], h>> : h \in Listed(dom, path[i][1], path[i][2])} :
                                i \in DOMAIN path}
           moves == dom.moves
<1>1. Event(by, t, target, path) =
        [at |-> "event", by |-> by, type |-> t, target |-> target, path |-> path,
         related |-> None, stopped |-> FALSE, prevented |-> FALSE, ended |-> FALSE,
         log |-> <<>>, moves |-> moves, due |-> due]
  BY DEF Event
<1> HIDE DEF due, moves
<1> QED BY <1>1 DEF Frame, EventFrame

LEMMA RouteIsPath ==
  ASSUME NEW D, Tree(D), NEW n \in Node, NEW t \in Kept \cup {"capture"}
  PROVE  Route(D, n, t) \in Seq(Steps)
<1> DEFINE p == Path(D, n)
<1>1. p \in Seq(Node)
  BY PathUp
<1>2. Route(D, n, t) = [i \in DOMAIN p |-> <<p[i], t>>]
  BY DEF Route
<1> HIDE DEF p
<1>3. Len(p) \in Nat /\ DOMAIN p = 1..Len(p) /\ \A i \in 1..Len(p) : p[i] \in Node
  BY <1>1
<1>4. Route(D, n, t) = [i \in 1..Len(p) |-> <<p[i], t>>]
  BY <1>2, <1>3
<1>5. \A i \in 1..Len(p) : <<p[i], t>> \in Steps
  BY <1>3 DEF Steps
<1> QED BY <1>3, <1>4, <1>5

\* Where focus() and trigger() go.
LEMMA PathsAre ==
  ASSUME NEW n \in Node, NEW t \in Type, Tree(dom)
  PROVE  /\ FocusPath(n) \in Seq(Steps) /\ TriggerPath(n, t) \in Seq(Steps)
         /\ <<<<n, TypeOf(t, FALSE)>>>> \in Seq(Steps)
<1>0. /\ TypeOf(t, FALSE) \in Kept /\ {"focus", "focusin", "click", "mouseover"} \subseteq Kept
      /\ Document \in Node
  BY TypeIsKept DEF Kept, Node
<1>1. FocusPath(n) \in Seq(Steps)
  <2>1. <<Document, "capture">> \in Steps /\ <<n, "focus">> \in Steps
    BY <1>0 DEF Steps
  <2> QED BY <2>1 DEF FocusPath
<1>2. TriggerPath(n, t) \in Seq(Steps)
  <2>1. <<n, "focus">> \in Steps
    BY <1>0 DEF Steps
  <2>2. <<<<n, "focus">>>> \in Seq(Steps)
    BY <2>1
  <2>3. Route(dom, n, "focusin") \in Seq(Steps) /\ Route(dom, n, TypeOf(t, FALSE)) \in Seq(Steps)
    BY <1>0, RouteIsPath
  <2>4. <<<<n, "focus">>>> \o Route(dom, n, "focusin") \in Seq(Steps)
    BY <2>2, <2>3
  <2> QED BY <2>3, <2>4 DEF TriggerPath
<1>3. <<<<n, TypeOf(t, FALSE)>>>> \in Seq(Steps)
  <2>1. <<n, TypeOf(t, FALSE)>> \in Steps
    BY <1>0 DEF Steps
  <2> QED BY <2>1
<1> QED BY <1>1, <1>2, <1>3

LEMMA WithoutIsSeq ==
  ASSUME NEW T, NEW s \in Seq(T), NEW H
  PROVE  Without(s, H) \in Seq(T)
<1> DEFINE n == Len(s)
<1>1. n \in Nat /\ \A i \in 1..n : s[i] \in T
  OBVIOUS
<1>2. PICK g : /\ Without(s, H) = g[n]
               /\ g[0] = <<>>
               /\ \A i \in 1..n : g[i] = IF s[i] \in H THEN g[i - 1]
                                         ELSE Append(g[i - 1], s[i])
  BY <1>1, SieveSteps
<1> DEFINE G == {i \in Nat : i <= n => g[i] \in Seq(T)}
<1>3. 0 \in G
  <2>1. <<>> \in Seq(T)
    OBVIOUS
  <2>2. g[0] \in Seq(T)
    BY <1>2, <2>1
  <2> QED BY <2>2
<1>4. ASSUME NEW i \in Nat, i \in G PROVE i + 1 \in G
  <2>1. SUFFICES ASSUME i + 1 <= n PROVE g[i + 1] \in Seq(T)
    OBVIOUS
  <2>2. i <= n /\ i + 1 \in 1..n /\ (i + 1) - 1 = i
    BY <1>1, <2>1
  <2>3. g[i] \in Seq(T) /\ s[i + 1] \in T
    BY <1>1, <1>4, <2>2
  <2>4. g[i + 1] = IF s[i + 1] \in H THEN g[i] ELSE Append(g[i], s[i + 1])
    <3>1. \A k \in 1..n : g[k] = IF s[k] \in H THEN g[k - 1] ELSE Append(g[k - 1], s[k])
      BY <1>2
    <3> QED BY ONLY <2>2, <3>1
  <2> QED BY <2>3, <2>4
<1> HIDE DEF G
<1>5. n \in G
  BY <1>1, <1>3, <1>4, Induct
<1> QED BY <1>1, <1>2, <1>5 DEF G

LEMMA SeqByEntries ==
  ASSUME NEW S, NEW n \in Nat, NEW s, s = [i \in 1..n |-> s[i]], \A i \in 1..n : s[i] \in S
  PROVE  s \in Seq(S)
OBVIOUS

LEMMA ProductIsNat ==
  ASSUME NEW a \in Nat, NEW b \in Nat
  PROVE  a * b \in Nat
OBVIOUS

\* What dispatch finds at a node.
LEMMA QueueOfHandlers ==
  ASSUME NEW c, Held(dom, c), NEW n \in Node, NEW t, Has(dom, n, t), NEW target \in Node
  PROVE  Entries(HandlerQueue(n, t, target))
<1> DEFINE l == Handlers(dom, n, t)
           up == Path(dom, target)
           end == IF \E i \in DOMAIN up : up[i] = n
                  THEN CHOOSE i \in DOMAIN up : up[i] = n ELSE Len(up) + 1
           inside == Without(SubSeq(up, 1, end - 1), {Document})
           k == l.delegateCount
           a == Len(inside) * k
           b == Len(l.list) - k
           A == [i \in 1..a |-> [elem |-> inside[((i - 1) \div k) + 1], on |-> n,
                                 h |-> l.list[((i - 1) % k) + 1]]]
           B == [i \in 1..b |-> [elem |-> n, on |-> n, h |-> l.list[k + i]]]
<1>0. HandlerQueue(n, t, target) = A \o B
  BY DEF HandlerQueue
<1>1. k \in Nat /\ b \in Nat
  <2>1. l.list \in Seq(Handler) /\ l.delegateCount \in Nat /\ l.delegateCount <= Len(l.list)
    BY HandlersAre DEF Held, Orderly
  <2> HIDE DEF l
  <2> QED BY <2>1
<1>2. up \in Seq(Node)
  BY PathUp DEF Held
<1> HIDE DEF up, l
<1>3. end \in 1..(Len(up) + 1)
  <2>1. DOMAIN up = 1..Len(up) /\ Len(up) \in Nat
    BY <1>2
  <2>2. CASE \E i \in DOMAIN up : up[i] = n
    <3>1. end \in DOMAIN up
      BY <2>2
    <3> QED BY <2>1, <3>1
  <2>3. CASE ~ \E i \in DOMAIN up : up[i] = n
    <3>1. end = Len(up) + 1
      BY <2>3
    <3> QED BY <2>1, <3>1
  <2> QED BY <2>2, <2>3
<1> HIDE DEF end
<1>4. SubSeq(up, 1, end - 1) \in Seq(Node)
  BY <1>2, <1>3
<1>5. Len(inside) \in Nat
  <2>1. inside \in Seq(Node)
    BY <1>4, WithoutIsSeq
  <2> HIDE DEF inside
  <2> QED BY <2>1
<1> HIDE DEF inside
<1>6. a \in Nat
  BY <1>1, <1>5, ProductIsNat
<1> HIDE DEF a, b, k
<1>7. /\ \A i \in 1..a : A[i].on = n
      /\ \A i \in 1..b : B[i].on = n
  OBVIOUS
<1> DEFINE S == {A[i] : i \in 1..a} \cup {B[i] : i \in 1..b}
<1>8. \A q \in S : q.on \in Node
  BY <1>7
<1>9. DOMAIN A = 1..a /\ A = [i \in 1..a |-> A[i]] /\ DOMAIN B = 1..b /\ B = [i \in 1..b |-> B[i]]
  OBVIOUS
<1> HIDE DEF A, B
<1>a. /\ \A i \in 1..a : A[i] \in S
      /\ \A i \in 1..b : B[i] \in S
  OBVIOUS
<1> HIDE DEF S
<1>10. A \in Seq(S) /\ B \in Seq(S)
  BY ONLY <1>1, <1>6, <1>9, <1>a, SeqByEntries
<1>11. A \o B \in Seq(S)
  BY <1>10
<1> QED BY <1>0, <1>8, <1>11 DEF Entries

LEMMA EntriesAre ==
  ASSUME NEW r, Entries(r)
  PROVE  r # <<>> => Head(r).on \in Node /\ Entries(Tail(r))
<1>1. PICK S : r \in Seq(S) /\ \A q \in S : q.on \in Node
  BY DEF Entries
<1>2. r # <<>> => Head(r) \in S /\ Tail(r) \in Seq(S)
  BY <1>1
<1> QED BY <1>1, <1>2 DEF Entries

LEMMA EntriesLeft ==
  ASSUME NEW d, Entries(d.rest), NEW answer \in {"go", "false", "stop"}
  PROVE  Entries(Left(d, answer))
<1> DEFINE q == d.rest
           same == {i \in DOMAIN q : \A k \in 1..i : q[k].elem = d.elem}
<1>1. PICK S : q \in Seq(S) /\ \A e \in S : e.on \in Node
  BY DEF Entries
<1>2. Left(d, answer) \in {q, SubSeq(q, 1, Cardinality(same)), <<>>}
  BY DEF Left
<1>3. Cardinality(same) \in 0..Len(q)
  <2>1. DOMAIN q = 1..Len(q) /\ Len(q) \in Nat
    BY <1>1
  <2>2. IsFiniteSet(1..Len(q)) /\ Cardinality(1..Len(q)) = Len(q)
    BY <2>1, FS_Interval
  <2>3. same \subseteq 1..Len(q)
    BY <2>1
  <2> HIDE DEF same, q
  <2>4. IsFiniteSet(same) /\ Cardinality(same) <= Len(q) /\ Cardinality(same) \in Nat
    BY <2>2, <2>3, FS_Subset, FS_CardinalityType
  <2> QED BY <2>1, <2>4
<1> HIDE DEF same, q
<1>4. SubSeq(q, 1, Cardinality(same)) \in Seq(S) /\ <<>> \in Seq(S)
  BY <1>1, <1>3
<1>5. Left(d, answer) \in Seq(S)
  BY <1>1, <1>2, <1>4
<1> QED BY <1>1, <1>5 DEF Entries

-----------------------------------------------------------------------------
(* The invariant *)

Tended ==
  /\ calls \in 0..page.calls
  /\ Held(dom, calls)
  /\ Frames(dom, stack)
  /\ active \in dom.made \cup {None}
  /\ triggered \in Type \cup {None}

LEMMA HeldLater ==
  ASSUME NEW D, NEW c \in Nat, Held(D, c)
  PROVE  Held(D, c + 1)
<1>1. c + 1 \in Nat /\ c <= c + 1
  OBVIOUS
<1>2. \A n \in Node : \A t \in DOMAIN D.events[n] :
        t \in Kept /\ Orderly(D.events[n][t], t, c + 1)
  BY <1>1, OrderlyLater DEF Held, Wired
<1> QED BY <1>2 DEF Held, Wired

\* What the page calls.
LEMMA CalledIsTended ==
  ASSUME Inv, Tended, NEW use, Call(use), Held(dom', calls) \/ Held(dom', calls + 1),
         dom.made \subseteq dom'.made, Frames(dom', stack'),
         active' \in dom.made \cup {None}, triggered' = triggered
  PROVE  Tended'
<1>1. calls' = calls + 1 /\ page' = page /\ calls < page.calls
  BY DEF Call
<1>2. page.calls \in Nat /\ calls \in Nat
  BY DomAssumption DEF Inv
<1>3. calls' \in 0..page'.calls
  BY <1>1, <1>2
<1>4. Held(dom', calls')
  BY <1>1, <1>2, HeldLater
<1> QED BY <1>3, <1>4 DEF Tended

LEMMA CalledAlone ==
  ASSUME Inv, Tended, NEW use, Call(use), Held(dom', calls) \/ Held(dom', calls + 1),
         dom.made \subseteq dom'.made, UNCHANGED <<active, triggered, stack>>
  PROVE  Tended'
<1>1. Frames(dom', stack')
  BY FramesLater DEF Tended
<1> QED BY <1>1, CalledIsTended DEF Tended

\* What goes on by itself.
LEMMA QuietIsTended ==
  ASSUME Tended, UNCHANGED <<page, calls>>, Held(dom', calls),
         dom.made \subseteq dom'.made, Frames(dom', stack'),
         active' \in dom.made \cup {None}, triggered' \in Type \cup {None}
  PROVE  Tended'
BY DEF Tended

\* The innermost call.
LEMMA TopIsFrame ==
  ASSUME Tended, stack # <<>>
  PROVE  Frame(dom, Top) /\ Frames(dom, Popped) /\ Len(stack) \in Nat \ {0}
<1>1. Len(stack) \in Nat /\ Len(stack) # 0
  <2>1. PICK S : stack \in Seq(S)
    BY DEF Tended, Frames
  <2> QED BY <2>1
<1>2. Len(stack) \in 1..Len(stack)
  BY <1>1
<1> QED BY <1>1, <1>2, FramesAre, FramePopped DEF Tended, Top, Popped

LEMMA TopChanged ==
  ASSUME Tended, stack # <<>>, NEW f, Frame(dom, f)
  PROVE  Frames(dom, WithTop(f))
BY TopIsFrame, FramePushed DEF WithTop

LEMMA CodeIsFrame ==
  ASSUME NEW D
  PROVE  Frame(D, Code) /\ \A S : Frame(D, Evaluation(S))
BY DEF Frame, Code, Evaluation

LEMMA HeldAre ==
  ASSUME Inv, Tended
  PROVE  /\ MayHold \subseteq dom.made /\ MayHold \subseteq Node /\ dom.made \subseteq Node
         /\ Tree(dom) /\ calls \in Nat /\ page.types \subseteq Type
<1>1. Tree(dom) /\ dom.made \subseteq Node
  BY DEF Tended, Held, Tree
<1>2. page.types \subseteq Type /\ calls \in Nat
  BY DomAssumption DEF Inv
<1> QED BY <1>1, <1>2, HeldAreMade

LEMMA EventsAreTended ==
  ASSUME Inv, Tended, NEW n \in MayHold, NEW t \in page.types,
         \/ \E selector, one \in BOOLEAN : CallOn(n, t, selector, one)
         \/ \E selector \in BOOLEAN : CallOff(n, t, selector)
         \/ CallTrigger(n, t) \/ CallTriggerHandler(n, t)
  PROVE  Tended'
<1>0. /\ n \in dom.made /\ n \in Node /\ t \in Type /\ Tree(dom) /\ calls \in Nat
      /\ Held(dom, calls) /\ Frames(dom, stack) /\ active \in dom.made \cup {None}
  BY HeldAre DEF Tended
<1>1. ASSUME NEW selector \in BOOLEAN, NEW one \in BOOLEAN, CallOn(n, t, selector, one)
      PROVE  Tended'
  <2> DEFINE h == [id |-> calls + 1, origType |-> t, selector |-> selector, one |-> one]
  <2>1. h \in Handler /\ h.id = calls + 1
    BY <1>0 DEF Handler
  <2>2. dom' = AddEvent(dom, n, h)
    BY <1>1 DEF CallOn
  <2> HIDE DEF h
  <2>3. Held(dom', calls + 1) /\ dom'.made = dom.made
    BY <1>0, <2>1, <2>2, AddEventIsHeld
  <2> QED BY <1>1, <2>3, CalledAlone DEF CallOn
<1>2. ASSUME NEW selector \in BOOLEAN, CallOff(n, t, selector) PROVE Tended'
  <2>1. Held(dom', calls) /\ dom'.made = dom.made
    BY <1>0, <1>2, OffIsHeld DEF CallOff
  <2> QED BY <1>2, <2>1, CalledAlone DEF CallOff
<1>3. CASE CallTrigger(n, t)
  <2>1. /\ Call("events") /\ dom' = dom /\ triggered' = triggered
        /\ active' \in {n, active}
        /\ stack' \in {stack, Pushed(Event("browser", t, n, FocusPath(n))),
                       Pushed(Event("trigger", t, n, TriggerPath(n, t)))}
    BY <1>3 DEF CallTrigger
  <2>2. \A by, path : path \in Seq(Steps) => Frames(dom, Pushed(Event(by, t, n, path)))
    BY <1>0, EventIsFrame, FramePushed DEF Pushed
  <2>3. FocusPath(n) \in Seq(Steps) /\ TriggerPath(n, t) \in Seq(Steps)
    BY <1>0, PathsAre
  <2>4. Frames(dom, stack')
    BY <1>0, <2>1, <2>2, <2>3
  <2> QED BY <1>0, <2>1, <2>4, CalledIsTended
<1>4. CASE CallTriggerHandler(n, t)
  <2> DEFINE path == <<<<n, TypeOf(t, FALSE)>>>>
  <2>1. /\ Call("events") /\ dom' = dom /\ triggered' = triggered /\ active' = active
        /\ stack' = Pushed(Event("handler", t, n, path))
    BY <1>4 DEF CallTriggerHandler
  <2>2. path \in Seq(Steps)
    BY <1>0, PathsAre
  <2> HIDE DEF path
  <2>3. Frames(dom, stack')
    BY <1>0, <2>1, <2>2, EventIsFrame, FramePushed DEF Pushed
  <2> QED BY <1>0, <2>1, <2>3, CalledIsTended
<1> QED BY <1>1, <1>2, <1>3, <1>4

LEMMA OffAllIsTended ==
  ASSUME Inv, Tended, NEW n \in MayHold, CallOffAll(n)
  PROVE  Tended'
<1>1. n \in Node /\ Held(dom, calls) /\ calls \in Nat
  BY HeldAre DEF Tended
<1>2. Held(dom', calls) /\ dom'.made = dom.made
  BY <1>1, OffAllIsHeld DEF CallOffAll
<1> QED BY <1>2, CalledAlone DEF CallOffAll

LEMMA PointerIsHeld ==
  ASSUME NEW D, NEW c, Held(D, c), NEW p, NEW q
  PROVE  LET E == [D EXCEPT !.pointer = p, !.entered = q] IN Held(E, c) /\ E.made = D.made
<1> DEFINE E == [D EXCEPT !.pointer = p, !.entered = q]
<1>1. DOMAIN E = Fields /\ SameBut(D, E, Beside)
  BY DEF Held, SameBut, Beside, Fields
<1> HIDE DEF E
<1>2. Held(E, c) /\ E.made = D.made
  BY <1>1, HeldSame
<1> QED BY <1>2 DEF E

LEMMA UserIsTended ==
  ASSUME Inv, Tended, NEW n \in MayHold, NEW t \in page.types, UserEvent(n, t)
  PROVE  Tended'
<1>0. /\ n \in dom.made /\ n \in Node /\ t \in Type /\ Tree(dom) /\ Held(dom, calls)
      /\ stack = <<>> /\ Call("events") /\ triggered' = triggered
      /\ {"click", "mouseover"} \subseteq Kept
  BY HeldAre DEF Tended, UserEvent, Kept
<1> DEFINE Clicked == Event("browser", t, n, Route(dom, n, t))
           Focused == Event("browser", t, n, FocusPath(n))
           Over == Event("browser", "mouseover", n, Route(dom, n, "mouseover"))
           Hovered == [Over EXCEPT !["related"] = dom.pointer]
           e == [dom EXCEPT !.pointer = n,
                            !.entered = {q \in @ : q.elem \in Ancestors(dom, n)}]
<1>1. \/ t = "click" /\ dom' = dom /\ active' = active /\ stack' = <<Clicked>>
      \/ dom' = dom /\ active' = n /\ stack' = <<Focused>>
      \/ dom' = e /\ active' = active /\ stack' = <<Hovered>>
  BY DEF UserEvent
<1>2. \A f : Frame(dom, f) => Frames(dom, <<f>>)
  <2> SUFFICES ASSUME NEW f, Frame(dom, f) PROVE Frames(dom, <<f>>)
    OBVIOUS
  <2>1. \A g \in {f} : Frame(dom, g)
    OBVIOUS
  <2> DEFINE S == {f}
             s == <<f>>
  <2>2. s \in Seq(S)
    OBVIOUS
  <2> HIDE DEF S, s
  <2>3. Frames(dom, s)
    BY <2>1, <2>2 DEF Frames, S
  <2> QED BY <2>3 DEF s
<1>3. t = "click" => Frame(dom, Clicked)
  BY <1>0, RouteIsPath, EventIsFrame
<1>4. Frame(dom, Focused)
  BY <1>0, PathsAre, EventIsFrame
<1>5. Frame(dom, Hovered)
  <2>1. Frame(dom, Over)
    BY <1>0, RouteIsPath, EventIsFrame
  <2> HIDE DEF Over
  <2> QED BY <2>1, FrameMarked
<1>6. Held(e, calls) /\ e.made = dom.made
  <2> DEFINE q == {p \in dom.entered : p.elem \in Ancestors(dom, n)}
  <2>1. e = [dom EXCEPT !.pointer = n, !.entered = q]
    OBVIOUS
  <2> HIDE DEF q, e
  <2> QED BY <1>0, <2>1, PointerIsHeld
<1> HIDE DEF Clicked, Focused, Hovered, e
<1>7. Held(dom', calls) /\ dom'.made = dom.made /\ active' \in dom.made \cup {None}
  BY <1>0, <1>1, <1>6 DEF Tended
<1>8. Frames(dom, stack')
  BY <1>1, <1>2, <1>3, <1>4, <1>5
<1>9. Frames(dom', stack')
  BY <1>7, <1>8, FramesLater
<1> QED BY <1>0, <1>7, <1>9, CalledIsTended

LEMMA MovedIsTended ==
  ASSUME NEW D, NEW c, Held(D, c), dom' = Moved(D), dom.made \subseteq D.made
  PROVE  Held(dom', c) /\ dom.made \subseteq dom'.made
BY MovedIsHeld

\* What is put somewhere lies below nodes that it does not contain.
LEMMA AboveIsApart ==
  ASSUME NEW D, NEW c, Held(D, c), NEW t \in D.made, NEW n, t \notin GetAll(D, n)
  PROVE  LET U == Ancestors(D, t)
         IN U \in SUBSET Node /\ t \in U /\ UpTo(D, U) /\ n \notin U
<1>1. Tree(D) /\ t \in Node
  BY DEF Held, Tree
<1>2. n \notin Ancestors(D, t)
  BY DEF GetAll
<1> QED BY <1>1, <1>2, AncestorsUp, AncestorsClosed

LEMMA TreesAreTended ==
  ASSUME Inv, Tended, NEW n \in MayHold,
         \/ CallRemove(n) \/ CallDetach(n) \/ CallEmpty(n)
         \/ \E m \in MayHold : CallHtml(n, m)
         \/ \E withData \in BOOLEAN : CallClone(n, withData)
  PROVE  Tended'
<1>0. /\ n \in dom.made /\ n \in Node /\ dom.made \subseteq Node /\ Held(dom, calls)
      /\ MayHold \subseteq dom.made
  BY HeldAre DEF Tended
<1>1. CASE CallRemove(n)
  <2>1. Held(dom', calls) /\ dom.made \subseteq dom'.made
    BY <1>0, <1>1, RemoveIsHeld, MovedIsTended DEF CallRemove
  <2> QED BY <1>1, <2>1, CalledAlone DEF CallRemove
<1>2. CASE CallDetach(n)
  <2>1. Held(dom', calls) /\ dom.made \subseteq dom'.made
    BY <1>0, <1>2, FragmentIsHeld, MovedIsTended DEF CallDetach, Detach
  <2> QED BY <1>2, <2>1, CalledAlone DEF CallDetach
<1>3. CASE CallEmpty(n)
  <2>1. Held(dom', calls) /\ dom.made \subseteq dom'.made
    BY <1>0, <1>3, EmptyIsHeld, MovedIsTended DEF CallEmpty
  <2> QED BY <1>3, <2>1, CalledAlone DEF CallEmpty
<1>4. ASSUME NEW m \in MayHold, CallHtml(n, m) PROVE Tended'
  <2> DEFINE E == Empty(dom, n)
             F == DomManip(E, "append", <<n>>, m)
             U == Ancestors(dom, n)
             S == Scripts(E, m)
  <2>1. /\ Call("moves") /\ n \notin GetAll(dom, m) /\ dom' = Moved(F)
        /\ stack' = Append(stack, Evaluation(S))
        /\ active' = active /\ triggered' = triggered
    BY <1>4 DEF CallHtml, Pushed
  <2>2. /\ Held(E, calls) /\ E.made = dom.made
        /\ \A V \in SUBSET Node : UpTo(dom, V) => UpTo(E, V)
    BY <1>0, EmptyIsHeld
  <2>3. U \in SUBSET Node /\ n \in U /\ UpTo(dom, U) /\ m \notin U
    BY <1>0, <2>1, AboveIsApart
  <2> HIDE DEF E, U, S
  <2>4. UpTo(E, U) /\ Len(<<n>>) = 1 /\ <<n>>[1] = n /\ "append" \in How /\ m \in Node
    BY <1>0, <2>2, <2>3 DEF How
  <2>5. Held(F, calls) /\ F.made = E.made
    BY <1>0, <2>2, <2>3, <2>4, InsertOneIsHeld
  <2> HIDE DEF F
  <2>6. Held(dom', calls) /\ dom.made \subseteq dom'.made
    BY <2>1, <2>2, <2>5, MovedIsTended
  <2>7. Frames(dom, stack')
    BY <2>1, CodeIsFrame, FramePushed DEF Tended
  <2>8. Frames(dom', stack')
    BY <2>6, <2>7, FramesLater
  <2> QED BY <2>1, <2>6, <2>8, CalledIsTended DEF Tended
<1>5. ASSUME NEW withData, CallClone(n, withData) PROVE Tended'
  <2> DEFINE f == CopyOf(dom, n)
             G == GetAll(dom, n)
  <2>1. f \in [G -> Spare \ dom.made] /\ \A m, k \in G : f[m] = f[k] => m = k
    BY <1>0, <1>5, CopyExists DEF CallClone, Copies
  <2>2. n \in G /\ G \in SUBSET dom.made /\ \A m \in G \ {n} : dom.parent[m] \in G
    BY <1>0, GetAllUp, GetAllNodes
  <2>3. dom' = Clone(dom, n, withData, f)
    BY <1>5 DEF CallClone
  <2> HIDE DEF f, G
  <2>4. Copying(dom, n, G, f)
    BY <2>1, <2>2 DEF Copying
  <2> DEFINE K == {f[m] : m \in G}
  <2>5. Held(dom', calls) /\ dom'.made = dom.made \cup K
    BY <1>0, <2>3, <2>4, CloneIsHeld
  <2> QED BY <1>5, <2>5, CalledAlone DEF CallClone
<1> QED BY <1>1, <1>2, <1>3, <1>4, <1>5

LEMMA InsertIsTended ==
  ASSUME Inv, Tended, NEW how \in How, NEW targets \in Targets, NEW n \in MayHold,
         CallInsert(how, targets, n)
  PROVE  Tended'
<1>0. /\ Call("moves") /\ Held(dom, calls) /\ active' = active /\ triggered' = triggered
      /\ n \in dom.made /\ n \in Node /\ dom.made \subseteq Node /\ MayHold \subseteq dom.made
  BY HeldAre DEF Tended, CallInsert
<1>1. /\ Len(targets) \in {1, 2} /\ DOMAIN targets = 1..Len(targets)
      /\ \A i \in 1..Len(targets) : targets[i] \in MayHold
  <2>1. ASSUME NEW m \in MayHold, targets = <<m>>
        PROVE  /\ Len(targets) \in {1, 2} /\ DOMAIN targets = 1..Len(targets)
               /\ \A i \in 1..Len(targets) : targets[i] \in MayHold
    BY <2>1
  <2>2. ASSUME NEW a \in MayHold, NEW b \in MayHold, targets = <<a, b>>
        PROVE  /\ Len(targets) \in {1, 2} /\ DOMAIN targets = 1..Len(targets)
               /\ \A i \in 1..Len(targets) : targets[i] \in MayHold
    BY <2>2
  <2>3. \/ \E m \in MayHold : targets = <<m>>
        \/ \E a, b \in MayHold : targets = <<a, b>>
    BY DEF Targets
  <2> QED BY <2>1, <2>2, <2>3
<1>2. CASE \E i \in DOMAIN targets : targets[i] = n
  <2>1. dom' = Moved(Ignored(dom, how, targets, n)) /\ stack' = stack
    BY <1>2 DEF CallInsert
  <2>2. Held(dom', calls) /\ dom.made \subseteq dom'.made
    BY <1>0, <1>1, <2>1, IgnoredIsHeld, MovedIsTended
  <2> QED BY <1>0, <2>1, <2>2, CalledAlone
<1>3. CASE ~ \E i \in DOMAIN targets : targets[i] = n
  <2> DEFINE F == DomManip(dom, how, targets, n)
             S == Scripts(dom, n)
             t == targets[Len(targets)]
             U == Ancestors(dom, t)
  <2>1. /\ dom' = Moved(F) /\ stack' = Append(stack, Evaluation(S))
        /\ Len(targets) = 2 => CanCopy(dom, n)
        /\ \A i \in DOMAIN targets : targets[i] \notin GetAll(dom, n)
    BY <1>3 DEF CallInsert, Pushed
  <2>2. Len(targets) \in DOMAIN targets
    BY <1>1
  <2>3. t \in dom.made /\ U \in SUBSET Node /\ t \in U /\ UpTo(dom, U) /\ n \notin U
    <3>1. t \in dom.made /\ t \notin GetAll(dom, n)
      BY <1>0, <1>1, <2>1, <2>2
    <3> HIDE DEF t
    <3> QED BY <1>0, <3>1, AboveIsApart
  <2> HIDE DEF U, S
  <2>4. Held(F, calls) /\ dom.made \subseteq F.made
    <3>1. CASE Len(targets) = 1
      BY <1>0, <2>3, <3>1, InsertOneIsHeld
    <3>2. CASE Len(targets) = 2
      <4>1. targets[1] \in dom.made /\ targets[2] \in dom.made /\ CanCopy(dom, n)
            /\ t = targets[2] /\ Len(targets) # 1
        BY <1>0, <1>1, <2>1, <3>2
      <4> QED BY <1>0, <2>3, <4>1, InsertTwoIsHeld
    <3> QED BY <1>1, <3>1, <3>2
  <2> HIDE DEF F
  <2>5. Held(dom', calls) /\ dom.made \subseteq dom'.made
    BY <2>1, <2>4, MovedIsTended
  <2>6. Frames(dom, stack')
    BY <2>1, CodeIsFrame, FramePushed DEF Tended
  <2>7. Frames(dom', stack')
    BY <2>5, <2>6, FramesLater
  <2> QED BY <1>0, <2>5, <2>7, CalledIsTended DEF Tended
<1> QED BY <1>2, <1>3

LEMMA NodesAreTended ==
  ASSUME Inv, Tended, NEW n \in MayHold,
         CallData(n) \/ CallLooks(n) \/ \E k \in Class : CallClasses(n, k)
  PROVE  Tended'
<1>0. Held(dom, calls)
  BY DEF Tended
<1>1. UNCHANGED <<active, triggered, stack>> /\ \E use : Call(use)
  BY DEF CallData, CallLooks, CallClasses
<1>2. \E v : dom' \in {SetData(dom, n, v), RemoveData(dom, n), SetAttr(dom, n, v),
                       Read(dom, n), ReadAll(dom, n), Show(dom, n), Hide(dom, n),
                       Toggle(dom, n), SetStyle(dom, n, v), AddClass(dom, n, v),
                       RemoveClass(dom, n, v), ToggleOne(dom, n, v), Strip(dom, n),
                       ToggleAll(dom, n)}
  <2>1. CASE CallData(n)
    BY <2>1 DEF CallData
  <2>2. CASE CallLooks(n)
    BY <2>2 DEF CallLooks
  <2>3. CASE \E k \in Class : CallClasses(n, k)
    BY <2>3 DEF CallClasses
  <2> QED BY <2>1, <2>2, <2>3
<1>3. Held(dom', calls) /\ dom'.made = dom.made
  BY <1>0, <1>2, NodesAreHeld
<1> QED BY <1>1, <1>3, CalledAlone

LEMMA DequeuedIsHeld ==
  ASSUME Tended, NEW D, NEW c, NEW n \in Node, Held(D, c), D.made = dom.made, Dequeued(D, n)
  PROVE  Held(dom', c) /\ dom'.made = dom.made /\ Frames(dom', stack')
<1>1. Held(dom', c) /\ dom'.made = dom.made
  BY DequeueIsHeld DEF Dequeued
<1>2. stack' \in {stack, Append(stack, Code)}
  BY DEF Dequeued, Pushed
<1>3. Frames(dom, stack')
  BY <1>2, CodeIsFrame, FramePushed DEF Tended
<1> QED BY <1>1, <1>3, FramesLater

LEMMA QueuesAreTended ==
  ASSUME Inv, Tended,
         \/ \E n \in MayHold : \/ CallQueue(n) \/ CallClearQueue(n) \/ CallDequeue(n)
                               \/ RunNext(n)
         \/ \E S \in SUBSET MayHold : S # {} /\ CallPromise(S)
  PROVE  Tended'
<1>0. /\ MayHold \subseteq Node /\ Held(dom, calls) /\ Held(dom, calls + 1) /\ calls + 1 \in Nat
      /\ active \in dom.made \cup {None} /\ triggered \in Type \cup {None}
  BY HeldAre, HeldLater DEF Tended
<1>1. ASSUME NEW n \in MayHold, CallQueue(n) PROVE Tended'
  <2> DEFINE E == Queue(dom, n, calls + 1)
  <2>1. /\ Call("queues") /\ active' = active /\ triggered' = triggered
        /\ (dom' = E /\ stack' = stack) \/ Dequeued(E, n)
    BY <1>1 DEF CallQueue
  <2>2. Held(E, calls + 1) /\ E.made = dom.made
    BY <1>0, QueueIsHeld
  <2> HIDE DEF E
  <2>3. CASE dom' = E /\ stack' = stack
    BY <2>1, <2>2, <2>3, CalledAlone
  <2>4. CASE Dequeued(E, n)
    BY <1>0, <2>1, <2>2, <2>4, DequeuedIsHeld, CalledIsTended
  <2> QED BY <2>1, <2>3, <2>4
<1>2. ASSUME NEW n \in MayHold, CallClearQueue(n) PROVE Tended'
  <2>1. Held(dom', calls) /\ dom'.made = dom.made
    BY <1>0, <1>2, ClearQueueIsHeld DEF CallClearQueue
  <2> QED BY <1>2, <2>1, CalledAlone DEF CallClearQueue
<1>3. ASSUME NEW n \in MayHold, CallDequeue(n) PROVE Tended'
  <2> DEFINE S == dom.upset \cup {n}
             E == [dom EXCEPT !.upset = S]
  <2>1. Call("queues") /\ active' = active /\ triggered' = triggered /\ Dequeued(E, n)
    BY <1>3 DEF CallDequeue
  <2> HIDE DEF S
  <2>2. Held(E, calls) /\ E.made = dom.made
    BY <1>0, UpsetIsHeld
  <2> HIDE DEF E
  <2> QED BY <1>0, <2>1, <2>2, DequeuedIsHeld, CalledIsTended
<1>4. ASSUME NEW n \in MayHold, RunNext(n) PROVE Tended'
  <2>1. PICK f \in dom.running[n] : Dequeued([dom EXCEPT !.running[n] = @ \ {f}], n)
    BY <1>4 DEF RunNext
  <2> DEFINE S == dom.running[n] \ {f}
             E == [dom EXCEPT !.running[n] = S]
  <2>2. Dequeued(E, n)
    BY <2>1
  <2> HIDE DEF S
  <2>3. Held(E, calls) /\ E.made = dom.made
    BY <1>0, UpsetIsHeld
  <2> HIDE DEF E
  <2>4. Held(dom', calls) /\ dom'.made = dom.made /\ Frames(dom', stack')
    BY <1>0, <2>2, <2>3, DequeuedIsHeld
  <2> QED BY <1>0, <1>4, <2>4, QuietIsTended DEF RunNext
<1>5. ASSUME NEW S \in SUBSET MayHold, CallPromise(S) PROVE Tended'
  <2>1. Held(dom', calls) /\ dom'.made = dom.made
    BY <1>0, <1>5, PromiseIsHeld DEF CallPromise
  <2> QED BY <1>5, <2>1, CalledAlone DEF CallPromise
<1> QED BY <1>1, <1>2, <1>3, <1>4, <1>5

LEMMA ReturnIsTended ==
  ASSUME Inv, Tended, NEW answer \in {"go", "false", "stop"}, Return(answer)
  PROVE  Tended'
<1> DEFINE below == Len(stack) - 1
<1>0. /\ stack # <<>> /\ UNCHANGED <<page, calls, dom, active, triggered>>
      /\ \/ stack' = Popped
         \/ /\ below > 0 /\ stack[below].at = "dispatch"
            /\ stack' = [Popped EXCEPT
                           ![below].rest = Left(stack[below], answer),
                           ![below - 1].stopped = @ \/ answer # "go",
                           ![below - 1].prevented = @ \/ answer = "false"]
  BY DEF Return, TopIs
<1>1. Frames(dom, Popped)
  BY <1>0, TopIsFrame
<1>2. CASE /\ below > 0 /\ stack[below].at = "dispatch"
           /\ stack' = [Popped EXCEPT
                          ![below].rest = Left(stack[below], answer),
                          ![below - 1].stopped = @ \/ answer # "go",
                          ![below - 1].prevented = @ \/ answer = "false"]
  <2> DEFINE f == [Popped[below] EXCEPT !["rest"] = Left(stack[below], answer)]
             p == [Popped EXCEPT ![below] = f]
             g == [p[below - 1] EXCEPT !["stopped"] = @ \/ answer # "go"]
             q == [p EXCEPT ![below - 1] = g]
             h == [q[below - 1] EXCEPT !["prevented"] = @ \/ answer = "false"]
  <2>1. stack' = [q EXCEPT ![below - 1] = h]
    BY <1>2, Zenon
  <2>2. Len(stack) \in Nat /\ below \in 1..Len(stack) /\ Frame(dom, stack[below])
        /\ Popped[below] = stack[below]
    <3>1. PICK S : stack \in Seq(S)
      BY DEF Tended, Frames
    <3>2. Len(stack) \in Nat /\ below \in 1..Len(stack)
      BY <1>2, <3>1
    <3>3. Popped[below] = stack[below]
      BY <3>1, <3>2 DEF Popped
    <3> QED BY <3>2, <3>3, FramesAre DEF Tended
  <2> HIDE DEF below
  <2>3. Entries(Left(stack[below], answer))
    <3>1. Entries(stack[below].rest)
      BY <1>2, <2>2 DEF Frame, EventFrame, DispatchFrame
    <3> QED BY <3>1, EntriesLeft
  <2>4. Frame(dom, f)
    <3> DEFINE r == Left(stack[below], answer)
    <3> HIDE DEF r
    <3>1. f = [stack[below] EXCEPT !["rest"] = r]
      BY <2>2 DEF r
    <3>2. Entries(r)
      BY <2>3 DEF r
    <3>3. DispatchFrame(stack[below])
      BY <1>2, <2>2 DEF Frame, EventFrame
    <3>4. DispatchFrame(f)
      BY <3>1, <3>2, <3>3 DEF DispatchFrame
    <3> QED BY <3>4 DEF Frame
  <2> HIDE DEF f
  <2>5. Frames(dom, p)
    BY <1>1, <2>4, FrameChanged
  <2> HIDE DEF p
  <2>6. below - 1 \in DOMAIN p => Frame(dom, g)
    <3>1. below - 1 \in DOMAIN p => Frame(dom, p[below - 1])
      BY <2>5, FramesAre
    <3> QED BY <3>1, FrameMarked
  <2> HIDE DEF g
  <2>7. Frames(dom, q)
    BY <2>5, <2>6, FrameChanged
  <2> HIDE DEF q
  <2>8. below - 1 \in DOMAIN q => Frame(dom, h)
    <3>1. below - 1 \in DOMAIN q => Frame(dom, q[below - 1])
      BY <2>7, FramesAre
    <3> QED BY <3>1, FrameMarked
  <2> HIDE DEF h
  <2>9. Frames(dom, stack')
    BY <2>1, <2>7, <2>8, FrameChanged
  <2> QED BY <1>0, <2>9, QuietIsTended DEF Tended
<1>3. CASE stack' = Popped
  BY <1>0, <1>1, <1>3, QuietIsTended DEF Tended
<1> QED BY <1>0, <1>2, <1>3

LEMMA DispatchIsTended ==
  ASSUME Inv, Tended, Dispatch
  PROVE  Tended'
<1> DEFINE e == Top
           i == CHOOSE i \in Nexts(e) : \A k \in Nexts(e) : i <= k
           n == e.path[i][1]
           t == e.path[i][2]
           below == [e EXCEPT !["path"] = SubSeq(@, i + 1, Len(@))]
           f == WithTop(below)
           again == Event("simulated", "focusin", e.target, Route(dom, e.target, "focusin"))
           next == [at |-> "dispatch", elem |-> None, rest |-> HandlerQueue(n, t, e.target)]
<1>0. /\ stack # <<>> /\ e.at = "event" /\ Nexts(e) # {}
      /\ UNCHANGED <<page, calls, dom, active, triggered>>
  BY DEF Dispatch, TopIs
<1>1. stack' = IF t = "capture" THEN Append(f, again) ELSE Append(f, next)
  BY DEF Dispatch
<1>2. EventFrame(dom, e)
  <2>1. Frame(dom, e)
    BY <1>0, TopIsFrame
  <2> HIDE DEF e
  <2> QED BY <1>0, <2>1 DEF Frame, DispatchFrame
<1>3. /\ e.target \in dom.made /\ e.target \in Node /\ e.path \in Seq(Steps)
      /\ Held(dom, calls) /\ Tree(dom)
  BY <1>2, HeldAre DEF EventFrame, Tended
<1>4. Len(e.path) \in Nat /\ DOMAIN e.path = 1..Len(e.path)
  BY <1>3
<1>5. i \in Nexts(e)
  <2>1. Nexts(e) \in SUBSET Nat
    BY <1>4 DEF Nexts
  <2>2. \E j \in Nexts(e) : \A k \in Nexts(e) : j <= k
    BY <1>0, <2>1, Least
  <2> HIDE DEF e
  <2> QED BY <2>2
<1> HIDE DEF e, i
<1>6. i \in 1..Len(e.path) /\ Live(e, i) /\ e.path[i] \in Steps
  BY <1>3, <1>4, <1>5 DEF Nexts
<1>7. n \in Node
  BY <1>6 DEF Steps
<1>8. Frames(dom, f)
  <2> DEFINE p == SubSeq(e.path, i + 1, Len(e.path))
  <2>1. p \in Seq(Steps)
    BY <1>3, <1>6
  <2>2. below = [e EXCEPT !["path"] = p]
    OBVIOUS
  <2> HIDE DEF p
  <2>3. EventFrame(dom, below)
    BY <1>2, <2>1, <2>2 DEF EventFrame
  <2> HIDE DEF below
  <2>4. Frame(dom, below)
    BY <2>3 DEF Frame
  <2> QED BY <1>0, <2>4, TopChanged
<1> HIDE DEF f, n, t
<1>9. Frame(dom, again)
  <2>1. Route(dom, e.target, "focusin") \in Seq(Steps)
    BY <1>3, RouteIsPath DEF Kept
  <2> QED BY <1>3, <2>1, EventIsFrame
<1>10. t # "capture" => Frame(dom, next)
  <2>1. ASSUME t # "capture" PROVE Frame(dom, next)
    <3>1. Has(dom, n, t)
      BY <1>6, <2>1 DEF Live, n, t
    <3>2. Entries(HandlerQueue(n, t, e.target))
      BY <1>3, <1>7, <3>1, QueueOfHandlers
    <3> DEFINE r == HandlerQueue(n, t, e.target)
    <3> HIDE DEF r
    <3>3. Entries(r)
      BY <3>2 DEF r
    <3>4. DispatchFrame([at |-> "dispatch", elem |-> None, rest |-> r])
      BY <3>3 DEF DispatchFrame
    <3>5. Frame(dom, [at |-> "dispatch", elem |-> None, rest |-> r])
      BY <3>4 DEF Frame
    <3> QED BY <3>5 DEF r
  <2> QED BY <2>1
<1> HIDE DEF again, next
<1>11. Frames(dom, stack')
  BY <1>1, <1>8, <1>9, <1>10, FramePushed
<1> QED BY <1>0, <1>11, QuietIsTended DEF Tended

LEMMA EnteredIsHeld ==
  ASSUME NEW D, NEW c, Held(D, c), NEW v
  PROVE  /\ Held([D EXCEPT !.entered = v], c) /\ [D EXCEPT !.entered = v].made = D.made
         /\ Held([D EXCEPT !.ran = v], c) /\ [D EXCEPT !.ran = v].made = D.made
<1> DEFINE E == [D EXCEPT !.entered = v]
           F == [D EXCEPT !.ran = v]
<1>0. DOMAIN D = Fields
  BY DEF Held
<1>1. DOMAIN E = Fields /\ SameBut(D, E, Beside)
  BY <1>0 DEF SameBut, Beside, Fields
<1>2. DOMAIN F = Fields /\ SameBut(D, F, Beside)
  BY <1>0 DEF SameBut, Beside, Fields
<1> HIDE DEF E, F
<1>3. Held(E, c) /\ E.made = D.made /\ Held(F, c) /\ F.made = D.made
  BY <1>1, <1>2, HeldSame
<1> QED BY <1>3 DEF E, F

LEMMA HandlerIsTended ==
  ASSUME Inv, Tended, CallHandler
  PROVE  Tended'
<1> DEFINE q == Head(Top.rest)
           below == Len(stack) - 1
           left == [Top EXCEPT !.rest = Tail(@), !.elem = q.elem]
           f == WithTop(left)
           hovers == stack[below].by = "browser" /\ q.h.origType = "mouseenter"
           entry == IF hovers THEN {q} ELSE {}
           E == OneFirst(dom, q)
           logged == [f[below] EXCEPT !["log"] = Append(@, q)]
<1>0. /\ stack # <<>> /\ Top.at = "dispatch" /\ Top.rest # <<>>
      /\ UNCHANGED <<page, calls, active, triggered>> /\ Held(dom, calls) /\ calls \in Nat
  BY HeldAre DEF CallHandler, TopIs, Tended
<1>1. \/ /\ dom' = [E EXCEPT !.entered = @ \cup entry]
         /\ stack' = Append([f EXCEPT ![below] = logged], Code)
      \/ dom' = dom /\ stack' = f
  BY Zenon DEF CallHandler
<1>2. DispatchFrame(Top)
  BY <1>0, TopIsFrame DEF Frame, EventFrame
<1>3. q.on \in Node /\ Entries(Tail(Top.rest))
  BY <1>0, <1>2, EntriesAre DEF DispatchFrame
<1>4. Frame(dom, left)
  <2> DEFINE r == Tail(Top.rest)
             d == Top
             x == q.elem
  <2>1. left = [d EXCEPT !.rest = r, !.elem = x]
    OBVIOUS
  <2>2. DispatchFrame(d) /\ Entries(r)
    BY <1>2, <1>3
  <2> HIDE DEF r, d, x, left
  <2>3. DispatchFrame(left)
    BY <2>1, <2>2 DEF DispatchFrame
  <2> QED BY <2>3 DEF Frame
<1> HIDE DEF left
<1>5. Frames(dom, f)
  BY <1>0, <1>4, TopChanged
<1> HIDE DEF f
<1>6. below \in DOMAIN f => Frame(dom, logged)
  <2>1. below \in DOMAIN f => Frame(dom, f[below])
    BY <1>5, FramesAre
  <2> HIDE DEF below, q
  <2> QED BY <2>1, FrameMarked
<1> HIDE DEF logged, below
<1>7. Frames(dom, Append([f EXCEPT ![below] = logged], Code))
  BY <1>5, <1>6, FrameChanged, FramePushed, CodeIsFrame
<1>8. Held(E, calls) /\ E.made = dom.made
  BY <1>0, <1>3, OneFirstIsHeld
<1> HIDE DEF E, q, entry
<1>9. Held(dom', calls) /\ dom'.made = dom.made
  <2> DEFINE v == E.entered \cup entry
  <2>1. dom' = [E EXCEPT !.entered = v] \/ dom' = dom
    BY <1>1
  <2> HIDE DEF v
  <2>2. Held([E EXCEPT !.entered = v], calls) /\ [E EXCEPT !.entered = v].made = E.made
    BY <1>8, EnteredIsHeld
  <2> DEFINE F == [E EXCEPT !.entered = v]
  <2> HIDE DEF F
  <2>3. (dom' = F \/ dom' = dom) /\ Held(F, calls) /\ F.made = E.made
    BY <2>1, <2>2 DEF F
  <2> QED BY <1>0, <1>8, <2>3
<1>10. Frames(dom, stack')
  BY <1>1, <1>5, <1>7
<1>11. Frames(dom', stack')
  BY <1>9, <1>10, FramesLater
<1> QED BY <1>0, <1>9, <1>11, QuietIsTended DEF Tended

LEMMA DefaultIsTended ==
  ASSUME Inv, Tended, DefaultAction
  PROVE  Tended'
<1> DEFINE e == Top
           f == WithTop([e EXCEPT !["ended"] = TRUE])
           path == IF e.type = "focus" THEN FocusPath(e.target)
                   ELSE Route(dom, e.target, e.type)
<1>0. /\ stack # <<>> /\ e.at = "event" /\ UNCHANGED <<page, calls, dom>>
      /\ Tree(dom) /\ dom.made \subseteq Node
  BY HeldAre DEF DefaultAction, TopIs
<1>1. \/ /\ e.type \in {"click", "focus"} /\ triggered' = e.type
         /\ active' \in {e.target, active}
         /\ stack' = Append(f, Event("default", e.type, e.target, path))
      \/ stack' = f /\ triggered' = triggered /\ active' = active
  BY DEF DefaultAction
<1>2. Frame(dom, e)
  BY <1>0, TopIsFrame
<1>3. Frames(dom, f)
  <2>1. Frame(dom, [e EXCEPT !["ended"] = TRUE])
    BY <1>2, FrameMarked
  <2> QED BY <1>0, <2>1, TopChanged
<1> HIDE DEF e, f
<1>4. e.target \in dom.made /\ e.target \in Node
  BY <1>0, <1>2 DEF Frame, EventFrame, DispatchFrame
<1>5. e.type \in {"click", "focus"} =>
        e.type \in Type /\ Frame(dom, Event("default", e.type, e.target, path))
  <2>1. ASSUME e.type \in {"click", "focus"}
        PROVE  e.type \in Type /\ e.type \in Kept \cup {"capture"} /\ path \in Seq(Steps)
    <3>1. e.type \in Type /\ e.type \in Kept \cup {"capture"}
      BY <2>1 DEF Type, Kept
    <3> QED BY <1>0, <1>4, <3>1, PathsAre, RouteIsPath
  <2> HIDE DEF path
  <2> QED BY <1>4, <2>1, EventIsFrame
<1> HIDE DEF path
<1>6. /\ Frames(dom, stack') /\ active' \in dom.made \cup {None}
      /\ triggered' \in Type \cup {None}
  BY <1>1, <1>3, <1>4, <1>5, FramePushed DEF Tended
<1> QED BY <1>0, <1>6, QuietIsTended DEF Tended

LEMMA EvaluateIsTended ==
  ASSUME Inv, Tended, Evaluate
  PROVE  Tended'
<1>0. /\ stack # <<>> /\ UNCHANGED <<page, calls, active, triggered>> /\ Held(dom, calls)
  BY DEF Evaluate, TopIs, Tended
<1>1. \/ stack' = Popped /\ dom' = dom
      \/ \E s \in Top.scripts :
           /\ dom' \in {[dom EXCEPT !.ran = @ \cup {s}], dom}
           /\ LET f == WithTop([Top EXCEPT !["scripts"] = @ \ {s}])
              IN stack' \in {Append(f, Code), f}
  BY DEF Evaluate
<1>2. CASE stack' = Popped /\ dom' = dom
  BY <1>0, <1>2, TopIsFrame, QuietIsTended DEF Tended
<1>3. ASSUME NEW s \in Top.scripts, dom' \in {[dom EXCEPT !.ran = @ \cup {s}], dom},
             LET f == WithTop([Top EXCEPT !["scripts"] = @ \ {s}])
             IN stack' \in {Append(f, Code), f}
      PROVE  Tended'
  <2> DEFINE f == WithTop([Top EXCEPT !["scripts"] = @ \ {s}])
             v == dom.ran \cup {s}
  <2>1. Frames(dom, f)
    <3>1. Frame(dom, [Top EXCEPT !["scripts"] = @ \ {s}])
      BY <1>0, TopIsFrame, FrameMarked
    <3> QED BY <1>0, <3>1, TopChanged
  <2>2. dom' = [dom EXCEPT !.ran = v] \/ dom' = dom
    BY <1>3
  <2>3. stack' = Append(f, Code) \/ stack' = f
    BY <1>3
  <2> HIDE DEF f, v
  <2>4. Frames(dom, stack')
    BY <2>1, <2>3, CodeIsFrame, FramePushed
  <2>5. Held(dom', calls) /\ dom'.made = dom.made
    <3>1. /\ Held([dom EXCEPT !.ran = v], calls)
          /\ [dom EXCEPT !.ran = v].made = dom.made
      BY <1>0, EnteredIsHeld
    <3> DEFINE F == [dom EXCEPT !.ran = v]
    <3> HIDE DEF F
    <3>2. (dom' = F \/ dom' = dom) /\ Held(F, calls) /\ F.made = dom.made
      BY <2>2, <3>1 DEF F
    <3> QED BY <1>0, <3>2
  <2>6. Frames(dom', stack')
    BY <2>4, <2>5, FramesLater
  <2> QED BY <1>0, <2>5, <2>6, QuietIsTended DEF Tended
<1> QED BY <1>1, <1>2, <1>3

LEMMA RestIsTended ==
  ASSUME Inv, Tended,
         \/ \E answer \in {"go", "false", "stop"} : Return(answer)
         \/ Dispatch \/ CallHandler \/ EndDispatch \/ DefaultAction \/ EndEvent
         \/ Evaluate
  PROVE  Tended'
<1>1. CASE EndDispatch
  <2>1. stack # <<>> /\ stack' = Popped /\ UNCHANGED <<page, calls, dom, active, triggered>>
    BY <1>1 DEF EndDispatch, TopIs
  <2> QED BY <2>1, TopIsFrame, QuietIsTended DEF Tended
<1>2. CASE EndEvent
  <2>1. /\ stack # <<>> /\ stack' = Popped /\ UNCHANGED <<page, calls, dom, active>>
        /\ triggered' \in {None, triggered}
    BY <1>2 DEF EndEvent, TopIs
  <2> QED BY <2>1, TopIsFrame, QuietIsTended DEF Tended
<1> QED BY <1>1, <1>2, ReturnIsTended, DispatchIsTended, HandlerIsTended, DefaultIsTended,
           EvaluateIsTended

\* A page two levels deep is a tree.
LEMMA FreshIsTree ==
  ASSUME NEW p \in Page
  PROVE  Tree(Fresh(p))
<1> DEFINE D == Fresh(p)
           r == [n \in Node |-> IF p.parent[n] = None THEN 0
                                ELSE IF p.parent[n] = Document THEN 1 ELSE 2]
<1>1. /\ p.parent \in [Node -> (Node \ Spare) \cup {None}]
      /\ p.parent[Document] = None
      /\ \A n \in Node : p.parent[n] \notin {None, Document} =>
                           p.parent[p.parent[n]] \in {None, Document}
  BY DomAssumption
<1>2. D.parent = p.parent /\ D.made = {Document} \cup Element \cup Script
  BY DEF Fresh
<1>3. D.made \subseteq Node /\ Node \ Spare \subseteq D.made /\ Document \in Node
  BY <1>2 DEF Node
<1> HIDE DEF D
<1>4. \A n \in Node : p.parent[n] # None => p.parent[n] \in Node
  BY <1>1
<1>5. ASSUME NEW n \in Node
      PROVE  r[n] < 3 /\ (p.parent[n] # None => r[p.parent[n]] < r[n])
  <2>1. CASE p.parent[n] \in {None, Document}
    BY <1>1, <1>3, <2>1
  <2>2. CASE p.parent[n] \notin {None, Document}
    <3>1. p.parent[n] \in Node /\ p.parent[p.parent[n]] \in {None, Document}
      BY <1>1, <1>4, <2>2
    <3>2. r[n] = 2 /\ r[p.parent[n]] \in {0, 1}
      BY <2>2, <3>1
    <3> HIDE DEF r
    <3> QED BY <3>2
  <2> QED BY <2>1, <2>2
<1>6. r \in [Node -> Nat] /\ 3 \in Nat
  OBVIOUS
<1> HIDE DEF r
<1>7. D.parent \in [Node -> D.made \cup {None}]
  BY <1>1, <1>2, <1>3
<1>8. Tree(D)
  BY <1>2, <1>3, <1>5, <1>6, <1>7 DEF Tree
<1> QED BY <1>8 DEF D

LEMMA InitIsTended ==
  ASSUME Init PROVE Tended
<1> DEFINE D == Fresh(page)
<1>1. /\ dom = D /\ calls = 0 /\ page \in Page /\ stack = <<>> /\ active = None
      /\ triggered = None
  BY DEF Init
<1>2. Tree(D)
  BY <1>1, FreshIsTree
<1>3. /\ DOMAIN D = Fields /\ D.events = [n \in Node |-> NoEvents] /\ D.bound = {}
      /\ D.attaches = 0 /\ D.capture = FALSE /\ D.leaked = 0
      /\ D.queue = [n \in Node |-> <<>>] /\ D.waits = {} /\ D.count = 0
  BY DEF Fresh, Fields
<1> HIDE DEF D
<1>4. Wired(D, 0)
  <2>1. DOMAIN D.events = Node /\ \A n \in Node : DOMAIN D.events[n] = {}
    BY <1>3 DEF NoEvents
  <2>2. Wanting(D) = {} /\ \A n \in Node, t \in Kept : ~Has(D, n, t)
    BY <2>1 DEF Wanting, Has
  <2>3. Cardinality(Wanting(D)) = 0
    BY <2>2, FS_EmptySet
  <2>4. D.attaches = Cardinality(Wanting(D)) + D.leaked
    BY <1>3, <2>3
  <2>5. D.attaches \in Nat /\ D.leaked \in Nat /\ D.capture \in BOOLEAN
        /\ (D.capture <=> D.attaches > 0)
    <3>1. D.attaches \in Nat /\ D.leaked \in Nat /\ ~(D.attaches > 0)
      BY <1>3
    <3>2. D.capture \in BOOLEAN /\ ~D.capture
      BY <1>3, Zenon
    <3> QED BY <3>1, <3>2
  <2>6. /\ D.bound \subseteq Node \X Kept
        /\ \A n \in Node, t \in Kept \ {"focusin"} : <<n, t>> \in D.bound <=> Has(D, n, t)
    BY <1>3, <2>2
  <2> QED BY ONLY <2>1, <2>4, <2>5, <2>6 DEF Wired
<1>5. Waiting(D)
  BY <1>3, FS_EmptySet DEF Waiting
<1>6. Frames(D, <<>>)
  <2> DEFINE S == {}
             s == <<>>
  <2>1. s \in Seq(S) /\ \A f \in S : Frame(D, f)
    OBVIOUS
  <2> HIDE DEF S, s
  <2>2. Frames(D, s)
    BY <2>1 DEF Frames
  <2> QED BY <2>2 DEF s
<1>7. 0 \in 0..page.calls
  BY <1>1, DomAssumption
<1> QED BY <1>1, <1>2, <1>3, <1>4, <1>5, <1>6, <1>7 DEF Tended, Held

LEMMA StepIsTended ==
  ASSUME Inv, Tended, [Next]_vars PROVE Tended'
<1>1. CASE UNCHANGED vars
  <2>1. UNCHANGED <<page, calls, dom, active, triggered, stack>>
    BY <1>1 DEF vars
  <2> QED BY <2>1, QuietIsTended DEF Tended
<1>2. CASE Next
  <2>1. ASSUME NEW n \in MayHold, NEW t \in page.types,
               \/ \E selector, one \in BOOLEAN : CallOn(n, t, selector, one)
               \/ \E selector \in BOOLEAN : CallOff(n, t, selector)
               \/ CallTrigger(n, t) \/ CallTriggerHandler(n, t) \/ UserEvent(n, t)
        PROVE  Tended'
    BY <2>1, EventsAreTended, UserIsTended
  <2>2. ASSUME NEW n \in MayHold, CallOffAll(n) PROVE Tended'
    BY <2>2, OffAllIsTended
  <2>3. ASSUME NEW n \in MayHold,
               \/ CallRemove(n) \/ CallDetach(n) \/ CallEmpty(n)
               \/ \E c \in MayHold : CallHtml(n, c)
               \/ \E withData \in BOOLEAN : CallClone(n, withData)
               \/ CallData(n) \/ CallLooks(n)
               \/ \E c \in Class : CallClasses(n, c)
        PROVE  Tended'
    BY <2>3, TreesAreTended, NodesAreTended
  <2>4. ASSUME NEW how \in How, NEW targets \in Targets, NEW c \in MayHold,
               CallInsert(how, targets, c)
        PROVE  Tended'
    BY <2>4, InsertIsTended
  <2> QED BY <1>2, <2>1, <2>2, <2>3, <2>4, QueuesAreTended, RestIsTended DEF Next, How
<1> QED BY <1>1, <1>2

LEMMA TendedIsKept ==
  ASSUME Inv, Tended PROVE HandlersKept
<1>1. /\ DOMAIN dom = Fields /\ Tree(dom) /\ Wired(dom, calls) /\ Waiting(dom)
      /\ page \in Page
  BY DEF Tended, Held, Inv
<1>2. ASSUME NEW n \in Node, NEW t \in DOMAIN dom.events[n]
      PROVE  /\ t \in Kept
             /\ Listed(dom, n, t) \subseteq Handler /\ Listed(dom, n, t) # {}
             /\ \A h \in Listed(dom, n, t) : TypeOf(h.origType, h.selector) = t
             /\ LET l == Handlers(dom, n, t)
                IN \A i \in DOMAIN l.list : l.list[i].selector <=> i <= l.delegateCount
  <2> DEFINE l == Handlers(dom, n, t)
             s == l.list
             k == l.delegateCount
  <2>1. t \in Kept /\ Orderly(l, t, calls)
    BY <1>1, HandlersAre DEF Has
  <2>2. /\ s \in Seq(Handler) /\ s # <<>>
        /\ \A i \in 1..Len(s) : /\ TypeOf(s[i].origType, s[i].selector) = t
                                /\ s[i].selector <=> i <= k
    BY <2>1 DEF Orderly
  <2>3. Listed(dom, n, t) = {s[i] : i \in DOMAIN s}
    BY DEF Listed
  <2> HIDE DEF s, k
  <2>4. DOMAIN s = 1..Len(s) /\ Len(s) \in Nat \ {0} /\ \A i \in 1..Len(s) : s[i] \in Handler
    BY <2>2
  <2>5. 1 \in DOMAIN s
    BY <2>4
  <2>6. \A i \in DOMAIN s : s[i].selector <=> i <= k
    BY <2>2, <2>4
  <2>7. /\ Listed(dom, n, t) \subseteq Handler /\ Listed(dom, n, t) # {}
        /\ \A h \in Listed(dom, n, t) : TypeOf(h.origType, h.selector) = t
    BY <2>2, <2>3, <2>4, <2>5
  <2> QED BY <2>1, <2>6, <2>7 DEF s, k
<1>3. \A i \in DOMAIN stack : stack[i].at \in {"code", "event", "dispatch", "eval"}
  <2>1. \A f : Frame(dom, f) => f.at \in {"code", "event", "dispatch", "eval"}
    BY DEF Frame, EventFrame, DispatchFrame
  <2>2. DOMAIN stack = 1..Len(stack) /\ \A i \in 1..Len(stack) : Frame(dom, stack[i])
    BY FramesAre DEF Tended
  <2> QED BY <2>1, <2>2
<1>4. TypeOK
  <2>1. dom.made \subseteq Node /\ dom.parent \in [Node -> Node \cup {None}]
    BY <1>1 DEF Tree
  <2>2. /\ dom.attaches \in Nat /\ dom.count \in Nat /\ dom.queue \in [Node -> Seq(Nat)]
        /\ calls \in 0..page.calls /\ active \in dom.made \cup {None}
        /\ triggered \in Type \cup {None}
    BY <1>1 DEF Tended, Wired, Waiting
  <2> QED BY <1>1, <1>2, <1>3, <2>1, <2>2 DEF TypeOK
<1>5. ListenersMatch
  BY <1>1 DEF Wired, ListenersMatch
<1>6. FocusCounted
  BY <1>1 DEF Wired, Wanting, FocusCounted
<1>7. DelegatesFirst
  BY <1>2 DEF DelegatesFirst
<1> QED BY <1>4, <1>5, <1>6, <1>7 DEF HandlersKept

\* Listeners are bound for exactly the handlers there are, the document captures
\* focus exactly while somebody is counted, and delegates come first in each list,
\* however elements are moved, copied, emptied and removed, by whatever calls whose
\* handlers are under way (jQuery.event.add and remove, cleanData, cloneCopyEvent,
\* special.focusin of jquery-3.2.0.slim.js).
THEOREM HandlersAreKept == Spec => []HandlersKept
<1>1. Init => Tended
  BY InitIsTended
<1>2. Inv /\ Tended /\ [Next]_vars => Tended'
  BY StepIsTended
<1>3. Inv /\ Tended => HandlersKept
  BY TendedIsKept
<1> QED BY <1>1, <1>2, <1>3, PageInvariant, PTL DEF Spec

-----------------------------------------------------------------------------
(* The tree: what contains what, and what a change leaves contained.       *)

\* The ancestors are the least set with the node and all their parents.
LEMMA AncestorsLeast ==
  ASSUME NEW D, Tree(D), NEW n \in Node, NEW U, UpTo(D, U), n \in U
  PROVE  Ancestors(D, n) \subseteq U
<1>1. PICK r \in [Node -> Nat], k \in Nat :
        \A m \in Node : r[m] < k /\ (D.parent[m] # None => r[D.parent[m]] < r[m])
  BY DEF Tree
<1>2. \A m \in Node : D.parent[m] \in Node \cup {None} /\ r[m] \in Nat
  BY DEF Tree
<1> DEFINE G == {i \in Nat : \A m \in Node : r[m] < i /\ m \in U => Ancestors(D, m) \subseteq U}
<1>3. 0 \in G
  BY <1>2
<1>4. ASSUME NEW i \in Nat, i \in G PROVE i + 1 \in G
  <2>1. ASSUME NEW m \in Node, r[m] < i + 1, m \in U PROVE Ancestors(D, m) \subseteq U
    <3>1. Ancestors(D, m) = {m} \cup Ancestors(D, D.parent[m])
      BY AncestorsUp
    <3>2. CASE D.parent[m] = None
      BY <2>1, <3>1, <3>2, AncestorsUp
    <3>3. CASE D.parent[m] # None
      <4>1. D.parent[m] \in Node /\ r[D.parent[m]] < i /\ D.parent[m] \in U
        BY <1>1, <1>2, <2>1, <3>3 DEF UpTo
      <4>2. Ancestors(D, D.parent[m]) \subseteq U
        BY <1>4, <4>1
      <4> QED BY <2>1, <3>1, <4>2
    <3> QED BY <3>2, <3>3
  <2> QED BY <2>1
<1> HIDE DEF G
<1>5. k \in G
  BY <1>3, <1>4, Induct
<1> QED BY <1>1, <1>5 DEF G

LEMMA AncestorsOf ==
  ASSUME NEW D, Tree(D), NEW n \in Node, NEW m \in Ancestors(D, n)
  PROVE  m \in Node /\ Ancestors(D, m) \subseteq Ancestors(D, n)
<1>1. m \in Node
  BY AncestorsUp
<1>2. UpTo(D, Ancestors(D, n))
  BY AncestorsClosed
<1> QED BY <1>1, <1>2, AncestorsLeast

\* Nothing changes for a node whose ancestors keep their parents.
LEMMA AncestorsSame ==
  ASSUME NEW D, Tree(D), NEW E, Tree(E), NEW n \in Node,
         \A m \in Ancestors(D, n) : E.parent[m] = D.parent[m]
  PROVE  Ancestors(E, n) = Ancestors(D, n)
<1>1. UpTo(D, Ancestors(D, n)) /\ n \in Ancestors(D, n)
  BY AncestorsClosed
<1>2. UpTo(E, Ancestors(E, n)) /\ n \in Ancestors(E, n)
  BY AncestorsClosed
<1>3. UpTo(E, Ancestors(D, n))
  BY <1>1 DEF UpTo
<1>4. Ancestors(E, n) \subseteq Ancestors(D, n)
  BY <1>1, <1>3, AncestorsLeast
<1>5. UpTo(D, Ancestors(E, n))
  BY <1>2, <1>4 DEF UpTo
<1>6. Ancestors(D, n) \subseteq Ancestors(E, n)
  BY <1>2, <1>5, AncestorsLeast
<1> QED BY <1>4, <1>6

\* No node is above its parent.
LEMMA NotAbove ==
  ASSUME NEW D, Tree(D), NEW n \in Node, NEW m \in Node, D.parent[m] = n
  PROVE  m \notin Ancestors(D, n)
<1>1. PICK r \in [Node -> Nat], k \in Nat :
        \A x \in Node : r[x] < k /\ (D.parent[x] # None => r[D.parent[x]] < r[x])
  BY DEF Tree
<1>2. \A x \in Node : D.parent[x] \in Node \cup {None} /\ r[x] \in Nat
  BY DEF Tree
<1> DEFINE U == {x \in Node : r[x] <= r[n]}
<1>3. UpTo(D, U)
  BY <1>1, <1>2 DEF UpTo
<1>4. n \in U
  BY <1>2
<1>5. Ancestors(D, n) \subseteq U
  BY <1>3, <1>4, AncestorsLeast
<1>6. r[n] < r[m]
  BY <1>1, NoneIsNoNode
<1> QED BY <1>2, <1>5, <1>6

\* The document hangs under nothing, and only copies come from another node.
Rooted(D) ==
  /\ Document \in D.made /\ D.parent[Document] = None
  /\ \A n \in Node \ Spare : D.origin[n] = None

LEMMA DocumentIsNode == Document \in Node
BY DEF Node

LEMMA RootAbove ==
  ASSUME NEW D, Tree(D), Rooted(D), NEW n \in Node, NEW m \in Ancestors(D, n)
  PROVE  Contained(D, n) <=> Contained(D, m)
<1>0. m \in Node /\ Ancestors(D, m) \subseteq Ancestors(D, n)
  BY AncestorsOf
<1>1. PICK r \in [Node -> Nat], k \in Nat :
        \A x \in Node : r[x] < k /\ (D.parent[x] # None => r[D.parent[x]] < r[x])
  BY DEF Tree
<1>2. \A x \in Node : D.parent[x] \in Node \cup {None} /\ r[x] \in Nat
  BY DEF Tree
<1> DEFINE G == {i \in Nat : \A x \in Node :
                   r[x] < i /\ m \in Ancestors(D, x) /\ Document \in Ancestors(D, x)
                     => Document \in Ancestors(D, m)}
<1>3. 0 \in G
  BY <1>2
<1>4. ASSUME NEW i \in Nat, i \in G PROVE i + 1 \in G
  <2>1. ASSUME NEW x \in Node, r[x] < i + 1, m \in Ancestors(D, x),
               Document \in Ancestors(D, x)
        PROVE  Document \in Ancestors(D, m)
    <3>1. Ancestors(D, x) = {x} \cup Ancestors(D, D.parent[x])
      BY AncestorsUp
    <3>2. CASE m = x
      BY <2>1, <3>2
    <3>3. CASE m # x
      <4>1. m \in Ancestors(D, D.parent[x])
        BY <2>1, <3>1, <3>3
      <4>2. D.parent[x] # None
        BY <4>1, AncestorsUp
      <4>3. D.parent[x] \in Node /\ r[D.parent[x]] < i
        BY <1>1, <1>2, <2>1, <4>2
      <4>4. x # Document
        BY <4>2 DEF Rooted
      <4>5. Document \in Ancestors(D, D.parent[x])
        BY <2>1, <3>1, <4>4
      <4> QED BY <1>4, <4>1, <4>3, <4>5
    <3> QED BY <3>2, <3>3
  <2> QED BY <2>1
<1> HIDE DEF G
<1>5. k \in G
  BY <1>3, <1>4, Induct
<1> QED BY <1>0, <1>1, <1>5 DEF G, Contained
-----------------------------------------------------------------------------
(* Scripts: one that has run, or is known to need no run, leaves the page  *)
(* only marked.  A mark is to have been evaluated, or to have been cleaned  *)
(* without having run since.                                               *)

Marked(D, s) == s \in D.evaled \/ (s \in D.upset /\ s \notin D.ran)

\* A script that has run is in the page, or was evaluated.
OnceRun(D) ==
  \A s \in D.ran : /\ s \in D.made /\ IsScript(D, s)
                   /\ s \in D.evaled \/ Contained(D, s)

\* What becomes of the scripts that are there.
Leaves(D, E) ==
  \A s \in D.made :
    /\ IsScript(E, s) <=> IsScript(D, s)
    /\ IsScript(D, s) /\ Contained(D, s) => Contained(E, s) \/ Marked(E, s)
    /\ Marked(D, s) => Marked(E, s)
    /\ s \in E.ran => s \in D.ran
    /\ s \in D.upset => s \in E.upset

\* New scripts are copies: those that have run were evaluated.
Begets(D, E) ==
  OnceRun(D) => \A s \in E.ran \ D.made :
                  s \in E.made /\ s \in E.evaled /\ IsScript(E, s)

Follows(D, E) == D.made \subseteq E.made /\ Rooted(E) /\ Leaves(D, E) /\ Begets(D, E)

LEMMA OnceRunStays ==
  ASSUME NEW D, NEW E, Follows(D, E), OnceRun(D)
  PROVE  OnceRun(E)
<1>0. D.made \subseteq E.made /\ Leaves(D, E) /\ Begets(D, E)
  BY DEF Follows
<1>1. ASSUME NEW s \in E.ran
      PROVE  s \in E.made /\ IsScript(E, s) /\ (s \in E.evaled \/ Contained(E, s))
  <2>1. CASE s \in D.made
    <3>1. s \in D.ran /\ IsScript(D, s) /\ (s \in D.evaled \/ Contained(D, s))
      BY <1>0, <1>1, <2>1 DEF Leaves, OnceRun
    <3>2. IsScript(E, s) /\ (Contained(E, s) \/ Marked(E, s))
      BY <1>0, <2>1, <3>1 DEF Leaves, Marked
    <3> QED BY <1>0, <1>1, <2>1, <3>2 DEF Marked
  <2>2. CASE s \notin D.made
    BY <1>0, <1>1, <2>2 DEF Begets
  <2> QED BY <2>1, <2>2
<1> QED BY <1>1 DEF OnceRun

LEMMA FollowsTwice ==
  ASSUME NEW D, NEW E, NEW F, Follows(D, E), Follows(E, F)
  PROVE  Follows(D, F)
<1>1. /\ D.made \subseteq E.made /\ E.made \subseteq F.made /\ Rooted(F)
      /\ Leaves(D, E) /\ Leaves(E, F) /\ Begets(E, F) /\ Begets(D, E)
  BY DEF Follows
<1>2. Leaves(D, F)
  <2> SUFFICES ASSUME NEW s \in D.made
               PROVE  /\ IsScript(F, s) <=> IsScript(D, s)
                      /\ IsScript(D, s) /\ Contained(D, s) => Contained(F, s) \/ Marked(F, s)
                      /\ Marked(D, s) => Marked(F, s)
                      /\ s \in F.ran => s \in D.ran
                      /\ s \in D.upset => s \in F.upset
    BY DEF Leaves
  <2> QED BY <1>1 DEF Leaves
<1>3. ASSUME OnceRun(D), NEW s \in F.ran \ D.made
      PROVE  s \in F.made /\ s \in F.evaled /\ IsScript(F, s)
  <2>1. OnceRun(E)
    BY <1>3, OnceRunStays
  <2>2. CASE s \in E.made
    <3>1. s \in E.ran
      BY <1>1, <1>3, <2>2 DEF Leaves
    <3>2. s \in E.evaled /\ IsScript(E, s)
      BY <1>1, <1>3, <3>1 DEF Begets
    <3>3. Marked(F, s) /\ IsScript(F, s)
      BY <1>1, <2>2, <3>2 DEF Leaves, Marked
    <3> QED BY <1>1, <1>3, <2>2, <3>3 DEF Marked
  <2>3. CASE s \notin E.made
    BY <1>1, <1>3, <2>1, <2>3 DEF Begets
  <2> QED BY <2>2, <2>3
<1>4. Begets(D, F)
  BY <1>3 DEF Begets
<1> QED BY <1>1, <1>2, <1>4 DEF Follows

\* Some nodes get new parents: the scripts below them are marked, or were not
\* in the page.
LEMMA CutFollows ==
  ASSUME NEW D, Tree(D), Rooted(D), NEW E, Tree(E), NEW X,
         E.made = D.made, E.origin = D.origin, E.parent[Document] = None,
         E.ran \subseteq D.ran, D.upset \subseteq E.upset,
         \A s \in D.made : Marked(D, s) => Marked(E, s),
         \A m \in Node \ X : E.parent[m] = D.parent[m],
         \A s \in D.made, x \in X :
           IsScript(D, s) /\ x \in Ancestors(D, s) /\ Contained(D, s) => Marked(E, s)
  PROVE  Follows(D, E)
<1>1. \A s : IsScript(E, s) <=> IsScript(D, s)
  BY DEF IsScript
<1>2. ASSUME NEW s \in D.made, IsScript(D, s), Contained(D, s)
      PROVE  Contained(E, s) \/ Marked(E, s)
  <2>0. s \in Node /\ Ancestors(D, s) \subseteq Node
    BY AncestorsUp DEF Tree
  <2>1. CASE \E x \in X : x \in Ancestors(D, s)
    BY <1>2, <2>1
  <2>2. CASE ~ \E x \in X : x \in Ancestors(D, s)
    <3>1. \A m \in Ancestors(D, s) : E.parent[m] = D.parent[m]
      BY <2>0, <2>2
    <3>2. Ancestors(E, s) = Ancestors(D, s)
      BY <2>0, <3>1, AncestorsSame
    <3> QED BY <1>2, <3>2 DEF Contained
  <2> QED BY <2>1, <2>2
<1>3. Leaves(D, E)
  BY <1>1, <1>2 DEF Leaves
<1>4. Begets(D, E)
  BY DEF Begets, OnceRun
<1>5. Rooted(E)
  BY DEF Rooted
<1> QED BY <1>3, <1>4, <1>5 DEF Follows

\* The fields that this depends on.
Tied == {"made", "parent", "origin", "evaled", "ran"}

Loose == Fields \ Tied

LEMMA SameFollows ==
  ASSUME NEW D, NEW c, Held(D, c), Rooted(D), NEW E, NEW e, Held(E, e),
         SameBut(D, E, Loose), D.upset \subseteq E.upset
  PROVE  Follows(D, E)
<1>1. /\ E.made = D.made /\ E.parent = D.parent /\ E.origin = D.origin
      /\ E.evaled = D.evaled /\ E.ran = D.ran
  BY DEF SameBut, Loose, Tied, Fields
<1>2. Tree(D) /\ Tree(E) /\ D.parent[Document] = None
  BY DEF Held, Rooted
<1>3. \A s \in D.made : Marked(D, s) => Marked(E, s)
  BY <1>1 DEF Marked
<1> DEFINE X == {}
<1>4. /\ \A m \in Node \ X : E.parent[m] = D.parent[m]
      /\ \A s \in D.made, x \in X :
           IsScript(D, s) /\ x \in Ancestors(D, s) /\ Contained(D, s) => Marked(E, s)
  BY <1>1
<1> HIDE DEF X
<1> QED BY <1>1, <1>2, <1>3, <1>4, CutFollows

\* cleanData
LEMMA CleanScripts ==
  ASSUME NEW D, NEW c, Held(D, c), NEW S \in SUBSET Node
  PROVE  LET E == CleanData(D, S)
         IN /\ E.evaled = D.evaled \ S /\ E.ran = D.ran \ S /\ E.upset = D.upset \cup S
            /\ E.origin = D.origin
<1> DEFINE ended == {n \in S : "focusin" \in TornDown(D, n)}
           left == {n \in S : Has(D, n, "focusin")} \ ended
           k == Cardinality(ended)
           T == Detached(D, k)
           U == Unbound(D, S)
           E == CleanData(D, S)
<1>0. DOMAIN D = Fields
  BY DEF Held
<1>1. DOMAIN T = Fields /\ SameBut(D, T, {"attaches", "capture"})
  <2> HIDE DEF k
  <2> QED BY <1>0 DEF Detached, SameBut, Fields
<1>2. U = [T EXCEPT !.bound = {b \in @ : b[1] \notin S}, !.leaked = @ + Cardinality(left)]
  BY DEF Unbound
<1> HIDE DEF T, left, ended
<1>3. DOMAIN U = Fields /\ SameBut(T, U, {"bound", "leaked"})
  <2> HIDE DEF U
  <2> QED BY <1>1, <1>2 DEF SameBut, Fields
<1>4. E = Forgotten(U, S)
  BY DEF CleanData
<1> HIDE DEF U, E
<1>5. U.evaled = D.evaled /\ U.ran = D.ran /\ U.upset = D.upset /\ U.origin = D.origin
  BY <1>1, <1>3 DEF SameBut, Fields
<1>6. /\ E.evaled = U.evaled \ S /\ E.ran = U.ran \ S /\ E.upset = U.upset \cup S
      /\ E.origin = U.origin
  BY <1>3, <1>4 DEF Forgotten, Fields
<1> QED BY <1>5, <1>6 DEF E

\* What is cleaned is marked.
LEMMA CleanMarks ==
  ASSUME NEW D, NEW c, Held(D, c), NEW S \in SUBSET Node
  PROVE  LET E == CleanData(D, S)
         IN /\ \A s \in S : Marked(E, s)
            /\ \A s : Marked(D, s) => Marked(E, s)
            /\ E.ran \subseteq D.ran /\ D.upset \subseteq E.upset
            /\ E.origin = D.origin
<1> DEFINE E == CleanData(D, S)
<1>1. /\ E.evaled = D.evaled \ S /\ E.ran = D.ran \ S /\ E.upset = D.upset \cup S
      /\ E.origin = D.origin
  BY CleanScripts
<1> HIDE DEF E
<1>2. /\ \A s \in S : Marked(E, s)
      /\ \A s : Marked(D, s) => Marked(E, s)
  BY <1>1 DEF Marked
<1> QED BY <1>1, <1>2 DEF E

LEMMA CleanFollows ==
  ASSUME NEW D, NEW c, Held(D, c), Rooted(D), NEW S \in SUBSET Node
  PROVE  Follows(D, CleanData(D, S))
<1> DEFINE E == CleanData(D, S)
           X == {}
<1>1. Held(E, c) /\ E.made = D.made /\ E.parent = D.parent
  BY CleanIsHeld
<1>2. /\ \A s : Marked(D, s) => Marked(E, s)
      /\ E.ran \subseteq D.ran /\ D.upset \subseteq E.upset /\ E.origin = D.origin
  BY CleanMarks
<1> HIDE DEF E
<1>3. /\ \A m \in Node \ X : E.parent[m] = D.parent[m]
      /\ \A s \in D.made, x \in X :
           IsScript(D, s) /\ x \in Ancestors(D, s) /\ Contained(D, s) => Marked(E, s)
  BY <1>1
<1> HIDE DEF X
<1>4. Tree(D) /\ Tree(E) /\ E.parent[Document] = None
  BY <1>1 DEF Held, Rooted
<1>5. Follows(D, E)
  BY <1>1, <1>2, <1>3, <1>4, CutFollows
<1> QED BY <1>5 DEF E

-----------------------------------------------------------------------------
(* Nodes that move *)

LEMMA ParentsSame ==
  ASSUME NEW D, Tree(D), NEW E, Tree(E), E.parent = D.parent, NEW n \in Node
  PROVE  Ancestors(E, n) = Ancestors(D, n)
BY AncestorsSame

\* What hangs under nothing is not in the page.
LEMMA NotContained ==
  ASSUME NEW D, Tree(D), Rooted(D), NEW n \in Node, n # Document, D.parent[n] = None,
         NEW s \in Node, n \in Ancestors(D, s)
  PROVE  ~Contained(D, s)
<1>1. Ancestors(D, n) = {n}
  BY AncestorsUp
<1>2. ~Contained(D, n)
  BY <1>1 DEF Contained
<1> QED BY <1>2, RootAbove

\* What hangs under nothing may be put somewhere.
LEMMA LinkFollows ==
  ASSUME NEW D, NEW c, Held(D, c), Rooted(D), NEW n \in Node, n # Document,
         D.parent[n] = None, NEW p, Held(Linked(D, n, p), c)
  PROVE  LET E == Linked(D, n, p)
         IN Follows(D, E) /\ \A m \in Node \ {n} : E.parent[m] = D.parent[m]
<1> DEFINE E == Linked(D, n, p)
           X == {n}
<1>1. DOMAIN D = Fields /\ Tree(D) /\ D.made \subseteq Node
  BY DEF Held, Tree
<1>2. DOMAIN D.parent = Node
  BY <1>1 DEF Tree
<1>3. /\ E.made = D.made /\ E.origin = D.origin /\ E.evaled = D.evaled /\ E.ran = D.ran
      /\ E.upset = D.upset /\ E.parent = [D.parent EXCEPT ![n] = p]
  BY <1>1 DEF Linked, Fields
<1>4. Tree(E)
  BY DEF Held
<1> HIDE DEF E
<1>5. \A m \in Node \ {n} : E.parent[m] = D.parent[m]
  BY <1>2, <1>3
<1>6. E.parent[Document] = None
  BY <1>5, DocumentIsNode DEF Rooted
<1>7. \A s \in D.made, x \in X :
        IsScript(D, s) /\ x \in Ancestors(D, s) /\ Contained(D, s) => Marked(E, s)
  BY <1>1, NotContained
<1>8. \A s \in D.made : Marked(D, s) => Marked(E, s)
  BY <1>3 DEF Marked
<1>9. \A m \in Node \ X : E.parent[m] = D.parent[m]
  BY <1>5
<1> HIDE DEF X
<1>10. Follows(D, E)
  BY <1>1, <1>3, <1>4, <1>6, <1>7, <1>8, <1>9, CutFollows
<1> QED BY <1>5, <1>10 DEF E

\* What is marked may be taken out.
LEMMA UnlinkFollows ==
  ASSUME NEW D, NEW c, Held(D, c), Rooted(D), NEW n \in Node,
         \A s \in D.made : n \in Ancestors(D, s) => Marked(D, s)
  PROVE  LET E == Linked(D, n, None)
         IN /\ Follows(D, E) /\ E.parent[n] = None
            /\ \A m \in Node \ {n} : E.parent[m] = D.parent[m]
<1> DEFINE E == Linked(D, n, None)
           X == {n}
<1>1. DOMAIN D = Fields /\ Tree(D) /\ D.made \subseteq Node
  BY DEF Held, Tree
<1>2. DOMAIN D.parent = Node
  BY <1>1 DEF Tree
<1>3. /\ E.made = D.made /\ E.origin = D.origin /\ E.evaled = D.evaled /\ E.ran = D.ran
      /\ E.upset = D.upset /\ E.parent = [D.parent EXCEPT ![n] = None]
  BY <1>1 DEF Linked, Fields
<1>4. Tree(E)
  <2>1. Held(E, c)
    BY UnlinkedIsHeld
  <2> QED BY <2>1 DEF Held
<1> HIDE DEF E
<1>5. E.parent[n] = None /\ \A m \in Node \ {n} : E.parent[m] = D.parent[m]
  BY <1>2, <1>3
<1>6. E.parent[Document] = None
  BY <1>5, DocumentIsNode DEF Rooted
<1>7. \A s \in D.made : Marked(D, s) => Marked(E, s)
  BY <1>3 DEF Marked
<1>8. \A s \in D.made, x \in X :
        IsScript(D, s) /\ x \in Ancestors(D, s) /\ Contained(D, s) => Marked(E, s)
  BY <1>7
<1>9. \A m \in Node \ X : E.parent[m] = D.parent[m]
  BY <1>5
<1> HIDE DEF X
<1>10. Follows(D, E)
  BY <1>1, <1>3, <1>4, <1>6, <1>7, <1>8, <1>9, CutFollows
<1> QED BY <1>5, <1>10 DEF E

\* buildFragment marks the scripts of what comes from the page.
LEMMA FragmentFollows ==
  ASSUME NEW D, NEW c, Held(D, c), Rooted(D), NEW n \in Node, n # Document
  PROVE  LET E == Fragment(D, n)
         IN /\ Follows(D, E) /\ E.parent[n] = None /\ E.ran = D.ran
            /\ \A m \in Node \ {n} : E.parent[m] = D.parent[m]
            /\ \A s \in Scripts(D, n) : Contained(D, s) => s \in E.evaled
<1> DEFINE E == Fragment(D, n)
           X == {n}
           L == Linked(D, n, None)
           x == D.evaled \cup (IF Contained(D, n) THEN Scripts(D, n) ELSE {})
<1>1. DOMAIN D = Fields /\ Tree(D) /\ D.made \subseteq Node
  BY DEF Held, Tree
<1>2. DOMAIN D.parent = Node
  BY <1>1 DEF Tree
<1>3. /\ DOMAIN L = Fields
      /\ L.made = D.made /\ L.origin = D.origin /\ L.evaled = D.evaled /\ L.ran = D.ran
      /\ L.upset = D.upset /\ L.parent = [D.parent EXCEPT ![n] = None]
  BY <1>1 DEF Linked, Fields
<1> HIDE DEF L
<1>4. E = [L EXCEPT !.evaled = x]
  BY <1>3 DEF Fragment, L
<1> HIDE DEF x
<1>5. /\ E.made = D.made /\ E.origin = D.origin /\ E.evaled = x /\ E.ran = D.ran
      /\ E.upset = D.upset /\ E.parent = [D.parent EXCEPT ![n] = None]
  BY <1>3, <1>4 DEF Fields
<1>6. Tree(E)
  <2>1. Held(E, c)
    BY FragmentIsHeld
  <2> QED BY <2>1 DEF Held
<1> HIDE DEF E
<1>7. E.parent[n] = None /\ \A m \in Node \ {n} : E.parent[m] = D.parent[m]
  BY <1>2, <1>5
<1>8. E.parent[Document] = None
  BY <1>7, DocumentIsNode DEF Rooted
<1>9. \A s \in D.made : Marked(D, s) => Marked(E, s)
  BY <1>5 DEF Marked, x
<1>10. \A s \in Scripts(D, n) : Contained(D, s) => s \in E.evaled
  <2> SUFFICES ASSUME NEW s \in Scripts(D, n), Contained(D, s) PROVE s \in E.evaled
    OBVIOUS
  <2>1. s \in Node /\ n \in Ancestors(D, s)
    BY <1>1 DEF Scripts, GetAll
  <2>2. Contained(D, n)
    BY <1>1, <2>1, RootAbove
  <2> QED BY <1>5, <2>2 DEF x
<1>11. \A s \in D.made, y \in X :
         IsScript(D, s) /\ y \in Ancestors(D, s) /\ Contained(D, s) => Marked(E, s)
  <2>1. \A s \in D.made : IsScript(D, s) /\ n \in Ancestors(D, s) => s \in Scripts(D, n)
    BY DEF Scripts, GetAll
  <2> QED BY <1>10, <2>1 DEF Marked
<1>12. \A m \in Node \ X : E.parent[m] = D.parent[m]
  BY <1>7
<1> HIDE DEF X
<1>13. Follows(D, E)
  BY <1>1, <1>5, <1>6, <1>8, <1>9, <1>11, <1>12, CutFollows
<1> QED BY <1>5, <1>7, <1>10, <1>13 DEF E

LEMMA MarkFollows ==
  ASSUME NEW D, NEW c, Held(D, c), Rooted(D), NEW S
  PROVE  Follows(D, [D EXCEPT !.clean = @ \cup S])
<1> DEFINE x == D.clean \cup S
           E == [D EXCEPT !.clean = x]
<1>1. Held(E, c)
  BY MarkIsHeld
<1> HIDE DEF x
<1>2. DOMAIN E = Fields /\ SameBut(D, E, Loose) /\ E.upset = D.upset
  BY DEF Held, SameBut, Loose, Tied, Fields
<1> HIDE DEF E
<1>3. Follows(D, E)
  BY <1>1, <1>2, SameFollows
<1> QED BY <1>3 DEF E, x

LEMMA RemoveFollows ==
  ASSUME NEW D, NEW c, Held(D, c), Rooted(D), NEW n \in Node
  PROVE  Follows(D, Remove(D, n))
<1> DEFINE S == GetAll(D, n)
           W == CleanData(D, S)
           L == Linked(W, n, None)
           E == Remove(D, n)
<1>1. S \in SUBSET Node
  BY GetAllNodes
<1>2. E = [L EXCEPT !.clean = @ \cup S]
  BY DEF Remove
<1>3. \A s \in D.made : n \in Ancestors(D, s) => s \in S
  BY DEF GetAll
<1> HIDE DEF S
<1>4. Held(W, c) /\ W.made = D.made /\ W.parent = D.parent
  BY <1>1, CleanIsHeld
<1>5. Follows(D, W) /\ \A s \in S : Marked(W, s)
  BY <1>1, CleanFollows, CleanMarks
<1> HIDE DEF W
<1>6. \A s \in W.made : n \in Ancestors(W, s) => Marked(W, s)
  BY <1>3, <1>4, <1>5, ParentsSame DEF Held, Tree
<1>7. Held(L, c) /\ Follows(W, L)
  BY <1>4, <1>5, <1>6, UnlinkedIsHeld, UnlinkFollows DEF Follows
<1> HIDE DEF L, E
<1>8. Follows(L, E)
  BY <1>2, <1>7, MarkFollows DEF Follows
<1>9. Follows(D, E)
  BY <1>5, <1>7, <1>8, FollowsTwice
<1> QED BY <1>9 DEF E

LEMMA EmptyFollows ==
  ASSUME NEW D, NEW c, Held(D, c), Rooted(D), NEW n \in Node
  PROVE  Follows(D, Empty(D, n))
<1> DEFINE S == GetAll(D, n) \ {n}
           W == CleanData(D, S)
           E == Empty(D, n)
           X == {m \in Node : D.parent[m] = n}
           parent == [m \in Node |-> IF D.parent[m] = n THEN None ELSE D.parent[m]]
<1>0. Tree(D) /\ D.made \subseteq Node
  BY DEF Held, Tree
<1>1. S \in SUBSET Node
  BY GetAllNodes
<1>2. E = [W EXCEPT !.parent = [m \in Node |-> IF @[m] = n THEN None ELSE @[m]],
                    !.clean = @ \cup S]
  BY DEF Empty
<1>3. \A s \in D.made, x \in X : x \in Ancestors(D, s) => s \in S
  <2> SUFFICES ASSUME NEW s \in D.made, NEW x \in X, x \in Ancestors(D, s) PROVE s \in S
    OBVIOUS
  <2>1. s \in Node /\ x \in Node /\ D.parent[x] = n
    BY <1>0
  <2>2. n \in Ancestors(D, s)
    <3>1. UpTo(D, Ancestors(D, s))
      BY <1>0, <2>1, AncestorsClosed
    <3> QED BY <2>1, <3>1, NoneIsNoNode DEF UpTo
  <2>3. s # n
    BY <1>0, <2>1, NotAbove
  <2> QED BY <2>2, <2>3 DEF GetAll
<1> HIDE DEF S
<1>4. Held(W, c) /\ W.made = D.made /\ W.parent = D.parent /\ DOMAIN W = Fields
  BY <1>1, CleanIsHeld DEF Held
<1>5. /\ \A s \in S : Marked(W, s)
      /\ \A s : Marked(D, s) => Marked(W, s)
      /\ W.ran \subseteq D.ran /\ D.upset \subseteq W.upset /\ W.origin = D.origin
  BY <1>1, CleanMarks
<1>6. Tree(E)
  <2>1. Held(E, c)
    BY EmptyIsHeld
  <2> QED BY <2>1 DEF Held
<1> HIDE DEF W, E
<1>7. E = [W EXCEPT !.parent = parent, !.clean = @ \cup S]
  BY <1>2, <1>4
<1>8. /\ E.made = W.made /\ E.origin = W.origin /\ E.evaled = W.evaled /\ E.ran = W.ran
      /\ E.upset = W.upset /\ E.parent = parent
  <2> HIDE DEF parent
  <2> QED BY <1>4, <1>7 DEF Fields
<1>9. /\ \A s \in S : Marked(E, s)
      /\ \A s : Marked(D, s) => Marked(E, s)
      /\ E.ran \subseteq D.ran /\ D.upset \subseteq E.upset /\ E.origin = D.origin
      /\ E.made = D.made
  BY <1>4, <1>5, <1>8 DEF Marked
<1>10. \A m \in Node \ X : E.parent[m] = D.parent[m]
  BY <1>8
<1>11. E.parent[Document] = None
  BY <1>8, DocumentIsNode DEF Rooted
<1>12. \A s \in D.made, x \in X :
         IsScript(D, s) /\ x \in Ancestors(D, s) /\ Contained(D, s) => Marked(E, s)
  BY <1>3, <1>9
<1> HIDE DEF X
<1>13. Follows(D, E)
  BY <1>0, <1>6, <1>9, <1>10, <1>11, <1>12, CutFollows
<1> QED BY <1>13 DEF E

-----------------------------------------------------------------------------
(* Copies *)

LEMMA CopiedScripts ==
  ASSUME NEW D, NEW c, Held(D, c), NEW n, NEW G, NEW f, Copying(D, n, G, f)
  PROVE  LET E == Copied(D, n, f)
             K == {f[m] : m \in G}
         IN /\ E.evaled = D.evaled /\ E.ran = D.ran /\ E.upset = D.upset
            /\ E.parent[f[n]] = None
            /\ \A k \in Node \ K : E.origin[k] = D.origin[k]
            /\ \A m \in G : E.origin[f[m]] = IF m \in Spare THEN D.origin[m] ELSE m
<1> DEFINE K == {f[m] : m \in G}
           Of(k) == CHOOSE m \in G : f[m] = k
           E == Copied(D, n, f)
           parent == [k \in Node |-> IF k \notin K THEN D.parent[k]
                                     ELSE IF Of(k) = n THEN None
                                     ELSE f[D.parent[Of(k)]]]
           origin == [k \in Node |-> IF k \notin K THEN D.origin[k]
                                     ELSE IF Of(k) \in Spare THEN D.origin[Of(k)]
                                     ELSE Of(k)]
           From(x) == [k \in Node |-> x[IF k \in K THEN Of(k) ELSE k]]
<1>0. DOMAIN D = Fields /\ DOMAIN f = G /\ n \in G
  BY DEF Held, Copying
<1>1. E = [D EXCEPT !.made = @ \cup K, !.parent = parent, !.origin = origin,
                    !.attr = From(D.attr), !.style = From(D.style),
                    !.class = From(D.class)]
  BY <1>0 DEF Copied
<1>2. \A m \in G : f[m] \in K /\ f[m] \in Node
  BY DEF Copying, Node
<1>3. \A m \in G : Of(f[m]) = m
  <2>1. ASSUME NEW k \in K PROVE Of(k) \in G /\ f[Of(k)] = k
    <3>1. \E m \in G : f[m] = k
      OBVIOUS
    <3> QED BY <3>1
  <2>2. \A m \in G : Of(f[m]) \in G /\ f[Of(f[m])] = f[m]
    BY <1>2, <2>1
  <2> HIDE DEF Of, K
  <2> QED BY <2>2 DEF Copying
<1> HIDE DEF E
<1>4. /\ E.evaled = D.evaled /\ E.ran = D.ran /\ E.upset = D.upset
      /\ E.parent = parent /\ E.origin = origin
  <2> HIDE DEF K, From, origin, parent
  <2> QED BY <1>0, <1>1 DEF Fields
<1> HIDE DEF K, Of
<1>5. parent[f[n]] = None
  BY <1>0, <1>2, <1>3
<1>6. \A k \in Node \ K : origin[k] = D.origin[k]
  OBVIOUS
<1>7. \A m \in G : origin[f[m]] = IF m \in Spare THEN D.origin[m] ELSE m
  BY <1>2, <1>3
<1> QED BY <1>4, <1>5, <1>6, <1>7 DEF E, K

LEMMA WithDataScripts ==
  ASSUME NEW D, NEW c, Held(D, c), NEW f
  PROVE  LET E == WithData(D, f)
         IN /\ E.evaled = D.evaled /\ E.ran = D.ran /\ E.upset = D.upset
            /\ E.origin = D.origin
<1> DEFINE K == {f[m] : m \in DOMAIN f}
           Of(k) == CHOOSE m \in DOMAIN f : f[m] = k
           new == {k \in K : Has(D, Of(k), "focusin")}
           From(x) == [k \in Node |-> x[IF k \in K THEN Of(k) ELSE k]]
           more == {<<f[b[1]], b[2]>> : b \in {b \in D.bound : b[1] \in DOMAIN f}}
           attrs == {f[m] : m \in DOMAIN f \cap D.hasAttrs}
           E == WithData(D, f)
<1>0. DOMAIN D = Fields
  BY DEF Held
<1>1. E = [D EXCEPT !.events = From(@), !.bound = @ \cup more,
                    !.attaches = @ + Cardinality(new),
                    !.capture = @ \/ (D.attaches = 0 /\ new # {}),
                    !.hasAttrs = @ \cup attrs, !.display = From(@),
                    !.kept = From(@), !.user = From(@)]
  BY DEF WithData
<1> HIDE DEF E, K, From, new, more, attrs
<1>2. /\ E.evaled = D.evaled /\ E.ran = D.ran /\ E.upset = D.upset
      /\ E.origin = D.origin
  BY <1>0, <1>1 DEF Fields
<1> QED BY <1>2 DEF E

LEMMA CloneFollows ==
  ASSUME NEW D, NEW c, Held(D, c), Rooted(D), NEW n \in Node, NEW w, NEW f,
         Copying(D, n, GetAll(D, n), f)
  PROVE  LET E == Clone(D, n, w, f)
         IN Follows(D, E) /\ E.parent[f[n]] = None
<1> DEFINE G == GetAll(D, n)
           K == {f[m] : m \in G}
           C == Copied(D, n, f)
           W == IF w THEN WithData(C, f) ELSE C
           done == {m \in Scripts(D, n) : Contained(D, n) \/ m \in D.evaled}
           rerun == Scripts(D, n) \cap D.ran
           E == Clone(D, n, w, f)
<1>0. /\ Tree(D) /\ D.made \subseteq Node /\ G \in SUBSET D.made
      /\ \A m \in G : f[m] \in K /\ f[m] \in Spare /\ f[m] \notin D.made /\ f[m] \in Node
      /\ n \in G
  BY DEF Held, Tree, Copying, Node
<1>1. /\ Held(C, c) /\ C.made = D.made \cup K
      /\ \A k \in Node \ K : C.parent[k] = D.parent[k]
  BY CopiedIsHeld
<1>2. /\ C.evaled = D.evaled /\ C.ran = D.ran /\ C.upset = D.upset
      /\ C.parent[f[n]] = None
      /\ \A k \in Node \ K : C.origin[k] = D.origin[k]
      /\ \A m \in G : C.origin[f[m]] = IF m \in Spare THEN D.origin[m] ELSE m
  BY CopiedScripts
<1>3. /\ G \in SUBSET Node /\ f \in [G -> C.made]
      /\ \A m, k \in G : f[m] = f[k] => m = k
      /\ \A m \in G : DOMAIN C.events[f[m]] = {} /\ f[m] \notin G
  <2>1. \A m \in Node \ D.made : DOMAIN D.events[m] = {}
    BY DEF Held, Wired
  <2>2. C.events = D.events
    BY CopiedIsHeld
  <2> HIDE DEF K, G, C
  <2>3. \A m \in G : DOMAIN C.events[f[m]] = {} /\ f[m] \notin G
    BY <1>0, <2>1, <2>2
  <2>4. f \in [G -> C.made] /\ \A m, k \in G : f[m] = f[k] => m = k
    BY <1>0, <1>1 DEF Copying, G
  <2> QED BY <1>0, <2>3, <2>4
<1> HIDE DEF C, G
<1>4. Held(W, c) /\ W.made = C.made /\ W.parent = C.parent
  <2>1. CASE w
    <3>1. W = WithData(C, f)
      BY <2>1
    <3> QED BY <1>1, <1>3, <3>1, WithDataIsHeld
  <2>2. CASE ~w
    BY <1>1, <2>2
  <2> QED BY <2>1, <2>2
<1>5. /\ W.evaled = D.evaled /\ W.ran = D.ran /\ W.upset = D.upset /\ W.origin = C.origin
  <2>1. CASE w
    <3>1. W = WithData(C, f)
      BY <2>1
    <3> HIDE DEF W
    <3> QED BY <1>1, <1>2, <3>1, WithDataScripts
  <2>2. CASE ~w
    BY <1>2, <2>2
  <2> QED BY <2>1, <2>2
<1>6. E = [W EXCEPT !.evaled = @ \cup {f[m] : m \in done}, !.ran = @ \cup {f[m] : m \in rerun}]
  BY DEF Clone, C
<1>7. Tree(E)
  <2>1. Held(E, c)
    BY CloneIsHeld
  <2> QED BY <2>1 DEF Held
<1> HIDE DEF W, E, done, rerun
<1>8. /\ E.evaled = D.evaled \cup {f[m] : m \in done} /\ E.ran = D.ran \cup {f[m] : m \in rerun}
      /\ E.upset = D.upset /\ E.origin = C.origin /\ E.made = D.made \cup K
      /\ E.parent = C.parent
  BY <1>1, <1>4, <1>5, <1>6 DEF Held, Fields
<1>9. \A m \in G : f[m] \notin D.made
  BY <1>0
<1>10. done \subseteq G /\ rerun \subseteq G
  BY DEF done, rerun, Scripts, G
<1> HIDE DEF K
<1>11. K \cap D.made = {}
  BY <1>0 DEF K
<1>12. \A s \in D.made : IsScript(E, s) <=> IsScript(D, s)
  BY <1>0, <1>2, <1>8, <1>11 DEF IsScript
<1>13. \A s \in D.made : s \in E.ran => s \in D.ran
  BY <1>8, <1>9, <1>10
<1>14. \A s \in D.made : Marked(D, s) => Marked(E, s)
  BY <1>8, <1>13 DEF Marked
<1>15. ASSUME NEW s \in D.made PROVE Ancestors(E, s) = Ancestors(D, s)
  <2>1. \A m \in Node : D.parent[m] \in D.made \cup {None}
    BY <1>0 DEF Tree
  <2>2. UpTo(D, D.made)
    BY <1>0, <2>1 DEF UpTo
  <2>3. Ancestors(D, s) \subseteq D.made
    BY <1>0, <2>2, AncestorsLeast
  <2>4. \A m \in Ancestors(D, s) : E.parent[m] = D.parent[m]
    BY <1>0, <1>1, <1>8, <1>11, <2>3
  <2> QED BY <1>0, <1>7, <2>4, AncestorsSame
<1>16. Leaves(D, E)
  BY <1>8, <1>12, <1>13, <1>14, <1>15 DEF Leaves, Contained
<1>17. Begets(D, E)
  <2> SUFFICES ASSUME OnceRun(D), NEW s \in E.ran \ D.made
               PROVE  s \in E.made /\ s \in E.evaled /\ IsScript(E, s)
    BY DEF Begets
  <2>1. s \notin D.ran
    BY DEF OnceRun
  <2>2. PICK m \in rerun : s = f[m]
    BY <1>8, <2>1
  <2>3. m \in G /\ m \in D.ran /\ m \in Scripts(D, n) /\ IsScript(D, m) /\ m \in Node
    BY <1>0, <1>10, <2>2 DEF rerun, Scripts
  <2>4. m \in D.evaled \/ Contained(D, n)
    <3>1. n \in Ancestors(D, m)
      BY <2>3 DEF G, GetAll
    <3> QED BY <1>0, <2>3, <3>1, RootAbove DEF OnceRun
  <2>5. m \in done
    BY <2>3, <2>4 DEF done
  <2>6. IsScript(E, s)
    <3>1. E.origin[s] = IF m \in Spare THEN D.origin[m] ELSE m
      BY <1>2, <1>8, <2>2, <2>3
    <3>2. CASE m \in Spare
      <4>1. m \notin Script
        BY <3>2, ElementsAssumption
      <4> QED BY <2>3, <3>1, <3>2, <4>1 DEF IsScript
    <3>3. CASE m \notin Spare
      <4>1. D.origin[m] = None
        BY <2>3, <3>3 DEF Rooted
      <4>2. None \notin Script
        BY NoneIsNoNode DEF Node
      <4> QED BY <2>3, <3>1, <3>3, <4>1, <4>2 DEF IsScript
    <3> QED BY <3>2, <3>3
  <2> QED BY <1>0, <1>8, <2>2, <2>3, <2>5, <2>6
<1>18. Rooted(E)
  <2>1. Document \notin K /\ Document \in Node
    BY <1>11, DocumentIsNode DEF Rooted
  <2>2. E.parent[Document] = None
    BY <1>1, <1>8, <2>1 DEF Rooted
  <2>3. K \subseteq Spare
    BY <1>0 DEF K
  <2>4. \A m \in Node \ Spare : E.origin[m] = None
    BY <1>2, <1>8, <2>3 DEF Rooted
  <2> QED BY <1>8, <2>2, <2>4 DEF Rooted
<1>19. Follows(D, E) /\ E.parent[f[n]] = None
  BY <1>2, <1>8, <1>16, <1>17, <1>18 DEF Follows
<1> QED BY <1>19 DEF E

-----------------------------------------------------------------------------
(* append, before, replaceWith *)

LEMMA StaysFollows ==
  ASSUME NEW D, NEW c, Held(D, c), Rooted(D)
  PROVE  Follows(D, D)
<1>1. SameBut(D, D, Loose)
  BY DEF SameBut
<1> QED BY <1>1, SameFollows

LEMMA PutFollows ==
  ASSUME NEW D, NEW c, Held(D, c), Rooted(D), NEW how \in How, NEW t \in D.made,
         NEW n \in Node, n # Document, D.parent[n] = None,
         NEW U \in SUBSET Node, t \in U, UpTo(D, U), n \notin U
  PROVE  LET E == Put(D, how, t, n)
         IN Follows(D, E) /\ \A m \in Node \ {n, t} : E.parent[m] = D.parent[m]
<1> DEFINE p == D.parent[t]
           E == Put(D, how, t, n)
           S == GetAll(D, t)
           W == CleanData(D, S)
           M == [W EXCEPT !.clean = @ \cup S]
           F == Linked(M, t, None)
<1>0. t \in Node /\ D.parent \in [Node -> D.made \cup {None}]
  BY DEF Held, Tree
<1>1. p = None \/ (p \in U /\ p \in D.made)
  BY <1>0 DEF UpTo
<1> HIDE DEF p
<1>2. CASE how = "append"
  <2>1. E = Linked(D, n, t)
    BY <1>2 DEF Put
  <2>2. Held(Linked(D, n, t), c)
    BY LinkedIsHeld
  <2> HIDE DEF E
  <2>3. Follows(D, E) /\ \A m \in Node \ {n} : E.parent[m] = D.parent[m]
    BY <2>1, <2>2, LinkFollows
  <2> QED BY <2>3 DEF E
<1>3. CASE how = "before"
  <2>1. E = IF p = None THEN D ELSE Linked(D, n, p)
    BY <1>3 DEF Put, p
  <2>2. Held(Linked(D, n, p), c)
    BY <1>1, LinkedIsHeld
  <2> HIDE DEF E
  <2>3. Follows(D, E) /\ \A m \in Node \ {n} : E.parent[m] = D.parent[m]
    BY <2>1, <2>2, LinkFollows, StaysFollows
  <2> QED BY <2>3 DEF E
<1>4. CASE how = "replaceWith"
  <2>1. E = IF p = None THEN M ELSE Linked(F, n, p)
    BY <1>4 DEF Put, p
  <2>2. S \in SUBSET Node /\ \A s \in D.made : t \in Ancestors(D, s) => s \in S
    BY GetAllNodes DEF GetAll
  <2> HIDE DEF S
  <2>3. Held(W, c) /\ W.made = D.made /\ W.parent = D.parent
    BY <2>2, CleanIsHeld
  <2>4. Follows(D, W) /\ \A s \in S : Marked(W, s)
    BY <2>2, CleanFollows, CleanMarks
  <2> HIDE DEF W
  <2>5. /\ M.made = W.made /\ M.parent = W.parent /\ M.evaled = W.evaled
        /\ M.ran = W.ran /\ M.upset = W.upset
    BY <2>3 DEF Held, Fields
  <2>6. Held(M, c) /\ Follows(W, M)
    BY <2>3, <2>4, MarkIsHeld, MarkFollows DEF Follows
  <2> HIDE DEF M
  <2>7. Follows(D, M) /\ Rooted(M)
    BY <2>4, <2>6, FollowsTwice DEF Follows
  <2>8. \A s \in M.made : t \in Ancestors(M, s) => Marked(M, s)
    <3>1. ASSUME NEW s \in M.made, t \in Ancestors(M, s) PROVE Marked(M, s)
      <4>1. s \in D.made /\ s \in Node /\ M.parent = D.parent
        BY <2>3, <2>5 DEF Held, Tree
      <4>2. t \in Ancestors(D, s)
        BY <2>6, <3>1, <4>1, ParentsSame DEF Held
      <4>3. Marked(W, s)
        BY <2>2, <2>4, <4>1, <4>2
      <4> QED BY <2>5, <4>3 DEF Marked
    <3> QED BY <3>1
  <2>9. /\ Follows(M, F) /\ F.parent[t] = None
        /\ \A m \in Node \ {t} : F.parent[m] = M.parent[m]
    BY <1>0, <2>6, <2>7, <2>8, UnlinkFollows
  <2>10. /\ Held(F, c) /\ SameBut(M, F, {"parent"})
         /\ \A V \in SUBSET Node : UpTo(M, V) => UpTo(F, V)
    BY <1>0, <2>6, UnlinkedIsHeld
  <2> HIDE DEF F
  <2>11. Follows(D, F) /\ Rooted(F)
    BY <2>7, <2>9, FollowsTwice DEF Follows
  <2>12. F.parent[n] = None /\ F.made = D.made
    BY <2>3, <2>5, <2>9, <2>10 DEF SameBut, Fields
  <2>13. UpTo(F, U)
    <3>1. UpTo(M, U)
      BY <2>3, <2>5 DEF UpTo
    <3> QED BY <2>10, <3>1
  <2>14. ASSUME p # None PROVE Held(Linked(F, n, p), c)
    BY <1>1, <2>10, <2>12, <2>13, <2>14, LinkedIsHeld
  <2> HIDE DEF E
  <2>15. CASE p = None
    BY <2>1, <2>3, <2>5, <2>7, <2>15 DEF E
  <2>16. CASE p # None
    <3> DEFINE L == Linked(F, n, p)
    <3>1. Follows(F, L) /\ \A m \in Node \ {n} : L.parent[m] = F.parent[m]
      BY <2>10, <2>11, <2>12, <2>14, <2>16, LinkFollows
    <3>2. E = L
      BY <2>1, <2>16
    <3> HIDE DEF L
    <3>3. Follows(D, E)
      BY <2>11, <3>1, <3>2, FollowsTwice
    <3>4. \A m \in Node \ {n, t} : E.parent[m] = D.parent[m]
      BY <2>3, <2>5, <2>9, <3>1, <3>2
    <3> QED BY <3>3, <3>4 DEF E
  <2> QED BY <2>15, <2>16
<1> QED BY <1>2, <1>3, <1>4 DEF How

\* What is contained in n stays so, when it keeps its parents.
LEMMA BelowStays ==
  ASSUME NEW D, NEW c, Held(D, c), NEW n \in D.made, NEW E, Tree(E),
         \A m \in GetAll(D, n) \ {n} : E.parent[m] = D.parent[m],
         NEW m \in GetAll(D, n)
  PROVE  n \in Ancestors(E, m)
<1>0. /\ Tree(D) /\ D.made \subseteq Node /\ m \in Node /\ m \in D.made /\ n \in Node
      /\ n \in Ancestors(D, m)
  BY DEF Held, Tree, GetAll
<1> SUFFICES ASSUME n \notin Ancestors(E, m) PROVE FALSE
  OBVIOUS
<1> DEFINE U == Ancestors(E, m) \cap GetAll(D, n)
<1>1. UpTo(E, Ancestors(E, m)) /\ m \in Ancestors(E, m)
  BY <1>0, AncestorsClosed
<1>2. UpTo(D, U)
  <2> SUFFICES ASSUME NEW x \in U, D.parent[x] # None PROVE D.parent[x] \in U
    BY DEF UpTo
  <2>1. x \in GetAll(D, n) \ {n} /\ x \in Ancestors(E, m)
    OBVIOUS
  <2>2. D.parent[x] \in GetAll(D, n) /\ E.parent[x] = D.parent[x]
    BY <2>1, GetAllUp
  <2> QED BY <1>1, <2>1, <2>2 DEF UpTo
<1>3. Ancestors(D, m) \subseteq U
  BY <1>0, <1>1, <1>2, AncestorsLeast
<1> QED BY <1>0, <1>3

\* What comes of the content when it is put in place.
Placed(D, E, n) ==
  /\ Follows(D, E)
  /\ \A s \in Scripts(D, n) : Contained(D, s) => Marked(E, s)
  /\ \A m \in GetAll(D, n) \ {n} : E.parent[m] = D.parent[m]

LEMMA InsertOneFollows ==
  ASSUME NEW D, NEW c, Held(D, c), Rooted(D), NEW how \in How, NEW targets,
         Len(targets) = 1, targets[1] \in D.made, NEW n \in Node, n # Document,
         targets[1] \notin GetAll(D, n)
  PROVE  Placed(D, DomManip(D, how, targets, n), n)
<1> DEFINE F == Fragment(D, n)
           t == targets[1]
           U == Ancestors(D, t)
           E == Put(F, how, t, n)
<1>0. U \in SUBSET Node /\ t \in U /\ UpTo(D, U) /\ n \notin U
  <2> HIDE DEF t
  <2> QED BY AboveIsApart DEF t
<1> HIDE DEF U
<1>1. /\ Held(F, c) /\ F.made = D.made
      /\ \A V \in SUBSET Node : UpTo(D, V) => UpTo(F, V)
  BY FragmentIsHeld
<1>2. /\ Follows(D, F) /\ F.parent[n] = None
      /\ \A m \in Node \ {n} : F.parent[m] = D.parent[m]
      /\ \A s \in Scripts(D, n) : Contained(D, s) => s \in F.evaled
  BY FragmentFollows
<1>3. DomManip(D, how, targets, n) = E
  BY DEF DomManip
<1> HIDE DEF F
<1>4. Follows(F, E) /\ \A m \in Node \ {n, t} : E.parent[m] = F.parent[m]
  BY <1>0, <1>1, <1>2, PutFollows DEF Follows
<1> HIDE DEF E
<1>5. Follows(D, E)
  BY <1>2, <1>4, FollowsTwice
<1>6. GetAll(D, n) \in SUBSET Node /\ GetAll(D, n) \in SUBSET D.made
  BY GetAllNodes
<1>7. \A s \in Scripts(D, n) : Contained(D, s) => Marked(E, s)
  BY <1>1, <1>2, <1>4, <1>6 DEF Scripts, Follows, Leaves, Marked
<1>8. \A m \in GetAll(D, n) \ {n} : E.parent[m] = D.parent[m]
  BY <1>2, <1>4, <1>6
<1> QED BY <1>3, <1>5, <1>7, <1>8 DEF Placed

LEMMA InsertTwoFollows ==
  ASSUME NEW D, NEW c, Held(D, c), Rooted(D), NEW how \in How, NEW targets,
         Len(targets) # 1, targets[1] \in D.made, targets[2] \in D.made,
         NEW n \in D.made, n # Document, CanCopy(D, n),
         targets[1] \notin GetAll(D, n), targets[2] \notin GetAll(D, n)
  PROVE  Placed(D, DomManip(D, how, targets, n), n)
<1> DEFINE G == GetAll(D, n)
           f == CopyOf(D, n)
           K == {f[m] : m \in G}
           E == Fragment(D, n)
           C == Clone(E, n, TRUE, f)
           a == targets[1]
           b == targets[2]
           P == Put(C, how, a, f[n])
           R == Put(P, how, b, n)
           U == Ancestors(D, b)
           V == U \cap D.made
<1>0. n \in Node /\ D.made \subseteq Node /\ n \in G /\ G \in SUBSET D.made
  BY GetAllUp, GetAllNodes DEF Held, Tree
<1>1. /\ Held(E, c) /\ E.made = D.made
      /\ \A m \in Node \ {n} : E.parent[m] = D.parent[m]
      /\ \A X \in SUBSET Node : UpTo(D, X) => UpTo(E, X)
  BY <1>0, FragmentIsHeld
<1>2. /\ Follows(D, E) /\ E.parent[n] = None
      /\ \A s \in Scripts(D, n) : Contained(D, s) => s \in E.evaled
  BY <1>0, FragmentFollows
<1>3. DomManip(D, how, targets, n) = R
  BY DEF DomManip
<1>4. U \in SUBSET Node /\ b \in U /\ UpTo(D, U) /\ n \notin U
  <2> HIDE DEF b
  <2> QED BY AboveIsApart DEF b
<1> HIDE DEF U
<1>5. Copying(E, n, G, f)
  <2>1. f \in [G -> Spare \ D.made] /\ \A m, k \in G : f[m] = f[k] => m = k
    BY <1>0, CopyExists DEF Copies
  <2>2. n \in G /\ G \in SUBSET D.made /\ \A m \in G \ {n} : D.parent[m] \in G
    BY GetAllUp, GetAllNodes
  <2> HIDE DEF f, G, E
  <2>3. \A m \in G \ {n} : E.parent[m] \in G
    BY <1>0, <1>1, <2>2
  <2> QED BY <1>1, <2>1, <2>2, <2>3 DEF Copying
<1>6. G = GetAll(E, n)
  <2> HIDE DEF E
  <2>1. Tree(D) /\ Tree(E) /\ E.made = D.made
    BY <1>1 DEF Held
  <2>2. \A m \in G : n \in Ancestors(E, m)
    BY <1>1, <2>1, <1>0, BelowStays
  <2>3. ASSUME NEW m \in D.made, n \in Ancestors(E, m) PROVE n \in Ancestors(D, m)
    <3>1. m \in Node
      BY <1>0
    <3>2. \A x \in Node : E.parent[x] # None => E.parent[x] = D.parent[x]
      BY <1>1, <1>2
    <3>3. UpTo(E, Ancestors(D, m)) /\ m \in Ancestors(D, m)
      <4>1. UpTo(D, Ancestors(D, m)) /\ m \in Ancestors(D, m)
            /\ Ancestors(D, m) \subseteq Node
        BY <2>1, <3>1, AncestorsClosed, AncestorsUp
      <4> QED BY <3>2, <4>1 DEF UpTo
    <3> QED BY <2>1, <2>3, <3>1, <3>3, AncestorsLeast
  <2> QED BY <1>0, <2>1, <2>2, <2>3 DEF GetAll
<1> HIDE DEF f, G, E
<1>7. Follows(E, C) /\ C.parent[f[n]] = None
  <2> DEFINE B(w) == Clone(E, n, w, f)
  <2>1. \A w : Follows(E, B(w)) /\ B(w).parent[f[n]] = None
    BY <1>0, <1>1, <1>2, <1>5, <1>6, CloneFollows DEF Follows
  <2>2. C = B(TRUE)
    OBVIOUS
  <2> HIDE DEF B, C
  <2> QED BY <2>1, <2>2, ZenonT(60)
<1>8. /\ Held(C, c) /\ C.made = D.made \cup K
      /\ \A k \in Node \ K : C.parent[k] = E.parent[k]
  <2>1. /\ Held(C, c) /\ C.made = E.made \cup K
        /\ \A k \in Node \ K : C.parent[k] = E.parent[k]
    <3> DEFINE B(w) == Clone(E, n, w, f)
    <3>1. \A w : /\ Held(B(w), c) /\ B(w).made = E.made \cup K
                 /\ \A k \in Node \ K : B(w).parent[k] = E.parent[k]
      BY <1>1, <1>5, CloneIsHeld
    <3>2. C = B(TRUE)
      OBVIOUS
    <3> HIDE DEF B, C, K
    <3> QED BY <3>1, <3>2, ZenonT(60)
  <2> HIDE DEF C, K
  <2> QED BY <1>1, <2>1
<1>9. f[n] \in K /\ f[n] \in Node /\ K \cap D.made = {}
  BY <1>1, <1>5 DEF Copying, Node
<1> HIDE DEF K, C
<1>10. Follows(D, C) /\ Rooted(C)
  BY <1>2, <1>7, FollowsTwice DEF Follows
<1>11. \A X \in SUBSET D.made : UpTo(E, X) => UpTo(C, X)
  BY <1>0, <1>8, <1>9 DEF UpTo
<1>12. /\ UpTo(E, D.made) /\ UpTo(E, V) /\ V \in SUBSET D.made
  <2>1. \A m \in Node : E.parent[m] \in D.made \cup {None}
    BY <1>1 DEF Held, Tree
  <2>2. UpTo(E, D.made)
    BY <1>0, <2>1 DEF UpTo
  <2>3. UpTo(E, U)
    BY <1>1, <1>4
  <2> QED BY <2>2, <2>3 DEF UpTo
<1>13. UpTo(C, D.made) /\ UpTo(C, V)
  BY <1>11, <1>12
<1>14. /\ b \in V /\ n \notin V /\ f[n] \notin V /\ f[n] \notin D.made /\ V \in SUBSET Node
       /\ D.made \in SUBSET Node /\ f[n] # Document /\ f[n] # n
  BY <1>0, <1>4, <1>9 DEF Rooted
<1> HIDE DEF V
<1>15. a \in D.made /\ b \in D.made /\ a \in C.made /\ b \in C.made
       /\ a \notin G /\ b \notin G /\ a # n
  BY <1>0, <1>8 DEF G
<1> HIDE DEF a, b
<1>16. /\ Held(P, c) /\ P.made = C.made /\ UpTo(P, V)
  BY <1>8, <1>9, <1>13, <1>14, <1>15, PutIsHeld
<1>17. Follows(C, P) /\ \A m \in Node \ {f[n], a} : P.parent[m] = C.parent[m]
  BY <1>7, <1>8, <1>9, <1>10, <1>13, <1>14, <1>15, PutFollows
<1> HIDE DEF P
<1>18. P.parent[n] = None
  BY <1>0, <1>2, <1>8, <1>9, <1>14, <1>15, <1>17
<1>19. Rooted(P) /\ b \in P.made
  BY <1>15, <1>16, <1>17 DEF Follows
<1>20. Follows(P, R) /\ \A m \in Node \ {n, b} : R.parent[m] = P.parent[m]
  BY <1>0, <1>14, <1>16, <1>18, <1>19, PutFollows
<1> HIDE DEF R
<1>21. Follows(E, R) /\ Follows(D, R)
  BY <1>2, <1>7, <1>17, <1>20, FollowsTwice
<1>22. \A s \in Scripts(D, n) : Contained(D, s) => Marked(R, s)
  <2>1. \A s \in Scripts(D, n) : s \in E.made
    BY <1>0, <1>1 DEF Scripts, G
  <2> QED BY <1>2, <1>21, <2>1 DEF Follows, Leaves, Marked
<1>23. \A m \in G \ {n} : R.parent[m] = D.parent[m]
  BY <1>0, <1>1, <1>8, <1>9, <1>14, <1>15, <1>17, <1>20
<1> QED BY <1>3, <1>21, <1>22, <1>23 DEF Placed, G

LEMMA IgnoredFollows ==
  ASSUME NEW D, NEW c, Held(D, c), Rooted(D), NEW how, NEW targets, NEW n,
         \A i \in DOMAIN targets : targets[i] \in Node
  PROVE  Follows(D, Ignored(D, how, targets, n))
<1> DEFINE others == {targets[i] : i \in DOMAIN targets} \ {n}
           other == CHOOSE t \in others : TRUE
           E == Ignored(D, how, targets, n)
<1>1. E = IF how = "replaceWith" /\ others # {} THEN Remove(D, other) ELSE D
  BY DEF Ignored
<1>2. others # {} => other \in Node
  OBVIOUS
<1> HIDE DEF others, other, E
<1>3. Follows(D, E)
  BY <1>1, <1>2, RemoveFollows, StaysFollows
<1> QED BY <1>3 DEF E

-----------------------------------------------------------------------------
(* The methods that are no business of scripts *)

LEMMA NodesFollow ==
  ASSUME NEW D, NEW c, Held(D, c), Rooted(D), NEW n, NEW v, NEW E,
         E \in {SetData(D, n, v), RemoveData(D, n), SetAttr(D, n, v), Read(D, n),
                ReadAll(D, n), Show(D, n), Hide(D, n), Toggle(D, n), SetStyle(D, n, v),
                AddClass(D, n, v), RemoveClass(D, n, v), ToggleOne(D, n, v),
                Strip(D, n), ToggleAll(D, n)}
  PROVE  Follows(D, E)
<1>1. Held(E, c) /\ SameBut(D, E, Plain)
  BY NodesAreHeld
<1>2. SameBut(D, E, Loose) /\ E.upset = D.upset
  BY <1>1 DEF SameBut, Loose, Tied, Plain, Beside, Fields
<1> QED BY <1>1, <1>2, SameFollows

\* Fields that events may write.
Heard == {"events", "bound", "attaches", "capture", "leaked", "clean"}

LEMMA HeardFollows ==
  ASSUME NEW D, NEW c, Held(D, c), Rooted(D), NEW E, NEW e, Held(E, e), SameBut(D, E, Heard)
  PROVE  Follows(D, E)
<1>1. SameBut(D, E, Loose) /\ E.upset = D.upset
  BY DEF SameBut, Loose, Tied, Heard, Fields
<1> QED BY <1>1, SameFollows

LEMMA AddEventFollows ==
  ASSUME NEW D, NEW c, Held(D, c), Rooted(D), NEW n, NEW h, NEW e, Held(AddEvent(D, n, h), e)
  PROVE  Follows(D, AddEvent(D, n, h))
<1> DEFINE type == TypeOf(h.origType, h.selector)
           S == IF Has(D, n, type) THEN D ELSE SetUp(D, n, type)
           E == AddEvent(D, n, h)
           lists(x) == [u \in DOMAIN x \cup {type} |->
                          IF u = type THEN Insert(Handlers(D, n, type), h) ELSE x[u]]
<1>0. DOMAIN D = Fields
  BY DEF Held
<1> HIDE DEF type
<1>1. DOMAIN S = Fields /\ SameBut(D, S, {"bound", "attaches", "capture"})
  <2> DEFINE F == SetUp(D, n, type)
  <2>1. DOMAIN F = Fields /\ SameBut(D, F, {"bound", "attaches", "capture"})
    BY SetUpFields
  <2>2. SameBut(D, D, {"bound", "attaches", "capture"})
    BY DEF SameBut
  <2> HIDE DEF F
  <2>3. S = D \/ S = F
    BY DEF F
  <2> HIDE DEF S
  <2> QED BY <1>0, <2>1, <2>2, <2>3
<1>2. E = [S EXCEPT !.clean = @ \ {n}, !.events[n] = lists(@)]
  BY DEF AddEvent, type
<1> HIDE DEF S, lists, E
<1>3. SameBut(S, E, Heard)
  BY <1>1, <1>2 DEF SameBut, Heard, Fields
<1>4. SameBut(D, E, Heard)
  BY <1>1, <1>3 DEF SameBut, Heard, Fields
<1>5. Follows(D, E)
  BY <1>4, HeardFollows DEF E
<1> QED BY <1>5 DEF E

LEMMA DropFollows ==
  ASSUME NEW D, NEW c \in Nat, Held(D, c), Rooted(D), NEW n \in Node, NEW asked, NEW t, NEW H
  PROVE  Follows(D, Drop(D, n, asked, t, H))
<1>0. DOMAIN D = Fields
  BY DEF Held
<1>1. CASE ~Has(D, n, t)
  <2>1. Drop(D, n, asked, t, H) = D
    BY <1>1, ZenonT(60) DEF Drop
  <2> QED BY <2>1, StaysFollows
<1>2. CASE Has(D, n, t)
  <2> DEFINE E == Drop(D, n, asked, t, H)
             T == TearDown(D, n, asked, t)
             lists == [u \in DOMAIN D.events[n] \ {t} |-> D.events[n][u]]
  <2>1. DOMAIN T = Fields /\ SameBut(D, T, {"bound", "attaches", "capture", "leaked"})
    BY TearDownFields DEF Torn
  <2>2. PICK left : \/ E = [D EXCEPT !.events[n][t] = left]
                    \/ E = [T EXCEPT !.events[n] = lists]
    <3>0. T.events = D.events
      BY <2>1 DEF SameBut, Fields
    <3> HIDE DEF T
    <3> DEFINE l == Handlers(D, n, t)
               left == [list |-> Without(l.list, H),
                        delegateCount |-> l.delegateCount -
                          Cardinality({h \in H \cap Listed(D, n, t) : h.selector})]
    <3>1. E = IF left.list # <<>> THEN [D EXCEPT !.events[n][t] = left]
              ELSE [T EXCEPT !.events[n] = [u \in DOMAIN @ \ {t} |-> @[u]]]
      BY <1>2, ZenonT(60) DEF Drop, T
    <3>2. [T EXCEPT !.events[n] = [u \in DOMAIN @ \ {t} |-> @[u]]]
            = [T EXCEPT !.events[n] = lists]
      BY <3>0
    <3> HIDE DEF left, lists, E
    <3> QED BY <3>1, <3>2
  <2>3. Held(E, c)
    BY DropIsHeld
  <2> HIDE DEF E, T, lists
  <2>4. SameBut(D, E, Heard)
    <3>1. CASE E = [D EXCEPT !.events[n][t] = left]
      BY <1>0, <3>1 DEF SameBut, Heard, Fields
    <3>2. CASE E = [T EXCEPT !.events[n] = lists]
      BY <2>1, <3>2 DEF SameBut, Heard, Fields
    <3> QED BY <2>2, <3>1, <3>2
  <2>5. Follows(D, E)
    BY <2>3, <2>4, HeardFollows
  <2> QED BY <2>5 DEF E
<1> QED BY <1>1, <1>2

LEMMA OffAllFollows ==
  ASSUME NEW D, NEW c \in Nat, Held(D, c), Rooted(D), NEW n \in Node
  PROVE  Follows(D, OffAll(D, n))
<1> DEFINE Less(E, t) == Drop(E, n, t, t, Listed(E, n, t))
           A == Less(D, "click")
           B == Less(A, "focus")
           F == Less(B, "focusin")
           G == Less(F, "mouseover")
<1>1. ASSUME NEW E, NEW t, Held(E, c), Follows(D, E)
      PROVE  Held(Less(E, t), c) /\ Follows(D, Less(E, t))
  <2>1. Rooted(E)
    BY <1>1 DEF Follows
  <2>2. Follows(E, Less(E, t))
    BY <1>1, <2>1, DropFollows
  <2>3. Held(Less(E, t), c)
    BY <1>1, DropIsHeld
  <2> HIDE DEF Less
  <2> QED BY <1>1, <2>2, <2>3, FollowsTwice
<1>2. Follows(D, D)
  BY StaysFollows
<1>3. OffAll(D, n) = G
  BY DEF OffAll
<1> HIDE DEF Less
<1>4. Held(A, c) /\ Follows(D, A)
  BY <1>1, <1>2
<1>5. Held(B, c) /\ Follows(D, B)
  BY <1>1, <1>4
<1>6. Held(F, c) /\ Follows(D, F)
  BY <1>1, <1>5
<1>7. Held(G, c) /\ Follows(D, G)
  BY <1>1, <1>6
<1> QED BY <1>3, <1>7

LEMMA OffFollows ==
  ASSUME NEW D, NEW c \in Nat, Held(D, c), Rooted(D), NEW n \in Node, NEW t, NEW selector,
         NEW ids
  PROVE  Follows(D, Off(D, n, t, selector, ids))
BY DropFollows DEF Off

LEMMA OneFirstFollows ==
  ASSUME NEW D, NEW c \in Nat, Held(D, c), Rooted(D), NEW q, q.on \in Node
  PROVE  Follows(D, OneFirst(D, q))
BY OffFollows, StaysFollows DEF OneFirst

LEMMA PointerFollows ==
  ASSUME NEW D, NEW c, Held(D, c), Rooted(D), NEW p, NEW q
  PROVE  /\ Follows(D, [D EXCEPT !.pointer = p, !.entered = q])
         /\ Follows(D, [D EXCEPT !.entered = q]) /\ Follows(D, Moved(D))
<1> DEFINE E == [D EXCEPT !.pointer = p, !.entered = q]
           F == [D EXCEPT !.entered = q]
           G == Moved(D)
<1>0. DOMAIN D = Fields
  BY DEF Held
<1>1. Held(E, c) /\ Held(F, c) /\ Held(G, c)
  BY PointerIsHeld, EnteredIsHeld, MovedIsHeld
<1>2. SameBut(D, E, Loose) /\ E.upset = D.upset
  BY <1>0 DEF SameBut, Loose, Tied, Fields
<1>3. SameBut(D, F, Loose) /\ F.upset = D.upset
  BY <1>0 DEF SameBut, Loose, Tied, Fields
<1>4. SameBut(D, G, Loose) /\ G.upset = D.upset
  BY <1>0 DEF Moved, SameBut, Loose, Tied, Fields
<1> HIDE DEF E, F, G
<1>5. Follows(D, E) /\ Follows(D, F) /\ Follows(D, G)
  BY <1>1, <1>2, <1>3, <1>4, SameFollows
<1> QED BY <1>5 DEF E, F, G

LEMMA MovedFollows ==
  ASSUME NEW D, NEW E, NEW c, Held(E, c), Follows(D, E)
  PROVE  Follows(D, Moved(E))
<1>1. Follows(E, Moved(E))
  BY PointerFollows DEF Follows
<1> QED BY <1>1, FollowsTwice

LEMMA UpsetFollows ==
  ASSUME NEW D, NEW c, Held(D, c), Rooted(D), NEW n, NEW S
  PROVE  /\ Follows(D, [D EXCEPT !.running[n] = S])
         /\ D.upset \subseteq S => Follows(D, [D EXCEPT !.upset = S])
<1> DEFINE E == [D EXCEPT !.running[n] = S]
           F == [D EXCEPT !.upset = S]
<1>0. DOMAIN D = Fields
  BY DEF Held
<1>1. Held(E, c) /\ Held(F, c)
  BY UpsetIsHeld
<1>2. SameBut(D, E, Loose) /\ E.upset = D.upset
  BY <1>0 DEF SameBut, Loose, Tied, Fields
<1>3. SameBut(D, F, Loose) /\ F.upset = S
  BY <1>0 DEF SameBut, Loose, Tied, Fields
<1> HIDE DEF E, F
<1>4. Follows(D, E) /\ (D.upset \subseteq S => Follows(D, F))
  BY <1>1, <1>2, <1>3, SameFollows
<1> QED BY <1>4 DEF E, F

LEMMA FireFollows ==
  ASSUME NEW D, NEW c, Held(D, c), Rooted(D), NEW n \in Node
  PROVE  Follows(D, FireEmpty(D, n))
<1> DEFINE E == FireEmpty(D, n)
<1>0. DOMAIN D = Fields
  BY DEF Held
<1>1. Held(E, c)
  BY FireIsHeld
<1>2. SameBut(D, E, Loose) /\ E.upset = D.upset
  BY <1>0 DEF FireEmpty, SameBut, Loose, Tied, Fields
<1> HIDE DEF E
<1>3. Follows(D, E)
  BY <1>1, <1>2, SameFollows
<1> QED BY <1>3 DEF E

LEMMA DequeueFollows ==
  ASSUME NEW D, NEW c, Held(D, c), Rooted(D), NEW n \in Node
  PROVE  Follows(D, Dequeue(D, n))
<1> DEFINE q == First(D.queue[n])
           E == [D EXCEPT !.queue[n] = <<Progress>> \o Tail(q), !.hooks = @ \cup {n},
                          !.running[n] = @ \cup {Head(q)}, !.last[n] = Head(q)]
           F == FireEmpty(D, n)
<1>0. DOMAIN D = Fields
  BY DEF Held
<1>1. Dequeue(D, n) = IF q = <<>> THEN F ELSE E
  BY DEF Dequeue
<1>2. Held(Dequeue(D, n), c) /\ Follows(D, F)
  BY DequeueIsHeld, FireFollows
<1> HIDE DEF q, F
<1>3. SameBut(D, E, Loose) /\ E.upset = D.upset
  BY <1>0 DEF SameBut, Loose, Tied, Fields
<1> HIDE DEF E
<1> QED BY <1>1, <1>2, <1>3, SameFollows

LEMMA QueueFollows ==
  ASSUME NEW D, NEW c, Held(D, c), Rooted(D), NEW n \in Node, NEW f \in Nat
  PROVE  Follows(D, Queue(D, n, f))
<1> DEFINE E == Queue(D, n, f)
<1>0. DOMAIN D = Fields
  BY DEF Held
<1>1. Held(E, c)
  BY QueueIsHeld
<1>2. SameBut(D, E, Loose) /\ E.upset = D.upset
  BY <1>0 DEF Queue, SameBut, Loose, Tied, Fields
<1> HIDE DEF E
<1>3. Follows(D, E)
  BY <1>1, <1>2, SameFollows
<1> QED BY <1>3 DEF E

LEMMA ClearQueueFollows ==
  ASSUME NEW D, NEW c, Held(D, c), Rooted(D), NEW n \in Node
  PROVE  Follows(D, ClearQueue(D, n))
<1> DEFINE E == FireEmpty(D, n)
           S == E.upset \cup {n}
<1>1. Held(E, c) /\ Follows(D, E)
  BY FireIsHeld, FireFollows
<1>2. ClearQueue(D, n) = [E EXCEPT !.upset = S]
  BY DEF ClearQueue
<1>3. E.upset \subseteq S
  OBVIOUS
<1> HIDE DEF E, S
<1>4. Follows(E, [E EXCEPT !.upset = S])
  BY <1>1, <1>3, UpsetFollows DEF Follows
<1> QED BY <1>1, <1>2, <1>4, FollowsTwice

LEMMA PromiseFollows ==
  ASSUME NEW D, NEW c, Held(D, c), Rooted(D), NEW S \in SUBSET Node
  PROVE  Follows(D, Promise(D, S))
<1> DEFINE E == Promise(D, S)
           W == S \cap D.hooks
           A == UNION {Pending(D, n) : n \in S}
<1>0. DOMAIN D = Fields
  BY DEF Held
<1>1. Held(E, c)
  BY PromiseIsHeld
<1>2. E = [D EXCEPT !.waits = W, !.count = Cardinality(W), !.asked = S, !.due = A]
  BY DEF Promise
<1> HIDE DEF E, W, A
<1>3. SameBut(D, E, Loose) /\ E.upset = D.upset
  BY <1>0, <1>2 DEF SameBut, Loose, Tied, Fields
<1>4. Follows(D, E)
  BY <1>1, <1>3, SameFollows
<1> QED BY <1>4 DEF E

-----------------------------------------------------------------------------
(* Evaluations under way *)

\* A script that will not run again as long as nobody cleans it.
Sure(D, s) == s \in D.evaled \/ s \in D.upset

\* What an evaluation has left.  Its scripts are in the page, or it will find
\* that none of them is.
Awaiting(D, S) ==
  \A s \in S : s \in D.made /\ IsScript(D, s) /\ (s \in D.ran => Sure(D, s))
Known(D, S) == \A s \in S : Sure(D, s) \/ Contained(D, s)
Idle(D, S)  == \A s \in S : s \in D.evaled \/ ~Contained(D, s)

Evaluating(s, i) == i \in DOMAIN s /\ s[i].at = "eval"

\* No script is left to two evaluations, unless it is sure.
ScriptInv ==
  /\ Rooted(dom) /\ OnceRun(dom)
  /\ \A i : Evaluating(stack, i) =>
       /\ "scripts" \in DOMAIN stack[i]
       /\ Awaiting(dom, stack[i].scripts)
       /\ \/ Known(dom, stack[i].scripts)
          \/ i = Len(stack) /\ Idle(dom, stack[i].scripts)
  /\ \A i, j : i # j /\ Evaluating(stack, i) /\ Evaluating(stack, j) =>
       \A s \in stack[i].scripts \cap stack[j].scripts : Sure(dom, s)

LEMMA SureStays ==
  ASSUME NEW D, NEW E, Follows(D, E)
  PROVE  /\ \A s \in D.made : Sure(D, s) => Sure(E, s)
         /\ \A S : Awaiting(D, S) => Awaiting(E, S)
         /\ \A S : Awaiting(D, S) /\ Known(D, S) => Known(E, S)
<1>1. Leaves(D, E) /\ D.made \subseteq E.made
  BY DEF Follows
<1>2. \A s \in D.made : Sure(D, s) => Sure(E, s)
  BY <1>1 DEF Leaves, Sure, Marked
<1>3. \A S : Awaiting(D, S) => Awaiting(E, S)
  BY <1>1, <1>2 DEF Leaves, Awaiting
<1>4. \A S : Awaiting(D, S) /\ Known(D, S) => Known(E, S)
  BY <1>1, <1>2 DEF Leaves, Awaiting, Known, Marked, Sure
<1> QED BY <1>2, <1>3, <1>4

\* t has the evaluations of s, or fewer.
Fewer(s, t) ==
  \A i : Evaluating(t, i) =>
    /\ Evaluating(s, i)
    /\ "scripts" \in DOMAIN s[i] => "scripts" \in DOMAIN t[i] /\ t[i].scripts = s[i].scripts

LEMMA FewerPopped ==
  ASSUME NEW S, NEW s \in Seq(S), s # <<>>
  PROVE  Fewer(s, SubSeq(s, 1, Len(s) - 1))
<1> DEFINE t == SubSeq(s, 1, Len(s) - 1)
<1>1. /\ Len(s) \in Nat \ {0} /\ DOMAIN s = 1..Len(s) /\ DOMAIN t = 1..(Len(s) - 1)
      /\ \A i \in 1..(Len(s) - 1) : t[i] = s[i]
  OBVIOUS
<1>2. \A i \in DOMAIN t : i \in DOMAIN s /\ t[i] = s[i]
  BY <1>1
<1> HIDE DEF t
<1>3. Fewer(s, t)
  BY <1>2 DEF Fewer, Evaluating
<1> QED BY <1>3 DEF t

LEMMA FewerPushed ==
  ASSUME NEW S, NEW t \in Seq(S), NEW s, Fewer(s, t), NEW f, f.at # "eval"
  PROVE  Fewer(s, Append(t, f))
<1> DEFINE u == Append(t, f)
<1>1. /\ Len(t) \in Nat /\ DOMAIN t = 1..Len(t) /\ DOMAIN u = 1..(Len(t) + 1)
      /\ \A i \in 1..Len(t) : u[i] = t[i]
      /\ u[Len(t) + 1] = f
  OBVIOUS
<1>2. \A i \in DOMAIN u : u[i] = f \/ (i \in DOMAIN t /\ u[i] = t[i])
  BY <1>1
<1> HIDE DEF u
<1>3. Fewer(s, u)
  BY <1>2 DEF Fewer, Evaluating
<1> QED BY <1>3 DEF u

LEMMA FewerChanged ==
  ASSUME NEW s, NEW t, Fewer(s, t), NEW i, NEW f, f.at # "eval"
  PROVE  Fewer(s, [t EXCEPT ![i] = f])
<1> DEFINE u == [t EXCEPT ![i] = f]
<1>1. DOMAIN u = DOMAIN t /\ \A j \in DOMAIN t : u[j] = f \/ u[j] = t[j]
  OBVIOUS
<1> HIDE DEF u
<1>2. Fewer(s, u)
  BY <1>1 DEF Fewer, Evaluating
<1> QED BY <1>2 DEF u

LEMMA FewerMarked ==
  ASSUME NEW s, NEW t, Fewer(s, t), NEW i, NEW x, NEW v, x \notin {"at", "scripts"},
         i \in DOMAIN t => "at" \in DOMAIN t[i]
  PROVE  Fewer(s, [t EXCEPT ![i] = [t[i] EXCEPT ![x] = v]])
<1> DEFINE f == [t[i] EXCEPT ![x] = v]
           u == [t EXCEPT ![i] = f]
<1>1. DOMAIN u = DOMAIN t /\ \A j \in DOMAIN t : u[j] = IF j = i THEN f ELSE t[j]
  OBVIOUS
<1>2. i \in DOMAIN t =>
        /\ f.at = t[i].at
        /\ "scripts" \in DOMAIN t[i] => "scripts" \in DOMAIN f /\ f.scripts = t[i].scripts
  OBVIOUS
<1> HIDE DEF f, u
<1>3. \A j \in DOMAIN t :
        /\ u[j].at = t[j].at
        /\ "scripts" \in DOMAIN t[j] => "scripts" \in DOMAIN u[j] /\ u[j].scripts = t[j].scripts
  BY <1>1, <1>2
<1>4. ASSUME NEW j, Evaluating(u, j)
      PROVE  /\ Evaluating(s, j)
             /\ "scripts" \in DOMAIN s[j] => "scripts" \in DOMAIN u[j] /\ u[j].scripts = s[j].scripts
  <2>1. j \in DOMAIN t /\ u[j].at = "eval"
    BY <1>1, <1>4 DEF Evaluating
  <2>2. Evaluating(t, j)
    BY <1>3, <2>1 DEF Evaluating
  <2>3. /\ Evaluating(s, j)
        /\ "scripts" \in DOMAIN s[j] => "scripts" \in DOMAIN t[j] /\ t[j].scripts = s[j].scripts
    BY <2>2 DEF Fewer
  <2> QED BY <1>3, <2>1, <2>3
<1>5. Fewer(s, u)
  BY <1>4 DEF Fewer
<1> QED BY <1>5 DEF f, u

LEMMA FewerSame == \A s : Fewer(s, s)
BY DEF Fewer

\* No evaluation is under way in its own right: nothing is idle.
LEMMA QuietScripts ==
  ASSUME ScriptInv, Follows(dom, dom'), Fewer(stack, stack'),
         ~Evaluating(stack, Len(stack))
  PROVE  ScriptInv'
<1>1. \A i : Evaluating(stack', i) =>
        /\ Evaluating(stack, i)
        /\ "scripts" \in DOMAIN stack[i]
        /\ "scripts" \in DOMAIN stack'[i] /\ stack'[i].scripts = stack[i].scripts
  BY DEF ScriptInv, Fewer
<1>2. \A i : Evaluating(stack, i) =>
        Awaiting(dom, stack[i].scripts) /\ Known(dom, stack[i].scripts)
  BY DEF ScriptInv
<1>3. \A i : Evaluating(stack', i) =>
        /\ "scripts" \in DOMAIN stack'[i]
        /\ Awaiting(dom', stack'[i].scripts) /\ Known(dom', stack'[i].scripts)
  BY <1>1, <1>2, SureStays
<1>4. ASSUME NEW i, NEW j, i # j, Evaluating(stack', i), Evaluating(stack', j),
             NEW s \in stack'[i].scripts \cap stack'[j].scripts
      PROVE  Sure(dom', s)
  <2>1. Evaluating(stack, i) /\ Evaluating(stack, j) /\ s \in stack[i].scripts \cap stack[j].scripts
    BY <1>1, <1>4
  <2>2. Sure(dom, s) /\ s \in dom.made
    BY <1>2, <1>4, <2>1 DEF ScriptInv, Awaiting
  <2> QED BY <2>2, SureStays
<1>5. Rooted(dom') /\ OnceRun(dom')
  BY OnceRunStays DEF ScriptInv, Follows
<1> QED BY <1>3, <1>4, <1>5 DEF ScriptInv

-----------------------------------------------------------------------------
(* Steps that evaluate nothing *)

Quietly == /\ Follows(dom, dom') /\ Fewer(stack, stack')
           /\ ~Evaluating(stack, Len(stack))

IsSeq(s) == \E S : s \in Seq(S)

LEMMA StackIsSeq ==
  ASSUME Tended
  PROVE  IsSeq(stack) /\ (stack # <<>> => IsSeq(Popped) /\ Fewer(stack, Popped))
<1>1. PICK S : stack \in Seq(S)
  BY DEF Tended, Frames
<1>2. stack # <<>> => Popped \in Seq(S) /\ Fewer(stack, Popped)
  <2> SUFFICES ASSUME stack # <<>> PROVE Popped \in Seq(S) /\ Fewer(stack, Popped)
    OBVIOUS
  <2>1. Fewer(stack, Popped)
    BY <1>1, FewerPopped DEF Popped
  <2>2. \A i \in 1..(Len(stack) - 1) : stack[i] \in S
    BY <1>1
  <2>3. Popped \in Seq(S)
    BY <1>1, <2>2 DEF Popped
  <2> QED BY <2>1, <2>3
<1> QED BY <1>1, <1>2 DEF IsSeq

LEMMA PushedIsSeq ==
  ASSUME NEW s, NEW t, IsSeq(t), Fewer(s, t), NEW f, f.at # "eval"
  PROVE  IsSeq(Append(t, f)) /\ Fewer(s, Append(t, f))
<1>1. PICK S : t \in Seq(S)
  BY DEF IsSeq
<1>2. t \in Seq(S \cup {f})
  BY <1>1
<1>3. Append(t, f) \in Seq(S \cup {f})
  BY <1>2
<1> QED BY <1>1, <1>3, FewerPushed DEF IsSeq

LEMMA ChangedIsSeq ==
  ASSUME NEW S, NEW s \in Seq(S), NEW i, NEW f
  PROVE  IsSeq([s EXCEPT ![i] = f])
<1>1. CASE i \in DOMAIN s
  <2>1. s \in Seq(S \cup {f}) /\ i \in 1..Len(s)
    BY <1>1
  <2>2. [s EXCEPT ![i] = f] \in Seq(S \cup {f})
    BY <2>1, ExceptSeq
  <2> QED BY <2>2 DEF IsSeq
<1>2. CASE i \notin DOMAIN s
  <2>1. [s EXCEPT ![i] = f] = s
    BY <1>2
  <2> QED BY <2>1 DEF IsSeq
<1> QED BY <1>1, <1>2

LEMMA WithTopIsSeq ==
  ASSUME Tended, stack # <<>>, NEW f, f.at # "eval"
  PROVE  IsSeq(WithTop(f)) /\ Fewer(stack, WithTop(f))
BY StackIsSeq, PushedIsSeq DEF WithTop

LEMMA CodeOnTop ==
  ASSUME Tended, InCode
  PROVE  ~Evaluating(stack, Len(stack))
<1>1. CASE stack = <<>>
  <2> DEFINE s == <<>>
             k == Len(s)
  <2>1. DOMAIN s = {} /\ s = stack
    BY <1>1
  <2> HIDE DEF s
  <2> QED BY <2>1 DEF Evaluating
<1>2. CASE stack # <<>>
  BY <1>2 DEF InCode, Evaluating, Top
<1> QED BY <1>1, <1>2

LEMMA OtherOnTop ==
  ASSUME NEW at, TopIs(at), at # "eval"
  PROVE  ~Evaluating(stack, Len(stack))
BY DEF TopIs, Evaluating, Top

LEMMA EventIsEvent == \A by, t, target, path : Event(by, t, target, path).at = "event"
BY DEF Event

\* The page's calls that leave the stack alone.
LEMMA CalledQuietly ==
  ASSUME Tended, NEW use, Call(use), Follows(dom, dom'), stack' = stack
  PROVE  Quietly
BY CodeOnTop, FewerSame DEF Quietly, Call

LEMMA EventsAreQuiet ==
  ASSUME Inv, Tended, Rooted(dom), NEW n \in MayHold, NEW t \in page.types,
         \/ \E selector, one \in BOOLEAN : CallOn(n, t, selector, one)
         \/ \E selector \in BOOLEAN : CallOff(n, t, selector)
         \/ CallTrigger(n, t) \/ CallTriggerHandler(n, t)
  PROVE  Quietly
<1>0. /\ n \in dom.made /\ n \in Node /\ t \in Type /\ calls \in Nat
      /\ Held(dom, calls) /\ IsSeq(stack) /\ Fewer(stack, stack) /\ Follows(dom, dom)
  BY HeldAre, StackIsSeq, FewerSame, StaysFollows DEF Tended
<1>1. ASSUME NEW selector \in BOOLEAN, NEW one \in BOOLEAN, CallOn(n, t, selector, one)
      PROVE  Quietly
  <2> DEFINE h == [id |-> calls + 1, origType |-> t, selector |-> selector, one |-> one]
  <2>1. h \in Handler /\ h.id = calls + 1
    BY <1>0 DEF Handler
  <2>2. dom' = AddEvent(dom, n, h)
    BY <1>1 DEF CallOn
  <2> HIDE DEF h
  <2>3. Held(dom', calls + 1)
    BY <1>0, <2>1, <2>2, AddEventIsHeld
  <2>4. Follows(dom, dom')
    BY <1>0, <2>2, <2>3, AddEventFollows
  <2> QED BY <1>1, <2>4, CalledQuietly DEF CallOn
<1>2. ASSUME NEW selector \in BOOLEAN, CallOff(n, t, selector) PROVE Quietly
  <2>1. Follows(dom, dom')
    BY <1>0, <1>2, OffFollows DEF CallOff
  <2> QED BY <1>2, <2>1, CalledQuietly DEF CallOff
<1>3. ASSUME InCode, dom' = dom,
             stack' = stack \/ \E by, path : stack' = Pushed(Event(by, t, n, path))
      PROVE  Quietly
  <2>1. ~Evaluating(stack, Len(stack))
    BY <1>3, CodeOnTop
  <2>2. Fewer(stack, stack')
    BY <1>0, <1>3, EventIsEvent, PushedIsSeq DEF Pushed
  <2> QED BY <1>0, <1>3, <2>1, <2>2 DEF Quietly
<1>4. CASE CallTrigger(n, t)
  <2>1. /\ InCode /\ dom' = dom
        /\ \/ stack' = stack
           \/ stack' = Pushed(Event("browser", t, n, FocusPath(n)))
           \/ stack' = Pushed(Event("trigger", t, n, TriggerPath(n, t)))
    BY <1>4 DEF CallTrigger, Call
  <2> QED BY <1>3, <2>1
<1>5. CASE CallTriggerHandler(n, t)
  <2>1. /\ InCode /\ dom' = dom
        /\ stack' = Pushed(Event("handler", t, n, <<<<n, TypeOf(t, FALSE)>>>>))
    BY <1>5 DEF CallTriggerHandler, Call
  <2> QED BY <1>3, <2>1
<1> QED BY <1>1, <1>2, <1>4, <1>5

LEMMA OffAllIsQuiet ==
  ASSUME Inv, Tended, Rooted(dom), NEW n \in MayHold, CallOffAll(n)
  PROVE  Quietly
<1>1. n \in Node /\ Held(dom, calls) /\ calls \in Nat
  BY HeldAre DEF Tended
<1>2. Follows(dom, dom')
  BY <1>1, OffAllFollows DEF CallOffAll
<1> QED BY <1>2, CalledQuietly DEF CallOffAll

LEMMA UserIsQuiet ==
  ASSUME Inv, Tended, Rooted(dom), NEW n \in MayHold, NEW t \in page.types, UserEvent(n, t)
  PROVE  Quietly
<1> DEFINE Clicked == Event("browser", t, n, Route(dom, n, t))
           Focused == Event("browser", t, n, FocusPath(n))
           Over == Event("browser", "mouseover", n, Route(dom, n, "mouseover"))
           Hovered == [Over EXCEPT !["related"] = dom.pointer]
           q == {p \in dom.entered : p.elem \in Ancestors(dom, n)}
           e == [dom EXCEPT !.pointer = n, !.entered = q]
<1>0. stack = <<>> /\ InCode /\ Held(dom, calls)
  BY DEF UserEvent, Call, Tended
<1>1. /\ stack' \in {<<Clicked>>, <<Focused>>, <<Hovered>>}
      /\ dom' \in {dom, e}
  BY DEF UserEvent
<1>2. Clicked.at = "event" /\ Focused.at = "event" /\ Hovered.at = "event"
  <2>1. Over.at = "event" /\ "at" \in DOMAIN Over
    BY DEF Event
  <2> HIDE DEF Over
  <2> QED BY <2>1, EventIsEvent
<1> HIDE DEF Clicked, Focused, Hovered
<1>3. PICK f : stack' = <<f>> /\ f.at = "event"
  BY <1>1, <1>2
<1>4. Fewer(stack, stack')
  <2> DEFINE u == <<f>>
  <2>1. DOMAIN u = {1} /\ u[1] = f
    OBVIOUS
  <2> HIDE DEF u
  <2>2. Fewer(stack, u)
    BY <1>3, <2>1 DEF Fewer, Evaluating
  <2> QED BY <1>3, <2>2 DEF u
<1>5. Follows(dom, dom) /\ Follows(dom, e)
  <2> HIDE DEF q
  <2> QED BY <1>0, StaysFollows, PointerFollows
<1> HIDE DEF e
<1> QED BY <1>0, <1>1, <1>4, <1>5, CodeOnTop DEF Quietly

LEMMA TreesAreQuiet ==
  ASSUME Inv, Tended, Rooted(dom), NEW n \in MayHold,
         \/ CallRemove(n) \/ CallDetach(n) \/ CallEmpty(n)
         \/ \E withData \in BOOLEAN : CallClone(n, withData)
         \/ CallData(n) \/ CallLooks(n) \/ \E k \in Class : CallClasses(n, k)
  PROVE  Quietly
<1>0. n \in dom.made /\ n \in Node /\ dom.made \subseteq Node /\ Held(dom, calls)
  BY HeldAre DEF Tended
<1>1. CASE CallRemove(n)
  <2>1. Held(Remove(dom, n), calls) /\ Follows(dom, Remove(dom, n))
    BY <1>0, RemoveIsHeld, RemoveFollows
  <2>2. Follows(dom, dom')
    BY <1>1, <2>1, MovedFollows DEF CallRemove
  <2> QED BY <1>1, <2>2, CalledQuietly DEF CallRemove
<1>2. CASE CallDetach(n)
  <2>1. n # Document /\ dom' = Moved(Fragment(dom, n))
    BY <1>2 DEF CallDetach, Detach
  <2>2. Held(Fragment(dom, n), calls) /\ Follows(dom, Fragment(dom, n))
    BY <1>0, <2>1, FragmentIsHeld, FragmentFollows
  <2>3. Follows(dom, dom')
    BY <2>1, <2>2, MovedFollows
  <2> QED BY <1>2, <2>3, CalledQuietly DEF CallDetach
<1>3. CASE CallEmpty(n)
  <2>1. Held(Empty(dom, n), calls) /\ Follows(dom, Empty(dom, n))
    BY <1>0, EmptyIsHeld, EmptyFollows
  <2>2. Follows(dom, dom')
    BY <1>3, <2>1, MovedFollows DEF CallEmpty
  <2> QED BY <1>3, <2>2, CalledQuietly DEF CallEmpty
<1>4. ASSUME NEW withData \in BOOLEAN, CallClone(n, withData) PROVE Quietly
  <2> DEFINE f == CopyOf(dom, n)
             G == GetAll(dom, n)
  <2>1. f \in [G -> Spare \ dom.made] /\ \A m, k \in G : f[m] = f[k] => m = k
    <3>1. CanCopy(dom, n)
      BY <1>4 DEF CallClone
    <3> QED BY <1>0, <3>1, CopyExists DEF Copies
  <2>2. n \in G /\ G \in SUBSET dom.made /\ \A m \in G \ {n} : dom.parent[m] \in G
    BY <1>0, GetAllUp, GetAllNodes
  <2>3. dom' = Clone(dom, n, withData, f)
    BY <1>4 DEF CallClone
  <2> HIDE DEF f, G
  <2>4. Copying(dom, n, G, f)
    BY <2>1, <2>2 DEF Copying
  <2>5. Follows(dom, dom')
    BY <1>0, <2>3, <2>4, CloneFollows DEF G
  <2> QED BY <1>4, <2>5, CalledQuietly DEF CallClone
<1>5. CASE CallData(n) \/ CallLooks(n) \/ \E k \in Class : CallClasses(n, k)
  <2>1. stack' = stack /\ \E use : Call(use)
    BY <1>5 DEF CallData, CallLooks, CallClasses
  <2>2. \E v : dom' \in {SetData(dom, n, v), RemoveData(dom, n), SetAttr(dom, n, v),
                         Read(dom, n), ReadAll(dom, n), Show(dom, n), Hide(dom, n),
                         Toggle(dom, n), SetStyle(dom, n, v), AddClass(dom, n, v),
                         RemoveClass(dom, n, v), ToggleOne(dom, n, v), Strip(dom, n),
                         ToggleAll(dom, n)}
    <3>1. CASE CallData(n)
      BY <3>1 DEF CallData
    <3>2. CASE CallLooks(n)
      BY <3>2 DEF CallLooks
    <3>3. CASE \E k \in Class : CallClasses(n, k)
      BY <3>3 DEF CallClasses
    <3> QED BY <1>5, <3>1, <3>2, <3>3
  <2>3. Follows(dom, dom')
    BY <1>0, <2>2, NodesFollow
  <2> QED BY <2>1, <2>3, CalledQuietly
<1> QED BY <1>1, <1>2, <1>3, <1>4, <1>5

LEMMA DequeuedFollows ==
  ASSUME Tended, NEW D, NEW c, NEW n \in Node, Held(D, c), Follows(dom, D), Dequeued(D, n)
  PROVE  Follows(dom, dom') /\ Fewer(stack, stack')
<1>1. Follows(D, dom')
  BY DequeueFollows DEF Dequeued, Follows
<1>2. stack' = stack \/ stack' = Append(stack, Code)
  BY DEF Dequeued, Pushed
<1>3. Fewer(stack, stack')
  BY <1>2, FewerSame, StackIsSeq, PushedIsSeq DEF Code
<1> QED BY <1>1, <1>3, FollowsTwice

LEMMA QueuesAreQuiet ==
  ASSUME Inv, Tended, Rooted(dom),
         \/ \E n \in MayHold : \/ CallQueue(n) \/ CallClearQueue(n) \/ CallDequeue(n)
                               \/ RunNext(n)
         \/ \E S \in SUBSET MayHold : S # {} /\ CallPromise(S)
  PROVE  Quietly
<1>0. /\ MayHold \subseteq Node /\ Held(dom, calls) /\ Held(dom, calls + 1) /\ calls + 1 \in Nat
  BY HeldAre, HeldLater DEF Tended
<1>1. ASSUME NEW n \in MayHold, CallQueue(n) PROVE Quietly
  <2> DEFINE E == Queue(dom, n, calls + 1)
  <2>1. Call("queues") /\ ((dom' = E /\ stack' = stack) \/ Dequeued(E, n))
    BY <1>1 DEF CallQueue
  <2>2. Held(E, calls + 1) /\ Follows(dom, E)
    BY <1>0, QueueIsHeld, QueueFollows
  <2> HIDE DEF E
  <2>3. CASE dom' = E /\ stack' = stack
    BY <2>1, <2>2, <2>3, CalledQuietly
  <2>4. CASE Dequeued(E, n)
    BY <1>0, <2>1, <2>2, <2>4, DequeuedFollows, CodeOnTop DEF Quietly, Call
  <2> QED BY <2>1, <2>3, <2>4
<1>2. ASSUME NEW n \in MayHold, CallClearQueue(n) PROVE Quietly
  <2>1. Follows(dom, dom')
    BY <1>0, <1>2, ClearQueueFollows DEF CallClearQueue
  <2> QED BY <1>2, <2>1, CalledQuietly DEF CallClearQueue
<1>3. ASSUME NEW n \in MayHold, CallDequeue(n) PROVE Quietly
  <2> DEFINE S == dom.upset \cup {n}
             E == [dom EXCEPT !.upset = S]
  <2>1. InCode /\ Dequeued(E, n)
    BY <1>3 DEF CallDequeue, Call
  <2>2. dom.upset \subseteq S
    OBVIOUS
  <2> HIDE DEF S
  <2>3. Held(E, calls) /\ Follows(dom, E)
    BY <1>0, <2>2, UpsetIsHeld, UpsetFollows
  <2> HIDE DEF E
  <2> QED BY <1>0, <2>1, <2>3, DequeuedFollows, CodeOnTop DEF Quietly
<1>4. ASSUME NEW n \in MayHold, RunNext(n) PROVE Quietly
  <2>1. PICK f \in dom.running[n] : Dequeued([dom EXCEPT !.running[n] = @ \ {f}], n)
    BY <1>4 DEF RunNext
  <2> DEFINE S == dom.running[n] \ {f}
             E == [dom EXCEPT !.running[n] = S]
  <2>2. Dequeued(E, n) /\ InCode
    BY <1>4, <2>1 DEF RunNext
  <2> HIDE DEF S
  <2>3. Held(E, calls) /\ Follows(dom, E)
    BY <1>0, UpsetIsHeld, UpsetFollows
  <2> HIDE DEF E
  <2> QED BY <1>0, <2>2, <2>3, DequeuedFollows, CodeOnTop DEF Quietly
<1>5. ASSUME NEW S \in SUBSET MayHold, CallPromise(S) PROVE Quietly
  <2>1. Follows(dom, dom')
    BY <1>0, <1>5, PromiseFollows DEF CallPromise
  <2> QED BY <1>5, <2>1, CalledQuietly DEF CallPromise
<1> QED BY <1>1, <1>2, <1>3, <1>4, <1>5

LEMMA ReturnIsQuiet ==
  ASSUME Inv, Tended, Rooted(dom), NEW answer \in {"go", "false", "stop"}, Return(answer)
  PROVE  Quietly
<1> DEFINE below == Len(stack) - 1
           over == below - 1
<1>0. /\ stack # <<>> /\ dom' = dom /\ TopIs("code")
      /\ \/ stack' = Popped
         \/ /\ below > 0 /\ stack[below].at = "dispatch"
            /\ stack' = [Popped EXCEPT
                           ![below].rest = Left(stack[below], answer),
                           ![over].stopped = @ \/ answer # "go",
                           ![over].prevented = @ \/ answer = "false"]
  BY DEF Return, TopIs
<1>1. /\ Fewer(stack, Popped) /\ IsSeq(Popped) /\ Follows(dom, dom)
      /\ ~Evaluating(stack, Len(stack))
  BY <1>0, StackIsSeq, StaysFollows, OtherOnTop DEF Tended
<1>2. CASE /\ below > 0 /\ stack[below].at = "dispatch"
           /\ stack' = [Popped EXCEPT
                          ![below].rest = Left(stack[below], answer),
                          ![over].stopped = @ \/ answer # "go",
                          ![over].prevented = @ \/ answer = "false"]
  <2> DEFINE r == Left(stack[below], answer)
             f == [Popped[below] EXCEPT !["rest"] = r]
             p == [Popped EXCEPT ![below] = f]
             v == p[over].stopped \/ answer # "go"
             g == [p[over] EXCEPT !["stopped"] = v]
             q == [p EXCEPT ![over] = g]
             w == q[over].prevented \/ answer = "false"
             h == [q[over] EXCEPT !["prevented"] = w]
  <2>1. stack' = [q EXCEPT ![over] = h]
    BY <1>2, Zenon
  <2>2. \A i \in DOMAIN Popped : "at" \in DOMAIN Popped[i]
    <3>1. Frames(dom, Popped)
      BY <1>0, TopIsFrame
    <3>2. \A i \in DOMAIN Popped : Frame(dom, Popped[i])
      BY <3>1, FramesAre
    <3> QED BY <3>2 DEF Frame, EventFrame, DispatchFrame
  <2> HIDE DEF r, below, over
  <2>3. Fewer(stack, p)
    BY <1>1, <2>2, FewerMarked
  <2>4. \A i \in DOMAIN p : "at" \in DOMAIN p[i]
    <3>1. DOMAIN f = DOMAIN Popped[below]
      OBVIOUS
    <3> HIDE DEF f
    <3>2. DOMAIN p = DOMAIN Popped /\ \A i \in DOMAIN Popped : p[i] = IF i = below THEN f ELSE Popped[i]
      OBVIOUS
    <3> HIDE DEF p
    <3> QED BY <2>2, <3>1, <3>2
  <2> HIDE DEF p, v
  <2>5. Fewer(stack, q)
    BY <2>3, <2>4, FewerMarked
  <2>6. \A i \in DOMAIN q : "at" \in DOMAIN q[i]
    <3>1. DOMAIN g = DOMAIN p[over]
      OBVIOUS
    <3> HIDE DEF g
    <3>2. DOMAIN q = DOMAIN p /\ \A i \in DOMAIN p : q[i] = IF i = over THEN g ELSE p[i]
      OBVIOUS
    <3> HIDE DEF q
    <3> QED BY <2>4, <3>1, <3>2
  <2> HIDE DEF q, w
  <2>7. Fewer(stack, stack')
    BY <2>1, <2>5, <2>6, FewerMarked
  <2> QED BY <1>0, <1>1, <2>7 DEF Quietly
<1>3. CASE stack' = Popped
  BY <1>0, <1>1, <1>3 DEF Quietly
<1> QED BY <1>0, <1>2, <1>3

LEMMA TopIsAt ==
  ASSUME Tended, NEW at, TopIs(at)
  PROVE  stack # <<>> /\ "at" \in DOMAIN Top /\ Top.at = at
<1>1. stack # <<>> /\ Top.at = at
  BY DEF TopIs
<1>2. Frame(dom, Top)
  BY <1>1, TopIsFrame
<1> QED BY <1>1, <1>2 DEF Frame, EventFrame, DispatchFrame

\* The innermost call goes on, and may start another one.
LEMMA GoesOn ==
  ASSUME Tended, Rooted(dom), NEW at, TopIs(at), at # "eval", Follows(dom, dom'),
         NEW f, f.at = at, NEW g, g.at # "eval",
         stack' \in {Popped, WithTop(f), Append(WithTop(f), g)}
  PROVE  Quietly
<1>1. stack # <<>> /\ ~Evaluating(stack, Len(stack))
  BY TopIsAt, OtherOnTop
<1>2. Fewer(stack, Popped) /\ Fewer(stack, WithTop(f)) /\ IsSeq(WithTop(f))
  BY <1>1, StackIsSeq, WithTopIsSeq
<1>3. Fewer(stack, Append(WithTop(f), g))
  BY <1>2, PushedIsSeq
<1> QED BY <1>1, <1>2, <1>3 DEF Quietly

LEMMA DispatchIsQuiet ==
  ASSUME Inv, Tended, Rooted(dom), Dispatch
  PROVE  Quietly
<1> DEFINE e == Top
           i == CHOOSE i \in Nexts(e) : \A k \in Nexts(e) : i <= k
           p == SubSeq(e.path, i + 1, Len(e.path))
           f == [e EXCEPT !["path"] = p]
           again == Event("simulated", "focusin", e.target, Route(dom, e.target, "focusin"))
           r == HandlerQueue(e.path[i][1], e.path[i][2], e.target)
           next == [at |-> "dispatch", elem |-> None, rest |-> r]
<1>1. /\ TopIs("event") /\ dom' = dom
      /\ stack' \in {Append(WithTop(f), again), Append(WithTop(f), next)}
  BY DEF Dispatch
<1>2. again.at = "event" /\ next.at = "dispatch"
  <2> HIDE DEF r
  <2> QED BY EventIsEvent
<1>3. "at" \in DOMAIN e /\ e.at = "event"
  BY <1>1, TopIsAt
<1> HIDE DEF e, p, again, next
<1>4. f.at = "event"
  BY <1>3
<1> HIDE DEF f
<1>5. Follows(dom, dom')
  BY <1>1, StaysFollows DEF Tended
<1> QED BY <1>1, <1>2, <1>4, <1>5, GoesOn

LEMMA HandlerIsQuiet ==
  ASSUME Inv, Tended, Rooted(dom), CallHandler
  PROVE  Quietly
<1> DEFINE q == Head(Top.rest)
           below == Len(stack) - 1
           d == Top
           r == Tail(d.rest)
           x == q.elem
           left == [d EXCEPT !["rest"] = r, !["elem"] = x]
           f == WithTop(left)
           hovers == stack[below].by = "browser" /\ q.h.origType = "mouseenter"
           entry == IF hovers THEN {q} ELSE {}
           E == OneFirst(dom, q)
           v == E.entered \cup entry
           l == Append(f[below].log, q)
           logged == [f[below] EXCEPT !["log"] = l]
<1>0. TopIs("dispatch") /\ Top.rest # <<>> /\ Held(dom, calls) /\ calls \in Nat
  BY HeldAre DEF CallHandler, Tended
<1>1. \/ /\ dom' = [E EXCEPT !.entered = v]
         /\ stack' = Append([f EXCEPT ![below] = logged], Code)
      \/ dom' = dom /\ stack' = f
  BY Zenon DEF CallHandler
<1>2. stack # <<>> /\ "at" \in DOMAIN d /\ d.at = "dispatch" /\ ~Evaluating(stack, Len(stack))
  BY <1>0, TopIsAt, OtherOnTop
<1>3. q.on \in Node
  <2>1. DispatchFrame(Top)
    BY <1>2, TopIsFrame DEF Frame, EventFrame
  <2> QED BY <1>0, <2>1, EntriesAre DEF DispatchFrame
<1>4. Frame(dom, left) /\ left.at = "dispatch"
  <2>1. DispatchFrame(d) /\ Entries(r)
    <3>1. DispatchFrame(Top)
      BY <1>2, TopIsFrame DEF Frame, EventFrame
    <3> QED BY <1>0, <3>1, EntriesAre DEF DispatchFrame
  <2> HIDE DEF d, r, x
  <2>2. DispatchFrame(left)
    BY <2>1 DEF DispatchFrame
  <2> QED BY <2>2 DEF Frame, DispatchFrame
<1> HIDE DEF left
<1>5. Frames(dom, f) /\ IsSeq(f) /\ Fewer(stack, f)
  BY <1>2, <1>4, TopChanged, WithTopIsSeq
<1>6. \A i \in DOMAIN f : "at" \in DOMAIN f[i]
  <2>1. \A i \in DOMAIN f : Frame(dom, f[i])
    BY <1>5, FramesAre
  <2> QED BY <2>1 DEF Frame, EventFrame, DispatchFrame
<1> HIDE DEF f, below, l
<1> DEFINE u == [f EXCEPT ![below] = logged]
<1>7. Fewer(stack, u) /\ IsSeq(u)
  <2>1. Fewer(stack, u)
    BY <1>5, <1>6, FewerMarked
  <2>2. PICK S : f \in Seq(S)
    BY <1>5 DEF IsSeq
  <2> HIDE DEF logged
  <2>3. IsSeq(u)
    BY <2>2, ChangedIsSeq
  <2> QED BY <2>1, <2>3
<1> HIDE DEF u, logged
<1>8. stack' = Append(u, Code) \/ stack' = f
  BY <1>1 DEF u
<1>9. Fewer(stack, stack')
  BY <1>5, <1>7, <1>8, PushedIsSeq DEF Code
<1>10. Held(E, calls) /\ Follows(dom, E)
  BY <1>0, <1>3, OneFirstIsHeld, OneFirstFollows
<1> HIDE DEF E, v
<1>11. Follows(E, [E EXCEPT !.entered = v])
  BY <1>10, PointerFollows DEF Follows
<1>12. Follows(dom, [E EXCEPT !.entered = v]) /\ Follows(dom, dom)
  BY <1>0, <1>10, <1>11, FollowsTwice, StaysFollows
<1> DEFINE F == [E EXCEPT !.entered = v]
<1>13. dom' = F \/ dom' = dom
  BY <1>1
<1> HIDE DEF F
<1>14. Follows(dom, dom')
  BY <1>12, <1>13 DEF F
<1> QED BY <1>2, <1>9, <1>14 DEF Quietly

LEMMA DefaultIsQuiet ==
  ASSUME Inv, Tended, Rooted(dom), DefaultAction
  PROVE  Quietly
<1> DEFINE e == Top
           f == [e EXCEPT !["ended"] = TRUE]
           next == Event("default", e.type, e.target,
                         IF e.type = "focus" THEN FocusPath(e.target)
                         ELSE Route(dom, e.target, e.type))
<1>1. TopIs("event") /\ dom' = dom /\ stack' \in {Append(WithTop(f), next), WithTop(f)}
  BY DEF DefaultAction
<1>2. next.at = "event"
  BY EventIsEvent
<1>3. "at" \in DOMAIN e /\ e.at = "event"
  BY <1>1, TopIsAt
<1> HIDE DEF e, next
<1>4. f.at = "event"
  BY <1>3
<1> HIDE DEF f
<1>5. Follows(dom, dom')
  BY <1>1, StaysFollows DEF Tended
<1> QED BY <1>1, <1>2, <1>4, <1>5, GoesOn

LEMMA RestIsQuiet ==
  ASSUME Inv, Tended, Rooted(dom),
         \/ \E answer \in {"go", "false", "stop"} : Return(answer)
         \/ Dispatch \/ CallHandler \/ EndDispatch \/ DefaultAction \/ EndEvent
  PROVE  Quietly
<1>1. CASE EndDispatch \/ EndEvent
  <2>1. /\ stack' = Popped /\ dom' = dom /\ \E at \in {"dispatch", "event"} : TopIs(at)
    BY <1>1 DEF EndDispatch, EndEvent
  <2>2. PICK at \in {"dispatch", "event"} : TopIs(at)
    BY <2>1
  <2>3. ~Evaluating(stack, Len(stack)) /\ Fewer(stack, Popped) /\ Follows(dom, dom)
    BY <2>2, TopIsAt, OtherOnTop, StackIsSeq, StaysFollows DEF Tended
  <2> QED BY <2>1, <2>3 DEF Quietly
<1> QED BY <1>1, ReturnIsQuiet, DispatchIsQuiet, HandlerIsQuiet, DefaultIsQuiet

-----------------------------------------------------------------------------
(* Steps that evaluate, or find something to evaluate *)

\* The content is in place: its scripts are in the page, or none of them is.
LEMMA PlacedScripts ==
  ASSUME NEW D, NEW E, NEW c, Held(D, c), OnceRun(D), Rooted(D), NEW n \in D.made,
         Tree(E), Placed(D, E, n)
  PROVE  LET S == Scripts(D, n)
         IN /\ Awaiting(E, S) /\ (Known(E, S) \/ Idle(E, S))
            /\ \A s \in S : Contained(D, s) => Sure(E, s)
<1> DEFINE S == Scripts(D, n)
<1>0. Follows(D, E) /\ Leaves(D, E) /\ D.made \subseteq E.made /\ Rooted(E)
  BY DEF Placed, Follows
<1>1. \A s \in S : s \in D.made /\ s \in Node /\ IsScript(D, s) /\ s \in GetAll(D, n)
  BY DEF Scripts, GetAll, Held, Tree
<1>2. \A s \in S : Contained(D, s) => Sure(E, s)
  BY DEF Placed, Marked, Sure
<1>3. ASSUME NEW s \in S
      PROVE  s \in E.made /\ IsScript(E, s) /\ (s \in E.ran => Sure(E, s))
  <2>1. s \in E.made /\ IsScript(E, s)
    BY <1>0, <1>1, <1>3 DEF Leaves
  <2>2. ASSUME s \in E.ran PROVE Sure(E, s)
    <3>1. s \in D.evaled \/ Contained(D, s)
      BY <1>0, <1>1, <1>3, <2>2 DEF Leaves, OnceRun
    <3>2. s \in D.evaled => Sure(E, s)
      BY <1>0, <1>1, <1>3, SureStays DEF Sure
    <3> QED BY <1>2, <1>3, <3>1, <3>2
  <2> QED BY <2>1, <2>2
<1>4. \A s \in S : Contained(E, s) <=> Contained(E, n)
  <2>1. \A s \in S : n \in Ancestors(E, s)
    BY <1>1, BelowStays DEF Placed
  <2>2. n \in Node
    BY DEF Held, Tree
  <2> HIDE DEF S
  <2> QED BY <1>0, <1>1, <2>1, <2>2, RootAbove
<1> HIDE DEF S
<1>5. Awaiting(E, S) /\ (Known(E, S) \/ Idle(E, S))
  BY <1>3, <1>4 DEF Awaiting, Known, Idle
<1> QED BY <1>2, <1>5 DEF S

LEMMA InsertedScripts ==
  ASSUME Tended, ScriptInv, InCode, NEW D, Held(D, calls), Follows(dom, D),
         NEW n \in D.made, NEW E, Held(E, calls), Placed(D, E, n), dom' = Moved(E),
         stack' = Pushed(Evaluation(Scripts(D, n)))
  PROVE  ScriptInv'
<1> DEFINE S == Scripts(D, n)
           k == Len(stack) + 1
           f == Evaluation(S)
<1>0. Tree(E) /\ DOMAIN E = Fields /\ OnceRun(D) /\ Rooted(D)
  BY OnceRunStays DEF Held, ScriptInv, Follows
<1>1. Placed(D, dom', n) /\ Tree(dom')
  <2>1. Held(dom', calls)
    BY MovedIsHeld
  <2>2. Follows(D, dom')
    BY MovedFollows DEF Placed
  <2>3. /\ dom'.parent = E.parent /\ dom'.evaled = E.evaled /\ dom'.upset = E.upset
        /\ dom'.ran = E.ran
    BY <1>0 DEF Moved, Fields
  <2>4. \A s : Marked(E, s) => Marked(dom', s)
    BY <2>3 DEF Marked
  <2>5. \A m \in GetAll(D, n) \ {n} : dom'.parent[m] = D.parent[m]
    BY <2>3 DEF Placed
  <2>6. \A s \in S : Contained(D, s) => Marked(dom', s)
    BY <2>4 DEF Placed
  <2>7. Tree(dom')
    BY <2>1 DEF Held
  <2> QED BY <2>2, <2>5, <2>6, <2>7 DEF Placed
<1>2. Follows(dom, dom') /\ Follows(D, dom')
  BY <1>1, FollowsTwice DEF Placed
<1>3. /\ Awaiting(dom', S) /\ (Known(dom', S) \/ Idle(dom', S))
      /\ \A s \in S : Contained(D, s) => Sure(dom', s)
  BY <1>0, <1>1, PlacedScripts
<1> HIDE DEF S
<1>4. /\ f.at = "eval" /\ f.scripts = S /\ "scripts" \in DOMAIN f
  BY DEF Evaluation
<1> HIDE DEF f
<1>5. /\ Len(stack') = k /\ k \in DOMAIN stack' /\ stack'[k] = f
      /\ \A i \in DOMAIN stack' : i = k \/ (i \in DOMAIN stack /\ stack'[i] = stack[i])
      /\ k \notin DOMAIN stack
  <2>1. PICK Q : stack \in Seq(Q)
    BY StackIsSeq DEF IsSeq
  <2>2. stack' = Append(stack, f)
    BY DEF Pushed, f, S
  <2>3. /\ Len(stack) \in Nat /\ DOMAIN stack = 1..Len(stack)
        /\ DOMAIN stack' = 1..(Len(stack) + 1)
        /\ \A i \in 1..Len(stack) : stack'[i] = stack[i]
        /\ stack'[Len(stack) + 1] = f /\ Len(stack') = Len(stack) + 1
    BY <2>1, <2>2
  <2> QED BY <2>3
<1> HIDE DEF k
<1>6. \A i : Evaluating(stack, i) =>
        /\ "scripts" \in DOMAIN stack[i]
        /\ Awaiting(dom, stack[i].scripts) /\ Known(dom, stack[i].scripts)
  BY CodeOnTop DEF ScriptInv
<1>7. \A i : Evaluating(stack', i) => i = k \/ (Evaluating(stack, i) /\ stack'[i] = stack[i])
  BY <1>5 DEF Evaluating
<1>8. ASSUME NEW i, Evaluating(stack', i)
      PROVE  /\ "scripts" \in DOMAIN stack'[i]
             /\ Awaiting(dom', stack'[i].scripts)
             /\ \/ Known(dom', stack'[i].scripts)
                \/ i = Len(stack') /\ Idle(dom', stack'[i].scripts)
  <2>1. CASE i = k
    BY <1>3, <1>4, <1>5, <2>1
  <2>2. CASE Evaluating(stack, i) /\ stack'[i] = stack[i]
    BY <1>2, <1>6, <2>2, SureStays
  <2> QED BY <1>7, <1>8, <2>1, <2>2
<1>9. ASSUME NEW i, Evaluating(stack, i), NEW s \in stack[i].scripts \cap S
      PROVE  Sure(dom', s)
  <2>1. /\ s \in dom.made /\ IsScript(dom, s) /\ (Sure(dom, s) \/ Contained(dom, s))
    BY <1>6, <1>9 DEF Awaiting, Known
  <2>2. Sure(dom, s) => Sure(dom', s)
    BY <1>2, <2>1, SureStays
  <2>3. Contained(dom, s) => Contained(D, s) \/ Sure(D, s)
    BY <2>1 DEF Follows, Leaves, Marked, Sure
  <2>4. s \in D.made
    BY <2>1 DEF Follows
  <2>5. Sure(D, s) => Sure(dom', s)
    BY <1>2, <2>4, SureStays
  <2> QED BY <1>3, <1>9, <2>1, <2>2, <2>3, <2>5
<1>10. ASSUME NEW i, NEW j, i # j, Evaluating(stack', i), Evaluating(stack', j),
              NEW s \in stack'[i].scripts \cap stack'[j].scripts
       PROVE  Sure(dom', s)
  <2>1. CASE i = k
    <3>1. Evaluating(stack, j) /\ stack'[j] = stack[j]
      BY <1>7, <1>10, <2>1
    <3> QED BY <1>4, <1>5, <1>9, <1>10, <2>1, <3>1
  <2>2. CASE j = k
    <3>1. Evaluating(stack, i) /\ stack'[i] = stack[i]
      BY <1>7, <1>10, <2>2
    <3> QED BY <1>4, <1>5, <1>9, <1>10, <2>2, <3>1
  <2>3. CASE i # k /\ j # k
    <3>1. /\ Evaluating(stack, i) /\ stack'[i] = stack[i]
          /\ Evaluating(stack, j) /\ stack'[j] = stack[j]
      BY <1>7, <1>10, <2>3
    <3>2. Sure(dom, s) /\ s \in dom.made
      BY <1>6, <1>10, <3>1 DEF ScriptInv, Awaiting
    <3> QED BY <1>2, <3>2, SureStays
  <2> QED BY <2>1, <2>2, <2>3
<1>11. Rooted(dom') /\ OnceRun(dom')
  BY <1>2, OnceRunStays DEF ScriptInv, Follows
<1> QED BY <1>8, <1>10, <1>11 DEF ScriptInv

LEMMA InsertKeepsScripts ==
  ASSUME Inv, Tended, ScriptInv, NEW how \in How, NEW targets \in Targets,
         NEW n \in MayHold, CallInsert(how, targets, n)
  PROVE  ScriptInv'
<1>0. /\ InCode /\ Held(dom, calls) /\ Rooted(dom) /\ n \in dom.made /\ n \in Node
      /\ dom.made \subseteq Node /\ MayHold \subseteq dom.made /\ n # Document
  BY HeldAre DEF Tended, CallInsert, Call, ScriptInv
<1>1. /\ Len(targets) \in {1, 2} /\ DOMAIN targets = 1..Len(targets)
      /\ \A i \in 1..Len(targets) : targets[i] \in MayHold
  <2>1. ASSUME NEW m \in MayHold, targets = <<m>>
        PROVE  /\ Len(targets) \in {1, 2} /\ DOMAIN targets = 1..Len(targets)
               /\ \A i \in 1..Len(targets) : targets[i] \in MayHold
    BY <2>1
  <2>2. ASSUME NEW a \in MayHold, NEW b \in MayHold, targets = <<a, b>>
        PROVE  /\ Len(targets) \in {1, 2} /\ DOMAIN targets = 1..Len(targets)
               /\ \A i \in 1..Len(targets) : targets[i] \in MayHold
    BY <2>2
  <2>3. \/ \E m \in MayHold : targets = <<m>>
        \/ \E a, b \in MayHold : targets = <<a, b>>
    BY DEF Targets
  <2> QED BY <2>1, <2>2, <2>3
<1>2. CASE \E i \in DOMAIN targets : targets[i] = n
  <2> DEFINE E == Ignored(dom, how, targets, n)
  <2>1. dom' = Moved(E) /\ stack' = stack
    BY <1>2 DEF CallInsert
  <2>2. \A i \in DOMAIN targets : targets[i] \in Node
    BY <1>0, <1>1
  <2>3. Held(E, calls) /\ Follows(dom, E)
    BY <1>0, <2>2, IgnoredIsHeld, IgnoredFollows
  <2> HIDE DEF E
  <2>4. Follows(dom, dom')
    BY <2>1, <2>3, MovedFollows
  <2> QED BY <1>0, <2>1, <2>4, FewerSame, CodeOnTop, QuietScripts
<1>3. CASE ~ \E i \in DOMAIN targets : targets[i] = n
  <2> DEFINE F == DomManip(dom, how, targets, n)
             t == targets[Len(targets)]
             U == Ancestors(dom, t)
  <2>1. /\ dom' = Moved(F) /\ stack' = Pushed(Evaluation(Scripts(dom, n)))
        /\ Len(targets) = 2 => CanCopy(dom, n)
        /\ \A i \in DOMAIN targets : targets[i] \notin GetAll(dom, n)
    BY <1>3 DEF CallInsert
  <2>2. Len(targets) \in DOMAIN targets
    BY <1>1
  <2>3. t \in dom.made /\ U \in SUBSET Node /\ t \in U /\ UpTo(dom, U) /\ n \notin U
    <3>1. t \in dom.made /\ t \notin GetAll(dom, n)
      BY <1>0, <1>1, <2>1, <2>2
    <3> HIDE DEF t
    <3> QED BY <1>0, <3>1, AboveIsApart
  <2> HIDE DEF U
  <2>4. Held(F, calls) /\ Placed(dom, F, n)
    <3>1. CASE Len(targets) = 1
      <4>1. targets[1] \in dom.made /\ targets[1] \notin GetAll(dom, n)
        BY <1>0, <1>1, <2>1, <3>1
      <4>2. Held(F, calls)
        BY <1>0, <2>3, <3>1, InsertOneIsHeld
      <4> QED BY <1>0, <3>1, <4>1, <4>2, InsertOneFollows
    <3>2. CASE Len(targets) = 2
      <4>1. targets[1] \in dom.made /\ targets[2] \in dom.made /\ CanCopy(dom, n)
            /\ t = targets[2] /\ Len(targets) # 1
            /\ targets[1] \notin GetAll(dom, n) /\ targets[2] \notin GetAll(dom, n)
        BY <1>0, <1>1, <2>1, <3>2
      <4>2. Held(F, calls)
        BY <1>0, <2>3, <4>1, InsertTwoIsHeld
      <4> QED BY <1>0, <4>1, <4>2, InsertTwoFollows
    <3> QED BY <1>1, <3>1, <3>2
  <2>5. Follows(dom, dom)
    BY <1>0, StaysFollows
  <2> HIDE DEF F
  <2> QED BY <1>0, <2>1, <2>4, <2>5, InsertedScripts
<1> QED BY <1>2, <1>3

LEMMA HtmlKeepsScripts ==
  ASSUME Inv, Tended, ScriptInv, NEW n \in MayHold, NEW m \in MayHold, CallHtml(n, m)
  PROVE  ScriptInv'
<1> DEFINE D == Empty(dom, n)
           F == DomManip(D, "append", <<n>>, m)
           U == Ancestors(dom, n)
<1>0. /\ n \in dom.made /\ n \in Node /\ m \in dom.made /\ m \in Node
      /\ dom.made \subseteq Node /\ Held(dom, calls) /\ Rooted(dom) /\ Tree(dom)
  BY HeldAre DEF Tended, ScriptInv
<1>1. /\ InCode /\ n \notin GetAll(dom, m) /\ dom' = Moved(F) /\ m # Document
      /\ stack' = Pushed(Evaluation(Scripts(D, m)))
  BY DEF CallHtml, Call
<1>2. /\ Held(D, calls) /\ D.made = dom.made
      /\ \A V \in SUBSET Node : UpTo(dom, V) => UpTo(D, V)
  BY <1>0, EmptyIsHeld
<1>3. U \in SUBSET Node /\ n \in U /\ UpTo(dom, U) /\ m \notin U
  BY <1>0, <1>1, AboveIsApart
<1>4. Follows(dom, D)
  BY <1>0, EmptyFollows
<1> HIDE DEF D, U
<1>5. UpTo(D, U) /\ Len(<<n>>) = 1 /\ <<n>>[1] = n /\ "append" \in How
  BY <1>2, <1>3 DEF How
<1>6. Held(F, calls)
  BY <1>0, <1>2, <1>3, <1>5, InsertOneIsHeld
<1>7. n \notin GetAll(D, m)
  <2>1. Ancestors(D, n) \subseteq U
    BY <1>0, <1>2, <1>3, <1>5, AncestorsLeast DEF Held
  <2> QED BY <1>3, <2>1 DEF GetAll
<1>8. Placed(D, F, m)
  BY <1>0, <1>1, <1>2, <1>4, <1>5, <1>7, InsertOneFollows DEF Follows
<1> HIDE DEF F
<1> QED BY <1>0, <1>1, <1>2, <1>4, <1>6, <1>8, InsertedScripts

LEMMA AppendIs ==
  ASSUME NEW S, NEW t \in Seq(S), NEW f
  PROVE  LET u == Append(t, f)
         IN /\ u \in Seq(S \cup {f}) /\ Len(u) = Len(t) + 1 /\ DOMAIN u = 1..(Len(t) + 1)
            /\ u[Len(t) + 1] = f /\ \A i \in 1..Len(t) : u[i] = t[i]
<1>1. t \in Seq(S \cup {f})
  OBVIOUS
<1>2. Append(t, f) \in Seq(S \cup {f})
  BY <1>1
<1> QED BY <1>2

\* What one evaluation does to those under way.
LEMMA EvaluateSteps ==
  ASSUME Tended, ScriptInv, Evaluate
  PROVE  LET k == Len(stack)
         IN /\ Evaluating(stack, k) /\ Top = stack[k]
            /\ \/ /\ dom' = dom /\ Len(stack') <= k
                  /\ \A i : Evaluating(stack', i) =>
                       i # k /\ Evaluating(stack, i) /\ stack'[i] = stack[i]
               \/ \E s \in Top.scripts :
                    /\ \/ s \in ToEvaluate(Top.scripts) /\ dom' = [dom EXCEPT !.ran = @ \cup {s}]
                       \/ dom' = dom /\ Len(stack') = k
                    /\ \A i : Evaluating(stack', i) =>
                         /\ Evaluating(stack, i) /\ "scripts" \in DOMAIN stack'[i]
                         /\ stack'[i].scripts = stack[i].scripts \ (IF i = k THEN {s} ELSE {})
                    /\ stack'[k].scripts = Top.scripts \ {s}
<1> DEFINE k == Len(stack)
<1>0. TopIs("eval")
  BY DEF Evaluate
<1>1. /\ stack # <<>> /\ "at" \in DOMAIN Top /\ Top.at = "eval"
      /\ k \in Nat \ {0} /\ DOMAIN stack = 1..k /\ Top = stack[k]
  BY <1>0, TopIsAt, TopIsFrame, FramesAre DEF Top, Tended
<1>2. Evaluating(stack, k) /\ "scripts" \in DOMAIN Top
  BY <1>1 DEF Evaluating, ScriptInv
<1>3. PICK Q : stack \in Seq(Q)
  BY StackIsSeq DEF IsSeq
<1>4. /\ Len(Popped) = k - 1 /\ DOMAIN Popped = 1..(k - 1)
      /\ \A i \in 1..(k - 1) : Popped[i] = stack[i]
      /\ Popped \in Seq(Q)
  <2>1. \A i \in 1..(k - 1) : stack[i] \in Q
    BY <1>1, <1>3
  <2> QED BY <1>1, <1>3, <2>1 DEF Popped
<1>5. CASE stack' = Popped /\ dom' = dom
  <2>1. Len(stack') <= k
    BY <1>1, <1>4, <1>5
  <2>2. \A i : Evaluating(stack', i) => i # k /\ Evaluating(stack, i) /\ stack'[i] = stack[i]
    BY <1>1, <1>4, <1>5 DEF Evaluating
  <2> QED BY <1>1, <1>2, <1>5, <2>1, <2>2
<1>6. ASSUME NEW s \in Top.scripts,
             dom' = IF s \in ToEvaluate(Top.scripts) THEN [dom EXCEPT !.ran = @ \cup {s}] ELSE dom,
             LET f == WithTop([Top EXCEPT !["scripts"] = @ \ {s}])
             IN stack' = IF s \in ToEvaluate(Top.scripts) THEN Append(f, Code) ELSE f
      PROVE  /\ \/ s \in ToEvaluate(Top.scripts) /\ dom' = [dom EXCEPT !.ran = @ \cup {s}]
                \/ dom' = dom /\ Len(stack') = k
             /\ \A i : Evaluating(stack', i) =>
                  /\ Evaluating(stack, i) /\ "scripts" \in DOMAIN stack'[i]
                  /\ stack'[i].scripts = stack[i].scripts \ (IF i = k THEN {s} ELSE {})
             /\ stack'[k].scripts = Top.scripts \ {s}
  <2> DEFINE S == Top.scripts
             R == S \ {s}
             g == [Top EXCEPT !["scripts"] = R]
             f == WithTop(g)
  <2>1. "scripts" \in DOMAIN g /\ g.scripts = R /\ g.at = "eval"
    BY <1>1, <1>2
  <2>2. stack' = IF s \in ToEvaluate(S) THEN Append(f, Code) ELSE f
    BY <1>6
  <2> HIDE DEF g
  <2>3. /\ f \in Seq(Q \cup {g}) /\ Len(f) = k /\ DOMAIN f = 1..k /\ f[k] = g
        /\ \A i \in 1..(k - 1) : f[i] = stack[i]
    <3> DEFINE p == Popped
    <3>1. Len(p) = k - 1 /\ p \in Seq(Q)
      BY <1>4
    <3>2. f = Append(p, g)
      BY DEF WithTop
    <3>3. \A i \in 1..(k - 1) : p[i] = stack[i]
      BY <1>4
    <3>4. k - 1 + 1 = k /\ k \in Nat
      BY <1>1
    <3> HIDE DEF p, f, k
    <3>5. /\ f \in Seq(Q \cup {g}) /\ Len(f) = Len(p) + 1 /\ DOMAIN f = 1..(Len(p) + 1)
          /\ f[Len(p) + 1] = g /\ \A i \in 1..Len(p) : f[i] = p[i]
      BY <3>1, <3>2, AppendIs
    <3> QED BY <3>1, <3>3, <3>4, <3>5
  <2> HIDE DEF f
  <2>4. /\ \/ stack' = f
           \/ DOMAIN stack' = 1..(k + 1) /\ stack'[k + 1] = Code
        /\ \A i \in 1..k : stack'[i] = f[i]
    <3> DEFINE u == Append(f, Code)
    <3>1. DOMAIN u = 1..(k + 1) /\ u[k + 1] = Code /\ \A i \in 1..k : u[i] = f[i]
      BY <2>3
    <3> HIDE DEF u
    <3> QED BY <2>2, <3>1 DEF u
  <2>5. Code.at # "eval"
    BY DEF Code
  <2>6. \A i : Evaluating(stack', i) => i \in 1..k
    BY <1>1, <2>3, <2>4, <2>5 DEF Evaluating
  <2>7. ASSUME NEW i, Evaluating(stack', i)
        PROVE  /\ Evaluating(stack, i) /\ "scripts" \in DOMAIN stack'[i]
               /\ stack'[i].scripts = stack[i].scripts \ (IF i = k THEN {s} ELSE {})
    <3>1. i \in 1..k /\ stack'[i] = f[i] /\ stack'[i].at = "eval"
      BY <2>4, <2>6, <2>7 DEF Evaluating
    <3>2. CASE i = k
      <4>1. stack'[i] = g /\ Evaluating(stack, k)
        BY <1>2, <2>3, <3>1, <3>2
      <4>2. g.scripts = stack[i].scripts \ (IF i = k THEN {s} ELSE {})
        <5>1. stack[i].scripts = S
          BY <1>1, <3>2
        <5> HIDE DEF S, k
        <5> QED BY <2>1, <3>2, <5>1
      <4>3. Evaluating(stack, i)
        BY <3>2, <4>1
      <4>4. "scripts" \in DOMAIN stack'[i] /\ stack'[i].scripts = g.scripts
        BY <2>1, <4>1
      <4> HIDE DEF k
      <4>5. stack'[i].scripts = stack[i].scripts \ (IF i = k THEN {s} ELSE {})
        BY Zenon, <4>2, <4>4
      <4> QED BY Zenon, <4>3, <4>4, <4>5
    <3>3. CASE i # k
      <4>1. stack'[i] = stack[i]
        <5>1. k \in Nat \ {0}
          BY <1>1
        <5> HIDE DEF k
        <5>2. i \in 1..(k - 1)
          BY <3>1, <3>3, <5>1
        <5> HIDE DEF f
        <5>3. f[i] = stack[i]
          BY <2>3, <5>2
        <5> QED BY <3>1, <5>3
      <4>2. Evaluating(stack, i)
        BY <1>1, <3>1, <4>1 DEF Evaluating
      <4>3. "scripts" \in DOMAIN stack[i]
        BY <4>2 DEF ScriptInv
      <4>4. stack[i].scripts = stack[i].scripts \ {}
        OBVIOUS
      <4> QED BY <3>3, <4>1, <4>2, <4>3, <4>4
    <3> QED BY <3>2, <3>3
  <2>8. stack'[k].scripts = R
    BY <1>1, <2>1, <2>3, <2>4
  <2>9. \/ s \in ToEvaluate(S) /\ dom' = [dom EXCEPT !.ran = @ \cup {s}]
        \/ dom' = dom /\ Len(stack') = k
    <3>1. CASE s \in ToEvaluate(S)
      BY <1>6, <3>1
    <3>2. CASE s \notin ToEvaluate(S)
      <4>1. stack' = f /\ dom' = dom
        BY <1>6, <2>2, <3>2
      <4> QED BY <2>3, <4>1
    <3> QED BY <3>1, <3>2
  <2> QED BY <2>7, <2>8, <2>9
<1>7. \/ stack' = Popped /\ dom' = dom
      \/ \E s \in Top.scripts :
           /\ dom' = IF s \in ToEvaluate(Top.scripts) THEN [dom EXCEPT !.ran = @ \cup {s}]
                     ELSE dom
           /\ LET f == WithTop([Top EXCEPT !["scripts"] = @ \ {s}])
              IN stack' = IF s \in ToEvaluate(Top.scripts) THEN Append(f, Code) ELSE f
  BY DEF Evaluate
<1> QED BY <1>1, <1>2, <1>5, <1>6, <1>7

LEMMA EvaluateKeepsScripts ==
  ASSUME Tended, ScriptInv, Evaluate
  PROVE  ScriptInv'
<1> DEFINE k == Len(stack)
<1>0. /\ Evaluating(stack, k) /\ Top = stack[k] /\ DOMAIN dom = Fields /\ Tree(dom)
      /\ Rooted(dom) /\ OnceRun(dom)
  BY EvaluateSteps DEF Tended, Held, ScriptInv
<1>1. \A i : Evaluating(stack, i) =>
        /\ Awaiting(dom, stack[i].scripts) /\ "scripts" \in DOMAIN stack[i]
        /\ Known(dom, stack[i].scripts) \/ (i = k /\ Idle(dom, stack[i].scripts))
  BY DEF ScriptInv
<1>2. \A i, j : i # j /\ Evaluating(stack, i) /\ Evaluating(stack, j) =>
        \A s \in stack[i].scripts \cap stack[j].scripts : Sure(dom, s)
  BY DEF ScriptInv
<1>3. CASE /\ dom' = dom
           /\ \A i : Evaluating(stack', i) =>
                i # k /\ Evaluating(stack, i) /\ stack'[i] = stack[i]
  BY <1>0, <1>1, <1>2, <1>3 DEF ScriptInv
<1>4. ASSUME NEW s \in Top.scripts,
             \A i : Evaluating(stack', i) =>
               /\ Evaluating(stack, i) /\ "scripts" \in DOMAIN stack'[i]
               /\ stack'[i].scripts = stack[i].scripts \ (IF i = k THEN {s} ELSE {}),
             dom' = dom, Len(stack') = k
      PROVE  ScriptInv'
  <2>1. \A i : Evaluating(stack', i) => stack'[i].scripts \subseteq stack[i].scripts
    BY <1>4
  <2>2. \A i : Evaluating(stack', i) =>
          /\ "scripts" \in DOMAIN stack'[i] /\ Awaiting(dom, stack'[i].scripts)
          /\ Known(dom, stack'[i].scripts) \/ (i = k /\ Idle(dom, stack'[i].scripts))
    BY <1>1, <1>4, <2>1 DEF Awaiting, Known, Idle
  <2>3. \A i, j : i # j /\ Evaluating(stack', i) /\ Evaluating(stack', j) =>
          \A r \in stack'[i].scripts \cap stack'[j].scripts : Sure(dom, r)
    BY <1>2, <1>4, <2>1
  <2> QED BY <1>0, <1>4, <2>2, <2>3 DEF ScriptInv
<1>5. ASSUME NEW s \in Top.scripts,
             \A i : Evaluating(stack', i) =>
               /\ Evaluating(stack, i) /\ "scripts" \in DOMAIN stack'[i]
               /\ stack'[i].scripts = stack[i].scripts \ (IF i = k THEN {s} ELSE {}),
             s \in ToEvaluate(Top.scripts), dom' = [dom EXCEPT !.ran = @ \cup {s}]
      PROVE  ScriptInv'
  <2>1. /\ dom'.made = dom.made /\ dom'.parent = dom.parent /\ dom'.origin = dom.origin
        /\ dom'.evaled = dom.evaled /\ dom'.upset = dom.upset
        /\ dom'.ran = dom.ran \cup {s}
    BY <1>0, <1>5 DEF Fields
  <2>2. /\ \A r : Sure(dom', r) <=> Sure(dom, r)
        /\ \A r : IsScript(dom', r) <=> IsScript(dom, r)
        /\ \A r : Contained(dom', r) <=> Contained(dom, r)
    BY <2>1 DEF Sure, IsScript, Contained, Ancestors, Path
  <2>3. s \notin dom.evaled /\ Contained(dom, s) /\ s \in dom.made /\ IsScript(dom, s)
    BY <1>0, <1>1, <1>5 DEF ToEvaluate, Awaiting
  <2>4. \A i : Evaluating(stack, i) => Known(dom, stack[i].scripts)
    BY <1>0, <1>1, <1>5, <2>3 DEF Idle
  <2>5. \A i : Evaluating(stack', i) /\ s \in stack'[i].scripts => Sure(dom, s)
    BY <1>0, <1>2, <1>5
  <2>6. \A i : Evaluating(stack', i) => stack'[i].scripts \subseteq stack[i].scripts
    BY <1>5
  <2>7. ASSUME NEW i, Evaluating(stack', i)
        PROVE  /\ "scripts" \in DOMAIN stack'[i] /\ Awaiting(dom', stack'[i].scripts)
               /\ Known(dom', stack'[i].scripts)
    <3>1. /\ Evaluating(stack, i) /\ "scripts" \in DOMAIN stack'[i]
          /\ stack'[i].scripts \subseteq stack[i].scripts
          /\ s \in stack'[i].scripts => Sure(dom, s)
      BY <1>5, <2>5, <2>6, <2>7
    <3>2. Awaiting(dom, stack[i].scripts) /\ Known(dom, stack[i].scripts)
      BY <1>1, <2>4, <3>1
    <3>3. Awaiting(dom', stack'[i].scripts)
      BY <2>1, <2>2, <3>1, <3>2 DEF Awaiting
    <3>4. Known(dom', stack'[i].scripts)
      BY <2>2, <3>1, <3>2 DEF Known
    <3> QED BY <3>1, <3>3, <3>4
  <2>8. \A i, j : i # j /\ Evaluating(stack', i) /\ Evaluating(stack', j) =>
          \A r \in stack'[i].scripts \cap stack'[j].scripts : Sure(dom', r)
    BY <1>2, <1>5, <2>2, <2>6
  <2>9. OnceRun(dom')
    BY <1>0, <2>1, <2>2, <2>3 DEF OnceRun
  <2>10. Rooted(dom')
    BY <1>0, <2>1 DEF Rooted
  <2> QED BY <2>7, <2>8, <2>9, <2>10 DEF ScriptInv
<1> QED BY <1>3, <1>4, <1>5, EvaluateSteps

LEMMA InitScripts ==
  ASSUME Init PROVE ScriptInv
<1> DEFINE D == Fresh(page)
<1>1. dom = D /\ page \in Page /\ stack = <<>>
  BY DEF Init
<1>2. Tree(D)
  BY <1>1, FreshIsTree
<1>3. /\ page.parent \in [Node -> (Node \ Spare) \cup {None}]
      /\ page.parent[Document] = None
  BY <1>1, DomAssumption
<1>4. /\ D.parent = page.parent /\ D.made = {Document} \cup Element \cup Script
      /\ D.origin = [n \in Node |-> None]
      /\ \A s \in D.ran : s \in Script /\ (\/ s = Document
                                           \/ page.parent[s] = Document
                                           \/ /\ page.parent[s] # None
                                              /\ page.parent[page.parent[s]] = Document)
  BY DEF Fresh
<1> HIDE DEF D
<1>5. Rooted(D)
  BY <1>3, <1>4 DEF Rooted
<1>6. ASSUME NEW s \in D.ran
      PROVE  s \in D.made /\ IsScript(D, s) /\ Contained(D, s)
  <2>1. s \in Script /\ s \in Node /\ s \in D.made
    BY <1>4 DEF Node
  <2>2. /\ Document \in Ancestors(D, Document) /\ Document \in Node
        /\ \A n \in Node : Ancestors(D, n) = {n} \cup Ancestors(D, D.parent[n])
    BY <1>2, AncestorsUp, DocumentIsNode
  <2>3. Document \in Ancestors(D, s)
    <3>1. CASE page.parent[s] # None /\ page.parent[page.parent[s]] = Document
      <4>1. page.parent[s] \in Node
        BY <1>3, <2>1, <3>1
      <4> QED BY <1>4, <2>1, <2>2, <3>1, <4>1
    <3> QED BY <1>4, <2>1, <2>2, <3>1
  <2> QED BY <2>1, <2>3 DEF IsScript, Contained
<1>7. OnceRun(D)
  BY <1>6 DEF OnceRun
<1>8. \A i : ~Evaluating(stack, i)
  <2> DEFINE s == <<>>
  <2>1. DOMAIN s = {}
    OBVIOUS
  <2> HIDE DEF s
  <2>2. \A i : ~Evaluating(s, i)
    BY <2>1 DEF Evaluating
  <2> QED BY <1>1, <2>2 DEF s
<1> QED BY <1>1, <1>5, <1>7, <1>8 DEF ScriptInv

\* Every step but three kinds is quiet.
LEMMA MostAreQuiet ==
  ASSUME Inv, Tended, Rooted(dom), Next
  PROVE  \/ Quietly \/ Evaluate
         \/ \E how \in How, targets \in Targets, c \in MayHold : CallInsert(how, targets, c)
         \/ \E n, c \in MayHold : CallHtml(n, c)
<1>1. ASSUME NEW n \in MayHold, NEW t \in page.types,
             \/ \E selector, one \in BOOLEAN : CallOn(n, t, selector, one)
             \/ \E selector \in BOOLEAN : CallOff(n, t, selector)
             \/ CallTrigger(n, t) \/ CallTriggerHandler(n, t) \/ UserEvent(n, t)
      PROVE  Quietly
  BY <1>1, EventsAreQuiet, UserIsQuiet
<1>2. ASSUME NEW n \in MayHold, CallOffAll(n) PROVE Quietly
  BY <1>2, OffAllIsQuiet
<1>3. ASSUME NEW n \in MayHold,
             \/ CallRemove(n) \/ CallDetach(n) \/ CallEmpty(n)
             \/ \E withData \in BOOLEAN : CallClone(n, withData)
             \/ CallData(n) \/ CallLooks(n)
             \/ \E c \in Class : CallClasses(n, c)
      PROVE  Quietly
  BY <1>3, TreesAreQuiet
<1>4. CASE \/ \E n \in MayHold : \/ CallQueue(n) \/ CallClearQueue(n) \/ CallDequeue(n)
                                 \/ RunNext(n)
           \/ \E S \in SUBSET MayHold : S # {} /\ CallPromise(S)
  BY <1>4, QueuesAreQuiet
<1>5. CASE \/ \E answer \in {"go", "false", "stop"} : Return(answer)
           \/ Dispatch \/ CallHandler \/ EndDispatch \/ DefaultAction \/ EndEvent
  BY <1>5, RestIsQuiet
<1> QED BY <1>1, <1>2, <1>3, <1>4, <1>5 DEF Next, How

LEMMA StepKeepsScripts ==
  ASSUME Inv, Tended, ScriptInv, [Next]_vars PROVE ScriptInv'
<1>1. CASE UNCHANGED vars
  <2>1. dom' = dom /\ stack' = stack
    BY <1>1 DEF vars
  <2> QED BY <2>1 DEF ScriptInv
<1>2. CASE Next
  <2>1. Rooted(dom)
    BY DEF ScriptInv
  <2>2. Quietly => ScriptInv'
    BY QuietScripts DEF Quietly
  <2> QED BY <1>2, <2>1, <2>2, MostAreQuiet, InsertKeepsScripts, HtmlKeepsScripts,
             EvaluateKeepsScripts
<1> QED BY <1>1, <1>2

LEMMA OnlyOnce ==
  ASSUME Inv, Tended, ScriptInv, [Next]_vars, TopIs("eval"), Len(stack') > Len(stack)
  PROVE  \A s \in Top.scripts \ stack'[Len(stack)].scripts : s \in dom.ran => s \in dom.upset
<1> DEFINE k == Len(stack)
<1>1. k \in Nat \ {0} /\ Evaluating(stack, k) /\ Top = stack[k] /\ Top.at = "eval"
  BY TopIsAt, TopIsFrame, FramesAre DEF Top, Tended, Evaluating
<1>2. Rooted(dom) /\ Awaiting(dom, Top.scripts)
  BY <1>1 DEF ScriptInv
<1>3. CASE UNCHANGED vars
  <2>1. stack' = stack
    BY <1>3 DEF vars
  <2>2. Len(stack') = k
    BY <2>1
  <2> QED BY <1>1, <2>2
<1>4. CASE Next
  <2>1. ~Quietly /\ ~InCode
    BY <1>1, TopIsAt DEF Quietly, InCode
  <2>2. \A use : ~Call(use)
    BY <2>1 DEF Call
  <2>3. /\ \A how, targets, c : ~CallInsert(how, targets, c)
        /\ \A n, c : ~CallHtml(n, c)
    BY <2>2 DEF CallInsert, CallHtml
  <2>4. Evaluate
    BY <1>2, <1>4, <2>1, <2>3, MostAreQuiet
  <2>5. PICK s \in Top.scripts :
          /\ s \in ToEvaluate(Top.scripts)
          /\ stack'[k].scripts = Top.scripts \ {s}
    BY <1>1, <2>4, EvaluateSteps
  <2>6. s \notin dom.evaled
    BY <2>5 DEF ToEvaluate
  <2> QED BY <1>2, <2>5, <2>6 DEF Awaiting, Sure
<1> QED BY <1>3, <1>4

\* A script runs at most once, however often and wherever it is inserted and
\* copied, whatever the scripts that run meanwhile insert, unless its data was
\* cleaned (domManip, buildFragment, clone and cleanData of
\* jquery-3.2.0.slim.js).
THEOREM ScriptsRunAtMostOnce == Spec => ScriptsRunOnce
<1>1. Init => Tended
  BY InitIsTended
<1>2. Inv /\ Tended /\ [Next]_vars => Tended'
  BY StepIsTended
<1>3. Init => ScriptInv
  BY InitScripts
<1>4. Inv /\ Tended /\ ScriptInv /\ [Next]_vars => ScriptInv'
  BY StepKeepsScripts
<1>5. Inv /\ Tended /\ ScriptInv /\ [Next]_vars =>
        [TopIs("eval") /\ Len(stack') > Len(stack) =>
           \A s \in Top.scripts \ stack'[Len(stack)].scripts :
             s \in dom.ran => s \in dom.upset]_vars
  BY OnlyOnce
<1> QED BY <1>1, <1>2, <1>3, <1>4, <1>5, PageInvariant, PTL DEF Spec, ScriptsRunOnce
=============================================================================
