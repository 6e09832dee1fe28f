------------------------------ MODULE Widgets ------------------------------
(***************************************************************************)
(* The list of play-java-forms-example (WidgetController): an ArrayList    *)
(* that requests on several threads add to without a lock.  ArrayList.add  *)
(* of the JDK is modelled in the steps in which it reads and writes the    *)
(* two fields of the list, in both forms the project runs on: Java 8 takes *)
(* the place by writing the size and stores the element after it, later    *)
(* versions store first.  Either may first replace the array by a longer   *)
(* copy.                                                                   *)
(*                                                                         *)
(* Bounds: each of Adder is one form without errors.  Guava gives a list   *)
(* of three a Capacity of eight.  A copy of an array is one step.          *)
(***************************************************************************)
EXTENDS Integers, Sequences, FiniteSets

CONSTANTS Adder, Capacity

\* Forms are told from the first widgets, and from nothing.
ASSUME WidgetAssumption ==
  (\A r \in Adder : r \notin 0..3) /\ Capacity \in Nat /\ Capacity >= 3

VARIABLES jdk,          \* 8, or 9 for all that came later
          arrays,       \* every array there has been; place i is element i - 1
          elementData,  \* which of them is the list's
          size,
          adding,       \* per request: where add is, and its local variables
          met,          \* history: who has met another one in add
          crowded       \* history: adds have met over a full array

widgetVars == <<jdk, arrays, elementData, size, adding, met, crowded>>

\* The three widgets that are there from the beginning.
Data == 1..3

\* Arrays.copyOf: cut, or filled up with null.
Resized(array, length) ==
  [i \in 1..length |-> IF i \in DOMAIN array THEN array[i] ELSE 0]

WidgetInit ==
  /\ jdk \in {8, 9}
  /\ arrays = <<Resized(<<1, 2, 3>>, Capacity)>>
  /\ elementData = 1
  /\ size = 3
  /\ adding = [r \in Adder |-> [at |-> "none", s |-> 0, array |-> 1, length |-> 0]]
  /\ met = {}
  /\ crowded = FALSE

Inside == {r \in Adder : adding[r].at \notin {"none", "added", "failed"}}

\* Java 8 begins with ensureCapacityInternal(size + 1).
createWidget(r) ==
  /\ adding[r].at = "none"
  /\ adding' = [adding EXCEPT ![r].at = IF jdk = 8 THEN "size" ELSE "room"]
  /\ met' = IF Inside = {} THEN met ELSE met \cup Inside \cup {r}
  /\ UNCHANGED <<jdk, arrays, elementData, size, crowded>>

\* minCapacity
ReadSize(r) ==
  /\ adding[r].at = "size"
  /\ adding' = [adding EXCEPT ![r].length = size + 1,
                              ![r].at = IF jdk = 8 THEN "check" ELSE "from"]
  /\ UNCHANGED <<jdk, arrays, elementData, size, met, crowded>>

CheckRoom(r) ==
  /\ adding[r].at = "check"
  /\ adding' = [adding EXCEPT ![r].at =
       IF adding[r].length > Len(arrays[elementData]) THEN "grow" ELSE "room"]
  /\ UNCHANGED <<jdk, arrays, elementData, size, met, crowded>>

\* To write to it, or (from) to copy it.
ReadArray(r) ==
  /\ adding[r].at \in {"room", "from"}
  /\ adding' = [adding EXCEPT ![r].array = elementData, ![r].at =
       IF adding[r].at = "room" THEN "index" ELSE IF jdk = 8 THEN "copy" ELSE "grow"]
  /\ UNCHANGED <<jdk, arrays, elementData, size, met, crowded>>

\* Java 8 has made room before; the later ones call grow() here.
ReadIndex(r) ==
  /\ adding[r].at = "index"
  /\ adding' = [adding EXCEPT ![r].s = size, ![r].at =
       IF jdk = 8 THEN "claim"
       ELSE IF size = Len(arrays[adding[r].array]) THEN "size" ELSE "store"]
  /\ UNCHANGED <<jdk, arrays, elementData, size, met, crowded>>

\* Half as much again, but no less than asked for.
NewLength(length, minCapacity) ==
  IF length + length \div 2 < minCapacity THEN minCapacity ELSE length + length \div 2

ReadLength(r) ==
  /\ adding[r].at = "grow"
  /\ adding' = [adding EXCEPT ![r].at = IF jdk = 8 THEN "from" ELSE "copy",
       ![r].length = NewLength(Len(arrays[elementData]), adding[r].length)]
  /\ UNCHANGED <<jdk, arrays, elementData, size, met, crowded>>

CopyArray(r) ==
  /\ adding[r].at = "copy"
  /\ arrays' = Append(arrays, Resized(arrays[adding[r].array], adding[r].length))
  /\ adding' = [adding EXCEPT ![r].at = "publish", ![r].array = Len(arrays) + 1]
  /\ UNCHANGED <<jdk, elementData, size, met, crowded>>

\* The copy becomes the list's; the later ones go on with it.
Publish(r) ==
  /\ adding[r].at = "publish"
  /\ elementData' = adding[r].array
  /\ adding' = [adding EXCEPT ![r].at = IF jdk = 8 THEN "room" ELSE "store"]
  /\ crowded' = (crowded \/ r \in met)
  /\ UNCHANGED <<jdk, arrays, size, met>>

\* mutant: the size is read again, for its increment
WriteSizeAgain(r) ==
  /\ adding[r].at \in {"claim", "stored"}
  /\ size' = size + 1
  /\ adding' = [adding EXCEPT ![r].at = IF jdk = 8 THEN "store" ELSE "added"]
  /\ UNCHANGED <<jdk, arrays, elementData, met, crowded>>

\* The index that was read, and one: before the store in Java 8, else after it.
WriteSize(r) ==
  /\ adding[r].at \in {"claim", "stored"}
  /\ size' = adding[r].s + 1
  /\ adding' = [adding EXCEPT ![r].at = IF jdk = 8 THEN "store" ELSE "added"]
  /\ UNCHANGED <<jdk, arrays, elementData, met, crowded>>

\* mutant: one place too early
StoreEarly(r) ==
  /\ adding[r].at = "store" /\ adding[r].s \in DOMAIN arrays[adding[r].array]
  /\ arrays' = [arrays EXCEPT ![adding[r].array][adding[r].s] = r]
  /\ adding' = [adding EXCEPT ![r].at = IF jdk = 8 THEN "added" ELSE "stored"]
  /\ UNCHANGED <<jdk, elementData, size, met, crowded>>

Store(r) ==
  /\ adding[r].at = "store" /\ adding[r].s + 1 \in DOMAIN arrays[adding[r].array]
  /\ arrays' = [arrays EXCEPT ![adding[r].array][adding[r].s + 1] = r]
  /\ adding' = [adding EXCEPT ![r].at = IF jdk = 8 THEN "added" ELSE "stored"]
  /\ UNCHANGED <<jdk, elementData, size, met, crowded>>

\* ArrayIndexOutOfBoundsException: others have taken the last room.
OutOfBounds(r) ==
  /\ adding[r].at = "store" /\ adding[r].s + 1 \notin DOMAIN arrays[adding[r].array]
  /\ adding' = [adding EXCEPT ![r].at = "failed"]
  /\ crowded' = TRUE
  /\ UNCHANGED <<jdk, arrays, elementData, size, met>>

WidgetNext ==
  \E r \in Adder :
    \/ createWidget(r) \/ ReadSize(r) \/ CheckRoom(r) \/ ReadArray(r) \/ ReadIndex(r)
    \/ ReadLength(r) \/ CopyArray(r) \/ Publish(r)
    \/ WriteSize(r) \/ Store(r) \/ OutOfBounds(r)

-----------------------------------------------------------------------------
\* Whether this is element i of that array.
Holds(array, i, w) == i + 1 \in DOMAIN arrays[array] /\ arrays[array][i + 1] = w

\* An element that somebody has written.
Written(i) == i + 1 \in DOMAIN arrays[elementData] /\ arrays[elementData][i + 1] # 0

\* What listWidgets shows.
Shown == {w \in Data \cup Adder : \E i \in 0..(size - 1) : Holds(elementData, i, w)}

\* Java 8: an add has taken this place and will write it next.
Pending(i) == jdk = 8 /\ \E r \in Adder : adding[r].at = "store" /\ adding[r].s = i

\* However adds interleave, a page meets no element that is not written (it
\* would fail) but one that an add of Java 8 is about to write - unless adds
\* have met over a full array: one has replaced it after it met another, or
\* found no room in it.  Only then may the list keep a hole.
HolesPass == crowded \/ \A i \in 0..(size - 1) : Written(i) \/ Pending(i)

\* A widget whose add met no other one is shown from then on, whatever
\* others do to the list at the same time, also when they replace the array;
\* the first three always are.
AddedWhenAlone ==
  Data \cup {r \in Adder \ met : adding[r].at = "added"} \subseteq Shown

\* The list survives racing adds, and so do those that did not race.
WidgetsSafe == HolesPass /\ AddedWhenAlone
=============================================================================
