------------------------- MODULE ExcelImportProofs -------------------------
(***************************************************************************)
(* For all sheets, limits and numbers of imports and cancels, however      *)
(* their steps interleave: no row of a sheet is persisted twice, skipped   *)
(* rows are not persisted at all, handled rows are persisted by the end,   *)
(* and an oversized sheet is never persisted in part.  The shared fields   *)
(* play no part in that argument: whatever they hold, a row is in the      *)
(* hands of its listener, in one of its two lists, or saved.               *)
(*                                                                         *)
(* The second half is about an import that no other one overlaps.  There   *)
(* the shared fields are what the listener last made of them, so its       *)
(* counts and its duplicates are exact.                                    *)
(***************************************************************************)
EXTENDS ExcelImport, FiniteSetTheorems, TLAPS

\* The row at hand has been begun and is in no list yet, or is in one.
InHand(i)   == pc[i] \in {"total", "stop", "validate", "add"}
Listed(i)   == pc[i] \in {"get", "set"}
Buffered(i) == validList[i] \cup invalidList[i]

ListenerType ==
    /\ pc \in [Thread -> Place]
    /\ sheet \in [Import -> Sheets]
    /\ row \in [Import -> Nat]
    /\ seenTotal \in [Import -> Nat]
    /\ validList \in [Import -> SUBSET Rows]
    /\ invalidList \in [Import -> SUBSET Rows]
    /\ handled \in [Import -> SUBSET Rows]
    /\ saves \in [Import -> [Rows -> Nat]]

\* Where a listener is in its sheet.
Reach(i) ==
    /\ row[i] <= Len(sheet[i])
    /\ handled[i] \subseteq 1 .. (IF InHand(i) \/ Listed(i) THEN row[i] + 1 ELSE row[i])
    /\ InHand(i) \/ Listed(i) => row[i] < Len(sheet[i]) /\ Current(i) \in handled[i]
    /\ pc[i] \notin Reading \cup {"done"} => row[i] = 0

\* What the listener knows of the size of its sheet.
Size(i) ==
    /\ seenTotal[i] \in {0, Len(sheet[i]) + HeadNum}
    /\ seenTotal[i] = 0 =>
         handled[i] \subseteq (IF pc[i] = "total" THEN {Current(i)} ELSE {})
    /\ pc[i] \in {"validate", "add", "get", "set"} => ~OutOfRange(seenTotal[i])
    /\ pc[i] = "stop" => seenTotal[i] # 0 /\ OutOfRange(seenTotal[i])
    /\ pc[i] \notin Reading \cup {"done"} => seenTotal[i] = 0

Lists(i) ==
    /\ Buffered(i) \subseteq handled[i]
    /\ validList[i] \cap invalidList[i] = {}
    /\ InHand(i) => Current(i) \notin Buffered(i)
    /\ OutOfRange(seenTotal[i]) => Buffered(i) = {}
    /\ pc[i] = "done" => Buffered(i) = {}

\* How often each row has been saved.
Saves(i) ==
    /\ \A n \in Rows : saves[i][n] \in {0, 1}
    /\ \A n \in Rows : n \notin handled[i] \/ n \in Buffered(i) => saves[i][n] = 0
    /\ InHand(i) => saves[i][Current(i)] = 0
    /\ OutOfRange(seenTotal[i]) => \A n \in Rows : saves[i][n] = 0
    /\ ~OutOfRange(seenTotal[i]) =>
         \A n \in handled[i] :
            n \in Buffered(i) \/ (InHand(i) /\ n = Current(i)) \/ saves[i][n] = 1

RowInv(i) == Reach(i) /\ Size(i) /\ Lists(i) /\ Saves(i)
ListenerInv == ListenerType /\ \A i \in Import : RowInv(i)

-----------------------------------------------------------------------------
(* Helpers *)

\* The rows of a sheet are the numbers up to its length.
LEMMA RowsOfSheet ==
    ASSUME ListenerType, NEW i \in Import
    PROVE  /\ Len(sheet[i]) \in Nat
           /\ 1 .. Len(sheet[i]) \subseteq Rows
<1>1. sheet[i] \in Sheets
    BY DEF ListenerType
<1>2. sheet[i] \in Seq([key : Key, correct : BOOLEAN])
    BY <1>1, SheetsAssumption
<1>3. Len(sheet[i]) \in Nat /\ DOMAIN sheet[i] = 1 .. Len(sheet[i])
    BY <1>2
<1>4. QED
    BY <1>1, <1>3 DEF Rows

\* What one listener keeps does not depend on the others.
LEMMA Frame ==
    ASSUME NEW i \in Import, RowInv(i),
           pc'[i] = pc[i], sheet'[i] = sheet[i], row'[i] = row[i],
           seenTotal'[i] = seenTotal[i], validList'[i] = validList[i],
           invalidList'[i] = invalidList[i], handled'[i] = handled[i],
           saves'[i] = saves[i]
    PROVE  RowInv(i)'
<1>1. Reach(i)' BY DEF RowInv, Reach, InHand, Listed, Current
<1>2. Size(i)' BY DEF RowInv, Size, Current, OutOfRange
<1>3. Lists(i)' BY DEF RowInv, Lists, InHand, Current, Buffered, OutOfRange
<1>4. Saves(i)' BY DEF RowInv, Saves, InHand, Current, Buffered, OutOfRange
<1>5. QED BY <1>1, <1>2, <1>3, <1>4 DEF RowInv

\* A step that leaves every listener where it is.
LEMMA FrameAll ==
    ASSUME ListenerInv, ListenerType',
           \A i \in Import : pc'[i] = pc[i],
           UNCHANGED <<sheet, row, seenTotal, validList, invalidList, handled, saves>>
    PROVE  ListenerInv'
<1>1. SUFFICES ASSUME NEW i \in Import PROVE RowInv(i)'
    BY DEF ListenerInv
<1>2. QED BY <1>1, Frame DEF ListenerInv

\* A step of one listener.
LEMMA FrameOthers ==
    ASSUME ListenerInv, ListenerType', NEW i \in Import, RowInv(i)',
           \A j \in Import \ {i} :
              /\ pc'[j] = pc[j] /\ sheet'[j] = sheet[j] /\ row'[j] = row[j]
              /\ seenTotal'[j] = seenTotal[j] /\ validList'[j] = validList[j]
              /\ invalidList'[j] = invalidList[j] /\ handled'[j] = handled[j]
              /\ saves'[j] = saves[j]
    PROVE  ListenerInv'
<1>1. SUFFICES ASSUME NEW j \in Import PROVE RowInv(j)'
    BY DEF ListenerInv
<1>2. CASE j = i BY <1>2
<1>3. CASE j # i
    <2>1. RowInv(j) BY DEF ListenerInv
    <2>2. QED BY <1>3, <2>1, Frame
<1>4. QED BY <1>2, <1>3

-----------------------------------------------------------------------------
(* The steps before and after the rows *)

\* The initial state: nothing is read.
LEMMA InitListeners == Init => ListenerInv
<1> SUFFICES ASSUME Init PROVE ListenerInv OBVIOUS
<1>1. ListenerType
    BY DEF Init, ListenerType, Place, Idle, Thread, Rows
<1>2. ASSUME NEW i \in Import PROVE RowInv(i)
    <2> Len(sheet[i]) \in Nat BY <1>1, RowsOfSheet
    <2> pc[i] = "idle" /\ row[i] = 0 /\ seenTotal[i] = 0 /\ handled[i] = {}
        /\ validList[i] = {} /\ invalidList[i] = {}
        /\ \A n \in Rows : saves[i][n] = 0
        BY DEF Init, Thread
    <2>1. Reach(i) BY DEF Reach, InHand, Listed, Reading
    <2>2. Size(i) BY DEF Size, Reading
    <2>3. Lists(i) BY DEF Lists, InHand, Buffered
    <2>4. Saves(i) BY DEF Saves, InHand, Buffered
    <2>5. QED BY <2>1, <2>2, <2>3, <2>4 DEF RowInv
<1>3. QED BY <1>1, <1>2 DEF ListenerInv

\* Steps of start() that move no listener into its sheet.
LEMMA StartSteps ==
    ASSUME ListenerInv, NEW i \in Import, NEW place \in {"refused", "process", "flag",
             "counters", "unique", "next"},
           pc[i] \notin Reading \cup {"done"}, Goto(i, place),
           UNCHANGED <<sheet, row, seenTotal, validList, invalidList, handled, saves>>
    PROVE  ListenerInv'
<1> USE DEF ListenerInv
<1>1. pc'[i] = place /\ (\A j \in Import \ {i} : pc'[j] = pc[j])
    BY DEF ListenerType, Goto, Thread
<1>2. ListenerType'
    BY DEF ListenerType, Goto, Place, Idle, Reading
<1>3. RowInv(i)'
    <2> Len(sheet[i]) \in Nat BY RowsOfSheet
    <2> row[i] = 0 /\ seenTotal[i] = 0 /\ handled[i] = {} /\ Buffered(i) = {}
        BY DEF RowInv, Reach, Size, Lists, InHand, Listed, Reading
    <2>1. Reach(i)' BY <1>1 DEF Reach, InHand, Listed, Reading
    <2>2. Size(i)' BY <1>1 DEF Size, Reading, OutOfRange
    <2>3. Lists(i)' BY <1>1 DEF Lists, InHand, Buffered, RowInv, OutOfRange
    <2>4. Saves(i)' BY <1>1 DEF Saves, InHand, Buffered, RowInv, OutOfRange
    <2>5. QED BY <2>1, <2>2, <2>3, <2>4 DEF RowInv
<1>4. QED BY <1>1, <1>2, <1>3, FrameOthers

\* Threads of cancels are no listeners.
LEMMA CancelSteps ==
    ASSUME ListenerInv, NEW c \in Cancel, NEW place \in Place, Goto(c, place),
           UNCHANGED <<sheet, row, seenTotal, validList, invalidList, handled, saves>>
    PROVE  ListenerInv'
<1>1. ListenerType'
    BY DEF ListenerInv, ListenerType, Goto
<1>2. \A i \in Import : pc'[i] = pc[i]
    BY RequestsAssumption DEF ListenerInv, ListenerType, Goto, Thread
<1>3. QED BY <1>1, <1>2, FrameAll

-----------------------------------------------------------------------------
(* The steps of invoke() *)

\* A new row: no list and no save knows it yet.
LEMMA InvokeStep ==
    ASSUME ListenerInv, NEW i \in Import, Invoke(i)
    PROVE  ListenerInv'
<1> USE DEF ListenerInv
<1> RowInv(i) OBVIOUS
<1> Len(sheet[i]) \in Nat /\ 1 .. Len(sheet[i]) \subseteq Rows
    BY RowsOfSheet
<1> row[i] \in Nat /\ row[i] < Len(sheet[i]) /\ pc[i] = "next"
    BY DEF Invoke, ListenerType
<1>1. UNCHANGED <<sheet, seenTotal, validList, invalidList, saves>>
    BY DEF Invoke, importVars
<1>2. CASE processing
    <2>1. /\ handled' = [handled EXCEPT ![i] = @ \cup {row[i] + 1}]
          /\ pc' = [pc EXCEPT ![i] = "total"]
          /\ row' = row
        BY <1>2 DEF Invoke, Goto, Current
    <2>2. ListenerType'
        <3>1. pc' \in [Thread -> Place]
            BY <2>1 DEF ListenerType, Place, Reading
        <3>2. row[i] + 1 \in Rows
            OBVIOUS
        <3>3. handled' \in [Import -> SUBSET Rows]
            BY <2>1, <3>2 DEF ListenerType
        <3>4. QED
            BY <1>1, <2>1, <3>1, <3>3 DEF ListenerType
    <2>3. handled'[i] = handled[i] \cup {row[i] + 1} /\ pc'[i] = "total"
        BY <2>1 DEF ListenerType, Thread
    <2>4. Reach(i)'
        BY <1>1, <2>1, <2>3 DEF RowInv, Reach, InHand, Listed, Current, Reading
    <2>5. Size(i)'
        BY <1>1, <2>1, <2>3 DEF RowInv, Size, Current, OutOfRange, Reading
    <2>6. Lists(i)'
        BY <1>1, <2>1, <2>3 DEF RowInv, Reach, Lists, InHand, Listed, Current,
                                Buffered, OutOfRange
    <2>7. Saves(i)'
        BY <1>1, <2>1, <2>3 DEF RowInv, Reach, Saves, InHand, Listed, Current,
                                Buffered, OutOfRange
    <2>8. QED
        BY <1>1, <2>1, <2>2, <2>4, <2>5, <2>6, <2>7, FrameOthers
        DEF RowInv, ListenerType, Thread
<1>3. CASE ~processing
    <2>1. /\ row' = [row EXCEPT ![i] = @ + 1]
          /\ pc' = [pc EXCEPT ![i] = "next"]
          /\ handled' = handled
        BY <1>3 DEF Invoke, InvokeReturns, Goto
    <2>2. ListenerType'
        <3>1. pc' \in [Thread -> Place]
            BY <2>1 DEF ListenerType, Place, Reading
        <3>2. row' \in [Import -> Nat]
            BY <2>1 DEF ListenerType
        <3>3. QED
            BY <1>1, <2>1, <3>1, <3>2 DEF ListenerType
    <2>3. row'[i] = row[i] + 1 /\ pc'[i] = "next"
        BY <2>1 DEF ListenerType, Thread
    <2>4. Reach(i)'
        BY <1>1, <2>1, <2>3 DEF RowInv, Reach, InHand, Listed, Reading
    <2>5. Size(i)'
        BY <1>1, <2>1, <2>3 DEF RowInv, Size, OutOfRange, Reading
    <2>6. Lists(i)'
        BY <1>1, <2>1, <2>3 DEF RowInv, Lists, InHand, Buffered, OutOfRange
    <2>7. Saves(i)'
        BY <1>1, <2>1, <2>3 DEF RowInv, Saves, InHand, Buffered, OutOfRange
    <2>8. QED
        BY <1>1, <2>1, <2>2, <2>4, <2>5, <2>6, <2>7, FrameOthers
        DEF RowInv, ListenerType, Thread
<1>4. QED BY <1>2, <1>3

\* The listener learns the size of its sheet with its first row.
LEMMA TotalStep ==
    ASSUME ListenerInv, NEW i \in Import, ApproximateTotalNum(i)
    PROVE  ListenerInv'
<1> USE DEF ListenerInv
<1> DEFINE total == Len(sheet[i]) + HeadNum
<1> RowInv(i) OBVIOUS
<1> Len(sheet[i]) \in Nat /\ HeadNum \in Nat /\ LimitNum \in Nat
    BY RowsOfSheet, NumbersAssumption
<1> row[i] \in Nat /\ row[i] < Len(sheet[i]) /\ pc[i] = "total"
    BY DEF ApproximateTotalNum, ListenerType, RowInv, Reach, InHand
<1>1. UNCHANGED <<sheet, row, validList, invalidList, saves, handled>>
    BY DEF ApproximateTotalNum, importVars, historyVars
<1>2. seenTotal' = [seenTotal EXCEPT ![i] = total]
    BY DEF ApproximateTotalNum, RowInv, Size, ListenerType
<1>3. seenTotal'[i] = total /\ (\A j \in Import \ {i} : seenTotal'[j] = seenTotal[j])
    BY <1>2 DEF ListenerType
<1>4. pc' = [pc EXCEPT ![i] = IF OutOfRange(total) THEN "stop" ELSE "validate"]
    BY <1>3 DEF ApproximateTotalNum, Goto
<1>5. /\ pc'[i] = (IF OutOfRange(total) THEN "stop" ELSE "validate")
      /\ \A j \in Import \ {i} : pc'[j] = pc[j]
    BY <1>4 DEF ListenerType, Thread
<1>6. ListenerType'
    <2>1. pc' \in [Thread -> Place]
        BY <1>4 DEF ListenerType, Place, Reading
    <2>2. seenTotal' \in [Import -> Nat]
        BY <1>2 DEF ListenerType
    <2>3. QED
        BY <1>1, <2>1, <2>2 DEF ListenerType
<1>7. Reach(i)'
    BY <1>1, <1>5 DEF RowInv, Reach, InHand, Listed, Current, Reading
<1>8. Size(i)'
    BY <1>1, <1>3, <1>5 DEF RowInv, Size, OutOfRange, Reading
<1>9. seenTotal[i] \in {0, total} /\ total # 0 /\ OutOfRange(0)
    BY DEF RowInv, Size, OutOfRange
<1>10. Lists(i)'
    <2>1. CASE seenTotal[i] = 0
        BY <2>1, <1>1, <1>3, <1>5, <1>9 DEF RowInv, Lists, InHand, Current, Buffered
    <2>2. CASE seenTotal[i] = total
        BY <2>2, <1>1, <1>3, <1>5 DEF RowInv, Lists, InHand, Current, Buffered, OutOfRange
    <2>3. QED BY <1>9, <2>1, <2>2
<1>11. Saves(i)'
    <2>1. CASE seenTotal[i] = 0
        BY <2>1, <1>1, <1>3, <1>5, <1>9
        DEF RowInv, Saves, Size, InHand, Current, Buffered, ListenerType
    <2>2. CASE seenTotal[i] = total
        BY <2>2, <1>1, <1>3, <1>5
        DEF RowInv, Saves, InHand, Current, Buffered, OutOfRange
    <2>3. QED BY <1>9, <2>1, <2>2
<1>12. RowInv(i)' BY <1>7, <1>8, <1>10, <1>11 DEF RowInv
<1>13. QED BY <1>1, <1>3, <1>5, <1>6, <1>12, FrameOthers

\* A row out of range is given up.
LEMMA StopStep ==
    ASSUME ListenerInv, NEW i \in Import, Stop(i)
    PROVE  ListenerInv'
<1> USE DEF ListenerInv
<1> RowInv(i) OBVIOUS
<1> Len(sheet[i]) \in Nat BY RowsOfSheet
<1> row[i] \in Nat /\ row[i] < Len(sheet[i]) /\ pc[i] = "stop"
    BY DEF Stop, ListenerType, RowInv, Reach, InHand
<1>1. UNCHANGED <<sheet, seenTotal, validList, invalidList, saves, handled>>
    BY DEF Stop, importVars, historyVars
<1>2. /\ row' = [row EXCEPT ![i] = @ + 1]
      /\ pc' = [pc EXCEPT ![i] = "next"]
    BY DEF Stop, InvokeReturns, Goto
<1>3. /\ row'[i] = row[i] + 1 /\ pc'[i] = "next"
      /\ \A j \in Import \ {i} : pc'[j] = pc[j] /\ row'[j] = row[j]
    BY <1>2 DEF ListenerType, Thread
<1>4. ListenerType'
    <2>1. pc' \in [Thread -> Place]
        BY <1>2 DEF ListenerType, Place, Reading
    <2>2. row' \in [Import -> Nat]
        BY <1>2 DEF ListenerType
    <2>3. QED
        BY <1>1, <2>1, <2>2 DEF ListenerType
<1>5. Reach(i)' BY <1>1, <1>3 DEF RowInv, Reach, InHand, Listed, Reading
<1>6. Size(i)' BY <1>1, <1>3 DEF RowInv, Size, OutOfRange, Reading
<1>7. Lists(i)' BY <1>1, <1>3 DEF RowInv, Lists, InHand, Buffered, OutOfRange
<1>8. Saves(i)' BY <1>1, <1>3 DEF RowInv, Saves, Size, InHand, Buffered, OutOfRange
<1>9. RowInv(i)' BY <1>5, <1>6, <1>7, <1>8 DEF RowInv
<1>10. QED BY <1>1, <1>3, <1>4, <1>9, FrameOthers

\* Steps within the checks of a row, and between its counters.
LEMMA MoveStep ==
    ASSUME ListenerInv, NEW i \in Import, NEW place \in {"add", "get", "set"},
           \/ pc[i] = "validate" /\ place = "add"
           \/ pc[i] \in {"get", "set"} /\ place \in {"get", "set"},
           Goto(i, place),
           UNCHANGED <<sheet, row, seenTotal, validList, invalidList, handled, saves>>
    PROVE  ListenerInv'
<1> USE DEF ListenerInv
<1> RowInv(i) OBVIOUS
<1>1. pc'[i] = place /\ (\A j \in Import \ {i} : pc'[j] = pc[j])
    BY DEF ListenerType, Goto, Thread
<1>2. ListenerType'
    <2>1. pc' \in [Thread -> Place]
        BY DEF ListenerType, Goto, Place, Reading
    <2>2. QED BY <2>1 DEF ListenerType
<1>3. Reach(i)' BY <1>1 DEF RowInv, Reach, InHand, Listed, Current, Reading
<1>4. Size(i)' BY <1>1 DEF RowInv, Size, Current, OutOfRange, Reading
<1>5. Lists(i)' BY <1>1 DEF RowInv, Lists, InHand, Current, Buffered, OutOfRange
<1>6. Saves(i)' BY <1>1 DEF RowInv, Saves, InHand, Current, Buffered, OutOfRange
<1>7. RowInv(i)' BY <1>3, <1>4, <1>5, <1>6 DEF RowInv
<1>8. QED BY <1>1, <1>2, <1>7, FrameOthers

\* The row joins one of the two lists.
LEMMA JoinStep ==
    ASSUME ListenerInv, NEW i \in Import, NEW valid \in BOOLEAN,
           pc[i] \in {"validate", "add"}, Join(i, valid),
           UNCHANGED <<sheet, handled, saves>>
    PROVE  ListenerInv'
<1> USE DEF ListenerInv
<1> DEFINE n == row[i] + 1
<1> RowInv(i) OBVIOUS
<1> Len(sheet[i]) \in Nat /\ 1 .. Len(sheet[i]) \subseteq Rows
    BY RowsOfSheet
<1> row[i] \in Nat /\ row[i] < Len(sheet[i]) /\ n \in handled[i]
    BY DEF ListenerType, RowInv, Reach, InHand, Current
<1>1. UNCHANGED <<row, seenTotal>> /\ pc' = [pc EXCEPT ![i] = "get"]
    BY DEF Join, Goto
<1>2. pc'[i] = "get" /\ (\A j \in Import \ {i} : pc'[j] = pc[j])
    BY <1>1 DEF ListenerType, Thread
<1>3. n \in Rows
    OBVIOUS
<1>4. \/ validList' = [validList EXCEPT ![i] = @ \cup {n}] /\ invalidList' = invalidList
      \/ invalidList' = [invalidList EXCEPT ![i] = @ \cup {n}] /\ validList' = validList
    BY DEF Join, Current
<1>5. /\ \/ validList'[i] = validList[i] \cup {n} /\ invalidList'[i] = invalidList[i]
         \/ invalidList'[i] = invalidList[i] \cup {n} /\ validList'[i] = validList[i]
      /\ \A j \in Import \ {i} :
            validList'[j] = validList[j] /\ invalidList'[j] = invalidList[j]
    BY <1>4 DEF ListenerType
<1>6. ListenerType'
    <2>1. pc' \in [Thread -> Place]
        BY <1>1 DEF ListenerType, Place, Reading
    <2>2. /\ validList[i] \cup {n} \in SUBSET Rows
          /\ invalidList[i] \cup {n} \in SUBSET Rows
        BY <1>3 DEF ListenerType
    <2> HIDE DEF n
    <2>3. validList' \in [Import -> SUBSET Rows]
        BY <1>4, <2>2 DEF ListenerType
    <2>4. invalidList' \in [Import -> SUBSET Rows]
        BY <1>4, <2>2 DEF ListenerType
    <2>5. QED BY <1>1, <2>1, <2>3, <2>4 DEF ListenerType
<1>7. Current(i)' = n /\ Current(i) = n
    BY <1>1 DEF Current
<1>8. Buffered(i)' = Buffered(i) \cup {n} /\ n \notin Buffered(i)
    BY <1>5, <1>7 DEF Buffered, RowInv, Lists, InHand
<1>9. Reach(i)'
    BY <1>1, <1>2, <1>7 DEF RowInv, Reach, InHand, Listed, Reading
<1>10. Size(i)'
    BY <1>1, <1>2, <1>7 DEF RowInv, Size, OutOfRange, Reading
<1>11. Lists(i)'
    <2>1. validList'[i] \cap invalidList'[i] = {}
        BY <1>5, <1>8 DEF RowInv, Lists, Buffered
    <2>2. ~OutOfRange(seenTotal[i])
        BY DEF RowInv, Size
    <2>3. QED
        BY <1>1, <1>2, <1>8, <2>1, <2>2 DEF RowInv, Lists, InHand, OutOfRange
<1>12. Saves(i)'
    BY <1>1, <1>2, <1>7, <1>8 DEF RowInv, Saves, InHand, OutOfRange
<1>13. RowInv(i)' BY <1>9, <1>10, <1>11, <1>12 DEF RowInv
<1>14. QED BY <1>1, <1>2, <1>5, <1>6, <1>13, FrameOthers

-----------------------------------------------------------------------------
(* Flushes *)

\* A flush saves exactly the rows that leave the lists.
LEMMA Flush ==
    ASSUME ListenerInv, NEW i \in Import, NEW size,
           Persist(i, validList[i], invalidList[i], size)
    PROVE  /\ validList' \in [Import -> SUBSET Rows]
           /\ invalidList' \in [Import -> SUBSET Rows]
           /\ saves' \in [Import -> [Rows -> Nat]]
           /\ validList'[i] \subseteq validList[i]
           /\ invalidList'[i] \subseteq invalidList[i]
           /\ validList'[i] = {} \/ ~(Cardinality(validList[i]) >= size)
           /\ invalidList'[i] = {} \/ ~(Cardinality(invalidList[i]) >= size)
           /\ \A n \in Rows : saves'[i][n] =
                IF n \in Buffered(i) \ Buffered(i)' THEN 1 ELSE saves[i][n]
           /\ \A j \in Import \ {i} :
                /\ validList'[j] = validList[j] /\ invalidList'[j] = invalidList[j]
                /\ saves'[j] = saves[j]
<1> USE DEF ListenerInv
<1> DEFINE goes(list) == IF Cardinality(list) >= size THEN list ELSE {}
           keeps(list) == IF Cardinality(list) >= size THEN {} ELSE list
           written == goes(validList[i]) \cup goes(invalidList[i])
           count(n) == saves[i][n] + (IF n \in written THEN 1 ELSE 0)
<1>1. /\ validList' = [validList EXCEPT ![i] = keeps(validList[i])]
      /\ invalidList' = [invalidList EXCEPT ![i] = keeps(invalidList[i])]
      /\ saves' = [saves EXCEPT ![i] = [n \in Rows |-> count(n)]]
    BY DEF Persist, Persisted
<1>2. /\ validList'[i] = keeps(validList[i])
      /\ invalidList'[i] = keeps(invalidList[i])
      /\ \A n \in Rows : saves'[i][n] = count(n)
    BY <1>1 DEF ListenerType
<1>3. \A n \in Rows : count(n) \in Nat
    BY DEF ListenerType
<1>4. written = Buffered(i) \ Buffered(i)'
    BY <1>2 DEF Buffered, RowInv, Lists
<1>5. \A n \in written : saves[i][n] = 0
    <2>1. written \subseteq Buffered(i) /\ Buffered(i) \subseteq Rows
        BY DEF Buffered, ListenerType
    <2>2. QED BY <2>1 DEF RowInv, Saves
<1>6. \A n \in Rows : count(n) = IF n \in written THEN 1 ELSE saves[i][n]
    BY <1>5 DEF ListenerType
<1>7. saves' \in [Import -> [Rows -> Nat]]
    <2> HIDE DEF count
    <2>1. [n \in Rows |-> count(n)] \in [Rows -> Nat] BY <1>3
    <2>2. QED BY <1>1, <2>1 DEF ListenerType
<1>8. validList' \in [Import -> SUBSET Rows] /\ invalidList' \in [Import -> SUBSET Rows]
    BY <1>1 DEF ListenerType
<1>9. \A j \in Import \ {i} :
        /\ validList'[j] = validList[j] /\ invalidList'[j] = invalidList[j]
        /\ saves'[j] = saves[j]
    BY <1>1 DEF ListenerType
<1>10. \A n \in Rows : saves'[i][n] =
         IF n \in Buffered(i) \ Buffered(i)' THEN 1 ELSE saves[i][n]
    <2> HIDE DEF count, written
    <2>1. QED BY <1>2, <1>4, <1>6
<1>11. QED BY <1>2, <1>7, <1>8, <1>9, <1>10

\* The row is done: full lists are flushed.
LEMMA FlushFullStep ==
    ASSUME ListenerInv, NEW i \in Import, pc[i] = "set", InvokeReturns(i),
           Persist(i, validList[i], invalidList[i], BatchNum),
           UNCHANGED <<sheet, seenTotal, handled>>
    PROVE  ListenerInv'
<1> USE DEF ListenerInv
<1> RowInv(i) OBVIOUS
<1> Len(sheet[i]) \in Nat BY RowsOfSheet
<1> row[i] \in Nat /\ row[i] < Len(sheet[i])
    BY DEF ListenerType, RowInv, Reach, Listed
<1>1. row' = [row EXCEPT ![i] = @ + 1] /\ pc' = [pc EXCEPT ![i] = "next"]
    BY DEF InvokeReturns, Goto
<1>2. /\ row'[i] = row[i] + 1 /\ pc'[i] = "next"
      /\ \A j \in Import \ {i} : pc'[j] = pc[j] /\ row'[j] = row[j]
    BY <1>1 DEF ListenerType, Thread
<1>3. ListenerType'
    <2>1. pc' \in [Thread -> Place]
        BY <1>1 DEF ListenerType, Place, Reading
    <2>2. row' \in [Import -> Nat]
        BY <1>1 DEF ListenerType
    <2>3. QED BY <2>1, <2>2, Flush DEF ListenerType
<1>4. /\ validList'[i] \subseteq validList[i]
      /\ invalidList'[i] \subseteq invalidList[i]
      /\ Buffered(i)' \subseteq Buffered(i)
    BY Flush DEF Buffered
<1>5. \A n \in Rows : saves'[i][n] =
         IF n \in Buffered(i) \ Buffered(i)' THEN 1 ELSE saves[i][n]
    BY Flush
<1>6. Reach(i)' BY <1>2 DEF RowInv, Reach, InHand, Listed, Reading
<1>7. Size(i)' BY <1>2 DEF RowInv, Size, OutOfRange, Reading
<1>8. Lists(i)' BY <1>2, <1>4 DEF RowInv, Size, Lists, InHand, OutOfRange
<1>9. Saves(i)'
    <2>1. ~OutOfRange(seenTotal[i]) /\ ~InHand(i) /\ ~InHand(i)'
        BY <1>2 DEF RowInv, Size, InHand
    <2>2. handled[i] \subseteq Rows
        BY DEF ListenerType
    <2>3. QED BY <1>4, <1>5, <2>1, <2>2 DEF RowInv, Saves, Lists, OutOfRange
<1>10. RowInv(i)' BY <1>6, <1>7, <1>8, <1>9 DEF RowInv
<1>11. QED BY <1>2, <1>3, <1>10, Flush, FrameOthers

\* The sheet is done: what is left is flushed.
LEMMA FlushRestStep ==
    ASSUME ListenerInv, NEW i \in Import, AllAnalysed(i)
    PROVE  ListenerInv'
<1> USE DEF ListenerInv
<1> RowInv(i) OBVIOUS
<1> Len(sheet[i]) \in Nat BY RowsOfSheet
<1>1. /\ pc[i] = "next" /\ row[i] = Len(sheet[i])
      /\ Persist(i, validList[i], invalidList[i], 1)
      /\ pc' = [pc EXCEPT ![i] = "done"]
      /\ UNCHANGED <<sheet, row, seenTotal, handled>>
    BY DEF AllAnalysed, Goto, importVars
<1>2. pc'[i] = "done" /\ (\A j \in Import \ {i} : pc'[j] = pc[j])
    BY <1>1 DEF ListenerType, Thread
<1>3. ListenerType'
    <2>1. pc' \in [Thread -> Place]
        BY <1>1 DEF ListenerType, Place, Idle
    <2>2. QED BY <1>1, <2>1, Flush DEF ListenerType
<1>4. ASSUME NEW list, list \subseteq handled[i] PROVE list = {} \/ Cardinality(list) >= 1
    <2>1. handled[i] \subseteq 1 .. row[i] /\ row[i] \in Int
        BY <1>1 DEF RowInv, Reach, InHand, Listed, ListenerType
    <2>2. IsFiniteSet(1 .. row[i])
        BY <2>1, FS_Interval
    <2>3. IsFiniteSet(list)
        BY <1>4, <2>1, <2>2, FS_Subset
    <2>4. QED BY <2>3, FS_EmptySet, FS_CardinalityType
<1>5. validList'[i] = {} /\ invalidList'[i] = {}
    <2>1. validList[i] \subseteq handled[i] /\ invalidList[i] \subseteq handled[i]
        BY DEF RowInv, Lists, Buffered
    <2>2. /\ validList[i] = {} \/ Cardinality(validList[i]) >= 1
          /\ invalidList[i] = {} \/ Cardinality(invalidList[i]) >= 1
        BY <1>4, <2>1
    <2>3. QED BY <1>1, <2>2, Flush
<1>6. Buffered(i)' = {}
    BY <1>5 DEF Buffered
<1>7. \A n \in Rows : saves'[i][n] = IF n \in Buffered(i) THEN 1 ELSE saves[i][n]
    BY <1>1, <1>6, Flush
<1>8. Reach(i)' BY <1>1, <1>2 DEF RowInv, Reach, InHand, Listed, Reading
<1>9. Size(i)' BY <1>1, <1>2 DEF RowInv, Size, OutOfRange, Reading
<1>10. Lists(i)' BY <1>1, <1>2, <1>5, <1>6 DEF RowInv, Lists, InHand, OutOfRange
<1>11. Saves(i)'
    <2>1. ~InHand(i) /\ ~InHand(i)'
        BY <1>1, <1>2 DEF InHand
    <2>2. handled[i] \subseteq Rows
        BY DEF ListenerType
    <2>3. QED BY <1>1, <1>6, <1>7, <2>1, <2>2 DEF RowInv, Saves, Lists, OutOfRange
<1>12. RowInv(i)' BY <1>8, <1>9, <1>10, <1>11 DEF RowInv
<1>13. QED BY <1>1, <1>2, <1>3, <1>12, Flush, FrameOthers

-----------------------------------------------------------------------------
(* Every step *)

LEMMA ListenerStep ==
    ASSUME ListenerInv, [Next]_vars
    PROVE  ListenerInv'
<1>1. CASE UNCHANGED vars
    BY <1>1, FrameAll DEF vars, ListenerInv, ListenerType
<1>3. ASSUME NEW i \in Import, SingleRead(i) PROVE ListenerInv'
    <2> USE DEF importVars, listenerVars, historyVars
    <2>1. CASE Check(i)
        <3>1. /\ pc[i] = "idle" /\ (Goto(i, "refused") \/ Goto(i, "process"))
              /\ UNCHANGED <<sheet, row, seenTotal, validList, invalidList, handled, saves>>
            BY <2>1 DEF Check
        <3>2. QED BY <3>1, StartSteps DEF Reading
    <2>2. CASE SetProcess(i)
        <3>1. /\ pc[i] = "process" /\ Goto(i, "flag")
              /\ UNCHANGED <<sheet, row, seenTotal, validList, invalidList, handled, saves>>
            BY <2>2 DEF SetProcess
        <3>2. QED BY <3>1, StartSteps DEF Reading
    <2>3. CASE SetProcessing(i)
        <3>1. /\ pc[i] = "flag" /\ Goto(i, "counters")
              /\ UNCHANGED <<sheet, row, seenTotal, validList, invalidList, handled, saves>>
            BY <2>3 DEF SetProcessing
        <3>2. QED BY <3>1, StartSteps DEF Reading
    <2>4. CASE InitCounters(i)
        <3>1. /\ pc[i] = "counters" /\ Goto(i, "unique")
              /\ UNCHANGED <<sheet, row, seenTotal, validList, invalidList, handled, saves>>
            BY <2>4 DEF InitCounters
        <3>2. QED BY <3>1, StartSteps DEF Reading
    <2>5. CASE InitUnique(i)
        <3>1. /\ pc[i] = "unique" /\ Goto(i, "next")
              /\ UNCHANGED <<sheet, row, seenTotal, validList, invalidList, handled, saves>>
            BY <2>5 DEF InitUnique
        <3>2. QED BY <3>1, StartSteps DEF Reading
    <2>6. CASE Invoke(i) BY <2>6, InvokeStep
    <2>7. CASE ApproximateTotalNum(i) BY <2>7, TotalStep
    <2>8. CASE Stop(i) BY <2>8, StopStep
    <2>9. CASE Validate(i)
        <3>1. /\ pc[i] = "validate" /\ UNCHANGED <<sheet, handled, saves>>
              /\ \/ Join(i, FALSE)
                 \/ /\ Goto(i, "add")
                    /\ UNCHANGED <<row, seenTotal, validList, invalidList>>
            BY <2>9 DEF Validate
        <3>2. QED BY <3>1, JoinStep, MoveStep
    <2>11. CASE Add(i)
        <3>1. pc[i] = "add" /\ UNCHANGED <<sheet, handled, saves>> /\ Join(i, TRUE)
            BY <2>11 DEF Add
        <3>2. QED BY <3>1, JoinStep
    <2>12. CASE GetCounter(i)
        <3>1. /\ pc[i] = "get" /\ Goto(i, "set")
              /\ UNCHANGED <<sheet, row, seenTotal, validList, invalidList, handled, saves>>
            BY <2>12 DEF GetCounter
        <3>2. QED BY <3>1, MoveStep
    <2>13. CASE SetCounter(i)
        <3>1. CASE counting[i][1] = "total"
            <4>1. /\ pc[i] = "set" /\ InvokeReturns(i)
                  /\ Persist(i, validList[i], invalidList[i], BatchNum)
                  /\ UNCHANGED <<sheet, seenTotal, handled>>
                BY <2>13, <3>1 DEF SetCounter
            <4>2. QED BY <4>1, FlushFullStep
        <3>2. CASE counting[i][1] # "total"
            <4>1. /\ pc[i] = "set" /\ Goto(i, "get")
                  /\ UNCHANGED <<sheet, row, seenTotal, validList, invalidList,
                                 handled, saves>>
                BY <2>13, <3>2 DEF SetCounter
            <4>2. QED BY <4>1, MoveStep
        <3>3. QED BY <3>1, <3>2
    <2>14. CASE AllAnalysed(i) BY <2>14, FlushRestStep
    <2>15. QED
        BY <1>3, <2>1, <2>2, <2>3, <2>4, <2>5, <2>6, <2>7, <2>8, <2>9,
           <2>11, <2>12, <2>13, <2>14 DEF SingleRead
<1>4. ASSUME NEW c \in Cancel, CancelRead(c) PROVE ListenerInv'
    <2>1. PICK place \in {"flag", "done", "counters", "unique"} :
            /\ Goto(c, place)
            /\ UNCHANGED <<sheet, row, seenTotal, validList, invalidList, handled, saves>>
        BY <1>4, RequestsAssumption
        DEF CancelRead, Finish, SetProcessing, InitCounters, InitUnique,
            importVars, listenerVars, historyVars
    <2>2. QED BY <2>1, CancelSteps DEF Place, Idle
<1>5. QED BY <1>1, <1>3, <1>4 DEF Next

THEOREM ListenersConsistent == Spec => []ListenerInv
<1>1. Init => ListenerInv BY InitListeners
<1>2. ListenerInv /\ [Next]_vars => ListenerInv' BY ListenerStep
<1>3. QED BY <1>1, <1>2, PTL DEF Spec

\* No row is lost and none is stored twice, for any sheets and any requests.
THEOREM RowsAreSavedOnce == Spec => []RowsSavedOnce
<1>1. ListenerInv => RowsSavedOnce
    <2> SUFFICES ASSUME ListenerInv, NEW i \in Import
                 PROVE  /\ \A n \in Rows :
                             saves[i][n] <= (IF n \in handled[i] THEN 1 ELSE 0)
                        /\ pc[i] = "done" /\ ~OutOfRange(seenTotal[i]) =>
                             \A n \in handled[i] : saves[i][n] = 1
        BY DEF RowsSavedOnce
    <2>1. QED BY DEF ListenerInv, RowInv, Saves, Lists, InHand
<1>2. QED BY <1>1, ListenersConsistent, PTL

\* The range check keeps an oversized sheet out of the database, also when
\* the flag it clears is set again by another request.
THEOREM OversizedIsRefused == Spec => []OversizedSavesNothing
<1>1. ListenerInv => OversizedSavesNothing
    <2> SUFFICES ASSUME ListenerInv, NEW i \in Import, NEW n \in Rows,
                        Len(sheet[i]) > LimitNum
                 PROVE  saves[i][n] = 0
        BY DEF OversizedSavesNothing
    <2>1. Len(sheet[i]) \in Nat BY RowsOfSheet DEF ListenerInv
    <2>2. OutOfRange(seenTotal[i])
        BY <2>1, NumbersAssumption DEF ListenerInv, RowInv, Size, OutOfRange
    <2>3. QED BY <2>2 DEF ListenerInv, RowInv, Saves
<1>2. QED BY <1>1, ListenersConsistent, PTL

-----------------------------------------------------------------------------
(* An import that nobody disturbs *)

\* The rows its listener has found valid.
Valid(i) == validList[i] \cup savedValid[i]

KeyOf(i, n) == sheet[i][n].key

\* No other request is past the flag: it would have ended the solitude.
OthersWait(i) ==
    /\ \A j \in Import \ {i} : pc[j] \in Idle
    /\ \A c \in Cancel : pc[c] \in Idle \cup {"flag"}

\* The rows that have joined a list.
Joined(i) == IF Listed(i) THEN row[i] + 1 ELSE row[i]

\* The counters lag behind the lists by the row in hand.
Counted(i) ==
    /\ counter["total"] = row[i]
    /\ Cardinality(Valid(i)) = counter["valid"] +
         (IF Listed(i) /\ counting[i][1] = "valid" THEN 1 ELSE 0)
    /\ counter["valid"] + counter["invalid"] = row[i] +
         (IF Listed(i) /\ counting[i][1] = "total" THEN 1 ELSE 0)
    /\ pc[i] = "set" => counting[i][2] = counter[counting[i][1]]

\* The set has the codes of the valid rows, each of which is the first
\* correct one with its code.
Deduped(i) ==
    /\ Valid(i) \subseteq 1 .. Joined(i)
    /\ uniqueSet = {KeyOf(i, n) : n \in Valid(i)}
    /\ \A n \in Valid(i) : sheet[i][n].correct
    /\ \A m, n \in Valid(i) : KeyOf(i, m) = KeyOf(i, n) => m = n
    /\ \A n \in 1 .. Joined(i) : sheet[i][n].correct => KeyOf(i, n) \in uniqueSet
    /\ pc[i] = "add" => sheet[i][Current(i)].correct /\ KeyOf(i, Current(i)) \notin uniqueSet

Undisturbed(i) ==
    /\ pc[i] \in Reading \cup {"counters", "unique"} => processing
    /\ pc[i] # "stop"
    /\ pc[i] = "unique" => counter = [c \in Counters |-> 0]
    /\ pc[i] \in Reading \cup {"done"} => Counted(i) /\ Deduped(i)

Ends(i) ==
    /\ pc[i] \notin Reading \cup {"done"} => savedValid[i] = {}
    /\ pc[i] = "done" => row[i] = Len(sheet[i])
    /\ alone[i] => OthersWait(i) /\ pc[i] \notin {"idle", "refused"}
    /\ alone[i] /\ Len(sheet[i]) <= LimitNum => Undisturbed(i)

AloneInv == TypeOK /\ ListenerInv /\ \A i \in Import : Ends(i)

\* What the listener knows before and while it reads.
LEMMA RowFacts ==
    ASSUME TypeOK, ListenerInv, NEW i \in Import
    PROVE  /\ Len(sheet[i]) \in Nat /\ row[i] \in Nat /\ row[i] <= Len(sheet[i])
           /\ HeadNum \in Nat /\ LimitNum \in Nat
           /\ i \in Thread /\ pc[i] \in Place
           /\ \A n \in 1 .. Len(sheet[i]) : sheet[i][n] \in [key : Key, correct : BOOLEAN]
           /\ InHand(i) \/ Listed(i) => row[i] < Len(sheet[i]) /\ Current(i) \in 1 .. Len(sheet[i])
           /\ pc[i] \notin Reading \cup {"done"} => row[i] = 0 /\ validList[i] = {}
           /\ pc[i] = "done" => validList[i] = {}
<1>1. RowInv(i) /\ ListenerType
    BY DEF ListenerInv
<1>2. Len(sheet[i]) \in Nat /\ row[i] \in Nat /\ row[i] <= Len(sheet[i])
    BY <1>1, RowsOfSheet DEF RowInv, Reach, ListenerType
<1>3. \A n \in 1 .. Len(sheet[i]) : sheet[i][n] \in [key : Key, correct : BOOLEAN]
    <2>1. sheet[i] \in Sheets
        BY DEF TypeOK
    <2>2. sheet[i] \in Seq([key : Key, correct : BOOLEAN])
        BY <2>1, SheetsAssumption
    <2> DEFINE S == [key : Key, correct : BOOLEAN]
    <2> HIDE DEF S
    <2>3. sheet[i] \in Seq(S)
        BY <2>2 DEF S
    <2>4. \A n \in 1 .. Len(sheet[i]) : sheet[i][n] \in S
        BY <2>3
    <2>5. QED BY <2>4 DEF S
<1>4. InHand(i) \/ Listed(i) => row[i] < Len(sheet[i]) /\ Current(i) \in 1 .. Len(sheet[i])
    BY <1>1, <1>2 DEF RowInv, Reach, Current
<1>5. pc[i] \notin Reading \cup {"done"} => row[i] = 0 /\ validList[i] = {}
    BY <1>1 DEF RowInv, Reach, Lists, Buffered, InHand, Listed, Reading
<1>6. pc[i] = "done" => validList[i] = {}
    BY <1>1 DEF RowInv, Lists, Buffered
<1>7. QED
    BY <1>2, <1>3, <1>4, <1>5, <1>6, NumbersAssumption DEF TypeOK, Thread

\* A step of import i itself.
LEMMA OwnStep ==
    ASSUME TypeOK, NEW i \in Import, Ends(i), NEW place \in Place, Goto(i, place),
           UNCHANGED <<alone, sheet>>, place \notin {"idle", "refused"},
           place \notin Reading \cup {"done"} => savedValid'[i] = {},
           place = "done" => row'[i] = Len(sheet[i]),
           alone[i] /\ Len(sheet[i]) <= LimitNum /\ Undisturbed(i) => Undisturbed(i)'
    PROVE  Ends(i)'
<1>1. pc'[i] = place /\ \A t \in Thread \ {i} : pc'[t] = pc[t]
    BY DEF Goto, TypeOK, Thread
<1>2. OthersWait(i) => OthersWait(i)'
    BY <1>1, RequestsAssumption DEF OthersWait, Thread
<1>3. QED BY <1>1, <1>2 DEF Ends

\* A step of another request that leaves import i alone, or ends its solitude.
LEMMA OtherStep ==
    ASSUME NEW i \in Import, Ends(i),
           pc'[i] = pc[i], sheet'[i] = sheet[i], row'[i] = row[i], counting'[i] = counting[i],
           validList'[i] = validList[i], savedValid'[i] = savedValid[i],
           alone'[i] => /\ alone[i] /\ OthersWait(i)'
                        /\ UNCHANGED <<processing, counter, uniqueSet>>
    PROVE  Ends(i)'
<1>1. Valid(i)' = Valid(i) /\ Joined(i)' = Joined(i) /\ (Listed(i)' <=> Listed(i))
      /\ Current(i)' = Current(i) /\ \A n : KeyOf(i, n)' = KeyOf(i, n)
    BY DEF Valid, Joined, Listed, Current, KeyOf
<1>2. ASSUME alone'[i], Undisturbed(i) PROVE Undisturbed(i)'
    <2>1. UNCHANGED <<processing, counter, uniqueSet>>
        BY <1>2
    <2>2. Counted(i) => Counted(i)'
        BY <1>1, <2>1 DEF Counted
    <2>3. Deduped(i) => Deduped(i)'
        BY <1>1, <2>1 DEF Deduped
    <2>4. QED BY <1>2, <2>1, <2>2, <2>3 DEF Undisturbed
<1>3. QED BY <1>2 DEF Ends

-----------------------------------------------------------------------------
(* Its own steps *)

\* The first row has not been read: nothing is counted and no code is known.
LEMMA BeginStep ==
    ASSUME TypeOK, ListenerInv, NEW i \in Import, Ends(i), InitUnique(i)
    PROVE  Ends(i)'
<1> USE RowFacts
<1>1. /\ pc[i] = "unique" /\ Goto(i, "next") /\ uniqueSet' = {}
      /\ UNCHANGED <<alone, sheet, row, processing, counter, validList, savedValid, counting>>
    BY DEF InitUnique, importVars, listenerVars, historyVars
<1>2. pc'[i] = "next"
    BY <1>1 DEF Goto, TypeOK
<1>3. row[i] = 0 /\ Valid(i)' = {} /\ savedValid[i] = {}
    BY <1>1 DEF Ends, Valid, Reading
<1>4. ASSUME Undisturbed(i) PROVE Undisturbed(i)'
    <2>1. processing /\ counter = [c \in Counters |-> 0]
        BY <1>1, <1>4 DEF Undisturbed, Reading
    <2>2. counter["total"] = 0 /\ counter["valid"] = 0 /\ counter["invalid"] = 0
        BY <2>1 DEF Counters
    <2>3. ~Listed(i)' /\ row'[i] = 0
        BY <1>1, <1>2, <1>3 DEF Listed
    <2>4. Counted(i)'
        BY <1>1, <1>2, <1>3, <2>2, <2>3, FS_EmptySet DEF Counted
    <2>5. Deduped(i)'
        BY <1>1, <1>2, <1>3, <2>3 DEF Deduped, Joined
    <2>6. QED BY <1>1, <1>2, <2>1, <2>4, <2>5 DEF Undisturbed
<1>5. QED BY <1>1, <1>4, OwnStep DEF Reading, Place

\* The row at hand has joined no list: what is known stays.
LEMMA HandStep ==
    ASSUME TypeOK, NEW i \in Import, Undisturbed(i), pc[i] \in Reading, ~Listed(i),
           NEW place \in {"total", "validate", "add"}, Goto(i, place),
           UNCHANGED <<sheet, row, processing, counter, uniqueSet, validList, savedValid, counting>>,
           place = "add" => sheet[i][Current(i)].correct /\ KeyOf(i, Current(i)) \notin uniqueSet
    PROVE  Undisturbed(i)'
<1>1. pc'[i] = place
    BY DEF Goto, TypeOK, Thread
<1>2. /\ Valid(i)' = Valid(i) /\ Joined(i)' = Joined(i) /\ ~Listed(i)'
      /\ Current(i)' = Current(i) /\ \A n : KeyOf(i, n)' = KeyOf(i, n)
    BY <1>1 DEF Valid, Joined, Listed, Current, KeyOf
<1>3. Counted(i)'
    BY <1>1, <1>2 DEF Undisturbed, Counted
<1>4. Deduped(i)'
    BY <1>1, <1>2 DEF Undisturbed, Deduped
<1>5. QED BY <1>1, <1>3, <1>4 DEF Undisturbed, Reading

LEMMA InvokeAlone ==
    ASSUME TypeOK, ListenerInv, NEW i \in Import, Ends(i), Invoke(i)
    PROVE  Ends(i)'
<1>1. /\ pc[i] = "next" /\ UNCHANGED <<alone, sheet, processing, counter, uniqueSet,
                                       validList, savedValid, counting>>
      /\ Goto(i, "total") \/ (~processing /\ Goto(i, "next"))
      /\ processing => row' = row
    BY DEF Invoke, InvokeReturns, serviceVars, importVars
<1>2. ASSUME Undisturbed(i) PROVE Undisturbed(i)'
    <2>1. processing
        BY <1>1, <1>2 DEF Undisturbed, Reading
    <2>2. Goto(i, "total") /\ row' = row
        BY <1>1, <2>1
    <2>3. QED BY <1>1, <1>2, <2>2, HandStep DEF Listed, Reading
<1>3. QED BY <1>1, <1>2, OwnStep DEF Reading, Place, Idle

LEMMA TotalAlone ==
    ASSUME TypeOK, ListenerInv, NEW i \in Import, Ends(i), ApproximateTotalNum(i)
    PROVE  Ends(i)'
<1> USE RowFacts
<1>1. /\ pc[i] = "total"
      /\ UNCHANGED <<alone, sheet, row, processing, counter, uniqueSet, validList,
                     savedValid, counting>>
      /\ Goto(i, IF OutOfRange(seenTotal'[i]) THEN "stop" ELSE "validate")
    BY DEF ApproximateTotalNum, importVars, historyVars
<1>2. seenTotal'[i] = Len(sheet[i]) + HeadNum
    <2>1. seenTotal[i] \in {0, Len(sheet[i]) + HeadNum}
        BY DEF ListenerInv, RowInv, Size
    <2>2. QED BY <2>1 DEF ApproximateTotalNum, TypeOK
<1>3. ASSUME Len(sheet[i]) <= LimitNum PROVE ~OutOfRange(seenTotal'[i])
    <2>1. 0 < Len(sheet[i])
        BY <1>1 DEF InHand
    <2>2. QED BY <1>2, <1>3, <2>1 DEF OutOfRange
<1>4. ASSUME Len(sheet[i]) <= LimitNum, Undisturbed(i) PROVE Undisturbed(i)'
    <2>1. Goto(i, "validate")
        BY <1>1, <1>3, <1>4
    <2>2. QED BY <1>1, <1>4, <2>1, HandStep DEF Listed, Reading
<1>5. QED BY <1>1, <1>4, OwnStep DEF Reading, Place, Idle

LEMMA StopAlone ==
    ASSUME TypeOK, NEW i \in Import, Ends(i), Stop(i)
    PROVE  Ends(i)'
<1>1. pc[i] = "stop" /\ Goto(i, "next") /\ UNCHANGED <<alone, sheet>>
    BY DEF Stop, InvokeReturns, importVars
<1>2. QED BY <1>1, OwnStep DEF Undisturbed, Reading, Place, Idle

\* The row joins a list; its code is new if it is found valid.
LEMMA JoinAlone ==
    ASSUME TypeOK, ListenerInv, NEW i \in Import, Undisturbed(i), NEW valid \in BOOLEAN,
           pc[i] \in {"validate", "add"}, Join(i, valid),
           UNCHANGED <<sheet, processing, counter, savedValid>>,
           valid => pc[i] = "add" /\ uniqueSet' = uniqueSet \cup {KeyOf(i, Current(i))},
           ~valid => /\ uniqueSet' = uniqueSet
                     /\ ~sheet[i][Current(i)].correct \/ KeyOf(i, Current(i)) \in uniqueSet
    PROVE  Undisturbed(i)'
<1> DEFINE n == row[i] + 1
           V == Valid(i)
<1>0. row[i] \in Nat /\ row[i] \in Int
    BY RowFacts
<1>1. /\ pc'[i] = "get" /\ row' = row
      /\ counting'[i] = <<IF valid THEN "valid" ELSE "invalid", 0>>
      /\ validList'[i] = (IF valid THEN validList[i] \cup {n} ELSE validList[i])
    BY DEF Join, Goto, TypeOK, Thread, Current
<1>2. /\ Listed(i)' /\ ~Listed(i) /\ Joined(i)' = n /\ Joined(i) = row[i]
      /\ Current(i) = n /\ \A m : KeyOf(i, m)' = KeyOf(i, m)
      /\ Valid(i)' = IF valid THEN V \cup {n} ELSE V
    BY <1>1 DEF Listed, Joined, Current, KeyOf, Valid
<1>3. Counted(i) /\ Deduped(i) /\ processing
    BY DEF Undisturbed, Reading
<1>4. V \subseteq 1 .. row[i]
    BY <1>2, <1>3 DEF Deduped
<1>5. IsFiniteSet(V) /\ n \notin V /\ 1 .. n = 1 .. row[i] \cup {n}
    <2>1. IsFiniteSet(1 .. row[i])
        BY <1>0, FS_Interval
    <2>2. IsFiniteSet(V)
        BY <1>4, <2>1, FS_Subset
    <2>3. n \notin V /\ 1 .. n = 1 .. row[i] \cup {n}
        BY <1>0, <1>4
    <2>4. QED BY <2>2, <2>3
<1> HIDE DEF V, n
<1>6. Cardinality(V \cup {n}) = Cardinality(V) + 1
    BY <1>5, FS_AddElement
<1>7. Cardinality(V) = counter["valid"] /\ counter["total"] = row[i]
      /\ counter["valid"] + counter["invalid"] = row[i]
      /\ counter["valid"] \in Nat /\ counter["invalid"] \in Nat
    BY <1>2, <1>3 DEF Counted, V, TypeOK, Counters
<1>8. Counted(i)'
    BY <1>1, <1>2, <1>6, <1>7 DEF Counted
<1>9. Deduped(i)'
    <2>1. /\ uniqueSet = {KeyOf(i, m) : m \in V} /\ \A m \in V : sheet[i][m].correct
          /\ \A l, m \in V : KeyOf(i, l) = KeyOf(i, m) => l = m
          /\ \A m \in 1 .. row[i] : sheet[i][m].correct => KeyOf(i, m) \in uniqueSet
          /\ pc[i] = "add" => sheet[i][n].correct /\ KeyOf(i, n) \notin uniqueSet
        BY <1>2, <1>3 DEF Deduped, V
    <2>2. CASE valid
        <3>1. /\ Valid(i)' = V \cup {n} /\ uniqueSet' = uniqueSet \cup {KeyOf(i, n)}
              /\ sheet[i][n].correct /\ KeyOf(i, n) \notin uniqueSet
            BY <1>2, <2>1, <2>2
        <3>2. V \cup {n} \subseteq 1 .. n
            BY <1>0, <1>4, <1>5
        <3>3. uniqueSet' = {KeyOf(i, m) : m \in V \cup {n}}
            BY <2>1, <3>1
        <3>4. \A l, m \in V \cup {n} : KeyOf(i, l) = KeyOf(i, m) => l = m
            BY <2>1, <3>1
        <3>5. \A m \in 1 .. n : sheet[i][m].correct => KeyOf(i, m) \in uniqueSet'
            BY <1>5, <2>1, <3>1
        <3>6. QED BY <1>1, <1>2, <2>1, <3>1, <3>2, <3>3, <3>4, <3>5 DEF Deduped
    <2>3. CASE ~valid
        <3>1. Valid(i)' = V /\ uniqueSet' = uniqueSet
              /\ (~sheet[i][n].correct \/ KeyOf(i, n) \in uniqueSet)
            BY <1>2, <2>3
        <3>2. \A m \in 1 .. n : sheet[i][m].correct => KeyOf(i, m) \in uniqueSet'
            BY <1>5, <2>1, <3>1
        <3>3. V \subseteq 1 .. n
            BY <1>0, <1>4, <1>5
        <3>4. QED BY <1>1, <1>2, <2>1, <3>1, <3>2, <3>3 DEF Deduped
    <2>4. QED BY <2>2, <2>3
<1>10. QED BY <1>1, <1>3, <1>8, <1>9 DEF Undisturbed

LEMMA ValidateAlone ==
    ASSUME TypeOK, ListenerInv, NEW i \in Import, Ends(i), Validate(i)
    PROVE  Ends(i)'
<1>1. /\ pc[i] = "validate"
      /\ UNCHANGED <<alone, sheet, processing, counter, uniqueSet, savedValid>>
    BY DEF Validate, serviceVars, importVars, historyVars
<1>2. CASE sheet[i][Current(i)].correct /\ KeyOf(i, Current(i)) \notin uniqueSet
    <2>1. Goto(i, "add") /\ UNCHANGED <<row, counting, validList>>
        BY <1>2 DEF Validate, KeyOf, listenerVars
    <2>2. Undisturbed(i) => Undisturbed(i)'
        BY <1>1, <1>2, <2>1, HandStep DEF Listed, Reading
    <2>3. QED BY <1>1, <2>1, <2>2, OwnStep DEF Reading, Place, Idle
<1>3. CASE ~sheet[i][Current(i)].correct \/ KeyOf(i, Current(i)) \in uniqueSet
    <2>1. Join(i, FALSE)
        BY <1>3 DEF Validate, KeyOf
    <2>2. Undisturbed(i) => Undisturbed(i)'
        BY <1>1, <1>3, <2>1, JoinAlone
    <2>3. QED BY <1>1, <2>1, <2>2, OwnStep DEF Join, Reading, Place, Idle
<1>4. QED BY <1>2, <1>3

\* Nobody else adds a code: this one is not lost.
LEMMA AddAlone ==
    ASSUME TypeOK, ListenerInv, NEW i \in Import, Ends(i), Add(i)
    PROVE  Ends(i)'
<1>1. /\ pc[i] = "add" /\ Join(i, TRUE)
      /\ UNCHANGED <<alone, sheet, processing, counter, savedValid>>
    BY DEF Add, importVars, historyVars
<1>2. ASSUME alone[i] PROVE uniqueSet' = uniqueSet \cup {KeyOf(i, Current(i))}
    <2>1. \A j \in Import \ {i} : pc[j] # "add"
        BY <1>2 DEF Ends, OthersWait, Idle
    <2>2. QED BY <2>1 DEF Add, KeyOf
<1>3. ASSUME alone[i], Undisturbed(i) PROVE Undisturbed(i)'
    BY <1>1, <1>2, <1>3, JoinAlone
<1>4. QED BY <1>1, <1>3, OwnStep DEF Join, Reading, Place, Idle

LEMMA GetAlone ==
    ASSUME TypeOK, NEW i \in Import, Ends(i), GetCounter(i)
    PROVE  Ends(i)'
<1>1. /\ pc[i] = "get" /\ Goto(i, "set") /\ pc'[i] = "set"
      /\ UNCHANGED <<alone, sheet, row, processing, counter, uniqueSet, validList, savedValid>>
    BY DEF GetCounter, Goto, serviceVars, importVars, historyVars, TypeOK, Thread
<1>2. counting[i] \in Counters \X Nat /\ counter \in [Counters -> Nat]
    BY DEF TypeOK
<1>3. counting'[i][1] = counting[i][1] /\ counting'[i][2] = counter[counting[i][1]]
    BY <1>2 DEF GetCounter, TypeOK
<1>4. /\ Valid(i)' = Valid(i) /\ Joined(i)' = Joined(i) /\ Listed(i)' /\ Listed(i)
      /\ \A n : KeyOf(i, n)' = KeyOf(i, n)
    BY <1>1 DEF Valid, Joined, Listed, KeyOf
<1>5. ASSUME Undisturbed(i) PROVE Undisturbed(i)'
    <2>1. Counted(i)'
        BY <1>1, <1>3, <1>4, <1>5 DEF Undisturbed, Counted, Reading
    <2>2. Deduped(i)'
        BY <1>1, <1>4, <1>5 DEF Undisturbed, Deduped, Reading
    <2>3. QED BY <1>1, <1>5, <2>1, <2>2 DEF Undisturbed, Reading
<1>6. QED BY <1>1, <1>5, OwnStep DEF Reading, Place, Idle

\* Flushed or kept, a valid row stays one.
LEMMA FlushedValid ==
    ASSUME TypeOK, NEW i \in Import, NEW size, Persist(i, validList[i], invalidList[i], size)
    PROVE  Valid(i)' = Valid(i) /\ savedValid' \in [Import -> SUBSET Rows]
<1> DEFINE goes(list) == IF Cardinality(list) >= size THEN list ELSE {}
<1>1. /\ validList' = [validList EXCEPT ![i] = IF Cardinality(@) >= size THEN {} ELSE @]
      /\ savedValid' = [savedValid EXCEPT ![i] = @ \cup goes(validList[i])]
    BY DEF Persist, Persisted
<1>2. /\ validList'[i] = IF Cardinality(validList[i]) >= size THEN {} ELSE validList[i]
      /\ savedValid'[i] = savedValid[i] \cup goes(validList[i])
    BY <1>1 DEF TypeOK
<1>3. QED BY <1>1, <1>2 DEF Valid, TypeOK

LEMMA SetAlone ==
    ASSUME TypeOK, ListenerInv, NEW i \in Import, Ends(i), SetCounter(i)
    PROVE  Ends(i)'
<1> DEFINE which == counting[i][1]
<1>1. /\ pc[i] = "set" /\ counter' = [counter EXCEPT ![which] = counting[i][2] + 1]
      /\ UNCHANGED <<alone, sheet, processing, uniqueSet>>
    BY DEF SetCounter, Incremented, importVars
<1>2. which \in Counters /\ counter \in [Counters -> Nat] /\ row[i] \in Nat
    BY DEF TypeOK
<1>3. CASE which = "total"
    <2>1. /\ Persist(i, validList[i], invalidList[i], BatchNum) /\ Goto(i, "next")
          /\ pc'[i] = "next" /\ row'[i] = row[i] + 1
        BY <1>1, <1>3 DEF SetCounter, InvokeReturns, Goto, TypeOK, Thread
    <2>2. /\ Valid(i)' = Valid(i) /\ Joined(i)' = Joined(i) /\ ~Listed(i)' /\ Listed(i)
          /\ \A n : KeyOf(i, n)' = KeyOf(i, n)
        BY <1>1, <2>1, FlushedValid DEF Joined, Listed, KeyOf
    <2>3. ASSUME Undisturbed(i) PROVE Undisturbed(i)'
        <3>1. Counted(i) /\ Deduped(i) /\ processing
            BY <1>1, <2>3 DEF Undisturbed, Reading
        <3>2. /\ counter'["total"] = row[i] + 1 /\ counter'["valid"] = counter["valid"]
              /\ counter'["invalid"] = counter["invalid"]
            BY <1>1, <1>2, <1>3, <3>1 DEF Counted, Counters
        <3>3. /\ Cardinality(Valid(i)) = counter'["valid"]
              /\ counter'["total"] = row'[i] /\ counter'["valid"] + counter'["invalid"] = row'[i]
              /\ counter'["valid"] \in Nat /\ row'[i] \in Nat
            BY <1>2, <1>3, <2>1, <2>2, <3>1, <3>2 DEF Counted, Counters
        <3>6. Counted(i)'
            BY <2>1, <2>2, <3>3 DEF Counted
        <3>4. Deduped(i)'
            BY <1>1, <2>1, <2>2, <3>1 DEF Deduped
        <3>5. QED BY <1>1, <2>1, <3>1, <3>4, <3>6 DEF Undisturbed
    <2>4. QED BY <1>1, <2>1, <2>3, OwnStep DEF Reading, Place, Idle
<1>4. CASE which # "total"
    <2>1. /\ UNCHANGED <<row, validList, savedValid>> /\ Goto(i, "get") /\ pc'[i] = "get"
          /\ counting'[i] = <<"total", 0>>
        BY <1>1, <1>4 DEF SetCounter, Goto, TypeOK, Thread
    <2>2. /\ Valid(i)' = Valid(i) /\ Joined(i)' = Joined(i) /\ Listed(i)' /\ Listed(i)
          /\ \A n : KeyOf(i, n)' = KeyOf(i, n)
        BY <1>1, <2>1 DEF Joined, Listed, KeyOf, Valid
    <2>3. ASSUME Undisturbed(i) PROVE Undisturbed(i)'
        <3>1. Counted(i) /\ Deduped(i) /\ processing
            BY <1>1, <2>3 DEF Undisturbed, Reading
        <3>2. /\ counter'["total"] = counter["total"]
              /\ counter'[which] = counter[which] + 1
              /\ \A c \in Counters \ {which} : counter'[c] = counter[c]
            BY <1>1, <1>2, <1>4, <3>1 DEF Counted, Counters
        <3>3. /\ counter["total"] = row[i]
              /\ counter["valid"] + counter["invalid"] = row[i]
              /\ Cardinality(Valid(i)) = counter["valid"] + (IF which = "valid" THEN 1 ELSE 0)
              /\ counter["valid"] \in Nat /\ counter["invalid"] \in Nat
            BY <1>2, <1>4, <2>2, <3>1 DEF Counted, Counters
        <3>4. Cardinality(Valid(i)) = counter'["valid"]
              /\ counter'["valid"] + counter'["invalid"] = row[i] + 1
            <4> HIDE DEF which
            <4>1. CASE which = "valid"
                <5>0. counter'["invalid"] = counter["invalid"]
                    BY <3>2, <4>1 DEF Counters
                <5>1. counter'["valid"] = counter["valid"] + 1
                    BY <3>2, <4>1
                <5>2. QED BY <1>2, <3>3, <4>1, <5>0, <5>1
            <4>2. CASE which = "invalid"
                <5>1. counter'["valid"] = counter["valid"]
                      /\ counter'["invalid"] = counter["invalid"] + 1
                    BY <3>2, <4>2 DEF Counters
                <5>2. QED BY <1>2, <3>3, <4>2, <5>1
            <4>3. QED BY <1>2, <1>4, <4>1, <4>2 DEF Counters
        <3>5. Counted(i)'
            BY <2>1, <2>2, <3>2, <3>3, <3>4 DEF Counted
        <3>6. Deduped(i)'
            BY <1>1, <2>1, <2>2, <3>1 DEF Deduped
        <3>7. QED BY <1>1, <2>1, <3>1, <3>5, <3>6 DEF Undisturbed
    <2>4. QED BY <1>1, <2>1, <2>3, OwnStep DEF Reading, Place, Idle
<1>5. QED BY <1>3, <1>4

LEMMA DoneAlone ==
    ASSUME TypeOK, ListenerInv, NEW i \in Import, Ends(i), AllAnalysed(i)
    PROVE  Ends(i)'
<1>1. /\ pc[i] = "next" /\ row[i] = Len(sheet[i]) /\ Goto(i, "done") /\ pc'[i] = "done"
      /\ Persist(i, validList[i], invalidList[i], 1)
      /\ UNCHANGED <<alone, sheet, row, processing, counter, uniqueSet, counting>>
    BY DEF AllAnalysed, Goto, serviceVars, importVars, TypeOK, Thread
<1>2. /\ Valid(i)' = Valid(i) /\ Joined(i)' = Joined(i) /\ ~Listed(i)' /\ ~Listed(i)
      /\ \A n : KeyOf(i, n)' = KeyOf(i, n)
    BY <1>1, FlushedValid DEF Joined, Listed, KeyOf
<1>3. ASSUME Undisturbed(i) PROVE Undisturbed(i)'
    <2>1. Counted(i)'
        BY <1>1, <1>2, <1>3 DEF Undisturbed, Counted, Reading
    <2>2. Deduped(i)'
        BY <1>1, <1>2, <1>3 DEF Undisturbed, Deduped, Reading
    <2>3. QED BY <1>1, <1>3, <2>1, <2>2 DEF Undisturbed, Reading
<1>4. QED BY <1>1, <1>3, OwnStep DEF Reading, Place, Idle

-----------------------------------------------------------------------------
(* Types, and the steps of the others *)

\* What the requests share, and what ListenerType leaves out.
SharedType ==
    /\ process \in Second \cup {None} /\ processing \in BOOLEAN
    /\ counter \in [Counters -> Nat] /\ approximate \in Nat /\ uniqueSet \in SUBSET Key
    /\ token \in [Import -> Second \cup {None}]
    /\ counting \in [Import -> Counters \X Nat]
    /\ target \in [Cancel -> Import \cup {None}]
    /\ savedValid \in [Import -> SUBSET Rows]
    /\ alone \in [Import -> BOOLEAN]

LEMMA TypeParts == TypeOK <=> SharedType /\ ListenerType
    BY DEF TypeOK, SharedType, ListenerType

LEMMA SharedStep ==
    ASSUME TypeOK, ListenerInv, [Next]_vars
    PROVE  SharedType'
<1> SharedType
    BY TypeParts
<1>1. CASE UNCHANGED vars
    BY <1>1 DEF vars, SharedType
<1>2. ASSUME NEW t \in Thread,
             SetProcess(t) \/ SetProcessing(t) \/ InitCounters(t) \/ InitUnique(t)
      PROVE  SharedType'
    <2> USE DEF SharedType, importVars, listenerVars, historyVars
    <2>1. CASE SetProcess(t) BY <2>1 DEF SetProcess
    <2>2. CASE SetProcessing(t) BY <2>2 DEF SetProcessing
    <2>3. CASE InitCounters(t)
        <3>1. counter' \in [Counters -> Nat] /\ approximate' \in Nat
            BY <2>3 DEF InitCounters
        <3>2. QED BY <2>3, <3>1 DEF InitCounters
    <2>4. CASE InitUnique(t) BY <2>4 DEF InitUnique
    <2>5. QED BY <1>2, <2>1, <2>2, <2>3, <2>4
<1>3. ASSUME NEW i \in Import, SingleRead(i) PROVE SharedType'
    <2> USE DEF SharedType, importVars, listenerVars, historyVars, serviceVars
    <2> counting[i] \in Counters \X Nat
        OBVIOUS
    <2>1. CASE Check(i)
        <3>1. alone' \in [Import -> BOOLEAN]
            BY <2>1 DEF Check, Active
        <3>2. QED BY <2>1, <3>1 DEF Check
    <2>2. CASE SetProcess(i) \/ SetProcessing(i) \/ InitCounters(i) \/ InitUnique(i)
        BY <1>2, <2>2 DEF Thread
    <2>3. CASE Invoke(i) BY <2>3 DEF Invoke
    <2>4. CASE ApproximateTotalNum(i)
        <3>1. approximate' \in Nat
            BY <2>4, RowFacts DEF ApproximateTotalNum
        <3>2. QED BY <2>4, <3>1 DEF ApproximateTotalNum
    <2>5. CASE Stop(i) BY <2>5 DEF Stop
    <2>6. ASSUME NEW valid \in BOOLEAN, Join(i, valid) PROVE counting' \in [Import -> Counters \X Nat]
        <3>1. <<IF valid THEN "valid" ELSE "invalid", 0>> \in Counters \X Nat
            BY DEF Counters
        <3>2. QED BY <2>6, <3>1 DEF Join
    <2>7. CASE Validate(i)
        <3>1. counting' \in [Import -> Counters \X Nat]
            BY <2>6, <2>7 DEF Validate
        <3>2. QED BY <2>7, <3>1 DEF Validate
    <2>8. CASE Add(i)
        <3>1. sheet[i][Current(i)].key \in Key
            BY <2>8, RowFacts DEF Add, InHand
        <3>2. uniqueSet' \in SUBSET Key
            BY <2>8, <3>1 DEF Add
        <3>3. QED BY <2>6, <2>8, <3>2 DEF Add
    <2>9. CASE GetCounter(i)
        <3> DEFINE p == counting[i]
                   v == counter[p[1]]
                   u == [p EXCEPT ![2] = v]
        <3>1. v \in Nat /\ p \in Counters \X Nat
            OBVIOUS
        <3>2. counting' = [counting EXCEPT ![i] = u]
            BY <2>9 DEF GetCounter
        <3> HIDE DEF p, v
        <3>3. u \in Counters \X Nat
            BY <3>1
        <3> HIDE DEF u
        <3>4. counting' \in [Import -> Counters \X Nat]
            BY <3>2, <3>3
        <3>5. QED BY <2>9, <3>4 DEF GetCounter
    <2>10. CASE SetCounter(i)
        <3>1. counter' \in [Counters -> Nat]
            BY <2>10 DEF SetCounter, Incremented
        <3>2. <<"total", 0>> \in Counters \X Nat
            BY DEF Counters
        <3>3. counting' \in [Import -> Counters \X Nat]
            BY <2>10, <3>2, SMTT(40) DEF SetCounter
        <3>4. savedValid' \in [Import -> SUBSET Rows]
            BY <2>10, FlushedValid DEF SetCounter
        <3>5. QED BY <2>10, <3>1, <3>3, <3>4 DEF SetCounter
    <2>11. CASE AllAnalysed(i)
        <3>1. savedValid' \in [Import -> SUBSET Rows]
            BY <2>11, FlushedValid DEF AllAnalysed
        <3>2. QED BY <2>11, <3>1 DEF AllAnalysed
    <2>12. QED
        BY <1>3, <2>1, <2>2, <2>3, <2>4, <2>5, <2>7, <2>8, <2>9, <2>10, <2>11 DEF SingleRead
<1>4. ASSUME NEW c \in Cancel, CancelRead(c) PROVE SharedType'
    <2>1. CASE \E i \in Import : Finish(c, i)
        BY <2>1 DEF Finish, SharedType, serviceVars, importVars, listenerVars, historyVars
    <2>2. QED BY <1>2, <1>4, <2>1 DEF CancelRead, Thread
<1>5. QED BY <1>1, <1>3, <1>4 DEF Next

\* A request that moves on beside a lone import gives way to it or is refused,
\* or the import is no longer alone.
LEMMA OthersStep ==
    ASSUME TypeOK, ListenerInv, NEW i \in Import, Ends(i), NEW t \in Thread \ {i},
           (t \in Import /\ SingleRead(t)) \/ (t \in Cancel /\ CancelRead(t))
    PROVE  Ends(i)'
<1>1. i \in Thread
    BY DEF Thread
<1>2. /\ pc'[i] = pc[i] /\ sheet'[i] = sheet[i] /\ row'[i] = row[i]
      /\ counting'[i] = counting[i] /\ validList'[i] = validList[i]
      /\ savedValid'[i] = savedValid[i]
    <2> USE DEF serviceVars, importVars, listenerVars, historyVars
    <2>1. CASE t \in Import /\ SingleRead(t)
        <3>1. \E place : pc' = [pc EXCEPT ![t] = place]
            BY <2>1 DEF SingleRead, Check, SetProcess, SetProcessing, InitCounters, InitUnique,
                        Invoke, ApproximateTotalNum, Stop, Validate, Add, GetCounter, SetCounter,
                        AllAnalysed, Goto, InvokeReturns, Join
        <3>2. pc'[i] = pc[i]
            BY <1>1, <3>1 DEF TypeOK
        <3>3. CASE Validate(t) \/ Add(t)
            BY <2>1, <3>2, <3>3 DEF Validate, Add, Join, TypeOK
        <3>4. CASE GetCounter(t)
            BY <2>1, <3>2, <3>4 DEF GetCounter, TypeOK
        <3>5. CASE SetCounter(t)
            BY <2>1, <3>2, <3>5 DEF SetCounter, Persist, InvokeReturns, TypeOK
        <3>6. CASE AllAnalysed(t)
            BY <2>1, <3>2, <3>6 DEF AllAnalysed, Persist, TypeOK
        <3>7. CASE Invoke(t) \/ Stop(t)
            BY <2>1, <3>2, <3>7 DEF Invoke, Stop, InvokeReturns, TypeOK
        <3>8. CASE ApproximateTotalNum(t)
            BY <2>1, <3>2, <3>8 DEF ApproximateTotalNum
        <3>9. CASE Check(t) \/ SetProcess(t) \/ SetProcessing(t) \/ InitCounters(t) \/ InitUnique(t)
            BY <2>1, <3>2, <3>9 DEF Check, SetProcess, SetProcessing, InitCounters, InitUnique
        <3>10. QED BY <2>1, <3>3, <3>4, <3>5, <3>6, <3>7, <3>8, <3>9 DEF SingleRead
    <2>2. CASE t \in Cancel /\ CancelRead(t)
        <3>1. \E place : pc' = [pc EXCEPT ![t] = place]
            BY <2>2 DEF CancelRead, Finish, SetProcessing, InitCounters, InitUnique, Goto
        <3>2. pc'[i] = pc[i]
            BY <1>1, <3>1 DEF TypeOK
        <3>3. QED
            BY <2>2, <3>2, RequestsAssumption
            DEF CancelRead, Finish, SetProcessing, InitCounters, InitUnique
    <2>3. QED BY <2>1, <2>2
<1>3. ASSUME alone'[i]
      PROVE  alone[i] /\ OthersWait(i)' /\ UNCHANGED <<processing, counter, uniqueSet>>
    <2>1. alone[i]
        BY <1>3, RequestsAssumption
        DEF SingleRead, CancelRead, Check, SetProcess, SetProcessing, InitCounters, InitUnique,
            Invoke, ApproximateTotalNum, Stop, Validate, Add, GetCounter, SetCounter, AllAnalysed,
            Finish, TypeOK
    <2>2. OthersWait(i)
        BY <2>1 DEF Ends
    <2>3. CASE t \in Import
        <3>1. pc[t] \in Idle /\ SingleRead(t)
            BY <2>2, <2>3, RequestsAssumption DEF OthersWait
        <3>2. Check(t)
            BY <3>1 DEF SingleRead, Idle, SetProcess, SetProcessing, InitCounters, InitUnique,
                Invoke, ApproximateTotalNum, Stop, Validate, Add, GetCounter, SetCounter, AllAnalysed
        <3>3. pc' = [pc EXCEPT ![t] = "refused"] /\ UNCHANGED <<processing, counter, uniqueSet>>
            BY <1>3, <3>2 DEF Check, Goto
        <3>4. OthersWait(i)'
            BY <2>2, <2>3, <3>3 DEF OthersWait, TypeOK, Thread, Idle
        <3>5. QED BY <2>1, <3>3, <3>4
    <2>4. CASE t \in Cancel
        <3>1. pc[t] \in Idle \cup {"flag"} /\ CancelRead(t) /\ t \notin Import
            BY <2>2, <2>4, RequestsAssumption DEF OthersWait
        <3>2. \E k \in Import : Finish(t, k)
            BY <1>3, <3>1 DEF CancelRead, Idle, SetProcessing, InitCounters, InitUnique
        <3>3. /\ UNCHANGED <<processing, counter, uniqueSet>>
              /\ pc' = [pc EXCEPT ![t] = "flag"] \/ pc' = [pc EXCEPT ![t] = "done"]
            BY <3>2 DEF Finish, Goto, serviceVars
        <3>4. OthersWait(i)'
            BY <2>2, <2>4, <3>1, <3>3 DEF OthersWait, TypeOK, Thread, Idle
        <3>5. QED BY <2>1, <3>3, <3>4
    <2>5. QED BY <2>3, <2>4 DEF Thread
<1>4. QED BY <1>2, <1>3, OtherStep

\* Import i itself.
LEMMA ItsStep ==
    ASSUME TypeOK, ListenerInv, NEW i \in Import, Ends(i), SingleRead(i)
    PROVE  Ends(i)'
<1>1. CASE Check(i)
    <2>1. pc[i] = "idle" /\ savedValid' = savedValid /\ savedValid[i] = {} /\ ~alone[i]
        BY <1>1 DEF Check, historyVars, Ends, Reading
    <2>2. CASE processing
        <3>1. pc'[i] = "refused" /\ alone' = alone
            BY <1>1, <2>2 DEF Check, Goto, TypeOK, Thread
        <3>2. QED BY <2>1, <3>1 DEF Ends
    <2>3. CASE ~processing
        <3>1. /\ pc'[i] = "process" /\ \A t \in Thread \ {i} : pc'[t] = pc[t]
              /\ alone'[i] <=> \A t \in Thread \ {i} : pc[t] \in Idle
            BY <1>1, <2>3 DEF Check, Goto, TypeOK, Thread, Active
        <3>2. alone'[i] => OthersWait(i)'
            BY <3>1, RequestsAssumption DEF OthersWait, Thread
        <3>3. Undisturbed(i)'
            BY <3>1 DEF Undisturbed, Reading
        <3>4. QED BY <2>1, <3>1, <3>2, <3>3 DEF Ends
    <2>4. QED BY <2>2, <2>3
<1>2. CASE SetProcess(i)
    <2>1. /\ pc[i] = "process" /\ Goto(i, "flag") /\ pc'[i] = "flag"
          /\ UNCHANGED <<alone, sheet, savedValid>>
        BY <1>2 DEF SetProcess, Goto, TypeOK, Thread, historyVars
    <2>2. Undisturbed(i)'
        BY <2>1 DEF Undisturbed, Reading
    <2>3. QED BY <2>1, <2>2, OwnStep DEF Ends, Reading, Place, Idle
<1>3. CASE SetProcessing(i)
    <2>1. /\ pc[i] = "flag" /\ Goto(i, "counters") /\ pc'[i] = "counters" /\ processing'
          /\ UNCHANGED <<alone, sheet, savedValid>>
        BY <1>3 DEF SetProcessing, Goto, TypeOK, Thread, historyVars, importVars
    <2>2. Undisturbed(i)'
        BY <2>1 DEF Undisturbed, Reading
    <2>3. QED BY <2>1, <2>2, OwnStep DEF Ends, Reading, Place, Idle
<1>4. CASE InitCounters(i)
    <2>1. /\ pc[i] = "counters" /\ Goto(i, "unique") /\ pc'[i] = "unique" /\ processing' = processing
          /\ counter' = [c \in Counters |-> 0]
          /\ UNCHANGED <<alone, sheet, savedValid>>
        BY <1>4 DEF InitCounters, Goto, TypeOK, Thread, historyVars, importVars
    <2>2. Undisturbed(i) => Undisturbed(i)'
        BY <2>1 DEF Undisturbed, Reading
    <2>3. QED BY <2>1, <2>2, OwnStep DEF Ends, Reading, Place, Idle
<1>5. QED
    BY <1>1, <1>2, <1>3, <1>4, BeginStep, InvokeAlone, TotalAlone, StopAlone, ValidateAlone,
       AddAlone, GetAlone, SetAlone, DoneAlone DEF SingleRead

LEMMA AloneStep ==
    ASSUME AloneInv, [Next]_vars
    PROVE  AloneInv'
<1> USE DEF AloneInv
<1>1. ListenerInv' /\ TypeOK'
    <2>1. ListenerInv' /\ SharedType'
        BY ListenerStep, SharedStep
    <2>2. SharedType' /\ ListenerType' => TypeOK'
        BY DEF TypeOK, SharedType, ListenerType
    <2>3. QED BY <2>1, <2>2 DEF ListenerInv
<1>2. ASSUME NEW i \in Import PROVE Ends(i)'
    <2>1. CASE UNCHANGED vars
        <3>1. OthersWait(i) => OthersWait(i)'
            BY <2>1 DEF vars, OthersWait
        <3>2. /\ Ends(i)
              /\ UNCHANGED <<pc, sheet, row, counting, validList, savedValid, alone, processing,
                             counter, uniqueSet>>
            BY <2>1 DEF vars
        <3>3. alone'[i] => alone[i] /\ OthersWait(i)'
            BY <3>1, <3>2 DEF Ends
        <3>4. QED BY <3>2, <3>3, OtherStep
    <2>2. ASSUME NEW t \in Import, SingleRead(t) PROVE Ends(i)'
        BY <2>2, ItsStep, OthersStep DEF Thread
    <2>3. ASSUME NEW c \in Cancel, CancelRead(c) PROVE Ends(i)'
        BY <2>3, OthersStep, RequestsAssumption DEF Thread
    <2>4. QED BY <2>1, <2>2, <2>3 DEF Next
<1>3. QED BY <1>1, <1>2

(* While no other import has started beside i, the two lists, the counters *)
(* and the lists of codes are those its own rows have made, step by step.  *)
THEOREM LoneImports == Spec => []AloneInv
<1>1. Init => AloneInv
    <2> SUFFICES ASSUME Init PROVE AloneInv
        OBVIOUS
    <2>1. ListenerInv
        BY InitListeners
    <2>2. SharedType
        BY DEF Init, SharedType, Counters
    <2>3. ASSUME NEW i \in Import PROVE Ends(i)
        BY DEF Ends, Init, Thread
    <2>4. QED BY <2>1, <2>2, <2>3, TypeParts DEF AloneInv, ListenerInv
<1>2. QED BY <1>1, AloneStep, PTL DEF Spec

\* A function that tells the elements of a finite set apart keeps their number.
LEMMA SameNumber ==
    ASSUME NEW S, IsFiniteSet(S), NEW f, DOMAIN f = S, \A m, n \in S : f[m] = f[n] => m = n
    PROVE  Cardinality(S) = Cardinality({f[n] : n \in S})
<1> DEFINE T == {f[n] : n \in S}
           g == [n \in S |-> f[n]]
<1>1. g \in Bijection(S, T)
    BY DEF Bijection, Injection, Surjection, IsInjective
<1>2. ExistsBijection(S, T)
    BY <1>1 DEF ExistsBijection
<1> HIDE DEF T
<1>3. QED BY <1>2, FS_Bijection DEF T

(* An import that no other request disturbs saves exactly one row of every *)
(* code a correct row of its sheet has, and the counters watch() shows are *)
(* those of its rows, behind the row in hand by one at most; any number of *)
(* refused imports and late cancels may run beside it.                     *)
THEOREM LoneImportsAreExact == Spec => []ExactWhenAlone
<1>1. ASSUME AloneInv, NEW i \in Import, alone[i], Len(sheet[i]) <= LimitNum
      PROVE  /\ pc[i] = "done" =>
                /\ Cardinality(savedValid[i]) = Cardinality(ValidKeys(i))
                /\ ValidKeys(i) =
                     {sheet[i][n].key : n \in {m \in DOMAIN sheet[i] : sheet[i][m].correct}}
                /\ counter["total"] = Len(sheet[i])
                /\ counter["valid"] = Cardinality(savedValid[i])
                /\ counter["invalid"] = Len(sheet[i]) - Cardinality(savedValid[i])
             /\ Running(i) =>
                /\ counter["total"] = row[i]
                /\ counter["valid"] + counter["invalid"] - counter["total"] \in {0, 1}
    <2>1. TypeOK /\ ListenerInv /\ Ends(i) /\ Undisturbed(i)
        BY <1>1 DEF AloneInv, Ends
    <2>2. counter["valid"] \in Nat /\ counter["invalid"] \in Nat /\ row[i] \in Nat
        BY <2>1 DEF TypeOK, Counters
    <2>3. CASE Running(i)
        BY <2>1, <2>2, <2>3 DEF Running, Undisturbed, Counted, Reading
    <2>4. CASE pc[i] = "done"
        <3>1. /\ Counted(i) /\ Deduped(i) /\ ~Listed(i) /\ Joined(i) = Len(sheet[i])
              /\ row[i] = Len(sheet[i]) /\ Valid(i) = savedValid[i]
            BY <2>1, <2>4, RowFacts DEF Undisturbed, Ends, Listed, Joined, Valid
        <3>2. /\ counter["total"] = Len(sheet[i])
              /\ counter["valid"] = Cardinality(savedValid[i])
              /\ counter["valid"] + counter["invalid"] = Len(sheet[i])
            BY <2>2, <3>1 DEF Counted
        <3> DEFINE S == savedValid[i]
                   n == Len(sheet[i])
        <3>3. DOMAIN sheet[i] = 1 .. n /\ n \in Nat /\ n \in Int /\ S \subseteq 1 .. n
            <4>1. sheet[i] \in Sheets
                BY <2>1 DEF TypeOK
            <4>2. sheet[i] \in Seq([key : Key, correct : BOOLEAN])
                BY <4>1, SheetsAssumption
            <4>3. QED BY <3>1, <4>2 DEF Deduped
        <3>4. IsFiniteSet(S)
            <4> HIDE DEF n, S
            <4>1. IsFiniteSet(1 .. n)
                BY <3>3, FS_Interval
            <4>2. QED BY <3>3, <4>1, FS_Subset
        <3>5. /\ ValidKeys(i) = {KeyOf(i, m) : m \in S} /\ ValidKeys(i) = uniqueSet
              /\ \A l, m \in S : KeyOf(i, l) = KeyOf(i, m) => l = m
            BY <3>1 DEF ValidKeys, KeyOf, Deduped
        <3>6. Cardinality(S) = Cardinality(ValidKeys(i))
            <4> DEFINE f == [m \in S |-> KeyOf(i, m)]
            <4> HIDE DEF S
            <4>1. DOMAIN f = S /\ \A m \in S : f[m] = KeyOf(i, m)
                OBVIOUS
            <4> HIDE DEF f
            <4>2. \A l, m \in S : f[l] = f[m] => l = m
                BY <3>5, <4>1
            <4>3. Cardinality(S) = Cardinality({f[m] : m \in S})
                BY <3>4, <4>1, <4>2, SameNumber
            <4>4. {f[m] : m \in S} = ValidKeys(i)
                BY <3>5, <4>1
            <4>5. QED BY <4>3, <4>4
        <3>7. ValidKeys(i) =
                {sheet[i][m].key : m \in {l \in DOMAIN sheet[i] : sheet[i][l].correct}}
            <4>1. \A m \in S : m \in DOMAIN sheet[i] /\ sheet[i][m].correct
                BY <3>1, <3>3 DEF Deduped
            <4>2. \A m \in DOMAIN sheet[i] : sheet[i][m].correct => sheet[i][m].key \in ValidKeys(i)
                BY <3>1, <3>3, <3>5 DEF Deduped, KeyOf
            <4>3. QED BY <4>1, <4>2 DEF ValidKeys
        <3>8. QED BY <2>2, <2>4, <3>2, <3>6, <3>7 DEF Running, Reading
    <2>5. QED BY <2>3, <2>4
<1>2. AloneInv => ExactWhenAlone
    <2> SUFFICES ASSUME AloneInv PROVE ExactWhenAlone
        OBVIOUS
    <2>1. DedupedWhenAlone
        BY <1>1 DEF DedupedWhenAlone
    <2>2. CountsExactWhenAlone
        BY <1>1 DEF CountsExactWhenAlone
    <2>3. QED BY <2>1, <2>2 DEF ExactWhenAlone, AloneInv
<1>3. QED BY <1>2, LoneImports, PTL
=============================================================================
