---------------------------- MODULE ExcelImport ----------------------------
(***************************************************************************)
(* The Excel import of play-java-starter-example.  GET /excel/singleRead   *)
(* reads a sheet in the thread of its request; GET /excel/cancelRead stops *)
(* the import whose process token it names.  All requests share one        *)
(* Data1Service: its token, its processing flag, its counters and its set  *)
(* of row codes are plain fields, read and written without a lock.         *)
(*                                                                         *)
(* One action is one access to a shared field.  What a listener keeps for  *)
(* itself (its two lists, the row it is at) changes with that access.      *)
(***************************************************************************)
EXTENDS Naturals, Sequences, FiniteSets

CONSTANTS
    Import,    \* requests to singleRead
    Cancel,    \* requests to cancelRead
    Key,       \* the sha1 of id, name and localName of a row
    Sheets,    \* what test.xls may hold: sequences of [key, correct]
    BatchNum,  \* EasyExcelDataListener.batchNum
    LimitNum,  \* EasyExcelDataListener.limitNum
    HeadNum,   \* EasyExcelDataListener.headNum
    Second,    \* what TimeUtil.getFormatNow() may return
    None       \* no import, no token

ASSUME SheetsAssumption ==
    Sheets \subseteq Seq([key : Key, correct : BOOLEAN])
ASSUME NumbersAssumption ==
    /\ BatchNum \in Nat
    /\ LimitNum \in Nat
    /\ HeadNum \in Nat
ASSUME RequestsAssumption == Import \cap Cancel = {} /\ None \notin Import \cup Second

VARIABLES
    process,      \* the token of the last start()
    processing,   \* is an import in progress?
    counter,      \* totalNum, validNum and invalidNum
    approximate,  \* approximateTotalNum of the service
    uniqueSet,    \* the codes accepted by uniqueHandler
    pc,           \* pc[t]: where the thread of request t is
    sheet,        \* sheet[i]: what import i reads
    token,        \* token[i]: the process it was started under
    row,          \* row[i]: rows whose invoke() has returned
    seenTotal,    \* seenTotal[i]: approximateTotalNum of its listener
    counting,     \* counting[i]: the counter it increments and what it read
    validList, invalidList,  \* rows its listener has not persisted yet
    target,       \* target[c]: the import whose token c was given
    handled,      \* history: rows of i that found processing set
    saves,        \* history: saves[i][n]: how often row n was persisted
    savedValid,   \* history: rows of i persisted as valid
    alone         \* history: no other request ran inside import i

serviceVars  == <<process, processing, counter, approximate, uniqueSet>>
listenerVars == <<row, seenTotal, counting, validList, invalidList>>
importVars   == <<sheet, token>>
historyVars  == <<handled, saves, savedValid>>
vars == <<process, processing, counter, approximate, uniqueSet, pc, sheet,
          token, row, seenTotal, counting, validList, invalidList, target, handled,
          saves, savedValid, alone>>

Thread   == Import \cup Cancel
Counters == {"total", "valid", "invalid"}
Idle     == {"idle", "done", "refused"}
Reading  == {"next", "total", "stop", "validate", "add", "get", "set"}
Place    == Idle \cup Reading \cup {"process", "flag", "counters", "unique"}
Rows     == UNION {DOMAIN s : s \in Sheets}

TypeOK ==
    /\ process \in Second \cup {None}
    /\ processing \in BOOLEAN
    /\ counter \in [Counters -> Nat]
    /\ approximate \in Nat
    /\ uniqueSet \in SUBSET Key
    /\ pc \in [Thread -> Place]
    /\ sheet \in [Import -> Sheets]
    /\ token \in [Import -> Second \cup {None}]
    /\ row \in [Import -> Nat]
    /\ seenTotal \in [Import -> Nat]
    /\ counting \in [Import -> Counters \X Nat]
    /\ validList \in [Import -> SUBSET Rows]
    /\ invalidList \in [Import -> SUBSET Rows]
    /\ target \in [Cancel -> Import \cup {None}]
    /\ handled \in [Import -> SUBSET Rows]
    /\ saves \in [Import -> [Rows -> Nat]]
    /\ savedValid \in [Import -> SUBSET Rows]
    /\ alone \in [Import -> BOOLEAN]

\* The token of a new service is empty.
Init ==
    /\ process = None
    /\ processing = FALSE
    /\ counter = [c \in Counters |-> 0]
    /\ approximate = 0
    /\ uniqueSet = {}
    /\ pc = [t \in Thread |-> "idle"]
    /\ sheet \in [Import -> Sheets]
    /\ token = [i \in Import |-> None]
    /\ row = [i \in Import |-> 0]
    /\ seenTotal = [i \in Import |-> 0]
    /\ counting = [i \in Import |-> <<"total", 0>>]
    /\ validList = [i \in Import |-> {}]
    /\ invalidList = [i \in Import |-> {}]
    /\ target = [c \in Cancel |-> None]
    /\ handled = [i \in Import |-> {}]
    /\ saves = [i \in Import |-> [n \in Rows |-> 0]]
    /\ savedValid = [i \in Import |-> {}]
    /\ alone = [i \in Import |-> FALSE]

Goto(t, place) == pc' = [pc EXCEPT ![t] = place]
Active(t)      == pc[t] \notin Idle
Running(i)     == pc[i] \in Reading

-----------------------------------------------------------------------------
(* EasyExcelDataService.start, finish and init. *)

\* singleRead: refused while the flag is set; else it goes on to start().
Check(i) ==
    /\ pc[i] = "idle"
    /\ IF processing
       THEN /\ Goto(i, "refused")
            /\ UNCHANGED alone
       ELSE /\ Goto(i, "process")
            /\ alone' = [j \in Import |->
                 IF j = i THEN \A t \in Thread \ {i} : ~Active(t) ELSE FALSE]
    /\ UNCHANGED <<process, processing, counter, approximate, uniqueSet, target>>
    /\ UNCHANGED <<importVars, listenerVars, historyVars>>

\* Two starts in one second share their token; a thread that is held up
\* between getFormatNow() and start() may store an older second.
SetProcess(i) ==
    /\ i \in Import
    /\ pc[i] = "process"
    /\ \E second \in Second :
         /\ process' = second
         /\ token' = [token EXCEPT ![i] = second]
    /\ Goto(i, "flag")
    /\ UNCHANGED <<processing, counter, approximate, uniqueSet, sheet, target, alone>>
    /\ UNCHANGED <<listenerVars, historyVars>>

\* finish: only the caller that names the current token goes on.
Finish(c, i) ==
    /\ pc[c] = "idle"
    /\ token[i] # None
    /\ target' = [target EXCEPT ![c] = i]
    /\ Goto(c, IF token[i] = process THEN "flag" ELSE "done")
    /\ UNCHANGED <<serviceVars, importVars, listenerVars, historyVars, alone>>

\* start sets the flag and finish clears it, and both go on to init().
SetProcessing(t) ==
    /\ pc[t] = "flag"
    /\ processing' = (t \in Import)
    /\ alone' = IF t \in Import THEN alone ELSE [j \in Import |-> FALSE]
    /\ Goto(t, "counters")
    /\ UNCHANGED <<process, counter, approximate, uniqueSet, target>>
    /\ UNCHANGED <<importVars, listenerVars, historyVars>>

\* Mutant of InitCounters: init leaves the counters as they are.
InitKeepsCounters(t) ==
    /\ pc[t] = "counters"
    /\ Goto(t, "unique")
    /\ UNCHANGED <<process, processing, counter, approximate, uniqueSet, target>>
    /\ UNCHANGED <<importVars, listenerVars, historyVars, alone>>

InitCounters(t) ==
    /\ pc[t] = "counters"
    /\ counter' = [c \in Counters |-> 0]
    /\ approximate' = 0
    /\ Goto(t, "unique")
    /\ UNCHANGED <<process, processing, uniqueSet, target, alone>>
    /\ UNCHANGED <<importVars, listenerVars, historyVars>>

InitUnique(t) ==
    /\ pc[t] = "unique"
    /\ uniqueSet' = {}
    /\ Goto(t, IF t \in Import THEN "next" ELSE "done")
    /\ UNCHANGED <<process, processing, counter, approximate, target, alone>>
    /\ UNCHANGED <<importVars, listenerVars, historyVars>>

-----------------------------------------------------------------------------
(* EasyExcelDataListener: invoke for every row, doAfterAllAnalysed.         *)

\* Mutant of Current: rows are counted from 0.
CurrentFromZero(i) == row[i]

Current(i) == row[i] + 1
InvokeReturns(i) ==
    /\ row' = [row EXCEPT ![i] = @ + 1]
    /\ Goto(i, "next")

\* Mutant of Persisted: the listener keeps what it has persisted.
KeepPersisted(list, size) == list

\* What is left of a list when it is persisted at this size.
Persisted(list, size) == IF Cardinality(list) >= size THEN {} ELSE list

\* The handlers write the lists that leave the listener to the database.
Persist(i, valid, invalid, size) ==
    LET goes(list) == IF Cardinality(list) >= size THEN list ELSE {}
        written    == goes(valid) \cup goes(invalid)
    IN  /\ validList' = [validList EXCEPT ![i] = Persisted(valid, size)]
        /\ invalidList' = [invalidList EXCEPT ![i] = Persisted(invalid, size)]
        /\ savedValid' = [savedValid EXCEPT ![i] = @ \cup goes(valid)]
        /\ saves' = [saves EXCEPT ![i] =
             [n \in Rows |-> saves[i][n] + (IF n \in written THEN 1 ELSE 0)]]

\* invoke returns at once for a row that finds the flag cleared.
Invoke(i) ==
    /\ pc[i] = "next"
    /\ row[i] < Len(sheet[i])
    /\ IF processing
       THEN /\ handled' = [handled EXCEPT ![i] = @ \cup {Current(i)}]
            /\ Goto(i, "total")
            /\ UNCHANGED row
       ELSE /\ InvokeReturns(i)
            /\ UNCHANGED handled
    /\ UNCHANGED <<serviceVars, importVars, target, alone, saves, savedValid>>
    /\ UNCHANGED <<seenTotal, counting, validList, invalidList>>

\* Mutant of OutOfRange: the head row is not part of the count.
OutOfRangeOffByOne(total) == total <= HeadNum \/ total > LimitNum + HeadNum + 1

OutOfRange(total) == total <= HeadNum \/ total > LimitNum + HeadNum

ApproximateTotalNum(i) ==
    /\ pc[i] = "total"
    /\ IF seenTotal[i] = 0
       THEN /\ seenTotal' = [seenTotal EXCEPT ![i] = Len(sheet[i]) + HeadNum]
            /\ approximate' = Len(sheet[i]) + HeadNum
       ELSE UNCHANGED <<seenTotal, approximate>>
    /\ Goto(i, IF OutOfRange(seenTotal'[i]) THEN "stop" ELSE "validate")
    /\ UNCHANGED <<process, processing, counter, uniqueSet, target, alone>>
    /\ UNCHANGED <<importVars, historyVars, row, counting, validList, invalidList>>

\* setProcessing(false), whoever has set it.
Stop(i) ==
    /\ pc[i] = "stop"
    /\ processing' = FALSE
    /\ InvokeReturns(i)
    /\ UNCHANGED <<process, counter, approximate, uniqueSet, target, alone>>
    /\ UNCHANGED <<importVars, historyVars, seenTotal, counting, validList, invalidList>>

\* The row joins a list; its counters come next.
Join(i, valid) ==
    /\ IF valid
       THEN /\ validList' = [validList EXCEPT ![i] = @ \cup {Current(i)}]
            /\ UNCHANGED invalidList
       ELSE /\ invalidList' = [invalidList EXCEPT ![i] = @ \cup {Current(i)}]
            /\ UNCHANGED validList
    /\ counting' = [counting EXCEPT ![i] = <<IF valid THEN "valid" ELSE "invalid", 0>>]
    /\ Goto(i, "get")
    /\ UNCHANGED <<row, seenTotal>>

\* The bean validation and validHandler are local to the thread; a row they
\* find correct goes on to uniqueHandler, which looks for its code.
Validate(i) ==
    /\ pc[i] = "validate"
    /\ LET data == sheet[i][Current(i)] IN
       IF data.correct /\ data.key \notin uniqueSet
       THEN Goto(i, "add") /\ UNCHANGED listenerVars
       ELSE Join(i, FALSE)
    /\ UNCHANGED <<serviceVars, importVars, historyVars, target, alone>>

\* Mutant of Add: uniqueHandler looks for the code and never adds it.
ForgetToAdd(i) ==
    /\ pc[i] = "add"
    /\ Join(i, TRUE)
    /\ UNCHANGED <<serviceVars, importVars, historyVars, target, alone>>

\* HashSet.add beside another add of it may lose the code.
Add(i) ==
    /\ pc[i] = "add"
    /\ \/ uniqueSet' = uniqueSet \cup {sheet[i][Current(i)].key}
       \/ (\E j \in Import \ {i} : pc[j] = "add") /\ UNCHANGED uniqueSet
    /\ Join(i, TRUE)
    /\ UNCHANGED <<process, processing, counter, approximate, target, alone>>
    /\ UNCHANGED <<importVars, historyVars>>

\* totalNum = totalNum + 1 reads the field ...
GetCounter(i) ==
    /\ pc[i] = "get"
    /\ counting' = [counting EXCEPT ![i][2] = counter[counting[i][1]]]
    /\ Goto(i, "set")
    /\ UNCHANGED <<serviceVars, importVars, historyVars, target, alone>>
    /\ UNCHANGED <<row, seenTotal, validList, invalidList>>

Incremented(i) == [counter EXCEPT ![counting[i][1]] = counting[i][2] + 1]

\* ... and writes it: validNum or invalidNum, then totalNum.  After the
\* total a full list is persisted and the row is done.
SetCounter(i) ==
    /\ pc[i] = "set"
    /\ counter' = Incremented(i)
    /\ IF counting[i][1] = "total"
       THEN /\ Persist(i, validList[i], invalidList[i], BatchNum)
            /\ InvokeReturns(i)
            /\ UNCHANGED counting
       ELSE /\ counting' = [counting EXCEPT ![i] = <<"total", 0>>]
            /\ Goto(i, "get")
            /\ UNCHANGED <<row, validList, invalidList, saves, savedValid>>
    /\ UNCHANGED <<process, processing, approximate, uniqueSet, target, alone>>
    /\ UNCHANGED <<importVars, seenTotal, handled>>

\* doAfterAllAnalysed persists what is left, cancelled or not.
AllAnalysed(i) ==
    /\ pc[i] = "next"
    /\ row[i] = Len(sheet[i])
    /\ Persist(i, validList[i], invalidList[i], 1)
    /\ Goto(i, "done")
    /\ UNCHANGED <<serviceVars, importVars, target, alone, handled>>
    /\ UNCHANGED <<row, seenTotal, counting>>

-----------------------------------------------------------------------------
SingleRead(i) ==
    \/ Check(i) \/ SetProcess(i) \/ SetProcessing(i) \/ InitCounters(i) \/ InitUnique(i)
    \/ Invoke(i) \/ ApproximateTotalNum(i) \/ Stop(i) \/ Validate(i)
    \/ Add(i) \/ GetCounter(i) \/ SetCounter(i) \/ AllAnalysed(i)

CancelRead(c) ==
    \/ \E i \in Import : Finish(c, i)
    \/ SetProcessing(c) \/ InitCounters(c) \/ InitUnique(c)

Next ==
    \/ \E i \in Import : SingleRead(i)
    \/ \E c \in Cancel : CancelRead(c)

Spec == Init /\ [][Next]_vars

-----------------------------------------------------------------------------
(* Properties *)

\* Whatever runs beside it, an import persists no row it skipped and no row
\* twice, and at its end it has persisted every row it handled, unless the
\* sheet is out of range: the flushes of invoke and of doAfterAllAnalysed
\* neither overlap nor leave a gap.
RowsSavedOnce ==
    \A i \in Import :
        /\ \A n \in Rows : saves[i][n] <= (IF n \in handled[i] THEN 1 ELSE 0)
        /\ pc[i] = "done" /\ ~OutOfRange(seenTotal[i]) =>
             \A n \in handled[i] : saves[i][n] = 1

\* A sheet of more than LimitNum rows is never persisted in part, even when
\* another request sets the flag again that its first row has cleared.
OversizedSavesNothing ==
    \A i \in Import, n \in Rows :
        Len(sheet[i]) > LimitNum => saves[i][n] = 0

ValidKeys(i) == {sheet[i][n].key : n \in savedValid[i]}

\* An import that no other request disturbs persists as valid one row of
\* every code that a correct row of its sheet has.
DedupedWhenAlone ==
    \A i \in Import :
        pc[i] = "done" /\ alone[i] /\ Len(sheet[i]) <= LimitNum =>
            /\ Cardinality(savedValid[i]) = Cardinality(ValidKeys(i))
            /\ ValidKeys(i) =
                 {sheet[i][n].key : n \in {m \in DOMAIN sheet[i] : sheet[i][m].correct}}

\* What watch() shows of an import that no other request disturbs: at its end
\* the counters are those of its rows, and before it the total is behind the
\* other two by the row in hand at most.
CountsExactWhenAlone ==
    \A i \in Import : alone[i] /\ Len(sheet[i]) <= LimitNum =>
        /\ pc[i] = "done" =>
             /\ counter["total"] = Len(sheet[i])
             /\ counter["valid"] = Cardinality(savedValid[i])
             /\ counter["invalid"] = Len(sheet[i]) - Cardinality(savedValid[i])
        /\ Running(i) =>
             /\ counter["total"] = row[i]
             /\ counter["valid"] + counter["invalid"] - counter["total"] \in {0, 1}

\* ExceptionEnum.java:19 tells a refused caller that an import is in progress.
RefusedOnlyWhileRunning ==
    [][\A i \in Import :
        pc[i] = "idle" /\ pc'[i] = "refused" => \E j \in Import : Active(j)]_vars

\* An import that nobody disturbs saves each correct code once and shows the
\* counts of its own rows.
ExactWhenAlone == TypeOK /\ DedupedWhenAlone /\ CountsExactWhenAlone
=============================================================================
