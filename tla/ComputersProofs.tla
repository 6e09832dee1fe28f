--------------------------- MODULE ComputersProofs ---------------------------
(***************************************************************************)
(* Proofs about Computers.  What a request holds while its task is queued  *)
(* or has begun is enough to know every row that is ever written, and that *)
(* the ids a sequence has not given yet have no row.                       *)
(***************************************************************************)
EXTENDS Computers, FiniteSetTheorems, FunctionTheorems, TLAPS

Operation == {"none", "list", "edit", "create", "save", "update", "delete"}

\* The task of r is in the pool or waits for it.
Pending(r) == pc[r] \in {"queued", "opened"}

\* The form of r makes a row, unless its company is unknown.
FormAccepted(r) ==
    Pending(r) /\ op[r] \in {"save", "update"} => arg[r].form \in Form /\ Valid(arg[r].form)

\* The id of r is one of those people ask for.
IdAsked(r) == Pending(r) /\ op[r] \in {"edit", "update", "delete"} => arg[r].id \in Id

\* An Ebean update that goes on has found a row.
FoundARow(r) == pc[r] = "opened" /\ op[r] = "update" => found[r] \in Row

TypeInv ==
    /\ TypeOK
    /\ op \in [Req -> Operation]
    /\ arg \in [Req -> [id : Nat, form : Form \cup {None}]]

RequestInv == \A r \in Req : FormAccepted(r) /\ IdAsked(r) /\ FoundARow(r)

\* What the sequence has not given yet has no row.
FreshIds == edition = "anorm" => \A id \in Id : id >= nextId => rows[id] = None

Inv == TypeInv /\ RequestInv /\ FreshIds

-----------------------------------------------------------------------------
\* A form that was accepted and whose company is known is a row.
LEMMA FormIsRow ==
    ASSUME NEW f \in Form, Valid(f), f.company # Unknown
    PROVE  f \in Row
BY ComputersAssumption DEF Valid, Row

\* The place of a request that is answered is free, and no other changes.
LEMMA AnswerFrees ==
    ASSUME NEW r \in Req, NEW answer \in Answers, TypeInv, RequestInv, Answer(r, answer)
    PROVE  /\ Free(r)'
           /\ edition' = edition
           /\ \A s \in Req : s # r => pc'[s] = pc[s] /\ op'[s] = op[s]
                                      /\ arg'[s] = arg[s] /\ found'[s] = found[s]
           /\ RequestInv'
           /\ pc' \in [Req -> {"idle", "queued", "opened", "rendering", "waiting"} \cup Answers]
           /\ options' \in [Req -> {"none", "queued", "done"}]
           /\ found' \in [Req -> Row \cup {None}]
           /\ op' \in [Req -> Operation]
           /\ arg' \in [Req -> [id : Nat, form : Form \cup {None}]]
<1>1. pc' = [pc EXCEPT ![r] = answer] /\ op' = [op EXCEPT ![r] = "none"]
      /\ arg' = [arg EXCEPT ![r] = NoArg] /\ options' = [options EXCEPT ![r] = "none"]
      /\ found' = [found EXCEPT ![r] = None] /\ edition' = edition
  BY DEF Answer, Goto
<1>2. pc'[r] = answer /\ op'[r] = "none"
  BY <1>1 DEF TypeInv, TypeOK
<1>3. \A s \in Req : s # r => pc'[s] = pc[s] /\ op'[s] = op[s]
                              /\ arg'[s] = arg[s] /\ found'[s] = found[s]
  BY <1>1 DEF TypeInv, TypeOK
<1>4. NoArg \in [id : Nat, form : Form \cup {None}]
  BY DEF NoArg
<1>5. RequestInv'
  <2> SUFFICES ASSUME NEW s \in Req PROVE (FormAccepted(s) /\ IdAsked(s) /\ FoundARow(s))'
    BY DEF RequestInv
  <2>1. CASE s = r
    BY <1>2, <2>1 DEF FormAccepted, IdAsked, FoundARow, Pending, Answers
  <2>2. CASE s # r
    BY <1>3, <2>2 DEF RequestInv, FormAccepted, IdAsked, FoundARow, Pending, Valid
  <2> QED BY <2>1, <2>2
<1> QED BY <1>1, <1>2, <1>3, <1>4, <1>5 DEF Free, TypeInv, TypeOK, Operation

-----------------------------------------------------------------------------
(* Steps that leave the table alone *)

Place == {"idle", "queued", "opened", "rendering", "waiting"} \cup Answers

LEMMA AskStep ==
    ASSUME NEW r \in Req, NEW operation \in Operation, NEW id \in Nat,
           NEW form \in Form \cup {None}, NEW place \in {"queued", "waiting"},
           NEW companies \in {"none", "queued"},
           place = "queued" /\ operation \in {"save", "update"} => form \in Form /\ Valid(form),
           operation \in {"edit", "update", "delete"} => id \in Id \/ place = "waiting",
           Ask(r, operation, id, form, place, companies), Inv
    PROVE  Inv' /\ rows' = rows
<1>1. op' = [op EXCEPT ![r] = operation] /\ pc' = [pc EXCEPT ![r] = place]
      /\ arg' = [arg EXCEPT ![r] = [id |-> id, form |-> form]]
      /\ options' = [options EXCEPT ![r] = companies] /\ found' = found
      /\ edition' = edition /\ rows' = rows /\ nextId' = nextId
  BY DEF Ask, Goto, table
<1>2. op'[r] = operation /\ pc'[r] = place /\ arg'[r] = [id |-> id, form |-> form]
  BY <1>1 DEF Inv, TypeInv, TypeOK
<1>3. \A s \in Req : s # r => pc'[s] = pc[s] /\ op'[s] = op[s]
                              /\ arg'[s] = arg[s] /\ found'[s] = found[s]
  BY <1>1 DEF Inv, TypeInv, TypeOK
<1>4. TypeInv'
  BY <1>1 DEF Inv, TypeInv, TypeOK
<1>5. RequestInv'
  <2> SUFFICES ASSUME NEW s \in Req PROVE (FormAccepted(s) /\ IdAsked(s) /\ FoundARow(s))'
    BY DEF RequestInv
  <2>1. CASE s = r
    BY <1>2, <2>1 DEF FormAccepted, IdAsked, FoundARow, Pending, Valid
  <2>2. CASE s # r
    BY <1>3, <2>2 DEF Inv, RequestInv, FormAccepted, IdAsked, FoundARow, Pending, Valid
  <2> QED BY <2>1, <2>2
<1>6. FreshIds'
  BY <1>1 DEF Inv, FreshIds
<1> QED BY <1>1, <1>4, <1>5, <1>6 DEF Inv

\* A task goes from one place to another and may have read a row.
LEMMA MoveStep ==
    ASSUME NEW r \in Req, NEW place \in Place, NEW row \in Row \cup {None},
           place \in {"queued", "opened"} => Pending(r),
           place = "opened" /\ op[r] = "update" => row \in Row,
           pc' = [pc EXCEPT ![r] = place], found' = [found EXCEPT ![r] = row],
           options' \in [Req -> {"none", "queued", "done"}],
           UNCHANGED <<edition, rows, nextId, op, arg>>, Inv
    PROVE  Inv' /\ rows' = rows
<1>1. pc'[r] = place /\ found'[r] = row
  BY DEF Inv, TypeInv, TypeOK
<1>2. \A s \in Req : s # r => pc'[s] = pc[s] /\ found'[s] = found[s]
  BY DEF Inv, TypeInv, TypeOK
<1>3. TypeInv'
  BY DEF Inv, TypeInv, TypeOK, Place
<1>4. RequestInv'
  <2> SUFFICES ASSUME NEW s \in Req PROVE (FormAccepted(s) /\ IdAsked(s) /\ FoundARow(s))'
    BY DEF RequestInv
  <2>1. CASE s = r
    BY <1>1, <2>1 DEF Inv, RequestInv, FormAccepted, IdAsked, FoundARow, Pending, Valid
  <2>2. CASE s # r
    BY <1>2, <2>2 DEF Inv, RequestInv, FormAccepted, IdAsked, FoundARow, Pending, Valid
  <2> QED BY <2>1, <2>2
<1>5. FreshIds'
  BY DEF Inv, FreshIds
<1> QED BY <1>3, <1>4, <1>5 DEF Inv

LEMMA RequestStep ==
    ASSUME NEW r \in Req, Request(r), Inv
    PROVE  Inv' /\ rows' = rows
<1>1. CASE AskPage(r)
  <2>1. PICK p \in 0..MaxPage : Ask(r, "list", p, None, "queued", "none")
    BY <1>1 DEF AskPage
  <2>2. p \in Nat
    BY ComputersAssumption
  <2> QED BY <2>1, <2>2, AskStep DEF Operation
<1>2. CASE AskDelete(r)
  <2>1. PICK id \in Id : Ask(r, "delete", id, None, "queued", "none")
    BY <1>2 DEF AskDelete
  <2>2. id \in Nat
    BY ComputersAssumption DEF Id
  <2> QED BY <2>1, <2>2, AskStep DEF Operation
<1>3. CASE AskEdit(r)
  <2>1. PICK id \in Id :
           Ask(r, "edit", id, None, "queued", IF edition = "ebean" THEN "queued" ELSE "none")
    BY <1>3 DEF AskEdit
  <2>2. id \in Nat
    BY ComputersAssumption DEF Id
  <2>3. (IF edition = "ebean" THEN "queued" ELSE "none") \in {"none", "queued"}
    OBVIOUS
  <2> QED BY <2>1, <2>2, <2>3, AskStep DEF Operation
<1>4. CASE AskForm(r)
  <2>1. CASE Ask(r, "create", 0, None, "waiting", "queued")
    BY <2>1, AskStep DEF Operation
  <2>2. ASSUME NEW form \in Form, NEW operation \in {"save", "update"},
               Ask(r, operation, 0, form, "waiting", "queued")
        PROVE  Inv' /\ rows' = rows
    BY <2>2, AskStep DEF Operation
  <2> QED BY <1>4, <2>1, <2>2 DEF AskForm
<1>5. CASE AskSave(r)
  <2>1. PICK form \in Form : Valid(form) /\ Ask(r, "save", 0, form, "queued", "none")
    BY <1>5 DEF AskSave
  <2> QED BY <2>1, AskStep DEF Operation
<1>6. CASE AskUpdate(r)
  <2>1. PICK form \in Form, id \in Id :
           Valid(form) /\ Ask(r, "update", id, form, "queued", "none")
    BY <1>6 DEF AskUpdate
  <2>2. id \in Nat
    BY ComputersAssumption DEF Id
  <2> QED BY <2>1, <2>2, AskStep DEF Operation
<1> QED BY <1>1, <1>2, <1>3, <1>4, <1>5, <1>6 DEF Request

-----------------------------------------------------------------------------
(* Steps of the pool *)

\* An answer whose statement leaves the table as it is.
LEMMA AnswerKeeps ==
    ASSUME NEW r \in Req, NEW answer \in Answers, Answer(r, answer), Inv,
           rows' = rows, nextId' \in Nat, nextId' >= nextId
    PROVE  Inv'
<1>1. TypeInv'
  BY AnswerFrees DEF Inv, TypeInv, TypeOK
<1>2. FreshIds'
  <2>1. edition' = edition
    BY AnswerFrees DEF Inv
  <2> SUFFICES ASSUME edition = "anorm", NEW id \in Id, id >= nextId' PROVE rows[id] = None
    BY <2>1 DEF FreshIds
  <2>2. id \in Nat /\ nextId \in Nat
    BY ComputersAssumption DEF Id, Inv, TypeInv, TypeOK
  <2> QED BY <2>2 DEF Inv, FreshIds
<1> QED BY <1>1, <1>2, AnswerFrees DEF Inv

\* An answer whose statement writes one row.
LEMMA AnswerWrites ==
    ASSUME NEW r \in Req, NEW answer \in Answers, Answer(r, answer), Inv,
           NEW x \in Nat, NEW row \in Row \cup {None},
           rows' = [rows EXCEPT ![x] = row], nextId' \in Nat, nextId' >= nextId,
           edition = "anorm" /\ x >= nextId' => row = None
    PROVE  Inv'
<1>1. TypeInv'
  <2>1. rows' \in [Id -> Row \cup {None}]
    BY DEF Inv, TypeInv, TypeOK
  <2>2. nextId' \in Nat \ {0}
    BY DEF Inv, TypeInv, TypeOK
  <2> QED BY <2>1, <2>2, AnswerFrees DEF Inv, TypeInv, TypeOK
<1>2. FreshIds'
  <2>1. edition' = edition
    BY AnswerFrees DEF Inv
  <2> SUFFICES ASSUME edition = "anorm", NEW id \in Id, id >= nextId' PROVE rows'[id] = None
    BY <2>1 DEF FreshIds
  <2>2. id \in Nat /\ nextId \in Nat
    BY ComputersAssumption DEF Id, Inv, TypeInv, TypeOK
  <2>3. rows[id] = None
    BY <2>2 DEF Inv, FreshIds
  <2>4. rows'[id] = IF id = x THEN row ELSE rows[id]
    BY DEF Inv, TypeInv, TypeOK
  <2> QED BY <2>3, <2>4
<1> QED BY <1>1, <1>2, AnswerFrees DEF Inv

\* What a step may do to the rows: nothing, one update or one insert.
RowsChange ==
    \/ rows' = rows
    \/ \E r \in Req :
          /\ ~Free(r) /\ Free(r)'
          /\ \/ rows' = [rows EXCEPT ![arg[r].id] = None]
             \/ /\ op[r] = "update" /\ rows[arg[r].id] # None
                /\ \/ rows' = [rows EXCEPT ![arg[r].id] = arg[r].form]
                   \/ /\ edition = "ebean"
                      /\ rows' = [rows EXCEPT ![arg[r].id] = Merged(@, r)]
             \/ /\ op[r] = "save" /\ rows' = [rows EXCEPT ![nextId] = arg[r].form]
                /\ edition = "anorm" => nextId' = nextId + 1
                /\ edition = "ebean" => rows[nextId] = None

LEMMA ReadStep ==
    ASSUME NEW r \in Req, Inv,
           \/ ListCompanies(r) \/ ShowForm(r) \/ OpenPage(r) \/ ReadItems(r)
           \/ CountRows(r) \/ Lookup(r) \/ FindToUpdate(r) \/ FindToDelete(r)
    PROVE  Inv' /\ rows' = rows
<1> USE DEF Reads, table, task, Goto
<1>1. pc[r] \in Place /\ found[r] \in Row \cup {None}
      /\ pc = [pc EXCEPT ![r] = pc[r]] /\ found = [found EXCEPT ![r] = found[r]]
  BY DEF Inv, TypeInv, TypeOK, Place
<1>2. pc[r] = "opened" /\ op[r] = "update" => found[r] \in Row
  BY DEF Inv, RequestInv, FoundARow
<1>3. options \in [Req -> {"none", "queued", "done"}] /\ nextId \in Nat
  BY DEF Inv, TypeInv, TypeOK
<1>4. ASSUME NEW answer \in Answers, Answer(r, answer), UNCHANGED <<rows, nextId>>
      PROVE  Inv'
  <2>1. nextId' \in Nat /\ nextId' >= nextId
    BY <1>3, <1>4
  <2> QED BY <1>4, <2>1, AnswerKeeps
<1>5. CASE ListCompanies(r)
  <2>1. options' \in [Req -> {"none", "queued", "done"}]
    BY <1>5, <1>3 DEF ListCompanies
  <2>2. UNCHANGED <<pc, found, edition, rows, nextId, op, arg>>
    BY <1>5 DEF ListCompanies
  <2>3. pc' = [pc EXCEPT ![r] = pc[r]] /\ found' = [found EXCEPT ![r] = found[r]]
    BY <1>1, <2>2
  <2> QED BY <1>1, <1>2, <2>1, <2>2, <2>3, MoveStep DEF Pending
<1>6. CASE ShowForm(r)
  <2>1. PICK answer \in Answers : Answer(r, answer)
    <3>1. (IF op[r] \in {"save", "update"} THEN "badRequest"
           ELSE IF op[r] = "edit" /\ found[r] = None THEN "error"
           ELSE "ok") \in Answers
      BY DEF Answers
    <3> QED BY <1>6, <3>1 DEF ShowForm
  <2> QED BY <1>6, <2>1, <1>4 DEF ShowForm
<1>7. CASE OpenPage(r)
  <2>1. pc' = [pc EXCEPT ![r] = "rendering"] /\ UNCHANGED <<options, found>>
        /\ UNCHANGED <<edition, rows, nextId, op, arg>>
    BY <1>7 DEF OpenPage
  <2> QED BY <1>1, <1>3, <2>1, MoveStep DEF Place
<1>8. CASE ReadItems(r)
  <2>1. UNCHANGED <<options, found, edition, rows, nextId, op, arg>> /\ op[r] = op[r]
    BY <1>8 DEF ReadItems
  <2>2. CASE Runs(r, "list") /\ pc' = [pc EXCEPT ![r] = "opened"]
    BY <1>1, <1>3, <2>1, <2>2, MoveStep DEF Runs, Pending, Place
  <2>3. CASE pc' = [pc EXCEPT ![r] = "ok"]
    BY <1>1, <1>3, <2>1, <2>3, MoveStep DEF Place, Answers
  <2> QED BY <1>8, <2>2, <2>3 DEF ReadItems
<1>9. CASE CountRows(r)
  <2>1. UNCHANGED <<options, found, edition, rows, nextId, op, arg>>
    BY <1>9 DEF CountRows
  <2>2. PICK place \in {"ok", "rendering"} : pc' = [pc EXCEPT ![r] = place]
    BY <1>9 DEF CountRows
  <2>3. place \in Place /\ place \notin {"queued", "opened"}
    BY DEF Place, Answers
  <2> QED BY <1>1, <1>3, <2>1, <2>2, <2>3, MoveStep
<1>10. CASE Lookup(r)
  <2>1. UNCHANGED <<rows, nextId>>
    BY <1>10 DEF Lookup
  <2>2. CASE Answer(r, "notFound")
    BY <2>1, <2>2, <1>4 DEF Answers
  <2>3. CASE ~Answer(r, "notFound")
    <3>1. pc' = [pc EXCEPT ![r] = "waiting"]
          /\ found' = [found EXCEPT ![r] = rows[arg[r].id]]
          /\ UNCHANGED <<edition, op, arg>>
          /\ options' = [options EXCEPT ![r] = IF edition = "anorm" THEN "queued" ELSE @]
      BY <1>10, <2>3 DEF Lookup
    <3>2. rows[arg[r].id] \in Row \cup {None}
      BY <1>10 DEF Lookup, Runs, Inv, TypeInv, TypeOK, RequestInv, IdAsked, Pending
    <3>3. options' \in [Req -> {"none", "queued", "done"}]
      BY <1>3, <3>1
    <3> QED BY <2>1, <3>1, <3>2, <3>3, MoveStep DEF Place
  <2> QED BY <2>2, <2>3
<1>11. CASE FindToUpdate(r)
  <2>1. UNCHANGED <<rows, nextId>>
    BY <1>11 DEF FindToUpdate
  <2>2. CASE Answer(r, "redirect")
    BY <2>1, <2>2, <1>4 DEF Answers
  <2>3. CASE ~Answer(r, "redirect")
    <3>1. pc' = [pc EXCEPT ![r] = "opened"]
          /\ found' = [found EXCEPT ![r] = rows[arg[r].id]]
          /\ UNCHANGED <<edition, op, arg, options>> /\ rows[arg[r].id] # None
      BY <1>11, <2>3 DEF FindToUpdate
    <3>2. rows[arg[r].id] \in Row \cup {None}
      BY <1>11 DEF FindToUpdate, Runs, Inv, TypeInv, TypeOK, RequestInv, IdAsked, Pending
    <3>3. Pending(r)
      BY <1>11 DEF FindToUpdate, Runs, Pending
    <3> QED BY <1>3, <2>1, <3>1, <3>2, <3>3, MoveStep DEF Place
  <2> QED BY <2>2, <2>3
<1>12. CASE FindToDelete(r)
  <2>1. UNCHANGED <<rows, nextId>> /\ Pending(r) /\ op[r] = "delete"
    BY <1>12 DEF FindToDelete, Runs, Pending
  <2>2. CASE Answer(r, "redirect")
    BY <2>1, <2>2, <1>4 DEF Answers
  <2>3. CASE ~Answer(r, "redirect")
    <3>1. pc' = [pc EXCEPT ![r] = "opened"] /\ UNCHANGED <<edition, op, arg, options, found>>
      BY <1>12, <2>3 DEF FindToDelete
    <3> QED BY <1>1, <1>3, <2>1, <3>1, MoveStep DEF Place
  <2> QED BY <2>2, <2>3
<1> QED BY <1>5, <1>6, <1>7, <1>8, <1>9, <1>10, <1>11, <1>12

\* The columns Ebean writes make a row of the two it had.
LEMMA MergedIsRow ==
    ASSUME NEW r \in Req, NEW row \in Row, found[r] \in Row, arg[r].form \in Row
    PROVE  Merged(row, r) \in Row
BY DEF Merged, Row

LEMMA WriteStep ==
    ASSUME NEW r \in Req, Inv,
           \/ UpdateStatement(r) \/ UpdateFound(r) \/ InsertNext(r) \/ InsertNow(r)
           \/ DeleteRow(r)
    PROVE  Inv' /\ RowsChange
<1> USE DEF Write
<1>1. nextId \in Nat /\ rows \in [Id -> Row \cup {None}] /\ edition \in {"ebean", "anorm"}
  BY DEF Inv, TypeInv, TypeOK
<1>2. "ok" \in Answers /\ "error" \in Answers /\ "redirect" \in Answers
  BY DEF Answers
<1>3. ASSUME NEW answer \in Answers, Answer(r, answer), rows' = rows,
             nextId' \in Nat, nextId' >= nextId
      PROVE  Inv' /\ RowsChange
  BY <1>3, AnswerKeeps DEF RowsChange
<1>4. ASSUME NEW answer \in Answers, Answer(r, answer) PROVE Free(r)'
  BY <1>4, AnswerFrees DEF Inv
<1>5. ASSUME Pending(r) PROVE ~Free(r)
  BY <1>5 DEF Pending, Free, Answers
<1>6. ASSUME Pending(r), op[r] \in {"save", "update"}, arg[r].form.company # Unknown
      PROVE  arg[r].form \in Row
  BY <1>6, FormIsRow DEF Inv, RequestInv, FormAccepted
<1>7. ASSUME Pending(r), op[r] \in {"update", "delete"}
      PROVE  arg[r].id \in Id /\ arg[r].id \in Nat
  BY <1>7, ComputersAssumption DEF Inv, RequestInv, IdAsked, Id
<1>8. nextId >= nextId
  BY <1>1
<1>9. \A id \in Id : edition = "anorm" /\ id >= nextId => rows[id] = None
  BY DEF Inv, FreshIds
<1>10. CASE UpdateStatement(r)
  <2>1. Pending(r) /\ op[r] = "update" /\ nextId' = nextId
    BY <1>10 DEF UpdateStatement, Runs, Pending
  <2>2. CASE rows' = rows
    BY <1>10, <2>1, <2>2, <1>1, <1>2, <1>3, <1>8 DEF UpdateStatement
  <2>3. CASE rows' # rows
    <3>1. ~(rows[arg[r].id] # None /\ arg[r].form.company = Unknown) /\ Answer(r, "redirect")
          /\ rows' = [rows EXCEPT ![arg[r].id] =
                         IF rows[arg[r].id] = None THEN None ELSE arg[r].form]
      BY <1>10, <2>3 DEF UpdateStatement
    <3>2. rows[arg[r].id] # None
      BY <3>1, <2>1, <2>3, <1>1, <1>7
    <3>3. rows' = [rows EXCEPT ![arg[r].id] = arg[r].form] /\ arg[r].form \in Row
      BY <3>1, <3>2, <2>1, <1>6
    <3>4. edition = "anorm" => ~(arg[r].id >= nextId')
      BY <3>2, <2>1, <1>7, <1>9
    <3>5. Inv'
      BY <3>1, <3>3, <3>4, <2>1, <1>1, <1>2, <1>7, <1>8, AnswerWrites
    <3> QED BY <3>1, <3>2, <3>3, <3>5, <2>1, <1>2, <1>4, <1>5 DEF RowsChange
  <2> QED BY <2>2, <2>3
<1>11. CASE UpdateFound(r)
  <2>1. Pending(r) /\ op[r] = "update" /\ nextId' = nextId /\ pc[r] = "opened"
        /\ edition = "ebean"
    BY <1>11 DEF UpdateFound, GoesOn, Pending
  <2>2. CASE rows' = rows
    BY <1>11, <2>1, <2>2, <1>1, <1>2, <1>3, <1>8 DEF UpdateFound
  <2>3. CASE rows' # rows
    <3>1. rows[arg[r].id] # None /\ arg[r].form.company # Unknown /\ Answer(r, "redirect")
          /\ rows' = [rows EXCEPT ![arg[r].id] = Merged(rows[arg[r].id], r)]
      BY <1>11, <2>3 DEF UpdateFound
    <3>2. rows[arg[r].id] \in Row /\ found[r] \in Row /\ arg[r].form \in Row
      BY <3>1, <2>1, <1>1, <1>6, <1>7 DEF Inv, RequestInv, FoundARow
    <3>3. Merged(rows[arg[r].id], r) \in Row
      BY <3>2, MergedIsRow
    <3>4. edition = "anorm" => ~(arg[r].id >= nextId')
      BY <3>1, <2>1, <1>7, <1>9
    <3>5. Inv'
      BY <3>1, <3>3, <3>4, <2>1, <1>1, <1>2, <1>7, <1>8, AnswerWrites
    <3> QED BY <3>1, <3>5, <2>1, <1>2, <1>4, <1>5 DEF RowsChange
  <2> QED BY <2>2, <2>3
<1>12. CASE InsertNext(r)
  <2>1. Pending(r) /\ op[r] = "save" /\ nextId' = nextId + 1 /\ edition = "anorm"
    BY <1>12 DEF InsertNext, Runs, Pending
  <2>2. nextId' \in Nat /\ nextId' >= nextId /\ ~(nextId >= nextId')
    BY <2>1, <1>1
  <2>3. CASE arg[r].form.company = Unknown
    BY <1>12, <2>2, <2>3, <1>2, <1>3 DEF InsertNext
  <2>4. CASE arg[r].form.company # Unknown
    <3>1. Answer(r, "redirect") /\ rows' = [rows EXCEPT ![nextId] = arg[r].form]
      BY <1>12, <2>4 DEF InsertNext
    <3>2. arg[r].form \in Row
      BY <2>1, <2>4, <1>6
    <3>3. Inv'
      BY <3>1, <3>2, <2>2, <1>1, <1>2, AnswerWrites
    <3> QED BY <3>1, <3>3, <2>1, <1>2, <1>4, <1>5 DEF RowsChange
  <2> QED BY <2>3, <2>4
<1>13. CASE InsertNow(r)
  <2>1. Pending(r) /\ op[r] = "save" /\ nextId' = nextId /\ edition = "ebean"
    BY <1>13 DEF InsertNow, Runs, Pending
  <2>2. CASE arg[r].form.company = Unknown \/ rows[nextId] # None
    BY <1>13, <2>1, <2>2, <1>1, <1>2, <1>3, <1>8 DEF InsertNow
  <2>3. CASE ~(arg[r].form.company = Unknown \/ rows[nextId] # None)
    <3>1. Answer(r, "redirect") /\ rows' = [rows EXCEPT ![nextId] = arg[r].form]
          /\ rows[nextId] = None /\ arg[r].form.company # Unknown
      BY <1>13, <2>3 DEF InsertNow
    <3>2. arg[r].form \in Row
      BY <3>1, <2>1, <1>6
    <3>3. Inv'
      BY <3>1, <3>2, <2>1, <1>1, <1>2, <1>8, AnswerWrites
    <3> QED BY <3>1, <3>3, <2>1, <1>2, <1>4, <1>5 DEF RowsChange
  <2> QED BY <2>2, <2>3
<1>14. CASE DeleteRow(r)
  <2>1. Pending(r) /\ op[r] = "delete" /\ nextId' = nextId /\ Answer(r, "redirect")
        /\ rows' = [rows EXCEPT ![arg[r].id] = None]
    BY <1>14 DEF DeleteRow, Runs, GoesOn, Pending
  <2>2. Inv'
    BY <2>1, <1>1, <1>2, <1>7, <1>8, AnswerWrites
  <2> QED BY <2>1, <2>2, <1>2, <1>4, <1>5 DEF RowsChange
<1> QED BY <1>10, <1>11, <1>12, <1>13, <1>14

-----------------------------------------------------------------------------
(* The theorems *)

LEMMA InitInv == Init => Inv
<1> SUFFICES ASSUME Init PROVE Inv
  OBVIOUS
<1>1. TypeInv
  BY ComputersAssumption DEF Init, TypeInv, TypeOK, Operation, NoArg
<1>2. RequestInv
  BY DEF Init, RequestInv, FormAccepted, IdAsked, FoundARow, Pending
<1>3. FreshIds
  <2>1. \A id \in Id : id >= nextId => id \in nextId..MaxId
    BY ComputersAssumption DEF Init, Id
  <2> QED BY <2>1 DEF Init, FreshIds
<1> QED BY <1>1, <1>2, <1>3 DEF Inv

LEMMA InvStep == Inv /\ [Next]_vars => Inv' /\ RowsChange
<1> SUFFICES ASSUME Inv, [Next]_vars PROVE Inv' /\ RowsChange
  OBVIOUS
<1>1. CASE UNCHANGED vars
  BY <1>1 DEF vars, Inv, TypeInv, TypeOK, RequestInv, FormAccepted, IdAsked, FoundARow,
              Pending, Valid, FreshIds, RowsChange
<1>2. CASE Tick
  <2>1. nextId' = nextId + 1 /\ edition = "ebean"
        /\ UNCHANGED <<edition, rows, op, arg, pc, options, found>>
    BY <1>2 DEF Tick, task
  <2> QED BY <2>1 DEF Inv, TypeInv, TypeOK, RequestInv, FormAccepted, IdAsked, FoundARow,
                      Pending, Valid, FreshIds, RowsChange
<1>3. ASSUME NEW r \in Req, Request(r) PROVE Inv' /\ RowsChange
  BY <1>3, RequestStep DEF RowsChange
<1>4. ASSUME NEW r \in Req, Serve(r) PROVE Inv' /\ RowsChange
  BY <1>4, ReadStep, WriteStep DEF Serve, RowsChange
<1> QED BY <1>1, <1>2, <1>3, <1>4 DEF Next

LEMMA Invariant == Spec => []Inv
BY InitInv, InvStep, PTL DEF Spec

\* Rows, ids and tasks are what they should be for every table and pool.
THEOREM TypeCorrect == Spec => []TypeOK
<1>1. Inv => TypeOK
  BY DEF Inv, TypeInv
<1> QED BY <1>1, Invariant, PTL

\* With anorm every row written is somebody's form; inserts write forms.
THEOREM RowsAreAlwaysForms == Spec => RowsAreForms
<1>1. Inv /\ [Next]_vars =>
        [\A id \in Id :
          rows'[id] \notin {rows[id], None} /\ (edition = "anorm" \/ rows[id] = None) =>
              \E r \in Req :
                  /\ ~Free(r) /\ Free(r)'
                  /\ rows'[id] = arg[r].form
                  /\ op[r] = "save" \/ (op[r] = "update" /\ arg[r].id = id)]_vars
  <2> SUFFICES ASSUME Inv, [Next]_vars, NEW id \in Id, rows'[id] \notin {rows[id], None},
                      edition = "anorm" \/ rows[id] = None
               PROVE  \E r \in Req :
                        /\ ~Free(r) /\ Free(r)'
                        /\ rows'[id] = arg[r].form
                        /\ op[r] = "save" \/ (op[r] = "update" /\ arg[r].id = id)
    OBVIOUS
  <2>1. RowsChange /\ rows \in [Id -> Row \cup {None}]
    BY InvStep DEF Inv, TypeInv, TypeOK
  <2> QED BY <2>1 DEF RowsChange
<1> QED BY <1>1, Invariant, PTL DEF Spec, RowsAreForms

\* A row that is gone stays gone, and no id serves two computers.
THEOREM IdsServeOnce == Spec => IdsAreNeverReused
<1>1. Inv /\ [Next]_vars =>
        [\A id \in Id :
          rows[id] = None /\ rows'[id] # None =>
              id >= nextId /\ (edition = "anorm" => id < nextId')]_vars
  <2> SUFFICES ASSUME Inv, [Next]_vars, NEW id \in Id, rows[id] = None, rows'[id] # None
               PROVE  id >= nextId /\ (edition = "anorm" => id < nextId')
    OBVIOUS
  <2>1. RowsChange /\ rows \in [Id -> Row \cup {None}] /\ nextId \in Nat
    BY InvStep DEF Inv, TypeInv, TypeOK
  <2>2. id = nextId /\ (edition = "anorm" => nextId' = nextId + 1)
    BY <2>1 DEF RowsChange
  <2> QED BY <2>1, <2>2
<1> QED BY <1>1, Invariant, PTL DEF Spec, IdsAreNeverReused

\* No insert ever overwrites a computer.
THEOREM InsertsNeverOverwrite == Spec => OnlyUpdatesChangeRows
<1>1. Inv /\ [Next]_vars =>
        [\A id \in Id :
          rows[id] # None /\ rows'[id] \notin {rows[id], None} =>
              \E r \in Req : op[r] = "update" /\ arg[r].id = id /\ ~Free(r) /\ Free(r)']_vars
  <2> SUFFICES ASSUME Inv, [Next]_vars, NEW id \in Id, rows[id] # None,
                      rows'[id] \notin {rows[id], None}
               PROVE  \E r \in Req : op[r] = "update" /\ arg[r].id = id /\ ~Free(r) /\ Free(r)'
    OBVIOUS
  <2>1. RowsChange /\ rows \in [Id -> Row \cup {None}] /\ edition \in {"ebean", "anorm"}
    BY InvStep DEF Inv, TypeInv, TypeOK
  <2>2. edition = "anorm" => rows[nextId] = None \/ nextId \notin Id
    <3>1. nextId >= nextId
      BY DEF Inv, TypeInv, TypeOK
    <3> QED BY <3>1 DEF Inv, FreshIds
  <2> QED BY <2>1, <2>2 DEF RowsChange
<1> QED BY <1>1, Invariant, PTL DEF Spec, OnlyUpdatesChangeRows

\* An id names one computer for good: it is not given again, and only updates
\* of that computer change what is under it.
THEOREM RowsKeepIds == Spec => RowsKeepTheirIds
  BY IdsServeOnce, InsertsNeverOverwrite DEF RowsKeepTheirIds

-----------------------------------------------------------------------------
(* Pages: the place of a row among the rows of a table *)

Rank(S, x) == Cardinality({i \in S : i < x})

\* The rows of a table S that belong on the page that begins after k rows.
PageOf(S, k) == {x \in S : k <= Rank(S, x) /\ Rank(S, x) < k + PageSize}

LEMMA TablesAreFinite ==
    ASSUME NEW S \in SUBSET Id
    PROVE  IsFiniteSet(S) /\ Cardinality(S) \in Nat
<1>1. IsFiniteSet(Id)
  BY ComputersAssumption, FS_Interval DEF Id
<1> QED BY <1>1, FS_Subset, FS_CardinalityType

LEMMA RankInTable ==
    ASSUME NEW S \in SUBSET Id, NEW x \in S
    PROVE  Rank(S, x) \in 0..(Cardinality(S) - 1)
<1> DEFINE B == {i \in S : i < x}
<1>1. IsFiniteSet(S) /\ Cardinality(S) \in Nat
  BY TablesAreFinite
<1>2. IsFiniteSet(S \ {x}) /\ Cardinality(S \ {x}) = Cardinality(S) - 1
  BY <1>1, FS_RemoveElement
<1>3. x \in Int
  BY ComputersAssumption DEF Id
<1>4. B \in SUBSET (S \ {x})
  BY <1>3
<1>5. IsFiniteSet(B) /\ Cardinality(B) <= Cardinality(S \ {x})
  BY <1>2, <1>4, FS_Subset
<1>6. Cardinality(B) \in Nat
  BY <1>5, FS_CardinalityType
<1> QED BY <1>1, <1>2, <1>5, <1>6 DEF Rank

LEMMA RankGrows ==
    ASSUME NEW S \in SUBSET Id, NEW x \in S, NEW y \in S, x < y
    PROVE  Rank(S, x) < Rank(S, y)
<1> DEFINE B == {i \in S : i < x}
           C == {i \in S : i < y}
<1>1. S \subseteq Int /\ x \in Int /\ y \in Int
  BY ComputersAssumption DEF Id
<1>2. B \in SUBSET (C \ {x})
  <2> SUFFICES ASSUME NEW i \in S, i < x PROVE i < y /\ i # x
    OBVIOUS
  <2> QED BY <1>1
<1>3. x \in C /\ C \in SUBSET Id
  OBVIOUS
<1>4. IsFiniteSet(C) /\ Cardinality(C) \in Nat
  BY <1>3, TablesAreFinite
<1>5. IsFiniteSet(C \ {x}) /\ Cardinality(C \ {x}) = Cardinality(C) - 1
  BY <1>3, <1>4, FS_RemoveElement
<1>6. IsFiniteSet(B) /\ Cardinality(B) <= Cardinality(C \ {x})
  BY <1>2, <1>5, FS_Subset
<1>7. Cardinality(B) \in Nat
  BY <1>6, FS_CardinalityType
<1> QED BY <1>4, <1>5, <1>6, <1>7 DEF Rank

\* No two rows have the same place and no place is empty.
LEMMA RankOnto ==
    ASSUME NEW S \in SUBSET Id
    PROVE  /\ \A x, y \in S : Rank(S, x) = Rank(S, y) => x = y
           /\ \A k \in 0..(Cardinality(S) - 1) : \E x \in S : Rank(S, x) = k
<1> DEFINE T == 0..(Cardinality(S) - 1)
           f == [x \in S |-> Rank(S, x)]
<1>1. IsFiniteSet(S) /\ Cardinality(S) \in Nat
  BY TablesAreFinite
<1>2. IsFiniteSet(T) /\ Cardinality(T) = Cardinality(S)
  BY <1>1, FS_Interval, SMTT(40)
<1>3. \A x, y \in S : Rank(S, x) = Rank(S, y) => x = y
  <2> SUFFICES ASSUME NEW x \in S, NEW y \in S, x # y PROVE Rank(S, x) # Rank(S, y)
    OBVIOUS
  <2>1. x < y \/ y < x
    BY ComputersAssumption DEF Id
  <2>2. Rank(S, x) \in Int /\ Rank(S, y) \in Int
    BY RankInTable
  <2>3. Rank(S, x) < Rank(S, y) \/ Rank(S, y) < Rank(S, x)
    BY <2>1, RankGrows
  <2> QED BY <2>2, <2>3
<1>4. f \in [S -> T]
  BY RankInTable
<1>5. \A a, b \in S : f[a] = f[b] => a = b
  BY <1>3
<1>6. f \in Injection(S, T)
  <2> HIDE DEF f, T
  <2> QED BY <1>4, <1>5, Fun_IsInj
<1>7. f \in Surjection(S, T)
  <2> HIDE DEF f, T
  <2> QED BY <1>2, <1>6, FS_Injection
<1>8. \A t \in T : \E s \in S : f[s] = t
  <2> HIDE DEF f, T
  <2> QED BY <1>7, Fun_SurjectionProperties
<1> QED BY <1>3, <1>8

\* A page holds as many rows as there are left after k, and no more than fit.
LEMMA PageNumber ==
    ASSUME NEW S \in SUBSET Id, NEW k \in Nat
    PROVE  Cardinality(PageOf(S, k)) =
               IF Cardinality(S) <= k THEN 0
               ELSE IF Cardinality(S) <= k + PageSize THEN Cardinality(S) - k
               ELSE PageSize
<1> DEFINE n == Cardinality(S)
           last == IF n <= k + PageSize THEN n - 1 ELSE k + PageSize - 1
           P == PageOf(S, k)
           T == k..last
           f == [x \in P |-> Rank(S, x)]
<1>1. n \in Nat /\ PageSize \in Nat \ {0}
  BY TablesAreFinite, ComputersAssumption
<1>2. P \in SUBSET Id /\ IsFiniteSet(P)
  BY TablesAreFinite DEF PageOf
<1>3. f \in [P -> T]
  <2> SUFFICES ASSUME NEW x \in P PROVE Rank(S, x) \in T
    OBVIOUS
  <2>1. x \in S /\ k <= Rank(S, x) /\ Rank(S, x) < k + PageSize
    BY DEF PageOf
  <2>2. Rank(S, x) \in 0..(n - 1)
    BY <2>1, RankInTable
  <2> QED BY <1>1, <2>1, <2>2
<1>4. \A a, b \in P : f[a] = f[b] => a = b
  BY RankOnto DEF PageOf
<1>5. \A t \in T : \E x \in P : f[x] = t
  <2> SUFFICES ASSUME NEW t \in T PROVE \E x \in P : Rank(S, x) = t
    OBVIOUS
  <2>1. t \in 0..(n - 1) /\ k <= t /\ t < k + PageSize
    BY <1>1
  <2>2. PICK x \in S : Rank(S, x) = t
    BY <2>1, RankOnto
  <2> QED BY <2>1, <2>2 DEF PageOf
<1>6. f \in Bijection(P, T)
  <2> HIDE DEF f, P, T
  <2> QED BY <1>3, <1>4, <1>5, Fun_IsBij
<1>7. Cardinality(T) = Cardinality(P)
  <2>1. ExistsBijection(P, T)
    BY <1>6, Fun_ExistsBij
  <2> QED BY <1>2, <2>1, FS_Bijection
<1>8. last \in Int /\ Cardinality(T) = IF k > last THEN 0 ELSE last - k + 1
  <2>1. last \in Int
    BY <1>1
  <2> HIDE DEF last
  <2> QED BY <2>1, FS_Interval
<1> QED BY <1>1, <1>7, <1>8

-----------------------------------------------------------------------------
(* What a list has read while nobody wrote *)

\* The items and the number of r come from one table S.
OnePage(r) ==
    \E S \in SUBSET Id : page[r].items = PageOf(S, Offset(r)) /\ page[r].total = Cardinality(S)

\* The first of the two statements of r read the rows there are now.
ReadSoFar(r) ==
    /\ pc[r] = "queued" => page[r] = NoPage
    /\ edition = "anorm" /\ pc[r] = "opened" => page[r].items = PageOf(Present, Offset(r))
    /\ edition = "ebean" /\ pc[r] = "rendering" =>
          page[r].total \in {None, Cardinality(Present)}
    /\ pc[r] = "ok" => OnePage(r)

PageInv ==
    /\ quiet \subseteq Req
    /\ page \in [Req -> [items : (SUBSET Id) \cup {None}, total : Nat \cup {None}]]
    /\ \A r \in quiet : op[r] = "list" => ReadSoFar(r)

LEMMA ItemsArePage ==
    ASSUME NEW r \in Req
    PROVE  Items(r) = PageOf(Present, Offset(r))
BY DEF Items, PageOf, Rank

\* What is left over after a page of one table is what its links offer.
LEMMA OnePageLinksUp ==
    ASSUME NEW r \in Req, Inv, OnePage(r)
    PROVE  /\ HasNext(r) <=> page[r].total > Offset(r) + PageSize
           /\ page[r].items = {} <=> page[r].total <= Offset(r)
<1> DEFINE k == Offset(r)
<1>1. PICK S \in SUBSET Id :
         page[r].items = PageOf(S, Offset(r)) /\ page[r].total = Cardinality(S)
  BY DEF OnePage
<1>2. PageSize \in Nat \ {0} /\ arg[r].id \in Nat
  BY ComputersAssumption DEF Inv, TypeInv
<1>3. k \in Nat
  BY <1>2 DEF Offset
<1>4. Cardinality(S) \in Nat /\ IsFiniteSet(PageOf(S, k))
  BY TablesAreFinite DEF PageOf
<1>5. PageOf(S, k) = {} <=> Cardinality(PageOf(S, k)) = 0
  BY <1>4, FS_EmptySet
<1>6. Cardinality(PageOf(S, k)) =
               IF Cardinality(S) <= k THEN 0
               ELSE IF Cardinality(S) <= k + PageSize THEN Cardinality(S) - k
               ELSE PageSize
  BY <1>3, PageNumber
<1>7. HasNext(r) <=>
         k + (IF edition = "anorm" THEN Cardinality(PageOf(S, k)) ELSE PageSize) < Cardinality(S)
  BY <1>1 DEF HasNext, Shown
<1> HIDE DEF k
<1>8. HasNext(r) <=> Cardinality(S) > k + PageSize
  <2>1. CASE edition = "anorm"
    BY <1>2, <1>3, <1>4, <1>6, <1>7, <2>1
  <2>2. CASE edition # "anorm"
    BY <1>2, <1>3, <1>4, <1>7, <2>2
  <2> QED BY <2>1, <2>2
<1>9. PageOf(S, k) = {} <=> Cardinality(S) <= k
  BY <1>2, <1>3, <1>4, <1>5, <1>6
<1> QED BY <1>1, <1>8, <1>9 DEF k

\* A step of one request leaves to the others what they have read, and a
\* write takes those off the list that have not answered.
LEMMA PageStep ==
    ASSUME NEW r \in Req, Inv, PageInv, edition' = edition,
           quiet' \subseteq quiet \cup {r},
           rows' = rows \/ \A s \in quiet' : s # r => Free(s),
           \A s \in Req : s # r => /\ pc'[s] = pc[s] /\ op'[s] = op[s]
                                   /\ arg'[s] = arg[s] /\ page'[s] = page[s],
           page' \in [Req -> [items : (SUBSET Id) \cup {None}, total : Nat \cup {None}]],
           r \in quiet' /\ op'[r] = "list" => ReadSoFar(r)'
    PROVE  PageInv'
<1> SUFFICES ASSUME NEW s \in quiet', op'[s] = "list" PROVE ReadSoFar(s)'
  BY DEF PageInv
<1>1. CASE s = r
  BY <1>1
<1>2. CASE s # r
  <2>1. s \in quiet /\ s \in Req /\ op[s] = "list" /\ pc'[s] = pc[s]
        /\ arg'[s] = arg[s] /\ page'[s] = page[s]
    BY <1>2 DEF PageInv
  <2>2. ReadSoFar(s)
    BY <2>1 DEF PageInv
  <2>3. Offset(s)' = Offset(s)
    BY <2>1 DEF Offset
  <2>4. OnePage(s)' <=> OnePage(s)
    BY <2>1, <2>3 DEF OnePage, PageOf, Rank
  <2>5. CASE rows' = rows
    <3>1. Present' = Present
      BY <2>5 DEF Present
    <3> QED BY <2>1, <2>2, <2>3, <2>4, <3>1 DEF ReadSoFar, PageOf, Rank, NoPage
  <2>6. CASE Free(s)
    BY <2>1, <2>2, <2>4, <2>6 DEF ReadSoFar, Free, Answers, NoPage
  <2> QED BY <1>2, <2>5, <2>6
<1> QED BY <1>1, <1>2

LEMMA WriteClears ==
    ASSUME NEW new, Write(new)
    PROVE  quiet' \subseteq quiet /\ (rows' = rows \/ \A s \in quiet' : Free(s))
BY DEF Write

LEMMA AnswerPages ==
    ASSUME NEW r \in Req, NEW answer \in Answers, Answer(r, answer), Inv, PageInv,
           quiet' \subseteq quiet, rows' = rows \/ \A s \in quiet' : Free(s)
    PROVE  PageInv'
<1>1. page' = page /\ edition' = edition /\ op' = [op EXCEPT ![r] = "none"]
      /\ pc' = [pc EXCEPT ![r] = answer] /\ arg' = [arg EXCEPT ![r] = NoArg]
  BY DEF Answer, Goto
<1>2. \A s \in Req : s # r => /\ pc'[s] = pc[s] /\ op'[s] = op[s]
                              /\ arg'[s] = arg[s] /\ page'[s] = page[s]
  BY <1>1 DEF Inv, TypeInv, TypeOK
<1>3. op'[r] # "list"
  BY <1>1 DEF Inv, TypeInv
<1>4. page' \in [Req -> [items : (SUBSET Id) \cup {None}, total : Nat \cup {None}]]
  BY <1>1 DEF PageInv
<1>5. quiet' \subseteq quiet \cup {r}
  OBVIOUS
<1> QED BY <1>1, <1>2, <1>3, <1>4, <1>5, PageStep

\* A task that goes elsewhere and reads no page.
LEMMA MovePages ==
    ASSUME NEW r \in Req, NEW place \in Place, Inv, PageInv,
           pc' = [pc EXCEPT ![r] = place],
           UNCHANGED <<edition, rows, quiet, op, arg, page>>,
           op[r] = "list" => pc[r] = place
    PROVE  PageInv'
<1>1. \A s \in Req : s # r => /\ pc'[s] = pc[s] /\ op'[s] = op[s]
                              /\ arg'[s] = arg[s] /\ page'[s] = page[s]
  BY DEF Inv, TypeInv, TypeOK
<1>2. page' \in [Req -> [items : (SUBSET Id) \cup {None}, total : Nat \cup {None}]]
  BY DEF PageInv
<1>3. ASSUME r \in quiet', op'[r] = "list" PROVE ReadSoFar(r)'
  <2>1. r \in quiet /\ op[r] = "list" /\ pc'[r] = pc[r]
    BY <1>3 DEF Inv, TypeInv, TypeOK
  <2> QED BY <2>1 DEF PageInv, ReadSoFar, OnePage, PageOf, Rank, Present, Offset, NoPage
<1>4. quiet' \subseteq quiet \cup {r}
  OBVIOUS
<1> QED BY <1>1, <1>2, <1>3, <1>4, PageStep

LEMMA AskPages ==
    ASSUME NEW r \in Req, NEW operation, NEW id, NEW form, NEW companies,
           NEW place \in {"queued", "waiting"},
           Ask(r, operation, id, form, place, companies), Inv, PageInv
    PROVE  PageInv'
<1>1. op' = [op EXCEPT ![r] = operation] /\ pc' = [pc EXCEPT ![r] = place]
      /\ arg' = [arg EXCEPT ![r] = [id |-> id, form |-> form]]
      /\ page' = [page EXCEPT ![r] = NoPage] /\ quiet' \subseteq quiet \cup {r}
      /\ edition' = edition /\ rows' = rows
  BY DEF Ask, Goto, table
<1>2. \A s \in Req : s # r => /\ pc'[s] = pc[s] /\ op'[s] = op[s]
                              /\ arg'[s] = arg[s] /\ page'[s] = page[s]
  BY <1>1 DEF Inv, TypeInv, TypeOK, PageInv
<1>3. page' \in [Req -> [items : (SUBSET Id) \cup {None}, total : Nat \cup {None}]]
  BY <1>1 DEF PageInv, NoPage
<1>4. pc'[r] = place /\ page'[r] = NoPage
  BY <1>1 DEF Inv, TypeInv, TypeOK, PageInv
<1>5. ReadSoFar(r)'
  BY <1>4 DEF ReadSoFar, NoPage
<1> QED BY <1>1, <1>2, <1>3, <1>5, PageStep

LEMMA RequestPages ==
    ASSUME NEW r \in Req, Request(r), Inv, PageInv
    PROVE  PageInv'
<1>1. \E operation, id, form, companies : \E place \in {"queued", "waiting"} :
         Ask(r, operation, id, form, place, companies)
  BY DEF Request, AskPage, AskDelete, AskEdit, AskForm, AskSave, AskUpdate
<1> QED BY <1>1, AskPages

\* The two statements of a list, in the order of each edition.
LEMMA ReadItemsPages ==
    ASSUME NEW r \in Req, ReadItems(r), Inv, PageInv
    PROVE  PageInv'
<1>1. PICK place \in {"opened", "ok"} :
         /\ pc' = [pc EXCEPT ![r] = place]
         /\ edition = "anorm" => place = "opened"
         /\ edition = "ebean" => place = "ok" /\ pc[r] = "rendering" /\ page[r].total # None
  BY DEF ReadItems, Goto
<1>2. page' = [page EXCEPT ![r].items = Items(r)]
      /\ UNCHANGED <<edition, rows, quiet, op, arg>>
  BY DEF ReadItems, Reads, table, task
<1>3. Items(r) \in SUBSET Id
  BY DEF Items, Present
<1>4. page' \in [Req -> [items : (SUBSET Id) \cup {None}, total : Nat \cup {None}]]
  BY <1>2, <1>3 DEF PageInv
<1>5. \A s \in Req : s # r => /\ pc'[s] = pc[s] /\ op'[s] = op[s]
                              /\ arg'[s] = arg[s] /\ page'[s] = page[s]
  BY <1>1, <1>2 DEF Inv, TypeInv, TypeOK, PageInv
<1>6. pc'[r] = place /\ page'[r].items = Items(r) /\ page'[r].total = page[r].total
  BY <1>1, <1>2 DEF Inv, TypeInv, TypeOK, PageInv
<1>7. Present' = Present /\ Present \in SUBSET Id /\ Offset(r)' = Offset(r)
  BY <1>2 DEF Present, Offset
<1>8. page'[r].items = PageOf(Present, Offset(r))
  BY <1>6, ItemsArePage
<1>9. ASSUME r \in quiet', op'[r] = "list" PROVE ReadSoFar(r)'
  <2>1. ReadSoFar(r)
    BY <1>2, <1>9 DEF PageInv
  <2>2. edition \in {"ebean", "anorm"}
    BY DEF Inv, TypeInv, TypeOK
  <2>3. CASE edition = "anorm"
    BY <1>1, <1>2, <1>6, <1>7, <1>8, <2>3 DEF ReadSoFar, PageOf, Rank
  <2>4. CASE edition = "ebean"
    <3>1. page[r].total = Cardinality(Present)
      BY <1>1, <2>1, <2>4 DEF ReadSoFar
    <3>2. OnePage(r)'
      BY <1>6, <1>7, <1>8, <3>1 DEF OnePage, PageOf, Rank
    <3> QED BY <1>1, <1>2, <1>6, <2>4, <3>2 DEF ReadSoFar
  <2> QED BY <2>2, <2>3, <2>4
<1>10. quiet' \subseteq quiet \cup {r}
  BY <1>2
<1> QED BY <1>2, <1>4, <1>5, <1>9, <1>10, PageStep

LEMMA CountRowsPages ==
    ASSUME NEW r \in Req, CountRows(r), Inv, PageInv
    PROVE  PageInv'
<1>1. PICK place \in {"rendering", "ok"} :
         /\ pc' = [pc EXCEPT ![r] = place]
         /\ edition = "anorm" => place = "ok" /\ pc[r] = "opened"
         /\ edition = "ebean" => (place = "ok" <=> Present = {})
  BY DEF CountRows, Goto, GoesOn
<1>2. UNCHANGED <<edition, rows, quiet, op, arg>>
      /\ page' = [page EXCEPT ![r].total = Cardinality(Present),
                              ![r].items = IF Present = {} /\ edition = "ebean" THEN {} ELSE @]
  BY DEF CountRows, Reads, table, task
<1>3. Present \in SUBSET Id /\ Cardinality(Present) \in Nat
  BY TablesAreFinite DEF Present
<1>4. page' \in [Req -> [items : (SUBSET Id) \cup {None}, total : Nat \cup {None}]]
  BY <1>2, <1>3 DEF PageInv
<1>5. \A s \in Req : s # r => /\ pc'[s] = pc[s] /\ op'[s] = op[s]
                              /\ arg'[s] = arg[s] /\ page'[s] = page[s]
  BY <1>1, <1>2 DEF Inv, TypeInv, TypeOK, PageInv
<1>6. /\ pc'[r] = place /\ page'[r].total = Cardinality(Present)
      /\ page'[r].items =
            IF Present = {} /\ edition = "ebean" THEN {} ELSE page[r].items
  BY <1>1, <1>2 DEF Inv, TypeInv, TypeOK, PageInv
<1>7. Present' = Present /\ Offset(r)' = Offset(r)
  BY <1>2 DEF Present, Offset
<1>8. ASSUME r \in quiet', op'[r] = "list" PROVE ReadSoFar(r)'
  <2>1. ReadSoFar(r)
    BY <1>2, <1>8 DEF PageInv
  <2>2. edition \in {"ebean", "anorm"}
    BY DEF Inv, TypeInv, TypeOK
  <2>3. CASE edition = "anorm"
    <3>1. page[r].items = PageOf(Present, Offset(r))
      BY <1>1, <2>1, <2>3 DEF ReadSoFar
    <3>2. OnePage(r)'
      BY <1>3, <1>6, <1>7, <2>3, <3>1 DEF OnePage, PageOf, Rank
    <3> QED BY <1>1, <1>2, <1>6, <2>3, <3>2 DEF ReadSoFar
  <2>4. CASE edition = "ebean" /\ Present # {}
    BY <1>1, <1>2, <1>6, <1>7, <2>4 DEF ReadSoFar
  <2>5. CASE edition = "ebean" /\ Present = {}
    <3>1. PageOf({}, Offset(r)) = {}
      BY DEF PageOf
    <3>2. OnePage(r)'
      BY <1>6, <1>7, <2>5, <3>1 DEF OnePage, PageOf, Rank
    <3> QED BY <1>1, <1>2, <1>6, <2>5, <3>2 DEF ReadSoFar
  <2> QED BY <2>2, <2>3, <2>4, <2>5
<1>9. quiet' \subseteq quiet \cup {r}
  BY <1>2
<1> QED BY <1>2, <1>4, <1>5, <1>8, <1>9, PageStep

LEMMA OpenPagePages ==
    ASSUME NEW r \in Req, OpenPage(r), Inv, PageInv
    PROVE  PageInv'
<1>1. pc' = [pc EXCEPT ![r] = "rendering"] /\ pc[r] = "queued"
      /\ UNCHANGED <<edition, rows, quiet, op, arg, page>>
  BY DEF OpenPage, Runs, Goto, Reads, table, task
<1>2. \A s \in Req : s # r => /\ pc'[s] = pc[s] /\ op'[s] = op[s]
                              /\ arg'[s] = arg[s] /\ page'[s] = page[s]
  BY <1>1 DEF Inv, TypeInv, TypeOK
<1>3. page' \in [Req -> [items : (SUBSET Id) \cup {None}, total : Nat \cup {None}]]
  BY <1>1 DEF PageInv
<1>4. pc'[r] = "rendering"
  BY <1>1 DEF Inv, TypeInv, TypeOK
<1>5. ASSUME r \in quiet', op'[r] = "list" PROVE ReadSoFar(r)'
  <2>1. page'[r].total = None
    BY <1>1, <1>5 DEF PageInv, ReadSoFar, NoPage
  <2> QED BY <1>4, <2>1 DEF ReadSoFar
<1>6. quiet' \subseteq quiet \cup {r}
  BY <1>1
<1> QED BY <1>1, <1>2, <1>3, <1>5, <1>6, PageStep

LEMMA ServePages ==
    ASSUME NEW r \in Req, Serve(r), Inv, PageInv
    PROVE  PageInv'
<1> USE DEF Goto, Reads, table, task
<1>1. "error" \in Answers /\ "redirect" \in Answers /\ "notFound" \in Answers
      /\ "badRequest" \in Answers /\ "ok" \in Answers
  BY DEF Answers
<1>2. "waiting" \in Place /\ "opened" \in Place /\ pc[r] \in Place
  BY DEF Place, Inv, TypeInv, TypeOK
<1>3. ASSUME NEW answer \in Answers, Answer(r, answer), NEW new, Write(new)
      PROVE  PageInv'
  BY <1>3, WriteClears, AnswerPages
<1>4. ASSUME NEW answer \in Answers, Answer(r, answer), UNCHANGED <<rows, quiet>>
      PROVE  PageInv'
  BY <1>4, AnswerPages
<1>5. CASE ListCompanies(r)
  <2>1. UNCHANGED <<edition, rows, quiet, op, arg, page, pc>>
    BY <1>5 DEF ListCompanies
  <2>2. pc' = [pc EXCEPT ![r] = pc[r]]
    BY <2>1 DEF Inv, TypeInv, TypeOK
  <2> QED BY <1>2, <2>1, <2>2, MovePages
<1>6. CASE ShowForm(r)
  <2>1. (IF op[r] \in {"save", "update"} THEN "badRequest"
         ELSE IF op[r] = "edit" /\ found[r] = None THEN "error"
         ELSE "ok") \in Answers
    BY DEF Answers
  <2> QED BY <1>4, <1>6, <2>1 DEF ShowForm
<1>7. CASE Lookup(r)
  <2>1. CASE Answer(r, "notFound")
    BY <1>1, <1>4, <1>7, <2>1 DEF Lookup
  <2>2. CASE ~Answer(r, "notFound")
    <3>1. pc' = [pc EXCEPT ![r] = "waiting"] /\ op[r] = "edit"
          /\ UNCHANGED <<edition, rows, quiet, op, arg, page>>
      BY <1>7, <2>2 DEF Lookup, Runs
    <3> QED BY <1>2, <3>1, MovePages
  <2> QED BY <2>1, <2>2
<1>8. CASE FindToUpdate(r)
  <2>1. CASE Answer(r, "redirect")
    BY <1>1, <1>4, <1>8, <2>1 DEF FindToUpdate
  <2>2. CASE ~Answer(r, "redirect")
    <3>1. pc' = [pc EXCEPT ![r] = "opened"] /\ op[r] = "update"
          /\ UNCHANGED <<edition, rows, quiet, op, arg, page>>
      BY <1>8, <2>2 DEF FindToUpdate, Runs
    <3> QED BY <1>2, <3>1, MovePages
  <2> QED BY <2>1, <2>2
<1>9. CASE FindToDelete(r)
  <2>1. CASE Answer(r, "redirect")
    BY <1>1, <1>4, <1>9, <2>1 DEF FindToDelete
  <2>2. CASE ~Answer(r, "redirect")
    <3>1. pc' = [pc EXCEPT ![r] = "opened"] /\ op[r] = "delete"
          /\ UNCHANGED <<edition, rows, quiet, op, arg, page>>
      BY <1>9, <2>2 DEF FindToDelete, Runs
    <3> QED BY <1>2, <3>1, MovePages
  <2> QED BY <2>1, <2>2
<1>10. CASE UpdateStatement(r) \/ UpdateFound(r) \/ InsertNext(r) \/ InsertNow(r) \/ DeleteRow(r)
  <2>1. (\E answer \in Answers : Answer(r, answer)) /\ (\E new : Write(new))
    BY <1>1, <1>10 DEF UpdateStatement, UpdateFound, InsertNext, InsertNow, DeleteRow
  <2> QED BY <1>3, <2>1
<1> QED BY <1>5, <1>6, <1>7, <1>8, <1>9, <1>10, OpenPagePages, ReadItemsPages, CountRowsPages
    DEF Serve

LEMMA PageInvStep == Inv /\ PageInv /\ [Next]_vars => PageInv'
<1> SUFFICES ASSUME Inv, PageInv, [Next]_vars PROVE PageInv'
  OBVIOUS
<1>1. CASE UNCHANGED vars \/ Tick
  <2>1. UNCHANGED <<edition, rows, quiet, op, arg, page, pc>>
    BY <1>1 DEF vars, Tick, task
  <2>2. Present' = Present
    BY <2>1 DEF Present
  <2> QED BY <2>1, <2>2 DEF PageInv, ReadSoFar, OnePage, PageOf, Rank, Offset, NoPage
<1>2. CASE \E r \in Req : Request(r) \/ Serve(r)
  BY <1>2, RequestPages, ServePages
<1> QED BY <1>1, <1>2 DEF Next

\* A page whose statements ran while nobody wrote is a page of one table: its
\* items are there exactly when it begins before the end of the table, and it
\* offers another page exactly when rows are left, in both editions.
THEOREM PagesAreOfOneTable == Spec => []PagesOK
<1>1. Init => PageInv
  <2> SUFFICES ASSUME Init PROVE PageInv
    OBVIOUS
  <2>1. NoPage \in [items : (SUBSET Id) \cup {None}, total : Nat \cup {None}]
    BY DEF NoPage
  <2> QED BY <2>1 DEF Init, PageInv
<1>2. Spec => []PageInv
  BY <1>1, Invariant, PageInvStep, PTL DEF Spec
<1>3. Inv /\ PageInv => PagesOK
  <2> SUFFICES ASSUME Inv, PageInv, NEW r \in quiet, op[r] = "list", pc[r] = "ok"
               PROVE  /\ HasNext(r) <=> page[r].total > Offset(r) + PageSize
                      /\ page[r].items = {} <=> page[r].total <= Offset(r)
    BY DEF PagesOK, PagesLinkUp, Inv, TypeInv
  <2>1. r \in Req /\ OnePage(r)
    BY DEF PageInv, ReadSoFar
  <2> QED BY <2>1, OnePageLinksUp
<1> QED BY <1>2, <1>3, Invariant, PTL
=============================================================================
