------------------------------ MODULE Computers ------------------------------
(***************************************************************************)
(* The computer database of play-java-ebean-example and of                 *)
(* play-scala-anorm-example: pages of computers, an edit form, updates,    *)
(* inserts and deletes.  Every call of a repository is a task of           *)
(* database.dispatcher, a pool of as many threads as there are             *)
(* connections; a task that makes two statements keeps its thread between  *)
(* them, and other tasks run their statements there.                       *)
(*                                                                         *)
(* edition, chosen in Init, tells where the two programs differ.           *)
(***************************************************************************)
EXTENDS Integers, FiniteSets, FiniteSetsExt

CONSTANTS
    Edition,    \* subset of {"ebean", "anorm"}
    Req,        \* places of requests: an answered one leaves it to another
    MaxId,      \* bound on ids: on the sequence and on the clock
    Name, Company,  \* values of two columns
    Unknown,    \* the id of a company that does not exist
    Form,       \* what people put in the form of a computer
    PageSize,   \* 10
    MaxPage,    \* bound on the page asked for
    PoolSize,   \* fixedConnectionPool
    None        \* no row, no value

ASSUME ComputersAssumption ==
    /\ Edition \subseteq {"ebean", "anorm"}
    /\ MaxId \in Nat /\ MaxPage \in Nat
    /\ PageSize \in Nat \ {0} /\ PoolSize \in Nat \ {0}
    /\ Form \subseteq [name : Name \cup {None}, company : Company \cup {Unknown}]

Id  == 1..MaxId
Row == [name : Name, company : Company]

VARIABLES
    edition,
    rows,       \* rows[id]: the computer, or None
    nextId,     \* computer_seq, or the clock of the machine in milliseconds
    op,         \* op[r]: "none" or the operation r asks for
    arg,        \* arg[r]: its id or page, and its form
    pc,         \* pc[r]: where r is
    options,    \* options[r]: its task that lists the companies
    found,      \* found[r]: the row its first statement read
    page,       \* page[r]: what a list has read: items and total
    quiet       \* history: lists asked for since which rows has not changed

vars == <<edition, rows, nextId, op, arg, pc, options, found, page, quiet>>
task == <<op, arg>>
table == <<rows, nextId>>

Answers == {"ok", "badRequest", "notFound", "error", "redirect"}

\* The place r is free: its last request was answered.
Free(r) == pc[r] \in {"idle"} \cup Answers

NoArg  == [id |-> 0, form |-> None]
NoPage == [items |-> None, total |-> None]

TypeOK ==
    /\ edition \in {"ebean", "anorm"}
    /\ rows \in [Id -> Row \cup {None}]
    /\ nextId \in Nat \ {0}
    /\ pc \in [Req -> {"idle", "queued", "opened", "rendering", "waiting"} \cup Answers]
    /\ options \in [Req -> {"none", "queued", "done"}]
    /\ found \in [Req -> Row \cup {None}]

\* What the evolutions insert, and what was written before the model begins.
Init ==
    /\ edition \in Edition
    /\ nextId \in 1..MaxId
    /\ rows \in {t \in [Id -> Row \cup {None}] : \A id \in nextId..MaxId : t[id] = None}
    /\ op = [r \in Req |-> "none"]
    /\ arg = [r \in Req |-> NoArg]
    /\ pc = [r \in Req |-> "idle"]
    /\ options = [r \in Req |-> "none"]
    /\ found = [r \in Req |-> None]
    /\ page = [r \in Req |-> NoPage]
    /\ quiet = {}

-----------------------------------------------------------------------------
(* database.dispatcher and the table *)

Present == {id \in Id : rows[id] # None}

\* mutant: a request waits for the companies on the thread of its task
ThreadFreeOfWaiting == Cardinality({r \in Req : pc[r] \in {"opened", "waiting"}}) < PoolSize

ThreadFree == Cardinality({r \in Req : pc[r] = "opened"}) < PoolSize

\* The task of r begins on a thread of the pool.
Runs(r, operation) == pc[r] = "queued" /\ op[r] = operation /\ ThreadFree

\* The task of r goes on where it stopped, on the thread it kept.
GoesOn(r, operation) == pc[r] = "opened" /\ op[r] = operation

Goto(r, place) == pc' = [pc EXCEPT ![r] = place]

\* The answer to r, of which nothing is left but what a list has shown.
Answer(r, answer) ==
    /\ Goto(r, answer)
    /\ op' = [op EXCEPT ![r] = "none"]
    /\ arg' = [arg EXCEPT ![r] = NoArg]
    /\ options' = [options EXCEPT ![r] = "none"]
    /\ found' = [found EXCEPT ![r] = None]
    /\ UNCHANGED <<edition, page>>

Write(new) ==
    /\ rows' = new
    /\ quiet' = IF new = rows THEN quiet ELSE {r \in quiet : Free(r)}

Reads == UNCHANGED <<edition, table, task, quiet>>

-----------------------------------------------------------------------------
(* HomeController: what a request asks of the repositories *)

Ask(r, operation, id, form, place, companies) ==
    /\ Free(r)
    /\ op' = [op EXCEPT ![r] = operation]
    /\ arg' = [arg EXCEPT ![r] = [id |-> id, form |-> form]]
    /\ Goto(r, place)
    /\ options' = [options EXCEPT ![r] = companies]
    /\ page' = [page EXCEPT ![r] = NoPage]
    /\ quiet' = IF operation = "list" THEN quiet \cup {r} ELSE quiet \ {r}
    /\ UNCHANGED <<edition, table, found>>

Valid(form) == form.name # None

AskPage(r) == \E p \in 0..MaxPage : Ask(r, "list", p, None, "queued", "none")

AskDelete(r) == \E id \in Id : Ask(r, "delete", id, None, "queued", "none")

\* The Java edition asks for the companies and for the computer at once.
AskEdit(r) ==
    \E id \in Id :
        Ask(r, "edit", id, None, "queued", IF edition = "ebean" THEN "queued" ELSE "none")

\* create, and save or update with a form that is not accepted, need only
\* the companies.
AskForm(r) ==
    \/ Ask(r, "create", 0, None, "waiting", "queued")
    \/ \E form \in {f \in Form : ~Valid(f)}, operation \in {"save", "update"} :
          Ask(r, operation, 0, form, "waiting", "queued")

\* The guard is the bound on ids.
AskSave(r) ==
    /\ nextId + Cardinality({s \in Req : op[s] = "save"}) <= MaxId
    /\ \E form \in {f \in Form : Valid(f)} : Ask(r, "save", 0, form, "queued", "none")

AskUpdate(r) ==
    \E form \in {f \in Form : Valid(f)}, id \in Id :
        Ask(r, "update", id, form, "queued", "none")

ListCompanies(r) ==
    /\ options[r] = "queued" /\ ThreadFree
    /\ options' = [options EXCEPT ![r] = "done"]
    /\ Reads /\ UNCHANGED <<pc, found, page>>

\* The Java edition answers 500 to the edit of a missing computer.
ShowForm(r) ==
    /\ pc[r] = "waiting" /\ options[r] = "done"
    /\ Answer(r, IF op[r] \in {"save", "update"} THEN "badRequest"
                 ELSE IF op[r] = "edit" /\ found[r] = None THEN "error"
                 ELSE "ok")
    /\ UNCHANGED <<table, quiet>>

-----------------------------------------------------------------------------
(* list: a page of rows and their number, in two statements *)

Offset(r) == PageSize * arg[r].id

\* Ids of the rows of a page, in the order of ids.
Items(r) ==
    {id \in Present :
        LET before == Cardinality({i \in Present : i < id})
        IN  Offset(r) <= before /\ before < Offset(r) + PageSize}

\* findPagedList reads nothing: the page is read while it is rendered.
OpenPage(r) ==
    /\ edition = "ebean" /\ Runs(r, "list")
    /\ Goto(r, "rendering")
    /\ Reads /\ UNCHANGED <<options, found, page>>

ReadItems(r) ==
    /\ page[r].items = None
    /\ \/ edition = "anorm" /\ Runs(r, "list") /\ Goto(r, "opened")
       \/ edition = "ebean" /\ pc[r] = "rendering" /\ page[r].total # None /\ Goto(r, "ok")
    /\ page' = [page EXCEPT ![r].items = Items(r)]
    /\ Reads /\ UNCHANGED <<options, found>>

\* The Java view reads the number first, and no rows if there are none.
CountRows(r) ==
    /\ page[r].total = None
    /\ \/ edition = "anorm" /\ GoesOn(r, "list")
       \/ edition = "ebean" /\ pc[r] = "rendering"
    /\ Goto(r, IF edition = "anorm" \/ Present = {} THEN "ok" ELSE "rendering")
    /\ page' = [page EXCEPT ![r].total = Cardinality(Present),
                            ![r].items = IF Present = {} /\ edition = "ebean" THEN {} ELSE @]
    /\ Reads /\ UNCHANGED <<options, found>>

\* The links of the page: whether it offers another page.
Shown(r) == Offset(r) + (IF edition = "anorm" THEN Cardinality(page[r].items) ELSE PageSize)

\* mutant: one page too many
HasNextOrEmpty(r) == Shown(r) <= page[r].total

HasNext(r) == Shown(r) < page[r].total

-----------------------------------------------------------------------------
(* edit *)

Lookup(r) ==
    /\ Runs(r, "edit")
    /\ UNCHANGED <<table, quiet>>
    /\ IF edition = "anorm" /\ rows[arg[r].id] = None
       THEN Answer(r, "notFound")
       ELSE /\ Goto(r, "waiting")
            /\ found' = [found EXCEPT ![r] = rows[arg[r].id]]
            /\ options' = [options EXCEPT ![r] = IF edition = "anorm" THEN "queued" ELSE @]
            /\ UNCHANGED <<edition, task, page>>

-----------------------------------------------------------------------------
(* update: one statement with anorm, a read and a write with Ebean *)

\* mutant: the statement leaves a column out
UpdateName(r) ==
    /\ edition = "anorm" /\ Runs(r, "update")
    /\ IF rows[arg[r].id] # None /\ arg[r].form.company = Unknown
       THEN Answer(r, "error") /\ Write(rows)
       ELSE /\ Answer(r, "redirect")
            /\ Write([rows EXCEPT ![arg[r].id] =
                          IF @ = None THEN None ELSE [@ EXCEPT !.name = arg[r].form.name]])
    /\ UNCHANGED nextId

UpdateStatement(r) ==
    /\ edition = "anorm" /\ Runs(r, "update")
    /\ IF rows[arg[r].id] # None /\ arg[r].form.company = Unknown
       THEN Answer(r, "error") /\ Write(rows)
       ELSE /\ Answer(r, "redirect")
            /\ Write([rows EXCEPT ![arg[r].id] = IF @ = None THEN None ELSE arg[r].form])
    /\ UNCHANGED nextId

FindToUpdate(r) ==
    /\ edition = "ebean" /\ Runs(r, "update")
    /\ UNCHANGED <<table, quiet>>
    /\ IF rows[arg[r].id] = None
       THEN Answer(r, "redirect")
       ELSE /\ Goto(r, "opened")
            /\ found' = [found EXCEPT ![r] = rows[arg[r].id]]
            /\ UNCHANGED <<edition, task, options, page>>

\* Ebean writes the columns whose value is not the one it read.
Merged(row, r) ==
    [c \in {"name", "company"} |->
        IF arg[r].form[c] = found[r][c] THEN row[c] ELSE arg[r].form[c]]

\* A row deleted meanwhile stays deleted, whether Ebean reports it or not.
UpdateFound(r) ==
    /\ edition = "ebean" /\ GoesOn(r, "update")
    /\ IF rows[arg[r].id] = None
       THEN (Answer(r, "redirect") \/ Answer(r, "error")) /\ Write(rows)
       ELSE IF arg[r].form.company = Unknown
       THEN Answer(r, "error") /\ Write(rows)
       ELSE Answer(r, "redirect") /\ Write([rows EXCEPT ![arg[r].id] = Merged(@, r)])
    /\ UNCHANGED nextId

-----------------------------------------------------------------------------
(* insert *)

\* mutant: the next id is one more than the greatest
InsertAfterLast(r) ==
    /\ edition = "anorm" /\ Runs(r, "save")
    /\ nextId' = nextId + 1
    /\ IF arg[r].form.company = Unknown
       THEN Answer(r, "error") /\ Write(rows)
       ELSE /\ Answer(r, "redirect")
            /\ Write([rows EXCEPT ![Max(Present \cup {0}) + 1] = arg[r].form])

\* mutant: the table has no foreign key
InsertUnchecked(r) ==
    /\ edition = "anorm" /\ Runs(r, "save")
    /\ nextId' = nextId + 1
    /\ Answer(r, "redirect") /\ Write([rows EXCEPT ![nextId] = arg[r].form])

\* The sequence moves on even when the insert is refused.
InsertNext(r) ==
    /\ edition = "anorm" /\ Runs(r, "save")
    /\ nextId' = nextId + 1
    /\ IF arg[r].form.company = Unknown
       THEN Answer(r, "error") /\ Write(rows)
       ELSE Answer(r, "redirect") /\ Write([rows EXCEPT ![nextId] = arg[r].form])

\* mutant: a row that is there is written over
SaveNow(r) ==
    /\ edition = "ebean" /\ Runs(r, "save")
    /\ IF arg[r].form.company = Unknown
       THEN Answer(r, "error") /\ Write(rows)
       ELSE Answer(r, "redirect") /\ Write([rows EXCEPT ![nextId] = arg[r].form])
    /\ UNCHANGED nextId

\* Two inserts in one millisecond have the same key: the second is refused.
InsertNow(r) ==
    /\ edition = "ebean" /\ Runs(r, "save")
    /\ IF arg[r].form.company = Unknown \/ rows[nextId] # None
       THEN Answer(r, "error") /\ Write(rows)
       ELSE Answer(r, "redirect") /\ Write([rows EXCEPT ![nextId] = arg[r].form])
    /\ UNCHANGED nextId

Tick ==
    /\ edition = "ebean" /\ nextId < MaxId
    /\ nextId' = nextId + 1
    /\ UNCHANGED <<edition, rows, task, pc, options, found, page, quiet>>

-----------------------------------------------------------------------------
(* delete: one statement with anorm, a read and a delete with Ebean *)

DeleteRow(r) ==
    /\ (edition = "anorm" /\ Runs(r, "delete")) \/ GoesOn(r, "delete")
    /\ Answer(r, "redirect")
    /\ Write([rows EXCEPT ![arg[r].id] = None])
    /\ UNCHANGED nextId

FindToDelete(r) ==
    /\ edition = "ebean" /\ Runs(r, "delete")
    /\ UNCHANGED <<table, quiet>>
    /\ IF rows[arg[r].id] = None
       THEN Answer(r, "redirect")
       ELSE Goto(r, "opened") /\ UNCHANGED <<edition, task, options, found, page>>

-----------------------------------------------------------------------------
Request(r) ==
    AskPage(r) \/ AskDelete(r) \/ AskEdit(r) \/ AskForm(r) \/ AskSave(r) \/ AskUpdate(r)

Serve(r) ==
    \/ ListCompanies(r) \/ ShowForm(r)
    \/ OpenPage(r) \/ ReadItems(r) \/ CountRows(r)
    \/ Lookup(r)
    \/ UpdateStatement(r) \/ FindToUpdate(r) \/ UpdateFound(r)
    \/ InsertNext(r) \/ InsertNow(r)
    \/ DeleteRow(r) \/ FindToDelete(r)

Next == Tick \/ \E r \in Req : Request(r) \/ Serve(r)

Spec == Init /\ [][Next]_vars

\* The dispatcher takes its tasks in the order they came, so that none is
\* passed over for ever; nobody has to ask.
FairSpec == Spec /\ \A r \in Req : SF_vars(Serve(r))

-----------------------------------------------------------------------------
(* Properties *)

(* Whoever else is writing, an update with anorm leaves the row of its     *)
(* form, not a mixture of two forms, and an insert the row of its form in  *)
(* both programs.  (With Ebean, which writes only changed columns, the     *)
(* forms of two updates do mix.)                                           *)
RowsAreForms ==
    [][\A id \in Id :
          rows'[id] \notin {rows[id], None} /\ (edition = "anorm" \/ rows[id] = None) =>
              \E r \in Req :
                  /\ ~Free(r) /\ Free(r)'
                  /\ rows'[id] = arg[r].form
                  /\ op[r] = "save" \/ (op[r] = "update" /\ arg[r].id = id)]_vars

(* Updates may race with the delete of their computer, and ids come from a *)
(* clock or a sequence: a row that is gone does not come back, and an id   *)
(* is not given to another computer, except by an insert with Ebean in the *)
(* millisecond of the first insert.                                        *)
IdsAreNeverReused ==
    [][\A id \in Id :
          rows[id] = None /\ rows'[id] # None =>
              id >= nextId /\ (edition = "anorm" => id < nextId')]_vars

(* Only an update of a computer changes it: no insert overwrites a row,    *)
(* though two of them may take the same id.                                *)
OnlyUpdatesChangeRows ==
    [][\A id \in Id :
          rows[id] # None /\ rows'[id] \notin {rows[id], None} =>
              \E r \in Req : op[r] = "update" /\ arg[r].id = id /\ ~Free(r) /\ Free(r)']_vars

(* A page read while nobody writes offers a next page exactly when a page  *)
(* further on has rows, and its items are those that belong there.         *)
PagesLinkUp ==
    \A r \in quiet :
        op[r] = "list" /\ pc[r] = "ok" =>
            /\ HasNext(r) <=> page[r].total > Offset(r) + PageSize
            /\ page[r].items = {} <=> page[r].total <= Offset(r)

(* Every request is answered, however small the pool: no task holds a      *)
(* thread while it waits for another task.                                 *)
EveryRequestIsAnswered ==
    \A r \in Req : ~Free(r) ~> pc[r] \in Answers

(* A page read while nobody writes is one page of the table.               *)
PagesOK == TypeOK /\ PagesLinkUp

(* An id is given to one computer, and what is under it changes by its     *)
(* updates only.                                                           *)
RowsKeepTheirIds == IdsAreNeverReused /\ OnlyUpdatesChangeRows
=============================================================================
