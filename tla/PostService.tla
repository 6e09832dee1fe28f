---------------------------- MODULE PostService ----------------------------
(***************************************************************************)
(* The posts of play-java-rest-api-example.  A request waits for a thread  *)
(* of `post.repository', in the pool's order; its answer does not wait     *)
(* longer than a second for it, but the task goes on.  get and update run  *)
(* inside a circuit breaker that they share, and that inside a             *)
(* transaction.  lookup always throws, and modify sleeps ten seconds.      *)
(*                                                                         *)
(* Of time only this is kept: the second is over before the ten are.  The  *)
(* breaker is Failsafe's; its delay may have passed or not at any call.    *)
(*                                                                         *)
(* Bounds: each of PostRequest is one request; PostThreads is the pool;    *)
(* one request at most is Plain, so that an id is left for it.             *)
(***************************************************************************)
EXTENDS Integers, Sequences, FiniteSets

CONSTANTS PostRequest, PostThreads, PostId, NoPost

ASSUME PostAssumption ==
  /\ PostThreads \in Nat \ {0}
  /\ PostRequest \subseteq Nat \ {0}
  /\ NoPost \notin Nat
  /\ PostId \subseteq Nat

SuccessThreshold == 3

VARIABLES posts,        \* the table: who wrote the row last, or NoPost
          breaker,      \* Failsafe's: its state, and successes in half-open
          admitted,     \* the calls that run inside the breaker
          pool,         \* tasks that wait for a thread
          task,         \* per request: what it does
          postAnswer,   \* per request: the status, or NoPost
          streak        \* history: successes since the last failure

postVars == <<posts, breaker, admitted, pool, task, postAnswer, streak>>

Idle == [kind |-> "none", id |-> 0, at |-> "none", status |-> 0]

\* One post is there: the first.
PostInit ==
  /\ posts = [i \in PostId |-> IF i = 1 THEN 0 ELSE NoPost]
  /\ breaker = [state |-> "closed", successes |-> 0]
  /\ admitted = {}
  /\ pool = <<>>
  /\ task = [r \in PostRequest |-> Idle]
  /\ postAnswer = [r \in PostRequest |-> NoPost]
  /\ streak = 0

At(r, place)  == task[r].at = place
OnThread      == {r \in PostRequest : task[r].at \in {"called", "asleep"}}
GoesTo(r, at) == [task EXCEPT ![r].at = at]

\* The task ends, and answers unless the second is over.
Ends(r, status) ==
  /\ task' = GoesTo(r, "ended")
  /\ postAnswer' = [postAnswer EXCEPT ![r] = IF @ = NoPost THEN status ELSE @]

Plain == {"list", "create"}

\* A request for JSON; the others are refused with 406 and touch nothing.
\* Requests are numbered as they come, and one at most is a list or create.
Request(r, kind, id) ==
  /\ At(r, "none") /\ \A q \in PostRequest : q < r => ~At(q, "none")
  /\ kind \in Plain => \A q \in PostRequest : task[q].kind \notin Plain
  /\ task' = [task EXCEPT ![r] = [kind |-> kind, id |-> id, at |-> "queued",
                                  status |-> 0]]
  /\ pool' = Append(pool, r)
  /\ UNCHANGED <<posts, breaker, admitted, postAnswer, streak>>

\* A thread takes the next task, and begins a transaction.
Starts(r, kinds) ==
  /\ pool # <<>> /\ r = Head(pool)
  /\ task[r].kind \in kinds
  /\ Cardinality(OnThread) < PostThreads
  /\ pool' = Tail(pool)

\* list, and its commit.
ListPosts(r) ==
  /\ Starts(r, {"list"})
  /\ Ends(r, 200)
  /\ UNCHANGED <<posts, breaker, admitted, streak>>

\* create: the id is generated, and the row is committed.
Create(r) ==
  /\ Starts(r, {"create"})
  /\ \E i \in PostId :
       /\ posts[i] = NoPost
       /\ \A k \in PostId : k < i => posts[k] # NoPost
       /\ posts' = [posts EXCEPT ![i] = r]
  /\ Ends(r, 201)
  /\ UNCHANGED <<breaker, admitted, streak>>

-----------------------------------------------------------------------------
(* The circuit breaker.                                                    *)

\* What the breaker becomes when it lets a call in: an open one becomes half
\* open, and that lets in as many as it wants to see succeed.
Allowing ==
  CASE breaker.state = "closed" -> {breaker}
    [] breaker.state = "open"   -> {[state |-> "half", successes |-> 0]}
    [] breaker.state = "half"   ->
         IF Cardinality(admitted) < SuccessThreshold THEN {breaker} ELSE {}

\* An open breaker lets a call in or not, as its delay has passed or not.
Refuses == breaker.state = "open" \/ Allowing = {}

\* mutant: nothing closes it
NeverClose ==
  IF breaker.state = "half" THEN [breaker EXCEPT !.successes = @ + 1]
  ELSE breaker

\* mutant: the first success closes it
CloseAtOnce ==
  IF breaker.state = "half" THEN [state |-> "closed", successes |-> 0]
  ELSE breaker

RecordSuccess ==
  CASE breaker.state # "half" -> breaker
    [] breaker.successes + 1 = SuccessThreshold ->
         [state |-> "closed", successes |-> 0]
    [] OTHER -> [breaker EXCEPT !.successes = @ + 1]

\* The failure threshold is one.
RecordFailure == [state |-> "open", successes |-> 0]

\* mutant: an update is written first, and rolled back by nobody
EnterAfterWrite(r) ==
  /\ Starts(r, {"get", "update"})
  /\ posts' = IF task[r].kind = "update" /\ posts[task[r].id] # NoPost
              THEN [posts EXCEPT ![task[r].id] = r] ELSE posts
  /\ \/ /\ breaker' \in Allowing
        /\ admitted' = admitted \cup {r}
        /\ task' = GoesTo(r, "called")
        /\ UNCHANGED postAnswer
     \/ /\ Refuses
        /\ Ends(r, 503)
        /\ UNCHANGED <<breaker, admitted>>
  /\ UNCHANGED streak

\* Failsafe.get: the breaker lets the call in, or throws (the transaction
\* is rolled back).
Enter(r) ==
  /\ Starts(r, {"get", "update"})
  /\ \/ /\ breaker' \in Allowing
        /\ admitted' = admitted \cup {r}
        /\ task' = GoesTo(r, "called")
        /\ UNCHANGED postAnswer
     \/ /\ Refuses
        /\ Ends(r, 503)
        /\ UNCHANGED <<breaker, admitted>>
  /\ UNCHANGED <<posts, streak>>

\* mutant: a failure keeps its thread
LookupHangs(r) ==
  /\ At(r, "called") /\ task[r].kind = "get"
  /\ breaker' = RecordFailure
  /\ streak' = 0
  /\ admitted' = admitted \ {r}
  /\ UNCHANGED <<posts, pool, task, postAnswer>>

\* lookup throws.
Lookup(r) ==
  /\ At(r, "called") /\ task[r].kind = "get"
  /\ breaker' = RecordFailure
  /\ streak' = 0
  /\ admitted' = admitted \ {r}
  /\ Ends(r, 503)
  /\ UNCHANGED <<posts, pool>>

\* modify finds the row, changes the entity and goes to sleep.
Modify(r) ==
  /\ At(r, "called") /\ task[r].kind = "update"
  /\ task' = [task EXCEPT ![r] = [@ EXCEPT !.at = "asleep",
                 !.status = IF posts[task[r].id] = NoPost THEN 404 ELSE 200]]
  /\ UNCHANGED <<posts, breaker, admitted, pool, postAnswer, streak>>

\* modify wakes up, ten seconds later: the call has succeeded, and the
\* transaction commits.
Wake(r) ==
  /\ At(r, "asleep")
  /\ postAnswer[r] # NoPost
  /\ breaker' = RecordSuccess
  /\ streak' = streak + 1
  /\ admitted' = admitted \ {r}
  /\ posts' = IF task[r].status = 200 THEN [posts EXCEPT ![task[r].id] = r]
              ELSE posts
  /\ task' = GoesTo(r, "ended")
  /\ UNCHANGED <<pool, postAnswer>>

-----------------------------------------------------------------------------
(* The timeout of PostAction.                                              *)

\* A second has passed.
TimeOut(r) ==
  /\ ~At(r, "none") /\ postAnswer[r] = NoPost
  /\ postAnswer' = [postAnswer EXCEPT ![r] = 504]
  /\ UNCHANGED <<posts, breaker, admitted, pool, task, streak>>

Task(r) == ListPosts(r) \/ Create(r) \/ Enter(r) \/ Lookup(r) \/ Modify(r)
             \/ Wake(r)

PostNext ==
  \/ \E r \in PostRequest :
       \/ \E kind \in {"list", "create", "get"} : Request(r, kind, 0)
       \/ \E id \in PostId : Request(r, "update", id)
       \/ Task(r) \/ TimeOut(r)

\* The threads are never all idle while one of them has something to do, and
\* timers fire.
PostFairness ==
  /\ WF_postVars(\E r \in PostRequest : Task(r))
  /\ WF_postVars(\E r \in PostRequest : TimeOut(r))

-----------------------------------------------------------------------------
\* Types; the breaker's calls and the pool's tasks are those of the requests.
PostsOK ==
  /\ posts \in [PostId -> PostRequest \cup {0, NoPost}]
  /\ breaker \in [state : {"closed", "open", "half"}, successes : Nat]
  /\ breaker.successes < SuccessThreshold
  /\ admitted = {r \in PostRequest : task[r].at \in {"called", "asleep"}}
  /\ Cardinality(OnThread) <= PostThreads
  /\ {pool[i] : i \in DOMAIN pool} = {r \in PostRequest : At(r, "queued")}

\* Who is answered 503 has changed no row, nor will: unlike one who is
\* answered 504, whose write may come nine seconds later.
RefusedWroteNothing ==
  \A r \in PostRequest : postAnswer[r] = 503 =>
    \A i \in PostId : posts[i] # r

\* A breaker that a lookup has tripped closes only when three updates have
\* ended and no lookup has failed meanwhile: whenever those calls began.
BreakerNeedsThree ==
  [][breaker.state # "closed" /\ breaker'.state = "closed" => streak' >= 3]_
    postVars

\* A task ends though its answer was given long ago, and sleepers hold the
\* threads.
TasksEnd ==
  \A r \in PostRequest : At(r, "queued") ~> At(r, "ended")

\* The breaker, the pool and the answers agree, and refused updates are not
\* written.
PostsSafe == PostsOK /\ RefusedWroteNothing
=============================================================================
