--------------------------- MODULE ServicesProofs ---------------------------
(***************************************************************************)
(* Proofs about the four small services of Services, for any number of     *)
(* requests and threads, of asks and of relocations, of racing adds, of    *)
(* browsers and of messages; and about the word services of WordServices,  *)
(* for any requests, pages and rows.                                       *)
(***************************************************************************)
EXTENDS Services, WordServices, FiniteSetTheorems, SequenceTheorems,
        WellFoundedInduction, TLAPS

-----------------------------------------------------------------------------
(* PostService *)

Place == {"none", "queued", "called", "asleep", "ended"}
CallKind == {"none", "list", "create", "get", "update"}

TaskType == [kind : CallKind, id : PostId \cup {0}, at : Place,
             status : {0, 200, 404}]

PostTypes ==
  /\ posts \in [PostId -> PostRequest \cup {0, NoPost}]
  /\ breaker \in [state : {"closed", "open", "half"}, successes : 0..2]
  /\ pool \in Seq(PostRequest)
  /\ task \in [PostRequest -> TaskType]
  /\ postAnswer \in [PostRequest -> Nat \cup {NoPost}]
  /\ streak \in Nat

\* The pool holds each task that waits, once.
Queued ==
  /\ \A i \in DOMAIN pool : At(pool[i], "queued")
  /\ \A i, j \in DOMAIN pool : pool[i] = pool[j] => i = j
  /\ \A r \in PostRequest :
       At(r, "queued") => \E i \in DOMAIN pool : pool[i] = r

Threads == /\ admitted = OnThread
           /\ IsFiniteSet(OnThread) /\ Cardinality(OnThread) <= PostThreads

\* Before a task ends only the timeout answers, and it has written nothing.
Unwritten(r) ==
  /\ ~At(r, "ended") => postAnswer[r] \in {NoPost, 504}
  /\ \A i \in PostId : posts[i] = r =>
       At(r, "ended") /\ postAnswer[r] # 503

\* What the breaker has counted is a part of the history.
Counts == /\ breaker.successes <= streak
          /\ breaker.state # "half" => breaker.successes = 0

PostInv ==
  /\ PostTypes /\ Queued /\ Threads /\ Counts
  /\ \A r \in PostRequest : Unwritten(r)

LEMMA PostStart == PostInit => PostInv
<1> SUFFICES ASSUME PostInit PROVE PostInv
  OBVIOUS
<1> USE PostAssumption DEF PostInit, Idle, At
<1>1. PostTypes
  BY DEF PostTypes, TaskType, Place, CallKind
<1>2. Queued
  BY DEF Queued
<1>3. Threads
  <2>1. OnThread = {}
    BY DEF OnThread
  <2> QED BY <2>1, FS_EmptySet DEF Threads
<1>4. Counts
  BY DEF Counts
<1>5. \A r \in PostRequest : Unwritten(r)
  <2>1. ASSUME NEW r \in PostRequest, NEW i \in PostId PROVE posts[i] # r
    BY DEF PostInit
  <2> QED BY <2>1 DEF Unwritten
<1> QED BY <1>1, <1>2, <1>3, <1>4, <1>5 DEF PostInv

-----------------------------------------------------------------------------
(* The pool.                                                               *)

LEMMA Taken ==
  ASSUME PostInv, NEW r \in PostRequest, NEW kinds, Starts(r, kinds)
  PROVE  /\ At(r, "queued")
         /\ pool' \in Seq(PostRequest)
         /\ \A i \in DOMAIN pool' : pool'[i] # r /\ At(pool'[i], "queued")
         /\ \A i, j \in DOMAIN pool' : pool'[i] = pool'[j] => i = j
         /\ \A q \in PostRequest \ {r} :
              At(q, "queued") => \E i \in DOMAIN pool' : pool'[i] = q
<1> USE DEF PostInv, Starts
<1>1. pool \in Seq(PostRequest) /\ pool # <<>> /\ r = pool[1]
  BY DEF PostTypes
<1>2. /\ Len(pool) \in Nat /\ Len(pool) > 0 /\ DOMAIN pool = 1..Len(pool)
      /\ pool' \in Seq(PostRequest) /\ DOMAIN pool' = 1..(Len(pool) - 1)
      /\ \A i \in DOMAIN pool' : pool'[i] = pool[i + 1]
  BY <1>1
<1>3. \A i \in DOMAIN pool' : i + 1 \in DOMAIN pool /\ i + 1 # 1
  BY <1>2
<1>4. 1 \in DOMAIN pool
  BY <1>2
<1>5. \A i \in DOMAIN pool' : pool'[i] # r /\ At(pool'[i], "queued")
  BY <1>1, <1>2, <1>3, <1>4 DEF Queued
<1>6. \A i, j \in DOMAIN pool' : pool'[i] = pool'[j] => i = j
  <2> SUFFICES ASSUME NEW i \in DOMAIN pool', NEW j \in DOMAIN pool',
                      pool'[i] = pool'[j]
               PROVE  i = j
    OBVIOUS
  <2>1. i + 1 = j + 1
    BY <1>2, <1>3 DEF Queued
  <2> QED BY <1>2, <2>1
<1>7. ASSUME NEW q \in PostRequest \ {r}, At(q, "queued")
      PROVE  \E i \in DOMAIN pool' : pool'[i] = q
  <2>1. PICK i \in DOMAIN pool : pool[i] = q
    BY <1>7 DEF Queued
  <2>2. i # 1 /\ i - 1 \in DOMAIN pool' /\ pool'[i - 1] = q
    BY <1>1, <1>2, <1>7, <2>1
  <2> QED BY <2>2
<1> QED BY <1>1, <1>2, <1>4, <1>5, <1>6, <1>7 DEF Queued

\* A request has moved to another place; what that means for the rest.
LEMMA Moved ==
  ASSUME task \in [PostRequest -> TaskType], NEW r \in PostRequest, NEW e \in TaskType,
         task' = [task EXCEPT ![r] = e]
  PROVE  /\ task' \in [PostRequest -> TaskType]
         /\ task'[r] = e /\ \A q \in PostRequest \ {r} : task'[q] = task[q]
         /\ OnThread' = IF e.at \in {"called", "asleep"}
                        THEN OnThread \cup {r} ELSE OnThread \ {r}
<1>1. /\ task' \in [PostRequest -> TaskType]
      /\ task'[r] = e /\ \A q \in PostRequest \ {r} : task'[q] = task[q]
  OBVIOUS
<1> QED BY <1>1 DEF OnThread

LEMMA At1 ==
  ASSUME task \in [PostRequest -> TaskType], NEW r \in PostRequest, NEW place \in Place
  PROVE  /\ [task[r] EXCEPT !.at = place] \in TaskType
         /\ [task[r] EXCEPT !.at = place].at = place
         /\ GoesTo(r, place) =
              [task EXCEPT ![r] = [task[r] EXCEPT !.at = place]]
<1>1. task[r] \in TaskType
  OBVIOUS
<1>2. /\ [task[r] EXCEPT !.at = place] \in TaskType
      /\ [task[r] EXCEPT !.at = place].at = place
  BY <1>1 DEF TaskType
<1>3. GoesTo(r, place) =
        [task EXCEPT ![r] = [task[r] EXCEPT !.at = place]]
  BY DEF GoesTo
<1> QED BY <1>2, <1>3

\* A task that waited for a thread ends with an answer.
LEMMA StartsAndEnds ==
  ASSUME PostInv, NEW r \in PostRequest, NEW kinds,
         NEW status \in {200, 201, 503}, Starts(r, kinds), Ends(r, status),
         UNCHANGED <<breaker, admitted, streak>>,
         posts' \in [PostId -> PostRequest \cup {0, NoPost}],
         \A i \in PostId : \/ posts'[i] = posts[i]
                           \/ posts'[i] = r /\ status # 503
  PROVE  PostInv'
<1> USE DEF PostInv
<1> DEFINE e == [task[r] EXCEPT !.at = "ended"]
<1>1. /\ At(r, "queued") /\ pool' \in Seq(PostRequest)
      /\ \A i \in DOMAIN pool' : pool'[i] # r /\ At(pool'[i], "queued")
      /\ \A i, j \in DOMAIN pool' : pool'[i] = pool'[j] => i = j
      /\ \A q \in PostRequest \ {r} :
           At(q, "queued") => \E i \in DOMAIN pool' : pool'[i] = q
  BY Taken
<1>2. e \in TaskType /\ e.at = "ended" /\ task' = [task EXCEPT ![r] = e]
  BY At1, ZenonT(60) DEF Ends, Place, PostTypes
<1> HIDE DEF e
<1>3. /\ task' \in [PostRequest -> TaskType] /\ task'[r].at = "ended"
      /\ \A q \in PostRequest \ {r} : task'[q] = task[q]
      /\ OnThread' = OnThread
  <2>1. r \notin OnThread /\ task \in [PostRequest -> TaskType]
    BY <1>1 DEF OnThread, At, PostTypes
  <2>2. OnThread' = OnThread \ {r}
    BY <1>2, <2>1, Moved
  <2> QED BY <1>2, <2>1, <2>2, Moved
<1>4. /\ postAnswer' \in [PostRequest -> Nat \cup {NoPost}]
      /\ postAnswer'[r] \in {status, 504}
      /\ \A q \in PostRequest \ {r} : postAnswer'[q] = postAnswer[q]
  BY <1>1 DEF Ends, PostTypes, Unwritten, At
<1>5. PostTypes'
  BY <1>1, <1>3, <1>4 DEF PostTypes
<1>6. Queued'
  <2>1. \A i \in DOMAIN pool' : pool'[i] \in PostRequest
    BY <1>1
  <2> QED BY <1>1, <1>3, <2>1 DEF Queued, At
<1>7. Threads' /\ Counts'
  BY <1>3 DEF Threads, Counts
<1>8. ASSUME NEW q \in PostRequest PROVE Unwritten(q)'
  <2>2. CASE q = r
    <3>1. \A i \in PostId : posts[i] # r
      BY <1>1 DEF Unwritten, At
    <3> QED BY <1>3, <1>4, <2>2, <3>1 DEF Unwritten, At
  <2>3. CASE q # r
    BY <1>3, <1>4, <2>3 DEF Unwritten, At
  <2> QED BY <2>2, <2>3
<1> QED BY <1>5, <1>6, <1>7, <1>8

\* The breaker lets a task in.
LEMMA Admitted ==
  ASSUME PostInv, NEW r \in PostRequest, NEW kinds, Starts(r, kinds),
         breaker' \in Allowing, admitted' = admitted \cup {r},
         task' = GoesTo(r, "called"), UNCHANGED <<postAnswer, posts, streak>>
  PROVE  PostInv'
<1> USE DEF PostInv
<1> DEFINE e == [task[r] EXCEPT !.at = "called"]
<1>1. /\ At(r, "queued") /\ pool' \in Seq(PostRequest)
      /\ \A i \in DOMAIN pool' : pool'[i] # r /\ At(pool'[i], "queued")
      /\ \A i, j \in DOMAIN pool' : pool'[i] = pool'[j] => i = j
      /\ \A q \in PostRequest \ {r} :
           At(q, "queued") => \E i \in DOMAIN pool' : pool'[i] = q
  BY Taken
<1>2. e \in TaskType /\ e.at = "called" /\ task' = [task EXCEPT ![r] = e]
  BY At1 DEF Place, PostTypes
<1> HIDE DEF e
<1>3. /\ task' \in [PostRequest -> TaskType] /\ task'[r].at = "called"
      /\ \A q \in PostRequest \ {r} : task'[q] = task[q]
      /\ OnThread' = OnThread \cup {r} /\ r \notin OnThread
  <2>1. r \notin OnThread /\ task \in [PostRequest -> TaskType]
    BY <1>1 DEF OnThread, At, PostTypes
  <2> QED BY <1>2, <2>1, Moved
<1>4. breaker' = breaker \/ breaker' = [state |-> "half", successes |-> 0]
  BY DEF Allowing, PostTypes
<1>5. PostTypes'
  BY <1>1, <1>3, <1>4 DEF PostTypes
<1>6. Queued'
  <2>1. \A i \in DOMAIN pool' : pool'[i] \in PostRequest
    BY <1>1
  <2> QED BY <1>1, <1>3, <2>1 DEF Queued, At
<1>7. Threads'
  <2>1. Cardinality(OnThread') = Cardinality(OnThread) + 1
        /\ IsFiniteSet(OnThread') /\ Cardinality(OnThread) \in Nat
    BY <1>3, FS_AddElement, FS_CardinalityType DEF Threads
  <2>2. Cardinality(OnThread) < PostThreads
    BY DEF Starts
  <2> QED BY <1>3, <2>1, <2>2, PostAssumption DEF Threads
<1>8. Counts'
  BY <1>4 DEF Counts, PostTypes
<1>9. ASSUME NEW q \in PostRequest PROVE Unwritten(q)'
  BY <1>1, <1>3 DEF Unwritten, At
<1> QED BY <1>5, <1>6, <1>7, <1>8, <1>9

\* A call in the breaker goes on or ends; the pool stays.
LEMMA OnThreadStep ==
  ASSUME PostInv, NEW r \in OnThread, NEW e \in TaskType,
         task' = [task EXCEPT ![r] = e], UNCHANGED pool,
         e.at \in {"asleep", "ended"},
         admitted' = IF e.at = "ended" THEN admitted \ {r} ELSE admitted,
         breaker' \in [state : {"closed", "open", "half"},
                       successes : 0..2],
         streak' \in Nat, Counts',
         \/ UNCHANGED posts
         \/ e.at = "ended" /\ UNCHANGED postAnswer
            /\ posts' = [posts EXCEPT ![task[r].id] = r]
         ,
         \/ UNCHANGED postAnswer
         \/ e.at = "ended" /\ UNCHANGED posts
            /\ \E s \in Nat : postAnswer' = [postAnswer EXCEPT ![r] = s]
  PROVE  PostInv'
<1> USE DEF PostInv
<1>1. r \in PostRequest /\ task[r].at \in {"called", "asleep"}
  BY DEF OnThread
<1>2. /\ task' \in [PostRequest -> TaskType] /\ task'[r] = e
      /\ \A q \in PostRequest \ {r} : task'[q] = task[q]
      /\ OnThread' = IF e.at = "ended" THEN OnThread \ {r} ELSE OnThread
  <2>1. task \in [PostRequest -> TaskType]
    BY DEF PostTypes
  <2>2. OnThread' = IF e.at \in {"called", "asleep"}
                    THEN OnThread \cup {r} ELSE OnThread \ {r}
    BY <1>1, <2>1, Moved
  <2> QED BY <1>1, <2>1, <2>2, Moved
<1>3. PostTypes'
  <2>1. posts' \in [PostId -> PostRequest \cup {0, NoPost}]
    BY <1>1 DEF PostTypes
  <2>2. postAnswer' \in [PostRequest -> Nat \cup {NoPost}]
    <3>1. ASSUME NEW s \in Nat, postAnswer' = [postAnswer EXCEPT ![r] = s]
          PROVE  postAnswer' \in [PostRequest -> Nat \cup {NoPost}]
      BY <3>1 DEF PostTypes
    <3> QED BY <3>1 DEF PostTypes
  <2> QED BY <1>2, <2>1, <2>2 DEF PostTypes
<1>4. Queued'
  <2>1. \A i \in DOMAIN pool : pool[i] \in PostRequest /\ pool[i] # r
    BY <1>1 DEF PostTypes, Queued, At
  <2> QED BY <1>1, <1>2, <2>1 DEF Queued, At
<1>5. Threads'
  <2>1. IsFiniteSet(OnThread \ {r})
        /\ Cardinality(OnThread \ {r}) = Cardinality(OnThread) - 1
        /\ Cardinality(OnThread) \in Nat
    BY FS_RemoveElement, FS_CardinalityType DEF Threads
  <2>2. PostThreads \in Nat
    BY PostAssumption
  <2> QED BY <1>2, <2>1, <2>2 DEF Threads
<1>6. ASSUME NEW q \in PostRequest PROVE Unwritten(q)'
  <2>1. ASSUME NEW i \in PostId
        PROVE  \/ posts'[i] = posts[i]
               \/ posts'[i] = r /\ e.at = "ended" /\ UNCHANGED postAnswer
    <3>1. CASE UNCHANGED posts
      BY <3>1
    <3>2. CASE e.at = "ended" /\ UNCHANGED postAnswer
               /\ posts' = [posts EXCEPT ![task[r].id] = r]
      BY <3>2 DEF PostTypes
    <3> QED BY <3>1, <3>2
  <2>2. CASE q = r
    <3>1. (\A i \in PostId : posts[i] # r) /\ postAnswer[r] \in {NoPost, 504}
      BY <1>1 DEF Unwritten, At
    <3>2. NoPost # 503
      BY PostAssumption
    <3> QED BY <1>2, <2>1, <2>2, <3>1, <3>2 DEF Unwritten, At
  <2>3. CASE q # r
    <3>1. postAnswer'[q] = postAnswer[q]
      BY <2>3 DEF PostTypes
    <3> QED BY <1>2, <2>1, <2>3, <3>1 DEF Unwritten, At
  <2> QED BY <2>2, <2>3
<1> QED BY <1>3, <1>4, <1>5, <1>6

-----------------------------------------------------------------------------
(* The actions.                                                            *)

LEMMA RequestKeeps ==
  ASSUME PostInv, NEW r \in PostRequest, NEW call \in CallKind,
         NEW id \in PostId \cup {0}, Request(r, call, id)
  PROVE  PostInv'
<1> USE DEF PostInv, Request
<1> DEFINE e == [kind |-> call, id |-> id, at |-> "queued", status |-> 0]
<1>1. e \in TaskType /\ e.at = "queued" /\ task' = [task EXCEPT ![r] = e]
      /\ task[r].at = "none"
  BY DEF TaskType, Place, At
<1> HIDE DEF e
<1>2. /\ task' \in [PostRequest -> TaskType] /\ task'[r].at = "queued"
      /\ \A q \in PostRequest \ {r} : task'[q] = task[q]
      /\ OnThread' = OnThread
  <2>1. r \notin OnThread /\ task \in [PostRequest -> TaskType]
    BY <1>1 DEF OnThread, PostTypes
  <2>2. OnThread' = OnThread \ {r}
    BY <1>1, <2>1, Moved
  <2> QED BY <1>1, <2>1, <2>2, Moved
<1>3. /\ pool \in Seq(PostRequest) /\ Len(pool) \in Nat
      /\ DOMAIN pool = 1..Len(pool) /\ pool' \in Seq(PostRequest)
      /\ DOMAIN pool' = 1..(Len(pool) + 1) /\ pool'[Len(pool) + 1] = r
      /\ \A i \in DOMAIN pool : pool'[i] = pool[i]
  BY DEF PostTypes
<1>4. \A i \in DOMAIN pool : pool[i] # r /\ pool[i] \in PostRequest
  BY <1>1, <1>3 DEF Queued, At
<1>5. PostTypes'
  BY <1>2, <1>3 DEF PostTypes
<1>6. Queued'
  <2>1. \A i \in DOMAIN pool' : i \in DOMAIN pool \/ i = Len(pool) + 1
    BY <1>3
  <2>2. \A i \in DOMAIN pool' : task'[pool'[i]].at = "queued"
    BY <1>2, <1>3, <1>4, <2>1 DEF Queued, At
  <2>3. \A i, j \in DOMAIN pool' : pool'[i] = pool'[j] => i = j
    BY <1>3, <1>4, <2>1 DEF Queued
  <2>4. ASSUME NEW q \in PostRequest, task'[q].at = "queued"
        PROVE  \E i \in DOMAIN pool' : pool'[i] = q
    <3>1. CASE q = r
      BY <1>3, <3>1
    <3>2. CASE q # r
      <4>1. PICK i \in DOMAIN pool : pool[i] = q
        BY <1>2, <2>4, <3>2 DEF Queued, At
      <4>2. i \in DOMAIN pool' /\ pool'[i] = q
        BY <1>3, <4>1
      <4> QED BY <4>2
    <3> QED BY <3>1, <3>2
  <2> QED BY <2>2, <2>3, <2>4 DEF Queued, At
<1>7. Threads' /\ Counts'
  BY <1>2 DEF Threads, Counts
<1>8. ASSUME NEW q \in PostRequest PROVE Unwritten(q)'
  BY <1>1, <1>2 DEF Unwritten, At
<1> QED BY <1>5, <1>6, <1>7, <1>8

LEMMA EnterKeeps ==
  ASSUME PostInv, NEW r \in PostRequest, Enter(r)
  PROVE  PostInv'
<1>1. ASSUME Refuses, Ends(r, 503), UNCHANGED <<breaker, admitted>>
      PROVE  PostInv'
  <2>1. posts' \in [PostId -> PostRequest \cup {0, NoPost}]
        /\ UNCHANGED <<posts, streak>> /\ Starts(r, {"get", "update"})
    BY DEF Enter, PostInv, PostTypes
  <2> QED BY <1>1, <2>1, StartsAndEnds
<1> QED BY <1>1, Admitted DEF Enter

LEMMA LookupKeeps ==
  ASSUME PostInv, NEW r \in PostRequest, Lookup(r)
  PROVE  PostInv'
<1> DEFINE e == [task[r] EXCEPT !.at = "ended"]
           s == IF postAnswer[r] = NoPost THEN 503 ELSE postAnswer[r]
<1>1. e \in TaskType /\ e.at = "ended" /\ task' = [task EXCEPT ![r] = e]
  BY At1 DEF Lookup, Ends, Place, PostInv, PostTypes
<1>2. s \in Nat /\ postAnswer' = [postAnswer EXCEPT ![r] = s]
  BY DEF Lookup, Ends, PostInv, PostTypes
<1>3. r \in OnThread /\ admitted' = admitted \ {r}
      /\ UNCHANGED <<posts, pool>>
  BY DEF Lookup, OnThread, At
<1>4. /\ breaker' \in [state : {"closed", "open", "half"}, successes : 0..2]
      /\ streak' \in Nat /\ Counts'
  BY DEF Lookup, RecordFailure, Counts
<1> HIDE DEF e, s
<1> QED BY <1>1, <1>2, <1>3, <1>4, OnThreadStep

LEMMA ModifyKeeps ==
  ASSUME PostInv, NEW r \in PostRequest, Modify(r)
  PROVE  PostInv'
<1>1. PICK e \in TaskType :
        e.at = "asleep" /\ task' = [task EXCEPT ![r] = e]
  <2> DEFINE s == IF posts[task[r].id] = NoPost THEN 404 ELSE 200
             e == [task[r] EXCEPT !.at = "asleep", !.status = s]
  <2>1. s \in {0, 200, 404} /\ task[r] \in TaskType
    BY DEF PostInv, PostTypes
  <2>2. task' = [task EXCEPT ![r] = e]
    BY DEF Modify, PostInv, PostTypes
  <2>3. e \in TaskType /\ e.at = "asleep"
    <3> HIDE DEF s
    <3> QED BY <2>1, ZenonT(60) DEF TaskType, Place
  <2> HIDE DEF e
  <2> QED BY <2>2, <2>3
<1>2. r \in OnThread /\ UNCHANGED <<posts, breaker, admitted, pool, postAnswer,
                                    streak>>
  BY DEF Modify, OnThread, At
<1>3. /\ breaker' \in [state : {"closed", "open", "half"}, successes : 0..2]
      /\ streak' \in Nat /\ Counts'
  BY <1>2 DEF PostInv, PostTypes, Counts
<1> QED BY <1>1, <1>2, <1>3, OnThreadStep

LEMMA WakeKeeps ==
  ASSUME PostInv, NEW r \in PostRequest, Wake(r)
  PROVE  PostInv'
<1> DEFINE e == [task[r] EXCEPT !.at = "ended"]
<1>1. e \in TaskType /\ e.at = "ended" /\ task' = [task EXCEPT ![r] = e]
  BY At1 DEF Wake, Place, PostInv, PostTypes
<1>2. r \in OnThread /\ admitted' = admitted \ {r}
      /\ UNCHANGED <<pool, postAnswer>>
  BY DEF Wake, OnThread, At
<1>3. /\ breaker' \in [state : {"closed", "open", "half"}, successes : 0..2]
      /\ streak' \in Nat /\ Counts'
  <2>1. /\ streak' = streak + 1 /\ breaker' = RecordSuccess
        /\ breaker.successes \in 0..2 /\ streak \in Nat
        /\ breaker.successes <= streak
        /\ breaker.state \in {"closed", "open", "half"}
    BY DEF Wake, PostInv, PostTypes, Counts
  <2>2. CASE breaker.state # "half"
    BY <2>1, <2>2 DEF RecordSuccess, Counts, PostInv, PostTypes
  <2>3. CASE breaker.state = "half" /\ breaker.successes = 2
    BY <2>1, <2>3 DEF RecordSuccess, SuccessThreshold, Counts
  <2>4. CASE breaker.state = "half" /\ breaker.successes # 2
    <3>1. breaker' = [breaker EXCEPT !.successes = @ + 1]
      BY <2>1, <2>4 DEF RecordSuccess, SuccessThreshold
    <3> QED BY <2>1, <2>4, <3>1 DEF Counts, PostInv, PostTypes
  <2> QED BY <2>2, <2>3, <2>4
<1>4. UNCHANGED posts \/ posts' = [posts EXCEPT ![task[r].id] = r]
  BY DEF Wake
<1> HIDE DEF e
<1> QED BY <1>1, <1>2, <1>3, <1>4, OnThreadStep

LEMMA TimeOutKeeps ==
  ASSUME PostInv, NEW r \in PostRequest, TimeOut(r)
  PROVE  PostInv'
<1> USE DEF PostInv, TimeOut
<1>1. PostTypes'
  BY DEF PostTypes
<1>2. Queued' /\ Threads' /\ Counts'
  BY DEF Queued, Threads, Counts, OnThread, At
<1>3. ASSUME NEW q \in PostRequest PROVE Unwritten(q)'
  BY DEF PostTypes, Unwritten, At
<1> QED BY <1>1, <1>2, <1>3

LEMMA PostStep == PostInv /\ PostNext => PostInv'
<1> SUFFICES ASSUME PostInv, NEW r \in PostRequest,
                    \/ \E call \in {"list", "create", "get"} :
                         Request(r, call, 0)
                    \/ \E id \in PostId : Request(r, "update", id)
                    \/ Task(r) \/ TimeOut(r)
             PROVE  PostInv'
  BY DEF PostNext
<1>1. ASSUME NEW call \in {"list", "create", "get"}, Request(r, call, 0)
      PROVE  PostInv'
  BY <1>1, RequestKeeps DEF CallKind
<1>2. ASSUME NEW id \in PostId, Request(r, "update", id) PROVE PostInv'
  BY <1>2, RequestKeeps DEF CallKind
<1>3. CASE ListPosts(r)
  BY <1>3, StartsAndEnds DEF ListPosts, PostInv, PostTypes
<1>4. CASE Create(r)
  <2>1. /\ posts' \in [PostId -> PostRequest \cup {0, NoPost}]
        /\ \A i \in PostId : posts'[i] = posts[i] \/ posts'[i] = r
    BY <1>4 DEF Create, PostInv, PostTypes
  <2>2. Starts(r, {"create"}) /\ Ends(r, 201)
        /\ UNCHANGED <<breaker, admitted, streak>>
    BY <1>4 DEF Create
  <2> QED BY <2>1, <2>2, StartsAndEnds
<1> QED BY <1>1, <1>2, <1>3, <1>4, EnterKeeps, LookupKeeps, ModifyKeeps,
           WakeKeeps, TimeOutKeeps DEF Task

LEMMA PostInvHolds == ServicesSpec => []PostInv
<1>1. ServicesInit => PostInv
  BY PostStart DEF ServicesInit
<1>2. PostInv /\ [ServicesNext]_others => PostInv'
  <2> SUFFICES ASSUME PostInv, [ServicesNext]_others PROVE PostInv'
    OBVIOUS
  <2>1. CASE UNCHANGED postVars
    BY <2>1 DEF postVars, PostInv, PostTypes, Queued, Threads, Counts,
                Unwritten, OnThread, At
  <2> QED BY <2>1, PostStep DEF ServicesNext, others, postVars
<1> QED BY <1>1, <1>2, PTL DEF ServicesSpec

\* The breaker's calls and the pool's tasks are those of the requests, and no
\* more of them run than there are threads.
THEOREM PostsAreOK == ServicesSpec => []PostsOK
<1>1. PostInv => PostsOK
  <2> SUFFICES ASSUME PostInv PROVE PostsOK
    OBVIOUS
  <2> USE DEF PostInv
  <2>1. breaker \in [state : {"closed", "open", "half"}, successes : Nat]
        /\ breaker.successes < SuccessThreshold
    BY DEF PostTypes, SuccessThreshold
  <2>2. {pool[i] : i \in DOMAIN pool} = {r \in PostRequest : At(r, "queued")}
    BY DEF PostTypes, Queued
  <2> QED BY <2>1, <2>2 DEF PostsOK, PostTypes, Threads, OnThread
<1> QED BY <1>1, PostInvHolds, PTL

\* A request answered 503 has written no row and will write none.
THEOREM RefusedIsUnwritten == ServicesSpec => []RefusedWroteNothing
<1>1. PostInv => RefusedWroteNothing
  BY DEF PostInv, Unwritten, RefusedWroteNothing
<1> QED BY <1>1, PostInvHolds, PTL

\* The breaker does not close before three updates have ended without a
\* failure in between.
THEOREM ThreeCloseIt == ServicesSpec => BreakerNeedsThree
<1>1. PostInv /\ [ServicesNext]_others =>
        [breaker.state # "closed" /\ breaker'.state = "closed"
           => streak' >= 3]_postVars
  <2> SUFFICES ASSUME PostInv, [ServicesNext]_others, breaker.state # "closed",
                      breaker'.state = "closed"
               PROVE  streak' >= 3
    OBVIOUS
  <2>1. PICK r \in PostRequest : Enter(r) \/ Lookup(r) \/ Wake(r)
    BY DEF ServicesNext, others, postVars, PostNext, Task, Request, ListPosts, Create,
           Modify, TimeOut
  <2>2. ~Enter(r)
    BY DEF Enter, Allowing, PostInv, PostTypes
  <2>3. ~Lookup(r)
    BY DEF Lookup, RecordFailure
  <2>4. breaker' = RecordSuccess /\ streak' = streak + 1
    BY <2>1, <2>2, <2>3 DEF Wake
  <2>5. breaker.successes = 2
    BY <2>4 DEF RecordSuccess, SuccessThreshold, PostInv, PostTypes
  <2> QED BY <2>4, <2>5 DEF PostInv, PostTypes, Counts
<1> QED BY <1>1, PostInvHolds, PTL DEF ServicesSpec, BreakerNeedsThree

\* The post service as a whole: breaker, pool and requests agree, and an
\* update that was refused is not written.
THEOREM PostsAreSafe == ServicesSpec => []PostsSafe
<1>1. PostsOK /\ RefusedWroteNothing => PostsSafe
  BY DEF PostsSafe
<1> QED BY <1>1, PostsAreOK, RefusedIsUnwritten, PTL

-----------------------------------------------------------------------------
(* ClusterCounter *)

AskType == [kind : {"none", "get", "increment"},
            at : {"none", "sent", "replied", "done"},
            number : Nat, era : 0..MaxEra,
            result : {"none", "answer", "error"},
            before : SUBSET Ask]

CounterTypes == value \in Nat /\ era \in 0..MaxEra /\ ask \in [Ask -> AskType]

\* The increments that the singleton has counted since it moved.
CountedNow == {a \in Ask : /\ ask[a].kind = "increment"
                           /\ ask[a].number > 0
                           /\ ask[a].era = era}

\* A reply was made, and is on its way or has come.
Told(a) == ask[a].at = "replied" \/ ask[a].result = "answer"

\* Numbers were given once, and up to the value.
Numbers ==
  /\ IsFiniteSet(CountedNow) /\ value = Cardinality(CountedNow)
  /\ \A a \in Ask :
       /\ ask[a].era <= era
       /\ ask[a].era = era => ask[a].number <= value
       /\ ask[a].at \in {"none", "sent"} =>
            ask[a].number = 0 /\ ask[a].era = 0
       /\ ask[a].at \in {"none", "sent"} => ask[a].result # "answer"
       /\ ask[a].kind = "none" => ask[a].at = "none"
       /\ ask[a].result = "answer" => ask[a].at = "done"

\* Those who had their answer before have it still, and the numbers that
\* were told after them are not smaller.
Order(b, a) ==
  /\ ask[a].result = "answer"
  /\ Told(b) /\ ask[a].era = ask[b].era =>
       /\ ask[b].kind = "increment" => ask[b].number > ask[a].number
       /\ ask[b].number >= ask[a].number

CounterInv ==
  /\ CounterTypes /\ Numbers /\ NumbersOnce
  /\ \A b \in Ask : \A a \in ask[b].before : Order(b, a)

LEMMA CounterStart == CounterInit => CounterInv
<1> SUFFICES ASSUME CounterInit PROVE CounterInv
  OBVIOUS
<1> USE DEF CounterInit, NotAsked
<1>1. CounterTypes
  BY CounterAssumption DEF CounterTypes, AskType
<1>2. CountedNow = {}
  BY DEF CountedNow
<1>3. Numbers
  BY <1>2, FS_EmptySet DEF Numbers
<1> QED BY <1>1, <1>3 DEF CounterInv, NumbersOnce

\* Steps that give no number: an ask begins, its answer comes or does not.
LEMMA NoNumber ==
  ASSUME CounterInv, NEW a \in Ask, NEW e \in AskType,
         ask' = [ask EXCEPT ![a] = e], UNCHANGED <<value, era>>,
         e.number = ask[a].number, e.era = ask[a].era,
         ask[a].kind = "none" \/ e.kind = ask[a].kind,
         e.kind = "none" => e.at = "none",
         e.at \in {"none", "sent"} =>
           e.result # "answer" /\ e.number = 0 /\ e.era = 0,
         e.result = "answer" => e.at = "done",
         ask[a].result = "answer" => e.result = "answer",
         e.at = "replied" \/ e.result = "answer" => Told(a),
         \A b \in e.before : ask[b].result = "answer",
         e.before = ask[a].before \/ e.at = "sent"
  PROVE  CounterInv'
<1> USE DEF CounterInv
<1>1. /\ ask'[a] = e /\ ask \in [Ask -> AskType]
      /\ \A b \in Ask \ {a} : ask'[b] = ask[b]
  BY DEF CounterTypes
<1>2. \A b \in Ask : /\ ask'[b].number = ask[b].number
                     /\ ask'[b].era = ask[b].era
                     /\ ask[b].result = "answer" => ask'[b].result = "answer"
                     /\ Told(b)' => Told(b)
  BY <1>1 DEF Told
<1>3. \A b \in Ask : ask[b].number > 0 => ask'[b].kind = ask[b].kind
  BY <1>1 DEF Numbers
<1>4. CounterTypes'
  BY DEF CounterTypes
<1>5. CountedNow' = CountedNow
  <2>1. \A b \in Ask : ask'[b].number > 0 =>
          (ask'[b].kind = "increment" <=> ask[b].kind = "increment")
    BY <1>2, <1>3
  <2> QED BY <1>2, <2>1 DEF CountedNow
<1>6. Numbers'
  BY <1>1, <1>2, <1>5 DEF Numbers
<1>7. NumbersOnce'
  BY <1>2, <1>3 DEF NumbersOnce
<1>8. ASSUME NEW b \in Ask, NEW c \in ask'[b].before PROVE Order(b, c)'
  <2>1. c \in Ask
    BY <1>1, <1>8 DEF AskType
  <2>2. CASE b = a /\ e.at = "sent"
    BY <1>1, <1>2, <1>8, <2>1, <2>2 DEF Order, Told
  <2>3. CASE c \in ask[b].before
    <3>1. Order(b, c)
      BY <2>3
    <3>2. Told(b) => (ask'[b].kind = ask[b].kind)
      BY <1>1 DEF Told, Numbers
    <3> QED BY <1>2, <2>1, <3>1, <3>2 DEF Order
  <2> QED BY <1>1, <1>8, <2>2, <2>3
<1> QED BY <1>4, <1>6, <1>7, <1>8

\* The singleton answers: with its value, which an increment has raised.
LEMMA GivesNumber ==
  ASSUME CounterInv, NEW a \in Ask,
         ask[a].at = "sent", UNCHANGED era,
         ask' = Tells(a, value'),
         \/ ask[a].kind = "get" /\ value' = value
         \/ ask[a].kind = "increment" /\ value' = value + 1
  PROVE  CounterInv'
<1> USE DEF CounterInv
<1>1. ask \in [Ask -> AskType] /\ value \in Nat /\ value' \in Nat
      /\ era \in 0..MaxEra /\ value <= value'
  BY DEF CounterTypes
<1>2. /\ ask'[a].at = "replied" /\ ask'[a].number = value'
      /\ ask'[a].era = era /\ ask'[a].kind = ask[a].kind
      /\ ask'[a].result = ask[a].result /\ ask'[a].before = ask[a].before
      /\ \A b \in Ask \ {a} : ask'[b] = ask[b]
  BY <1>1 DEF Tells, AskType
<1>3. CounterTypes'
  <2> DEFINE e == [ask[a] EXCEPT !.at = "replied", !.number = value',
                                 !.era = era]
  <2>1. e \in AskType
    BY <1>1 DEF AskType
  <2>2. ask' = [ask EXCEPT ![a] = e]
    BY <1>1 DEF Tells
  <2> HIDE DEF e
  <2> QED BY <1>1, <2>1, <2>2 DEF CounterTypes
<1>4. ask[a].number = 0 /\ ask[a].result # "answer" /\ a \notin CountedNow
  BY DEF Numbers, CountedNow
<1>5. IsFiniteSet(CountedNow') /\ value' = Cardinality(CountedNow')
  <2>1. CASE ask[a].kind = "get"
    <3>1. CountedNow' = CountedNow
      BY <1>2, <1>4, <2>1 DEF CountedNow
    <3> QED BY <2>1, <3>1 DEF Numbers
  <2>2. CASE ask[a].kind = "increment"
    <3>1. CountedNow' = CountedNow \cup {a}
      BY <1>1, <1>2, <2>2 DEF CountedNow
    <3> QED BY <1>4, <2>2, <3>1, FS_AddElement DEF Numbers
  <2> QED BY <2>1, <2>2
<1>6. \A b \in Ask : ask[b].number \in Nat /\ ask'[b].number \in Nat
  BY <1>1, <1>3 DEF CounterTypes, AskType
<1>7. Numbers'
  BY <1>1, <1>2, <1>4, <1>5, <1>6 DEF Numbers
<1>8. NumbersOnce'
  <2> SUFFICES ASSUME NEW b \in Ask, NEW c \in Ask, b # c,
                      ask'[b].number > 0, ask'[c].number > 0,
                      ask'[b].kind = "increment", ask'[c].kind = "increment",
                      ask'[b].era = ask'[c].era
               PROVE  ask'[b].number # ask'[c].number
    BY DEF NumbersOnce
  <2>1. CASE b # a /\ c # a
    BY <1>2, <2>1 DEF NumbersOnce
  <2>2. \A d \in Ask \ {a} : ask[d].era = era => ask[d].number <= value
    BY DEF Numbers
  <2>3. CASE b = a \/ c = a
    BY <1>1, <1>2, <1>6, <2>2, <2>3
  <2> QED BY <2>1, <2>3
<1>9. ASSUME NEW b \in Ask, NEW c \in ask'[b].before PROVE Order(b, c)'
  <2>1. c \in ask[b].before /\ Order(b, c)
    BY <1>2, <1>9
  <2>2. c \in Ask /\ c # a
    BY <1>1, <1>4, <2>1 DEF AskType, Order
  <2>3. CASE b = a
    <3>1. ask[c].era = era => ask[c].number <= value
      BY <2>2 DEF Numbers
    <3> QED BY <1>1, <1>2, <1>6, <2>1, <2>2, <2>3, <3>1 DEF Order
  <2>4. CASE b # a
    BY <1>2, <2>1, <2>2, <2>4 DEF Order, Told
  <2> QED BY <2>3, <2>4
<1> QED BY <1>3, <1>7, <1>8, <1>9

LEMMA RelocateKeeps ==
  ASSUME CounterInv, Relocate
  PROVE  CounterInv'
<1> USE DEF CounterInv, Relocate
<1>1. ask \in [Ask -> AskType] /\ era \in Nat /\ MaxEra \in Nat
  BY CounterAssumption DEF CounterTypes
<1>2. CounterTypes'
  BY <1>1 DEF CounterTypes
<1>3. \A a \in Ask : ask[a].era <= era /\ ask[a].era \in Nat
  BY <1>1 DEF Numbers, AskType
<1>4. \A a \in Ask : ask[a].era # era' /\ ask[a].era <= era'
  BY <1>1, <1>3
<1>5. CountedNow' = {}
  BY <1>4 DEF CountedNow
<1>6. Numbers'
  BY <1>4, <1>5, FS_EmptySet DEF Numbers
<1>7. NumbersOnce'
  BY DEF NumbersOnce
<1> QED BY <1>2, <1>6, <1>7 DEF Order, Told

LEMMA CounterStep == CounterInv /\ CounterNext => CounterInv'
<1> SUFFICES ASSUME CounterInv, CounterNext PROVE CounterInv'
  OBVIOUS
<1> USE DEF CounterInv
<1>1. ask \in [Ask -> AskType]
  BY DEF CounterTypes
<1>2. ASSUME NEW a \in Ask, NEW call \in {"get", "increment"}, Asks(a, call)
      PROVE  CounterInv'
  <2> DEFINE e == [NotAsked EXCEPT !.kind = call, !.at = "sent",
                                   !.before = Answered]
  <2>1. /\ e.kind = call /\ e.at = "sent" /\ e.before = Answered
        /\ e.number = 0 /\ e.era = 0 /\ e.result = "none"
    BY DEF NotAsked
  <2>2. e \in AskType
    <3>1. 0 \in 0..MaxEra /\ Answered \in SUBSET Ask
      BY CounterAssumption DEF Answered
    <3>2. NotAsked \in AskType
      BY <3>1 DEF NotAsked, AskType
    <3> QED BY <3>1, <3>2 DEF AskType
  <2>3. ask' = [ask EXCEPT ![a] = e] /\ UNCHANGED <<value, era>>
        /\ ask[a].kind = "none"
    BY <1>2 DEF Asks
  <2>4. ask[a].at = "none" /\ ask[a].number = 0 /\ ask[a].result # "answer"
    BY <2>3 DEF Numbers
  <2>5. ask[a].era = 0
    BY <2>4 DEF Numbers
  <2> HIDE DEF e
  <2> QED BY <2>1, <2>2, <2>3, <2>4, <2>5, NoNumber, ZenonT(60) DEF Answered
<1>3. ASSUME NEW a \in Ask, onIncrement(a) PROVE CounterInv'
  BY <1>3, GivesNumber DEF onIncrement
<1>4. ASSUME NEW a \in Ask, onGetValue(a) PROVE CounterInv'
  BY <1>4, GivesNumber DEF onGetValue, Tells
<1>5. ASSUME NEW a \in Ask, Reply(a) PROVE CounterInv'
  <2> DEFINE told == IF ask[a].result = "none" THEN "answer"
                     ELSE ask[a].result
             e    == [ask[a] EXCEPT !.at = "done", !.result = told]
  <2>1. e \in AskType /\ ask' = [ask EXCEPT ![a] = e]
    <3>1. told \in {"none", "answer", "error"}
      BY <1>1 DEF AskType
    <3>2. e \in AskType
      <4> HIDE DEF told
      <4>1. [ask[a] EXCEPT !.at = "done"] \in AskType
        BY <1>1 DEF AskType
      <4>2. e = [[ask[a] EXCEPT !.at = "done"] EXCEPT !.result = told]
        BY <1>1 DEF AskType
      <4> QED BY <3>1, <4>1, <4>2 DEF AskType
    <3>3. ask' = [ask EXCEPT ![a] = e]
      BY <1>1, <1>5 DEF Reply
    <3> QED BY <3>2, <3>3
  <2>2. /\ e.kind = ask[a].kind /\ e.at = "done" /\ e.number = ask[a].number
        /\ e.era = ask[a].era /\ e.before = ask[a].before
        /\ ask[a].result = "answer" => e.result = "answer"
        /\ UNCHANGED <<value, era>> /\ Told(a) /\ e.kind # "none"
    BY <1>1, <1>5 DEF Reply, AskType, Told, Numbers
  <2>3. \A b \in e.before : ask[b].result = "answer"
    BY <2>2 DEF Order
  <2> HIDE DEF e
  <2> QED BY <2>1, <2>2, <2>3, NoNumber
<1>6. ASSUME NEW a \in Ask, AskTimesOut(a) PROVE CounterInv'
  <2> DEFINE e == [ask[a] EXCEPT !.result = "error"]
  <2>1. e \in AskType /\ ask' = [ask EXCEPT ![a] = e]
    BY <1>1, <1>6 DEF AskTimesOut, AskType
  <2>2. /\ e.kind = ask[a].kind /\ e.at = ask[a].at
        /\ e.number = ask[a].number
        /\ e.era = ask[a].era /\ e.before = ask[a].before
        /\ e.result = "error" /\ ask[a].result = "none"
        /\ UNCHANGED <<value, era>>
    BY <1>1, <1>6 DEF AskTimesOut, AskType
  <2>3. \A b \in e.before : ask[b].result = "answer"
    BY <2>2 DEF Order
  <2>4. e.at \in {"none", "sent"} => e.number = 0 /\ e.era = 0
    BY <2>2 DEF Numbers
  <2>5. e.kind = "none" => e.at = "none"
    BY <2>2 DEF Numbers
  <2> HIDE DEF e
  <2> QED BY <2>1, <2>2, <2>3, <2>4, <2>5, NoNumber, ZenonT(60) DEF Told
<1>7. ASSUME NEW a \in Ask, Lose(a) PROVE CounterInv'
  <2> DEFINE e == [ask[a] EXCEPT !.at = "done"]
  <2>1. e \in AskType /\ ask' = [ask EXCEPT ![a] = e]
    BY <1>1, <1>7 DEF Lose, AskType
  <2>2. /\ e.kind = ask[a].kind /\ e.at = "done"
        /\ e.number = ask[a].number
        /\ e.era = ask[a].era /\ e.before = ask[a].before
        /\ e.result = ask[a].result /\ e.kind # "none"
        /\ UNCHANGED <<value, era>>
    BY <1>1, <1>7 DEF Lose, AskType, Numbers
  <2>3. \A b \in e.before : ask[b].result = "answer"
    BY <2>2 DEF Order
  <2> HIDE DEF e
  <2> QED BY <2>1, <2>2, <2>3, NoNumber DEF Told
<1> QED BY <1>2, <1>3, <1>4, <1>5, <1>6, <1>7, RelocateKeeps
    DEF CounterNext

LEMMA CounterInvHolds == ServicesSpec => []CounterInv
<1>1. ServicesInit => CounterInv
  BY CounterStart DEF ServicesInit
<1>2. CounterInv /\ [ServicesNext]_others => CounterInv'
  <2> SUFFICES ASSUME CounterInv, [ServicesNext]_others PROVE CounterInv'
    OBVIOUS
  <2>1. CASE UNCHANGED counterVars
    BY <2>1 DEF counterVars, CounterInv, CounterTypes, Numbers, CountedNow,
                NumbersOnce, Order, Told
  <2> QED BY <2>1, CounterStep DEF ServicesNext, others, counterVars
<1> QED BY <1>1, <1>2, PTL DEF ServicesSpec

\* The value is the number of increments since the singleton moved, each
\* counted once, whatever was lost or timed out.
THEOREM CounterIsExact == ServicesSpec => []CounterOK
<1>1. CounterInv => CounterOK
  BY DEF CounterInv, CounterTypes, AskType, Numbers, CountedNow, CounterOK
<1> QED BY <1>1, CounterInvHolds, PTL

\* onIncrement gives no number twice between two moves.
THEOREM NumbersAreGivenOnce == ServicesSpec => []NumbersOnce
<1>1. CounterInv => NumbersOnce
  BY DEF CounterInv
<1> QED BY <1>1, CounterInvHolds, PTL

\* Who asks after an answer has come does not see an older value, from
\* whatever node of the cluster either of them asks.
THEOREM LaterIsMore == ServicesSpec => []LaterSeesMore
<1>1. CounterInv => LaterSeesMore
  BY DEF CounterInv, CounterTypes, Order, Told, Answered, LaterSeesMore
<1> QED BY <1>1, CounterInvHolds, PTL

\* The counter as a whole: exact, each number given once, and in an order that
\* agrees with what its users have seen.
THEOREM CounterIsSafe == ServicesSpec => []CounterSafe
<1>1. CounterOK /\ NumbersOnce /\ LaterSeesMore => CounterSafe
  BY DEF CounterSafe
<1> QED BY <1>1, CounterIsExact, NumbersAreGivenOnce, LaterIsMore, PTL

-----------------------------------------------------------------------------
(* Widgets *)

Stage == {"none", "size", "check", "grow", "from", "copy", "publish", "room",
          "index", "claim", "store", "stored", "added", "failed"}

AddType == [at : Stage, s : Nat, array : Nat, length : Nat]

WidgetTypes ==
  /\ jdk \in {8, 9}
  /\ arrays \in Seq(Seq(Data \cup Adder \cup {0}))
  /\ elementData \in DOMAIN arrays
  /\ size \in Nat
  /\ adding \in [Adder -> AddType]
  /\ \A q \in Adder :
       /\ adding[q].array \in DOMAIN arrays
       /\ adding[q].at \in {"claim", "check"} => jdk = 8
       /\ adding[q].at = "stored" => jdk = 9
  /\ met \subseteq Adder
  /\ crowded \in BOOLEAN

\* What an add holds in its local variables, by where it is.
HasArray(q) == \/ adding[q].at \in {"index", "claim", "store", "stored", "copy", "publish"}
               \/ jdk = 9 /\ adding[q].at \in {"size", "from", "grow"}
HasIndex(q) == \/ adding[q].at \in {"claim", "store", "stored"}
               \/ jdk = 9 /\ adding[q].at \in {"size", "from", "grow", "copy", "publish"}
HasLength(q) == \/ adding[q].at = "copy"
                \/ jdk = 8 /\ adding[q].at = "from"

\* Element p is w, and no add under way will change that.
Keeps(p, w) ==
  /\ p < size
  /\ Holds(elementData, p, w)
  /\ \A q \in Adder : /\ HasArray(q) => Holds(adding[q].array, p, w)
                      /\ HasIndex(q) => p < adding[q].s
                      /\ HasLength(q) => p < adding[q].length

\* This array begins as the list's.
Begins(array) ==
  \A i \in DOMAIN arrays[elementData] :
    i \in DOMAIN arrays[array] /\ arrays[array][i] = arrays[elementData][i]

\* It writes to the array of the list.
Writes(r) == adding[r].at \in {"index", "claim", "store", "stored"}

\* An add that has met nobody: nothing it has read has changed since.
Undisturbed(r) ==
  /\ r \in Inside => Inside = {r}
  /\ Writes(r) => adding[r].array = elementData
  /\ jdk = 8 /\ adding[r].at = "store" => size = adding[r].s + 1
  /\ adding[r].at = "stored" => Holds(elementData, adding[r].s, r)
  /\ jdk = 8 /\ adding[r].at = "from" =>
       adding[r].length >= Len(arrays[elementData])
  /\ jdk = 9 /\ adding[r].at = "grow" => adding[r].array = elementData
  /\ adding[r].at = "copy" => /\ adding[r].array = elementData
                              /\ adding[r].length >= Len(arrays[elementData])
  /\ adding[r].at = "publish" => Begins(adding[r].array)
  /\ adding[r].at = "added" => Keeps(adding[r].s, r)

\* Nothing is missing below the size, nor below one that was read.
Filled(i) == Written(i) \/ Pending(i)

NoGaps ==
  /\ \A i \in Nat : i < size => Filled(i)
  /\ \A q \in Adder : HasIndex(q) => \A i \in Nat : i < adding[q].s => Filled(i)
  /\ \A q \in Adder : adding[q].at = "stored" => Written(adding[q].s)
  /\ \A q \in Adder : Writes(q) => adding[q].array = elementData

WidgetInv ==
  /\ WidgetTypes
  /\ \A w \in Data : Keeps(w - 1, w)
  /\ \A r \in Adder \ met : Undisturbed(r)
  /\ crowded \/ NoGaps

LEMMA WidgetStart == WidgetInit => WidgetInv
<1> SUFFICES ASSUME WidgetInit PROVE WidgetInv
  OBVIOUS
<1> USE WidgetAssumption DEF WidgetInit
<1>1. Resized(<<1, 2, 3>>, Capacity) \in Seq(Data \cup Adder \cup {0})
  BY DEF Resized, Data
<1>2. /\ DOMAIN arrays = {1} /\ Len(arrays[1]) = Capacity
      /\ DOMAIN arrays[1] = 1..Capacity
      /\ \A w \in Data : arrays[1][w] = w
  BY DEF Resized, Data
<1>3. WidgetTypes
  <2>1. arrays \in Seq(Seq(Data \cup Adder \cup {0})) /\ 1 \in DOMAIN arrays
    BY <1>1
  <2>2. adding \in [Adder -> AddType]
    BY DEF AddType, Stage
  <2> QED BY <2>1, <2>2 DEF WidgetTypes
<1>4. ASSUME NEW w \in Data PROVE Holds(1, w - 1, w)
  BY <1>2 DEF Holds, Data
<1>5. \A w \in Data : Keeps(w - 1, w)
  BY <1>4 DEF Keeps, HasArray, HasIndex, HasLength, Data
<1>6. \A r \in Adder : Undisturbed(r)
  BY DEF Undisturbed, Inside, Writes
<1>7. NoGaps
  <2>1. \A i \in Nat : i < 3 => i + 1 \in Data /\ Holds(1, i, i + 1)
    BY <1>4 DEF Data
  <2> QED BY <2>1 DEF NoGaps, Filled, Written, Holds, HasIndex, Writes, Data
<1> QED BY <1>3, <1>5, <1>6, <1>7 DEF WidgetInv

\* What every step leaves of the others.
LEMMA OthersStay ==
  ASSUME WidgetTypes, NEW r \in Adder,
         \/ createWidget(r) \/ ReadSize(r) \/ CheckRoom(r) \/ ReadArray(r)
         \/ ReadIndex(r) \/ ReadLength(r) \/ CopyArray(r) \/ Publish(r)
         \/ WriteSize(r) \/ Store(r) \/ OutOfBounds(r)
  PROVE  /\ jdk' = jdk
         /\ \A q \in Adder : q # r => adding'[q] = adding[q]
BY DEF createWidget, ReadSize, CheckRoom, ReadArray, ReadIndex, ReadLength,
       CopyArray, Publish, WriteSize, Store, OutOfBounds, WidgetTypes

\* The steps that read: the list stays as it is.
Looks(r) == createWidget(r) \/ ReadSize(r) \/ CheckRoom(r) \/ ReadArray(r)
            \/ ReadIndex(r) \/ ReadLength(r)

LEMMA LengthGrows ==
  ASSUME NEW n \in Nat, NEW m \in Nat
  PROVE  NewLength(n, m) \in Nat /\ NewLength(n, m) >= n
BY DEF NewLength

\* The lengths of the arrays, and how a copy and a write change them.
LEMMA ArrayFacts ==
  ASSUME WidgetTypes
  PROVE  /\ Len(arrays) \in Nat /\ DOMAIN arrays = 1..Len(arrays)
         /\ \A a \in DOMAIN arrays :
              /\ arrays[a] \in Seq(Data \cup Adder \cup {0})
              /\ Len(arrays[a]) \in Nat /\ DOMAIN arrays[a] = 1..Len(arrays[a])
         /\ \A q \in Adder : /\ adding[q].at \in Stage /\ adding[q].s \in Nat
                             /\ adding[q].length \in Nat
                             /\ adding[q].array \in DOMAIN arrays
BY DEF WidgetTypes, AddType

LEMMA CopyFacts ==
  ASSUME WidgetTypes, NEW r \in Adder, CopyArray(r)
  PROVE  /\ DOMAIN arrays' = DOMAIN arrays \cup {adding'[r].array}
         /\ adding'[r].array \notin DOMAIN arrays
         /\ \A a \in DOMAIN arrays : arrays'[a] = arrays[a]
         /\ arrays'[adding'[r].array]
              = Resized(arrays[adding[r].array], adding[r].length)
         /\ adding'[r].at = "publish"
         /\ adding'[r].array = Len(arrays) + 1
         /\ DOMAIN Resized(arrays[adding[r].array], adding[r].length)
              = 1..adding[r].length
         /\ arrays' \in Seq(Seq(Data \cup Adder \cup {0}))
<1> USE ArrayFacts
<1>1. Resized(arrays[adding[r].array], adding[r].length)
        \in Seq(Data \cup Adder \cup {0})
  <2>1. \A i \in 1..adding[r].length :
          i \in DOMAIN arrays[adding[r].array] =>
            arrays[adding[r].array][i] \in Data \cup Adder \cup {0}
    OBVIOUS
  <2> QED BY <2>1 DEF Resized
<1>2. arrays' = Append(arrays, Resized(arrays[adding[r].array], adding[r].length))
      /\ adding' = [adding EXCEPT ![r].at = "publish", ![r].array = Len(arrays) + 1]
  BY DEF CopyArray
<1>3. adding'[r].at = "publish" /\ adding'[r].array = Len(arrays) + 1
  BY <1>2 DEF WidgetTypes, AddType
<1>4. arrays' \in Seq(Seq(Data \cup Adder \cup {0}))
  BY <1>1, <1>2 DEF WidgetTypes
<1>5. /\ DOMAIN arrays' = 1..(Len(arrays) + 1)
      /\ \A a \in 1..Len(arrays) : arrays'[a] = arrays[a]
      /\ arrays'[Len(arrays) + 1]
           = Resized(arrays[adding[r].array], adding[r].length)
  BY <1>1, <1>2 DEF WidgetTypes
<1>6. DOMAIN Resized(arrays[adding[r].array], adding[r].length)
        = 1..adding[r].length
  BY DEF Resized
<1> QED BY <1>3, <1>4, <1>5, <1>6

LEMMA StoreFacts ==
  ASSUME WidgetTypes, NEW r \in Adder, Store(r)
  PROVE  /\ DOMAIN arrays' = DOMAIN arrays
         /\ \A a \in DOMAIN arrays :
              /\ DOMAIN arrays'[a] = DOMAIN arrays[a]
              /\ \A i \in DOMAIN arrays[a] : arrays'[a][i] =
                   IF a = adding[r].array /\ i = adding[r].s + 1 THEN r ELSE arrays[a][i]
         /\ adding[r].s + 1 \in DOMAIN arrays[adding[r].array]
         /\ arrays' \in Seq(Seq(Data \cup Adder \cup {0}))
<1> USE ArrayFacts
<1> DEFINE b == adding[r].array
           j == adding[r].s + 1
<1>1. /\ b \in DOMAIN arrays /\ j \in DOMAIN arrays[b]
      /\ arrays' = [arrays EXCEPT ![b] = [arrays[b] EXCEPT ![j] = r]]
  BY DEF Store
<1>2. [arrays[b] EXCEPT ![j] = r] \in Seq(Data \cup Adder \cup {0})
  BY <1>1
<1>3. arrays' \in Seq(Seq(Data \cup Adder \cup {0}))
  BY <1>1, <1>2 DEF WidgetTypes
<1>4. j = adding[r].s + 1 /\ b = adding[r].array
  OBVIOUS
<1> HIDE DEF b, j
<1>5. \A a \in DOMAIN arrays :
              /\ DOMAIN arrays'[a] = DOMAIN arrays[a]
              /\ \A i \in DOMAIN arrays[a] : arrays'[a][i] =
                   IF a = b /\ i = j THEN r ELSE arrays[a][i]
  BY <1>1
<1> QED BY <1>1, <1>3, <1>4, <1>5

\* The steps that read change nothing but what their add knows.
LEMMA ReadFacts ==
  ASSUME WidgetTypes, NEW r \in Adder, Looks(r)
  PROVE  /\ arrays' = arrays /\ elementData' = elementData /\ size' = size /\ crowded' = crowded
         /\ adding'[r] \in AddType
         /\ adding'[r].array \in {adding[r].array, elementData}
         /\ adding'[r].at \in {"claim", "check"} => jdk = 8
         /\ adding'[r].at # "stored"
<1> DEFINE Now == /\ arrays' = arrays /\ elementData' = elementData
                  /\ size' = size /\ crowded' = crowded
           Is(at, s, array, length) ==
             adding'[r] = [at |-> at, s |-> s, array |-> array, length |-> length]
           Goal == /\ Now
                   /\ adding'[r] \in AddType
                   /\ adding'[r].array \in {adding[r].array, elementData}
                   /\ adding'[r].at \in {"claim", "check"} => jdk = 8
                   /\ adding'[r].at # "stored"
<1>1. /\ adding[r] = [at |-> adding[r].at, s |-> adding[r].s,
                      array |-> adding[r].array, length |-> adding[r].length]
      /\ adding[r].at \in Stage /\ adding[r].s \in Nat /\ adding[r].array \in Nat
      /\ adding[r].length \in Nat /\ size \in Nat /\ elementData \in Nat
  BY DEF WidgetTypes, AddType
<1>2. ASSUME NEW at \in Stage, NEW s \in Nat, NEW length \in Nat,
             NEW array \in {adding[r].array, elementData}, Is(at, s, array, length),
             at \in {"claim", "check"} => jdk = 8, at # "stored", Now
      PROVE  Goal
  BY <1>1, <1>2 DEF AddType
<1> HIDE DEF Goal
<1>3. ASSUME createWidget(r) PROVE Goal
  <2> DEFINE at == IF jdk = 8 THEN "size" ELSE "room"
  <2>1. Is(at, adding[r].s, adding[r].array, adding[r].length) /\ Now
    BY <1>1, <1>3 DEF createWidget, WidgetTypes
  <2>2. at \in Stage /\ at \notin {"claim", "check", "stored"}
    BY DEF Stage
  <2> HIDE DEF at
  <2> QED BY <1>1, <1>2, <2>1, <2>2
<1>4. ASSUME ReadSize(r) PROVE Goal
  <2> DEFINE at == IF jdk = 8 THEN "check" ELSE "from"
  <2>1. Is(at, adding[r].s, adding[r].array, size + 1) /\ Now
    BY <1>1, <1>4 DEF ReadSize, WidgetTypes
  <2>2. /\ at \in Stage
        /\ at \in {"claim", "check"} => jdk = 8
        /\ at # "stored" /\ size + 1 \in Nat
    BY <1>1 DEF Stage
  <2> HIDE DEF at
  <2> QED BY <1>1, <1>2, <2>1, <2>2
<1>5. ASSUME CheckRoom(r) PROVE Goal
  <2> DEFINE at == IF adding[r].length > Len(arrays[elementData])
                   THEN "grow" ELSE "room"
  <2>1. Is(at, adding[r].s, adding[r].array, adding[r].length) /\ Now
    BY <1>1, <1>5 DEF CheckRoom, WidgetTypes
  <2>2. at \in Stage /\ at \notin {"claim", "check", "stored"}
    BY DEF Stage
  <2> HIDE DEF at
  <2> QED BY <1>1, <1>2, <2>1, <2>2
<1>6. ASSUME ReadArray(r) PROVE Goal
  <2> DEFINE at == IF adding[r].at = "room" THEN "index"
                   ELSE IF jdk = 8 THEN "copy" ELSE "grow"
  <2>1. Is(at, adding[r].s, elementData, adding[r].length) /\ Now
    BY <1>1, <1>6 DEF ReadArray, WidgetTypes
  <2>2. at \in Stage /\ at \notin {"claim", "check", "stored"}
    BY DEF Stage
  <2> HIDE DEF at
  <2> QED BY <1>1, <1>2, <2>1, <2>2
<1>7. ASSUME ReadIndex(r) PROVE Goal
  <2> DEFINE at == IF jdk = 8 THEN "claim"
                   ELSE IF size = Len(arrays[adding[r].array]) THEN "size" ELSE "store"
  <2>1. Is(at, size, adding[r].array, adding[r].length) /\ Now
    BY <1>1, <1>7 DEF ReadIndex, WidgetTypes
  <2>2. /\ at \in Stage
        /\ at \in {"claim", "check"} => jdk = 8
        /\ at # "stored"
    BY DEF Stage
  <2> HIDE DEF at
  <2> QED BY <1>1, <1>2, <2>1, <2>2
<1>8. ASSUME ReadLength(r) PROVE Goal
  <2> DEFINE at == IF jdk = 8 THEN "from" ELSE "copy"
             length == NewLength(Len(arrays[elementData]), adding[r].length)
  <2>1. Is(at, adding[r].s, adding[r].array, length) /\ Now
    BY <1>1, <1>8 DEF ReadLength, WidgetTypes
  <2>2. length \in Nat
    BY <1>1, ArrayFacts, LengthGrows DEF WidgetTypes
  <2>3. at \in Stage /\ at \notin {"claim", "check", "stored"}
    BY DEF Stage
  <2> HIDE DEF at, length
  <2> QED BY <1>1, <1>2, <2>1, <2>2, <2>3
<1>9. Goal
  BY <1>3, <1>4, <1>5, <1>6, <1>7, <1>8 DEF Looks
<1> QED BY <1>9 DEF Goal

LEMMA CopiedElements ==
  ASSUME NEW array, NEW length \in Nat, NEW i \in 1..length, i \in DOMAIN array
  PROVE  Resized(array, length)[i] = array[i]
BY DEF Resized

\* A step of an add to another place in it.
WentTo(r, at) == /\ adding'[r] \in AddType
                /\ adding'[r].at = at /\ adding'[r].s = adding[r].s
                /\ adding'[r].array = adding[r].array
                /\ adding'[r].length = adding[r].length

\* What the steps that write leave of what their add knows.
LEMMA WriteFacts ==
  ASSUME WidgetTypes, NEW r \in Adder
  PROVE  /\ CopyArray(r) =>
              /\ elementData' = elementData /\ size' = size /\ crowded' = crowded
              /\ adding[r].at = "copy" /\ adding'[r] \in AddType
              /\ adding'[r].s = adding[r].s
         /\ Publish(r) =>
              /\ arrays' = arrays /\ size' = size /\ adding[r].at = "publish"
              /\ elementData' = adding[r].array
              /\ crowded' = (crowded \/ r \in met)
              /\ WentTo(r, IF jdk = 8 THEN "room" ELSE "store")
         /\ WriteSize(r) =>
              /\ arrays' = arrays /\ elementData' = elementData /\ crowded' = crowded
              /\ adding[r].at \in {"claim", "stored"} /\ size' = adding[r].s + 1
              /\ WentTo(r, IF jdk = 8 THEN "store" ELSE "added")
         /\ Store(r) =>
              /\ elementData' = elementData /\ size' = size /\ crowded' = crowded
              /\ adding[r].at = "store"
              /\ WentTo(r, IF jdk = 8 THEN "added" ELSE "stored")
         /\ OutOfBounds(r) =>
              /\ arrays' = arrays /\ elementData' = elementData /\ size' = size
              /\ crowded' = TRUE
              /\ WentTo(r, "failed")
<1>1. ASSUME NEW at \in Stage, adding' = [adding EXCEPT ![r].at = at]
      PROVE  WentTo(r, at)
  <2>1. adding'[r] = [adding[r] EXCEPT !.at = at]
    BY <1>1 DEF WidgetTypes
  <2> QED BY <2>1 DEF WidgetTypes, AddType, WentTo
<1>2. {"room", "store", "added", "stored", "failed", "publish"} \subseteq Stage
  BY DEF Stage
<1>3. ASSUME CopyArray(r)
      PROVE  adding'[r] \in AddType /\ adding'[r].s = adding[r].s
  <2>1. adding[r] \in AddType /\ Len(arrays) + 1 \in Nat
    BY ArrayFacts DEF WidgetTypes
  <2>2. adding'[r] = [at |-> "publish", s |-> adding[r].s,
                      array |-> Len(arrays) + 1, length |-> adding[r].length]
    BY <1>3, <2>1 DEF CopyArray, WidgetTypes, AddType
  <2> QED BY <1>2, <2>1, <2>2 DEF AddType
<1>4. Publish(r) => WentTo(r, IF jdk = 8 THEN "room" ELSE "store")
  BY <1>1, <1>2 DEF Publish
<1>5. WriteSize(r) => WentTo(r, IF jdk = 8 THEN "store" ELSE "added")
  BY <1>1, <1>2 DEF WriteSize
<1>6. Store(r) => WentTo(r, IF jdk = 8 THEN "added" ELSE "stored")
  BY <1>1, <1>2 DEF Store
<1>7. OutOfBounds(r) => WentTo(r, "failed")
  BY <1>1, <1>2 DEF OutOfBounds
<1> QED BY <1>3, <1>4, <1>5, <1>6, <1>7
        DEF CopyArray, Publish, WriteSize, Store, OutOfBounds

Alters(r) == CopyArray(r) \/ Publish(r) \/ WriteSize(r) \/ Store(r) \/ OutOfBounds(r)

LEMMA WidgetTypesKept ==
  ASSUME WidgetTypes, NEW r \in Adder, Looks(r) \/ Alters(r)
  PROVE  WidgetTypes'
<1>1. jdk' = jdk /\ \A q \in Adder : q # r => adding'[q] = adding[q]
  BY OthersStay DEF Looks, Alters
<1>2. adding' = [q \in Adder |-> adding'[q]] /\ met' \subseteq Adder
  BY DEF createWidget, ReadSize, CheckRoom, ReadArray, ReadIndex, ReadLength, CopyArray,
         Publish, WriteSize, Store, OutOfBounds, WidgetTypes, Looks, Alters, Inside
<1>3. ASSUME /\ adding'[r] \in AddType
             /\ arrays' \in Seq(Seq(Data \cup Adder \cup {0}))
             /\ DOMAIN arrays \subseteq DOMAIN arrays' /\ size' \in Nat
             /\ adding'[r].array \in DOMAIN arrays'
             /\ elementData' \in DOMAIN arrays'
             /\ adding'[r].at \in {"claim", "check"} => jdk = 8
             /\ adding'[r].at = "stored" => jdk = 9
             /\ crowded' \in BOOLEAN
      PROVE  WidgetTypes'
  <2>1. adding' \in [Adder -> AddType]
    BY <1>1, <1>2, <1>3 DEF WidgetTypes
  <2> QED BY <1>1, <1>2, <1>3, <2>1 DEF WidgetTypes
<1>4. /\ adding[r] \in AddType /\ adding[r].array \in DOMAIN arrays
      /\ size \in Nat /\ elementData \in DOMAIN arrays /\ crowded \in BOOLEAN
      /\ arrays \in Seq(Seq(Data \cup Adder \cup {0})) /\ jdk \in {8, 9}
      /\ adding[r].s \in Nat /\ adding[r].array \in Nat
      /\ adding[r].at \in {"claim", "check"} => jdk = 8
      /\ adding[r].at = "stored" => jdk = 9
  BY DEF WidgetTypes, AddType
<1>5. CASE Looks(r)
  BY <1>3, <1>4, <1>5, ReadFacts
<1>6. CASE CopyArray(r)
  <2>1. /\ adding'[r] \in AddType /\ elementData' = elementData
        /\ size' = size /\ crowded' = crowded
    BY <1>6, WriteFacts
  <2>2. /\ arrays' \in Seq(Seq(Data \cup Adder \cup {0}))
        /\ DOMAIN arrays' = DOMAIN arrays \cup {adding'[r].array}
        /\ adding'[r].at = "publish"
    BY <1>6, CopyFacts
  <2> QED BY <1>3, <1>4, <2>1, <2>2
<1>7. CASE Publish(r)
  BY <1>3, <1>4, <1>7, WriteFacts DEF WentTo
<1>8. CASE WriteSize(r)
  <2>1. adding[r].s + 1 \in Nat
    BY <1>4
  <2> QED BY <1>3, <1>4, <1>8, <2>1, WriteFacts DEF WentTo
<1>9. CASE Store(r)
  BY <1>3, <1>4, <1>9, StoreFacts, WriteFacts DEF WentTo
<1>10. CASE OutOfBounds(r)
  BY <1>3, <1>4, <1>10, WriteFacts DEF WentTo
<1> QED BY <1>5, <1>6, <1>7, <1>8, <1>9, <1>10 DEF Alters

\* What is kept stays so, whatever the step.
LEMMA KeptOn ==
  ASSUME WidgetTypes, NEW r \in Adder, NEW p \in Nat, NEW w, Keeps(p, w),
         Looks(r) \/ Alters(r)
  PROVE  Keeps(p, w)'
<1>1. jdk' = jdk /\ \A q \in Adder : q # r => adding'[q] = adding[q]
  BY OthersStay DEF Looks, Alters
<1>2. /\ Holds(elementData, p, w) /\ p < size
      /\ p < Len(arrays[elementData])
      /\ \A q \in Adder : /\ HasArray(q) => Holds(adding[q].array, p, w)
                          /\ HasIndex(q) => p < adding[q].s
                          /\ HasLength(q) => p < adding[q].length
  BY ArrayFacts DEF Keeps, Holds, WidgetTypes
<1>3. ASSUME NEW q \in Adder, q # r
      PROVE  /\ HasArray(q)' <=> HasArray(q)
             /\ HasIndex(q)' <=> HasIndex(q)
             /\ HasLength(q)' <=> HasLength(q)
  BY <1>1, <1>3 DEF HasArray, HasIndex, HasLength
<1>4. CASE Looks(r)
  <2>1. /\ arrays' = arrays /\ elementData' = elementData /\ size' = size
        /\ adding'[r].array \in {adding[r].array, elementData}
    BY <1>4, ReadFacts
  <2>2. \A a : Holds(a, p, w)' <=> Holds(a, p, w)
    BY <2>1 DEF Holds
  <2>3. /\ HasArray(r)' => Holds(adding[r].array, p, w) \/ adding'[r].array = elementData
        /\ HasIndex(r)' => p < adding'[r].s
        /\ HasLength(r)' => p < adding'[r].length
    <3>1. CASE createWidget(r)
      BY <1>1, <1>2, <3>1 DEF createWidget, WidgetTypes, HasArray, HasIndex, HasLength
    <3>2. CASE ReadSize(r)
      BY <1>1, <1>2, <3>2 DEF ReadSize, WidgetTypes, HasArray, HasIndex, HasLength
    <3>3. CASE CheckRoom(r)
      BY <1>1, <1>2, <3>3 DEF CheckRoom, WidgetTypes, HasArray, HasIndex, HasLength
    <3>4. CASE ReadArray(r)
      BY <1>1, <1>2, <3>4 DEF ReadArray, WidgetTypes, HasArray, HasIndex, HasLength
    <3>5. CASE ReadIndex(r)
      BY <1>1, <1>2, <3>5 DEF ReadIndex, WidgetTypes, HasArray, HasIndex, HasLength
    <3>6. CASE ReadLength(r)
      <4>1. /\ adding[r].at = "grow"
            /\ adding'[r].at = (IF jdk = 8 THEN "from" ELSE "copy")
            /\ adding'[r].length = NewLength(Len(arrays[elementData]), adding[r].length)
            /\ adding'[r].s = adding[r].s
        BY <3>6 DEF ReadLength, WidgetTypes, AddType
      <4>2. adding'[r].length \in Nat /\ p < adding'[r].length
        <5>1. Len(arrays[elementData]) \in Nat /\ adding[r].length \in Nat
          BY ArrayFacts DEF WidgetTypes
        <5>2. /\ adding'[r].length \in Nat
              /\ adding'[r].length >= Len(arrays[elementData])
          BY <4>1, <5>1, LengthGrows
        <5> QED BY <1>2, <5>1, <5>2
      <4>3. jdk \in {8, 9}
        BY DEF WidgetTypes
      <4>4. HasIndex(r)' => HasIndex(r)
        BY <1>1, <4>1, <4>3 DEF HasIndex
      <4>5. HasArray(r)' => HasArray(r)
        BY <1>1, <4>1, <4>3 DEF HasArray
      <4>6. adding'[r].array = adding[r].array
        BY <3>6 DEF ReadLength, WidgetTypes, AddType
      <4> QED BY <1>2, <4>1, <4>2, <4>4, <4>5, <4>6
    <3> QED BY <1>4, <3>1, <3>2, <3>3, <3>4, <3>5, <3>6 DEF Looks
  <2>4. HasArray(r)' => Holds(adding'[r].array, p, w)
    BY <1>2, <2>1, <2>3
  <2> QED BY <1>1, <1>2, <1>3, <2>1, <2>2, <2>3, <2>4 DEF Keeps
<1>5. CASE CopyArray(r)
  <2>1. /\ adding[r].at = "copy" /\ adding'[r].s = adding[r].s
        /\ elementData' = elementData /\ size' = size
    BY <1>5, WriteFacts
  <2>2. ASSUME NEW a \in DOMAIN arrays, Holds(a, p, w) PROVE Holds(a, p, w)'
    BY <1>5, <2>2, CopyFacts DEF Holds
  <2>3. Holds(adding[r].array, p, w) /\ p < adding[r].length
    BY <1>2, <2>1 DEF HasArray, HasLength
  <2>4. Holds(adding[r].array, p, w)'
    <3>1. /\ p + 1 \in 1..adding[r].length
          /\ p + 1 \in DOMAIN arrays[adding[r].array]
          /\ arrays[adding[r].array][p + 1] = w
          /\ adding[r].length \in Nat
      BY <2>3, ArrayFacts DEF Holds
    <3>2. Resized(arrays[adding[r].array], adding[r].length)[p + 1] = w
      BY <3>1, CopiedElements, ArrayFacts
    <3> QED BY <1>5, <3>1, <3>2, CopyFacts DEF Holds
  <2>5. adding'[r].at = "publish"
    BY <1>5, CopyFacts
  <2>6. HasIndex(r)' => p < adding'[r].s
    BY <1>1, <1>2, <2>1, <2>5 DEF HasIndex
  <2>7. ~HasLength(r)'
    BY <2>5 DEF HasLength
  <2>8. ASSUME NEW q \in Adder, q # r, HasArray(q)'
        PROVE  Holds(adding[q].array, p, w)'
    <3>1. adding'[q].array \in DOMAIN arrays /\ Holds(adding'[q].array, p, w)
      BY <1>1, <1>2, <1>3, <2>8 DEF WidgetTypes
    <3> QED BY <2>2, <3>1
  <2>9. Holds(elementData, p, w)' /\ (p < size)'
    <3>1. elementData \in DOMAIN arrays
      BY DEF WidgetTypes
    <3> QED BY <1>2, <2>1, <2>2, <3>1
  <2> QED BY <1>1, <1>2, <1>3, <2>4, <2>6, <2>7, <2>8, <2>9 DEF Keeps
<1>6. CASE Publish(r)
  <2>1. /\ arrays' = arrays /\ size' = size /\ elementData' = adding[r].array
        /\ adding[r].at = "publish"
        /\ adding'[r].at = (IF jdk = 8 THEN "room" ELSE "store")
        /\ adding'[r].array = adding[r].array /\ adding'[r].s = adding[r].s
    BY <1>6, WriteFacts DEF WentTo
  <2>2. \A a : Holds(a, p, w)' <=> Holds(a, p, w)
    BY <2>1 DEF Holds
  <2>3. Holds(adding[r].array, p, w)
    BY <1>2, <2>1 DEF HasArray
  <2>4. /\ HasIndex(r)' => p < adding'[r].s
        /\ ~HasLength(r)'
    BY <1>1, <1>2, <2>1 DEF HasIndex, HasLength, WidgetTypes
  <2> QED BY <1>1, <1>2, <1>3, <2>1, <2>2, <2>3, <2>4 DEF Keeps
<1>7. CASE WriteSize(r)
  <2>1. /\ arrays' = arrays /\ elementData' = elementData /\ size' = adding[r].s + 1
        /\ adding[r].at \in {"claim", "stored"}
        /\ adding'[r].at = (IF jdk = 8 THEN "store" ELSE "added")
        /\ adding'[r].array = adding[r].array /\ adding'[r].s = adding[r].s
    BY <1>7, WriteFacts DEF WentTo
  <2>2. \A a : Holds(a, p, w)' <=> Holds(a, p, w)
    BY <2>1 DEF Holds
  <2>3. p < adding[r].s /\ Holds(adding[r].array, p, w)
    BY <1>2, <2>1 DEF HasIndex, HasArray
  <2>4. ~HasLength(r)'
    BY <2>1 DEF HasLength, WidgetTypes
  <2>5. (p < size)'
    BY <2>1, <2>3, ArrayFacts
  <2>6. HasIndex(r)' => p < adding'[r].s
    BY <2>1, <2>3
  <2> QED BY <1>1, <1>2, <1>3, <2>1, <2>2, <2>3, <2>4, <2>5, <2>6 DEF Keeps
<1>8. CASE Store(r)
  <2>1. /\ elementData' = elementData /\ size' = size /\ adding[r].at = "store"
        /\ adding'[r].at = (IF jdk = 8 THEN "added" ELSE "stored")
        /\ adding'[r].array = adding[r].array /\ adding'[r].s = adding[r].s
    BY <1>8, WriteFacts DEF WentTo
  <2>2. p < adding[r].s /\ Holds(adding[r].array, p, w)
    BY <1>2, <2>1 DEF HasIndex, HasArray
  <2>3. ASSUME NEW a \in DOMAIN arrays, Holds(a, p, w) PROVE Holds(a, p, w)'
    <3>1. p + 1 \in DOMAIN arrays[a] /\ arrays[a][p + 1] = w
      BY <2>3 DEF Holds
    <3>2. p + 1 # adding[r].s + 1
      BY <2>2, ArrayFacts
    <3>3. arrays'[a][p + 1] = arrays[a][p + 1] /\ DOMAIN arrays'[a] = DOMAIN arrays[a]
      BY <1>8, <2>3, <3>1, <3>2, StoreFacts
    <3> QED BY <3>1, <3>3 DEF Holds
  <2>4. ~HasLength(r)'
    BY <2>1 DEF HasLength, WidgetTypes
  <2>5. ASSUME NEW q \in Adder, HasArray(q)' PROVE Holds(adding[q].array, p, w)'
    <3>1. adding'[q].array \in DOMAIN arrays /\ Holds(adding'[q].array, p, w)
      BY <1>1, <1>2, <1>3, <2>1, <2>2, <2>5 DEF WidgetTypes
    <3> QED BY <2>3, <3>1
  <2>6. Holds(elementData, p, w)' /\ (p < size)'
    <3>1. elementData \in DOMAIN arrays
      BY DEF WidgetTypes
    <3> QED BY <1>2, <2>1, <2>3, <3>1
  <2> QED BY <1>1, <1>2, <1>3, <2>1, <2>2, <2>4, <2>5, <2>6 DEF Keeps
<1>9. CASE OutOfBounds(r)
  <2>1. /\ arrays' = arrays /\ elementData' = elementData /\ size' = size /\ adding'[r].at = "failed"
    BY <1>9, WriteFacts DEF WentTo
  <2>2. \A a : Holds(a, p, w)' <=> Holds(a, p, w)
    BY <2>1 DEF Holds
  <2>3. ~HasLength(r)' /\ ~HasArray(r)' /\ ~HasIndex(r)'
    BY <2>1 DEF HasLength, HasArray, HasIndex
  <2> QED BY <1>1, <1>2, <1>3, <2>1, <2>2, <2>3 DEF Keeps
<1> QED BY <1>4, <1>5, <1>6, <1>7, <1>8, <1>9 DEF Alters
\* Who adds alone finds everything as it left it.
LEMMA UndisturbedOn ==
  ASSUME WidgetInv, NEW r \in Adder, Looks(r) \/ Alters(r),
         NEW w \in Adder, w \notin met'
  PROVE  Undisturbed(w)'
<1>1. /\ WidgetTypes /\ jdk \in {8, 9}
      /\ jdk' = jdk /\ \A q \in Adder : q # r => adding'[q] = adding[q]
  BY OthersStay DEF Looks, Alters, WidgetInv, WidgetTypes
<1>2. w \notin met /\ Undisturbed(w)
  BY DEF WidgetInv, createWidget, ReadSize, CheckRoom, ReadArray, ReadIndex, ReadLength,
         CopyArray, Publish, WriteSize, Store, OutOfBounds, Looks, Alters
<1>3. /\ adding[w].s \in Nat /\ adding[r].s \in Nat /\ size \in Nat
      /\ Len(arrays[elementData]) \in Nat /\ elementData \in DOMAIN arrays
      /\ DOMAIN arrays[elementData] = 1..Len(arrays[elementData])
      /\ adding[r].length \in Nat /\ adding[r].array \in DOMAIN arrays
  BY <1>1, ArrayFacts DEF WidgetTypes
<1>4. CASE w # r
  <2>1. adding'[w] = adding[w]
    BY <1>1, <1>4
  <2>2. createWidget(r) => w \notin Inside
    BY <1>4, WidgetTypesKept DEF createWidget
  <2>3. ~createWidget(r) => r \in Inside
    BY DEF ReadSize, CheckRoom, ReadArray, ReadIndex, ReadLength,
           CopyArray, Publish, WriteSize, Store, OutOfBounds, Looks, Alters, Inside
  <2>4. w \notin Inside
    BY <1>2, <1>4, <2>2, <2>3 DEF Undisturbed
  <2>5. adding[w].at \in {"none", "added", "failed"}
    BY <2>4 DEF Inside
  <2>6. w \notin Inside'
    BY <2>1, <2>5 DEF Inside
  <2>7. adding[w].at = "added" => Keeps(adding[w].s, w)'
    <3>1. PICK p \in Nat : p = adding[w].s
      BY <1>3
    <3>2. adding[w].at = "added" => Keeps(p, w)
      BY <1>2, <3>1 DEF Undisturbed
    <3>3. adding[w].at = "added" => Keeps(p, w)'
      BY <1>1, <3>2, KeptOn
    <3> QED BY <2>1, <3>1, <3>3
  <2> QED BY <2>1, <2>5, <2>6, <2>7 DEF Undisturbed, Writes
<1>5. CASE w = r
  <2>1. Inside' \subseteq Inside \cup {r}
    BY <1>1 DEF Inside
  <2>2. r \in Inside' => Inside' = {r}
    <3>1. CASE createWidget(r)
      BY <1>2, <1>5, <2>1, <3>1 DEF createWidget
    <3>2. CASE ~createWidget(r)
      <4>1. r \in Inside
        BY <3>2 DEF ReadSize, CheckRoom, ReadArray, ReadIndex, ReadLength, CopyArray,
                    Publish, WriteSize, Store, OutOfBounds, Looks, Alters, Inside
      <4> QED BY <1>2, <1>5, <2>1, <4>1 DEF Undisturbed
    <3> QED BY <3>1, <3>2
  <2>3. /\ Writes(r) => adding[r].array = elementData
        /\ jdk = 8 /\ adding[r].at = "store" => size = adding[r].s + 1
        /\ adding[r].at = "stored" => Holds(elementData, adding[r].s, r)
        /\ jdk = 8 /\ adding[r].at = "from" =>
             adding[r].length >= Len(arrays[elementData])
        /\ jdk = 9 /\ adding[r].at = "grow" => adding[r].array = elementData
        /\ adding[r].at = "copy" => /\ adding[r].array = elementData
                                    /\ adding[r].length >= Len(arrays[elementData])
        /\ adding[r].at = "publish" => Begins(adding[r].array)
    BY <1>2, <1>5 DEF Undisturbed
  <2>4. CASE Looks(r)
    <3>1. /\ arrays' = arrays /\ elementData' = elementData /\ size' = size
          /\ adding'[r] \in AddType
      BY <1>1, <2>4, ReadFacts
    <3>2. /\ adding'[r].at \notin {"stored", "publish", "added"}
          /\ Writes(r)' => adding'[r].array = elementData
          /\ ~(jdk = 8 /\ adding'[r].at = "store")
          /\ jdk = 9 /\ adding'[r].at = "grow" => adding'[r].array = elementData
          /\ jdk = 8 /\ adding'[r].at = "from" =>
               adding'[r].length >= Len(arrays[elementData])
          /\ adding'[r].at = "copy" =>
               /\ adding'[r].array = elementData
               /\ adding'[r].length >= Len(arrays[elementData])
      <4>1. CASE createWidget(r)
        BY <1>1, <4>1 DEF createWidget, WidgetTypes, Writes
      <4>2. CASE ReadSize(r)
        BY <1>1, <4>2 DEF ReadSize, WidgetTypes, Writes
      <4>3. CASE CheckRoom(r)
        BY <1>1, <4>3 DEF CheckRoom, WidgetTypes, Writes
      <4>4. CASE ReadArray(r)
        BY <1>1, <2>3, <4>4 DEF ReadArray, WidgetTypes, Writes, AddType
      <4>5. CASE ReadIndex(r)
        BY <1>1, <2>3, <4>5 DEF ReadIndex, WidgetTypes, Writes, AddType
      <4>6. CASE ReadLength(r)
        <5>1. /\ adding[r].at = "grow"
              /\ adding'[r].at = (IF jdk = 8 THEN "from" ELSE "copy")
              /\ adding'[r].length = NewLength(Len(arrays[elementData]), adding[r].length)
              /\ adding'[r].array = adding[r].array
          BY <1>1, <4>6 DEF ReadLength, WidgetTypes, AddType
        <5>2. adding'[r].length >= Len(arrays[elementData])
          BY <1>3, <5>1, LengthGrows
        <5> QED BY <1>1, <2>3, <5>1, <5>2 DEF Writes
      <4> QED BY <2>4, <4>1, <4>2, <4>3, <4>4, <4>5, <4>6 DEF Looks
    <3> QED BY <1>1, <1>5, <2>2, <3>1, <3>2 DEF Undisturbed
  <2>5. CASE CopyArray(r)
    <3>1. /\ adding[r].at = "copy" /\ adding[r].array = elementData
          /\ adding[r].length >= Len(arrays[elementData])
          /\ elementData' = elementData /\ adding'[r].at = "publish"
      BY <1>1, <2>3, <2>5, WriteFacts, CopyFacts
    <3>2. Begins(adding[r].array)'
      <4>1. ASSUME NEW i \in DOMAIN arrays[elementData]
            PROVE  /\ i \in 1..adding[r].length
                   /\ Resized(arrays[elementData], adding[r].length)[i]
                        = arrays[elementData][i]
        <5>1. i \in 1..adding[r].length
          BY <1>3, <3>1, <4>1
        <5> QED BY <1>3, <5>1, CopiedElements
      <4>2. /\ arrays'[elementData] = arrays[elementData]
            /\ arrays'[adding'[r].array]
                 = Resized(arrays[elementData], adding[r].length)
            /\ DOMAIN arrays'[adding'[r].array] = 1..adding[r].length
        BY <1>1, <1>3, <2>5, <3>1, CopyFacts
      <4> QED BY <3>1, <4>1, <4>2 DEF Begins
    <3> QED BY <1>5, <2>2, <3>1, <3>2 DEF Undisturbed, Writes
  <2>6. CASE Publish(r)
    <3>1. /\ elementData' = adding[r].array
          /\ adding'[r].at = (IF jdk = 8 THEN "room" ELSE "store")
          /\ adding'[r].array = adding[r].array
      BY <1>1, <2>6, WriteFacts DEF WentTo
    <3> QED BY <1>1, <1>5, <2>2, <3>1 DEF Undisturbed, Writes
  <2>7. ASSUME Inside' = {}, adding'[r].s = adding[r].s,
               adding[r].s < size', Holds(elementData, adding[r].s, r)'
        PROVE  Keeps(adding[r].s, r)'
    <3>1. ASSUME NEW q \in Adder
          PROVE  ~HasArray(q)' /\ ~HasIndex(q)' /\ ~HasLength(q)'
      BY <2>7 DEF Inside, HasArray, HasIndex, HasLength
    <3> QED BY <2>7, <3>1 DEF Keeps
  <2>8. adding'[r].at = "added" => Inside' = {}
    <3>1. adding'[r].at = "added" => r \in Inside /\ r \notin Inside'
      <4>1. adding'[r].at = "added" => ~createWidget(r)
        <5>1. createWidget(r) => adding'[r].at = IF jdk = 8 THEN "size" ELSE "room"
          BY <1>1 DEF createWidget, WidgetTypes
        <5> QED BY <5>1
      <4> QED BY <4>1 DEF ReadSize, CheckRoom, ReadArray, ReadIndex, ReadLength, CopyArray,
                    Publish, WriteSize, Store, OutOfBounds, Looks, Alters, Inside
    <3> QED BY <1>2, <1>5, <2>1, <3>1 DEF Undisturbed
  <2>9. CASE WriteSize(r)
    <3>1. /\ adding[r].at \in {"claim", "stored"}
          /\ adding'[r].at = (IF jdk = 8 THEN "store" ELSE "added")
          /\ adding'[r].s = adding[r].s /\ size' = adding[r].s + 1
          /\ adding'[r].array = adding[r].array
          /\ arrays' = arrays /\ elementData' = elementData
      BY <1>1, <2>9, WriteFacts DEF WentTo
    <3>2. jdk = 9 => adding[r].at = "stored"
      BY <1>1, <3>1 DEF WidgetTypes
    <3>3. jdk = 9 => Keeps(adding[r].s, r)'
      <4>1. jdk = 9 => Holds(elementData, adding[r].s, r)'
        BY <2>3, <3>1, <3>2 DEF Holds
      <4>2. adding[r].s < size'
        BY <1>3, <3>1
      <4> QED BY <2>7, <2>8, <3>1, <4>1, <4>2
    <3>4. adding[r].array = elementData
      BY <2>3, <3>1 DEF Writes
    <3> QED BY <1>1, <1>5, <2>2, <3>1, <3>3, <3>4 DEF Undisturbed
  <2>10. CASE Store(r)
    <3>1. /\ adding[r].at = "store"
          /\ adding'[r].at = (IF jdk = 8 THEN "added" ELSE "stored")
          /\ adding'[r].s = adding[r].s /\ size' = size
          /\ adding'[r].array = adding[r].array /\ elementData' = elementData
      BY <1>1, <2>10, WriteFacts DEF WentTo
    <3>2. adding[r].array = elementData
      BY <2>3, <3>1 DEF Writes
    <3>3. Holds(elementData, adding[r].s, r)'
      <4>1. /\ adding[r].s + 1 \in DOMAIN arrays'[elementData]
            /\ arrays'[elementData][adding[r].s + 1] = r
        BY <1>1, <1>3, <2>10, <3>2, StoreFacts
      <4> QED BY <3>1, <4>1 DEF Holds
    <3>4. jdk = 8 => Keeps(adding[r].s, r)'
      <4>1. jdk = 8 => adding[r].s < size'
        BY <1>3, <2>3, <3>1
      <4> QED BY <2>7, <2>8, <3>1, <3>3, <4>1
    <3> QED BY <1>1, <1>5, <2>2, <3>1, <3>2, <3>3, <3>4 DEF Undisturbed
  <2>11. CASE OutOfBounds(r)
    <3>1. adding'[r].at = "failed"
      BY <1>1, <2>11, WriteFacts DEF WentTo
    <3>2. r \notin Inside'
      BY <3>1 DEF Inside
    <3> QED BY <1>5, <3>1, <3>2 DEF Undisturbed, Writes
  <2> QED BY <2>4, <2>5, <2>6, <2>9, <2>10, <2>11 DEF Alters
<1> QED BY <1>4, <1>5

\* Unless adds meet over a full array, no gap comes into being.
LEMMA GapsOn ==
  ASSUME WidgetInv, NEW r \in Adder, Looks(r) \/ Alters(r), ~crowded'
  PROVE  NoGaps'
<1>1. /\ WidgetTypes /\ jdk \in {8, 9}
      /\ jdk' = jdk /\ \A q \in Adder : q # r => adding'[q] = adding[q]
  BY OthersStay DEF Looks, Alters, WidgetInv, WidgetTypes
<1>2. NoGaps
  <2>1. ~crowded
    BY DEF WidgetInv, createWidget, ReadSize, CheckRoom, ReadArray, ReadIndex, ReadLength,
           CopyArray, Publish, WriteSize, Store, OutOfBounds, Looks, Alters
  <2> QED BY <2>1 DEF WidgetInv
<1>3. /\ size \in Nat /\ adding[r].s \in Nat /\ elementData \in DOMAIN arrays
      /\ adding[r].array \in DOMAIN arrays
      /\ \A q \in Adder : adding[q].s \in Nat
  BY <1>1, ArrayFacts DEF WidgetTypes
<1>4. /\ \A i \in Nat : i < size => Filled(i)
      /\ \A q \in Adder : HasIndex(q) => \A i \in Nat : i < adding[q].s => Filled(i)
      /\ \A q \in Adder : adding[q].at = "stored" => Written(adding[q].s)
      /\ \A q \in Adder : Writes(q) => adding[q].array = elementData
  BY <1>2 DEF NoGaps
<1>5. ASSUME NEW q \in Adder, q # r
      PROVE  /\ HasIndex(q)' <=> HasIndex(q)
             /\ Writes(q)' <=> Writes(q)
  BY <1>1, <1>5 DEF HasIndex, Writes
<1>6. ASSUME \A i : Written(i) => Written(i)',
             \A i \in Nat : Filled(i) => Filled(i)',
             \A i \in Nat : i < size' => Filled(i)',
             HasIndex(r)' => \A i \in Nat : i < adding'[r].s => Filled(i)',
             adding'[r].at = "stored" => \E i : i = adding'[r].s /\ Written(i)',
             Writes(r)' => adding'[r].array = elementData',
             \A q \in Adder : q # r /\ Writes(q) => elementData' = elementData
      PROVE  NoGaps'
  <2>1. ASSUME NEW q \in Adder, HasIndex(q)', NEW i \in Nat, i < adding'[q].s
        PROVE  Filled(i)'
    BY <1>1, <1>4, <1>5, <1>6, <2>1
  <2>2. ASSUME NEW q \in Adder, adding'[q].at = "stored" PROVE Written(adding[q].s)'
    <3>1. PICK i : i = adding'[q].s /\ Written(i)'
      BY <1>1, <1>4, <1>6, <2>2
    <3> QED BY <3>1
  <2>3. ASSUME NEW q \in Adder, Writes(q)' PROVE adding'[q].array = elementData'
    BY <1>1, <1>4, <1>5, <1>6, <2>3
  <2> QED BY <1>6, <2>1, <2>2, <2>3 DEF NoGaps
<1>7. ASSUME arrays' = arrays, elementData' = elementData
      PROVE  \A i : Written(i) <=> Written(i)'
  BY <1>7 DEF Written
<1>8. ASSUME \A i : Written(i) => Written(i)', adding[r].at # "store"
      PROVE  \A i \in Nat : Filled(i) => Filled(i)'
  <2>1. ASSUME NEW i \in Nat, Pending(i) PROVE Pending(i)'
    <3>1. PICK q \in Adder : adding[q].at = "store" /\ adding[q].s = i
      BY <2>1 DEF Pending
    <3>2. q # r
      BY <1>8, <3>1
    <3> QED BY <1>1, <2>1, <3>1, <3>2 DEF Pending
  <2> QED BY <1>8, <2>1 DEF Filled
<1>9. CASE Looks(r)
  <2>1. /\ arrays' = arrays /\ elementData' = elementData /\ size' = size
        /\ adding'[r].at # "stored"
    BY <1>1, <1>9, ReadFacts
  <2>2. /\ adding[r].at # "store"
        /\ Writes(r)' => adding'[r].array = elementData
        /\ HasIndex(r)' => adding'[r].s = size \/ (HasIndex(r) /\ adding'[r].s = adding[r].s)
    <3>1. CASE createWidget(r)
      BY <1>1, <3>1 DEF createWidget, WidgetTypes, Writes, HasIndex
    <3>2. CASE ReadSize(r)
      BY <1>1, <3>2 DEF ReadSize, WidgetTypes, Writes, HasIndex
    <3>3. CASE CheckRoom(r)
      BY <1>1, <3>3 DEF CheckRoom, WidgetTypes, Writes, HasIndex
    <3>4. CASE ReadArray(r)
      BY <1>1, <3>4 DEF ReadArray, WidgetTypes, Writes, HasIndex, AddType
    <3>5. CASE ReadIndex(r)
      BY <1>1, <1>4, <3>5 DEF ReadIndex, WidgetTypes, Writes, HasIndex, AddType
    <3>6. CASE ReadLength(r)
      BY <1>1, <3>6 DEF ReadLength, WidgetTypes, Writes, HasIndex, AddType
    <3> QED BY <1>9, <3>1, <3>2, <3>3, <3>4, <3>5, <3>6 DEF Looks
  <2>3. \A i \in Nat : Filled(i) => Filled(i)'
    BY <1>7, <1>8, <2>1, <2>2
  <2> QED BY <1>4, <1>6, <1>7, <2>1, <2>2, <2>3
<1>10. CASE CopyArray(r)
  <2>1. /\ elementData' = elementData /\ size' = size /\ adding[r].at = "copy"
        /\ adding'[r].at = "publish" /\ adding'[r].s = adding[r].s
        /\ arrays'[elementData] = arrays[elementData]
    BY <1>1, <1>3, <1>10, WriteFacts, CopyFacts
  <2>2. \A i : Written(i) => Written(i)'
    BY <2>1 DEF Written
  <2>3. \A i \in Nat : Filled(i) => Filled(i)'
    BY <1>8, <2>1, <2>2
  <2>4. (HasIndex(r)' => HasIndex(r)) /\ ~Writes(r)'
    BY <1>1, <2>1 DEF HasIndex, Writes
  <2> QED BY <1>4, <1>6, <2>1, <2>2, <2>3, <2>4
<1>11. CASE Publish(r)
  <2>1. /\ arrays' = arrays /\ elementData' = adding[r].array /\ size' = size
        /\ adding[r].at = "publish"
        /\ adding'[r].at = (IF jdk = 8 THEN "room" ELSE "store")
        /\ adding'[r].s = adding[r].s /\ adding'[r].array = adding[r].array
        /\ r \notin met
    BY <1>1, <1>11, WriteFacts DEF WentTo
  <2>2. Inside = {r} /\ Begins(adding[r].array)
    <3>1. Undisturbed(r) /\ r \in Inside
      BY <2>1 DEF WidgetInv, Inside
    <3> QED BY <2>1, <3>1 DEF Undisturbed
  <2>3. \A i : Written(i) => Written(i)'
    BY <2>1, <2>2 DEF Written, Begins
  <2>4. \A i \in Nat : Filled(i) => Filled(i)'
    BY <1>8, <2>1, <2>3
  <2>5. HasIndex(r)' => HasIndex(r)
    BY <1>1, <2>1 DEF HasIndex
  <2>6. \A q \in Adder : q # r => ~Writes(q)
    BY <2>2 DEF Inside, Writes
  <2>7. adding'[r].at # "stored" /\ adding'[r].array = elementData'
    BY <2>1
  <2> QED BY <1>4, <1>6, <2>1, <2>3, <2>4, <2>5, <2>6, <2>7
<1>12. CASE WriteSize(r)
  <2>1. /\ arrays' = arrays /\ elementData' = elementData /\ size' = adding[r].s + 1
        /\ adding[r].at \in {"claim", "stored"}
        /\ adding'[r].at = (IF jdk = 8 THEN "store" ELSE "added")
        /\ adding'[r].s = adding[r].s /\ adding'[r].array = adding[r].array
    BY <1>1, <1>12, WriteFacts DEF WentTo
  <2>2. HasIndex(r) /\ Writes(r)
    BY <2>1 DEF HasIndex, Writes
  <2>3. \A i \in Nat : Filled(i) => Filled(i)'
    BY <1>7, <1>8, <2>1
  <2>4. ASSUME NEW i \in Nat, i = adding[r].s PROVE Filled(i)'
    <3>1. CASE jdk = 8
      BY <1>1, <2>1, <2>4, <3>1 DEF Filled, Pending
    <3>2. CASE jdk = 9
      <4>1. adding[r].at = "stored"
        BY <1>1, <2>1, <3>2 DEF WidgetTypes
      <4>2. Written(i)
        BY <1>4, <2>4, <4>1
      <4> QED BY <1>7, <2>1, <4>2 DEF Filled
    <3> QED BY <1>1, <3>1, <3>2
  <2>5. \A i \in Nat : i < size' => Filled(i)'
    <3>1. ASSUME NEW i \in Nat, i < adding[r].s + 1 PROVE Filled(i)'
      <4>1. i < adding[r].s \/ i = adding[r].s
        BY <1>3, <3>1
      <4> QED BY <1>4, <2>2, <2>3, <2>4, <4>1
    <3> QED BY <2>1, <3>1
  <2>6. HasIndex(r)' => \A i \in Nat : i < adding'[r].s => Filled(i)'
    BY <1>4, <2>1, <2>2, <2>3
  <2> QED BY <1>4, <1>6, <1>7, <2>1, <2>2, <2>3, <2>5, <2>6
<1>13. CASE Store(r)
  <2>1. /\ elementData' = elementData /\ size' = size /\ adding[r].at = "store"
        /\ adding'[r].at = (IF jdk = 8 THEN "added" ELSE "stored")
        /\ adding'[r].s = adding[r].s /\ adding'[r].array = adding[r].array
    BY <1>1, <1>13, WriteFacts DEF WentTo
  <2>2. HasIndex(r) /\ adding[r].array = elementData /\ r # 0
    BY <1>4, <2>1, WidgetAssumption DEF HasIndex, Writes
  <2>3. /\ DOMAIN arrays'[elementData] = DOMAIN arrays[elementData]
        /\ \A i \in DOMAIN arrays[elementData] : arrays'[elementData][i] =
             IF i = adding[r].s + 1 THEN r ELSE arrays[elementData][i]
        /\ adding[r].s + 1 \in DOMAIN arrays[elementData]
    BY <1>1, <1>3, <1>13, <2>2, StoreFacts
  <2>4. \A i : Written(i) => Written(i)'
    BY <2>1, <2>2, <2>3 DEF Written
  <2>5. \E i \in Nat : i = adding[r].s /\ Written(i)'
    <3>1. PICK i \in Nat : i = adding[r].s
      BY <1>3
    <3> QED BY <2>1, <2>2, <2>3, <3>1 DEF Written
  <2>6. \A i \in Nat : Filled(i) => Filled(i)'
    <3>1. ASSUME NEW i \in Nat, Pending(i) PROVE Filled(i)'
      <4>1. PICK q \in Adder : jdk = 8 /\ adding[q].at = "store" /\ adding[q].s = i
        BY <3>1 DEF Pending
      <4>2. CASE q = r
        BY <2>5, <4>1, <4>2 DEF Filled
      <4>3. CASE q # r
        BY <1>1, <4>1, <4>3 DEF Filled, Pending
      <4> QED BY <4>2, <4>3
    <3> QED BY <2>4, <3>1 DEF Filled
  <2>7. \A i \in Nat : i < adding'[r].s => Filled(i)'
    BY <1>4, <2>1, <2>2, <2>6
  <2>8. \A i \in Nat : i < size' => Filled(i)'
    BY <1>4, <2>1, <2>6
  <2> QED BY <1>6, <2>1, <2>2, <2>4, <2>5, <2>6, <2>7, <2>8
<1>14. CASE OutOfBounds(r)
  BY <1>1, <1>14, WriteFacts
<1> QED BY <1>9, <1>10, <1>11, <1>12, <1>13, <1>14 DEF Alters

LEMMA WidgetStep == WidgetInv /\ WidgetNext => WidgetInv'
<1> SUFFICES ASSUME WidgetInv, NEW r \in Adder, Looks(r) \/ Alters(r) PROVE WidgetInv'
  BY DEF WidgetNext, Looks, Alters
<1>1. WidgetTypes'
  BY WidgetTypesKept DEF WidgetInv
<1>2. ASSUME NEW w \in Data PROVE Keeps(w - 1, w)'
  <2>1. PICK p \in Nat : p = w - 1
    BY DEF Data
  <2>2. Keeps(p, w)
    BY <1>2, <2>1 DEF WidgetInv
  <2>3. Keeps(p, w)'
    BY <2>2, KeptOn DEF WidgetInv
  <2> QED BY <2>1, <2>3
<1>3. \A w \in Adder \ met' : Undisturbed(w)'
  BY UndisturbedOn
<1>4. crowded' \/ NoGaps'
  BY GapsOn
<1>5. (\A w \in Data : Keeps(w - 1, w))'
  BY <1>2 DEF Data
<1> QED BY <1>1, <1>3, <1>4, <1>5 DEF WidgetInv

LEMMA WidgetStutter == WidgetInv /\ UNCHANGED widgetVars => WidgetInv'
BY DEF widgetVars, WidgetInv, WidgetTypes, Keeps, Holds, HasArray, HasIndex, HasLength,
       Undisturbed, Inside, Writes, Begins, NoGaps, Filled, Written, Pending

LEMMA WidgetInvHolds == ServicesSpec => []WidgetInv
<1>1. ServicesInit => WidgetInv
  BY WidgetStart DEF ServicesInit
<1>2. WidgetInv /\ [ServicesNext]_others => WidgetInv'
  <2> SUFFICES ASSUME WidgetInv, [ServicesNext]_others PROVE WidgetInv'
    OBVIOUS
  <2>1. CASE UNCHANGED widgetVars
    BY <2>1, WidgetStutter
  <2>2. CASE WidgetNext
    BY <2>2, WidgetStep
  <2> QED BY <2>1, <2>2 DEF ServicesNext, others, widgetVars
<1> QED BY <1>1, <1>2, PTL DEF ServicesSpec

\* Unless adds have met over a full array, a page meets no element below the
\* size that is not written, but one that an add of Java 8 writes next;
\* whatever the number of adds and the length of the array.
THEOREM HolesAlwaysPass == ServicesSpec => []HolesPass
<1>1. WidgetInv => HolesPass
  <2> SUFFICES ASSUME WidgetInv PROVE HolesPass
    OBVIOUS
  <2>1. \A i \in 0..(size - 1) : i \in Nat /\ i < size
    BY DEF WidgetInv, WidgetTypes
  <2> QED BY <2>1 DEF HolesPass, WidgetInv, NoGaps, Filled
<1> QED BY <1>1, WidgetInvHolds, PTL

\* A widget that was added while nobody else was adding stays in the list,
\* also when others replace the array, and so do the three it begins with.
THEOREM AloneIsKept == ServicesSpec => []AddedWhenAlone
<1>1. WidgetInv => AddedWhenAlone
  <2> SUFFICES ASSUME WidgetInv PROVE AddedWhenAlone
    OBVIOUS
  <2>1. ASSUME NEW p \in Nat, NEW w \in Data \cup Adder, Keeps(p, w) PROVE w \in Shown
    <3>1. p \in 0..(size - 1) /\ Holds(elementData, p, w)
      BY <2>1 DEF Keeps, WidgetInv, WidgetTypes
    <3> QED BY <3>1 DEF Shown
  <2>2. ASSUME NEW w \in Data PROVE w \in Shown
    <3>1. w - 1 \in Nat /\ Keeps(w - 1, w)
      BY DEF WidgetInv, Data
    <3> QED BY <2>1, <3>1
  <2>3. ASSUME NEW r \in Adder \ met, adding[r].at = "added" PROVE r \in Shown
    <3>1. adding[r].s \in Nat /\ Keeps(adding[r].s, r)
      BY <2>3, ArrayFacts DEF WidgetInv, Undisturbed
    <3> QED BY <2>1, <3>1
  <2> QED BY <2>2, <2>3 DEF AddedWhenAlone
<1> QED BY <1>1, WidgetInvHolds, PTL

\* The list survives racing adds: no lasting holes without a race over a full
\* array, and no loss without a race.
THEOREM WidgetsAreSafe == ServicesSpec => []WidgetsSafe
<1>1. HolesPass /\ AddedWhenAlone => WidgetsSafe
  BY DEF WidgetsSafe
<1> QED BY <1>1, HolesAlwaysPass, AloneIsKept, PTL

-----------------------------------------------------------------------------
(* ChatRoom *)

Connection == {"none", "connecting", "opening", "open", "closed"}
Message    == Browser \X Nat

PageType == [connection : Connection, disabled : BOOLEAN, bound : BOOLEAN,
             sends : 0..MaxSend, early : BOOLEAN, shown : Seq(Message),
             from : Nat]

ChatTypes ==
  /\ browser \in [Browser -> PageType]
  /\ uplink \in [Browser -> Seq(Message)]
  /\ said \in Seq(Message)
  /\ head \in Nat
  /\ offset \in [Browser -> Nat \cup {-1}]
  /\ downlink \in [Browser -> Seq(Message)]

Consuming(b) == browser[b].connection \in {"opening", "open"}

\* The hub keeps what a consumer has still to take.
Buffered ==
  /\ head <= Len(said) /\ Len(said) - head <= HubBuffer
  /\ \A b \in Browser :
       /\ Consuming(b) <=> offset[b] >= 0
       /\ Consuming(b) => head <= offset[b] /\ offset[b] <= Len(said)

\* The page: what it may do depends on its connection.
PageRight(b) ==
  /\ browser[b].bound => browser[b].connection \in {"open", "closed"}
  /\ ~browser[b].early
  /\ browser[b].connection \in {"none", "connecting"} =>
       browser[b].shown = <<>>

\* What is shown, and then what is on its way, is said from the first on.
Shows(list, s, from) ==
  \A i \in 1..Len(list) : from + i <= Len(s) /\ list[i] = s[from + i]

Follows(b) ==
  /\ Len(downlink[b]) <= 1
  /\ ~Consuming(b) => Len(downlink[b]) = 0
  /\ Consuming(b) => offset[b] = browser[b].from + Len(browser[b].shown)
                                   + Len(downlink[b])
  /\ Shows(browser[b].shown, said, browser[b].from)
  /\ Len(downlink[b]) = 1 => downlink[b][1] = said[offset[b]]

\* The messages of a browser are numbered up to top, and go on in their
\* order: u is on its way, s has come.
Run(b, u, top) ==
  /\ \A i \in 1..Len(u) : u[i][1] = b /\ u[i][2] <= top
  /\ \A i, j \in 1..Len(u) : i < j => u[i][2] < u[j][2]

TakenBefore(s, b, u, top) ==
  \A k \in 1..Len(s) : s[k][1] = b =>
    /\ s[k][2] <= top
    /\ \A i \in 1..Len(u) : s[k][2] < u[i][2]

Ordered(b) == /\ Run(b, uplink[b], browser[b].sends)
              /\ TakenBefore(said, b, uplink[b], browser[b].sends)

ChatInv ==
  /\ ChatTypes /\ Buffered /\ OwnOrder
  /\ \A b \in Browser : PageRight(b) /\ Follows(b) /\ Ordered(b)

-----------------------------------------------------------------------------
(* Numbered messages.                                                      *)

LEMMA RunAppend ==
  ASSUME NEW b \in Browser, NEW n \in Nat, NEW u \in Seq(Message),
         NEW s \in Seq(Message), Run(b, u, n), TakenBefore(s, b, u, n)
  PROVE  LET v == Append(u, <<b, n + 1>>)
         IN v \in Seq(Message) /\ Run(b, v, n + 1) /\ TakenBefore(s, b, v, n + 1)
<1> DEFINE e == <<b, n + 1>>
           v == Append(u, e)
<1>1. e \in Message /\ e[1] = b /\ e[2] = n + 1
  BY DEF Message
<1>2. \A m \in Message : m[2] \in Nat
  BY DEF Message
<1> HIDE DEF e
<1>3. /\ v \in Seq(Message) /\ Len(u) \in Nat /\ Len(v) = Len(u) + 1
      /\ v[Len(u) + 1] = e /\ \A i \in 1..Len(u) : v[i] = u[i]
      /\ \A i \in 1..Len(v) : i \in 1..Len(u) \/ i = Len(u) + 1
  BY <1>1
<1>4. /\ \A i \in 1..Len(u) : u[i][2] \in Nat
      /\ \A k \in 1..Len(s) : s[k][2] \in Nat
  BY <1>2
<1> HIDE DEF v
<1>5. \A i \in 1..Len(v) : v[i][1] = b /\ v[i][2] <= n + 1
  BY <1>1, <1>3, <1>4 DEF Run
<1>6. ASSUME NEW i \in 1..Len(v), NEW j \in 1..Len(v), i < j
      PROVE  v[i][2] < v[j][2]
  <2>1. i \in 1..Len(u)
    BY <1>3, <1>6
  <2>2. v[i][2] <= n /\ v[i][2] \in Nat
    BY <1>3, <1>4, <2>1 DEF Run
  <2>3. CASE j \in 1..Len(u)
    BY <1>3, <1>6, <2>1, <2>3 DEF Run
  <2>4. CASE j = Len(u) + 1
    BY <1>1, <1>3, <2>2, <2>4
  <2> QED BY <1>3, <2>3, <2>4
<1>7. ASSUME NEW k \in 1..Len(s), s[k][1] = b
      PROVE  s[k][2] <= n + 1 /\ \A i \in 1..Len(v) : s[k][2] < v[i][2]
  <2>1. s[k][2] <= n /\ s[k][2] \in Nat
        /\ \A i \in 1..Len(u) : s[k][2] < u[i][2]
    BY <1>4, <1>7 DEF TakenBefore
  <2>2. s[k][2] < v[Len(u) + 1][2]
    BY <1>1, <1>3, <2>1
  <2>3. \A i \in 1..Len(u) : s[k][2] < v[i][2]
    BY <1>3, <2>1
  <2> QED BY <1>3, <2>1, <2>2, <2>3, SMTT(40)
<1> QED BY <1>3, <1>5, <1>6, <1>7 DEF Run, TakenBefore, v, e

\* The first one has come.
LEMMA RunHead ==
  ASSUME NEW b \in Browser, NEW n \in Nat, NEW u \in Seq(Message), u # <<>>,
         NEW s \in Seq(Message), Run(b, u, n), TakenBefore(s, b, u, n)
  PROVE  /\ Run(b, Tail(u), n)
         /\ TakenBefore(Append(s, Head(u)), b, Tail(u), n)
         /\ Head(u)[1] = b
         /\ \A k \in 1..Len(s) : s[k][1] = b => s[k][2] < Head(u)[2]
<1> DEFINE m == Head(u)
           v == Tail(u)
           t == Append(s, m)
<1>1. /\ Len(u) \in Nat /\ Len(u) >= 1 /\ m = u[1] /\ Len(v) = Len(u) - 1
      /\ 1 \in 1..Len(u)
      /\ \A i \in 1..Len(v) : v[i] = u[i + 1] /\ i + 1 \in 1..Len(u)
      /\ Len(s) \in Nat /\ Len(t) = Len(s) + 1 /\ t[Len(s) + 1] = m
      /\ \A k \in 1..Len(s) : t[k] = s[k]
      /\ \A k \in 1..Len(t) : k \in 1..Len(s) \/ k = Len(s) + 1
  OBVIOUS
<1> HIDE DEF m, v, t
<1>2. m[1] = b /\ m[2] <= n
      /\ \A k \in 1..Len(s) : s[k][1] = b => s[k][2] < m[2]
  BY <1>1 DEF Run, TakenBefore
<1>3. ASSUME NEW i \in 1..Len(v)
      PROVE  v[i][1] = b /\ v[i][2] <= n /\ m[2] < v[i][2]
  <2>1. v[i] = u[i + 1] /\ i + 1 \in 1..Len(u) /\ 1 < i + 1
    BY <1>1
  <2> QED BY <1>1, <2>1 DEF Run
<1>4. ASSUME NEW i \in 1..Len(v), NEW j \in 1..Len(v), i < j
      PROVE  v[i][2] < v[j][2]
  <2>1. /\ v[i] = u[i + 1] /\ i + 1 \in 1..Len(u)
        /\ v[j] = u[j + 1] /\ j + 1 \in 1..Len(u) /\ i + 1 < j + 1
    BY <1>1, <1>4
  <2> QED BY <2>1 DEF Run
<1>5. ASSUME NEW k \in 1..Len(t), t[k][1] = b
      PROVE  t[k][2] <= n /\ \A i \in 1..Len(v) : t[k][2] < v[i][2]
  <2>1. CASE k \in 1..Len(s)
    BY <1>1, <1>5, <2>1 DEF TakenBefore
  <2>2. CASE k = Len(s) + 1
    BY <1>1, <1>2, <1>3, <2>2
  <2> QED BY <1>1, <2>1, <2>2
<1> QED BY <1>2, <1>3, <1>4, <1>5 DEF Run, TakenBefore, m, v, t

\* The last ones are lost.
LEMMA RunCut ==
  ASSUME NEW b \in Browser, NEW n \in Nat, NEW u \in Seq(Message),
         NEW k \in 0..Len(u),
         NEW s \in Seq(Message), Run(b, u, n), TakenBefore(s, b, u, n)
  PROVE  LET v == SubSeq(u, 1, k)
         IN v \in Seq(Message) /\ Run(b, v, n) /\ TakenBefore(s, b, v, n)
<1> DEFINE v == SubSeq(u, 1, k)
<1>1. /\ v \in Seq(Message) /\ Len(v) = k
      /\ \A i \in 1..k : v[i] = u[i] /\ i \in 1..Len(u)
  OBVIOUS
<1> HIDE DEF v
<1>2. Run(b, v, n) /\ TakenBefore(s, b, v, n)
  BY <1>1 DEF Run, TakenBefore
<1> QED BY <1>1, <1>2 DEF v

\* One more message is allowed.
LEMMA RunWiden ==
  ASSUME NEW b \in Browser, NEW n \in Nat, NEW u \in Seq(Message),
         NEW s \in Seq(Message), Run(b, u, n), TakenBefore(s, b, u, n)
  PROVE  Run(b, u, n + 1) /\ TakenBefore(s, b, u, n + 1)
<1>1. \A m \in Message : m[2] \in Nat
  BY DEF Message
<1>2. /\ \A i \in 1..Len(u) : u[i][2] \in Nat
      /\ \A k \in 1..Len(s) : s[k][2] \in Nat
  BY <1>1
<1> QED BY <1>2 DEF Run, TakenBefore

LEMMA ShowsAppend ==
  ASSUME NEW list \in Seq(Message), NEW s \in Seq(Message), NEW from \in Nat,
         Shows(list, s, from), NEW m \in Message,
         from + Len(list) + 1 <= Len(s), m = s[from + Len(list) + 1]
  PROVE  Shows(Append(list, m), s, from)
<1> DEFINE v == Append(list, m)
<1>1. /\ Len(list) \in Nat /\ Len(v) = Len(list) + 1 /\ v[Len(list) + 1] = m
      /\ \A i \in 1..Len(list) : v[i] = list[i]
      /\ \A i \in 1..Len(v) : i \in 1..Len(list) \/ i = Len(list) + 1
  OBVIOUS
<1> HIDE DEF v
<1>2. ASSUME NEW i \in 1..Len(v)
      PROVE  from + i <= Len(s) /\ v[i] = s[from + i]
  <2>1. CASE i \in 1..Len(list)
    BY <1>1, <2>1 DEF Shows
  <2>2. CASE i = Len(list) + 1
    <3>1. from + i = from + Len(list) + 1
      BY <1>1, <2>2
    <3> QED BY <1>1, <2>2, <3>1
  <2> QED BY <1>1, <2>1, <2>2
<1> QED BY <1>2 DEF Shows, v

LEMMA ShowsMore ==
  ASSUME NEW list \in Seq(Message), NEW s \in Seq(Message), NEW from \in Nat,
         Shows(list, s, from), NEW m \in Message
  PROVE  Shows(list, Append(s, m), from)
<1> DEFINE t == Append(s, m)
<1>1. /\ Len(s) \in Nat /\ Len(t) = Len(s) + 1
      /\ \A i \in 1..Len(s) : t[i] = s[i]
  OBVIOUS
<1> HIDE DEF t
<1>2. ASSUME NEW i \in 1..Len(list)
      PROVE  from + i <= Len(t) /\ list[i] = t[from + i]
  <2>1. from + i \in 1..Len(s) /\ list[i] = s[from + i]
    BY <1>1 DEF Shows
  <2> QED BY <1>1, <2>1
<1> QED BY <1>2 DEF Shows, t

-----------------------------------------------------------------------------
(* What the hub keeps no more.                                             *)

LEMMA Least ==
  ASSUME NEW S \in SUBSET Nat, S # {}
  PROVE  \E k \in S : \A n \in S : k <= n
<1> DEFINE R == OpToRel(<, Nat)
<1>1. \A a, b \in Nat : a < b => <<a, b>> \in R
  BY DEF OpToRel
<1>2. IsWellFoundedOn(R, Nat)
  BY NatLessThanWellFounded
<1> HIDE DEF R
<1>3. PICK k \in S : \A n \in S : ~(<<n, k>> \in R)
  BY <1>2, WFMin
<1>4. ASSUME NEW n \in S PROVE k <= n
  <2>1. ~(n < k)
    BY <1>1, <1>3
  <2> QED BY <2>1
<1> QED BY <1>4

LEMMA AdvancedBetween ==
  ASSUME said \in Seq(Message), NEW low \in Nat, low <= head,
         head \in Nat, head <= Len(said),
         NEW o \in [Browser -> Nat \cup {-1}],
         \A b \in Browser : o[b] >= 0 => low <= o[b] /\ o[b] <= Len(said)
  PROVE  /\ Advanced(o) \in Nat
         /\ low <= Advanced(o) /\ Advanced(o) <= Len(said)
         /\ \A b \in Browser : o[b] >= 0 => Advanced(o) <= o[b]
<1> DEFINE left == {b \in Browser : o[b] >= 0}
           S    == {o[b] : b \in left}
<1>1. CASE left = {}
  BY <1>1 DEF Advanced
<1>2. CASE left # {}
  <2>1. /\ S \in SUBSET Nat /\ S # {} /\ \A b \in left : o[b] \in S
        /\ \A k \in S : low <= k /\ k <= Len(said)
    <3>1. PICK b \in left : TRUE
      BY <1>2
    <3>2. o[b] \in S
      OBVIOUS
    <3>3. \A c \in left : o[c] \in Nat
      OBVIOUS
    <3> QED BY <3>2, <3>3
  <2>2. \E k \in S : \A b \in left : k <= o[b]
    <3> HIDE DEF S
    <3>1. PICK k \in S : \A n \in S : k <= n
      BY <2>1, Least
    <3> QED BY <2>1, <3>1
  <2>3. Advanced(o) = CHOOSE k \in S : \A b \in left : k <= o[b]
    BY <1>2 DEF Advanced
  <2> HIDE DEF S
  <2>4. Advanced(o) \in S /\ \A b \in left : Advanced(o) <= o[b]
    BY <2>2, <2>3
  <2> QED BY <2>1, <2>4
<1> QED BY <1>1, <1>2

-----------------------------------------------------------------------------
(* The steps.                                                              *)

LEMMA ChatStart == ChatInit => ChatInv
<1> SUFFICES ASSUME ChatInit PROVE ChatInv
  OBVIOUS
<1> USE ChatAssumption DEF ChatInit, Page0
<1>1. ChatTypes
  BY DEF ChatTypes, PageType, Connection
<1>2. Buffered
  BY DEF Buffered, Consuming
<1>3. \A b \in Browser : PageRight(b) /\ Follows(b) /\ Ordered(b)
  BY DEF PageRight, Follows, Shows, Ordered, Run, TakenBefore, Consuming
<1> QED BY <1>1, <1>2, <1>3 DEF ChatInv, OwnOrder

\* A step of one page that changes its connection only, and not whether it
\* consumes.
LEMMA Facts ==
  ASSUME ChatInv, NEW b \in Browser
  PROVE  /\ browser[b] \in PageType /\ browser[b].shown \in Seq(Message)
         /\ Len(browser[b].shown) \in Nat /\ browser[b].from \in Nat
         /\ browser[b].sends \in Nat
         /\ uplink[b] \in Seq(Message) /\ Len(uplink[b]) \in Nat
         /\ \A i \in 1..Len(uplink[b]) :
              uplink[b][i] \in Message /\ uplink[b][i][2] \in Nat
         /\ downlink[b] \in Seq(Message) /\ Len(downlink[b]) \in Nat
         /\ offset[b] \in Nat \cup {-1} /\ head \in Nat
         /\ said \in Seq(Message) /\ Len(said) \in Nat
         /\ \A k \in 1..Len(said) : said[k] \in Message /\ said[k][2] \in Nat
         /\ PageRight(b) /\ Follows(b) /\ Ordered(b)
<1>1. ChatTypes /\ PageRight(b) /\ Follows(b) /\ Ordered(b)
  BY DEF ChatInv
<1>2. /\ browser[b] \in PageType /\ uplink[b] \in Seq(Message)
      /\ downlink[b] \in Seq(Message) /\ said \in Seq(Message)
      /\ offset[b] \in Nat \cup {-1} /\ head \in Nat
  BY <1>1 DEF ChatTypes
<1>3. browser[b].shown \in Seq(Message) /\ browser[b].from \in Nat
      /\ browser[b].sends \in Nat
  BY <1>2, ChatAssumption DEF PageType
<1>4. \A m \in Message : m[2] \in Nat
  BY DEF Message
<1> QED BY <1>1, <1>2, <1>3, <1>4, SMTT(40)

LEMMA PageStep ==
  ASSUME ChatInv, NEW b \in Browser, NEW p \in PageType,
         browser' = [browser EXCEPT ![b] = p],
         UNCHANGED <<uplink, said, head, offset, downlink>>,
         p.connection \in {"opening", "open"} <=> Consuming(b),
         p.bound => p.connection \in {"open", "closed"}, ~p.early,
         p.connection \in {"none", "connecting"} => p.shown = <<>>,
         p.shown = browser[b].shown, p.from = browser[b].from,
         p.sends = browser[b].sends
  PROVE  ChatInv'
<1>inv. /\ ChatTypes /\ Buffered /\ OwnOrder
        /\ \A c \in Browser : PageRight(c) /\ Follows(c) /\ Ordered(c)
  BY DEF ChatInv
<1>1. /\ browser' \in [Browser -> PageType] /\ browser'[b] = p
      /\ \A c \in Browser \ {b} : browser'[c] = browser[c]
  BY <1>inv DEF ChatTypes
<1>2. \A c \in Browser : /\ Consuming(c)' <=> Consuming(c)
                         /\ browser'[c].shown = browser[c].shown
                         /\ browser'[c].from = browser[c].from
                         /\ browser'[c].sends = browser[c].sends
  BY <1>1 DEF Consuming
<1>3. ChatTypes'
  BY <1>inv, <1>1 DEF ChatTypes
<1>4. Buffered'
  BY <1>inv, <1>2 DEF Buffered
<1>5. ASSUME NEW c \in Browser PROVE PageRight(c)'
  BY <1>inv, <1>1 DEF PageRight
<1>6. ASSUME NEW c \in Browser PROVE Follows(c)' /\ Ordered(c)'
  BY <1>inv, <1>2 DEF Follows, Ordered
<1> QED BY <1>inv, <1>3, <1>4, <1>5, <1>6 DEF OwnOrder, ChatInv

LEMMA ConnectionKeeps ==
  ASSUME ChatInv, NEW b \in Browser, Load(b) \/ onopen(b) \/ Reject(b)
  PROVE  ChatInv'
<1>1. browser[b] \in PageType
  BY DEF ChatInv, ChatTypes
<1>2. PageRight(b)
  BY DEF ChatInv
<1>3. CASE Load(b)
  <2> DEFINE p == [browser[b] EXCEPT !.connection = "connecting",
                                     !.disabled = TRUE]
  <2>1. /\ p \in PageType /\ p.connection = "connecting"
        /\ p.bound = browser[b].bound /\ p.early = browser[b].early
        /\ p.shown = browser[b].shown /\ p.from = browser[b].from
        /\ p.sends = browser[b].sends
    BY <1>1 DEF PageType, Connection
  <2>2. /\ browser' = [browser EXCEPT ![b] = p]
        /\ browser[b].connection = "none"
        /\ UNCHANGED <<uplink, said, head, offset, downlink>>
    BY <1>3 DEF Load
  <2> HIDE DEF p
  <2> QED BY <1>2, <2>1, <2>2, PageStep DEF PageRight, Consuming
<1>4. CASE onopen(b)
  <2> DEFINE p == [browser[b] EXCEPT !.connection = "open",
                                     !.disabled = FALSE, !.bound = TRUE]
  <2>1. /\ p \in PageType /\ p.connection = "open"
        /\ p.bound = TRUE /\ p.early = browser[b].early
        /\ p.shown = browser[b].shown /\ p.from = browser[b].from
        /\ p.sends = browser[b].sends
    BY <1>1 DEF PageType, Connection
  <2>2. /\ browser' = [browser EXCEPT ![b] = p]
        /\ browser[b].connection = "opening"
        /\ UNCHANGED <<uplink, said, head, offset, downlink>>
    BY <1>4 DEF onopen
  <2> HIDE DEF p
  <2> QED BY <1>2, <2>1, <2>2, PageStep DEF PageRight, Consuming
<1>5. CASE Reject(b)
  <2> DEFINE p == [browser[b] EXCEPT !.connection = "closed"]
  <2>1. /\ p \in PageType /\ p.connection = "closed"
        /\ p.bound = browser[b].bound /\ p.early = browser[b].early
        /\ p.shown = browser[b].shown /\ p.from = browser[b].from
        /\ p.sends = browser[b].sends
    BY <1>1 DEF PageType, Connection
  <2>2. /\ browser' = [browser EXCEPT ![b] = p]
        /\ browser[b].connection = "connecting"
        /\ UNCHANGED <<uplink, said, head, offset, downlink>>
    BY <1>1, <1>5 DEF Reject
  <2> HIDE DEF p
  <2> QED BY <1>2, <2>1, <2>2, PageStep DEF PageRight, Consuming
<1> QED BY <1>3, <1>4, <1>5

LEMMA SendKeeps ==
  ASSUME ChatInv, NEW b \in Browser, NEW by, Send(b, by)
  PROVE  ChatInv'
<1>inv. /\ ChatTypes /\ Buffered /\ OwnOrder
        /\ \A c \in Browser : PageRight(c) /\ Follows(c) /\ Ordered(c)
  BY DEF ChatInv
<1> DEFINE early == IF browser[b].connection = "connecting" THEN TRUE
                    ELSE browser[b].early
           n     == browser[b].sends + 1
           p     == [browser[b] EXCEPT !.sends = n, !.early = early]
<1>1. browser[b] \in PageType /\ browser[b].sends \in Nat
      /\ browser[b].sends < MaxSend /\ MaxSend \in Nat
  BY <1>inv, ChatAssumption DEF Send, ChatTypes, PageType
<1>2. early = FALSE
  BY <1>inv DEF Send, PageRight
<1>3. n \in 0..MaxSend /\ n > browser[b].sends
  BY <1>1
<1>4. browser' = [browser EXCEPT ![b] = p]
      /\ UNCHANGED <<said, head, offset, downlink>>
  <2>1. browser' = [browser EXCEPT ![b] = p]
    BY DEF Send
  <2>2. UNCHANGED <<said, head, offset, downlink>>
    BY DEF Send
  <2> QED BY <2>1, <2>2
<1>5. /\ p \in PageType /\ p.sends = n /\ ~p.early
      /\ p.connection = browser[b].connection /\ p.bound = browser[b].bound
      /\ p.shown = browser[b].shown /\ p.from = browser[b].from
  <2> HIDE DEF n, early
  <2> QED BY <1>1, <1>2, <1>3 DEF PageType
<1>6. \/ uplink' = uplink
      \/ uplink' = [uplink EXCEPT ![b] = Append(@, <<b, n>>)]
  BY DEF Send
<1> HIDE DEF p, early, n
<1>7. /\ browser' \in [Browser -> PageType] /\ browser'[b] = p
      /\ \A c \in Browser \ {b} : browser'[c] = browser[c]
  BY <1>inv, <1>4, <1>5 DEF ChatTypes
<1>8. \A c \in Browser : /\ Consuming(c)' <=> Consuming(c)
                         /\ browser'[c].shown = browser[c].shown
                         /\ browser'[c].from = browser[c].from
  BY <1>5, <1>7 DEF Consuming
<1>9. /\ uplink' \in [Browser -> Seq(Message)]
      /\ \A c \in Browser \ {b} : uplink'[c] = uplink[c]
  <2>1. <<b, n>> \in Message
    BY <1>3 DEF Message
  <2>2. Append(uplink[b], <<b, n>>) \in Seq(Message)
    BY <1>inv, <2>1 DEF ChatTypes
  <2> QED BY <1>inv, <1>6, <2>2 DEF ChatTypes
<1>10. ChatTypes'
  BY <1>inv, <1>4, <1>7, <1>9 DEF ChatTypes
<1>11. Buffered' /\ OwnOrder'
  BY <1>inv, <1>4, <1>8 DEF Buffered, OwnOrder
<1>12. ASSUME NEW c \in Browser PROVE PageRight(c)'
  BY <1>inv, <1>5, <1>7 DEF PageRight
<1>13. ASSUME NEW c \in Browser PROVE Follows(c)'
  BY <1>inv, <1>4, <1>8 DEF Follows
<1>14. ASSUME NEW c \in Browser PROVE Ordered(c)'
  <2>0. /\ Ordered(c) /\ uplink[c] \in Seq(Message) /\ said \in Seq(Message)
        /\ \A i \in 1..Len(uplink[c]) : uplink[c][i][2] \in Nat
        /\ \A k \in 1..Len(said) : said[k][2] \in Nat
    BY Facts
  <2>1. CASE c # b
    BY <1>4, <1>7, <1>9, <2>0, <2>1 DEF Ordered
  <2>2. CASE c = b
    <3>1. browser'[b].sends = n /\ n = browser[b].sends + 1
          /\ browser[b].sends \in Nat
      BY <1>1, <1>5, <1>7 DEF n
    <3>2. CASE uplink' = uplink
      <4>1. Run(b, uplink[b], n) /\ TakenBefore(said, b, uplink[b], n)
        BY <2>0, <2>2, <3>1, RunWiden DEF Ordered
      <4> QED BY <1>4, <2>2, <3>1, <3>2, <4>1 DEF Ordered
    <3>3. CASE uplink' = [uplink EXCEPT ![b] = Append(@, <<b, n>>)]
      <4>1. uplink'[b] = Append(uplink[b], <<b, n>>)
        BY <1>inv, <3>3 DEF ChatTypes
      <4>2. Run(b, uplink[b], browser[b].sends)
            /\ TakenBefore(said, b, uplink[b], browser[b].sends)
        BY <2>0, <2>2 DEF Ordered
      <4>3. Run(b, uplink'[b], n) /\ TakenBefore(said, b, uplink'[b], n)
        BY <2>0, <2>2, <3>1, <4>1, <4>2, RunAppend
      <4> QED BY <1>4, <2>2, <3>1, <4>3 DEF Ordered
    <3> QED BY <1>6, <3>2, <3>3
  <2> QED BY <2>1, <2>2
<1> QED BY <1>10, <1>11, <1>12, <1>13, <1>14 DEF ChatInv

LEMMA NotEmpty ==
  \A d \in Seq(Message) : d # <<>> => Len(d) \in Nat /\ Len(d) # 0
OBVIOUS

LEMMA onmessageKeeps ==
  ASSUME ChatInv, NEW b \in Browser, onmessage(b)
  PROVE  ChatInv'
<1>inv. /\ ChatTypes /\ Buffered /\ OwnOrder
        /\ \A c \in Browser : PageRight(c) /\ Follows(c) /\ Ordered(c)
  BY DEF ChatInv
<1> DEFINE m     == Head(downlink[b])
           shown == Append(browser[b].shown, m)
           p     == [browser[b] EXCEPT !.shown = shown]
<1>1. /\ browser[b] \in PageType /\ browser[b].shown \in Seq(Message)
      /\ downlink[b] \in Seq(Message) /\ Len(downlink[b]) = 1
      /\ browser[b].connection = "open" /\ downlink[b] # <<>>
  <2>1. downlink[b] \in Seq(Message) /\ downlink[b] # <<>>
        /\ browser[b].connection = "open" /\ browser[b] \in PageType
        /\ browser[b].shown \in Seq(Message) /\ Follows(b)
    BY Facts DEF onmessage
  <2>2. Len(downlink[b]) \in Nat /\ Len(downlink[b]) # 0
    BY <2>1, NotEmpty
  <2>3. Len(downlink[b]) <= 1
    BY <2>1 DEF Follows
  <2>4. Len(downlink[b]) = 1
    <3>1. \A k \in Nat : k # 0 /\ k <= 1 => k = 1
      OBVIOUS
    <3> QED BY <2>2, <2>3, <3>1, Zenon
  <2> QED BY <2>1, <2>4, Zenon
<1>2. m \in Message /\ m = downlink[b][1]
      /\ Tail(downlink[b]) \in Seq(Message) /\ Len(Tail(downlink[b])) = 0
      /\ shown \in Seq(Message)
  <2>1. m \in Message /\ Tail(downlink[b]) \in Seq(Message)
        /\ Len(Tail(downlink[b])) = 0
    BY <1>1, HeadTailProperties
  <2>2. m = downlink[b][1]
    BY <1>1
  <2> QED BY <1>1, <2>1, <2>2
<1>3. browser' = [browser EXCEPT ![b] = p]
      /\ downlink' = [downlink EXCEPT ![b] = Tail(@)]
      /\ UNCHANGED <<uplink, said, head, offset>>
  BY DEF onmessage
<1>4. Len(shown) = Len(browser[b].shown) + 1 /\ Len(browser[b].shown) \in Nat
      /\ shown[Len(browser[b].shown) + 1] = m
      /\ \A i \in 1..Len(browser[b].shown) : shown[i] = browser[b].shown[i]
  BY <1>1, <1>2
<1>5. /\ p \in PageType /\ p.sends = browser[b].sends
      /\ p.early = browser[b].early /\ p.shown = shown
      /\ p.connection = browser[b].connection /\ p.bound = browser[b].bound
      /\ p.from = browser[b].from
  <2> HIDE DEF shown
  <2> QED BY <1>1, <1>2 DEF PageType
<1> HIDE DEF p, shown, m
<1>6. /\ browser' \in [Browser -> PageType] /\ browser'[b] = p
      /\ \A c \in Browser \ {b} : browser'[c] = browser[c]
      /\ downlink' \in [Browser -> Seq(Message)] /\ Len(downlink'[b]) = 0
      /\ \A c \in Browser \ {b} : downlink'[c] = downlink[c]
  <2>1. browser \in [Browser -> PageType]
        /\ downlink \in [Browser -> Seq(Message)]
    BY <1>inv DEF ChatTypes
  <2>2. downlink' = [downlink EXCEPT ![b] = Tail(downlink[b])]
    BY <1>3
  <2> QED BY <1>2, <1>3, <1>5, <2>1, <2>2
<1>7. \A c \in Browser : /\ Consuming(c)' <=> Consuming(c)
                         /\ browser'[c].sends = browser[c].sends
  BY <1>5, <1>6 DEF Consuming
<1>8. ChatTypes'
  BY <1>inv, <1>3, <1>6 DEF ChatTypes
<1>9. Buffered' /\ OwnOrder'
  BY <1>inv, <1>3, <1>7 DEF Buffered, OwnOrder
<1>10. ASSUME NEW c \in Browser PROVE PageRight(c)' /\ Ordered(c)'
  <2>1. PageRight(c) /\ Ordered(c)
    BY Facts
  <2>2. Ordered(c)'
    BY <1>3, <1>7, <2>1 DEF Ordered
  <2>3. PageRight(c)'
    BY <1>1, <1>5, <1>6, <2>1 DEF PageRight
  <2> QED BY <2>2, <2>3
<1>11. ASSUME NEW c \in Browser PROVE Follows(c)'
  <2>0. Follows(c)
    BY Facts
  <2>1. CASE c # b
    BY <1>3, <1>6, <1>7, <2>0, <2>1 DEF Follows
  <2>2. CASE c = b
    <3>1. /\ Consuming(b) /\ browser[b].from \in Nat
          /\ offset[b] = browser[b].from + Len(browser[b].shown) + 1
          /\ m = said[offset[b]] /\ offset[b] <= Len(said)
          /\ said \in Seq(Message)
          /\ Shows(browser[b].shown, said, browser[b].from)
      <4>1. Consuming(b) /\ offset[b] <= Len(said)
        BY <1>inv, <1>1 DEF Consuming, Buffered
      <4> QED BY <1>1, <1>2, <2>0, <2>2, <4>1, Facts DEF Follows
    <3>2. Shows(shown, said, browser[b].from)
      BY <1>1, <1>2, <3>1, ShowsAppend DEF shown
    <3>3. /\ browser'[b].shown = shown /\ browser'[b].from = browser[b].from
          /\ UNCHANGED <<said, offset>> /\ Len(downlink'[b]) = 0
          /\ offset[b] = browser[b].from + Len(shown) + 0
      BY <1>3, <1>4, <1>5, <1>6, <3>1
    <3> HIDE DEF shown
    <3> QED BY <2>2, <3>2, <3>3 DEF Follows
  <2> QED BY <2>1, <2>2
<1> QED BY <1>8, <1>9, <1>10, <1>11 DEF ChatInv

LEMMA AcceptKeeps ==
  ASSUME ChatInv, NEW b \in Browser, Accept(b)
  PROVE  ChatInv'
<1>inv. /\ ChatTypes /\ Buffered /\ OwnOrder
        /\ \A c \in Browser : PageRight(c) /\ Follows(c) /\ Ordered(c)
  BY DEF ChatInv
<1> DEFINE p == [browser[b] EXCEPT !.connection = "opening", !.from = head]
<1>1. /\ browser[b] \in PageType /\ head \in Nat
      /\ browser[b].connection = "connecting" /\ browser[b].shown = <<>>
      /\ ~Consuming(b) /\ Len(downlink[b]) = 0 /\ ~browser[b].bound
  BY <1>inv DEF Accept, ChatTypes, PageRight, Consuming, Follows
<1>2. browser' = [browser EXCEPT ![b] = p]
      /\ offset' = [offset EXCEPT ![b] = head]
      /\ UNCHANGED <<uplink, said, head, downlink>>
  BY DEF Accept
<1>3. /\ p \in PageType /\ p.sends = browser[b].sends
      /\ p.early = browser[b].early /\ p.shown = browser[b].shown
      /\ p.connection = "opening" /\ p.bound = browser[b].bound
      /\ p.from = head
  BY <1>1 DEF PageType, Connection
<1> HIDE DEF p
<1>4. /\ browser' \in [Browser -> PageType] /\ browser'[b] = p
      /\ \A c \in Browser \ {b} : browser'[c] = browser[c]
      /\ offset' \in [Browser -> Nat \cup {-1}] /\ offset'[b] = head
      /\ \A c \in Browser \ {b} : offset'[c] = offset[c]
  BY <1>inv, <1>1, <1>2, <1>3 DEF ChatTypes
<1>5. ChatTypes'
  BY <1>inv, <1>2, <1>4 DEF ChatTypes
<1>6. Buffered'
  BY <1>inv, <1>1, <1>2, <1>3, <1>4 DEF Buffered, Consuming
<1>7. OwnOrder'
  BY <1>inv, <1>2 DEF OwnOrder
<1>8. ASSUME NEW c \in Browser PROVE PageRight(c)' /\ Ordered(c)'
  BY <1>inv, <1>1, <1>2, <1>3, <1>4 DEF PageRight, Ordered
<1>9. ASSUME NEW c \in Browser PROVE Follows(c)'
  <2>0. Follows(c)
    BY Facts
  <2>1. CASE c # b
    BY <1>2, <1>4, <2>0, <2>1 DEF Follows, Consuming
  <2>2. CASE c = b
    <3>1. Len(browser[b].shown) = 0
      BY <1>1
    <3>2. Shows(browser[b].shown, said, head)
      BY <3>1 DEF Shows
    <3> QED BY <1>1, <1>2, <1>3, <1>4, <2>2, <3>1, <3>2 DEF Follows, Consuming
  <2> QED BY <2>1, <2>2
<1> QED BY <1>5, <1>6, <1>7, <1>8, <1>9 DEF ChatInv

LEMMA MergeKeeps ==
  ASSUME ChatInv, NEW b \in Browser, Merge(b)
  PROVE  ChatInv'
<1>inv. /\ ChatTypes /\ Buffered /\ OwnOrder
        /\ \A c \in Browser : PageRight(c) /\ Follows(c) /\ Ordered(c)
  BY DEF ChatInv
<1> DEFINE u == uplink[b]
           m == Head(u)
           L == Len(said)
<1>1. /\ u \in Seq(Message) /\ u # <<>> /\ Len(u) \in Nat /\ Len(u) >= 1
      /\ said \in Seq(Message) /\ L \in Nat /\ L - head < HubBuffer
      /\ m = u[1] /\ m \in Message /\ Tail(u) \in Seq(Message)
  BY <1>inv DEF Merge, ChatTypes
<1>2. /\ said' \in Seq(Message) /\ Len(said') = L + 1 /\ said'[L + 1] = m
      /\ \A k \in 1..L : said'[k] = said[k]
      /\ UNCHANGED <<browser, head, offset, downlink>>
  BY <1>1 DEF Merge
<1>3. /\ uplink' \in [Browser -> Seq(Message)] /\ uplink'[b] = Tail(u)
      /\ \A c \in Browser \ {b} : uplink'[c] = uplink[c]
  BY <1>inv, <1>1 DEF Merge, ChatTypes
<1>4. /\ Len(Tail(u)) = Len(u) - 1
      /\ \A i \in 1..Len(Tail(u)) : Tail(u)[i] = u[i + 1]
                                      /\ i + 1 \in 1..Len(u)
  BY <1>1
<1>5. ChatTypes'
  BY <1>inv, <1>2, <1>3 DEF ChatTypes
<1>6. Buffered'
  <2>1. head \in Nat /\ HubBuffer \in Nat
    BY <1>inv, ChatAssumption DEF ChatTypes
  <2>2. head <= L + 1 /\ L + 1 - head <= HubBuffer
    BY <1>inv, <1>1, <2>1 DEF Buffered
  <2>3. ASSUME NEW c \in Browser
        PROVE  /\ Consuming(c) <=> offset[c] >= 0
               /\ Consuming(c) => head <= offset[c] /\ offset[c] <= L + 1
    BY <1>inv, <1>1, Facts DEF Buffered
  <2>4. /\ browser' = browser /\ head' = head /\ offset' = offset
        /\ Len(said') = L + 1
    BY <1>2
  <2>5. head' <= Len(said') /\ Len(said') - head' <= HubBuffer
    BY <1>1, <2>1, <2>2, <2>4
  <2>6. ASSUME NEW c \in Browser
        PROVE  /\ Consuming(c)' <=> offset'[c] >= 0
               /\ Consuming(c)' => head' <= offset'[c]
                                    /\ offset'[c] <= Len(said')
    <3>1. Consuming(c)' <=> Consuming(c)
      BY <2>4 DEF Consuming
    <3> QED BY <2>3, <2>4, <3>1
  <2> QED BY <2>5, <2>6 DEF Buffered
<1>7. /\ m[1] = b /\ m[2] \in Nat /\ Run(b, Tail(u), browser[b].sends)
      /\ TakenBefore(said', b, Tail(u), browser[b].sends)
      /\ \A k \in 1..L : said[k][1] = b => said[k][2] < m[2]
  <2>1. said' = Append(said, m) /\ browser[b].sends \in Nat
        /\ Run(b, u, browser[b].sends) /\ TakenBefore(said, b, u, browser[b].sends)
    BY Facts DEF Merge, Ordered
  <2>2. m[2] \in Nat
    BY <1>1 DEF Message
  <2> QED BY <1>1, <2>1, <2>2, RunHead
<1>8. \A k \in 1..(L + 1) : k \in 1..L \/ k = L + 1
  BY <1>1
<1>9. OwnOrder'
  <2>1. DOMAIN said = 1..L /\ DOMAIN said' = 1..(L + 1)
    BY <1>1, <1>2, LenProperties
  <2>2. ASSUME NEW i \in 1..(L + 1), NEW j \in 1..(L + 1), i < j,
               said'[i][1] = said'[j][1]
        PROVE  said'[i][2] < said'[j][2]
    <3>1. i \in 1..L
      BY <1>1, <2>2
    <3>2. CASE j \in 1..L
      BY <1>inv, <1>2, <2>1, <2>2, <3>1, <3>2 DEF OwnOrder
    <3>3. CASE j = L + 1
      BY <1>2, <1>7, <2>2, <3>1, <3>3
    <3> QED BY <1>8, <3>2, <3>3
  <2> QED BY <2>1, <2>2 DEF OwnOrder
<1>10. ASSUME NEW c \in Browser PROVE PageRight(c)'
  BY <1>inv, <1>2 DEF PageRight
<1>11. ASSUME NEW c \in Browser PROVE Follows(c)'
  <2>1. /\ Follows(c) /\ browser[c].shown \in Seq(Message)
        /\ browser[c].from \in Nat /\ Len(browser[c].shown) \in Nat
        /\ offset[c] \in Nat \cup {-1}
    BY Facts
  <2>2. Shows(browser[c].shown, said', browser[c].from)
    <3>1. said' = Append(said, m)
      BY DEF Merge
    <3> QED BY <1>1, <2>1, <3>1, ShowsMore DEF Follows
  <2>3. Len(downlink[c]) = 1 => downlink[c][1] = said'[offset[c]]
    <3> SUFFICES ASSUME Len(downlink[c]) = 1
                 PROVE  downlink[c][1] = said'[offset[c]]
      OBVIOUS
    <3>1. Consuming(c) /\ downlink[c][1] = said[offset[c]]
      BY <2>1 DEF Follows
    <3>2. offset[c] \in 1..L
      BY <1>inv, <1>1, <2>1, <3>1 DEF Follows, Buffered
    <3> QED BY <1>2, <3>1, <3>2
  <2> QED BY <1>2, <2>1, <2>2, <2>3 DEF Follows, Consuming
<1>12. ASSUME NEW c \in Browser PROVE Ordered(c)'
  <2>0. Ordered(c)
    BY Facts
  <2>1. CASE c # b
    <3>1. uplink'[c] = uplink[c] /\ browser' = browser /\ m[1] # c
      BY <1>2, <1>3, <1>7, <2>1
    <3>2. \A k \in 1..(L + 1) : said'[k][1] = c =>
            k \in 1..L /\ said'[k] = said[k]
      BY <1>2, <1>8, <3>1
    <3>3. TakenBefore(said', c, uplink[c], browser[c].sends)
      BY <1>2, <2>0, <3>2 DEF Ordered, TakenBefore
    <3> QED BY <2>0, <3>1, <3>3 DEF Ordered
  <2>2. CASE c = b
    BY <1>2, <1>3, <1>7, <2>2 DEF Ordered
  <2> QED BY <2>1, <2>2
<1> QED BY <1>5, <1>6, <1>9, <1>10, <1>11, <1>12 DEF ChatInv

LEMMA TakeKeeps ==
  ASSUME ChatInv, NEW b \in Browser, Take(b)
  PROVE  ChatInv'
<1>inv. /\ ChatTypes /\ Buffered /\ OwnOrder
        /\ \A c \in Browser : PageRight(c) /\ Follows(c) /\ Ordered(c)
  BY DEF ChatInv
<1> DEFINE n == offset[b] + 1
<1>1. /\ offset[b] \in Nat /\ offset[b] < Len(said) /\ Len(downlink[b]) = 0
      /\ said \in Seq(Message) /\ Len(said) \in Nat /\ n \in 1..Len(said)
      /\ said[n] \in Message /\ Consuming(b) /\ head \in Nat
  <2>1. /\ offset[b] >= 0 /\ offset[b] < Len(said) /\ Len(downlink[b]) = 0
        /\ offset[b] \in Nat \cup {-1} /\ Len(said) \in Nat
        /\ said \in Seq(Message) /\ head \in Nat
    BY Facts DEF Take
  <2>2. offset[b] \in Nat /\ n \in 1..Len(said)
    BY <2>1
  <2> QED BY <1>inv, <2>1, <2>2, Facts DEF Buffered
<1>2. /\ offset' \in [Browser -> Nat \cup {-1}] /\ offset'[b] = n
      /\ \A c \in Browser \ {b} : offset'[c] = offset[c]
  BY <1>inv, <1>1 DEF Take, ChatTypes
<1>3. /\ downlink' \in [Browser -> Seq(Message)]
      /\ Len(downlink'[b]) = 1 /\ downlink'[b][1] = said[n]
      /\ \A c \in Browser \ {b} : downlink'[c] = downlink[c]
  <2>1. Append(downlink[b], said[n]) \in Seq(Message)
        /\ Len(Append(downlink[b], said[n])) = 1
        /\ Append(downlink[b], said[n])[1] = said[n]
    BY <1>1, Facts
  <2> QED BY <1>inv, <2>1 DEF Take, ChatTypes
<1>4. UNCHANGED <<browser, uplink, said>> /\ head' = Advanced(offset')
  BY DEF Take
<1>5. ASSUME NEW c \in Browser
      PROVE  /\ Consuming(c) <=> offset'[c] >= 0
             /\ offset'[c] >= 0 => head <= offset'[c] /\ offset'[c] <= Len(said)
  <2>1. CASE c = b
    BY <1>inv, <1>1, <1>2, <2>1 DEF Buffered
  <2>2. CASE c # b
    BY <1>inv, <1>2, <2>2 DEF Buffered
  <2> QED BY <2>1, <2>2
<1>6. /\ head' \in Nat /\ head <= head' /\ head' <= Len(said)
      /\ \A c \in Browser : offset'[c] >= 0 => head' <= offset'[c]
  BY <1>inv, <1>1, <1>2, <1>4, <1>5, AdvancedBetween DEF Buffered
<1>7. ChatTypes'
  BY <1>inv, <1>2, <1>3, <1>4, <1>6 DEF ChatTypes
<1>8. Buffered'
  <2>1. HubBuffer \in Nat
    BY ChatAssumption
  <2> QED BY <1>inv, <1>1, <1>4, <1>5, <1>6, <2>1 DEF Buffered, Consuming
<1>9. OwnOrder'
  BY <1>inv, <1>4 DEF OwnOrder
<1>10. ASSUME NEW c \in Browser PROVE PageRight(c)' /\ Ordered(c)'
  BY <1>inv, <1>4 DEF PageRight, Ordered
<1>11. ASSUME NEW c \in Browser PROVE Follows(c)'
  <2>0. Follows(c) /\ Len(browser[c].shown) \in Nat /\ browser[c].from \in Nat
    BY Facts
  <2>1. CASE c # b
    BY <1>2, <1>3, <1>4, <2>0, <2>1 DEF Follows, Consuming
  <2>2. CASE c = b
    <3>1. /\ offset[b] = browser[b].from + Len(browser[b].shown)
          /\ Shows(browser[b].shown, said, browser[b].from)
      BY <1>1, <2>0, <2>2 DEF Follows
    <3>2. offset'[b] = browser[b].from + Len(browser[b].shown)
                         + Len(downlink'[b])
      BY <1>1, <1>2, <1>3, <3>1
    <3>3. downlink'[b][1] = said[offset'[b]] /\ Len(downlink'[b]) = 1
      BY <1>2, <1>3
    <3> HIDE DEF n
    <3> QED BY <1>1, <1>4, <2>2, <3>1, <3>2, <3>3 DEF Follows, Consuming
  <2> QED BY <2>1, <2>2
<1> QED BY <1>7, <1>8, <1>9, <1>10, <1>11 DEF ChatInv

LEMMA CloseKeeps ==
  ASSUME ChatInv, NEW b \in Browser, Close(b)
  PROVE  ChatInv'
<1>inv. /\ ChatTypes /\ Buffered /\ OwnOrder
        /\ \A c \in Browser : PageRight(c) /\ Follows(c) /\ Ordered(c)
  BY DEF ChatInv
<1> DEFINE p == [browser[b] EXCEPT !.connection = "closed"]
<1>1. browser[b] \in PageType /\ Consuming(b)
  BY <1>inv DEF Close, ChatTypes, Consuming
<1>2. /\ p \in PageType /\ p.sends = browser[b].sends
      /\ p.early = browser[b].early /\ p.shown = browser[b].shown
      /\ p.connection = "closed" /\ p.bound = browser[b].bound
      /\ p.from = browser[b].from
  BY <1>1 DEF PageType, Connection
<1>3. browser' = [browser EXCEPT ![b] = p]
  BY <1>1 DEF Close
<1> HIDE DEF p
<1>4. /\ browser' \in [Browser -> PageType] /\ browser'[b] = p
      /\ \A c \in Browser \ {b} : browser'[c] = browser[c]
  BY <1>inv, <1>2, <1>3 DEF ChatTypes
<1>5. /\ offset' \in [Browser -> Nat \cup {-1}] /\ offset'[b] = -1
      /\ \A c \in Browser \ {b} : offset'[c] = offset[c]
      /\ downlink' \in [Browser -> Seq(Message)] /\ downlink'[b] = <<>>
      /\ \A c \in Browser \ {b} : downlink'[c] = downlink[c]
      /\ said' = said
  BY <1>inv DEF Close, ChatTypes
<1>6. PICK k \in 0..Len(uplink[b]) :
        uplink' = [uplink EXCEPT ![b] = SubSeq(@, 1, k)]
  BY DEF Close
<1>7. /\ uplink' \in [Browser -> Seq(Message)]
      /\ \A c \in Browser \ {b} : uplink'[c] = uplink[c]
      /\ Len(uplink'[b]) = k /\ k <= Len(uplink[b])
      /\ \A i \in 1..k : uplink'[b][i] = uplink[b][i]
                           /\ i \in 1..Len(uplink[b])
  <2>1. uplink[b] \in Seq(Message) /\ Len(uplink[b]) \in Nat
    BY <1>inv DEF ChatTypes
  <2>2. /\ SubSeq(uplink[b], 1, k) \in Seq(Message)
        /\ Len(SubSeq(uplink[b], 1, k)) = k
        /\ \A i \in 1..k : SubSeq(uplink[b], 1, k)[i] = uplink[b][i]
                             /\ i \in 1..Len(uplink[b])
    BY <2>1
  <2> QED BY <1>inv, <1>6, <2>1, <2>2 DEF ChatTypes
<1>8. ASSUME NEW c \in Browser
      PROVE  /\ Consuming(c)' <=> offset'[c] >= 0
             /\ offset'[c] >= 0 => head <= offset'[c] /\ offset'[c] <= Len(said)
  <2>1. CASE c = b
    BY <1>2, <1>4, <1>5, <2>1 DEF Consuming
  <2>2. CASE c # b
    BY <1>inv, <1>4, <1>5, <2>2 DEF Buffered, Consuming
  <2> QED BY <2>1, <2>2
<1>9. /\ head' \in Nat /\ head <= head' /\ head' <= Len(said)
      /\ \A c \in Browser : offset'[c] >= 0 => head' <= offset'[c]
  <2>1. head \in Nat /\ head <= Len(said) /\ said \in Seq(Message)
    BY <1>inv DEF ChatTypes, Buffered
  <2>2. CASE head' = head
    BY <1>8, <2>1, <2>2
  <2>3. /\ Advanced(offset') \in Nat
        /\ head <= Advanced(offset') /\ Advanced(offset') <= Len(said)
        /\ \A c \in Browser : offset'[c] >= 0 => Advanced(offset') <= offset'[c]
    <3>1. head <= head
      BY <2>1
    <3> DEFINE o == offset'
    <3>2. o \in [Browser -> Nat \cup {-1}]
          /\ \A c \in Browser : o[c] >= 0 => head <= o[c] /\ o[c] <= Len(said)
      BY <1>5, <1>8
    <3> HIDE DEF o
    <3>3. /\ Advanced(o) \in Nat
          /\ head <= Advanced(o) /\ Advanced(o) <= Len(said)
          /\ \A c \in Browser : o[c] >= 0 => Advanced(o) <= o[c]
      BY <2>1, <3>1, <3>2, AdvancedBetween
    <3> QED BY <3>3 DEF o
  <2>4. CASE head' = Advanced(offset')
    BY <1>5, <2>3, <2>4
  <2> QED BY <2>2, <2>4 DEF Close
<1>10. ChatTypes'
  BY <1>inv, <1>4, <1>5, <1>7, <1>9 DEF ChatTypes
<1>11. Buffered'
  <2>1. HubBuffer \in Nat /\ head \in Nat /\ Len(said) \in Nat
    BY <1>inv, ChatAssumption DEF ChatTypes
  <2> QED BY <1>inv, <1>5, <1>8, <1>9, <2>1 DEF Buffered
<1>12. OwnOrder'
  BY <1>inv, <1>5 DEF OwnOrder
<1>13. ASSUME NEW c \in Browser PROVE PageRight(c)'
  BY <1>inv, <1>2, <1>4 DEF PageRight
<1>14. ASSUME NEW c \in Browser PROVE Follows(c)'
  <2>0. Follows(c)
    BY Facts
  <2>1. CASE c # b
    BY <1>4, <1>5, <2>0, <2>1 DEF Follows, Consuming
  <2>2. CASE c = b
    <3>1. Len(downlink'[b]) = 0
      BY <1>5
    <3> QED BY <1>2, <1>4, <1>5, <2>0, <2>2, <3>1 DEF Follows, Consuming
  <2> QED BY <2>1, <2>2
<1>15. ASSUME NEW c \in Browser PROVE Ordered(c)'
  <2>0. Ordered(c) /\ uplink[c] \in Seq(Message) /\ browser[c].sends \in Nat
        /\ said \in Seq(Message)
    BY Facts
  <2>1. CASE c # b
    BY <1>4, <1>5, <1>7, <2>0, <2>1 DEF Ordered
  <2>2. CASE c = b
    <3>1. uplink'[b] = SubSeq(uplink[b], 1, k)
      BY <1>inv, <1>6 DEF ChatTypes
    <3> QED BY <1>2, <1>4, <1>5, <2>0, <2>2, <3>1, RunCut DEF Ordered
  <2> QED BY <2>1, <2>2
<1> QED BY <1>10, <1>11, <1>12, <1>13, <1>14, <1>15 DEF ChatInv

LEMMA ChatInvHolds == ServicesSpec => []ChatInv
<1>1. ServicesInit => ChatInv
  BY ChatStart DEF ServicesInit
<1>2. ChatInv /\ [ServicesNext]_others => ChatInv'
  <2> SUFFICES ASSUME ChatInv, [ServicesNext]_others PROVE ChatInv'
    OBVIOUS
  <2>1. CASE UNCHANGED chatVars
    BY <2>1 DEF chatVars, ChatInv, ChatTypes, Buffered, OwnOrder, PageRight,
                Follows, Ordered, Consuming
  <2>2. CASE ChatNext
    <3>1. PICK b \in Browser :
            \/ Load(b) \/ Accept(b) \/ Reject(b) \/ Close(b)
            \/ \E by \in {"click", "Enter"} : Send(b, by)
            \/ onopen(b) \/ onmessage(b) \/ Merge(b) \/ Take(b)
      BY <2>2 DEF ChatNext, Chats
    <3> QED BY <3>1, ConnectionKeeps, AcceptKeeps, CloseKeeps, SendKeeps,
               onmessageKeeps, MergeKeeps, TakeKeeps
  <2> QED BY <2>1, <2>2 DEF ServicesNext, others, chatVars
<1> QED BY <1>1, <1>2, PTL DEF ServicesSpec

\* The hub keeps no more than its buffer, and its consumers are the sockets.
THEOREM ChatIsOK == ServicesSpec => []ChatOK
<1>1. ChatInv => ChatOK
  BY DEF ChatInv, ChatTypes, PageType, Buffered, Consuming, Follows, ChatOK
<1> QED BY <1>1, ChatInvHolds, PTL

\* app.js does not send before its connection is open.
THEOREM SendsInTime == ServicesSpec => []NeverTooEarly
<1>1. ChatInv => NeverTooEarly
  BY DEF ChatInv, PageRight, NeverTooEarly
<1> QED BY <1>1, ChatInvHolds, PTL

\* All pages show one conversation, each from where it came in.
THEOREM AllSeeTheSame == ServicesSpec => []OneConversation
<1>1. ChatInv => OneConversation
  <2> SUFFICES ASSUME ChatInv, NEW b \in Browser, NEW i \in DOMAIN browser[b].shown
               PROVE  browser[b].shown[i] = said[browser[b].from + i]
    BY DEF OneConversation
  <2>1. browser[b].shown \in Seq(Message)
    BY DEF ChatInv, ChatTypes, PageType
  <2>2. i \in 1..Len(browser[b].shown)
    BY <2>1, LenProperties
  <2>3. Shows(browser[b].shown, said, browser[b].from)
    BY DEF ChatInv, Follows
  <2> QED BY <2>2, <2>3 DEF Shows
<1> QED BY <1>1, ChatInvHolds, PTL

\* Nobody's messages overtake one another or come twice.
THEOREM OwnOrderIsKept == ServicesSpec => []OwnOrder
<1>1. ChatInv => OwnOrder
  BY DEF ChatInv
<1> QED BY <1>1, ChatInvHolds, PTL

\* The chat as a whole: bounded hub, nothing sent too early, and each speaker
\* in order.
THEOREM ChatIsSafe == ServicesSpec => []ChatSafe
<1>1. ChatOK /\ NeverTooEarly /\ OwnOrder => ChatSafe
  BY DEF ChatSafe
<1> QED BY <1>1, ChatIsOK, SendsInTime, OwnOrderIsKept, PTL

-----------------------------------------------------------------------------
(* WordServices: sequences, sets and folds *)

\* Induction over the numbers of a set.
LEMMA Induct ==
  ASSUME NEW G, 0 \in G, \A n \in Nat : n \in G => n + 1 \in G
  PROVE  Nat \subseteq G
<1> DEFINE R == OpToRel(<, Nat)
           T == Nat \ G
<1>1. \A a, b \in Nat : a < b => <<a, b>> \in R
  BY DEF OpToRel
<1>2. IsWellFoundedOn(R, Nat)
  BY NatLessThanWellFounded
<1> HIDE DEF R
<1> SUFFICES ASSUME T # {} PROVE FALSE
  OBVIOUS
<1>3. PICK k \in T : \A n \in T : ~(<<n, k>> \in R)
  BY <1>2, WFMin
<1>4. k - 1 \in Nat /\ k - 1 < k
  BY <1>3
<1>5. k - 1 \in G
  BY <1>1, <1>3, <1>4
<1> QED BY <1>3, <1>4, <1>5

\* Putting one sequence after the other.
LEMMA ConcatParts ==
  ASSUME NEW S, NEW a \in Seq(S), NEW b \in Seq(S)
  PROVE  /\ a \o b \in Seq(S)
         /\ ToSet(a \o b) = ToSet(a) \cup ToSet(b)
         /\ IsInjective(a) /\ IsInjective(b) /\ ToSet(a) \cap ToSet(b) = {}
              => IsInjective(a \o b)
<1>1. /\ a \o b \in Seq(S) /\ Len(a \o b) = Len(a) + Len(b)
      /\ \A i \in 1..(Len(a) + Len(b)) :
            (a \o b)[i] = IF i <= Len(a) THEN a[i] ELSE b[i - Len(a)]
  BY ConcatProperties
<1>2. DOMAIN a = 1..Len(a) /\ DOMAIN b = 1..Len(b)
      /\ DOMAIN (a \o b) = 1..(Len(a) + Len(b))
      /\ Len(a) \in Nat /\ Len(b) \in Nat
  BY <1>1, LenProperties
<1> DEFINE c == a \o b
<1> HIDE DEF c
<1>3. ToSet(c) = ToSet(a) \cup ToSet(b)
  <2>1. \A i \in DOMAIN a : i \in DOMAIN c /\ c[i] = a[i]
    BY <1>1, <1>2 DEF c
  <2>2. \A i \in DOMAIN b : i + Len(a) \in DOMAIN c /\ c[i + Len(a)] = b[i]
    BY <1>1, <1>2 DEF c
  <2>3. \A i \in DOMAIN c : \/ i \in DOMAIN a /\ c[i] = a[i]
                            \/ i - Len(a) \in DOMAIN b /\ c[i] = b[i - Len(a)]
    BY <1>1, <1>2 DEF c
  <2> QED BY <2>1, <2>2, <2>3 DEF ToSet
<1>4. ASSUME IsInjective(a), IsInjective(b), ToSet(a) \cap ToSet(b) = {}
      PROVE  IsInjective(c)
  <2> SUFFICES ASSUME NEW i \in DOMAIN c, NEW j \in DOMAIN c, c[i] = c[j]
               PROVE  i = j
    BY DEF IsInjective
  <2>1. \A k \in DOMAIN a, l \in DOMAIN b : a[k] # b[l]
    BY <1>4 DEF ToSet
  <2>2. i \in 1..(Len(a) + Len(b)) /\ j \in 1..(Len(a) + Len(b))
    BY <1>2 DEF c
  <2>3. /\ c[i] = IF i <= Len(a) THEN a[i] ELSE b[i - Len(a)]
        /\ c[j] = IF j <= Len(a) THEN a[j] ELSE b[j - Len(a)]
    BY <1>1, <2>2 DEF c
  <2>4. CASE i <= Len(a) /\ j <= Len(a)
    <3>1. i \in DOMAIN a /\ j \in DOMAIN a
      BY <1>2, <2>2, <2>4
    <3> QED BY <1>4, <2>3, <2>4, <3>1 DEF IsInjective
  <2>5. CASE ~(i <= Len(a)) /\ ~(j <= Len(a))
    <3>1. i - Len(a) \in DOMAIN b /\ j - Len(a) \in DOMAIN b
      BY <1>2, <2>2, <2>5
    <3>2. i - Len(a) = j - Len(a)
      BY <1>4, <2>3, <2>5, <3>1 DEF IsInjective
    <3> QED BY <1>2, <2>2, <3>2
  <2>6. CASE i <= Len(a) /\ ~(j <= Len(a))
    <3>1. i \in DOMAIN a /\ j - Len(a) \in DOMAIN b
      BY <1>2, <2>2, <2>6
    <3> QED BY <2>1, <2>3, <2>6, <3>1
  <2>7. CASE ~(i <= Len(a)) /\ j <= Len(a)
    <3>1. j \in DOMAIN a /\ i - Len(a) \in DOMAIN b
      BY <1>2, <2>2, <2>7
    <3> QED BY <2>1, <2>3, <2>7, <3>1
  <2> QED BY <2>4, <2>5, <2>6, <2>7
<1> QED BY <1>1, <1>3, <1>4 DEF c

\* The function FlattenSeq is defined with.
Flattening(g, ss, m) ==
  g = [i \in 1..m |-> IF i = 1 THEN ss[i] ELSE g[i - 1] \o ss[i]]

LEMMA FlatteningExists ==
  ASSUME NEW ss, NEW n \in Nat
  PROVE  \E g : Flattening(g, ss, n)
<1> DEFINE G == {m \in Nat : \E g : Flattening(g, ss, m)}
<1>1. 0 \in G
  <2>1. Flattening([i \in 1..0 |-> 0], ss, 0)
    BY DEF Flattening
  <2> QED BY <2>1
<1>2. ASSUME NEW m \in Nat, m \in G PROVE m + 1 \in G
  <2>1. PICK g : Flattening(g, ss, m)
    BY <1>2
  <2> DEFINE e == IF m = 0 THEN ss[1] ELSE g[m] \o ss[m + 1]
             h == [i \in 1..(m + 1) |-> IF i = m + 1 THEN e ELSE g[i]]
  <2>2. ASSUME NEW i \in 1..(m + 1)
        PROVE  h[i] = IF i = 1 THEN ss[i] ELSE h[i - 1] \o ss[i]
    <3>1. CASE i = m + 1
      <4>1. CASE m = 0
        BY <3>1, <4>1
      <4>2. CASE m # 0
        <5>1. i # 1 /\ i - 1 = m /\ m \in 1..(m + 1) /\ m # m + 1
          BY <3>1, <4>2
        <5>2. h[i - 1] = g[m] /\ h[i] = g[m] \o ss[m + 1]
          BY <3>1, <4>2, <5>1
        <5> QED BY <3>1, <5>1, <5>2
      <4> QED BY <4>1, <4>2
    <3>2. CASE i # m + 1
      <4>1. i \in 1..m /\ h[i] = g[i]
        BY <3>2
      <4>2. g[i] = IF i = 1 THEN ss[i] ELSE g[i - 1] \o ss[i]
        BY <2>1, <4>1 DEF Flattening
      <4>3. i # 1 => i - 1 \in 1..m /\ i - 1 # m + 1 /\ i - 1 \in 1..(m + 1)
        BY <4>1
      <4> QED BY <4>1, <4>2, <4>3
    <3> QED BY <3>1, <3>2
  <2>3. Flattening(h, ss, m + 1)
    BY <2>2 DEF Flattening
  <2> QED BY <2>3
<1> HIDE DEF G
<1>3. n \in G
  BY <1>1, <1>2, Induct
<1> QED BY <1>3 DEF G

\* FlattenSeq keeps all elements, and keeps them apart.
LEMMA FlattenParts ==
  ASSUME NEW S, NEW ss \in Seq(Seq(S))
  PROVE  /\ FlattenSeq(ss) \in Seq(S)
         /\ ToSet(FlattenSeq(ss)) = UNION {ToSet(ss[i]) : i \in DOMAIN ss}
         /\ (\A i \in DOMAIN ss : IsInjective(ss[i]))
            /\ (\A i, j \in DOMAIN ss : i # j => ToSet(ss[i]) \cap ToSet(ss[j]) = {})
              => IsInjective(FlattenSeq(ss))
<1>1. Len(ss) \in Nat /\ DOMAIN ss = 1..Len(ss) /\ \A i \in 1..Len(ss) : ss[i] \in Seq(S)
  BY LenProperties, ElementOfSeq
<1>2. CASE Len(ss) = 0
  <2>1. FlattenSeq(ss) = ss /\ DOMAIN ss = {} /\ ss = <<>>
    BY <1>1, <1>2, EmptySeq DEF FlattenSeq
  <2> QED BY <2>1 DEF ToSet, IsInjective
<1>3. CASE Len(ss) # 0
  <2> DEFINE g == CHOOSE f : Flattening(f, ss, Len(ss))
  <2>1. Flattening(g, ss, Len(ss)) /\ FlattenSeq(ss) = g[Len(ss)]
    <3>1. \E f : Flattening(f, ss, Len(ss))
      BY <1>1, FlatteningExists
    <3>2. FlattenSeq(ss) = g[Len(ss)]
      BY <1>3 DEF FlattenSeq, Flattening
    <3> QED BY <3>1, <3>2
  <2> HIDE DEF g
  <2> DEFINE Apart == /\ \A i \in DOMAIN ss : IsInjective(ss[i])
                      /\ \A i, j \in DOMAIN ss : i # j => ToSet(ss[i]) \cap ToSet(ss[j]) = {}
             Good(m) == /\ g[m] \in Seq(S)
                        /\ ToSet(g[m]) = UNION {ToSet(ss[i]) : i \in 1..m}
                        /\ Apart => IsInjective(g[m])
             G == {m \in Nat : m \in 1..Len(ss) => Good(m)}
  <2>2. 0 \in G
    OBVIOUS
  <2>3. ASSUME NEW m \in Nat, m \in G, m + 1 \in 1..Len(ss) PROVE Good(m + 1)
    <3>1. CASE m = 0
      <4>1. g[m + 1] = ss[m + 1]
        BY <2>1, <2>3, <3>1 DEF Flattening
      <4>2. 1..(m + 1) = {m + 1}
        BY <3>1
      <4>3. UNION {ToSet(ss[i]) : i \in {m + 1}} = ToSet(ss[m + 1])
        OBVIOUS
      <4> QED BY <1>1, <2>3, <4>1, <4>2, <4>3
    <3>2. CASE m # 0
      <4>1. m \in 1..Len(ss) /\ Good(m)
        <5>1. m \in 1..Len(ss)
          BY <1>1, <2>3, <3>2
        <5> HIDE DEF Good
        <5> QED BY <2>3, <5>1
      <4>2. g[m + 1] = g[m] \o ss[m + 1]
        <5>1. m + 1 \in 1..Len(ss) /\ m + 1 # 1 /\ (m + 1) - 1 = m
          BY <2>3, <3>2
        <5> QED BY <2>1, <5>1 DEF Flattening
      <4>3. ss[m + 1] \in Seq(S)
        BY <1>1, <2>3
      <4>4. 1..(m + 1) = (1..m) \cup {m + 1} /\ m + 1 \notin 1..m /\ 1..m \subseteq DOMAIN ss
            /\ m + 1 \in DOMAIN ss
        BY <1>1, <2>3
      <4>5. ToSet(g[m + 1]) = UNION {ToSet(ss[i]) : i \in 1..(m + 1)}
        <5>1. ToSet(g[m + 1]) = ToSet(g[m]) \cup ToSet(ss[m + 1])
          BY <4>1, <4>2, <4>3, ConcatParts
        <5> HIDE DEF Apart
        <5> QED BY <4>1, <4>4, <5>1
      <4>6. Apart => ToSet(g[m]) \cap ToSet(ss[m + 1]) = {} /\ IsInjective(ss[m + 1])
        <5>1. ASSUME Apart, NEW i \in 1..m
              PROVE  ToSet(ss[i]) \cap ToSet(ss[m + 1]) = {}
          <6>1. i \in DOMAIN ss /\ i # m + 1
            BY <4>4
          <6> QED BY <4>4, <5>1, <6>1
        <5> QED BY <4>1, <4>4, <5>1
      <4> HIDE DEF Apart
      <4>7. /\ g[m + 1] \in Seq(S)
            /\ Apart => IsInjective(g[m + 1])
        <5>1. g[m] \in Seq(S) /\ (Apart => IsInjective(g[m]))
          BY <4>1
        <5> QED BY <4>2, <4>3, <4>6, <5>1, ConcatParts
      <4> QED BY <4>5, <4>7
    <3> QED BY <3>1, <3>2
  <2> HIDE DEF Good
  <2>4. Len(ss) \in G
    <3>1. ASSUME NEW m \in Nat, m \in G PROVE m + 1 \in G
      <4>1. m + 1 \in 1..Len(ss) => Good(m + 1)
        BY <2>3, <3>1
      <4> QED BY <4>1
    <3> HIDE DEF G
    <3> QED BY <1>1, <2>2, <3>1, Induct
  <2>5. Good(Len(ss))
    BY <1>1, <1>3, <2>4
  <2> QED BY <1>1, <2>1, <2>5 DEF Good
<1> QED BY <1>2, <1>3

\* The greatest element of a set of small numbers that has it.
LEMMA GreatestOf ==
  ASSUME NEW n, n \in Int, NEW T, T \subseteq 1..n, n \in T
  PROVE  Max(T) = n
<1>1. \A y \in T : n >= y
  OBVIOUS
<1>2. \A x \in T : (\A y \in T : x >= y) => x = n
  BY <1>1
<1> QED BY <1>1, <1>2 DEF Max

\* The function FoldLeft is defined with, for AddOnce.
Adding(g, base, s, m) ==
  g = [T \in SUBSET (1..m) |->
         IF T = {} THEN base ELSE AddOnce(g[T \ {Max(T)}], s[Max(T)])]

LEMMA AddingExists ==
  ASSUME NEW base, NEW s, NEW n \in Nat
  PROVE  \E g : Adding(g, base, s, n)
<1> DEFINE G == {m \in Nat : \E g : Adding(g, base, s, m)}
<1>1. 0 \in G
  <2> DEFINE g == [T \in SUBSET (1..0) |-> base]
  <2>1. \A T \in SUBSET (1..0) : T = {}
    OBVIOUS
  <2>2. Adding(g, base, s, 0)
    BY <2>1 DEF Adding
  <2> QED BY <2>2
<1>2. ASSUME NEW m \in Nat, m \in G PROVE m + 1 \in G
  <2>1. PICK g : Adding(g, base, s, m)
    BY <1>2
  <2> DEFINE e(T) == AddOnce(g[T \ {m + 1}], s[m + 1])
             h == [T \in SUBSET (1..(m + 1)) |-> IF m + 1 \in T THEN e(T) ELSE g[T]]
  <2>2. ASSUME NEW T \in SUBSET (1..(m + 1))
        PROVE  h[T] = IF T = {} THEN base ELSE AddOnce(h[T \ {Max(T)}], s[Max(T)])
    <3>1. CASE m + 1 \in T
      <4>1. Max(T) = m + 1
        <5>1. m + 1 \in Int /\ T \subseteq 1..(m + 1)
          OBVIOUS
        <5> HIDE DEF h
        <5> QED BY <3>1, <5>1, GreatestOf
      <4>2. T \ {m + 1} \in SUBSET (1..(m + 1)) /\ m + 1 \notin T \ {m + 1}
        OBVIOUS
      <4>3. h[T \ {m + 1}] = g[T \ {m + 1}]
        BY <4>2
      <4> QED BY <3>1, <4>1, <4>3
    <3>2. CASE m + 1 \notin T
      <4>1. T \in SUBSET (1..m) /\ h[T] = g[T]
        BY <3>2
      <4>2. T \ {Max(T)} \in SUBSET (1..(m + 1)) /\ m + 1 \notin T \ {Max(T)}
        BY <3>2
      <4>3. h[T \ {Max(T)}] = g[T \ {Max(T)}]
        BY <4>2
      <4>4. g[T] = IF T = {} THEN base ELSE AddOnce(g[T \ {Max(T)}], s[Max(T)])
        BY <2>1, <4>1 DEF Adding
      <4> QED BY <4>1, <4>3, <4>4
    <3> QED BY <3>1, <3>2
  <2>3. Adding(h, base, s, m + 1)
    <3> HIDE DEF e
    <3>1. h = [T \in SUBSET (1..(m + 1)) |-> h[T]]
      OBVIOUS
    <3> HIDE DEF h
    <3> QED BY <2>2, <3>1 DEF Adding
  <2> QED BY <2>3
<1> HIDE DEF G
<1>3. n \in G
  BY <1>1, <1>2, Induct
<1> QED BY <1>3 DEF G

Kept(base, s) == FoldLeft(AddOnce, base, s)

OneByOne(g, base, s, n) ==
  /\ Kept(base, s) = g[n]
  /\ g[0] = base
  /\ \A m \in 1..n : g[m] = AddOnce(g[m - 1], s[m])

\* FoldLeft adds one element after the other.
LEMMA AddingStep ==
  ASSUME NEW base, NEW s, NEW n \in Nat, DOMAIN s = 1..n
  PROVE  \E g : OneByOne(g, base, s, n)
<1> DEFINE h == CHOOSE f : Adding(f, base, s, n)
<1>1. Adding(h, base, s, n) /\ Kept(base, s) = h[1..n]
  <2>1. \E f : Adding(f, base, s, n)
    BY AddingExists
  <2>2. Kept(base, s) = h[1..n]
    BY DEF Kept, FoldLeft, MapThenFoldSet, Adding
  <2> QED BY <2>1, <2>2
<1> HIDE DEF h
<1> DEFINE g == [m \in 0..n |-> h[1..m]]
<1>2. g[0] = base /\ g[n] = h[1..n]
  <2>1. 1..0 = {} /\ {} \in SUBSET (1..n) /\ 0 \in 0..n /\ n \in 0..n
    OBVIOUS
  <2>2. h[{}] = base
    BY <1>1, <2>1 DEF Adding
  <2> QED BY <2>1, <2>2
<1>3. ASSUME NEW m \in 1..n PROVE g[m] = AddOnce(g[m - 1], s[m])
  <2>1. /\ 1..m \in SUBSET (1..n) /\ m \in 1..m
        /\ (1..m) \ {m} = 1..(m - 1) /\ m - 1 \in 0..n /\ m \in 0..n
    <3>1. m \in Nat /\ m >= 1 /\ m <= n
      OBVIOUS
    <3>2. \A x : x \in 1..m /\ x # m <=> x \in 1..(m - 1)
      BY <3>1
    <3> QED BY <3>1, <3>2
  <2>2. Max(1..m) = m
    <3>1. m \in Int /\ 1..m \subseteq 1..m
      OBVIOUS
    <3> QED BY <2>1, <3>1, GreatestOf
  <2>3. h[1..m] = AddOnce(h[(1..m) \ {Max(1..m)}], s[Max(1..m)])
    BY <1>1, <2>1 DEF Adding
  <2> QED BY <2>1, <2>2, <2>3
<1> HIDE DEF g
<1>4. OneByOne(g, base, s, n)
  BY <1>1, <1>2, <1>3 DEF OneByOne
<1> QED BY <1>4

\* The function FoldLeft is defined with, for AddXsLink.
AddingLinks(g, base, s, m) ==
  g = [T \in SUBSET (1..m) |->
         IF T = {} THEN base ELSE AddXsLink(g[T \ {Max(T)}], s[Max(T)])]

LEMMA AddingLinksExists ==
  ASSUME NEW base, NEW s, NEW n \in Nat
  PROVE  \E g : AddingLinks(g, base, s, n)
<1> DEFINE G == {m \in Nat : \E g : AddingLinks(g, base, s, m)}
<1>1. 0 \in G
  <2> DEFINE g == [T \in SUBSET (1..0) |-> base]
  <2>1. \A T \in SUBSET (1..0) : T = {}
    OBVIOUS
  <2>2. AddingLinks(g, base, s, 0)
    BY <2>1 DEF AddingLinks
  <2> QED BY <2>2
<1>2. ASSUME NEW m \in Nat, m \in G PROVE m + 1 \in G
  <2>1. PICK g : AddingLinks(g, base, s, m)
    BY <1>2
  <2> DEFINE e(T) == AddXsLink(g[T \ {m + 1}], s[m + 1])
             h == [T \in SUBSET (1..(m + 1)) |-> IF m + 1 \in T THEN e(T) ELSE g[T]]
  <2>2. ASSUME NEW T \in SUBSET (1..(m + 1))
        PROVE  h[T] = IF T = {} THEN base ELSE AddXsLink(h[T \ {Max(T)}], s[Max(T)])
    <3>1. CASE m + 1 \in T
      <4>1. Max(T) = m + 1
        <5>1. m + 1 \in Int /\ T \subseteq 1..(m + 1)
          OBVIOUS
        <5> HIDE DEF h
        <5> QED BY <3>1, <5>1, GreatestOf
      <4>2. T \ {m + 1} \in SUBSET (1..(m + 1)) /\ m + 1 \notin T \ {m + 1}
        OBVIOUS
      <4>3. h[T \ {m + 1}] = g[T \ {m + 1}]
        BY <4>2
      <4> QED BY <3>1, <4>1, <4>3
    <3>2. CASE m + 1 \notin T
      <4>1. T \in SUBSET (1..m) /\ h[T] = g[T]
        BY <3>2
      <4>2. T \ {Max(T)} \in SUBSET (1..(m + 1)) /\ m + 1 \notin T \ {Max(T)}
        BY <3>2
      <4>3. h[T \ {Max(T)}] = g[T \ {Max(T)}]
        BY <4>2
      <4>4. g[T] = IF T = {} THEN base ELSE AddXsLink(g[T \ {Max(T)}], s[Max(T)])
        BY <2>1, <4>1 DEF AddingLinks
      <4> QED BY <4>1, <4>3, <4>4
    <3> QED BY <3>1, <3>2
  <2>3. AddingLinks(h, base, s, m + 1)
    <3> HIDE DEF e
    <3>1. h = [T \in SUBSET (1..(m + 1)) |-> h[T]]
      OBVIOUS
    <3> HIDE DEF h
    <3> QED BY <2>2, <3>1 DEF AddingLinks
  <2> QED BY <2>3
<1> HIDE DEF G
<1>3. n \in G
  BY <1>1, <1>2, Induct
<1> QED BY <1>3 DEF G

Joined(base, s) == FoldLeft(AddXsLink, base, s)

LineByLine(g, base, s, n) ==
  /\ Joined(base, s) = g[n]
  /\ g[0] = base
  /\ \A m \in 1..n : g[m] = AddXsLink(g[m - 1], s[m])

\* FoldLeft goes from line to line.
LEMMA AddingLinksStep ==
  ASSUME NEW base, NEW s, NEW n \in Nat, DOMAIN s = 1..n
  PROVE  \E g : LineByLine(g, base, s, n)
<1> DEFINE h == CHOOSE f : AddingLinks(f, base, s, n)
<1>1. AddingLinks(h, base, s, n) /\ Joined(base, s) = h[1..n]
  <2>1. \E f : AddingLinks(f, base, s, n)
    BY AddingLinksExists
  <2>2. Joined(base, s) = h[1..n]
    BY DEF Joined, FoldLeft, MapThenFoldSet, AddingLinks
  <2> QED BY <2>1, <2>2
<1> HIDE DEF h
<1> DEFINE g == [m \in 0..n |-> h[1..m]]
<1>2. g[0] = base /\ g[n] = h[1..n]
  <2>1. 1..0 = {} /\ {} \in SUBSET (1..n) /\ 0 \in 0..n /\ n \in 0..n
    OBVIOUS
  <2>2. h[{}] = base
    BY <1>1, <2>1 DEF AddingLinks
  <2> QED BY <2>1, <2>2
<1>3. ASSUME NEW m \in 1..n PROVE g[m] = AddXsLink(g[m - 1], s[m])
  <2>1. /\ 1..m \in SUBSET (1..n) /\ m \in 1..m
        /\ (1..m) \ {m} = 1..(m - 1) /\ m - 1 \in 0..n /\ m \in 0..n
    <3>1. m \in Nat /\ m >= 1 /\ m <= n
      OBVIOUS
    <3>2. \A x : x \in 1..m /\ x # m <=> x \in 1..(m - 1)
      BY <3>1
    <3> QED BY <3>1, <3>2
  <2>2. Max(1..m) = m
    <3>1. m \in Int /\ 1..m \subseteq 1..m
      OBVIOUS
    <3> QED BY <2>1, <3>1, GreatestOf
  <2>3. h[1..m] = AddXsLink(h[(1..m) \ {Max(1..m)}], s[Max(1..m)])
    BY <1>1, <2>1 DEF AddingLinks
  <2> QED BY <2>1, <2>2, <2>3
<1> HIDE DEF g
<1>4. LineByLine(g, base, s, n)
  BY <1>1, <1>2, <1>3 DEF LineByLine
<1> QED BY <1>4

LEMMA LastIndex ==
  ASSUME NEW m \in Nat, NEW n \in Nat, 1..m = 1..n
  PROVE  m = n
<1>1. m < n => n \in 1..n /\ n \notin 1..m
  OBVIOUS
<1>2. n < m => m \in 1..m /\ m \notin 1..n
  OBVIOUS
<1> QED BY <1>1, <1>2

LEMMA FunctionIsSeq ==
  ASSUME NEW S, NEW n \in Nat, NEW f \in [1..n -> S]
  PROVE  f \in Seq(S) /\ Len(f) = n
<1>1. f \in Seq(S)
  <2>1. f \in UNION {[1..m -> S] : m \in Nat}
    OBVIOUS
  <2> QED BY <2>1, SeqDef
<1>2. Len(f) \in Nat /\ DOMAIN f = 1..Len(f)
  BY <1>1, LenProperties
<1>3. 1..Len(f) = 1..n
  BY <1>2
<1> QED BY <1>1, <1>2, <1>3, LastIndex

\* A total order, B[i] what stands before i, and f[k] an element of rank k.
RankOrder(ids, B, f) ==
  /\ IsFiniteSet(ids)
  /\ B \in [ids -> SUBSET ids]
  /\ \A i \in ids : i \notin B[i]
  /\ \A i, j \in ids : i # j => j \in B[i] \/ i \in B[j]
  /\ \A i, j \in ids : j \in B[i] => B[j] \subseteq B[i]
  /\ f = [k \in 1..Cardinality(ids) |-> f[k]]
  /\ \A k \in 1..Cardinality(ids), i \in ids :
        Cardinality(B[i]) = k - 1 => f[k] \in ids /\ Cardinality(B[f[k]]) = k - 1

\* The ranks are taken: f lists all elements, each once.
LEMMA Ranked ==
  ASSUME NEW ids, NEW B, NEW f, RankOrder(ids, B, f)
  PROVE  f \in Seq(ids) /\ Len(f) = Cardinality(ids) /\ IsInjective(f)
<1> USE DEF RankOrder
<1> DEFINE n == Cardinality(ids)
           rank == [i \in ids |-> Cardinality(B[i])]
<1>1. n \in Nat
  BY FS_CardinalityType
<1>2. ASSUME NEW i \in ids
      PROVE  IsFiniteSet(B[i]) /\ Cardinality(B[i]) \in 0..(n - 1)
  <2>1. B[i] \subseteq ids \ {i}
    OBVIOUS
  <2>2. IsFiniteSet(ids \ {i}) /\ Cardinality(ids \ {i}) = n - 1
    BY FS_RemoveElement
  <2>3. IsFiniteSet(B[i]) /\ Cardinality(B[i]) <= n - 1
    BY <2>1, <2>2, FS_Subset
  <2>4. Cardinality(B[i]) \in Nat
    BY <2>3, FS_CardinalityType
  <2> HIDE DEF n
  <2> QED BY <1>1, <2>3, <2>4
<1>3. ASSUME NEW i \in ids, NEW j \in ids, j \in B[i]
      PROVE  Cardinality(B[j]) # Cardinality(B[i])
  <2>1. B[j] \subseteq B[i] /\ j \notin B[j]
    BY <1>3
  <2>2. IsFiniteSet(B[i]) /\ B[j] # B[i]
    BY <1>2, <1>3, <2>1
  <2> QED BY <2>1, <2>2, FS_Subset
<1>4. rank \in [ids -> 0..(n - 1)] /\ \A i \in ids : rank[i] = Cardinality(B[i])
  BY <1>2
<1>5. \A i \in ids, j \in ids : rank[i] = rank[j] => i = j
  <2> HIDE DEF rank
  <2> QED BY <1>3, <1>4
<1> HIDE DEF rank, n
<1>6. IsFiniteSet(0..(n - 1)) /\ Cardinality(0..(n - 1)) = n
  <2>1. 0 \in Int /\ n - 1 \in Int
    BY <1>1
  <2>2. /\ IsFiniteSet(0..(n - 1))
        /\ Cardinality(0..(n - 1)) = IF 0 > n - 1 THEN 0 ELSE (n - 1) - 0 + 1
    BY <2>1, FS_Interval
  <2> QED BY <1>1, <2>2
<1>7. rank \in Surjection(ids, 0..(n - 1))
  <2>1. rank \in Injection(ids, 0..(n - 1))
    BY <1>4, <1>5 DEF Injection, IsInjective
  <2>2. IsFiniteSet(ids) /\ Cardinality(ids) = Cardinality(0..(n - 1))
    BY <1>6 DEF n
  <2> QED BY <1>6, <2>1, <2>2, FS_Injection
<1>8. ASSUME NEW k \in 1..n
      PROVE  f[k] \in ids /\ rank[f[k]] = k - 1
  <2>1. k - 1 \in 0..(n - 1)
    BY <1>1
  <2>2. PICK i \in ids : rank[i] = k - 1
    BY <1>7, <2>1 DEF Surjection
  <2>3. f[k] \in ids /\ Cardinality(B[f[k]]) = k - 1
    BY <1>4, <2>2 DEF n
  <2> QED BY <1>4, <2>3
<1>9. f \in [1..n -> ids]
  <2>1. f = [k \in 1..n |-> f[k]]
    BY DEF n
  <2> QED BY <1>8, <2>1
<1>10. f \in Seq(ids) /\ Len(f) = n /\ DOMAIN f = 1..n
  BY <1>1, <1>9, FunctionIsSeq
<1>11. \A i \in 1..n, j \in 1..n : f[i] = f[j] => i = j
  <2> SUFFICES ASSUME NEW i \in 1..n, NEW j \in 1..n, f[i] = f[j] PROVE i = j
    OBVIOUS
  <2>1. i - 1 = j - 1
    BY <1>8
  <2> QED BY <1>1, <2>1
<1> QED BY <1>10, <1>11 DEF IsInjective, n

LEMMA SortedUp ==
  ASSUME NEW ids \in SUBSET Nat, IsFiniteSet(ids)
  PROVE  /\ Sorted(ids, "asc") \in Seq(ids)
         /\ Len(Sorted(ids, "asc")) = Cardinality(ids)
         /\ IsInjective(Sorted(ids, "asc"))
<1> DEFINE B == [i \in ids |-> {j \in ids : j < i}]
           f == Sorted(ids, "asc")
<1>1. B \in [ids -> SUBSET ids] /\ \A i \in ids, j \in ids : j \in B[i] <=> j < i
  OBVIOUS
<1>2. f = [k \in 1..Cardinality(ids) |-> CHOOSE i \in ids : Cardinality(B[i]) = k - 1]
  <2> DEFINE C(k) == CHOOSE i \in ids : Cardinality(B[i]) = k - 1
             D(k) == CHOOSE i \in ids : Cardinality({j \in ids : Before("asc", j, i)}) = k - 1
  <2>1. \A k : C(k) = D(k)
    <3>1. \A i \in ids : B[i] = {j \in ids : Before("asc", j, i)}
      BY DEF Before
    <3> HIDE DEF B
    <3> QED BY <3>1
  <2>2. f = [k \in 1..Cardinality(ids) |-> D(k)]
    BY DEF Sorted
  <2>3. f = [k \in 1..Cardinality(ids) |-> C(k)]
    <3> HIDE DEF C, D, f
    <3> QED BY <2>1, <2>2
  <2> QED BY <2>3
<1>8. f = [k \in 1..Cardinality(ids) |-> f[k]]
  <2> HIDE DEF B, f
  <2> QED BY <1>2
<1>9. ASSUME NEW k \in 1..Cardinality(ids), NEW i \in ids, Cardinality(B[i]) = k - 1
      PROVE  f[k] \in ids /\ Cardinality(B[f[k]]) = k - 1
  <2> HIDE DEF B, f
  <2>1. f[k] = CHOOSE x \in ids : Cardinality(B[x]) = k - 1
    BY <1>2
  <2> QED BY <1>9, <2>1
<1> HIDE DEF B, f
<1>3. \A i \in ids : i \in Nat
  OBVIOUS
<1>4. \A i \in ids : i \notin B[i]
  BY <1>1, <1>3
<1>5. ASSUME NEW i \in ids, NEW j \in ids, i # j PROVE j \in B[i] \/ i \in B[j]
  <2>1. i \in Nat /\ j \in Nat
    BY <1>3
  <2>2. i < j \/ j < i
    BY <1>5, <2>1
  <2> QED BY <1>1, <2>2
<1>6. ASSUME NEW i \in ids, NEW j \in ids, j \in B[i] PROVE B[j] \subseteq B[i]
  <2> SUFFICES ASSUME NEW k \in B[j] PROVE k \in B[i]
    OBVIOUS
  <2>1. k \in ids
    BY <1>1
  <2>2. i \in Nat /\ j \in Nat /\ k \in Nat
    BY <1>3, <2>1
  <2>3. k < j /\ j < i
    BY <1>1, <1>6, <2>1
  <2>4. k < i
    BY <2>2, <2>3
  <2> QED BY <1>1, <2>1, <2>4
<1>7. RankOrder(ids, B, f)
  BY <1>1, <1>4, <1>5, <1>6, <1>8, <1>9 DEF RankOrder
<1> QED BY <1>7, Ranked DEF f

LEMMA SortedDown ==
  ASSUME NEW ids \in SUBSET Nat, IsFiniteSet(ids)
  PROVE  /\ Sorted(ids, "desc") \in Seq(ids)
         /\ Len(Sorted(ids, "desc")) = Cardinality(ids)
         /\ IsInjective(Sorted(ids, "desc"))
<1> DEFINE B == [i \in ids |-> {j \in ids : j > i}]
           f == Sorted(ids, "desc")
<1>1. B \in [ids -> SUBSET ids] /\ \A i \in ids, j \in ids : j \in B[i] <=> j > i
  OBVIOUS
<1>2. f = [k \in 1..Cardinality(ids) |-> CHOOSE i \in ids : Cardinality(B[i]) = k - 1]
  <2> DEFINE C(k) == CHOOSE i \in ids : Cardinality(B[i]) = k - 1
             D(k) == CHOOSE i \in ids : Cardinality({j \in ids : Before("desc", j, i)}) = k - 1
  <2>1. \A k : C(k) = D(k)
    <3>1. \A i \in ids : B[i] = {j \in ids : Before("desc", j, i)}
      BY DEF Before
    <3> HIDE DEF B
    <3> QED BY <3>1
  <2>2. f = [k \in 1..Cardinality(ids) |-> D(k)]
    BY DEF Sorted
  <2>3. f = [k \in 1..Cardinality(ids) |-> C(k)]
    <3> HIDE DEF C, D, f
    <3> QED BY <2>1, <2>2
  <2> QED BY <2>3
<1>8. f = [k \in 1..Cardinality(ids) |-> f[k]]
  <2> HIDE DEF B, f
  <2> QED BY <1>2
<1>9. ASSUME NEW k \in 1..Cardinality(ids), NEW i \in ids, Cardinality(B[i]) = k - 1
      PROVE  f[k] \in ids /\ Cardinality(B[f[k]]) = k - 1
  <2> HIDE DEF B, f
  <2>1. f[k] = CHOOSE x \in ids : Cardinality(B[x]) = k - 1
    BY <1>2
  <2> QED BY <1>9, <2>1
<1> HIDE DEF B, f
<1>3. \A i \in ids : i \in Nat
  OBVIOUS
<1>4. \A i \in ids : i \notin B[i]
  BY <1>1, <1>3
<1>5. ASSUME NEW i \in ids, NEW j \in ids, i # j PROVE j \in B[i] \/ i \in B[j]
  <2>1. i \in Nat /\ j \in Nat
    BY <1>3
  <2>2. i > j \/ j > i
    BY <1>5, <2>1
  <2> QED BY <1>1, <2>2
<1>6. ASSUME NEW i \in ids, NEW j \in ids, j \in B[i] PROVE B[j] \subseteq B[i]
  <2> SUFFICES ASSUME NEW k \in B[j] PROVE k \in B[i]
    OBVIOUS
  <2>1. k \in ids
    BY <1>1
  <2>2. i \in Nat /\ j \in Nat /\ k \in Nat
    BY <1>3, <2>1
  <2>3. k > j /\ j > i
    BY <1>1, <1>6, <2>1
  <2>4. k > i
    BY <2>2, <2>3
  <2> QED BY <1>1, <2>1, <2>4
<1>7. RankOrder(ids, B, f)
  BY <1>1, <1>4, <1>5, <1>6, <1>8, <1>9 DEF RankOrder
<1> QED BY <1>7, Ranked DEF f

\* The first rows of a list.
LEMMA PrefixParts ==
  ASSUME NEW S, NEW s \in Seq(S), NEW m \in Nat, m <= Len(s)
  PROVE  /\ SubSeq(s, 1, m) \in Seq(S) /\ DOMAIN SubSeq(s, 1, m) = 1..m
         /\ IsInjective(s) => IsInjective(SubSeq(s, 1, m))
<1>1. DOMAIN s = 1..Len(s) /\ Len(s) \in Nat /\ \A i \in 1..Len(s) : s[i] \in S
  BY LenProperties, ElementOfSeq
<1>2. SubSeq(s, 1, m) = [i \in 1..m |-> s[i]]
  <2>1. 1 \in 1..(Len(s) + 1) /\ m \in 0..Len(s)
    BY <1>1
  <2>2. /\ SubSeq(s, 1, m) \in Seq(S)
        /\ Len(SubSeq(s, 1, m)) = IF 1 <= m THEN m - 1 + 1 ELSE 0
        /\ \A i \in 1..(m - 1 + 1) : SubSeq(s, 1, m)[i] = s[1 + i - 1]
    BY <2>1, SubSeqProperties
  <2> DEFINE t == SubSeq(s, 1, m)
  <2> HIDE DEF t
  <2>3. Len(t) = m /\ \A i \in 1..m : t[i] = s[i]
    <3>1. m - 1 + 1 = m /\ \A i \in 1..m : 1 + i - 1 = i
      OBVIOUS
    <3>2. ~(1 <= m) => m = 0
      OBVIOUS
    <3>3. Len(t) = m
      BY <2>2, <3>1, <3>2 DEF t
    <3>4. ASSUME NEW i \in 1..m PROVE t[i] = s[i]
      <4>1. t[i] = s[1 + i - 1]
        BY <2>2, <3>1 DEF t
      <4> QED BY <3>1, <4>1
    <3> QED BY <3>3, <3>4
  <2>4. t \in [1..Len(t) -> S]
    <3>1. t \in Seq(S)
      BY <2>2 DEF t
    <3> QED BY <3>1, LenProperties
  <2>5. t = [i \in 1..m |-> s[i]]
    BY <2>3, <2>4
  <2> QED BY <2>5 DEF t
<1> DEFINE t == [i \in 1..m |-> s[i]]
<1>3. t \in [1..m -> S] /\ \A i \in 1..m : t[i] = s[i] /\ i \in DOMAIN s
  BY <1>1
<1> HIDE DEF t
<1>4. t \in Seq(S) /\ DOMAIN t = 1..m
  BY <1>3, FunctionIsSeq
<1>5. IsInjective(s) => IsInjective(t)
  BY <1>3, <1>4 DEF IsInjective
<1> QED BY <1>2, <1>4, <1>5 DEF t

LEMMA PageSize ==
  ASSUME NEW n \in Nat
  PROVE  Min({n, MaxPageSize}) \in Nat /\ Min({n, MaxPageSize}) <= n
<1>1. MaxPageSize \in Nat
  BY WordAssumption
<1>2. \E x \in {n, MaxPageSize} : \A y \in {n, MaxPageSize} : x <= y
  BY <1>1
<1> DEFINE x == Min({n, MaxPageSize})
<1>3. x \in {n, MaxPageSize} /\ \A y \in {n, MaxPageSize} : x <= y
  BY <1>2 DEF Min
<1> HIDE DEF x
<1>4. x \in Nat /\ x <= n
  BY <1>1, <1>3
<1> QED BY <1>4 DEF x

\* List returns rows of the table, none of them twice.
LEMMA Listed ==
  ASSUME NEW ids \in SUBSET Nat, IsFiniteSet(ids)
  PROVE  /\ List(ids, "asc") \in Seq(ids) /\ IsInjective(List(ids, "asc"))
         /\ List(ids, "desc") \in Seq(ids) /\ IsInjective(List(ids, "desc"))
<1> DEFINE m == Min({Cardinality(ids), MaxPageSize})
<1>1. m \in Nat /\ m <= Cardinality(ids)
  BY FS_CardinalityType, PageSize
<1> HIDE DEF m
<1>2. List(ids, "asc") = SubSeq(Sorted(ids, "asc"), 1, m) /\ List(ids, "desc") = SubSeq(Sorted(ids, "desc"), 1, m)
  BY DEF List, m
<1>3. List(ids, "asc") \in Seq(ids) /\ IsInjective(List(ids, "asc"))
  <2> DEFINE s == Sorted(ids, "asc")
  <2>1. s \in Seq(ids) /\ Len(s) = Cardinality(ids) /\ IsInjective(s)
    BY SortedUp
  <2> HIDE DEF s
  <2>2. SubSeq(s, 1, m) \in Seq(ids) /\ IsInjective(SubSeq(s, 1, m))
    BY <1>1, <2>1, PrefixParts
  <2> QED BY <1>2, <2>2 DEF s
<1>4. List(ids, "desc") \in Seq(ids) /\ IsInjective(List(ids, "desc"))
  <2> DEFINE s == Sorted(ids, "desc")
  <2>1. s \in Seq(ids) /\ Len(s) = Cardinality(ids) /\ IsInjective(s)
    BY SortedDown
  <2> HIDE DEF s
  <2>2. SubSeq(s, 1, m) \in Seq(ids) /\ IsInjective(SubSeq(s, 1, m))
    BY <1>1, <2>1, PrefixParts
  <2> QED BY <1>2, <2>2 DEF s
<1> QED BY <1>3, <1>4

\* There is a round for a list that is not empty.
LEMMA PartitionCount ==
  ASSUME NEW n \in Nat
  PROVE  /\ Partitions(n) \in Seq([id : Nat]) /\ Len(Partitions(n)) \in Nat
         /\ Len(Partitions(n)) = 0 => n = 0
<1> DEFINE d == (n + PartitionSize - 1) \div PartitionSize
<1>1. PartitionSize \in Nat \ {0}
  BY WordAssumption
<1>2. d \in Nat /\ (d = 0 => n = 0)
  BY <1>1, SMT
<1> HIDE DEF d
<1>3. Partitions(n) = [k \in 1..d |-> [id |-> k]]
  BY DEF Partitions, d
<1>4. Partitions(n) \in [1..d -> [id : Nat]]
  BY <1>2, <1>3
<1>5. Partitions(n) \in Seq([id : Nat]) /\ Len(Partitions(n)) = d
  BY <1>2, <1>4, FunctionIsSeq
<1> QED BY <1>2, <1>5

-----------------------------------------------------------------------------
(* The inductive invariant *)

Lines  == UNION {ToSet(page) : page \in ChinaPages \cup XsPages}
Texts  == {e.text : e \in Lines}
Titles == {""} \cup {t.trail : t \in Texts}

Word == [status : BOOLEAN, sound : BOOLEAN]

Link == [source : Sources, index : {e.index : e \in Lines}, text : Texts,
         title : Titles, type : {-1, 0, 1, 2}]

Stored == [source : Sources, index : {e.index : e \in Lines}, by : Req,
           was : {-1, 0, 1, 2}, title : Titles \cup {Null}]

Types ==
    /\ words \in Seq(Word) /\ links \in Seq(Link) /\ articles \in Seq(Stored)
    /\ kind \in [Req -> Kind \cup {Null}]
    /\ pc \in [Req -> Running \cup {"idle", "done", "failed"}]
    /\ todo = [r \in Req |-> todo[r]] /\ got = [r \in Req |-> got[r]]
    /\ \A r \in Req : pc[r] = "fetch" => kind[r] \in Kind

\* A request holds rows while it runs, and the later parts of a call are
\* those of its kind.
Stages ==
    \A r \in Req :
        /\ pc[r] \notin Running => todo[r] = <<>> /\ got[r] = <<>> /\ kind[r] = Null
        /\ pc[r] \in {"extends", "sentences"} => kind[r] = "dictWordEn"
        /\ pc[r] = "save" => kind[r] = "saveXSArticle"

\* The words a call has looked up, and those it will, are different words.
LooksUp(r) ==
    /\ todo[r] \in Seq([id : Nat]) /\ got[r] \in Seq([word : Nat, page : DictPages])
    /\ \A i, j \in DOMAIN todo[r] : i # j => todo[r][i].id # todo[r][j].id
    /\ \A i, j \in DOMAIN got[r] : i # j => got[r][i].word # got[r][j].word
    /\ \A i \in DOMAIN got[r], j \in DOMAIN todo[r] : got[r][i].word # todo[r][j].id

\* A call that stored its entries is the only one that can store their sentences.
Claims ==
    /\ \A s \in sentences : SubSeq(s, 1, 3) \in extends
    /\ \A r \in Req : pc[r] = "sentences" =>
          /\ ToSet(ExtendKeys(r)) \subseteq extends
          /\ \A s \in sentences : SubSeq(s, 1, 3) \notin ToSet(ExtendKeys(r))
    /\ \A r, q \in Req : r # q /\ pc[r] = "sentences" /\ pc[q] = "sentences" =>
          ToSet(ExtendKeys(r)) \cap ToSet(ExtendKeys(q)) = {}

\* The row as it was saved first: only type and title of a link ever change.
Raw(row) == [row EXCEPT !.type = 0, !.title = ""]

FromChina(row) ==
    /\ row \in Link /\ row.source = "china_daily"
    /\ row = Raw(row) \/ row = Classified(Raw(row))

\* A copy of a row is the row itself, classified or not.
CopyOf(row, i, table) == i \in DOMAIN table /\ Raw(row) = Raw(table[i])

Classifies(r) ==
    /\ todo[r] \in Seq([id : Nat, row : Link]) /\ got[r] \in Seq([id : Nat, row : Link])
    /\ \A k \in DOMAIN todo[r] : FromChina(todo[r][k].row) /\ CopyOf(todo[r][k].row, todo[r][k].id, links)
    /\ \A k \in DOMAIN got[r] :
          /\ CopyOf(got[r][k].row, got[r][k].id, links) /\ got[r][k].row.source = "china_daily"
          /\ got[r][k].row = Classified(Raw(got[r][k].row))

\* What a row of this table was when somebody read it, and a link of this
\* table that an article was taken from.
Copied(row, table) == \E i \in DOMAIN table : row \in {table[i], Raw(table[i])}

Behind(article, table) ==
    \E k \in DOMAIN table :
        /\ table[k].source = article.source /\ table[k].index = article.index
        /\ article.title \in {table[k].title, ""}
        /\ article.was \in {table[k].type, 0}

LinksOf(source) == {row \in Link : row.source = source}

Collects(r) ==
    /\ kind[r] = "saveChinaDailyArticleLink" =>
          got[r] \in Seq({row \in LinksOf("china_daily") : row = Raw(row)})
    /\ kind[r] = "saveXSArticleLink" =>
          /\ got[r] \in Seq(LinksOf("xia_shuo"))
          /\ IsInjective([i \in DOMAIN got[r] |-> got[r][i].title])

ByCall(r) == {a \in Stored : a.by = r}

Articles(r) ==
    kind[r] \in ArticleKinds =>
        /\ got[r] \in Seq(ByCall(r))
        /\ \A k \in DOMAIN got[r] : got[r][k].title # Null => Behind(got[r][k], links)
        /\ pc[r] = "fetch" =>
              /\ todo[r] \in Seq([id : Nat, row : Link])
              /\ \A k \in DOMAIN todo[r] : Copied(todo[r][k].row, links)

\* No article of a call is stored before it saves, and the first round stores all.
Rounds(r) ==
    /\ pc[r] \in {"idle", "fetch"} => \A i \in DOMAIN articles : articles[i].by # r
    /\ pc[r] = "save" =>
          /\ todo[r] \in Seq([id : Nat]) /\ Len(todo[r]) <= Len(Partitions(Len(got[r])))
          /\ IF Len(todo[r]) = Len(Partitions(Len(got[r])))
             THEN \A i \in DOMAIN articles : articles[i].by # r
             ELSE \E n \in 0..Len(articles) : SavedFrom(n, r)

WordInv ==
    /\ Types /\ Stages /\ Claims
    /\ \A i \in DOMAIN links : links[i].source = "china_daily" => FromChina(links[i])
    /\ ArticlesFollowLinks
    /\ \A r \in Req :
          /\ kind[r] = "dictWordEn" => LooksUp(r)
          /\ kind[r] = "updateChinaDailyArticleType" => Classifies(r)
          /\ Collects(r) /\ Articles(r) /\ Rounds(r)

-----------------------------------------------------------------------------
(* Classification of links *)

\* A link with these columns.
Row(so, ix, te, ti, ty) ==
  [source |-> so, index |-> ix, text |-> te, title |-> ti, type |-> ty]

Retyped(row, ty) == [row EXCEPT !.type = ty]

Updated(row, ti, ty) == [row EXCEPT !.type = ty, !.title = ti]

LEMMA Retyping ==
  ASSUME NEW so, NEW ix, NEW te, NEW ti, NEW ty, NEW ty2
  PROVE  Retyped(Row(so, ix, te, ti, ty), ty2) = Row(so, ix, te, ti, ty2)
<1> DEFINE v == Row(so, ix, te, ti, ty)
<1>1. v = [source |-> so, index |-> ix, text |-> te, title |-> ti, type |-> ty]
  BY DEF Row
<1> HIDE DEF v
<1>2. [v EXCEPT !.type = ty2] = Row(so, ix, te, ti, ty2)
  BY <1>1 DEF Row
<1> QED BY <1>2 DEF v, Retyped

LEMMA Updating ==
  ASSUME NEW so, NEW ix, NEW te, NEW ti, NEW ty, NEW ti2, NEW ty2
  PROVE  Updated(Row(so, ix, te, ti, ty), ti2, ty2) = Row(so, ix, te, ti2, ty2)
<1> DEFINE v == Row(so, ix, te, ti, ty)
           u == Row(so, ix, te, ti, ty2)
<1>1. u = [source |-> so, index |-> ix, text |-> te, title |-> ti, type |-> ty2]
  BY DEF Row
<1>2. Updated(v, ti2, ty2) = [Retyped(v, ty2) EXCEPT !.title = ti2]
  <2> HIDE DEF v
  <2> QED BY DEF Updated, Retyped
<1>3. Retyped(v, ty2) = u
  BY Retyping
<1> HIDE DEF u, v
<1>4. [u EXCEPT !.title = ti2] = Row(so, ix, te, ti2, ty2)
  BY <1>1 DEF Row
<1> QED BY <1>2, <1>3, <1>4 DEF v

LEMMA RawOf ==
  ASSUME NEW so, NEW ix, NEW te, NEW ti, NEW ty
  PROVE  Raw(Row(so, ix, te, ti, ty)) = Row(so, ix, te, "", 0)
<1> DEFINE none == ""
           zero == 0
           v == Row(so, ix, te, ti, ty)
<1>1. Raw(v) = Updated(v, none, zero)
  <2> HIDE DEF v
  <2> QED BY DEF Raw, Updated
<1> HIDE DEF none, zero
<1>2. Updated(v, none, zero) = Row(so, ix, te, none, zero)
  BY Updating
<1> QED BY <1>1, <1>2 DEF none, zero

\* The class of a text, if it has one.
ClassOf(row, ty) ==
  CASE row.text.lead = "morning" -> 1
    [] row.text.lead = "special" -> -1
    [] row.text.lead = "selected" -> 2
    [] row.text.lead = "news" /\ (row.text.trail = "chinese" \/ row.index = Index631) -> 2
    [] row.text.lead = "news" /\ row.text.trail = "alpha" /\ row.index # Index631 -> 1
    [] row.text.lead = "bare" /\ row.text.trail = "special" -> -1
    [] row.text.lead = "bare" /\ row.text.trail = "marked" -> 1
    [] OTHER -> ty

LEMMA ClassIsOne ==
  ASSUME NEW row, NEW ty
  PROVE  ClassOf(row, ty) \in {1, -1, 2, ty}
  BY DEF ClassOf

\* A class comes from the text, whatever the link had before.
LEMMA ClassFromText ==
  ASSUME NEW row, NEW ty, NEW ty2
  PROVE  \/ ClassOf(row, ty) = ClassOf(row, ty2)
         \/ ClassOf(row, ty) = ty /\ ClassOf(row, ty2) = ty2
<1> DEFINE lead == row.text.lead
           trail == row.text.trail
<1>1. CASE lead = "morning" \/ (lead = "bare" /\ trail = "marked")
  <2>1. ClassOf(row, ty) = 1 /\ ClassOf(row, ty2) = 1
    BY <1>1 DEF ClassOf
  <2> QED BY <2>1
<1>2. CASE lead = "special" \/ (lead = "bare" /\ trail = "special")
  <2>1. ClassOf(row, ty) = -1 /\ ClassOf(row, ty2) = -1
    BY <1>2 DEF ClassOf
  <2> QED BY <2>1
<1>3. CASE lead = "selected"
  <2>1. ClassOf(row, ty) = 2 /\ ClassOf(row, ty2) = 2
    BY <1>3 DEF ClassOf
  <2> QED BY <2>1
<1>4. CASE lead = "news" /\ (trail = "chinese" \/ row.index = Index631)
  <2>1. ClassOf(row, ty) = 2 /\ ClassOf(row, ty2) = 2
    BY <1>4 DEF ClassOf
  <2> QED BY <2>1
<1>5. CASE lead = "news" /\ trail = "alpha" /\ row.index # Index631
  <2>1. ClassOf(row, ty) = 1 /\ ClassOf(row, ty2) = 1
    BY <1>5 DEF ClassOf
  <2> QED BY <2>1
<1>6. CASE \/ lead \notin {"morning", "special", "selected", "news", "bare"}
           \/ lead = "news" /\ trail \notin {"chinese", "alpha"} /\ row.index # Index631
           \/ lead = "bare" /\ trail \notin {"special", "marked"}
  <2>1. ClassOf(row, ty) = ty /\ ClassOf(row, ty2) = ty2
    BY <1>6 DEF ClassOf
  <2> QED BY <2>1
<1> QED BY <1>1, <1>2, <1>3, <1>4, <1>5, <1>6

LEMMA LinkFields ==
  ASSUME NEW row \in Link
  PROVE  /\ row = [source |-> row.source, index |-> row.index, text |-> row.text,
                   title |-> row.title, type |-> row.type]
         /\ row.source \in Sources /\ row.index \in {e.index : e \in Lines} /\ row.text \in Texts
         /\ row.title \in Titles /\ row.type \in {-1, 0, 1, 2} /\ row.text.trail \in Titles
  BY DEF Link, Titles

\* What classification does to a row, and that doing it again changes nothing.
LEMMA Classification ==
  ASSUME NEW row \in Link
  PROVE  /\ Raw(row) \in Link /\ Raw(Raw(row)) = Raw(row)
         /\ Classified(row) \in Link /\ Raw(Classified(row)) = Raw(row)
         /\ Classified(Classified(Raw(row))) = Classified(Raw(row))
<1> DEFINE w(ti, ty) == Row(row.source, row.index, row.text, ti, ty)
           kept == row.text.lead = "bare" /\ row.text.trail # "marked"
           title(ti, ty) == IF ty = -1 \/ kept THEN ti ELSE row.text.trail
           class(ty) == ClassOf(row, ty)
<1>1. row = w(row.title, row.type)
  BY LinkFields DEF Row
<1>2. \A ti \in Titles, ty \in {-1, 0, 1, 2} : w(ti, ty) \in Link
  BY LinkFields DEF Link, Row
<1>3. ASSUME NEW ti, NEW ty PROVE Raw(w(ti, ty)) = w("", 0)
  BY RawOf
<1>4. ASSUME NEW ti, NEW ty PROVE ArticleType(w(ti, ty)) = class(ty)
  BY DEF ArticleType, Row, ClassOf
<1>5. \A ty : class(ty) \in {1, -1, 2, ty}
  BY ClassIsOne
<1>6. ASSUME NEW ty, NEW ty2
      PROVE  class(ty) = class(ty2) \/ (class(ty) = ty /\ class(ty2) = ty2)
  BY ClassFromText
<1> HIDE DEF class
<1>7. ASSUME NEW ti, NEW ty PROVE Classified(w(ti, ty)) = w(title(ti, class(ty)), class(ty))
  <2> DEFINE T == class(ty)
             v == w(ti, ty)
  <2>1. v.text = row.text
    BY DEF Row
  <2>2. Classified(v) = IF T = -1 \/ kept THEN Retyped(v, T) ELSE Updated(v, row.text.trail, T)
    BY <1>4, <2>1 DEF Classified, Retyped, Updated
  <2>3. Retyped(v, T) = w(ti, T) /\ Updated(v, row.text.trail, T) = w(row.text.trail, T)
    BY Retyping, Updating
  <2> HIDE DEF w, T, v
  <2> QED BY <2>2, <2>3 DEF T, v
<1> HIDE DEF w, kept
<1>8. "" \in Titles /\ row.text.trail \in Titles /\ row.title \in Titles
  BY LinkFields DEF Titles
<1>9. row.type \in {-1, 0, 1, 2}
  BY LinkFields
<1>10. Raw(row) = w("", 0) /\ Raw(row) \in Link /\ Raw(Raw(row)) = Raw(row)
  BY <1>1, <1>2, <1>3, <1>8
<1>11. Classified(row) \in Link /\ Raw(Classified(row)) = Raw(row)
  <2>1. Classified(row) = w(title(row.title, class(row.type)), class(row.type))
    BY <1>1, <1>7
  <2>2. class(row.type) \in {-1, 0, 1, 2}
    BY <1>5, <1>9
  <2>3. title(row.title, class(row.type)) \in Titles
    BY <1>8
  <2> HIDE DEF title
  <2> QED BY <1>2, <1>3, <1>10, <2>1, <2>2, <2>3
<1>12. Classified(Classified(Raw(row))) = Classified(Raw(row))
  <2> DEFINE T == class(0)
             t == title("", T)
  <2>1. Classified(Raw(row)) = w(t, T)
    BY <1>7, <1>10
  <2>2. class(T) = T
    BY <1>6
  <2>3. title(t, T) = t
    OBVIOUS
  <2> HIDE DEF title, t
  <2>4. Classified(w(t, T)) = w(title(t, class(T)), class(T))
    BY <1>7
  <2> QED BY <2>1, <2>2, <2>3, <2>4
<1> QED BY <1>10, <1>11, <1>12

-----------------------------------------------------------------------------
(* The keys dictWordEn writes *)

LEMMA ListParts ==
  ASSUME NEW s, IsList(s)
  PROVE  /\ s \in Seq(ToSet(s)) /\ Len(s) \in Nat /\ DOMAIN s = 1..Len(s)
         /\ s = [i \in 1..Len(s) |-> s[i]]
<1>1. s \in Seq(ToSet(s))
  BY DEF IsList
<1>2. Len(s) \in Nat /\ DOMAIN s = 1..Len(s) /\ s \in [1..Len(s) -> ToSet(s)]
  BY <1>1, LenProperties
<1> QED BY <1>1, <1>2

LEMMA SeqIsList ==
  ASSUME NEW S, NEW s \in Seq(S)
  PROVE  IsList(s)
<1>1. Len(s) \in Nat /\ s \in [1..Len(s) -> S]
  BY LenProperties
<1>2. s \in [1..Len(s) -> ToSet(s)]
  BY <1>1 DEF ToSet
<1>3. s \in Seq(ToSet(s))
  BY <1>1, <1>2, FunctionIsSeq
<1> QED BY <1>3 DEF IsList

LEMMA FlattenLists ==
  ASSUME NEW n \in Nat, NEW ss, ss = [i \in 1..n |-> ss[i]], \A i \in 1..n : IsList(ss[i])
  PROVE  /\ IsList(FlattenSeq(ss))
         /\ ToSet(FlattenSeq(ss)) = UNION {ToSet(ss[i]) : i \in 1..n}
         /\ (\A i \in 1..n : IsInjective(ss[i]))
            /\ (\A i, j \in 1..n : i # j => ToSet(ss[i]) \cap ToSet(ss[j]) = {})
              => IsInjective(FlattenSeq(ss))
<1> DEFINE S == UNION {ToSet(ss[i]) : i \in 1..n}
<1>1. ASSUME NEW i \in 1..n PROVE ss[i] \in Seq(S)
  <2>1. ss[i] \in Seq(ToSet(ss[i]))
    BY DEF IsList
  <2>2. ToSet(ss[i]) \subseteq S
    OBVIOUS
  <2> QED BY <2>1, <2>2, SeqMonotonic
<1> DEFINE Q == Seq(S)
<1>2. ss \in [1..n -> Q]
  <2> HIDE DEF Q
  <2> QED BY <1>1 DEF Q
<1>3. ss \in Seq(Q) /\ DOMAIN ss = 1..n
  <2> HIDE DEF Q
  <2> QED BY <1>2, FunctionIsSeq
<1> HIDE DEF S
<1>4. /\ FlattenSeq(ss) \in Seq(S)
      /\ ToSet(FlattenSeq(ss)) = UNION {ToSet(ss[i]) : i \in DOMAIN ss}
      /\ (\A i \in DOMAIN ss : IsInjective(ss[i]))
         /\ (\A i, j \in DOMAIN ss : i # j => ToSet(ss[i]) \cap ToSet(ss[j]) = {})
           => IsInjective(FlattenSeq(ss))
  BY <1>3, FlattenParts
<1>5. IsList(FlattenSeq(ss))
  BY <1>4, SeqIsList
<1> QED BY <1>3, <1>4, <1>5

\* One more element, which is new.
LEMMA AppendNew ==
  ASSUME NEW S, NEW s \in Seq(S), NEW e \in S, IsInjective(s), \A i \in 1..Len(s) : s[i] # e
  PROVE  Append(s, e) \in Seq(S) /\ IsInjective(Append(s, e))
<1> DEFINE t == Append(s, e)
<1>1. /\ t \in Seq(S) /\ Len(t) = Len(s) + 1 /\ t[Len(s) + 1] = e
      /\ \A i \in 1..Len(s) : t[i] = s[i]
  BY AppendProperties
<1>2. Len(s) \in Nat /\ DOMAIN s = 1..Len(s)
  BY LenProperties
<1> HIDE DEF t
<1>3. DOMAIN t = 1..(Len(s) + 1)
  BY <1>1, LenProperties
<1>4. ASSUME NEW i \in DOMAIN t, NEW j \in DOMAIN t, t[i] = t[j] PROVE i = j
  <2>1. \A k \in DOMAIN t : k \in 1..Len(s) \/ k = Len(s) + 1
    BY <1>2, <1>3
  <2> QED BY <1>1, <1>2, <1>4, <2>1 DEF IsInjective
<1> QED BY <1>1, <1>4 DEF IsInjective, t

\* sentenceSet holds every sentence once.
LEMMA KeptOnce ==
  ASSUME NEW s, IsList(s)
  PROVE  /\ Kept(<<>>, s) \in Seq(ToSet(s))
         /\ IsInjective(Kept(<<>>, s))
<1> DEFINE S == ToSet(s)
           n == Len(s)
<1>1. s \in Seq(S) /\ n \in Nat /\ DOMAIN s = 1..n
  BY ListParts
<1>2. \A m \in 1..n : s[m] \in S
  BY <1>1 DEF ToSet
<1>3. PICK g : /\ Kept(<<>>, s) = g[n]
               /\ g[0] = <<>>
               /\ \A m \in 1..n : g[m] = AddOnce(g[m - 1], s[m])
  <2> DEFINE base == <<>>
  <2> HIDE DEF base, n, S
  <2>1. PICK g : OneByOne(g, base, s, n)
    BY <1>1, AddingStep
  <2> QED BY <2>1 DEF base, OneByOne
<1> HIDE DEF n, S
<1> DEFINE Good(m) == g[m] \in Seq(S) /\ IsInjective(g[m])
           G == {m \in Nat : m \in 0..n => Good(m)}
<1>4. 0 \in G
  <2>1. <<>> \in Seq(S) /\ DOMAIN <<>> = {}
    BY EmptySeq
  <2>2. IsInjective(<<>>)
    BY <2>1 DEF IsInjective
  <2> QED BY <1>3, <2>1, <2>2
<1>5. ASSUME NEW m \in Nat, m \in G PROVE m + 1 \in G
  <2> SUFFICES ASSUME m + 1 \in 0..n PROVE Good(m + 1)
    OBVIOUS
  <2>1. m \in 0..n /\ m + 1 \in 1..n /\ (m + 1) - 1 = m
    BY <1>1
  <2>2. Good(m)
    BY <1>5, <2>1
  <2>3. g[m + 1] = AddOnce(g[m], s[m + 1]) /\ s[m + 1] \in S
    BY <1>2, <1>3, <2>1
  <2>4. CASE Contains(g[m], s[m + 1])
    BY <2>2, <2>3, <2>4 DEF AddOnce
  <2>5. CASE ~Contains(g[m], s[m + 1])
    <3>1. g[m + 1] = Append(g[m], s[m + 1])
      BY <2>3, <2>5 DEF AddOnce
    <3>2. \A i \in 1..Len(g[m]) : g[m][i] # s[m + 1]
      BY <2>5 DEF Contains
    <3> QED BY <2>2, <2>3, <3>1, <3>2, AppendNew
  <2> QED BY <2>4, <2>5
<1> HIDE DEF G
<1>6. n \in G
  BY <1>1, <1>4, <1>5, Induct
<1>7. Good(n)
  BY <1>1, <1>6 DEF G
<1> QED BY <1>3, <1>7 DEF S

\* A sentence and the entry it stands under.
LEMMA KeyAndSentence ==
  ASSUME NEW a, NEW b, NEW c, NEW x
  PROVE  /\ SubSeq(<<a, b, c>> \o <<x>>, 1, 3) = <<a, b, c>>
         /\ (<<a, b, c>> \o <<x>>)[4] = x
<1> DEFINE S == {a, b, c, x}
           key == <<a, b, c>>
           s == key \o <<x>>
<1>1. key \in Seq(S) /\ <<x>> \in Seq(S) /\ Len(key) = 3 /\ Len(<<x>>) = 1
      /\ key[1] = a /\ key[2] = b /\ key[3] = c /\ <<x>>[1] = x
  OBVIOUS
<1>2. /\ s \in Seq(S) /\ Len(s) = 4
      /\ \A i \in 1..4 : s[i] = IF i <= 3 THEN key[i] ELSE <<x>>[i - 3]
  <2> HIDE DEF key, S
  <2>1. /\ key \o <<x>> \in Seq(S) /\ Len(key \o <<x>>) = Len(key) + Len(<<x>>)
        /\ \A i \in 1..(Len(key) + Len(<<x>>)) :
              (key \o <<x>>)[i] = IF i <= Len(key) THEN key[i] ELSE <<x>>[i - Len(key)]
    BY <1>1, ConcatProperties
  <2>2. Len(key) + Len(<<x>>) = 4 /\ Len(key) = 3
    BY <1>1
  <2> HIDE DEF s
  <2> QED BY <2>1, <2>2 DEF s
<1> HIDE DEF key, S, s
<1>3. s[1] = key[1] /\ s[2] = key[2] /\ s[3] = key[3] /\ s[4] = x
  BY <1>1, <1>2
<1>4. SubSeq(s, 1, 3) = key
  <2> DEFINE t == SubSeq(s, 1, 3)
  <2>1. \A i \in 1..3 : s[i] \in S
    <3> TAKE i \in 1..3
    <3>1. i \in 1..Len(s) /\ s \in Seq(S)
      BY <1>2
    <3> QED BY <3>1, ElementOfSeq, Zenon
  <2>2. /\ t \in Seq(S) /\ Len(t) = IF 1 <= 3 THEN 3 - 1 + 1 ELSE 0
        /\ \A i \in 1..(3 - 1 + 1) : t[i] = s[1 + i - 1]
    BY <2>1, SubSeqProperties
  <2> HIDE DEF t
  <2>3. Len(t) = 3 /\ \A i \in 1..3 : t[i] = key[i]
    BY <1>3, <2>2
  <2>4. t = key
    BY <1>1, <2>2, <2>3, SeqEqual
  <2> QED BY <2>4 DEF t
<1> QED BY <1>3, <1>4 DEF key, s

LEMMA EntrySentencesParts ==
  ASSUME NEW a, NEW b, NEW c, NEW key, key = <<a, b, c>>,
         NEW entry, IsList(entry.sentences)
  PROVE  /\ IsList(EntrySentences(key, entry)) /\ IsInjective(EntrySentences(key, entry))
         /\ \A s \in ToSet(EntrySentences(key, entry)) : SubSeq(s, 1, 3) = key
<1> DEFINE kept == Kept(<<>>, entry.sentences)
           e == EntrySentences(key, entry)
<1>1. kept \in Seq(ToSet(entry.sentences)) /\ IsInjective(kept)
  BY KeptOnce
<1>2. e = [k \in DOMAIN kept |-> key \o <<kept[k]>>]
  BY DEF EntrySentences, Kept
<1> HIDE DEF kept, e
<1>3. Len(kept) \in Nat /\ DOMAIN kept = 1..Len(kept)
  BY <1>1, LenProperties
<1>4. IsList(e) /\ DOMAIN e = DOMAIN kept
  <2>1. e \in [1..Len(kept) -> {e[k] : k \in 1..Len(kept)}]
    BY <1>2, <1>3
  <2>2. e \in Seq({e[k] : k \in 1..Len(kept)})
    BY <1>3, <2>1, FunctionIsSeq
  <2> QED BY <1>2, <2>2, SeqIsList
<1>5. \A k \in DOMAIN e : SubSeq(e[k], 1, 3) = key /\ e[k][4] = kept[k]
  <2> SUFFICES ASSUME NEW k \in DOMAIN e
               PROVE  SubSeq(e[k], 1, 3) = key /\ e[k][4] = kept[k]
    OBVIOUS
  <2> DEFINE x == kept[k]
  <2>1. e[k] = <<a, b, c>> \o <<x>>
    BY <1>2, <1>4
  <2> HIDE DEF x
  <2>2. SubSeq(e[k], 1, 3) = <<a, b, c>> /\ e[k][4] = x
    BY <2>1, KeyAndSentence
  <2> QED BY <2>2 DEF x
<1>6. IsInjective(e)
  BY <1>1, <1>4, <1>5 DEF IsInjective
<1>7. \A s \in ToSet(e) : SubSeq(s, 1, 3) = key
  BY <1>5 DEF ToSet
<1> QED BY <1>4, <1>6, <1>7 DEF e

LEMMA EntryKeysParts ==
  ASSUME NEW word, NEW entries, IsList(entries)
  PROVE  /\ IsList(EntryKeys(word, entries)) /\ IsInjective(EntryKeys(word, entries))
         /\ DOMAIN EntryKeys(word, entries) = DOMAIN entries
         /\ \A no \in DOMAIN entries :
               EntryKeys(word, entries)[no] = <<word, entries[no].type, no>>
         /\ \A key \in ToSet(EntryKeys(word, entries)) : key[1] = word
<1> DEFINE e == EntryKeys(word, entries)
           n == Len(entries)
<1>1. n \in Nat /\ DOMAIN entries = 1..n
  BY ListParts
<1>2. e = [no \in DOMAIN entries |-> <<word, entries[no].type, no>>]
  BY DEF EntryKeys
<1> HIDE DEF e, n
<1>3. DOMAIN e = DOMAIN entries /\ \A no \in DOMAIN e : e[no] = <<word, entries[no].type, no>>
  BY <1>2
<1>4. IsList(e)
  <2>1. e \in [1..n -> {e[k] : k \in 1..n}]
    BY <1>1, <1>2
  <2>2. e \in Seq({e[k] : k \in 1..n})
    BY <1>1, <2>1, FunctionIsSeq
  <2> QED BY <2>2, SeqIsList
<1>5. \A no \in DOMAIN e : e[no][1] = word /\ e[no][3] = no
  BY <1>3
<1>6. IsInjective(e)
  BY <1>5 DEF IsInjective
<1>7. \A key \in ToSet(e) : key[1] = word
  BY <1>5 DEF ToSet
<1> QED BY <1>3, <1>4, <1>6, <1>7 DEF e

IsPage(page) ==
  IsList(page.entries) /\ \A entry \in ToSet(page.entries) : IsList(entry.sentences)

LEMMA WordSentencesParts ==
  ASSUME NEW word, NEW page, IsPage(page)
  PROVE  /\ IsList(WordSentences(word, page.entries))
         /\ IsInjective(WordSentences(word, page.entries))
         /\ \A s \in ToSet(WordSentences(word, page.entries)) :
               SubSeq(s, 1, 3) \in ToSet(EntryKeys(word, page.entries))
<1> DEFINE entries == page.entries
           keys == EntryKeys(word, entries)
           n == Len(entries)
           ss == [no \in DOMAIN entries |-> EntrySentences(keys[no], entries[no])]
<1>1. IsList(entries) /\ n \in Nat /\ DOMAIN entries = 1..n
      /\ \A no \in 1..n : IsList(entries[no].sentences)
  <2>1. IsList(entries) /\ n \in Nat /\ DOMAIN entries = 1..n
    BY ListParts DEF IsPage
  <2>2. \A no \in 1..n : entries[no] \in ToSet(entries)
    BY <2>1 DEF ToSet
  <2> QED BY <2>1, <2>2 DEF IsPage
<1>2. WordSentences(word, entries) = FlattenSeq(ss)
  BY DEF WordSentences
<1> HIDE DEF entries, n
<1>3. IsInjective(keys) /\ DOMAIN keys = 1..n
      /\ \A no \in 1..n : keys[no] = <<word, entries[no].type, no>>
  BY <1>1, EntryKeysParts
<1>4. ss = [no \in 1..n |-> ss[no]] /\ \A no \in 1..n : ss[no] = EntrySentences(keys[no], entries[no])
  BY <1>1
<1> HIDE DEF keys, ss
<1>5. ASSUME NEW no \in 1..n
      PROVE  /\ IsList(ss[no]) /\ IsInjective(ss[no])
             /\ \A s \in ToSet(ss[no]) : SubSeq(s, 1, 3) = keys[no]
  <2> DEFINE c == entries[no].type
             e == entries[no]
  <2>1. keys[no] = <<word, c, no>> /\ IsList(e.sentences)
    BY <1>1, <1>3
  <2> HIDE DEF c, e
  <2> DEFINE es == EntrySentences(keys[no], e)
  <2>2. IsList(es) /\ IsInjective(es) /\ \A s \in ToSet(es) : SubSeq(s, 1, 3) = keys[no]
    BY <2>1, EntrySentencesParts
  <2>3. ss[no] = es
    BY <1>4 DEF e
  <2> HIDE DEF es
  <2> QED BY <2>2, <2>3
<1>6. \A i, j \in 1..n : i # j => ToSet(ss[i]) \cap ToSet(ss[j]) = {}
  <2> SUFFICES ASSUME NEW i \in 1..n, NEW j \in 1..n, i # j, NEW s \in ToSet(ss[i]), s \in ToSet(ss[j])
               PROVE  FALSE
    OBVIOUS
  <2>1. keys[i] = keys[j]
    BY <1>5
  <2> QED BY <1>3, <2>1 DEF IsInjective
<1>7. /\ IsList(FlattenSeq(ss)) /\ IsInjective(FlattenSeq(ss))
      /\ ToSet(FlattenSeq(ss)) = UNION {ToSet(ss[i]) : i \in 1..n}
  BY <1>1, <1>4, <1>5, <1>6, FlattenLists
<1>8. ASSUME NEW s \in ToSet(FlattenSeq(ss)) PROVE SubSeq(s, 1, 3) \in ToSet(keys)
  <2>1. PICK i \in 1..n : s \in ToSet(ss[i])
    BY <1>7
  <2>2. SubSeq(s, 1, 3) = keys[i]
    BY <1>5, <2>1
  <2> QED BY <1>3, <2>2 DEF ToSet
<1> QED BY <1>2, <1>7, <1>8 DEF keys, entries

\* What a call wants to store: its keys differ, and a sentence goes under
\* an entry of the same call.
LEMMA KeysOfCall ==
  ASSUME NEW r, LooksUp(r)
  PROVE  /\ IsInjective(ExtendKeys(r)) /\ IsInjective(SentenceKeys(r))
         /\ \A key \in ToSet(ExtendKeys(r)) : \E k \in DOMAIN got[r] : key[1] = got[r][k].word
         /\ \A s \in ToSet(SentenceKeys(r)) : SubSeq(s, 1, 3) \in ToSet(ExtendKeys(r))
<1> DEFINE n == Len(got[r])
           word(k) == got[r][k].word
           page(k) == got[r][k].page
           es == [k \in DOMAIN got[r] |-> EntryKeys(word(k), page(k).entries)]
           ws == [k \in DOMAIN got[r] |-> WordSentences(word(k), page(k).entries)]
<1>1. got[r] \in Seq([word : Nat, page : DictPages])
      /\ \A i, j \in DOMAIN got[r] : i # j => word(i) # word(j)
  BY DEF LooksUp
<1>2. n \in Nat /\ DOMAIN got[r] = 1..n /\ \A k \in 1..n : IsPage(page(k))
  <2>1. n \in Nat /\ DOMAIN got[r] = 1..n
    BY <1>1, LenProperties
  <2>2. \A k \in 1..n : got[r][k] \in [word : Nat, page : DictPages]
    BY <1>1, ElementOfSeq
  <2>3. \A k \in 1..n : page(k) \in DictPages
    BY <2>2
  <2> QED BY <2>1, <2>3, PagesAssumption DEF IsPage
<1>3. ExtendKeys(r) = FlattenSeq(es) /\ SentenceKeys(r) = FlattenSeq(ws)
  BY DEF ExtendKeys, SentenceKeys
<1>4. /\ es = [k \in 1..n |-> es[k]] /\ \A k \in 1..n : es[k] = EntryKeys(word(k), page(k).entries)
      /\ ws = [k \in 1..n |-> ws[k]] /\ \A k \in 1..n : ws[k] = WordSentences(word(k), page(k).entries)
  BY <1>2
<1> HIDE DEF n, word, page, es, ws
<1>5. ASSUME NEW k \in 1..n
      PROVE  /\ IsList(es[k]) /\ IsInjective(es[k]) /\ \A key \in ToSet(es[k]) : key[1] = word(k)
             /\ IsList(ws[k]) /\ IsInjective(ws[k])
             /\ \A s \in ToSet(ws[k]) : SubSeq(s, 1, 3) \in ToSet(es[k])
  <2>1. IsPage(page(k)) /\ IsList(page(k).entries)
    BY <1>2 DEF IsPage
  <2>2. IsList(es[k]) /\ IsInjective(es[k]) /\ \A key \in ToSet(es[k]) : key[1] = word(k)
    BY <1>4, <2>1, EntryKeysParts
  <2>3. /\ IsList(ws[k]) /\ IsInjective(ws[k])
        /\ \A s \in ToSet(ws[k]) : SubSeq(s, 1, 3) \in ToSet(es[k])
    <3> DEFINE w == word(k)
               p == page(k)
    <3>1. IsPage(p) /\ es[k] = EntryKeys(w, p.entries) /\ ws[k] = WordSentences(w, p.entries)
      BY <1>4, <2>1
    <3> HIDE DEF w, p
    <3> QED BY <3>1, WordSentencesParts
  <2> QED BY <2>2, <2>3
<1>6. ASSUME NEW i \in 1..n, NEW j \in 1..n, i # j
      PROVE  ToSet(es[i]) \cap ToSet(es[j]) = {} /\ ToSet(ws[i]) \cap ToSet(ws[j]) = {}
  <2>1. word(i) # word(j)
    BY <1>1, <1>2, <1>6
  <2> QED BY <1>5, <2>1
<1>7. /\ IsInjective(FlattenSeq(es)) /\ ToSet(FlattenSeq(es)) = UNION {ToSet(es[i]) : i \in 1..n}
      /\ IsInjective(FlattenSeq(ws)) /\ ToSet(FlattenSeq(ws)) = UNION {ToSet(ws[i]) : i \in 1..n}
  <2>1. IsInjective(FlattenSeq(es)) /\ ToSet(FlattenSeq(es)) = UNION {ToSet(es[i]) : i \in 1..n}
    BY <1>2, <1>4, <1>5, <1>6, FlattenLists
  <2>2. IsInjective(FlattenSeq(ws)) /\ ToSet(FlattenSeq(ws)) = UNION {ToSet(ws[i]) : i \in 1..n}
    <3>1. \A i \in 1..n : IsList(ws[i]) /\ IsInjective(ws[i])
      BY <1>5
    <3>2. \A i, j \in 1..n : i # j => ToSet(ws[i]) \cap ToSet(ws[j]) = {}
      BY <1>6
    <3>3. ws = [k \in 1..n |-> ws[k]]
      BY <1>4
    <3> QED BY <1>2, <3>1, <3>2, <3>3, FlattenLists
  <2> QED BY <2>1, <2>2
<1>8. ASSUME NEW key \in ToSet(FlattenSeq(es)) PROVE \E k \in DOMAIN got[r] : key[1] = word(k)
  BY <1>2, <1>5, <1>7
<1>9. ASSUME NEW s \in ToSet(FlattenSeq(ws)) PROVE SubSeq(s, 1, 3) \in ToSet(FlattenSeq(es))
  BY <1>5, <1>7
<1> QED BY <1>3, <1>7, <1>8, <1>9 DEF word

\* A page adds links of its own source, under titles the call has not got yet.
LEMMA JoinedTitles ==
  ASSUME NEW base \in Seq(LinksOf("xia_shuo")), IsInjective([i \in DOMAIN base |-> base[i].title]),
         NEW page \in XsPages
  PROVE  /\ Joined(base, page) \in Seq(LinksOf("xia_shuo"))
         /\ IsInjective([i \in DOMAIN Joined(base, page) |-> Joined(base, page)[i].title])
<1> DEFINE S == LinksOf("xia_shuo")
           Apart(rows) == \A i, j \in DOMAIN rows : rows[i].title = rows[j].title => i = j
           n == Len(page)
<1>1. \A rows : IsInjective([i \in DOMAIN rows |-> rows[i].title]) <=> Apart(rows)
  BY DEF IsInjective
<1>2. n \in Nat /\ DOMAIN page = 1..n /\ \A m \in 1..n : page[m] \in Lines
  <2>1. IsList(page)
    BY PagesAssumption
  <2>2. n \in Nat /\ DOMAIN page = 1..n
    BY <2>1, ListParts
  <2> QED BY <2>2 DEF Lines, ToSet
<1> HIDE DEF n
<1>3. \A e \in Lines : XsLink(e) \in S
  BY DEF LinksOf, Link, Lines, Texts, Titles, Sources, XsLink
<1> HIDE DEF S
<1>4. PICK g : LineByLine(g, base, page, n)
  BY <1>2, AddingLinksStep
<1> DEFINE Good(m) == g[m] \in Seq(S) /\ Apart(g[m])
           G == {m \in Nat : m \in 0..n => Good(m)}
<1>5. 0 \in G
  BY <1>1, <1>4 DEF LineByLine, S
<1>6. ASSUME NEW m \in Nat, m \in G PROVE m + 1 \in G
  <2> SUFFICES ASSUME m + 1 \in 0..n PROVE Good(m + 1)
    OBVIOUS
  <2>1. m \in 0..n /\ m + 1 \in 1..n /\ (m + 1) - 1 = m
    BY <1>2
  <2>2. Good(m)
    BY <1>6, <2>1
  <2> DEFINE rows == g[m]
             e == page[m + 1]
  <2>3. g[m + 1] = AddXsLink(rows, e) /\ XsLink(e) \in S
    BY <1>2, <1>3, <1>4, <2>1 DEF LineByLine
  <2>4. rows \in Seq(S) /\ Apart(rows)
    BY <2>2
  <2> HIDE DEF rows, e
  <2>5. CASE g[m + 1] = rows
    BY <2>4, <2>5
  <2>6. CASE g[m + 1] # rows
    <3>1. g[m + 1] = Append(rows, XsLink(e)) /\ ~HasTitle(rows, e.text.trail)
      BY <2>3, <2>6 DEF AddXsLink
    <3> DEFINE x == XsLink(e)
               t == Append(rows, x)
    <3>2. \A i \in DOMAIN rows : rows[i].title # x.title
      BY <3>1 DEF HasTitle, XsLink
    <3> HIDE DEF x
    <3>3. /\ t \in Seq(S) /\ Len(t) = Len(rows) + 1 /\ t[Len(rows) + 1] = x
          /\ \A i \in 1..Len(rows) : t[i] = rows[i]
      BY <2>3, <2>4, AppendProperties DEF x
    <3>4. Len(rows) \in Nat /\ DOMAIN rows = 1..Len(rows)
      BY <2>4, LenProperties
    <3> HIDE DEF t
    <3>5. DOMAIN t = 1..(Len(rows) + 1)
      BY <3>3, LenProperties
    <3>6. \A k \in DOMAIN t : k \in DOMAIN rows \/ k = Len(rows) + 1
      BY <3>4, <3>5
    <3>7. Apart(t)
      BY <2>4, <3>2, <3>3, <3>4, <3>6
    <3> QED BY <3>1, <3>3, <3>7 DEF t, x
  <2> QED BY <2>5, <2>6
<1> HIDE DEF G
<1>7. n \in G
  BY <1>2, <1>5, <1>6, Induct
<1>8. Good(n)
  BY <1>2, <1>7 DEF G
<1> QED BY <1>1, <1>4, <1>8 DEF LineByLine, S

-----------------------------------------------------------------------------
(* What a step does to a request and to the tables *)

Same(q) ==
  kind'[q] = kind[q] /\ pc'[q] = pc[q] /\ todo'[q] = todo[q] /\ got'[q] = got[q]

Over(q) ==
  pc'[q] \in {"done", "failed"} /\ kind'[q] = Null /\ todo'[q] = <<>> /\ got'[q] = <<>>

Starting(q) ==
  /\ pc[q] = "idle" /\ pc'[q] = "fetch" /\ kind'[q] \in Kind /\ got'[q] = got[q]
  /\ \/ kind'[q] = "dictWordEn" /\ \E status \in BOOLEAN : todo'[q] = ListWords(status)
     \/ kind'[q] \in {"saveChinaDailyArticleLink", "saveXSArticleLink"}
     \/ /\ kind'[q] = "updateChinaDailyArticleType"
        /\ \E filter \in Filters : filter.source = "china_daily" /\ todo'[q] = ListLinks(filter)
     \/ kind'[q] \in ArticleKinds /\ \E filter \in Filters : todo'[q] = ListLinks(filter)

Reads(q) ==
  /\ pc[q] = "fetch" /\ pc'[q] = "fetch" /\ kind'[q] = kind[q]
  /\ todo[q] # <<>> /\ todo'[q] = Tail(todo[q])
  /\ \/ kind[q] = "dictWordEn" /\ \E page \in DictPages :
           got'[q] = got[q] \o <<[word |-> Head(todo[q]).id, page |-> page]>>
     \/ kind[q] = "saveChinaDailyArticleLink" /\ \E page \in ChinaPages :
           got'[q] = got[q] \o [i \in DOMAIN page |-> ChinaLink(page[i])]
     \/ kind[q] = "saveXSArticleLink" /\ \E page \in XsPages : got'[q] = Joined(got[q], page)
     \/ /\ kind[q] = "updateChinaDailyArticleType"
        /\ got'[q] = got[q] \o <<[id |-> Head(todo[q]).id, row |-> Classified(Head(todo[q]).row)]>>
     \/ /\ kind[q] \in ArticleKinds
        /\ got'[q] \in {got[q] \o <<Article(Head(todo[q]).row, q)>>, got[q] \o <<>>}

Turns(q) ==
  /\ kind'[q] = kind[q] /\ got'[q] = got[q]
  /\ \/ /\ kind[q] = "dictWordEn" /\ pc[q] = "fetch" /\ pc'[q] = "extends"
        /\ todo'[q] = todo[q]
     \/ pc[q] = "extends" /\ pc'[q] = "sentences" /\ todo'[q] = todo[q]
     \/ /\ kind[q] = "saveXSArticle" /\ pc[q] = "fetch" /\ pc'[q] = "save"
        /\ todo'[q] = Partitions(Len(got[q]))
     \/ pc[q] = "save" /\ pc'[q] = "save" /\ todo[q] # <<>> /\ todo'[q] = Tail(todo[q])

Functions ==
  kind = [r \in Req |-> kind[r]] /\ pc = [r \in Req |-> pc[r]]
  /\ todo = [r \in Req |-> todo[r]] /\ got = [r \in Req |-> got[r]]

LEMMA TypesFunctions == Types => Functions
  BY DEF Types, Functions

LEMMA Endings ==
  ASSUME Functions, NEW r \in Req, NEW how \in {"done", "failed"}, End(r, how)
  PROVE  /\ Over(r) /\ (\A q \in Req \ {r} : Same(q)) /\ Functions' /\ pc'[r] = how
  BY DEF Functions, End, Over, Same

LEMMA Throwings ==
  ASSUME Functions, NEW r \in Req, Throw(r)
  PROVE  /\ Over(r) /\ (\A q \in Req \ {r} : Same(q)) /\ Functions' /\ UNCHANGED tables
  BY Endings DEF Throw

LEMMA Beginnings ==
  ASSUME Functions, NEW r \in Req, NEW k, NEW visits, Begin(r, k, visits)
  PROVE  /\ pc[r] = "idle" /\ pc'[r] = "fetch" /\ k \in Kind /\ kind'[r] = k
         /\ got'[r] = got[r] /\ todo'[r] = visits
         /\ (\A q \in Req \ {r} : Same(q)) /\ Functions' /\ UNCHANGED tables
  BY DEF Functions, Begin, Same

LEMMA Collections ==
  ASSUME Functions, NEW r \in Req, NEW new, Collect(r, new)
  PROVE  /\ pc'[r] = pc[r] /\ kind'[r] = kind[r] /\ todo'[r] = Tail(todo[r])
         /\ got'[r] = got[r] \o new
         /\ (\A q \in Req \ {r} : Same(q)) /\ Functions' /\ UNCHANGED tables
  BY DEF Functions, Collect, Same

\* A step concerns one request, and no table but those its action writes.
Effect(r) ==
  /\ (\A q \in Req \ {r} : Same(q)) /\ Functions'
  /\ \/ (Over(r) \/ Starting(r) \/ Reads(r)) /\ UNCHANGED tables
     \/ UpdateWords(r) /\ Turns(r)
     \/ /\ pc[r] = "extends" /\ Turns(r) /\ Insertable(ExtendKeys(r), extends)
        /\ extends' = extends \cup ToSet(ExtendKeys(r))
        /\ UNCHANGED <<words, sentences, links, articles>>
     \/ /\ pc[r] = "sentences" /\ Over(r)
        /\ sentences' = sentences \cup ToSet(SentenceKeys(r))
        /\ UNCHANGED <<words, extends, links, articles>>
     \/ /\ pc[r] = "fetch" /\ kind[r] \in {"saveChinaDailyArticleLink", "saveXSArticleLink"}
        /\ Over(r) /\ links' = links \o got[r]
        /\ UNCHANGED <<words, extends, sentences, articles>>
     \/ /\ pc[r] = "fetch" /\ kind[r] = "updateChinaDailyArticleType"
        /\ Over(r) /\ links' = [i \in DOMAIN links |-> UpdatedLink(i, r)]
        /\ UNCHANGED <<words, extends, sentences, articles>>
     \/ /\ pc[r] = "fetch" /\ kind[r] = "saveChinaDailyArticleSingle"
        /\ Over(r) /\ articles' = articles \o got[r]
        /\ UNCHANGED <<words, extends, sentences, links>>
     \/ pc[r] = "fetch" /\ Turns(r) /\ UNCHANGED tables
     \/ /\ pc[r] = "save" /\ Turns(r) /\ articles' = articles \o NewBeans(r)
        /\ UNCHANGED <<words, extends, sentences, links>>

LEMMA Effects ==
  ASSUME Functions, Next
  PROVE  \/ \E r \in Req : Effect(r)
         \/ (AddWord \/ DeleteWord) /\ (\A q \in Req : Same(q)) /\ Functions'
         \/ Crash /\ (\A q \in Req : pc'[q] \notin Running
                                     /\ pc'[q] \in {"failed", pc[q]}
                                     /\ kind'[q] = Null /\ todo'[q] = <<>> /\ got'[q] = <<>>)
            /\ Functions'
<1>1. ASSUME NEW r \in Req, StartDictWordEn(r) PROVE Effect(r)
  BY <1>1, Beginnings DEF StartDictWordEn, Effect, Starting
<1>2. ASSUME NEW r \in Req, FetchWord(r) PROVE Effect(r)
  <2>1. PICK page \in DictPages \cup {Null} :
           IF page = Null THEN Throw(r)
           ELSE Collect(r, <<[word |-> Head(todo[r]).id, page |-> page]>>)
    BY <1>2 DEF FetchWord
  <2>2. pc[r] = "fetch" /\ kind[r] = "dictWordEn" /\ todo[r] # <<>>
    BY <1>2 DEF FetchWord, Visit
  <2>3. CASE page = Null
    BY <2>1, <2>3, Throwings DEF Effect
  <2>4. CASE page # Null
    <3>1. Collect(r, <<[word |-> Head(todo[r]).id, page |-> page]>>) /\ page \in DictPages
      BY <2>1, <2>4
    <3> QED BY <2>2, <3>1, Collections DEF Effect, Reads
  <2> QED BY <2>3, <2>4
<1>3. ASSUME NEW r \in Req, UpdateWords(r) PROVE Effect(r)
  <2>1. (\A q \in Req \ {r} : Same(q)) /\ Functions' /\ Turns(r)
    BY <1>3 DEF UpdateWords, Visited, Functions, Same, Turns
  <2> QED BY <1>3, <2>1 DEF Effect
<1>4. ASSUME NEW r \in Req, SaveExtends(r) PROVE Effect(r)
  <2>1. CASE Insertable(ExtendKeys(r), extends)
    <3>1. (\A q \in Req \ {r} : Same(q)) /\ Functions' /\ Turns(r)
      BY <1>4, <2>1 DEF SaveExtends, Functions, Same, Turns
    <3> QED BY <1>4, <2>1, <3>1 DEF Effect, SaveExtends
  <2>2. CASE ~Insertable(ExtendKeys(r), extends)
    BY <1>4, <2>2, Throwings DEF SaveExtends, Effect
  <2> QED BY <2>1, <2>2
<1>5. ASSUME NEW r \in Req, SaveSentences(r) PROVE Effect(r)
  <2> DEFINE ok == Insertable(SentenceKeys(r), sentences) /\ EntriesStored(r)
  <2>1. CASE ok
    BY <1>5, <2>1, Endings DEF SaveSentences, Effect
  <2>2. CASE ~ok
    BY <1>5, <2>2, Throwings DEF SaveSentences, Effect
  <2> QED BY <2>1, <2>2
<1>6. ASSUME NEW r \in Req, NEW k \in {"saveChinaDailyArticleLink", "saveXSArticleLink"}, StartLinks(r, k)
      PROVE  Effect(r)
  <2>1. CASE Throw(r)
    BY <2>1, Throwings DEF Effect
  <2>2. CASE \E visits : Begin(r, k, visits)
    BY <2>2, Beginnings DEF Effect, Starting
  <2> QED BY <1>6, <2>1, <2>2 DEF StartLinks
<1>7. ASSUME NEW r \in Req, FetchChinaLinks(r) PROVE Effect(r)
  <2>1. PICK page \in ChinaPages \cup {Null} :
           IF page = Null THEN Throw(r)
           ELSE Collect(r, [i \in DOMAIN page |-> ChinaLink(page[i])])
    BY <1>7 DEF FetchChinaLinks
  <2>2. pc[r] = "fetch" /\ kind[r] = "saveChinaDailyArticleLink" /\ todo[r] # <<>>
    BY <1>7 DEF FetchChinaLinks, Visit
  <2>3. CASE page = Null
    BY <2>1, <2>3, Throwings DEF Effect
  <2>4. CASE page # Null
    <3>1. Collect(r, [i \in DOMAIN page |-> ChinaLink(page[i])]) /\ page \in ChinaPages
      BY <2>1, <2>4
    <3> QED BY <2>2, <3>1, Collections DEF Effect, Reads
  <2> QED BY <2>3, <2>4
<1>8. ASSUME NEW r \in Req, FetchXsLinks(r) PROVE Effect(r)
  <2>1. PICK page \in XsPages \cup {Null} :
           IF page = Null THEN Throw(r)
           ELSE /\ todo' = [todo EXCEPT ![r] = Tail(@)]
                /\ got' = [got EXCEPT ![r] = Joined(@, page)]
                /\ UNCHANGED <<tables, kind, pc>>
    BY <1>8 DEF FetchXsLinks, Joined
  <2>2. pc[r] = "fetch" /\ kind[r] = "saveXSArticleLink" /\ todo[r] # <<>>
    BY <1>8 DEF FetchXsLinks, Visit
  <2>3. CASE page = Null
    BY <2>1, <2>3, Throwings DEF Effect
  <2>4. CASE page # Null
    <3>1. /\ todo' = [todo EXCEPT ![r] = Tail(@)] /\ got' = [got EXCEPT ![r] = Joined(@, page)]
          /\ UNCHANGED <<tables, kind, pc>> /\ page \in XsPages
      BY <2>1, <2>4
    <3>2. (\A q \in Req \ {r} : Same(q)) /\ Functions'
      BY <3>1 DEF Functions, Same
    <3>3. todo'[r] = Tail(todo[r]) /\ got'[r] = Joined(got[r], page)
      BY <3>1 DEF Functions
    <3>4. Reads(r)
      BY <2>2, <3>1, <3>3 DEF Reads
    <3> QED BY <3>1, <3>2, <3>4 DEF Effect
  <2> QED BY <2>3, <2>4
<1>9. ASSUME NEW r \in Req, SaveLinks(r) PROVE Effect(r)
  <2>1. pc[r] = "fetch" /\ kind[r] \in {"saveChinaDailyArticleLink", "saveXSArticleLink"}
    BY <1>9 DEF SaveLinks, Visited
  <2>2. CASE Insertable(LinkKeys(got[r]), ToSet(LinkKeys(links)))
    BY <1>9, <2>1, <2>2, Endings DEF SaveLinks, Effect
  <2>3. CASE ~Insertable(LinkKeys(got[r]), ToSet(LinkKeys(links)))
    BY <1>9, <2>3, Throwings DEF SaveLinks, Effect
  <2> QED BY <2>2, <2>3
<1>10. ASSUME NEW r \in Req, StartTypes(r) PROVE Effect(r)
  <2>1. PICK filter \in Filters :
          filter.source = "china_daily" /\ Begin(r, "updateChinaDailyArticleType", ListLinks(filter))
    BY <1>10 DEF StartTypes
  <2> QED BY <2>1, Beginnings DEF Effect, Starting
<1>11. ASSUME NEW r \in Req, Classify(r) PROVE Effect(r)
  <2>1. pc[r] = "fetch" /\ kind[r] = "updateChinaDailyArticleType" /\ todo[r] # <<>>
    BY <1>11 DEF Classify, Visit
  <2>2. CASE Throw(r)
    BY <2>2, Throwings DEF Effect
  <2>3. CASE Collect(r, <<[id |-> Head(todo[r]).id, row |-> Classified(Head(todo[r]).row)]>>)
    BY <2>1, <2>3, Collections DEF Effect, Reads
  <2> QED BY <1>11, <2>2, <2>3 DEF Classify
<1>12. ASSUME NEW r \in Req, UpdateTypes(r) PROVE Effect(r)
  BY <1>12, Endings DEF UpdateTypes, Visited, Effect
<1>13. ASSUME NEW r \in Req, StartArticles(r) PROVE Effect(r)
  <2>1. PICK k \in ArticleKinds, filter \in Filters : Begin(r, k, ListLinks(filter))
    BY <1>13 DEF StartArticles
  <2> QED BY <2>1, Beginnings DEF Effect, Starting
<1>14. ASSUME NEW r \in Req, FetchArticle(r) PROVE Effect(r)
  <2>1. pc[r] = "fetch" /\ kind[r] \in ArticleKinds /\ todo[r] # <<>>
    BY <1>14 DEF FetchArticle, Visit
  <2>2. CASE Throw(r)
    BY <2>2, Throwings DEF Effect
  <2>3. CASE Collect(r, <<Article(Head(todo[r]).row, r)>>)
    BY <2>1, <2>3, Collections DEF Effect, Reads
  <2>4. CASE Collect(r, <<>>)
    BY <2>1, <2>4, Collections DEF Effect, Reads
  <2> QED BY <1>14, <2>2, <2>3, <2>4 DEF FetchArticle
<1>15. ASSUME NEW r \in Req, SaveSingles(r) PROVE Effect(r)
  <2>1. pc[r] = "fetch" /\ kind[r] = "saveChinaDailyArticleSingle"
    BY <1>15 DEF SaveSingles, Visited
  <2>2. CASE Throw(r)
    BY <2>2, Throwings DEF Effect
  <2>3. CASE /\ articles' = articles \o got[r] /\ End(r, "done")
             /\ UNCHANGED <<words, extends, sentences, links>>
    BY <2>1, <2>3, Endings DEF Effect
  <2> QED BY <1>15, <2>2, <2>3 DEF SaveSingles
<1>16. ASSUME NEW r \in Req, PartitionArticles(r) PROVE Effect(r)
  <2>1. (\A q \in Req \ {r} : Same(q)) /\ Functions' /\ Turns(r) /\ pc[r] = "fetch"
    BY <1>16 DEF PartitionArticles, Visited, Functions, Same, Turns
  <2> QED BY <1>16, <2>1 DEF Effect, PartitionArticles
<1>17. ASSUME NEW r \in Req, SavePartition(r) PROVE Effect(r)
  <2>1. (\A q \in Req \ {r} : Same(q)) /\ Functions' /\ Turns(r) /\ pc[r] = "save"
    BY <1>17 DEF SavePartition, Functions, Same, Turns
  <2> QED BY <1>17, <2>1 DEF Effect, SavePartition
<1>18. ASSUME NEW r \in Req, Return(r) PROVE Effect(r)
  BY <1>18, Endings DEF Return, Effect
<1>19. CASE AddWord \/ DeleteWord
  BY <1>19 DEF AddWord, DeleteWord, Same, Functions
<1>20. CASE Crash
  BY <1>20 DEF Crash, Functions, Running
<1> QED BY <1>1, <1>2, <1>3, <1>4, <1>5, <1>6, <1>7, <1>8, <1>9, <1>10, <1>11, <1>12, <1>13,
           <1>14, <1>15, <1>16, <1>17, <1>18, <1>19, <1>20 DEF Next

-----------------------------------------------------------------------------
(* Sequences a step takes from and adds to *)

LEMMA TailParts ==
  ASSUME NEW S, NEW s \in Seq(S), s # <<>>
  PROVE  /\ 1 \in DOMAIN s /\ Head(s) = s[1] /\ Head(s) \in S
         /\ Tail(s) \in Seq(S) /\ Len(Tail(s)) = Len(s) - 1 /\ Len(s) \in Nat \ {0}
         /\ \A i \in DOMAIN Tail(s) : i \in Nat \ {0} /\ i + 1 \in DOMAIN s /\ Tail(s)[i] = s[i + 1]
<1>1. Head(s) \in S /\ Tail(s) \in Seq(S) /\ Len(Tail(s)) = Len(s) - 1
      /\ \A i \in 1..Len(Tail(s)) : Tail(s)[i] = s[i + 1]
  BY HeadTailProperties
<1>2. Len(s) \in Nat /\ DOMAIN s = 1..Len(s) /\ Len(s) # 0
  BY LenProperties, EmptySeq
<1>3. DOMAIN Tail(s) = 1..(Len(s) - 1)
  BY <1>1, LenProperties
<1>4. Head(s) = s[1]
  OBVIOUS
<1> QED BY <1>1, <1>2, <1>3, <1>4

\* The elements of two sequences, one after the other.
LEMMA ConcatElements ==
  ASSUME NEW S, NEW a \in Seq(S), NEW b \in Seq(S)
  PROVE  /\ a \o b \in Seq(S)
         /\ \A i \in DOMAIN a : i \in DOMAIN (a \o b) /\ (a \o b)[i] = a[i]
         /\ \A i \in DOMAIN (a \o b) :
               \/ i \in DOMAIN a /\ (a \o b)[i] = a[i]
               \/ /\ i \notin DOMAIN a
                  /\ i - Len(a) \in DOMAIN b /\ (a \o b)[i] = b[i - Len(a)]
<1>1. /\ a \o b \in Seq(S) /\ Len(a \o b) = Len(a) + Len(b)
      /\ \A i \in 1..(Len(a) + Len(b)) :
            (a \o b)[i] = IF i <= Len(a) THEN a[i] ELSE b[i - Len(a)]
  BY ConcatProperties
<1>2. /\ DOMAIN a = 1..Len(a) /\ DOMAIN b = 1..Len(b)
      /\ DOMAIN (a \o b) = 1..(Len(a) + Len(b)) /\ Len(a) \in Nat /\ Len(b) \in Nat
  BY <1>1, LenProperties
<1> QED BY <1>1, <1>2

LEMMA LastElement ==
  ASSUME NEW S, NEW a \in Seq(S), NEW e \in S
  PROVE  /\ a \o <<e>> \in Seq(S)
         /\ \A i \in DOMAIN (a \o <<e>>) :
               \/ i \in DOMAIN a /\ (a \o <<e>>)[i] = a[i]
               \/ i \notin DOMAIN a /\ i = Len(a) + 1 /\ (a \o <<e>>)[i] = e
<1> DEFINE b == <<e>>
<1>1. b \in Seq(S) /\ DOMAIN b = {1} /\ b[1] = e
  OBVIOUS
<1> HIDE DEF b
<1>2. /\ a \o b \in Seq(S)
      /\ \A i \in DOMAIN (a \o b) :
            \/ i \in DOMAIN a /\ (a \o b)[i] = a[i]
            \/ /\ i \notin DOMAIN a
               /\ i - Len(a) \in DOMAIN b /\ (a \o b)[i] = b[i - Len(a)]
  BY <1>1, ConcatElements
<1>3. \A i \in DOMAIN (a \o b) : i \in Nat /\ Len(a) \in Nat
  BY <1>2, LenProperties
<1>4. ASSUME NEW i \in DOMAIN (a \o b), i \notin DOMAIN a
      PROVE  i = Len(a) + 1 /\ (a \o b)[i] = e
  BY <1>1, <1>2, <1>3, <1>4
<1> QED BY <1>2, <1>4 DEF b

-----------------------------------------------------------------------------
(* Links keep what they were saved with, and their class *)

LEMMA SameRaw ==
  ASSUME NEW a \in Link, NEW b \in Link, Raw(a) = Raw(b)
  PROVE  /\ a.source = b.source /\ a.index = b.index /\ a.text = b.text
         /\ [a EXCEPT !.type = b.type, !.title = b.title] = b
<1>1. a = Row(a.source, a.index, a.text, a.title, a.type)
      /\ b = Row(b.source, b.index, b.text, b.title, b.type)
  BY LinkFields DEF Row
<1>2. Row(a.source, a.index, a.text, "", 0) = Row(b.source, b.index, b.text, "", 0)
  BY <1>1, RawOf, ZenonT(60)
<1>3. a.source = b.source /\ a.index = b.index /\ a.text = b.text
  BY <1>2 DEF Row
<1>4. Updated(a, b.title, b.type) = Row(a.source, a.index, a.text, b.title, b.type)
  BY <1>1, Updating
<1> QED BY <1>1, <1>3, <1>4 DEF Updated

LEMMA RawType ==
  ASSUME NEW row \in Link
  PROVE  /\ Raw(row).type = 0 /\ Raw(row).title = ""
         /\ Raw(row).source = row.source /\ Raw(row).index = row.index
<1>1. row = Row(row.source, row.index, row.text, row.title, row.type)
  BY LinkFields DEF Row
<1>2. Raw(row) = Row(row.source, row.index, row.text, "", 0)
  BY <1>1, RawOf
<1> DEFINE x == Raw(row)
<1>3. x = [source |-> row.source, index |-> row.index, text |-> row.text, title |-> "", type |-> 0]
  BY <1>2 DEF Row
<1> HIDE DEF x
<1>4. x.type = 0 /\ x.title = "" /\ x.source = row.source /\ x.index = row.index
  BY <1>3
<1> QED BY <1>4 DEF x

LinksKept ==
  \A i \in DOMAIN links :
     /\ i \in DOMAIN links' /\ Raw(links'[i]) = Raw(links[i])
     /\ links[i].type # 0 => links'[i] = links[i]
     /\ links[i] \in {links'[i], Raw(links'[i])}

ChinaLinks == \A i \in DOMAIN links : links[i].source = "china_daily" => FromChina(links[i])

\* What updateChinaDailyArticleType writes back is the row, classified.
LEMMA Writing ==
  ASSUME links \in Seq(Link), NEW r, Classifies(r), NEW i \in DOMAIN links
  PROVE  \/ UpdatedLink(i, r) = links[i]
         \/ /\ UpdatedLink(i, r) = Classified(Raw(links[i]))
            /\ links[i].source = "china_daily"
<1> DEFINE mine == {k \in DOMAIN got[r] : got[r][k].id = i}
           k == CHOOSE k \in mine : TRUE
           row == got[r][k].row
<1>1. CASE mine = {}
  BY <1>1 DEF UpdatedLink
<1>2. CASE mine # {}
  <2>1. k \in mine
    BY <1>2
  <2>2. UpdatedLink(i, r) = [links[i] EXCEPT !.type = row.type, !.title = row.title]
    BY <1>2 DEF UpdatedLink
  <2> HIDE DEF k
  <2>3. k \in DOMAIN got[r] /\ got[r][k].id = i
    BY <2>1
  <2>4. row \in Link
    <3>1. got[r] \in Seq([id : Nat, row : Link])
      BY DEF Classifies
    <3>2. got[r][k] \in [id : Nat, row : Link]
      BY <2>3, <3>1, LenProperties, ElementOfSeq
    <3> QED BY <3>2
  <2>5. Raw(row) = Raw(links[i]) /\ row.source = "china_daily" /\ row = Classified(Raw(row))
    BY <2>3 DEF Classifies, CopyOf
  <2>6. links[i] \in Link
    BY LenProperties, ElementOfSeq
  <2> HIDE DEF row
  <2>7. [links[i] EXCEPT !.type = row.type, !.title = row.title] = row
        /\ links[i].source = row.source
    BY <2>4, <2>5, <2>6, SameRaw
  <2> QED BY <2>2, <2>5, <2>7
<1> QED BY <1>1, <1>2

LEMMA Appended ==
  ASSUME links \in Seq(Link), ChinaLinks, NEW r, Collects(r),
         kind[r] \in {"saveChinaDailyArticleLink", "saveXSArticleLink"}, links' = links \o got[r]
  PROVE  links' \in Seq(Link) /\ LinksKept /\ ChinaLinks'
<1>1. got[r] \in Seq(Link)
  <2>1. LinksOf("xia_shuo") \subseteq Link
        /\ {row \in LinksOf("china_daily") : row = Raw(row)} \subseteq Link
    BY DEF LinksOf
  <2>2. \/ got[r] \in Seq(LinksOf("xia_shuo"))
        \/ got[r] \in Seq({row \in LinksOf("china_daily") : row = Raw(row)})
    BY DEF Collects
  <2> QED BY <2>1, <2>2, SeqMonotonic
<1>2. \A k \in DOMAIN got[r] : got[r][k].source = "china_daily" => FromChina(got[r][k])
  <2> SUFFICES ASSUME NEW k \in DOMAIN got[r], got[r][k].source = "china_daily"
               PROVE  FromChina(got[r][k])
    OBVIOUS
  <2>1. CASE kind[r] = "saveXSArticleLink"
    <3>1. got[r] \in Seq(LinksOf("xia_shuo"))
      BY <2>1 DEF Collects
    <3>2. got[r][k] \in LinksOf("xia_shuo")
      BY <3>1, LenProperties, ElementOfSeq
    <3> QED BY <3>2 DEF LinksOf
  <2>2. CASE kind[r] = "saveChinaDailyArticleLink"
    <3> DEFINE S == {row \in LinksOf("china_daily") : row = Raw(row)}
    <3>1. got[r] \in Seq(S)
      BY <2>2 DEF Collects
    <3> HIDE DEF S
    <3>2. got[r][k] \in S
      BY <3>1, LenProperties, ElementOfSeq
    <3> QED BY <3>2 DEF S, LinksOf, FromChina
  <2> QED BY <2>1, <2>2
<1>3. /\ links' \in Seq(Link)
      /\ \A i \in DOMAIN links : i \in DOMAIN links' /\ links'[i] = links[i]
      /\ \A i \in DOMAIN links' :
            \/ i \in DOMAIN links /\ links'[i] = links[i]
            \/ i - Len(links) \in DOMAIN got[r] /\ links'[i] = got[r][i - Len(links)]
  BY <1>1, ConcatElements
<1>4. LinksKept
  BY <1>3 DEF LinksKept
<1>5. ChinaLinks'
  <2> SUFFICES ASSUME NEW i \in DOMAIN links', links'[i].source = "china_daily"
               PROVE  FromChina(links'[i])
    BY DEF ChinaLinks, FromChina
  <2> QED BY <1>2, <1>3 DEF ChinaLinks
<1> QED BY <1>3, <1>4, <1>5

LEMMA Reclassified ==
  ASSUME links \in Seq(Link), ChinaLinks, NEW r, Classifies(r),
         links' = [i \in DOMAIN links |-> UpdatedLink(i, r)]
  PROVE  links' \in Seq(Link) /\ LinksKept /\ ChinaLinks'
<1>1. Len(links) \in Nat /\ DOMAIN links = 1..Len(links) /\ \A i \in DOMAIN links : links[i] \in Link
  BY LenProperties, ElementOfSeq
<1>2. DOMAIN links' = DOMAIN links /\ \A i \in DOMAIN links : links'[i] = UpdatedLink(i, r)
  OBVIOUS
<1>3. ASSUME NEW i \in DOMAIN links
      PROVE  /\ links'[i] \in Link /\ Raw(links'[i]) = Raw(links[i])
             /\ links[i].type # 0 => links'[i] = links[i]
             /\ links[i] \in {links'[i], Raw(links'[i])}
             /\ links'[i].source = "china_daily" => FromChina(links'[i])
  <2> DEFINE row == links[i]
  <2>1. row \in Link /\ (row.source = "china_daily" => FromChina(row))
    BY <1>1 DEF ChinaLinks
  <2>2. links'[i] = row \/ (links'[i] = Classified(Raw(row)) /\ row.source = "china_daily")
    BY <1>2, Writing
  <2> HIDE DEF row
  <2>3. CASE links'[i] = row
    BY <2>1, <2>3 DEF row
  <2>4. CASE links'[i] = Classified(Raw(row)) /\ row.source = "china_daily"
    <3>1. Raw(row) \in Link /\ Raw(Raw(row)) = Raw(row)
      BY <2>1, Classification
    <3>2. Classified(Raw(row)) \in Link /\ Raw(Classified(Raw(row))) = Raw(row)
      BY <3>1, Classification
    <3>3. row.type # 0 => row = Classified(Raw(row))
      BY <2>1, <2>4, RawType DEF FromChina
    <3>4. FromChina(Classified(Raw(row)))
      BY <2>1, <2>4, <3>1, <3>2, RawType DEF FromChina
    <3>5. row \in {links'[i], Raw(links'[i])}
      BY <2>1, <2>4, <3>1, <3>2 DEF FromChina
    <3> QED BY <2>4, <3>2, <3>3, <3>4, <3>5 DEF row
  <2> QED BY <2>2, <2>3, <2>4
<1>4. links' \in [1..Len(links) -> Link]
  BY <1>1, <1>3
<1>5. links' \in Seq(Link)
  BY <1>1, <1>4, FunctionIsSeq
<1>6. LinksKept
  BY <1>2, <1>3 DEF LinksKept
<1>7. ChinaLinks'
  BY <1>2, <1>3 DEF ChinaLinks, FromChina
<1> QED BY <1>5, <1>6, <1>7

LEMMA LinksStep ==
  ASSUME WordInv, [Next]_vars
  PROVE  links' \in Seq(Link) /\ LinksKept /\ ChinaLinks'
<1>1. links \in Seq(Link) /\ ChinaLinks /\ Functions
  BY TypesFunctions DEF WordInv, Types, ChinaLinks
<1>2. CASE links' = links
  BY <1>1, <1>2 DEF LinksKept, ChinaLinks, FromChina
<1>3. ASSUME NEW r \in Req, Effect(r) PROVE links' \in Seq(Link) /\ LinksKept /\ ChinaLinks'
  <2>1. Collects(r) /\ (kind[r] = "updateChinaDailyArticleType" => Classifies(r))
    BY DEF WordInv
  <2>2. CASE kind[r] \in {"saveChinaDailyArticleLink", "saveXSArticleLink"} /\ links' = links \o got[r]
    BY <1>1, <2>1, <2>2, Appended
  <2>3. CASE /\ kind[r] = "updateChinaDailyArticleType"
             /\ links' = [i \in DOMAIN links |-> UpdatedLink(i, r)]
    BY <1>1, <2>1, <2>3, Reclassified
  <2>4. CASE links' = links
    BY <1>2, <2>4
  <2> QED BY <1>3, <2>2, <2>3, <2>4 DEF Effect, tables, UpdateWords
<1>4. CASE UNCHANGED vars
  BY <1>2, <1>4 DEF vars
<1>5. CASE AddWord \/ DeleteWord \/ Crash
  BY <1>2, <1>5 DEF AddWord, DeleteWord, Crash, tables
<1> QED BY <1>1, <1>3, <1>4, <1>5, Effects

-----------------------------------------------------------------------------
(* What a call starts with *)

LEMMA Indices ==
  ASSUME NEW S, NEW s \in Seq(S), NEW ids, ids \subseteq DOMAIN s
  PROVE  ids \in SUBSET Nat /\ IsFiniteSet(ids)
<1>1. Len(s) \in Nat /\ DOMAIN s = 1..Len(s)
  BY LenProperties
<1>2. IsFiniteSet(1..Len(s))
  BY <1>1, FS_Interval
<1> QED BY <1>1, <1>2, FS_Subset

LEMMA ListedWords ==
  ASSUME words \in Seq(Word), NEW status
  PROVE  /\ ListWords(status) \in Seq([id : Nat])
         /\ \A i, j \in DOMAIN ListWords(status) :
               i # j => ListWords(status)[i].id # ListWords(status)[j].id
<1> DEFINE all == {i \in DOMAIN words : words[i].status = status}
           ids == List(all, "asc")
           rows == [k \in DOMAIN ids |-> [id |-> ids[k]]]
<1>1. all \in SUBSET Nat /\ IsFiniteSet(all)
  <2>1. all \subseteq DOMAIN words
    OBVIOUS
  <2> HIDE DEF all
  <2> QED BY <2>1, Indices
<1>2. ListWords(status) = rows
  BY DEF ListWords
<1> HIDE DEF all
<1>3. ids \in Seq(all) /\ IsInjective(ids)
  BY <1>1, Listed
<1> HIDE DEF ids
<1>4. Len(ids) \in Nat /\ DOMAIN ids = 1..Len(ids) /\ \A k \in DOMAIN ids : ids[k] \in Nat
  BY <1>1, <1>3, LenProperties, ElementOfSeq
<1>5. rows \in [1..Len(ids) -> [id : Nat]] /\ \A k \in DOMAIN ids : rows[k].id = ids[k]
  BY <1>4
<1>6. DOMAIN rows = DOMAIN ids
  OBVIOUS
<1> HIDE DEF rows
<1>7. rows \in Seq([id : Nat])
  BY <1>4, <1>5, FunctionIsSeq
<1>8. \A i, j \in DOMAIN rows : i # j => rows[i].id # rows[j].id
  BY <1>3, <1>5, <1>6 DEF IsInjective
<1> QED BY <1>2, <1>7, <1>8

\* Copies of rows of the table.
LEMMA Snapshots ==
  ASSUME links \in Seq(Link), NEW all, all \subseteq DOMAIN links, NEW ids \in Seq(all)
  PROVE  /\ Snapshot(ids) \in Seq([id : Nat, row : Link])
         /\ \A k \in DOMAIN Snapshot(ids) :
               Snapshot(ids)[k].id \in all /\ Snapshot(ids)[k].row = links[Snapshot(ids)[k].id]
<1> DEFINE rows == Snapshot(ids)
<1>1. rows = [k \in DOMAIN ids |-> [id |-> ids[k], row |-> links[ids[k]]]]
  BY DEF Snapshot
<1> HIDE DEF rows
<1>2. Len(ids) \in Nat /\ DOMAIN ids = 1..Len(ids) /\ \A k \in DOMAIN ids : ids[k] \in all
  BY LenProperties, ElementOfSeq
<1>3. Len(links) \in Nat /\ DOMAIN links = 1..Len(links) /\ \A i \in DOMAIN links : links[i] \in Link
  BY LenProperties, ElementOfSeq
<1>4. \A k \in DOMAIN ids : ids[k] \in Nat /\ links[ids[k]] \in Link
  BY <1>2, <1>3
<1>5. DOMAIN rows = DOMAIN ids
      /\ \A k \in DOMAIN ids : rows[k].id = ids[k] /\ rows[k].row = links[ids[k]]
  BY <1>1
<1>6. rows \in [1..Len(ids) -> [id : Nat, row : Link]]
  BY <1>1, <1>2, <1>4
<1>7. rows \in Seq([id : Nat, row : Link])
  BY <1>2, <1>6, FunctionIsSeq
<1>8. \A k \in DOMAIN rows : rows[k].id \in all /\ rows[k].row = links[rows[k].id]
  BY <1>2, <1>5
<1> QED BY <1>7, <1>8 DEF rows

LEMMA ListedLinks ==
  ASSUME links \in Seq(Link), NEW filter
  PROVE  /\ ListLinks(filter) \in Seq([id : Nat, row : Link])
         /\ \A k \in DOMAIN ListLinks(filter) :
               /\ ListLinks(filter)[k].id \in DOMAIN links
               /\ ListLinks(filter)[k].row = links[ListLinks(filter)[k].id]
               /\ filter.source \in {Null, ListLinks(filter)[k].row.source}
<1> DEFINE all == {i \in DOMAIN links : Matches(links[i], filter)}
           ids == List(all, "desc")
<1>1. ListLinks(filter) = Snapshot(ids)
  BY DEF ListLinks
<1>2. all \subseteq DOMAIN links /\ \A i \in all : filter.source \in {Null, links[i].source}
  BY DEF Matches
<1> HIDE DEF all
<1>3. all \in SUBSET Nat /\ IsFiniteSet(all)
  BY <1>2, Indices
<1>4. ids \in Seq(all)
  BY <1>3, Listed
<1> HIDE DEF ids
<1>5. /\ Snapshot(ids) \in Seq([id : Nat, row : Link])
      /\ \A k \in DOMAIN Snapshot(ids) :
            Snapshot(ids)[k].id \in all /\ Snapshot(ids)[k].row = links[Snapshot(ids)[k].id]
  BY <1>2, <1>4, Snapshots
<1> QED BY <1>1, <1>2, <1>5

-----------------------------------------------------------------------------
(* Every part of the invariant is kept *)

\* How one request moves in a step.
Moves(q) ==
  \/ Same(q) \/ Over(q) \/ Starting(q) \/ Reads(q) \/ Turns(q)
  \/ /\ pc'[q] \notin Running /\ pc'[q] \in {"failed", pc[q]}
     /\ kind'[q] = Null /\ todo'[q] = <<>> /\ got'[q] = <<>>

LEMMA AllMove ==
  ASSUME Functions, [Next]_vars
  PROVE  Functions' /\ \A q \in Req : Moves(q)
<1>1. CASE UNCHANGED vars
  BY <1>1 DEF vars, Functions, Moves, Same
<1>2. CASE \E r \in Req : Effect(r)
  BY <1>2 DEF Effect, UpdateWords, Moves
<1>3. CASE (AddWord \/ DeleteWord) /\ (\A q \in Req : Same(q)) /\ Functions'
  BY <1>3 DEF Moves
<1>4. CASE Crash /\ (\A q \in Req : pc'[q] \notin Running
                                     /\ pc'[q] \in {"failed", pc[q]}
                                     /\ kind'[q] = Null /\ todo'[q] = <<>> /\ got'[q] = <<>>)
           /\ Functions'
  BY <1>4 DEF Moves
<1> QED BY <1>1, <1>2, <1>3, <1>4, Effects

LEMMA StagesStep ==
  ASSUME WordInv, [Next]_vars
  PROVE  Stages'
<1>1. Functions /\ Stages
  BY TypesFunctions DEF WordInv
<1> SUFFICES ASSUME NEW r \in Req
             PROVE  /\ pc'[r] \notin Running => todo'[r] = <<>> /\ got'[r] = <<>> /\ kind'[r] = Null
                    /\ pc'[r] \in {"extends", "sentences"} => kind'[r] = "dictWordEn"
                    /\ pc'[r] = "save" => kind'[r] = "saveXSArticle"
  BY DEF Stages
<1>2. Moves(r)
  BY <1>1, AllMove
<1> QED BY <1>1, <1>2 DEF Stages, Moves, Same, Over, Starting, Reads, Turns, Running

LEMMA LooksUpStep ==
  ASSUME WordInv, [Next]_vars, NEW q \in Req, kind'[q] = "dictWordEn"
  PROVE  LooksUp(q)'
<1> DEFINE W == [word : Nat, page : DictPages]
           I == [id : Nat]
<1>1. Functions /\ Stages /\ (kind[q] = "dictWordEn" => LooksUp(q)) /\ words \in Seq(Word)
  BY TypesFunctions DEF WordInv, Types
<1>2. Moves(q)
  BY <1>1, AllMove
<1>3. CASE Same(q)
  BY <1>1, <1>3 DEF Same, LooksUp
<1>4. CASE todo'[q] = <<>> /\ got'[q] = <<>>
  BY <1>4 DEF LooksUp
<1>5. CASE Starting(q)
  <2>1. got'[q] = <<>> /\ \E status \in BOOLEAN : todo'[q] = ListWords(status)
    BY <1>1, <1>5 DEF Starting, Stages, Running, ArticleKinds
  <2>2. todo'[q] \in Seq([id : Nat])
        /\ \A i, j \in DOMAIN todo'[q] : i # j => todo'[q][i].id # todo'[q][j].id
    BY <1>1, <2>1, ListedWords
  <2> QED BY <2>1, <2>2 DEF LooksUp
<1>6. CASE Reads(q)
  <2>1. LooksUp(q) /\ todo[q] # <<>> /\ todo'[q] = Tail(todo[q])
    BY <1>1, <1>6 DEF Reads
  <2>2. PICK page \in DictPages : got'[q] = got[q] \o <<[word |-> Head(todo[q]).id, page |-> page]>>
    BY <1>6 DEF Reads, ArticleKinds
  <2> DEFINE t == todo[q]
             g == got[q]
             e == [word |-> Head(t).id, page |-> page]
  <2>3. /\ t \in Seq(I) /\ g \in Seq(W) /\ t # <<>>
        /\ \A i, j \in DOMAIN t : i # j => t[i].id # t[j].id
        /\ \A i, j \in DOMAIN g : i # j => g[i].word # g[j].word
        /\ \A i \in DOMAIN g, j \in DOMAIN t : g[i].word # t[j].id
    BY <2>1 DEF LooksUp
  <2> HIDE DEF t, g, I
  <2>4. /\ 1 \in DOMAIN t /\ Head(t) = t[1] /\ Head(t) \in I /\ Tail(t) \in Seq(I)
        /\ \A i \in DOMAIN Tail(t) : i \in Nat \ {0} /\ i + 1 \in DOMAIN t /\ Tail(t)[i] = t[i + 1]
    BY <2>3, TailParts
  <2>5. e \in W /\ e.word = t[1].id
    BY <2>4 DEF I
  <2> HIDE DEF e
  <2>6. /\ g \o <<e>> \in Seq(W)
        /\ \A i \in DOMAIN (g \o <<e>>) :
              \/ i \in DOMAIN g /\ (g \o <<e>>)[i] = g[i]
              \/ i \notin DOMAIN g /\ i = Len(g) + 1 /\ (g \o <<e>>)[i] = e
    BY <2>3, <2>5, LastElement
  <2> DEFINE h == g \o <<e>>
             u == Tail(t)
  <2>7. todo'[q] = u /\ got'[q] = h
    BY <2>1, <2>2 DEF t, g, e
  <2> HIDE DEF h, u, W
  <2>8. \A i \in DOMAIN u : i + 1 # 1 /\ i \in Nat /\ i + 1 \in DOMAIN t /\ u[i] = t[i + 1]
    BY <2>4 DEF u
  <2>9. \A i, j \in DOMAIN u : i # j => u[i].id # u[j].id
    <3> SUFFICES ASSUME NEW i \in DOMAIN u, NEW j \in DOMAIN u, i # j PROVE u[i].id # u[j].id
      OBVIOUS
    <3>1. i + 1 # j + 1
      BY <2>8
    <3> QED BY <2>3, <2>8, <3>1
  <2>10. \A i, j \in DOMAIN h : i # j => h[i].word # h[j].word
    <3> SUFFICES ASSUME NEW i \in DOMAIN h, NEW j \in DOMAIN h, i # j PROVE h[i].word # h[j].word
      OBVIOUS
    <3>1. \A k \in DOMAIN g : g[k].word # e.word
      BY <2>3, <2>4, <2>5
    <3>2. /\ \/ i \in DOMAIN g /\ h[i] = g[i]
             \/ i = Len(g) + 1 /\ h[i] = e
          /\ \/ j \in DOMAIN g /\ h[j] = g[j]
             \/ j = Len(g) + 1 /\ h[j] = e
      BY <2>6 DEF h
    <3> QED BY <2>3, <3>1, <3>2
  <2>11. \A i \in DOMAIN h, j \in DOMAIN u : h[i].word # u[j].id
    <3> SUFFICES ASSUME NEW i \in DOMAIN h, NEW j \in DOMAIN u PROVE h[i].word # u[j].id
      OBVIOUS
    <3>1. t[1].id # t[j + 1].id
      BY <2>3, <2>4, <2>8
    <3>2. (i \in DOMAIN g /\ h[i] = g[i]) \/ h[i] = e
      BY <2>6 DEF h
    <3> QED BY <2>3, <2>5, <2>8, <3>1, <3>2
  <2>12. h \in Seq(W) /\ u \in Seq(I)
    BY <2>4, <2>6 DEF h, u
  <2> QED BY <2>7, <2>9, <2>10, <2>11, <2>12 DEF LooksUp, W, I
<1>7. CASE Turns(q)
  <2>1. todo'[q] = todo[q] /\ got'[q] = got[q] /\ LooksUp(q)
    BY <1>1, <1>7 DEF Turns, Stages
  <2> QED BY <2>1 DEF LooksUp
<1> QED BY <1>2, <1>3, <1>4, <1>5, <1>6, <1>7 DEF Moves, Over

\* A copy of a row stays one while others classify it.
LEMMA CopiesStay ==
  ASSUME LinksKept, NEW row, NEW i, CopyOf(row, i, links)
  PROVE  CopyOf(row, i, links')
  BY DEF LinksKept, CopyOf, Raw

LEMMA ClassifiesStep ==
  ASSUME WordInv, [Next]_vars, NEW q \in Req, kind'[q] = "updateChinaDailyArticleType"
  PROVE  Classifies(q)'
<1> DEFINE P == [id : Nat, row : Link]
<1>1. /\ Functions /\ Stages /\ links \in Seq(Link) /\ ChinaLinks
      /\ kind[q] = "updateChinaDailyArticleType" => Classifies(q)
  BY TypesFunctions DEF WordInv, Types, ChinaLinks
<1>2. Moves(q) /\ LinksKept
  BY <1>1, AllMove, LinksStep
<1>3. ASSUME Classifies(q), got'[q] = got[q], todo'[q] = todo[q] PROVE Classifies(q)'
  <2>1. \A k \in DOMAIN todo[q] : CopyOf(todo[q][k].row, todo[q][k].id, links')
    BY <1>2, <1>3, CopiesStay DEF Classifies
  <2>2. \A k \in DOMAIN got[q] : CopyOf(got[q][k].row, got[q][k].id, links')
    BY <1>2, <1>3, CopiesStay DEF Classifies
  <2> QED BY <1>3, <2>1, <2>2 DEF Classifies, FromChina
<1>4. CASE todo'[q] = <<>> /\ got'[q] = <<>>
  BY <1>4 DEF Classifies
<1>5. CASE Starting(q)
  <2>1. PICK filter \in Filters : filter.source = "china_daily" /\ todo'[q] = ListLinks(filter)
    BY <1>5 DEF Starting, ArticleKinds
  <2> DEFINE t == ListLinks(filter)
  <2>2. got'[q] = <<>>
    BY <1>1, <1>5 DEF Starting, Stages, Running
  <2>3. /\ t \in Seq(P)
        /\ \A k \in DOMAIN t : /\ t[k].id \in DOMAIN links /\ t[k].row = links[t[k].id]
                               /\ filter.source \in {Null, t[k].row.source}
    BY <1>1, ListedLinks, ZenonT(60)
  <2>4. todo'[q] = t
    BY <2>1
  <2> HIDE DEF t, P
  <2>5. \A k \in DOMAIN t : FromChina(t[k].row) /\ CopyOf(t[k].row, t[k].id, links)
    BY <1>1, <2>1, <2>3, WordAssumption DEF ChinaLinks, CopyOf, Sources
  <2>6. \A k \in DOMAIN t : CopyOf(t[k].row, t[k].id, links')
    BY <1>2, <2>5, CopiesStay
  <2> QED BY <2>2, <2>3, <2>4, <2>5, <2>6 DEF Classifies, FromChina, P
<1>6. CASE Reads(q)
  <2>1. /\ Classifies(q) /\ todo[q] # <<>> /\ todo'[q] = Tail(todo[q])
        /\ got'[q] = got[q] \o <<[id |-> Head(todo[q]).id, row |-> Classified(Head(todo[q]).row)]>>
    BY <1>1, <1>6 DEF Reads, ArticleKinds
  <2> DEFINE t == todo[q]
             g == got[q]
             u == Tail(t)
             e == [id |-> Head(t).id, row |-> Classified(Head(t).row)]
             h == g \o <<e>>
  <2>2. /\ t \in Seq(P) /\ g \in Seq(P) /\ t # <<>>
        /\ \A k \in DOMAIN t : FromChina(t[k].row) /\ CopyOf(t[k].row, t[k].id, links)
        /\ \A k \in DOMAIN g : /\ CopyOf(g[k].row, g[k].id, links) /\ g[k].row.source = "china_daily"
                               /\ g[k].row = Classified(Raw(g[k].row))
    BY <2>1 DEF Classifies
  <2>3. todo'[q] = u /\ got'[q] = h
    BY <2>1
  <2> HIDE DEF t, g, P
  <2>4. /\ 1 \in DOMAIN t /\ Head(t) = t[1] /\ t[1] \in P /\ u \in Seq(P)
        /\ \A i \in DOMAIN u : i + 1 \in DOMAIN t /\ u[i] = t[i + 1]
    BY <2>2, TailParts
  <2>5. e.id = t[1].id /\ e.row = Classified(t[1].row) /\ t[1].row \in Link /\ t[1].id \in Nat
    BY <2>4 DEF P
  <2>6. e \in P
    <3>1. Classified(t[1].row) \in Link
      BY <2>5, Classification
    <3> QED BY <2>4, <2>5, <3>1 DEF P
  <2> HIDE DEF e, u
  <2>7. /\ h \in Seq(P)
        /\ \A i \in DOMAIN h : \/ i \in DOMAIN g /\ h[i] = g[i]
                               \/ i \notin DOMAIN g /\ i = Len(g) + 1 /\ h[i] = e
    BY <2>2, <2>6, LastElement
  <2> HIDE DEF h
  <2>8. CopyOf(e.row, e.id, links) /\ e.row.source = "china_daily" /\ e.row = Classified(Raw(e.row))
    <3> DEFINE row == t[1].row
    <3>1. row \in Link /\ FromChina(row) /\ CopyOf(row, t[1].id, links) /\ e.row = Classified(row)
      BY <2>2, <2>4, <2>5
    <3> HIDE DEF row
    <3>2. /\ Raw(row) \in Link /\ Raw(Raw(row)) = Raw(row) /\ Classified(row) \in Link
          /\ Raw(Classified(row)) = Raw(row)
          /\ Classified(Classified(Raw(row))) = Classified(Raw(row))
      BY <3>1, Classification
    <3>3. Classified(row) = Classified(Raw(row))
      BY <3>1, <3>2 DEF FromChina
    <3>4. Classified(row).source = row.source
      BY <3>1, <3>2, SameRaw
    <3> QED BY <2>5, <3>1, <3>2, <3>3, <3>4 DEF CopyOf, FromChina
  <2>9. \A k \in DOMAIN u : FromChina(u[k].row) /\ CopyOf(u[k].row, u[k].id, links')
    BY <1>2, <2>2, <2>4, CopiesStay
  <2>10. \A k \in DOMAIN h : /\ CopyOf(h[k].row, h[k].id, links') /\ h[k].row.source = "china_daily"
                             /\ h[k].row = Classified(Raw(h[k].row))
    <3> SUFFICES ASSUME NEW k \in DOMAIN h
                 PROVE  /\ CopyOf(h[k].row, h[k].id, links) /\ h[k].row.source = "china_daily"
                        /\ h[k].row = Classified(Raw(h[k].row))
      BY <1>2, CopiesStay
    <3> QED BY <2>2, <2>7, <2>8
  <2> QED BY <2>3, <2>4, <2>7, <2>9, <2>10 DEF Classifies, FromChina, P
<1>7. CASE Same(q) \/ Turns(q)
  <2>1. todo'[q] = todo[q] /\ got'[q] = got[q] /\ Classifies(q)
    BY <1>1, <1>7 DEF Same, Turns, Stages
  <2> QED BY <1>3, <2>1
<1> QED BY <1>2, <1>4, <1>5, <1>6, <1>7 DEF Moves, Over

LEMMA CollectsStep ==
  ASSUME WordInv, [Next]_vars, NEW q \in Req
  PROVE  Collects(q)'
<1> DEFINE C == {row \in LinksOf("china_daily") : row = Raw(row)}
<1>1. Functions /\ Stages /\ Collects(q)
  BY TypesFunctions DEF WordInv
<1>2. Moves(q)
  BY <1>1, AllMove
<1>3. CASE Same(q) \/ Turns(q)
  BY <1>1, <1>3 DEF Same, Turns, Collects
<1>4. CASE got'[q] = <<>>
  <2>1. got'[q] \in Seq(C) /\ got'[q] \in Seq(LinksOf("xia_shuo")) /\ DOMAIN got'[q] = {}
    BY <1>4
  <2>2. IsInjective([i \in DOMAIN got'[q] |-> got'[q][i].title])
    BY <2>1 DEF IsInjective
  <2> QED BY <2>1, <2>2 DEF Collects, LinksOf, Raw
<1>5. CASE Starting(q)
  <2>1. got'[q] = <<>>
    BY <1>1, <1>5 DEF Starting, Stages, Running
  <2> QED BY <1>4, <2>1
<1>6. CASE Reads(q)
  <2>1. CASE kind[q] = "saveChinaDailyArticleLink"
    <3>1. PICK page \in ChinaPages : got'[q] = got[q] \o [i \in DOMAIN page |-> ChinaLink(page[i])]
      BY <1>6, <2>1 DEF Reads, ArticleKinds
    <3> DEFINE new == [i \in DOMAIN page |-> ChinaLink(page[i])]
    <3>2. Len(page) \in Nat /\ DOMAIN page = 1..Len(page)
      BY PagesAssumption, ListParts
    <3>3. \A i \in DOMAIN page : page[i] \in Lines
      BY DEF Lines, ToSet
    <3>4. ASSUME NEW e \in Lines PROVE ChinaLink(e) \in C
      <4> DEFINE row == ChinaLink(e)
      <4>1. row = Row("china_daily", e.index, e.text, "", 0)
        BY DEF ChinaLink, Row
      <4>2. Raw(row) = row
        BY <4>1, RawOf
      <4>3. row \in LinksOf("china_daily")
        BY DEF LinksOf, Link, Lines, Texts, Titles, Sources, ChinaLink
      <4> QED BY <4>2, <4>3
    <3> HIDE DEF C
    <3>5. new \in [1..Len(page) -> C]
      BY <3>2, <3>3, <3>4
    <3> HIDE DEF new
    <3>6. new \in Seq(C)
      BY <3>2, <3>5, FunctionIsSeq
    <3>7. got[q] \in Seq(C)
      BY <1>1, <2>1 DEF Collects, C
    <3>8. got[q] \o new \in Seq(C)
      BY <3>6, <3>7, ConcatProperties
    <3>9. got'[q] \in Seq(C)
      BY <3>1, <3>8 DEF new
    <3>10. kind'[q] = "saveChinaDailyArticleLink"
      BY <1>6, <2>1 DEF Reads
    <3> QED BY <3>9, <3>10 DEF Collects, C, LinksOf, Raw
  <2>2. CASE kind[q] = "saveXSArticleLink"
    <3>1. PICK page \in XsPages : got'[q] = Joined(got[q], page)
      BY <1>6, <2>2 DEF Reads, ArticleKinds
    <3> DEFINE g == got[q]
               h == Joined(g, page)
    <3>2. g \in Seq(LinksOf("xia_shuo")) /\ IsInjective([i \in DOMAIN g |-> g[i].title])
      BY <1>1, <2>2 DEF Collects
    <3> HIDE DEF g
    <3>3. h \in Seq(LinksOf("xia_shuo")) /\ IsInjective([i \in DOMAIN h |-> h[i].title])
      BY <3>2, JoinedTitles
    <3>4. got'[q] = h /\ kind'[q] = "saveXSArticleLink"
      BY <1>6, <2>2, <3>1 DEF g, Reads
    <3> HIDE DEF h
    <3> QED BY <3>3, <3>4 DEF Collects, LinksOf, Raw
  <2>3. CASE kind[q] \notin {"saveChinaDailyArticleLink", "saveXSArticleLink"}
    BY <1>6, <2>3 DEF Reads, Collects
  <2> QED BY <2>1, <2>2, <2>3
<1> QED BY <1>2, <1>3, <1>4, <1>5, <1>6 DEF Moves, Over

\* Rows and articles agree with a table of links that has moved on.
LEMMA CopiesAgree ==
  ASSUME LinksKept, links \in Seq(Link), links' \in Seq(Link)
  PROVE  /\ \A row : Copied(row, links) => Copied(row, links')
         /\ \A a : Behind(a, links) => Behind(a, links')
<1>1. ASSUME NEW i \in DOMAIN links
      PROVE  /\ i \in DOMAIN links' /\ Raw(links[i]) = Raw(links'[i])
             /\ links[i] \in {links'[i], Raw(links'[i])}
  BY DEF LinksKept
<1>2. ASSUME NEW row, Copied(row, links) PROVE Copied(row, links')
  BY <1>1, <1>2 DEF Copied
<1>3. ASSUME NEW a, Behind(a, links) PROVE Behind(a, links')
  <2>1. PICK k \in DOMAIN links :
           /\ links[k].source = a.source /\ links[k].index = a.index
           /\ a.title \in {links[k].title, ""} /\ a.was \in {links[k].type, 0}
    BY <1>3 DEF Behind
  <2> DEFINE now == links'[k]
  <2>2. k \in DOMAIN links' /\ links[k] \in {now, Raw(now)} /\ now \in Link
    BY <1>1, LenProperties, ElementOfSeq
  <2> HIDE DEF now
  <2>3. /\ Raw(now).type = 0 /\ Raw(now).title = ""
        /\ Raw(now).source = now.source /\ Raw(now).index = now.index
    BY <2>2, RawType
  <2>4. CASE links[k] = now
    BY <2>1, <2>2, <2>4 DEF Behind, now
  <2>5. CASE links[k] = Raw(now)
    <3>1. /\ now.source = a.source /\ now.index = a.index
          /\ a.title \in {now.title, ""} /\ a.was \in {now.type, 0}
      BY <2>1, <2>3, <2>5
    <3> QED BY <2>2, <3>1 DEF Behind, now
  <2> QED BY <2>2, <2>4, <2>5
<1> QED BY <1>2, <1>3

\* An article keeps source, index and title of the row it is taken from.
LEMMA ArticleOf ==
  ASSUME links \in Seq(Link), NEW row \in Link, NEW q \in Req, Copied(row, links)
  PROVE  /\ Article(row, q) \in ByCall(q)
         /\ Article(row, q).title # Null => Behind(Article(row, q), links)
<1> DEFINE a == Article(row, q)
           title == IF kind[q] = "saveXSArticle" THEN Null ELSE row.title
<1>1. a = [source |-> row.source, index |-> row.index, by |-> q, was |-> row.type, title |-> title]
  BY DEF Article
<1>2. title \in Titles \cup {Null} /\ (title # Null => title = row.title)
  BY LinkFields
<1> HIDE DEF a, title
<1>3. /\ a \in Stored /\ a.by = q /\ a.source = row.source /\ a.index = row.index
      /\ a.title = title /\ a.was = row.type
  BY <1>1, <1>2, LinkFields DEF Stored
<1>4. ASSUME title # Null PROVE Behind(a, links)
  <2>1. PICK k \in DOMAIN links : row \in {links[k], Raw(links[k])}
    BY DEF Copied
  <2> DEFINE now == links[k]
  <2>2. now \in Link
    BY LenProperties, ElementOfSeq
  <2> HIDE DEF now
  <2>3. /\ Raw(now).type = 0 /\ Raw(now).title = ""
        /\ Raw(now).source = now.source /\ Raw(now).index = now.index
    BY <2>2, RawType
  <2>4. row \in {now, Raw(now)}
    BY <2>1 DEF now
  <2>5. /\ now.source = a.source /\ now.index = a.index
        /\ a.title \in {now.title, ""} /\ a.was \in {now.type, 0}
    BY <1>2, <1>3, <1>4, <2>3, <2>4
  <2> QED BY <2>5 DEF Behind, now
<1> QED BY <1>3, <1>4 DEF a, ByCall

LEMMA ArticlesStep ==
  ASSUME WordInv, [Next]_vars, NEW q \in Req
  PROVE  Articles(q)'
<1> DEFINE P == [id : Nat, row : Link]
           A == ByCall(q)
           Fresh(t) == t \in Seq(P) /\ \A k \in DOMAIN t : Copied(t[k].row, links')
           Good(g) == /\ g \in Seq(A)
                      /\ \A k \in DOMAIN g : g[k].title # Null => Behind(g[k], links')
<1>1. Functions /\ Stages /\ Articles(q) /\ links \in Seq(Link)
  BY TypesFunctions DEF WordInv, Types
<1>2. Moves(q) /\ LinksKept /\ links' \in Seq(Link)
  BY <1>1, AllMove, LinksStep
<1>3. SUFFICES ASSUME kind'[q] \in ArticleKinds
               PROVE  Good(got'[q]) /\ (pc'[q] = "fetch" => Fresh(todo'[q]))
  BY DEF Articles, ByCall, Stored
<1>4. /\ \A row : Copied(row, links) => Copied(row, links')
      /\ \A a : Behind(a, links) => Behind(a, links')
  BY <1>1, <1>2, CopiesAgree
<1>5. ASSUME kind'[q] = kind[q] PROVE Good(got[q]) /\ (pc[q] = "fetch" => Fresh(todo[q]))
  BY <1>1, <1>3, <1>4, <1>5 DEF Articles
<1>6. Good(<<>>)
  OBVIOUS
<1>7. CASE Same(q)
  BY <1>5, <1>7 DEF Same
<1>8. CASE todo'[q] = <<>> /\ got'[q] = <<>> /\ pc'[q] # "fetch"
  BY <1>6, <1>8
<1>9. CASE Starting(q)
  <2>1. PICK filter \in Filters : todo'[q] = ListLinks(filter)
    BY <1>3, <1>9 DEF Starting, ArticleKinds
  <2> DEFINE t == ListLinks(filter)
  <2>2. got'[q] = <<>>
    BY <1>1, <1>9 DEF Starting, Stages, Running
  <2>3. /\ t \in Seq(P)
        /\ \A k \in DOMAIN t : t[k].id \in DOMAIN links /\ t[k].row = links[t[k].id]
    BY <1>1, ListedLinks, ZenonT(60)
  <2>4. todo'[q] = t
    BY <2>1
  <2> HIDE DEF t, P
  <2>5. \A k \in DOMAIN t : Copied(t[k].row, links)
    BY <2>3 DEF Copied
  <2>6. Fresh(t)
    BY <1>4, <2>3, <2>5
  <2> QED BY <1>6, <2>2, <2>4, <2>6
<1>10. CASE Reads(q)
  <2> DEFINE t == todo[q]
             g == got[q]
             u == Tail(t)
             row == t[1].row
             a == Article(row, q)
  <2>1. /\ Good(g) /\ Fresh(t) /\ t # <<>> /\ todo'[q] = u
        /\ got'[q] \in {g \o <<Article(Head(t).row, q)>>, g \o <<>>}
    BY <1>3, <1>5, <1>10 DEF Reads, ArticleKinds
  <2>2. \A k \in DOMAIN t : Copied(t[k].row, links)
    BY <1>1, <1>3, <1>10 DEF Articles, Reads
  <2> HIDE DEF t, g, P, A
  <2>3. /\ 1 \in DOMAIN t /\ Head(t) = t[1] /\ t[1] \in P /\ u \in Seq(P)
        /\ \A i \in DOMAIN u : i + 1 \in DOMAIN t /\ u[i] = t[i + 1]
    BY <2>1, TailParts
  <2>4. row \in Link /\ Copied(row, links)
    BY <2>2, <2>3 DEF P
  <2>5. Fresh(u)
    BY <2>1, <2>3
  <2>6. a \in A /\ (a.title # Null => Behind(a, links'))
    <3> HIDE DEF row
    <3> QED BY <1>1, <1>4, <2>4, ArticleOf DEF A
  <2> HIDE DEF a, u, row
  <2> DEFINE h == g \o <<a>>
  <2>7. /\ h \in Seq(A)
        /\ \A i \in DOMAIN h : \/ i \in DOMAIN g /\ h[i] = g[i]
                               \/ i \notin DOMAIN g /\ i = Len(g) + 1 /\ h[i] = a
    BY <2>1, <2>6, LastElement
  <2> HIDE DEF h
  <2>8. Good(h)
    BY <2>1, <2>6, <2>7
  <2>9. g \o <<>> = g
    BY <2>1, ConcatEmptySeq
  <2>10. got'[q] \in {h, g}
    BY <2>1, <2>3, <2>9 DEF h, a, row
  <2> HIDE DEF Fresh, Good
  <2> QED BY <2>1, <2>5, <2>8, <2>10
<1>11. CASE Turns(q)
  <2>1. got'[q] = got[q] /\ kind'[q] = kind[q] /\ Good(got[q])
    BY <1>5, <1>11 DEF Turns
  <2>2. pc'[q] # "fetch"
    BY <1>11 DEF Turns
  <2> QED BY <2>1, <2>2
<1> QED BY <1>2, <1>7, <1>8, <1>9, <1>10, <1>11 DEF Moves, Over, Running

\* The rows of one call stand in the table from n on, and nowhere else.
SavedIn(n, q, table, rows) ==
  /\ n + Len(rows) <= Len(table)
  /\ SubSeq(table, n + 1, n + Len(rows)) = rows
  /\ \A i \in DOMAIN table : table[i].by = q <=> i \in (n + 1)..(n + Len(rows))

NoneBy(q, table) == \A i \in DOMAIN table : table[i].by # q

LEMMA SavedParts ==
  ASSUME NEW S, NEW table \in Seq(S), NEW rows \in Seq(S), NEW n \in Nat, NEW q
  PROVE  SavedIn(n, q, table, rows) <=>
           /\ n + Len(rows) <= Len(table)
           /\ \A k \in 1..Len(rows) : table[n + k] = rows[k]
           /\ \A i \in DOMAIN table : table[i].by = q <=> i \in (n + 1)..(n + Len(rows))
<1> DEFINE l == Len(rows)
           part == SubSeq(table, n + 1, n + l)
<1>1. /\ l \in Nat /\ DOMAIN rows = 1..l /\ Len(table) \in Nat /\ DOMAIN table = 1..Len(table)
      /\ \A i \in 1..Len(table) : table[i] \in S
  BY LenProperties, ElementOfSeq
<1> SUFFICES ASSUME n + l <= Len(table)
             PROVE  part = rows <=> \A k \in 1..l : table[n + k] = rows[k]
  BY DEF SavedIn
<1> DEFINE first == n + 1
           last == n + l
<1>2. first \in Int /\ last \in Int /\ \A i \in first..last : table[i] \in S
  BY <1>1
<1>3. /\ last - first + 1 = l /\ (IF first <= last THEN l ELSE 0) = l
      /\ \A k \in 1..l : first + k - 1 = n + k
  BY <1>1
<1> HIDE DEF first, last, l
<1>4. /\ SubSeq(table, first, last) \in Seq(S)
      /\ Len(SubSeq(table, first, last)) = IF first <= last THEN last - first + 1 ELSE 0
      /\ \A k \in 1..(last - first + 1) : SubSeq(table, first, last)[k] = table[first + k - 1]
  BY <1>2, SubSeqProperties
<1>5. part \in Seq(S) /\ Len(part) = l /\ \A k \in 1..l : part[k] = table[n + k]
  BY <1>3, <1>4 DEF first, last
<1> HIDE DEF part
<1>6. ASSUME \A k \in 1..l : table[n + k] = rows[k] PROVE part = rows
  BY <1>5, <1>6, SeqEqual DEF l
<1> QED BY <1>5, <1>6

\* Rows appended to a table that has none of their call.
LEMMA SavedFirst ==
  ASSUME NEW q \in Req, NEW table \in Seq(Stored), NEW rows \in Seq(ByCall(q)), NoneBy(q, table)
  PROVE  Len(table) \in 0..Len(table \o rows) /\ SavedIn(Len(table), q, table \o rows, rows)
<1> DEFINE all == table \o rows
           n == Len(table)
           l == Len(rows)
<1>1. rows \in Seq(Stored) /\ \A k \in DOMAIN rows : rows[k].by = q
  <2>1. \A k \in 1..l : rows[k] \in ByCall(q)
    BY ElementOfSeq
  <2>2. rows \in [1..l -> Stored] /\ l \in Nat /\ DOMAIN rows = 1..l
    BY <2>1, LenProperties, IsASeq DEF ByCall
  <2> QED BY <2>1, <2>2, SeqDef DEF ByCall
<1>2. /\ all \in Seq(Stored) /\ Len(all) = n + l
      /\ \A i \in 1..(n + l) : all[i] = IF i <= n THEN table[i] ELSE rows[i - n]
  BY <1>1, ConcatProperties
<1>3. /\ n \in Nat /\ l \in Nat /\ DOMAIN table = 1..n /\ DOMAIN rows = 1..l
      /\ DOMAIN all = 1..(n + l)
  BY <1>1, <1>2, LenProperties
<1> HIDE DEF all
<1>4. \A k \in 1..l : all[n + k] = rows[k]
  BY <1>2, <1>3
<1>5. \A i \in DOMAIN all : all[i].by = q <=> i \in (n + 1)..(n + l)
  <2>1. ASSUME NEW i \in DOMAIN all, i <= n PROVE all[i].by # q /\ i \notin (n + 1)..(n + l)
    <3>1. i \in 1..n /\ all[i] = table[i]
      BY <1>2, <1>3, <2>1
    <3> QED BY <1>3, <3>1, <2>1 DEF NoneBy
  <2>2. ASSUME NEW i \in DOMAIN all, ~(i <= n) PROVE all[i].by = q /\ i \in (n + 1)..(n + l)
    <3>1. i - n \in 1..l /\ i \in (n + 1)..(n + l) /\ all[i] = rows[i - n]
      BY <1>2, <1>3, <2>2
    <3> QED BY <1>1, <1>3, <3>1
  <2> QED BY <2>1, <2>2
<1>6. n \in 0..Len(all) /\ n + l <= Len(all)
  BY <1>2, <1>3
<1>7. SavedIn(n, q, all, rows)
  BY <1>1, <1>2, <1>3, <1>4, <1>5, <1>6, SavedParts
<1> QED BY <1>6, <1>7 DEF all

\* What other calls append changes nothing for this one.
LEMMA SavedStays ==
  ASSUME NEW q \in Req, NEW table \in Seq(Stored), NEW more \in Seq(Stored), NoneBy(q, more)
  PROVE  /\ NoneBy(q, table) => NoneBy(q, table \o more)
         /\ \A rows \in Seq(Stored), n \in 0..Len(table) :
               SavedIn(n, q, table, rows) =>
                  n \in 0..Len(table \o more) /\ SavedIn(n, q, table \o more, rows)
<1> DEFINE all == table \o more
           m == Len(table)
           d == Len(more)
<1>1. /\ all \in Seq(Stored) /\ Len(all) = m + d
      /\ \A i \in 1..(m + d) : all[i] = IF i <= m THEN table[i] ELSE more[i - m]
  BY ConcatProperties
<1>2. /\ m \in Nat /\ d \in Nat /\ DOMAIN table = 1..m /\ DOMAIN more = 1..d
      /\ DOMAIN all = 1..(m + d)
  BY <1>1, LenProperties
<1> HIDE DEF all
<1>3. \A i \in 1..m : i \in DOMAIN all /\ all[i] = table[i]
  BY <1>1, <1>2
<1>4. ASSUME NEW i \in DOMAIN all, i \notin 1..m PROVE all[i].by # q
  <2>1. i - m \in 1..d /\ all[i] = more[i - m]
    BY <1>1, <1>2, <1>4
  <2> QED BY <1>2, <2>1 DEF NoneBy
<1>5. NoneBy(q, table) => NoneBy(q, all)
  BY <1>2, <1>3, <1>4 DEF NoneBy
<1>6. ASSUME NEW rows \in Seq(Stored), NEW n \in 0..m, SavedIn(n, q, table, rows)
      PROVE  n \in 0..Len(all) /\ SavedIn(n, q, all, rows)
  <2> DEFINE l == Len(rows)
  <2>1. l \in Nat /\ n \in Nat
    BY <1>2, LenProperties
  <2>2. /\ n + l <= m
        /\ \A k \in 1..l : table[n + k] = rows[k]
        /\ \A i \in DOMAIN table : table[i].by = q <=> i \in (n + 1)..(n + l)
    BY <1>6, <2>1, SavedParts
  <2> HIDE DEF l
  <2>3. n \in 0..Len(all) /\ n + l <= Len(all)
    BY <1>1, <1>2, <2>1, <2>2
  <2>4. \A k \in 1..l : all[n + k] = rows[k]
    <3> SUFFICES ASSUME NEW k \in 1..l PROVE all[n + k] = rows[k]
      OBVIOUS
    <3>1. n + k \in 1..m
      BY <1>2, <2>1, <2>2
    <3> QED BY <1>3, <2>2, <3>1
  <2>5. \A i \in DOMAIN all : all[i].by = q <=> i \in (n + 1)..(n + l)
    <3>1. ASSUME NEW i \in DOMAIN all, i \notin 1..m PROVE i \notin (n + 1)..(n + l)
      BY <1>2, <2>1, <2>2, <3>1
    <3> QED BY <1>2, <1>3, <1>4, <2>2, <3>1
  <2>6. SavedIn(n, q, all, rows)
    BY <1>1, <2>1, <2>3, <2>4, <2>5, SavedParts DEF l
  <2> QED BY <2>3, <2>6
<1> QED BY <1>5, <1>6 DEF all

\* What a request adds to the articles: what it has collected, or nothing.
Adds(r, rows) ==
  /\ articles' = articles \o rows /\ rows \in Seq(ByCall(r))
  /\ \A k \in DOMAIN rows : rows[k].title # Null => Behind(rows[k], links)

LEMMA Grown ==
  ASSUME WordInv, NEW r \in Req, Effect(r)
  PROVE  \E rows : Adds(r, rows)
<1> USE DEF Adds
<1>1. Articles(r) /\ articles \in Seq(Stored) /\ Stages
  BY DEF WordInv, Types
<1>2. CASE articles' = articles
  <2>1. articles' = articles \o <<>>
    BY <1>1, <1>2, ConcatEmptySeq
  <2>2. Adds(r, <<>>)
    BY <2>1
  <2> QED BY <2>2
<1>3. CASE /\ articles' = articles \o got[r]
           /\ kind[r] \in {"saveChinaDailyArticleSingle", "saveXSArticle"}
  BY <1>1, <1>3 DEF Articles, ArticleKinds
<1>4. CASE pc[r] = "save" /\ articles' = articles \o NewBeans(r)
  <2>1. kind[r] = "saveXSArticle"
    BY <1>1, <1>4 DEF Stages
  <2>2. NewBeans(r) \in {got[r], <<>>}
    BY DEF NewBeans
  <2>3. CASE NewBeans(r) = <<>>
    BY <1>1, <1>2, <1>4, <2>3, ConcatEmptySeq
  <2> QED BY <1>3, <1>4, <2>1, <2>2, <2>3
<1> HIDE DEF Adds
<1> QED BY <1>2, <1>3, <1>4 DEF Effect, tables, UpdateWords

LEMMA OfThisCall ==
  ASSUME NEW r \in Req, NEW rows \in Seq(ByCall(r))
  PROVE  /\ rows \in Seq(Stored)
         /\ \A q \in Req \ {r} : NoneBy(q, rows)
<1>1. rows \in [1..Len(rows) -> ByCall(r)] /\ Len(rows) \in Nat /\ DOMAIN rows = 1..Len(rows)
  BY LenProperties, IsASeq
<1>2. rows \in [1..Len(rows) -> Stored]
  BY <1>1 DEF ByCall
<1> QED BY <1>1, <1>2, SeqDef DEF ByCall, NoneBy

\* The articles, and the calls that save nothing in this step.
LEMMA ArticlesGrow ==
  ASSUME WordInv, [Next]_vars
  PROVE  /\ articles' \in Seq(Stored)
         /\ ArticlesFollowLinks'
<1>1. /\ articles \in Seq(Stored) /\ links \in Seq(Link) /\ ArticlesFollowLinks /\ Functions
  BY TypesFunctions DEF WordInv, Types
<1>2. /\ \A i \in DOMAIN articles :
            articles[i].title # Null => Behind(articles[i], links')
      /\ \A a : Behind(a, links) => Behind(a, links')
  <2>1. \A a : Behind(a, links) => Behind(a, links')
    BY <1>1, LinksStep, CopiesAgree
  <2> QED BY <1>1, <2>1 DEF ArticlesFollowLinks, Behind
<1>3. CASE articles' = articles
  BY <1>1, <1>2, <1>3 DEF ArticlesFollowLinks, Behind
<1>4. ASSUME NEW r \in Req, Effect(r)
      PROVE  articles' \in Seq(Stored) /\ ArticlesFollowLinks'
  <2>1. PICK rows : Adds(r, rows)
    BY <1>4, Grown
  <2>2. rows \in Seq(Stored)
    BY <2>1, OfThisCall DEF Adds
  <2> DEFINE all == articles \o rows
  <2>3. /\ all \in Seq(Stored)
        /\ \A i \in DOMAIN all :
              \/ i \in DOMAIN articles /\ all[i] = articles[i]
              \/ i - Len(articles) \in DOMAIN rows /\ all[i] = rows[i - Len(articles)]
    BY <1>1, <2>2, ConcatElements
  <2>4. articles' = all
    BY <2>1 DEF Adds
  <2> HIDE DEF all
  <2>5. ASSUME NEW i \in DOMAIN all, all[i].title # Null
        PROVE  Behind(all[i], links')
    BY <1>2, <2>1, <2>3, <2>5 DEF Adds
  <2> QED BY <2>3, <2>4, <2>5 DEF ArticlesFollowLinks, Behind
<1>5. CASE UNCHANGED vars
  BY <1>3, <1>5 DEF vars
<1> QED BY <1>1, <1>3, <1>4, <1>5, Effects DEF AddWord, DeleteWord, Crash, tables

LEMMA RoundsStep ==
  ASSUME WordInv, [Next]_vars, NEW q \in Req
  PROVE  Rounds(q)'
<1> DEFINE first(t, g) == Len(t) = Len(Partitions(Len(g)))
           Rest(table, g) == \E n \in 0..Len(table) : SavedIn(n, q, table, g)
<1>1. /\ articles \in Seq(Stored) /\ Functions /\ Stages /\ Rounds(q) /\ Articles(q)
      /\ articles' \in Seq(Stored)
  BY TypesFunctions, ArticlesGrow DEF WordInv, Types
<1>2. /\ (\E n \in 0..Len(articles) : SavedFrom(n, q)) <=> Rest(articles, got[q])
      /\ (\E n \in 0..Len(articles') : SavedFrom(n, q)') <=> Rest(articles', got'[q])
  BY DEF SavedFrom, SavedIn
<1> HIDE DEF first, Rest
<1>3. /\ pc[q] \in {"idle", "fetch"} => NoneBy(q, articles)
      /\ pc[q] = "save" =>
            /\ todo[q] \in Seq([id : Nat]) /\ Len(todo[q]) <= Len(Partitions(Len(got[q])))
            /\ first(todo[q], got[q]) => NoneBy(q, articles)
            /\ ~first(todo[q], got[q]) => Rest(articles, got[q])
  BY <1>1, <1>2 DEF Rounds, NoneBy, first
<1>4. SUFFICES
      /\ pc'[q] \in {"idle", "fetch"} => NoneBy(q, articles')
      /\ pc'[q] = "save" =>
            /\ todo'[q] \in Seq([id : Nat]) /\ Len(todo'[q]) <= Len(Partitions(Len(got'[q])))
            /\ first(todo'[q], got'[q]) => NoneBy(q, articles')
            /\ ~first(todo'[q], got'[q]) => Rest(articles', got'[q])
  BY <1>2 DEF Rounds, NoneBy, first
<1>5. pc[q] = "save" => got[q] \in Seq(ByCall(q)) /\ got[q] \in Seq(Stored)
  BY <1>1, OfThisCall DEF Stages, Articles, ArticleKinds
<1>6. ASSUME Same(q), NEW rows \in Seq(Stored), articles' = articles \o rows, NoneBy(q, rows)
      PROVE  /\ pc'[q] \in {"idle", "fetch"} => NoneBy(q, articles')
             /\ pc'[q] = "save" =>
                   /\ todo'[q] \in Seq([id : Nat]) /\ Len(todo'[q]) <= Len(Partitions(Len(got'[q])))
                   /\ first(todo'[q], got'[q]) => NoneBy(q, articles')
                   /\ ~first(todo'[q], got'[q]) => Rest(articles', got'[q])
  <2>1. NoneBy(q, articles) => NoneBy(q, articles')
    BY <1>1, <1>6, SavedStays
  <2>2. ASSUME pc[q] = "save", Rest(articles, got[q]) PROVE Rest(articles', got'[q])
    <3>1. PICK n \in 0..Len(articles) : SavedIn(n, q, articles, got[q])
      BY <2>2 DEF Rest
    <3>2. n \in 0..Len(articles \o rows) /\ SavedIn(n, q, articles \o rows, got[q])
      BY <1>1, <1>5, <1>6, <2>2, <3>1, SavedStays
    <3> QED BY <1>6, <3>2 DEF Rest, Same
  <2> QED BY <1>3, <1>6, <2>1, <2>2 DEF Same
<1>7. ASSUME Same(q), articles' = articles
      PROVE  /\ pc'[q] \in {"idle", "fetch"} => NoneBy(q, articles')
             /\ pc'[q] = "save" =>
                   /\ todo'[q] \in Seq([id : Nat]) /\ Len(todo'[q]) <= Len(Partitions(Len(got'[q])))
                   /\ first(todo'[q], got'[q]) => NoneBy(q, articles')
                   /\ ~first(todo'[q], got'[q]) => Rest(articles', got'[q])
  BY <1>3, <1>7 DEF Same
<1>8. ASSUME NEW r \in Req \ {q}, Effect(r) PROVE Same(q) /\ \E rows : Adds(r, rows)
  BY <1>8, Grown DEF Effect
<1>9. CASE \E r \in Req \ {q} : Effect(r)
  <2>1. PICK r \in Req \ {q} : Effect(r)
    BY <1>9
  <2>2. PICK rows : Adds(r, rows)
    BY <1>8, <2>1
  <2>3. rows \in Seq(Stored) /\ NoneBy(q, rows) /\ articles' = articles \o rows
    BY <2>1, <2>2, OfThisCall DEF Adds
  <2> QED BY <1>6, <1>8, <2>1, <2>3
<1>10. CASE pc'[q] \in {"done", "failed", "extends", "sentences"}
  BY <1>10
<1>11. CASE pc[q] = "idle" /\ pc'[q] \in {"idle", "fetch"} /\ articles' = articles
  BY <1>3, <1>11
<1>12. CASE pc[q] = "fetch" /\ pc'[q] = "fetch" /\ articles' = articles
  BY <1>3, <1>12
<1>13. CASE /\ pc[q] = "fetch" /\ pc'[q] = "save" /\ kind[q] = "saveXSArticle"
            /\ got'[q] = got[q] /\ todo'[q] = Partitions(Len(got[q])) /\ articles' = articles
  <2>1. Len(got[q]) \in Nat
    BY <1>1, <1>13, LenProperties DEF Articles, ArticleKinds
  <2> DEFINE n == Len(got[q])
  <2> HIDE DEF n
  <2>2. Partitions(n) \in Seq([id : Nat]) /\ Len(Partitions(n)) \in Nat
    BY <2>1, PartitionCount DEF n
  <2>3. NoneBy(q, articles')
    BY <1>3, <1>13
  <2> QED BY <1>13, <2>2, <2>3 DEF first, n
<1>14. CASE /\ pc[q] = "save" /\ pc'[q] = "save" /\ todo[q] # <<>> /\ todo'[q] = Tail(todo[q])
            /\ got'[q] = got[q] /\ articles' = articles \o NewBeans(q)
  <2> DEFINE t == todo[q]
             g == got[q]
  <2>1. /\ t \in Seq([id : Nat]) /\ g \in Seq(ByCall(q)) /\ g \in Seq(Stored)
        /\ t # <<>> /\ Len(t) <= Len(Partitions(Len(g)))
    BY <1>3, <1>5, <1>14
  <2> HIDE DEF t, g
  <2>2. Tail(t) \in Seq([id : Nat]) /\ Len(Tail(t)) = Len(t) - 1 /\ Len(t) \in Nat \ {0}
    BY <2>1, TailParts
  <2>3. Len(Partitions(Len(g))) \in Nat
    BY <2>1, LenProperties, PartitionCount
  <2>4. ~first(Tail(t), g) /\ Len(Tail(t)) <= Len(Partitions(Len(g)))
    BY <2>1, <2>2, <2>3 DEF first
  <2>5. Rest(articles', g)
    <3>1. CASE first(t, g)
      <4>1. articles' = articles \o g
        BY <1>14, <3>1 DEF NewBeans, first, t, g
      <4>2. NoneBy(q, articles)
        BY <1>3, <1>14, <3>1 DEF t, g
      <4>3. Len(articles) \in 0..Len(articles \o g) /\ SavedIn(Len(articles), q, articles \o g, g)
        BY <1>1, <2>1, <4>2, SavedFirst
      <4> QED BY <4>1, <4>3 DEF Rest
    <3>2. CASE ~first(t, g)
      <4>1. articles' = articles
        BY <1>1, <1>14, <3>2, ConcatEmptySeq DEF NewBeans, first, t, g
      <4>2. Rest(articles, g)
        BY <1>3, <1>14, <3>2 DEF t, g
      <4> QED BY <4>1, <4>2
    <3> QED BY <3>1, <3>2
  <2> QED BY <1>14, <2>2, <2>4, <2>5 DEF t, g
<1>15. CASE Effect(q)
  <2>1. CASE (Over(q) \/ Starting(q) \/ Reads(q)) /\ UNCHANGED tables
    BY <1>10, <1>11, <1>12, <2>1 DEF Over, Starting, Reads, tables
  <2>2. CASE UpdateWords(q) /\ Functions'
    BY <1>1, <1>10, <2>2 DEF UpdateWords, Functions
  <2>3. CASE Over(q)
    BY <1>10, <2>3 DEF Over
  <2>4. CASE pc[q] = "extends" /\ Turns(q)
    BY <1>10, <2>4 DEF Turns
  <2>5. CASE pc[q] = "fetch" /\ Turns(q) /\ UNCHANGED tables
    BY <1>10, <1>13, <2>5 DEF Turns, tables
  <2>6. CASE pc[q] = "save" /\ Turns(q) /\ articles' = articles \o NewBeans(q)
    BY <1>14, <2>6 DEF Turns
  <2> QED BY <1>15, <2>1, <2>2, <2>3, <2>4, <2>5, <2>6 DEF Effect
<1>16. CASE UNCHANGED vars
  BY <1>7, <1>16 DEF vars, Same
<1>17. CASE (AddWord \/ DeleteWord) /\ \A p \in Req : Same(p)
  BY <1>7, <1>17 DEF AddWord, DeleteWord
<1>18. CASE /\ Crash /\ pc'[q] \notin Running /\ pc'[q] \in {"failed", pc[q]}
  <2>1. articles' = articles
    BY <1>18 DEF Crash, tables
  <2> QED BY <1>10, <1>11, <1>18, <2>1 DEF Running
<1> QED BY <1>1, <1>9, <1>15, <1>16, <1>17, <1>18, Effects

-----------------------------------------------------------------------------
(* Entries and sentences *)

\* The calls that may store sentences hold these keys.
ClaimsOn(at, keys, entries, stored) ==
  /\ \A s \in stored : SubSeq(s, 1, 3) \in entries
  /\ \A r \in at : /\ keys[r] \subseteq entries
                   /\ \A s \in stored : SubSeq(s, 1, 3) \notin keys[r]
  /\ \A r, q \in at : r # q => keys[r] \cap keys[q] = {}

LEMMA ClaimsStep ==
  ASSUME WordInv, [Next]_vars
  PROVE  Claims'
<1> DEFINE at == {q \in Req : pc[q] = "sentences"}
           K == [q \in Req |-> ToSet(ExtendKeys(q))]
<1>1. Functions /\ Stages /\ (\A q \in Req : kind[q] = "dictWordEn" => LooksUp(q))
  BY TypesFunctions DEF WordInv
<1>2. ClaimsOn(at, K, extends, sentences)
  BY DEF WordInv, Claims, ClaimsOn
<1>3. SUFFICES ClaimsOn(at', K', extends', sentences')
  BY DEF Claims, ClaimsOn
<1>4. ASSUME NEW q \in Req, got'[q] = got[q] PROVE K'[q] = K[q]
  BY <1>4 DEF ExtendKeys
<1>5. \A q \in Req : (q \in at <=> pc[q] = "sentences") /\ (q \in at' <=> pc'[q] = "sentences")
  OBVIOUS
<1>6. at \subseteq Req /\ at' \subseteq Req /\ \A q \in Req : K[q] = ToSet(ExtendKeys(q))
  OBVIOUS
<1> HIDE DEF at, K
<1>7. ASSUME extends' = extends, sentences' = sentences,
             \A q \in Req : pc'[q] = "sentences" => pc[q] = "sentences" /\ got'[q] = got[q]
      PROVE  ClaimsOn(at', K', extends', sentences')
  <2>1. \A q \in at' : q \in at /\ K'[q] = K[q]
    BY <1>4, <1>5, <1>6, <1>7
  <2> QED BY <1>2, <1>7, <2>1 DEF ClaimsOn
<1>8. ASSUME NEW r \in Req, Effect(r) PROVE ClaimsOn(at', K', extends', sentences')
  <2>1. \A q \in Req \ {r} : Same(q)
    BY <1>8 DEF Effect
  <2>2. CASE extends' = extends /\ sentences' = sentences /\ pc'[r] # "sentences"
    BY <1>7, <2>1, <2>2 DEF Same
  <2>3. CASE /\ pc[r] = "extends" /\ Turns(r) /\ Insertable(ExtendKeys(r), extends)
             /\ extends' = extends \cup ToSet(ExtendKeys(r)) /\ sentences' = sentences
    <3>1. K[r] \cap extends = {} /\ extends' = extends \cup K[r] /\ K'[r] = K[r]
      BY <1>4, <1>6, <2>3 DEF Insertable, Turns
    <3>2. \A q \in at' : K'[q] = K[q] /\ (q \in at \/ q = r)
      BY <1>4, <1>5, <1>6, <2>1, <3>1 DEF Same
    <3> QED BY <1>2, <2>3, <3>1, <3>2 DEF ClaimsOn
  <2>4. CASE /\ pc[r] = "sentences" /\ Over(r) /\ extends' = extends
             /\ sentences' = sentences \cup ToSet(SentenceKeys(r))
    <3>1. \A s \in ToSet(SentenceKeys(r)) : SubSeq(s, 1, 3) \in K[r]
      BY <1>1, <1>6, <2>4, KeysOfCall DEF Stages
    <3>2. r \in at /\ \A q \in at' : K'[q] = K[q] /\ q \in at /\ q # r
      BY <1>4, <1>5, <1>6, <2>1, <2>4 DEF Same, Over
    <3> QED BY <1>2, <2>4, <3>1, <3>2 DEF ClaimsOn
  <2>5. CASE UpdateWords(r)
    <3>1. extends' = extends /\ sentences' = sentences /\ pc'[r] = "extends"
      BY <1>1, <2>5 DEF UpdateWords, Functions
    <3> QED BY <2>2, <3>1
  <2>6. CASE Over(r) /\ extends' = extends /\ sentences' = sentences
    BY <2>2, <2>6 DEF Over
  <2>7. CASE (Starting(r) \/ Reads(r) \/ (pc[r] \in {"fetch", "save"} /\ Turns(r)))
             /\ extends' = extends /\ sentences' = sentences
    <3>1. pc'[r] # "sentences"
      BY <1>1, <2>7 DEF Starting, Reads, Turns
    <3> QED BY <2>2, <2>7, <3>1
  <2> QED BY <1>8, <2>3, <2>4, <2>5, <2>6, <2>7 DEF Effect, tables
<1>9. CASE UNCHANGED vars
  BY <1>7, <1>9 DEF vars
<1>10. CASE (AddWord \/ DeleteWord) /\ \A q \in Req : Same(q)
  BY <1>7, <1>10 DEF AddWord, DeleteWord, Same
<1>11. CASE Crash /\ \A q \in Req : pc'[q] \notin Running
  BY <1>7, <1>11 DEF Crash, tables, Running
<1> QED BY <1>1, <1>8, <1>9, <1>10, <1>11, Effects

\* No step gives a word back its status.
WordsKept ==
  \A i \in DOMAIN words : i \in DOMAIN words' /\ (~words[i].status => ~words'[i].status)

LEMMA WordsStep ==
  ASSUME words \in Seq(Word), Functions, [Next]_vars
  PROVE  words' \in Seq(Word) /\ WordsKept
<1> DEFINE n == Len(words)
<1>1. n \in Nat /\ DOMAIN words = 1..n /\ \A i \in 1..n : words[i] \in Word
  BY LenProperties, ElementOfSeq
<1>2. CASE words' = words
  BY <1>2 DEF WordsKept
<1>3. ASSUME NEW r \in Req, UpdateWords(r) PROVE words' \in Seq(Word) /\ WordsKept
  <2>1. words' = [i \in 1..n |-> UpdatedWord(i, r)]
    BY <1>1, <1>3 DEF UpdateWords
  <2> HIDE DEF n
  <2>2. ASSUME NEW i \in 1..n
        PROVE  UpdatedWord(i, r) \in Word /\ UpdatedWord(i, r).status = words[i].status
    <3> DEFINE w == words[i]
               v == [w EXCEPT !.sound = TRUE]
    <3>1. UpdatedWord(i, r) \in {w, v}
      BY DEF UpdatedWord
    <3>2. w \in Word
      BY <1>1
    <3> HIDE DEF w
    <3>3. v \in Word /\ v.status = w.status
      BY <3>2 DEF Word
    <3> QED BY <3>1, <3>2, <3>3 DEF w
  <2>3. words' \in [1..n -> Word]
    BY <2>1, <2>2
  <2> QED BY <1>1, <2>1, <2>2, <2>3, FunctionIsSeq DEF WordsKept
<1>4. CASE AddWord
  <2> DEFINE w == [status |-> TRUE, sound |-> FALSE]
  <2>1. words' = Append(words, w) /\ w \in Word
    BY <1>4 DEF AddWord, Word
  <2> HIDE DEF w, n
  <2>2. /\ words' \in Seq(Word) /\ Len(words') = n + 1
        /\ \A i \in 1..n : words'[i] = words[i]
    BY <2>1, AppendProperties DEF n
  <2>3. DOMAIN words' = 1..(n + 1)
    BY <2>2, LenProperties
  <2> QED BY <1>1, <2>2, <2>3 DEF WordsKept
<1>5. CASE DeleteWord
  <2>1. PICK i \in DOMAIN words : words' = [words EXCEPT ![i].status = FALSE]
    BY <1>5 DEF DeleteWord
  <2> DEFINE w == words[i]
             v == [w EXCEPT !.status = FALSE]
  <2>2. words' = [words EXCEPT ![i] = v]
    BY <2>1
  <2>3. w \in Word
    BY <1>1
  <2>4. v \in Word /\ ~v.status
    <3> HIDE DEF w
    <3> QED BY <2>3 DEF Word
  <2> HIDE DEF w, v, n
  <2>5. words \in [1..n -> Word]
    BY <1>1 DEF n
  <2>6. words' \in [1..n -> Word] /\ words'[i] = v /\ \A j \in 1..n : j # i => words'[j] = words[j]
    BY <1>1, <2>2, <2>4, <2>5
  <2> QED BY <1>1, <2>4, <2>6, FunctionIsSeq DEF WordsKept
<1>6. ASSUME NEW r \in Req, Effect(r) PROVE words' \in Seq(Word) /\ WordsKept
  BY <1>2, <1>3, <1>6 DEF Effect, tables
<1>7. CASE UNCHANGED vars
  BY <1>2, <1>7 DEF vars
<1>8. CASE Crash
  BY <1>2, <1>8 DEF Crash, tables
<1> QED BY <1>4, <1>5, <1>6, <1>7, <1>8, Effects

LEMMA TypesStep ==
  ASSUME WordInv, [Next]_vars
  PROVE  Types'
<1>1. Types /\ Functions /\ Stages
  BY TypesFunctions DEF WordInv
<1>2. words' \in Seq(Word) /\ links' \in Seq(Link) /\ articles' \in Seq(Stored)
  BY <1>1, WordsStep, LinksStep, ArticlesGrow DEF Types
<1>3. Functions' /\ \A q \in Req : Moves(q)
  BY <1>1, AllMove
<1>4. ASSUME NEW q \in Req
      PROVE  /\ kind'[q] \in Kind \cup {Null}
             /\ pc'[q] \in Running \cup {"idle", "done", "failed"}
             /\ pc'[q] = "fetch" => kind'[q] \in Kind
  <2>1. /\ kind[q] \in Kind \cup {Null} /\ pc[q] \in Running \cup {"idle", "done", "failed"}
        /\ pc[q] = "fetch" => kind[q] \in Kind
    BY <1>1 DEF Types
  <2>2. CASE Same(q)
    BY <2>1, <2>2 DEF Same
  <2>3. CASE Over(q) \/ Starting(q)
    BY <2>3 DEF Over, Starting, Running
  <2>4. CASE Reads(q) \/ Turns(q)
    BY <2>1, <2>4 DEF Reads, Turns, Running
  <2>5. CASE pc'[q] \notin Running /\ pc'[q] \in {"failed", pc[q]} /\ kind'[q] = Null
    BY <2>1, <2>5
  <2> QED BY <1>3, <2>2, <2>3, <2>4, <2>5 DEF Moves
<1>5. kind' \in [Req -> Kind \cup {Null}] /\ pc' \in [Req -> Running \cup {"idle", "done", "failed"}]
  BY <1>3, <1>4 DEF Functions
<1> QED BY <1>2, <1>3, <1>4, <1>5 DEF Types, Functions

-----------------------------------------------------------------------------
(* The invariant holds *)

LEMMA WordInvInit == Init => WordInv
<1> SUFFICES ASSUME Init PROVE WordInv
  OBVIOUS
<1>1. /\ words = <<>> /\ links = <<>> /\ articles = <<>> /\ extends = {} /\ sentences = {}
      /\ \A r \in Req : pc[r] = "idle" /\ kind[r] = Null /\ todo[r] = <<>> /\ got[r] = <<>>
  BY DEF Init
<1>2. Types
  BY DEF Init, Types, Running
<1>3. Stages /\ Claims /\ ArticlesFollowLinks
  BY <1>1 DEF Stages, Running, Claims, ArticlesFollowLinks
<1>4. ASSUME NEW r \in Req PROVE LooksUp(r) /\ Classifies(r)
  <2>1. todo[r] = <<>> /\ got[r] = <<>>
    BY <1>1
  <2> DEFINE t == todo[r]
             g == got[r]
  <2>2. /\ DOMAIN t = {} /\ DOMAIN g = {}
        /\ t \in Seq([id : Nat]) /\ g \in Seq([word : Nat, page : DictPages])
        /\ t \in Seq([id : Nat, row : Link]) /\ g \in Seq([id : Nat, row : Link])
    BY <2>1
  <2> HIDE DEF t, g
  <2> QED BY <2>2 DEF LooksUp, Classifies, t, g
<1>5. ASSUME NEW r \in Req PROVE Collects(r)
  <2>1. got[r] = <<>>
    BY <1>1
  <2> QED BY <2>1 DEF Collects, IsInjective
<1>6. ASSUME NEW r \in Req PROVE Articles(r) /\ Rounds(r)
  <2>1. todo[r] = <<>> /\ got[r] = <<>> /\ articles = <<>> /\ pc[r] = "idle"
    BY <1>1
  <2> DEFINE t == todo[r]
             g == got[r]
  <2>2. /\ DOMAIN t = {} /\ DOMAIN g = {} /\ DOMAIN articles = {}
        /\ t \in Seq([id : Nat, row : Link]) /\ g \in Seq(ByCall(r))
    BY <2>1
  <2> HIDE DEF t, g
  <2> QED BY <2>1, <2>2 DEF Articles, Rounds, t, g
<1> QED BY <1>1, <1>2, <1>3, <1>4, <1>5, <1>6 DEF WordInv

LEMMA WordInvStep == WordInv /\ [Next]_vars => WordInv'
<1> SUFFICES ASSUME WordInv, [Next]_vars PROVE WordInv'
  OBVIOUS
<1>1. Types' /\ Stages' /\ Claims' /\ ChinaLinks' /\ ArticlesFollowLinks'
  BY TypesStep, StagesStep, ClaimsStep, LinksStep, ArticlesGrow
<1>2. ASSUME NEW q \in Req
      PROVE  /\ kind'[q] = "dictWordEn" => LooksUp(q)'
             /\ kind'[q] = "updateChinaDailyArticleType" => Classifies(q)'
             /\ Collects(q)' /\ Articles(q)' /\ Rounds(q)'
  BY LooksUpStep, ClassifiesStep, CollectsStep, ArticlesStep, RoundsStep
<1> QED BY <1>1, <1>2 DEF WordInv, ChinaLinks

LEMMA WordInvAlways == Spec => []WordInv
  BY WordInvInit, WordInvStep, PTL DEF Spec

-----------------------------------------------------------------------------
(* The properties *)

(* Over every interleaving and crash of calls an article agrees with its   *)
(* link, whatever filter its call listed the links by: it is stored from a *)
(* row read before its page, while calls that hold old rows classify the   *)
(* links.  Only the classification being a function of the text, written   *)
(* back by id, keeps it so.                                                *)
THEOREM StoredTogetherAlways == Spec => []StoredTogether
<1>1. ASSUME WordInv PROVE StoredTogether
  <2>1. /\ words \in Seq(Word) /\ links \in Seq(Link) /\ articles \in Seq(Stored)
        /\ kind \in [Req -> Kind \cup {Null}]
        /\ pc \in [Req -> Running \cup {"idle", "done", "failed"}]
        /\ \A r \in Req : pc[r] = "fetch" => kind[r] \in Kind
    BY <1>1 DEF WordInv, Types
  <2>2. /\ \A i \in DOMAIN words : words[i] \in Word
        /\ \A i \in DOMAIN links : links[i] \in Link
        /\ \A i \in DOMAIN articles : articles[i] \in Stored
    BY <2>1, LenProperties, ElementOfSeq
  <2>3. TypeOK
    BY <2>1, <2>2 DEF TypeOK, Word, Link, Stored
  <2> QED BY <1>1, <2>3 DEF StoredTogether, WordInv
<1> QED BY <1>1, WordInvAlways, PTL

(* Of two calls of dictWordEn that look up the same word the one whose     *)
(* entries are stored always gets its sentences stored too: neither their  *)
(* key nor the foreign key refuses them; and a call is                     *)
(* refused only for a word that had entries before: what the dictionary    *)
(* repeats within a word never refuses it.                                 *)
THEOREM RefusedForStoredWordsAlways == Spec => []RefusedForStoredWords
<1>1. ASSUME WordInv PROVE RefusedForStoredWords
  <2>1. Stages /\ Claims /\ \A r \in Req : kind[r] = "dictWordEn" => LooksUp(r)
    BY <1>1 DEF WordInv
  <2>2. ASSUME NEW r \in Req, pc[r] \in {"extends", "sentences"} PROVE LooksUp(r)
    BY <2>1, <2>2 DEF Stages
  <2>3. ASSUME NEW r \in Req, pc[r] = "sentences"
        PROVE  Insertable(SentenceKeys(r), sentences) /\ EntriesStored(r)
    <3>1. /\ \A s \in sentences : SubSeq(s, 1, 3) \notin ToSet(ExtendKeys(r))
          /\ ToSet(ExtendKeys(r)) \subseteq extends
      BY <2>1, <2>3 DEF Claims
    <3>2. /\ IsInjective(SentenceKeys(r))
          /\ \A s \in ToSet(SentenceKeys(r)) : SubSeq(s, 1, 3) \in ToSet(ExtendKeys(r))
      BY <2>2, <2>3, KeysOfCall
    <3>3. EntriesStored(r)
      BY <3>1, <3>2 DEF EntriesStored
    <3> QED BY <3>1, <3>2, <3>3 DEF Insertable
  <2>4. ASSUME NEW r \in Req, pc[r] = "extends", ~Insertable(ExtendKeys(r), extends)
        PROVE  \E key \in extends, k \in DOMAIN got[r] : key[1] = got[r][k].word
    <3>1. /\ IsInjective(ExtendKeys(r))
          /\ \A key \in ToSet(ExtendKeys(r)) : \E k \in DOMAIN got[r] : key[1] = got[r][k].word
      BY <2>2, <2>4, KeysOfCall
    <3> QED BY <2>4, <3>1 DEF Insertable
  <2> QED BY <2>3, <2>4 DEF RefusedForStoredWords, SentencesAreNeverRefused, OnlyStoredWordsRefuse
<1> QED BY <1>1, WordInvAlways, PTL

(* saveXSArticle saves its whole list in every round, and still each       *)
(* article of a finished call stands in the table once, the list in one    *)
(* piece and in its order, whatever other calls save between the rounds;   *)
(* and saveXSArticleLink collects each title once, though the list of the  *)
(* site shifts between its pages.                                          *)
THEOREM SavedOnceAlways == Spec => []SavedOnce
<1>1. ASSUME WordInv, NEW r \in Req, pc[r] = "save", todo[r] = <<>>
      PROVE  \E n \in 0..Len(articles) : SavedFrom(n, r)
  <2>1. /\ articles \in Seq(Stored) /\ Rounds(r) /\ got[r] \in Seq(ByCall(r))
    BY <1>1 DEF WordInv, Types, Stages, Articles, ArticleKinds
  <2>2. CASE Len(todo[r]) # Len(Partitions(Len(got[r])))
    BY <1>1, <2>1, <2>2 DEF Rounds
  <2>3. CASE Len(todo[r]) = Len(Partitions(Len(got[r])))
    <3> DEFINE n == Len(got[r])
    <3>1. n \in Nat /\ Len(todo[r]) = 0
      BY <1>1, <2>1, LenProperties
    <3> HIDE DEF n
    <3>2. n = 0
      BY <2>3, <3>1, PartitionCount DEF n
    <3>3. got[r] = <<>> /\ \A i \in DOMAIN articles : articles[i].by # r
      BY <1>1, <2>1, <2>3, <3>2, EmptySeq DEF Rounds, n
    <3>4. Len(articles) \in Nat
      BY <2>1, LenProperties
    <3>5. SubSeq(articles, 1, 0) = <<>>
      BY SubSeqEmpty
    <3>6. SavedFrom(0, r)
      BY <3>3, <3>4, <3>5 DEF SavedFrom
    <3> QED BY <3>4, <3>6
  <2> QED BY <2>2, <2>3
<1>2. ASSUME WordInv PROVE SavedOnce
  BY <1>1, <1>2 DEF SavedOnce, ArticlesSavedOnce, XsTitlesOnce, WordInv, Collects
<1> QED BY <1>2, WordInvAlways, PTL

(* No copy of a row that a call writes back undoes what happened           *)
(* meanwhile: a word deleted while dictWordEn holds it stays deleted, and  *)
(* a link once classified is never changed again, also by a call that read *)
(* it before.                                                              *)
THEOREM ChangesStayAlways == Spec => ChangesStay
<1>1. ASSUME WordInv, [Next]_vars PROVE WordsKept /\ LinksKept
  BY <1>1, WordsStep, LinksStep, TypesFunctions DEF WordInv, Types
<1>2. ASSUME WordInv, [Next]_vars
      PROVE  [\A i \in DOMAIN words : ~words[i].status => ~words'[i].status]_vars
  BY <1>1, <1>2 DEF WordsKept
<1>3. ASSUME WordInv, [Next]_vars
      PROVE  [\A i \in DOMAIN links : links[i].type # 0 => links'[i] = links[i]]_vars
  BY <1>1, <1>3 DEF LinksKept
<1>4. Spec => DeletedStaysDeleted
  BY <1>2, WordInvAlways, PTL DEF Spec, DeletedStaysDeleted
<1>5. Spec => ClassifiedStay
  BY <1>3, WordInvAlways, PTL DEF Spec, ClassifiedStay
<1> QED BY <1>4, <1>5 DEF ChangesStay
=============================================================================
