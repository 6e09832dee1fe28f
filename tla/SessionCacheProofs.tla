------------------------- MODULE SessionCacheProofs -------------------------
(***************************************************************************)
(* Proofs about SessionCache, for every set of nodes, sessions and         *)
(* lookups and every value of the bounds.                                  *)
(***************************************************************************)
EXTENDS SessionCache, TLAPS

(* Mailboxes: what Append and Tail do to Has and Once. *)

\* Appending m adds m and nothing else.
LEMMA HasAppend ==
    ASSUME NEW S, NEW s \in Seq(S), NEW m \in S, NEW x
    PROVE  Has(Append(s, m), x) <=> Has(s, x) \/ m = x
BY DEF Has

\* A non-empty box holds its head and what its tail holds.
LEMMA HasTail ==
    ASSUME NEW S, NEW s \in Seq(S), s # <<>>, NEW x
    PROVE  Has(s, x) <=> Head(s) = x \/ Has(Tail(s), x)
<1>1. ASSUME Has(s, x), Head(s) # x  PROVE Has(Tail(s), x)
    <2>1. PICK i \in 1 .. Len(s) : s[i] = x
        BY <1>1 DEF Has
    <2>2. i # 1 /\ i - 1 \in 1 .. Len(Tail(s)) /\ Tail(s)[i - 1] = x
        BY <1>1, <2>1
    <2>3. QED BY <2>2 DEF Has
<1>2. ASSUME Head(s) = x  PROVE Has(s, x)
    BY <1>2 DEF Has
<1>3. ASSUME Has(Tail(s), x)  PROVE Has(s, x)
    <2>1. PICK i \in 1 .. Len(Tail(s)) : Tail(s)[i] = x
        BY <1>3 DEF Has
    <2>2. i + 1 \in 1 .. Len(s) /\ s[i + 1] = x
        BY <2>1
    <2>3. QED BY <2>2 DEF Has
<1>4. QED BY <1>1, <1>2, <1>3

\* A message that is not there yet can be appended once.
LEMMA OnceAppend ==
    ASSUME NEW S, NEW s \in Seq(S), NEW m \in S, NEW x,
           Once(s, x), m = x => ~ Has(s, x)
    PROVE  Once(Append(s, m), x)
BY DEF Once, Has

\* Taking the head keeps the other messages unique.
LEMMA OnceTail ==
    ASSUME NEW S, NEW s \in Seq(S), s # <<>>, NEW x, Once(s, x)
    PROVE  Once(Tail(s), x) /\ (Head(s) = x => ~ Has(Tail(s), x))
<1>1. \A i \in 1 .. Len(Tail(s)) : i + 1 \in 1 .. Len(s) /\ Tail(s)[i] = s[i + 1]
    OBVIOUS
<1>2. Once(Tail(s), x)
    BY <1>1 DEF Once
<1>3. ASSUME Head(s) = x, Has(Tail(s), x)  PROVE FALSE
    <2>1. PICK i \in 1 .. Len(Tail(s)) : Tail(s)[i] = x
        BY <1>3 DEF Has
    <2>2. s[i + 1] = x /\ s[1] = x /\ 1 \in 1 .. Len(s) /\ i + 1 \in 1 .. Len(s)
        BY <1>1, <1>3, <2>1
    <2>3. QED BY <2>2, <2>1 DEF Once
<1>4. QED BY <1>2, <1>3

-----------------------------------------------------------------------------
(* Type correctness. *)

\* Every message the model sends is a Command or a ReplicatorCommand.
LEMMA MessageTypes ==
    ASSUME NEW k \in Session, NEW r \in Request, NEW v \in 1 .. MaxPuts,
           NEW b \in BOOLEAN
    PROVE  /\ PutInCache(k, v) \in Command
           /\ Evict(k) \in Command
           /\ Terminated(k) \in Command
           /\ GetFromCache(k, r) \in Command
           /\ GetSuccess(k, r, b) \in Command
           /\ NotFound(k, r) \in Command
           /\ UpdatePut(k, v) \in ReplicatorCommand
           /\ UpdateRemove(k) \in ReplicatorCommand
           /\ ReadLocal(k, r) \in ReplicatorCommand
BY DEF PutInCache, Evict, Terminated, GetFromCache, GetSuccess, NotFound,
       UpdatePut, UpdateRemove, ReadLocal, Command, ReplicatorCommand

\* The message a handler takes from the mailbox, by its type.
LEMMA ReceivedMessage ==
    ASSUME TypeOK, NEW n \in Node, mailbox[n] # <<>>
    PROVE  LET m == Head(mailbox[n]) IN
           /\ m \in Command
           /\ m.key \in Session
           /\ m.type = "PutInCache" =>
                  m.value \in 1 .. MaxPuts /\ m = PutInCache(m.key, m.value)
           /\ m.type = "Evict" => m = Evict(m.key)
           /\ m.type = "InternalSessionActorTerminated" => m = Terminated(m.key)
           /\ m.type \in {"GetFromCache", "GetSuccess", "NotFound"} =>
                  m.replyTo \in Request
           /\ m.type = "GetSuccess" => m.found \in BOOLEAN
           /\ Tail(mailbox[n]) \in Seq(Command)
<1> DEFINE m == Head(mailbox[n])
<1>1. mailbox[n] \in Seq(Command)
    BY DEF TypeOK
<1>2. m \in Command /\ Tail(mailbox[n]) \in Seq(Command)
    BY <1>1
<1> HIDE DEF m
<1>3. /\ m.key \in Session
      /\ m.type = "PutInCache" =>
             m.value \in 1 .. MaxPuts /\ m = PutInCache(m.key, m.value)
      /\ m.type = "Evict" => m = Evict(m.key)
      /\ m.type = "InternalSessionActorTerminated" => m = Terminated(m.key)
      /\ m.type \in {"GetFromCache", "GetSuccess", "NotFound"} =>
             m.replyTo \in Request
      /\ m.type = "GetSuccess" => m.found \in BOOLEAN
    BY <1>2 DEF Command, PutInCache, Evict, Terminated
<1>4. QED BY <1>2, <1>3 DEF m

\* The message the replicator serves, by its operation.
LEMMA ServedMessage ==
    ASSUME TypeOK, NEW n \in Node, replicatorBox[n] # <<>>
    PROVE  LET u == Head(replicatorBox[n]) IN
           /\ u.key \in Session
           /\ u.op = "put" => u.dot \in 1 .. MaxPuts
           /\ u.op = "get" => u.replyTo \in Request
           /\ Tail(replicatorBox[n]) \in Seq(ReplicatorCommand)
<1> DEFINE u == Head(replicatorBox[n])
<1>1. replicatorBox[n] \in Seq(ReplicatorCommand)
    BY DEF TypeOK
<1>2. u \in ReplicatorCommand /\ Tail(replicatorBox[n]) \in Seq(ReplicatorCommand)
    BY <1>1
<1> HIDE DEF u
<1>3. /\ u.key \in Session
      /\ u.op = "put" => u.dot \in 1 .. MaxPuts
      /\ u.op = "get" => u.replyTo \in Request
    BY <1>2 DEF ReplicatorCommand
<1>4. QED BY <1>2, <1>3 DEF u

\* What refreshSessionExpiration leaves is well typed.
LEMMA RefreshType ==
    ASSUME TypeOK, NEW n \in Node, NEW k \in Session,
           refreshSessionExpiration(n, k)
    PROVE  /\ children' \in [Node -> SUBSET Session]
           /\ child' \in [Node -> [Session -> ChildState]]
           /\ refreshBox' \in [Node -> [Session -> Nat]]
           /\ timer' \in [Node -> [Session -> BOOLEAN]]
<1>1. CASE k \in children[n]
    <2>1. /\ children' = children /\ child' = child /\ timer' = timer
          /\ \/ refreshBox' = refreshBox
             \/ refreshBox' = [refreshBox EXCEPT ![n][k] = @ + 1]
        BY <1>1 DEF refreshSessionExpiration
    <2>2. refreshBox \in [Node -> [Session -> Nat]]
        BY DEF TypeOK
    <2>3. [refreshBox EXCEPT ![n][k] = @ + 1] \in [Node -> [Session -> Nat]]
        BY <2>2
    <2>4. refreshBox' \in [Node -> [Session -> Nat]]
        BY <2>1, <2>2, <2>3
    <2>5. QED BY <2>1, <2>4 DEF TypeOK
<1>2. CASE k \notin children[n]
    <2>1. /\ children' = [children EXCEPT ![n] = @ \cup {k}]
          /\ child' = [child EXCEPT ![n][k] = "running"]
          /\ timer' = [timer EXCEPT ![n][k] = TRUE]
          /\ refreshBox' = refreshBox
        BY <1>2 DEF refreshSessionExpiration
    <2>2. "running" \in ChildState
        BY DEF ChildState
    <2>3. child' \in [Node -> [Session -> ChildState]]
        BY <2>1, <2>2 DEF TypeOK
    <2>4. timer' \in [Node -> [Session -> BOOLEAN]]
        BY <2>1 DEF TypeOK
    <2>5. QED BY <2>1, <2>3, <2>4 DEF TypeOK
<1>3. QED BY <1>1, <1>2

\* And an answered lookup.
LEMMA ReplyType ==
    ASSUME TypeOK, NEW r \in Request, NEW a \in {"found", "absent"}, Reply(r, a)
    PROVE  status' \in [Request -> Status]
BY DEF TypeOK, Reply, Status

\* Type correctness is an invariant: no handler leaves the data the code
\* declares (SessionCache.scala:44-94, 135-151).
THEOREM TypeCorrect == Spec => []TypeOK
<1>1. Init => TypeOK
    BY NoneAssumption, BoundsAssumption
    DEF Init, TypeOK, ChildState, Status, Lookup
<1>2. TypeOK /\ [Next]_vars => TypeOK'
    <2> SUFFICES ASSUME TypeOK, [Next]_vars  PROVE TypeOK'
        OBVIOUS
    <2> USE BoundsAssumption DEF cacheVars, childVars, dataVars, requestVars, historyVars
    <2>1. ASSUME NEW n \in Node, NEW k \in Session, create(n, k)
          PROVE  TypeOK'
        <3>1. NextValue \in 1 .. MaxPuts
            BY <2>1 DEF create, TypeOK, NextValue
        <3>2. PutInCache(k, NextValue) \in Command
            BY <3>1, MessageTypes DEF PutInCache, Command
        <3>3. mailbox' \in [Node -> Seq(Command)]
            BY <2>1, <3>2 DEF create, Tell, TypeOK
        <3>4. QED BY <2>1, <3>1, <3>3 DEF create, TypeOK
    <2>2. ASSUME NEW n \in Node, NEW k \in Session, put(n, k)
          PROVE  TypeOK'
        <3>1. NextValue \in 1 .. MaxPuts
            BY <2>2 DEF put, TypeOK, NextValue
        <3>2. PutInCache(k, NextValue) \in Command
            BY <3>1, MessageTypes DEF PutInCache, Command
        <3>3. mailbox' \in [Node -> Seq(Command)]
            BY <2>2, <3>2 DEF put, Tell, TypeOK
        <3>4. puts' \in 0 .. MaxPuts /\ loggedOut' \subseteq Node \X Session
            BY <2>2, <3>1 DEF put, TypeOK
        <3>5. QED BY <2>2, <3>3, <3>4 DEF put, TypeOK
    <2>3. ASSUME NEW n \in Node, NEW k \in Session, delete(n, k)
          PROVE  TypeOK'
        <3>1. Evict(k) \in Command
            BY DEF Evict, Command
        <3>2. mailbox' \in [Node -> Seq(Command)]
            BY <2>3, <3>1 DEF delete, Tell, TypeOK
        <3>3. loggedOut' \subseteq Node \X Session /\ ended' \subseteq Session
            BY <2>3 DEF delete, TypeOK
        <3>4. QED BY <2>3, <3>2, <3>3 DEF delete, TypeOK
    <2>4. ASSUME NEW n \in Node, NEW k \in Session, NEW r \in Request,
                 lookup(n, k, r)
          PROVE  TypeOK'
        <3>1. GetFromCache(k, r) \in Command
            BY DEF GetFromCache, Command
        <3>2. mailbox' \in [Node -> Seq(Command)]
            BY <2>4, <3>1 DEF lookup, Tell, TypeOK
        <3>3. request' \in [Request -> Lookup] /\ status' \in [Request -> Status]
            BY <2>4 DEF lookup, TypeOK, Lookup, Status
        <3>4. QED BY <2>4, <3>2, <3>3 DEF lookup, TypeOK
    <2>5. ASSUME NEW r \in Request, AskTimeout(r)
          PROVE  TypeOK'
        BY <2>5 DEF AskTimeout, TypeOK, Status
    <2>6. ASSUME NEW n \in Node, HandlePutInCache(n)
          PROVE  TypeOK'
        <3> DEFINE m == Head(mailbox[n])
        <3>1. m.key \in Session /\ m.value \in 1 .. MaxPuts
              /\ Tail(mailbox[n]) \in Seq(Command)
            BY <2>6, ReceivedMessage DEF HandlePutInCache, Receive
        <3>2. UpdatePut(m.key, m.value) \in ReplicatorCommand
            BY <3>1 DEF UpdatePut, ReplicatorCommand
        <3>3. refreshSessionExpiration(n, m.key)
            BY <2>6 DEF HandlePutInCache
        <3>5. /\ mailbox' \in [Node -> Seq(Command)]
              /\ replicatorBox' \in [Node -> Seq(ReplicatorCommand)]
            BY <2>6, <3>1, <3>2 DEF HandlePutInCache, Receive, AskReplicator, TypeOK
        <3> HIDE DEF m
        <3>6. QED
            BY <2>6, <3>1, <3>3, <3>5, RefreshType
            DEF HandlePutInCache, TypeOK
    <2>7. ASSUME NEW n \in Node, HandleEvict(n)
          PROVE  TypeOK'
        <3> DEFINE m == Head(mailbox[n])
        <3>1. m.key \in Session /\ Tail(mailbox[n]) \in Seq(Command)
            BY <2>7, ReceivedMessage DEF HandleEvict, Receive
        <3>2. UpdateRemove(m.key) \in ReplicatorCommand
            BY <3>1 DEF UpdateRemove, ReplicatorCommand
        <3>3. /\ mailbox' \in [Node -> Seq(Command)]
              /\ replicatorBox' \in [Node -> Seq(ReplicatorCommand)]
            BY <2>7, <3>1, <3>2 DEF HandleEvict, Receive, AskReplicator, TypeOK
        <3>4. child' \in [Node -> [Session -> ChildState]]
            BY <2>7, <3>1
            DEF HandleEvict, destroySessionExpiration, TypeOK, ChildState
        <3>5. QED BY <2>7, <3>3, <3>4 DEF HandleEvict, TypeOK
    <2>8. ASSUME NEW n \in Node, HandleGetFromCache(n)
          PROVE  TypeOK'
        <3> DEFINE m == Head(mailbox[n])
        <3>1. m.key \in Session /\ m.replyTo \in Request
              /\ Tail(mailbox[n]) \in Seq(Command)
            BY <2>8, ReceivedMessage DEF HandleGetFromCache, Receive
        <3>2. ReadLocal(m.key, m.replyTo) \in ReplicatorCommand
            BY <3>1 DEF ReadLocal, ReplicatorCommand
        <3>3. /\ mailbox' \in [Node -> Seq(Command)]
              /\ replicatorBox' \in [Node -> Seq(ReplicatorCommand)]
            BY <2>8, <3>1, <3>2 DEF HandleGetFromCache, Receive, AskReplicator, TypeOK
        <3>4. QED BY <2>8, <3>3 DEF HandleGetFromCache, TypeOK
    <2>9. ASSUME NEW n \in Node, HandleGetSuccess(n)
          PROVE  TypeOK'
        <3> DEFINE m == Head(mailbox[n])
        <3>1. m.key \in Session /\ m.replyTo \in Request
              /\ Tail(mailbox[n]) \in Seq(Command)
            BY <2>9, ReceivedMessage DEF HandleGetSuccess, Receive
        <3>2. mailbox' \in [Node -> Seq(Command)]
            BY <2>9, <3>1 DEF HandleGetSuccess, Receive, TypeOK
        <3>3. /\ refreshSessionExpiration(n, m.key)
              /\ Reply(m.replyTo, "found") \/ Reply(m.replyTo, "absent")
            BY <2>9 DEF HandleGetSuccess
        <3> HIDE DEF m
        <3>5. status' \in [Request -> Status]
            BY <3>1, <3>3, ReplyType
        <3>6. QED
            BY <2>9, <3>1, <3>2, <3>3, <3>5, RefreshType
            DEF HandleGetSuccess, TypeOK
    <2>10. ASSUME NEW n \in Node, HandleNotFound(n)
           PROVE  TypeOK'
        <3> DEFINE m == Head(mailbox[n])
        <3>1. m.replyTo \in Request /\ Tail(mailbox[n]) \in Seq(Command)
            BY <2>10, ReceivedMessage DEF HandleNotFound, Receive
        <3>2. mailbox' \in [Node -> Seq(Command)]
            BY <2>10, <3>1 DEF HandleNotFound, Receive, TypeOK
        <3>3. Reply(m.replyTo, "absent")
            BY <2>10 DEF HandleNotFound
        <3> HIDE DEF m
        <3>4. status' \in [Request -> Status]
            BY <3>1, <3>3, ReplyType
        <3>5. QED BY <2>10, <3>2, <3>4 DEF HandleNotFound, TypeOK
    <2>11. ASSUME NEW n \in Node, HandleTerminated(n)
           PROVE  TypeOK'
        <3>1. Tail(mailbox[n]) \in Seq(Command)
            BY <2>11, ReceivedMessage DEF HandleTerminated, Receive
        <3>2. mailbox' \in [Node -> Seq(Command)]
            BY <2>11, <3>1 DEF HandleTerminated, Receive, TypeOK
        <3>3. QED BY <2>11, <3>2 DEF HandleTerminated, TypeOK
    <2>12. ASSUME NEW n \in Node, NEW k \in Session, HandleRefreshSession(n, k)
           PROVE  TypeOK'
        BY <2>12 DEF HandleRefreshSession, TypeOK
    <2>13. ASSUME NEW n \in Node, NEW k \in Session, TimerFires(n, k)
           PROVE  TypeOK'
        <3>1. Evict(k) \in Command
            BY DEF Evict, Command
        <3>2. mailbox' \in [Node -> Seq(Command)]
            BY <2>13, <3>1 DEF TimerFires, TypeOK
        <3>3. QED BY <2>13, <3>2 DEF TimerFires, TypeOK
    <2>14. ASSUME NEW n \in Node, NEW k \in Session, PostStop(n, k)
           PROVE  TypeOK'
        <3>1. Terminated(k) \in Command
            BY DEF Terminated, Command
        <3>2. mailbox' \in [Node -> Seq(Command)]
            BY <2>14, <3>1 DEF PostStop, ReportTermination, TypeOK
        <3>3. QED BY <2>14, <3>2 DEF PostStop, Cancel, TypeOK, ChildState
    <2>15. ASSUME NEW n \in Node, ApplyPut(n)
           PROVE  TypeOK'
        <3> DEFINE u == Head(replicatorBox[n])
        <3>1. u.key \in Session /\ u.dot \in 1 .. MaxPuts
              /\ Tail(replicatorBox[n]) \in Seq(ReplicatorCommand)
            BY <2>15, ServedMessage DEF ApplyPut, Serve
        <3>2. replicatorBox' \in [Node -> Seq(ReplicatorCommand)]
            BY <2>15, <3>1 DEF ApplyPut, Serve, TypeOK
        <3>3. /\ dataKeys' = [dataKeys EXCEPT ![n] = @ \cup {u.key}]
              /\ live' = [live EXCEPT ![n][u.key] = {u.dot}]
              /\ seen' = [seen EXCEPT ![n][u.key] = @ \cup {u.dot}]
            BY <2>15 DEF ApplyPut
        <3> HIDE DEF u
        <3>4. /\ dataKeys' \in [Node -> SUBSET Session]
              /\ live' \in [Node -> [Session -> SUBSET (1 .. MaxPuts)]]
              /\ seen' \in [Node -> [Session -> SUBSET (1 .. MaxPuts)]]
            BY <3>1, <3>3 DEF TypeOK
        <3>5. QED BY <2>15, <3>2, <3>4 DEF ApplyPut, TypeOK
    <2>16. ASSUME NEW n \in Node, ApplyRemove(n)
           PROVE  TypeOK'
        BY <2>16, ServedMessage DEF ApplyRemove, Serve, TypeOK
    <2>17. ASSUME NEW n \in Node, AnswerGet(n)
           PROVE  TypeOK'
        <3> DEFINE g == Head(replicatorBox[n])
                   answer == IF g.key \in dataKeys[n]
                             THEN GetSuccess(g.key, g.replyTo, live[n][g.key] # {})
                             ELSE NotFound(g.key, g.replyTo)
        <3>1. g.key \in Session /\ g.replyTo \in Request
              /\ Tail(replicatorBox[n]) \in Seq(ReplicatorCommand)
            BY <2>17, ServedMessage DEF AnswerGet, Serve
        <3>2. answer \in Command
            BY <3>1 DEF GetSuccess, NotFound, Command
        <3>3. mailbox' = [mailbox EXCEPT ![n] = Append(@, answer)]
            BY <2>17 DEF AnswerGet
        <3> HIDE DEF answer
        <3>4. mailbox' \in [Node -> Seq(Command)]
            BY <3>2, <3>3 DEF TypeOK
        <3>5. QED BY <2>17, <3>1, <3>4 DEF AnswerGet, Serve, TypeOK
    <2>18. ASSUME NEW m \in Node, NEW n \in Node, NEW k \in Session,
                  Gossip(m, n, k)
           PROVE  TypeOK'
        <3>1. Merged(m, n, k) \subseteq 1 .. MaxPuts
            BY DEF Merged, TypeOK
        <3>2. QED BY <2>18, <3>1, SMTT(40) DEF Gossip, TypeOK
    <2>19. ASSUME NEW n \in Node, Crash(n)
           PROVE  TypeOK'
        <3>1. status' \in [Request -> Status]
            BY <2>19 DEF Crash, TypeOK, Status
        <3>2. child' \in [Node -> [Session -> ChildState]]
            BY <2>19 DEF Crash, TypeOK, ChildState
        <3>3. /\ live' \in [Node -> [Session -> SUBSET (1 .. MaxPuts)]]
              /\ seen' \in [Node -> [Session -> SUBSET (1 .. MaxPuts)]]
            BY <2>19 DEF Crash, TypeOK
        <3>4. /\ mailbox' \in [Node -> Seq(Command)]
              /\ replicatorBox' \in [Node -> Seq(ReplicatorCommand)]
            BY <2>19 DEF Crash, TypeOK
        <3>5. /\ refreshBox' \in [Node -> [Session -> Nat]]
              /\ timer' \in [Node -> [Session -> BOOLEAN]]
              /\ children' \in [Node -> SUBSET Session]
              /\ dataKeys' \in [Node -> SUBSET Session]
            BY <2>19 DEF Crash, TypeOK
        <3>6. crashes' \in 0 .. MaxCrashes
            BY <2>19 DEF Crash, TypeOK
        <3>7. QED BY <2>19, <3>1, <3>2, <3>3, <3>4, <3>5, <3>6 DEF Crash, TypeOK
    <2>20. CASE UNCHANGED vars
        BY <2>20 DEF vars, TypeOK
    <2>21. QED
        BY <2>1, <2>2, <2>3, <2>4, <2>5, <2>6, <2>7, <2>8, <2>9, <2>10, <2>11,
           <2>12, <2>13, <2>14, <2>15, <2>16, <2>17, <2>18, <2>19, <2>20
        DEF Next, Client, behavior, SessionExpiration, Replicator
<1>3. QED BY <1>1, <1>2, PTL DEF Spec

-----------------------------------------------------------------------------
(* Expiration actors: names, timers and termination reports.               *)

\* The three facts are inductive only together: a name is free because the
\* report of a termination removes the key, and it may remove the key
\* because it was sent once, after the actor was gone.
ActorInv == SpawnNameIsFree /\ TerminationReportedOnce /\ NoOrphanTimer

\* A step that neither sends nor takes a termination report.
SameReports ==
    \A j \in Node, k \in Session :
        /\ Has(mailbox'[j], Terminated(k)) <=> Has(mailbox[j], Terminated(k))
        /\ Once(mailbox[j], Terminated(k)) => Once(mailbox'[j], Terminated(k))

\* Sending any other message is such a step.
LEMMA SendOther ==
    ASSUME TypeOK, NEW n \in Node, NEW m \in Command,
           m.type # "InternalSessionActorTerminated",
           mailbox' = [mailbox EXCEPT ![n] = Append(@, m)]
    PROVE  SameReports
<1> SUFFICES ASSUME NEW j \in Node, NEW k \in Session
             PROVE  /\ Has(mailbox'[j], Terminated(k)) <=>
                           Has(mailbox[j], Terminated(k))
                    /\ Once(mailbox[j], Terminated(k)) =>
                           Once(mailbox'[j], Terminated(k))
    BY DEF SameReports
<1>1. mailbox[n] \in Seq(Command)
    BY DEF TypeOK
<1>2. m # Terminated(k)
    BY DEF Terminated
<1>3. CASE j = n
    <2>1. mailbox'[j] = Append(mailbox[n], m)
        BY <1>3 DEF TypeOK
    <2>2. QED BY <1>1, <1>2, <1>3, <2>1, HasAppend, OnceAppend
<1>4. CASE j # n
    BY <1>4 DEF TypeOK
<1>5. QED BY <1>3, <1>4

\* So is handling any other message.
LEMMA ReceiveOther ==
    ASSUME TypeOK, NEW n \in Node, NEW type,
           type # "InternalSessionActorTerminated", Receive(n, type)
    PROVE  SameReports
<1> SUFFICES ASSUME NEW j \in Node, NEW k \in Session
             PROVE  /\ Has(mailbox'[j], Terminated(k)) <=>
                           Has(mailbox[j], Terminated(k))
                    /\ Once(mailbox[j], Terminated(k)) =>
                           Once(mailbox'[j], Terminated(k))
    BY DEF SameReports
<1>1. mailbox[n] \in Seq(Command) /\ mailbox[n] # <<>>
    BY DEF TypeOK, Receive
<1>2. Head(mailbox[n]) # Terminated(k)
    BY DEF Terminated, Receive
<1>3. CASE j = n
    <2>1. mailbox'[j] = Tail(mailbox[n])
        BY <1>3 DEF TypeOK, Receive
    <2>2. QED BY <1>1, <1>2, <1>3, <2>1, HasTail, OnceTail
<1>4. CASE j # n
    BY <1>4 DEF TypeOK, Receive
<1>5. QED BY <1>3, <1>4

\* So is a step without mail.
LEMMA SameMail ==
    ASSUME mailbox' = mailbox  PROVE SameReports
BY DEF SameReports

\* A step without reports that starts no timer and lets no actor come or go
\* preserves the invariant.
LEMMA ActorsUntouched ==
    ASSUME ActorInv, SameReports, UNCHANGED <<children, child>>,
           \A n \in Node, k \in Session : timer'[n][k] => timer[n][k]
    PROVE  ActorInv'
BY DEF ActorInv, SameReports, SpawnNameIsFree, TerminationReportedOnce, NoOrphanTimer

\* refreshSessionExpiration preserves it in a step without reports: it only
\* spawns under a key that is not in children, whose name is free.
LEMMA RefreshKeepsActorInv ==
    ASSUME TypeOK, ActorInv, SameReports, NEW n \in Node, NEW k \in Session,
           refreshSessionExpiration(n, k)
    PROVE  ActorInv'
<1>1. CASE k \in children[n]
    <2>1. children' = children /\ child' = child /\ timer' = timer
        BY <1>1 DEF refreshSessionExpiration
    <2>2. QED BY <2>1, ActorsUntouched
<1>2. CASE k \notin children[n]
    <2>1. /\ children' = [children EXCEPT ![n] = @ \cup {k}]
          /\ child' = [child EXCEPT ![n][k] = "running"]
          /\ timer' = [timer EXCEPT ![n][k] = TRUE]
        BY <1>2 DEF refreshSessionExpiration
    <2>2. ASSUME NEW j \in Node, NEW i \in Session
          PROVE  /\ i \in children'[j] <=> i \in children[j] \/ (j = n /\ i = k)
                 /\ child'[j][i] = IF j = n /\ i = k THEN "running"
                                                     ELSE child[j][i]
                 /\ timer'[j][i] => timer[j][i] \/ (j = n /\ i = k)
        BY <2>1 DEF TypeOK
    <2>3. SpawnNameIsFree'
        BY <2>2 DEF ActorInv, SpawnNameIsFree
    <2>4. NoOrphanTimer'
        BY <2>2 DEF ActorInv, NoOrphanTimer
    <2>5. TerminationReportedOnce'
        BY <1>2, <2>2
        DEF ActorInv, SpawnNameIsFree, TerminationReportedOnce, SameReports
    <2>6. QED BY <2>3, <2>4, <2>5 DEF ActorInv
<1>3. QED BY <1>1, <1>2

\* ActorInv is inductive relative to type correctness.
LEMMA ActorInvStep == TypeOK /\ ActorInv /\ [Next]_vars => ActorInv'
<1> SUFFICES ASSUME TypeOK, ActorInv, [Next]_vars  PROVE ActorInv'
    OBVIOUS
<1> USE DEF cacheVars, childVars, dataVars, requestVars, historyVars
<1>1. ASSUME NEW n \in Node, NEW k \in Session,
             create(n, k) \/ put(n, k) \/ delete(n, k)
      PROVE  ActorInv'
    <2>1. PICK m \in Command : m.type # "InternalSessionActorTerminated" /\ Tell(n, m)
        <3>1. CASE create(n, k) \/ put(n, k)
            <4>1. NextValue \in 1 .. MaxPuts
                BY <3>1, BoundsAssumption DEF create, put, TypeOK, NextValue
            <4>2. PutInCache(k, NextValue) \in Command
                BY <4>1 DEF PutInCache, Command
            <4>3. QED BY <3>1, <4>2 DEF create, put, PutInCache
        <3>2. CASE delete(n, k)
            <4>1. Evict(k) \in Command
                BY DEF Evict, Command
            <4>2. QED BY <3>2, <4>1 DEF delete, Evict
        <3>3. QED BY <1>1, <3>1, <3>2
    <2>2. SameReports
        BY <2>1, SendOther DEF Tell
    <2>3. UNCHANGED <<children, child, timer>>
        BY <1>1 DEF create, put, delete
    <2>4. QED BY <2>2, <2>3, ActorsUntouched
<1>2. ASSUME NEW n \in Node, NEW k \in Session, NEW r \in Request, lookup(n, k, r)
      PROVE  ActorInv'
    <2>1. GetFromCache(k, r) \in Command
        BY DEF GetFromCache, Command
    <2>2. SameReports
        BY <1>2, <2>1, SendOther DEF lookup, Tell, GetFromCache
    <2>3. QED BY <1>2, <2>2, ActorsUntouched DEF lookup
<1>3. ASSUME NEW r \in Request, AskTimeout(r)
      PROVE  ActorInv'
    BY <1>3, SameMail, ActorsUntouched DEF AskTimeout
<1>4. ASSUME NEW n \in Node, HandlePutInCache(n)
      PROVE  ActorInv'
    <2>1. SameReports
        BY <1>4, ReceiveOther DEF HandlePutInCache
    <2>2. Head(mailbox[n]).key \in Session
        BY <1>4, ReceivedMessage DEF HandlePutInCache, Receive
    <2>3. QED BY <1>4, <2>1, <2>2, RefreshKeepsActorInv DEF HandlePutInCache
<1>5. ASSUME NEW n \in Node, HandleEvict(n)
      PROVE  ActorInv'
    <2>1. SameReports
        BY <1>5, ReceiveOther DEF HandleEvict
    <2>2. ASSUME NEW j \in Node, NEW i \in Session
          PROVE  child'[j][i] = "none" <=> child[j][i] = "none"
        <3>1. Head(mailbox[n]).key \in Session
            BY <1>5, ReceivedMessage DEF HandleEvict, Receive
        <3>2. destroySessionExpiration(n, Head(mailbox[n]).key)
            BY <1>5 DEF HandleEvict
        <3>3. QED BY <3>1, <3>2 DEF destroySessionExpiration, TypeOK
    <2>3. children' = children /\ timer' = timer
        BY <1>5 DEF HandleEvict
    <2>4. QED
        BY <2>1, <2>2, <2>3
        DEF ActorInv, SameReports, SpawnNameIsFree, TerminationReportedOnce,
            NoOrphanTimer
<1>6. ASSUME NEW n \in Node, HandleGetFromCache(n)
      PROVE  ActorInv'
    <2>1. SameReports
        BY <1>6, ReceiveOther DEF HandleGetFromCache
    <2>2. QED BY <1>6, <2>1, ActorsUntouched DEF HandleGetFromCache
<1>7. ASSUME NEW n \in Node, HandleGetSuccess(n)
      PROVE  ActorInv'
    <2>1. SameReports
        BY <1>7, ReceiveOther DEF HandleGetSuccess
    <2>2. Head(mailbox[n]).key \in Session
        BY <1>7, ReceivedMessage DEF HandleGetSuccess, Receive
    <2>3. QED BY <1>7, <2>1, <2>2, RefreshKeepsActorInv DEF HandleGetSuccess
<1>8. ASSUME NEW n \in Node, HandleNotFound(n)
      PROVE  ActorInv'
    <2>1. SameReports
        BY <1>8, ReceiveOther DEF HandleNotFound
    <2>2. QED BY <1>8, <2>1, ActorsUntouched DEF HandleNotFound
<1>9. ASSUME NEW n \in Node, HandleTerminated(n)
      PROVE  ActorInv'
    \* The report taken is the only one, and its actor is gone.
    <2> DEFINE m == Head(mailbox[n])
    <2>1. /\ m = Terminated(m.key) /\ m.key \in Session
          /\ mailbox[n] \in Seq(Command) /\ mailbox[n] # <<>>
          /\ mailbox' = [mailbox EXCEPT ![n] = Tail(@)]
        BY <1>9, ReceivedMessage DEF HandleTerminated, Receive, TypeOK
    <2>2. /\ children' = [children EXCEPT ![n] = @ \ {m.key}]
          /\ child' = child /\ timer' = timer
        BY <1>9 DEF HandleTerminated
    <2> HIDE DEF m
    <2>3. m = Head(mailbox[n])
        BY DEF m
    <2>4. Has(mailbox[n], Terminated(m.key))
        BY <2>1, <2>3, HasTail
    <2>5. child[n][m.key] = "none"
        BY <2>1, <2>4 DEF ActorInv, TerminationReportedOnce
    <2>6. ~ Has(Tail(mailbox[n]), Terminated(m.key))
        BY <2>1, <2>3, OnceTail DEF ActorInv, TerminationReportedOnce
    <2>7. ASSUME NEW i \in Session, i # m.key
          PROVE  /\ Has(Tail(mailbox[n]), Terminated(i)) <=>
                        Has(mailbox[n], Terminated(i))
                 /\ Once(Tail(mailbox[n]), Terminated(i))
        <3>1. m # Terminated(i)
            BY <2>1, <2>7 DEF Terminated
        <3>2. QED
            BY <2>1, <2>3, <3>1, HasTail, OnceTail
            DEF ActorInv, TerminationReportedOnce
    <2>8. Once(Tail(mailbox[n]), Terminated(m.key))
        BY <2>1, OnceTail DEF ActorInv, TerminationReportedOnce
    <2>9. ASSUME NEW j \in Node, NEW i \in Session
          PROVE  /\ i \in children'[j] <=> i \in children[j] /\ ~(j = n /\ i = m.key)
                 /\ mailbox'[j] = IF j = n THEN Tail(mailbox[n]) ELSE mailbox[j]
        BY <2>1, <2>2 DEF TypeOK
    <2>10. SpawnNameIsFree'
        BY <2>2, <2>5, <2>9 DEF ActorInv, SpawnNameIsFree
    <2>11. TerminationReportedOnce'
        BY <2>2, <2>6, <2>7, <2>8, <2>9 DEF ActorInv, TerminationReportedOnce
    <2>12. NoOrphanTimer'
        BY <2>2 DEF ActorInv, NoOrphanTimer
    <2>13. QED BY <2>10, <2>11, <2>12 DEF ActorInv
<1>10. ASSUME NEW n \in Node, NEW k \in Session, HandleRefreshSession(n, k)
       PROVE  ActorInv'
    <2>1. SameReports
        BY <1>10, SameMail DEF HandleRefreshSession
    <2>2. /\ children' = children /\ child' = child /\ child[n][k] = "running"
          /\ timer' = [timer EXCEPT ![n][k] = TRUE]
        BY <1>10 DEF HandleRefreshSession
    <2>3. NoOrphanTimer'
        BY <2>2 DEF ActorInv, NoOrphanTimer, TypeOK
    <2>4. QED
        BY <2>1, <2>2, <2>3
        DEF ActorInv, SameReports, SpawnNameIsFree, TerminationReportedOnce
<1>11. ASSUME NEW n \in Node, NEW k \in Session, TimerFires(n, k)
       PROVE  ActorInv'
    <2>1. Evict(k) \in Command /\ Evict(k).type # "InternalSessionActorTerminated"
        BY DEF Evict, Command
    <2>2. SameReports
        BY <1>11, <2>1, SendOther DEF TimerFires
    <2>3. children' = children /\ child' = child
        BY <1>11 DEF TimerFires
    <2>4. \A j \in Node, i \in Session : timer'[j][i] => timer[j][i]
        BY <1>11 DEF TimerFires, TypeOK
    <2>5. QED BY <2>2, <2>3, <2>4, ActorsUntouched
<1>12. ASSUME NEW n \in Node, NEW k \in Session, PostStop(n, k)
       PROVE  ActorInv'
    \* The actor leaves, its timer with it, and the only report is sent.
    <2>1. /\ child[n][k] = "stopping" /\ children' = children
          /\ child' = [child EXCEPT ![n][k] = "none"]
          /\ timer' = [timer EXCEPT ![n][k] = FALSE]
          /\ mailbox' = [mailbox EXCEPT ![n] = Append(@, Terminated(k))]
        BY <1>12 DEF PostStop, Cancel, ReportTermination
    <2>2. Terminated(k) \in Command /\ mailbox[n] \in Seq(Command)
        BY DEF Terminated, Command, TypeOK
    <2>3. ASSUME NEW j \in Node, NEW i \in Session
          PROVE  /\ child'[j][i] = IF j = n /\ i = k THEN "none" ELSE child[j][i]
                 /\ timer'[j][i] <=> timer[j][i] /\ ~(j = n /\ i = k)
                 /\ mailbox'[j] = IF j = n THEN Append(mailbox[n], Terminated(k))
                                           ELSE mailbox[j]
        BY <2>1 DEF TypeOK
    <2>4. k \in children[n] /\ ~ Has(mailbox[n], Terminated(k))
        BY <2>1 DEF ActorInv, SpawnNameIsFree, TerminationReportedOnce
    <2>5. ASSUME NEW i \in Session
          PROVE  /\ Has(Append(mailbox[n], Terminated(k)), Terminated(i)) <=>
                        Has(mailbox[n], Terminated(i)) \/ i = k
                 /\ Once(Append(mailbox[n], Terminated(k)), Terminated(i))
        <3>1. Terminated(i) = Terminated(k) <=> i = k
            BY DEF Terminated
        <3>2. Once(mailbox[n], Terminated(i))
            BY DEF ActorInv, TerminationReportedOnce
        <3>3. QED BY <2>2, <2>4, <3>1, <3>2, HasAppend, OnceAppend
    <2>6. SpawnNameIsFree'
        BY <2>1, <2>3 DEF ActorInv, SpawnNameIsFree
    <2>7. TerminationReportedOnce'
        BY <2>1, <2>3, <2>4, <2>5 DEF ActorInv, TerminationReportedOnce
    <2>8. NoOrphanTimer'
        BY <2>3 DEF ActorInv, NoOrphanTimer
    <2>9. QED BY <2>6, <2>7, <2>8 DEF ActorInv
<1>13. ASSUME NEW n \in Node, ApplyPut(n) \/ ApplyRemove(n)
       PROVE  ActorInv'
    BY <1>13, SameMail, ActorsUntouched DEF ApplyPut, ApplyRemove
<1>14. ASSUME NEW n \in Node, AnswerGet(n)
       PROVE  ActorInv'
    <2> DEFINE g == Head(replicatorBox[n])
               answer == IF g.key \in dataKeys[n]
                         THEN GetSuccess(g.key, g.replyTo, live[n][g.key] # {})
                         ELSE NotFound(g.key, g.replyTo)
    <2>1. g.key \in Session /\ g.replyTo \in Request
        BY <1>14, ServedMessage DEF AnswerGet, Serve
    <2>2. answer \in Command /\ answer.type # "InternalSessionActorTerminated"
        BY <2>1 DEF GetSuccess, NotFound, Command
    <2>3. mailbox' = [mailbox EXCEPT ![n] = Append(@, answer)]
        BY <1>14 DEF AnswerGet
    <2> HIDE DEF answer
    <2>4. SameReports
        BY <2>2, <2>3, SendOther
    <2>5. QED BY <1>14, <2>4, ActorsUntouched DEF AnswerGet
<1>15. ASSUME NEW m \in Node, NEW n \in Node, NEW k \in Session, Gossip(m, n, k)
       PROVE  ActorInv'
    BY <1>15, SameMail, ActorsUntouched DEF Gossip
<1>16. ASSUME NEW n \in Node, Crash(n)
       PROVE  ActorInv'
    <2>1. ASSUME NEW j \in Node, NEW i \in Session
          PROVE  /\ mailbox'[j] = IF j = n THEN <<>> ELSE mailbox[j]
                 /\ children'[j] = IF j = n THEN {} ELSE children[j]
                 /\ child'[j][i] = IF j = n THEN "none" ELSE child[j][i]
                 /\ timer'[j][i] <=> timer[j][i] /\ j # n
        BY <1>16 DEF Crash, TypeOK
    <2>2. \A x : ~ Has(<<>>, x) /\ Once(<<>>, x)
        BY DEF Has, Once
    <2>3. SpawnNameIsFree'
        BY <2>1 DEF ActorInv, SpawnNameIsFree
    <2>4. TerminationReportedOnce'
        BY <2>1, <2>2 DEF ActorInv, TerminationReportedOnce
    <2>5. NoOrphanTimer'
        BY <2>1 DEF ActorInv, NoOrphanTimer
    <2>6. QED BY <2>3, <2>4, <2>5 DEF ActorInv
<1>17. CASE UNCHANGED vars
    BY <1>17, SameMail, ActorsUntouched DEF vars
<1>18. QED
    BY <1>1, <1>2, <1>3, <1>4, <1>5, <1>6, <1>7, <1>8, <1>9, <1>10, <1>11,
       <1>12, <1>13, <1>14, <1>15, <1>16, <1>17
    DEF Next, Client, behavior, SessionExpiration, Replicator

LEMMA ActorInvInvariant == Spec => []ActorInv
<1>1. Init => ActorInv
    BY DEF Init, ActorInv, SpawnNameIsFree, TerminationReportedOnce,
           NoOrphanTimer, Has, Once
<1>2. QED BY <1>1, ActorInvStep, TypeCorrect, PTL DEF Spec

\* context.spawn never meets an actor of the same name: while an actor lives
\* or is still stopping its key is in children (SessionCache.scala:78-87).
THEOREM SpawnIsSafe == Spec => []SpawnNameIsFree
<1>1. ActorInv => SpawnNameIsFree
    BY DEF ActorInv
<1>2. QED BY <1>1, ActorInvInvariant, PTL

\* A terminated actor is reported by exactly one message (watchWith,
\* SessionCache.scala:86), and a report is never about a living actor.
THEOREM ReportsAreExact == Spec => []TerminationReportedOnce
<1>1. ActorInv => TerminationReportedOnce
    BY DEF ActorInv
<1>2. QED BY <1>1, ActorInvInvariant, PTL

\* PostStop leaves no timer without its actor (SessionCache.scala:148).
THEOREM TimersHaveOwners == Spec => []NoOrphanTimer
<1>1. ActorInv => NoOrphanTimer
    BY DEF ActorInv
<1>2. QED BY <1>1, ActorInvInvariant, PTL

\* SessionExpiration.scala accounts for its actors: whatever meets in the
\* mailboxes, each end is reported once and no timer outlives its owner.
THEOREM ActorsAreAccounted == Spec => []ActorsAccounted
<1>1. TypeOK /\ TerminationReportedOnce /\ NoOrphanTimer => ActorsAccounted
    BY DEF ActorsAccounted
<1>2. QED BY <1>1, TypeCorrect, ReportsAreExact, TimersHaveOwners, PTL

-----------------------------------------------------------------------------
(***************************************************************************)
(* What the node that created a session guarantees, for every set of       *)
(* nodes, sessions and lookups, every interleaving of the mailboxes, the   *)
(* replicators and the gossip, and mailboxes of any length: as long as no  *)
(* process dies (nothing is persisted), and with the three calls that the  *)
(* controllers make (controllers/package.scala, LogoutController.scala).   *)
(*                                                                         *)
(* The argument: a session enters the system by one PutInCache, which is   *)
(* the first message about it that its node handles.  From there on its    *)
(* entry moves forward only, from the mailbox to the replicator's box, to  *)
(* the map of its node, and from there to the maps of the others; gossip   *)
(* brings nothing back that its node has dropped.  So whatever the node    *)
(* knows of an end (a timer, an Evict, a remove) arrives after the entry,  *)
(* and a lookup that was sent after a logout arrives after its remove.     *)
(***************************************************************************)


\* No process dies, and sessions are stored by create alone.
Calm == MaxCrashes = 0 /\ "put" \notin ClientOps

-----------------------------------------------------------------------------
(* The order of messages in a box. *)

\* Some x is ahead of some y.
Precedes(s, x, y) == \E i, j \in 1 .. Len(s) : i < j /\ s[i] = x /\ s[j] = y

\* Every y has an x ahead of it.
Behind(s, x, y) ==
    \A i \in 1 .. Len(s) : s[i] = y => \E j \in 1 .. (i - 1) : s[j] = x

\* Box n has got m at its end, and no other box has changed.
Sent(old, new, n, m) ==
    \A j \in Node : \A x, y :
        /\ Has(new[j], x) <=> Has(old[j], x) \/ (j = n /\ x = m)
        /\ Precedes(new[j], x, y) <=>
               Precedes(old[j], x, y) \/ (j = n /\ y = m /\ Has(old[j], x))
        /\ Behind(new[j], x, y) <=>
               Behind(old[j], x, y) /\ (j = n /\ y = m => Has(old[j], x))

\* Box n has lost m, its head, and no other box has changed.
Taken(old, new, n, m) ==
    \A j \in Node : \A x, y :
        /\ Has(old[j], x) <=> Has(new[j], x) \/ (j = n /\ x = m)
        /\ Precedes(old[j], x, y) <=>
               Precedes(new[j], x, y) \/ (j = n /\ x = m /\ Has(new[j], y))
        /\ Behind(old[j], x, y) =>
               /\ ~ (j = n /\ y = m)
               /\ (j = n => x # m) => Behind(new[j], x, y)

LEMMA OrderAppend ==
    ASSUME NEW S, NEW s \in Seq(S), NEW m \in S, NEW x, NEW y
    PROVE  /\ Precedes(Append(s, m), x, y) <=>
                  Precedes(s, x, y) \/ (y = m /\ Has(s, x))
           /\ Behind(Append(s, m), x, y) <=>
                  Behind(s, x, y) /\ (y = m => Has(s, x))
<1> DEFINE t == Append(s, m)
<1>1. /\ Len(s) \in Nat /\ Len(t) = Len(s) + 1
      /\ \A i \in 1 .. Len(s) : t[i] = s[i]
      /\ t[Len(s) + 1] = m
    OBVIOUS
<1> HIDE DEF t
<1>2. ASSUME Precedes(t, x, y)  PROVE Precedes(s, x, y) \/ (y = m /\ Has(s, x))
    BY <1>1, <1>2 DEF Precedes, Has
<1>3. ASSUME Precedes(s, x, y)  PROVE Precedes(t, x, y)
    BY <1>1, <1>3 DEF Precedes
<1>4. ASSUME y = m, Has(s, x)  PROVE Precedes(t, x, y)
    BY <1>1, <1>4 DEF Precedes, Has
<1>5. ASSUME Behind(t, x, y)  PROVE Behind(s, x, y) /\ (y = m => Has(s, x))
    BY <1>1, <1>5 DEF Behind, Has
<1>6. ASSUME Behind(s, x, y), y = m => Has(s, x)  PROVE Behind(t, x, y)
    BY <1>1, <1>6 DEF Behind, Has
<1>7. QED BY <1>2, <1>3, <1>4, <1>5, <1>6 DEF t

LEMMA OrderTail ==
    ASSUME NEW S, NEW s \in Seq(S), s # <<>>, NEW x, NEW y
    PROVE  /\ Precedes(s, x, y) <=>
                  Precedes(Tail(s), x, y) \/ (x = Head(s) /\ Has(Tail(s), y))
           /\ Behind(s, x, y) =>
                  y # Head(s) /\ (x # Head(s) => Behind(Tail(s), x, y))
<1> DEFINE t == Tail(s)
<1>1. /\ Len(t) \in Nat /\ Len(s) = Len(t) + 1
      /\ \A i \in 1 .. Len(t) : i + 1 \in 1 .. Len(s) /\ t[i] = s[i + 1]
      /\ s[1] = Head(s)
    OBVIOUS
<1> HIDE DEF t
<1>2. ASSUME Precedes(s, x, y)
      PROVE  Precedes(t, x, y) \/ (x = Head(s) /\ Has(t, y))
    <2>1. PICK i, j \in 1 .. Len(s) : i < j /\ s[i] = x /\ s[j] = y
        BY <1>2 DEF Precedes
    <2>2. j - 1 \in 1 .. Len(t) /\ t[j - 1] = y
        BY <1>1, <2>1
    <2>3. CASE i = 1
        BY <1>1, <2>1, <2>2, <2>3 DEF Has
    <2>4. CASE i # 1
        <3>1. i - 1 \in 1 .. Len(t) /\ t[i - 1] = x /\ i - 1 < j - 1
            BY <1>1, <2>1, <2>4
        <3>2. QED BY <2>2, <3>1 DEF Precedes
    <2>5. QED BY <2>3, <2>4
<1>3. ASSUME Precedes(t, x, y)  PROVE Precedes(s, x, y)
    <2>1. PICK i, j \in 1 .. Len(t) : i < j /\ t[i] = x /\ t[j] = y
        BY <1>3 DEF Precedes
    <2>2. i + 1 \in 1 .. Len(s) /\ j + 1 \in 1 .. Len(s) /\ i + 1 < j + 1
          /\ s[i + 1] = x /\ s[j + 1] = y
        BY <1>1, <2>1
    <2>3. QED BY <2>2 DEF Precedes
<1>4. ASSUME x = Head(s), Has(t, y)  PROVE Precedes(s, x, y)
    <2>1. PICK j \in 1 .. Len(t) : t[j] = y
        BY <1>4 DEF Has
    <2>2. 1 \in 1 .. Len(s) /\ j + 1 \in 1 .. Len(s) /\ 1 < j + 1
          /\ s[1] = x /\ s[j + 1] = y
        BY <1>1, <1>4, <2>1
    <2>3. QED BY <2>2 DEF Precedes
<1>5. ASSUME Behind(s, x, y)  PROVE y # Head(s)
    BY <1>1, <1>5 DEF Behind
<1>6. ASSUME Behind(s, x, y), x # Head(s)  PROVE Behind(t, x, y)
    <2> SUFFICES ASSUME NEW i \in 1 .. Len(t), t[i] = y
                 PROVE  \E j \in 1 .. (i - 1) : t[j] = x
        BY DEF Behind
    <2>1. PICK j \in 1 .. i : s[j] = x
        BY <1>1, <1>6 DEF Behind
    <2>2. j # 1
        BY <1>1, <1>6, <2>1
    <2>3. j - 1 \in 1 .. (i - 1) /\ t[j - 1] = x
        BY <1>1, <2>1, <2>2
    <2>4. QED BY <2>3
<1>7. QED BY <1>2, <1>3, <1>4, <1>5, <1>6 DEF t

LEMMA SentByAppend ==
    ASSUME NEW S, NEW old \in [Node -> Seq(S)], NEW n \in Node, NEW m \in S,
           NEW new, new = [old EXCEPT ![n] = Append(@, m)]
    PROVE  Sent(old, new, n, m)
<1> SUFFICES ASSUME NEW j \in Node, NEW x, NEW y
    PROVE /\ Has(new[j], x) <=> Has(old[j], x) \/ (j = n /\ x = m)
          /\ Precedes(new[j], x, y) <=>
                 Precedes(old[j], x, y) \/ (j = n /\ y = m /\ Has(old[j], x))
          /\ Behind(new[j], x, y) <=>
                 Behind(old[j], x, y) /\ (j = n /\ y = m => Has(old[j], x))
    BY DEF Sent
<1>1. CASE j = n
    <2>1. old[j] \in Seq(S) /\ new[j] = Append(old[j], m)
        BY <1>1
    <2>2. QED BY <1>1, <2>1, HasAppend, OrderAppend
<1>2. CASE j # n
    BY <1>2
<1>3. QED BY <1>1, <1>2

LEMMA TakenByTail ==
    ASSUME NEW S, NEW old \in [Node -> Seq(S)], NEW n \in Node, old[n] # <<>>,
           NEW new, new = [old EXCEPT ![n] = Tail(@)]
    PROVE  Taken(old, new, n, Head(old[n])) /\ Has(old[n], Head(old[n]))
<1>1. old[n] \in Seq(S) /\ new[n] = Tail(old[n])
    OBVIOUS
<1>2. Has(old[n], Head(old[n]))
    BY <1>1, HasTail
<1> SUFFICES ASSUME NEW j \in Node, NEW x, NEW y
    PROVE /\ Has(old[j], x) <=> Has(new[j], x) \/ (j = n /\ x = Head(old[n]))
          /\ Precedes(old[j], x, y) <=>
                 \/ Precedes(new[j], x, y)
                 \/ j = n /\ x = Head(old[n]) /\ Has(new[j], y)
          /\ Behind(old[j], x, y) =>
                 /\ ~ (j = n /\ y = Head(old[n]))
                 /\ (j = n => x # Head(old[n])) => Behind(new[j], x, y)
    BY <1>2 DEF Taken
<1>3. CASE j = n
    BY <1>1, <1>3, HasTail, OrderTail
<1>4. CASE j # n
    <2>1. new[j] = old[j]
        BY <1>4
    <2>2. QED BY <1>4, <2>1
<1>5. QED BY <1>3, <1>4

-----------------------------------------------------------------------------
(* The invariant. *)

\* Nobody knows of k yet.
NotBegun(k) ==
    \A n \in Node :
        /\ \A m \in Command : Has(mailbox[n], m) => m.key # k
        /\ \A u \in ReplicatorCommand : Has(replicatorBox[n], u) => u.key # k
        /\ k \notin children[n]
        /\ seen[n][k] = {}
        /\ <<n, k>> \notin loggedOut

\* The put of k is on its node, first among the messages about k, and until
\* it is applied nobody has seen k.
PutComesFirst(k) ==
    \A n \in Node :
        /\ \A m \in Command :
            Has(mailbox[n], m) /\ m.type = "PutInCache" /\ m.key = k =>
                /\ n = home[k]
                /\ k \notin children[n]
                /\ \A c \in Command : c.key = k => ~ Precedes(mailbox[n], c, m)
                /\ \A u \in ReplicatorCommand : Has(replicatorBox[n], u) => u.key # k
                /\ \A j \in Node : seen[j][k] = {}
        /\ \A u \in ReplicatorCommand :
            Has(replicatorBox[n], u) /\ u.op = "put" /\ u.key = k =>
                /\ n = home[k]
                /\ \A c \in ReplicatorCommand :
                       c.key = k => ~ Precedes(replicatorBox[n], c, u)
                /\ \A j \in Node : seen[j][k] = {}

\* What any node has seen the node of k has seen, which therefore takes
\* nothing from gossip.
SpreadFromHome(k) ==
    \A n \in Node :
        /\ live[n][k] \subseteq seen[n][k]
        /\ home[k] # None => seen[n][k] \subseteq seen[home[k]][k]

PutSent(n, k) ==
    \E m \in Command : Has(mailbox[n], m) /\ m.type = "PutInCache" /\ m.key = k
PutQueued(n, k) ==
    \E u \in ReplicatorCommand : Has(replicatorBox[n], u) /\ u.op = "put" /\ u.key = k

\* The entry of k on n: about to be written, or written.
Entry(n, k) == PutQueued(n, k) \/ live[n][k] # {}
Alive(n, k) == PutSent(n, k) \/ Entry(n, k)

\* An entry on its node has an end under way: its actor runs and will evict
\* it, or the Evict is in the mailbox, or the remove with the replicator.
EntryHasEnd(k) ==
    Entry(home[k], k) =>
        \/ timer[home[k]][k] /\ child[home[k]][k] = "running"
        \/ Has(mailbox[home[k]], Evict(k))
        \/ Has(replicatorBox[home[k]], UpdateRemove(k))

\* Until k ends nobody removes it, its node has it on one of the stages of a
\* put, and no answer of its node says otherwise.
Stored(k) ==
    /\ \A n \in Node :
        /\ ~ Has(mailbox[n], Evict(k))
        /\ ~ Has(replicatorBox[n], UpdateRemove(k))
        /\ live[n][k] = seen[n][k]
    /\ \/ PutSent(home[k], k)
       \/ PutQueued(home[k], k)
       \/ live[home[k]][k] # {} /\ k \in dataKeys[home[k]]
    /\ \A m \in Command : Has(mailbox[home[k]], m) /\ m.key = k =>
        /\ m.type # "NotFound"
        /\ m.type = "GetSuccess" => m.found = TRUE

\* After a logout through its node k is gone there, or its end is under way
\* and ahead of every lookup that was sent later.
LogoutIsAhead(k) ==
    LET h == home[k] IN
    /\ <<h, k>> \in loggedOut =>
        \/ Has(mailbox[h], Evict(k))
        \/ Has(replicatorBox[h], UpdateRemove(k))
        \/ ~ Alive(h, k)
    /\ \A r \in Request : h \in request[r].logouts =>
        /\ Has(mailbox[h], GetFromCache(k, r)) =>
            \/ Behind(mailbox[h], Evict(k), GetFromCache(k, r))
            \/ Has(replicatorBox[h], UpdateRemove(k))
            \/ ~ Alive(h, k)
        /\ Has(replicatorBox[h], ReadLocal(k, r)) =>
            \/ Behind(replicatorBox[h], UpdateRemove(k), ReadLocal(k, r))
            \/ ~ Alive(h, k)
    /\ \A m \in Command :
        /\ Has(mailbox[h], m) /\ m.type = "GetSuccess" /\ m.key = k
        /\ h \in request[m.replyTo].logouts
        => m.found = FALSE

SessionInv(k) ==
    /\ home[k] = None => NotBegun(k)
    /\ PutComesFirst(k)
    /\ SpreadFromHome(k)
    /\ home[k] # None => EntryHasEnd(k) /\ LogoutIsAhead(k)
    /\ home[k] # None /\ k \notin ended => Stored(k)

\* A message that has somebody to reply to belongs to an asked lookup.
MessagesWereAsked ==
    \A n \in Node :
        /\ \A m \in Command :
            /\ Has(mailbox[n], m)
            /\ m.type \in {"GetFromCache", "GetSuccess", "NotFound"}
            => /\ request[m.replyTo].key = m.key
               /\ request[m.replyTo].node = n
               /\ status[m.replyTo] # "unused"
        /\ \A u \in ReplicatorCommand : Has(replicatorBox[n], u) /\ u.op = "get" =>
            /\ request[u.replyTo].key = u.key
            /\ request[u.replyTo].node = n
            /\ status[u.replyTo] # "unused"

LookupsFollowLogin ==
    \A r \in Request : status[r] # "unused" =>
        request[r].key \in Session /\ home[request[r].key] # None

HomeInv ==
    /\ \A k \in Session : SessionInv(k)
    /\ MessagesWereAsked
    /\ LookupsFollowLogin
    /\ HomeIsRight

\* The messages by their fields.
LEMMA Fields ==
    ASSUME NEW k, NEW r, NEW v, NEW b
    PROVE  /\ PutInCache(k, v).type = "PutInCache" /\ PutInCache(k, v).key = k
           /\ Evict(k).type = "Evict" /\ Evict(k).key = k
           /\ Terminated(k).type = "InternalSessionActorTerminated"
           /\ Terminated(k).key = k
           /\ GetFromCache(k, r).type = "GetFromCache"
           /\ GetFromCache(k, r).key = k /\ GetFromCache(k, r).replyTo = r
           /\ GetSuccess(k, r, b).type = "GetSuccess"
           /\ GetSuccess(k, r, b).key = k /\ GetSuccess(k, r, b).replyTo = r
           /\ GetSuccess(k, r, b).found = b
           /\ NotFound(k, r).type = "NotFound"
           /\ NotFound(k, r).key = k /\ NotFound(k, r).replyTo = r
           /\ UpdatePut(k, v).op = "put" /\ UpdatePut(k, v).key = k
           /\ UpdatePut(k, v).dot = v
           /\ UpdateRemove(k).op = "remove" /\ UpdateRemove(k).key = k
           /\ ReadLocal(k, r).op = "get" /\ ReadLocal(k, r).key = k
           /\ ReadLocal(k, r).replyTo = r
BY DEF PutInCache, Evict, Terminated, GetFromCache, GetSuccess, NotFound,
       UpdatePut, UpdateRemove, ReadLocal

LEMMA CommandForms ==
    ASSUME NEW m \in Command
    PROVE  /\ m.key \in Session
           /\ m.type = "PutInCache" =>
                  m.value \in 1 .. MaxPuts /\ m = PutInCache(m.key, m.value)
           /\ m.type = "Evict" => m = Evict(m.key)
           /\ m.type = "InternalSessionActorTerminated" => m = Terminated(m.key)
           /\ m.type = "GetFromCache" =>
                  m.replyTo \in Request /\ m = GetFromCache(m.key, m.replyTo)
           /\ m.type = "NotFound" =>
                  m.replyTo \in Request /\ m = NotFound(m.key, m.replyTo)
           /\ m.type = "GetSuccess" =>
                  /\ m.replyTo \in Request /\ m.found \in BOOLEAN
                  /\ m = GetSuccess(m.key, m.replyTo, m.found)
BY DEF Command, PutInCache, Evict, Terminated, GetFromCache, NotFound, GetSuccess

LEMMA ReplicatorCommandForms ==
    ASSUME NEW u \in ReplicatorCommand
    PROVE  /\ u.key \in Session
           /\ u.op = "put" =>
                  u.dot \in 1 .. MaxPuts /\ u = UpdatePut(u.key, u.dot)
           /\ u.op = "remove" => u = UpdateRemove(u.key)
           /\ u.op = "get" =>
                  u.replyTo \in Request /\ u = ReadLocal(u.key, u.replyTo)
BY DEF ReplicatorCommand, UpdatePut, UpdateRemove, ReadLocal

-----------------------------------------------------------------------------
(* Every step preserves the invariant. *)

\* What a step starts from.
Ready == TypeOK /\ TypeOK' /\ ActorInv /\ HomeInv /\ Calm

LEMMA SessionMessages ==
    ASSUME NEW k \in Session
    PROVE  /\ Evict(k) \in Command /\ Evict(k).key = k /\ Evict(k).type = "Evict"
           /\ UpdateRemove(k) \in ReplicatorCommand
           /\ UpdateRemove(k).key = k /\ UpdateRemove(k).op = "remove"
           /\ \A r \in Request :
               /\ GetFromCache(k, r) \in Command
               /\ GetFromCache(k, r).type = "GetFromCache"
               /\ GetFromCache(k, r).key = k /\ GetFromCache(k, r).replyTo = r
               /\ ReadLocal(k, r) \in ReplicatorCommand
               /\ ReadLocal(k, r).op = "get"
               /\ ReadLocal(k, r).key = k /\ ReadLocal(k, r).replyTo = r
BY DEF Evict, UpdateRemove, GetFromCache, ReadLocal, Command, ReplicatorCommand

LEMMA MailSent ==
    ASSUME TypeOK, NEW n \in Node, NEW m \in Command,
           mailbox' = [mailbox EXCEPT ![n] = Append(@, m)]
    PROVE  Sent(mailbox, mailbox', n, m)
<1>1. mailbox \in [Node -> Seq(Command)]
    BY DEF TypeOK
<1>2. QED BY <1>1, SentByAppend

LEMMA BoxSent ==
    ASSUME TypeOK, NEW n \in Node, NEW u \in ReplicatorCommand, AskReplicator(n, u)
    PROVE  Sent(replicatorBox, replicatorBox', n, u)
<1>1. replicatorBox \in [Node -> Seq(ReplicatorCommand)]
    BY DEF TypeOK
<1>2. QED BY <1>1, SentByAppend DEF AskReplicator

LEMMA MailTaken ==
    ASSUME TypeOK, NEW n \in Node, NEW type, Receive(n, type)
    PROVE  LET m == Head(mailbox[n]) IN
           /\ m \in Command /\ m.type = type
           /\ Has(mailbox[n], m) /\ Taken(mailbox, mailbox', n, m)
<1>1. mailbox \in [Node -> Seq(Command)] /\ mailbox[n] # <<>>
    BY DEF TypeOK, Receive
<1>2. Head(mailbox[n]) \in Command
    BY <1>1
<1>3. QED BY <1>1, <1>2, TakenByTail DEF Receive

LEMMA BoxTaken ==
    ASSUME TypeOK, NEW n \in Node, NEW op, Serve(n, op)
    PROVE  LET u == Head(replicatorBox[n]) IN
           /\ u \in ReplicatorCommand /\ u.op = op
           /\ Has(replicatorBox[n], u) /\ Taken(replicatorBox, replicatorBox', n, u)
<1>1. replicatorBox \in [Node -> Seq(ReplicatorCommand)] /\ replicatorBox[n] # <<>>
    BY DEF TypeOK, Serve
<1>2. Head(replicatorBox[n]) \in ReplicatorCommand
    BY <1>1
<1>3. QED BY <1>1, <1>2, TakenByTail DEF Serve

\* The boxes hold the same messages of S about i, in the same order.
Alike(old, new, S, i) ==
    \A j \in Node : \A x \in S : x.key = i =>
        /\ Has(new[j], x) <=> Has(old[j], x)
        /\ \A y \in S : y.key = i =>
            /\ Precedes(new[j], x, y) => Precedes(old[j], x, y)
            /\ Behind(old[j], x, y) => Behind(new[j], x, y)

LEMMA SentAlike ==
    ASSUME NEW old, NEW new, NEW S, NEW n, NEW m, NEW i, m.key # i,
           Sent(old, new, n, m)
    PROVE  Alike(old, new, S, i)
BY DEF Sent, Alike

LEMMA TakenAlike ==
    ASSUME NEW old, NEW new, NEW S, NEW n, NEW m, NEW i, m.key # i,
           Taken(old, new, n, m)
    PROVE  Alike(old, new, S, i)
BY DEF Taken, Alike

LEMMA SameAlike ==
    ASSUME NEW old, NEW new, new = old, NEW S, NEW i
    PROVE  Alike(old, new, S, i)
BY DEF Alike

\* A step that is not about session i: nothing that concerns i is sent, taken
\* or changed, and its actor and timer at most start.
Untouched(i) ==
    /\ home'[i] = home[i]
    /\ i \in ended' <=> i \in ended
    /\ Alike(mailbox, mailbox', Command, i)
    /\ Alike(replicatorBox, replicatorBox', ReplicatorCommand, i)
    /\ \A j \in Node :
        /\ i \in children'[j] => i \in children[j]
        /\ i \in dataKeys[j] => i \in dataKeys'[j]
        /\ live'[j][i] = live[j][i] /\ seen'[j][i] = seen[j][i]
        /\ timer[j][i] /\ child[j][i] = "running" =>
               timer'[j][i] /\ child'[j][i] = "running"
        /\ <<j, i>> \in loggedOut' <=> <<j, i>> \in loggedOut
    /\ \A r \in Request : status[r] # "unused" => request'[r] = request[r]

LEMMA UntouchedKeeps ==
    ASSUME TypeOK, MessagesWereAsked, NEW i \in Session, SessionInv(i), Untouched(i)
    PROVE  SessionInv(i)'
<1>1. home'[i] = home[i] /\ (home[i] # None => home[i] \in Node)
    BY DEF Untouched, Alike, TypeOK
<1>2. \A n \in Node :
          /\ PutSent(n, i)' <=> PutSent(n, i)
          /\ PutQueued(n, i)' <=> PutQueued(n, i)
          /\ live'[n][i] = live[n][i] /\ seen'[n][i] = seen[n][i]
    BY DEF Untouched, Alike, PutSent, PutQueued
<1>3. \A n \in Node : /\ Entry(n, i)' <=> Entry(n, i)
                      /\ Alive(n, i)' <=> Alive(n, i)
    BY <1>2 DEF Entry, Alive
<1>m. /\ Evict(i) \in Command /\ Evict(i).key = i
      /\ UpdateRemove(i) \in ReplicatorCommand /\ UpdateRemove(i).key = i
      /\ \A r \in Request :
          /\ GetFromCache(i, r) \in Command /\ GetFromCache(i, r).key = i
          /\ ReadLocal(i, r) \in ReplicatorCommand /\ ReadLocal(i, r).key = i
    BY SessionMessages
<1>s. \A n \in Node :
          /\ Has(mailbox'[n], Evict(i)) <=> Has(mailbox[n], Evict(i))
          /\ Has(replicatorBox'[n], UpdateRemove(i)) <=>
                 Has(replicatorBox[n], UpdateRemove(i))
          /\ \A r \in Request :
              /\ Has(mailbox'[n], GetFromCache(i, r)) <=> Has(mailbox[n], GetFromCache(i, r))
              /\ Has(replicatorBox'[n], ReadLocal(i, r)) <=>
                     Has(replicatorBox[n], ReadLocal(i, r))
              /\ Behind(mailbox[n], Evict(i), GetFromCache(i, r)) =>
                     Behind(mailbox'[n], Evict(i), GetFromCache(i, r))
              /\ Behind(replicatorBox[n], UpdateRemove(i), ReadLocal(i, r)) =>
                     Behind(replicatorBox'[n], UpdateRemove(i), ReadLocal(i, r))
    BY <1>m DEF Untouched, Alike
<1>4. home'[i] = None => NotBegun(i)'
    BY DEF Untouched, Alike, SessionInv, NotBegun
<1>5. PutComesFirst(i)'
    <2>1. PutComesFirst(i)
        BY DEF SessionInv
    <2>a. \A j \in Node :
            /\ \A x \in Command : x.key = i =>
                /\ Has(mailbox'[j], x) => Has(mailbox[j], x)
                /\ \A y \in Command : y.key = i
                     /\ Precedes(mailbox'[j], x, y) => Precedes(mailbox[j], x, y)
            /\ \A x \in ReplicatorCommand : x.key = i =>
                /\ Has(replicatorBox'[j], x) => Has(replicatorBox[j], x)
                /\ \A y \in ReplicatorCommand : y.key = i
                     /\ Precedes(replicatorBox'[j], x, y) => Precedes(replicatorBox[j], x, y)
        BY DEF Untouched, Alike
    <2>b. \A j \in Node : (i \in children'[j] => i \in children[j])
                          /\ seen'[j][i] = seen[j][i]
        BY DEF Untouched
    <2>2. ASSUME NEW n \in Node, NEW m \in Command,
                 Has(mailbox'[n], m), m.type = "PutInCache", m.key = i
          PROVE  /\ n = home'[i] /\ i \notin children'[n]
                 /\ \A c \in Command : c.key = i => ~ Precedes(mailbox'[n], c, m)
                 /\ \A u \in ReplicatorCommand : Has(replicatorBox'[n], u) => u.key # i
                 /\ \A j \in Node : seen'[j][i] = {}
        BY <1>1, <2>1, <2>2, <2>a, <2>b DEF PutComesFirst
    <2>3. ASSUME NEW n \in Node, NEW u \in ReplicatorCommand,
                 Has(replicatorBox'[n], u), u.op = "put", u.key = i
          PROVE  /\ n = home'[i]
                 /\ \A c \in ReplicatorCommand :
                        c.key = i => ~ Precedes(replicatorBox'[n], c, u)
                 /\ \A j \in Node : seen'[j][i] = {}
        BY <1>1, <2>1, <2>3, <2>a, <2>b DEF PutComesFirst
    <2>4. QED BY <2>2, <2>3 DEF PutComesFirst
<1>6. SpreadFromHome(i)'
    BY <1>1, <1>2 DEF SessionInv, SpreadFromHome
<1>7. home'[i] # None => EntryHasEnd(i)'
    <2> SUFFICES ASSUME home'[i] # None, Entry(home[i], i)'
                 PROVE  \/ timer'[home'[i]][i] /\ child'[home'[i]][i] = "running"
                        \/ Has(mailbox'[home'[i]], Evict(i))
                        \/ Has(replicatorBox'[home'[i]], UpdateRemove(i))
        BY DEF EntryHasEnd
    <2>1. home[i] \in Node /\ home'[i] = home[i] /\ Entry(home[i], i)
        BY <1>1, <1>3
    <2>2. \/ timer[home[i]][i] /\ child[home[i]][i] = "running"
          \/ Has(mailbox[home[i]], Evict(i))
          \/ Has(replicatorBox[home[i]], UpdateRemove(i))
        BY <2>1 DEF SessionInv, EntryHasEnd
    <2>3. QED BY <1>s, <2>1, <2>2 DEF Untouched, Alike
<1>8. home'[i] # None => LogoutIsAhead(i)'
    <2> SUFFICES ASSUME home'[i] # None PROVE LogoutIsAhead(i)'
        OBVIOUS
    <2>1. home[i] \in Node /\ LogoutIsAhead(i) /\ home[i] = home'[i]
        BY <1>1 DEF SessionInv
    <2>2. <<home[i], i>> \in loggedOut' <=> <<home[i], i>> \in loggedOut
        BY <2>1 DEF Untouched, Alike
    <2>3. ASSUME NEW r \in Request
          PROVE  \/ request'[r] = request[r]
                 \/ /\ ~ Has(mailbox[home[i]], GetFromCache(i, r))
                    /\ ~ Has(replicatorBox[home[i]], ReadLocal(i, r))
        <3>1. status[r] # "unused" => request'[r] = request[r]
            BY DEF Untouched, Alike
        <3>2. /\ GetFromCache(i, r).replyTo = r /\ GetFromCache(i, r) \in Command
              /\ GetFromCache(i, r).type = "GetFromCache"
              /\ ReadLocal(i, r).replyTo = r /\ ReadLocal(i, r) \in ReplicatorCommand
              /\ ReadLocal(i, r).op = "get"
            BY SessionMessages
        <3>3. QED BY <2>1, <3>1, <3>2 DEF MessagesWereAsked
    <2>4. ASSUME NEW m \in Command, Has(mailbox'[home[i]], m),
                 m.type = "GetSuccess", m.key = i,
                 home[i] \in request'[m.replyTo].logouts
          PROVE  m.found = FALSE
        <3>1. Has(mailbox[home[i]], m)
            BY <2>1, <2>4 DEF Untouched, Alike
        <3>2. m.replyTo \in Request /\ status[m.replyTo] # "unused"
            BY <2>1, <2>4, <3>1, CommandForms DEF MessagesWereAsked
        <3>3. request'[m.replyTo] = request[m.replyTo]
            BY <3>2 DEF Untouched, Alike
        <3>4. QED BY <2>1, <2>4, <3>1, <3>3 DEF LogoutIsAhead
    <2>5. QED BY <1>s, <1>3, <2>1, <2>2, <2>3, <2>4 DEF LogoutIsAhead
<1>9. home'[i] # None /\ i \notin ended' => Stored(i)'
    <2> SUFFICES ASSUME home'[i] # None, i \notin ended' PROVE Stored(i)'
        OBVIOUS
    <2>1. home[i] \in Node /\ Stored(i) /\ home[i] = home'[i]
        BY <1>1 DEF SessionInv, Untouched
    <2>2. i \in dataKeys[home[i]] => i \in dataKeys'[home[i]]
        BY <2>1 DEF Untouched, Alike
    <2>3. \A m \in Command : Has(mailbox'[home[i]], m) /\ m.key = i =>
              m.type # "NotFound" /\ (m.type = "GetSuccess" => m.found = TRUE)
        BY <2>1 DEF Untouched, Alike, Stored
    <2>4. QED BY <1>s, <1>2, <2>1, <2>2, <2>3 DEF Stored
<1>10. QED BY <1>4, <1>5, <1>6, <1>7, <1>8, <1>9 DEF SessionInv

\* No session is created twice, and its put is the first message about it.
LEMMA CreateStep ==
    ASSUME Ready, NEW n \in Node, NEW k \in Session, create(n, k)
    PROVE  HomeInv'
<1>a. TypeOK /\ TypeOK' /\ HomeInv /\ \A i \in Session : SessionInv(i)
    BY DEF Ready, HomeInv
<1>b. NextValue \in 1 .. MaxPuts
    BY <1>a, BoundsAssumption DEF create, TypeOK, NextValue
<1> DEFINE m == PutInCache(k, NextValue)
<1>1. m \in Command /\ m.type = "PutInCache" /\ m.key = k
    BY <1>b DEF PutInCache, Command
<1>2. Sent(mailbox, mailbox', n, m)
    BY <1>a, <1>1, MailSent DEF create, Tell
<1> HIDE DEF m
<1>3. /\ home[k] = None /\ n # None /\ home'[k] = n
      /\ \A i \in Session : i # k => home'[i] = home[i]
      /\ UNCHANGED <<replicatorBox, children, child, timer, dataKeys, live, seen,
                     request, status, loggedOut, ended>>
    BY <1>a, NoneAssumption
    DEF create, TypeOK, childVars, dataVars, requestVars
<1>4. ASSUME NEW i \in Session, i # k  PROVE SessionInv(i)'
    <2>1. Untouched(i)
        BY <1>1, <1>2, <1>3, <1>4, SentAlike, SameAlike DEF Untouched
    <2>2. QED BY <1>a, <2>1, UntouchedKeeps DEF HomeInv
<1>5. SessionInv(k)'
    <2>1. NotBegun(k) /\ SpreadFromHome(k)
        BY <1>a, <1>3 DEF SessionInv
    <2>2. \A j \in Node : live[j][k] = {} /\ seen[j][k] = {}
        BY <2>1 DEF NotBegun, SpreadFromHome
    <2>3. PutComesFirst(k)'
        <3>1. ASSUME NEW j \in Node, NEW p \in Command,
                     Has(mailbox'[j], p), p.key = k
              PROVE  j = n /\ p = m
            BY <1>1, <1>2, <2>1, <3>1 DEF NotBegun, Sent
        <3>2. ASSUME NEW c \in Command, c.key = k  PROVE ~ Precedes(mailbox'[n], c, m)
            <4>1. ~ Has(mailbox[n], c) /\ ~ Has(mailbox[n], m)
                BY <1>1, <2>1, <3>2 DEF NotBegun
            <4>2. ~ Precedes(mailbox[n], c, m)
                BY <4>1 DEF Precedes, Has
            <4>3. QED BY <1>2, <4>1, <4>2 DEF Sent
        <3>3. ASSUME NEW j \in Node, NEW u \in ReplicatorCommand,
                     Has(replicatorBox'[j], u)
              PROVE  u.key # k
            BY <1>3, <2>1, <3>3 DEF NotBegun
        <3>4. \A j \in Node : k \notin children'[j] /\ seen'[j][k] = {}
            BY <1>3, <2>1 DEF NotBegun
        <3>5. QED BY <1>3, <3>1, <3>2, <3>3, <3>4 DEF PutComesFirst
    <2>4. SpreadFromHome(k)'
        BY <1>3, <2>2 DEF SpreadFromHome
    <2>5. ~ Entry(n, k)'
        BY <1>3, <2>1, <2>2 DEF Entry, PutQueued, NotBegun
    <2>6. EntryHasEnd(k)'
        BY <1>3, <2>5 DEF EntryHasEnd
    <2>7. \A c \in Command : Has(mailbox'[n], c) /\ c.key = k => c.type = "PutInCache"
        BY <1>1, <1>2, <2>1 DEF Sent, NotBegun
    <2>8. LogoutIsAhead(k)'
        BY <1>3, <2>1, <2>7, SessionMessages DEF LogoutIsAhead, NotBegun
    <2>9. Stored(k)'
        <3>1. PutSent(n, k)'
            BY <1>1, <1>2 DEF PutSent, Sent
        <3>a. /\ Evict(k) \in Command /\ Evict(k).type = "Evict" /\ Evict(k).key = k
              /\ UpdateRemove(k) \in ReplicatorCommand /\ UpdateRemove(k).key = k
            BY SessionMessages
        <3>2. \A j \in Node : ~ Has(mailbox'[j], Evict(k))
            BY <1>1, <1>2, <2>1, <3>a DEF NotBegun, Sent
        <3>3. \A j \in Node : ~ Has(replicatorBox'[j], UpdateRemove(k))
            BY <1>3, <2>1, <3>a DEF NotBegun
        <3>4. QED BY <1>3, <2>2, <2>7, <3>1, <3>2, <3>3 DEF Stored
    <2>10. QED BY <1>3, <2>3, <2>4, <2>6, <2>8, <2>9 DEF SessionInv
<1>6. MessagesWereAsked'
    BY <1>a, <1>1, <1>2, <1>3 DEF HomeInv, MessagesWereAsked, Sent
<1>7. LookupsFollowLogin'
    BY <1>a, <1>3 DEF HomeInv, LookupsFollowLogin
<1>8. HomeIsRight'
    BY <1>a, <1>3
    DEF HomeInv, HomeIsRight, NoReplayAtHome, AvailableAtHome, LookupsFollowLogin
<1>9. QED BY <1>4, <1>5, <1>6, <1>7, <1>8 DEF HomeInv

\* The Evict of a logout is behind the put, and ahead of later lookups.
LEMMA DeleteStep ==
    ASSUME Ready, NEW n \in Node, NEW k \in Session, delete(n, k)
    PROVE  HomeInv'
<1>a. TypeOK /\ TypeOK' /\ HomeInv /\ \A i \in Session : SessionInv(i)
    BY DEF Ready, HomeInv
<1> DEFINE m == Evict(k)
<1>1. m \in Command /\ m.type = "Evict" /\ m.key = k
    BY SessionMessages
<1>2. Sent(mailbox, mailbox', n, m)
    BY <1>a, <1>1, MailSent DEF delete, Tell
<1>b. m = Evict(k)
    OBVIOUS
<1> HIDE DEF m
<1>3. /\ home[k] # None /\ home[k] \in Node
      /\ loggedOut' = loggedOut \cup {<<n, k>>} /\ ended' = ended \cup {k}
      /\ UNCHANGED <<replicatorBox, children, child, timer, dataKeys, live, seen,
                     request, status, home>>
    BY <1>a DEF delete, TypeOK, childVars, dataVars, requestVars
<1>4. ASSUME NEW i \in Session, i # k  PROVE SessionInv(i)'
    <2>1. Untouched(i)
        BY <1>1, <1>2, <1>3, <1>4, SentAlike, SameAlike DEF Untouched
    <2>2. QED BY <1>a, <2>1, UntouchedKeeps DEF HomeInv
<1>5. SessionInv(k)'
    <2>1. /\ PutComesFirst(k) /\ SpreadFromHome(k)
          /\ EntryHasEnd(k) /\ LogoutIsAhead(k)
        BY <1>a, <1>3 DEF SessionInv
    <2>2. PutComesFirst(k)'
        BY <1>1, <1>2, <1>3, <2>1 DEF PutComesFirst, Sent
    <2>3. SpreadFromHome(k)'
        BY <1>3, <2>1 DEF SpreadFromHome
    <2>4. Has(mailbox'[home[k]], Evict(k)) \/ home[k] # n
        BY <1>2, <1>3, <1>b DEF Sent
    <2>5. Has(mailbox[home[k]], Evict(k)) => Has(mailbox'[home[k]], Evict(k))
        BY <1>2, <1>3 DEF Sent
    <2>6. /\ Entry(home[k], k)' <=> Entry(home[k], k)
          /\ Alive(home[k], k)' <=> Alive(home[k], k)
        BY <1>1, <1>2, <1>3 DEF Entry, Alive, PutQueued, PutSent, Sent
    <2>7. EntryHasEnd(k)'
        BY <1>3, <2>1, <2>5, <2>6 DEF EntryHasEnd
    <2>8. LogoutIsAhead(k)'
        <3>1. /\ \A r \in Request : /\ GetFromCache(k, r) \in Command
                                    /\ GetFromCache(k, r).type = "GetFromCache"
            BY SessionMessages
        <3>2. \A r \in Request :
                /\ Has(mailbox'[home[k]], GetFromCache(k, r)) <=>
                       Has(mailbox[home[k]], GetFromCache(k, r))
                /\ Behind(mailbox[home[k]], Evict(k), GetFromCache(k, r)) =>
                       Behind(mailbox'[home[k]], Evict(k), GetFromCache(k, r))
            BY <1>1, <1>2, <1>3, <3>1 DEF Sent
        <3>3. \A c \in Command : c.type = "GetSuccess" =>
                (Has(mailbox'[home[k]], c) <=> Has(mailbox[home[k]], c))
            BY <1>1, <1>2, <1>3 DEF Sent
        <3>4. <<home[k], k>> \in loggedOut' =>
                Has(mailbox'[home[k]], Evict(k)) \/ <<home[k], k>> \in loggedOut
            BY <1>3, <2>4
        <3>5. QED BY <1>3, <2>1, <2>5, <2>6, <3>2, <3>3, <3>4 DEF LogoutIsAhead
    <2>9. QED BY <1>3, <2>2, <2>3, <2>7, <2>8 DEF SessionInv
<1>6. MessagesWereAsked'
    BY <1>a, <1>1, <1>2, <1>3 DEF HomeInv, MessagesWereAsked, Sent
<1>7. LookupsFollowLogin'
    BY <1>a, <1>3 DEF HomeInv, LookupsFollowLogin
<1>8. HomeIsRight'
    BY <1>a, <1>3 DEF HomeInv, HomeIsRight, NoReplayAtHome, AvailableAtHome
<1>9. QED BY <1>4, <1>5, <1>6, <1>7, <1>8 DEF HomeInv

\* A lookup after a logout is behind the Evict of the logout.
LEMMA LookupStep ==
    ASSUME Ready, NEW n \in Node, NEW k \in Session, NEW q \in Request,
           lookup(n, k, q)
    PROVE  HomeInv'
<1>a. TypeOK /\ TypeOK' /\ HomeInv /\ \A i \in Session : SessionInv(i)
    BY DEF Ready, HomeInv
<1> DEFINE m == GetFromCache(k, q)
<1>1. m \in Command /\ m.type = "GetFromCache" /\ m.key = k /\ m.replyTo = q
    BY SessionMessages
<1>2. Sent(mailbox, mailbox', n, m)
    BY <1>a, <1>1, MailSent DEF lookup, Tell
<1>b. m = GetFromCache(k, q)
    OBVIOUS
<1> HIDE DEF m
<1>3. /\ home[k] # None /\ home[k] \in Node /\ status[q] = "unused"
      /\ status'[q] = "asked" /\ request'[q].key = k /\ request'[q].node = n
      /\ request'[q].logouts = {j \in Node : <<j, k>> \in loggedOut}
      /\ \A r \in Request : r # q => request'[r] = request[r] /\ status'[r] = status[r]
      /\ UNCHANGED <<replicatorBox, children, child, timer, dataKeys, live, seen,
                     home, loggedOut, ended>>
    BY <1>a DEF lookup, TypeOK, childVars, dataVars, historyVars
<1>4. ASSUME NEW i \in Session, i # k  PROVE SessionInv(i)'
    <2>1. Untouched(i)
        BY <1>1, <1>2, <1>3, <1>4, SentAlike, SameAlike DEF Untouched
    <2>2. QED BY <1>a, <2>1, UntouchedKeeps DEF HomeInv
<1>5. SessionInv(k)'
    <2>1. /\ PutComesFirst(k) /\ SpreadFromHome(k)
          /\ EntryHasEnd(k) /\ LogoutIsAhead(k)
          /\ k \notin ended => Stored(k)
        BY <1>a, <1>3 DEF SessionInv
    <2>2. PutComesFirst(k)'
        <3>1. \A j \in Node : \A p \in Command : p.type = "PutInCache" =>
                /\ Has(mailbox'[j], p) => Has(mailbox[j], p)
                /\ \A c \in Command : Precedes(mailbox'[j], c, p) => Precedes(mailbox[j], c, p)
            BY <1>1, <1>2 DEF Sent
        <3>2. QED BY <1>3, <2>1, <3>1 DEF PutComesFirst
    <2>3. SpreadFromHome(k)'
        BY <1>3, <2>1 DEF SpreadFromHome
    <2>4. \A c \in Command : c.type # "GetFromCache" => \A j \in Node :
              Has(mailbox'[j], c) <=> Has(mailbox[j], c)
        BY <1>1, <1>2 DEF Sent
    <2>5. Evict(k) \in Command /\ Evict(k).type = "Evict"
        BY SessionMessages
    <2>6. /\ Entry(home[k], k)' <=> Entry(home[k], k)
          /\ Alive(home[k], k)' <=> Alive(home[k], k)
          /\ \A j \in Node : PutSent(j, k)' <=> PutSent(j, k)
          /\ \A j \in Node : PutQueued(j, k)' <=> PutQueued(j, k)
        BY <1>3, <2>4 DEF Entry, Alive, PutQueued, PutSent
    <2>7. EntryHasEnd(k)'
        BY <1>3, <2>1, <2>4, <2>5, <2>6 DEF EntryHasEnd
    <2>8. LogoutIsAhead(k)'
        <3>1. <<home[k], k>> \in loggedOut =>
                \/ Has(mailbox'[home[k]], Evict(k))
                \/ Has(replicatorBox[home[k]], UpdateRemove(k))
                \/ ~ Alive(home[k], k)
            BY <1>3, <2>1, <2>4, <2>5 DEF LogoutIsAhead
        <3>2. ASSUME NEW r \in Request, home[k] \in request'[r].logouts
              PROVE  /\ Has(mailbox'[home[k]], GetFromCache(k, r)) =>
                        \/ Behind(mailbox'[home[k]], Evict(k), GetFromCache(k, r))
                        \/ Has(replicatorBox[home[k]], UpdateRemove(k))
                        \/ ~ Alive(home[k], k)
                     /\ Has(replicatorBox[home[k]], ReadLocal(k, r)) =>
                        \/ Behind(replicatorBox[home[k]], UpdateRemove(k), ReadLocal(k, r))
                        \/ ~ Alive(home[k], k)
            <4>1. /\ GetFromCache(k, r) \in Command /\ GetFromCache(k, r).replyTo = r
                  /\ GetFromCache(k, r).type = "GetFromCache"
                  /\ ReadLocal(k, r) \in ReplicatorCommand
                  /\ ReadLocal(k, r).replyTo = r /\ ReadLocal(k, r).op = "get"
                BY SessionMessages
            <4>2. CASE r = q
                <5>1. /\ ~ Has(mailbox[home[k]], GetFromCache(k, r))
                      /\ ~ Has(replicatorBox[home[k]], ReadLocal(k, r))
                    BY <1>a, <1>3, <4>1, <4>2 DEF HomeInv, MessagesWereAsked
                <5>2. Behind(mailbox[home[k]], Evict(k), GetFromCache(k, r))
                    BY <5>1 DEF Behind, Has
                <5>3. <<home[k], k>> \in loggedOut
                    BY <1>3, <3>2, <4>2
                <5>4. Has(mailbox[home[k]], Evict(k)) =>
                        Behind(mailbox'[home[k]], Evict(k), GetFromCache(k, r))
                    BY <1>2, <1>3, <5>2 DEF Sent
                <5>5. QED BY <2>1, <5>1, <5>3, <5>4 DEF LogoutIsAhead
            <4>3. CASE r # q
                <5>1. GetFromCache(k, r) # m
                    BY <1>1, <4>1, <4>3
                <5>2. /\ Has(mailbox'[home[k]], GetFromCache(k, r)) <=>
                             Has(mailbox[home[k]], GetFromCache(k, r))
                      /\ Behind(mailbox[home[k]], Evict(k), GetFromCache(k, r)) =>
                             Behind(mailbox'[home[k]], Evict(k), GetFromCache(k, r))
                    BY <1>2, <1>3, <5>1 DEF Sent
                <5>3. home[k] \in request[r].logouts
                    BY <1>3, <3>2, <4>3
                <5>4. QED BY <2>1, <5>2, <5>3 DEF LogoutIsAhead
            <4>4. QED BY <4>2, <4>3
        <3>3. ASSUME NEW c \in Command, Has(mailbox'[home[k]], c),
                     c.type = "GetSuccess", c.key = k,
                     home[k] \in request'[c.replyTo].logouts
              PROVE  c.found = FALSE
            <4>1. Has(mailbox[home[k]], c) /\ c.replyTo \in Request
                BY <1>3, <2>4, <3>3, CommandForms
            <4>2. c.replyTo # q
                BY <1>a, <1>3, <3>3, <4>1 DEF HomeInv, MessagesWereAsked
            <4>3. QED BY <1>3, <2>1, <3>3, <4>1, <4>2 DEF LogoutIsAhead
        <3>4. QED BY <1>3, <2>6, <3>1, <3>2, <3>3 DEF LogoutIsAhead
    <2>9. ASSUME k \notin ended'  PROVE Stored(k)'
        BY <1>1, <1>2, <1>3, <2>1, <2>4, <2>5, <2>6, <2>9 DEF Stored, Sent
    <2>10. QED BY <1>3, <2>2, <2>3, <2>7, <2>8, <2>9 DEF SessionInv
<1>6. MessagesWereAsked'
    <2>1. ASSUME NEW j \in Node, NEW c \in Command, Has(mailbox'[j], c),
                 c.type \in {"GetFromCache", "GetSuccess", "NotFound"}
          PROVE  /\ request'[c.replyTo].key = c.key
                 /\ request'[c.replyTo].node = j
                 /\ status'[c.replyTo] # "unused"
        <3>1. CASE Has(mailbox[j], c)
            <4>1. c.replyTo \in Request /\ c.replyTo # q
                BY <1>a, <1>3, <2>1, <3>1, CommandForms DEF HomeInv, MessagesWereAsked
            <4>2. QED BY <1>a, <1>3, <2>1, <3>1, <4>1 DEF HomeInv, MessagesWereAsked
        <3>2. CASE j = n /\ c = m
            BY <1>1, <1>3, <3>2
        <3>3. QED BY <1>2, <2>1, <3>1, <3>2 DEF Sent
    <2>2. ASSUME NEW j \in Node, NEW u \in ReplicatorCommand,
                 Has(replicatorBox'[j], u), u.op = "get"
          PROVE  /\ request'[u.replyTo].key = u.key
                 /\ request'[u.replyTo].node = j
                 /\ status'[u.replyTo] # "unused"
        <3>1. u.replyTo \in Request /\ u.replyTo # q
            BY <1>a, <1>3, <2>2, ReplicatorCommandForms DEF HomeInv, MessagesWereAsked
        <3>2. QED BY <1>a, <1>3, <2>2, <3>1 DEF HomeInv, MessagesWereAsked
    <2>3. QED BY <2>1, <2>2 DEF MessagesWereAsked
<1>7. LookupsFollowLogin'
    BY <1>a, <1>3 DEF HomeInv, LookupsFollowLogin
<1>8. HomeIsRight'
    BY <1>a, <1>3 DEF HomeInv, HomeIsRight, NoReplayAtHome, AvailableAtHome
<1>9. QED BY <1>4, <1>5, <1>6, <1>7, <1>8 DEF HomeInv

\* A late answer changes nothing more.
LEMMA AskTimeoutStep ==
    ASSUME Ready, NEW q \in Request, AskTimeout(q)
    PROVE  HomeInv'
<1>a. TypeOK /\ TypeOK' /\ HomeInv /\ \A i \in Session : SessionInv(i)
    BY DEF Ready, HomeInv
<1>1. /\ status[q] = "asked" /\ status'[q] = "timedOut"
      /\ \A r \in Request : r # q => status'[r] = status[r]
      /\ UNCHANGED <<mailbox, replicatorBox, children, child, timer, dataKeys, live,
                     seen, request, home, loggedOut, ended>>
    BY <1>a DEF AskTimeout, TypeOK, cacheVars, childVars, dataVars, historyVars
<1>2. ASSUME NEW i \in Session  PROVE SessionInv(i)'
    <2>1. Untouched(i)
        BY <1>1, SameAlike DEF Untouched
    <2>2. QED BY <1>a, <2>1, UntouchedKeeps DEF HomeInv
<1>3. MessagesWereAsked'
    BY <1>a, <1>1, CommandForms, ReplicatorCommandForms
    DEF HomeInv, MessagesWereAsked
<1>4. LookupsFollowLogin'
    BY <1>a, <1>1 DEF HomeInv, LookupsFollowLogin
<1>5. HomeIsRight'
    BY <1>a, <1>1 DEF HomeInv, HomeIsRight, NoReplayAtHome, AvailableAtHome
<1>6. QED BY <1>2, <1>3, <1>4, <1>5 DEF HomeInv

LEMMA PrecedesHas ==
    ASSUME NEW s, NEW x, NEW y, Precedes(s, x, y)
    PROVE  Has(s, x) /\ Has(s, y)
BY DEF Precedes, Has

\* A message is about a session that was created.
LEMMA AboutCreated ==
    ASSUME TypeOK, NEW k \in Session, SessionInv(k), NEW n \in Node,
           \/ \E m \in Command : m.key = k /\ Has(mailbox[n], m)
           \/ \E u \in ReplicatorCommand : u.key = k /\ Has(replicatorBox[n], u)
    PROVE  home[k] # None /\ home[k] \in Node
BY DEF SessionInv, NotBegun, TypeOK

\* When a message about a session is handled its put is not behind it.
LEMMA NoPutBehind ==
    ASSUME NEW k \in Session, PutComesFirst(k), NEW n \in Node,
           NEW m \in Command, m.key = k, Taken(mailbox, mailbox', n, m),
           NEW p \in Command, p.type = "PutInCache", p.key = k
    PROVE  ~ Has(mailbox'[n], p)
BY DEF PutComesFirst, Taken

LEMMA NoQueuedPutBehind ==
    ASSUME NEW k \in Session, PutComesFirst(k), NEW n \in Node,
           NEW u \in ReplicatorCommand, u.key = k, Has(replicatorBox[n], u),
           Taken(replicatorBox, replicatorBox', n, u)
    PROVE  /\ \A p \in ReplicatorCommand :
                  p.op = "put" /\ p.key = k => ~ Has(replicatorBox'[n], p)
           /\ ~ PutSent(n, k)
BY DEF PutComesFirst, Taken, PutSent

LEMMA RefreshFacts ==
    ASSUME TypeOK, NEW n \in Node, NEW k \in Session, refreshSessionExpiration(n, k)
    PROVE  /\ \A j \in Node, i \in Session :
               /\ i \in children'[j] => i \in children[j] \/ (j = n /\ i = k)
               /\ timer[j][i] /\ child[j][i] = "running" =>
                      timer'[j][i] /\ child'[j][i] = "running"
           /\ k \notin children[n] => timer'[n][k] /\ child'[n][k] = "running"
<1>1. CASE k \in children[n]
    BY <1>1 DEF refreshSessionExpiration
<1>2. CASE k \notin children[n]
    <2>1. /\ children' = [children EXCEPT ![n] = @ \cup {k}]
          /\ child' = [child EXCEPT ![n][k] = "running"]
          /\ timer' = [timer EXCEPT ![n][k] = TRUE]
        BY <1>2 DEF refreshSessionExpiration
    <2>2. ASSUME NEW j \in Node, NEW i \in Session
          PROVE  /\ i \in children'[j] => i \in children[j] \/ (j = n /\ i = k)
                 /\ child'[j][i] = IF j = n /\ i = k THEN "running" ELSE child[j][i]
                 /\ timer'[j][i] = IF j = n /\ i = k THEN TRUE ELSE timer[j][i]
        BY <2>1 DEF TypeOK
    <2>3. QED BY <1>2, <2>2
<1>3. QED BY <1>1, <1>2

\* The put is handled: the entry goes to the replicator, and the actor that
\* will end it is spawned, because no other message has spawned one.
LEMMA PutInCacheStep ==
    ASSUME Ready, NEW n \in Node, HandlePutInCache(n)
    PROVE  HomeInv'
<1>a. TypeOK /\ TypeOK' /\ HomeInv /\ \A i \in Session : SessionInv(i)
    BY DEF Ready, HomeInv
<1>b. PICK m \in Command : m = Head(mailbox[n])
    BY <1>a, MailTaken DEF HandlePutInCache
<1> DEFINE k == m.key
           u == UpdatePut(m.key, m.value)
<1>1. /\ m \in Command /\ m.type = "PutInCache" /\ k = m.key /\ k \in Session
      /\ Has(mailbox[n], m) /\ Taken(mailbox, mailbox', n, m)
      /\ m.value \in 1 .. MaxPuts
    BY <1>a, <1>b, MailTaken, CommandForms DEF HandlePutInCache
<1>2. u \in ReplicatorCommand /\ u.op = "put" /\ u.key = k
    BY <1>1 DEF UpdatePut, ReplicatorCommand
<1>3. Sent(replicatorBox, replicatorBox', n, u)
    BY <1>a, <1>b, <1>2, BoxSent DEF HandlePutInCache
<1>4. refreshSessionExpiration(n, k)
    BY <1>b DEF HandlePutInCache
<1>5. UNCHANGED <<dataKeys, live, seen, request, status, home, loggedOut, ended>>
    BY DEF HandlePutInCache, dataVars, requestVars
<1> HIDE DEF k, u
<1>6. /\ SessionInv(k) /\ PutComesFirst(k) /\ home[k] = n /\ n # None
    BY <1>a, <1>1, NoneAssumption DEF SessionInv, PutComesFirst
<1>7. /\ k \notin children[n]
      /\ \A x \in ReplicatorCommand : Has(replicatorBox[n], x) => x.key # k
      /\ \A j \in Node : seen[j][k] = {} /\ live[j][k] = {}
    BY <1>1, <1>6 DEF PutComesFirst, SessionInv, SpreadFromHome
<1>8. ASSUME NEW i \in Session, i # k  PROVE SessionInv(i)'
    <2>1. Alike(mailbox, mailbox', Command, i)
        BY <1>1, <1>8, TakenAlike
    <2>2. Alike(replicatorBox, replicatorBox', ReplicatorCommand, i)
        BY <1>2, <1>3, <1>8, SentAlike
    <2>3. \A j \in Node :
              /\ i \in children'[j] => i \in children[j]
              /\ timer[j][i] /\ child[j][i] = "running" =>
                     timer'[j][i] /\ child'[j][i] = "running"
        BY <1>a, <1>1, <1>4, <1>8, RefreshFacts
    <2>4. Untouched(i)
        BY <1>5, <2>1, <2>2, <2>3 DEF Untouched
    <2>5. QED BY <1>a, <2>4, UntouchedKeeps DEF HomeInv
<1>9. SessionInv(k)'
    <2>1. \A j \in Node : \A p \in Command :
              p.type = "PutInCache" /\ p.key = k => ~ Has(mailbox'[j], p)
        <3>1. \A p \in Command :
                  p.type = "PutInCache" /\ p.key = k => ~ Has(mailbox'[n], p)
            BY <1>1, <1>6, NoPutBehind
        <3>2. \A j \in Node : \A p \in Command :
                  j # n /\ p.type = "PutInCache" /\ p.key = k => ~ Has(mailbox[j], p)
            BY <1>6 DEF PutComesFirst
        <3>3. QED BY <1>1, <3>1, <3>2 DEF Taken
    <2>2. \A j \in Node : \A x \in ReplicatorCommand :
              Has(replicatorBox'[j], x) /\ x.op = "put" /\ x.key = k => j = n /\ x = u
        BY <1>3, <1>6, <1>7 DEF Sent, PutComesFirst
    <2>3. \A x \in ReplicatorCommand :
              Has(replicatorBox'[n], x) /\ x.key = k => x = u
        BY <1>3, <1>7 DEF Sent
    <2>4. \A c \in ReplicatorCommand : c.key = k => ~ Precedes(replicatorBox'[n], c, u)
        BY <1>2, <1>3, <1>7, PrecedesHas DEF Sent
    <2>5. PutComesFirst(k)'
        BY <1>5, <1>6, <1>7, <2>1, <2>2, <2>4 DEF PutComesFirst
    <2>6. SpreadFromHome(k)'
        BY <1>5, <1>7 DEF SpreadFromHome
    <2>7. EntryHasEnd(k)'
        <3>1. timer'[n][k] /\ child'[n][k] = "running"
            BY <1>a, <1>1, <1>4, <1>7, RefreshFacts
        <3>2. QED BY <1>5, <1>6, <3>1 DEF EntryHasEnd
    <2>8. /\ Evict(k) \in Command /\ Evict(k).type = "Evict" /\ Evict(k).key = k
          /\ UpdateRemove(k) \in ReplicatorCommand
          /\ UpdateRemove(k).op = "remove" /\ UpdateRemove(k).key = k
          /\ \A r \in Request :
              /\ GetFromCache(k, r) \in Command
              /\ ReadLocal(k, r) \in ReplicatorCommand
              /\ ReadLocal(k, r).op = "get" /\ ReadLocal(k, r).key = k
        BY <1>1, SessionMessages
    <2>9. Alive(n, k)
        BY <1>1 DEF Alive, PutSent
    <2>10. LogoutIsAhead(k)'
        <3>1. ~ Has(replicatorBox[n], UpdateRemove(k)) /\ LogoutIsAhead(k)
            BY <1>6, <1>7, <2>8 DEF SessionInv
        <3>2. Has(mailbox[n], Evict(k)) => Has(mailbox'[n], Evict(k))
            BY <1>1, <2>8 DEF Taken
        <3>3. \A r \in Request :
                /\ Has(mailbox'[n], GetFromCache(k, r)) => Has(mailbox[n], GetFromCache(k, r))
                /\ Behind(mailbox[n], Evict(k), GetFromCache(k, r)) =>
                       Behind(mailbox'[n], Evict(k), GetFromCache(k, r))
                /\ ~ Has(replicatorBox'[n], ReadLocal(k, r))
            BY <1>1, <1>2, <2>3, <2>8 DEF Taken
        <3>4. \A c \in Command : Has(mailbox'[n], c) => Has(mailbox[n], c)
            BY <1>1 DEF Taken
        <3>5. QED BY <1>5, <1>6, <2>9, <3>1, <3>2, <3>3, <3>4 DEF LogoutIsAhead
    <2>11. ASSUME k \notin ended'  PROVE Stored(k)'
        <3>1. Stored(k)
            BY <1>5, <1>6, <2>11 DEF SessionInv
        <3>2. \A j \in Node : ~ Has(mailbox'[j], Evict(k))
            BY <1>1, <3>1 DEF Taken, Stored
        <3>3. \A j \in Node : ~ Has(replicatorBox'[j], UpdateRemove(k))
            BY <1>2, <1>3, <2>8, <3>1 DEF Sent, Stored
        <3>4. PutQueued(n, k)'
            BY <1>2, <1>3 DEF PutQueued, Sent
        <3>5. \A c \in Command : Has(mailbox'[n], c) => Has(mailbox[n], c)
            BY <1>1 DEF Taken
        <3>6. QED BY <1>5, <1>6, <3>1, <3>2, <3>3, <3>4, <3>5 DEF Stored
    <2>12. QED BY <1>5, <1>6, <2>5, <2>6, <2>7, <2>10, <2>11 DEF SessionInv
<1>10. MessagesWereAsked'
    BY <1>a, <1>1, <1>2, <1>3, <1>5 DEF HomeInv, MessagesWereAsked, Sent, Taken
<1>11. LookupsFollowLogin' /\ HomeIsRight'
    BY <1>a, <1>5
    DEF HomeInv, LookupsFollowLogin, HomeIsRight, NoReplayAtHome, AvailableAtHome
<1>12. QED BY <1>8, <1>9, <1>10, <1>11 DEF HomeInv

\* An Evict is handled: its remove is queued behind whatever there is.
LEMMA EvictStep ==
    ASSUME Ready, NEW n \in Node, HandleEvict(n)
    PROVE  HomeInv'
<1>a. TypeOK /\ TypeOK' /\ HomeInv /\ \A i \in Session : SessionInv(i)
    BY DEF Ready, HomeInv
<1>b. PICK m \in Command : m = Head(mailbox[n])
    BY <1>a, MailTaken DEF HandleEvict
<1> DEFINE k == m.key
           u == UpdateRemove(k)
<1>1. /\ m \in Command /\ m.type = "Evict" /\ k = m.key /\ k \in Session
      /\ Has(mailbox[n], m) /\ Taken(mailbox, mailbox', n, m) /\ m = Evict(k)
    BY <1>a, <1>b, MailTaken, CommandForms DEF HandleEvict
<1>2. u \in ReplicatorCommand /\ u.op = "remove" /\ u.key = k /\ u = UpdateRemove(k)
    BY <1>1, SessionMessages
<1>3. Sent(replicatorBox, replicatorBox', n, u)
    BY <1>a, <1>b, <1>2, BoxSent DEF HandleEvict
<1>4. \A j \in Node, i \in Session : child'[j][i] = child[j][i] \/ (j = n /\ i = k)
    <2>1. child' = child \/ child' = [child EXCEPT ![n][k] = "stopping"]
        BY <1>b DEF HandleEvict, destroySessionExpiration
    <2>2. child \in [Node -> [Session -> ChildState]]
        BY <1>a DEF TypeOK
    <2>3. CASE child' = [child EXCEPT ![n][k] = "stopping"]
        BY <1>1, <2>2, <2>3
    <2>4. QED BY <2>1, <2>3
<1>5. UNCHANGED <<children, timer, dataKeys, live, seen, request, status, home,
                  loggedOut, ended>>
    BY DEF HandleEvict, dataVars, requestVars, historyVars
<1> HIDE DEF k, u
<1>6. SessionInv(k) /\ home[k] # None /\ home[k] \in Node
    BY <1>a, <1>1, AboutCreated
<1>7. /\ PutComesFirst(k) /\ SpreadFromHome(k) /\ EntryHasEnd(k) /\ LogoutIsAhead(k)
      /\ k \in ended
    BY <1>1, <1>6 DEF SessionInv, Stored
<1>8. ASSUME NEW i \in Session, i # k  PROVE SessionInv(i)'
    <2>1. Alike(mailbox, mailbox', Command, i)
        BY <1>1, <1>8, TakenAlike
    <2>2. Alike(replicatorBox, replicatorBox', ReplicatorCommand, i)
        BY <1>2, <1>3, <1>8, SentAlike
    <2>3. \A j \in Node : child'[j][i] = child[j][i]
        BY <1>4, <1>8
    <2>4. Untouched(i)
        BY <1>5, <2>1, <2>2, <2>3 DEF Untouched
    <2>5. QED BY <1>a, <2>4, UntouchedKeeps DEF HomeInv
<1>9. SessionInv(k)'
    <2>1. \A j \in Node : \A p \in Command :
              /\ Has(mailbox'[j], p) => Has(mailbox[j], p)
              /\ \A c \in Command : Precedes(mailbox'[j], c, p) => Precedes(mailbox[j], c, p)
        BY <1>1 DEF Taken
    <2>2. \A p \in Command : p.type = "PutInCache" /\ p.key = k => ~ Has(mailbox'[n], p)
        BY <1>1, <1>7, NoPutBehind
    <2>3. \A j \in Node : \A x \in ReplicatorCommand : x.op # "remove" =>
              /\ Has(replicatorBox'[j], x) <=> Has(replicatorBox[j], x)
              /\ \A c \in ReplicatorCommand :
                  Precedes(replicatorBox'[j], c, x) => Precedes(replicatorBox[j], c, x)
        BY <1>2, <1>3 DEF Sent
    <2>4. \A j \in Node : \A x \in ReplicatorCommand :
              Has(replicatorBox'[j], x) => j = n \/ Has(replicatorBox[j], x)
        BY <1>3 DEF Sent
    <2>5. PutComesFirst(k)'
        BY <1>5, <1>7, <2>1, <2>2, <2>3, <2>4 DEF PutComesFirst
    <2>6. SpreadFromHome(k)'
        BY <1>5, <1>7 DEF SpreadFromHome
    <2>7. /\ Entry(home[k], k)' => Entry(home[k], k)
          /\ Alive(home[k], k)' => Alive(home[k], k)
        BY <1>5, <1>6, <2>1, <2>3 DEF Entry, Alive, PutSent, PutQueued
    <2>8. /\ Has(replicatorBox[home[k]], UpdateRemove(k)) =>
                 Has(replicatorBox'[home[k]], UpdateRemove(k))
          /\ home[k] = n => Has(replicatorBox'[home[k]], UpdateRemove(k))
          /\ home[k] # n => \A x : Has(mailbox'[home[k]], x) <=> Has(mailbox[home[k]], x)
        BY <1>1, <1>2, <1>3, <1>6 DEF Sent, Taken
    <2>9. EntryHasEnd(k)'
        BY <1>4, <1>5, <1>6, <1>7, <1>1, <2>7, <2>8 DEF EntryHasEnd
    <2>10. LogoutIsAhead(k)'
        <3>1. <<home[k], k>> \in loggedOut =>
                \/ Has(mailbox'[home[k]], Evict(k))
                \/ Has(replicatorBox'[home[k]], UpdateRemove(k))
                \/ ~ Alive(home[k], k)'
            BY <1>7, <2>7, <2>8 DEF LogoutIsAhead
        <3>2. ASSUME NEW r \in Request, home[k] \in request[r].logouts
              PROVE  /\ Has(mailbox'[home[k]], GetFromCache(k, r)) =>
                        \/ Behind(mailbox'[home[k]], Evict(k), GetFromCache(k, r))
                        \/ Has(replicatorBox'[home[k]], UpdateRemove(k))
                        \/ ~ Alive(home[k], k)'
                     /\ Has(replicatorBox'[home[k]], ReadLocal(k, r)) =>
                        \/ Behind(replicatorBox'[home[k]], UpdateRemove(k), ReadLocal(k, r))
                        \/ ~ Alive(home[k], k)'
            <4>1. ReadLocal(k, r) \in ReplicatorCommand /\ ReadLocal(k, r).op = "get"
                BY <1>1, SessionMessages
            <4>2. /\ Has(replicatorBox'[home[k]], ReadLocal(k, r)) =>
                         Has(replicatorBox[home[k]], ReadLocal(k, r))
                  /\ Behind(replicatorBox[home[k]], UpdateRemove(k), ReadLocal(k, r)) =>
                         Behind(replicatorBox'[home[k]], UpdateRemove(k), ReadLocal(k, r))
                BY <1>2, <1>3, <1>6, <4>1 DEF Sent
            <4>3. home[k] # n =>
                    /\ Has(mailbox'[home[k]], GetFromCache(k, r)) =>
                           Has(mailbox[home[k]], GetFromCache(k, r))
                    /\ Behind(mailbox[home[k]], Evict(k), GetFromCache(k, r)) =>
                           Behind(mailbox'[home[k]], Evict(k), GetFromCache(k, r))
                BY <1>1, <1>6 DEF Taken
            <4>4. QED BY <1>7, <2>7, <2>8, <3>2, <4>2, <4>3 DEF LogoutIsAhead
        <3>3. QED BY <1>5, <1>6, <1>7, <2>1, <3>1, <3>2 DEF LogoutIsAhead
    <2>11. QED BY <1>5, <1>6, <1>7, <2>5, <2>6, <2>9, <2>10 DEF SessionInv
<1>10. MessagesWereAsked'
    BY <1>a, <1>1, <1>2, <1>3, <1>5 DEF HomeInv, MessagesWereAsked, Sent, Taken
<1>11. LookupsFollowLogin' /\ HomeIsRight'
    BY <1>a, <1>5
    DEF HomeInv, LookupsFollowLogin, HomeIsRight, NoReplayAtHome, AvailableAtHome
<1>12. QED BY <1>8, <1>9, <1>10, <1>11 DEF HomeInv

\* A lookup is handled: what was ahead of it in the mailbox is now ahead of
\* its read in the replicator's box, or done.
LEMMA GetFromCacheStep ==
    ASSUME Ready, NEW n \in Node, HandleGetFromCache(n)
    PROVE  HomeInv'
<1>a. TypeOK /\ TypeOK' /\ HomeInv /\ \A i \in Session : SessionInv(i)
    BY DEF Ready, HomeInv
<1>b. PICK m \in Command : m = Head(mailbox[n])
    BY <1>a, MailTaken DEF HandleGetFromCache
<1> DEFINE k == m.key
           q == m.replyTo
           u == ReadLocal(k, q)
<1>1. /\ m \in Command /\ m.type = "GetFromCache" /\ k = m.key /\ k \in Session
      /\ Has(mailbox[n], m) /\ Taken(mailbox, mailbox', n, m)
      /\ q \in Request /\ q = m.replyTo /\ m = GetFromCache(k, q)
    BY <1>a, <1>b, MailTaken, CommandForms DEF HandleGetFromCache
<1>2. /\ u \in ReplicatorCommand /\ u.op = "get" /\ u.key = k /\ u.replyTo = q
      /\ u = ReadLocal(k, q)
    BY <1>1, SessionMessages
<1>3. Sent(replicatorBox, replicatorBox', n, u)
    BY <1>a, <1>b, <1>2, BoxSent DEF HandleGetFromCache
<1>5. UNCHANGED <<children, child, timer, dataKeys, live, seen, request, status,
                  home, loggedOut, ended>>
    BY DEF HandleGetFromCache, childVars, dataVars, requestVars, historyVars
<1> HIDE DEF k, q, u
<1>6. SessionInv(k) /\ home[k] # None /\ home[k] \in Node
    BY <1>a, <1>1, AboutCreated
<1>7. PutComesFirst(k) /\ SpreadFromHome(k) /\ EntryHasEnd(k) /\ LogoutIsAhead(k)
    BY <1>6 DEF SessionInv
<1>8. ASSUME NEW i \in Session, i # k  PROVE SessionInv(i)'
    <2>1. Alike(mailbox, mailbox', Command, i)
        BY <1>1, <1>8, TakenAlike
    <2>2. Alike(replicatorBox, replicatorBox', ReplicatorCommand, i)
        BY <1>2, <1>3, <1>8, SentAlike
    <2>3. Untouched(i)
        BY <1>5, <2>1, <2>2 DEF Untouched
    <2>4. QED BY <1>a, <2>3, UntouchedKeeps DEF HomeInv
<1>9. SessionInv(k)'
    <2>1. \A j \in Node : \A p \in Command :
              /\ Has(mailbox'[j], p) => Has(mailbox[j], p)
              /\ Has(mailbox[j], p) /\ p.type # "GetFromCache" => Has(mailbox'[j], p)
              /\ \A c \in Command : Precedes(mailbox'[j], c, p) => Precedes(mailbox[j], c, p)
        BY <1>1 DEF Taken
    <2>2. \A p \in Command : p.type = "PutInCache" /\ p.key = k => ~ Has(mailbox'[n], p)
        BY <1>1, <1>7, NoPutBehind
    <2>3. \A j \in Node : \A x \in ReplicatorCommand : x.op # "get" =>
              /\ Has(replicatorBox'[j], x) <=> Has(replicatorBox[j], x)
              /\ \A c \in ReplicatorCommand :
                  Precedes(replicatorBox'[j], c, x) => Precedes(replicatorBox[j], c, x)
        BY <1>2, <1>3 DEF Sent
    <2>4. \A j \in Node : \A x \in ReplicatorCommand :
              Has(replicatorBox'[j], x) => j = n \/ Has(replicatorBox[j], x)
        BY <1>3 DEF Sent
    <2>5. PutComesFirst(k)'
        BY <1>5, <1>7, <2>1, <2>2, <2>3, <2>4 DEF PutComesFirst
    <2>6. SpreadFromHome(k)'
        BY <1>5, <1>7 DEF SpreadFromHome
    <2>7. /\ \A j \in Node : PutSent(j, k)' <=> PutSent(j, k)
          /\ \A j \in Node : PutQueued(j, k)' <=> PutQueued(j, k)
          /\ Entry(home[k], k)' <=> Entry(home[k], k)
          /\ Alive(home[k], k)' <=> Alive(home[k], k)
        BY <1>5, <1>6, <2>1, <2>3 DEF Entry, Alive, PutSent, PutQueued
    <2>8. /\ Evict(k) \in Command /\ Evict(k).type = "Evict"
          /\ UpdateRemove(k) \in ReplicatorCommand /\ UpdateRemove(k).op = "remove"
        BY <1>1, SessionMessages
    <2>9. EntryHasEnd(k)'
        BY <1>5, <1>6, <1>7, <2>1, <2>3, <2>7, <2>8 DEF EntryHasEnd
    <2>10. LogoutIsAhead(k)'
        <3>1. <<home[k], k>> \in loggedOut =>
                \/ Has(mailbox'[home[k]], Evict(k))
                \/ Has(replicatorBox'[home[k]], UpdateRemove(k))
                \/ ~ Alive(home[k], k)'
            BY <1>6, <1>7, <2>1, <2>3, <2>7, <2>8 DEF LogoutIsAhead
        <3>2. ASSUME NEW r \in Request, home[k] \in request[r].logouts
              PROVE  /\ Has(mailbox'[home[k]], GetFromCache(k, r)) =>
                        \/ Behind(mailbox'[home[k]], Evict(k), GetFromCache(k, r))
                        \/ Has(replicatorBox'[home[k]], UpdateRemove(k))
                        \/ ~ Alive(home[k], k)'
                     /\ Has(replicatorBox'[home[k]], ReadLocal(k, r)) =>
                        \/ Behind(replicatorBox'[home[k]], UpdateRemove(k), ReadLocal(k, r))
                        \/ ~ Alive(home[k], k)'
            <4>1. /\ ReadLocal(k, r) \in ReplicatorCommand
                  /\ ReadLocal(k, r).replyTo = r /\ GetFromCache(k, r) \in Command
                  /\ GetFromCache(k, r).type = "GetFromCache"
                BY <1>1, SessionMessages
            <4>2. /\ Has(mailbox'[home[k]], GetFromCache(k, r)) =>
                         Has(mailbox[home[k]], GetFromCache(k, r))
                  /\ Behind(mailbox[home[k]], Evict(k), GetFromCache(k, r)) =>
                         Behind(mailbox'[home[k]], Evict(k), GetFromCache(k, r))
                BY <1>1, <1>6, <2>8 DEF Taken
            <4>3. Has(replicatorBox[home[k]], UpdateRemove(k)) =>
                      Has(replicatorBox'[home[k]], UpdateRemove(k))
                BY <1>6, <2>3, <2>8
            <4>4. Behind(replicatorBox[home[k]], UpdateRemove(k), ReadLocal(k, r))
                  \/ ~ Alive(home[k], k)
                  \/ Has(replicatorBox[home[k]], ReadLocal(k, r))
                BY DEF Behind, Has
            <4>5. Behind(replicatorBox[home[k]], UpdateRemove(k), ReadLocal(k, r))
                  \/ ~ Alive(home[k], k)
                BY <1>7, <3>2, <4>4 DEF LogoutIsAhead
            <4>6. CASE home[k] = n /\ r = q
                <5>1. Has(replicatorBox[home[k]], UpdateRemove(k)) \/ ~ Alive(home[k], k)
                    BY <1>1, <1>6, <1>7, <3>2, <4>6, ZenonT(60) DEF LogoutIsAhead, Taken
                <5>2. Has(replicatorBox[home[k]], UpdateRemove(k)) =>
                        (Behind(replicatorBox[home[k]], UpdateRemove(k), ReadLocal(k, r))
                         => Behind(replicatorBox'[home[k]], UpdateRemove(k), ReadLocal(k, r)))
                    BY <1>3, <1>6 DEF Sent
                <5>3. QED BY <2>7, <4>3, <4>5, <5>1, <5>2
            <4>7. CASE ~ (home[k] = n /\ r = q)
                <5>1. /\ Has(replicatorBox'[home[k]], ReadLocal(k, r)) =>
                             Has(replicatorBox[home[k]], ReadLocal(k, r))
                      /\ Behind(replicatorBox[home[k]], UpdateRemove(k), ReadLocal(k, r)) =>
                             Behind(replicatorBox'[home[k]], UpdateRemove(k), ReadLocal(k, r))
                    BY <1>2, <1>3, <1>6, <4>1, <4>7 DEF Sent
                <5>2. QED BY <1>7, <2>7, <3>2, <4>2, <4>3, <4>5, <5>1 DEF LogoutIsAhead
            <4>8. QED BY <4>6, <4>7
        <3>3. QED BY <1>5, <1>6, <1>7, <2>1, <3>1, <3>2 DEF LogoutIsAhead
    <2>11. ASSUME k \notin ended'  PROVE Stored(k)'
        <3>1. Stored(k)
            BY <1>5, <1>6, <2>11 DEF SessionInv
        <3>2. QED BY <1>5, <1>6, <2>1, <2>3, <2>7, <2>8, <3>1 DEF Stored
    <2>12. QED BY <1>5, <1>6, <2>5, <2>6, <2>9, <2>10, <2>11 DEF SessionInv
<1>10. MessagesWereAsked'
    <2>1. request[q].key = k /\ request[q].node = n /\ status[q] # "unused"
        BY <1>a, <1>1 DEF HomeInv, MessagesWereAsked
    <2>2. \A j \in Node : \A c \in Command : Has(mailbox'[j], c) => Has(mailbox[j], c)
        BY <1>1 DEF Taken
    <2>3. \A j \in Node : \A x \in ReplicatorCommand :
              Has(replicatorBox'[j], x) => Has(replicatorBox[j], x) \/ (j = n /\ x = u)
        BY <1>3 DEF Sent
    <2>4. QED BY <1>a, <1>2, <1>5, <2>1, <2>2, <2>3 DEF HomeInv, MessagesWereAsked
<1>11. LookupsFollowLogin' /\ HomeIsRight'
    BY <1>a, <1>5
    DEF HomeInv, LookupsFollowLogin, HomeIsRight, NoReplayAtHome, AvailableAtHome
<1>12. QED BY <1>8, <1>9, <1>10, <1>11 DEF HomeInv

\* A message that asks the replicator for nothing is handled: the session
\* may get an actor.
LEMMA AnswerHandled ==
    ASSUME TypeOK, HomeInv, NEW n \in Node, NEW m \in Command,
           m.type \in {"GetSuccess", "NotFound", "InternalSessionActorTerminated"},
           Has(mailbox[n], m), Taken(mailbox, mailbox', n, m),
           \A j \in Node, i \in Session :
               /\ i \in children'[j] => i \in children[j] \/ (j = n /\ i = m.key)
               /\ timer[j][i] /\ child[j][i] = "running" =>
                      timer'[j][i] /\ child'[j][i] = "running",
           UNCHANGED <<replicatorBox, dataKeys, live, seen, request, home,
                       loggedOut, ended>>
    PROVE  \A i \in Session : SessionInv(i)'
<1>a. \A i \in Session : SessionInv(i)
    BY DEF HomeInv
<1> DEFINE k == m.key
<1>1. k \in Session /\ k = m.key
    BY CommandForms
<1> HIDE DEF k
<1>6. SessionInv(k) /\ home[k] # None /\ home[k] \in Node
    BY <1>a, <1>1, AboutCreated
<1>7. PutComesFirst(k) /\ SpreadFromHome(k) /\ EntryHasEnd(k) /\ LogoutIsAhead(k)
    BY <1>6 DEF SessionInv
<1>8. ASSUME NEW i \in Session, i # k  PROVE SessionInv(i)'
    <2>1. Alike(mailbox, mailbox', Command, i)
        BY <1>1, <1>8, TakenAlike
    <2>2. Alike(replicatorBox, replicatorBox', ReplicatorCommand, i)
        BY SameAlike
    <2>3. Untouched(i)
        BY <1>1, <1>8, <2>1, <2>2 DEF Untouched
    <2>4. QED BY <1>a, <2>3, UntouchedKeeps DEF HomeInv
<1>9. SessionInv(k)'
    <2>1. \A j \in Node : \A p \in Command :
              /\ Has(mailbox'[j], p) => Has(mailbox[j], p)
              /\ Has(mailbox[j], p) /\ p.type \in {"PutInCache", "Evict"} =>
                     Has(mailbox'[j], p)
              /\ \A c \in Command : Precedes(mailbox'[j], c, p) => Precedes(mailbox[j], c, p)
        BY DEF Taken
    <2>2. \A p \in Command : p.type = "PutInCache" /\ p.key = k => ~ Has(mailbox'[n], p)
        BY <1>1, <1>7, NoPutBehind
    <2>5. PutComesFirst(k)'
        BY <1>1, <1>7, <2>1, <2>2 DEF PutComesFirst
    <2>6. SpreadFromHome(k)'
        BY <1>7 DEF SpreadFromHome
    <2>7. /\ \A j \in Node : PutSent(j, k)' <=> PutSent(j, k)
          /\ \A j \in Node : PutQueued(j, k)' <=> PutQueued(j, k)
          /\ Entry(home[k], k)' <=> Entry(home[k], k)
          /\ Alive(home[k], k)' <=> Alive(home[k], k)
        BY <1>6, <2>1 DEF Entry, Alive, PutSent, PutQueued
    <2>8. Evict(k) \in Command /\ Evict(k).type = "Evict"
        BY <1>1, SessionMessages
    <2>9. EntryHasEnd(k)'
        BY <1>1, <1>6, <1>7, <2>1, <2>7, <2>8 DEF EntryHasEnd
    <2>10. LogoutIsAhead(k)'
        <3>1. \A r \in Request :
                /\ GetFromCache(k, r) \in Command
                /\ Behind(mailbox[home[k]], Evict(k), GetFromCache(k, r)) =>
                       Behind(mailbox'[home[k]], Evict(k), GetFromCache(k, r))
            BY <1>1, <1>6, <2>8, SessionMessages DEF Taken
        <3>2. QED BY <1>6, <1>7, <2>1, <2>7, <2>8, <3>1 DEF LogoutIsAhead
    <2>11. ASSUME k \notin ended'  PROVE Stored(k)'
        <3>1. Stored(k)
            BY <1>6, <2>11 DEF SessionInv
        <3>2. QED BY <1>6, <2>1, <2>7, <2>8, <3>1 DEF Stored
    <2>12. QED BY <1>6, <2>5, <2>6, <2>9, <2>10, <2>11 DEF SessionInv
<1>12. QED BY <1>8, <1>9

\* The answer of its node, found, was read after no logout; and not found,
\* after an end.
LEMMA GetSuccessStep ==
    ASSUME Ready, NEW n \in Node, HandleGetSuccess(n)
    PROVE  HomeInv'
<1>a. TypeOK /\ TypeOK' /\ HomeInv /\ \A i \in Session : SessionInv(i)
    BY DEF Ready, HomeInv
<1>b. PICK m \in Command : m = Head(mailbox[n])
    BY <1>a, MailTaken DEF HandleGetSuccess
<1> DEFINE q == m.replyTo
<1>1. /\ m \in Command /\ m.type = "GetSuccess" /\ m.key \in Session
      /\ Has(mailbox[n], m) /\ Taken(mailbox, mailbox', n, m)
      /\ q \in Request /\ q = m.replyTo
    BY <1>a, <1>b, MailTaken, CommandForms DEF HandleGetSuccess
<1>2. /\ UNCHANGED <<replicatorBox, dataKeys, live, seen, request, home, loggedOut, ended>>
      /\ refreshSessionExpiration(n, m.key)
    BY <1>b DEF HandleGetSuccess, dataVars
<1>3. \/ status' = status
      \/ /\ status[q] = "asked"
         /\ \/ status' = [status EXCEPT ![q] = "found"] /\ m.found = TRUE
            \/ status' = [status EXCEPT ![q] = "absent"] /\ m.found # TRUE
    BY <1>b DEF HandleGetSuccess, Reply
<1> HIDE DEF q
<1>4. \A i \in Session : SessionInv(i)'
    <2>1. \A j \in Node, i \in Session :
               /\ i \in children'[j] => i \in children[j] \/ (j = n /\ i = m.key)
               /\ timer[j][i] /\ child[j][i] = "running" =>
                      timer'[j][i] /\ child'[j][i] = "running"
        BY <1>a, <1>1, <1>2, RefreshFacts
    <2>2. QED BY <1>a, <1>1, <1>2, <2>1, AnswerHandled
<1>5. \A r \in Request : \/ status'[r] = status[r]
                         \/ status[r] = "asked" /\ status'[r] \in {"found", "absent"}
    BY <1>a, <1>1, <1>3 DEF TypeOK
<1>6. MessagesWereAsked'
    <2>1. \A j \in Node : \A c \in Command : Has(mailbox'[j], c) => Has(mailbox[j], c)
        BY <1>1 DEF Taken
    <2>2. QED BY <1>a, <1>2, <1>5, <2>1, CommandForms, ReplicatorCommandForms
              DEF HomeInv, MessagesWereAsked
<1>7. LookupsFollowLogin'
    BY <1>a, <1>2, <1>5 DEF HomeInv, LookupsFollowLogin
<1>8. HomeIsRight'
    <2>1. request[q].key = m.key /\ request[q].node = n /\ home[m.key] # None
        BY <1>a, <1>1, AboutCreated DEF HomeInv, MessagesWereAsked
    <2>2. home[m.key] = n => /\ n \in request[q].logouts => m.found = FALSE
                             /\ m.key \notin ended => m.found = TRUE
        BY <1>a, <1>1, <2>1 DEF SessionInv, LogoutIsAhead, Stored
    <2>3. \A r \in Request :
            /\ status'[r] = "found" => status[r] = "found" \/ (r = q /\ m.found = TRUE)
            /\ status'[r] = "absent" => status[r] = "absent" \/ (r = q /\ m.found # TRUE)
        BY <1>a, <1>1, <1>3 DEF TypeOK
    <2>4. NoReplayAtHome'
        BY <1>a, <1>2, <2>1, <2>2, <2>3 DEF HomeInv, HomeIsRight, NoReplayAtHome
    <2>5. AvailableAtHome'
        BY <1>a, <1>2, <2>1, <2>2, <2>3 DEF HomeInv, HomeIsRight, AvailableAtHome
    <2>6. QED BY <2>4, <2>5 DEF HomeIsRight
<1>9. QED BY <1>4, <1>6, <1>7, <1>8 DEF HomeInv

LEMMA NotFoundStep ==
    ASSUME Ready, NEW n \in Node, HandleNotFound(n)
    PROVE  HomeInv'
<1>a. TypeOK /\ TypeOK' /\ HomeInv /\ \A i \in Session : SessionInv(i)
    BY DEF Ready, HomeInv
<1>b. PICK m \in Command : m = Head(mailbox[n])
    BY <1>a, MailTaken DEF HandleNotFound
<1> DEFINE q == m.replyTo
<1>1. /\ m \in Command /\ m.type = "NotFound" /\ m.key \in Session
      /\ Has(mailbox[n], m) /\ Taken(mailbox, mailbox', n, m)
      /\ q \in Request /\ q = m.replyTo
    BY <1>a, <1>b, MailTaken, CommandForms DEF HandleNotFound
<1>2. UNCHANGED <<replicatorBox, children, child, timer, dataKeys, live, seen,
                  request, home, loggedOut, ended>>
    BY DEF HandleNotFound, childVars, dataVars, historyVars
<1>3. \/ status' = status
      \/ status[q] = "asked" /\ status' = [status EXCEPT ![q] = "absent"]
    BY <1>b DEF HandleNotFound, Reply
<1> HIDE DEF q
<1>4. \A i \in Session : SessionInv(i)'
    BY <1>a, <1>1, <1>2, AnswerHandled
<1>5. \A r \in Request : \/ status'[r] = status[r]
                         \/ status[r] = "asked" /\ status'[r] = "absent" /\ r = q
    BY <1>a, <1>1, <1>3 DEF TypeOK
<1>6. MessagesWereAsked'
    <2>1. \A j \in Node : \A c \in Command : Has(mailbox'[j], c) => Has(mailbox[j], c)
        BY <1>1 DEF Taken
    <2>2. QED BY <1>a, <1>2, <1>5, <2>1, CommandForms, ReplicatorCommandForms
              DEF HomeInv, MessagesWereAsked
<1>7. LookupsFollowLogin'
    BY <1>a, <1>2, <1>5 DEF HomeInv, LookupsFollowLogin
<1>8. HomeIsRight'
    <2>1. request[q].key = m.key /\ request[q].node = n /\ home[m.key] # None
        BY <1>a, <1>1, AboutCreated DEF HomeInv, MessagesWereAsked
    <2>2. home[m.key] = n => m.key \in ended
        BY <1>a, <1>1, <2>1 DEF SessionInv, Stored
    <2>4. NoReplayAtHome'
        BY <1>a, <1>2, <1>5 DEF HomeInv, HomeIsRight, NoReplayAtHome
    <2>5. AvailableAtHome'
        BY <1>a, <1>2, <1>5, <2>1, <2>2 DEF HomeInv, HomeIsRight, AvailableAtHome
    <2>6. QED BY <2>4, <2>5 DEF HomeIsRight
<1>9. QED BY <1>4, <1>6, <1>7, <1>8 DEF HomeInv

LEMMA TerminatedStep ==
    ASSUME Ready, NEW n \in Node, HandleTerminated(n)
    PROVE  HomeInv'
<1>a. TypeOK /\ TypeOK' /\ HomeInv /\ \A i \in Session : SessionInv(i)
    BY DEF Ready, HomeInv
<1>b. PICK m \in Command : m = Head(mailbox[n])
    BY <1>a, MailTaken DEF HandleTerminated
<1>1. /\ m \in Command /\ m.type = "InternalSessionActorTerminated"
      /\ Has(mailbox[n], m) /\ Taken(mailbox, mailbox', n, m)
    BY <1>a, <1>b, MailTaken, CommandForms DEF HandleTerminated
<1>2. UNCHANGED <<replicatorBox, child, timer, dataKeys, live, seen,
                  request, status, home, loggedOut, ended>>
    BY DEF HandleTerminated, childVars, dataVars, requestVars, historyVars
<1>3. \A j \in Node : children'[j] \subseteq children[j]
    BY <1>a DEF HandleTerminated, TypeOK
<1>4. \A i \in Session : SessionInv(i)'
    BY <1>a, <1>1, <1>2, <1>3, AnswerHandled
<1>5. MessagesWereAsked'
    <2>1. \A j \in Node : \A c \in Command : Has(mailbox'[j], c) => Has(mailbox[j], c)
        BY <1>1 DEF Taken
    <2>2. QED BY <1>a, <1>2, <2>1 DEF HomeInv, MessagesWereAsked
<1>6. LookupsFollowLogin' /\ HomeIsRight'
    BY <1>a, <1>2
    DEF HomeInv, LookupsFollowLogin, HomeIsRight, NoReplayAtHome, AvailableAtHome
<1>7. QED BY <1>4, <1>5, <1>6 DEF HomeInv

LEMMA RefreshSessionStep ==
    ASSUME Ready, NEW n \in Node, NEW k \in Session, HandleRefreshSession(n, k)
    PROVE  HomeInv'
<1>a. TypeOK /\ TypeOK' /\ HomeInv /\ \A i \in Session : SessionInv(i)
    BY DEF Ready, HomeInv
<1>1. UNCHANGED <<mailbox, replicatorBox, children, child, dataKeys, live, seen,
                  request, status, home, loggedOut, ended>>
    BY DEF HandleRefreshSession, cacheVars, dataVars, requestVars
<1>2. \A j \in Node, i \in Session : timer[j][i] => timer'[j][i]
    BY <1>a DEF HandleRefreshSession, TypeOK
<1>3. ASSUME NEW i \in Session  PROVE SessionInv(i)'
    <2>1. Untouched(i)
        BY <1>1, <1>2, SameAlike DEF Untouched
    <2>2. QED BY <1>a, <2>1, UntouchedKeeps DEF HomeInv
<1>4. MessagesWereAsked' /\ LookupsFollowLogin' /\ HomeIsRight'
    BY <1>a, <1>1 DEF HomeInv, MessagesWereAsked, LookupsFollowLogin, HomeIsRight,
                      NoReplayAtHome, AvailableAtHome
<1>5. QED BY <1>3, <1>4 DEF HomeInv

\* An actor whose timer is on belongs to a session that was created.
LEMMA ActorsAreOfCreated ==
    ASSUME TypeOK, ActorInv, NEW n \in Node, NEW k \in Session, SessionInv(k),
           timer[n][k] \/ child[n][k] # "none"
    PROVE  home[k] # None /\ home[k] \in Node
BY DEF ActorInv, SpawnNameIsFree, NoOrphanTimer, SessionInv, NotBegun, TypeOK

\* A message that is neither a put nor an answer is sent to the cache by an
\* actor or its timer.  If it is not the Evict of the timer, the timer was
\* not to be relied upon.
LEMMA ActorSends ==
    ASSUME TypeOK, HomeInv, NEW n \in Node, NEW k \in Session, home[k] # None,
           NEW m \in Command, m.key = k,
           m.type \in {"Evict", "InternalSessionActorTerminated"},
           Sent(mailbox, mailbox', n, m),
           m = Evict(k) => k \in ended',
           \/ m = Evict(k)
           \/ child[n][k] # "running" /\ ended' = ended,
           \A i \in Session : i # k => (i \in ended' <=> i \in ended),
           ended \subseteq ended',
           \A j \in Node, i \in Session :
               timer[j][i] /\ child[j][i] = "running" =>
                   \/ timer'[j][i] /\ child'[j][i] = "running"
                   \/ j = n /\ i = k,
           UNCHANGED <<replicatorBox, children, dataKeys, live, seen, request,
                       status, home, loggedOut>>
    PROVE  HomeInv'
<1>a. \A i \in Session : SessionInv(i)
    BY DEF HomeInv
<1>1. home[k] \in Node
    BY DEF TypeOK
<1>2. PutComesFirst(k) /\ SpreadFromHome(k) /\ EntryHasEnd(k) /\ LogoutIsAhead(k)
    BY <1>a DEF SessionInv
<1>3. ASSUME NEW i \in Session, i # k  PROVE SessionInv(i)'
    <2>1. Alike(mailbox, mailbox', Command, i)
        BY <1>3, SentAlike
    <2>2. Alike(replicatorBox, replicatorBox', ReplicatorCommand, i)
        BY SameAlike
    <2>3. Untouched(i)
        BY <1>3, <2>1, <2>2 DEF Untouched
    <2>4. QED BY <1>a, <2>3, UntouchedKeeps DEF HomeInv
<1>4. SessionInv(k)'
    <2>1. \A j \in Node : \A p \in Command :
              /\ Has(mailbox[j], p) => Has(mailbox'[j], p)
              /\ p # m => /\ Has(mailbox'[j], p) => Has(mailbox[j], p)
                          /\ \A c \in Command : Precedes(mailbox'[j], c, p) =>
                                                Precedes(mailbox[j], c, p)
                          /\ \A c \in Command : Behind(mailbox[j], c, p) =>
                                                Behind(mailbox'[j], c, p)
        BY DEF Sent
    <2>2. /\ Evict(k) \in Command /\ Evict(k).type = "Evict"
          /\ \A r \in Request : /\ GetFromCache(k, r) \in Command
                                /\ GetFromCache(k, r).type = "GetFromCache"
        BY SessionMessages
    <2>3. PutComesFirst(k)'
        <3>1. \A p \in Command : p.type = "PutInCache" => p # m
            OBVIOUS
        <3>2. QED BY <1>2, <2>1, <3>1 DEF PutComesFirst
    <2>4. SpreadFromHome(k)'
        BY <1>2 DEF SpreadFromHome
    <2>5. /\ \A j \in Node : PutSent(j, k)' <=> PutSent(j, k)
          /\ \A j \in Node : PutQueued(j, k)' <=> PutQueued(j, k)
          /\ Entry(home[k], k)' <=> Entry(home[k], k)
          /\ Alive(home[k], k)' <=> Alive(home[k], k)
        BY <1>1, <2>1 DEF Entry, Alive, PutSent, PutQueued
    <2>6. EntryHasEnd(k)'
        <3>1. CASE m = Evict(k) /\ home[k] = n
            BY <1>1, <3>1 DEF EntryHasEnd, Sent
        <3>2. CASE home[k] # n \/ child[n][k] # "running"
            BY <1>1, <1>2, <2>1, <2>2, <2>5, <3>2 DEF EntryHasEnd
        <3>3. QED BY <3>1, <3>2
    <2>7. LogoutIsAhead(k)'
        <3>1. \A c \in Command : c.type \in {"GetSuccess", "GetFromCache"} => c # m
            OBVIOUS
        <3>2. QED BY <1>1, <1>2, <2>1, <2>2, <2>5, <3>1 DEF LogoutIsAhead
    <2>8. ASSUME k \notin ended'  PROVE Stored(k)'
        <3>1. Stored(k) /\ m.type = "InternalSessionActorTerminated"
            BY <1>a, <2>8, CommandForms DEF SessionInv
        <3>2. \A c \in Command : c.type \in {"GetSuccess", "NotFound", "Evict"} => c # m
            BY <3>1
        <3>3. QED BY <1>1, <2>1, <2>2, <2>5, <3>1, <3>2 DEF Stored
    <2>9. QED BY <1>1, <2>3, <2>4, <2>6, <2>7, <2>8 DEF SessionInv
<1>5. MessagesWereAsked'
    BY SMTT(40) DEF HomeInv, MessagesWereAsked, Sent
<1>6. LookupsFollowLogin' /\ HomeIsRight'
    BY DEF HomeInv, LookupsFollowLogin, HomeIsRight, NoReplayAtHome, AvailableAtHome
<1>7. QED BY <1>3, <1>4, <1>5, <1>6 DEF HomeInv

LEMMA TimerStep ==
    ASSUME Ready, NEW n \in Node, NEW k \in Session, TimerFires(n, k)
    PROVE  HomeInv'
<1>a. TypeOK /\ TypeOK' /\ ActorInv /\ HomeInv /\ SessionInv(k)
    BY DEF Ready, HomeInv
<1> DEFINE m == Evict(k)
<1>1. m \in Command /\ m.type = "Evict" /\ m.key = k
    BY SessionMessages
<1>2. Sent(mailbox, mailbox', n, m)
    BY <1>a, <1>1, MailSent DEF TimerFires
<1>3. home[k] # None
    BY <1>a, ActorsAreOfCreated DEF TimerFires
<1>4. \A j \in Node, i \in Session : timer'[j][i] = timer[j][i] \/ (j = n /\ i = k)
    <2>1. timer \in [Node -> [Session -> BOOLEAN]] /\ timer' = [timer EXCEPT ![n][k] = FALSE]
        BY <1>a DEF TimerFires, TypeOK
    <2>2. QED BY <2>1
<1>5. /\ ended' = ended \cup {k}
      /\ UNCHANGED <<replicatorBox, children, child, dataKeys, live, seen, request,
                     status, home, loggedOut>>
    BY DEF TimerFires, dataVars, requestVars
<1>b. m = Evict(k)
    OBVIOUS
<1> HIDE DEF m
<1>6. QED BY <1>a, <1>b, <1>1, <1>2, <1>3, <1>4, <1>5, ActorSends

LEMMA PostStopStep ==
    ASSUME Ready, NEW n \in Node, NEW k \in Session, PostStop(n, k)
    PROVE  HomeInv'
<1>a. TypeOK /\ TypeOK' /\ ActorInv /\ HomeInv /\ SessionInv(k)
    BY DEF Ready, HomeInv
<1> DEFINE m == Terminated(k)
<1>1. m \in Command /\ m.type = "InternalSessionActorTerminated" /\ m.key = k
    BY DEF Terminated, Command
<1>2. Sent(mailbox, mailbox', n, m)
    BY <1>a, <1>1, MailSent DEF PostStop, ReportTermination
<1>3. home[k] # None /\ child[n][k] = "stopping"
    BY <1>a, ActorsAreOfCreated DEF PostStop
<1>4. \A j \in Node, i \in Session : timer'[j][i] = timer[j][i] \/ (j = n /\ i = k)
    <2>1. timer \in [Node -> [Session -> BOOLEAN]] /\ timer' = [timer EXCEPT ![n][k] = FALSE]
        BY <1>a DEF PostStop, Cancel, TypeOK
    <2>2. QED BY <2>1
<1>5. \A j \in Node, i \in Session : child'[j][i] = child[j][i] \/ (j = n /\ i = k)
    <2>1. child \in [Node -> [Session -> ChildState]] /\ child' = [child EXCEPT ![n][k] = "none"]
        BY <1>a DEF PostStop, TypeOK
    <2>2. QED BY <2>1
<1>6. UNCHANGED <<replicatorBox, children, dataKeys, live, seen, request,
                  status, home, loggedOut, ended>>
    BY DEF PostStop, dataVars, requestVars, historyVars
<1> HIDE DEF m
<1>7. m # Evict(k)
    BY <1>1, SessionMessages
<1>8. QED BY <1>a, <1>1, <1>2, <1>3, <1>4, <1>5, <1>6, <1>7, ActorSends

\* The entry arrives in the map of its node, first of all nodes; an end that
\* is under way is still behind it.
LEMMA ApplyPutStep ==
    ASSUME Ready, NEW n \in Node, ApplyPut(n)
    PROVE  HomeInv'
<1>a. TypeOK /\ TypeOK' /\ HomeInv /\ \A i \in Session : SessionInv(i)
    BY DEF Ready, HomeInv
<1>b. PICK u \in ReplicatorCommand : u = Head(replicatorBox[n])
    BY <1>a, BoxTaken DEF ApplyPut
<1> DEFINE k == u.key
           d == u.dot
<1>1. /\ u \in ReplicatorCommand /\ u.op = "put" /\ k = u.key /\ k \in Session
      /\ Has(replicatorBox[n], u) /\ Taken(replicatorBox, replicatorBox', n, u)
    BY <1>a, <1>b, BoxTaken, ReplicatorCommandForms DEF ApplyPut
<1>2. /\ dataKeys' = [dataKeys EXCEPT ![n] = @ \cup {k}]
      /\ live' = [live EXCEPT ![n][k] = {d}]
      /\ seen' = [seen EXCEPT ![n][k] = @ \cup {d}]
      /\ UNCHANGED <<mailbox, children, child, timer, request, status, home,
                     loggedOut, ended>>
    BY <1>b DEF ApplyPut, cacheVars, childVars, requestVars, historyVars
<1> HIDE DEF k, d
<1>3. /\ k \in dataKeys'[n] /\ live'[n][k] = {d} /\ seen'[n][k] = seen[n][k] \cup {d}
      /\ \A j \in Node : dataKeys[j] \subseteq dataKeys'[j]
      /\ \A j \in Node, i \in Session : j # n \/ i # k =>
             live'[j][i] = live[j][i] /\ seen'[j][i] = seen[j][i]
    <2> DEFINE Dots == SUBSET (1 .. MaxPuts)
               new  == {d}
               more == seen[n][k] \cup {d}
    <2>1. /\ dataKeys \in [Node -> SUBSET Session]
          /\ live \in [Node -> [Session -> Dots]] /\ seen \in [Node -> [Session -> Dots]]
        BY <1>a DEF TypeOK
    <2>2. live' = [live EXCEPT ![n][k] = new] /\ seen' = [seen EXCEPT ![n][k] = more]
        BY <1>2
    <2> HIDE DEF Dots, new, more
    <2>3. /\ live'[n][k] = new /\ seen'[n][k] = more
          /\ \A j \in Node, i \in Session : j # n \/ i # k =>
                 live'[j][i] = live[j][i] /\ seen'[j][i] = seen[j][i]
        BY <1>1, <2>1, <2>2
    <2>4. k \in dataKeys'[n] /\ \A j \in Node : dataKeys[j] \subseteq dataKeys'[j]
        BY <1>1, <1>2, <2>1
    <2>5. QED BY <2>3, <2>4 DEF new, more
<1>6. SessionInv(k) /\ home[k] = n /\ n # None
    BY <1>a, <1>1, NoneAssumption DEF SessionInv, PutComesFirst
<1>7. /\ PutComesFirst(k) /\ SpreadFromHome(k) /\ EntryHasEnd(k) /\ LogoutIsAhead(k)
      /\ \A j \in Node : seen[j][k] = {} /\ live[j][k] = {}
    BY <1>1, <1>6 DEF SessionInv, PutComesFirst, SpreadFromHome
<1>8. ASSUME NEW i \in Session, i # k  PROVE SessionInv(i)'
    <2>1. Alike(mailbox, mailbox', Command, i)
        BY <1>2, SameAlike
    <2>2. Alike(replicatorBox, replicatorBox', ReplicatorCommand, i)
        BY <1>1, <1>8, TakenAlike
    <2>3. \A j \in Node : /\ live'[j][i] = live[j][i] /\ seen'[j][i] = seen[j][i]
                          /\ i \in dataKeys[j] => i \in dataKeys'[j]
        BY <1>3, <1>8
    <2>4. Untouched(i)
        BY <1>2, <2>1, <2>2, <2>3 DEF Untouched
    <2>5. QED BY <1>a, <2>4, UntouchedKeeps DEF HomeInv
<1>9. SessionInv(k)'
    <2>1. \A j \in Node : \A x \in ReplicatorCommand :
              /\ Has(replicatorBox'[j], x) => Has(replicatorBox[j], x)
              /\ Has(replicatorBox[j], x) /\ x.op # "put" => Has(replicatorBox'[j], x)
        BY <1>1 DEF Taken
    <2>2. \A j \in Node : \A x \in ReplicatorCommand :
              x.op = "put" /\ x.key = k => ~ Has(replicatorBox'[j], x)
        <3>1. \A x \in ReplicatorCommand :
                  x.op = "put" /\ x.key = k => ~ Has(replicatorBox'[n], x)
            BY <1>1, <1>7, NoQueuedPutBehind
        <3>2. \A j \in Node : \A x \in ReplicatorCommand :
                  Has(replicatorBox[j], x) /\ x.op = "put" /\ x.key = k => j = n
            BY <1>6, <1>7 DEF PutComesFirst
        <3>3. QED BY <2>1, <3>1, <3>2
    <2>3. \A j \in Node : \A p \in Command :
              Has(mailbox[j], p) /\ p.type = "PutInCache" => p.key # k
        BY <1>1, <1>6, <1>7 DEF PutComesFirst
    <2>4. PutComesFirst(k)'
        BY <1>2, <2>2, <2>3 DEF PutComesFirst
    <2>5. SpreadFromHome(k)'
        BY <1>2, <1>3, <1>6, <1>7 DEF SpreadFromHome
    <2>6. Entry(n, k) /\ Alive(n, k)
        BY <1>1 DEF Entry, Alive, PutQueued
    <2>7. /\ UpdateRemove(k) \in ReplicatorCommand /\ UpdateRemove(k).op = "remove"
          /\ \A r \in Request : ReadLocal(k, r) \in ReplicatorCommand
        BY <1>1, SessionMessages
    <2>8. EntryHasEnd(k)'
        BY <1>2, <1>6, <1>7, <2>1, <2>6, <2>7 DEF EntryHasEnd
    <2>9. LogoutIsAhead(k)'
        <3>1. \A r \in Request :
                Behind(replicatorBox[n], UpdateRemove(k), ReadLocal(k, r)) =>
                    Behind(replicatorBox'[n], UpdateRemove(k), ReadLocal(k, r))
            BY <1>1, <2>7 DEF Taken
        <3>2. QED BY <1>2, <1>6, <1>7, <2>1, <2>6, <2>7, <3>1 DEF LogoutIsAhead
    <2>10. ASSUME k \notin ended'  PROVE Stored(k)'
        <3>1. Stored(k)
            BY <1>2, <1>6, <2>10 DEF SessionInv
        <3>2. ASSUME NEW j \in Node  PROVE live'[j][k] = seen'[j][k]
            <4>1. CASE j = n
                BY <1>3, <1>7, <4>1
            <4>2. CASE j # n
                BY <1>1, <1>3, <1>7, <4>2
            <4>3. QED BY <4>1, <4>2
        <3>3. live'[n][k] # {} /\ k \in dataKeys'[n]
            BY <1>3
        <3>4. QED BY <1>2, <1>6, <2>1, <2>7, <3>1, <3>2, <3>3 DEF Stored
    <2>11. QED BY <1>2, <1>6, <2>4, <2>5, <2>8, <2>9, <2>10 DEF SessionInv
<1>10. MessagesWereAsked'
    BY <1>a, <1>1, <1>2 DEF HomeInv, MessagesWereAsked, Taken
<1>11. LookupsFollowLogin' /\ HomeIsRight'
    BY <1>a, <1>2
    DEF HomeInv, LookupsFollowLogin, HomeIsRight, NoReplayAtHome, AvailableAtHome
<1>12. QED BY <1>8, <1>9, <1>10, <1>11 DEF HomeInv

\* A remove leaves nothing of its session on its node: no put is behind it.
LEMMA ApplyRemoveStep ==
    ASSUME Ready, NEW n \in Node, ApplyRemove(n)
    PROVE  HomeInv'
<1>a. TypeOK /\ TypeOK' /\ HomeInv /\ \A i \in Session : SessionInv(i)
    BY DEF Ready, HomeInv
<1>b. PICK u \in ReplicatorCommand : u = Head(replicatorBox[n])
    BY <1>a, BoxTaken DEF ApplyRemove
<1> DEFINE k == u.key
<1>1. /\ u \in ReplicatorCommand /\ u.op = "remove" /\ k = u.key /\ k \in Session
      /\ Has(replicatorBox[n], u) /\ Taken(replicatorBox, replicatorBox', n, u)
      /\ u = UpdateRemove(k)
    BY <1>a, <1>b, BoxTaken, ReplicatorCommandForms DEF ApplyRemove
<1>2. /\ dataKeys' = [dataKeys EXCEPT ![n] = @ \cup {k}]
      /\ live' = [live EXCEPT ![n][k] = {}]
      /\ UNCHANGED <<mailbox, children, child, timer, seen, request, status, home,
                     loggedOut, ended>>
    BY <1>b DEF ApplyRemove, cacheVars, childVars, requestVars, historyVars
<1> HIDE DEF k
<1>3. /\ live'[n][k] = {}
      /\ \A j \in Node : dataKeys[j] \subseteq dataKeys'[j]
      /\ \A j \in Node, i \in Session : j # n \/ i # k => live'[j][i] = live[j][i]
    <2> DEFINE Dots == SUBSET (1 .. MaxPuts)
    <2>1. dataKeys \in [Node -> SUBSET Session] /\ live \in [Node -> [Session -> Dots]]
        BY <1>a DEF TypeOK
    <2> HIDE DEF Dots
    <2>2. /\ live'[n][k] = {}
          /\ \A j \in Node, i \in Session : j # n \/ i # k => live'[j][i] = live[j][i]
        BY <1>1, <1>2, <2>1
    <2>3. \A j \in Node : dataKeys[j] \subseteq dataKeys'[j]
        BY <1>1, <1>2, <2>1
    <2>4. QED BY <2>2, <2>3
<1>6. SessionInv(k) /\ home[k] # None /\ home[k] \in Node
    BY <1>a, <1>1, AboutCreated
<1>7. /\ PutComesFirst(k) /\ SpreadFromHome(k) /\ EntryHasEnd(k) /\ LogoutIsAhead(k)
      /\ k \in ended
    BY <1>1, <1>6 DEF SessionInv, Stored
<1>8. ASSUME NEW i \in Session, i # k  PROVE SessionInv(i)'
    <2>1. Alike(mailbox, mailbox', Command, i)
        BY <1>2, SameAlike
    <2>2. Alike(replicatorBox, replicatorBox', ReplicatorCommand, i)
        BY <1>1, <1>8, TakenAlike
    <2>3. \A j \in Node : /\ live'[j][i] = live[j][i]
                          /\ i \in dataKeys[j] => i \in dataKeys'[j]
        BY <1>3, <1>8
    <2>4. Untouched(i)
        BY <1>2, <2>1, <2>2, <2>3 DEF Untouched
    <2>5. QED BY <1>a, <2>4, UntouchedKeeps DEF HomeInv
<1>9. SessionInv(k)'
    <2>1. \A j \in Node : \A x \in ReplicatorCommand :
              /\ Has(replicatorBox'[j], x) => Has(replicatorBox[j], x)
              /\ j # n => (Has(replicatorBox'[j], x) <=> Has(replicatorBox[j], x))
              /\ \A c \in ReplicatorCommand :
                  Precedes(replicatorBox'[j], c, x) => Precedes(replicatorBox[j], c, x)
        BY <1>1 DEF Taken
    <2>2. /\ \A p \in ReplicatorCommand :
                 p.op = "put" /\ p.key = k => ~ Has(replicatorBox'[n], p)
          /\ ~ PutSent(n, k)
        BY <1>1, <1>7, NoQueuedPutBehind
    <2>3. PutComesFirst(k)'
        BY <1>2, <1>7, <2>1 DEF PutComesFirst
    <2>4. SpreadFromHome(k)'
        BY <1>2, <1>3, <1>7 DEF SpreadFromHome
    <2>5. home[k] = n => ~ Entry(home[k], k)' /\ ~ Alive(home[k], k)'
        BY <1>2, <1>3, <2>2 DEF Entry, Alive, PutQueued, PutSent
    <2>6. home[k] # n => /\ Entry(home[k], k)' => Entry(home[k], k)
                         /\ Alive(home[k], k)' => Alive(home[k], k)
        BY <1>2, <1>3, <1>6, <1>1, <2>1 DEF Entry, Alive, PutQueued, PutSent
    <2>7. UpdateRemove(k) \in ReplicatorCommand
          /\ \A r \in Request : ReadLocal(k, r) \in ReplicatorCommand
        BY <1>1, SessionMessages
    <2>8. EntryHasEnd(k)'
        BY <1>2, <1>6, <1>7, <2>1, <2>5, <2>6, <2>7 DEF EntryHasEnd
    <2>9. LogoutIsAhead(k)'
        <3>1. CASE home[k] = n
            BY <1>2, <1>6, <1>7, <2>5, <3>1 DEF LogoutIsAhead
        <3>2. CASE home[k] # n
            <4>1. \A r \in Request :
                    Behind(replicatorBox[home[k]], UpdateRemove(k), ReadLocal(k, r)) =>
                        Behind(replicatorBox'[home[k]], UpdateRemove(k), ReadLocal(k, r))
                BY <1>1, <1>6, <2>7, <3>2 DEF Taken
            <4>2. QED BY <1>2, <1>6, <1>7, <2>1, <2>6, <2>7, <3>2, <4>1 DEF LogoutIsAhead
        <3>3. QED BY <3>1, <3>2
    <2>10. QED BY <1>2, <1>6, <1>7, <2>3, <2>4, <2>8, <2>9 DEF SessionInv
<1>10. MessagesWereAsked'
    BY <1>a, <1>1, <1>2, ZenonT(60) DEF HomeInv, MessagesWereAsked, Taken
<1>11. LookupsFollowLogin' /\ HomeIsRight'
    BY <1>a, <1>2
    DEF HomeInv, LookupsFollowLogin, HomeIsRight, NoReplayAtHome, AvailableAtHome
<1>12. QED BY <1>8, <1>9, <1>10, <1>11 DEF HomeInv

\* A read is answered: on the node of its session whatever was ahead of it
\* has been applied.
LEMMA AnswerGetStep ==
    ASSUME Ready, NEW n \in Node, AnswerGet(n)
    PROVE  HomeInv'
<1>a. TypeOK /\ TypeOK' /\ HomeInv /\ \A i \in Session : SessionInv(i)
    BY DEF Ready, HomeInv
<1>b. PICK u \in ReplicatorCommand : u = Head(replicatorBox[n])
    BY <1>a, BoxTaken DEF AnswerGet
<1> DEFINE k == u.key
           q == u.replyTo
<1>1. /\ u \in ReplicatorCommand /\ u.op = "get" /\ k = u.key /\ k \in Session
      /\ Has(replicatorBox[n], u) /\ Taken(replicatorBox, replicatorBox', n, u)
      /\ q \in Request /\ q = u.replyTo /\ u = ReadLocal(k, q)
    BY <1>a, <1>b, BoxTaken, ReplicatorCommandForms DEF AnswerGet
<1>2. PICK m \in Command :
          /\ mailbox' = [mailbox EXCEPT ![n] = Append(@, m)]
          /\ m.key = k /\ m.replyTo = q
          /\ \/ /\ m.type = "GetSuccess" /\ k \in dataKeys[n]
                /\ m.found = TRUE /\ live[n][k] # {}
             \/ /\ m.type = "GetSuccess" /\ k \in dataKeys[n]
                /\ m.found = FALSE /\ live[n][k] = {}
             \/ m.type = "NotFound" /\ k \notin dataKeys[n]
    <2>1. CASE k \in dataKeys[n] /\ live[n][k] # {}
        <3>1. mailbox' = [mailbox EXCEPT ![n] = Append(@, GetSuccess(k, q, TRUE))]
            BY <1>b, <2>1 DEF AnswerGet
        <3>2. /\ GetSuccess(k, q, TRUE) \in Command
              /\ GetSuccess(k, q, TRUE).key = k /\ GetSuccess(k, q, TRUE).replyTo = q
              /\ GetSuccess(k, q, TRUE).type = "GetSuccess"
              /\ GetSuccess(k, q, TRUE).found = TRUE
            BY <1>1 DEF GetSuccess, Command
        <3>3. QED BY <2>1, <3>1, <3>2
    <2>2. CASE k \in dataKeys[n] /\ live[n][k] = {}
        <3>1. mailbox' = [mailbox EXCEPT ![n] = Append(@, GetSuccess(k, q, FALSE))]
            BY <1>b, <2>2 DEF AnswerGet
        <3>2. /\ GetSuccess(k, q, FALSE) \in Command
              /\ GetSuccess(k, q, FALSE).key = k /\ GetSuccess(k, q, FALSE).replyTo = q
              /\ GetSuccess(k, q, FALSE).type = "GetSuccess"
              /\ GetSuccess(k, q, FALSE).found = FALSE
            BY <1>1 DEF GetSuccess, Command
        <3>3. QED BY <2>2, <3>1, <3>2
    <2>3. CASE k \notin dataKeys[n]
        <3>1. mailbox' = [mailbox EXCEPT ![n] = Append(@, NotFound(k, q))]
            BY <1>b, <2>3 DEF AnswerGet
        <3>2. /\ NotFound(k, q) \in Command /\ NotFound(k, q).type = "NotFound"
              /\ NotFound(k, q).key = k /\ NotFound(k, q).replyTo = q
            BY <1>1 DEF NotFound, Command
        <3>3. QED BY <2>3, <3>1, <3>2
    <2>4. QED BY <2>1, <2>2, <2>3
<1>3. Sent(mailbox, mailbox', n, m)
    BY <1>a, <1>2, MailSent
<1>5. UNCHANGED <<children, child, timer, dataKeys, live, seen, request, status, home,
                  loggedOut, ended>>
    BY DEF AnswerGet, childVars, dataVars, requestVars, historyVars
<1> HIDE DEF k, q
<1>6. SessionInv(k) /\ home[k] # None /\ home[k] \in Node
    BY <1>a, <1>1, AboutCreated
<1>7. PutComesFirst(k) /\ SpreadFromHome(k) /\ EntryHasEnd(k) /\ LogoutIsAhead(k)
    BY <1>6 DEF SessionInv
<1>8. ASSUME NEW i \in Session, i # k  PROVE SessionInv(i)'
    <2>1. Alike(mailbox, mailbox', Command, i)
        BY <1>2, <1>3, <1>8, SentAlike
    <2>2. Alike(replicatorBox, replicatorBox', ReplicatorCommand, i)
        BY <1>1, <1>8, TakenAlike
    <2>3. Untouched(i)
        BY <1>5, <2>1, <2>2 DEF Untouched
    <2>4. QED BY <1>a, <2>3, UntouchedKeeps DEF HomeInv
<1>9. SessionInv(k)'
    <2>1. \A j \in Node : \A x \in ReplicatorCommand :
              /\ Has(replicatorBox'[j], x) => Has(replicatorBox[j], x)
              /\ Has(replicatorBox[j], x) /\ x.op # "get" => Has(replicatorBox'[j], x)
              /\ \A c \in ReplicatorCommand :
                  Precedes(replicatorBox'[j], c, x) => Precedes(replicatorBox[j], c, x)
        BY <1>1 DEF Taken
    <2>2. \A j \in Node : \A p \in Command :
              /\ Has(mailbox[j], p) => Has(mailbox'[j], p)
              /\ p # m => /\ Has(mailbox'[j], p) => Has(mailbox[j], p)
                          /\ \A c \in Command : Precedes(mailbox'[j], c, p) =>
                                                Precedes(mailbox[j], c, p)
                          /\ \A c \in Command : Behind(mailbox[j], c, p) =>
                                                Behind(mailbox'[j], c, p)
        BY <1>3 DEF Sent
    <2>3. \A p \in Command : p.type \in {"PutInCache", "Evict", "GetFromCache"} => p # m
        BY <1>2
    <2>4. PutComesFirst(k)'
        BY <1>5, <1>7, <2>1, <2>2, <2>3 DEF PutComesFirst
    <2>5. SpreadFromHome(k)'
        BY <1>5, <1>7 DEF SpreadFromHome
    <2>6. /\ \A j \in Node : PutSent(j, k)' <=> PutSent(j, k)
          /\ \A j \in Node : PutQueued(j, k)' <=> PutQueued(j, k)
          /\ Entry(home[k], k)' <=> Entry(home[k], k)
          /\ Alive(home[k], k)' <=> Alive(home[k], k)
        BY <1>5, <1>6, <2>1, <2>2, <2>3 DEF Entry, Alive, PutSent, PutQueued
    <2>7. /\ Evict(k) \in Command /\ Evict(k).type = "Evict"
          /\ UpdateRemove(k) \in ReplicatorCommand /\ UpdateRemove(k).op = "remove"
          /\ \A r \in Request : /\ GetFromCache(k, r) \in Command
                                /\ GetFromCache(k, r).type = "GetFromCache"
                                /\ ReadLocal(k, r) \in ReplicatorCommand
        BY <1>1, SessionMessages
    <2>8. EntryHasEnd(k)'
        BY <1>5, <1>6, <1>7, <2>1, <2>2, <2>6, <2>7 DEF EntryHasEnd
    <2>9. LogoutIsAhead(k)'
        <3>1. \A r \in Request :
                /\ Has(mailbox'[home[k]], GetFromCache(k, r)) <=>
                       Has(mailbox[home[k]], GetFromCache(k, r))
                /\ Behind(mailbox[home[k]], Evict(k), GetFromCache(k, r)) =>
                       Behind(mailbox'[home[k]], Evict(k), GetFromCache(k, r))
            BY <1>6, <2>2, <2>3, <2>7
        <3>2. \A r \in Request :
                /\ Has(replicatorBox'[home[k]], ReadLocal(k, r)) =>
                       Has(replicatorBox[home[k]], ReadLocal(k, r))
                /\ Behind(replicatorBox[home[k]], UpdateRemove(k), ReadLocal(k, r)) =>
                       Behind(replicatorBox'[home[k]], UpdateRemove(k), ReadLocal(k, r))
            <4>1. u # UpdateRemove(k)
                BY <1>1, <2>7
            <4>2. QED BY <1>1, <1>6, <2>1, <2>7, <4>1 DEF Taken
        <3>3. ASSUME home[k] = n, n \in request[q].logouts  PROVE m.found = FALSE \/ m.type = "NotFound"
            <4>1. ~ Behind(replicatorBox[n], UpdateRemove(k), ReadLocal(k, q))
                BY <1>1 DEF Taken
            <4>2. ~ Alive(n, k)
                BY <1>1, <1>7, <3>3, <4>1 DEF LogoutIsAhead
            <4>3. QED BY <1>2, <4>2 DEF Alive, Entry
        <3>4. \A c \in Command :
                /\ Has(mailbox'[home[k]], c) /\ c.type = "GetSuccess" /\ c.key = k
                /\ home[k] \in request[c.replyTo].logouts
                => c.found = FALSE
            <4>1. \A c \in Command : Has(mailbox'[home[k]], c) =>
                      Has(mailbox[home[k]], c) \/ (c = m /\ home[k] = n)
                BY <1>3, <1>6 DEF Sent
            <4>2. QED BY <1>2, <1>7, <3>3, <4>1 DEF LogoutIsAhead
        <3>5. <<home[k], k>> \in loggedOut =>
                \/ Has(mailbox'[home[k]], Evict(k))
                \/ Has(replicatorBox'[home[k]], UpdateRemove(k))
                \/ ~ Alive(home[k], k)
            BY <1>6, <1>7, <2>1, <2>2, <2>7 DEF LogoutIsAhead
        <3>6. Has(replicatorBox[home[k]], UpdateRemove(k)) =>
                  Has(replicatorBox'[home[k]], UpdateRemove(k))
            BY <1>6, <2>1, <2>7
        <3>7. QED BY <1>5, <1>7, <2>6, <3>1, <3>2, <3>4, <3>5, <3>6 DEF LogoutIsAhead
    <2>10. ASSUME k \notin ended'  PROVE Stored(k)'
        <3>1. Stored(k)
            BY <1>5, <1>6, <2>10 DEF SessionInv
        <3>2. home[k] = n => m.type = "GetSuccess" /\ m.found = TRUE
            <4> SUFFICES ASSUME home[k] = n PROVE m.type = "GetSuccess" /\ m.found = TRUE
                OBVIOUS
            <4>1. ~ PutSent(n, k) /\ ~ PutQueued(n, k)'
                BY <1>1, <1>7, NoQueuedPutBehind DEF PutQueued
            <4>2. live[n][k] # {} /\ k \in dataKeys[n]
                BY <2>6, <3>1, <4>1 DEF Stored
            <4>3. QED BY <1>2, <4>2
        <3>3. \A c \in Command : Has(mailbox'[home[k]], c) =>
                  Has(mailbox[home[k]], c) \/ (c = m /\ home[k] = n)
            BY <1>3, <1>6 DEF Sent
        <3>4. \A c \in Command : Has(mailbox'[home[k]], c) /\ c.key = k =>
                  c.type # "NotFound" /\ (c.type = "GetSuccess" => c.found = TRUE)
            BY <3>1, <3>2, <3>3 DEF Stored
        <3>5. \A j \in Node : /\ ~ Has(mailbox'[j], Evict(k))
                              /\ ~ Has(replicatorBox'[j], UpdateRemove(k))
            BY <2>1, <2>2, <2>3, <2>7, <3>1 DEF Stored
        <3>6. QED BY <1>5, <1>6, <2>6, <3>1, <3>4, <3>5 DEF Stored
    <2>11. QED BY <1>5, <1>6, <2>4, <2>5, <2>8, <2>9, <2>10 DEF SessionInv
<1>10. MessagesWereAsked'
    <2>1. request[q].key = k /\ request[q].node = n /\ status[q] # "unused"
        BY <1>a, <1>1 DEF HomeInv, MessagesWereAsked
    <2>2. \A j \in Node : \A c \in Command :
              Has(mailbox'[j], c) => Has(mailbox[j], c) \/ (j = n /\ c = m)
        BY <1>3 DEF Sent
    <2>3. \A j \in Node : \A x \in ReplicatorCommand :
              Has(replicatorBox'[j], x) => Has(replicatorBox[j], x)
        BY <1>1 DEF Taken
    <2>4. QED BY <1>a, <1>2, <1>5, <2>1, <2>2, <2>3 DEF HomeInv, MessagesWereAsked
<1>11. LookupsFollowLogin' /\ HomeIsRight'
    BY <1>a, <1>5
    DEF HomeInv, LookupsFollowLogin, HomeIsRight, NoReplayAtHome, AvailableAtHome
<1>12. QED BY <1>8, <1>9, <1>10, <1>11 DEF HomeInv

\* Gossip brings its node nothing, and nobody what its node has not seen.
LEMMA GossipStep ==
    ASSUME Ready, NEW p \in Node, NEW n \in Node, NEW k \in Session, Gossip(p, n, k)
    PROVE  HomeInv'
<1>a. TypeOK /\ TypeOK' /\ HomeInv /\ \A i \in Session : SessionInv(i)
    BY DEF Ready, HomeInv
<1>1. /\ dataKeys' = [dataKeys EXCEPT ![n] = @ \cup {k}]
      /\ live' = [live EXCEPT ![n][k] = Merged(p, n, k)]
      /\ seen' = [seen EXCEPT ![n][k] = @ \cup seen[p][k]]
      /\ UNCHANGED <<mailbox, replicatorBox, children, child, timer, request, status,
                     home, loggedOut, ended>>
    BY DEF Gossip, cacheVars, childVars, requestVars, historyVars
<1>2. /\ live'[n][k] = Merged(p, n, k) /\ seen'[n][k] = seen[n][k] \cup seen[p][k]
      /\ \A j \in Node : dataKeys[j] \subseteq dataKeys'[j]
      /\ \A j \in Node, i \in Session : j # n \/ i # k =>
             live'[j][i] = live[j][i] /\ seen'[j][i] = seen[j][i]
    <2> DEFINE Dots == SUBSET (1 .. MaxPuts)
               new  == Merged(p, n, k)
               more == seen[n][k] \cup seen[p][k]
    <2>1. /\ dataKeys \in [Node -> SUBSET Session]
          /\ live \in [Node -> [Session -> Dots]] /\ seen \in [Node -> [Session -> Dots]]
        BY <1>a DEF TypeOK
    <2>2. live' = [live EXCEPT ![n][k] = new] /\ seen' = [seen EXCEPT ![n][k] = more]
        BY <1>1
    <2> HIDE DEF Dots, new, more
    <2>3. /\ live'[n][k] = new /\ seen'[n][k] = more
          /\ \A j \in Node, i \in Session : j # n \/ i # k =>
                 live'[j][i] = live[j][i] /\ seen'[j][i] = seen[j][i]
        BY <2>1, <2>2
    <2>4. \A j \in Node : dataKeys[j] \subseteq dataKeys'[j]
        BY <1>1, <2>1
    <2>5. QED BY <2>3, <2>4 DEF new, more
<1>3. /\ PutComesFirst(k) /\ SpreadFromHome(k)
      /\ home[k] # None => home[k] \in Node /\ EntryHasEnd(k) /\ LogoutIsAhead(k)
    BY <1>a DEF SessionInv, TypeOK
<1>4. ASSUME NEW i \in Session, i # k  PROVE SessionInv(i)'
    <2>1. Alike(mailbox, mailbox', Command, i)
          /\ Alike(replicatorBox, replicatorBox', ReplicatorCommand, i)
        BY <1>1, SameAlike
    <2>2. \A j \in Node : /\ live'[j][i] = live[j][i] /\ seen'[j][i] = seen[j][i]
                          /\ i \in dataKeys[j] => i \in dataKeys'[j]
        BY <1>2, <1>4
    <2>3. Untouched(i)
        BY <1>1, <2>1, <2>2 DEF Untouched
    <2>4. QED BY <1>a, <2>3, UntouchedKeeps DEF HomeInv
<1>5. SessionInv(k)'
    <2>1. (\A j \in Node : seen[j][k] = {}) => \A j \in Node : seen'[j][k] = {}
        BY <1>2
    <2>2. home'[k] = None => NotBegun(k)'
        BY <1>a, <1>1, <2>1 DEF SessionInv, NotBegun
    <2>3. PutComesFirst(k)'
        BY <1>1, <1>3, <2>1 DEF PutComesFirst
    <2>4. SpreadFromHome(k)'
        <3>1. \A j \in Node : live[j][k] \subseteq seen[j][k]
            BY <1>3 DEF SpreadFromHome
        <3>2. live'[n][k] \subseteq seen'[n][k]
            BY <1>2, <3>1 DEF Merged
        <3>3. \A j \in Node : live'[j][k] \subseteq seen'[j][k]
            BY <1>2, <3>1, <3>2
        <3>4. ASSUME home[k] # None, NEW j \in Node
              PROVE  seen'[j][k] \subseteq seen'[home[k]][k]
            <4>1. /\ seen[j][k] \subseteq seen[home[k]][k]
                  /\ seen[p][k] \subseteq seen[home[k]][k]
                  /\ seen[n][k] \subseteq seen[home[k]][k]
                BY <1>3, <3>4 DEF SpreadFromHome
            <4>2. seen[home[k]][k] \subseteq seen'[home[k]][k]
                BY <1>2, <1>3, <3>4
            <4>3. seen'[j][k] = seen[j][k] \/ seen'[j][k] = seen[n][k] \cup seen[p][k]
                BY <1>2
            <4>4. QED BY <4>1, <4>2, <4>3
        <3>5. QED BY <1>1, <3>3, <3>4 DEF SpreadFromHome
    <2>5. ASSUME home[k] # None  PROVE live'[home[k]][k] \subseteq live[home[k]][k]
        <3>1. CASE home[k] = n
            <4>1. live[p][k] \subseteq seen[n][k]
                BY <1>3, <2>5, <3>1 DEF SpreadFromHome
            <4>2. QED BY <1>2, <3>1, <4>1 DEF Merged
        <3>2. CASE home[k] # n
            BY <1>2, <1>3, <2>5, <3>2
        <3>3. QED BY <3>1, <3>2
    <2>6. /\ PutSent(home[k], k)' <=> PutSent(home[k], k)
          /\ PutQueued(home[k], k)' <=> PutQueued(home[k], k)
        BY <1>1 DEF PutSent, PutQueued
    <2>7. ASSUME home[k] # None
          PROVE  /\ Entry(home[k], k)' => Entry(home[k], k)
                 /\ Alive(home[k], k)' => Alive(home[k], k)
        BY <1>1, <2>5, <2>6, <2>7 DEF Entry, Alive
    <2>8. home'[k] # None => EntryHasEnd(k)'
        BY <1>1, <1>3, <2>7 DEF EntryHasEnd
    <2>9. home'[k] # None => LogoutIsAhead(k)'
        BY <1>1, <1>3, <2>7 DEF LogoutIsAhead
    <2>10. ASSUME home[k] # None, k \notin ended'  PROVE Stored(k)'
        <3>1. Stored(k)
            BY <1>a, <1>1, <2>10 DEF SessionInv
        <3>2. live[n][k] = seen[n][k] /\ live[p][k] = seen[p][k]
            BY <3>1 DEF Stored
        <3>3. live'[n][k] = seen'[n][k]
            BY <1>2, <3>2 DEF Merged
        <3>4. \A j \in Node : live'[j][k] = seen'[j][k]
            BY <1>2, <3>1, <3>3 DEF Stored
        <3>5. live[home[k]][k] \subseteq live'[home[k]][k]
            BY <1>2, <1>3, <2>10, <3>2, <3>3
        <3>6. k \in dataKeys[home[k]] => k \in dataKeys'[home[k]]
            BY <1>2, <1>3, <2>10
        <3>7. QED BY <1>1, <2>6, <3>1, <3>4, <3>5, <3>6 DEF Stored
    <2>11. QED BY <1>1, <2>2, <2>3, <2>4, <2>8, <2>9, <2>10 DEF SessionInv
<1>6. MessagesWereAsked' /\ LookupsFollowLogin' /\ HomeIsRight'
    BY <1>a, <1>1 DEF HomeInv, MessagesWereAsked, LookupsFollowLogin, HomeIsRight,
                      NoReplayAtHome, AvailableAtHome
<1>7. QED BY <1>4, <1>5, <1>6 DEF HomeInv

LEMMA StutterStep ==
    ASSUME TypeOK, HomeInv, UNCHANGED vars
    PROVE  HomeInv'
<1>1. UNCHANGED <<mailbox, replicatorBox, children, child, timer, dataKeys, live, seen,
                  request, status, home, loggedOut, ended>>
    BY DEF vars
<1>2. ASSUME NEW i \in Session  PROVE SessionInv(i)'
    <2>1. Untouched(i)
        BY <1>1, SameAlike DEF Untouched
    <2>2. QED BY <2>1, UntouchedKeeps DEF HomeInv
<1>3. MessagesWereAsked' /\ LookupsFollowLogin' /\ HomeIsRight'
    BY <1>1 DEF HomeInv, MessagesWereAsked, LookupsFollowLogin, HomeIsRight,
                NoReplayAtHome, AvailableAtHome
<1>4. QED BY <1>2, <1>3 DEF HomeInv

LEMMA HomeInvInit == Init => HomeInv
<1> SUFFICES ASSUME Init PROVE HomeInv
    OBVIOUS
<1>1. \A n \in Node : /\ \A x : ~ Has(mailbox[n], x)
                      /\ \A x : ~ Has(replicatorBox[n], x)
    BY DEF Init, Has
<1>2. ASSUME NEW k \in Session  PROVE SessionInv(k)
    BY <1>1 DEF Init, SessionInv, NotBegun, PutComesFirst, SpreadFromHome
<1>3. MessagesWereAsked /\ LookupsFollowLogin /\ HomeIsRight
    BY <1>1 DEF Init, MessagesWereAsked, LookupsFollowLogin, HomeIsRight,
                NoReplayAtHome, AvailableAtHome
<1>4. QED BY <1>2, <1>3 DEF HomeInv

LEMMA HomeInvStep ==
    ASSUME Calm, TypeOK, TypeOK', ActorInv, HomeInv, [Next]_vars
    PROVE  HomeInv'
<1>1. Ready
    BY DEF Ready
<1>2. ASSUME NEW n \in Node, NEW k \in Session, create(n, k) \/ put(n, k) \/ delete(n, k)
      PROVE  HomeInv'
    BY <1>1, <1>2, CreateStep, DeleteStep DEF put, Calm
<1>3. ASSUME NEW n \in Node, behavior(n) \/ Replicator(n) \/ Crash(n)
      PROVE  HomeInv'
    <2>1. ~ Crash(n)
        BY BoundsAssumption DEF Crash, Calm, TypeOK
    <2>2. QED
        BY <1>1, <1>3, <2>1, PutInCacheStep, EvictStep, GetFromCacheStep,
           GetSuccessStep, NotFoundStep, TerminatedStep, ApplyPutStep, ApplyRemoveStep,
           AnswerGetStep DEF behavior, Replicator
<1>4. ASSUME NEW n \in Node, NEW k \in Session, SessionExpiration(n, k)
      PROVE  HomeInv'
    BY <1>1, <1>4, RefreshSessionStep, TimerStep, PostStopStep DEF SessionExpiration
<1>5. QED
    BY <1>1, <1>2, <1>3, <1>4, LookupStep, AskTimeoutStep, GossipStep, StutterStep
    DEF Next, Client

\* How a session moves through its node, as an invariant.
THEOREM SessionsMoveForward == ASSUME Calm PROVE Spec => []HomeInv
<1>1. TypeOK /\ TypeOK' /\ ActorInv /\ HomeInv /\ [Next]_vars => HomeInv'
    BY HomeInvStep
<1>2. QED BY <1>1, HomeInvInit, TypeCorrect, ActorInvInvariant, PTL DEF Spec

(* On the node that created it a session is found until it is logged out   *)
(* or a timer of it runs out, and never by a lookup that was sent after a  *)
(* logout there, whatever the other nodes still gossip                     *)
(* (README.md:9; SessionCache.scala:50-71).                                *)
THEOREM HomeIsAlwaysRight == ASSUME Calm PROVE Spec => []HomeIsRight
<1>1. HomeInv => HomeIsRight
    BY DEF HomeInv
<1>2. QED BY <1>1, SessionsMoveForward, PTL

(* As long as any node holds a session, its node has an end under way or   *)
(* has dropped it already (README.md:73).                                  *)
THEOREM LiveEntriesAreGuarded == ASSUME Calm PROVE Spec => []LiveEntryIsGuarded
<1>1. TypeOK /\ HomeInv => LiveEntryIsGuarded
    <2> SUFFICES ASSUME TypeOK, HomeInv, NEW n \in Node, NEW k \in Session,
                        live[n][k] # {}
                 PROVE  \/ WillBeEvictedOn(home[k], k)
                        \/ live[n][k] \subseteq seen[home[k]][k] \ live[home[k]][k]
        BY DEF LiveEntryIsGuarded
    <2>1. SessionInv(k)
        BY DEF HomeInv
    <2>2. live[n][k] \subseteq seen[n][k] /\ seen[n][k] # {}
        BY <2>1 DEF SessionInv, SpreadFromHome
    <2>3. home[k] # None
        BY <2>1, <2>2 DEF SessionInv, NotBegun
    <2>4. live[n][k] \subseteq seen[home[k]][k]
        BY <2>1, <2>2, <2>3 DEF SessionInv, SpreadFromHome
    <2>5. CASE live[home[k]][k] = {}
        BY <2>4, <2>5
    <2>6. CASE live[home[k]][k] # {}
        BY <2>1, <2>3, <2>6 DEF SessionInv, EntryHasEnd, Entry, WillBeEvictedOn
    <2>7. QED BY <2>5, <2>6
<1>2. QED BY <1>1, SessionsMoveForward, TypeCorrect, PTL
=============================================================================
