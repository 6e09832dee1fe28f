---------------------------- MODULE SessionCache ----------------------------
(***************************************************************************)
(* The replicated store of session keys of play-scala-secure-session-      *)
(* example.  Every node of the cluster runs one SessionCache actor, one    *)
(* local replicator and, for each session it has seen, one                 *)
(* SessionExpiration child that holds a timer.  SessionService turns the   *)
(* login, lookup and logout of a controller into messages to the           *)
(* SessionCache actor of the node that serves the request.                 *)
(*                                                                         *)
(* A secret key is abstracted to its presence: every PutInCache makes one  *)
(* "dot" of the observed-remove map underneath LWWMap, and a session is in *)
(* the map of a node when the node has a live dot of it.                   *)
(***************************************************************************)
EXTENDS Naturals, Sequences, FiniteSets

CONSTANTS
    Node,        \* the Play instances of the cluster
    Session,     \* the session ids newSessionId() may draw
    Request,     \* the lookups that are made: the bound on their number
    ClientOps,   \* the SessionService operations that callers use
    MaxPuts,     \* bound on the number of PutInCache messages
    MaxMail,     \* bound on a mailbox when a client sends to it
    MaxCrashes,  \* bound on the number of crashes
    None         \* no node

ASSUME ClientOpsAssumption ==
    ClientOps \subseteq {"create", "lookup", "put", "delete"}

ASSUME BoundsAssumption ==
    /\ MaxPuts \in Nat
    /\ MaxMail \in Nat
    /\ MaxCrashes \in Nat

ASSUME NoneAssumption == None \notin Node

VARIABLES
    mailbox,        \* mailbox[n]: messages of the SessionCache actor, FIFO
    replicatorBox,  \* replicatorBox[n]: messages to the local replicator
    children,       \* children[n]: the keys of the behavior's children map
    child,          \* child[n][k]: the child actor named k
    refreshBox,     \* refreshBox[n][k]: RefreshSession messages of that child
    timer,          \* timer[n][k]: is its Evict scheduled?
    dataKeys,       \* dataKeys[n]: the keys the replicator has data for
    live,           \* live[n][k]: the dots of k present in n's map
    seen,           \* seen[n][k]: the dots of k n has ever merged
    request,        \* request[r]: the session, node and past of a lookup
    status,         \* status[r]: what its caller got
    home,           \* home[k]: the node that created k
    loggedOut,      \* history: <<n, k>> when k was deleted through n
    ended,          \* history: sessions deleted, or timed out on some node
    puts, crashes   \* counters for MaxPuts and MaxCrashes

cacheVars   == <<mailbox, children>>
childVars   == <<child, refreshBox, timer>>
dataVars    == <<dataKeys, live, seen>>
requestVars == <<request, status>>
historyVars == <<home, loggedOut, ended, puts, crashes>>
vars == <<mailbox, replicatorBox, children, child, refreshBox, timer, dataKeys,
          live, seen, request, status, home, loggedOut, ended, puts,
          crashes>>

-----------------------------------------------------------------------------
(* Messages *)

\* The value of a put stands for its secret key and identifies its dot.
PutInCache(k, v)   == [type |-> "PutInCache", key |-> k, value |-> v]
Evict(k)           == [type |-> "Evict", key |-> k]
Terminated(k)      == [type |-> "InternalSessionActorTerminated", key |-> k]
GetFromCache(k, r) == [type |-> "GetFromCache", key |-> k, replyTo |-> r]
GetSuccess(k, r, found) ==
    [type |-> "GetSuccess", key |-> k, replyTo |-> r, found |-> found]
NotFound(k, r)     == [type |-> "NotFound", key |-> k, replyTo |-> r]

Command ==
    [type : {"PutInCache"}, key : Session, value : 1 .. MaxPuts]
    \cup [type : {"Evict", "InternalSessionActorTerminated"}, key : Session]
    \cup [type : {"GetFromCache", "NotFound"}, key : Session, replyTo : Request]
    \cup [type : {"GetSuccess"}, key : Session, replyTo : Request,
          found : BOOLEAN]

\* What the SessionCache asks of the replicator of its own node.
\* Mutant of UpdatePut: the update forgets the entry.
UpdateNothing(k, v) == [op |-> "remove", key |-> k]

UpdatePut(k, v) == [op |-> "put", key |-> k, dot |-> v]
UpdateRemove(k) == [op |-> "remove", key |-> k]
ReadLocal(k, r) == [op |-> "get", key |-> k, replyTo |-> r]

ReplicatorCommand ==
    [op : {"put"}, key : Session, dot : 1 .. MaxPuts]
    \cup [op : {"remove"}, key : Session]
    \cup [op : {"get"}, key : Session, replyTo : Request]

ChildState   == {"none", "running", "stopping"}
Status       == {"unused", "asked", "found", "absent", "timedOut"}
Lookup       == [key : Session \cup {None}, node : Node \cup {None},
                 logouts : SUBSET Node]

TypeOK ==
    /\ mailbox \in [Node -> Seq(Command)]
    /\ replicatorBox \in [Node -> Seq(ReplicatorCommand)]
    /\ children \in [Node -> SUBSET Session]
    /\ child \in [Node -> [Session -> ChildState]]
    /\ refreshBox \in [Node -> [Session -> Nat]]
    /\ timer \in [Node -> [Session -> BOOLEAN]]
    /\ dataKeys \in [Node -> SUBSET Session]
    /\ live \in [Node -> [Session -> SUBSET (1 .. MaxPuts)]]
    /\ seen \in [Node -> [Session -> SUBSET (1 .. MaxPuts)]]
    /\ request \in [Request -> Lookup]
    /\ status \in [Request -> Status]
    /\ home \in [Session -> Node \cup {None}]
    /\ loggedOut \subseteq Node \X Session
    /\ ended \subseteq Session
    /\ puts \in 0 .. MaxPuts
    /\ crashes \in 0 .. MaxCrashes

Init ==
    /\ mailbox = [n \in Node |-> <<>>]
    /\ replicatorBox = [n \in Node |-> <<>>]
    /\ children = [n \in Node |-> {}]
    /\ child = [n \in Node |-> [k \in Session |-> "none"]]
    /\ refreshBox = [n \in Node |-> [k \in Session |-> 0]]
    /\ timer = [n \in Node |-> [k \in Session |-> FALSE]]
    /\ dataKeys = [n \in Node |-> {}]
    /\ live = [n \in Node |-> [k \in Session |-> {}]]
    /\ seen = [n \in Node |-> [k \in Session |-> {}]]
    /\ request = [r \in Request |-> [key |-> None, node |-> None, logouts |-> {}]]
    /\ status = [r \in Request |-> "unused"]
    /\ home = [k \in Session |-> None]
    /\ loggedOut = {}
    /\ ended = {}
    /\ puts = 0
    /\ crashes = 0

-----------------------------------------------------------------------------
(* SessionService: what a controller calls on the node n that serves it.   *)
(* Every call is one message told to the SessionCache of n.                *)

Tell(n, m) ==
    /\ Len(mailbox[n]) < MaxMail
    /\ mailbox' = [mailbox EXCEPT ![n] = Append(@, m)]

\* Mutant of NextValue: drawn before the counter moves on.
StaleValue == puts
NextValue  == puts + 1

\* newSessionId() draws an id that was never used.
create(n, k) ==
    /\ "create" \in ClientOps
    /\ home[k] = None
    /\ puts < MaxPuts
    /\ Tell(n, PutInCache(k, NextValue))
    /\ home' = [home EXCEPT ![k] = n]
    /\ puts' = NextValue
    /\ UNCHANGED <<replicatorBox, children, childVars, dataVars, requestVars,
                   loggedOut, ended, crashes>>

put(n, k) ==
    /\ "put" \in ClientOps
    /\ home[k] # None
    /\ puts < MaxPuts
    /\ Tell(n, PutInCache(k, NextValue))
    /\ puts' = NextValue
    /\ loggedOut' = {p \in loggedOut : p[2] # k}
    /\ UNCHANGED <<replicatorBox, children, childVars, dataVars, requestVars, home,
                   ended, crashes>>

lookup(n, k, r) ==
    /\ "lookup" \in ClientOps
    /\ home[k] # None
    /\ status[r] = "unused"
    /\ Tell(n, GetFromCache(k, r))
    /\ request' = [request EXCEPT ![r] =
            [key |-> k, node |-> n,
             logouts |-> {m \in Node : <<m, k>> \in loggedOut}]]
    /\ status' = [status EXCEPT ![r] = "asked"]
    /\ UNCHANGED <<replicatorBox, children, childVars, dataVars, historyVars>>

\* The 300 ms of the ask run out: the late answer will find nobody.
AskTimeout(r) ==
    /\ status[r] = "asked"
    /\ status' = [status EXCEPT ![r] = "timedOut"]
    /\ UNCHANGED <<cacheVars, replicatorBox, childVars, dataVars, request,
                   historyVars>>

\* Bound: one logout of a session through each node, between two puts.
delete(n, k) ==
    /\ "delete" \in ClientOps
    /\ home[k] # None
    /\ <<n, k>> \notin loggedOut
    /\ Tell(n, Evict(k))
    /\ loggedOut' = loggedOut \cup {<<n, k>>}
    /\ ended' = ended \cup {k}
    /\ UNCHANGED <<replicatorBox, children, childVars, dataVars, requestVars, home,
                   puts, crashes>>

-----------------------------------------------------------------------------
(* SessionCache.behavior: one handler per message, run one at a time.      *)

Receive(n, type) ==
    /\ mailbox[n] # <<>>
    /\ Head(mailbox[n]).type = type
    /\ mailbox' = [mailbox EXCEPT ![n] = Tail(@)]

AskReplicator(n, m) ==
    replicatorBox' = [replicatorBox EXCEPT ![n] = Append(@, m)]

\* Mutant of refreshSessionExpiration: no actor is spawned or told.
NoExpiration(n, k) == UNCHANGED <<children, childVars>>

\* A child the behavior knows is told to refresh, which is lost if it is
\* already stopping; an unknown one is spawned, and its setup schedules.
refreshSessionExpiration(n, k) ==
    \/ /\ k \in children[n]
       /\ refreshBox' = IF child[n][k] = "running"
                        THEN [refreshBox EXCEPT ![n][k] = @ + 1]
                        ELSE refreshBox
       /\ UNCHANGED <<children, child, timer>>
    \/ /\ k \notin children[n]
       /\ children' = [children EXCEPT ![n] = @ \cup {k}]
       /\ child' = [child EXCEPT ![n][k] = "running"]
       /\ timer' = [timer EXCEPT ![n][k] = TRUE]
       /\ UNCHANGED refreshBox

HandlePutInCache(n) ==
    LET m == Head(mailbox[n]) IN
    /\ Receive(n, "PutInCache")
    /\ AskReplicator(n, UpdatePut(m.key, m.value))
    /\ refreshSessionExpiration(n, m.key)
    /\ UNCHANGED <<dataVars, requestVars, home, loggedOut, ended, puts, crashes>>

\* Mutant of destroySessionExpiration: the actor is not stopped.
ActorStays(n, k) == UNCHANGED child

\* context.stop only orders the stop; children keeps the key until the
\* actor has terminated.
destroySessionExpiration(n, k) ==
    child' = IF child[n][k] = "running"
             THEN [child EXCEPT ![n][k] = "stopping"]
             ELSE child

\* Mutant of HandleEvict: behavior(children - key) already here.
HandleEvictForgettingKey(n) ==
    LET m == Head(mailbox[n]) IN
    /\ Receive(n, "Evict")
    /\ destroySessionExpiration(n, m.key)
    /\ AskReplicator(n, UpdateRemove(m.key))
    /\ children' = [children EXCEPT ![n] = @ \ {m.key}]
    /\ UNCHANGED <<refreshBox, timer, dataVars, requestVars, historyVars>>

\* Mutant of HandleEvict: the actor is stopped, the key stays in the map.
HandleEvictWithoutRemove(n) ==
    LET m == Head(mailbox[n]) IN
    /\ Receive(n, "Evict")
    /\ destroySessionExpiration(n, m.key)
    /\ UNCHANGED <<replicatorBox, children, refreshBox, timer, dataVars,
                   requestVars, historyVars>>

HandleEvict(n) ==
    LET m == Head(mailbox[n]) IN
    /\ Receive(n, "Evict")
    /\ destroySessionExpiration(n, m.key)
    /\ AskReplicator(n, UpdateRemove(m.key))
    /\ UNCHANGED <<children, refreshBox, timer, dataVars, requestVars, historyVars>>

HandleGetFromCache(n) ==
    LET m == Head(mailbox[n]) IN
    /\ Receive(n, "GetFromCache")
    /\ AskReplicator(n, ReadLocal(m.key, m.replyTo))
    /\ UNCHANGED <<children, childVars, dataVars, requestVars, historyVars>>

\* Mutant of Reply: nobody is told.
NoReply(r, answer) == UNCHANGED status

\* An answer reaches its caller unless the ask has timed out.
Reply(r, answer) ==
    status' = IF status[r] = "asked"
              THEN [status EXCEPT ![r] = answer]
              ELSE status

HandleGetSuccess(n) ==
    LET m == Head(mailbox[n]) IN
    /\ Receive(n, "GetSuccess")
    /\ Reply(m.replyTo, IF m.found THEN "found" ELSE "absent")
    /\ refreshSessionExpiration(n, m.key)
    /\ UNCHANGED <<replicatorBox, dataVars, request, home, loggedOut, ended, puts,
                   crashes>>

HandleNotFound(n) ==
    LET m == Head(mailbox[n]) IN
    /\ Receive(n, "NotFound")
    /\ Reply(m.replyTo, "absent")
    /\ UNCHANGED <<replicatorBox, children, childVars, dataVars, request,
                   historyVars>>

HandleTerminated(n) ==
    LET m == Head(mailbox[n]) IN
    /\ Receive(n, "InternalSessionActorTerminated")
    /\ children' = [children EXCEPT ![n] = @ \ {m.key}]
    /\ UNCHANGED <<replicatorBox, childVars, dataVars, requestVars, historyVars>>

-----------------------------------------------------------------------------
(* SessionExpiration: the child of k on n.                                 *)

\* cancel(); schedule().
HandleRefreshSession(n, k) ==
    /\ child[n][k] = "running"
    /\ refreshBox[n][k] > 0
    /\ refreshBox' = [refreshBox EXCEPT ![n][k] = @ - 1]
    /\ timer' = [timer EXCEPT ![n][k] = TRUE]
    /\ UNCHANGED <<cacheVars, replicatorBox, child, dataVars, requestVars, home,
                   loggedOut, ended, puts, crashes>>

\* expirationTime has passed since schedule().
TimerFires(n, k) ==
    /\ timer[n][k]
    /\ timer' = [timer EXCEPT ![n][k] = FALSE]
    /\ mailbox' = [mailbox EXCEPT ![n] = Append(@, Evict(k))]
    /\ ended' = ended \cup {k}
    /\ UNCHANGED <<replicatorBox, children, child, refreshBox, dataVars, requestVars,
                   home, loggedOut, puts, crashes>>

\* Mutants of Cancel and ReportTermination: PostStop does not cancel, the
\* child is not watched.
NoCancel(n, k) == UNCHANGED timer
NoReport(n, k) == UNCHANGED mailbox

Cancel(n, k) == timer' = [timer EXCEPT ![n][k] = FALSE]

ReportTermination(n, k) ==
    mailbox' = [mailbox EXCEPT ![n] = Append(@, Terminated(k))]

\* The child terminates: PostStop cancels the timer, its mail is lost and
\* the watching SessionCache gets the message of watchWith.
PostStop(n, k) ==
    /\ child[n][k] = "stopping"
    /\ child' = [child EXCEPT ![n][k] = "none"]
    /\ refreshBox' = [refreshBox EXCEPT ![n][k] = 0]
    /\ Cancel(n, k)
    /\ ReportTermination(n, k)
    /\ UNCHANGED <<replicatorBox, children, dataVars, requestVars, historyVars>>

-----------------------------------------------------------------------------
(* The local replicator and the gossip of Akka Distributed Data (external).*)

Serve(n, op) ==
    /\ replicatorBox[n] # <<>>
    /\ Head(replicatorBox[n]).op = op
    /\ replicatorBox' = [replicatorBox EXCEPT ![n] = Tail(@)]

\* An update of a key without data starts from emptyMap.
ApplyPut(n) ==
    LET u == Head(replicatorBox[n]) IN
    /\ Serve(n, "put")
    /\ dataKeys' = [dataKeys EXCEPT ![n] = @ \cup {u.key}]
    /\ live' = [live EXCEPT ![n][u.key] = {u.dot}]
    /\ seen' = [seen EXCEPT ![n][u.key] = @ \cup {u.dot}]
    /\ UNCHANGED <<cacheVars, childVars, requestVars, historyVars>>

\* An observed remove: it takes away the dots this node knows, no others.
ApplyRemove(n) ==
    LET u == Head(replicatorBox[n]) IN
    /\ Serve(n, "remove")
    /\ dataKeys' = [dataKeys EXCEPT ![n] = @ \cup {u.key}]
    /\ live' = [live EXCEPT ![n][u.key] = {}]
    /\ UNCHANGED <<cacheVars, childVars, seen, requestVars, historyVars>>

AnswerGet(n) ==
    LET g == Head(replicatorBox[n]) IN
    /\ Serve(n, "get")
    /\ mailbox' = [mailbox EXCEPT ![n] = Append(@,
            IF g.key \in dataKeys[n]
            THEN GetSuccess(g.key, g.replyTo, live[n][g.key] # {})
            ELSE NotFound(g.key, g.replyTo))]
    /\ UNCHANGED <<children, childVars, dataVars, requestVars, historyVars>>

Merged(m, n, k) ==
    (live[m][k] \cap live[n][k]) \cup (live[m][k] \ seen[n][k])
                                \cup (live[n][k] \ seen[m][k])

Gossip(m, n, k) ==
    /\ k \in dataKeys[m]
    /\ \/ k \notin dataKeys[n]
       \/ Merged(m, n, k) # live[n][k]
       \/ ~(seen[m][k] \subseteq seen[n][k])
    /\ dataKeys' = [dataKeys EXCEPT ![n] = @ \cup {k}]
    /\ live' = [live EXCEPT ![n][k] = Merged(m, n, k)]
    /\ seen' = [seen EXCEPT ![n][k] = @ \cup seen[m][k]]
    /\ UNCHANGED <<cacheVars, replicatorBox, childVars, requestVars, historyVars>>

\* The process of n dies and starts again: nothing of it was persisted.
Crash(n) ==
    /\ crashes < MaxCrashes
    /\ crashes' = crashes + 1
    /\ mailbox' = [mailbox EXCEPT ![n] = <<>>]
    /\ replicatorBox' = [replicatorBox EXCEPT ![n] = <<>>]
    /\ children' = [children EXCEPT ![n] = {}]
    /\ child' = [child EXCEPT ![n] = [k \in Session |-> "none"]]
    /\ refreshBox' = [refreshBox EXCEPT ![n] = [k \in Session |-> 0]]
    /\ timer' = [timer EXCEPT ![n] = [k \in Session |-> FALSE]]
    /\ dataKeys' = [dataKeys EXCEPT ![n] = {}]
    /\ live' = [live EXCEPT ![n] = [k \in Session |-> {}]]
    /\ seen' = [seen EXCEPT ![n] = [k \in Session |-> {}]]
    /\ status' = [r \in Request |->
            IF status[r] = "asked" /\ request[r].node = n THEN "timedOut"
                                                         ELSE status[r]]
    /\ UNCHANGED <<request, home, loggedOut, ended, puts>>

-----------------------------------------------------------------------------
Client ==
    \/ \E n \in Node, k \in Session :
        create(n, k) \/ put(n, k) \/ delete(n, k)
    \/ \E n \in Node, k \in Session, r \in Request : lookup(n, k, r)
    \/ \E r \in Request : AskTimeout(r)

behavior(n) ==
    \/ HandlePutInCache(n)
    \/ HandleEvict(n)
    \/ HandleGetFromCache(n)
    \/ HandleGetSuccess(n)
    \/ HandleNotFound(n)
    \/ HandleTerminated(n)

SessionExpiration(n, k) ==
    HandleRefreshSession(n, k) \/ TimerFires(n, k) \/ PostStop(n, k)

Replicator(n) == ApplyPut(n) \/ ApplyRemove(n) \/ AnswerGet(n)

Next ==
    \/ Client
    \/ \E n \in Node : behavior(n) \/ Replicator(n) \/ Crash(n)
    \/ \E n \in Node, k \in Session : SessionExpiration(n, k)
    \/ \E m, n \in Node, k \in Session : Gossip(m, n, k)

Spec == Init /\ [][Next]_vars

\* Actors with mail run, scheduled messages are sent, gossip keeps going;
\* clients promise nothing and no process is obliged to crash.
Fairness ==
    /\ \A n \in Node : WF_vars(behavior(n)) /\ WF_vars(Replicator(n))
    /\ \A n \in Node, k \in Session :
        /\ WF_vars(HandleRefreshSession(n, k))
        /\ WF_vars(TimerFires(n, k))
        /\ WF_vars(PostStop(n, k))
    /\ \A m, n \in Node, k \in Session : WF_vars(Gossip(m, n, k))

FairSpec == Spec /\ Fairness

-----------------------------------------------------------------------------
(* Properties *)

Has(box, m)  == \E i \in 1 .. Len(box) : box[i] = m
Once(box, m) ==
    \A i, j \in 1 .. Len(box) : box[i] = m /\ box[j] = m => i = j

\* An actor name is free whenever the cache may spawn under it: a key that
\* has left the children map has no actor, not even one still stopping, so
\* context.spawn never fails with "actor name is not unique"
\* (SessionCache.scala:85 against 50 and 67).
SpawnNameIsFree ==
    \A n \in Node, k \in Session :
        k \notin children[n] => child[n][k] = "none"

\* A terminated child leaves no scheduled Evict behind: whoever logs in
\* again under the same key is not evicted by an older timer's schedule
\* (PostStop, SessionCache.scala:148).
NoOrphanTimer ==
    \A n \in Node, k \in Session : timer[n][k] => child[n][k] # "none"

\* The termination of a child is reported exactly once: a key in the map
\* without an actor has its report on the way, and a report never meets a
\* new actor of the same key (SessionCache.scala:66, 86).
TerminationReportedOnce ==
    \A n \in Node, k \in Session :
        /\ Has(mailbox[n], Terminated(k)) <=>
               k \in children[n] /\ child[n][k] = "none"
        /\ Once(mailbox[n], Terminated(k))

\* Something on node n will still remove session k.
WillBeEvictedOn(n, k) ==
    \/ timer[n][k]
    \/ Has(mailbox[n], Evict(k))
    \/ Has(replicatorBox[n], UpdateRemove(k))

\* No entry without an end: as long as any node still holds a session, the
\* node that created it either holds it too and has an eviction under way,
\* or has seen it and dropped it, so that gossip takes it from the others
\* (README.md:73, "an idle session will be reaped").
LiveEntryIsGuarded ==
    \A n \in Node, k \in Session :
        live[n][k] # {} =>
            \/ WillBeEvictedOn(home[k], k)
            \/ live[n][k] \subseteq seen[home[k]][k] \ live[home[k]][k]

\* After a logout on the node that created the session, a lookup on that
\* node never returns the secret key, even if other nodes still gossip it
\* (README.md:9, "prevents replay attacks after logout").
NoReplayAtHome ==
    \A r \in Request :
        status[r] = "found" /\ request[r].node = home[request[r].key]
            => home[request[r].key] \notin request[r].logouts

\* The node that created a session answers every lookup with its key until
\* the session was deleted or some timer for it ran out: no login is lost
\* between the two mailboxes.
AvailableAtHome ==
    \A r \in Request :
        status[r] = "absent" /\ request[r].node = home[request[r].key]
            => request[r].key \in ended

\* Every lookup is answered without the help of its timeout, whatever the
\* replicator knows of the key.
LookupIsAnswered ==
    \A r \in Request :
        status[r] = "asked" ~> status[r] # "asked"

Reaped(k) ==
    \A n \in Node :
        live[n][k] = {} /\ child[n][k] = "none" /\ k \notin children[n]

\* Once the finitely many lookups are over, every session disappears from
\* every node for good, with its expiration actors.
EventuallyReaped ==
    \A k \in Session : home[k] # None ~> []Reaped(k)

\* SessionExpiration.scala: the actors that guard sessions are accounted for.
\* Whatever meets whatever in the three mailboxes, each end of one is reported
\* once, and none leaves a timer behind.
ActorsAccounted == TypeOK /\ TerminationReportedOnce /\ NoOrphanTimer

\* On the node that created it a session is there until it ends, and not after
\* its logout.
HomeIsRight == NoReplayAtHome /\ AvailableAtHome
=============================================================================
