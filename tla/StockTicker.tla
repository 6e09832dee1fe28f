---------------------------- MODULE StockTicker ----------------------------
(***************************************************************************)
(* The stock ticker of play-java-websocket-example and of its Scala twin.  *)
(* A request for a websocket asks UserParentActor for a UserActor of its   *)
(* own; that actor asks the one StocksActor for stocks, and when the       *)
(* answer comes a callback on another thread starts one stream for every   *)
(* new stock and keeps its kill switch in stocksMap.  Symbols the browser  *)
(* sends are added by the thread of the websocket stream.  unwatchStocks   *)
(* runs on the thread of the actor and writes stocksMap beside them all:   *)
(* every reading and every writing of that map is a step of its own.       *)
(*                                                                         *)
(* The two editions are one model: edition, chosen in Init, tells where    *)
(* their code differs.  A stream is named by the ask that brought its      *)
(* stock and by its symbol.                                                *)
(***************************************************************************)
EXTENDS Naturals, Sequences, FiniteSets

CONSTANTS
    User,       \* websocket requests, each with the actor made for it
    Symbol,     \* stock symbols
    Default,    \* default.stocks of the configuration
    Ask,        \* calls of addStocks: the bound on their number
    MaxUnwatch, \* bound on the number of UnwatchStocks messages
    None        \* nobody, nothing

ASSUME TickerAssumption ==
    /\ Default \subseteq Symbol /\ Default # {}
    /\ MaxUnwatch \in Nat /\ IsFiniteSet(Ask)
    /\ None \notin User \cup Symbol \cup Ask

VARIABLES
    edition,    \* "java" or "scala"
    socket,     \* socket[u]: the websocket request
    parentBox,  \* mailbox of UserParentActor: the requests to create for
    actor,      \* actor[u]: the UserActor
    mailbox,    \* mailbox[u]: its messages
    stocks,     \* stocks[s]: generation of the Stock in StocksActor's map
    asker,      \* asker[a]: the UserActor that made ask a
    symbols,    \* symbols[a]: what it asked for, then what its callback has to do
    answer,     \* answer[a]: state of the future of ask a
    atStock,    \* atStock[a]: the stock its callback is adding
    snapshot,   \* snapshot[a]: stocksMap as read by that callback
    stocksMap,  \* stocksMap[u][s]: the ask whose kill switch u holds for s
    removal,    \* removal[u]: the call of unwatchStocks under way in u
    stream,     \* stream[a][s]: "none", "running" or "ended"
    source,     \* source[a][s]: generation of the Stock behind it
    raced,      \* history: symbols for which two callbacks of u met
    lost,       \* history: streams whose switch was overwritten by others
    unwatched   \* counter for MaxUnwatch

askVars  == <<asker, symbols, answer, atStock, snapshot>>
userVars == <<socket, parentBox, actor, mailbox, removal>>
vars == <<edition, socket, parentBox, actor, mailbox, stocks, asker, symbols, answer,
          atStock, snapshot, stocksMap, removal, stream, source, raced, lost, unwatched>>

WatchStocks         == [type |-> "WatchStocks"]
UnwatchStocks(gone) == [type |-> "UnwatchStocks", symbols |-> gone]
InternalStop        == [type |-> "InternalStop"]
Message == {WatchStocks, InternalStop} \cup {UnwatchStocks(gone) : gone \in SUBSET Symbol}

\* unwatchStocks: the symbols it has to come to, and at one of them what it
\* shut down, what it does next and the map it has read.
Removal == [left : SUBSET Symbol, at : Symbol \cup {None}, killed : Ask \cup {None},
            step : {"next", "read", "write"}, map : [Symbol -> Ask \cup {None}]]

TypeOK ==
    /\ edition \in {"java", "scala"}
    /\ socket \in [User -> {"none", "asked", "open", "closed", "failed", "forbidden"}]
    /\ parentBox \in Seq(User)
    /\ actor \in [User -> {"none", "running", "stopping", "stopped"}]
    /\ mailbox \in [User -> Seq(Message)]
    /\ stocks \in [Symbol -> Nat]
    /\ asker \in [Ask -> User \cup {None}]
    /\ symbols \in [Ask -> SUBSET Symbol]
    /\ answer \in [Ask -> {"free", "asked", "answered", "adding", "done", "timedOut"}]
    /\ atStock \in [Ask -> Symbol \cup {None}]
    /\ snapshot \in [Ask -> [Symbol -> Ask \cup {None}]]
    /\ stocksMap \in [User -> [Symbol -> Ask \cup {None}]]
    /\ removal \in [User -> Removal]
    /\ stream \in [Ask -> [Symbol -> {"none", "running", "ended"}]]
    /\ source \in [Ask -> [Symbol -> Nat]]
    /\ raced \in [User -> SUBSET Symbol]
    /\ lost \subseteq Ask \X Symbol
    /\ unwatched \in 0 .. MaxUnwatch

NoSwitch  == [s \in Symbol |-> None]
NoRemoval == [left |-> {}, at |-> None, killed |-> None, step |-> "next", map |-> NoSwitch]

Init ==
    /\ edition \in {"java", "scala"}
    /\ socket = [u \in User |-> "none"]
    /\ parentBox = <<>>
    /\ actor = [u \in User |-> "none"]
    /\ mailbox = [u \in User |-> <<>>]
    /\ stocks = [s \in Symbol |-> 0]
    /\ asker = [a \in Ask |-> None]
    /\ symbols = [a \in Ask |-> {}]
    /\ answer = [a \in Ask |-> "free"]
    /\ atStock = [a \in Ask |-> None]
    /\ snapshot = [a \in Ask |-> NoSwitch]
    /\ stocksMap = [u \in User |-> NoSwitch]
    /\ removal = [u \in User |-> NoRemoval]
    /\ stream = [a \in Ask |-> [s \in Symbol |-> "none"]]
    /\ source = [a \in Ask |-> [s \in Symbol |-> 0]]
    /\ raced = [u \in User |-> {}]
    /\ lost = {}
    /\ unwatched = 0

Tell(u, m) == mailbox' = [mailbox EXCEPT ![u] = Append(@, m)]
Watched(u) == {s \in Symbol : stocksMap[u][s] # None}

-----------------------------------------------------------------------------
(* HomeController.ws and the life of the websocket *)

\* Only a request of the same origin gets as far as UserParentActor.
ws(u, sameOrigin) ==
    /\ socket[u] = "none"
    /\ socket' = [socket EXCEPT ![u] = IF sameOrigin THEN "asked" ELSE "forbidden"]
    /\ parentBox' = IF sameOrigin THEN Append(parentBox, u) ELSE parentBox
    /\ UNCHANGED <<edition, actor, mailbox, removal, stocks, askVars, stocksMap, stream, source,
                   raced, lost, unwatched>>

\* The ask of wsFutureFlow fails after a second: an internal server error.
FlowTimeout(u) ==
    /\ socket[u] = "asked"
    /\ socket' = [socket EXCEPT ![u] = "failed"]
    /\ UNCHANGED <<edition, parentBox, actor, mailbox, removal, stocks, askVars, stocksMap,
                   stream, source, raced, lost, unwatched>>

\* Mutant of Terminated: the end of the flow is not piped to the actor.
TerminatedSilently(u) == UNCHANGED mailbox

\* watchTermination pipes the end of the flow to the actor.
Terminated(u) == Tell(u, InternalStop)

\* The browser goes away, or a stage of the flow fails.
Close(u) ==
    /\ socket[u] = "open"
    /\ socket' = [socket EXCEPT ![u] = "closed"]
    /\ Terminated(u)
    /\ UNCHANGED <<edition, parentBox, actor, removal, stocks, askVars, stocksMap, stream, source,
                   raced, lost, unwatched>>

-----------------------------------------------------------------------------
(* The actors *)

\* UserParentActor spawns the UserActor and tells it the default stocks.
Create ==
    /\ parentBox # <<>>
    /\ parentBox' = Tail(parentBox)
    /\ actor' = [actor EXCEPT ![Head(parentBox)] = "running"]
    /\ Tell(Head(parentBox), WatchStocks)
    /\ UNCHANGED <<edition, socket, removal, stocks, askVars, stocksMap, stream, source,
                   raced, lost, unwatched>>

\* addStocks asks StocksActor; the calling thread goes on.
addStocks(u, requested, a) ==
    /\ answer[a] = "free"
    /\ asker' = [asker EXCEPT ![a] = u]
    /\ symbols' = [symbols EXCEPT ![a] = requested]
    /\ answer' = [answer EXCEPT ![a] = "asked"]
    /\ UNCHANGED <<atStock, snapshot>>

\* An actor handles one message at a time.
Receive(u, m) ==
    /\ actor[u] = "running" /\ removal[u] = NoRemoval
    /\ mailbox[u] # <<>>
    /\ Head(mailbox[u]) = m
    /\ mailbox' = [mailbox EXCEPT ![u] = Tail(@)]

\* The flow goes to the request, or to nobody when its ask has timed out.
HandleWatchStocks(u) ==
    /\ Receive(u, WatchStocks)
    /\ \E a \in Ask : addStocks(u, Default, a)
    /\ socket' = [socket EXCEPT ![u] = IF @ = "asked" THEN "open" ELSE @]
    /\ UNCHANGED <<edition, parentBox, actor, removal, stocks, stocksMap, stream, source,
                   raced, lost, unwatched>>

\* The sink of the websocket: a symbol typed in by the user.
jsonSink(u, s) ==
    /\ socket[u] = "open"
    /\ \E a \in Ask : addStocks(u, {s}, a)
    /\ UNCHANGED <<edition, userVars, stocks, stocksMap, stream, source, raced, lost,
                   unwatched>>

unwatchStocks(u, gone) ==
    removal' = [removal EXCEPT ![u] = [NoRemoval EXCEPT !.left = gone]]

\* PostStop follows InternalStop and every failure of the actor.
Stops(u) ==
    /\ actor' = [actor EXCEPT ![u] = "stopping"]
    /\ unwatchStocks(u, Watched(u))

HandleUnwatchStocks(u, gone) ==
    /\ Receive(u, UnwatchStocks(gone))
    /\ unwatchStocks(u, gone)
    /\ UNCHANGED <<edition, socket, parentBox, actor, stocks, askVars, stocksMap, stream,
                   source, raced, lost, unwatched>>

HandleInternalStop(u) ==
    /\ Receive(u, InternalStop)
    /\ Stops(u)
    /\ UNCHANGED <<edition, socket, parentBox, stocks, askVars, stocksMap, stream, source,
                   raced, lost, unwatched>>

\* The loop comes to s.  At PostStop the Java edition goes over the keys of
\* the map itself and may come to one that was put meanwhile.
Visits(u, s) ==
    /\ removal[u].step = "next"
    /\ \/ s \in removal[u].left
       \/ edition = "java" /\ actor[u] = "stopping" /\ s \in Watched(u)

\* Mutant of shutdown: the switch is looked up and the stream left running.
NoShutdown(u, s) == UNCHANGED stream

\* The kill switch of s ends its stream.
shutdown(u, s) ==
    stream' = [a \in Ask |-> [x \in Symbol |->
        IF x = s /\ stocksMap[u][s] = a /\ stream[a][x] = "running"
        THEN "ended" ELSE stream[a][x]]]

ShutdownStock(u, s) ==
    /\ Visits(u, s)
    /\ edition = "scala" \/ stocksMap[u][s] # None
    /\ shutdown(u, s)
    /\ removal' = [removal EXCEPT ![u] = [left |-> @.left \ {s}, at |-> s, map |-> NoSwitch,
                                          killed |-> stocksMap[u][s], step |-> "read"]]
    /\ UNCHANGED <<edition, socket, parentBox, actor, mailbox, stocks, askVars, stocksMap,
                   source, raced, lost, unwatched>>

\* In Java get() of a symbol that is not watched is null: the actor fails, and
\* a PostStop that fails leaves the rest of the switches alone.  A key that
\* another write has dropped may also be passed over at PostStop.
NullSwitch(u, s) ==
    /\ s \in removal[u].left /\ removal[u].step = "next"
    /\ edition = "java" /\ stocksMap[u][s] = None
    /\ \/ actor[u] = "running" /\ Stops(u)
       \/ /\ actor[u] = "stopping"
          /\ actor' = [actor EXCEPT ![u] = "stopped"]
          /\ unwatchStocks(u, {})
       \/ /\ actor[u] = "stopping"
          /\ unwatchStocks(u, removal[u].left \ {s})
          /\ UNCHANGED actor
    /\ UNCHANGED <<edition, socket, parentBox, mailbox, stocks, askVars, stocksMap, stream,
                   source, raced, lost, unwatched>>

ReadMap(u) ==
    /\ removal[u].step = "read"
    /\ removal' = [removal EXCEPT ![u].step = "write", ![u].map = stocksMap[u]]
    /\ UNCHANGED <<edition, socket, parentBox, actor, mailbox, stocks, askVars, stocksMap,
                   stream, source, raced, lost, unwatched>>

\* Mutant of WithSwitch: the two arguments of put are confused.
WithSymbol(map, s, switch) == [map EXCEPT ![s] = s]

WithSwitch(map, s, switch) == [map EXCEPT ![s] = switch]

\* The Scala var is assigned the map that was read and the change; a change of
\* the Java HashMap beside another access may be lost or undo that one.
WriteMap(u, read, s, switch) ==
    \E map \in {read} \cup (IF edition = "java" THEN {stocksMap[u]} ELSE {}) :
        stocksMap' = [stocksMap EXCEPT ![u] = WithSwitch(map, s, switch)]

\* The switches of u that are no longer where they were.
Overwritten(u) ==
    {<<stocksMap[u][x], x>> : x \in {y \in Watched(u) : stocksMap'[u][y] # stocksMap[u][y]}}

RemoveSwitch(u) ==
    /\ removal[u].step = "write"
    /\ WriteMap(u, removal[u].map, removal[u].at, None)
    /\ lost' = lost \cup (Overwritten(u) \ {<<removal[u].killed, removal[u].at>>})
    /\ unwatchStocks(u, removal[u].left)
    /\ UNCHANGED <<edition, socket, parentBox, actor, mailbox, stocks, askVars, stream,
                   source, raced, unwatched>>

PostStopEnds(u) ==
    /\ actor[u] = "stopping" /\ removal[u] = NoRemoval
    /\ actor' = [actor EXCEPT ![u] = "stopped"]
    /\ UNCHANGED <<edition, socket, parentBox, mailbox, removal, stocks, askVars, stocksMap,
                   stream, source, raced, lost, unwatched>>

\* Nothing in the application sends UnwatchStocks; its protocol allows it.
SendUnwatchStocks(u, gone) ==
    /\ actor[u] = "running"
    /\ unwatched < MaxUnwatch
    /\ gone # {}
    /\ unwatched' = unwatched + 1
    /\ Tell(u, UnwatchStocks(gone))
    /\ UNCHANGED <<edition, socket, parentBox, actor, removal, stocks, askVars, stocksMap,
                   stream, source, raced, lost>>

\* Mutant of stockFor: a new Stock for every request in both editions.
AlwaysNewStock(s) == stocks[s] + 1

\* StocksActor: the Java map computes a new Stock each time, the Scala map
\* creates one for the first request of a symbol.
stockFor(s) == IF edition = "java" \/ stocks[s] = 0 THEN stocks[s] + 1 ELSE stocks[s]

GetStocks(a) ==
    /\ answer[a] = "asked"
    /\ stocks' = [s \in Symbol |-> IF s \in symbols[a] THEN stockFor(s) ELSE stocks[s]]
    /\ source' = [source EXCEPT ![a] =
         [s \in Symbol |-> IF s \in symbols[a] THEN stockFor(s) ELSE 0]]
    /\ answer' = [answer EXCEPT ![a] = "answered"]
    /\ UNCHANGED <<edition, userVars, asker, symbols, atStock, snapshot, stocksMap, stream,
                   raced, lost, unwatched>>

\* The ask fails after 5 ms (Java) or 50 ms (Scala): its stocks are not added.
\* StocksActor serves the request all the same and the answer is dropped.
AskTimeout(a) ==
    /\ answer[a] = "asked"
    /\ answer' = [answer EXCEPT ![a] = "timedOut"]
    /\ stocks' = [s \in Symbol |-> IF s \in symbols[a] THEN stockFor(s) ELSE stocks[s]]
    /\ UNCHANGED <<edition, userVars, asker, symbols, atStock, snapshot, stocksMap, stream,
                   source, raced, lost, unwatched>>

-----------------------------------------------------------------------------
(* The callback of addStocks, on a thread of its own *)

Rest(a, s) ==
    /\ symbols' = [symbols EXCEPT ![a] = @ \ {s}]
    /\ answer' = [answer EXCEPT ![a] = IF symbols[a] = {s} THEN "done" ELSE "answered"]

\* Mutant of MustAdd: every stock is added, watched or not.
AlwaysAdd(u, s) == TRUE

MustAdd(u, s) == stocksMap[u][s] = None

\* Whether the symbol is watched is read before its stream is started.
CheckStock(a, s) ==
    LET u == asker[a] IN
    /\ answer[a] = "answered"
    /\ s \in symbols[a]
    /\ IF MustAdd(u, s)
       THEN /\ atStock' = [atStock EXCEPT ![a] = s]
            /\ answer' = [answer EXCEPT ![a] = "adding"]
            /\ raced' = [raced EXCEPT ![u] =
                 IF \E b \in Ask \ {a} : asker[b] = u /\ answer[b] = "adding"
                 THEN @ \cup {s} \cup {atStock[b] : b \in {c \in Ask \ {a} :
                                asker[c] = u /\ answer[c] = "adding"}}
                 ELSE @]
            /\ UNCHANGED symbols
       ELSE Rest(a, s) /\ UNCHANGED <<atStock, raced>>
    /\ UNCHANGED <<edition, userVars, stocks, asker, snapshot, stocksMap, stream, source,
                   lost, unwatched>>

\* addStock runs the graph, then reads stocksMap to put the switch into it.
RunStream(a) ==
    LET s == atStock[a] IN
    /\ answer[a] = "adding"
    /\ stream[a][s] = "none"
    /\ stream' = [stream EXCEPT ![a][s] = "running"]
    /\ snapshot' = [snapshot EXCEPT ![a] = stocksMap[asker[a]]]
    /\ UNCHANGED <<edition, userVars, stocks, asker, symbols, answer, atStock, stocksMap,
                   source, raced, lost, unwatched>>

PutSwitch(a) ==
    LET s == atStock[a]
        u == asker[a]
    IN
    /\ answer[a] = "adding"
    /\ stream[a][s] # "none"
    /\ WriteMap(u, snapshot[a], s, a)
    /\ lost' = lost \cup Overwritten(u)
    /\ snapshot' = [snapshot EXCEPT ![a] = NoSwitch]
    /\ atStock' = [atStock EXCEPT ![a] = None]
    /\ Rest(a, s)
    /\ UNCHANGED <<edition, userVars, stocks, asker, stream, source, raced, unwatched>>

\* Mutant of SlowSubscriber: nothing ends a stream that nobody reads.
NoBackpressureTimeout(a, s) == FALSE

\* The Scala flow has a backpressureTimeout of a second; the Java flow has not.
SlowSubscriber(a, s) == edition = "scala" /\ stream[a][s] = "running"

BackpressureTimeout(a, s) ==
    /\ SlowSubscriber(a, s)
    /\ stream' = [stream EXCEPT ![a][s] = "ended"]
    /\ UNCHANGED <<edition, userVars, stocks, askVars, stocksMap, source, raced, lost, unwatched>>

-----------------------------------------------------------------------------
Client(u) ==
    \/ \E sameOrigin \in BOOLEAN : ws(u, sameOrigin)
    \/ FlowTimeout(u)
    \/ Close(u)
    \/ \E s \in Symbol : jsonSink(u, s)
    \/ \E gone \in SUBSET Symbol : SendUnwatchStocks(u, gone)

UserActor(u) ==
    \/ HandleWatchStocks(u)
    \/ \E gone \in SUBSET Symbol : HandleUnwatchStocks(u, gone)
    \/ HandleInternalStop(u)
    \/ \E s \in Symbol : ShutdownStock(u, s) \/ NullSwitch(u, s)
    \/ ReadMap(u) \/ RemoveSwitch(u) \/ PostStopEnds(u)

Callback(a) == (\E s \in Symbol : CheckStock(a, s)) \/ RunStream(a) \/ PutSwitch(a)

Next ==
    \/ \E u \in User : Client(u) \/ UserActor(u)
    \/ Create
    \/ \E a \in Ask : GetStocks(a) \/ AskTimeout(a) \/ Callback(a)
    \/ \E a \in Ask, s \in Symbol : BackpressureTimeout(a, s)

Spec == Init /\ [][Next]_vars

\* The browser of a stream is gone: its buffer fills and never drains.
Gone(a) == asker[a] # None /\ socket[asker[a]] \in {"closed", "failed"}

\* Actors and callbacks run when they have work, and the clock of the
\* backpressure timeout runs for a stream whose browser is gone.
Fairness ==
    /\ \A u \in User : WF_vars(UserActor(u))
    /\ WF_vars(Create)
    /\ \A a \in Ask : WF_vars(Callback(a))
    /\ \A a \in Ask, s \in Symbol : WF_vars(Gone(a) /\ BackpressureTimeout(a, s))

FairSpec == Spec /\ Fairness

-----------------------------------------------------------------------------
(* Properties *)

RunningStreams(u, s) == {a \in Ask : asker[a] = u /\ stream[a][s] = "running"}

\* A symbol is streamed twice to one browser only when two callbacks of its
\* actor were adding stocks at once, or when the switch of one of the two was
\* dropped from the map by a write that did not know it, of a callback or of
\* unwatchStocks: containsKey guards everything that is sequential.
DuplicatesComeFromRaces ==
    \A u \in User, s \in Symbol :
        Cardinality(RunningStreams(u, s)) > 1 =>
            s \in raced[u] \/ \E a \in RunningStreams(u, s) : <<a, s>> \in lost

\* A callback has started the stream and not stored its switch yet.
Adding(a, s) == answer[a] = "adding" /\ atStock[a] = s

\* Every stream can be stopped: its switch is in the map of its actor, is about
\* to be put there, or has been overwritten by another callback or by a removal
\* that did not shut it down.
StreamsAreControlled ==
    \A a \in Ask, s \in Symbol : stream[a][s] = "running" =>
        stocksMap[asker[a]][s] = a \/ Adding(a, s) \/ <<a, s>> \in lost

\* In Scala all browsers that watch a symbol watch the same Stock.
StocksAreShared ==
    edition = "scala" =>
        \A a, b \in Ask, s \in Symbol :
            source[a][s] # 0 /\ source[b][s] # 0 => source[a][s] = source[b][s]

\* UserActor.java:124: when the flow shuts down, its actor stops too.
ActorStopsWithFlow == \A u \in User : socket[u] = "closed" ~> actor[u] = "stopped"

StreamsEnd(e) ==
    \A a \in Ask, s \in Symbol :
        (edition = e /\ Gone(a) /\ stream[a][s] = "running") ~> (stream[a][s] = "ended")

\* The backpressure timeout ends what PostStop cannot: streams started late,
\* twice, or for a request that was refused.
ScalaStreamsEnd == StreamsEnd("scala")

\* UserActor.java:187 promises the same cleanup for the Java edition.
JavaStreamsEnd == StreamsEnd("java")

\* UserActor and StocksActor: every running stream can be stopped, and in Scala
\* all who watch a symbol watch one Stock.
StreamsOK == TypeOK /\ StreamsAreControlled /\ StocksAreShared
=============================================================================
