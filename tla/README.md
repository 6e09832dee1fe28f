# Verification of play-samples

play-samples is a collection of small Play applications. Most of them show one
feature and keep no state; some keep state that actors, threads or requests share
while nobody looks. This project models those in TLA+, checks the models with TLC on
small instances and proves most of their properties with TLAPS for every value of
the constants.

## Inventory

| part | state it keeps | operations | what is hard |
|---|---|---|---|
| session cache (`play-scala-secure-session-example`) | a replicated map of secret keys; per node: an actor, its children, their timers | create, lookup, put, delete; timer; gossip | three mailboxes per node, stale messages, timers racing refreshes, crashes |
| Excel import (`play-java-starter-example`) | one service: a processing flag, a token, counters, a set of codes; per import a listener with two lists | singleRead, cancelRead, the callbacks of the parser | shared fields without a lock, cancellation, batches at their limit |
| stock ticker (`play-java-websocket-example`, `play-scala-websocket-example`) | per socket an actor with a map of kill switches; one map of stocks | connect, watch, add a symbol, unwatch, close | callbacks on other threads write actor state; asks time out; streams outlive sockets |
| word services (`play-java-starter-example`) | five MySQL tables behind `ModelRepository` | dictWordEn, saveXSArticleLink, saveChinaDailyArticleLink, updateChinaDailyArticleType, saveXSArticle, saveChinaDailyArticle | read, fetch pages for minutes, write back; several writes without a transaction |
| computer database (`play-java-ebean-example`, `play-scala-anorm-example`) | two tables | list, edit, create, save, update, delete | read-then-write in one pool, ids from a clock, two statements per page |
| post service (`play-java-rest-api-example`) | a table, a pool of threads, a circuit breaker | list, create, get, update | the answer (504) comes nine seconds before the commit; a breaker shared by calls that begin long before it trips |
| cluster counter (`play-java-akka-cluster-example`) | one integer in a cluster singleton | increment, get | an ask timeout says nothing about the increment; relocation forgets |
| chat rooms (`play-scala-chatroom-example`, `play-java-chatroom-example`) | a merge hub and a broadcast hub; the page and its socket | load, connect, send, show, close | who joins, lags or leaves while others talk; a full buffer stops everybody |
| forms (`play-java-forms-example`, `play-scala-forms-example`) | a list in a singleton controller | list, create | a list without a lock |
| page scripts (`play-java-streaming-example/public/javascripts/jquery-3.2.0.slim.js`) | per page: lists of callbacks, deferreds, `readyWait`; per element: handlers, data, a queue, whether a script ran | Callbacks, Deferred, then, when, ready; on, one, off, trigger; append, remove, clone; data, show, toggleClass, queue, promise | every callback may call every method again, while the loop that called it is under way |
| session web layer, encryption | cookies in the browser | login, home, logout | order of login, logout and expiry over several tabs |
| file uploads | temporary files | upload | files nobody removes |
| the rest (Slick, JPA, streaming, gRPC, TLS, dependency injection, telemetry, logging, hello world, starter utilities) | none, or one atomic variable of a library | one answer for one request | nothing that depends on the order of events |

Parts interact by messages (the actors of the session cache, of the ticker and of
the counter; the sockets of the chat), by plain shared fields (Excel import,
forms), by rows of a database (words, computers, posts) and by functions that call
back into their caller (page scripts). No two applications share anything; within an
application, a module holds all its actors and threads. `Services` puts four small
applications into one model only to check them in one run: each of its behaviours is
of one of them.

Page scripts: the applications ship the scripts their pages load. Most are a few lines;
`app.js` of the chat is half of the chat, and is modelled with it. The one large script
is jQuery 3.2.0 slim, which the streaming pages load. It is vendored, not written
here; it is modelled because it is the code these pages run, the largest that
keeps state, and the one where re-entrance matters most. Its modules are independent of
those about the applications.

`PROJECT.json` lists each part with its sources and, under `hazards`, the lines
where the code is hard to test.

## Modules

| module | models | instance for TLC | proofs |
|---|---|---|---|
| `SessionCache` | session cache, replicator, expiration actors | `SessionCacheMC` | `SessionCacheProofs` |
| `ExcelImport` | service, controller and listener of the import | `ExcelImportMC` | `ExcelImportProofs` |
| `StockTicker` | both editions of the ticker | `StockTickerMC` | `StockTickerProofs` |
| `WordServices` | word services over the repositories | `WordServicesMC` | `ServicesProofs` |
| `Computers` | both editions of the computer database | `ComputersMC` | `ComputersProofs` |
| `PostService` | posts, their pool and their circuit breaker | `Services` | `ServicesProofs` |
| `ClusterCounter` | the counter and those who ask it | `Services` | `ServicesProofs` |
| `ChatRoom` | page, sockets and hubs of the chat | `Services` | `ServicesProofs` |
| `Widgets` | the list of the forms | `Services` | `ServicesProofs` |
| `Callbacks` | jQuery.Callbacks: operators on the record of a list | - | `DeferredsProofs`, `CallbacksProofs` |
| `Deferreds` | jQuery.Deferred, then, pipe, when, ready, over `Callbacks` | `DeferredsMC` | `DeferredsProofs` |
| `DeferredsSpec` | what `Deferreds` promises, and its refinement mapping | `DeferredsMC` | `DeferredsProofs`, `CallbacksProofs` |
| `Promises` | abstract: the contract of Promises/A+ that `then` implements | through `DeferredsSpec` | `DeferredsProofs` |
| `Elements` | what jQuery keeps on nodes: operators on one record | - | - |
| `Dom` | a page whose handlers, scripts and queued functions call jQuery | `DomMC` | - |
| `DomSpec` | what `Dom` promises | `DomMC` | `DomProofs` |

Each module names its constants and bounds at its head, has one action per handler
or atomic step of the code, then its properties. Definitions under `\* mutant:` are
never used by a specification: each is a plausible bug in the definition below
it, kept to show that a property notices the bug.

### SessionCache

`mailbox[n]` is the mailbox of the SessionCache actor of node `n`; `replicatorBox[n]` that
of its local replicator; `children`, `child`, `refreshBox` and `timer` are the
`children` map of the behavior, the child actors, their mailboxes and their
scheduled Evicts. `HandleX` is the case of `X` in the behavior;
`HandleRefreshSession`, `TimerFires` and `PostStop` are the child;
`ApplyPut`, `ApplyRemove` and `AnswerGet` are the replicator.

The replicated map is abstracted to dots: a put adds a dot to `live` and to
`seen`; a remove drops the live dots of the node; `Gossip(m, n, k)` merges all that
`m` knows of `k` at once, as the observed-remove map does. A secret key is its
presence, the value of a put its number (`NextValue`). Spawning an actor and running its `setup` is one step. Timers have no
clock: a scheduled one may fire at any time. A crash restarts a node with
nothing. `InternalUpdateResponse` changes nothing and is not sent. Two deletes of a
session through one node need a put between them, which bounds mailboxes.

Fairness is weak fairness of handlers, of the replicator, of the children, of
timers and of each gossip link: a dispatcher runs every actor that has mail, the
scheduler fires every timer, the replicator gossips for ever. Clients and crashes
have none. `AskTimeout` has none either, so `LookupIsAnswered` does not owe its
answer to the 300 ms timeout.

Runs:
* `session_actors`: one node, all operations, two lookups, two puts, one crash.
  A key outlives its actor in `children` until the termination is reported, so a
  name is never reused too early; reports are exact; a stopped child leaves no timer.
* `session_store`: two nodes without crashes. No node holds an entry that nothing
  will evict; the node that created a session finds it until it ends and never
  after a logout there; lookups are answered; all sessions end everywhere.
* `session_reap_crash` refutes a sentence of the documentation: the timers of a
  crashed node guard entries that survive it.

What the model also shows: a timer is local to a node while sessions are used on all,
so a session in use elsewhere expires; a removal reaches other nodes by gossip
only, so a logged out session is found there for a while.

Two nodes are enough for one to lag behind another, one session because sessions do
not interact (every message and map entry is of one key); the two lookups meet in
one mailbox and in one `replicatorBox`.

### ExcelImport

One action is one access to a field of the shared `Data1Service`; the fields of
a listener change with the access that follows them. `SetProcess`, `SetProcessing`,
`InitCounters` and `InitUnique` are `start`; `Invoke` and the actions up to
`Join` are `invoke`; `AllAnalysed` is `doAfterAllAnalysed`; `CancelRead` is the
controller's check and stop. `InitCounters` resets its four counters in one step, which the code
does one by one; the counts of imports that overlap are wrong in either case. A row is its sha1 code and whether it is correct. Tokens
are seconds, and two imports may start in one.

Runs:
* `excel_imports`: two imports and one cancel, sheets with a repeated code, a
  wrong row, and one row too many, a batch of two. A row that was handled is
  persisted once when its import ends; nothing is stored of a sheet
  over the limit, even when another request raises the flag this sheet has
  lowered; duplicates and counts are right for imports that nobody interrupts.
* `excel_refusal`: after an import has ended the next one is refused, because only
  a cancel clears the flag.

What the model shows and no property states, as no line of the code promises otherwise:
tokens have the resolution of a second, so that a cancel can name two imports; two imports can both pass the check of the flag; a cancelled import goes on
under the flag of the next one; counters lose increments between two imports; a
cancelled import still persists the rows it has buffered.

### StockTicker

The variable `edition`, chosen in `Init`, tells the Java code from the Scala
code. An `Ask` is a call of `addStocks` with the callback that follows it on another
thread: `GetStocks` is StocksActor, `CheckStock`, `RunStream` and `PutSwitch` are the
steps of the callback. `unwatchStocks` runs on the thread of the actor and goes over its
symbols beside those callbacks: for each it looks up the switch and shuts the stream down
(`ShutdownStock`, or `NullSwitch`, where the Java edition fails), reads the map (`ReadMap`) and
writes it without the symbol (`RemoveSwitch`); `removal` is where it is. An actor that has
stopped still runs this in PostStop, until `PostStopEnds`. The Scala edition replaces an immutable
map held in a `var`, so that whoever writes may undo what others have written since
they read (`WriteMap`); of the Java edition's `HashMap` either that or the change alone may
be what is left of two accesses that met. An actor handles no message while it goes over symbols.
`SlowSubscriber` and `BackpressureTimeout` are the cleanup of the Scala edition. Nobody
in the repository sends `UnwatchStocks`; it is a message of the protocol and a
bounded input. Actors follow Akka 2.6.5.

Fairness: actors, callbacks, streams and the backpressure timer run; browsers do
not have to do anything.

Runs: `stock_ticker` (one browser, two symbols, two asks, one unwatch, both editions; one
default symbol, so that the page's own symbol and another one meet):
two streams of one symbol only come from callbacks that met, or from a switch that somebody
overwrote; a running stream has a kill switch in the map or about to be put there, unless
a callback or a removal that did not know it has overwritten it; Scala browsers share a stock, an
actor stops after its socket, and Scala streams end. `stock_ticker_cleanup`
refutes the comment on automatic cleanup for the Java edition.
One browser is enough for races between its callbacks and its actor; two symbols
make a map update lose an entry of another key. An answer of StocksActor that comes
after 5 ms (Java) leaves its stocks unwatched and nobody is told: `AskTimeout` does
that, and no line denies it.

### WordServices

A request lists rows, fetches one page per row (`Fetch...`, a choice among
`DictPages`, `ChinaPages`, `XsPages`, or an exception) and then writes. `Update...`,
`Save...` are the writes, each atomic as a JDBC batch is; a duplicate key makes the
batch fail (`Insertable`). Texts are reduced to the classes `ArticleType` tells
apart; HTML parsing is a choice of results. `Crash` loses what a request holds.

The calls about articles list links by whatever filter they are given: `Matches` has the three
fields a filter may have, source, type and indexes. Sentences have a foreign key to their
entries (`EntriesStored`, `conf/evolutions/word/1.sql`), so the batch of a call that
wrote its sentences without its entries would fail. The history `was` of an article is the type
that its link had when it was listed.

Left out: `remove`, `removeAll`, `insert`, `pagedList` and `sqlUpdate` have no
caller; `loadXiaShuoArticle`, `loadChinaDailyArticle` and `listWordEn` write nothing.
`saveChinaDailyArticleMulti` visits its pages and returns without a write (its `saveAll` is
commented out), or throws when a page cannot be read. `@Transactional` changes nothing that can be
observed, as Ebean commits every batch by itself.

Run `words`: three calls of any kind, with crashes and deletions. Calls about words
and calls about articles share no table, so the constraint `OneFamily` does not
mix them. A call that is refused is refused at its entries because of words stored before,
and its sentences never are, neither by a key nor by the foreign key; articles are
stored once per call and link titles once per list; a stored article has the title of its
link, and its link the type it was listed with, unless it was listed before it was
classified; what was deleted or classified meanwhile stays so. A call repeated
after a crash between two of its writes is refused for ever, a repeated
`saveXSArticle` saves its articles again, and rows beyond `MAX_PAGE_SIZE` are never
listed: no line promises otherwise.

### Computers

Every repository call is a task of `database.dispatcher`: `Runs` begins it on a
free thread, `GoesOn` continues it on the thread it kept between two statements.
Ebean updates and deletes are a read and a write (`FindToUpdate`, `UpdateFound`),
and an Ebean update writes only the columns that differ from what it read
(`Merged`); Anorm uses one statement. Ebean ids are the clock (`InsertNow`, `Tick`),
Anorm's a sequence. An Ebean page is read while it is rendered, number first;
Anorm reads the rows first. Columns are reduced to two, one with a foreign key;
sorting and filtering are left out, and pages follow ids. Statements are atomic.

Fairness is strong fairness of each request's steps: the pool takes its tasks in
their order, so a task is not passed over for ever. Nobody has to ask.

Run `computers`: two places for requests, one request after another without end, two ids, a
pool of one thread, pages of one row. Every answer comes although the pool has
one thread; Anorm rows are the form of one person; ids are not reused, save for
two Ebean inserts in one millisecond; inserts never overwrite; a page read while
nobody writes offers a next page exactly when there is one. Two simultaneous
requests are the races of the code (each holds at most one row it read before), and
their succession gives every history of the table. With Ebean two updates can
mix their columns, and a page read during a write can be wrong: both are
in the model, and no line denies them.

An edit of a computer that was deleted meanwhile answers 500 with Ebean.

### PostService

A request waits in `pool` for a thread of `post.repository`; `Starts` takes it out. `ListPosts`
and `Create` are done at once; `Enter` is `Failsafe.get`, which lets a call
into the breaker or throws (503); `Lookup` always throws, as the code does; `Modify`
finds the row and falls asleep, `Wake` is ten seconds later. `TimeOut` is the
second after which `PostAction` answers 504 while the task goes on. Of time only the
order of these two is kept: who wakes has been answered. Whether Failsafe's delay has
passed is a choice at every call. `breaker` is external: failure threshold one, success
threshold three, as `JPAPostRepository` configures it.

A success counts when it ends: calls admitted before the trip count for the half-open
breaker, in the code and in the model. An update of an absent post is answered 504 and not
404, as it sleeps first. Fairness: the threads are not all idle while one has
something to do, and timers fire. One request at most is a list or a create, and
requests are numbered as they come.

### ClusterCounter

`ask` is an ask of `HomeController` with its message and its reply: they may be lost, come
late, or find that the singleton has moved (`Relocate`, which starts at zero as
`CounterActor` documents). An increment whose page showed an error counts.

### ChatRoom

`browser` is the page of `app.js` with the `readyState` of its socket; `uplink` and
`downlink` are the two directions of the socket, `said`, `head` and `offset` the two hubs.
The hubs are Akka's and external: a consumer begins with the oldest message that is
kept, what nobody was there to take waits for the next one, and a full buffer (`HubBuffer`, two here, stands for 256) stops the producers until
the slowest consumer has taken one. `Close` may happen at any time on either side and loses
what is on its way. Texts sent after the close vanish, and nothing tells the user.
Fairness: hubs, sockets and open pages go on; nobody has to load, send or leave.

### Widgets

The controller adds to an `ArrayList` without a lock. `.travis.yml` builds with Java 8, and some
examples with 11, whose `add` differ: Java 8 makes room, then takes the place by writing the
size (`elementData[size++] = e`) and stores the element; the later ones store the element and then write the
size, and grow the array when they find it full. `jdk` is chosen in `WidgetInit`; the steps are
the accesses of `add` and `grow` to the two fields of the list (`ReadSize`, `CheckRoom`, `ReadArray`,
`ReadIndex`, `ReadLength`, `CopyArray`, `Publish`, `WriteSize`, `Store`, `OutOfBounds`). The JDK is
external. `arrays` are all the arrays there have been, as an add may write to one that was replaced.

Racing adds lose widgets and can shrink the list; adds that race while the array is full may leave
a hole in it for ever, or fail. The properties say what holds all the same: what did not
race is there, and a place nobody has written is met only where an add of Java 8 writes next
or where adds have met over a full array (`crowded`). Copying an array is one step, and the check of
`modCount` by the iterator of the page is left out: a page is what `Shown` says at one moment.
`Capacity` is 4 in the run, instead of the 8 that Guava's `newArrayList` gives three elements,
so that three adds fill it; the proofs have any.

Run `services`: four requests over two threads, which is what a half-open breaker needs to
see three successes; three asks and one move; three adds to a list with
room for one more; two pages, two texts each.

### Callbacks, Deferreds

`Callbacks` is a record for the variables of the closure of `jQuery.Callbacks` and an
operator for each method. `Deferreds` has the lists of the page and of its deferreds.
JavaScript runs to completion but is re-entrant: `stack` holds the calls under way,
innermost last, and a step is one turn of the innermost, in which a
function of the page may call any method. `tasks` are the timers of `then`. `page` is
what the page uses; functions are numbers, values are reduced to who made them, an exception is
a way to return. `seen` is history.

Run `deferreds`: seven kinds of pages with three or four calls: a list of the page with every
set of options, a deferred with callbacks, `then`, `progress`, `pipe`, `when`, `ready`. Three
calls let a callback settle or change the list it is called from; the fourth comes after.
`ImplementsPromises` is the refinement: outcomes, reactions asked for and reactions run
are mapped to `Promises`, whose specification includes that every reaction runs.

Fairness: a call under way goes on (`Turn`), and timers and document events come however
often the page does something first: strong fairness, as a browser takes the tasks of its
queue in turn.

Seen on the way, no line denies it: an exception in a `done` callback leaves `firing` true
for ever, so later callbacks of that list are never called, while `then` is not
affected; `empty()` within the loop makes later adds be passed over; promises resolved
with one another in a circle are unwrapped for ever (`Knowns` excludes the circle).
Left out: functions of `pipe` that return their own promise, foreign thenables as arguments
of `when`, with the exception that adopting one may throw (`Adopt`), releases of holds nobody has. A page makes no more deferreds than there are
(`Unborn # {}` guards the calls that make one). The throwaway deferred of an adoption is `Nobody`. The functions given to a promise
that adopts run at once; in the code their outermost call goes through a timer (`CallHandler`).

### Elements, Dom

`Elements` is one record `D` (the tree, and what jQuery keeps on its nodes) with an
operator per method; `Dom` interleaves the calls of a page with dispatches of
events, evaluation of scripts and runs of queued functions, again on a `stack`. `Document`
stands for document and body; there is one key of data, a selector matches every element,
siblings have no order, and content put beside a node without a parent is left without one, not in a
fragment (`Put`). A handler is told from others by its id, so two handlers never share a guid. Namespaces, links, check boxes, listeners that are not
jQuery's, the window and mouseleave are left out; pages with queues have no clones.

Run `dom`: twelve kinds of pages with three or four calls, also from inside handlers,
scripts and queued functions. No liveness: a page may stop calling.

Seen on the way: jQuery 7516 says that the document has its capturing handler "while someone wants
focusin/focusout", and keeps it longer. A delegated "focus" handler is kept under
focusin; `event.remove` looks up the teardown of the type asked for (5116) before it turns to the type
kept (5117), so `off("focus", selector)`, and `one` with a selector, take the last such handler and count nobody
down; `cleanData` asks for focusin and does not match the handler. `leaked` counts the elements
this happened to: each is counted for ever. `off()` without a type asks for the type kept, and is right. `FocusCounted`
says that this is all: whoever wants focusin is counted, and nobody is counted down twice. A handler of `one()` can run twice when an outer dispatch had taken
its list; a script whose data was cleaned runs again when it is inserted again;
scripts that an earlier script moves away before their turn never run; `dequeue` and
`clearQueue` by hand let two functions of a queue run at a time; `promise()` of an
element that was removed never resolves; an element that a style sheet hides and that was
shown before it was inserted stays hidden.

### Bounds in general

Deadlock is not checked in any run: in all these systems requests are finite or may
stop coming. Every bound is named in the head of its module and given in the `.cfg` or in
the MC module; those that the proofs cover are no bounds of the results.

## What each run checks

A property of a run is often a conjunction of named parts that belong together; the
parts are defined, commented and, where possible, proved one by one. Each has one or
more mutants in `PROJECT.json`, in general one for every part.

| run | property | its parts, or what it says |
|---|---|---|
| `session_actors` | `SpawnNameIsFree` | no child is spawned under a name in use |
| | `ActorsAccounted` | `TypeOK`, `TerminationReportedOnce`, `NoOrphanTimer` |
| `session_store` | `LiveEntryIsGuarded` | an entry that exists will be evicted by somebody |
| | `HomeIsRight` | `NoReplayAtHome`, `AvailableAtHome` |
| | `LookupIsAnswered`, `EventuallyReaped` | liveness |
| `session_reap_crash` | `EventuallyReaped` | violated: a crash takes the timers along |
| `excel_imports` | `RowsSavedOnce` | a handled row is stored once |
| | `OversizedSavesNothing` | nothing of a sheet over the limit is stored |
| | `ExactWhenAlone` | `TypeOK`, `DedupedWhenAlone`, `CountsExactWhenAlone` |
| `excel_refusal` | `RefusedOnlyWhileRunning` | violated: an import that ended still refuses the next |
| `stock_ticker` | `StreamsOK` | `TypeOK`, `StreamsAreControlled`, `StocksAreShared` |
| | `DuplicatesComeFromRaces` | two streams of a symbol need two callbacks that met, or a switch that was overwritten |
| | `ActorStopsWithFlow`, `ScalaStreamsEnd` | liveness |
| `stock_ticker_cleanup` | `JavaStreamsEnd` | violated: streams of the Java edition outlive the browser |
| `words` | `StoredTogether` | `TypeOK`, `ArticlesFollowLinks` |
| | `RefusedForStoredWords` | `SentencesAreNeverRefused`, `OnlyStoredWordsRefuse` |
| | `SavedOnce` | `ArticlesSavedOnce`, `XsTitlesOnce` |
| | `ChangesStay` | `DeletedStaysDeleted`, `ClassifiedStay` |
| `computers` | `PagesOK` | `TypeOK`, `PagesLinkUp` |
| | `RowsAreForms` | a row written is the form of one request |
| | `RowsKeepTheirIds` | `IdsAreNeverReused`, `OnlyUpdatesChangeRows` |
| | `EveryRequestIsAnswered` | liveness |
| `services` | `PostsSafe` | `PostsOK`, `RefusedWroteNothing` |
| | `BreakerNeedsThree` | a tripped breaker closes after three updates have ended and no lookup failed meanwhile |
| | `CounterSafe` | `CounterOK`, `NumbersOnce`, `LaterSeesMore` |
| | `WidgetsSafe` | `HolesPass`, `AddedWhenAlone` |
| | `ChatSafe` | `ChatOK`, `NeverTooEarly`, `OwnOrder` |
| | `OneConversation` | all pages show parts of one sequence |
| | `TasksEnd`, `EveryoneHears` | liveness |
| `deferreds` | `CallbacksRun` | `TypeOK`, `CallbacksInOrder`, `NeverTwice`, `NobodyPassedOver`, `OnceIsOnce`, `ProgressStops` |
| | `ThenFollows`, `WhenFollows` | outcome of `then`; outcome and time of `when` |
| | `ReadyInTime` | `ReadyComes`, `ReadyIsNotEarly` |
| | `ImplementsPromises` | the refinement to `Promises` |
| `dom` | `HandlersKept` | `TypeOK`, `ListenersMatch`, `FocusCounted`, `DelegatesFirst` |
| | `EventsArrive` | `NobodyMissed`, `TriggeredOnce`, `OneHasGone`, `EnteredOnce` |
| | `DataKept` | `NothingKept`, `DataStays` |
| | `LooksReturn` | `LooksAsAsked`, `ShowRestores`, `ClassesReturn` |
| | `ScriptsRunOnce` | a script runs once, however it is moved |
| | `QueuesRun` | `OneAtATime`, `PromiseInTime`, `QueueInOrder` |

## Proofs

`SessionCacheProofs`: `TypeCorrect` is `TypeOK`, which is inductive. `ActorInv`
strengthens three properties at once: for every node and key, the key is in
`children` if and only if there is an actor or exactly one report of its
termination; a stopping actor has been dropped by nobody; a timer or refresh belongs
to an actor. None of the three is inductive alone: that a name is free at
a spawn needs that reports are exact, which needs that nothing is reported of a
living actor. From it follow `SpawnIsSafe`, `ReportsAreExact` and `TimersHaveOwners`.

The second part of `SessionCacheProofs` is about the store. `HomeInv` says of each session
that its entry moves forward only: it is in the mailbox of its node, then in the box of the replicator, then
in the map of the node, from which the maps of the others are copies; what ends it (a timer,
an Evict, a remove) is always behind it, in the same box or an earlier one; and
lookups and removes in one mailbox keep the order in which they were sent. Boxes are sequences of any
length, so the argument is about order (`Precedes`, `Behind`), and a step is
reduced to what it sends and takes (`Sent`, `Taken`). `HomeIsAlwaysRight` and
`LiveEntriesAreGuarded` follow. They hold under `Calm`, which
is what the run `session_store` checks: no process dies, and only the calls the
controllers make. With a crash the second is false, as `session_reap_crash` shows.

`ExcelImportProofs`: `ListenerInv` says where every row of an import is:
ahead, at hand, in exactly one of the two lists, or saved once; and that the lists
of an oversized sheet stay empty, as its first row ends it or is the only one
handled before the range check. The shared fields do not occur in it, which is
the argument: whatever other requests write into them, `Frame` lemmas carry
the invariant over. `ListenersConsistent` proves it, `RowsAreSavedOnce` and
`OversizedIsRefused` follow. For an import that no other one overlaps the shared fields do
matter: `Ends` says what they are at each step of it (the counters are what
its rows made of them, the set of codes is that of the rows it took), and `AloneInv` is
`TypeOK`, `ListenerInv` and `Ends`. The flag of "alone" never comes back once lost, so
the steps of others need no more than `LoneImports`; `LoneImportsAreExact` is `ExactWhenAlone`.

`ComputersProofs`: `Inv` adds to the types what a pending request holds
(`RequestInv`: an accepted form, an id people ask for, and, for an Ebean update that
goes on, the row it found) and `FreshIds`, that ids the sequence has not given have no
row. Without the first a write might not be a row; without the second an Anorm insert might
overwrite one. `InvStep` shows that `Inv` is inductive and that every step is a
`RowsChange`: nothing, one delete, one update of a row that is there, or one insert under
`nextId`. The three action properties follow from `RowsChange` alone:
`RowsAreAlwaysForms`, `IdsServeOnce`, `InsertsNeverOverwrite`, beside `TypeCorrect`.
`PageInv` is about lists: the two statements of a list that nobody wrote beside read one table
(`quiet`), whichever the edition reads first. That links are right is then arithmetic about ranks:
the rows of a page are those ranked between two bounds (`PageOf`), some row has every
rank up to the number of rows (by induction over ranks), so there are rows after
the page if and only if their number says so. `PagesAreOfOneTable`.

`StockTickerProofs`: `TickerInv` adds to the types where an ask is (`InStage`: the streams it
has still to start are not there, and who is adding a stock has it among its symbols),
where a removal is (`Held`: the switch it shut down is of a stream that has ended, so that
dropping it loses nothing), and `Claim`: an ask has a symbol to itself when it is adding it or streams it with its
switch not lost. Two asks of one actor may claim one symbol only if that is noted in `raced`
(`RacesNoted`): `DuplicatesComeFromRaces` is not inductive, because when the
second stream starts nobody looks at the first again. When a claim begins, `CheckStock` has
read no switch, so by `StreamsAreControlled` no stream of the symbol is there unless it is
lost or its ask is still adding, and then the race is noted. A write of the map by a callback or a removal
that read it too early puts the switches it drops into `lost`, and gives nobody a claim.

`ServicesProofs`, posts: `PostInv` says for each request where it is (in the pool exactly
once, in the breaker, or ended) and what that implies of its answer, and bounds `streak` from
below by the successes of a half-open breaker. From it follow that a 503 has written
nothing, as its task has ended without a write, and that three successes close the breaker.

Counter: `CounterInv` relates every number in a reply to the value it was: at most
the value in this era, different for different increments, at least what was
answered before it was asked. The last needs that asks know only answers of the past.

Widgets: `WidgetInv` has a part for the list and one for those who met nobody. Unless adds have met
over a full array, every place below the size, and below every index that an add has read, is
written or is about to be by an add of Java 8, and whoever writes has the array of the list
(`NoGaps`). An add that is alone finds nothing changed since it read it (`Undisturbed`), and once it has ended its
place is kept (`Keeps`): in the list, in every array an add under way has read, and below
every index and every length it has computed, so that neither a store nor a copy can take it away.

Chat: `ChatInv` follows the messages: those of one browser are numbered in their order
through `uplink` and `said` (`Ordered`); what a page shows, and then what is on its way to it,
is `said` from where it came in up to its offset (`Follows`); offsets are between
`head` and the end (`Buffered`), so that nothing a consumer needs is dropped.
`Advanced`, a minimum over the consumers, is shown to stay between them by well-founded
choice.

`ServicesProofs` also has the word services: `WordInv` says for each call what it holds relative to the tables: a
`dictWordEn` past its entries owns the words it writes (`LooksUp`, `Claims`), a classification
carries links as they are but for the type it decides (`Classifies`), rows and articles agree with
their links up to what was not classified when they were listed (`ArticlesFollowLinks`, `Behind`), collected titles
are distinct and stored up to where the call is (`Collects`), and `saveXSArticle` has stored all or nothing of
every round but the last (`Rounds`). Tables are sets and sequences of any size and
pages repeat whatever they like, so `StoredTogetherAlways`, `RefusedForStoredWordsAlways`,
`SavedOnceAlways` and `ChangesStayAlways` hold for every dictionary and every number of calls
and crashes.

`DomProofs`: `DomInv(D, c)` is about the record `D` after `c` calls and has a part per
concern: `LookInv` (the style of an element is what its last show or hide made of it, and what
`toggleClass` has taken is kept), `DataInv` (a clean node keeps nothing, an answer given
is the data stored), `QueueInv` (queues and the function that runs are in the order of
their calls, a running queue has its sentinel, and `promise()` counts the queues it
waits for). A method of `Elements` is composed of a few kinds of steps: one that changes nothing but the
tree (`PlainStep`), one that cleans a set of nodes (`CleanKeeps`), one that copies nodes
(`ClonedKeeps`), one that writes handlers (`EventStep`), marks (`MarkStep`), or one node's data,
looks, classes or queue (`DataStep`, `LooksStep`, `ClassStep`, `QueueStep`). Each
kind is shown once to keep `DomInv` and to change what was promised only as `Promised`
allows; the actions of `Dom` then follow from what they are composed of. The
theorems are `PageInvariant`, and from it `LooksComeBack`, `DataIsKept` and
`QueuesKeepOrder`, for every page, tree and number of calls.

Its second part proves `HandlersAreKept`, from `Inv` and `Tended`, which has
two halves. `Held` is about the record: `Tree` gives every node a rank above that of its
parent and a bound to all ranks, without which `Path`, a recursive function, would not be
known to be defined; `Orderly` is about one list of handlers (delegates first and counted,
everything in it of the type of the list, no handler twice); `Wired` says that there is a
listener for exactly the lists that are there, and that `attaches` is the number of elements
with focusin handlers and of those `leaked`, whichever of `off`, `one` and `cleanData` took the last handler (`WiredAt`). Each method of `Elements` is shown to keep `Held`.
The hard ones move content under a node: the tree stays a tree only because some set of nodes
that contains the node and all their parents (`UpTo`) has none of the content in it, which
is so because the method looked, or because the content was made by it; a clone is wired
handler by handler, through `AddEvent`. `Frames` is about the calls under way: the target of an
event was made, its path and the entries a dispatch has still to call are lists of nodes and
handlers. It is kept by pushing, popping and going on with a frame, which is all that `Dom`
does to its stack. `Without`, which takes a handler out of a list, is proved
to do so by induction over the length of the list.

Its third part proves `ScriptsRunAtMostOnce`. That a script has run does not keep it from
running: the mark `globalEval` does (`evaled`), or that it is in the page already when
content is built, which marks it. So `OnceRun` says that what has run is marked or in the
page, and a script that leaves the page is marked on its way (`Leaves`) or is cleaned (`upset`);
`Follows` is what every method of `Elements` is shown to do to marks, tree and scripts.
`ScriptInv` is about evaluations under way: each has left only scripts that have not
run or will not again (`Awaiting`), no script is left to two of them unless it is
marked, and all that is left is in the page, or nothing of it is and the
evaluation on top will find that out (`Known`, `Idle`): while it lasts nothing else happens.
Content inserted by a script that runs meanwhile is the hard step (`InsertedScripts`).

`DeferredsProofs`: `ListInv` says what calls what. An outcome is decided in three turns
of one loop: the first function of a list sets the state, the second disables the other list, the third
locks the list of progress. `Undecided`, `Deciding` and `Decided` are the cases;
while a deferred is being decided its loop is on top of the stack (`OnTop`), so every
other call finds all outcomes settled or open (`Calm`). That is the argument for each
method: what the page adds, removes, locks or fires from inside a callback meets no half-decided
outcome, and keeps `Calm`. `Loops` says that the loops under way are of different lists, `Frames`
what each call on the stack needs. `ListsStayArranged` proves it and `DeferredsAreTyped` follows.
`Without`, which is `remove`, is shown by induction over the list to keep the first functions in front:
the page has no hold of them.

`Keeps` is what every step does to outcomes: one that is there stays with its value, and the
deferred of `ready` is left alone (`Mine`). So `ReadyInv` can relate the count of holds
(`readyWait`), the flag, the events still to come and the lists of that deferred; a page that nobody
holds any more, with the document loaded, has had it settled or is about to. `ReadyComesInTime`
is `ReadyInTime`.

`ThenKeepsPromises` is the refinement: initial states of `Deferreds` map to those of `Promises`, and every step
to `Then`, `Settle`, `React` or a stutter. `ReactInv` carries it: for each deferred the reactions run
so far, those whose timers are set (`Owed`: each timer of the queue has the turn that the count before
it gives, and the outcome of the deferred) and those whose handlers wait (`Untold`, or none once they were
`Answered`) are in this order the ones asked for. What a step does to them is one of few things:
it runs the first timer, sets timers for all handlers of a list, or appends a handler.
The fairness of `Promises` is liveness and stays with the run.

`CallbacksProofs` proves `CallbacksAreRun`, which is `CallbacksRun`. Three invariants stand beside `ListInv`. `OwnInv`
is about the page's own list: nothing waits in its queue that anybody was told
(`Distinct`), all functions behind the loop have been told what it tells (`Passed`), and a list
with once has told one value only (`Single`). `OrderInv` is about the lists of an outcome and keeps a ledger:
of the functions added so far, those in the log were called, in the order in which they came, and the
others wait in this order in the list (`Ledger`), or in the frame of an `always` that is half
done (`AddsOK`, `Promised`). `ToldInv` says that the list of progress, once its deferred is decided, has an
empty queue and is locked, so that it tells only what it told before. `Aside` is for the steps that
do not touch the page's list.

Where a run checks several of these together, a theorem says so of the conjunction:
`ActorsAreAccounted`, `StreamsAreOK`, `RowsKeepIds`, `PostsAreSafe`, `CounterIsSafe`,
`WidgetsAreSafe`, `ChatIsSafe`.

Three lemmas recur. `Induct` is induction over the numbers of a given set, from the
well-foundedness of `<`; with it, facts about functions that are defined by
recursion over numbers (`Path`, folds over a sequence) are proved. A choice of a least element
comes from well-foundedness in the same way. And sequences are compared point by point.

The proofs hold for all values of the constants under the assumptions named in the
modules (`ClientOpsAssumption`, `BoundsAssumption`, `NoneAssumption`; `SheetsAssumption`,
`NumbersAssumption`, `RequestsAssumption`; `ComputersAssumption`; `TickerAssumption`;
`WordAssumption`, `PagesAssumption`; `PostAssumption`, `CounterAssumption`, `WidgetAssumption`,
`ChatAssumption`; `ElementsAssumption`, `ClassAssumption`,
`DomAssumption`; `DeferredAssumption`), in particular for any
number of nodes, sessions, imports, browsers, requests and messages. They say what kind of thing
a constant is, that a page of nodes is finite, and that `None` is none of the values it stands beside.

Only model-checked:
* all liveness (`LookupIsAnswered`, `EventuallyReaped`, `ActorStopsWithFlow`,
  `ScalaStreamsEnd`, `EveryRequestIsAnswered`, `TasksEnd`, `EveryoneHears` and the liveness
  in `ImplementsPromises`), which is out of the prover's reach;
* of `Dom`, `EventsArrive`, which is about the history of a dispatch rather than about
  what the page holds;
* of `Deferreds`, `ThenFollows` and `WhenFollows`, because the outcome of a promise depends on
  chains of adoptions over the stack and the timers. No inductive invariant has been worked out for these.

## Not modelled

The parts with status `not_modelled` in `PROJECT.json` give the reason there: they
are stateless, pure functions of their input, or one call of a library. Of the page
scripts, selectors, traversal, styles, attributes and serialisation keep no state.
The cookies of the session web layer are left to a browser whose order of requests the
server does not see; what the server keeps of a session is in `SessionCache`.
