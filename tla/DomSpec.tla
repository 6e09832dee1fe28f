------------------------------ MODULE DomSpec ------------------------------
(* What jQuery's methods promise the page, whatever its code does. *)
EXTENDS Dom

Handler == [id : Nat, origType : Type, selector : BOOLEAN, one : BOOLEAN]

\* Types: every node has its lists, and a frame is one of four kinds.
TypeOK ==
  /\ page \in Page /\ calls \in 0..page.calls
  /\ dom.made \subseteq Node
  /\ dom.parent \in [Node -> Node \cup {None}]
  /\ \A n \in Node : \A t \in DOMAIN dom.events[n] :
       /\ t \in Kept
       /\ Listed(dom, n, t) \subseteq Handler /\ Listed(dom, n, t) # {}
       /\ \A h \in Listed(dom, n, t) : TypeOf(h.origType, h.selector) = t
  /\ dom.attaches \in Nat /\ dom.count \in Nat
  /\ dom.queue \in [Node -> Seq(Nat)]
  /\ active \in dom.made \cup {None}
  /\ triggered \in Type \cup {None}
  /\ \A i \in DOMAIN stack :
       stack[i].at \in {"code", "event", "dispatch", "eval"}

\* A native listener is bound exactly to the elements and types that have
\* handlers, through copies, removals and off().
ListenersMatch ==
  \A n \in Node : \A t \in Kept \ {"focusin"} :
    <<n, t>> \in dom.bound <=> Has(dom, n, t)

\* The document captures focus exactly while somebody is counted, and nobody
\* who has handlers is left out. Those counted are the elements with handlers
\* and, for ever, those whose last handler was a delegated one of focus that
\* went by that name (off, one) or with its element (cleanData).
FocusCounted ==
  /\ dom.capture <=> dom.attaches > 0
  /\ dom.attaches =
       Cardinality({n \in Node : Has(dom, n, "focusin")}) + dom.leaked

\* The delegates of a list come first, and are counted.
DelegatesFirst ==
  \A n \in Node : \A t \in DOMAIN dom.events[n] :
    LET l == Handlers(dom, n, t)
    IN \A i \in DOMAIN l.list : l.list[i].selector <=> i <= l.delegateCount

\* An event that nobody stopped has come to every handler that was there
\* before it and still is: to delegates for each element below, unless nodes
\* were moved meanwhile.
NobodyMissed ==
  TopIs("event") /\ Nexts(Top) = {} /\ ~Top.stopped =>
    \A d \in Top.due :
      \/ d[2].origType = "mouseenter" /\ Top.related # None
      \/ d[2] \notin Listed(dom, d[1], TypeOf(d[2].origType, d[2].selector))
      \/ /\ d[2].selector
         /\ dom.moves # Top.moves \/ d[1] = Top.target
      \/ \E i \in DOMAIN Top.log : Top.log[i].on = d[1] /\ Top.log[i].h = d[2]

\* One trigger calls a handler once for an element, though its default
\* action fires the event again.
TriggeredOnce ==
  \A i \in DOMAIN stack : stack[i].at = "event" =>
    LET log == IF stack[i].by = "default"
               THEN stack[i - 1].log \o stack[i].log ELSE stack[i].log
    IN \A k, m \in DOMAIN log : k # m => log[k] # log[m]

\* A handler of one() that has run is attached no more: only an event that
\* had found it before can call it again.
OneHasGone ==
  \A n \in Node : \A t \in DOMAIN dom.events[n] :
    \A h \in Listed(dom, n, t) : ~(h.one /\ <<n, h.id>> \in gone)

\* mouseenter is called for an element when the pointer comes into it, and
\* not again before the pointer has left it.
EnteredOnce ==
  [][\A q \in dom.entered :
       TopIs("dispatch") /\ stack[Len(stack) - 1].by = "browser"
         /\ Len(stack') > Len(stack) => Head(Top.rest) # q]_vars

\* What was removed with its data keeps nothing, until it is used again.
NothingKept ==
  \A n \in dom.clean :
    /\ dom.events[n] = NoEvents /\ \A t \in Kept : <<n, t>> \notin dom.bound
    /\ dom.user[n] = None /\ dom.display[n] = None
    /\ dom.kept[n] = None
    /\ n \notin dom.hooks

\* A script runs at most once, wherever it is moved and however it is copied,
\* unless its data was cleaned.
ScriptsRunOnce ==
  [][TopIs("eval") /\ Len(stack') > Len(stack) =>
       \A s \in Top.scripts \ stack'[Len(stack)].scripts :
         s \in dom.ran => s \in dom.upset]_vars

\* data(key) has one answer until the page itself sets, removes or cleans
\* the data, whatever becomes of the attribute.
DataStays ==
  [][\A n \in Node : None \notin {dom.answer[n], dom'.answer[n]} =>
       dom'.answer[n] = dom.answer[n]]_vars

\* What show() showed in the page stays visible and what hide() hid stays
\* hidden, until the page asks for something else, wherever it is moved.
LooksAsAsked ==
  \A n \in dom.made : /\ dom.looks[n] = "shown"  => ~IsHidden(dom, n)
                      /\ dom.looks[n] = "hidden" => IsHidden(dom, n)

\* show() after hide() gives the element its own style back, unless that was
\* nothing, or its data was cleaned.
ShowRestores ==
  [][\A n \in Node :
       dom.asWas[n] \notin {None, ""} /\ dom.looks[n] = "hidden"
         /\ dom'.looks[n] = "shown" => dom'.style[n] = dom.asWas[n]]_vars

\* What toggleClass() took away comes back with the next toggleClass() that
\* finds no class, unless the data was cleaned.
ClassesReturn ==
  [][\A n \in Node : dom.away[n] # None /\ dom'.away[n] = None
                        /\ n \notin dom'.upset =>
       dom'.class[n] = dom.away[n]]_vars

\* The functions of a queue start in the order in which they were queued.
QueueInOrder ==
  [][\A n \in Node :
       dom'.last[n] # dom.last[n] => dom'.last[n] > dom.last[n]]_vars

\* One function of an element runs at a time, unless the queue was cleared
\* or dequeued by hand.
OneAtATime ==
  \A n \in Node \ dom.upset : Cardinality(dom.running[n]) <= 1

\* promise() is resolved when all the functions it was asked for have ended,
\* and is not left when nothing is queued or runs any more.
PromiseInTime ==
  dom.asked # {} /\ dom.asked \cap dom.upset = {} =>
    /\ dom.count = 0 =>
         \A n \in dom.asked : Pending(dom, n) \cap dom.due = {}
    /\ dom.count > 0 => \E n \in dom.asked : Pending(dom, n) # {}

\* on, off, clone, remove: what is bound and counted is what has handlers.
HandlersKept == TypeOK /\ ListenersMatch /\ FocusCounted /\ DelegatesFirst

\* dispatch, trigger, one: an event calls each handler it should, once.
EventsArrive == [](NobodyMissed /\ TriggeredOnce /\ OneHasGone) /\ EnteredOnce

\* data stays while its element does, and no longer.
DataKept == []NothingKept /\ DataStays

\* show, hide, toggleClass: the page looks as it was asked to, and can go back.
LooksReturn == []LooksAsAsked /\ ShowRestores /\ ClassesReturn

\* queue, dequeue, promise: one function at a time, in order, and the promise
\* after the last.
QueuesRun == [](OneAtATime /\ PromiseInTime) /\ QueueInOrder
=============================================================================
