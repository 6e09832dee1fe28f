-------------------------------- MODULE Dom --------------------------------
(***************************************************************************)
(* A page at work on its elements (jquery-3.2.0.slim.js of the streaming   *)
(* example).  Handlers, scripts that are inserted and functions of a queue *)
(* are code of the page, and call every method again: `stack' holds the    *)
(* calls under way, innermost last.                                        *)
(*                                                                         *)
(* The page's listeners are jQuery's own, and no element is a link or a    *)
(* check box.                                                              *)
(*                                                                         *)
(* Bounds: page.calls calls of a page; a clone takes its nodes from Spare. *)
(***************************************************************************)
EXTENDS Elements

CONSTANT Page       \* what a page uses, and how it starts

Use == {"events", "removal", "moves", "clones", "data", "looks",
        "classes", "queues"}

\* A page starts with what exists, two levels deep.
ASSUME DomAssumption ==
  \A p \in Page :
    /\ p.uses \subseteq Use
    /\ p.types \subseteq Type
    /\ p.calls \in Nat
    /\ p.nodes \subseteq Node \ Spare
    /\ p.parent \in [Node -> (Node \ Spare) \cup {None}]
    /\ p.parent[Document] = None
    /\ \A n \in Node : p.parent[n] \notin {None, Document} =>
                         p.parent[p.parent[n]] \in {None, Document}

VARIABLES page,
          calls,      \* how many calls the page has made
          dom,        \* the record of Elements
          active,     \* document.activeElement
          triggered,  \* jQuery.event.triggered
          stack,
          gone        \* history: the handlers of one() that have run

vars == <<page, calls, dom, active, triggered, stack, gone>>

Fresh(p) ==
  LET made == {Document} \cup Element \cup Script
      InPage(n) == n = Document
                     \/ p.parent[n] = Document
                     \/ /\ p.parent[n] # None
                        /\ p.parent[p.parent[n]] = Document
  IN [parent   |-> p.parent, made |-> made,
      origin   |-> [n \in Node |-> None],
      attr     |-> [n \in Node |-> IF n \in Element THEN 1 ELSE None],
      events   |-> [n \in Node |-> NoEvents], bound |-> {},
      attaches |-> 0, capture |-> FALSE,
      evaled   |-> {},
      user     |-> [n \in Node |-> None], hasAttrs |-> {},
      style    |-> [n \in Node |-> ""],
      display  |-> [n \in Node |-> None],
      class    |-> [n \in Node |-> {"c"}],
      kept     |-> [n \in Node |-> None],
      pointer  |-> None,
      queue    |-> [n \in Node |-> <<>>], hooks |-> {},
      running  |-> [n \in Node |-> {}],
      waits    |-> {}, count |-> 0,
      \* history, for the properties only: the scripts that have run, nodes
      \* that were cleaned and not touched since, listeners of focusin that
      \* nobody counts down, nodes that were cleaned or had their queue
      \* cleared, what promise() was asked, the last function of a queue,
      \* moves of nodes, what data(key) has answered, show and hide, classes
      \* toggled away, handlers of mouseenter that ran and elements that the
      \* pointer has not left since
      ran      |-> {s \in Script : InPage(s)},
      clean    |-> {}, leaked |-> 0, upset |-> {}, asked |-> {}, due |-> {},
      last     |-> [n \in Node |-> 0], moves |-> 0,
      answer   |-> [n \in Node |-> None],
      looks    |-> [n \in Node |-> None],
      asWas    |-> [n \in Node |-> None],
      away     |-> [n \in Node |-> None],
      entered  |-> {}]

Init == /\ page \in Page
        /\ calls = 0
        /\ dom = Fresh(page)
        /\ active = None
        /\ triggered = None
        /\ stack = <<>>
        /\ gone = {}

-----------------------------------------------------------------------------
(* Frames.                                                                 *)

Code == [at |-> "code"]

Top        == stack[Len(stack)]
Popped     == SubSeq(stack, 1, Len(stack) - 1)
TopIs(at)  == stack # <<>> /\ Top.at = at
InCode     == stack # <<>> => Top.at = "code"
Pushed(f)  == Append(stack, f)
WithTop(f) == Append(Popped, f)

\* The nodes whose handlers an event of target reaches, with the type it has
\* there.
Route(D, target, t) ==
  [i \in DOMAIN Path(D, target) |-> <<Path(D, target)[i], t>>]

\* An event on its way: by trigger, by the browser, or simulated.
Event(by, t, target, path) ==
  [at |-> "event", by |-> by, type |-> t, target |-> target, path |-> path,
   related |-> None,
   stopped |-> FALSE, prevented |-> FALSE, ended |-> FALSE,
   log |-> <<>>,            \* history: what has run
   moves |-> dom.moves,     \* history: the moves, and the handlers, before
   due |-> IF by = "default" THEN {}
           ELSE UNION {{<<path[i][1], h>> : h \in Listed(dom, path[i][1],
                                                         path[i][2])} :
                         i \in DOMAIN path}]

\* The calls of a page.
Call(use) ==
  /\ InCode
  /\ use \in page.uses
  /\ calls < page.calls
  /\ calls' = calls + 1
  /\ UNCHANGED page

-----------------------------------------------------------------------------
(* Events.                                                                 *)

CallOn(n, t, selector, one) ==
  /\ Call("events")
  /\ dom' = AddEvent(dom, n, [id |-> calls + 1, origType |-> t,
                              selector |-> selector, one |-> one])
  /\ UNCHANGED <<active, triggered, stack, gone>>

CallOff(n, t, selector) ==
  /\ Call("events")
  /\ dom' = Off(dom, n, t, selector, 1..calls)
  /\ UNCHANGED <<active, triggered, stack, gone>>

CallOffAll(n) ==
  /\ Call("events")
  /\ dom' = OffAll(dom, n)
  /\ UNCHANGED <<active, triggered, stack, gone>>

\* focus(): the browser's event goes to the capturing listener of the
\* document first, then to the element.
FocusPath(n) == <<<<Document, "capture">>, <<n, "focus">>>>

CanFocus(n) == n \notin {Document, active} /\ Contained(dom, n)

\* Where trigger goes: the path is computed in advance.  A focus of the
\* active element bubbles as focusin, and begins with the element again.
TriggerPath(n, t) ==
  IF t = "focus" THEN <<<<n, "focus">>>> \o Route(dom, n, "focusin")
  ELSE Route(dom, n, TypeOf(t, FALSE))

\* trigger: focus of an element that is not active is left to the browser.
CallTrigger(n, t) ==
  /\ Call("events")
  /\ IF t = "focus" /\ active # n /\ n # Document
     THEN /\ active' = IF CanFocus(n) THEN n ELSE active
          /\ stack' = IF CanFocus(n)
                      THEN Pushed(Event("browser", t, n, FocusPath(n)))
                      ELSE stack
     ELSE /\ stack' = Pushed(Event("trigger", t, n, TriggerPath(n, t)))
          /\ UNCHANGED active
  /\ UNCHANGED <<dom, triggered, gone>>

\* triggerHandler: no path, and no default action.
CallTriggerHandler(n, t) ==
  /\ Call("events")
  /\ stack' = Pushed(Event("handler", t, n, <<<<n, TypeOf(t, FALSE)>>>>))
  /\ UNCHANGED <<dom, active, triggered, gone>>

\* The user clicks on an element of the page, moves the focus to it, or the
\* pointer.
UserEvent(n, t) ==
  /\ stack = <<>>
  /\ Call("events")
  /\ Contained(dom, n)
  /\ \/ /\ t = "click" /\ n # Document
        /\ stack' = <<Event("browser", t, n, Route(dom, n, t))>>
        /\ UNCHANGED <<dom, active>>
     \/ /\ t = "focus" /\ n \notin {Document, active}
        /\ stack' = <<Event("browser", t, n, FocusPath(n))>>
        /\ active' = n
        /\ UNCHANGED dom
     \/ /\ t = "mouseenter" /\ n # dom.pointer
        /\ stack' = <<[Event("browser", "mouseover", n,
                             Route(dom, n, "mouseover"))
                         EXCEPT !.related = dom.pointer]>>
        /\ dom' = [dom EXCEPT
                     !.pointer = n,
                     !.entered = {q \in @ : q.elem \in Ancestors(dom, n)}]
        /\ UNCHANGED active
  /\ UNCHANGED <<triggered, gone>>

\* mutant: the event of the default action is an event like the others
NeverDiscards(t) == FALSE

\* The second event of a trigger().
Discards(t) == triggered = t

\* mutant: the last of the element's own handlers is left out
HandlerQueueShort(n, t, target) ==
  LET l      == Handlers(dom, n, t)
      up     == Path(dom, target)
      end    == IF \E i \in DOMAIN up : up[i] = n
                THEN CHOOSE i \in DOMAIN up : up[i] = n ELSE Len(up) + 1
      inside == Without(SubSeq(up, 1, end - 1), {Document})
      k      == l.delegateCount
  IN [i \in 1..(Len(inside) * k) |->
        [elem |-> inside[((i - 1) \div k) + 1], on |-> n,
         h |-> l.list[((i - 1) % k) + 1]]]
     \o [i \in 1..(Len(l.list) - k - 1) |->
           [elem |-> n, on |-> n, h |-> l.list[k + i]]]

\* The handlers for an event that has come to n: the delegates for every
\* element from the target upwards, then those of n itself.
HandlerQueue(n, t, target) ==
  LET l      == Handlers(dom, n, t)
      up     == Path(dom, target)
      end    == IF \E i \in DOMAIN up : up[i] = n
                THEN CHOOSE i \in DOMAIN up : up[i] = n ELSE Len(up) + 1
      inside == Without(SubSeq(up, 1, end - 1), {Document})
      k      == l.delegateCount
  IN [i \in 1..(Len(inside) * k) |->
        [elem |-> inside[((i - 1) \div k) + 1], on |-> n,
         h |-> l.list[((i - 1) % k) + 1]]]
     \o [i \in 1..(Len(l.list) - k) |->
           [elem |-> n, on |-> n, h |-> l.list[k + i]]]

\* The next node on the way that has something to do.
Live(e, i) ==
  \/ e.path[i][2] = "capture" /\ dom.capture /\ triggered # "focus"
  \/ Has(dom, e.path[i][1], e.path[i][2]) /\ ~Discards(e.path[i][2])

Nexts(e) == {i \in DOMAIN e.path : Live(e, i)}

\* The event comes to the next node: dispatch, or the simulated focusin.
Dispatch ==
  /\ TopIs("event")
  /\ ~Top.stopped /\ ~Top.ended
  /\ Nexts(Top) # {}
  /\ LET e == Top
         i == CHOOSE i \in Nexts(e) : \A k \in Nexts(e) : i <= k
         f == WithTop([e EXCEPT !.path = SubSeq(@, i + 1, Len(@))])
     IN stack' =
          IF e.path[i][2] = "capture"
          THEN Append(f, Event("simulated", "focusin", e.target,
                               Route(dom, e.target, "focusin")))
          ELSE Append(f, [at |-> "dispatch", elem |-> None,
                          rest |-> HandlerQueue(e.path[i][1], e.path[i][2],
                                                e.target)])
  /\ UNCHANGED <<page, calls, dom, active, triggered, gone>>

\* mutant: the handler of one() is removed after it was called
OneLater(D, q) == D

\* The function that one() makes takes itself off before it calls.
OneFirst(D, q) ==
  IF q.h.one THEN Off(D, q.on, q.h.origType, q.h.selector, {q.h.id}) ELSE D

\* mutant: mouseenter is another name of mouseover
CalledAlways(e, q) == TRUE

Called(e, q) ==
  q.h.origType = "mouseenter" => Enters(dom, q.elem, e.related)

\* dispatch calls the next handler.
CallHandler ==
  /\ TopIs("dispatch")
  /\ Top.rest # <<>>
  /\ LET q == Head(Top.rest)
         below == Len(stack) - 1
         f == WithTop([Top EXCEPT !.rest = Tail(@), !.elem = q.elem])
         hovers == stack[below].by = "browser" /\ q.h.origType = "mouseenter"
     IN IF Called(stack[below], q)
        THEN /\ dom' = [OneFirst(dom, q) EXCEPT
                          !.entered = @ \cup (IF hovers THEN {q} ELSE {})]
             /\ gone' = IF q.h.one THEN gone \cup {<<q.on, q.h.id>>} ELSE gone
             /\ stack' = Append([f EXCEPT ![below].log = Append(@, q)], Code)
        ELSE stack' = f /\ UNCHANGED <<dom, gone>>
  /\ UNCHANGED <<page, calls, active, triggered>>

EndDispatch ==
  /\ TopIs("dispatch")
  /\ Top.rest = <<>>
  /\ stack' = Popped
  /\ UNCHANGED <<page, calls, dom, active, triggered, gone>>

\* Handlers that are left when one has returned: false stops the event, but
\* the element's other handlers run; stopImmediatePropagation stops those.
Left(d, answer) ==
  LET q == d.rest
      same == {i \in DOMAIN q : \A k \in 1..i : q[k].elem = d.elem}
  IN CASE answer = "go"   -> q
       [] answer = "false" -> SubSeq(q, 1, Cardinality(same))
       [] answer = "stop"  -> <<>>

\* The default action of a trigger: the element's own method, whose event is
\* discarded.
DefaultAction ==
  /\ TopIs("event")
  /\ Top.by = "trigger" /\ ~Top.ended
  /\ Top.stopped \/ Nexts(Top) = {}
  /\ LET e == Top
         acts == /\ ~e.prevented
                 /\ e.target # Document
                 /\ \/ e.type = "click"
                    \/ e.type = "focus" /\ CanFocus(e.target)
         f == WithTop([e EXCEPT !.ended = TRUE])
     IN IF acts
        THEN /\ triggered' = e.type
             /\ active' = IF e.type = "focus" THEN e.target ELSE active
             /\ stack' = Append(f, Event("default", e.type, e.target,
                                         IF e.type = "focus"
                                         THEN FocusPath(e.target)
                                         ELSE Route(dom, e.target, e.type)))
        ELSE stack' = f /\ UNCHANGED <<triggered, active>>
  /\ UNCHANGED <<page, calls, dom, gone>>

EndEvent ==
  /\ TopIs("event")
  /\ IF Top.by = "trigger" THEN Top.ended ELSE Top.stopped \/ Nexts(Top) = {}
  /\ stack' = Popped
  /\ triggered' = IF Top.by = "default" THEN None ELSE triggered
  /\ UNCHANGED <<page, calls, dom, active, gone>>

-----------------------------------------------------------------------------
(* Manipulation.                                                           *)

Moved(D) == [D EXCEPT !.moves = @ + 1]

CallRemove(n) ==
  /\ Call("removal")
  /\ n # Document
  /\ dom' = Moved(Remove(dom, n))
  /\ UNCHANGED <<active, triggered, stack, gone>>

CallDetach(n) ==
  /\ Call("removal")
  /\ n # Document
  /\ dom' = Moved(Detach(dom, n))
  /\ UNCHANGED <<active, triggered, stack, gone>>

CallEmpty(n) ==
  /\ Call("removal")
  /\ n # Document
  /\ dom' = Moved(Empty(dom, n))
  /\ UNCHANGED <<active, triggered, stack, gone>>

Evaluation(S) == [at |-> "eval", scripts |-> S]

\* append, prepend, before, after, replaceWith: the scripts of the content
\* are evaluated when it is in place.
CallInsert(how, targets, c) ==
  /\ Call("moves")
  /\ c # Document
  /\ \A i \in DOMAIN targets : targets[i] # Document \/ how = "append"
  /\ \E i \in DOMAIN targets : targets[i] = c
       \/ \A k \in DOMAIN targets : targets[k] \notin GetAll(dom, c)
  /\ IF \E i \in DOMAIN targets : targets[i] = c
     THEN dom' = Moved(Ignored(dom, how, targets, c)) /\ UNCHANGED stack
     ELSE /\ Len(targets) = 2 => CanCopy(dom, c)
          /\ dom' = Moved(DomManip(dom, how, targets, c))
          /\ stack' = Pushed(Evaluation(Scripts(dom, c)))
  /\ UNCHANGED <<active, triggered, gone>>

\* html(content): empty, then append.
CallHtml(t, c) ==
  /\ Call("moves")
  /\ Document \notin {t, c} /\ t \notin GetAll(dom, c)
  /\ dom' = Moved(DomManip(Empty(dom, t), "append", <<t>>, c))
  /\ stack' = Pushed(Evaluation(Scripts(Empty(dom, t), c)))
  /\ UNCHANGED <<active, triggered, gone>>

CallClone(n, withData) ==
  /\ Call("clones")
  /\ n # Document /\ CanCopy(dom, n)
  /\ dom' = Clone(dom, n, withData, CopyOf(dom, n))
  /\ UNCHANGED <<active, triggered, stack, gone>>

\* The scripts that have not been evaluated and are in the page.
ToEvaluate(S) == {s \in S : s \notin dom.evaled /\ Contained(dom, s)}

\* Evaluate the next one.  Nothing is marked: what moves or is copied later
\* counts as evaluated because it comes from the page.
Evaluate ==
  /\ TopIs("eval")
  /\ IF Top.scripts = {} THEN stack' = Popped /\ UNCHANGED dom
     ELSE \E s \in Top.scripts :
            /\ dom' = IF s \in ToEvaluate(Top.scripts)
                      THEN [dom EXCEPT !.ran = @ \cup {s}] ELSE dom
            /\ stack' =
                 LET f == WithTop([Top EXCEPT !.scripts = @ \ {s}])
                 IN IF s \in ToEvaluate(Top.scripts) THEN Append(f, Code)
                    ELSE f
  /\ UNCHANGED <<page, calls, active, triggered, gone>>

-----------------------------------------------------------------------------
(* Data, looks and queues.                                                 *)

CallData(n) ==
  /\ Call("data")
  /\ n # Document
  /\ dom' \in {SetData(dom, n, 2), RemoveData(dom, n), SetAttr(dom, n, 2),
               Read(dom, n), ReadAll(dom, n)}
  /\ UNCHANGED <<active, triggered, stack, gone>>

\* show, hide, toggle, or the page sets the style itself.
CallLooks(n) ==
  /\ Call("looks")
  /\ n # Document
  /\ dom' \in {Show(dom, n), Hide(dom, n), Toggle(dom, n)}
              \cup {SetStyle(dom, n, v) : v \in Display}
  /\ UNCHANGED <<active, triggered, stack, gone>>

CallClasses(n, c) ==
  /\ Call("classes")
  /\ n # Document
  /\ dom' \in {AddClass(dom, n, c), RemoveClass(dom, n, c),
               ToggleOne(dom, n, c), Strip(dom, n), ToggleAll(dom, n)}
  /\ UNCHANGED <<active, triggered, stack, gone>>

\* A queue's next function starts, or hooks.empty fires.
Dequeued(D, n) ==
  /\ dom' = Dequeue(D, n)
  /\ stack' = IF NextFunction(D, n) = None THEN stack ELSE Pushed(Code)

\* queue(f), and delay: f starts at once when nothing is in progress.
CallQueue(n) ==
  /\ Call("queues")
  /\ n # Document
  /\ LET E == Queue(dom, n, calls + 1)
     IN IF Head(E.queue[n]) = Progress THEN dom' = E /\ UNCHANGED stack
        ELSE Dequeued(E, n)
  /\ UNCHANGED <<active, triggered, gone>>

CallClearQueue(n) ==
  /\ Call("queues")
  /\ n # Document
  /\ dom' = ClearQueue(dom, n)
  /\ UNCHANGED <<active, triggered, stack, gone>>

\* dequeue() by the page, though no function has ended.
CallDequeue(n) ==
  /\ Call("queues")
  /\ n # Document
  /\ Dequeued([dom EXCEPT !.upset = @ \cup {n}], n)
  /\ UNCHANGED <<active, triggered, gone>>

CallPromise(S) ==
  /\ Call("queues")
  /\ dom.asked = {} /\ Document \notin S
  /\ dom' = Promise(dom, S)
  /\ UNCHANGED <<active, triggered, stack, gone>>

\* A function of a queue calls next(), once, now or from a timer.
RunNext(n) ==
  /\ InCode
  /\ \E f \in dom.running[n] :
       Dequeued([dom EXCEPT !.running[n] = @ \ {f}], n)
  /\ UNCHANGED <<page, calls, active, triggered, gone>>

\* Code of the page returns.  A handler's answer goes to its event.
Return(answer) ==
  /\ TopIs("code")
  /\ LET below == Len(stack) - 1
         inHandler == below > 0 /\ stack[below].at = "dispatch"
     IN IF inHandler
        THEN stack' = [Popped EXCEPT
               ![below].rest = Left(stack[below], answer),
               ![below - 1].stopped = @ \/ answer # "go",
               ![below - 1].prevented = @ \/ answer = "false"]
        ELSE answer = "go" /\ stack' = Popped
  /\ UNCHANGED <<page, calls, dom, active, triggered, gone>>

-----------------------------------------------------------------------------
\* The nodes that the page names: its own, and the copies it made.
MayHold == page.nodes \cup (dom.made \cap Spare)

Targets == {<<n>> : n \in MayHold} \cup
             {q \in MayHold \X MayHold : q[1] # q[2]}

Next ==
  \/ \E n \in MayHold, t \in page.types :
       \/ \E selector, one \in BOOLEAN : CallOn(n, t, selector, one)
       \/ \E selector \in BOOLEAN : CallOff(n, t, selector)
       \/ CallTrigger(n, t) \/ CallTriggerHandler(n, t) \/ UserEvent(n, t)
  \/ \E n \in MayHold :
       \/ CallOffAll(n)
       \/ CallRemove(n) \/ CallDetach(n) \/ CallEmpty(n)
       \/ \E c \in MayHold : CallHtml(n, c)
       \/ \E withData \in BOOLEAN : CallClone(n, withData)
       \/ CallData(n) \/ CallLooks(n)
       \/ \E c \in Class : CallClasses(n, c)
       \/ CallQueue(n) \/ CallClearQueue(n) \/ CallDequeue(n) \/ RunNext(n)
  \/ \E how \in {"append", "before", "replaceWith"}, targets \in Targets,
        c \in MayHold : CallInsert(how, targets, c)
  \/ \E S \in SUBSET MayHold : S # {} /\ CallPromise(S)
  \/ \E answer \in {"go", "false", "stop"} : Return(answer)
  \/ Dispatch \/ CallHandler \/ EndDispatch \/ DefaultAction \/ EndEvent
  \/ Evaluate

Spec == Init /\ [][Next]_vars
=============================================================================
