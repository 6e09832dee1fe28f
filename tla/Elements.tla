------------------------------ MODULE Elements ------------------------------
(***************************************************************************)
(* What jQuery keeps on the nodes of a page, and what each of its methods  *)
(* makes of it (jquery-3.2.0.slim.js of the streaming example): events,    *)
(* scripts that were evaluated, the data of the page, the fx queue.        *)
(*                                                                         *)
(* D is one record: the tree and all that is kept.  The methods are        *)
(* operators on D.  The order of siblings is left out, a selector matches  *)
(* every element, the page keeps one value under one key, and Document     *)
(* stands for the document and its body.                                   *)
(*                                                                         *)
(* Bound: a clone takes its nodes from Spare.                              *)
(***************************************************************************)
EXTENDS Integers, Sequences, FiniteSets

CONSTANTS Document,
          Element,    \* elements that are no scripts
          Script,
          Spare,      \* nodes that do not exist yet
          Veiled,     \* elements that a style sheet hides
          None

Node == {Document} \cup Element \cup Script \cup Spare

ASSUME ElementsAssumption ==
  /\ Document \notin Element \cup Script \cup Spare
  /\ Spare \cap (Element \cup Script) = {}
  /\ Veiled \subseteq Element
  /\ None \notin Node \cup {"shown", "hidden"}
  /\ IsFiniteSet(Node)

Attr == {1, 2}      \* values of the attribute data-x, and of the page's data

-----------------------------------------------------------------------------
(* The tree.                                                               *)

\* The nodes from n upwards.
Path(D, n) ==
  LET up[m \in Node \cup {None}] ==
        IF m = None THEN <<>> ELSE <<m>> \o up[D.parent[m]]
  IN up[n]

Ancestors(D, n) == LET up == Path(D, n) IN {up[i] : i \in DOMAIN up}

\* getAll: n and what it contains.
GetAll(D, n) == {m \in D.made : n \in Ancestors(D, m)}

Contained(D, n) == Document \in Ancestors(D, n)

IsScript(D, n) == n \in Script \/ D.origin[n] \in Script
Scripts(D, n)  == {m \in GetAll(D, n) : IsScript(D, m)}

Linked(D, n, p) == [D EXCEPT !.parent[n] = p]

-----------------------------------------------------------------------------
(* Events.  D.events[n] has the lists of handlers of n by type; D.bound    *)
(* are the native listeners.  focusin has no listener of its own: the      *)
(* document has one that captures, while D.attaches counts who wants it.   *)

Type == {"click", "focus", "focusin", "mouseenter"}
Kept == {"click", "focus", "focusin", "mouseover"}

\* The type under which a handler is kept: bindType or delegateType.
TypeOf(t, selector) ==
  CASE t = "focus" /\ selector -> "focusin"
    [] t = "mouseenter"        -> "mouseover"
    [] OTHER                   -> t

\* special.mouseenter: called only when the pointer comes from outside.
Enters(D, elem, related) == related = None \/ elem \notin Ancestors(D, related)

\* What splice leaves of s: all but the members of H.
Without(s, H) ==
  LET rest[i \in 0..Len(s)] ==
        IF i = 0 THEN <<>>
        ELSE IF s[i] \in H THEN rest[i - 1] ELSE Append(rest[i - 1], s[i])
  IN rest[Len(s)]

NoEvents     == [t \in {} |-> None]
NoHandlers   == [list |-> <<>>, delegateCount |-> 0]
Has(D, n, t) == t \in DOMAIN D.events[n]
Handlers(D, n, t) == IF Has(D, n, t) THEN D.events[n][t] ELSE NoHandlers
Listed(D, n, t)   == {Handlers(D, n, t).list[i] :
                        i \in DOMAIN Handlers(D, n, t).list}

\* mutant: delegates go to the end, like all others
InsertLast(l, h) ==
  [list |-> Append(l.list, h),
   delegateCount |-> l.delegateCount + (IF h.selector THEN 1 ELSE 0)]

\* Delegates in front.
Insert(l, h) ==
  IF h.selector
  THEN [list |-> SubSeq(l.list, 1, l.delegateCount) \o <<h>>
                   \o SubSeq(l.list, l.delegateCount + 1, Len(l.list)),
        delegateCount |-> l.delegateCount + 1]
  ELSE [l EXCEPT !.list = Append(@, h)]

\* mutant: the capturing listener is added for the first type only once
SetUpSilently(D, n, t) ==
  IF t = "focusin" THEN [D EXCEPT !.attaches = @ + 1]
  ELSE [D EXCEPT !.bound = @ \cup {<<n, t>>}]

\* The first handler of a type: setup, or a listener.
SetUp(D, n, t) ==
  IF t = "focusin"
  THEN [D EXCEPT !.attaches = @ + 1, !.capture = @ \/ D.attaches = 0]
  ELSE [D EXCEPT !.bound = @ \cup {<<n, t>>}]

\* k elements want no focusin any more.
Detached(D, k) ==
  [D EXCEPT !.attaches = @ - k, !.capture = @ /\ (k = 0 \/ D.attaches # k)]

\* The last handler kept under t has gone: the teardown of the type that was
\* asked for, if it has one, or the listener goes. "focus" has none: when it
\* is asked for and kept as "focusin", nobody is counted down.
TearDown(D, n, asked, t) ==
  IF t # "focusin" THEN [D EXCEPT !.bound = @ \ {<<n, t>>}]
  ELSE IF asked = "focusin" THEN Detached(D, 1)
  ELSE [D EXCEPT !.leaked = @ + 1]

\* jQuery.event.add.
AddEvent(D, n, h) ==
  LET type == TypeOf(h.origType, h.selector)
      E == IF Has(D, n, type) THEN D ELSE SetUp(D, n, type)
  IN [E EXCEPT !.clean = @ \ {n},
               !.events[n] =
                 [u \in DOMAIN @ \cup {type} |->
                    IF u = type THEN Insert(Handlers(D, n, type), h) ELSE @[u]]]

\* mutant: a list that is empty stays
DropOnly(D, n, asked, t, H) ==
  IF Has(D, n, t)
  THEN [D EXCEPT !.events[n][t].list = Without(@, H)]
  ELSE D

\* jQuery.event.remove, once the handlers that match are known: all of H,
\* kept under t, by somebody who asked for another type perhaps.
Drop(D, n, asked, t, H) ==
  LET l == Handlers(D, n, t)
      left == [list |-> Without(l.list, H),
               delegateCount |-> l.delegateCount -
                 Cardinality({h \in H \cap Listed(D, n, t) : h.selector})]
  IN IF ~Has(D, n, t) THEN D
     ELSE IF left.list # <<>> THEN [D EXCEPT !.events[n][t] = left]
     ELSE [TearDown(D, n, asked, t) EXCEPT !.events[n] =
             [u \in DOMAIN @ \ {t} |-> @[u]]]

\* off(type, selector, handler): the type asked for has to be the original
\* one.
Off(D, n, t, selector, ids) ==
  Drop(D, n, t, TypeOf(t, selector),
       {h \in Listed(D, n, TypeOf(t, selector)) :
          h.origType = t /\ h.id \in ids /\ (selector => h.selector)})

\* off(): every type that is kept, whatever it was.
OffAll(D, n) ==
  LET Less(E, t) == Drop(E, n, t, t, Listed(E, n, t))
  IN Less(Less(Less(Less(D, "click"), "focus"), "focusin"), "mouseover")

-----------------------------------------------------------------------------
(* cleanData.                                                              *)

\* jQuery.event.remove(elem, type) for the types kept: a handler whose type
\* was another one when it was attached does not match, and stays.
TornDown(D, n) ==
  {t \in DOMAIN D.events[n] : \A h \in Listed(D, n, t) : h.origType = t}

Unbound(D, S) ==
  LET ended == {n \in S : "focusin" \in TornDown(D, n)}
      left  == {n \in S : Has(D, n, "focusin")} \ ended
      E     == Detached(D, Cardinality(ended))
  IN [E EXCEPT !.bound = {b \in @ : b[1] \notin S},
               !.leaked = @ + Cardinality(left)]

Forgotten(D, S) ==
  [D EXCEPT !.events = [n \in Node |-> IF n \in S THEN NoEvents ELSE @[n]],
            !.evaled = @ \ S,
            !.user   = [n \in Node |-> IF n \in S THEN None ELSE @[n]],
            !.answer = [n \in Node |-> IF n \in S THEN None ELSE @[n]],
            !.display = [n \in Node |-> IF n \in S THEN None ELSE @[n]],
            !.asWas  = [n \in Node |-> IF n \in S THEN None ELSE @[n]],
            !.kept   = [n \in Node |-> IF n \in S THEN None ELSE @[n]],
            !.hasAttrs = @ \ S,
            !.queue  = [n \in Node |-> IF n \in S THEN <<>> ELSE @[n]],
            !.hooks  = @ \ S,
            !.waits  = @ \ S,
            !.ran    = @ \ S,
            !.upset  = @ \cup S]

\* mutant: the data goes, the listeners stay
ForgetOnly(D, S) == Forgotten(D, S)

CleanData(D, S) == Forgotten(Unbound(D, S), S)

-----------------------------------------------------------------------------
(* Manipulation.                                                           *)

\* mutant: what moves to another place evaluates its scripts again
FragmentForgetful(D, c) == Linked(D, c, None)

\* buildFragment: the scripts of what comes from the page have been
\* evaluated.
Fragment(D, c) ==
  [Linked(D, c, None) EXCEPT
     !.evaled = @ \cup (IF Contained(D, c) THEN Scripts(D, c) ELSE {})]

\* mutant: only the element itself is cleaned, not what it contains
RemoveTop(D, n) ==
  [Linked(CleanData(D, {n}), n, None) EXCEPT !.clean = @ \cup GetAll(D, n)]

Remove(D, n) ==
  [Linked(CleanData(D, GetAll(D, n)), n, None) EXCEPT
     !.clean = @ \cup GetAll(D, n)]

\* remove with keepData.
Detach(D, n) == Fragment(D, n)

Empty(D, n) ==
  LET S == GetAll(D, n) \ {n}
  IN [CleanData(D, S) EXCEPT
        !.parent = [m \in Node |-> IF @[m] = n THEN None ELSE @[m]],
        !.clean  = @ \cup S]

\* What a clone of n can take: f gives every node its copy.
Copies(D, n) == {f \in [GetAll(D, n) -> Spare \ D.made] :
                   \A m, k \in DOMAIN f : f[m] = f[k] => m = k}
CopyOf(D, n) == CHOOSE f \in Copies(D, n) : TRUE
CanCopy(D, n) == Cardinality(GetAll(D, n)) <= Cardinality(Spare \ D.made)

\* What cloneNode gives: the tree, and the attributes.
Copied(D, n, f) ==
  LET made == {f[m] : m \in DOMAIN f}
      Of(k) == CHOOSE m \in DOMAIN f : f[m] = k
  IN [D EXCEPT
        !.made   = @ \cup made,
        !.parent = [k \in Node |->
                      IF k \notin made THEN @[k]
                      ELSE IF Of(k) = n THEN None ELSE f[@[Of(k)]]],
        !.origin = [k \in Node |->
                      IF k \notin made THEN @[k]
                      ELSE IF Of(k) \in Spare THEN @[Of(k)] ELSE Of(k)],
        !.attr   = [k \in Node |-> @[IF k \in made THEN Of(k) ELSE k]],
        !.style  = [k \in Node |-> @[IF k \in made THEN Of(k) ELSE k]],
        !.class  = [k \in Node |-> @[IF k \in made THEN Of(k) ELSE k]]]

\* cloneCopyEvent for all the nodes: the handlers are added one by one, and
\* the copy of a list is the list again.
WithData(D, f) ==
  LET made == {f[m] : m \in DOMAIN f}
      Of(k) == CHOOSE m \in DOMAIN f : f[m] = k
      new  == {k \in made : Has(D, Of(k), "focusin")}
  IN [D EXCEPT
        !.events   = [k \in Node |-> @[IF k \in made THEN Of(k) ELSE k]],
        !.bound    = @ \cup {<<f[b[1]], b[2]>> :
                               b \in {b \in @ : b[1] \in DOMAIN f}},
        !.attaches = @ + Cardinality(new),
        !.capture  = @ \/ (D.attaches = 0 /\ new # {}),
        !.hasAttrs = @ \cup {f[m] : m \in DOMAIN f \cap @},
        !.display  = [k \in Node |-> @[IF k \in made THEN Of(k) ELSE k]],
        !.kept     = [k \in Node |-> @[IF k \in made THEN Of(k) ELSE k]],
        !.user     = [k \in Node |-> @[IF k \in made THEN Of(k) ELSE k]]]

\* jQuery.clone, and the evaluation of scripts that it preserves.
Clone(D, n, withData, f) ==
  LET E == IF withData THEN WithData(Copied(D, n, f), f) ELSE Copied(D, n, f)
      done == {m \in Scripts(D, n) : Contained(D, n) \/ m \in D.evaled}
  IN [E EXCEPT !.evaled = @ \cup {f[m] : m \in done},
               !.ran    = @ \cup {f[m] : m \in Scripts(D, n) \cap D.ran}]

\* The callbacks of append (and prepend), before (and after), replaceWith.
Put(D, how, t, c) ==
  LET p == D.parent[t] IN
  CASE how = "append"      -> Linked(D, c, t)
    [] how = "before"      -> IF p = None THEN D ELSE Linked(D, c, p)
    [] how = "replaceWith" ->
         LET E == [CleanData(D, GetAll(D, t)) EXCEPT
                     !.clean = @ \cup GetAll(D, t)]
         IN IF p = None THEN E ELSE Linked(Linked(E, t, None), c, p)

\* domManip: all the targets but the last get clones.
DomManip(D, how, targets, c) ==
  LET E == Fragment(D, c)
      f == CopyOf(D, c)
  IN IF Len(targets) = 1 THEN Put(E, how, targets[1], c)
     ELSE Put(Put(Clone(E, c, TRUE, f), how, targets[1], f[c]),
              how, targets[2], c)

\* Content that is one of the targets is left where it is: nothing is
\* inserted, and replaceWith removes the other targets.
Ignored(D, how, targets, c) ==
  LET others == {targets[i] : i \in DOMAIN targets} \ {c}
      other  == CHOOSE t \in others : TRUE
  IN IF how = "replaceWith" /\ others # {} THEN Remove(D, other) ELSE D

-----------------------------------------------------------------------------
(* Data.  user[n] is the page's own value.                                 *)

SetData(D, n, v) ==
  [D EXCEPT !.user[n] = v, !.answer[n] = None, !.clean = @ \ {n}]
RemoveData(D, n) == [D EXCEPT !.user[n] = None, !.answer[n] = None]
SetAttr(D, n, v) == [D EXCEPT !.attr[n] = v]

Value(D, n) == IF D.user[n] # None THEN D.user[n] ELSE D.attr[n]

\* mutant: the attribute is read each time
ReadThrough(D, n) == [D EXCEPT !.answer[n] = Value(D, n)]

\* data(key): an attribute that was read once is not read again.
Read(D, n) == [SetData(D, n, Value(D, n)) EXCEPT !.answer[n] = Value(D, n)]

\* data(): the attributes are read the first time only.
ReadAll(D, n) ==
  IF n \in D.hasAttrs THEN D
  ELSE [Read(D, n) EXCEPT !.hasAttrs = @ \cup {n}]

-----------------------------------------------------------------------------
(* Show and hide.  D.style[n] is the element's own style.display, and      *)
(* D.display[n] what hide() found there.  D.looks and D.asWas are history:  *)
(* what was asked of a node, and its style when hide() hid it.             *)

Display == {"", "none", "inline"}

BySheet(D, n) == n \in Veiled \/ D.origin[n] \in Veiled

IsHidden(D, n) ==
  \/ D.style[n] = "none"
  \/ D.style[n] = "" /\ Contained(D, n) /\ BySheet(D, n)

SetStyle(D, n, v) ==
  [D EXCEPT !.style[n] = v, !.looks[n] = None, !.asWas[n] = None]

\* mutant: what is hidden already is remembered as that
HideAgain(D, n) ==
  [D EXCEPT !.style[n] = "none", !.display[n] = D.style[n],
            !.looks[n] = "hidden", !.clean = @ \ {n}]

Hide(D, n) ==
  IF D.style[n] = "none" THEN [D EXCEPT !.looks[n] = "hidden"]
  ELSE [D EXCEPT !.style[n] = "none", !.display[n] = D.style[n],
                 !.asWas[n] = D.style[n],
                 !.looks[n] = "hidden", !.clean = @ \ {n}]

\* mutant: the style is taken away, not given back
ShowPlainly(D, n) ==
  LET E == IF D.style[n] = "none" THEN [D EXCEPT !.style[n] = ""] ELSE D
  IN [E EXCEPT !.style[n] = IF @ = "" /\ IsHidden(E, n) THEN "block" ELSE @,
               !.looks[n] = IF Contained(D, n) THEN "shown" ELSE None]

\* Give back what hide() found; what a style sheet hides gets the display of
\* its kind of element.
Show(D, n) ==
  LET E == IF D.style[n] = "none"
           THEN [D EXCEPT !.style[n] = IF D.display[n] = None THEN ""
                                       ELSE D.display[n]]
           ELSE D
  IN [E EXCEPT !.style[n] = IF @ = "" /\ IsHidden(E, n) THEN "block" ELSE @,
               !.looks[n] = IF Contained(D, n) THEN "shown" ELSE None]

Toggle(D, n) == IF IsHidden(D, n) THEN Show(D, n) ELSE Hide(D, n)

-----------------------------------------------------------------------------
(* Classes.  D.kept[n] is what toggleClass() took away; D.away is history: *)
(* what has not come back.                                                 *)

Class == {"c", "d"}

ASSUME ClassAssumption == \A C \in SUBSET Class : C # None

AddClass(D, n, c)    == [D EXCEPT !.class[n] = @ \cup {c}]
RemoveClass(D, n, c) == [D EXCEPT !.class[n] = @ \ {c}]
ToggleOne(D, n, c)   == IF c \in D.class[n] THEN RemoveClass(D, n, c)
                        ELSE AddClass(D, n, c)

\* mutant: no class at all is remembered as well
StripAlways(D, n) ==
  [D EXCEPT !.class[n] = {}, !.kept[n] = D.class[n], !.clean = @ \ {n},
            !.away[n] = IF D.class[n] = {} THEN @ ELSE D.class[n]]

\* toggleClass(false).
Strip(D, n) ==
  IF D.class[n] = {} THEN D
  ELSE [D EXCEPT !.class[n] = {}, !.kept[n] = D.class[n],
                 !.clean = @ \ {n}, !.away[n] = D.class[n]]

\* toggleClass().
ToggleAll(D, n) ==
  IF D.class[n] # {} THEN Strip(D, n)
  ELSE [D EXCEPT !.class[n] = IF D.kept[n] = None THEN {} ELSE D.kept[n],
                 !.away[n] = None]

-----------------------------------------------------------------------------
(* The fx queue.  Its functions are numbers, and 0 is "inprogress".        *)
(* D.running[n] are the functions that have not called next() yet.  The    *)
(* resolver of a promise waits in the hooks of the queues in D.waits.      *)

Progress == 0

\* The callbacks of hooks.empty.
FireEmpty(D, n) ==
  [D EXCEPT !.queue[n] = <<>>, !.hooks = @ \ {n}, !.waits = @ \ {n},
            !.count = @ - (IF n \in D.waits THEN 1 ELSE 0)]

First(q) == IF q # <<>> /\ Head(q) = Progress THEN Tail(q) ELSE q

\* The function that dequeue calls.
NextFunction(D, n) == IF First(D.queue[n]) = <<>> THEN None
               ELSE Head(First(D.queue[n]))

\* mutant: no sentinel
DequeueOpenly(D, n) ==
  LET q == First(D.queue[n])
  IN IF q = <<>> THEN FireEmpty(D, n)
     ELSE [D EXCEPT !.queue[n] = Tail(q), !.hooks = @ \cup {n},
                    !.running[n] = @ \cup {Head(q)}, !.last[n] = Head(q)]

Dequeue(D, n) ==
  LET q == First(D.queue[n])
  IN IF q = <<>> THEN FireEmpty(D, n)
     ELSE [D EXCEPT !.queue[n] = <<Progress>> \o Tail(q),
                    !.hooks = @ \cup {n},
                    !.running[n] = @ \cup {Head(q)}, !.last[n] = Head(q)]

\* mutant: a function goes before those that wait
QueueInFront(D, n, f) ==
  [D EXCEPT !.queue[n] = IF @ = <<>> THEN <<f>> ELSE <<Head(@), f>> \o Tail(@),
            !.hooks = @ \cup {n}, !.clean = @ \ {n}]

Queue(D, n, f) == [D EXCEPT !.queue[n] = Append(@, f), !.hooks = @ \cup {n},
                            !.clean = @ \ {n}]

\* clearQueue: the queue is set to nothing, and dequeued.
ClearQueue(D, n) == [FireEmpty(D, n) EXCEPT !.upset = @ \cup {n}]

\* The functions of n that have not finished.
Pending(D, n) ==
  ({D.queue[n][i] : i \in DOMAIN D.queue[n]} \ {Progress}) \cup D.running[n]

\* mutant: every element is waited for, whether it has a queue or not
PromiseAll(D, S) ==
  [D EXCEPT !.waits = S, !.count = Cardinality(S), !.asked = S,
            !.due = UNION {Pending(D, n) : n \in S}]

\* promise().
Promise(D, S) ==
  [D EXCEPT !.waits = S \cap D.hooks, !.count = Cardinality(S \cap D.hooks),
            !.asked = S, !.due = UNION {Pending(D, n) : n \in S}]
=============================================================================
