----------------------------- MODULE Callbacks -----------------------------
(***************************************************************************)
(* jQuery.Callbacks (jquery-3.2.0.slim.js of the streaming example): a     *)
(* list of functions that is fired with values.  A list is a record whose  *)
(* fields are the variables of the closure; the operators are its methods. *)
(*                                                                         *)
(*   list, gone  the array, or the empty string that replaces it           *)
(*   queue       values still to be fired                                  *)
(*   memory      the last value, None when it is forgotten                 *)
(*   index       firingIndex + 1: the place of the function being called   *)
(*   locked, fired, firing                                                 *)
(*                                                                         *)
(* A method that starts the loop of fire turns firing on; running the loop *)
(* is up to the module that owns the list, as the functions of the list    *)
(* run between its turns and may call every method again.                  *)
(***************************************************************************)
EXTENDS Naturals, Sequences, FiniteSets

CONSTANT None           \* no value

Option == {"once", "memory", "unique", "stopOnFalse"}

New(options) ==
  [options |-> options, list |-> <<>>, gone |-> FALSE, queue |-> <<>>,
   memory |-> None, index |-> 0,
   locked |-> FALSE, fired |-> FALSE, firing |-> FALSE]

Shift(c) == [c EXCEPT !.memory = Head(c.queue), !.queue = Tail(c.queue)]

\* The start of fire: single firing is enforced and the first value taken.
Begin(c) ==
  Shift([c EXCEPT !.locked = @ \/ "once" \in c.options,
                  !.fired = TRUE, !.firing = TRUE])

\* Entries are equal when they hold the same function.
Has(c, fn) == \E i \in DOMAIN c.list : c.list[i].f = fn.f

Push(c, fn) ==
  IF "unique" \in c.options /\ Has(c, fn)
  THEN c
  ELSE [c EXCEPT !.list = Append(@, fn)]

\* mutant: a list that is gone takes functions
AddToGone(c, fn) ==
  IF c.memory # None /\ ~c.firing
  THEN Begin(Push([c EXCEPT !.index = Len(c.list),
                            !.queue = Append(@, c.memory)], fn))
  ELSE Push(c, fn)

\* mutant: with memory the whole list is fired again
AddFromTheStart(c, fn) ==
  IF c.gone THEN c
  ELSE IF c.memory # None /\ ~c.firing
  THEN Begin(Push([c EXCEPT !.queue = Append(@, c.memory)], fn))
  ELSE Push(c, fn)

\* With memory of a past run the new function alone is fired, at once.
Add(c, fn) ==
  IF c.gone THEN c
  ELSE IF c.memory # None /\ ~c.firing
  THEN Begin(Push([c EXCEPT !.index = Len(c.list),
                            !.queue = Append(@, c.memory)], fn))
  ELSE Push(c, fn)

\* What splice leaves of s: all entries but those with the function f.
Without(s, f) ==
  LET rest[i \in 0..Len(s)] ==
        IF i = 0 THEN <<>>
        ELSE IF s[i].f = f THEN rest[i - 1] ELSE Append(rest[i - 1], s[i])
  IN rest[Len(s)]

\* mutant: firingIndex does not follow the functions that move up
RemoveOnly(c, fn) == [c EXCEPT !.list = Without(@, fn.f)]

\* Every occurrence goes; firingIndex stays on the function being called.
Remove(c, fn) ==
  [c EXCEPT !.list = Without(@, fn.f),
            !.index = @ - Cardinality({i \in DOMAIN c.list :
                                         i <= @ /\ c.list[i].f = fn.f})]

Empty(c) == [c EXCEPT !.list = <<>>]

Disable(c) ==
  [c EXCEPT !.locked = TRUE, !.queue = <<>>,
            !.list = <<>>, !.gone = TRUE, !.memory = None]

\* mutant: values that wait are fired
LockLater(c) ==
  IF c.memory = None /\ ~c.firing THEN Disable(c)
  ELSE [c EXCEPT !.locked = TRUE]

\* A list with memory, or one that is firing, goes on taking functions.
Lock(c) ==
  IF c.memory = None /\ ~c.firing
  THEN Disable(c)
  ELSE [c EXCEPT !.locked = TRUE, !.queue = <<>>]

\* mutant: a list that is locked takes a value all the same
FireAlways(c, value) ==
  LET queued == [c EXCEPT !.queue = Append(@, value)]
  IN IF c.firing THEN queued ELSE Begin(queued)

\* A value fired while the list is firing waits in the queue.
FireWith(c, value) ==
  IF c.locked THEN c
  ELSE LET queued == [c EXCEPT !.queue = Append(@, value)]
       IN IF c.firing THEN queued ELSE Begin(queued)

-----------------------------------------------------------------------------
(* The loop of fire.                                                       *)

\* There is a function to call with the value at hand.
Pending(c) == c.index < Len(c.list)
Advance(c) == [c EXCEPT !.index = @ + 1]
Current(c) == c.list[c.index + 1]

\* The function just called returned false.
StopOnFalse(c) ==
  IF "stopOnFalse" \in c.options
  THEN [c EXCEPT !.index = Len(c.list), !.memory = None]
  ELSE c

\* The next value starts over.
NextValue(c) == [Shift(c) EXCEPT !.index = 0]

\* The end: data is forgotten without "memory", a locked list is cleaned up.
Finish(c) ==
  LET done == [c EXCEPT !.memory = IF "memory" \in c.options THEN @ ELSE None,
                        !.index = 0, !.firing = FALSE]
  IN IF done.locked
     THEN [done EXCEPT !.list = <<>>, !.gone = done.memory = None]
     ELSE done
=============================================================================
