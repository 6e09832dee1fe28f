------------------------------ MODULE ChatRoom ------------------------------
(***************************************************************************)
(* The chat room of play-scala-chatroom-example and its page (app.js); the *)
(* room of play-java-chatroom-example is the same.  Each socket is a       *)
(* producer of a MergeHub, and a consumer of the BroadcastHub behind it.   *)
(*                                                                         *)
(* The hubs are Akka's.  A new consumer begins with the oldest message     *)
(* that not every consumer has taken; what the last consumer had not taken *)
(* when it left waits with all that comes until there is another.          *)
(*                                                                         *)
(* Bounds: each of Browser loads the page once and sends MaxSend texts;    *)
(* HubBuffer stands for the 256 messages of BroadcastHub; one message at   *)
(* most is on its way to a page.                                           *)
(***************************************************************************)
EXTENDS Integers, Sequences, FiniteSets

CONSTANTS Browser, MaxSend, HubBuffer

ASSUME ChatAssumption == MaxSend \in Nat /\ HubBuffer \in Nat \ {0}

VARIABLES browser,   \* per browser: its page
          uplink,    \* per browser: messages on their way to the MergeHub
          said,      \* what the hub has taken, in its order: <<who, number>>
          head,      \* how much of that is kept no more
          offset,    \* per consumer: how much of said it has taken, or -1
          downlink   \* per browser: messages on their way to it

chatVars == <<browser, uplink, said, head, offset, downlink>>

\* connection is the readyState of the WebSocket; bound, whether the handlers
\* of click and keypress are there; from, the offset it began with.
Page0 == [connection |-> "none", disabled |-> FALSE, bound |-> FALSE,
          sends |-> 0, early |-> FALSE, shown |-> <<>>, from |-> 0]

ChatInit ==
  /\ browser = [b \in Browser |-> Page0]
  /\ uplink = [b \in Browser |-> <<>>]
  /\ said = <<>>
  /\ head = 0
  /\ offset = [b \in Browser |-> -1]
  /\ downlink = [b \in Browser |-> <<>>]

Consumers == {b \in Browser : offset[b] >= 0}

-----------------------------------------------------------------------------
(* The page.                                                               *)

\* mutant: the handlers are bound with the rest
LoadBound(b) ==
  /\ browser[b].connection = "none"
  /\ browser' = [browser EXCEPT ![b] =
                   [@ EXCEPT !.connection = "connecting", !.bound = TRUE,
                             !.disabled = TRUE]]
  /\ UNCHANGED <<uplink, said, head, offset, downlink>>

\* The document is ready: connect, and disable the button.
Load(b) ==
  /\ browser[b].connection = "none"
  /\ browser' = [browser EXCEPT ![b] =
                   [@ EXCEPT !.connection = "connecting", !.disabled = TRUE]]
  /\ UNCHANGED <<uplink, said, head, offset, downlink>>

onopen(b) ==
  /\ browser[b].connection = "opening"
  /\ browser' = [browser EXCEPT ![b] =
                   [@ EXCEPT !.connection = "open", !.disabled = FALSE,
                             !.bound = TRUE]]
  /\ UNCHANGED <<uplink, said, head, offset, downlink>>

\* send, by a click or by Enter.  The text has gone from the input; a
\* connection that is closed discards it, and nothing tells the user.
Send(b, by) ==
  /\ browser[b].bound
  /\ by = "click" => ~browser[b].disabled
  /\ browser[b].sends < MaxSend
  /\ browser' = [browser EXCEPT ![b] =
                   [@ EXCEPT !.sends = browser[b].sends + 1,
                             !.early = IF browser[b].connection = "connecting"
                                       THEN TRUE ELSE browser[b].early]]
  /\ uplink' = IF browser[b].connection \in {"opening", "open"}
               THEN [uplink EXCEPT
                       ![b] = Append(@, <<b, browser[b].sends + 1>>)]
               ELSE uplink
  /\ UNCHANGED <<said, head, offset, downlink>>

onmessage(b) ==
  /\ downlink[b] # <<>>
  /\ browser[b].connection = "open"
  /\ browser' = [browser EXCEPT ![b].shown = Append(@, Head(downlink[b]))]
  /\ downlink' = [downlink EXCEPT ![b] = Tail(@)]
  /\ UNCHANGED <<uplink, said, head, offset>>

-----------------------------------------------------------------------------
(* The server.                                                             *)

\* chat: the same origin, or refused.
Accept(b) ==
  /\ browser[b].connection = "connecting"
  /\ browser' = [browser EXCEPT ![b] =
                   [@ EXCEPT !.connection = "opening", !.from = head]]
  /\ offset' = [offset EXCEPT ![b] = head]
  /\ UNCHANGED <<uplink, said, head, downlink>>

Reject(b) ==
  /\ browser[b].connection = "connecting"
  /\ browser' = [browser EXCEPT ![b].connection = "closed"]
  /\ UNCHANGED <<uplink, said, head, offset, downlink>>

\* mutant: what came last goes first
MergeLast(b) ==
  /\ uplink[b] # <<>>
  /\ Len(said) - head < HubBuffer
  /\ said' = Append(said, uplink[b][Len(uplink[b])])
  /\ uplink' = [uplink EXCEPT ![b] = SubSeq(@, 1, Len(@) - 1)]
  /\ UNCHANGED <<browser, head, offset, downlink>>

\* The MergeHub passes a message to the BroadcastHub, when that has room.
Merge(b) ==
  /\ uplink[b] # <<>>
  /\ Len(said) - head < HubBuffer
  /\ said' = Append(said, Head(uplink[b]))
  /\ uplink' = [uplink EXCEPT ![b] = Tail(@)]
  /\ UNCHANGED <<browser, head, offset, downlink>>

\* How much nobody needs any more: with no consumer, no more than before.
Advanced(o) ==
  LET left == {b \in Browser : o[b] >= 0}
  IN IF left = {} THEN head
     ELSE CHOOSE k \in {o[b] : b \in left} : \A b \in left : k <= o[b]

\* mutant: a message goes to the first who takes it
TakeForAll(b) ==
  /\ offset[b] >= 0 /\ offset[b] < Len(said)
  /\ downlink[b] = <<>>
  /\ offset' = [c \in Browser |-> IF offset[c] = offset[b]
                                  THEN offset[c] + 1 ELSE offset[c]]
  /\ head' = Advanced(offset')
  /\ downlink' = [downlink EXCEPT ![b] = Append(@, said[offset[b] + 1])]
  /\ UNCHANGED <<browser, uplink, said>>

\* A consumer takes the next message.
Take(b) ==
  /\ offset[b] >= 0 /\ offset[b] < Len(said)
  /\ downlink[b] = <<>>
  /\ offset' = [offset EXCEPT ![b] = @ + 1]
  /\ head' = Advanced(offset')
  /\ downlink' = [downlink EXCEPT ![b] = Append(@, said[offset[b] + 1])]
  /\ UNCHANGED <<browser, uplink, said>>

\* mutant: the consumer stays
CloseHalf(b) ==
  /\ browser[b].connection \in {"opening", "open"}
  /\ browser' = [browser EXCEPT ![b].connection = "closed"]
  /\ \E k \in 0..Len(uplink[b]) :
       uplink' = [uplink EXCEPT ![b] = SubSeq(@, 1, k)]
  /\ UNCHANGED <<said, head, offset, downlink>>

\* The connection ends, on either side: what is on its way is lost, or some
\* of it has come before.
Close(b) ==
  /\ browser[b].connection \in {"opening", "open"}
  /\ browser' = [browser EXCEPT ![b].connection = "closed"]
  /\ offset' = [offset EXCEPT ![b] = -1]
  /\ head' = IF offset[b] = head THEN Advanced(offset') ELSE head
  /\ \E k \in 0..Len(uplink[b]) :
       uplink' = [uplink EXCEPT ![b] = SubSeq(@, 1, k)]
  /\ downlink' = [downlink EXCEPT ![b] = <<>>]
  /\ UNCHANGED said

Chats(b) == onopen(b) \/ onmessage(b) \/ Merge(b) \/ Take(b)

ChatNext ==
  \E b \in Browser :
    \/ Load(b) \/ Accept(b) \/ Reject(b) \/ Close(b)
    \/ \E by \in {"click", "Enter"} : Send(b, by)
    \/ Chats(b)

\* The hubs and the sockets go on, and open pages read.
ChatFairness == WF_chatVars(\E b \in Browser : Chats(b))

-----------------------------------------------------------------------------
\* Types; offsets stay within what is kept, and consumers are connections.
ChatOK ==
  /\ head \in 0..Len(said) /\ Len(said) - head <= HubBuffer
  /\ \A b \in Browser :
       /\ offset[b] \in {-1} \cup head..Len(said)
       /\ offset[b] >= 0 <=> browser[b].connection \in {"opening", "open"}
       /\ Len(downlink[b]) <= 1
       /\ browser[b].sends \in 0..MaxSend

\* send is never called on a connection that is not there yet (it would
\* throw, with the text gone from the input).
NeverTooEarly == \A b \in Browser : ~browser[b].early

\* Everybody sees the same conversation, from where they came in, without
\* gaps and in one order.
OneConversation ==
  \A b \in Browser :
    \A i \in DOMAIN browser[b].shown :
      browser[b].shown[i] = said[browser[b].from + i]

\* What one browser sends is said in the order in which it was sent, once.
OwnOrder ==
  \A i, j \in DOMAIN said :
    i < j /\ said[i][1] = said[j][1] => said[i][2] < said[j][2]

\* All that is sent is said, and shown by a page that is open, in the end, or
\* that page closes: nobody who has gone can hold the room up.
EveryoneHears ==
  \A b \in Browser :
    browser[b].connection = "open" ~>
      \/ browser[b].connection = "closed"
      \/ /\ \A c \in Browser : uplink[c] = <<>>
         /\ browser[b].from + Len(browser[b].shown) = Len(said)

\* The room takes each message once and in the order of its speaker, keeps what
\* is still wanted, and no page speaks before it is connected.
ChatSafe == ChatOK /\ NeverTooEarly /\ OwnOrder
=============================================================================
