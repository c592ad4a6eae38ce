---------------------------- MODULE MessageChannel ----------------------------
(***************************************************************************)
(* What a page's websocket is for eventHandler: a channel of messages.     *)
(* Each message is handed over whole, once and in the order of sending;    *)
(* frames, masks, fragments and reads are not here.  Module                *)
(* WebSocketFrames, which has them, is shown to implement this one.        *)
(*                                                                         *)
(* After its close the page sends nothing.  The connection is marked for   *)
(* closing with the close at the latest, and may be with a message before  *)
(* it, but never before the page has sent its close.                       *)
(***************************************************************************)
EXTENDS Naturals, Sequences

CONSTANT Data  \* what a message may hold

VARIABLES
  messages,  \* those the page has sent
  leaving,   \* the last of them is its close
  got,       \* those given to the event handler
  closing    \* the connection is to be closed

vars == <<messages, leaving, got, closing>>

Messages == [control : BOOLEAN, data : Data]

Init == messages = <<>> /\ ~leaving /\ got = <<>> /\ ~closing

\* Any message; only a control message can be the close.
Send ==
  /\ ~leaving
  /\ Len(messages') = Len(messages) + 1
  /\ LET m == messages'[Len(messages) + 1]
     IN  /\ m \in Messages
         /\ messages' = Append(messages, m)
         /\ leaving' => m.control
  /\ leaving' \in BOOLEAN
  /\ UNCHANGED <<got, closing>>

Deliver ==
  /\ Len(got) < Len(messages)
  /\ got' = Append(got, messages[Len(got) + 1])
  /\ closing' = closing \/ closing' = leaving
  /\ leaving /\ got' = messages => closing'
  /\ UNCHANGED <<messages, leaving>>

Next == Send \/ Deliver

Spec == Init /\ [][Next]_vars

=============================================================================
