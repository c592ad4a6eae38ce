---------------------------- MODULE WebSocketFrames ----------------------------
(***************************************************************************)
(* How mongoose makes messages of the bytes a page sends over its          *)
(* websocket: mg_deliver_websocket_data, called again and again for every  *)
(* MG_EV_RECV until it returns 0.                                          *)
(*                                                                         *)
(* The receive buffer is worked on in place.  While a fragmented message   *)
(* is put together, the buffer starts with the flags of its first frame,   *)
(* their opcode cleared, and the reassLen bytes collected so far; the next *)
(* frame follows.  Bytes are numbers.  Of the length forms the one with 64 *)
(* bits is used with lengths below 2^16 only.                              *)
(*                                                                         *)
(* What a page sends are complete messages, none of them with a control    *)
(* frame between its fragments, and nothing after a close frame.           *)
(***************************************************************************)
EXTENDS Naturals, Sequences

CONSTANTS
  Frames,        \* the frames pages send, see IsFrame
  MaxFrames,     \* bound on the frames a page sends
  XorByte(_, _)  \* exclusive or of two bytes

Byte == 0..255

\* key: how it is masked, or <<>>; form: 2, 4 or 10 bytes from the flags to the length.
IsFrame(f) ==
  /\ f \in [fin : BOOLEAN, op : 0..15, data : Seq(Byte), key : Seq(Byte), form : {2, 4, 10}]
  /\ Len(f.key) \in {0, 4}
  /\ Len(f.data) < IF f.form = 2 THEN 126 ELSE 65536
  /\ f.op >= 8 => f.fin

ASSUME FramesAssumption == (\A f \in Frames : IsFrame(f)) /\ MaxFrames \in Nat

ASSUME XorAssumption ==
  \A a \in Byte, b \in Byte : XorByte(a, b) \in Byte /\ XorByte(XorByte(a, b), b) = a

VARIABLES
  wire,      \* the bytes the page has sent
  sent,      \* history: its frames, where each ends, its message so far, and the
             \* messages that are complete with it
  arrived,   \* how many of the bytes were read from the socket
  buf,       \* recv_mbuf
  reassLen,  \* reass_len
  pc,        \* "idle", or "deliver": inside the loop of mg_ws_handler
  got,       \* the messages given to the event handler
  closing    \* MG_F_SEND_AND_CLOSE

page == <<wire, sent>>
vars == <<page, arrived, buf, reassLen, pc, got, closing>>

-----------------------------------------------------------------------------
(* The page: the bytes of a frame *)

Masked(data, key) ==
  IF key = <<>> THEN data
  ELSE [i \in 1..Len(data) |-> XorByte(data[i], key[((i - 1) % 4) + 1])]

Flags(f) == (IF f.fin THEN 128 ELSE 0) + f.op

\* The flags and the length.
HeadBytes(f) ==
  LET n == Len(f.data)
      mask == IF f.key = <<>> THEN 0 ELSE 128
  IN  CASE f.form = 2  -> <<Flags(f), mask + n>>
        [] f.form = 4  -> <<Flags(f), mask + 126, n \div 256, n % 256>>
        [] f.form = 10 -> <<Flags(f), mask + 127, 0, 0, 0, 0, 0, 0, n \div 256, n % 256>>

Encoded(f) == HeadBytes(f) \o f.key \o Masked(f.data, f.key)

\* After k frames: where they end, whether a message is under way, its data so far, and
\* the messages that are complete.
EndOf(k) == IF k = 0 THEN 0 ELSE sent[k].end

UnderWay(k) == k > 0 /\ ~sent[k].frame.fin

Part(k) == IF UnderWay(k) THEN sent[k].message ELSE <<>>

Complete(k) == IF k = 0 THEN <<>> ELSE sent[k].complete

\* The messages complete with a frame f, the last of the message's, or not.
Completed(before, f, message) ==
  IF f.fin THEN Append(before, [control |-> f.op >= 8, data |-> message]) ELSE before

\* The page has sent its close.
Leaving == Len(sent) > 0 /\ sent[Len(sent)].frame.op = 8

\* The page sends another frame.
Send(f) ==
  LET k == Len(sent)
      message == Part(k) \o f.data
  IN  /\ k < MaxFrames
      /\ ~Leaving
      /\ (f.op = 0) = UnderWay(k)
      /\ wire' = wire \o Encoded(f)
      /\ sent' = Append(sent, [frame    |-> f,
                               end      |-> EndOf(k) + Len(Encoded(f)),
                               message  |-> message,
                               complete |-> Completed(Complete(k), f, message)])
      /\ UNCHANGED <<arrived, buf, reassLen, pc, got, closing>>

-----------------------------------------------------------------------------
(* mg_deliver_websocket_data *)

IsFragment(flags) == flags < 128 \/ flags % 16 = 0

IsFirstFragment(flags) == flags < 128 /\ flags % 16 # 0

\* The frame at the start of b: the sizes of its header, mask and data.  A header
\* that has not arrived whole has size 0.
Sizes(b) ==
  LET len == b[2] % 128
      mask == IF b[2] >= 128 THEN 4 ELSE 0
  IN  IF Len(b) < 2 THEN [header |-> 0, mask |-> 0, data |-> 0]
      ELSE IF len < 126 /\ Len(b) >= mask
           THEN [header |-> 2 + mask, mask |-> mask, data |-> len]
      ELSE IF len = 126 /\ Len(b) >= 4 + mask
           THEN [header |-> 4 + mask, mask |-> mask, data |-> 256 * b[3] + b[4]]
      ELSE IF Len(b) >= 10 + mask
           THEN [header |-> 10 + mask, mask |-> mask, data |-> 256 * b[9] + b[10]]
      ELSE [header |-> 0, mask |-> mask, data |-> 0]

Reass == buf # <<>> /\ IsFragment(buf[1])

\* The bytes in front of the frame that is looked at.
Collected ==
  IF Reass /\ ~IsFirstFragment(buf[1]) /\ Len(buf) >= 1 + reassLen THEN 1 + reassLen ELSE 0

Frame == SubSeq(buf, Collected + 1, Len(buf))

Whole == LET s == Sizes(Frame) IN s.header + s.data > 0 /\ s.header + s.data <= Len(Frame)

Data ==
  LET s == Sizes(Frame)
  IN  Masked(SubSeq(Frame, s.header + 1, s.header + s.data),
             SubSeq(Frame, s.header - s.mask + 1, s.header))

Behind == LET s == Sizes(Frame) IN SubSeq(Frame, s.header + s.data + 1, Len(Frame))

\* Mutant of Handle: the bit of the last fragment is taken for the opcode's.
Handle_FinCounts(flags, data) ==
  got' = Append(got, [control |-> flags >= 8, data |-> data])

\* The event handler is called with a message whose last frame has these flags.
Handle(flags, data) ==
  got' = Append(got, [control |-> (flags \div 8) % 2 = 1, data |-> data])

\* Mutant of Partial: what is left in the buffer is looked at again.
Partial_Spins ==
  /\ pc = "deliver" /\ ~Whole
  /\ pc' = IF buf = <<>> THEN "idle" ELSE pc
  /\ UNCHANGED <<page, arrived, buf, reassLen, got, closing>>

\* No frame has arrived whole: the loop ends.
Partial ==
  /\ pc = "deliver" /\ ~Whole
  /\ pc' = "idle"
  /\ UNCHANGED <<page, arrived, buf, reassLen, got, closing>>

\* Mutant of Unfragmented: every control frame closes.
Unfragmented_AnyControl ==
  /\ pc = "deliver" /\ Whole /\ ~Reass
  /\ Handle(Frame[1], Data)
  /\ buf' = Behind
  /\ reassLen' = 0
  /\ closing' = (closing \/ (Behind \o Frame)[1] % 16 >= 8)
  /\ UNCHANGED <<page, arrived, pc>>

\* A frame of its own.  The opcode that closes is looked for in the buffer after the
\* frame was taken out of it: it is the next frame's, if any of it is there.
Unfragmented ==
  /\ pc = "deliver" /\ Whole /\ ~Reass
  /\ Handle(Frame[1], Data)
  /\ buf' = Behind
  /\ reassLen' = 0
  /\ closing' = (closing \/ (Behind \o Frame)[1] % 16 = 8)
  /\ UNCHANGED <<page, arrived, pc>>

\* Mutant of MoveUp: the opcode of the first frame is left in place.
MoveUp_KeepsOpcode ==
  IF IsFirstFragment(Frame[1])
  THEN [buf |-> <<buf[1]>> \o Data \o Behind, len |-> Len(Data)]
  ELSE [buf |-> SubSeq(buf, 1, Collected) \o Data \o Behind, len |-> reassLen + Len(Data)]

\* The buffer and the length collected once the frame's data is moved up.
MoveUp ==
  IF IsFirstFragment(Frame[1])
  THEN [buf |-> <<buf[1] - (buf[1] % 16)>> \o Data \o Behind, len |-> Len(Data)]
  ELSE [buf |-> SubSeq(buf, 1, Collected) \o Data \o Behind, len |-> reassLen + Len(Data)]

\* Mutant of Fragment: the byte of flags stays when the message is taken out.
Fragment_LeavesFlags ==
  /\ pc = "deliver" /\ Whole /\ Reass
  /\ IF Frame[1] >= 128
     THEN /\ Handle(Frame[1], SubSeq(MoveUp.buf, 2, 1 + MoveUp.len))
          /\ buf' = SubSeq(MoveUp.buf, 1 + MoveUp.len, Len(MoveUp.buf))
          /\ reassLen' = 0
     ELSE /\ buf' = MoveUp.buf
          /\ reassLen' = MoveUp.len
          /\ UNCHANGED got
  /\ UNCHANGED <<page, arrived, pc, closing>>

Fragment ==
  /\ pc = "deliver" /\ Whole /\ Reass
  /\ IF Frame[1] >= 128
     THEN /\ Handle(Frame[1], SubSeq(MoveUp.buf, 2, 1 + MoveUp.len))
          /\ buf' = SubSeq(MoveUp.buf, 2 + MoveUp.len, Len(MoveUp.buf))
          /\ reassLen' = 0
     ELSE /\ buf' = MoveUp.buf
          /\ reassLen' = MoveUp.len
          /\ UNCHANGED got
  /\ UNCHANGED <<page, arrived, pc, closing>>

-----------------------------------------------------------------------------

\* One read from the socket, of any size, and MG_EV_RECV.
Read ==
  /\ pc = "idle"
  /\ \E n \in 1..(Len(wire) - arrived) :
       /\ buf' = buf \o SubSeq(wire, arrived + 1, arrived + n)
       /\ arrived' = arrived + n
  /\ pc' = "deliver"
  /\ UNCHANGED <<page, reassLen, got, closing>>

Init ==
  /\ wire = <<>> /\ sent = <<>> /\ arrived = 0
  /\ buf = <<>> /\ reassLen = 0 /\ pc = "idle" /\ got = <<>> /\ closing = FALSE

Next == Read \/ Partial \/ Unfragmented \/ Fragment \/ \E f \in Frames : Send(f)

\* The main thread goes on in the loop it is in.
Spec == Init /\ [][Next]_vars /\ WF_vars(Partial \/ Unfragmented \/ Fragment)

-----------------------------------------------------------------------------
(* Properties *)

\* Of h frames every byte was read, and of no more.
ArrivedUpTo(h) == EndOf(h) <= arrived /\ (h < Len(sent) => EndOf(h + 1) > arrived)

\* Between two reads the handler has been given the messages whose last byte is
\* there, in order, each once and with the data the page sent, however the bytes were
\* cut into reads and the messages into fragments.
MessagesDelivered ==
  pc = "idle" => \A h \in 0..Len(sent) : ArrivedUpTo(h) => got = Complete(h)

\* Nothing that was delivered stays in the buffer: between two reads it holds the
\* fragments of the message under way behind one byte of flags, and the bytes of the
\* frame under way.
NothingKept ==
  pc = "idle" => \A h \in 0..Len(sent) : ArrivedUpTo(h) =>
    Len(buf) = (IF UnderWay(h) THEN 1 + Len(Part(h)) ELSE 0) + (arrived - EndOf(h))

\* "client closes and close too": the connection is to be closed when the page's close
\* frame is there, and not before the close frame has begun to arrive.
ClosesWithPage ==
  /\ closing => \E k \in DOMAIN sent : sent[k].frame.op = 8 /\ EndOf(k - 1) < arrived
  /\ pc = "idle" => \A k \in DOMAIN sent :
       (sent[k].frame.op = 8 /\ sent[k].end <= arrived) => closing

Channel == INSTANCE MessageChannel WITH
  Data     <- Seq(Byte),
  messages <- Complete(Len(sent)),
  leaving  <- Leaving

\* What the event handler sees is a channel of whole messages that is closed by the page.
ImplementsChannel == Channel!Spec

\* The loop of mg_ws_handler ends after every read.
LoopEnds == pc = "deliver" ~> pc = "idle"

=============================================================================
