------------------------- MODULE WebSocketFramesProofs -------------------------
(***************************************************************************)
(* Proofs about WebSocketFrames: messages are delivered whole, once and in *)
(* order, nothing of them stays in the buffer, and the connection closes   *)
(* with the page, for frames of any size, any number of them, and any cut  *)
(* into reads.  To the event handler the frames are a MessageChannel.      *)
(***************************************************************************)
EXTENDS WebSocketFrames, SequenceTheorems, TLAPS

Given == [control : BOOLEAN, data : Seq(Byte)]

SentFrame ==
  [frame : Frames, end : Nat, message : Seq(Byte), complete : Seq(Given)]

TypeInv ==
  /\ wire \in Seq(Byte) /\ sent \in Seq(SentFrame)
  /\ arrived \in 0..Len(wire)
  /\ buf \in Seq(Byte) /\ reassLen \in Nat /\ pc \in {"idle", "deliver"}
  /\ got \in Seq(Given)
  /\ closing \in BOOLEAN

\* Frame k is on the wire from where the frame before ends.
FrameInv(k) ==
  LET f == sent[k].frame
  IN  /\ sent[k].end = EndOf(k - 1) + Len(Encoded(f))
      /\ sent[k].end <= Len(wire)
      /\ \A i \in 1..Len(Encoded(f)) : wire[EndOf(k - 1) + i] = Encoded(f)[i]
      /\ (f.op = 0) = UnderWay(k - 1)
      /\ sent[k].message = Part(k - 1) \o f.data
      /\ sent[k].complete = Completed(Complete(k - 1), f, sent[k].message)
      /\ f.op = 8 => k = Len(sent)

Begins(s, t) == Len(s) <= Len(t) /\ \A i \in 1..Len(s) : t[i] = s[i]

PageInv ==
  /\ Len(wire) = EndOf(Len(sent))
  /\ \A k \in 1..Len(sent) : FrameInv(k)
  /\ \A k \in 1..Len(sent) : \A j \in 0..(k - 1) :
       EndOf(j) < EndOf(k) /\ Begins(Complete(j), Complete(k))

\* What has arrived behind the first h frames.
Rest(h) == SubSeq(wire, EndOf(h) + 1, arrived)

\* What the buffer holds before it.
Prefix(h) == IF UnderWay(h) THEN <<0>> \o Part(h) ELSE <<>>

\* The handler is done with the first h frames.
Done(h) ==
  /\ EndOf(h) <= arrived
  /\ buf = Prefix(h) \o Rest(h)
  /\ UnderWay(h) => reassLen = Len(Part(h))
  /\ got = Complete(h)
  /\ \A k \in 1..h : sent[k].frame.op = 8 => closing
  /\ pc = "idle" /\ h < Len(sent) => EndOf(h + 1) > arrived

ClosingInv ==
  closing => \E k \in 1..Len(sent) : sent[k].frame.op = 8 /\ EndOf(k - 1) < arrived

Inv ==
  /\ TypeInv /\ PageInv /\ ClosingInv
  /\ \E h \in 0..Len(sent) : Done(h)

-----------------------------------------------------------------------------
(* Lemmas: the bytes of a frame *)

LEMMA MaskedType ==
  ASSUME NEW d \in Seq(Byte), NEW key \in Seq(Byte), Len(key) \in {0, 4}
  PROVE  /\ Masked(d, key) \in Seq(Byte) /\ Len(Masked(d, key)) = Len(d)
         /\ Masked(Masked(d, key), key) = d
<1>1. CASE key = <<>>
  BY <1>1 DEF Masked
<1>2. CASE key # <<>>
  <2>. DEFINE k(i) == key[((i - 1) % 4) + 1]
              m == [i \in 1..Len(d) |-> XorByte(d[i], k(i))]
  <2>1. Len(key) = 4 /\ Len(d) \in Nat
    BY <1>2
  <2>2. ASSUME NEW i \in 1..Len(d)
        PROVE  k(i) \in Byte /\ d[i] \in Byte
    <3>1. ((i - 1) % 4) + 1 \in 1..4
      BY <2>1
    <3>. QED
      BY <2>1, <3>1, ElementOfSeq
  <2>. HIDE DEF k
  <2>3. ASSUME NEW i \in 1..Len(d)
        PROVE  XorByte(d[i], k(i)) \in Byte /\ XorByte(XorByte(d[i], k(i)), k(i)) = d[i]
    BY <2>2, XorAssumption
  <2>4. m \in Seq(Byte) /\ Len(m) = Len(d) /\ \A i \in 1..Len(d) : m[i] = XorByte(d[i], k(i))
    BY <2>1, <2>3
  <2>5. \A x : Masked(x, key) = [i \in 1..Len(x) |-> XorByte(x[i], k(i))]
    BY <1>2 DEF Masked, k
  <2>6. Masked(d, key) = m
    BY <2>5
  <2>. HIDE DEF m
  <2>. DEFINE u == Masked(m, key)
  <2>7. u = [i \in 1..Len(d) |-> XorByte(m[i], k(i))]
    BY <2>4, <2>5
  <2>8. \A i \in 1..Len(d) : u[i] = d[i]
    BY <2>3, <2>4, <2>7
  <2>9. u \in Seq(Byte) /\ Len(u) = Len(d)
    <3>1. \A i \in 1..Len(d) : XorByte(m[i], k(i)) \in Byte
      BY <2>2, <2>3, <2>4
    <3>. QED
      BY <2>1, <2>7, <3>1
  <2>. HIDE DEF u
  <2>10. u = d
    BY <2>8, <2>9, SeqEqual
  <2>. QED
    BY <2>4, <2>6, <2>10 DEF u
<1>. QED
  BY <1>1, <1>2

LEMMA FrameFields ==
  ASSUME NEW f \in Frames
  PROVE  /\ f.fin \in BOOLEAN /\ f.op \in 0..15 /\ f.form \in {2, 4, 10}
         /\ f.data \in Seq(Byte) /\ f.key \in Seq(Byte) /\ Len(f.key) \in {0, 4}
         /\ Len(f.data) \in Nat /\ Len(f.data) < 65536 /\ (f.form = 2 => Len(f.data) < 126)
         /\ (f.key = <<>> <=> Len(f.key) = 0) /\ (f.op >= 8 => f.fin)
  BY FramesAssumption DEF IsFrame

LEMMA CompletedType ==
  ASSUME NEW f \in Frames, NEW c \in Seq(Given), NEW m \in Seq(Byte)
  PROVE  /\ Completed(c, f, m) \in Seq(Given)
         /\ Len(Completed(c, f, m)) = Len(c) + IF f.fin THEN 1 ELSE 0
         /\ Begins(c, Completed(c, f, m))
         /\ f.fin => Completed(c, f, m)[Len(c) + 1] = [control |-> f.op >= 8, data |-> m]
<1>. DEFINE x == [control |-> f.op >= 8, data |-> m]
<1>1. f.op \in 0..15 /\ f.fin \in BOOLEAN
  BY FrameFields
<1>2. x \in Given
  <2>1. (f.op >= 8) \in BOOLEAN
    OBVIOUS
  <2>. QED
    BY <2>1 DEF Given
<1>3. Completed(c, f, m) = IF f.fin THEN Append(c, x) ELSE c
  BY DEF Completed
<1>. HIDE DEF x
<1>4. CASE f.fin
  BY <1>2, <1>3, <1>4 DEF Begins, x
<1>5. CASE ~f.fin
  BY <1>3, <1>5 DEF Begins
<1>. QED
  BY <1>4, <1>5

LEMMA FlagsType ==
  ASSUME NEW f \in Frames
  PROVE  /\ Flags(f) \in Byte /\ Flags(f) % 16 = f.op
         /\ (Flags(f) >= 128 <=> f.fin)
         /\ (((Flags(f) \div 8) % 2 = 1) <=> f.op >= 8)
         /\ Flags(f) < 128 => Flags(f) - (Flags(f) % 16) = 0
<1>1. f.fin \in BOOLEAN /\ f.op \in 0..15
  BY FrameFields
<1>2. CASE f.fin
  <2>1. Flags(f) = 128 + f.op
    BY <1>2 DEF Flags
  <2>. QED
    BY <1>1, <1>2, <2>1 DEF Byte
<1>3. CASE ~f.fin
  <2>1. Flags(f) = f.op /\ f.op < 8
    BY <1>1, <1>3, FrameFields DEF Flags
  <2>. QED
    BY <1>1, <1>3, <2>1 DEF Byte
<1>. QED
  BY <1>1, <1>2, <1>3

MaskBit(f) == IF f.key = <<>> THEN 0 ELSE 128

LEMMA HeadType ==
  ASSUME NEW f \in Frames
  PROVE  /\ HeadBytes(f) \in Seq(Byte) /\ Len(HeadBytes(f)) = f.form
         /\ HeadBytes(f)[1] = Flags(f)
         /\ f.form = 2 => HeadBytes(f)[2] = MaskBit(f) + Len(f.data)
         /\ f.form = 4 => /\ HeadBytes(f)[2] = MaskBit(f) + 126
                          /\ HeadBytes(f)[3] = Len(f.data) \div 256
                          /\ HeadBytes(f)[4] = Len(f.data) % 256
         /\ f.form = 10 => /\ HeadBytes(f)[2] = MaskBit(f) + 127
                           /\ HeadBytes(f)[9] = Len(f.data) \div 256
                           /\ HeadBytes(f)[10] = Len(f.data) % 256
<1>. DEFINE n == Len(f.data)
            x == Flags(f)
            hi == n \div 256
            lo == n % 256
            y2 == MaskBit(f) + n
            y4 == MaskBit(f) + 126
            y10 == MaskBit(f) + 127
<1>1. n \in Nat /\ n < 65536 /\ (f.form = 2 => n < 126) /\ f.form \in {2, 4, 10}
  BY FrameFields
<1>2. MaskBit(f) \in {0, 128}
  BY DEF MaskBit
<1>3. HeadBytes(f) =
        CASE f.form = 2  -> <<x, y2>>
          [] f.form = 4  -> <<x, y4, hi, lo>>
          [] f.form = 10 -> <<x, y10, 0, 0, 0, 0, 0, 0, hi, lo>>
  BY DEF HeadBytes, MaskBit
<1>. HIDE DEF n
<1>4. hi \in Byte /\ lo \in Byte /\ y4 \in Byte /\ y10 \in Byte /\ (f.form = 2 => y2 \in Byte)
  BY <1>1, <1>2 DEF Byte
<1>5. x \in Byte
  BY FlagsType
<1>. HIDE DEF hi, lo, x, y2, y4, y10
<1>. DEFINE t == HeadBytes(f)
            Shape == /\ t \in Seq(Byte) /\ Len(t) = f.form /\ t[1] = x
                     /\ f.form = 2 => t[2] = y2
                     /\ f.form = 4 => t[2] = y4 /\ t[3] = hi /\ t[4] = lo
                     /\ f.form = 10 => t[2] = y10 /\ t[9] = hi /\ t[10] = lo
<1>6. ASSUME f.form = 2
      PROVE  Shape
  <2>1. HeadBytes(f) = <<x, y2>>
    BY <1>3, <1>6
  <2>2. <<x, y2>> \in Seq(Byte) /\ Len(<<x, y2>>) = 2
    BY <1>4, <1>5, <1>6
  <2>. QED
    BY <1>6, <2>1, <2>2
<1>7. ASSUME f.form = 4
      PROVE  Shape
  <2>1. HeadBytes(f) = <<x, y4, hi, lo>>
    BY <1>3, <1>7
  <2>2. <<x, y4, hi, lo>> \in Seq(Byte) /\ Len(<<x, y4, hi, lo>>) = 4
    BY <1>4, <1>5
  <2>. QED
    BY <1>7, <2>1, <2>2
<1>8. ASSUME f.form = 10
      PROVE  Shape
  <2>1. HeadBytes(f) = <<x, y10, 0, 0, 0, 0, 0, 0, hi, lo>>
    BY <1>3, <1>8
  <2>. DEFINE u == <<x, y10, 0, 0, 0, 0, 0, 0, hi, lo>>
  <2>2. u \in Seq(Byte) /\ Len(u) = 10
    <3>1. 0 \in Byte
      BY DEF Byte
    <3>. QED
      BY <1>4, <1>5, <3>1
  <2>3. u[1] = x /\ u[2] = y10 /\ u[9] = hi /\ u[10] = lo
    OBVIOUS
  <2>4. t = u
    BY <2>1
  <2>. HIDE DEF t, u
  <2>. QED
    BY <1>8, <2>2, <2>3, <2>4
<1>9. Shape
  BY <1>1, <1>6, <1>7, <1>8
<1>. QED
  BY <1>9, Zenon DEF x, y2, y4, y10, hi, lo, n

\* Where flags, length, key and data are in the bytes of a frame.
LEMMA EncodedType ==
  ASSUME NEW f \in Frames
  PROVE  /\ Encoded(f) \in Seq(Byte) /\ Len(Encoded(f)) = f.form + Len(f.key) + Len(f.data)
         /\ \A i \in 1..f.form : Encoded(f)[i] = HeadBytes(f)[i]
         /\ \A i \in 1..Len(f.key) : Encoded(f)[f.form + i] = f.key[i]
         /\ \A i \in 1..Len(f.data) :
              Encoded(f)[f.form + Len(f.key) + i] = Masked(f.data, f.key)[i]
<1>. DEFINE h == HeadBytes(f)  k == f.key  d == Masked(f.data, f.key)
            n == Len(f.data)  m == Len(f.key)  l == f.form
<1>1. h \in Seq(Byte) /\ Len(h) = l /\ k \in Seq(Byte) /\ d \in Seq(Byte) /\ Len(d) = n
      /\ Len(k) = m
  <2>1. f.data \in Seq(Byte) /\ f.key \in Seq(Byte) /\ Len(f.key) \in {0, 4}
    BY FrameFields
  <2>. QED
    BY <2>1, HeadType, MaskedType
<1>2. l \in Nat /\ m \in Nat /\ n \in Nat
  BY FrameFields
<1>3. Encoded(f) = (h \o k) \o d
  BY DEF Encoded
<1>. HIDE DEF h, k, d, n, m, l
<1>. DEFINE a == h \o k
<1>4. /\ a \in Seq(Byte) /\ Len(a) = l + m
      /\ \A i \in 1..(l + m) : a[i] = IF i <= l THEN h[i] ELSE k[i - l]
  BY <1>1, ConcatProperties
<1>. HIDE DEF a
<1>. DEFINE e == a \o d
<1>5. /\ e \in Seq(Byte) /\ Len(e) = l + m + n
      /\ \A i \in 1..(l + m + n) : e[i] = IF i <= l + m THEN a[i] ELSE d[i - (l + m)]
  <2>1. /\ a \o d \in Seq(Byte) /\ Len(a \o d) = Len(a) + Len(d)
        /\ \A i \in 1..(Len(a) + Len(d)) :
             (a \o d)[i] = IF i <= Len(a) THEN a[i] ELSE d[i - Len(a)]
    <3>1. a \in Seq(Byte) /\ d \in Seq(Byte)
      BY <1>1, <1>4
    <3>. QED
      BY <3>1, ConcatProperties
  <2>2. Len(a) = l + m /\ Len(d) = n
    BY <1>1, <1>4
  <2>. QED
    BY <2>1, <2>2
<1>6. e = Encoded(f)
  BY <1>3 DEF a
<1>. HIDE DEF e
<1>7. \A i \in 1..l : e[i] = h[i]
  BY <1>2, <1>4, <1>5
<1>8. ASSUME NEW i \in 1..m
      PROVE  e[l + i] = k[i]
  <2>1. l + i \in 1..(l + m) /\ l + i \in 1..(l + m + n) /\ ~(l + i <= l) /\ (l + i) - l = i
        /\ l + i <= l + m
    BY <1>2
  <2>. QED
    BY <1>4, <1>5, <2>1
<1>9. ASSUME NEW i \in 1..n
      PROVE  e[l + m + i] = d[i]
  <2>1. l + m + i \in 1..(l + m + n) /\ ~(l + m + i <= l + m) /\ (l + m + i) - (l + m) = i
    BY <1>2
  <2>. QED
    BY <1>5, <2>1
<1>10. e \in Seq(Byte) /\ Len(e) = l + m + n
  BY <1>5
<1>. QED
  BY <1>6, <1>7, <1>8, <1>9, <1>10 DEF h, k, d, n, m, l

LEMMA EncodedSize ==
  ASSUME NEW f \in Frames
  PROVE  Len(Encoded(f)) \in Nat /\ Len(Encoded(f)) > 0
<1>. DEFINE l == f.form  m == Len(f.key)  n == Len(f.data)
<1>1. l \in {2, 4, 10} /\ m \in Nat /\ n \in Nat /\ Len(Encoded(f)) = l + m + n
  BY FrameFields, EncodedType
<1>. HIDE DEF l, m, n
<1>. QED
  BY <1>1

\* The number of bytes of a frame before its data.
Header(f) == f.form + Len(f.key)

\* At the head of b are the bytes of frame f, or the first of them.
Starts(b, f) == \A i \in 1..Len(b) : i <= Len(Encoded(f)) => b[i] = Encoded(f)[i]

LEMMA FirstBytes ==
  ASSUME NEW f \in Frames, NEW b \in Seq(Byte), Starts(b, f)
  PROVE  /\ Len(Encoded(f)) = Header(f) + Len(f.data)
         /\ \A i \in 1..f.form : i <= Len(b) => b[i] = HeadBytes(f)[i]
<1>1. /\ Len(Encoded(f)) = f.form + Len(f.key) + Len(f.data)
      /\ \A i \in 1..f.form : Encoded(f)[i] = HeadBytes(f)[i]
      /\ f.form \in Nat /\ Len(f.key) \in Nat /\ Len(f.data) \in Nat /\ Len(b) \in Nat
  <2>1. f.form \in Nat /\ Len(f.key) \in Nat /\ Len(f.data) \in Nat /\ Len(b) \in Nat
    BY FrameFields
  <2>. QED
    BY <2>1, EncodedType
<1>2. ASSUME NEW i \in 1..f.form, i <= Len(b)
      PROVE  b[i] = HeadBytes(f)[i]
  <2>1. i \in 1..Len(b) /\ i <= Len(Encoded(f))
    BY <1>1, <1>2
  <2>. QED
    BY <1>1, <2>1 DEF Starts
<1>. QED
  BY <1>1, <1>2 DEF Header

LEMMA LengthCode ==
  ASSUME NEW m \in {0, 4}, NEW code \in 0..127, NEW x \in Nat
  PROVE  x = (IF m = 0 THEN 0 ELSE 128) + code =>
           x % 128 = code /\ (IF x >= 128 THEN 4 ELSE 0) = m
<1>. SUFFICES ASSUME x = (IF m = 0 THEN 0 ELSE 128) + code
              PROVE  x % 128 = code /\ (IF x >= 128 THEN 4 ELSE 0) = m
  OBVIOUS
<1>1. CASE m = 0
  <2>1. x = code
    BY <1>1
  <2>. QED
    BY <1>1, <2>1
<1>2. CASE m = 4
  <2>1. x = 128 + code
    BY <1>2
  <2>. QED
    BY <1>2, <2>1
<1>. QED
  BY <1>1, <1>2

\* mg_deliver_websocket_data's reading of a header, by its second byte.
LEMMA SizesCases ==
  ASSUME NEW b \in Seq(Byte), NEW m \in {0, 4}, NEW code \in 0..127,
         Len(b) >= 2 => b[2] = (IF m = 0 THEN 0 ELSE 128) + code
  PROVE  \/ /\ Len(b) < 2 \/ (code < 126 /\ Len(b) < m) \/ (code = 126 /\ Len(b) < 4 + m)
               \/ (code = 127 /\ Len(b) < 10 + m)
            /\ Sizes(b).header = 0 /\ Sizes(b).data = 0
         \/ /\ Len(b) >= 2 /\ code < 126 /\ Len(b) >= m
            /\ Sizes(b) = [header |-> 2 + m, mask |-> m, data |-> code]
         \/ /\ code = 126 /\ Len(b) >= 4 + m
            /\ Sizes(b) = [header |-> 4 + m, mask |-> m, data |-> 256 * b[3] + b[4]]
         \/ /\ code = 127 /\ Len(b) >= 10 + m
            /\ Sizes(b) = [header |-> 10 + m, mask |-> m, data |-> 256 * b[9] + b[10]]
<1>. DEFINE l == Len(b)  x == b[2]  n4 == 256 * b[3] + b[4]  n10 == 256 * b[9] + b[10]
            c == x % 128  k == IF x >= 128 THEN 4 ELSE 0
<1>1. Sizes(b) =
        IF l < 2 THEN [header |-> 0, mask |-> 0, data |-> 0]
        ELSE IF c < 126 /\ l >= k
             THEN [header |-> 2 + k, mask |-> k, data |-> c]
        ELSE IF c = 126 /\ l >= 4 + k
             THEN [header |-> 4 + k, mask |-> k, data |-> n4]
        ELSE IF l >= 10 + k
             THEN [header |-> 10 + k, mask |-> k, data |-> n10]
        ELSE [header |-> 0, mask |-> k, data |-> 0]
  BY DEF Sizes
<1>2. ASSUME l >= 2
      PROVE  c = code /\ k = m
  <2>1. x = (IF m = 0 THEN 0 ELSE 128) + code
    BY <1>2
  <2>2. x \in Nat
    BY <2>1
  <2>. HIDE DEF x
  <2>. QED
    BY <2>1, <2>2, LengthCode
<1>3. l \in Nat /\ m \in {0, 4} /\ code \in 0..127
  OBVIOUS
<1>. HIDE DEF l, x, n4, n10, c, k
<1>4. CASE l < 2
  <2>1. Sizes(b) = [header |-> 0, mask |-> 0, data |-> 0]
    BY <1>1, <1>4
  <2>. QED
    BY <1>4, <2>1 DEF l
<1>5. CASE l >= 2
  <2>1. Sizes(b) =
          IF code < 126 /\ l >= m THEN [header |-> 2 + m, mask |-> m, data |-> code]
          ELSE IF code = 126 /\ l >= 4 + m THEN [header |-> 4 + m, mask |-> m, data |-> n4]
          ELSE IF l >= 10 + m THEN [header |-> 10 + m, mask |-> m, data |-> n10]
          ELSE [header |-> 0, mask |-> m, data |-> 0]
    BY <1>1, <1>2, <1>3, <1>5
  <2>2. CASE code < 126 /\ l >= m
    BY <1>5, <2>1, <2>2 DEF l
  <2>3. CASE code = 126 /\ l >= 4 + m
    BY <2>1, <2>3 DEF l, n4
  <2>4. CASE code = 127 /\ l >= 10 + m
    <3>1. ~(code < 126) /\ ~(code = 126)
      BY <2>4
    <3>. QED
      BY <2>1, <2>4, <3>1 DEF l, n10
  <2>5. CASE (code < 126 /\ l < m) \/ (code = 126 /\ l < 4 + m) \/ (code = 127 /\ l < 10 + m)
    <3>1. ~(code < 126 /\ l >= m) /\ ~(code = 126 /\ l >= 4 + m) /\ ~(l >= 10 + m)
      BY <1>3, <2>5
    <3>2. Sizes(b) = [header |-> 0, mask |-> m, data |-> 0]
      BY <2>1, <3>1
    <3>. QED
      BY <2>5, <3>2 DEF l
  <2>. QED
    BY <1>3, <2>2, <2>3, <2>4, <2>5
<1>. QED
  BY <1>3, <1>4, <1>5

LEMMA TwoBytes ==
  ASSUME NEW n \in Nat
  PROVE  256 * (n \div 256) + (n % 256) = n
  OBVIOUS

\* The sizes found in the header are those of the frame, or the header is not there.
LEMMA SizesOf ==
  ASSUME NEW f \in Frames, NEW b \in Seq(Byte), Starts(b, f)
  PROVE  /\ Len(b) >= Len(Encoded(f)) =>
              Sizes(b) = [header |-> Header(f), mask |-> Len(f.key), data |-> Len(f.data)]
         /\ (Sizes(b).header + Sizes(b).data > 0 /\ Sizes(b).header + Sizes(b).data <= Len(b))
              <=> Len(b) >= Len(Encoded(f))
<1>. DEFINE l == Len(b)  n == Len(f.data)  m == Len(f.key)  s == Sizes(b)
            code == IF f.form = 2 THEN n ELSE IF f.form = 4 THEN 126 ELSE 127
<1>1. /\ l \in Nat /\ n \in Nat /\ (f.form = 2 => n < 126)
      /\ MaskBit(f) = (IF m = 0 THEN 0 ELSE 128) /\ m \in {0, 4} /\ f.form \in {2, 4, 10}
  BY FrameFields DEF MaskBit
<1>2. Len(Encoded(f)) = f.form + m + n /\ Header(f) = f.form + m
  BY FirstBytes DEF Header
<1>3. \A i \in 1..f.form : i <= l => b[i] = HeadBytes(f)[i]
  BY FirstBytes
<1>4. /\ f.form = 2 => HeadBytes(f)[2] = MaskBit(f) + n
      /\ f.form = 4 => /\ HeadBytes(f)[2] = MaskBit(f) + 126
                       /\ 256 * HeadBytes(f)[3] + HeadBytes(f)[4] = n
      /\ f.form = 10 => /\ HeadBytes(f)[2] = MaskBit(f) + 127
                        /\ 256 * HeadBytes(f)[9] + HeadBytes(f)[10] = n
  <2>. DEFINE hi == n \div 256  lo == n % 256
  <2>1. 256 * hi + lo = n
    BY <1>1, TwoBytes
  <2>2. /\ f.form = 2 => HeadBytes(f)[2] = MaskBit(f) + n
        /\ f.form = 4 => /\ HeadBytes(f)[2] = MaskBit(f) + 126
                         /\ HeadBytes(f)[3] = hi /\ HeadBytes(f)[4] = lo
        /\ f.form = 10 => /\ HeadBytes(f)[2] = MaskBit(f) + 127
                          /\ HeadBytes(f)[9] = hi /\ HeadBytes(f)[10] = lo
    BY HeadType
  <2>. HIDE DEF hi, lo, n
  <2>. QED
    BY <2>1, <2>2
<1>. HIDE DEF l, n, m
<1>5. code \in 0..127 /\ (code < 126 <=> f.form = 2) /\ (code = 126 <=> f.form = 4)
      /\ (code = 127 <=> f.form = 10) /\ (f.form = 2 => code = n)
  BY <1>1
<1>6. l >= 2 => b[2] = (IF m = 0 THEN 0 ELSE 128) + code
  <2>1. l >= 2 => b[2] = HeadBytes(f)[2]
    BY <1>1, <1>3
  <2>. QED
    BY <1>1, <1>4, <2>1
<1>7. l >= 4 /\ f.form = 4 => 256 * b[3] + b[4] = n
  BY <1>1, <1>3, <1>4
<1>8. l >= 10 /\ f.form = 10 => 256 * b[9] + b[10] = n
  BY <1>1, <1>3, <1>4
<1>. HIDE DEF code
<1>9. \/ /\ l < 2 \/ (code < 126 /\ l < m) \/ (code = 126 /\ l < 4 + m)
            \/ (code = 127 /\ l < 10 + m)
         /\ s.header = 0 /\ s.data = 0
      \/ /\ l >= 2 /\ code < 126 /\ l >= m
         /\ s = [header |-> 2 + m, mask |-> m, data |-> code]
      \/ /\ code = 126 /\ l >= 4 + m
         /\ s = [header |-> 4 + m, mask |-> m, data |-> 256 * b[3] + b[4]]
      \/ /\ code = 127 /\ l >= 10 + m
         /\ s = [header |-> 10 + m, mask |-> m, data |-> 256 * b[9] + b[10]]
  BY <1>1, <1>5, <1>6, SizesCases DEF l
<1>10. \/ l < f.form + m /\ s.header = 0 /\ s.data = 0
       \/ s = [header |-> f.form + m, mask |-> m, data |-> n]
  <2>1. CASE /\ l < 2 \/ (code < 126 /\ l < m) \/ (code = 126 /\ l < 4 + m)
                \/ (code = 127 /\ l < 10 + m)
             /\ s.header = 0 /\ s.data = 0
    BY <1>1, <1>5, <2>1
  <2>2. CASE /\ l >= 2 /\ code < 126 /\ l >= m
             /\ s = [header |-> 2 + m, mask |-> m, data |-> code]
    BY <1>5, <2>2
  <2>3. CASE /\ code = 126 /\ l >= 4 + m
             /\ s = [header |-> 4 + m, mask |-> m, data |-> 256 * b[3] + b[4]]
    BY <1>1, <1>5, <1>7, <2>3
  <2>4. CASE /\ code = 127 /\ l >= 10 + m
             /\ s = [header |-> 10 + m, mask |-> m, data |-> 256 * b[9] + b[10]]
    BY <1>1, <1>5, <1>8, <2>4
  <2>. QED
    BY <1>9, <2>1, <2>2, <2>3, <2>4
<1>. HIDE DEF s
<1>11. /\ l >= f.form + m + n => s = [header |-> f.form + m, mask |-> m, data |-> n]
       /\ (s.header + s.data > 0 /\ s.header + s.data <= l) <=> l >= f.form + m + n
  <2>1. CASE l < f.form + m /\ s.header = 0 /\ s.data = 0
    BY <1>1, <2>1
  <2>2. CASE s = [header |-> f.form + m, mask |-> m, data |-> n]
    <3>1. s.header = f.form + m /\ s.data = n
      BY <2>2
    <3>. QED
      BY <1>1, <2>2, <3>1
  <2>. QED
    BY <1>10, <2>1, <2>2
<1>. QED
  BY <1>2, <1>11 DEF s, m, n, l

-----------------------------------------------------------------------------
(* Lemmas: the page's bytes, and the frame the handler looks at *)

LEMMA Concat ==
  ASSUME NEW s \in Seq(Byte), NEW t \in Seq(Byte)
  PROVE  /\ s \o t \in Seq(Byte) /\ Len(s \o t) = Len(s) + Len(t)
         /\ \A i \in 1..Len(s) : (s \o t)[i] = s[i]
         /\ \A i \in 1..Len(t) : (s \o t)[Len(s) + i] = t[i]
<1>1. /\ s \o t \in Seq(Byte) /\ Len(s \o t) = Len(s) + Len(t)
      /\ \A i \in 1..(Len(s) + Len(t)) :
           (s \o t)[i] = IF i <= Len(s) THEN s[i] ELSE t[i - Len(s)]
  BY ConcatProperties
<1>2. Len(s) \in Nat /\ Len(t) \in Nat
  OBVIOUS
<1>. DEFINE w == s \o t  m == Len(s)  n == Len(t)
<1>. HIDE DEF w, m, n
<1>3. \A i \in 1..(m + n) : w[i] = IF i <= m THEN s[i] ELSE t[i - m]
  BY <1>1 DEF w, m, n
<1>4. m \in Nat /\ n \in Nat
  BY <1>2 DEF m, n
<1>5. \A i \in 1..m : w[i] = s[i]
  BY <1>3, <1>4
<1>6. ASSUME NEW i \in 1..n
      PROVE  w[m + i] = t[i]
  <2>1. m + i \in 1..(m + n) /\ ~(m + i <= m) /\ (m + i) - m = i
    BY <1>4
  <2>. QED
    BY <1>3, <2>1
<1>. QED
  BY <1>1, <1>5, <1>6 DEF w, m, n

LEMMA SliceType ==
  ASSUME NEW s \in Seq(Byte), NEW a \in Nat, NEW b \in Nat, a <= b, b <= Len(s)
  PROVE  /\ SubSeq(s, a + 1, b) \in Seq(Byte) /\ Len(SubSeq(s, a + 1, b)) = b - a
         /\ \A i \in 1..(b - a) : SubSeq(s, a + 1, b)[i] = s[a + i]
<1>. DEFINE u == SubSeq(s, a + 1, b)
<1>1. a + 1 \in Int /\ b \in Int /\ \A i \in (a + 1)..b : s[i] \in Byte
  <2>1. \A i \in (a + 1)..b : i \in 1..Len(s)
    OBVIOUS
  <2>. QED
    BY <2>1, ElementOfSeq
<1>2. /\ u \in Seq(Byte) /\ Len(u) = (IF a + 1 <= b THEN b - (a + 1) + 1 ELSE 0)
      /\ \A i \in 1..(b - (a + 1) + 1) : u[i] = s[(a + 1) + i - 1]
  BY <1>1, SubSeqProperties
<1>. HIDE DEF u
<1>3. Len(u) = b - a /\ b - (a + 1) + 1 = b - a
  BY <1>2
<1>4. \A i \in 1..(b - a) : (a + 1) + i - 1 = a + i
  OBVIOUS
<1>. QED
  BY <1>2, <1>3, <1>4 DEF u

LEMMA Behinds ==
  ASSUME NEW s \in Seq(Byte), NEW n \in 0..Len(s)
  PROVE  /\ SubSeq(s, n + 1, Len(s)) \in Seq(Byte)
         /\ Len(SubSeq(s, n + 1, Len(s))) = Len(s) - n
         /\ \A i \in 1..(Len(s) - n) : SubSeq(s, n + 1, Len(s))[i] = s[n + i]
<1>1. n \in Nat /\ Len(s) \in Nat /\ n <= Len(s) /\ Len(s) <= Len(s)
  OBVIOUS
<1>. QED
  BY <1>1, SliceType

\* What is taken off the front of a sequence, and what is left of it.
LEMMA CutConcat ==
  ASSUME NEW s \in Seq(Byte), NEW t \in Seq(Byte)
  PROVE  /\ SubSeq(s \o t, Len(s) + 1, Len(s \o t)) = t
         /\ SubSeq(s \o t, 1, Len(s)) = s
<1>. DEFINE w == s \o t  m == Len(s)  u == SubSeq(w, m + 1, Len(w))  v == SubSeq(w, 1, m)
<1>1. /\ w \in Seq(Byte) /\ Len(w) = m + Len(t) /\ m \in Nat /\ Len(t) \in Nat
      /\ \A i \in 1..m : w[i] = s[i]
      /\ \A i \in 1..Len(t) : w[m + i] = t[i]
  BY Concat
<1>. HIDE DEF w, m
<1>2. m \in 0..Len(w) /\ Len(w) - m = Len(t)
  BY <1>1
<1>3. u \in Seq(Byte) /\ Len(u) = Len(t) /\ \A i \in 1..Len(t) : u[i] = w[m + i]
  BY <1>1, <1>2, Behinds
<1>4. u = t
  BY <1>1, <1>3, SeqEqual
<1>5. \A i \in 1..m : w[i] \in Byte
  BY <1>1, ElementOfSeq
<1>6. /\ v \in Seq(Byte) /\ Len(v) = (IF 1 <= m THEN m - 1 + 1 ELSE 0)
      /\ \A i \in 1..(m - 1 + 1) : v[i] = w[1 + i - 1]
  BY <1>1, <1>5, SubSeqProperties
<1>. HIDE DEF u, v
<1>7. Len(v) = m /\ m - 1 + 1 = m
  BY <1>1, <1>6
<1>8. \A i \in 1..m : 1 + i - 1 = i
  OBVIOUS
<1>9. \A i \in 1..m : v[i] = s[i]
  BY <1>1, <1>6, <1>7, <1>8
<1>10. v = s
  BY <1>6, <1>7, <1>9, SeqEqual DEF m
<1>. QED
  BY <1>4, <1>10 DEF u, v, w, m

LEMMA FlagsOp ==
  ASSUME NEW f \in Frames
  PROVE  /\ IsFragment(Flags(f)) <=> (~f.fin \/ f.op = 0)
         /\ IsFirstFragment(Flags(f)) <=> (~f.fin /\ f.op # 0)
<1>1. Flags(f) \in Nat /\ Flags(f) % 16 = f.op /\ (Flags(f) >= 128 <=> f.fin)
  BY FlagsType DEF Byte
<1>2. Flags(f) < 128 <=> ~f.fin
  BY <1>1
<1>. QED
  BY <1>1, <1>2 DEF IsFragment, IsFirstFragment

\* Frame h + 1 of the page, and what was sent before it.
LEMMA NextFrame ==
  ASSUME TypeInv, PageInv, NEW h \in 0..Len(sent)
  PROVE  /\ EndOf(h) \in Nat /\ Part(h) \in Seq(Byte) /\ Complete(h) \in Seq(Given)
         /\ EndOf(h) <= Len(wire)
         /\ EndOf(h) = Len(wire) <=> h = Len(sent)
         /\ h < Len(sent) =>
              /\ h + 1 \in 1..Len(sent) /\ sent[h + 1].frame \in Frames
              /\ EndOf(h + 1) = sent[h + 1].end
              /\ EndOf(h + 1) = EndOf(h) + Len(Encoded(sent[h + 1].frame))
              /\ (sent[h + 1].frame.op = 0) = UnderWay(h)
              /\ Complete(h + 1)
                   = Completed(Complete(h), sent[h + 1].frame, sent[h + 1].message)
              /\ sent[h + 1].message = Part(h) \o sent[h + 1].frame.data
              /\ UnderWay(h + 1) = ~sent[h + 1].frame.fin
              /\ \A i \in 1..Len(Encoded(sent[h + 1].frame)) :
                   wire[EndOf(h) + i] = Encoded(sent[h + 1].frame)[i]
<1>1. /\ Len(sent) \in Nat /\ Len(wire) \in Nat /\ Len(wire) = EndOf(Len(sent))
      /\ \A k \in 1..Len(sent) : sent[k] \in SentFrame
      /\ \A k \in 1..Len(sent) : FrameInv(k)
  BY ElementOfSeq DEF TypeInv, PageInv
<1>2. \A k \in 1..Len(sent) : /\ sent[k].frame \in Frames /\ sent[k].end \in Nat
                              /\ sent[k].message \in Seq(Byte) /\ sent[k].complete \in Seq(Given)
  BY <1>1 DEF SentFrame
<1>3. EndOf(h) \in Nat /\ Part(h) \in Seq(Byte) /\ Complete(h) \in Seq(Given)
  BY <1>1, <1>2, EmptySeq DEF EndOf, Part, Complete, UnderWay
<1>4. h < Len(sent) => EndOf(h) < Len(wire)
  <2>1. h < Len(sent) => Len(sent) \in 1..Len(sent) /\ h \in 0..(Len(sent) - 1)
    BY <1>1
  <2>. QED
    BY <1>1, <2>1 DEF PageInv
<1>5. ASSUME h < Len(sent)
      PROVE  /\ h + 1 \in 1..Len(sent) /\ h + 1 # 0 /\ (h + 1) - 1 = h /\ h + 1 > 0
  BY <1>1, <1>5
<1>6. h < Len(sent) =>
        /\ EndOf(h + 1) = sent[h + 1].end /\ Complete(h + 1) = sent[h + 1].complete
        /\ UnderWay(h + 1) = ~sent[h + 1].frame.fin
  BY <1>5 DEF EndOf, Complete, UnderWay
<1>7. ASSUME h < Len(sent)
      PROVE  FrameInv(h + 1) /\ (h + 1) - 1 = h
  BY <1>1, <1>5, <1>7
<1>8. h = Len(sent) => EndOf(h) = Len(wire)
  BY <1>1
<1>9. EndOf(h) <= Len(wire) /\ (EndOf(h) = Len(wire) <=> h = Len(sent))
  BY <1>1, <1>3, <1>4, <1>8
<1>. QED
  BY <1>2, <1>3, <1>5, <1>6, <1>7, <1>9 DEF FrameInv

LEMMA Slice ==
  ASSUME NEW s \in Seq(Byte), NEW t \in Seq(Byte), NEW a \in Nat, NEW b \in Nat,
         a <= b, b <= Len(s), Len(t) = b - a, \A i \in 1..Len(t) : s[a + i] = t[i]
  PROVE  SubSeq(s, a + 1, b) = t
<1>. DEFINE u == SubSeq(s, a + 1, b)
<1>1. u \in Seq(Byte) /\ Len(u) = b - a /\ \A i \in 1..(b - a) : u[i] = s[a + i]
  BY SliceType
<1>. HIDE DEF u
<1>2. \A i \in 1..Len(t) : u[i] = t[i]
  BY <1>1
<1>3. u = t
  BY <1>1, <1>2, SeqEqual
<1>. QED
  BY <1>3 DEF u

LEMMA RestType ==
  ASSUME TypeInv, PageInv, NEW h \in 0..Len(sent), EndOf(h) <= arrived
  PROVE  /\ Rest(h) \in Seq(Byte) /\ Len(Rest(h)) = arrived - EndOf(h)
         /\ \A i \in 1..Len(Rest(h)) : Rest(h)[i] = wire[EndOf(h) + i]
         /\ Rest(h) # <<>> => h < Len(sent)
         /\ h < Len(sent) => Starts(Rest(h), sent[h + 1].frame)
<1>. DEFINE a == EndOf(h)  r == Rest(h)
<1>1. /\ a \in Nat /\ arrived \in Nat /\ arrived <= Len(wire) /\ Len(wire) \in Nat
      /\ wire \in Seq(Byte) /\ Len(sent) \in Nat
      /\ (h < Len(sent) \/ a = Len(wire))
  BY NextFrame DEF TypeInv
<1>. HIDE DEF a
<1>2. a <= arrived
  BY DEF a
<1>3. r \in Seq(Byte) /\ Len(r) = arrived - a /\ \A i \in 1..Len(r) : r[i] = wire[a + i]
  BY <1>1, <1>2, SliceType DEF Rest, a
<1>. HIDE DEF r
<1>4. r # <<>> => h < Len(sent)
  <2>1. r # <<>> => Len(r) > 0
    BY <1>3
  <2>. QED
    BY <1>1, <1>3, <2>1
<1>5. ASSUME h < Len(sent)
      PROVE  Starts(r, sent[h + 1].frame)
  <2>1. \A i \in 1..Len(Encoded(sent[h + 1].frame)) :
          wire[a + i] = Encoded(sent[h + 1].frame)[i]
    BY <1>5, NextFrame DEF a
  <2>2. Len(r) \in Nat
    BY <1>3
  <2>3. \A i \in 1..Len(r) : i <= Len(Encoded(sent[h + 1].frame)) =>
          i \in 1..Len(Encoded(sent[h + 1].frame))
    <3>1. Len(Encoded(sent[h + 1].frame)) \in Nat
      BY <1>5, NextFrame, EncodedType, LenProperties
    <3>. QED
      BY <2>2, <3>1
  <2>. QED
    BY <1>3, <2>1, <2>3 DEF Starts
<1>. QED
  BY <1>3, <1>4, <1>5 DEF a, r

\* The frame the handler looks at is what arrived behind the frames it is done with.
LEMMA FrameIsRest ==
  ASSUME TypeInv, PageInv, NEW h \in 0..Len(sent), Done(h)
  PROVE  /\ Frame = Rest(h)
         /\ Collected = Len(Prefix(h))
         /\ UnderWay(h) => Reass /\ buf[1] = 0
         /\ ~UnderWay(h) => buf = Rest(h)
<1>1. /\ EndOf(h) <= arrived /\ buf = Prefix(h) \o Rest(h)
      /\ UnderWay(h) => reassLen = Len(Part(h))
  BY DEF Done
<1>2. Rest(h) \in Seq(Byte) /\ Part(h) \in Seq(Byte)
  BY <1>1, RestType, NextFrame
<1>3. CASE UnderWay(h)
  <2>. DEFINE r == Rest(h)  q == Part(h)  z == <<0>>
  <2>1. buf = (z \o q) \o r /\ reassLen = Len(q)
    BY <1>1, <1>3 DEF Prefix
  <2>2. r \in Seq(Byte) /\ q \in Seq(Byte) /\ z \in Seq(Byte) /\ Len(z) = 1 /\ z[1] = 0
    BY <1>2 DEF Byte
  <2>. HIDE DEF r, q, z
  <2>. DEFINE a == z \o q
  <2>3. a \in Seq(Byte) /\ Len(a) = 1 + Len(q) /\ a[1] = 0 /\ Len(q) \in Nat
    <3>1. /\ z \o q \in Seq(Byte) /\ Len(z \o q) = Len(z) + Len(q)
          /\ \A i \in 1..Len(z) : (z \o q)[i] = z[i]
      BY <2>2, Concat
    <3>. QED
      BY <2>2, <3>1
  <2>4. buf = a \o r
    BY <2>1
  <2>. HIDE DEF a
  <2>5. /\ Len(a \o r) = Len(a) + Len(r) /\ a \o r \in Seq(Byte)
        /\ \A i \in 1..Len(a) : (a \o r)[i] = a[i]
    BY <2>2, <2>3, Concat
  <2>6. Len(buf) >= 1 + reassLen /\ buf[1] = 0 /\ buf # <<>>
    <3>1. Len(r) \in Nat /\ 1 \in 1..Len(a)
      BY <2>2, <2>3
    <3>2. Len(buf) = (1 + reassLen) + Len(r) /\ reassLen \in Nat
      BY <2>1, <2>3, <2>4, <2>5
    <3>3. Len(buf) >= 1 + reassLen /\ Len(buf) > 0
      BY <3>1, <3>2
    <3>4. buf # <<>>
      BY <3>3
    <3>. QED
      BY <2>3, <2>4, <2>5, <3>1, <3>3, <3>4
  <2>7. Reass /\ Collected = Len(a)
    <3>1. IsFragment(0) /\ ~IsFirstFragment(0)
      BY DEF IsFragment, IsFirstFragment
    <3>. QED
      BY <2>1, <2>3, <2>6, <3>1 DEF Reass, Collected
  <2>8. Frame = r
    <3>1. SubSeq(buf, Len(a) + 1, Len(buf)) = r
      BY <2>2, <2>3, <2>4, CutConcat
    <3>. QED
      BY <2>7, <3>1 DEF Frame
  <2>. QED
    BY <1>3, <2>6, <2>7, <2>8 DEF Prefix, a, r, q, z
<1>4. CASE ~UnderWay(h)
  <2>1. buf = Rest(h) /\ Prefix(h) = <<>>
    BY <1>1, <1>2, <1>4, ConcatEmptySeq DEF Prefix
  <2>2. Collected = 0
    <3>. SUFFICES ASSUME Reass, ~IsFirstFragment(buf[1])
                  PROVE  FALSE
      BY DEF Collected
    <3>1. buf # <<>> /\ IsFragment(buf[1]) /\ h < Len(sent)
      BY <1>1, <2>1, RestType DEF Reass
    <3>. DEFINE f == sent[h + 1].frame
    <3>2. f \in Frames /\ f.op # 0 /\ Starts(buf, f)
      <4>1. f \in Frames /\ (f.op = 0) = UnderWay(h)
        BY <3>1, NextFrame
      <4>2. Starts(Rest(h), f)
        BY <1>1, <3>1, RestType
      <4>. QED
        BY <1>4, <2>1, <4>1, <4>2
    <3>. HIDE DEF f
    <3>3. buf[1] = HeadBytes(f)[1]
      <4>1. buf \in Seq(Byte) /\ 1 <= Len(buf) /\ 1 \in 1..f.form
        BY <1>2, <2>1, <3>1, <3>2, FrameFields
      <4>. QED
        BY <3>2, <4>1, FirstBytes
    <3>4. buf[1] = Flags(f)
      BY <3>2, <3>3, HeadType
    <3>. QED
      BY <3>1, <3>2, <3>4, FlagsOp
  <2>3. Frame = Rest(h)
    <3>1. SubSeq(buf, 1, Len(buf)) = buf
      BY <1>2, <2>1, SubSeqFull
    <3>. QED
      BY <2>1, <2>2, <3>1 DEF Frame
  <2>. QED
    BY <1>4, <2>1, <2>2, <2>3
<1>. QED
  BY <1>3, <1>4

\* The handler finds a whole frame if and only if the next one has arrived.
LEMMA WholeIsNext ==
  ASSUME TypeInv, PageInv, NEW h \in 0..Len(sent), Done(h)
  PROVE  Whole <=> h < Len(sent) /\ EndOf(h + 1) <= arrived
<1>1. Frame = Rest(h) /\ EndOf(h) <= arrived
  BY FrameIsRest DEF Done
<1>2. /\ Rest(h) \in Seq(Byte) /\ Len(Rest(h)) = arrived - EndOf(h)
      /\ (Rest(h) # <<>> => h < Len(sent))
      /\ (h < Len(sent) => Starts(Rest(h), sent[h + 1].frame))
  BY <1>1, RestType
<1>3. Whole <=> Sizes(Frame).header + Sizes(Frame).data > 0
                  /\ Sizes(Frame).header + Sizes(Frame).data <= Len(Frame)
  BY DEF Whole
<1>4. CASE h < Len(sent)
  <2>. DEFINE f == sent[h + 1].frame
  <2>1. f \in Frames /\ EndOf(h + 1) = EndOf(h) + Len(Encoded(f)) /\ EndOf(h) \in Nat
    BY <1>4, NextFrame
  <2>2. Starts(Rest(h), f)
    BY <1>2, <1>4
  <2>. HIDE DEF f
  <2>3. Whole <=> Len(Rest(h)) >= Len(Encoded(f))
    BY <1>1, <1>2, <1>3, <2>1, <2>2, SizesOf
  <2>4. Len(Encoded(f)) \in Nat /\ arrived \in Nat
    BY <2>1, EncodedType, LenProperties DEF TypeInv
  <2>. QED
    BY <1>2, <1>4, <2>1, <2>3, <2>4
<1>5. CASE ~(h < Len(sent))
  <2>1. Frame = <<>>
    BY <1>1, <1>2, <1>5
  <2>2. Sizes(Frame) = [header |-> 0, mask |-> 0, data |-> 0]
    BY <2>1 DEF Sizes
  <2>. QED
    BY <1>3, <1>5, <2>2
<1>. QED
  BY <1>4, <1>5

\* A whole frame is taken as the page sent it: flags, unmasked data, what is behind it.
LEMMA FrameTaken ==
  ASSUME TypeInv, PageInv, NEW h \in 0..Len(sent), Done(h), Whole
  PROVE  LET f == sent[h + 1].frame
         IN  /\ h < Len(sent) /\ EndOf(h + 1) <= arrived
             /\ Frame[1] = Flags(f) /\ Data = f.data /\ Behind = Rest(h + 1)
             /\ Frame # <<>> /\ Frame \in Seq(Byte)
             /\ Reass <=> UnderWay(h) \/ ~f.fin
             /\ IsFirstFragment(Frame[1]) <=> ~f.fin /\ ~UnderWay(h)
<1>. DEFINE f == sent[h + 1].frame  r == Rest(h)  a == EndOf(h)  e == Encoded(f)
            m == Len(f.key)  n == Len(f.data)  d == Masked(f.data, f.key)
<1>1. h < Len(sent) /\ EndOf(h + 1) <= arrived
  BY WholeIsNext
<1>2. Frame = r /\ a <= arrived
  BY FrameIsRest DEF Done
<1>3. /\ a \in Nat /\ f \in Frames /\ EndOf(h + 1) = a + Len(e) /\ (f.op = 0) = UnderWay(h)
      /\ h + 1 \in 0..Len(sent)
  BY <1>1, NextFrame
<1>4. /\ f.form \in {2, 4, 10} /\ f.data \in Seq(Byte) /\ f.key \in Seq(Byte) /\ m \in {0, 4}
      /\ n \in Nat /\ (f.key = <<>> <=> m = 0)
  BY <1>3, FrameFields
<1>5. /\ r \in Seq(Byte) /\ Len(r) = arrived - a /\ Starts(r, f)
      /\ \A i \in 1..Len(r) : r[i] = wire[a + i]
  BY <1>1, <1>2, RestType
<1>6. /\ Len(e) = f.form + m + n /\ e \in Seq(Byte) /\ Len(d) = n /\ d \in Seq(Byte)
      /\ Masked(d, f.key) = f.data
  BY <1>3, <1>4, EncodedType, MaskedType
<1>7. /\ \A i \in 1..m : e[f.form + i] = f.key[i]
      /\ \A i \in 1..n : e[f.form + m + i] = d[i]
  BY <1>3, EncodedType
<1>8. Len(r) >= Len(e) /\ arrived \in Nat /\ Len(r) \in Nat
  BY <1>1, <1>3, <1>5 DEF TypeInv
<1>. HIDE DEF f, r, a, e, m, n, d
<1>9. \A i \in 1..Len(e) : r[i] = e[i]
  <2>1. \A i \in 1..Len(e) : i \in 1..Len(r) /\ i <= Len(e)
    BY <1>4, <1>6, <1>8
  <2>. QED
    BY <1>5, <2>1 DEF Starts, e
<1>10. Sizes(r) = [header |-> f.form + m, mask |-> m, data |-> n]
  BY <1>3, <1>5, <1>8, SizesOf DEF Header, m, n, e
<1>11. Data = f.data
  <2>1. SubSeq(r, f.form + m + 1, f.form + m + n) = d
    <3>. DEFINE l == f.form
    <3>0. l \in Nat /\ m \in Nat /\ n \in Nat /\ Len(e) = l + m + n
      BY <1>4, <1>6
    <3>1. \A i \in 1..n : l + m + i \in 1..Len(e)
      <4>. HIDE DEF l
      <4>. QED
        BY <3>0
    <3>2. \A i \in 1..n : r[f.form + m + i] = d[i]
      BY <1>7, <1>9, <3>1
    <3>3. /\ f.form + m \in Nat /\ f.form + m + n \in Nat /\ f.form + m <= f.form + m + n
          /\ f.form + m + n <= Len(r) /\ n = (f.form + m + n) - (f.form + m)
      BY <1>4, <1>6, <1>8
    <3>. DEFINE x == f.form + m  y == f.form + m + n
    <3>4. x \in Nat /\ y \in Nat /\ x <= y /\ y <= Len(r) /\ Len(d) = y - x
          /\ \A i \in 1..Len(d) : r[x + i] = d[i]
      BY <1>6, <3>2, <3>3
    <3>. HIDE DEF x, y
    <3>5. SubSeq(r, x + 1, y) = d
      BY <1>5, <1>6, <3>4, Slice
    <3>. QED
      BY <3>5 DEF x, y
  <2>2. SubSeq(r, (f.form + m) - m + 1, f.form + m) = f.key
    <3>1. \A i \in 1..m : f.form + i \in 1..Len(e)
      BY <1>4, <1>6
    <3>2. \A i \in 1..m : r[f.form + i] = f.key[i]
      BY <1>7, <1>9, <3>1
    <3>3. f.form \in Nat /\ f.form + m \in Nat /\ f.form <= f.form + m
          /\ f.form + m <= Len(r) /\ m = (f.form + m) - f.form /\ (f.form + m) - m = f.form
      <4>. DEFINE l == f.form
      <4>1. /\ l \in Nat /\ m \in Nat /\ n \in Nat /\ Len(r) \in Nat /\ Len(e) = l + m + n
            /\ Len(r) >= Len(e)
        BY <1>4, <1>6, <1>8
      <4>. HIDE DEF l
      <4>2. /\ l \in Nat /\ l + m \in Nat /\ l <= l + m /\ l + m <= Len(r)
            /\ m = (l + m) - l /\ (l + m) - m = l
        BY <4>1
      <4>. QED
        BY <4>2 DEF l
    <3>. DEFINE x == f.form  y == f.form + m
    <3>4. x \in Nat /\ y \in Nat /\ x <= y /\ y <= Len(r) /\ Len(f.key) = y - x
          /\ \A i \in 1..Len(f.key) : r[x + i] = f.key[i]
      BY <3>2, <3>3 DEF m
    <3>. HIDE DEF x, y
    <3>5. SubSeq(r, x + 1, y) = f.key
      BY <1>4, <1>5, <3>4, Slice
    <3>. QED
      BY <3>3, <3>5 DEF x, y
  <2>3. /\ Sizes(Frame).header = f.form + m /\ Sizes(Frame).mask = m
        /\ Sizes(Frame).data = n /\ Frame = r
    BY <1>2, <1>10
  <2>4. Data = Masked(SubSeq(r, f.form + m + 1, f.form + m + n),
                      SubSeq(r, (f.form + m) - m + 1, f.form + m))
    <3>. DEFINE z == Sizes(Frame)
    <3>1. Data = Masked(SubSeq(Frame, z.header + 1, z.header + z.data),
                        SubSeq(Frame, z.header - z.mask + 1, z.header))
      BY DEF Data
    <3>2. z.header = f.form + m /\ z.mask = m /\ z.data = n
      BY <2>3
    <3>. HIDE DEF z
    <3>3. SubSeq(Frame, z.header + 1, z.header + z.data)
            = SubSeq(r, f.form + m + 1, f.form + m + n)
      BY <2>3, <3>2
    <3>4. SubSeq(Frame, z.header - z.mask + 1, z.header)
            = SubSeq(r, (f.form + m) - m + 1, f.form + m)
      BY <2>3, <3>2
    <3>. QED
      BY <3>1, <3>3, <3>4
  <2>. QED
    BY <1>6, <2>1, <2>2, <2>4
<1>12. Behind = Rest(h + 1)
  <2>. DEFINE t == Rest(h + 1)
  <2>1. /\ t \in Seq(Byte) /\ Len(t) = arrived - EndOf(h + 1)
        /\ \A i \in 1..Len(t) : t[i] = wire[EndOf(h + 1) + i]
    BY <1>1, <1>3, RestType
  <2>. HIDE DEF t
  <2>2. /\ Len(e) \in Nat /\ Len(e) <= Len(r) /\ Len(t) = Len(r) - Len(e) /\ Len(t) \in Nat
    BY <1>1, <1>3, <1>5, <1>6, <1>8, <2>1
  <2>3. \A i \in 1..Len(t) : r[Len(e) + i] = t[i]
    <3>. TAKE i \in 1..Len(t)
    <3>1. Len(e) + i \in 1..Len(r) /\ a + (Len(e) + i) = EndOf(h + 1) + i
      BY <1>3, <2>2
    <3>. QED
      BY <1>5, <2>1, <3>1
  <2>4. SubSeq(r, Len(e) + 1, Len(r)) = t
    BY <1>5, <1>8, <2>1, <2>2, <2>3, Slice
  <2>5. Sizes(Frame).header + Sizes(Frame).data = Len(e) /\ Frame = r
    <3>1. Sizes(Frame).header = f.form + m /\ Sizes(Frame).data = n /\ Frame = r
      BY <1>2, <1>10
    <3>. QED
      BY <1>6, <3>1
  <2>. QED
    BY <2>4, <2>5 DEF Behind, t
<1>13. Frame[1] = Flags(f) /\ Frame # <<>>
  <2>1. 1 \in 1..f.form /\ 1 <= Len(r) /\ 1 \in 1..Len(e)
    BY <1>4, <1>6, <1>8
  <2>2. r[1] = HeadBytes(f)[1]
    BY <1>3, <1>5, <2>1, FirstBytes
  <2>3. HeadBytes(f)[1] = Flags(f)
    BY <1>3, HeadType
  <2>. QED
    BY <1>2, <1>5, <2>1, <2>2, <2>3
<1>14. IsFirstFragment(Frame[1]) <=> ~f.fin /\ ~UnderWay(h)
  BY <1>3, <1>13, FlagsOp
<1>15. Reass <=> UnderWay(h) \/ ~f.fin
  <2>1. CASE UnderWay(h)
    BY <2>1, FrameIsRest
  <2>2. CASE ~UnderWay(h)
    <3>1. buf = Frame
      BY <1>2, <2>2, FrameIsRest DEF r
    <3>2. Reass <=> IsFragment(Flags(f))
      BY <1>13, <3>1 DEF Reass
    <3>. QED
      BY <1>3, <2>2, <3>2, FlagsOp
  <2>. QED
    BY <2>1, <2>2
<1>. QED
  BY <1>1, <1>2, <1>5, <1>11, <1>12, <1>13, <1>14, <1>15 DEF f

-----------------------------------------------------------------------------
(* Lemmas: the steps of the handler *)

\* What follows from the page alone stays as it is when the page does.
LEMMA SamePage ==
  ASSUME UNCHANGED page
  PROVE  /\ wire' = wire /\ sent' = sent
         /\ \A k : /\ EndOf(k)' = EndOf(k) /\ UnderWay(k)' = UnderWay(k)
                   /\ Part(k)' = Part(k) /\ Complete(k)' = Complete(k) /\ Prefix(k)' = Prefix(k)
         /\ arrived' = arrived => \A k : Rest(k)' = Rest(k)
         /\ PageInv => PageInv'
<1>1. wire' = wire /\ sent' = sent
  BY DEF page
<1>2. \A k : /\ EndOf(k)' = EndOf(k) /\ UnderWay(k)' = UnderWay(k)
             /\ Part(k)' = Part(k) /\ Complete(k)' = Complete(k)
  BY <1>1 DEF EndOf, UnderWay, Part, Complete
<1>3. \A k : Prefix(k)' = Prefix(k)
  BY <1>2 DEF Prefix
<1>4. arrived' = arrived => \A k : Rest(k)' = Rest(k)
  BY <1>1, <1>2 DEF Rest
<1>5. \A k : FrameInv(k)' = FrameInv(k)
  BY <1>1, <1>2 DEF FrameInv
<1>6. PageInv => PageInv'
  BY <1>1, <1>2, <1>5 DEF PageInv
<1>. QED
  BY <1>1, <1>2, <1>3, <1>4, <1>6

LEMMA PartialInv ==
  ASSUME TypeInv, PageInv, ClosingInv, NEW h \in 0..Len(sent), Done(h), Partial
  PROVE  TypeInv' /\ PageInv' /\ ClosingInv' /\ h \in 0..Len(sent') /\ Done(h)'
<1>1. /\ UNCHANGED page /\ arrived' = arrived /\ buf' = buf /\ reassLen' = reassLen
      /\ got' = got /\ closing' = closing /\ pc' = "idle" /\ ~Whole
  BY DEF Partial
<1>2. wire' = wire /\ sent' = sent /\ PageInv'
  BY <1>1, SamePage
<1>3. TypeInv'
  BY <1>1, <1>2 DEF TypeInv
<1>4. ClosingInv'
  BY <1>1, <1>2, SamePage DEF ClosingInv
<1>5. h < Len(sent) => EndOf(h + 1) > arrived
  <2>1. h < Len(sent) => ~(EndOf(h + 1) <= arrived)
    BY <1>1, WholeIsNext
  <2>2. h < Len(sent) => h + 1 \in 0..Len(sent)
    BY DEF TypeInv
  <2>3. h < Len(sent) => EndOf(h + 1) \in Nat
    BY <2>2, NextFrame
  <2>4. arrived \in Nat
    BY DEF TypeInv
  <2>. QED
    BY <2>1, <2>3, <2>4
<1>6. Done(h)'
  BY <1>1, <1>2, <1>5, SamePage DEF Done
<1>. QED
  BY <1>2, <1>3, <1>4, <1>6

\* The handler takes frame h + 1: the message it gives, if it is the last one, and the
\* opcode that closes.
LEMMA FrameDone ==
  ASSUME TypeInv, PageInv, NEW h \in 0..Len(sent), Done(h), Whole, UNCHANGED page,
         arrived' = arrived, pc' = pc, pc = "deliver",
         buf' = Prefix(h + 1) \o Rest(h + 1),
         UnderWay(h + 1) => reassLen' = Len(Part(h + 1)),
         IF sent[h + 1].frame.fin THEN Handle(Frame[1], sent[h + 1].message) ELSE UNCHANGED got,
         closing => closing',
         sent[h + 1].frame.op = 8 => closing'
  PROVE  h + 1 \in 0..Len(sent') /\ Done(h + 1)'
<1>. DEFINE f == sent[h + 1].frame  m == [control |-> f.op >= 8, data |-> sent[h + 1].message]
<1>1. h < Len(sent) /\ EndOf(h + 1) <= arrived /\ Frame[1] = Flags(f)
  BY FrameTaken
<1>2. /\ h + 1 \in 1..Len(sent) /\ f \in Frames
      /\ Complete(h + 1) = Completed(Complete(h), f, sent[h + 1].message)
      /\ h + 1 \in 0..Len(sent)
  BY <1>1, NextFrame
<1>3. got = Complete(h) /\ \A k \in 1..h : sent[k].frame.op = 8 => closing
  BY DEF Done
<1>4. ((Flags(f) \div 8) % 2 = 1) <=> f.op >= 8
  BY <1>2, FlagsType
<1>5. f.fin => got' = Append(got, m)
  BY <1>1, <1>4 DEF Handle
<1>6. got' = Complete(h + 1)
  BY <1>2, <1>3, <1>5 DEF Completed
<1>7. \A k \in 1..(h + 1) : sent[k].frame.op = 8 => closing'
  <2>1. \A k \in 1..(h + 1) : k \in 1..h \/ k = h + 1
    OBVIOUS
  <2>. QED
    BY <1>3, <2>1
<1>8. /\ sent' = sent /\ EndOf(h + 1)' = EndOf(h + 1) /\ Prefix(h + 1)' = Prefix(h + 1)
      /\ Rest(h + 1)' = Rest(h + 1) /\ UnderWay(h + 1)' = UnderWay(h + 1)
      /\ Part(h + 1)' = Part(h + 1) /\ Complete(h + 1)' = Complete(h + 1)
  BY SamePage
<1>. HIDE DEF f, m
<1>9. Done(h + 1)'
  BY <1>1, <1>6, <1>7, <1>8 DEF Done
<1>. QED
  BY <1>2, <1>8, <1>9

LEMMA UnfragmentedInv ==
  ASSUME TypeInv, PageInv, ClosingInv, NEW h \in 0..Len(sent), Done(h), Unfragmented
  PROVE  TypeInv' /\ PageInv' /\ ClosingInv' /\ h + 1 \in 0..Len(sent') /\ Done(h + 1)'
<1>. DEFINE f == sent[h + 1].frame
<1>1. /\ Whole /\ ~Reass /\ pc = "deliver" /\ UNCHANGED page /\ arrived' = arrived /\ pc' = pc
      /\ Handle(Frame[1], Data) /\ buf' = Behind /\ reassLen' = 0
      /\ closing' = (closing \/ (Behind \o Frame)[1] % 16 = 8)
  BY DEF Unfragmented
<1>2. /\ h < Len(sent) /\ EndOf(h + 1) <= arrived
      /\ Frame[1] = Flags(f) /\ Data = f.data /\ Behind = Rest(h + 1)
      /\ Frame # <<>> /\ Frame \in Seq(Byte)
      /\ ~UnderWay(h) /\ f.fin
  BY <1>1, FrameTaken
<1>3. /\ h + 1 \in 1..Len(sent) /\ h + 1 \in 0..Len(sent) /\ f \in Frames
      /\ EndOf(h + 1) = EndOf(h) + Len(Encoded(f)) /\ EndOf(h) \in Nat
      /\ sent[h + 1].message = Part(h) \o f.data
      /\ UnderWay(h + 1) = ~f.fin
  <2>1. h + 1 \in 1..Len(sent) => h + 1 \in 0..Len(sent)
    OBVIOUS
  <2>. QED
    BY <1>2, <2>1, NextFrame
<1>4. sent[h + 1].message = f.data
  <2>1. Part(h) = <<>> /\ f.data \in Seq(Byte)
    BY <1>2, <1>3, FrameFields DEF Part
  <2>. QED
    BY <1>3, <2>1, ConcatEmptySeq
<1>5. ~UnderWay(h + 1)
  BY <1>2, <1>3
<1>6. /\ Rest(h + 1) \in Seq(Byte) /\ Len(Rest(h + 1)) = arrived - EndOf(h + 1)
      /\ \A i \in 1..Len(Rest(h + 1)) : Rest(h + 1)[i] = wire[EndOf(h + 1) + i]
      /\ (Rest(h + 1) # <<>> => h + 1 < Len(sent))
      /\ (h + 1 < Len(sent) => Starts(Rest(h + 1), sent[h + 2].frame))
  BY <1>2, <1>3, RestType
<1>7. buf' = Prefix(h + 1) \o Rest(h + 1) /\ buf' \in Seq(Byte)
  BY <1>1, <1>2, <1>5, <1>6, ConcatEmptySeq DEF Prefix
<1>8. f.op = 8 => closing' /\ Behind = <<>>
  <2>. SUFFICES ASSUME f.op = 8
                PROVE  closing' /\ Behind = <<>>
    OBVIOUS
  <2>1. FrameInv(h + 1)
    BY <1>3 DEF PageInv
  <2>2. h + 1 = Len(sent)
    BY <2>1 DEF FrameInv
  <2>3. Behind = <<>>
    BY <1>2, <1>6, <2>2
  <2>4. (Behind \o Frame)[1] = Flags(f)
    BY <1>2, <2>3, ConcatEmptySeq
  <2>5. (Behind \o Frame)[1] % 16 = 8
    BY <1>3, <2>4, FlagsType
  <2>. QED
    BY <1>1, <2>3, <2>5
<1>9. ASSUME (Behind \o Frame)[1] % 16 = 8
      PROVE  \E k \in 1..Len(sent) : sent[k].frame.op = 8 /\ EndOf(k - 1) < arrived
  <2>1. CASE Behind = <<>>
    <3>1. (Behind \o Frame)[1] = Flags(f)
      BY <1>2, <2>1, ConcatEmptySeq
    <3>2. f.op = 8
      BY <1>3, <1>9, <3>1, FlagsType
    <3>3. Len(Encoded(f)) > 0 /\ Len(Encoded(f)) \in Nat /\ arrived \in Nat
      BY <1>3, EncodedSize DEF TypeInv
    <3>4. EndOf(h) < arrived /\ (h + 1) - 1 = h
      BY <1>2, <1>3, <3>3
    <3>. QED
      BY <1>3, <3>2, <3>4
  <2>2. CASE Behind # <<>>
    <3>. DEFINE b == Rest(h + 1)  g == sent[h + 2].frame
    <3>1. b # <<>> /\ b \in Seq(Byte) /\ h + 1 < Len(sent) /\ Starts(b, g)
      BY <1>2, <1>6, <2>2
    <3>2. g \in Frames /\ h + 2 \in 1..Len(sent)
      <4>1. (h + 1) + 1 = h + 2
        OBVIOUS
      <4>. QED
        BY <1>3, <3>1, <4>1, NextFrame
    <3>3. Len(b) = arrived - EndOf(h + 1)
      BY <1>6
    <3>4. EndOf(h + 1) \in Nat /\ arrived \in Nat
      BY <1>3, NextFrame DEF TypeInv
    <3>. HIDE DEF b, g
    <3>5. 1 \in 1..Len(b) /\ 1 <= Len(b) /\ 1 \in 1..g.form
      BY <3>1, <3>2, FrameFields
    <3>6. b[1] = Flags(g)
      <4>1. b[1] = HeadBytes(g)[1]
        BY <3>1, <3>2, <3>5, FirstBytes
      <4>. QED
        BY <3>2, <4>1, HeadType
    <3>7. (b \o Frame)[1] = b[1]
      BY <1>2, <3>1, <3>5, Concat
    <3>8. g.op = 8
      BY <1>2, <1>9, <3>2, <3>6, <3>7, FlagsType DEF b
    <3>9. EndOf(h + 1) < arrived /\ (h + 2) - 1 = h + 1
      BY <3>3, <3>4, <3>5
    <3>. QED
      BY <3>2, <3>8, <3>9 DEF g
  <2>. QED
    BY <2>1, <2>2
<1>10. ClosingInv'
  <2>1. sent' = sent /\ \A k : EndOf(k)' = EndOf(k)
    BY <1>1, SamePage
  <2>2. closing' => \E k \in 1..Len(sent) : sent[k].frame.op = 8 /\ EndOf(k - 1) < arrived
    BY <1>1, <1>9 DEF ClosingInv
  <2>. QED
    BY <1>1, <2>1, <2>2 DEF ClosingInv
<1>11. h + 1 \in 0..Len(sent') /\ Done(h + 1)'
  <2>1. IF sent[h + 1].frame.fin THEN Handle(Frame[1], sent[h + 1].message) ELSE UNCHANGED got
    BY <1>1, <1>2, <1>4
  <2>2. (closing => closing') /\ (sent[h + 1].frame.op = 8 => closing')
    BY <1>1, <1>8
  <2>. QED
    BY <1>1, <1>5, <1>7, <2>1, <2>2, FrameDone
<1>12. TypeInv'
  <2>1. got' \in Seq(Given)
    <3>. DEFINE c == (Frame[1] \div 8) % 2 = 1
    <3>1. f.data \in Seq(Byte) /\ got' = Append(got, [control |-> c, data |-> f.data])
      BY <1>1, <1>2, <1>3, FrameFields DEF Handle
    <3>2. c \in BOOLEAN
      OBVIOUS
    <3>3. [control |-> c, data |-> f.data] \in Given
      BY <3>1, <3>2 DEF Given
    <3>. QED
      BY <3>1, <3>3, AppendProperties DEF TypeInv
  <2>2. closing' \in BOOLEAN
    BY <1>1 DEF TypeInv
  <2>3. wire' = wire /\ sent' = sent
    BY <1>1, SamePage
  <2>. QED
    BY <1>1, <1>7, <2>1, <2>2, <2>3 DEF TypeInv
<1>. QED
  BY <1>1, <1>10, <1>11, <1>12, SamePage

\* Once the frame's data is moved up the buffer holds the flags, their opcode cleared, the
\* message with that data at its end, and what arrived behind the frame.
LEMMA MovedUp ==
  ASSUME TypeInv, PageInv, NEW h \in 0..Len(sent), Done(h), Whole, Reass
  PROVE  /\ MoveUp.buf = (<<0>> \o sent[h + 1].message) \o Rest(h + 1)
         /\ MoveUp.len = Len(sent[h + 1].message)
<1>. DEFINE f == sent[h + 1].frame  d == f.data  r == Rest(h + 1)  q == Part(h)
<1>1. /\ h < Len(sent) /\ EndOf(h + 1) <= arrived
      /\ Frame[1] = Flags(f) /\ Data = d /\ Behind = r /\ Frame # <<>>
      /\ UnderWay(h) \/ ~f.fin
      /\ IsFirstFragment(Frame[1]) <=> ~f.fin /\ ~UnderWay(h)
  BY FrameTaken
<1>2. f \in Frames /\ sent[h + 1].message = q \o d /\ q \in Seq(Byte)
  BY <1>1, NextFrame
<1>3. d \in Seq(Byte)
  BY <1>2, FrameFields
<1>4. CASE UnderWay(h)
  <2>1. ~IsFirstFragment(Frame[1])
    BY <1>1, <1>4
  <2>2. MoveUp.buf = (SubSeq(buf, 1, Collected) \o d) \o r /\ MoveUp.len = reassLen + Len(d)
    BY <1>1, <2>1 DEF MoveUp
  <2>3. SubSeq(buf, 1, Collected) = <<0>> \o q
    <3>1. Collected = Len(Prefix(h)) /\ Prefix(h) = <<0>> \o q /\ buf = Prefix(h) \o Rest(h)
          /\ EndOf(h) <= arrived
      BY <1>4, FrameIsRest DEF Done, Prefix
    <3>2. Rest(h) \in Seq(Byte) /\ Prefix(h) \in Seq(Byte)
      <4>1. <<0>> \in Seq(Byte)
        BY DEF Byte
      <4>. QED
        BY <1>2, <3>1, <4>1, RestType, ConcatProperties
    <3>. QED
      BY <3>1, <3>2, CutConcat
  <2>4. (<<0>> \o q) \o d = <<0>> \o (q \o d)
    <3>. DEFINE z == <<0>>
    <3>1. z \in Seq(Byte) /\ q \in Seq(Byte) /\ d \in Seq(Byte)
      BY <1>2, <1>3 DEF Byte
    <3>. HIDE DEF z, q, d
    <3>2. (z \o q) \o d = z \o (q \o d)
      BY <3>1, ConcatAssociative
    <3>. QED
      BY <3>2 DEF z
  <2>5. reassLen = Len(q)
    BY <1>4 DEF Done
  <2>6. Len(q \o d) = Len(q) + Len(d)
    BY <1>2, <1>3, ConcatProperties
  <2>. QED
    BY <1>2, <2>2, <2>3, <2>4, <2>5, <2>6
<1>5. CASE ~UnderWay(h)
  <2>1. IsFirstFragment(Frame[1]) /\ ~f.fin
    BY <1>1, <1>5
  <2>2. MoveUp.buf = (<<buf[1] - (buf[1] % 16)>> \o d) \o r /\ MoveUp.len = Len(d)
    BY <1>1, <2>1 DEF MoveUp
  <2>3. buf = Frame
    BY <1>5, FrameIsRest
  <2>4. buf[1] - (buf[1] % 16) = 0
    <3>1. buf[1] = Flags(f) /\ Flags(f) \in Byte /\ ~(Flags(f) >= 128)
      BY <1>1, <1>2, <2>1, <2>3, FlagsType
    <3>2. Flags(f) < 128
      <4>1. \A x \in Byte : ~(x >= 128) => x < 128
        BY DEF Byte
      <4>. QED
        BY <3>1, <4>1
    <3>. QED
      BY <1>2, <3>1, <3>2, FlagsType
  <2>5. q = <<>>
    BY <1>5 DEF Part
  <2>6. q \o d = d
    BY <1>3, <2>5, ConcatEmptySeq
  <2>. QED
    BY <1>2, <2>2, <2>4, <2>6
<1>. QED
  BY <1>4, <1>5

LEMMA FragmentInv ==
  ASSUME TypeInv, PageInv, ClosingInv, NEW h \in 0..Len(sent), Done(h), Fragment
  PROVE  TypeInv' /\ PageInv' /\ ClosingInv' /\ h + 1 \in 0..Len(sent') /\ Done(h + 1)'
<1>. DEFINE f == sent[h + 1].frame  t == sent[h + 1].message  r == Rest(h + 1)
<1>1. /\ Whole /\ Reass /\ pc = "deliver" /\ UNCHANGED page /\ arrived' = arrived /\ pc' = pc
      /\ closing' = closing
  BY DEF Fragment
<1>2. /\ h < Len(sent) /\ EndOf(h + 1) <= arrived /\ Frame[1] = Flags(f)
      /\ UnderWay(h) \/ ~f.fin
  BY <1>1, FrameTaken
<1>3. /\ h + 1 \in 1..Len(sent) /\ h + 1 \in 0..Len(sent) /\ f \in Frames
      /\ (f.op = 0) = UnderWay(h)
      /\ t = Part(h) \o f.data /\ Part(h) \in Seq(Byte)
      /\ UnderWay(h + 1) = ~f.fin
  <2>1. h + 1 \in 1..Len(sent) => h + 1 \in 0..Len(sent)
    OBVIOUS
  <2>. QED
    BY <1>2, <2>1, NextFrame
<1>4. /\ (Frame[1] >= 128) <=> f.fin
      /\ f.op # 8
  <2>1. f.op >= 8 => f.fin
    BY <1>3, FrameFields
  <2>2. f.fin => f.op = 0
    BY <1>2, <1>3
  <2>3. f.op = 8 => f.op >= 8 /\ f.op # 0
    OBVIOUS
  <2>. QED
    BY <1>2, <1>3, <2>1, <2>2, <2>3, FlagsType
<1>5. r \in Seq(Byte) /\ t \in Seq(Byte)
  <2>1. f.data \in Seq(Byte)
    BY <1>3, FrameFields
  <2>. QED
    BY <1>2, <1>3, <2>1, RestType, ConcatProperties
<1>. DEFINE a == <<0>> \o t  b == MoveUp.buf  l == MoveUp.len
<1>6. b = a \o r /\ l = Len(t)
  BY <1>1, MovedUp
<1>7. a \in Seq(Byte) /\ Len(a) = 1 + Len(t) /\ Len(t) \in Nat
      /\ \A i \in 1..Len(t) : a[1 + i] = t[i]
  <2>1. <<0>> \in Seq(Byte) /\ Len(<<0>>) = 1
    BY DEF Byte
  <2>2. /\ a \in Seq(Byte) /\ Len(a) = Len(<<0>>) + Len(t)
        /\ \A i \in 1..Len(t) : a[Len(<<0>>) + i] = t[i]
    BY <1>5, <2>1, Concat
  <2>. QED
    BY <1>5, <2>1, <2>2
<1>8. /\ f.fin => Handle(Frame[1], SubSeq(b, 2, 1 + l)) /\ buf' = SubSeq(b, 2 + l, Len(b))
                  /\ reassLen' = 0
      /\ ~f.fin => buf' = b /\ reassLen' = l /\ got' = got
  BY <1>4 DEF Fragment
<1>. HIDE DEF f, t, r, a, b, l
<1>9. SubSeq(b, 2, 1 + l) = t /\ SubSeq(b, 2 + l, Len(b)) = r
  <2>1. /\ b \in Seq(Byte) /\ Len(b) = Len(a) + Len(r)
        /\ \A i \in 1..Len(a) : b[i] = a[i]
    BY <1>5, <1>6, <1>7, Concat
  <2>2. 1 + l = Len(a) /\ (1 + l) + 1 = 2 + l /\ 1 + l <= Len(b) /\ Len(t) = (1 + l) - 1
        /\ 1 <= 1 + l /\ 1 + l \in Nat
    <3>1. Len(r) \in Nat /\ l \in Nat
      BY <1>5, <1>6, <1>7
    <3>. QED
      BY <1>6, <1>7, <2>1, <3>1
  <2>3. SubSeq(b, Len(a) + 1, Len(b)) = r
    BY <1>5, <1>6, <1>7, CutConcat
  <2>4. \A i \in 1..Len(t) : b[1 + i] = t[i]
    <3>1. \A i \in 1..Len(t) : 1 + i \in 1..Len(a)
      BY <1>7
    <3>. QED
      BY <1>7, <2>1, <3>1
  <2>5. SubSeq(b, 1 + 1, 1 + l) = t
    BY <1>5, <2>1, <2>2, <2>4, Slice
  <2>6. 1 + 1 = 2 /\ Len(a) + 1 = 2 + l
    BY <2>2
  <2>. QED
    BY <2>3, <2>5, <2>6
<1>10. buf' = Prefix(h + 1) \o r /\ buf' \in Seq(Byte)
       /\ (UnderWay(h + 1) => reassLen' = Len(Part(h + 1))) /\ reassLen' \in Nat
  <2>1. CASE f.fin
    <3>1. Prefix(h + 1) = <<>> /\ ~UnderWay(h + 1)
      BY <1>3, <2>1 DEF Prefix, f
    <3>2. <<>> \o r = r
      BY <1>5, ConcatEmptySeq
    <3>3. buf' = r /\ reassLen' = 0
      BY <1>8, <1>9, <2>1
    <3>. QED
      BY <1>5, <3>1, <3>2, <3>3
  <2>2. CASE ~f.fin
    <3>1. UnderWay(h + 1) /\ Part(h + 1) = t /\ Prefix(h + 1) = a
      BY <1>3, <2>2 DEF Prefix, Part, f, t, a
    <3>2. b \in Seq(Byte)
      BY <1>5, <1>6, <1>7, Concat
    <3>. QED
      BY <1>6, <1>7, <1>8, <2>2, <3>1, <3>2
  <2>. QED
    BY <2>1, <2>2
<1>11. IF f.fin THEN Handle(Frame[1], t) ELSE UNCHANGED got
  BY <1>8, <1>9
<1>12. h + 1 \in 0..Len(sent') /\ Done(h + 1)'
  <2>1. (closing => closing') /\ (f.op = 8 => closing')
    BY <1>1, <1>4
  <2>. QED
    BY <1>1, <1>10, <1>11, <2>1, FrameDone DEF f, t, r
<1>13. TypeInv'
  <2>1. got' \in Seq(Given)
    <3>. DEFINE c == (Frame[1] \div 8) % 2 = 1
    <3>1. f.fin => got' = Append(got, [control |-> c, data |-> t])
      BY <1>11 DEF Handle
    <3>2. c \in BOOLEAN
      OBVIOUS
    <3>3. [control |-> c, data |-> t] \in Given
      BY <1>5, <3>2 DEF Given
    <3>4. ~f.fin => got' = got
      BY <1>11
    <3>5. Append(got, [control |-> c, data |-> t]) \in Seq(Given)
      BY <3>3, AppendProperties DEF TypeInv
    <3>. QED
      BY <3>1, <3>4, <3>5 DEF TypeInv
  <2>2. wire' = wire /\ sent' = sent
    BY <1>1, SamePage
  <2>. QED
    BY <1>1, <1>10, <2>1, <2>2 DEF TypeInv
<1>14. ClosingInv'
  <2>1. sent' = sent /\ \A k : EndOf(k)' = EndOf(k)
    BY <1>1, SamePage
  <2>. QED
    BY <1>1, <2>1 DEF ClosingInv
<1>. QED
  BY <1>1, <1>12, <1>13, <1>14, SamePage

-----------------------------------------------------------------------------
(* Lemmas: reading from the socket, and the page's next frame *)

LEMMA TwoSlices ==
  ASSUME NEW s \in Seq(Byte), NEW a \in Nat, NEW b \in Nat, NEW c \in Nat,
         a <= b, b <= c, c <= Len(s)
  PROVE  SubSeq(s, a + 1, b) \o SubSeq(s, b + 1, c) = SubSeq(s, a + 1, c)
<1>. DEFINE u == SubSeq(s, a + 1, b)  v == SubSeq(s, b + 1, c)  t == u \o v
<1>1. /\ u \in Seq(Byte) /\ Len(u) = b - a /\ \A i \in 1..(b - a) : u[i] = s[a + i]
      /\ v \in Seq(Byte) /\ Len(v) = c - b /\ \A i \in 1..(c - b) : v[i] = s[b + i]
  <2>1. b <= Len(s)
    OBVIOUS
  <2>. QED
    BY <2>1, SliceType
<1>. HIDE DEF u, v
<1>2. /\ t \in Seq(Byte) /\ Len(t) = Len(u) + Len(v)
      /\ \A i \in 1..Len(u) : t[i] = u[i]
      /\ \A i \in 1..Len(v) : t[Len(u) + i] = v[i]
  BY <1>1, Concat
<1>. HIDE DEF t
<1>3. Len(t) = c - a
  BY <1>1, <1>2
<1>4. ASSUME NEW i \in 1..Len(t)
      PROVE  s[a + i] = t[i]
  <2>1. CASE i <= b - a
    <3>1. i \in 1..(b - a) /\ i \in 1..Len(u)
      BY <1>1, <2>1
    <3>. QED
      BY <1>1, <1>2, <3>1
  <2>2. CASE ~(i <= b - a)
    <3>. DEFINE j == i - (b - a)
    <3>1. j \in 1..(c - b) /\ j \in 1..Len(v) /\ Len(u) + j = i /\ b + j = a + i
      BY <1>1, <1>3, <2>2
    <3>. HIDE DEF j
    <3>. QED
      BY <1>1, <1>2, <3>1
  <2>. QED
    BY <2>1, <2>2
<1>5. SubSeq(s, a + 1, c) = t
  <2>1. a <= c
    OBVIOUS
  <2>. QED
    BY <1>2, <1>3, <1>4, <2>1, Slice
<1>. QED
  BY <1>5 DEF t

LEMMA ReadInv ==
  ASSUME TypeInv, PageInv, ClosingInv, NEW h \in 0..Len(sent), Done(h), Read
  PROVE  TypeInv' /\ PageInv' /\ ClosingInv' /\ h \in 0..Len(sent') /\ Done(h)'
<1>1. PICK n \in 1..(Len(wire) - arrived) :
        /\ buf' = buf \o SubSeq(wire, arrived + 1, arrived + n)
        /\ arrived' = arrived + n
  BY DEF Read
<1>2. /\ pc' = "deliver" /\ UNCHANGED page /\ reassLen' = reassLen /\ got' = got
      /\ closing' = closing
  BY DEF Read
<1>3. /\ wire' = wire /\ sent' = sent /\ PageInv'
      /\ \A k : /\ EndOf(k)' = EndOf(k) /\ UnderWay(k)' = UnderWay(k)
                /\ Part(k)' = Part(k) /\ Complete(k)' = Complete(k) /\ Prefix(k)' = Prefix(k)
  BY <1>2, SamePage
<1>. DEFINE a == EndOf(h)  c == arrived + n  v == SubSeq(wire, arrived + 1, c)
<1>4. /\ a \in Nat /\ arrived \in Nat /\ Len(wire) \in Nat /\ wire \in Seq(Byte)
      /\ a <= arrived /\ arrived <= Len(wire) /\ buf = Prefix(h) \o Rest(h)
  BY NextFrame DEF TypeInv, Done
<1>5. c \in Nat /\ arrived <= c /\ c <= Len(wire) /\ c \in 0..Len(wire)
  BY <1>4
<1>6. v \in Seq(Byte) /\ Rest(h) \o v = SubSeq(wire, a + 1, c)
  BY <1>4, <1>5, SliceType, TwoSlices DEF Rest
<1>7. Rest(h)' = SubSeq(wire, a + 1, c)
  BY <1>1, <1>3 DEF Rest
<1>8. Rest(h) \in Seq(Byte) /\ Prefix(h) \in Seq(Byte)
  <2>1. Rest(h) \in Seq(Byte) /\ Part(h) \in Seq(Byte) /\ <<0>> \in Seq(Byte)
    BY <1>4, RestType, NextFrame DEF Byte
  <2>2. <<0>> \o Part(h) \in Seq(Byte)
    BY <2>1, ConcatProperties
  <2>. QED
    BY <2>1, <2>2 DEF Prefix
<1>. HIDE DEF v
<1>9. buf' = Prefix(h) \o (Rest(h) \o v)
  <2>1. (Prefix(h) \o Rest(h)) \o v = Prefix(h) \o (Rest(h) \o v)
    <3>. DEFINE p == Prefix(h)  r == Rest(h)
    <3>1. p \in Seq(Byte) /\ r \in Seq(Byte) /\ v \in Seq(Byte)
      BY <1>6, <1>8
    <3>. HIDE DEF p, r
    <3>2. (p \o r) \o v = p \o (r \o v)
      BY <3>1, ConcatAssociative
    <3>. QED
      BY <3>2 DEF p, r
  <2>. QED
    BY <1>1, <1>4, <2>1 DEF v
<1>10. buf' = Prefix(h)' \o Rest(h)' /\ buf' \in Seq(Byte)
  <2>1. Rest(h) \o v \in Seq(Byte)
    BY <1>6, <1>8, ConcatProperties
  <2>. QED
    BY <1>3, <1>6, <1>7, <1>8, <1>9, <2>1, ConcatProperties
<1>11. Done(h)'
  <2>1. EndOf(h)' <= arrived'
    BY <1>1, <1>3, <1>4, <1>5
  <2>2. pc' # "idle"
    BY <1>2
  <2>3. /\ UnderWay(h)' => reassLen' = Len(Part(h)')
        /\ got' = Complete(h)'
        /\ \A k \in 1..h : sent'[k].frame.op = 8 => closing'
    BY <1>2, <1>3 DEF Done
  <2>. QED
    BY <1>10, <2>1, <2>2, <2>3 DEF Done
<1>12. TypeInv'
  BY <1>1, <1>2, <1>3, <1>5, <1>10 DEF TypeInv
<1>13. ClosingInv'
  <2>1. \A k \in 1..Len(sent) : EndOf(k - 1) < arrived => EndOf(k - 1) < c
    <3>. SUFFICES ASSUME NEW k \in 1..Len(sent), EndOf(k - 1) < arrived
                  PROVE  EndOf(k - 1) < c
      OBVIOUS
    <3>1. k - 1 \in 0..Len(sent)
      BY DEF TypeInv
    <3>2. EndOf(k - 1) \in Nat
      BY <3>1, NextFrame
    <3>. QED
      BY <1>4, <1>5, <3>2
  <2>. QED
    BY <1>1, <1>2, <1>3, <2>1 DEF ClosingInv
<1>. QED
  BY <1>3, <1>11, <1>12, <1>13

\* One more frame of the page changes nothing about the frames before it.
LEMMA SameFrames ==
  ASSUME sent \in Seq(SentFrame), NEW x, sent' = Append(sent, x)
  PROVE  /\ Len(sent') = Len(sent) + 1 /\ Len(sent) \in Nat
         /\ sent'[Len(sent) + 1] = x
         /\ \A k \in 1..Len(sent) : sent'[k] = sent[k]
         /\ \A k \in 0..Len(sent) :
              /\ EndOf(k)' = EndOf(k) /\ UnderWay(k)' = UnderWay(k)
              /\ Part(k)' = Part(k) /\ Complete(k)' = Complete(k) /\ Prefix(k)' = Prefix(k)
<1>1. Len(sent') = Len(sent) + 1 /\ Len(sent) \in Nat /\ sent'[Len(sent) + 1] = x
  OBVIOUS
<1>2. \A k \in 1..Len(sent) : sent'[k] = sent[k]
  OBVIOUS
<1>3. ASSUME NEW k \in 0..Len(sent)
      PROVE  /\ EndOf(k)' = EndOf(k) /\ UnderWay(k)' = UnderWay(k)
             /\ Part(k)' = Part(k) /\ Complete(k)' = Complete(k) /\ Prefix(k)' = Prefix(k)
  <2>1. k = 0 \/ k \in 1..Len(sent)
    BY <1>1
  <2>2. EndOf(k)' = EndOf(k) /\ Complete(k)' = Complete(k)
    BY <1>2, <2>1 DEF EndOf, Complete
  <2>3. UnderWay(k)' = UnderWay(k)
    <3>1. CASE k = 0
      BY <3>1 DEF UnderWay
    <3>2. CASE k \in 1..Len(sent)
      BY <1>2, <3>2 DEF UnderWay
    <3>. QED
      BY <2>1, <3>1, <3>2
  <2>4. Part(k)' = Part(k)
    <3>1. CASE k = 0
      BY <3>1 DEF Part, UnderWay
    <3>2. CASE k \in 1..Len(sent)
      BY <1>2, <2>3, <3>2 DEF Part
    <3>. QED
      BY <2>1, <3>1, <3>2
  <2>5. Prefix(k)' = Prefix(k)
    BY <2>3, <2>4 DEF Prefix
  <2>. QED
    BY <2>2, <2>3, <2>4, <2>5
<1>. QED
  BY <1>1, <1>2, <1>3

LEMMA BeginsTransitive ==
  ASSUME NEW s \in Seq(Given), NEW t \in Seq(Given), NEW u \in Seq(Given),
         Begins(s, t), Begins(t, u)
  PROVE  Begins(s, u)
<1>1. Len(s) \in Nat /\ Len(t) \in Nat /\ Len(u) \in Nat /\ Len(s) <= Len(t)
  BY DEF Begins
<1>2. \A i \in 1..Len(s) : i \in 1..Len(t)
  BY <1>1
<1>. QED
  BY <1>1, <1>2 DEF Begins

LEMMA SendPage ==
  ASSUME TypeInv, PageInv, NEW f \in Frames, Send(f)
  PROVE  PageInv' /\ wire' \in Seq(Byte) /\ sent' \in Seq(SentFrame)
<1>0. PICK n \in Nat : n = Len(sent)
  BY DEF TypeInv
<1>. DEFINE e == Encoded(f)  w == Len(wire)
            x == [frame |-> f, end |-> EndOf(n) + Len(e), message |-> Part(n) \o f.data,
                  complete |-> Completed(Complete(n), f, Part(n) \o f.data)]
<1>1. /\ n > 0 => sent[n].frame.op # 8
      /\ (f.op = 0) = UnderWay(n)
      /\ wire' = wire \o e /\ sent' = Append(sent, x)
  BY <1>0 DEF Send, Leaving
<1>2. /\ wire \in Seq(Byte) /\ sent \in Seq(SentFrame) /\ n \in Nat /\ w \in Nat /\ w = EndOf(n)
      /\ n \in 0..n
      /\ n = Len(sent)
  BY <1>0 DEF TypeInv, PageInv
<1>3. e \in Seq(Byte) /\ Len(e) \in Nat /\ Len(e) > 0
  BY EncodedType, EncodedSize
<1>4. /\ Len(sent') = n + 1 /\ sent'[n + 1] = x
      /\ \A k \in 1..n : sent'[k] = sent[k]
      /\ \A k \in 0..n : /\ EndOf(k)' = EndOf(k) /\ UnderWay(k)' = UnderWay(k)
                         /\ Part(k)' = Part(k) /\ Complete(k)' = Complete(k)
  BY <1>1, <1>2, SameFrames
<1>5. x \in SentFrame
  <2>1. EndOf(n) \in Nat /\ Part(n) \in Seq(Byte) /\ Complete(n) \in Seq(Given)
    BY <1>2, NextFrame
  <2>2. f.data \in Seq(Byte) /\ EndOf(n) + Len(e) \in Nat
    BY <1>3, <2>1, FrameFields
  <2>3. Part(n) \o f.data \in Seq(Byte)
    BY <2>1, <2>2, ConcatProperties
  <2>4. Completed(Complete(n), f, Part(n) \o f.data) \in Seq(Given)
    BY <2>1, <2>3, CompletedType
  <2>. HIDE DEF e
  <2>. QED
    BY <2>2, <2>3, <2>4 DEF SentFrame
<1>6. /\ wire' \in Seq(Byte) /\ Len(wire') = w + Len(e)
      /\ \A i \in 1..w : wire'[i] = wire[i]
      /\ \A i \in 1..Len(e) : wire'[w + i] = e[i]
  BY <1>1, <1>2, <1>3, Concat
<1>7. sent' \in Seq(SentFrame)
  BY <1>1, <1>2, <1>5, AppendProperties
<1>8. EndOf(n + 1)' = w + Len(e)
  <2>1. EndOf(n + 1)' = sent'[n + 1].end
    BY DEF EndOf
  <2>. QED
    BY <1>2, <1>4, <2>1
<1>. HIDE DEF w, e
<1>9. ASSUME NEW k \in 1..(n + 1)
      PROVE  FrameInv(k)'
  <2>1. CASE k \in 1..n
    <3>1. FrameInv(k) /\ k - 1 \in 0..n
      BY <1>2, <2>1 DEF PageInv
    <3>2. sent'[k] = sent[k] /\ EndOf(k - 1)' = EndOf(k - 1) /\ UnderWay(k - 1)' = UnderWay(k - 1)
          /\ Part(k - 1)' = Part(k - 1) /\ Complete(k - 1)' = Complete(k - 1)
      BY <1>4, <2>1, <3>1
    <3>. DEFINE g == sent[k].frame  a == EndOf(k - 1)  c == Encoded(g)
    <3>3. /\ sent[k].end = a + Len(c) /\ sent[k].end <= w
          /\ \A i \in 1..Len(c) : wire[a + i] = c[i]
          /\ (g.op = 0) = UnderWay(k - 1)
          /\ sent[k].message = Part(k - 1) \o g.data
          /\ sent[k].complete = Completed(Complete(k - 1), g, sent[k].message)
          /\ g.op = 8 => k = n
      BY <1>2, <3>1 DEF FrameInv, w
    <3>4. g.op # 8
      BY <1>1, <1>2, <2>1, <3>3
    <3>5. a \in Nat /\ Len(c) \in Nat /\ sent[k].end \in Nat
      <4>0. sent[k] \in SentFrame
        BY <1>2, <2>1, ElementOfSeq
      <4>1. g \in Frames /\ sent[k].end \in Nat
        BY <1>2, <2>1, <4>0 DEF SentFrame
      <4>2. a \in Nat
        BY <3>1, <1>2, NextFrame
      <4>. QED
        BY <4>1, <4>2, EncodedSize
    <3>6. \A i \in 1..Len(c) : wire'[a + i] = c[i]
      <4>1. \A i \in 1..Len(c) : a + i \in 1..w
        <5>. HIDE DEF a, c
        <5>. QED
          BY <1>2, <3>3, <3>5
      <4>. QED
        BY <1>6, <3>3, <4>1
    <3>7. sent[k].end <= Len(wire')
      BY <1>2, <1>3, <1>6, <3>3, <3>5
    <3>. QED
      BY <3>2, <3>3, <3>4, <3>6, <3>7 DEF FrameInv
  <2>2. CASE k = n + 1
    <3>1. /\ sent'[k] = x /\ (n + 1) - 1 = n /\ n \in 0..n /\ EndOf(n)' = w
          /\ UnderWay(n)' = UnderWay(n) /\ Part(n)' = Part(n) /\ Complete(n)' = Complete(n)
      BY <1>2, <1>4, <2>2
    <3>2. /\ x.frame = f /\ x.end = w + Len(e) /\ x.message = Part(n) \o f.data
          /\ x.complete = Completed(Complete(n), f, Part(n) \o f.data)
      BY <1>2
    <3>. HIDE DEF x
    <3>3. k - 1 = n /\ k = Len(sent')
      BY <1>4, <2>2, <3>1
    <3>4. /\ EndOf(k - 1)' = w /\ UnderWay(k - 1)' = UnderWay(n)
          /\ Part(k - 1)' = Part(n) /\ Complete(k - 1)' = Complete(n)
      BY <3>1, <3>3
    <3>5. /\ sent'[k].frame = f /\ sent'[k].end = w + Len(e)
          /\ sent'[k].message = Part(n) \o f.data
          /\ sent'[k].complete = Completed(Complete(n), f, sent'[k].message)
      BY <3>1, <3>2
    <3>6. w + Len(e) <= Len(wire')
      BY <1>2, <1>3, <1>6
    <3>. QED
      BY <1>1, <1>6, <3>3, <3>4, <3>5, <3>6 DEF FrameInv, e
  <2>. QED
    BY <1>2, <2>1, <2>2
<1>10. ASSUME NEW k \in 1..(n + 1), NEW j \in 0..(k - 1)
       PROVE  EndOf(j)' < EndOf(k)' /\ Begins(Complete(j), Complete(k))'
  <2>1. j \in 0..n /\ EndOf(j)' = EndOf(j) /\ Complete(j)' = Complete(j)
    BY <1>2, <1>4
  <2>2. CASE k \in 1..n
    <3>1. k \in 0..n
      BY <1>2, <2>2
    <3>2. /\ EndOf(k)' = EndOf(k) /\ EndOf(j) < EndOf(k)
          /\ Complete(k)' = Complete(k) /\ Begins(Complete(j), Complete(k))
      BY <1>2, <1>4, <2>2, <3>1 DEF PageInv
    <3>. QED
      BY <2>1, <3>2 DEF Begins
  <2>3. CASE k = n + 1
    <3>1. EndOf(j) \in Nat /\ EndOf(j) <= w
      BY <2>1, <1>2, NextFrame DEF w
    <3>2. EndOf(k)' = w + Len(e)
      BY <1>8, <2>3
    <3>. DEFINE c == Complete(n)  d == Completed(c, f, Part(n) \o f.data)
    <3>3. Complete(k)' = d
      <4>1. Complete(k)' = sent'[k].complete
        BY <1>2, <2>3 DEF Complete
      <4>. QED
        BY <1>4, <2>3, <4>1
    <3>4. c \in Seq(Given) /\ Complete(j) \in Seq(Given) /\ Part(n) \o f.data \in Seq(Byte)
      <4>1. c \in Seq(Given) /\ Complete(j) \in Seq(Given) /\ Part(n) \in Seq(Byte)
        BY <1>2, <2>1, NextFrame
      <4>. QED
        BY <4>1, FrameFields, ConcatProperties
    <3>5. d \in Seq(Given) /\ Begins(c, d)
      BY <3>4, CompletedType
    <3>6. Begins(Complete(j), c)
      <4>1. CASE j = n
        BY <3>4, <4>1 DEF Begins
      <4>2. CASE j # n
        <5>1. n \in 1..n /\ j \in 0..(n - 1)
          BY <1>2, <2>1, <4>2
        <5>. QED
          BY <1>2, <5>1 DEF PageInv
      <4>. QED
        BY <4>1, <4>2
    <3>. HIDE DEF c, d
    <3>7. Begins(Complete(j), d)
      BY <3>4, <3>5, <3>6, BeginsTransitive
    <3>8. Begins(Complete(j), Complete(k))'
      BY <2>1, <3>3, <3>7 DEF Begins
    <3>. QED
      BY <1>2, <1>3, <2>1, <3>1, <3>2, <3>8
  <2>. QED
    BY <1>2, <2>2, <2>3
<1>11. PageInv'
  BY <1>4, <1>6, <1>8, <1>9, <1>10 DEF PageInv
<1>. QED
  BY <1>6, <1>7, <1>11

LEMMA SendInv ==
  ASSUME TypeInv, PageInv, ClosingInv, NEW h \in 0..Len(sent), Done(h), NEW f \in Frames, Send(f)
  PROVE  TypeInv' /\ PageInv' /\ ClosingInv' /\ h \in 0..Len(sent') /\ Done(h)'
<1>0. PICK n \in Nat : n = Len(sent)
  BY DEF TypeInv
<1>. DEFINE e == Encoded(f)  w == Len(wire)
<1>1. PICK x : sent' = Append(sent, x)
  BY DEF Send
<1>2. /\ wire' = wire \o e /\ arrived' = arrived /\ buf' = buf /\ reassLen' = reassLen
      /\ pc' = pc /\ got' = got /\ closing' = closing
  BY DEF Send
<1>3. PageInv' /\ wire' \in Seq(Byte) /\ sent' \in Seq(SentFrame)
  BY SendPage
<1>4. /\ wire \in Seq(Byte) /\ sent \in Seq(SentFrame) /\ w \in Nat /\ w = EndOf(n)
      /\ arrived \in Nat /\ arrived <= w /\ n = Len(sent)
  BY <1>0 DEF TypeInv, PageInv
<1>5. e \in Seq(Byte) /\ Len(e) \in Nat /\ Len(e) > 0
  BY EncodedType, EncodedSize
<1>6. /\ Len(sent') = n + 1
      /\ \A k \in 1..n : sent'[k] = sent[k]
      /\ \A k \in 0..n : /\ EndOf(k)' = EndOf(k) /\ UnderWay(k)' = UnderWay(k)
                         /\ Part(k)' = Part(k) /\ Complete(k)' = Complete(k)
                         /\ Prefix(k)' = Prefix(k)
  BY <1>1, <1>4, SameFrames
<1>7. /\ Len(wire') = w + Len(e)
      /\ \A i \in 1..w : wire'[i] = wire[i]
  BY <1>2, <1>4, <1>5, Concat
<1>. HIDE DEF e, w
<1>8. TypeInv'
  <2>1. arrived' \in 0..Len(wire')
    BY <1>2, <1>4, <1>5, <1>7
  <2>. QED
    BY <1>2, <1>3, <2>1 DEF TypeInv
<1>9. h \in 0..n /\ h \in 0..Len(sent') /\ EndOf(h) \in Nat /\ EndOf(h) <= arrived
  BY <1>4, <1>6, NextFrame DEF Done
<1>10. Rest(h)' = Rest(h)
  <2>. DEFINE a == EndOf(h)  u == SubSeq(wire, a + 1, arrived)  v == SubSeq(wire', a + 1, arrived)
  <2>1. /\ u \in Seq(Byte) /\ Len(u) = arrived - a
        /\ \A i \in 1..(arrived - a) : u[i] = wire[a + i]
    BY <1>4, <1>9, SliceType DEF w
  <2>2. arrived <= Len(wire')
    BY <1>4, <1>5, <1>7
  <2>3. \A i \in 1..Len(u) : wire'[a + i] = u[i]
    <3>. HIDE DEF a, u
    <3>1. \A i \in 1..Len(u) : i \in 1..(arrived - a) /\ a + i \in 1..w
      BY <1>4, <1>9, <2>1 DEF a
    <3>. QED
      BY <1>7, <2>1, <3>1
  <2>4. v = u
    BY <1>3, <1>4, <1>9, <2>1, <2>2, <2>3, Slice
  <2>5. EndOf(h)' = EndOf(h)
    BY <1>6, <1>9
  <2>. QED
    BY <1>2, <2>4, <2>5 DEF Rest
<1>11. ASSUME pc' = "idle", h < Len(sent')
       PROVE  EndOf(h + 1)' > arrived
  <2>1. CASE h < n
    <3>1. EndOf(h + 1) > arrived
      BY <1>2, <1>4, <1>11, <2>1 DEF Done
    <3>2. h + 1 \in 0..n
      BY <1>9, <2>1
    <3>. QED
      BY <1>6, <3>1, <3>2
  <2>2. CASE h = n
    <3>1. EndOf(n + 1)' = Len(wire')
      <4>1. Len(wire') = EndOf(Len(sent))'
        BY <1>3 DEF PageInv
      <4>. QED
        BY <1>6, <4>1 DEF EndOf
    <3>. QED
      BY <1>4, <1>5, <1>7, <2>2, <3>1
  <2>. QED
    BY <1>9, <2>1, <2>2
<1>12. Done(h)'
  <2>1. /\ EndOf(h)' = EndOf(h) /\ UnderWay(h)' = UnderWay(h) /\ Part(h)' = Part(h)
        /\ Complete(h)' = Complete(h) /\ Prefix(h)' = Prefix(h)
    BY <1>6, <1>9
  <2>2. \A k \in 1..h : sent'[k] = sent[k]
    BY <1>6, <1>9
  <2>. QED
    BY <1>2, <1>10, <1>11, <2>1, <2>2 DEF Done
<1>13. ClosingInv'
  <2>1. \A k \in 1..n : k - 1 \in 0..n /\ k \in 1..(n + 1)
    OBVIOUS
  <2>2. \A k \in 1..n : sent'[k] = sent[k] /\ EndOf(k - 1)' = EndOf(k - 1)
    BY <1>6, <2>1
  <2>. QED
    BY <1>2, <1>4, <1>6, <2>1, <2>2 DEF ClosingInv
<1>. QED
  BY <1>3, <1>8, <1>9, <1>12, <1>13

-----------------------------------------------------------------------------
(* The invariant *)

LEMMA InitInv == Init => Inv
<1>. SUFFICES ASSUME Init
              PROVE  Inv
  OBVIOUS
<1>1. /\ wire = <<>> /\ sent = <<>> /\ arrived = 0 /\ buf = <<>> /\ reassLen = 0
      /\ pc = "idle" /\ got = <<>> /\ closing = FALSE
  BY DEF Init
<1>2. TypeInv
  <2>1. wire \in Seq(Byte) /\ sent \in Seq(SentFrame) /\ buf \in Seq(Byte)
        /\ got \in Seq(Given)
    BY <1>1, EmptySeq
  <2>2. arrived \in 0..Len(wire) /\ reassLen \in Nat /\ pc \in {"idle", "deliver"}
    BY <1>1
  <2>3. closing \in BOOLEAN
    BY <1>1, Zenon
  <2>. QED
    BY <2>1, <2>2, <2>3 DEF TypeInv
<1>3. Len(sent) = 0 /\ EndOf(0) = 0 /\ ~UnderWay(0) /\ Complete(0) = <<>>
  BY <1>1 DEF EndOf, UnderWay, Complete
<1>4. PageInv /\ ClosingInv
  BY <1>1, <1>3 DEF PageInv, ClosingInv
<1>5. Done(0)
  <2>1. Rest(0) = <<>>
    BY <1>1, <1>3 DEF Rest
  <2>2. Prefix(0) \o Rest(0) = <<>>
    BY <1>3, <2>1 DEF Prefix
  <2>. QED
    BY <1>1, <1>3, <2>2 DEF Done
<1>. QED
  BY <1>2, <1>3, <1>4, <1>5 DEF Inv

LEMMA StepInv == Inv /\ [Next]_vars => Inv'
<1>. SUFFICES ASSUME Inv, [Next]_vars
              PROVE  Inv'
  OBVIOUS
<1>1. TypeInv /\ PageInv /\ ClosingInv
  BY DEF Inv
<1>2. PICK h \in 0..Len(sent) : Done(h)
  BY DEF Inv
<1>3. CASE Read
  BY <1>1, <1>2, <1>3, ReadInv DEF Inv
<1>4. CASE Partial
  BY <1>1, <1>2, <1>4, PartialInv DEF Inv
<1>5. CASE Unfragmented
  BY <1>1, <1>2, <1>5, UnfragmentedInv DEF Inv
<1>6. CASE Fragment
  BY <1>1, <1>2, <1>6, FragmentInv DEF Inv
<1>7. ASSUME NEW f \in Frames, Send(f)
      PROVE  Inv'
  BY <1>1, <1>2, <1>7, SendInv DEF Inv
<1>8. CASE UNCHANGED vars
  <2>1. /\ UNCHANGED page /\ arrived' = arrived /\ buf' = buf /\ reassLen' = reassLen
        /\ pc' = pc /\ got' = got /\ closing' = closing
    BY <1>8 DEF vars
  <2>2. /\ wire' = wire /\ sent' = sent /\ PageInv'
        /\ \A k : /\ EndOf(k)' = EndOf(k) /\ UnderWay(k)' = UnderWay(k)
                  /\ Part(k)' = Part(k) /\ Complete(k)' = Complete(k)
                  /\ Prefix(k)' = Prefix(k) /\ Rest(k)' = Rest(k)
    BY <1>1, <2>1, SamePage
  <2>3. TypeInv' /\ ClosingInv'
    BY <1>1, <2>1, <2>2 DEF TypeInv, ClosingInv
  <2>4. Done(h)'
    BY <1>2, <2>1, <2>2 DEF Done
  <2>. QED
    BY <2>2, <2>3, <2>4 DEF Inv
<1>. QED
  BY <1>3, <1>4, <1>5, <1>6, <1>7, <1>8 DEF Next

LEMMA Invariance == Spec => []Inv
<1>. QED
  BY InitInv, StepInv, PTL DEF Spec

-----------------------------------------------------------------------------
(* What a page sends is what the event handler gets *)

\* Between two reads only one number of frames is the number that has arrived.
LEMMA OneArrived ==
  ASSUME TypeInv, PageInv, pc = "idle", NEW h \in 0..Len(sent), Done(h),
         NEW j \in 0..Len(sent), ArrivedUpTo(j)
  PROVE  j = h
<1>1. /\ \A k \in 0..Len(sent) : EndOf(k) \in Nat
      /\ \A k \in 1..Len(sent) : \A i \in 0..(k - 1) : EndOf(i) < EndOf(k)
      /\ Len(sent) \in Nat /\ arrived \in Nat
  BY NextFrame DEF PageInv, TypeInv
<1>2. ASSUME NEW a \in 0..Len(sent), NEW b \in 0..Len(sent), a < b
      PROVE  a + 1 \in 1..Len(sent) /\ EndOf(a + 1) <= EndOf(b)
  <2>1. a + 1 \in 1..Len(sent) /\ b \in 1..Len(sent) /\ (a + 1 = b \/ a + 1 \in 0..(b - 1))
    BY <1>1, <1>2
  <2>2. EndOf(b) \in Nat
    BY <1>1
  <2>3. CASE a + 1 = b
    BY <2>1, <2>2, <2>3
  <2>4. CASE a + 1 \in 0..(b - 1)
    <3>1. EndOf(a + 1) < EndOf(b) /\ EndOf(a + 1) \in Nat
      BY <1>1, <2>1, <2>4
    <3>. QED
      BY <2>1, <2>2, <3>1
  <2>. QED
    BY <2>1, <2>3, <2>4
<1>3. EndOf(h) <= arrived /\ (h < Len(sent) => EndOf(h + 1) > arrived)
  BY DEF Done
<1>4. EndOf(j) <= arrived /\ (j < Len(sent) => EndOf(j + 1) > arrived)
  BY DEF ArrivedUpTo
<1>5. ~(h < j)
  <2>. SUFFICES ASSUME h < j
                PROVE  FALSE
    OBVIOUS
  <2>1. h + 1 \in 0..Len(sent) /\ h < Len(sent)
    BY <1>1
  <2>2. EndOf(h + 1) <= EndOf(j) /\ EndOf(h + 1) \in Nat /\ EndOf(j) \in Nat
    BY <1>1, <1>2, <2>1
  <2>. QED
    BY <1>1, <1>3, <1>4, <2>1, <2>2
<1>6. ~(j < h)
  <2>. SUFFICES ASSUME j < h
                PROVE  FALSE
    OBVIOUS
  <2>1. j + 1 \in 0..Len(sent) /\ j < Len(sent)
    BY <1>1
  <2>2. EndOf(j + 1) <= EndOf(h) /\ EndOf(j + 1) \in Nat /\ EndOf(h) \in Nat
    BY <1>1, <1>2, <2>1
  <2>. QED
    BY <1>1, <1>3, <1>4, <2>1, <2>2
<1>. QED
  BY <1>1, <1>5, <1>6

\* mg_deliver_websocket_data, mg_ws_handler: between two reads the event handler has
\* been given the page's messages that have arrived, in order, each once, with the data
\* the page sent, for every cut of the bytes into reads and of the messages into frames.
THEOREM MessagesComeWhole == Spec => []MessagesDelivered
<1>1. ASSUME Inv
      PROVE  MessagesDelivered
  <2>. SUFFICES ASSUME pc = "idle", NEW j \in 0..Len(sent), ArrivedUpTo(j)
                PROVE  got = Complete(j)
    BY DEF MessagesDelivered
  <2>1. PICK h \in 0..Len(sent) : Done(h)
    BY <1>1 DEF Inv
  <2>2. j = h
    BY <1>1, <2>1, OneArrived DEF Inv
  <2>. QED
    BY <2>1, <2>2 DEF Done
<1>. QED
  BY <1>1, Invariance, PTL

\* mg_deliver_websocket_data: nothing of a message that was given to the event handler
\* stays in recv_mbuf.  Between two reads it holds the fragments of the message under way
\* behind one byte, and the bytes of the frame under way.
THEOREM BufferKeepsNothing == Spec => []NothingKept
<1>1. ASSUME Inv
      PROVE  NothingKept
  <2>. SUFFICES ASSUME pc = "idle", NEW j \in 0..Len(sent), ArrivedUpTo(j)
                PROVE  Len(buf) = (IF UnderWay(j) THEN 1 + Len(Part(j)) ELSE 0)
                                    + (arrived - EndOf(j))
    BY DEF NothingKept
  <2>1. PICK h \in 0..Len(sent) : Done(h)
    BY <1>1 DEF Inv
  <2>2. j = h /\ TypeInv /\ PageInv
    BY <1>1, <2>1, OneArrived DEF Inv
  <2>3. Part(h) \in Seq(Byte) /\ Rest(h) \in Seq(Byte) /\ Len(Rest(h)) = arrived - EndOf(h)
        /\ buf = Prefix(h) \o Rest(h)
    BY <2>1, <2>2, NextFrame, RestType DEF Done
  <2>. DEFINE p == Prefix(h)  r == Rest(h)  q == Part(h)
  <2>4. p \in Seq(Byte) /\ Len(p) = IF UnderWay(h) THEN 1 + Len(q) ELSE 0
    <3>1. CASE UnderWay(h)
      <4>1. <<0>> \in Seq(Byte) /\ Len(<<0>>) = 1
        BY DEF Byte
      <4>2. <<0>> \o q \in Seq(Byte) /\ Len(<<0>> \o q) = Len(<<0>>) + Len(q)
        BY <2>3, <4>1, ConcatProperties
      <4>. QED
        BY <3>1, <4>1, <4>2 DEF Prefix
    <3>2. CASE ~UnderWay(h)
      BY <3>2 DEF Prefix
    <3>. QED
      BY <3>1, <3>2
  <2>. HIDE DEF p, r, q
  <2>5. Len(p \o r) = Len(p) + Len(r)
    BY <2>3, <2>4, ConcatProperties DEF r
  <2>. QED
    BY <2>2, <2>3, <2>4, <2>5 DEF p, r, q
<1>. QED
  BY <1>1, Invariance, PTL

\* "client closes and close too": the connection closes once the page's close frame has
\* arrived, and not before a close frame has begun to arrive.
THEOREM ClosesWithThePage == Spec => []ClosesWithPage
<1>1. ASSUME Inv
      PROVE  ClosesWithPage
  <2>1. DOMAIN sent = 1..Len(sent)
    BY <1>1 DEF Inv, TypeInv
  <2>2. closing => \E k \in DOMAIN sent : sent[k].frame.op = 8 /\ EndOf(k - 1) < arrived
    BY <1>1, <2>1 DEF Inv, ClosingInv
  <2>3. ASSUME pc = "idle", NEW k \in 1..Len(sent), sent[k].frame.op = 8, sent[k].end <= arrived
        PROVE  closing
    <3>1. PICK h \in 0..Len(sent) : Done(h)
      BY <1>1 DEF Inv
    <3>2. TypeInv /\ PageInv
      BY <1>1 DEF Inv
    <3>3. k = Len(sent)
      BY <2>3, <3>2 DEF PageInv, FrameInv
    <3>4. Len(sent) \in Nat /\ arrived \in Nat /\ arrived <= Len(wire) /\ Len(wire) \in Nat
          /\ EndOf(k) = sent[k].end /\ EndOf(k) \in Nat /\ EndOf(k) = Len(wire)
      <4>1. k \in 0..Len(sent) /\ k # 0
        BY <3>2 DEF TypeInv
      <4>. QED
        BY <3>2, <3>3, <4>1, NextFrame DEF TypeInv, EndOf, PageInv
    <3>5. h = Len(sent)
      <4>1. arrived = Len(wire)
        BY <2>3, <3>4
      <4>2. h < Len(sent) => h + 1 \in 0..Len(sent)
        BY <3>4
      <4>3. h < Len(sent) => EndOf(h + 1) \in Nat /\ EndOf(h + 1) <= Len(wire)
        BY <3>2, <4>2, NextFrame
      <4>. QED
        BY <2>3, <3>1, <3>4, <4>1, <4>3 DEF Done
    <3>. QED
      BY <2>3, <3>1, <3>3, <3>5 DEF Done
  <2>. QED
    BY <2>1, <2>2, <2>3 DEF ClosesWithPage
<1>. QED
  BY <1>1, Invariance, PTL

-----------------------------------------------------------------------------
(* The channel *)

LEMMA NothingSeen ==
  ASSUME UNCHANGED <<sent, got, closing>>
  PROVE  UNCHANGED Channel!vars
BY DEF Channel!vars, Complete, Leaving

\* Another frame completes a message that the page sends, or is part of one.
LEMMA SendRefines ==
  ASSUME TypeInv, PageInv, NEW f \in Frames, Send(f)
  PROVE  Channel!Send \/ UNCHANGED Channel!vars
<1>0. PICK n \in Nat : n = Len(sent)
  BY DEF TypeInv
<1>. DEFINE c == Complete(n)  t == Part(n) \o f.data
            m == [control |-> f.op >= 8, data |-> t]
            x == [frame |-> f, end |-> EndOf(n) + Len(Encoded(f)), message |-> t,
                  complete |-> Completed(c, f, t)]
<1>1. ~Leaving /\ sent' = Append(sent, x) /\ got' = got /\ closing' = closing
  BY <1>0 DEF Send
<1>2. c \in Seq(Given) /\ t \in Seq(Byte)
  <2>1. c \in Seq(Given) /\ Part(n) \in Seq(Byte)
    BY <1>0, NextFrame
  <2>. QED
    BY <2>1, FrameFields, ConcatProperties
<1>3. Len(sent') = n + 1 /\ sent'[n + 1] = x
  BY <1>0, <1>1, SameFrames DEF TypeInv
<1>4. x.frame = f /\ x.complete = Completed(c, f, t)
  OBVIOUS
<1>. HIDE DEF x
<1>5. /\ Complete(Len(sent)) = c
      /\ Complete(Len(sent))' = Completed(c, f, t)
  <2>1. Complete(Len(sent))' = sent'[n + 1].complete
    BY <1>3 DEF Complete
  <2>. QED
    BY <1>0, <1>3, <1>4, <2>1
<1>6. Leaving' = (f.op = 8)
  BY <1>3, <1>4 DEF Leaving
<1>7. f.op >= 8 => f.fin
  BY FrameFields
<1>8. CASE f.fin
  <2>. DEFINE d == Completed(c, f, t)
  <2>1. d = Append(c, m)
    BY <1>8 DEF Completed
  <2>2. Len(d) = Len(c) + 1 /\ d[Len(c) + 1] = m
    BY <1>2, <1>8, CompletedType
  <2>3. m \in Channel!Messages
    <3>1. (f.op >= 8) \in BOOLEAN
      OBVIOUS
    <3>. QED
      BY <1>2, <3>1 DEF Channel!Messages
  <2>4. f.op = 8 => m.control
    <3>1. f.op = 8 => f.op >= 8
      OBVIOUS
    <3>2. m.control = (f.op >= 8)
      OBVIOUS
    <3>. QED
      BY <3>1, <3>2
  <2>5. Leaving' \in BOOLEAN
    BY DEF Leaving
  <2>. HIDE DEF c, d, m, t
  <2>6. Complete(Len(sent))' = d /\ Complete(Len(sent)) = c
    BY <1>5 DEF d
  <2>. QED
    BY <1>1, <1>6, <2>1, <2>2, <2>3, <2>4, <2>5, <2>6 DEF Channel!Send
<1>9. CASE ~f.fin
  <2>1. Complete(Len(sent))' = Complete(Len(sent))
    BY <1>5, <1>9 DEF Completed
  <2>2. Leaving' = Leaving
    <3>1. f.op # 8
      BY <1>7, <1>9
    <3>. QED
      BY <1>1, <1>6, <3>1 DEF Leaving
  <2>. QED
    BY <1>1, <2>1, <2>2 DEF Channel!vars
<1>. QED
  BY <1>8, <1>9

\* The handler's call with the last frame of a message delivers that message.
LEMMA DeliverRefines ==
  ASSUME TypeInv, PageInv, NEW h \in 0..Len(sent), Done(h), h < Len(sent),
         UNCHANGED page, TypeInv', PageInv', ClosingInv', Done(h + 1)',
         sent[h + 1].frame.fin, closing => closing'
  PROVE  Channel!Deliver
<1>0. PICK n \in Nat : n = Len(sent)
  BY DEF TypeInv
<1>. DEFINE f == sent[h + 1].frame  t == sent[h + 1].message
            c == Complete(h)  d == Complete(h + 1)  all == Complete(n)
            m == [control |-> f.op >= 8, data |-> t]
<1>1. sent' = sent /\ \A k : Complete(k)' = Complete(k)
  BY SamePage
<1>2. /\ h + 1 \in 1..n /\ h + 1 \in 0..n /\ n \in 0..n /\ f \in Frames
      /\ d = Completed(c, f, t)
  <2>1. h + 1 \in 1..n => h + 1 \in 0..n /\ n \in 0..n
    OBVIOUS
  <2>. QED
    BY <1>0, <2>1, NextFrame
<1>3. c \in Seq(Given) /\ d \in Seq(Given) /\ all \in Seq(Given) /\ t \in Seq(Byte)
  <2>1. sent[h + 1] \in SentFrame
    BY <1>0, <1>2, ElementOfSeq DEF TypeInv
  <2>2. t \in Seq(Byte)
    BY <2>1 DEF SentFrame
  <2>. QED
    BY <1>0, <1>2, <2>2, NextFrame
<1>4. got = c /\ got' = d
  BY <1>1 DEF Done
<1>5. d = Append(c, m) /\ Len(d) = Len(c) + 1 /\ d[Len(c) + 1] = m
  BY <1>2, <1>3, CompletedType DEF Completed
<1>6. Begins(d, all)
  <2>1. CASE h + 1 = n
    BY <1>3, <2>1 DEF Begins
  <2>2. CASE h + 1 # n
    <3>1. n \in 1..n /\ h + 1 \in 0..(n - 1)
      BY <1>2, <2>2
    <3>. QED
      BY <1>0, <3>1 DEF PageInv
  <2>. QED
    BY <2>1, <2>2
<1>7. all = Complete(Len(sent)) /\ Complete(Len(sent))' = all /\ Leaving' = Leaving
  BY <1>0, <1>1 DEF Leaving, Complete
<1>8. closing' = closing \/ closing' = Leaving
  <2>1. closing \in BOOLEAN /\ closing' \in BOOLEAN
    BY DEF TypeInv
  <2>2. closing' => Leaving'
    <3>. SUFFICES ASSUME closing'
                  PROVE  Leaving'
      OBVIOUS
    <3>1. PICK k \in 1..Len(sent') : sent'[k].frame.op = 8
      BY DEF ClosingInv
    <3>2. k = n
      BY <1>0, <1>1, <3>1 DEF PageInv, FrameInv
    <3>3. n > 0
      BY <1>2
    <3>. QED
      BY <1>0, <1>1, <3>1, <3>2, <3>3 DEF Leaving
  <2>3. Leaving \in BOOLEAN
    BY DEF Leaving
  <2>. QED
    BY <1>7, <2>1, <2>2, <2>3, Zenon
<1>9. ASSUME Leaving, d = all
      PROVE  closing'
  <2>. DEFINE g == sent[n].frame  b == Complete(n - 1)
  <2>1. g.op = 8
    BY <1>0, <1>9 DEF Leaving
  <2>2. /\ n - 1 \in 0..n /\ (n - 1) + 1 = n /\ n - 1 < n
    BY <1>2
  <2>3. /\ g \in Frames /\ b \in Seq(Given) /\ all = Completed(b, g, sent[n].message)
    BY <1>0, <2>2, NextFrame
  <2>4. Len(all) = Len(b) + 1
    <3>1. g.fin
      BY <2>1, <2>3, FrameFields
    <3>2. sent[n].message \in Seq(Byte)
      <4>1. n \in 1..n
        BY <1>2
      <4>2. sent[n] \in SentFrame
        BY <1>0, <4>1, ElementOfSeq DEF TypeInv
      <4>. QED
        BY <4>2 DEF SentFrame
    <3>. HIDE DEF g, b, all
    <3>. QED
      BY <2>3, <3>1, <3>2, CompletedType
  <2>5. h + 1 = n
    <3>. SUFFICES ASSUME h + 1 # n
                  PROVE  FALSE
      OBVIOUS
    <3>1. Begins(d, b)
      <4>1. CASE h + 1 = n - 1
        BY <1>3, <4>1 DEF Begins
      <4>2. CASE h + 1 # n - 1
        <5>1. n - 1 \in 1..n /\ h + 1 \in 0..((n - 1) - 1)
          BY <1>2, <4>2
        <5>. QED
          BY <1>0, <5>1 DEF PageInv
      <4>. QED
        BY <4>1, <4>2
    <3>. HIDE DEF d, b, all
    <3>2. Len(d) <= Len(b) /\ Len(b) \in Nat /\ Len(d) = Len(b) + 1
      BY <1>9, <2>3, <2>4, <3>1 DEF Begins
    <3>. QED
      BY <3>2
  <2>6. \A k \in 1..(h + 1) : sent'[k].frame.op = 8 => closing'
    BY DEF Done
  <2>7. h + 1 \in 1..(h + 1)
    BY <1>2
  <2>. QED
    BY <1>1, <2>1, <2>5, <2>6, <2>7
<1>10. Len(c) < Len(all) /\ all[Len(c) + 1] = m
  <2>. HIDE DEF c, d, all, m
  <2>1. Len(c) \in Nat /\ Len(all) \in Nat /\ Len(c) + 1 <= Len(all) /\ Len(c) + 1 \in 1..Len(d)
    BY <1>3, <1>5, <1>6 DEF Begins
  <2>. QED
    BY <1>5, <1>6, <2>1 DEF Begins
<1>. HIDE DEF c, d, all, m, f, t
<1>11. /\ Len(got) < Len(Complete(Len(sent)))
       /\ got' = Append(got, Complete(Len(sent))[Len(got) + 1])
  BY <1>4, <1>5, <1>7, <1>10
<1>12. Leaving /\ got' = Complete(Len(sent)) => closing'
  BY <1>4, <1>7, <1>9
<1>. QED
  BY <1>7, <1>8, <1>11, <1>12 DEF Channel!Deliver

\* mg_deliver_websocket_data, as eventHandler sees it, is a channel of whole messages: at
\* every moment, inside the loop too, the next message it is given is the next one the page
\* sent, and the connection is marked for closing with the page's close at the latest.
THEOREM FramesImplementChannel == Spec => ImplementsChannel
<1>1. Init => Channel!Init
  BY DEF Init, Channel!Init, Complete, Leaving
<1>2. ASSUME Inv, Inv', [Next]_vars
      PROVE  [Channel!Next]_(Channel!vars)
  <2>1. TypeInv /\ PageInv /\ ClosingInv
    BY <1>2 DEF Inv
  <2>2. PICK h \in 0..Len(sent) : Done(h)
    BY <1>2 DEF Inv
  <2>3. CASE Read \/ Partial
    BY <2>3, NothingSeen DEF Read, Partial, page
  <2>4. CASE Unfragmented
    <3>1. /\ Whole /\ ~Reass /\ UNCHANGED page /\ (closing => closing')
      BY <2>4 DEF Unfragmented
    <3>2. h < Len(sent) /\ sent[h + 1].frame.fin
      BY <2>1, <2>2, <3>1, FrameTaken
    <3>3. TypeInv' /\ PageInv' /\ ClosingInv' /\ Done(h + 1)'
      BY <2>1, <2>2, <2>4, UnfragmentedInv
    <3>. QED
      BY <2>1, <2>2, <3>1, <3>2, <3>3, DeliverRefines DEF Channel!Next
  <2>5. CASE Fragment
    <3>1. /\ Whole /\ UNCHANGED page /\ closing' = closing
          /\ ~(Frame[1] >= 128) => got' = got
      BY <2>5 DEF Fragment
    <3>2. h < Len(sent) /\ Frame[1] = Flags(sent[h + 1].frame)
      BY <2>1, <2>2, <3>1, FrameTaken
    <3>3. sent[h + 1].frame \in Frames
      BY <2>1, <3>2, NextFrame
    <3>4. CASE sent[h + 1].frame.fin
      <4>1. TypeInv' /\ PageInv' /\ ClosingInv' /\ Done(h + 1)'
        BY <2>1, <2>2, <2>5, FragmentInv
      <4>. QED
        BY <2>1, <2>2, <3>1, <3>2, <3>4, <4>1, DeliverRefines DEF Channel!Next
    <3>5. CASE ~sent[h + 1].frame.fin
      <4>1. got' = got
        BY <3>1, <3>2, <3>3, <3>5, FlagsType
      <4>. QED
        BY <3>1, <4>1, NothingSeen DEF page
    <3>. QED
      BY <3>4, <3>5
  <2>6. ASSUME NEW f \in Frames, Send(f)
        PROVE  [Channel!Next]_(Channel!vars)
    BY <2>1, <2>6, SendRefines DEF Channel!Next
  <2>7. CASE UNCHANGED vars
    BY <2>7, NothingSeen DEF vars, page
  <2>. QED
    BY <1>2, <2>3, <2>4, <2>5, <2>6, <2>7 DEF Next
<1>. QED
  BY <1>1, <1>2, Invariance, PTL DEF Spec, ImplementsChannel, Channel!Spec

=============================================================================
