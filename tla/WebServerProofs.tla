---------------------------- MODULE WebServerProofs ----------------------------
(***************************************************************************)
(* Proofs about WebServer: its type invariant, that replies and frames are *)
(* sent in order and do not mix, and that a connection is closed only      *)
(* after its whole reply, for any number of connections, any plans, any    *)
(* length of the file and any sizes of the buffers.                        *)
(***************************************************************************)
EXTENDS WebServer, SequenceTheorems, TLAPS

Inputs == Requests \cup {"zero", "close"}

Units == {"head", "data", "end", "error", "101", "pulses"} \X Nat

Connection ==
  [recv : Seq(Inputs), send : Seq(Units), file : 0..FileLen, keep : BOOLEAN,
   ws : BOOLEAN, sac : BOOLEAN, ci : BOOLEAN]

TypeInv ==
  /\ plan \in Plans
  /\ page \in [Conns -> {"away", "open", "stalled", "gone"}]
  /\ asked \in [Conns -> Nat]
  /\ toServer \in [Conns -> Seq(Inputs)]
  /\ toPage \in [Conns -> Seq(Units)]
  /\ seen \in [Conns -> Seq(Units)]
  /\ owed \in [Conns -> Seq(Units)]
  /\ backlog \in Seq(Conns)
  /\ conns \in Seq(Conns)
  /\ srv \in [Conns -> Connection]
  /\ pc \in {"select", "handle", "close", "broadcast", "free", "left"}
  /\ todo \in Seq(Conns)
  /\ ready \in [read : SUBSET Conns, write : SUBSET Conns, listener : BOOLEAN]
  /\ pulses \in Nat /\ poured \in Nat /\ pulses <= poured
  /\ running \in BOOLEAN
  /\ shut \subseteq Conns
  /\ \A c \in Conns : Len(toPage[c]) <= SocketCap

\* The lists: a connection is in one of them, once.
ListInv ==
  /\ IsInjective(conns) /\ IsInjective(backlog) /\ IsInjective(todo)
  /\ Range(todo) \subseteq Range(conns)
  /\ Range(conns) \cap Range(backlog) = {}
  /\ shut \cap (Range(conns) \cup Range(backlog)) = {}
  /\ \A c \in Range(conns) \cup Range(backlog) \cup shut : page[c] # "away"
  /\ pc \notin {"handle", "close"} => todo = <<>>

\* What select returned still holds for the connections to come.
ReadyInv ==
  /\ pc # "handle" => ready = NothingReady
  /\ ready.listener => backlog # <<>>
  /\ \A c \in ready.read \cap Range(todo) : toServer[c] # <<>> \/ page[c] = "gone"

\* A connection the server has not accepted, or has closed, holds nothing.
FreshInv ==
  /\ \A c \in Range(backlog) \cup shut : srv[c] = Fresh
  /\ \A c \in shut : toServer[c] = <<>>
  /\ \A c \in Conns : page[c] = "away" =>
       /\ srv[c] = Fresh /\ asked[c] = 0
       /\ toServer[c] = <<>> /\ toPage[c] = <<>> /\ seen[c] = <<>> /\ owed[c] = <<>>

-----------------------------------------------------------------------------
(* One connection: p is its plan, a the number of requests asked, o what they are *)
(* owed, sent what left the server, k the server's connection, in what the kernel  *)
(* holds for it.                                                                   *)

\* Every request was served: all it is owed is sent, queued or left of the file, and
\* the connection ends only after the last request.
Serving(p, a, o, sent, k, in) ==
  /\ k.recv = <<>> /\ in = <<>> /\ ~k.ci
  /\ sent \o k.send \o Data(k.file) = o
  /\ k.sac => k.file = 0
  /\ (k.sac \/ (k.file > 0 /\ ~k.keep)) => a = Len(p)

\* The last request is not served yet, the others are.
Pending(p, a, o, sent, k, in) ==
  /\ a \in 1..Len(p)
  /\ k.recv \o in = <<p[a], p[a]>>
  /\ k.send = <<>> /\ k.file = 0 /\ ~k.sac
  /\ sent \o Reply(p[a]) = o
  /\ k.ci \/ in = <<>> => p[a] = "bad"

HttpOK(p, a, o, sent, k, in) ==
  ~k.ws /\ (Serving(p, a, o, sent, k, in) \/ Pending(p, a, o, sent, k, in))

\* The handshake first, and only there.
OneHandshake(out) == \A i \in DOMAIN out : (out[i] = Unit("101")) = (i = 1)

WsOK(a, sent, k, in) ==
  /\ k.file = 0 /\ ~k.ci
  /\ \/ /\ ~k.ws /\ ~k.sac /\ sent = <<>> /\ k.send = <<>>
        /\ \/ a = 0 /\ k.recv = <<>> /\ in = <<>>
           \/ a = 1 /\ k.recv \o in = <<"ws", "ws">> /\ in # <<>>
     \/ k.ws /\ a = 1 /\ sent \o k.send # <<>> /\ OneHandshake(sent \o k.send)

ConnOK(p, a, o, sent, k, in) ==
  IF p = <<"ws">> THEN WsOK(a, sent, k, in) ELSE HttpOK(p, a, o, sent, k, in)

Sent(c) == seen[c] \o toPage[c]

ConnInv(c) ==
  /\ asked[c] <= Len(plan[c])
  /\ srv[c].ws \/ srv[c].recv \o toServer[c] \in Seq(Requests)
  /\ page[c] # "gone" =>
       IF c \in shut /\ plan[c] = <<"ws">>
       THEN OneHandshake(Sent(c))
       ELSE ConnOK(plan[c], asked[c], owed[c], Sent(c), srv[c], toServer[c])

Inv ==
  /\ TypeInv /\ ListInv /\ ReadyInv /\ FreshInv
  /\ \A c \in Conns : ConnInv(c)

-----------------------------------------------------------------------------
(* Lemmas: sequences and the operators on one connection *)

LEMMA DataType ==
  ASSUME NEW n \in Nat
  PROVE  Data(n) \in Seq(Units) /\ Len(Data(n)) = n
<1>1. Unit("data") \in Units
  BY DEF Unit, Units
<1>. QED
  BY <1>1 DEF Data

LEMMA DataSplit ==
  ASSUME NEW m \in Nat, NEW n \in Nat
  PROVE  Data(m) \o Data(n) = Data(m + n)
<1>. DEFINE d == Unit("data")
<1>1. /\ Data(m) = [i \in 1..m |-> d] /\ Data(n) = [i \in 1..n |-> d]
      /\ Data(m + n) = [i \in 1..(m + n) |-> d]
  BY DEF Data
<1>. HIDE DEF d
<1>. QED
  BY <1>1

LEMMA MinOfTwo ==
  ASSUME NEW a \in Nat, NEW b \in Nat
  PROVE  Min({a, b}) \in {a, b} /\ Min({a, b}) <= a /\ Min({a, b}) <= b
<1>1. \E x \in {a, b} : \A y \in {a, b} : x <= y
  OBVIOUS
<1>. QED
  BY <1>1 DEF Min

LEMMA NothingLeft == Data(0) = <<>>
  BY DEF Data

LEMMA Associative ==
  ASSUME NEW S, NEW s \in Seq(S), NEW t \in Seq(S), NEW u \in Seq(S)
  PROVE  (s \o t) \o u = s \o (t \o u)
  BY ConcatAssociative

\* mg_http_transfer_file_data moves a part of the file to send_mbuf.
LEMMA TransferType ==
  ASSUME NEW k \in Connection
  PROVE  /\ Transfer(k) \in Connection
         /\ Transfer(k).recv = k.recv /\ Transfer(k).ws = k.ws
         /\ Transfer(k).keep = k.keep /\ Transfer(k).ci = k.ci
         /\ Transfer(k).sac => k.sac \/ (Transfer(k).file = 0 /\ k.file > 0 /\ ~k.keep)
         /\ Transfer(k).file <= k.file
         /\ Transfer(k).send \o Data(Transfer(k).file) = k.send \o Data(k.file)
         /\ k.file = 0 => Transfer(k) = k
<1>. DEFINE n == IF Len(k.send) >= SendMbuf THEN 0
                 ELSE Min({SendMbuf - Len(k.send), k.file})
            t == [recv |-> k.recv, send |-> k.send \o Data(n), file |-> k.file - n,
                  keep |-> k.keep, ws |-> k.ws, sac |-> k.sac \/ (n = k.file /\ ~k.keep),
                  ci |-> k.ci]
<1>1. /\ k.send \in Seq(Units) /\ k.file \in 0..FileLen /\ FileLen \in Nat /\ SendMbuf \in Nat
      /\ k.recv \in Seq(Inputs) /\ k.ws \in BOOLEAN /\ k.ci \in BOOLEAN
      /\ k.keep \in BOOLEAN /\ k.sac \in BOOLEAN
  BY SizesAssumption DEF Connection
<1>2. n \in 0..k.file
  <2>1. CASE Len(k.send) >= SendMbuf
    BY <2>1, <1>1
  <2>2. CASE ~(Len(k.send) >= SendMbuf)
    <3>1. SendMbuf - Len(k.send) \in Nat
      BY <2>2, <1>1
    <3>2. k.file \in Nat
      BY <1>1
    <3>. QED
      BY <2>2, <3>1, <3>2, MinOfTwo
  <2>. QED
    BY <2>1, <2>2
<1>3. CASE k.file = 0
  <2>1. Transfer(k) = k
    BY <1>3 DEF Transfer
  <2>. QED
    BY <2>1, <1>3, <1>1
<1>4. CASE k.file # 0
  <2>1. Transfer(k) = t
    BY <1>4 DEF Transfer, Connection
  <2>. HIDE DEF n
  <2>2. Data(n) \in Seq(Units) /\ Data(k.file - n) \in Seq(Units)
    BY <1>1, <1>2, DataType
  <2>3. k.send \o Data(n) \in Seq(Units)
    BY <2>2, <1>1, ConcatProperties
  <2>4. t \in Connection
    BY <2>3, <1>1, <1>2 DEF Connection
  <2>6. t.send \o Data(t.file) = k.send \o Data(k.file)
    <3>1. (k.send \o Data(n)) \o Data(k.file - n) = k.send \o (Data(n) \o Data(k.file - n))
      <4>. DEFINE a == k.send  b == Data(n)  e == Data(k.file - n)
      <4>1. a \in Seq(Units) /\ b \in Seq(Units) /\ e \in Seq(Units)
        BY <2>2, <1>1
      <4>. HIDE DEF a, b, e
      <4>2. (a \o b) \o e = a \o (b \o e)
        BY <4>1, Associative
      <4>. QED
        BY <4>2 DEF a, b, e
    <3>2. Data(n) \o Data(k.file - n) = Data(k.file)
      <4>1. n \in Nat /\ k.file - n \in Nat /\ n + (k.file - n) = k.file
        BY <1>1, <1>2
      <4>. QED
        BY <4>1, DataSplit
    <3>. QED
      BY <3>1, <3>2
  <2>7. /\ t.recv = k.recv /\ t.ws = k.ws /\ t.keep = k.keep /\ t.ci = k.ci
        /\ t.file = k.file - n /\ t.sac = (k.sac \/ (n = k.file /\ ~k.keep))
    OBVIOUS
  <2>. HIDE DEF t
  <2>8. t.file <= k.file
    BY <2>7, <1>1, <1>2
  <2>9. t.sac => k.sac \/ (t.file = 0 /\ k.file > 0 /\ ~k.keep)
    BY <2>7, <1>1, <1>2, <1>4
  <2>. QED
    BY <2>1, <2>4, <2>6, <2>7, <2>8, <2>9, <1>4
<1>. QED
  BY <1>3, <1>4

LEMMA Cut ==
  ASSUME NEW S, NEW s \in Seq(S), NEW n \in 0..Len(s)
  PROVE  /\ SubSeq(s, 1, n) \in Seq(S) /\ Len(SubSeq(s, 1, n)) = n
         /\ SubSeq(s, n + 1, Len(s)) \in Seq(S) /\ Len(SubSeq(s, n + 1, Len(s))) = Len(s) - n
         /\ SubSeq(s, 1, n) \o SubSeq(s, n + 1, Len(s)) = s
<1>1. /\ Len(s) \in Nat /\ 1 \in 1..(Len(s) + 1) /\ n \in (1 - 1)..Len(s)
      /\ Len(s) \in n..Len(s) /\ n \in Int /\ n + 1 \in Int /\ Len(s) \in Int
  OBVIOUS
<1>2. SubSeq(s, 1, n) \o SubSeq(s, n + 1, Len(s)) = SubSeq(s, 1, Len(s))
  BY <1>1, ConcatAdjacentSubSeq
<1>3. SubSeq(s, 1, Len(s)) = s
  BY SubSeqFull
<1>4. SubSeq(s, 1, n) \in Seq(S) /\ Len(SubSeq(s, 1, n)) = n
  <2>1. \A i \in 1..n : s[i] \in S
    BY ElementOfSeq
  <2>. QED
    BY <2>1, <1>1, SubSeqProperties
<1>5. /\ SubSeq(s, n + 1, Len(s)) \in Seq(S)
      /\ Len(SubSeq(s, n + 1, Len(s))) = Len(s) - n
  <2>1. \A i \in (n + 1)..Len(s) : s[i] \in S
    BY ElementOfSeq
  <2>. QED
    BY <2>1, <1>1, SubSeqProperties
<1>. QED
  BY <1>2, <1>3, <1>4, <1>5

\* mg_if_sent_cb and the polls after it: a part of send_mbuf is written, the file moves up.
LEMMA WrittenType ==
  ASSUME NEW k \in Connection, NEW n \in 0..Len(k.send)
  PROVE  /\ Written(k, n) \in Connection
         /\ Written(k, n).recv = k.recv /\ Written(k, n).ws = k.ws
         /\ Written(k, n).keep = k.keep /\ Written(k, n).ci = k.ci
         /\ Written(k, n).sac => k.sac \/ (Written(k, n).file = 0 /\ k.file > 0 /\ ~k.keep)
         /\ Written(k, n).file <= k.file
         /\ Written(k, n).send \o Data(Written(k, n).file)
              = SubSeq(k.send, n + 1, Len(k.send)) \o Data(k.file)
         /\ k.file = 0 => /\ Written(k, n).send = SubSeq(k.send, n + 1, Len(k.send))
                          /\ Written(k, n).sac = k.sac
<1>. DEFINE rest == SubSeq(k.send, n + 1, Len(k.send))
            w == [k EXCEPT !.send = rest]
<1>1. rest \in Seq(Units)
  <2>1. k.send \in Seq(Units)
    BY DEF Connection
  <2>. QED
    BY <2>1, Cut
<1>2. Written(k, n) = Transfer(w)
  BY DEF Written
<1>. HIDE DEF rest
<1>3. w \in Connection
  BY <1>1 DEF Connection
<1>4. /\ w.recv = k.recv /\ w.send = rest /\ w.file = k.file /\ w.keep = k.keep
      /\ w.ws = k.ws /\ w.sac = k.sac /\ w.ci = k.ci
  BY DEF Connection
<1>. HIDE DEF w
<1>. DEFINE t == Transfer(w)
<1>5. /\ t \in Connection /\ t.recv = w.recv /\ t.ws = w.ws /\ t.keep = w.keep /\ t.ci = w.ci
      /\ t.sac => w.sac \/ (t.file = 0 /\ w.file > 0 /\ ~w.keep)
      /\ t.file <= w.file
      /\ t.send \o Data(t.file) = w.send \o Data(w.file)
      /\ w.file = 0 => t = w
  BY <1>3, TransferType
<1>. HIDE DEF t
<1>6. Written(k, n) = t
  BY <1>2 DEF t
<1>. QED
  BY <1>6, <1>4, <1>5 DEF rest

LEMMA ReplyType ==
  ASSUME NEW r \in Requests
  PROVE  Reply(r) \in Seq(Units)
<1>1. /\ Unit("101") \in Units /\ Unit("head") \in Units /\ Unit("end") \in Units
      /\ Unit("error") \in Units
  BY DEF Unit, Units
<1>2. CASE r \in {"file", "fileClose"}
  <2>1. FileLen \in Nat
    BY SizesAssumption
  <2>2. Data(FileLen) \in Seq(Units) /\ <<Unit("head")>> \in Seq(Units)
    BY <1>1, <2>1, DataType
  <2>3. <<Unit("head")>> \o Data(FileLen) \in Seq(Units)
    BY <2>2, ConcatProperties
  <2>. QED
    BY <1>2, <2>3 DEF Reply
<1>3. CASE r = "ws"
  BY <1>1, <1>3 DEF Reply
<1>4. CASE r = "api"
  BY <1>1, <1>4 DEF Reply
<1>5. CASE r = "missing"
  BY <1>1, <1>5 DEF Reply
<1>6. CASE r = "bad"
  BY <1>6 DEF Reply
<1>. QED
  BY <1>2, <1>3, <1>4, <1>5, <1>6 DEF Requests

\* eventHandler and mg_http_handler, for a request that is whole: its types, and the
\* reply to a request that is no upgrade, when nothing is queued before it.
LEMMA ServeType ==
  ASSUME NEW k \in Connection, NEW r \in Requests \ {"bad"}
  PROVE  /\ Serve(k, r) \in Connection
         /\ Serve(k, r).recv = k.recv /\ Serve(k, r).ci = k.ci
         /\ Serve(k, r).ws <=> k.ws \/ r = "ws"
         /\ (r # "ws" /\ k.send = <<>> /\ k.file = 0 /\ ~k.sac) =>
              /\ Serve(k, r).send \o Data(Serve(k, r).file) = Reply(r)
              /\ Serve(k, r).sac => Serve(k, r).file = 0
              /\ (Serve(k, r).sac \/ (Serve(k, r).file > 0 /\ ~Serve(k, r).keep))
                   => r \in Closing
<1>1. /\ Unit("101") \in Units /\ Unit("head") \in Units /\ Unit("end") \in Units
      /\ Unit("error") \in Units
  BY DEF Unit, Units
<1>2. /\ k.send \in Seq(Units) /\ k.file \in 0..FileLen /\ FileLen \in Nat \ {0}
      /\ k.recv \in Seq(Inputs) /\ k.ws \in BOOLEAN /\ k.ci \in BOOLEAN
      /\ k.keep \in BOOLEAN /\ k.sac \in BOOLEAN
  BY SizesAssumption DEF Connection
<1>3. CASE r = "ws"
  <2>. DEFINE x == IF k.sac \/ k.send # <<>> THEN k.send ELSE Handshake
              u == [k EXCEPT !.ws = TRUE, !.send = x]
  <2>1. x \in Seq(Units)
    BY <1>1, <1>2 DEF Handshake
  <2>2. Serve(k, r) = u
    BY <1>3 DEF Serve, Upgrade
  <2>. HIDE DEF x
  <2>3. u \in Connection /\ u.recv = k.recv /\ u.ci = k.ci /\ u.ws = TRUE
    BY <2>1, <1>2 DEF Connection
  <2>. QED
    BY <1>3, <2>2, <2>3
<1>4. CASE r = "api"
  <2>. DEFINE x == k.send \o <<Unit("head"), Unit("end")>>
              u == [k EXCEPT !.send = x]
  <2>1. x \in Seq(Units)
    <3>1. <<Unit("head"), Unit("end")>> \in Seq(Units)
      BY <1>1
    <3>. QED
      BY <3>1, <1>2, ConcatProperties
  <2>2. Serve(k, r) = u
    BY <1>4 DEF Serve, RestApi
  <2>3. k.send = <<>> => x = Reply(r)
    BY <1>1, <1>4 DEF Reply
  <2>. HIDE DEF x
  <2>4. u \in Connection /\ u.recv = k.recv /\ u.ci = k.ci /\ u.ws = k.ws
        /\ u.send = x /\ u.file = k.file /\ u.sac = k.sac
    BY <2>1, <1>2 DEF Connection
  <2>. HIDE DEF u
  <2>5. ASSUME k.send = <<>>, k.file = 0, ~k.sac
        PROVE  u.send \o Data(u.file) = Reply(r) /\ ~u.sac /\ u.file = 0
    BY <2>1, <2>3, <2>4, <2>5, NothingLeft, ConcatEmptySeq
  <2>6. Serve(k, r).ws <=> k.ws \/ r = "ws"
    BY <1>4, <2>2, <2>4
  <2>. QED
    BY <2>2, <2>4, <2>5, <2>6
<1>5. CASE r = "missing"
  <2>. DEFINE x == Append(k.send, Unit("error"))
              u == [k EXCEPT !.send = x, !.sac = TRUE]
  <2>1. x \in Seq(Units)
    BY <1>1, <1>2, AppendProperties
  <2>2. Serve(k, r) = u
    BY <1>5 DEF Serve, ServeHttp, SendError
  <2>3. k.send = <<>> => x = Reply(r)
    BY <1>5 DEF Reply
  <2>. HIDE DEF x
  <2>4. u \in Connection /\ u.recv = k.recv /\ u.ci = k.ci /\ u.ws = k.ws
        /\ u.send = x /\ u.file = k.file /\ u.sac = TRUE
    BY <2>1, <1>2 DEF Connection
  <2>. HIDE DEF u
  <2>5. ASSUME k.send = <<>>, k.file = 0
        PROVE  u.send \o Data(u.file) = Reply(r) /\ u.file = 0
    BY <2>1, <2>3, <2>4, <2>5, NothingLeft, ConcatEmptySeq
  <2>6. r \in Closing
    BY <1>5 DEF Closing
  <2>7. Serve(k, r).ws <=> k.ws \/ r = "ws"
    BY <1>5, <2>2, <2>4
  <2>. QED
    BY <2>2, <2>4, <2>5, <2>6, <2>7
<1>6. CASE r \in {"file", "fileClose"}
  <2>. DEFINE x == Append(k.send, Unit("head"))
              b == (r = "file")
              u == [k EXCEPT !.send = x, !.file = FileLen, !.keep = b]
              t == Transfer(u)
  <2>1. x \in Seq(Units)
    BY <1>1, <1>2, AppendProperties
  <2>2. Serve(k, r) = t
    <3>1. Serve(k, r) = ServeFile(k, b)
      BY <1>6 DEF Serve, ServeHttp
    <3>. QED
      BY <3>1 DEF ServeFile
  <2>3. k.send = <<>> => x \o Data(FileLen) = Reply(r)
    BY <1>6 DEF Reply
  <2>. HIDE DEF x, b
  <2>a. b \in BOOLEAN
    BY DEF b
  <2>b. /\ u.recv = k.recv /\ u.ci = k.ci /\ u.ws = k.ws /\ u.send = x
        /\ u.file = FileLen /\ u.sac = k.sac /\ u.keep = b
    BY DEF Connection
  <2>c. u \in Connection
    <3>1. \A y \in Seq(Units), f \in 0..FileLen, e \in BOOLEAN :
            [k EXCEPT !.send = y, !.file = f, !.keep = e] \in Connection
      BY DEF Connection
    <3>2. FileLen \in 0..FileLen
      BY <1>2
    <3>. QED
      BY <3>1, <3>2, <2>a, <2>1
  <2>4. u \in Connection /\ u.recv = k.recv /\ u.ci = k.ci /\ u.ws = k.ws
        /\ u.send = x /\ u.file = FileLen /\ u.sac = k.sac /\ u.keep = b
    BY <2>b, <2>c
  <2>. HIDE DEF u
  <2>5. /\ t \in Connection /\ t.recv = u.recv /\ t.ws = u.ws /\ t.keep = u.keep /\ t.ci = u.ci
        /\ t.sac => u.sac \/ (t.file = 0 /\ u.file > 0 /\ ~u.keep)
        /\ t.send \o Data(t.file) = u.send \o Data(u.file)
    BY <2>4, TransferType
  <2>. HIDE DEF t
  <2>6. ~t.keep => r \in Closing
    <3>1. t.keep = (r = "file")
      BY <2>4, <2>5 DEF b
    <3>. QED
      BY <1>6, <3>1 DEF Closing
  <2>7. ASSUME k.send = <<>>, k.file = 0, ~k.sac
        PROVE  /\ t.send \o Data(t.file) = Reply(r)
               /\ t.sac => t.file = 0
               /\ t.sac \/ (t.file > 0 /\ ~t.keep) => ~t.keep
    BY <2>3, <2>4, <2>5, <2>7
  <2>8. Serve(k, r).ws <=> k.ws \/ r = "ws"
    BY <1>6, <2>2, <2>4, <2>5
  <2>9. t \in Connection /\ t.recv = k.recv /\ t.ci = k.ci
    BY <2>4, <2>5
  <2>. QED
    BY <2>2, <2>6, <2>7, <2>8, <2>9
<1>. QED
  BY <1>3, <1>4, <1>5, <1>6 DEF Requests

LEMMA Parts ==
  ASSUME NEW S, NEW T, NEW a \in Seq(T), NEW b \in Seq(T), a \o b \in Seq(S)
  PROVE  a \in Seq(S) /\ b \in Seq(S)
<1>. DEFINE s == a \o b
<1>1. /\ Len(s) = Len(a) + Len(b)
      /\ \A i \in 1..Len(s) : s[i] = IF i <= Len(a) THEN a[i] ELSE b[i - Len(a)]
  BY ConcatProperties
<1>2. s \in Seq(S)
  OBVIOUS
<1>3. Len(a) \in Nat /\ Len(b) \in Nat
  OBVIOUS
<1>. HIDE DEF s
<1>4. \A i \in 1..Len(a) : a[i] \in S
  <2>. TAKE i \in 1..Len(a)
  <2>1. i \in 1..Len(s) /\ s[i] = a[i]
    BY <1>1, <1>3
  <2>. QED
    BY <1>2, <2>1, ElementOfSeq
<1>5. \A i \in 1..Len(b) : b[i] \in S
  <2>. TAKE i \in 1..Len(b)
  <2>1. i + Len(a) \in 1..Len(s) /\ ~(i + Len(a) <= Len(a)) /\ (i + Len(a)) - Len(a) = i
    BY <1>1, <1>3
  <2>2. s[i + Len(a)] = b[i]
    BY <1>1, <2>1
  <2>. QED
    BY <1>2, <2>1, <2>2, ElementOfSeq
<1>. QED
  BY <1>4, <1>5

\* What mg_http_handler does with the bytes of one read, by what is in recv_mbuf then.
LEMMA HttpReceiveCases ==
  ASSUME NEW k \in Connection, NEW units \in Seq(Inputs), units # <<>>,
         k.recv \o units \in Seq(Requests)
  PROVE  \E t \in Connection :
           /\ t.recv = k.recv \o units /\ t.ws = k.ws /\ t.ci = k.ci /\ t.keep = k.keep
           /\ k.file = 0 => t.send = k.send /\ t.file = 0 /\ t.sac = k.sac
           /\ t.recv # <<>> /\ t.recv[1] \in Requests
           /\ \/ t.recv[1] = "bad" /\ HttpReceive(k, units) = [t EXCEPT !.ci = TRUE]
              \/ t.recv[1] # "bad" /\ Len(t.recv) < 2 /\ HttpReceive(k, units) = t
              \/ /\ t.recv[1] # "bad" /\ Len(t.recv) >= 2
                 /\ \E u \in Connection :
                      /\ u.recv = SubSeq(t.recv, 3, Len(t.recv))
                      /\ u.send = t.send /\ u.file = t.file /\ u.keep = t.keep
                      /\ u.ws = t.ws /\ u.sac = t.sac /\ u.ci = t.ci
                      /\ HttpReceive(k, units) = Serve(u, t.recv[1])
<1>. DEFINE all == k.recv \o units
            v == [k EXCEPT !.recv = all]
            t == Transfer(v)
            cut == SubSeq(t.recv, 3, Len(t.recv))
            u == [t EXCEPT !.recv = cut]
<1>1. all \in Seq(Inputs) /\ all \in Seq(Requests) /\ Len(all) = Len(k.recv) + Len(units)
      /\ Len(all) > 0
  <2>1. k.recv \in Seq(Inputs)
    BY DEF Connection
  <2>2. all \in Seq(Inputs) /\ Len(all) = Len(k.recv) + Len(units)
    BY <2>1, ConcatProperties
  <2>3. Len(units) > 0 /\ Len(k.recv) \in Nat
    BY <2>1
  <2>. QED
    BY <2>2, <2>3
<1>2. HttpReceive(k, units) =
        IF Malformed(t.recv) THEN [t EXCEPT !.ci = TRUE]
        ELSE IF ~HeadArrived(t.recv) THEN t
        ELSE Serve(u, t.recv[1])
  BY DEF HttpReceive
<1>3. k.recv \o units = all
  OBVIOUS
<1>. HIDE DEF all
<1>4. /\ v \in Connection /\ v.recv = all /\ v.send = k.send /\ v.file = k.file
      /\ v.keep = k.keep /\ v.ws = k.ws /\ v.sac = k.sac /\ v.ci = k.ci
  BY <1>1 DEF Connection
<1>. HIDE DEF v
<1>5. /\ t \in Connection /\ t.recv = v.recv /\ t.ws = v.ws /\ t.keep = v.keep /\ t.ci = v.ci
      /\ v.file = 0 => t = v
  BY <1>4, TransferType
<1>. HIDE DEF t
<1>6. t.recv = all /\ t.recv # <<>> /\ t.recv[1] \in Requests /\ Len(t.recv) \in Nat
  BY <1>1, <1>4, <1>5
<1>a. /\ t.recv = k.recv \o units /\ t.ws = k.ws /\ t.ci = k.ci /\ t.keep = k.keep
      /\ k.file = 0 => t.send = k.send /\ t.file = 0 /\ t.sac = k.sac
  BY <1>3, <1>4, <1>5
<1>7. CASE t.recv[1] = "bad"
  <2>1. HttpReceive(k, units) = [t EXCEPT !.ci = TRUE]
    BY <1>2, <1>7 DEF Malformed
  <2>. QED
    BY <1>5, <1>6, <1>7, <1>a, <2>1
<1>8. CASE t.recv[1] # "bad" /\ Len(t.recv) < 2
  <2>1. HttpReceive(k, units) = t
    BY <1>2, <1>6, <1>8 DEF Malformed, HeadArrived
  <2>. QED
    BY <1>5, <1>6, <1>8, <1>a, <2>1
<1>9. CASE t.recv[1] # "bad" /\ Len(t.recv) >= 2
  <2>1. cut \in Seq(Inputs)
    <3>1. \A i \in 3..Len(t.recv) : t.recv[i] \in Inputs
      BY <1>1, <1>6
    <3>. QED
      BY <3>1, <1>6, SubSeqProperties
  <2>2. HttpReceive(k, units) = Serve(u, t.recv[1])
    BY <1>2, <1>9 DEF Malformed, HeadArrived
  <2>. HIDE DEF cut
  <2>3. /\ u \in Connection /\ u.recv = cut /\ u.send = t.send /\ u.file = t.file
        /\ u.keep = t.keep /\ u.ws = t.ws /\ u.sac = t.sac /\ u.ci = t.ci
    BY <2>1, <1>5 DEF Connection
  <2>. HIDE DEF u
  <2>4. u.recv = SubSeq(t.recv, 3, Len(t.recv))
    BY <2>3 DEF cut
  <2>. QED
    BY <1>5, <1>6, <1>9, <1>a, <2>2, <2>3, <2>4
<1>. QED
  BY <1>6, <1>7, <1>8, <1>9

\* MG_EV_RECV keeps the types, and requests are only looked for before the upgrade.
LEMMA ReceiveType ==
  ASSUME NEW k \in Connection, NEW in \in Seq(Inputs), NEW n \in 1..Len(in),
         k.ws \/ k.recv \o in \in Seq(Requests)
  PROVE  LET t == Receive(k, SubSeq(in, 1, n))
         IN  /\ t \in Connection
             /\ t.ws \/ t.recv \o SubSeq(in, n + 1, Len(in)) \in Seq(Requests)
<1>. DEFINE units == SubSeq(in, 1, n)
            rest == SubSeq(in, n + 1, Len(in))
<1>1. units \in Seq(Inputs) /\ rest \in Seq(Inputs) /\ units \o rest = in /\ Len(units) = n
  BY Cut
<1>. HIDE DEF units, rest
<1>2. CASE k.ws
  <2>. DEFINE x == k.sac \/ \E i \in DOMAIN units : units[i] = "close"
              t == [k EXCEPT !.sac = x]
  <2>1. Receive(k, units) = t
    BY <1>2 DEF Receive, FramesReceive
  <2>2. x \in BOOLEAN
    BY DEF Connection
  <2>. HIDE DEF x
  <2>3. t \in Connection /\ t.ws = k.ws
    BY <2>2 DEF Connection
  <2>. QED
    BY <1>2, <2>1, <2>3 DEF units
<1>3. CASE ~k.ws
  <2>. DEFINE t == HttpReceive(k, units)
  <2>1. Receive(k, units) = t
    BY <1>3 DEF Receive
  <2>2. /\ k.recv \in Seq(Inputs) /\ units # <<>>
        /\ k.recv \o units \in Seq(Requests) /\ rest \in Seq(Requests)
        /\ (k.recv \o units) \o rest \in Seq(Requests)
    <3>1. k.recv \in Seq(Inputs) /\ units # <<>>
      BY <1>1 DEF Connection
    <3>. DEFINE r == k.recv
    <3>2. r \in Seq(Inputs)
      BY <3>1
    <3>3. r \o in \in Seq(Requests)
      BY <1>3
    <3>. HIDE DEF r
    <3>4. (r \o units) \o rest = r \o in
      <4>1. units \in Seq(Inputs) /\ rest \in Seq(Inputs)
        BY <1>1
      <4>2. (r \o units) \o rest = r \o (units \o rest)
        BY <3>2, <4>1, Associative
      <4>. QED
        BY <1>1, <4>2
    <3>5. r \o units \in Seq(Inputs)
      BY <1>1, <3>2, ConcatProperties
    <3>6. (r \o units) \o rest \in Seq(Requests)
      BY <3>3, <3>4
    <3>7. r \o units \in Seq(Requests) /\ rest \in Seq(Requests)
      BY <1>1, <3>5, <3>6, Parts
    <3>. QED
      BY <3>1, <3>6, <3>7 DEF r
  <2>3. PICK t0 \in Connection :
           /\ t0.recv = k.recv \o units /\ t0.ws = k.ws
           /\ t0.recv # <<>> /\ t0.recv[1] \in Requests
           /\ \/ t0.recv[1] = "bad" /\ t = [t0 EXCEPT !.ci = TRUE]
              \/ t = t0
              \/ /\ t0.recv[1] # "bad"
                 /\ \E u \in Connection : /\ u.recv = SubSeq(t0.recv, 3, Len(t0.recv))
                                          /\ t = Serve(u, t0.recv[1])
    <3>1. units \in Seq(Inputs)
      BY <1>1
    <3>. QED
      BY <2>2, <3>1, HttpReceiveCases DEF t
  <2>. HIDE DEF t
  <2>4. CASE t = [t0 EXCEPT !.ci = TRUE]
    <3>1. t \in Connection /\ t.recv = t0.recv
      BY <2>4 DEF Connection
    <3>. QED
      BY <2>1, <2>2, <2>3, <3>1 DEF units, rest
  <2>5. CASE t = t0
    BY <2>1, <2>2, <2>3, <2>5 DEF units, rest
  <2>6. CASE /\ t0.recv[1] # "bad"
             /\ \E u \in Connection : /\ u.recv = SubSeq(t0.recv, 3, Len(t0.recv))
                                      /\ t = Serve(u, t0.recv[1])
    <3>1. PICK u \in Connection : /\ u.recv = SubSeq(t0.recv, 3, Len(t0.recv))
                                  /\ t = Serve(u, t0.recv[1])
      BY <2>6
    <3>2. t \in Connection /\ t.recv = u.recv
      BY <2>3, <2>6, <3>1, ServeType
    <3>3. u.recv \in Seq(Requests)
      <4>1. \A i \in 3..Len(t0.recv) : t0.recv[i] \in Requests
        BY <2>2, <2>3
      <4>2. Len(t0.recv) \in Int
        BY <2>2, <2>3
      <4>. QED
        BY <3>1, <4>1, <4>2, SubSeqProperties
    <3>4. u.recv \o rest \in Seq(Requests)
      BY <2>2, <3>3, ConcatProperties
    <3>. QED
      BY <2>1, <3>2, <3>4 DEF units, rest
  <2>. QED
    BY <2>3, <2>4, <2>5, <2>6
<1>. QED
  BY <1>2, <1>3

-----------------------------------------------------------------------------
(* What one connection is owed, through a read and a write *)

LEMMA Halves ==
  ASSUME NEW r \in Inputs, NEW s \in Seq(Inputs), NEW t \in Seq(Inputs)
  PROVE  s # <<>> /\ s \o t = <<r, r>> =>
           /\ s[1] = r
           /\ Len(s) < 2 => t # <<>>
           /\ Len(s) >= 2 => t = <<>> /\ SubSeq(s, 3, Len(s)) = <<>>
<1>. DEFINE w == s \o t  m == Len(s)  n == Len(t)
<1>1. Len(w) = m + n /\ \A i \in 1..(m + n) : w[i] = IF i <= m THEN s[i] ELSE t[i - m]
  BY ConcatProperties
<1>2. m \in Nat /\ n \in Nat /\ (m = 0 <=> s = <<>>) /\ (n = 0 <=> t = <<>>)
  OBVIOUS
<1>3. m > 0 => w[1] = s[1]
  BY <1>1, <1>2
<1>4. SubSeq(s, 3, 2) = <<>>
  BY SubSeqEmpty
<1>5. w = <<r, r>> => Len(w) = 2 /\ w[1] = r
  OBVIOUS
<1>6. (s # <<>> /\ s \o t = <<r, r>>) = (s # <<>> /\ w = <<r, r>>)
  OBVIOUS
<1>. HIDE DEF w, m, n
<1>7. ASSUME s # <<>>, w = <<r, r>>
      PROVE  s[1] = r /\ m + n = 2 /\ m > 0
  BY <1>1, <1>2, <1>3, <1>5, <1>7
<1>8. ASSUME s # <<>>, w = <<r, r>>
      PROVE  (m < 2 => t # <<>>) /\ (m >= 2 => t = <<>> /\ SubSeq(s, 3, m) = <<>>)
  <2>1. m + n = 2 /\ m > 0
    BY <1>7, <1>8
  <2>2. m >= 2 => m = 2 /\ n = 0
    BY <2>1, <1>2
  <2>3. m < 2 => n # 0
    BY <2>1, <1>2
  <2>. QED
    BY <2>2, <2>3, <1>2, <1>4
<1>. QED
  BY <1>6, <1>7, <1>8 DEF m

\* Before the upgrade a read takes the request on, or serves it.
LEMMA HttpReceiveOK ==
  ASSUME NEW p, IsPlan(p), p # <<"ws">>, NEW a, NEW o, NEW sent \in Seq(Units),
         NEW k \in Connection, NEW in \in Seq(Inputs), NEW n \in 1..Len(in),
         HttpOK(p, a, o, sent, k, in)
  PROVE  HttpOK(p, a, o, sent, Receive(k, SubSeq(in, 1, n)), SubSeq(in, n + 1, Len(in)))
<1>. DEFINE units == SubSeq(in, 1, n)
            rest == SubSeq(in, n + 1, Len(in))
            r == p[a]
            recv == k.recv
            v == Receive(k, units)
<1>1. units \in Seq(Inputs) /\ rest \in Seq(Inputs) /\ units \o rest = in /\ Len(units) = n
  BY Cut
<1>2. units # <<>> /\ in # <<>>
  BY <1>1
<1>3. Pending(p, a, o, sent, k, in) /\ ~k.ws
  BY <1>2 DEF HttpOK, Serving
<1>4. r \in Requests /\ r # "ws" /\ a \in 1..Len(p) /\ (r \in Closing => a = Len(p)) /\ r \in Inputs
  BY <1>3 DEF IsPlan, Pending, Inputs
<1>5. /\ recv \o in = <<r, r>> /\ k.send = <<>> /\ k.file = 0 /\ ~k.sac
      /\ sent \o Reply(r) = o /\ (k.ci => r = "bad")
  BY <1>3 DEF Pending
<1>6. recv \in Seq(Inputs)
  BY DEF Connection
<1>7. v = HttpReceive(k, units)
  BY <1>3 DEF Receive
<1>. HIDE DEF units, rest, recv
<1>8. recv \o units \in Seq(Inputs) /\ Len(recv \o units) = Len(recv) + Len(units)
  BY <1>1, <1>6, ConcatProperties
<1>9. (recv \o units) \o rest = recv \o (units \o rest)
  <2>1. units \in Seq(Inputs) /\ rest \in Seq(Inputs)
    BY <1>1
  <2>. QED
    BY <2>1, <1>6, Associative
<1>10. (recv \o units) \o rest = <<r, r>>
  BY <1>1, <1>5, <1>9
<1>. DEFINE all == recv \o units
<1>11. all \in Seq(Requests)
  <2>1. <<r, r>> \in Seq(Requests)
    BY <1>4
  <2>2. all \in Seq(Inputs) /\ rest \in Seq(Inputs) /\ all \o rest \in Seq(Requests)
    BY <1>1, <1>8, <1>10, <2>1
  <2>. QED
    BY <2>2, Parts
<1>12. all # <<>>
  BY <1>2, <1>6, <1>8, <1>1
<1>. HIDE DEF all
<1>13. /\ all[1] = r
       /\ Len(all) < 2 => rest # <<>>
       /\ Len(all) >= 2 => rest = <<>> /\ SubSeq(all, 3, Len(all)) = <<>>
  <2>1. all \in Seq(Inputs) /\ all \o rest = <<r, r>>
    BY <1>8, <1>10 DEF all
  <2>. QED
    BY <1>1, <1>4, <1>12, <2>1, Halves
<1>14. PICK t \in Connection :
           /\ t.recv = k.recv \o units /\ t.ws = k.ws /\ t.ci = k.ci
           /\ k.file = 0 => t.send = k.send /\ t.file = 0 /\ t.sac = k.sac
           /\ \/ t.recv[1] = "bad" /\ v = [t EXCEPT !.ci = TRUE]
              \/ t.recv[1] # "bad" /\ Len(t.recv) < 2 /\ v = t
              \/ /\ t.recv[1] # "bad" /\ Len(t.recv) >= 2
                 /\ \E u \in Connection :
                      /\ u.recv = SubSeq(t.recv, 3, Len(t.recv))
                      /\ u.send = t.send /\ u.file = t.file
                      /\ u.ws = t.ws /\ u.sac = t.sac /\ u.ci = t.ci
                      /\ v = Serve(u, t.recv[1])
  <2>1. k.recv \o units \in Seq(Requests)
    BY <1>11 DEF all, recv
  <2>. HIDE DEF v
  <2>. QED
    BY <1>1, <1>2, <1>7, <2>1, HttpReceiveCases
<1>15. t.recv = all
  BY <1>14 DEF all, recv
<1>16. all \o rest = <<r, r>>
  BY <1>10 DEF all
<1>. HIDE DEF v
<1>17. CASE r = "bad"
  <2>1. v = [t EXCEPT !.ci = TRUE]
    BY <1>13, <1>14, <1>15, <1>17
  <2>2. v.recv = t.recv /\ v.ws = t.ws /\ v.send = t.send /\ v.file = t.file /\ v.sac = t.sac
    BY <2>1 DEF Connection
  <2>3. Pending(p, a, o, sent, v, rest)
    BY <1>4, <1>5, <1>14, <1>15, <1>16, <1>17, <2>2 DEF Pending
  <2>. QED
    BY <1>3, <1>14, <2>2, <2>3 DEF HttpOK, v, units, rest
<1>18. CASE r # "bad" /\ Len(all) < 2
  <2>1. v = t
    BY <1>13, <1>14, <1>15, <1>18
  <2>2. Pending(p, a, o, sent, v, rest)
    BY <1>4, <1>5, <1>13, <1>14, <1>15, <1>16, <1>18, <2>1 DEF Pending
  <2>. QED
    BY <1>3, <1>14, <2>1, <2>2 DEF HttpOK, v, units, rest
<1>19. CASE r # "bad" /\ Len(all) >= 2
  <2>1. PICK u \in Connection :
                      /\ u.recv = SubSeq(t.recv, 3, Len(t.recv))
                      /\ u.send = t.send /\ u.file = t.file
                      /\ u.ws = t.ws /\ u.sac = t.sac /\ u.ci = t.ci
                      /\ v = Serve(u, t.recv[1])
    BY <1>8, <1>13, <1>14, <1>15, <1>19
  <2>2. /\ u.recv = <<>> /\ u.send = <<>> /\ u.file = 0 /\ ~u.sac /\ ~u.ws /\ ~u.ci
        /\ rest = <<>> /\ v = Serve(u, r)
    BY <1>3, <1>5, <1>13, <1>14, <1>15, <1>19, <2>1
  <2>3. /\ v \in Connection /\ v.recv = <<>> /\ ~v.ci /\ ~v.ws
        /\ v.send \o Data(v.file) = Reply(r)
        /\ v.sac => v.file = 0
        /\ (v.sac \/ (v.file > 0 /\ ~v.keep)) => r \in Closing
    BY <1>4, <1>19, <2>2, ServeType
  <2>4. v.send \in Seq(Units) /\ v.file \in Nat
    BY <2>3, SizesAssumption DEF Connection
  <2>5. sent \o v.send \o Data(v.file) = o
    <3>. DEFINE s == v.send  d == Data(v.file)
    <3>1. s \in Seq(Units) /\ d \in Seq(Units)
      BY <2>4, DataType
    <3>2. s \o d = Reply(r)
      BY <2>3
    <3>. HIDE DEF s, d
    <3>3. (sent \o s) \o d = sent \o (s \o d)
      BY <3>1, Associative
    <3>4. (sent \o s) \o d = o
      BY <3>2, <3>3, <1>5
    <3>. QED
      BY <3>4 DEF s, d
  <2>6. Serving(p, a, o, sent, v, rest)
    BY <1>4, <2>2, <2>3, <2>5 DEF Serving
  <2>. QED
    BY <2>3, <2>6 DEF HttpOK, v, units, rest
<1>20. Len(all) \in Nat
  BY <1>8 DEF all
<1>. QED
  BY <1>17, <1>18, <1>19, <1>20

LEMMA HttpTransferOK ==
  ASSUME NEW p, NEW a, NEW o, NEW sent \in Seq(Units), NEW k \in Connection, NEW in,
         HttpOK(p, a, o, sent, k, in)
  PROVE  HttpOK(p, a, o, sent, Transfer(k), in)
<1>. DEFINE t == Transfer(k)
<1>1. /\ t \in Connection /\ t.recv = k.recv /\ t.ws = k.ws /\ t.keep = k.keep /\ t.ci = k.ci
      /\ t.sac => k.sac \/ (t.file = 0 /\ k.file > 0 /\ ~k.keep)
      /\ t.file <= k.file
      /\ t.send \o Data(t.file) = k.send \o Data(k.file)
      /\ k.file = 0 => t = k
  BY TransferType
<1>. HIDE DEF t
<1>2. CASE Pending(p, a, o, sent, k, in)
  <2>1. t = k
    BY <1>1, <1>2 DEF Pending
  <2>. QED
    BY <2>1 DEF t
<1>3. CASE Serving(p, a, o, sent, k, in)
  <2>1. t.file \in Nat /\ k.file \in Nat /\ t.send \in Seq(Units) /\ k.send \in Seq(Units)
    BY <1>1, SizesAssumption DEF Connection
  <2>2. sent \o t.send \o Data(t.file) = sent \o k.send \o Data(k.file)
    <3>. DEFINE s == t.send  d == Data(t.file)  x == k.send  e == Data(k.file)
    <3>1. s \in Seq(Units) /\ d \in Seq(Units) /\ x \in Seq(Units) /\ e \in Seq(Units)
      BY <2>1, DataType
    <3>2. s \o d = x \o e
      BY <1>1
    <3>. HIDE DEF s, d, x, e
    <3>3. (sent \o s) \o d = sent \o (s \o d)
      BY <3>1, Associative
    <3>4. (sent \o x) \o e = sent \o (x \o e)
      BY <3>1, Associative
    <3>5. (sent \o s) \o d = (sent \o x) \o e
      BY <3>2, <3>3, <3>4
    <3>. QED
      BY <3>5 DEF s, d, x, e
  <2>3. t.sac => t.file = 0
    BY <1>1, <1>3, <2>1 DEF Serving
  <2>4. (t.sac \/ (t.file > 0 /\ ~t.keep)) => a = Len(p)
    BY <1>1, <1>3, <2>1 DEF Serving
  <2>5. Serving(p, a, o, sent, t, in)
    BY <1>1, <1>3, <2>2, <2>3, <2>4 DEF Serving
  <2>. QED
    BY <1>1, <2>5 DEF HttpOK, t
<1>. QED
  BY <1>2, <1>3 DEF HttpOK

LEMMA HttpWrittenOK ==
  ASSUME NEW p, NEW a, NEW o, NEW sent \in Seq(Units), NEW k \in Connection, NEW in,
         NEW n \in 0..Len(k.send), HttpOK(p, a, o, sent, k, in)
  PROVE  HttpOK(p, a, o, sent \o SubSeq(k.send, 1, n), Written(k, n), in)
<1>. DEFINE t == Written(k, n)
            x == SubSeq(k.send, 1, n)
            y == SubSeq(k.send, n + 1, Len(k.send))
<1>1. /\ t \in Connection /\ t.recv = k.recv /\ t.ws = k.ws /\ t.keep = k.keep /\ t.ci = k.ci
      /\ t.sac => k.sac \/ (t.file = 0 /\ k.file > 0 /\ ~k.keep)
      /\ t.file <= k.file
      /\ t.send \o Data(t.file) = y \o Data(k.file)
      /\ k.file = 0 => t.send = y /\ t.sac = k.sac
  BY WrittenType
<1>2. k.send \in Seq(Units)
  BY DEF Connection
<1>3. x \in Seq(Units) /\ y \in Seq(Units) /\ x \o y = k.send /\ Len(x) = n
      /\ Len(y) = Len(k.send) - n
  BY <1>2, Cut
<1>4. t.file \in Nat /\ k.file \in Nat /\ t.send \in Seq(Units)
  BY <1>1, SizesAssumption DEF Connection
<1>. HIDE DEF t, x, y
<1>5. CASE Pending(p, a, o, sent, k, in)
  <2>1. k.send = <<>> /\ k.file = 0 /\ ~k.sac
    BY <1>5 DEF Pending
  <2>2. x = <<>> /\ y = <<>>
    BY <1>3, <2>1
  <2>3. t.send = <<>> /\ ~t.sac /\ t.file = 0 /\ sent \o x = sent
    BY <1>1, <1>4, <2>1, <2>2, ConcatEmptySeq
  <2>4. Pending(p, a, o, sent \o x, t, in)
    BY <1>1, <1>5, <2>3 DEF Pending
  <2>. QED
    BY <1>1, <2>4 DEF HttpOK, t, x
<1>6. CASE Serving(p, a, o, sent, k, in)
  <2>1. sent \o x \o t.send \o Data(t.file) = sent \o k.send \o Data(k.file)
    <3>. DEFINE s == t.send  d == Data(t.file)  e == Data(k.file)
    <3>1. s \in Seq(Units) /\ d \in Seq(Units) /\ e \in Seq(Units)
      BY <1>4, DataType
    <3>2. s \o d = y \o e
      BY <1>1
    <3>. HIDE DEF s, d, e
    <3>a. x \in Seq(Units) /\ y \in Seq(Units)
      BY <1>3
    <3>b. sent \o x \in Seq(Units)
      BY <3>a, ConcatProperties
    <3>. DEFINE q == sent \o x
    <3>c. q \in Seq(Units)
      BY <3>b
    <3>. HIDE DEF q
    <3>d. (q \o s) \o d = q \o (s \o d)
      BY <3>c, <3>1, Associative
    <3>e. (q \o y) \o e = q \o (y \o e)
      <4>1. y \in Seq(Units) /\ e \in Seq(Units)
        BY <3>a, <3>1
      <4>. QED
        BY <3>c, <4>1, Associative
    <3>3. ((sent \o x) \o s) \o d = (sent \o x) \o (s \o d)
      BY <3>d DEF q
    <3>4. ((sent \o x) \o y) \o e = (sent \o x) \o (y \o e)
      BY <3>e DEF q
    <3>5. (sent \o x) \o y = sent \o (x \o y)
      BY <3>a, Associative
    <3>6. ((sent \o x) \o s) \o d = ((sent \o x) \o y) \o e
      BY <3>2, <3>3, <3>4
    <3>7. (sent \o x) \o y = sent \o k.send
      BY <1>3, <3>5
    <3>8. ((sent \o x) \o s) \o d = (sent \o k.send) \o e
      BY <3>6, <3>7
    <3>. QED
      BY <3>8 DEF s, d, e
  <2>2. t.sac => t.file = 0
    BY <1>1, <1>4, <1>6 DEF Serving
  <2>3. (t.sac \/ (t.file > 0 /\ ~t.keep)) => a = Len(p)
    BY <1>1, <1>4, <1>6 DEF Serving
  <2>4. Serving(p, a, o, sent \o x, t, in)
    BY <1>1, <1>6, <2>1, <2>2, <2>3 DEF Serving
  <2>. QED
    BY <1>1, <1>6, <2>4 DEF HttpOK, t, x
<1>. QED
  BY <1>5, <1>6 DEF HttpOK

LEMMA WsReceiveOK ==
  ASSUME NEW a, NEW sent \in Seq(Units),
         NEW k \in Connection, NEW in \in Seq(Inputs), NEW n \in 1..Len(in),
         WsOK(a, sent, k, in)
  PROVE  WsOK(a, sent, Receive(k, SubSeq(in, 1, n)), SubSeq(in, n + 1, Len(in)))
<1>. DEFINE units == SubSeq(in, 1, n)
            rest == SubSeq(in, n + 1, Len(in))
            recv == k.recv
            v == Receive(k, units)
<1>1. units \in Seq(Inputs) /\ rest \in Seq(Inputs) /\ units \o rest = in /\ Len(units) = n
  BY Cut
<1>2. units # <<>> /\ in # <<>>
  BY <1>1
<1>3. recv \in Seq(Inputs)
  BY DEF Connection
<1>. HIDE DEF units, rest, recv
<1>4. CASE k.ws
  <2>. DEFINE x == k.sac \/ \E i \in DOMAIN units : units[i] = "close"
              t == [k EXCEPT !.sac = x]
  <2>1. v = t
    BY <1>4 DEF Receive, FramesReceive
  <2>. HIDE DEF x
  <2>2. t.ws = k.ws /\ t.send = k.send /\ t.file = k.file /\ t.ci = k.ci
    BY DEF Connection
  <2>. HIDE DEF t, v
  <2>3. WsOK(a, sent, v, rest)
    BY <1>4, <2>1, <2>2 DEF WsOK
  <2>. QED
    BY <2>3 DEF v, units, rest
<1>5. CASE ~k.ws
  <2>1. /\ a = 1 /\ recv \o in = <<"ws", "ws">> /\ ~k.sac /\ ~k.ci /\ sent = <<>>
        /\ k.send = <<>> /\ k.file = 0
    BY <1>2, <1>5 DEF WsOK, recv
  <2>2. v = HttpReceive(k, units)
    BY <1>5 DEF Receive
  <2>. DEFINE all == recv \o units
  <2>3. all \in Seq(Inputs) /\ Len(all) = Len(recv) + Len(units)
    BY <1>1, <1>3, ConcatProperties
  <2>4. (recv \o units) \o rest = recv \o (units \o rest)
    <3>1. units \in Seq(Inputs) /\ rest \in Seq(Inputs)
      BY <1>1
    <3>. QED
      BY <3>1, <1>3, Associative, SMTT(30)
  <2>5. all \o rest = <<"ws", "ws">>
    BY <1>1, <2>1, <2>4
  <2>6. all # <<>>
    BY <1>1, <1>2, <1>3, <2>3
  <2>7. all \in Seq(Requests)
    <3>1. <<"ws", "ws">> \in Seq(Requests)
      BY DEF Requests
    <3>2. rest \in Seq(Inputs) /\ all \o rest \in Seq(Requests)
      BY <1>1, <2>5, <3>1
    <3>. HIDE DEF all
    <3>. QED
      BY <2>3, <3>2, Parts
  <2>. HIDE DEF all, v
  <2>8. /\ all[1] = "ws"
        /\ Len(all) < 2 => rest # <<>>
        /\ Len(all) >= 2 => rest = <<>> /\ SubSeq(all, 3, Len(all)) = <<>>
    <3>1. "ws" \in Inputs
      BY DEF Inputs, Requests
    <3>. QED
      BY <1>1, <2>3, <2>5, <2>6, <3>1, Halves
  <2>9. PICK t \in Connection :
           /\ t.recv = all /\ t.ws = k.ws /\ t.ci = k.ci
           /\ k.file = 0 => t.send = k.send /\ t.file = 0 /\ t.sac = k.sac
           /\ \/ t.recv[1] = "bad"
              \/ t.recv[1] # "bad" /\ Len(t.recv) < 2 /\ v = t
              \/ /\ t.recv[1] # "bad" /\ Len(t.recv) >= 2
                 /\ \E u \in Connection :
                      /\ u.send = t.send /\ u.file = t.file
                      /\ u.ws = t.ws /\ u.sac = t.sac /\ u.ci = t.ci
                      /\ v = Serve(u, t.recv[1])
    <3>1. k.recv \o units \in Seq(Requests) /\ k.recv \o units = all
      BY <2>7 DEF all, recv
    <3>. QED
      BY <1>1, <1>2, <2>2, <3>1, HttpReceiveCases
  <2>10. CASE Len(all) < 2
    <3>1. v = t
      BY <2>8, <2>9, <2>10
    <3>2. WsOK(a, sent, v, rest)
      BY <1>5, <2>1, <2>5, <2>8, <2>9, <2>10, <3>1 DEF WsOK
    <3>. QED
      BY <3>2 DEF v, units, rest
  <2>11. CASE Len(all) >= 2
    <3>1. PICK u \in Connection :
                      /\ u.send = t.send /\ u.file = t.file
                      /\ u.ws = t.ws /\ u.sac = t.sac /\ u.ci = t.ci
                      /\ v = Serve(u, t.recv[1])
      BY <2>3, <2>8, <2>9, <2>11
    <3>2. u.send = <<>> /\ u.file = 0 /\ ~u.sac /\ ~u.ci /\ v = Serve(u, "ws")
      BY <2>1, <2>8, <2>9, <3>1
    <3>. DEFINE w == [u EXCEPT !.ws = TRUE, !.send = Handshake]
    <3>3. v = w
      BY <3>2 DEF Serve, Upgrade
    <3>4. w.ws = TRUE /\ w.send = Handshake /\ w.file = u.file /\ w.ci = u.ci
      BY DEF Connection
    <3>5. sent \o w.send = Handshake
      <4>1. Unit("101") \in Units
        BY DEF Unit, Units
      <4>2. Handshake \in Seq(Units)
        BY <4>1 DEF Handshake
      <4>. QED
        BY <2>1, <3>4, <4>2, ConcatEmptySeq
    <3>6. Handshake # <<>> /\ OneHandshake(Handshake)
      BY DEF Handshake, OneHandshake
    <3>. HIDE DEF w
    <3>7. WsOK(a, sent, v, rest)
      BY <2>1, <3>2, <3>3, <3>4, <3>5, <3>6 DEF WsOK
    <3>. QED
      BY <3>7 DEF v, units, rest
  <2>12. Len(all) \in Nat
    BY <2>3
  <2>. QED
    BY <2>10, <2>11, <2>12
<1>. QED
  BY <1>4, <1>5

LEMMA WsTransferOK ==
  ASSUME NEW a, NEW sent, NEW k \in Connection, NEW in, WsOK(a, sent, k, in)
  PROVE  WsOK(a, sent, Transfer(k), in)
<1>1. Transfer(k) = k
  BY TransferType DEF WsOK
<1>. QED
  BY <1>1

LEMMA WsWrittenOK ==
  ASSUME NEW a, NEW sent \in Seq(Units), NEW k \in Connection, NEW in,
         NEW n \in 0..Len(k.send), WsOK(a, sent, k, in)
  PROVE  WsOK(a, sent \o SubSeq(k.send, 1, n), Written(k, n), in)
<1>. DEFINE t == Written(k, n)
            x == SubSeq(k.send, 1, n)
            y == SubSeq(k.send, n + 1, Len(k.send))
<1>1. k.file = 0 /\ ~k.ci
  BY DEF WsOK
<1>2. /\ t \in Connection /\ t.recv = k.recv /\ t.ws = k.ws /\ t.ci = k.ci
      /\ t.file <= k.file /\ t.send = y /\ t.sac = k.sac
  BY <1>1, WrittenType
<1>3. k.send \in Seq(Units)
  BY DEF Connection
<1>4. x \in Seq(Units) /\ y \in Seq(Units) /\ x \o y = k.send /\ Len(x) = n
      /\ Len(y) = Len(k.send) - n
  BY <1>3, Cut
<1>5. t.file = 0
  BY <1>1, <1>2, SizesAssumption DEF Connection
<1>. HIDE DEF t, x, y
<1>6. (sent \o x) \o t.send = sent \o k.send
  <2>1. x \in Seq(Units) /\ y \in Seq(Units)
    BY <1>4
  <2>2. (sent \o x) \o y = sent \o (x \o y)
    BY <2>1, Associative
  <2>. QED
    BY <1>2, <1>4, <2>2
<1>7. CASE k.ws
  <2>1. WsOK(a, sent \o x, t, in)
    BY <1>1, <1>2, <1>5, <1>6, <1>7 DEF WsOK
  <2>. QED
    BY <2>1 DEF t, x
<1>8. CASE ~k.ws
  <2>1. sent = <<>> /\ k.send = <<>>
    BY <1>8 DEF WsOK
  <2>2. x = <<>> /\ y = <<>>
    BY <1>4, <2>1
  <2>3. sent \o x = <<>>
    BY <2>1, <2>2
  <2>4. WsOK(a, sent \o x, t, in)
    BY <1>1, <1>2, <1>5, <1>8, <2>2, <2>3 DEF WsOK
  <2>. QED
    BY <2>4 DEF t, x
<1>. QED
  BY <1>7, <1>8

LEMMA ReceiveOK ==
  ASSUME NEW p, IsPlan(p), NEW a, NEW o, NEW sent \in Seq(Units),
         NEW k \in Connection, NEW in \in Seq(Inputs), NEW n \in 1..Len(in),
         ConnOK(p, a, o, sent, k, in)
  PROVE  ConnOK(p, a, o, sent, Receive(k, SubSeq(in, 1, n)), SubSeq(in, n + 1, Len(in)))
<1>1. CASE p = <<"ws">>
  BY <1>1, WsReceiveOK DEF ConnOK
<1>2. CASE p # <<"ws">>
  BY <1>2, HttpReceiveOK DEF ConnOK
<1>. QED
  BY <1>1, <1>2

LEMMA TransferOK ==
  ASSUME NEW p, NEW a, NEW o, NEW sent \in Seq(Units), NEW k \in Connection, NEW in,
         ConnOK(p, a, o, sent, k, in)
  PROVE  ConnOK(p, a, o, sent, Transfer(k), in)
<1>1. CASE p = <<"ws">>
  BY <1>1, WsTransferOK DEF ConnOK
<1>2. CASE p # <<"ws">>
  BY <1>2, HttpTransferOK DEF ConnOK
<1>. QED
  BY <1>1, <1>2

LEMMA WrittenOK ==
  ASSUME NEW p, NEW a, NEW o, NEW sent \in Seq(Units), NEW k \in Connection, NEW in,
         NEW n \in 0..Len(k.send), ConnOK(p, a, o, sent, k, in)
  PROVE  ConnOK(p, a, o, sent \o SubSeq(k.send, 1, n), Written(k, n), in)
<1>1. CASE p = <<"ws">>
  BY <1>1, WsWrittenOK DEF ConnOK
<1>2. CASE p # <<"ws">>
  BY <1>2, HttpWrittenOK DEF ConnOK
<1>. QED
  BY <1>1, <1>2

-----------------------------------------------------------------------------
(* The poll handles one connection *)

\* The server's side of a connection, with what the kernel holds for it both ways.
Served(c, k, in, out) ==
  /\ k \in Connection /\ in \in Seq(Inputs) /\ out \in Seq(Units)
  /\ Len(out) <= SocketCap
  /\ k.ws \/ k.recv \o in \in Seq(Requests)
  /\ page[c] # "gone" => ConnOK(plan[c], asked[c], owed[c], seen[c] \o out, k, in)

LEMMA PlansOK ==
  ASSUME TypeInv, NEW c \in Conns
  PROVE  IsPlan(plan[c])
  BY PlansAssumption DEF TypeInv

\* What mg_write_to_socket and the poll leave of a connection is in order if what the
\* read left was.
LEMMA WriteAndPollOK ==
  ASSUME TypeInv, NEW c \in Conns, NEW k, NEW in, Served(c, k, in, toPage[c]),
         WriteAndPoll(c, k)
  PROVE  \E t, out : /\ srv' = [srv EXCEPT ![c] = t]
                     /\ toPage' = [toPage EXCEPT ![c] = out]
                     /\ Served(c, t, in, out)
<1>1. /\ k \in Connection /\ in \in Seq(Inputs) /\ toPage[c] \in Seq(Units)
      /\ Len(toPage[c]) <= SocketCap /\ SocketCap \in Nat /\ seen[c] \in Seq(Units)
      /\ toPage \in [Conns -> Seq(Units)] /\ k.send \in Seq(Units)
      /\ k.ws \/ k.recv \o in \in Seq(Requests)
      /\ toPage = [toPage EXCEPT ![c] = toPage[c]]
  BY SizesAssumption DEF TypeInv, Served, Connection
<1>2. seen[c] \o toPage[c] \in Seq(Units)
  BY <1>1, ConcatProperties
<1>3. Served(c, Transfer(k), in, toPage[c])
  <2>1. page[c] # "gone" => ConnOK(plan[c], asked[c], owed[c], seen[c] \o toPage[c], Transfer(k), in)
    BY <1>1, <1>2, TransferOK DEF Served
  <2>2. Transfer(k) \in Connection /\ Transfer(k).recv = k.recv /\ Transfer(k).ws = k.ws
    BY <1>1, TransferType
  <2>. QED
    BY <1>1, <2>1, <2>2 DEF Served
<1>4. CASE k.ci
  <2>1. srv' = [srv EXCEPT ![c] = k] /\ toPage' = toPage
    BY <1>4 DEF WriteAndPoll
  <2>. QED
    BY <1>1, <2>1
<1>5. CASE ~k.ci /\ (c \notin ready.write \/ k.send = <<>>)
  <2>1. srv' = [srv EXCEPT ![c] = Transfer(k)] /\ toPage' = toPage
    BY <1>5 DEF WriteAndPoll
  <2>. QED
    BY <1>1, <1>3, <2>1
<1>6. CASE ~k.ci /\ c \in ready.write /\ k.send # <<>> /\ page[c] = "gone"
  <2>1. /\ srv' \in {[srv EXCEPT ![c] = Transfer(Written(k, Len(k.send)))],
                     [srv EXCEPT ![c] = [k EXCEPT !.ci = TRUE]]}
        /\ toPage' = toPage
    BY <1>6 DEF WriteAndPoll
  <2>. DEFINE w == Written(k, Len(k.send))
              x == [k EXCEPT !.ci = TRUE]
  <2>2. w \in Connection /\ w.recv = k.recv /\ w.ws = k.ws
    <3>1. Len(k.send) \in 0..Len(k.send)
      BY <1>1
    <3>. QED
      BY <1>1, <3>1, WrittenType
  <2>3. Transfer(w) \in Connection /\ Transfer(w).recv = k.recv /\ Transfer(w).ws = k.ws
    BY <2>2, TransferType
  <2>4. x \in Connection /\ x.recv = k.recv /\ x.ws = k.ws
    BY <1>1 DEF Connection
  <2>. HIDE DEF w, x
  <2>5. Served(c, Transfer(w), in, toPage[c]) /\ Served(c, x, in, toPage[c])
    BY <1>1, <1>6, <2>3, <2>4 DEF Served
  <2>6. srv' = [srv EXCEPT ![c] = Transfer(w)] \/ srv' = [srv EXCEPT ![c] = x]
    BY <2>1 DEF w, x
  <2>. QED
    BY <1>1, <2>1, <2>5, <2>6
<1>7. CASE ~k.ci /\ c \in ready.write /\ k.send # <<>> /\ page[c] # "gone"
  <2>. DEFINE n == Min({Len(k.send), SocketCap - Len(toPage[c])})
              w == Written(k, n)
              x == SubSeq(k.send, 1, n)
              out == toPage[c] \o x
  <2>1. /\ srv' = [srv EXCEPT ![c] = Transfer(w)]
        /\ toPage' = [toPage EXCEPT ![c] = out]
    BY <1>7 DEF WriteAndPoll
  <2>2. n \in 0..Len(k.send) /\ n <= SocketCap - Len(toPage[c])
    <3>1. Len(k.send) \in Nat /\ SocketCap - Len(toPage[c]) \in Nat
      BY <1>1
    <3>. QED
      BY <3>1, MinOfTwo
  <2>. HIDE DEF n
  <2>3. x \in Seq(Units) /\ Len(x) = n
    BY <1>1, <2>2, Cut
  <2>4. out \in Seq(Units) /\ Len(out) = Len(toPage[c]) + n
    BY <1>1, <2>3, ConcatProperties
  <2>5. w \in Connection /\ w.recv = k.recv /\ w.ws = k.ws
    BY <1>1, <2>2, WrittenType
  <2>6. ConnOK(plan[c], asked[c], owed[c], (seen[c] \o toPage[c]) \o x, w, in)
    BY <1>1, <1>2, <1>7, <2>2, WrittenOK DEF Served
  <2>7. (seen[c] \o toPage[c]) \o x = seen[c] \o out
    <3>. DEFINE a == seen[c]  b == toPage[c]
    <3>1. a \in Seq(Units) /\ b \in Seq(Units) /\ x \in Seq(Units)
      BY <1>1, <2>3
    <3>. HIDE DEF a, b, x
    <3>2. (a \o b) \o x = a \o (b \o x)
      BY <3>1, Associative
    <3>. QED
      BY <3>2 DEF a, b
  <2>8. seen[c] \o out \in Seq(Units)
    BY <1>1, <2>4, ConcatProperties
  <2>. HIDE DEF w, x, out
  <2>9. ConnOK(plan[c], asked[c], owed[c], seen[c] \o out, Transfer(w), in)
    BY <2>5, <2>6, <2>7, <2>8, TransferOK
  <2>10. Transfer(w) \in Connection /\ Transfer(w).recv = k.recv /\ Transfer(w).ws = k.ws
    BY <2>5, TransferType
  <2>11. Len(out) <= SocketCap
    BY <1>1, <2>2, <2>4
  <2>12. Served(c, Transfer(w), in, out)
    BY <1>1, <2>4, <2>9, <2>10, <2>11 DEF Served
  <2>. QED
    BY <2>1, <2>12
<1>. QED
  BY <1>4, <1>5, <1>6, <1>7

-----------------------------------------------------------------------------
(* Lists of connections *)

LEMMA HeadTailList ==
  ASSUME NEW S, NEW s \in Seq(S), s # <<>>
  PROVE  /\ Head(s) \in S /\ Tail(s) \in Seq(S) /\ Head(s) \in Range(s)
         /\ Range(Tail(s)) \subseteq Range(s)
         /\ Range(s) = {Head(s)} \cup Range(Tail(s))
         /\ IsInjective(s) => IsInjective(Tail(s)) /\ Head(s) \notin Range(Tail(s))
<1>1. /\ Head(s) \in S /\ Tail(s) \in Seq(S) /\ Len(Tail(s)) = Len(s) - 1
      /\ \A i \in 1..Len(Tail(s)) : Tail(s)[i] = s[i + 1]
      /\ Head(s) = s[1] /\ Len(s) \in Nat /\ Len(s) > 0
  BY HeadTailProperties
<1>2. DOMAIN s = 1..Len(s) /\ DOMAIN Tail(s) = 1..Len(Tail(s))
  BY <1>1
<1>3. Head(s) \in Range(s)
  BY <1>1, <1>2 DEF Range
<1>4. Range(Tail(s)) \subseteq Range(s)
  BY <1>1, <1>2 DEF Range
<1>5. Range(s) \subseteq {Head(s)} \cup Range(Tail(s))
  <2>. SUFFICES ASSUME NEW i \in 1..Len(s), i # 1
                PROVE  s[i] \in Range(Tail(s))
    BY <1>1, <1>2 DEF Range
  <2>1. i - 1 \in 1..Len(Tail(s)) /\ Tail(s)[i - 1] = s[i]
    BY <1>1
  <2>. QED
    BY <1>2, <2>1 DEF Range
<1>6. ASSUME IsInjective(s)
      PROVE  IsInjective(Tail(s)) /\ Head(s) \notin Range(Tail(s))
  <2>1. \A i, j \in 1..Len(s) : s[i] = s[j] => i = j
    BY <1>2, <1>6 DEF IsInjective
  <2>2. \A i \in 1..Len(Tail(s)) : i + 1 \in 1..Len(s)
    BY <1>1
  <2>3. IsInjective(Tail(s))
    BY <1>1, <1>2, <2>1, <2>2 DEF IsInjective
  <2>4. \A i \in 1..Len(Tail(s)) : Tail(s)[i] # s[1]
    BY <1>1, <2>1, <2>2
  <2>. QED
    BY <1>1, <1>2, <2>3, <2>4 DEF Range
<1>. QED
  BY <1>1, <1>3, <1>4, <1>5, <1>6

LEMMA RangeType ==
  ASSUME NEW S, NEW s \in Seq(S)
  PROVE  Range(s) \subseteq S
  BY DEF Range

LEMMA AppendList ==
  ASSUME NEW S, NEW s \in Seq(S), NEW e \in S
  PROVE  /\ Append(s, e) \in Seq(S) /\ Range(Append(s, e)) = Range(s) \cup {e}
         /\ IsInjective(s) /\ e \notin Range(s) => IsInjective(Append(s, e))
<1>. DEFINE t == Append(s, e)
<1>1. /\ t \in Seq(S) /\ Len(t) = Len(s) + 1 /\ Len(s) \in Nat
      /\ \A i \in 1..Len(s) : t[i] = s[i]
      /\ t[Len(s) + 1] = e
  BY AppendProperties
<1>2. DOMAIN s = 1..Len(s) /\ DOMAIN t = 1..(Len(s) + 1)
  BY <1>1
<1>. HIDE DEF t
<1>3. Range(t) = Range(s) \cup {e}
  BY <1>1, <1>2 DEF Range
<1>4. IsInjective(s) /\ e \notin Range(s) => IsInjective(t)
  BY <1>1, <1>2 DEF Range, IsInjective
<1>. QED
  BY <1>1, <1>3, <1>4 DEF t

LEMMA PrependList ==
  ASSUME NEW S, NEW s \in Seq(S), NEW e \in S
  PROVE  /\ <<e>> \o s \in Seq(S) /\ Range(<<e>> \o s) = Range(s) \cup {e}
         /\ IsInjective(s) /\ e \notin Range(s) => IsInjective(<<e>> \o s)
<1>. DEFINE t == <<e>> \o s
<1>1. /\ t \in Seq(S) /\ Len(t) = 1 + Len(s) /\ Len(s) \in Nat /\ t[1] = e
      /\ \A i \in 1..Len(s) : t[i + 1] = s[i]
      /\ \A i \in 2..(Len(s) + 1) : t[i] = s[i - 1]
  <2>1. <<e>> \in Seq(S) /\ Len(<<e>>) = 1 /\ <<e>>[1] = e
    OBVIOUS
  <2>2. /\ t \in Seq(S) /\ Len(t) = 1 + Len(s)
        /\ \A i \in 1..(1 + Len(s)) : t[i] = IF i <= 1 THEN e ELSE s[i - 1]
    BY <2>1, ConcatProperties
  <2>. HIDE DEF t
  <2>3. Len(s) \in Nat
    OBVIOUS
  <2>. QED
    BY <2>2, <2>3
<1>2. DOMAIN s = 1..Len(s) /\ DOMAIN t = 1..(Len(s) + 1)
  BY <1>1
<1>. HIDE DEF t
<1>3. Range(t) = Range(s) \cup {e}
  <2>1. \A i \in 1..(Len(s) + 1) : i = 1 \/ (i - 1 \in 1..Len(s) /\ t[i] = s[i - 1])
    BY <1>1
  <2>2. \A i \in 1..Len(s) : i + 1 \in 1..(Len(s) + 1)
    BY <1>1
  <2>3. 1 \in 1..(Len(s) + 1)
    BY <1>1
  <2>4. Range(t) \subseteq Range(s) \cup {e}
    BY <1>1, <1>2, <2>1 DEF Range
  <2>5. Range(s) \cup {e} \subseteq Range(t)
    BY <1>1, <1>2, <2>2, <2>3 DEF Range
  <2>. QED
    BY <2>4, <2>5
<1>4. ASSUME IsInjective(s), e \notin Range(s)
      PROVE  IsInjective(t)
  <2>1. \A i, j \in 1..Len(s) : s[i] = s[j] => i = j
    BY <1>2, <1>4 DEF IsInjective
  <2>2. \A i \in 1..Len(s) : s[i] # e
    BY <1>2, <1>4 DEF Range
  <2>3. \A i \in 1..(Len(s) + 1) : i = 1 \/ (i - 1 \in 1..Len(s) /\ t[i] = s[i - 1])
    BY <1>1
  <2>. QED
    BY <1>1, <1>2, <2>1, <2>2, <2>3 DEF IsInjective
<1>. QED
  BY <1>1, <1>3, <1>4 DEF t

LEMMA RemoveFromList ==
  ASSUME NEW S, NEW s \in Seq(S), NEW i \in 1..Len(s), IsInjective(s)
  PROVE  /\ RemoveAt(s, i) \in Seq(S) /\ Range(RemoveAt(s, i)) = Range(s) \ {s[i]}
         /\ IsInjective(RemoveAt(s, i))
<1>. DEFINE a == SubSeq(s, 1, i - 1)
            b == SubSeq(s, i + 1, Len(s))
            t == RemoveAt(s, i)
            n == Len(s)
<1>1. n \in Nat /\ i \in Nat /\ i - 1 \in Int /\ i + 1 \in Int /\ n \in Int /\ 1 \in Int
      /\ \A j \in 1..n : s[j] \in S
  BY ElementOfSeq
<1>2. /\ a \in Seq(S) /\ Len(a) = i - 1 /\ \A j \in 1..(i - 1) : a[j] = s[j]
  <2>1. \A j \in 1..(i - 1) : s[j] \in S
    BY <1>1
  <2>. QED
    BY <1>1, <2>1, SubSeqProperties
<1>3. /\ b \in Seq(S) /\ Len(b) = n - i /\ \A j \in 1..(n - i) : b[j] = s[i + j]
  <2>1. \A j \in (i + 1)..n : s[j] \in S
    BY <1>1
  <2>2. /\ b \in Seq(S) /\ Len(b) = IF i + 1 <= n THEN n - (i + 1) + 1 ELSE 0
        /\ \A j \in 1..(n - (i + 1) + 1) : b[j] = s[(i + 1) + j - 1]
    BY <1>1, <2>1, SubSeqProperties
  <2>3. n - (i + 1) + 1 = n - i /\ \A j \in 1..(n - i) : (i + 1) + j - 1 = i + j
    BY <1>1
  <2>4. i <= n
    OBVIOUS
  <2>. HIDE DEF b, n
  <2>5. Len(b) = n - i
    BY <1>1, <2>2, <2>4 DEF n
  <2>6. \A j \in 1..(n - i) : b[j] = s[i + j]
    BY <2>2, <2>3
  <2>. QED
    BY <2>2, <2>5, <2>6
<1>4. t = a \o b
  BY DEF RemoveAt
<1>. HIDE DEF a, b
<1>5. /\ t \in Seq(S) /\ Len(t) = Len(a) + Len(b)
      /\ \A j \in 1..(Len(a) + Len(b)) : t[j] = IF j <= Len(a) THEN a[j] ELSE b[j - Len(a)]
  <2>1. a \in Seq(S) /\ b \in Seq(S)
    BY <1>2, <1>3
  <2>2. /\ a \o b \in Seq(S) /\ Len(a \o b) = Len(a) + Len(b)
        /\ \A j \in 1..(Len(a) + Len(b)) :
             (a \o b)[j] = IF j <= Len(a) THEN a[j] ELSE b[j - Len(a)]
    BY <2>1, ConcatProperties
  <2>. QED
    BY <2>2, <1>4
<1>. HIDE DEF t, n
<1>6. /\ t \in Seq(S) /\ Len(t) = n - 1
      /\ \A j \in 1..(n - 1) : t[j] = IF j < i THEN s[j] ELSE s[j + 1]
  <2>1. Len(t) = n - 1 /\ Len(a) + Len(b) = n - 1
    BY <1>1, <1>2, <1>3, <1>5
  <2>2. ASSUME NEW j \in 1..(n - 1), j < i
        PROVE  t[j] = s[j]
    <3>1. j <= Len(a) /\ j \in 1..(i - 1)
      BY <1>1, <1>2, <2>2
    <3>. QED
      BY <1>2, <1>5, <2>1, <2>2, <3>1
  <2>3. ASSUME NEW j \in 1..(n - 1), ~(j < i)
        PROVE  t[j] = s[j + 1]
    <3>1. ~(j <= Len(a)) /\ j - Len(a) \in 1..(n - i) /\ i + (j - Len(a)) = j + 1
      BY <1>1, <1>2, <2>3
    <3>2. t[j] = b[j - Len(a)]
      BY <1>5, <2>1, <2>3, <3>1
    <3>. QED
      BY <1>3, <3>1, <3>2
  <2>. QED
    BY <1>5, <2>1, <2>2, <2>3
<1>7. DOMAIN s = 1..n /\ DOMAIN t = 1..(n - 1)
  BY <1>6 DEF n
<1>8. \A j, l \in 1..n : s[j] = s[l] => j = l
  BY <1>7 DEF IsInjective
<1>9. Range(t) = Range(s) \ {s[i]}
  <2>1. Range(t) \subseteq Range(s) \ {s[i]}
    <3>. SUFFICES ASSUME NEW j \in 1..(n - 1)
                  PROVE  t[j] \in Range(s) /\ t[j] # s[i]
      BY <1>7 DEF Range
    <3>1. PICK l \in 1..n : t[j] = s[l] /\ l # i
      BY <1>1, <1>6
    <3>2. i \in 1..n
      BY DEF n
    <3>. QED
      BY <1>7, <1>8, <3>1, <3>2 DEF Range
  <2>2. Range(s) \ {s[i]} \subseteq Range(t)
    <3>. SUFFICES ASSUME NEW j \in 1..n, j # i
                  PROVE  s[j] \in Range(t)
      BY <1>7 DEF Range
    <3>1. \E l \in 1..(n - 1) : t[l] = s[j]
      <4>1. CASE j < i
        <5>1. j \in 1..(n - 1)
          BY <1>1, <4>1 DEF n
        <5>. QED
          BY <1>6, <4>1, <5>1
      <4>2. CASE ~(j < i)
        <5>1. j - 1 \in 1..(n - 1) /\ ~(j - 1 < i) /\ (j - 1) + 1 = j
          BY <1>1, <4>2
        <5>. QED
          BY <1>6, <5>1
      <4>. QED
        BY <4>1, <4>2
    <3>. QED
      BY <1>7, <3>1 DEF Range
  <2>. QED
    BY <2>1, <2>2
<1>10. IsInjective(t)
  <2>. SUFFICES ASSUME NEW j \in 1..(n - 1), NEW l \in 1..(n - 1), t[j] = t[l]
                PROVE  j = l
    BY <1>7 DEF IsInjective
  <2>. DEFINE x == IF j < i THEN j ELSE j + 1
              y == IF l < i THEN l ELSE l + 1
  <2>1. x \in 1..n /\ y \in 1..n /\ (x = y => j = l)
    BY <1>1
  <2>2. t[j] = s[x]
    BY <1>6
  <2>3. t[l] = s[y]
    BY <1>6
  <2>. HIDE DEF x, y
  <2>. QED
    BY <1>8, <2>1, <2>2, <2>3
<1>. QED
  BY <1>6, <1>9, <1>10 DEF t

-----------------------------------------------------------------------------
(* The invariant is kept by every step *)

\* What a step leaves alone of a connection.
LEMMA SameConn ==
  ASSUME NEW c, ConnInv(c), plan' = plan, asked'[c] = asked[c], toServer'[c] = toServer[c],
         owed'[c] = owed[c], srv'[c] = srv[c], c \in shut' <=> c \in shut,
         page'[c] = "gone" \/ (page[c] # "gone" /\ Sent(c)' = Sent(c))
  PROVE  ConnInv(c)'
  BY DEF ConnInv

LEMMA SameConns ==
  ASSUME Inv, UNCHANGED <<pageVars, srv, shut>>
  PROVE  FreshInv' /\ \A c \in Conns : ConnInv(c)'
<1>1. FreshInv'
  BY DEF Inv, FreshInv, pageVars
<1>2. ASSUME NEW c \in Conns
      PROVE  ConnInv(c)'
  <2>1. ConnInv(c) /\ Sent(c)' = Sent(c)
    BY DEF Inv, Sent, pageVars
  <2>. QED
    BY <2>1, SameConn DEF pageVars
<1>. QED
  BY <1>1, <1>2

LEMMA InitInv == Init => Inv
<1>. SUFFICES ASSUME Init
              PROVE  Inv
  OBVIOUS
<1>1. Fresh \in Connection
  BY SizesAssumption DEF Fresh, Connection
<1>2. TypeInv
  BY <1>1, SizesAssumption DEF Init, TypeInv, NothingReady
<1>3. Range(<<>>) = {} /\ IsInjective(<<>>)
  BY DEF Range, IsInjective
<1>4. ListInv
  BY <1>3 DEF Init, ListInv
<1>5. ReadyInv
  BY <1>3 DEF Init, ReadyInv, NothingReady
<1>6. FreshInv
  BY <1>3 DEF Init, FreshInv
<1>7. ASSUME NEW c \in Conns
      PROVE  ConnInv(c)
  <2>1. /\ srv[c].recv = <<>> /\ srv[c].send = <<>> /\ srv[c].file = 0 /\ ~srv[c].ws
        /\ ~srv[c].sac /\ ~srv[c].ci /\ toServer[c] = <<>> /\ Sent(c) = <<>> /\ asked[c] = 0
        /\ owed[c] = <<>> /\ c \notin shut
    BY DEF Init, Fresh, Sent
  <2>2. plan[c] \in Seq(Requests)
    BY <1>2, PlansOK DEF IsPlan
  <2>3. <<>> \o <<>> = <<>> /\ <<>> \o <<>> \o Data(0) = <<>>
    BY NothingLeft
  <2>4. ConnOK(plan[c], asked[c], owed[c], Sent(c), srv[c], toServer[c])
    BY <2>1, <2>3 DEF ConnOK, WsOK, HttpOK, Serving
  <2>5. srv[c].recv \o toServer[c] \in Seq(Requests)
    BY <2>1, <2>3
  <2>6. asked[c] <= Len(plan[c])
    BY <2>1, <2>2
  <2>. QED
    BY <2>1, <2>4, <2>5, <2>6 DEF ConnInv
<1>. QED
  BY <1>2, <1>4, <1>5, <1>6, <1>7 DEF Inv

LEMMA SelectInv ==
  ASSUME Inv, Select
  PROVE  Inv'
<1>1. TypeInv'
  <2>1. ready' \in [read : SUBSET Conns, write : SUBSET Conns, listener : BOOLEAN]
    <3>1. Range(conns) \subseteq Conns
      BY DEF Inv, TypeInv, Range
    <3>. QED
      BY <3>1 DEF Select
  <2>. QED
    BY <2>1 DEF Inv, TypeInv, Select, pageVars
<1>2. ListInv'
  BY DEF Inv, ListInv, Select, pageVars
<1>3. ReadyInv'
  BY DEF Inv, ReadyInv, Select, pageVars
<1>4. UNCHANGED <<pageVars, srv, shut>>
  BY DEF Select
<1>. QED
  BY <1>1, <1>2, <1>3, <1>4, SameConns DEF Inv

\* PollReturns, NoBroadcast, Quit, Free and Pour touch no connection.
LEMMA QuietInv ==
  ASSUME Inv, PollReturns \/ NoBroadcast \/ Quit \/ Free \/ Pour
  PROVE  Inv'
<1>1. TypeInv'
  <2>1. CASE Free
    BY <2>1 DEF Inv, TypeInv, Free, pageVars
  <2>2. CASE Pour
    BY <2>2 DEF Inv, TypeInv, Pour, pageVars, loopVars
  <2>3. CASE PollReturns
    BY <2>3 DEF Inv, TypeInv, PollReturns, pageVars
  <2>4. CASE NoBroadcast
    BY <2>4 DEF Inv, TypeInv, NoBroadcast, pageVars
  <2>5. CASE Quit
    BY <2>5 DEF Inv, TypeInv, Quit, pageVars
  <2>. QED
    BY <2>1, <2>2, <2>3, <2>4, <2>5
<1>2. ListInv'
  <2>1. CASE Free
    <3>1. Range(<<>>) = {} /\ IsInjective(<<>>)
      BY DEF Range, IsInjective
    <3>2. todo = <<>>
      BY <2>1 DEF Free, Inv, ListInv
    <3>. QED
      BY <2>1, <3>1, <3>2 DEF Inv, ListInv, Free, pageVars
  <2>2. CASE Pour
    BY <2>2 DEF Inv, ListInv, Pour, pageVars, loopVars
  <2>3. CASE PollReturns
    BY <2>3 DEF Inv, ListInv, PollReturns, pageVars
  <2>4. CASE NoBroadcast
    BY <2>4 DEF Inv, ListInv, NoBroadcast, pageVars
  <2>5. CASE Quit
    BY <2>5 DEF Inv, ListInv, Quit, pageVars
  <2>. QED
    BY <2>1, <2>2, <2>3, <2>4, <2>5
<1>3. ReadyInv'
  BY DEF Inv, ReadyInv, PollReturns, NoBroadcast, Quit, Free, Pour, pageVars, loopVars
<1>4. UNCHANGED <<pageVars, srv, shut>>
  BY DEF PollReturns, NoBroadcast, Quit, Free, Pour, loopVars
<1>. QED
  BY <1>1, <1>2, <1>3, <1>4, SameConns DEF Inv

\* The next connection of the round is one the server serves.
LEMMA NextOfRound ==
  ASSUME Inv, todo # <<>>
  PROVE  \E c \in Conns :
           /\ c = Head(todo) /\ c \in Range(todo) /\ c \in Range(conns) /\ c \notin shut
           /\ c \notin Range(backlog) /\ page[c] # "away"
           /\ Tail(todo) \in Seq(Conns) /\ IsInjective(Tail(todo))
           /\ Range(todo) = {c} \cup Range(Tail(todo)) /\ c \notin Range(Tail(todo))
           /\ Served(c, srv[c], toServer[c], toPage[c])
<1>. DEFINE c == Head(todo)
<1>1. /\ c \in Conns /\ Tail(todo) \in Seq(Conns) /\ c \in Range(todo)
      /\ Range(todo) = {c} \cup Range(Tail(todo))
      /\ IsInjective(Tail(todo)) /\ c \notin Range(Tail(todo))
  BY HeadTailList DEF Inv, TypeInv, ListInv
<1>. HIDE DEF c
<1>2. c \in Range(conns) /\ c \notin shut /\ c \notin Range(backlog) /\ page[c] # "away"
  BY <1>1 DEF Inv, ListInv
<1>3. Served(c, srv[c], toServer[c], toPage[c])
  <2>1. ConnInv(c)
    BY <1>1 DEF Inv
  <2>2. /\ srv[c] \in Connection /\ toServer[c] \in Seq(Inputs) /\ toPage[c] \in Seq(Units)
        /\ Len(toPage[c]) <= SocketCap
    BY <1>1 DEF Inv, TypeInv
  <2>. QED
    BY <1>2, <2>1, <2>2 DEF ConnInv, Served, Sent
<1>. QED
  BY <1>1, <1>2, <1>3 DEF c

LEMMA HandleEffect ==
  ASSUME Inv, Handle
  PROVE  \E c \in Conns : \E t, in, out :
           /\ c = Head(todo) /\ c \in Range(todo) /\ c \in Range(conns) /\ c \notin shut
           /\ c \notin Range(backlog) /\ page[c] # "away"
           /\ Tail(todo) \in Seq(Conns) /\ IsInjective(Tail(todo))
           /\ Range(todo) = {c} \cup Range(Tail(todo)) /\ c \notin Range(Tail(todo))
           /\ srv' = [srv EXCEPT ![c] = t]
           /\ toServer' = [toServer EXCEPT ![c] = in]
           /\ toPage' = [toPage EXCEPT ![c] = out]
           /\ Served(c, t, in, out)
           /\ pulses' \in Nat /\ pulses' <= pulses
<1>1. PICK c \in Conns :
           /\ c = Head(todo) /\ c \in Range(todo) /\ c \in Range(conns) /\ c \notin shut
           /\ c \notin Range(backlog) /\ page[c] # "away"
           /\ Tail(todo) \in Seq(Conns) /\ IsInjective(Tail(todo))
           /\ Range(todo) = {c} \cup Range(Tail(todo)) /\ c \notin Range(Tail(todo))
           /\ Served(c, srv[c], toServer[c], toPage[c])
  BY NextOfRound DEF Handle
<1>2. SUFFICES \E t, in, out :
                 /\ srv' = [srv EXCEPT ![c] = t]
                 /\ toServer' = [toServer EXCEPT ![c] = in]
                 /\ toPage' = [toPage EXCEPT ![c] = out]
                 /\ Served(c, t, in, out)
                 /\ pulses' \in Nat /\ pulses' <= pulses
  BY <1>1
<1>3. /\ TypeInv /\ toServer \in [Conns -> Seq(Inputs)] /\ srv[c] \in Connection
      /\ toServer[c] \in Seq(Inputs) /\ toPage[c] \in Seq(Units) /\ seen[c] \in Seq(Units)
      /\ Len(toPage[c]) <= SocketCap /\ pulses \in Nat
      /\ srv[c].ws \/ srv[c].recv \o toServer[c] \in Seq(Requests)
      /\ toServer = [toServer EXCEPT ![c] = toServer[c]]
  BY <1>1 DEF Inv, TypeInv, Served
<1>4. \E k, in : /\ Served(c, k, in, toPage[c])
                 /\ WriteAndPoll(c, k)
                 /\ toServer' = [toServer EXCEPT ![c] = in]
                 /\ pulses' \in Nat /\ pulses' <= pulses
  <2>1. CASE /\ c \notin ready.read
             /\ WriteAndPoll(c, srv[c])
             /\ UNCHANGED <<toServer, pulses>>
    BY <1>1, <1>3, <2>1
  <2>2. CASE /\ c \in ready.read /\ toServer[c] # <<>>
             /\ \E n \in 1..Len(toServer[c]) :
                  /\ WriteAndPoll(c, Receive(srv[c], SubSeq(toServer[c], 1, n)))
                  /\ toServer' = [toServer EXCEPT
                                    ![c] = SubSeq(toServer[c], n + 1, Len(toServer[c]))]
                  /\ pulses' = IF srv[c].ws /\ \E i \in 1..n : toServer[c][i] = "zero"
                               THEN 0 ELSE pulses
    <3>1. PICK n \in 1..Len(toServer[c]) :
                  /\ WriteAndPoll(c, Receive(srv[c], SubSeq(toServer[c], 1, n)))
                  /\ toServer' = [toServer EXCEPT
                                    ![c] = SubSeq(toServer[c], n + 1, Len(toServer[c]))]
                  /\ pulses' = IF srv[c].ws /\ \E i \in 1..n : toServer[c][i] = "zero"
                               THEN 0 ELSE pulses
      BY <2>2
    <3>. DEFINE k == Receive(srv[c], SubSeq(toServer[c], 1, n))
                in == SubSeq(toServer[c], n + 1, Len(toServer[c]))
    <3>2. k \in Connection /\ (k.ws \/ k.recv \o in \in Seq(Requests))
      BY <1>3, ReceiveType
    <3>3. in \in Seq(Inputs)
      <4>1. n \in 0..Len(toServer[c])
        OBVIOUS
      <4>. QED
        BY <1>3, <4>1, Cut
    <3>4. page[c] # "gone" =>
            ConnOK(plan[c], asked[c], owed[c], seen[c] \o toPage[c], k, in)
      <4>1. IsPlan(plan[c])
        BY <1>3, PlansOK
      <4>2. seen[c] \o toPage[c] \in Seq(Units)
        BY <1>3, ConcatProperties
      <4>. QED
        BY <1>1, <1>3, <4>1, <4>2, ReceiveOK DEF Served
    <3>. HIDE DEF k, in
    <3>5. Served(c, k, in, toPage[c])
      BY <1>3, <3>2, <3>3, <3>4 DEF Served
    <3>6. WriteAndPoll(c, k) /\ toServer' = [toServer EXCEPT ![c] = in]
      BY <3>1 DEF k, in
    <3>7. pulses' \in Nat /\ pulses' <= pulses
      BY <1>3, <3>1
    <3>. QED
      BY <3>5, <3>6, <3>7
  <2>3. CASE /\ c \in ready.read /\ toServer[c] = <<>>
             /\ \/ WriteAndPoll(c, AtEnd(srv[c]))
                \/ WriteAndPoll(c, [srv[c] EXCEPT !.ci = TRUE])
             /\ UNCHANGED <<toServer, pulses>>
    <3>1. page[c] = "gone"
      BY <1>1, <2>3 DEF Inv, ReadyInv
    <3>. DEFINE a == [srv[c] EXCEPT !.sac = TRUE]
                b == [srv[c] EXCEPT !.ci = TRUE]
    <3>2. /\ a \in Connection /\ a.recv = srv[c].recv /\ a.ws = srv[c].ws
          /\ b \in Connection /\ b.recv = srv[c].recv /\ b.ws = srv[c].ws
      BY <1>3 DEF Connection
    <3>3. WriteAndPoll(c, a) \/ WriteAndPoll(c, b)
      BY <2>3 DEF AtEnd
    <3>. HIDE DEF a, b
    <3>4. Served(c, a, toServer[c], toPage[c]) /\ Served(c, b, toServer[c], toPage[c])
      BY <1>3, <3>1, <3>2 DEF Served
    <3>. QED
      BY <1>3, <2>3, <3>3, <3>4
  <2>. QED
    BY <1>1, <2>1, <2>2, <2>3 DEF Handle
<1>5. PICK k, in : /\ Served(c, k, in, toPage[c])
                   /\ WriteAndPoll(c, k)
                   /\ toServer' = [toServer EXCEPT ![c] = in]
                   /\ pulses' \in Nat /\ pulses' <= pulses
  BY <1>4
<1>6. \E t, out : /\ srv' = [srv EXCEPT ![c] = t]
                  /\ toPage' = [toPage EXCEPT ![c] = out]
                  /\ Served(c, t, in, out)
  BY <1>3, <1>5, WriteAndPollOK
<1>. QED
  BY <1>5, <1>6

LEMMA HandleInv ==
  ASSUME Inv, Handle
  PROVE  Inv'
<1>0. PICK c \in Conns : \E t, in, out :
           /\ c = Head(todo) /\ c \in Range(todo) /\ c \in Range(conns) /\ c \notin shut
           /\ c \notin Range(backlog) /\ page[c] # "away"
           /\ Tail(todo) \in Seq(Conns) /\ IsInjective(Tail(todo))
           /\ Range(todo) = {c} \cup Range(Tail(todo)) /\ c \notin Range(Tail(todo))
           /\ srv' = [srv EXCEPT ![c] = t]
           /\ toServer' = [toServer EXCEPT ![c] = in]
           /\ toPage' = [toPage EXCEPT ![c] = out]
           /\ Served(c, t, in, out)
           /\ pulses' \in Nat /\ pulses' <= pulses
  BY HandleEffect
<1>1. PICK t, in, out :
           /\ c = Head(todo) /\ c \in Range(todo) /\ c \in Range(conns) /\ c \notin shut
           /\ c \notin Range(backlog) /\ page[c] # "away"
           /\ Tail(todo) \in Seq(Conns) /\ IsInjective(Tail(todo))
           /\ Range(todo) = {c} \cup Range(Tail(todo)) /\ c \notin Range(Tail(todo))
           /\ srv' = [srv EXCEPT ![c] = t]
           /\ toServer' = [toServer EXCEPT ![c] = in]
           /\ toPage' = [toPage EXCEPT ![c] = out]
           /\ Served(c, t, in, out)
           /\ pulses' \in Nat /\ pulses' <= pulses
  BY <1>0
<1>2. /\ todo' = Tail(todo) /\ pc = "handle"
      /\ UNCHANGED <<plan, page, asked, seen, owed, backlog, poured, conns, pc, ready,
                     running, shut>>
  BY DEF Handle
<1>3. t \in Connection /\ in \in Seq(Inputs) /\ out \in Seq(Units) /\ Len(out) <= SocketCap
  BY <1>1 DEF Served
<1>4. TypeInv'
  <2>1. /\ srv' \in [Conns -> Connection] /\ toServer' \in [Conns -> Seq(Inputs)]
        /\ toPage' \in [Conns -> Seq(Units)]
    BY <1>1, <1>3 DEF Inv, TypeInv
  <2>2. \A d \in Conns : Len(toPage'[d]) <= SocketCap
    BY <1>1, <1>3 DEF Inv, TypeInv
  <2>3. pulses' \in Nat /\ pulses' <= poured
    BY <1>1 DEF Inv, TypeInv
  <2>. QED
    BY <1>1, <1>2, <2>1, <2>2, <2>3 DEF Inv, TypeInv
<1>5. ListInv'
  BY <1>1, <1>2 DEF Inv, ListInv
<1>6. ReadyInv'
  <2>1. ASSUME NEW d \in ready.read \cap Range(Tail(todo))
        PROVE  toServer'[d] # <<>> \/ page[d] = "gone"
    <3>1. d # c /\ d \in Range(todo) /\ d \in Conns
      BY <1>1 DEF Inv, TypeInv
    <3>2. toServer'[d] = toServer[d]
      BY <1>1, <3>1 DEF Inv, TypeInv
    <3>. QED
      BY <3>1, <3>2 DEF Inv, ReadyInv
  <2>. QED
    BY <1>2, <2>1 DEF Inv, ReadyInv
<1>7. FreshInv'
  <2>1. \A d \in Range(backlog) \cup shut : d # c /\ d \in Conns
    <3>1. Range(backlog) \subseteq Conns /\ shut \subseteq Conns
      BY RangeType DEF Inv, TypeInv
    <3>. QED
      BY <1>1, <3>1
  <2>2. \A d \in Conns : page[d] = "away" => d # c
    BY <1>1
  <2>3. \A d \in Conns : d # c =>
          srv'[d] = srv[d] /\ toServer'[d] = toServer[d] /\ toPage'[d] = toPage[d]
    BY <1>1 DEF Inv, TypeInv
  <2>. QED
    BY <1>2, <2>1, <2>2, <2>3 DEF Inv, FreshInv
<1>8. ASSUME NEW d \in Conns
      PROVE  ConnInv(d)'
  <2>1. CASE d = c
    <3>1. srv'[c] = t /\ toServer'[c] = in /\ toPage'[c] = out
      BY <1>1 DEF Inv, TypeInv
    <3>2. asked[c] <= Len(plan[c])
      BY DEF Inv, ConnInv
    <3>. QED
      BY <1>1, <1>2, <2>1, <3>1, <3>2 DEF ConnInv, Served, Sent
  <2>2. CASE d # c
    <3>1. srv'[d] = srv[d] /\ toServer'[d] = toServer[d] /\ toPage'[d] = toPage[d]
      BY <1>1, <2>2 DEF Inv, TypeInv
    <3>2. ConnInv(d)
      BY DEF Inv
    <3>. QED
      BY <1>2, <3>1, <3>2, SameConn DEF Sent
  <2>. QED
    BY <2>1, <2>2
<1>. QED
  BY <1>4, <1>5, <1>6, <1>7, <1>8 DEF Inv

LEMMA AcceptInv ==
  ASSUME Inv, Accept
  PROVE  Inv'
<1>1. /\ pc = "handle" /\ todo = <<>> /\ pc' = "close" /\ ready' = NothingReady /\ todo' = conns'
      /\ UNCHANGED <<plan, page, asked, toServer, toPage, seen, owed, pulses, poured,
                     running, shut>>
  BY DEF Accept
<1>2. NothingReady \in [read : SUBSET Conns, write : SUBSET Conns, listener : BOOLEAN]
      /\ NothingReady.read = {} /\ NothingReady.listener = FALSE
  BY DEF NothingReady
<1>3. CASE ~ready.listener
  <2>1. UNCHANGED <<conns, srv, backlog>>
    BY <1>3 DEF Accept
  <2>2. TypeInv'
    BY <1>1, <1>2, <2>1 DEF Inv, TypeInv
  <2>3. ListInv'
    BY <1>1, <2>1 DEF Inv, ListInv
  <2>4. ReadyInv'
    BY <1>1, <1>2, <2>1 DEF Inv, ReadyInv
  <2>5. UNCHANGED <<pageVars, srv, shut>>
    BY <1>1, <2>1 DEF pageVars
  <2>. QED
    BY <2>2, <2>3, <2>4, <2>5, SameConns DEF Inv
<1>4. CASE ready.listener
  <2>. DEFINE c == Head(backlog)
              new == <<c>> \o conns
  <2>1. /\ conns' = new /\ srv' = [srv EXCEPT ![c] = Fresh] /\ backlog' = Tail(backlog)
    BY <1>4 DEF Accept
  <2>2. backlog # <<>>
    BY <1>4 DEF Inv, ReadyInv
  <2>3. /\ c \in Conns /\ Tail(backlog) \in Seq(Conns) /\ c \in Range(backlog)
        /\ Range(Tail(backlog)) \subseteq Range(backlog)
        /\ IsInjective(Tail(backlog)) /\ c \notin Range(Tail(backlog))
    BY <2>2, HeadTailList DEF Inv, TypeInv, ListInv
  <2>4. c \notin Range(conns) /\ c \notin shut /\ page[c] # "away" /\ srv[c] = Fresh
    BY <2>3 DEF Inv, ListInv, FreshInv
  <2>. HIDE DEF c
  <2>5. new \in Seq(Conns) /\ Range(new) = Range(conns) \cup {c} /\ IsInjective(new)
    <3>1. conns \in Seq(Conns) /\ IsInjective(conns)
      BY DEF Inv, TypeInv, ListInv
    <3>. QED
      BY <2>3, <2>4, <3>1, PrependList
  <2>. HIDE DEF new
  <2>6. srv' = srv
    BY <2>1, <2>3, <2>4 DEF Inv, TypeInv
  <2>7. TypeInv'
    BY <1>1, <1>2, <2>1, <2>3, <2>5, <2>6 DEF Inv, TypeInv
  <2>8. ListInv'
    BY <1>1, <2>1, <2>3, <2>4, <2>5 DEF Inv, ListInv
  <2>9. ReadyInv'
    BY <1>1, <1>2 DEF Inv, ReadyInv
  <2>10. FreshInv'
    BY <1>1, <2>1, <2>3, <2>6 DEF Inv, FreshInv
  <2>11. ASSUME NEW d \in Conns
         PROVE  ConnInv(d)'
    <3>1. ConnInv(d) /\ Sent(d)' = Sent(d)
      BY <1>1 DEF Inv, Sent
    <3>. QED
      BY <1>1, <2>6, <3>1, SameConn
  <2>. QED
    BY <2>7, <2>8, <2>9, <2>10, <2>11 DEF Inv
<1>. QED
  BY <1>3, <1>4

\* What a connection the daemon closes has been sent is all it is owed.
LEMMA ClosingConn ==
  ASSUME NEW c \in Conns, TypeInv, ConnInv(c), c \notin shut, Closes(srv[c]), page[c] # "gone"
  PROVE  IF plan[c] = <<"ws">> THEN OneHandshake(Sent(c))
         ELSE ConnOK(plan[c], asked[c], owed[c], Sent(c), Fresh, <<>>)
<1>. DEFINE k == srv[c]
<1>1. k \in Connection /\ k.send \in Seq(Units) /\ k.file \in Nat /\ asked[c] \in Nat
      /\ seen[c] \in Seq(Units) /\ toPage[c] \in Seq(Units)
  BY SizesAssumption DEF TypeInv, Connection
<1>2. Sent(c) \in Seq(Units)
  BY <1>1, ConcatProperties DEF Sent
<1>3. ConnOK(plan[c], asked[c], owed[c], Sent(c), k, toServer[c])
  BY DEF ConnInv
<1>4. k.ci \/ (k.send = <<>> /\ k.sac)
  BY DEF Closes
<1>. HIDE DEF k
<1>5. CASE plan[c] = <<"ws">>
  <2>1. WsOK(asked[c], Sent(c), k, toServer[c])
    BY <1>3, <1>5 DEF ConnOK
  <2>2. k.send = <<>> /\ k.ws /\ OneHandshake(Sent(c) \o k.send)
    BY <1>4, <2>1 DEF WsOK
  <2>3. Sent(c) \o <<>> = Sent(c)
    BY <1>2, ConcatEmptySeq
  <2>. QED
    BY <1>5, <2>2, <2>3
<1>6. CASE plan[c] # <<"ws">>
  <2>1. HttpOK(plan[c], asked[c], owed[c], Sent(c), k, toServer[c])
    BY <1>3, <1>6 DEF ConnOK
  <2>2. Sent(c) = owed[c]
    <3>1. CASE Serving(plan[c], asked[c], owed[c], Sent(c), k, toServer[c])
      <4>1. k.send = <<>> /\ k.file = 0
        BY <1>4, <3>1 DEF Serving
      <4>2. Sent(c) \o <<>> \o <<>> = owed[c]
        BY <3>1, <4>1, NothingLeft DEF Serving
      <4>. QED
        BY <1>2, <4>2, ConcatEmptySeq
    <3>2. CASE Pending(plan[c], asked[c], owed[c], Sent(c), k, toServer[c])
      <4>1. plan[c][asked[c]] = "bad"
        BY <1>4, <3>2 DEF Pending
      <4>2. Sent(c) \o <<>> = owed[c]
        BY <3>2, <4>1 DEF Pending, Reply
      <4>. QED
        BY <1>2, <4>2, ConcatEmptySeq
    <3>. QED
      BY <2>1, <3>1, <3>2 DEF HttpOK
  <2>3. Sent(c) \o <<>> \o Data(0) = owed[c]
    BY <1>2, <2>2, NothingLeft, ConcatEmptySeq
  <2>4. Serving(plan[c], asked[c], owed[c], Sent(c), Fresh, <<>>)
    BY <2>3 DEF Serving, Fresh
  <2>. QED
    BY <1>6, <2>4 DEF ConnOK, HttpOK, Fresh
<1>. QED
  BY <1>5, <1>6

LEMMA CloseInv ==
  ASSUME Inv, Close
  PROVE  Inv'
<1>1. PICK c \in Conns :
           /\ c = Head(todo) /\ c \in Range(todo) /\ c \in Range(conns) /\ c \notin shut
           /\ c \notin Range(backlog) /\ page[c] # "away"
           /\ Tail(todo) \in Seq(Conns) /\ IsInjective(Tail(todo))
           /\ Range(todo) = {c} \cup Range(Tail(todo)) /\ c \notin Range(Tail(todo))
  BY NextOfRound DEF Close
<1>2. /\ pc = "close" /\ todo' = Tail(todo)
      /\ UNCHANGED <<plan, page, asked, toPage, seen, owed, backlog, pc, pulses, poured,
                     ready, running>>
  BY DEF Close
<1>3. ready = NothingReady /\ NothingReady.read = {} /\ NothingReady.listener = FALSE
  BY <1>2 DEF Inv, ReadyInv, NothingReady
<1>4. CASE ~Closes(srv[c])
  <2>1. UNCHANGED <<conns, shut, srv, toServer>>
    BY <1>1, <1>4 DEF Close
  <2>2. TypeInv'
    BY <1>1, <1>2, <2>1 DEF Inv, TypeInv
  <2>3. ListInv'
    BY <1>1, <1>2, <2>1 DEF Inv, ListInv
  <2>4. ReadyInv'
    BY <1>2, <1>3, <2>1 DEF Inv, ReadyInv
  <2>5. UNCHANGED <<pageVars, srv, shut>>
    BY <1>2, <2>1 DEF pageVars
  <2>. QED
    BY <2>2, <2>3, <2>4, <2>5, SameConns DEF Inv
<1>5. CASE Closes(srv[c])
  <2>1. /\ RemoveConn(c) /\ shut' = shut \cup {c}
        /\ srv' = [srv EXCEPT ![c] = Fresh]
        /\ toServer' = [toServer EXCEPT ![c] = <<>>]
    BY <1>1, <1>5 DEF Close
  <2>2. conns' \in Seq(Conns) /\ Range(conns') = Range(conns) \ {c} /\ IsInjective(conns')
    <3>1. conns \in Seq(Conns) /\ IsInjective(conns)
      BY DEF Inv, TypeInv, ListInv
    <3>2. PICK i \in 1..Len(conns) : conns[i] = c /\ conns' = RemoveAt(conns, i)
      BY <2>1, <3>1 DEF RemoveConn
    <3>. QED
      BY <3>1, <3>2, RemoveFromList
  <2>3. Fresh \in Connection
    BY SizesAssumption DEF Fresh, Connection
  <2>4. /\ srv' \in [Conns -> Connection] /\ toServer' \in [Conns -> Seq(Inputs)]
        /\ srv'[c] = Fresh /\ toServer'[c] = <<>>
        /\ \A d \in Conns : d # c => srv'[d] = srv[d] /\ toServer'[d] = toServer[d]
    BY <2>1, <2>3 DEF Inv, TypeInv
  <2>5. TypeInv'
    BY <1>1, <1>2, <2>1, <2>2, <2>4 DEF Inv, TypeInv
  <2>6. ListInv'
    <3>1. IsInjective(todo') /\ Range(todo') \subseteq Range(conns')
      BY <1>1, <1>2, <2>2 DEF Inv, ListInv
    <3>2. shut' \cap (Range(conns') \cup Range(backlog')) = {}
      BY <1>1, <1>2, <2>1, <2>2 DEF Inv, ListInv
    <3>. QED
      BY <1>1, <1>2, <2>1, <2>2, <3>1, <3>2 DEF Inv, ListInv
  <2>7. ReadyInv'
    BY <1>2, <1>3 DEF Inv, ReadyInv
  <2>8. FreshInv'
    <3>1. Range(backlog) \cup shut \subseteq Conns
      BY RangeType DEF Inv, TypeInv
    <3>2. \A d \in Range(backlog') \cup shut' : srv'[d] = Fresh
      BY <1>2, <2>1, <2>4, <3>1 DEF Inv, FreshInv
    <3>3. \A d \in shut' : toServer'[d] = <<>>
      BY <2>1, <2>4, <3>1 DEF Inv, FreshInv
    <3>. QED
      BY <1>1, <1>2, <2>4, <3>2, <3>3 DEF Inv, FreshInv
  <2>9. ASSUME NEW d \in Conns
        PROVE  ConnInv(d)'
    <3>1. CASE d # c
      <4>1. ConnInv(d) /\ Sent(d)' = Sent(d)
        BY <1>2 DEF Inv, Sent
      <4>. QED
        BY <1>2, <2>1, <2>4, <3>1, <4>1, SameConn
    <3>2. CASE d = c
      <4>1. ConnInv(c) /\ Sent(c)' = Sent(c) /\ TypeInv
        BY <1>2 DEF Inv, Sent
      <4>2. page[c] # "gone" =>
              IF plan[c] = <<"ws">> THEN OneHandshake(Sent(c))
              ELSE ConnOK(plan[c], asked[c], owed[c], Sent(c), Fresh, <<>>)
        BY <1>1, <1>5, <4>1, ClosingConn
      <4>3. Fresh.recv \o <<>> \in Seq(Requests)
        BY DEF Fresh
      <4>4. c \in shut' /\ asked[c] <= Len(plan[c])
        BY <2>1, <4>1 DEF ConnInv
      <4>. QED
        BY <1>2, <2>4, <3>2, <4>1, <4>2, <4>3, <4>4 DEF ConnInv
    <3>. QED
      BY <3>1, <3>2
  <2>. QED
    BY <2>5, <2>6, <2>7, <2>8, <2>9 DEF Inv
<1>. QED
  BY <1>4, <1>5

LEMMA AppendAfter ==
  ASSUME NEW s \in Seq(Units), NEW t \in Seq(Units), NEW u \in Units
  PROVE  s \o Append(t, u) = Append(s \o t, u)
<1>1. <<u>> \in Seq(Units)
  OBVIOUS
<1>2. s \o t \in Seq(Units)
  BY ConcatProperties
<1>3. Append(t, u) = t \o <<u>>
  BY AppendIsConcat
<1>4. Append(s \o t, u) = (s \o t) \o <<u>>
  BY <1>2, AppendIsConcat
<1>5. (s \o t) \o <<u>> = s \o (t \o <<u>>)
  <2>. DEFINE v == <<u>>
  <2>1. v \in Seq(Units)
    BY <1>1
  <2>. HIDE DEF v
  <2>2. (s \o t) \o v = s \o (t \o v)
    BY <2>1, Associative
  <2>. QED
    BY <2>2 DEF v
<1>. QED
  BY <1>3, <1>4, <1>5

\* A frame is queued behind the handshake.
LEMMA BroadcastOK ==
  ASSUME NEW p, NEW a, NEW o, NEW sent \in Seq(Units), NEW k \in Connection, NEW in,
         NEW n \in Nat, k.ws, ConnOK(p, a, o, sent, k, in)
  PROVE  ConnOK(p, a, o, sent, [k EXCEPT !.send = Append(k.send, Pulses(n))], in)
<1>. DEFINE u == Pulses(n)
            s == Append(k.send, u)
            t == [k EXCEPT !.send = s]
<1>1. u \in Units /\ u # Unit("101")
  BY DEF Pulses, Unit, Units
<1>2. k.send \in Seq(Units)
  BY DEF Connection
<1>. HIDE DEF u, s
<1>3. t.ws = k.ws /\ t.file = k.file /\ t.ci = k.ci /\ t.send = s
  BY DEF Connection
<1>. HIDE DEF t
<1>4. p = <<"ws">> /\ WsOK(a, sent, k, in)
  BY DEF ConnOK, HttpOK
<1>5. /\ k.file = 0 /\ ~k.ci /\ a = 1 /\ sent \o k.send # <<>> /\ OneHandshake(sent \o k.send)
  BY <1>4 DEF WsOK
<1>. DEFINE out == sent \o k.send
<1>6. out \in Seq(Units)
  BY <1>2, ConcatProperties
<1>7. sent \o s = Append(out, u)
  BY <1>1, <1>2, AppendAfter DEF s
<1>. HIDE DEF out
<1>8. Append(out, u) # <<>> /\ OneHandshake(Append(out, u))
  <2>1. /\ Len(Append(out, u)) = Len(out) + 1 /\ Append(out, u) \in Seq(Units)
        /\ \A i \in 1..Len(out) : Append(out, u)[i] = out[i]
        /\ Append(out, u)[Len(out) + 1] = u /\ Append(out, u) # <<>>
    BY <1>1, <1>6, AppendProperties
  <2>2. Len(out) \in Nat /\ Len(out) > 0
    BY <1>5, <1>6 DEF out
  <2>3. \A i \in 1..Len(out) : (out[i] = Unit("101")) = (i = 1)
    BY <1>5, <1>6 DEF OneHandshake, out
  <2>4. ASSUME NEW i \in 1..(Len(out) + 1)
        PROVE  (Append(out, u)[i] = Unit("101")) = (i = 1)
    <3>1. CASE i \in 1..Len(out)
      BY <2>1, <2>3, <3>1
    <3>2. CASE i = Len(out) + 1
      BY <1>1, <2>1, <2>2, <3>2
    <3>. QED
      BY <2>2, <3>1, <3>2
  <2>5. DOMAIN Append(out, u) = 1..(Len(out) + 1)
    BY <2>1
  <2>. QED
    BY <2>1, <2>4, <2>5 DEF OneHandshake
<1>9. sent \o t.send # <<>> /\ OneHandshake(sent \o t.send)
  BY <1>3, <1>7, <1>8
<1>10. WsOK(a, sent, t, in)
  BY <1>3, <1>5, <1>9 DEF WsOK
<1>. QED
  BY <1>4, <1>10 DEF ConnOK, t, s, u

LEMMA BroadcastInv ==
  ASSUME Inv, Broadcast
  PROVE  Inv'
<1>1. /\ pc = "broadcast" /\ pc' = "select"
      /\ UNCHANGED <<pageVars, pulses, poured, conns, todo, ready, running, shut>>
  BY DEF Broadcast
<1>2. /\ UNCHANGED <<plan, page, asked, toServer, toPage, seen, owed, backlog>>
  BY <1>1 DEF pageVars
<1>. DEFINE Told(c) == [srv[c] EXCEPT !.send = Append(srv[c].send, Pulses(pulses))]
<1>3. \A c \in Conns : \/ srv'[c] = srv[c]
                       \/ c \in Range(conns) /\ srv[c].ws /\ srv'[c] = Told(c)
  BY DEF Broadcast, IsPage
<1>4. ASSUME NEW c \in Conns
      PROVE  /\ srv[c] \in Connection /\ Told(c) \in Connection
             /\ Told(c).ws = srv[c].ws /\ Told(c).recv = srv[c].recv
  <2>1. srv[c] \in Connection /\ pulses \in Nat
    BY DEF Inv, TypeInv
  <2>. DEFINE s == Append(srv[c].send, Pulses(pulses))
  <2>2. s \in Seq(Units)
    <3>1. Pulses(pulses) \in Units /\ srv[c].send \in Seq(Units)
      BY <2>1 DEF Pulses, Units, Connection
    <3>. QED
      BY <3>1, AppendProperties
  <2>. HIDE DEF s
  <2>3. /\ [srv[c] EXCEPT !.send = s] \in Connection
        /\ [srv[c] EXCEPT !.send = s].ws = srv[c].ws
        /\ [srv[c] EXCEPT !.send = s].recv = srv[c].recv
    BY <2>1, <2>2 DEF Connection
  <2>. QED
    BY <2>1, <2>3 DEF s
<1>5. TypeInv'
  <2>1. srv' = [c \in Conns |-> srv'[c]]
    BY DEF Broadcast
  <2>2. \A c \in Conns : srv'[c] \in Connection
    BY <1>3, <1>4
  <2>3. srv' \in [Conns -> Connection]
    BY <2>1, <2>2
  <2>. QED
    BY <1>1, <1>2, <2>3 DEF Inv, TypeInv
<1>6. ListInv' /\ ReadyInv'
  BY <1>1, <1>2 DEF Inv, ListInv, ReadyInv
<1>7. FreshInv'
  <2>1. \A c \in Range(backlog) \cup shut : c \in Conns /\ c \notin Range(conns)
    <3>1. Range(backlog) \cup shut \subseteq Conns
      BY RangeType DEF Inv, TypeInv
    <3>. QED
      BY <3>1 DEF Inv, ListInv
  <2>2. \A c \in Conns : page[c] = "away" => c \notin Range(conns)
    BY DEF Inv, ListInv
  <2>3. \A c \in Conns : c \notin Range(conns) => srv'[c] = srv[c]
    BY <1>3
  <2>. QED
    BY <1>1, <1>2, <2>1, <2>2, <2>3 DEF Inv, FreshInv
<1>8. ASSUME NEW c \in Conns
      PROVE  ConnInv(c)'
  <2>1. ConnInv(c) /\ Sent(c)' = Sent(c)
    BY <1>2 DEF Inv, Sent
  <2>2. CASE srv'[c] = srv[c]
    BY <1>1, <1>2, <2>1, <2>2, SameConn
  <2>3. CASE c \in Range(conns) /\ srv[c].ws /\ srv'[c] = Told(c)
    <3>1. c \notin shut
      BY <2>3 DEF Inv, ListInv
    <3>2. Sent(c) \in Seq(Units) /\ pulses \in Nat
      BY ConcatProperties DEF Inv, TypeInv, Sent
    <3>3. page[c] # "gone" =>
            ConnOK(plan[c], asked[c], owed[c], Sent(c), srv'[c], toServer[c])
      <4>. SUFFICES ASSUME page[c] # "gone"
                    PROVE  ConnOK(plan[c], asked[c], owed[c], Sent(c), srv'[c], toServer[c])
        OBVIOUS
      <4>1. ConnOK(plan[c], asked[c], owed[c], Sent(c), srv[c], toServer[c])
        BY <2>1, <3>1 DEF ConnInv
      <4>2. ConnOK(plan[c], asked[c], owed[c], Sent(c), Told(c), toServer[c])
        BY <1>4, <2>3, <3>2, <4>1, BroadcastOK
      <4>. QED
        BY <2>3, <4>2
    <3>4. srv'[c].ws
      BY <1>4, <2>3
    <3>. HIDE DEF Told
    <3>. QED
      BY <1>1, <1>2, <2>1, <3>1, <3>3, <3>4 DEF ConnInv
  <2>. QED
    BY <1>3, <2>2, <2>3
<1>. QED
  BY <1>5, <1>6, <1>7, <1>8 DEF Inv

LEMMA ConnectInv ==
  ASSUME Inv, NEW c \in Conns, Connect(c)
  PROVE  Inv'
<1>1. /\ page[c] = "away" /\ page' = [page EXCEPT ![c] = "open"]
      /\ backlog' = Append(backlog, c)
      /\ UNCHANGED <<plan, asked, toServer, toPage, seen, owed, srv, pulses, poured,
                     conns, pc, todo, ready, running, shut>>
  BY DEF Connect, loopVars
<1>2. c \notin Range(conns) /\ c \notin Range(backlog) /\ c \notin shut
  BY <1>1 DEF Inv, ListInv
<1>3. /\ backlog' \in Seq(Conns) /\ Range(backlog') = Range(backlog) \cup {c}
      /\ IsInjective(backlog') /\ backlog' # <<>>
  <2>1. backlog \in Seq(Conns) /\ IsInjective(backlog)
    BY DEF Inv, TypeInv, ListInv
  <2>. QED
    BY <1>1, <1>2, <2>1, AppendList, AppendProperties
<1>4. page \in [Conns -> {"away", "open", "stalled", "gone"}]
  BY DEF Inv, TypeInv
<1>5. TypeInv'
  BY <1>1, <1>3 DEF Inv, TypeInv
<1>6. ListInv'
  BY <1>1, <1>2, <1>3, <1>4 DEF Inv, ListInv
<1>7. ReadyInv'
  <2>1. \A d \in Conns : page[d] = "gone" => page'[d] = "gone"
    BY <1>1, <1>4
  <2>2. ready.read \subseteq Conns
    BY DEF Inv, TypeInv
  <2>. QED
    BY <1>1, <1>3, <2>1, <2>2 DEF Inv, ReadyInv
<1>8. FreshInv'
  BY <1>1, <1>3, <1>4 DEF Inv, FreshInv
<1>9. ASSUME NEW d \in Conns
      PROVE  ConnInv(d)'
  <2>1. ConnInv(d) /\ Sent(d)' = Sent(d) /\ (page'[d] = "gone" \/ page[d] # "gone")
    BY <1>1, <1>4 DEF Inv, Sent
  <2>. QED
    BY <1>1, <2>1, SameConn
<1>. QED
  BY <1>5, <1>6, <1>7, <1>8, <1>9 DEF Inv

\* Stall and Leave.
LEMMA AwayInv ==
  ASSUME Inv, NEW c \in Conns, Stall(c) \/ Leave(c)
  PROVE  Inv'
<1>1. /\ page[c] \in {"open", "stalled"}
      /\ page' \in {[page EXCEPT ![c] = "stalled"], [page EXCEPT ![c] = "gone"]}
      /\ \/ page' = [page EXCEPT ![c] = "gone"]
         \/ UNCHANGED <<toPage, seen>>
      /\ \/ UNCHANGED <<toPage, seen>>
         \/ toPage' = [toPage EXCEPT ![c] = <<>>] /\ seen' = [seen EXCEPT ![c] = <<>>]
      /\ UNCHANGED <<plan, asked, toServer, owed, backlog, srv, pulses, poured,
                     conns, pc, todo, ready, running, shut>>
  BY DEF Stall, Leave, loopVars
<1>2. /\ page \in [Conns -> {"away", "open", "stalled", "gone"}]
      /\ page' \in [Conns -> {"away", "open", "stalled", "gone"}]
      /\ \A d \in Conns : d # c => page'[d] = page[d]
      /\ page'[c] \in {"stalled", "gone"}
  BY <1>1 DEF Inv, TypeInv
<1>3. /\ toPage' \in [Conns -> Seq(Units)] /\ seen' \in [Conns -> Seq(Units)]
      /\ \A d \in Conns : d # c => toPage'[d] = toPage[d] /\ seen'[d] = seen[d]
      /\ \A d \in Conns : Len(toPage'[d]) <= SocketCap
  <2>1. CASE UNCHANGED <<toPage, seen>>
    BY <2>1 DEF Inv, TypeInv
  <2>2. CASE toPage' = [toPage EXCEPT ![c] = <<>>] /\ seen' = [seen EXCEPT ![c] = <<>>]
    <3>1. /\ toPage \in [Conns -> Seq(Units)] /\ seen \in [Conns -> Seq(Units)]
          /\ \A d \in Conns : Len(toPage[d]) <= SocketCap
          /\ <<>> \in Seq(Units) /\ Len(<<>>) = 0 /\ 0 <= SocketCap
      BY SizesAssumption DEF Inv, TypeInv
    <3>2. /\ toPage' \in [Conns -> Seq(Units)] /\ seen' \in [Conns -> Seq(Units)]
          /\ toPage'[c] = <<>>
          /\ \A d \in Conns : d # c => toPage'[d] = toPage[d] /\ seen'[d] = seen[d]
      BY <2>2, <3>1
    <3>3. ASSUME NEW d \in Conns
          PROVE  Len(toPage'[d]) <= SocketCap
      <4>1. CASE d = c
        BY <3>1, <3>2, <4>1
      <4>2. CASE d # c
        BY <3>1, <3>2, <4>2
      <4>. QED
        BY <4>1, <4>2
    <3>. QED
      BY <3>2, <3>3
  <2>. QED
    BY <1>1, <2>1, <2>2
<1>4. TypeInv'
  BY <1>1, <1>2, <1>3 DEF Inv, TypeInv
<1>5. ListInv'
  <2>1. \A d \in Range(conns) \cup Range(backlog) \cup shut : page'[d] # "away"
    <3>1. Range(conns) \subseteq Conns /\ Range(backlog) \subseteq Conns /\ shut \subseteq Conns
      BY RangeType DEF Inv, TypeInv
    <3>. QED
      BY <1>2, <3>1 DEF Inv, ListInv
  <2>. QED
    BY <1>1, <2>1 DEF Inv, ListInv
<1>6. ReadyInv'
  <2>1. \A d \in Conns : page[d] = "gone" => page'[d] = "gone"
    BY <1>1, <1>2
  <2>2. ready.read \subseteq Conns
    BY DEF Inv, TypeInv
  <2>. QED
    BY <1>1, <2>1, <2>2 DEF Inv, ReadyInv
<1>7. FreshInv'
  BY <1>1, <1>2, <1>3 DEF Inv, FreshInv
<1>8. ASSUME NEW d \in Conns
      PROVE  ConnInv(d)'
  <2>1. ASSUME d = c
        PROVE  page'[d] = "gone" \/ (page[d] # "gone" /\ Sent(d)' = Sent(d))
    <3>1. page[c] # "gone"
      BY <1>1
    <3>2. page' = [page EXCEPT ![c] = "gone"] => page'[c] = "gone"
      BY <1>2
    <3>3. UNCHANGED <<toPage, seen>> => Sent(c)' = Sent(c)
      BY DEF Sent
    <3>. QED
      BY <1>1, <2>1, <3>1, <3>2, <3>3
  <2>2. ASSUME d # c
        PROVE  page'[d] = "gone" \/ (page[d] # "gone" /\ Sent(d)' = Sent(d))
    <3>1. Sent(d)' = Sent(d) /\ page'[d] = page[d]
      BY <1>2, <1>3, <2>2 DEF Sent
    <3>. QED
      BY <3>1
  <2>3. page'[d] = "gone" \/ (page[d] # "gone" /\ Sent(d)' = Sent(d))
    BY <2>1, <2>2
  <2>4. ConnInv(d)
    BY DEF Inv
  <2>. QED
    BY <1>1, <2>3, <2>4, SameConn
<1>. QED
  BY <1>4, <1>5, <1>6, <1>7, <1>8 DEF Inv

LEMMA PageReadInv ==
  ASSUME Inv, NEW c \in Conns, PageRead(c)
  PROVE  Inv'
<1>. DEFINE e == Head(toPage[c])
            rest == Tail(toPage[c])
            s == Append(seen[c], e)
<1>1. /\ page[c] = "open" /\ toPage[c] # <<>>
      /\ seen' = [seen EXCEPT ![c] = s] /\ toPage' = [toPage EXCEPT ![c] = rest]
      /\ UNCHANGED <<plan, page, asked, toServer, owed, backlog, srv, pulses, poured,
                     conns, pc, todo, ready, running, shut>>
  BY DEF PageRead, loopVars
<1>2. /\ toPage[c] \in Seq(Units) /\ seen[c] \in Seq(Units) /\ Len(toPage[c]) <= SocketCap
      /\ toPage \in [Conns -> Seq(Units)] /\ seen \in [Conns -> Seq(Units)]
      /\ SocketCap \in Nat
  BY SizesAssumption DEF Inv, TypeInv
<1>3. e \in Units /\ rest \in Seq(Units) /\ Len(rest) = Len(toPage[c]) - 1
  BY <1>1, <1>2, HeadTailProperties
<1>4. s \in Seq(Units)
  BY <1>2, <1>3, AppendProperties
<1>5. s \o rest = seen[c] \o toPage[c]
  <2>. DEFINE a == seen[c]  b == <<e>>
  <2>1. a \in Seq(Units) /\ b \in Seq(Units)
    BY <1>2, <1>3
  <2>2. s = a \o b
    BY <1>2, <1>3, AppendIsConcat
  <2>3. b \o rest = toPage[c]
    <3>1. /\ Len(b \o rest) = Len(toPage[c]) /\ b \o rest \in Seq(Units)
          /\ \A i \in 1..(1 + Len(rest)) : (b \o rest)[i] = IF i <= 1 THEN e ELSE rest[i - 1]
      <4>1. b \in Seq(Units) /\ Len(b) = 1 /\ b[1] = e /\ Len(toPage[c]) \in Nat
        BY <1>2, <2>1
      <4>2. /\ b \o rest \in Seq(Units) /\ Len(b \o rest) = Len(b) + Len(rest)
            /\ \A i \in 1..(Len(b) + Len(rest)) :
                 (b \o rest)[i] = IF i <= Len(b) THEN b[i] ELSE rest[i - Len(b)]
        BY <1>3, <4>1, ConcatProperties
      <4>. HIDE DEF b
      <4>. QED
        BY <1>3, <4>1, <4>2
    <3>2. /\ \A i \in 1..Len(rest) : rest[i] = toPage[c][i + 1]
          /\ e = toPage[c][1]
      BY <1>1, <1>2, HeadTailProperties
    <3>3. ASSUME NEW i \in 1..Len(b \o rest)
          PROVE  (b \o rest)[i] = toPage[c][i]
      <4>1. Len(toPage[c]) \in Nat /\ i \in 1..(1 + Len(rest))
        BY <1>2, <1>3, <3>1
      <4>2. i = 1 \/ (~(i <= 1) /\ i - 1 \in 1..Len(rest) /\ (i - 1) + 1 = i)
        BY <4>1, <1>3
      <4>3. CASE i = 1
        BY <3>1, <3>2, <4>1, <4>3
      <4>4. CASE ~(i <= 1) /\ i - 1 \in 1..Len(rest) /\ (i - 1) + 1 = i
        <5>1. (b \o rest)[i] = rest[i - 1]
          BY <3>1, <4>1, <4>4
        <5>. QED
          BY <3>2, <4>4, <5>1
      <4>. QED
        BY <4>2, <4>3, <4>4
    <3>. QED
      BY <1>2, <3>1, <3>3, SeqEqual
  <2>. HIDE DEF a, b, s, e, rest
  <2>4. (a \o b) \o rest = a \o (b \o rest)
    BY <1>3, <2>1, Associative
  <2>. QED
    BY <2>2, <2>3, <2>4 DEF a
<1>. HIDE DEF e, rest, s
<1>6. Sent(c)' = Sent(c)
  BY <1>1, <1>2, <1>5 DEF Sent
<1>7. \A d \in Conns : d # c => toPage'[d] = toPage[d] /\ seen'[d] = seen[d]
  BY <1>1, <1>2
<1>8. TypeInv'
  <2>1. /\ toPage' \in [Conns -> Seq(Units)] /\ seen' \in [Conns -> Seq(Units)]
    BY <1>1, <1>2, <1>3, <1>4
  <2>2. toPage'[c] = rest
    BY <1>1, <1>2
  <2>3. Len(toPage'[c]) <= SocketCap
    <3>1. Len(toPage[c]) \in Nat
      BY <1>2
    <3>. QED
      BY <1>2, <1>3, <2>2, <3>1
  <2>4. \A d \in Conns : Len(toPage'[d]) <= SocketCap
    BY <1>7, <2>3 DEF Inv, TypeInv
  <2>. QED
    BY <1>1, <2>1, <2>4 DEF Inv, TypeInv
<1>9. ListInv' /\ ReadyInv'
  BY <1>1 DEF Inv, ListInv, ReadyInv
<1>10. FreshInv'
  BY <1>1, <1>7 DEF Inv, FreshInv
<1>11. ASSUME NEW d \in Conns
       PROVE  ConnInv(d)'
  <2>1. ConnInv(d)
    BY DEF Inv
  <2>2. Sent(d)' = Sent(d)
    BY <1>6, <1>7 DEF Sent
  <2>3. page'[d] = "gone" \/ page[d] # "gone"
    BY <1>1
  <2>4. CASE page[d] = "gone"
    BY <1>1, <2>1, <2>4, SameConn
  <2>. QED
    BY <1>1, <2>1, <2>2, <2>4, SameConn
<1>. QED
  BY <1>8, <1>9, <1>10, <1>11 DEF Inv

\* Only what is no request has no reply.
LEMMA ReplyNotEmpty ==
  ASSUME NEW r \in Requests \ {"bad"}
  PROVE  Len(Reply(r)) > 0
<1>1. CASE r \in {"file", "fileClose"}
  <2>1. /\ Data(FileLen) \in Seq(Units) /\ <<Unit("head")>> \in Seq(Units)
        /\ Len(Data(FileLen)) = FileLen /\ FileLen \in Nat
    BY SizesAssumption, DataType DEF Unit, Units
  <2>2. Len(<<Unit("head")>> \o Data(FileLen)) = 1 + FileLen
    BY <2>1, ConcatProperties
  <2>. QED
    BY <1>1, <2>1, <2>2 DEF Reply
<1>2. CASE r = "ws"
  BY <1>2 DEF Reply
<1>3. CASE r = "api"
  BY <1>3 DEF Reply
<1>4. CASE r = "missing"
  BY <1>4 DEF Reply
<1>. QED
  BY <1>1, <1>2, <1>3, <1>4 DEF Requests

LEMMA TwoHalves ==
  ASSUME NEW r \in Requests
  PROVE  /\ <<r, r>> \in Seq(Requests) /\ <<r, r>> \in Seq(Inputs) /\ <<r, r>> # <<>>
         /\ <<>> \o <<r, r>> = <<r, r>>
  BY DEF Inputs

\* A browser that has all it is owed asks again: nothing is on its way to it, and the
\* server has seen nothing of the request.
LEMMA AskOK ==
  ASSUME NEW p, IsPlan(p), NEW a \in Nat, a < Len(p), NEW s \in Seq(Units), NEW t \in Seq(Units),
         NEW o \in Seq(Units), NEW k \in Connection, NEW in \in Seq(Inputs),
         Len(s) = Len(o), HttpOK(p, a, o, s \o t, k, in)
  PROVE  LET r == p[a + 1]
         IN  /\ Pending(p, a + 1, o \o Reply(r), s \o t, k, in \o <<r, r>>) /\ ~k.ws
             /\ k.recv = <<>> /\ in = <<>>
<1>. DEFINE r == p[a + 1]
<1>1. /\ k.send \in Seq(Units) /\ k.file \in Nat /\ Len(p) \in Nat
      /\ Len(s) \in Nat /\ Len(t) \in Nat /\ Len(k.send) \in Nat
      /\ \A i \in 1..Len(p) : p[i] \in Requests
  BY SizesAssumption DEF Connection, IsPlan
<1>2. ~Pending(p, a, o, s \o t, k, in)
  <2>. SUFFICES ASSUME Pending(p, a, o, s \o t, k, in)
                PROVE  FALSE
    OBVIOUS
  <2>1. a \in 1..Len(p) /\ (s \o t) \o Reply(p[a]) = o
    BY DEF Pending
  <2>2. p[a] \in Requests /\ Reply(p[a]) \in Seq(Units) /\ Len(Reply(p[a])) \in Nat
    BY <1>1, <2>1, ReplyType
  <2>3. s \o t \in Seq(Units) /\ Len(s \o t) = Len(s) + Len(t)
    BY ConcatProperties
  <2>4. Len(o) = (Len(s) + Len(t)) + Len(Reply(p[a]))
    <3>. DEFINE st == s \o t  y == Reply(p[a])
    <3>1. st \in Seq(Units) /\ y \in Seq(Units) /\ Len(st) = Len(s) + Len(t) /\ st \o y = o
      BY <2>1, <2>2, <2>3
    <3>. HIDE DEF st, y
    <3>2. Len(st \o y) = Len(st) + Len(y)
      BY <3>1, ConcatProperties
    <3>. QED
      BY <3>1, <3>2 DEF y
  <2>5. Len(Reply(p[a])) = 0
    BY <1>1, <2>2, <2>4
  <2>6. p[a] = "bad"
    BY <2>2, <2>5, ReplyNotEmpty
  <2>7. a = Len(p)
    BY <2>1, <2>6 DEF IsPlan, Closing
  <2>. QED
    BY <1>1, <2>7
<1>3. Serving(p, a, o, s \o t, k, in) /\ ~k.ws
  BY <1>2 DEF HttpOK
<1>4. /\ k.recv = <<>> /\ in = <<>> /\ ~k.ci /\ ~k.sac
      /\ ((s \o t) \o k.send) \o Data(k.file) = o
  BY <1>1, <1>3 DEF Serving
<1>5. k.send = <<>> /\ k.file = 0 /\ s \o t = o
  <2>. DEFINE d == Data(k.file)  q == k.send  st == s \o t  x == st \o q
  <2>1. d \in Seq(Units) /\ Len(d) = k.file /\ q \in Seq(Units)
    BY <1>1, DataType
  <2>2. st \in Seq(Units) /\ Len(st) = Len(s) + Len(t)
    BY ConcatProperties
  <2>3. x \o d = o
    BY <1>4
  <2>. HIDE DEF d, q, st
  <2>4. x \in Seq(Units) /\ Len(x) = Len(st) + Len(q)
    BY <2>1, <2>2, ConcatProperties
  <2>. HIDE DEF x
  <2>5. Len(x \o d) = Len(x) + Len(d)
    BY <2>1, <2>4, ConcatProperties
  <2>6. Len(q) = 0 /\ k.file = 0
    <3>1. Len(q) \in Nat /\ k.file \in Nat /\ Len(s) \in Nat /\ Len(t) \in Nat
      BY <1>1, <2>1
    <3>2. Len(s) = ((Len(s) + Len(t)) + Len(q)) + k.file
      BY <2>1, <2>2, <2>3, <2>4, <2>5
    <3>. QED
      BY <3>1, <3>2
  <2>7. q = <<>> /\ d = <<>>
    BY <2>1, <2>6
  <2>8. x = st
    BY <2>2, <2>7, ConcatEmptySeq DEF x
  <2>9. x \o d = x
    BY <2>4, <2>7, ConcatEmptySeq
  <2>. QED
    BY <2>3, <2>6, <2>7, <2>8, <2>9 DEF q, st
<1>6. a + 1 \in 1..Len(p) /\ r \in Requests
  BY <1>1
<1>7. k.recv \o (in \o <<r, r>>) = <<r, r>> /\ in \o <<r, r>> # <<>>
  BY <1>4, <1>6, TwoHalves
<1>8. Pending(p, a + 1, o \o Reply(r), s \o t, k, in \o <<r, r>>)
  BY <1>4, <1>5, <1>6, <1>7 DEF Pending
<1>. QED
  BY <1>3, <1>4, <1>8

LEMMA AskInv ==
  ASSUME Inv, NEW c \in Conns, Ask(c)
  PROVE  Inv'
<1>. DEFINE r == plan[c][asked[c] + 1]
            in == toServer[c] \o <<r, r>>
            o == owed[c] \o Reply(r)
<1>1. /\ page[c] = "open" /\ c \notin shut
      /\ asked[c] < Len(plan[c]) /\ Len(seen[c]) = Len(owed[c])
      /\ asked' = [asked EXCEPT ![c] = asked[c] + 1]
      /\ toServer' = [toServer EXCEPT ![c] = in]
      /\ owed' = [owed EXCEPT ![c] = o]
      /\ UNCHANGED <<plan, page, toPage, seen, backlog, srv, pulses, poured,
                     conns, pc, todo, ready, running, shut>>
  BY DEF Ask, loopVars
<1>2. /\ asked \in [Conns -> Nat] /\ toServer \in [Conns -> Seq(Inputs)]
      /\ owed \in [Conns -> Seq(Units)] /\ srv[c] \in Connection
      /\ seen[c] \in Seq(Units) /\ toPage[c] \in Seq(Units)
      /\ asked[c] \in Nat /\ toServer[c] \in Seq(Inputs) /\ owed[c] \in Seq(Units)
  BY DEF Inv, TypeInv
<1>3. IsPlan(plan[c]) /\ plan[c] \in Seq(Requests) /\ Len(plan[c]) \in Nat
  BY PlansOK DEF Inv, IsPlan
<1>4. r \in Requests
  BY <1>1, <1>2, <1>3
<1>5. in \in Seq(Inputs) /\ in # <<>>
  <2>. DEFINE two == <<r, r>>
  <2>1. two \in Seq(Inputs) /\ Len(two) = 2
    BY <1>4, TwoHalves
  <2>2. in = toServer[c] \o two
    OBVIOUS
  <2>. HIDE DEF two, in
  <2>3. /\ toServer[c] \o two \in Seq(Inputs)
        /\ Len(toServer[c] \o two) = Len(toServer[c]) + Len(two)
    BY <1>2, <2>1, ConcatProperties
  <2>4. Len(toServer[c]) \in Nat /\ Len(<<>>) = 0
    BY <1>2
  <2>. QED
    BY <2>1, <2>2, <2>3, <2>4
<1>6. o \in Seq(Units)
  <2>1. Reply(r) \in Seq(Units)
    BY <1>4, ReplyType
  <2>. QED
    BY <1>2, <2>1, ConcatProperties
<1>7. /\ ConnOK(plan[c], asked[c] + 1, o, Sent(c), srv[c], in)
      /\ srv[c].recv \o in \in Seq(Requests)
  <2>1. ConnOK(plan[c], asked[c], owed[c], Sent(c), srv[c], toServer[c])
    BY <1>1 DEF Inv, ConnInv
  <2>2. CASE plan[c] = <<"ws">>
    <3>1. WsOK(asked[c], Sent(c), srv[c], toServer[c]) /\ asked[c] = 0 /\ r = "ws"
      BY <1>1, <1>2, <2>1, <2>2 DEF ConnOK
    <3>2. srv[c].recv = <<>> /\ toServer[c] = <<>>
      BY <3>1 DEF WsOK
    <3>3. srv[c].recv \o in = <<"ws", "ws">>
      BY <1>4, <3>1, <3>2, TwoHalves
    <3>. HIDE DEF in
    <3>4. WsOK(asked[c] + 1, Sent(c), srv[c], in)
      BY <1>5, <3>1, <3>3 DEF WsOK
    <3>. QED
      BY <1>4, <2>2, <3>1, <3>3, <3>4, TwoHalves DEF ConnOK
  <2>3. CASE plan[c] # <<"ws">>
    <3>. DEFINE p == plan[c]  k == srv[c]  s == seen[c]  t == toPage[c]  a == asked[c]
                u == owed[c]  v == toServer[c]
    <3>1. HttpOK(p, a, u, s \o t, k, v)
      BY <2>1, <2>3 DEF ConnOK, Sent
    <3>2. /\ IsPlan(p) /\ a \in Nat /\ a < Len(p) /\ s \in Seq(Units) /\ t \in Seq(Units)
          /\ u \in Seq(Units) /\ k \in Connection /\ v \in Seq(Inputs) /\ Len(s) = Len(u)
      BY <1>1, <1>2, <1>3
    <3>. HIDE DEF p, k, s, t, a, u, v, in, o, r
    <3>4. /\ Pending(p, a + 1, u \o Reply(p[a + 1]), s \o t, k, v \o <<p[a + 1], p[a + 1]>>)
          /\ ~k.ws /\ k.recv = <<>> /\ v = <<>>
      BY <3>1, <3>2, AskOK
    <3>5. /\ Pending(plan[c], asked[c] + 1, o, Sent(c), srv[c], in) /\ ~srv[c].ws
          /\ srv[c].recv = <<>> /\ toServer[c] = <<>>
      BY <3>4 DEF p, k, s, t, a, u, v, in, o, r, Sent
    <3>6. in = <<>> \o <<r, r>>
      BY <3>5 DEF in
    <3>7. srv[c].recv \o in = <<r, r>>
      BY <1>4, <3>5, <3>6, TwoHalves
    <3>. QED
      BY <1>4, <2>3, <3>5, <3>7, TwoHalves DEF ConnOK, HttpOK
  <2>. QED
    BY <2>2, <2>3
<1>. HIDE DEF in, o
<1>8. TypeInv'
  BY <1>1, <1>2, <1>5, <1>6 DEF Inv, TypeInv
<1>9. ListInv'
  BY <1>1 DEF Inv, ListInv
<1>10. ReadyInv'
  <2>1. \A d \in Conns : d # c => toServer'[d] = toServer[d]
    BY <1>1, <1>2
  <2>2. toServer'[c] # <<>> /\ ready.read \subseteq Conns
    BY <1>1, <1>2, <1>5 DEF Inv, TypeInv
  <2>. QED
    BY <1>1, <2>1, <2>2 DEF Inv, ReadyInv
<1>11. FreshInv'
  <2>1. \A d \in Conns : d # c => /\ toServer'[d] = toServer[d] /\ asked'[d] = asked[d]
                                  /\ owed'[d] = owed[d]
    BY <1>1, <1>2
  <2>2. shut \subseteq Conns
    BY DEF Inv, TypeInv
  <2>3. \A d \in shut : toServer'[d] = <<>>
    BY <1>1, <2>1, <2>2 DEF Inv, FreshInv
  <2>. QED
    BY <1>1, <2>1, <2>3 DEF Inv, FreshInv
<1>12. ASSUME NEW d \in Conns
       PROVE  ConnInv(d)'
  <2>1. ConnInv(d) /\ Sent(d)' = Sent(d)
    BY <1>1 DEF Inv, Sent
  <2>2. CASE d # c
    <3>1. asked'[d] = asked[d] /\ toServer'[d] = toServer[d] /\ owed'[d] = owed[d]
      BY <1>1, <1>2, <2>2
    <3>. QED
      BY <1>1, <2>1, <3>1, SameConn
  <2>3. CASE d = c
    <3>1. asked'[c] = asked[c] + 1 /\ toServer'[c] = in /\ owed'[c] = o
      BY <1>1, <1>2
    <3>2. asked'[c] <= Len(plan[c])
      BY <1>1, <1>2, <1>3, <3>1
    <3>. QED
      BY <1>1, <1>7, <2>1, <2>3, <3>1, <3>2 DEF ConnInv
  <2>. QED
    BY <2>2, <2>3
<1>. QED
  BY <1>8, <1>9, <1>10, <1>11, <1>12 DEF Inv

LEMMA SendFrameInv ==
  ASSUME Inv, NEW c \in Conns, SendFrame(c)
  PROVE  Inv'
<1>1. PICK in \in {<<"zero">>, <<"close">>} :
        /\ page[c] = "open" /\ c \notin shut /\ plan[c] = <<"ws">> /\ seen[c] # <<>>
        /\ toServer' = [toServer EXCEPT ![c] = in]
        /\ UNCHANGED <<plan, page, asked, toPage, seen, owed, backlog, srv, pulses, poured,
                       conns, pc, todo, ready, running, shut>>
  BY DEF SendFrame, loopVars
<1>2. in \in Seq(Inputs) /\ in # <<>> /\ toServer \in [Conns -> Seq(Inputs)]
  <2>1. \A x \in Inputs : <<x>> \in Seq(Inputs) /\ <<x>> # <<>>
    OBVIOUS
  <2>2. "zero" \in Inputs /\ "close" \in Inputs
    BY DEF Inputs
  <2>. QED
    BY <1>1, <2>1, <2>2 DEF Inv, TypeInv
<1>3. /\ seen[c] \in Seq(Units) /\ toPage[c] \in Seq(Units)
  BY DEF Inv, TypeInv
<1>4. Sent(c) # <<>>
  <2>1. Len(Sent(c)) = Len(seen[c]) + Len(toPage[c])
    BY <1>3, ConcatProperties DEF Sent
  <2>2. Len(seen[c]) > 0 /\ Len(seen[c]) \in Nat /\ Len(toPage[c]) \in Nat /\ Len(<<>>) = 0
    BY <1>1, <1>3
  <2>. DEFINE w == Sent(c)  m == Len(seen[c])  n == Len(toPage[c])
  <2>3. Len(w) = m + n /\ m > 0 /\ m \in Nat /\ n \in Nat
    BY <2>1, <2>2
  <2>. HIDE DEF m, n, w
  <2>4. Len(w) # 0
    BY <2>3
  <2>5. w # <<>>
    BY <2>4
  <2>. QED
    BY <2>5 DEF w
<1>5. WsOK(asked[c], Sent(c), srv[c], toServer[c])
  BY <1>1 DEF Inv, ConnInv, ConnOK
<1>6. srv[c].ws /\ WsOK(asked[c], Sent(c), srv[c], in)
  BY <1>4, <1>5 DEF WsOK
<1>7. TypeInv'
  BY <1>1, <1>2 DEF Inv, TypeInv
<1>8. ListInv'
  BY <1>1 DEF Inv, ListInv
<1>9. \A d \in Conns : d # c => toServer'[d] = toServer[d]
  BY <1>1, <1>2
<1>10. toServer'[c] = in
  BY <1>1, <1>2
<1>11. ReadyInv'
  <2>1. ready.read \subseteq Conns
    BY DEF Inv, TypeInv
  <2>. QED
    BY <1>1, <1>2, <1>9, <1>10, <2>1 DEF Inv, ReadyInv
<1>12. FreshInv'
  <2>1. shut \subseteq Conns
    BY DEF Inv, TypeInv
  <2>2. \A d \in shut : toServer'[d] = <<>>
    BY <1>1, <1>9, <2>1 DEF Inv, FreshInv
  <2>. QED
    BY <1>1, <1>9, <2>2 DEF Inv, FreshInv
<1>13. ASSUME NEW d \in Conns
       PROVE  ConnInv(d)'
  <2>1. ConnInv(d) /\ Sent(d)' = Sent(d)
    BY <1>1 DEF Inv, Sent
  <2>2. CASE d # c
    BY <1>1, <1>9, <2>1, <2>2, SameConn
  <2>3. CASE d = c
    BY <1>1, <1>6, <1>10, <2>1, <2>3 DEF ConnInv, ConnOK
  <2>. QED
    BY <2>2, <2>3
<1>. QED
  BY <1>7, <1>8, <1>11, <1>12, <1>13 DEF Inv

-----------------------------------------------------------------------------
(* Every step keeps the invariant; what it says of the runs' properties *)

LEMMA StepInv == Inv /\ [Next]_vars => Inv'
<1>. SUFFICES ASSUME Inv, [Next]_vars
              PROVE  Inv'
  OBVIOUS
<1>1. CASE Loop
  BY <1>1, SelectInv, HandleInv, AcceptInv, CloseInv, BroadcastInv, QuietInv DEF Loop
<1>2. CASE Quit \/ Pour
  BY <1>2, QuietInv
<1>3. ASSUME NEW c \in Conns, Browser(c)
      PROVE  Inv'
  BY <1>3, ConnectInv, AskInv, PageReadInv, SendFrameInv, AwayInv DEF Browser
<1>4. CASE UNCHANGED vars
  <2>1. /\ UNCHANGED <<pageVars, srv, shut>>
        /\ UNCHANGED <<plan, page, asked, toServer, toPage, seen, owed, backlog, srv, pulses,
                       poured, conns, pc, todo, ready, running, shut>>
    BY <1>4 DEF vars, pageVars, loopVars
  <2>2. FreshInv' /\ \A c \in Conns : ConnInv(c)'
    BY <2>1, SameConns
  <2>3. TypeInv' /\ ListInv' /\ ReadyInv'
    BY <2>1 DEF Inv, TypeInv, ListInv, ReadyInv
  <2>. QED
    BY <2>2, <2>3 DEF Inv
<1>. QED
  BY <1>1, <1>2, <1>3, <1>4 DEF Next

LEMMA Invariance == Spec => []Inv
  BY InitInv, StepInv, PTL DEF Spec

LEMMA PrefixOfConcat ==
  ASSUME NEW s \in Seq(Units), NEW t \in Seq(Units)
  PROVE  IsPrefix(s, s \o t)
<1>1. /\ s \o t \in Seq(Units) /\ Len(s \o t) = Len(s) + Len(t)
      /\ \A i \in 1..Len(s) : (s \o t)[i] = s[i]
  BY ConcatProperties
<1>. DEFINE w == s \o t
<1>2. Len(s) \in Nat /\ Len(t) \in Nat /\ Len(w) = Len(s) + Len(t) /\ w \in Seq(Units)
  BY <1>1
<1>. HIDE DEF w
<1>3. Len(s) <= Len(w) /\ Len(s) \in 0..Len(w)
  BY <1>2
<1>4. SubSeq(w, 1, Len(s)) \in Seq(Units) /\ Len(SubSeq(w, 1, Len(s))) = Len(s)
  BY <1>2, <1>3, Cut
<1>5. \A i \in 1..Len(s) : SubSeq(w, 1, Len(s))[i] = s[i]
  <2>1. \A i \in 1..Len(s) : w[i] \in Units
    BY <1>2, <1>3, ElementOfSeq
  <2>2. \A i \in 1..Len(s) : SubSeq(w, 1, Len(s))[i] = w[1 + i - 1]
    BY <1>2, <1>3, <2>1, SubSeqProperties
  <2>3. \A i \in 1..Len(s) : 1 + i - 1 = i
    OBVIOUS
  <2>. QED
    BY <1>1, <2>2, <2>3 DEF w
<1>6. SubSeq(w, 1, Len(s)) = s
  BY <1>4, <1>5, SeqEqual
<1>7. IsPrefix(s, w)
  BY <1>3, <1>6 DEF IsPrefix
<1>. QED
  BY <1>7 DEF w

\* What is queued for a browser of HTTP is a part of what it is owed.
LEMMA OutOfHttp ==
  ASSUME NEW p, IsPlan(p), NEW a, NEW o, NEW s \in Seq(Units), NEW k \in Connection, NEW in,
         HttpOK(p, a, o, s, k, in)
  PROVE  IsPrefix(s \o k.send, o)
<1>1. k.send \in Seq(Units) /\ k.file \in Nat /\ \A i \in 1..Len(p) : p[i] \in Requests
  BY SizesAssumption DEF Connection, IsPlan
<1>. DEFINE out == s \o k.send
<1>2. out \in Seq(Units)
  BY <1>1, ConcatProperties
<1>3. CASE Serving(p, a, o, s, k, in)
  <2>1. out \o Data(k.file) = o
    BY <1>3 DEF Serving
  <2>2. Data(k.file) \in Seq(Units)
    BY <1>1, DataType
  <2>. HIDE DEF out
  <2>3. IsPrefix(out, out \o Data(k.file))
    BY <1>2, <2>2, PrefixOfConcat
  <2>. QED
    BY <2>1, <2>3 DEF out
<1>4. CASE Pending(p, a, o, s, k, in)
  <2>1. s \o Reply(p[a]) = o /\ k.send = <<>> /\ a \in 1..Len(p)
    BY <1>4 DEF Pending
  <2>2. Reply(p[a]) \in Seq(Units)
    BY <1>1, <2>1, ReplyType
  <2>3. IsPrefix(s, s \o Reply(p[a]))
    BY <2>2, PrefixOfConcat
  <2>4. s \o k.send = s
    BY <2>1, ConcatEmptySeq
  <2>. QED
    BY <2>1, <2>3, <2>4
<1>. QED
  BY <1>3, <1>4 DEF HttpOK

\* The types of WebServer: the kernel holds no more for a browser than it takes, a file
\* is no longer than it is, and a connection is in one list, once, and is not used again
\* after mg_close_conn (mongoose.c:2313-2322).
THEOREM WebTypeCorrect == Spec => []TypeOK
<1>1. Inv => TypeOK
  <2>1. TypeInv => \A c \in Conns : srv[c].file \in 0..FileLen
    BY DEF TypeInv, Connection
  <2>. QED
    BY <2>1 DEF Inv, TypeInv, ListInv, TypeOK
<1>. QED
  BY <1>1, Invariance, PTL

\* server.c:85-97 and mongoose.c's handlers: a browser is sent the replies to what it
\* asked, in order and nothing else, and a page the handshake once and then frames only.
THEOREM RepliesInOrder == Spec => []RepliesThenFrames
<1>1. Inv => RepliesThenFrames
  <2>. SUFFICES ASSUME Inv, NEW c \in Conns, page[c] # "gone"
                PROVE  IF plan[c] = <<"ws">> THEN OneHandshake(Out(c))
                       ELSE IsPrefix(Out(c), owed[c])
    BY DEF RepliesThenFrames, OneHandshake
  <2>1. /\ ConnInv(c) /\ srv[c] \in Connection /\ Sent(c) \in Seq(Units)
        /\ c \in shut => srv[c] = Fresh
    BY ConcatProperties DEF Inv, TypeInv, FreshInv, Sent
  <2>2. Out(c) = Sent(c) \o srv[c].send
    BY DEF Out, Sent
  <2>3. CASE plan[c] = <<"ws">> /\ c \in shut
    <3>1. OneHandshake(Sent(c)) /\ srv[c].send = <<>>
      BY <2>1, <2>3 DEF ConnInv, Fresh
    <3>2. Out(c) = Sent(c)
      BY <2>1, <2>2, <3>1, ConcatEmptySeq
    <3>. QED
      BY <2>3, <3>1, <3>2
  <2>4. CASE plan[c] = <<"ws">> /\ c \notin shut
    <3>1. WsOK(asked[c], Sent(c), srv[c], toServer[c])
      BY <2>1, <2>4 DEF ConnInv, ConnOK
    <3>2. OneHandshake(Sent(c) \o srv[c].send) \/ (Sent(c) = <<>> /\ srv[c].send = <<>>)
      BY <3>1 DEF WsOK
    <3>3. OneHandshake(<<>> \o <<>>)
      BY DEF OneHandshake
    <3>. QED
      BY <2>2, <2>4, <3>2, <3>3
  <2>5. CASE plan[c] # <<"ws">>
    <3>1. HttpOK(plan[c], asked[c], owed[c], Sent(c), srv[c], toServer[c])
      BY <2>1, <2>5 DEF ConnInv, ConnOK
    <3>2. IsPlan(plan[c])
      BY PlansOK DEF Inv
    <3>3. IsPrefix(Sent(c) \o srv[c].send, owed[c])
      BY <2>1, <3>1, <3>2, OutOfHttp
    <3>. QED
      BY <2>2, <2>5, <3>3
  <2>. QED
    BY <2>3, <2>4, <2>5
<1>. QED
  BY <1>1, Invariance, PTL

\* mongoose.c:3938-3944: a connection the daemon closes while it runs had the whole reply
\* to all that was asked on it, however the kernel cut the writes.
THEOREM WholeReplies == Spec => []ClosedAfterReply
<1>1. Inv => ClosedAfterReply
  <2>. SUFFICES ASSUME Inv, NEW c \in shut, page[c] # "gone", plan[c] # <<"ws">>
                PROVE  Sent(c) = owed[c]
    BY DEF ClosedAfterReply, Sent
  <2>1. /\ c \in Conns /\ srv[c] = Fresh /\ toServer[c] = <<>>
    BY DEF Inv, TypeInv, FreshInv
  <2>2. ConnInv(c) /\ Sent(c) \in Seq(Units)
    BY <2>1, ConcatProperties DEF Inv, TypeInv, Sent
  <2>3. HttpOK(plan[c], asked[c], owed[c], Sent(c), Fresh, <<>>)
    BY <2>1, <2>2 DEF ConnInv, ConnOK
  <2>4. \A x : <<>> \o <<>> # <<x, x>>
    OBVIOUS
  <2>5. Serving(plan[c], asked[c], owed[c], Sent(c), Fresh, <<>>)
    BY <2>3, <2>4 DEF HttpOK, Pending, Fresh
  <2>6. Sent(c) \o <<>> \o <<>> = owed[c]
    BY <2>5, NothingLeft DEF Serving, Fresh
  <2>. QED
    BY <2>2, <2>6, ConcatEmptySeq
<1>. QED
  BY <1>1, Invariance, PTL

=============================================================================
