------------------------------- MODULE WebServer -------------------------------
(***************************************************************************)
(* The daemon's web server and the display it feeds: mongoose's poll over  *)
(* the browsers' connections, eventHandler, and the broadcast of the       *)
(* pulses after every poll in the loop of serverMain.                      *)
(*                                                                         *)
(* A request is two units of input, its head complete with the second; a   *)
(* reply is a few units of output.  A browser asks again on a connection   *)
(* only when it has the reply before, and sends frames only after the      *)
(* handshake.  How bytes become frames is module WebSocketFrames, what a   *)
(* "zero" frame does to sensor and store is module TapServer; here it sets *)
(* the pulses to 0.  The two frames of a broadcast are one unit, a number; *)
(* one with the number a page was sent last is left out, for it changes    *)
(* nothing that is shown, and so are pings to a page idle for 5 s.         *)
(***************************************************************************)
EXTENDS Naturals, FiniteSetsExt, SequencesExt

CONSTANTS
  Conns,      \* the connections browsers may make
  Plans,      \* what is asked on them: a set of functions from Conns to sequences of requests
  FileLen,    \* units of a file
  SendMbuf,   \* MG_MAX_HTTP_SEND_MBUF: a file is read while less than this is queued
  SocketCap,  \* units the kernel takes for a browser that does not read
  MaxPulses   \* bound on the pulses poured

\* What a browser asks: a websocket, the API, a file that keeps the connection alive, one
\* with "Connection: close", a file there is not, and what is no request at all.
Requests == {"ws", "api", "file", "fileClose", "missing", "bad"}

\* The reply to these ends the connection.
Closing == {"fileClose", "missing", "bad"}

\* A websocket is opened on a connection of its own, and nothing is asked on a connection
\* after a request whose reply says "Connection: close".
IsPlan(p) ==
  /\ p \in Seq(Requests)
  /\ \A i \in 1..Len(p) : /\ p[i] \in Closing => i = Len(p)
                          /\ p[i] = "ws" => p = <<"ws">>

ASSUME PlansAssumption == \A p \in Plans : \A c \in Conns : IsPlan(p[c])

ASSUME SizesAssumption == FileLen \in Nat \ {0} /\ SendMbuf \in Nat \ {0}
                            /\ SocketCap \in Nat \ {0} /\ MaxPulses \in Nat

VARIABLES
  plan,      \* the requests of this behaviour
  page,      \* browser side: "away", "open", "stalled" (never reads again), "gone"
  asked,     \* requests sent
  toServer,  \* units in the kernel for the server
  toPage,    \* units in the kernel for the browser
  seen,      \* units the browser has read
  owed,      \* history: the replies to all it has asked
  backlog,   \* connections not accepted yet
  conns,     \* active_connections without the listener, the newest first
  srv,       \* mg_connection: recv_mbuf, send_mbuf, file left, keepalive, flags
  pc,        \* "select", "handle", "accept", "close", "broadcast", "free", "left"
  todo,      \* the connections this pass over the list has not come to yet
  ready,     \* what select returned: connections to read and to write, listener to accept
  pulses,    \* flowSensorGetPulses
  poured,    \* pulses there ever were
  running,   \* serverRunning
  shut       \* history: the connections that were closed before mg_mgr_free

pageVars == <<plan, page, asked, toServer, toPage, seen, owed, backlog>>
loopVars == <<conns, pc, todo, ready, running, shut>>
vars == <<pageVars, srv, pulses, poured, loopVars>>

\* A unit of output: a part of a reply, or a frame of the broadcast.
Unit(part) == <<part, 0>>
Pulses(n) == <<"pulses", n>>
Data(n) == [i \in 1..n |-> Unit("data")]

NothingReady == [read |-> {}, write |-> {}, listener |-> FALSE]

Fresh == [recv |-> <<>>, send |-> <<>>, file |-> 0, keep |-> FALSE,
          ws |-> FALSE, sac |-> FALSE, ci |-> FALSE]

-----------------------------------------------------------------------------
(* mg_http_handler, mg_ws_handler and eventHandler, on one connection *)

\* mg_http_transfer_file_data: up to SendMbuf is queued; the end of the file closes
\* the connection, once all is sent, unless it is kept alive.
Transfer(k) ==
  LET n == IF Len(k.send) >= SendMbuf THEN 0 ELSE Min({SendMbuf - Len(k.send), k.file})
  IN  IF k.file = 0 THEN k
      ELSE [k EXCEPT !.send = @ \o Data(n),
                     !.file = @ - n,
                     !.sac = @ \/ (n = k.file /\ ~k.keep)]

\* The head and the first units of a file, or an error.
ServeFile(k, keep) ==
  Transfer([k EXCEPT !.send = Append(@, Unit("head")), !.file = FileLen, !.keep = keep])

SendError(k) == [k EXCEPT !.send = Append(@, Unit("error")), !.sac = TRUE]

ServeHttp(k, request) ==
  CASE request = "file"      -> ServeFile(k, TRUE)
    [] request = "fileClose" -> ServeFile(k, FALSE)
    [] request = "missing"   -> SendError(k)

\* handleRestApi.
RestApi(k) == [k EXCEPT !.send = @ \o <<Unit("head"), Unit("end")>>]

Handshake == <<Unit("101")>>

\* A websocket from here on; the handshake is only sent if nothing is queued.
Upgrade(k) ==
  [k EXCEPT !.ws = TRUE, !.send = IF k.sac \/ k.send # <<>> THEN @ ELSE Handshake]

Serve(k, request) ==
  CASE request = "ws"  -> Upgrade(k)
    [] request = "api" -> RestApi(k)
    [] OTHER           -> ServeHttp(k, request)

\* mg_parse_http: what is in recv_mbuf is no request, or its head is there.
Malformed(recv) == recv[1] = "bad"

HeadArrived(recv) == Len(recv) >= 2

\* Mutant of HttpReceive: only the bytes of this read are looked at.
HttpReceive_OneRead(k, units) ==
  LET t == Transfer(k)
  IN  IF Malformed(units) THEN [t EXCEPT !.ci = TRUE]
      ELSE IF ~HeadArrived(units) THEN t
      ELSE Serve(t, units[1])

\* MG_EV_RECV before the upgrade: at most one request is served, when its head is
\* there; a malformed head closes.
HttpReceive(k, units) ==
  LET t == Transfer([k EXCEPT !.recv = @ \o units])
  IN  IF Malformed(t.recv) THEN [t EXCEPT !.ci = TRUE]
      ELSE IF ~HeadArrived(t.recv) THEN t
      ELSE Serve([t EXCEPT !.recv = SubSeq(@, 3, Len(@))], t.recv[1])

\* MG_EV_RECV after it: every frame is handled.
FramesReceive(k, units) == [k EXCEPT !.sac = @ \/ \E i \in DOMAIN units : units[i] = "close"]

Receive(k, units) == IF k.ws THEN FramesReceive(k, units) ELSE HttpReceive(k, units)

\* Mutant of AtEnd: the end of the stream changes nothing.
AtEnd_Ignored(k) == k

\* recv returned 0: what is queued is still sent.
AtEnd(k) == [k EXCEPT !.sac = TRUE]

\* MG_EV_SEND after n units were written, and MG_EV_POLL.
Written(k, n) == Transfer([k EXCEPT !.send = SubSeq(@, n + 1, Len(@))])

-----------------------------------------------------------------------------
(* mg_socket_if_poll *)

\* select returns, at its timeout or as soon as a socket is ready.
Select ==
  /\ pc = "select"
  /\ ready' = [read |-> {c \in Range(conns) : toServer[c] # <<>> \/ page[c] = "gone"},
               write |-> {c \in Range(conns) : /\ srv[c].send # <<>>
                                               /\ Len(toPage[c]) < SocketCap},
               listener |-> backlog # <<>>]
  /\ todo' = conns
  /\ pc' = "handle"
  /\ UNCHANGED <<pageVars, srv, pulses, poured, conns, running, shut>>

\* The part of mg_mgr_handle_conn that writes and polls, for a connection k after its
\* read: to a browser that is gone the kernel takes all, or fails.
WriteAndPoll(c, k) ==
  IF k.ci THEN srv' = [srv EXCEPT ![c] = k] /\ UNCHANGED toPage
  ELSE IF c \notin ready.write \/ k.send = <<>>
       THEN srv' = [srv EXCEPT ![c] = Transfer(k)] /\ UNCHANGED toPage
  ELSE IF page[c] = "gone"
       THEN /\ srv' \in {[srv EXCEPT ![c] = Transfer(Written(k, Len(k.send)))],
                         [srv EXCEPT ![c] = [k EXCEPT !.ci = TRUE]]}
            /\ UNCHANGED toPage
  ELSE LET n == Min({Len(k.send), SocketCap - Len(toPage[c])})
       IN  /\ srv' = [srv EXCEPT ![c] = Transfer(Written(k, n))]
           /\ toPage' = [toPage EXCEPT ![c] = @ \o SubSeq(k.send, 1, n)]

\* mg_mgr_handle_conn for the next connection of the round.
Handle ==
  /\ pc = "handle" /\ todo # <<>>
  /\ todo' = Tail(todo)
  /\ LET c == Head(todo)
         in == toServer[c]
     IN  \/ /\ c \notin ready.read
            /\ WriteAndPoll(c, srv[c])
            /\ UNCHANGED <<toServer, pulses>>
         \/ /\ c \in ready.read /\ in # <<>>
            /\ \E n \in 1..Len(in) :
                 /\ WriteAndPoll(c, Receive(srv[c], SubSeq(in, 1, n)))
                 /\ toServer' = [toServer EXCEPT ![c] = SubSeq(in, n + 1, Len(in))]
                 /\ pulses' = IF srv[c].ws /\ \E i \in 1..n : in[i] = "zero" THEN 0 ELSE pulses
         \* The browser closed it: recv returns 0, or an error.
         \/ /\ c \in ready.read /\ in = <<>>
            /\ \/ WriteAndPoll(c, AtEnd(srv[c]))
               \/ WriteAndPoll(c, [srv[c] EXCEPT !.ci = TRUE])
            /\ UNCHANGED <<toServer, pulses>>
  /\ UNCHANGED <<plan, page, asked, seen, owed, backlog, poured, conns, pc, ready, running, shut>>

\* The listener is the last of the list: one connection is accepted, at the head of
\* the list, and not handled in this round.
Accept ==
  /\ pc = "handle" /\ todo = <<>>
  /\ pc' = "close"
  /\ ready' = NothingReady
  /\ IF ready.listener
     THEN /\ conns' = <<Head(backlog)>> \o conns
          /\ srv' = [srv EXCEPT ![Head(backlog)] = Fresh]
          /\ backlog' = Tail(backlog)
     ELSE UNCHANGED <<conns, srv, backlog>>
  /\ todo' = conns'
  /\ UNCHANGED <<plan, page, asked, toServer, toPage, seen, owed, pulses, poured,
                 running, shut>>

\* Mutant of Closes: a connection is closed with its last output still queued.
Closes_Unsent(k) == k.ci \/ k.sac

Closes(k) == k.ci \/ (k.send = <<>> /\ k.sac)

\* mg_remove_conn.
RemoveConn(c) == \E i \in DOMAIN conns : conns[i] = c /\ conns' = RemoveAt(conns, i)

\* Mutant of Close: the connection is destroyed and stays in the list.
Close_StaysListed ==
  /\ pc = "close" /\ todo # <<>>
  /\ todo' = Tail(todo)
  /\ LET c == Head(todo)
     IN  IF Closes(srv[c])
         THEN /\ shut' = shut \cup {c}
              /\ srv' = [srv EXCEPT ![c] = Fresh]
              /\ toServer' = [toServer EXCEPT ![c] = <<>>]
         ELSE UNCHANGED <<shut, srv, toServer>>
  /\ UNCHANGED <<plan, page, asked, toPage, seen, owed, backlog, conns, pc, pulses, poured,
                 ready, running>>

\* The second pass over the list: mg_close_conn for the next connection of it.
Close ==
  /\ pc = "close" /\ todo # <<>>
  /\ todo' = Tail(todo)
  /\ LET c == Head(todo)
     IN  IF Closes(srv[c])
         THEN /\ RemoveConn(c)
              /\ shut' = shut \cup {c}
              /\ srv' = [srv EXCEPT ![c] = Fresh]
              /\ toServer' = [toServer EXCEPT ![c] = <<>>]
         ELSE UNCHANGED <<conns, shut, srv, toServer>>
  /\ UNCHANGED <<plan, page, asked, toPage, seen, owed, backlog, pc, pulses, poured,
                 ready, running>>

\* mg_mgr_poll returns, to the loop of serverMain or to mg_mgr_free.
PollReturns ==
  /\ pc = "close" /\ todo = <<>>
  /\ pc' = IF running THEN "broadcast" ELSE "free"
  /\ UNCHANGED <<pageVars, srv, pulses, poured, conns, todo, ready, running, shut>>

-----------------------------------------------------------------------------
(* serverMain *)

Out(c) == seen[c] \o toPage[c] \o srv[c].send

\* Mutant of IsPage: the flag is not looked at.
IsPage_Any(c) == TRUE

\* The flag 0x100, MG_F_IS_WEBSOCKET.
IsPage(c) == srv[c].ws

\* Mutant of Broadcast: nothing is sent while there are no pulses.
Broadcast_NotZero ==
  /\ pc = "broadcast"
  /\ pc' = "select"
  /\ srv' = [c \in Conns |->
               IF /\ c \in Range(conns) /\ IsPage(c) /\ pulses > 0
                  /\ Out(c) = <<>> \/ Last(Out(c))[2] # pulses
               THEN [srv[c] EXCEPT !.send = Append(@, Pulses(pulses))]
               ELSE srv[c]]
  /\ UNCHANGED <<pageVars, pulses, poured, conns, todo, ready, running, shut>>

\* BROADCAST_DELAY has passed.  A connection about to be closed is sent to as well.
Broadcast ==
  /\ pc = "broadcast"
  /\ pc' = "select"
  /\ srv' = [c \in Conns |->
               IF /\ c \in Range(conns) /\ IsPage(c)
                  /\ Out(c) = <<>> \/ Last(Out(c))[2] # pulses
               THEN [srv[c] EXCEPT !.send = Append(@, Pulses(pulses))]
               ELSE srv[c]]
  /\ UNCHANGED <<pageVars, pulses, poured, conns, todo, ready, running, shut>>

NoBroadcast ==
  /\ pc = "broadcast"
  /\ pc' = "select"
  /\ UNCHANGED <<pageVars, srv, pulses, poured, conns, todo, ready, running, shut>>

\* serverQuit, as the loop's test sees it; the poll that follows is the last one, of mg_mgr_free.
Quit ==
  /\ running /\ pc = "select"
  /\ running' = FALSE
  /\ UNCHANGED <<pageVars, srv, pulses, poured, conns, pc, todo, ready, shut>>

\* The rest of mg_mgr_free: every connection is closed, with what is queued for it.
Free ==
  /\ pc = "free"
  /\ pc' = "left"
  /\ conns' = <<>>
  /\ UNCHANGED <<pageVars, srv, pulses, poured, todo, ready, running, shut>>

-----------------------------------------------------------------------------
(* Browsers, and the tap *)

Reply(request) ==
  CASE request = "ws" -> <<Unit("101")>>
    [] request = "api" -> <<Unit("head"), Unit("end")>>
    [] request \in {"file", "fileClose"} ->
         <<Unit("head")>> \o Data(FileLen)
    [] request = "missing" -> <<Unit("error")>>
    [] request = "bad" -> <<>>

\* What glass.js shows: 0, until the first frame.
Shown(c) == IF seen[c] = <<>> THEN 0 ELSE Last(seen[c])[2]

\* The first connection a page makes, and the first half of its first request.
Connect(c) ==
  /\ page[c] = "away" /\ pc # "left"
  /\ page' = [page EXCEPT ![c] = "open"]
  /\ backlog' = Append(backlog, c)
  /\ UNCHANGED <<plan, asked, toServer, toPage, seen, owed, srv, pulses, poured, loopVars>>

\* The next request, on a connection that is not closed.
Ask(c) ==
  /\ page[c] = "open" /\ c \notin shut /\ pc # "left"
  /\ asked[c] < Len(plan[c])
  /\ Len(seen[c]) = Len(owed[c])
  /\ asked' = [asked EXCEPT ![c] = @ + 1]
  /\ LET request == plan[c][asked[c] + 1]
     IN  /\ toServer' = [toServer EXCEPT ![c] = @ \o <<request, request>>]
         /\ owed' = [owed EXCEPT ![c] = @ \o Reply(request)]
  /\ UNCHANGED <<plan, page, toPage, seen, backlog, srv, pulses, poured, loopVars>>

PageRead(c) ==
  /\ page[c] = "open" /\ toPage[c] # <<>>
  /\ seen' = [seen EXCEPT ![c] = Append(@, Head(toPage[c]))]
  /\ toPage' = [toPage EXCEPT ![c] = Tail(@)]
  /\ UNCHANGED <<plan, page, asked, toServer, owed, backlog, srv, pulses, poured, loopVars>>

\* A page sends the frame "zero", or a close frame and then nothing more.
SendFrame(c) ==
  /\ page[c] = "open" /\ c \notin shut /\ pc # "left"
  /\ plan[c] = <<"ws">> /\ seen[c] # <<>> /\ toServer[c] = <<>>
  /\ ~srv[c].sac
  /\ \/ Shown(c) > 0 /\ toServer' = [toServer EXCEPT ![c] = <<"zero">>]
     \/ toServer' = [toServer EXCEPT ![c] = <<"close">>]
  /\ UNCHANGED <<plan, page, asked, toPage, seen, owed, backlog, srv, pulses, poured, loopVars>>

\* A browser stops reading for good; or it goes away, and what it had not read with it.
Stall(c) ==
  /\ page[c] = "open" /\ pc # "left"
  /\ page' = [page EXCEPT ![c] = "stalled"]
  /\ UNCHANGED <<plan, asked, toServer, toPage, seen, owed, backlog, srv, pulses, poured, loopVars>>

Leave(c) ==
  /\ page[c] \in {"open", "stalled"} /\ pc # "left"
  /\ page' = [page EXCEPT ![c] = "gone"]
  /\ toPage' = [toPage EXCEPT ![c] = <<>>]
  /\ seen' = [seen EXCEPT ![c] = <<>>]
  /\ UNCHANGED <<plan, asked, toServer, owed, backlog, srv, pulses, poured, loopVars>>

Pour ==
  /\ poured < MaxPulses /\ pc # "left"
  /\ poured' = poured + 1 /\ pulses' = pulses + 1
  /\ UNCHANGED <<pageVars, srv, loopVars>>

-----------------------------------------------------------------------------

Init ==
  /\ plan \in Plans
  /\ page = [c \in Conns |-> "away"] /\ asked = [c \in Conns |-> 0]
  /\ toServer = [c \in Conns |-> <<>>] /\ toPage = [c \in Conns |-> <<>>]
  /\ seen = [c \in Conns |-> <<>>] /\ owed = [c \in Conns |-> <<>>] /\ backlog = <<>>
  /\ conns = <<>> /\ srv = [c \in Conns |-> Fresh]
  /\ pc = "select" /\ todo = <<>>
  /\ ready = NothingReady
  /\ pulses = 0 /\ poured = 0 /\ running = TRUE /\ shut = {}

Loop == Select \/ Handle \/ Accept \/ Close \/ PollReturns \/ Broadcast \/ NoBroadcast \/ Free

Browser(c) == Connect(c) \/ Ask(c) \/ PageRead(c) \/ SendFrame(c) \/ Stall(c) \/ Leave(c)

Next == Loop \/ Quit \/ Pour \/ \E c \in Conns : Browser(c)

(***************************************************************************)
(* Fairness.  The main thread goes round its loop (no client of the        *)
(* daemon's socket holds it up, see TapServer), and each round takes       *)
(* processor time, so BROADCAST_DELAY passes again and again (strong).     *)
(* A browser that has not stalled reads.                                   *)
(***************************************************************************)
Spec ==
  /\ Init /\ [][Next]_vars
  /\ WF_vars(Loop) /\ SF_vars(Broadcast)
  /\ \A c \in Conns : WF_vars(PageRead(c))

-----------------------------------------------------------------------------
(* Properties *)

TypeOK ==
  /\ page \in [Conns -> {"away", "open", "stalled", "gone"}]
  /\ \A c \in Conns : Len(toPage[c]) <= SocketCap /\ srv[c].file \in 0..FileLen
  /\ Range(conns) \cap Range(backlog) = {} /\ Range(conns) \cap shut = {}
  /\ IsInjective(conns) /\ IsInjective(backlog)
  /\ pulses <= poured

\* What a browser is sent is the replies to its requests, in order and whole units
\* of them at a time; a page is sent frames after the handshake, never before or
\* instead of it, and no other connection gets any.
RepliesThenFrames ==
  \A c \in Conns : page[c] # "gone" =>
    IF plan[c] = <<"ws">>
    THEN \A i \in DOMAIN Out(c) : (Out(c)[i] = Unit("101")) = (i = 1)
    ELSE IsPrefix(Out(c), owed[c])

\* A connection that the daemon closes while it runs, with the browser still there,
\* was given the whole reply to all it asked: partial writes, a file longer than
\* SendMbuf and errors included, and before a malformed request too.
ClosedAfterReply ==
  \A c \in shut :
    (page[c] # "gone" /\ plan[c] # <<"ws">>) => seen[c] \o toPage[c] = owed[c]

\* A browser that reads and stays gets its replies, whatever the others do and however
\* slowly they read, as long as the daemon runs.
RequestsAnswered ==
  \A c \in Conns :
    asked[c] > 0 ~> \/ Len(seen[c]) >= Len(owed[c]) \/ page[c] # "open" \/ ~running

\* When the pouring has stopped, every page that stays connected comes to show the
\* sensor's total and keeps to it.
DisplayCatchesUp ==
  \A c \in Conns :
    <>[](page[c] = "open" /\ running /\ seen[c] # <<>> /\ c \notin shut /\ ~srv[c].sac
          /\ plan[c] = <<"ws">>)
      => <>[](Shown(c) = pulses)

\* A browser that went away is forgotten: its connection leaves the list, so that
\* nothing more is queued for it.
LeftIsForgotten ==
  \A c \in Conns : page[c] = "gone" ~> (c \in shut \/ ~running)

=============================================================================
