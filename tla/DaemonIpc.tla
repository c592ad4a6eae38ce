------------------------------ MODULE DaemonIpc ------------------------------
(***************************************************************************)
(* The command line client (main.c), the socket between it and the daemon, *)
(* and handleDaemonRequest (server.c) with its unchecked, blocking reads.  *)
(*                                                                         *)
(* A client writes a request in pieces: header, type and, for an add, a    *)
(* rename or a remove, the data.  It may die before any of them, and but   *)
(* for a list it waits for no answer.  What the handlers do to the brews   *)
(* is module BrewList's, which DataStore implements.                       *)
(*                                                                         *)
(* External: a connection waits in the socket's queue, in the order of the *)
(* connects; a piece, the longest list included, is written and read as a  *)
(* whole; a read waits for a piece or for the end of the stream; at the    *)
(* end of the stream it leaves the buffer as it was, uninitialised.        *)
(***************************************************************************)
EXTENDS BrewList

CONSTANTS
  Clients,   \* processes of the client, each of which runs once
  Commands,  \* what they are started with: records like BrewList's requests
  Nobody     \* no client

Calls == {"help", "stop", "list", "add", "rename", "remove"}

ASSUME DaemonIpcAssumption ==
  /\ Nobody \notin Clients
  /\ \A r \in Commands :
       /\ r.call \in Calls
       /\ r.call \in {"help", "stop", "list"} => r = [call |-> r.call]
       /\ r.call = "add" => r.brew \in Brews
       /\ r.call = "rename" => r.index \in 0 .. (Cap - 1) /\ r.name \in Names
       /\ r.call = "remove" => r.index \in 0 .. (Cap - 1)

VARIABLES
  cmd,      \* the command of each client
  state,    \* a client's: "new", "write", "wait" for a list, "gone"
  sent,     \* the number of pieces it wrote
  queue,    \* connections not yet accepted
  client,   \* the accepted one, or Nobody
  at,       \* where the daemon is: "down", "accept", "header", "type", one of
            \* Calls for the cases of the switch, "brews", "left"
  running,  \* serverRunning
  header    \* a header was read: the buffer of a later read may hold it

VARIABLES   \* history
  done,     \* for each client, the request the daemon carried out for it
  earlier   \* for each client, those that were gone when it connected

clients == <<cmd, state, sent, earlier>>
daemon  == <<client, at, running, header, done>>
ipcVars == <<vars, clients, queue, daemon>>

None == [call |-> "none"]

\* The number of pieces a request has.
Pieces(r) == CASE r.call = "help" -> 0
               [] r.call \in {"stop", "list"} -> 2
               [] OTHER -> 3

\* The client's request is complete.
Whole(c) == sent[c] = Pieces(cmd[c])

-----------------------------------------------------------------------------
(* The client *)

Connect(c, r) ==
  /\ up /\ state[c] = "new"
  /\ cmd' = [cmd EXCEPT ![c] = r]
  /\ state' = [state EXCEPT ![c] = "write"]
  /\ queue' = Append(queue, c)
  /\ earlier' = [earlier EXCEPT ![c] = {d \in Clients : state[d] = "gone"}]
  /\ UNCHANGED <<vars, sent, daemon>>

\* The daemon has not closed the connection of c.
Open(c) == c = client \/ \E i \in DOMAIN queue : queue[i] = c

\* A write to a connection that is closed kills the client (SIGPIPE).
WritePiece(c) ==
  /\ state[c] = "write" /\ ~Whole(c)
  /\ IF Open(c) THEN /\ sent' = [sent EXCEPT ![c] = @ + 1]
                     /\ UNCHANGED state
                ELSE /\ state' = [state EXCEPT ![c] = "gone"]
                     /\ UNCHANGED sent
  /\ UNCHANGED <<vars, cmd, earlier, queue, daemon>>

\* Mutant of Return: each command waits for an answer.
Return_Waits(c) ==
  /\ state[c] = "write" /\ Whole(c)
  /\ state' = [state EXCEPT ![c] = "wait"]
  /\ UNCHANGED <<vars, cmd, sent, earlier, queue, daemon>>

Return(c) ==
  /\ state[c] = "write" /\ Whole(c)
  /\ state' = [state EXCEPT ![c] = IF cmd[c].call = "list" THEN "wait" ELSE "gone"]
  /\ UNCHANGED <<vars, cmd, sent, earlier, queue, daemon>>

\* The list is printed.  When the daemon closed the connection without an answer
\* it is whatever numBrews and the brews were before the reads.
PrintList(c) ==
  /\ state[c] = "wait"
  /\ done[c].call = "list" \/ ~Open(c)
  /\ state' = [state EXCEPT ![c] = "gone"]
  /\ UNCHANGED <<vars, cmd, sent, earlier, queue, daemon>>

Die(c) ==
  /\ state[c] \in {"write", "wait"}
  /\ state' = [state EXCEPT ![c] = "gone"]
  /\ UNCHANGED <<vars, cmd, sent, earlier, queue, daemon>>

-----------------------------------------------------------------------------
(* The daemon *)

\* The k-th piece is there to be read; it will never be.
Got(k) == sent[client] >= k
Eof(k) == state[client] = "gone" /\ sent[client] < k

\* Mutant of Finish: the connection is not closed.
Finish_NoClose(goesOn) ==
  /\ at' = IF goesOn THEN "accept" ELSE "left"
  /\ UNCHANGED client

\* handleDaemonRequest returns and the loop looks at serverRunning.
Finish(goesOn) ==
  /\ at' = IF goesOn THEN "accept" ELSE "left"
  /\ client' = Nobody

\* Request r is carried out for the accepted client.
Carry(r) == done' = [done EXCEPT ![client] = r]

StartDaemon ==
  /\ at = "down" /\ up' = TRUE /\ Start
  /\ at' = "accept"
  /\ UNCHANGED <<clients, queue, client, running, header, done>>

Accept ==
  /\ at = "accept" /\ queue # <<>>
  /\ client' = Head(queue)
  /\ queue' = Tail(queue)
  /\ at' = "header"
  /\ UNCHANGED <<vars, clients, running, header, done>>

\* A round of the loop without a client.
NoClient ==
  /\ at = "accept" /\ queue = <<>>
  /\ Finish(running)
  /\ UNCHANGED <<vars, clients, queue, running, header, done>>

\* Mutant of TestHeader: no header matches.
TestHeader_Mismatch ==
  /\ at = "header" /\ (Got(1) \/ Eof(1))
  /\ Finish(running)
  /\ UNCHANGED <<vars, clients, queue, running, header, done>>

TestHeader ==
  /\ at = "header"
  /\ \/ Got(1) /\ at' = "type" /\ header' = TRUE /\ UNCHANGED client
     \/ Eof(1) /\ header /\ at' = "type" /\ UNCHANGED <<client, header>>
     \/ Eof(1) /\ Finish(running) /\ UNCHANGED header
  /\ UNCHANGED <<vars, clients, queue, running, done>>

\* The types that no case is for are "help" here.
ReadType ==
  /\ at = "type"
  /\ \/ Got(2) /\ at' = cmd[client].call
     \/ Eof(2) /\ at' \in Calls
  /\ UNCHANGED <<vars, clients, queue, client, running, header, done>>

NoRequest ==
  /\ at = "help"
  /\ Finish(running)
  /\ UNCHANGED <<vars, clients, queue, running, header, done>>

Quit ==
  /\ at = "stop"
  /\ running' = FALSE
  /\ Carry([call |-> "stop"])
  /\ Finish(FALSE)
  /\ UNCHANGED <<vars, clients, queue, header>>

Edits(r) ==
  \/ r.call = "add" /\ Add(r.brew)
  \/ r.call = "rename" /\ Rename(r.index, r.name)
  \/ r.call = "remove" /\ Remove(r.index)

\* What a case finds in its data without a read.
Junk(case) ==
  CASE case = "add"    -> [call : {case}, brew : Brews]
    [] case = "rename" -> [call : {case}, index : 0 .. (Cap - 1), name : Names]
    [] OTHER           -> [call : {case}, index : 0 .. (Cap - 1)]

\* Mutant of Data: what is read ends up somewhere else.
Data_Unread(case) == Junk(case)

Data(case) == IF Got(3) THEN {cmd[client]} ELSE Junk(case)

\* Mutant of EditBrews: nothing is edited for a client that is gone.
EditBrews_OnlyPresent ==
  /\ at \in {"add", "rename", "remove"}
  /\ IF at = "rename" THEN state[client] = "gone" ELSE Got(3) \/ Eof(3)
  /\ IF state[client] = "gone" THEN UNCHANGED <<vars, done>>
                              ELSE \E r \in Data(at) : Edits(r) /\ Carry(r)
  /\ Finish(running)
  /\ UNCHANGED <<clients, queue, running, header>>

\* Add, rename and remove.  The rename goes on into the remove, whose read
\* returns at the end of the stream.
EditBrews ==
  /\ at \in {"add", "rename", "remove"}
  /\ IF at = "rename" THEN state[client] = "gone" ELSE Got(3) \/ Eof(3)
  /\ \E r \in Data(at) : Edits(r) /\ Carry(r)
  /\ Finish(running)
  /\ UNCHANGED <<clients, queue, running, header>>

\* The answer to a list: the number of brews, then the brews.
WriteCount ==
  /\ at = "list"
  /\ at' = "brews"
  /\ UNCHANGED <<vars, clients, queue, client, running, header, done>>

WriteBrews ==
  /\ at = "brews"
  /\ Carry([call |-> "list"])
  /\ Finish(running)
  /\ UNCHANGED <<vars, clients, queue, running, header>>

Sigterm ==
  /\ up /\ running
  /\ running' = FALSE
  /\ UNCHANGED <<vars, clients, queue, client, at, header, done>>

\* The socket is closed, its connections with it, and the brews are saved.
Leave ==
  /\ at = "left" /\ up' = FALSE /\ damaged' = FALSE /\ Stop
  /\ at' = "down" /\ queue' = <<>>
  /\ UNCHANGED <<clients, client, running, header, done>>

CrashDaemon ==
  /\ up' = FALSE /\ Crash
  /\ at' = "down" /\ queue' = <<>> /\ client' = Nobody
  /\ running' = FALSE
  /\ UNCHANGED <<clients, header, done>>

\* Nothing is left to do.
Over ==
  /\ ~up /\ ~running /\ \A c \in Clients : state[c] \in {"new", "gone"}
  /\ UNCHANGED ipcVars

-----------------------------------------------------------------------------

IpcInit ==
  /\ up = FALSE /\ damaged = FALSE /\ Init
  /\ cmd = [c \in Clients |-> None] /\ state = [c \in Clients |-> "new"]
  /\ sent = [c \in Clients |-> 0] /\ queue = <<>> /\ client = Nobody
  /\ at = "down" /\ running = TRUE /\ header = FALSE
  /\ done = [c \in Clients |-> None] /\ earlier = [c \in Clients |-> {}]

Client(c) == WritePiece(c) \/ Return(c) \/ PrintList(c)

\* One life of the daemon.
Daemon ==
  \/ running /\ StartDaemon
  \/ Accept \/ NoClient \/ TestHeader \/ ReadType \/ NoRequest \/ Quit
  \/ EditBrews \/ WriteCount \/ WriteBrews \/ Leave

IpcNext ==
  \/ \E c \in Clients : Client(c) \/ Die(c) \/ \E r \in Commands : Connect(c, r)
  \/ Daemon \/ Sigterm \/ CrashDaemon \/ Over

IpcSpec == IpcInit /\ [][IpcNext]_ipcVars

(***************************************************************************)
(* Fairness: the daemon's thread and each client run on where they do not  *)
(* wait; nobody has to connect, die, crash or be sent a signal.            *)
(***************************************************************************)
FairIpcSpec ==
  /\ IpcSpec
  /\ WF_ipcVars(Daemon)
  /\ \A c \in Clients : WF_ipcVars(Client(c))

-----------------------------------------------------------------------------
(* Properties *)

IpcTypeOK ==
  /\ cmd \in [Clients -> Commands \cup {None}]
  /\ state \in [Clients -> {"new", "write", "wait", "gone"}]
  /\ sent \in [Clients -> 0 .. 3]
  /\ queue \in Seq(Clients)
  /\ client \in Clients \cup {Nobody}
  /\ at \in Calls \cup {"down", "accept", "header", "type", "brews", "left"}
  /\ client # Nobody <=> at \notin {"down", "accept", "left"}
  /\ running \in BOOLEAN /\ header \in BOOLEAN
  /\ earlier \in [Clients -> SUBSET Clients]

\* A request that was sent whole is carried out as it was sent or not at all,
\* whatever the ones before it left on the daemon's stack: its pieces are read in
\* step with the client's writes.
CarriedAsSent ==
  \A c \in Clients :
    cmd[c].call \notin {"none", "help"} /\ Whole(c) => done[c] \in {None, cmd[c]}

\* A list shows the edits of every client that had returned before the one that asks
\* connected, though clients do not wait for their edits: each that was sent whole has
\* been carried out, as it was sent, when the daemon comes to answer the list.
ListHasEarlierEdits ==
  at \in {"list", "brews"} =>
    \A d \in earlier[client] :
      cmd[d].call \in {"add", "rename", "remove"} /\ Whole(d) => done[d] = cmd[d]

\* Whoever connects is not left waiting, whatever the clients before it sent or
\* failed to send, and whether the daemon serves, stops or crashes meanwhile.
ClientsReturn == \A c \in Clients : state[c] # "new" ~> state[c] = "gone"

\* A client that has sent its whole request and is there to be served is served,
\* unless the daemon stops or crashes first.
WholeIsServed ==
  \A c \in Clients :
    (state[c] # "new" /\ cmd[c].call # "help" /\ Whole(c)) ~> (done[c] # None \/ ~running)

\* daemon_ipc.h:4, "To prevent junk getting sent to our server, require a header
\* on each request": each edit of the brews is one that its client sent whole.
NoJunk ==
  \A c \in Clients : done[c].call \in {"add", "rename", "remove"} => done[c] = cmd[c]

=============================================================================
