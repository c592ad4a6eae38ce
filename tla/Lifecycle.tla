------------------------------ MODULE Lifecycle ------------------------------
(***************************************************************************)
(* Starts and stops of the program: main.c from its first connect to its   *)
(* last return, for any number of processes that share the working         *)
(* directory, with the socket file and brew.db in it.                      *)
(*                                                                         *)
(* A process that reaches a listening socket is a client.  Any other one   *)
(* goes on as a daemon, whatever its arguments are, and looks at none of   *)
(* the results of bind, listen and chmod.  Parent and child of the fork    *)
(* are one process here: the parent exits at once.                         *)
(*                                                                         *)
(* External: connect succeeds when the file names a socket that listens,   *)
(* bind fails when the file exists, and pigpio initialises for one process *)
(* at a time and lets go of it when that process ends.                     *)
(*                                                                         *)
(* Of the brew list there is a number here, new with each edit.            *)
(***************************************************************************)
EXTENDS Integers

CONSTANTS
  Procs,     \* processes that may run; one that ended may start again
  MaxEdits,  \* bound on the edits of a behaviour
  Nobody,    \* no peer
  NoFile, Stale,  \* socket file: none; one whose socket is closed
  Torn       \* content of brew.db while it is written

ASSUME LifecycleAssumption ==
  /\ MaxEdits \in Nat
  /\ {Nobody, NoFile, Stale} \cap Procs = {} /\ NoFile # Stale
  /\ Torn \notin Nat

VARIABLES
  pc,    \* where main is in each process
  sock,  \* a process's socket: "new", "bound", "listening" or "closed"
  peer,  \* the process a client is connected to, Nobody of another process
  stop,  \* ~serverRunning
  mem,   \* the list in a daemon's memory
  file,  \* the process whose socket the socket file names
  disk   \* the list in brew.db

VARIABLES   \* history
  edits,  \* number of edits
  kept    \* the list that the next daemon has to find

vars == <<pc, sock, peer, stop, mem, file, disk, edits, kept>>

Steps == {"off", "client", "bind", "listen", "sensor", "load", "handler", "web",
          "serve", "close", "unlink", "open", "write", "exit"}

\* From the end of flowSensorInit to the exit a process has the sensor ...
HasSensor(p) == pc[p] \in {"load", "handler", "web", "serve", "close", "unlink",
                           "open", "write", "exit"}
\* ... and from the end of dataStoreInit the brew list.
HasList(p) == HasSensor(p) /\ pc[p] # "load"

\* A connect would reach process p.
Reachable(p) == file = p /\ sock[p] = "listening"

\* Process p goes from one step of main to the next.
Go(p, from, to) == pc[p] = from /\ pc' = [pc EXCEPT ![p] = to]

\* The socket of p is closed: its clients are reset and end, its file is stale.
Hangup(p, to) ==
  /\ pc' = [q \in Procs |-> IF q = p THEN to ELSE IF peer[q] = p THEN "off" ELSE pc[q]]
  /\ peer' = [q \in Procs |-> IF peer[q] = p THEN Nobody ELSE peer[q]]
  /\ sock' = [sock EXCEPT ![p] = "closed"]
  /\ file' = IF file = p THEN Stale ELSE file

Ends(p) ==
  /\ Hangup(p, "off")
  /\ stop' = [stop EXCEPT ![p] = FALSE]
  /\ mem' = [mem EXCEPT ![p] = 0]
  /\ UNCHANGED <<disk, edits>>

-----------------------------------------------------------------------------
(* Client or daemon *)

RunClient(p, d) ==
  /\ Reachable(d)
  /\ Go(p, "off", "client")
  /\ peer' = [peer EXCEPT ![p] = d]
  /\ UNCHANGED <<sock, stop, mem, file, disk, edits, kept>>

RunDaemon(p) ==
  /\ ~ \E d \in Procs : Reachable(d)
  /\ Go(p, "off", "bind")
  /\ sock' = [sock EXCEPT ![p] = "new"]
  /\ UNCHANGED <<peer, stop, mem, file, disk, edits, kept>>

\* Mutant of Bind: a leftover file is removed first.
Bind_UnlinksFirst(p) ==
  /\ Go(p, "bind", "listen")
  /\ file' = p
  /\ sock' = [sock EXCEPT ![p] = "bound"]
  /\ UNCHANGED <<peer, stop, mem, disk, edits, kept>>

Bind(p) ==
  /\ Go(p, "bind", "listen")
  /\ IF file = NoFile
       THEN file' = p /\ sock' = [sock EXCEPT ![p] = "bound"]
       ELSE UNCHANGED <<file, sock>>
  /\ UNCHANGED <<peer, stop, mem, disk, edits, kept>>

Listen(p) ==
  /\ Go(p, "listen", "sensor")
  /\ sock' = [sock EXCEPT ![p] = IF @ = "bound" THEN "listening" ELSE @]
  /\ UNCHANGED <<peer, stop, mem, file, disk, edits, kept>>

-----------------------------------------------------------------------------
(* The daemon's inits, its work and its end *)

\* Mutant of InitSensor: the result of flowSensorInit is not looked at.
InitSensor_Unchecked(p) ==
  /\ Go(p, "sensor", "load")
  /\ UNCHANGED <<sock, peer, stop, mem, file, disk, edits, kept>>

InitSensor(p) ==
  /\ \A q \in Procs : ~HasSensor(q)
  /\ Go(p, "sensor", "load")
  /\ UNCHANGED <<sock, peer, stop, mem, file, disk, edits, kept>>

\* Mutant of InitFails: it waits for the sensor instead of returning.
InitFails_Waits(p) == pc[p] = "sensor" /\ UNCHANGED vars

\* flowSensorInit fails, as it does while another process has the sensor, and
\* main returns: nobody removes the socket file.
InitFails(p) == pc[p] = "sensor" /\ Ends(p) /\ UNCHANGED kept

Load(p) ==
  /\ Go(p, "load", "handler")
  /\ \E n \in 0 .. edits :
       /\ disk # Torn => n = disk
       /\ mem' = [mem EXCEPT ![p] = n]
       /\ kept' = IF disk = Torn THEN n ELSE kept
  /\ UNCHANGED <<sock, peer, stop, file, disk, edits>>

SetHandler(p) ==
  /\ Go(p, "handler", "web")
  /\ UNCHANGED <<sock, peer, stop, mem, file, disk, edits, kept>>

\* mg_bind gives a connection ...
OpenWeb(p) ==
  /\ Go(p, "web", "serve")
  /\ UNCHANGED <<sock, peer, stop, mem, file, disk, edits, kept>>

\* The brew list of p is edited, by a web page or for a client.
Edit(p) ==
  /\ edits < MaxEdits
  /\ edits' = edits + 1
  /\ mem' = [mem EXCEPT ![p] = edits + 1]
  /\ kept' = edits + 1

WebEdit(p) == pc[p] = "serve" /\ Edit(p) /\ UNCHANGED <<pc, sock, peer, stop, file, disk>>

\* Mutant of Serve: the accepted socket is not closed.
Serve_NoClose(d, c) ==
  /\ pc[d] = "serve" /\ peer[c] = d
  /\ pc' = [pc EXCEPT ![c] = "off"]
  /\ UNCHANGED <<sock, peer, stop, mem, file, disk, edits, kept>>

\* The daemon serves a client: an edit, a --stop, or something that changes nothing.
Serve(d, c) ==
  /\ pc[d] = "serve" /\ peer[c] = d
  /\ pc' = [pc EXCEPT ![c] = "off"]
  /\ peer' = [peer EXCEPT ![c] = Nobody]
  /\ \/ Edit(d) /\ UNCHANGED stop
     \/ stop' = [stop EXCEPT ![d] = TRUE] /\ UNCHANGED <<mem, edits, kept>>
     \/ UNCHANGED <<stop, mem, edits, kept>>
  /\ UNCHANGED <<sock, file, disk>>

\* The loop is left and mg_mgr_free done.
Leave(p) ==
  /\ stop[p]
  /\ Go(p, "serve", "close")
  /\ UNCHANGED <<sock, peer, stop, mem, file, disk, edits, kept>>

Close(p) ==
  /\ pc[p] = "close" /\ Hangup(p, "unlink")
  /\ UNCHANGED <<stop, mem, disk, edits, kept>>

\* unlink removes what the path names, be it the file of another process.
Unlink(p) ==
  /\ Go(p, "unlink", "open")
  /\ file' = NoFile
  /\ UNCHANGED <<sock, peer, stop, mem, disk, edits, kept>>

SaveOpen(p) ==
  /\ Go(p, "open", "write")
  /\ disk' = Torn
  /\ UNCHANGED <<sock, peer, stop, mem, file, edits, kept>>

SaveDone(p) ==
  /\ Go(p, "write", "exit")
  /\ disk' = mem[p]
  /\ UNCHANGED <<sock, peer, stop, mem, file, edits, kept>>

Exit(p) == pc[p] = "exit" /\ Ends(p) /\ UNCHANGED kept

-----------------------------------------------------------------------------
(* Signals and faults *)

\* SIGTERM once main has installed its handler ...
Sigterm(p) ==
  /\ pc[p] \in {"web", "serve"} /\ ~stop[p]
  /\ stop' = [stop EXCEPT ![p] = TRUE]
  /\ UNCHANGED <<pc, sock, peer, mem, file, disk, edits, kept>>

\* ... and before that.  It costs no edit; a list read from a torn file is read anew.
Killed(p) ==
  /\ pc[p] \in {"bind", "listen", "sensor", "load", "handler"}
  /\ Ends(p)
  /\ kept' = IF HasList(p) /\ disk = Torn THEN Torn ELSE kept

\* The process dies: what counts from then on is what is on the disk.
Dies(p) ==
  /\ Ends(p)
  /\ kept' = IF HasSensor(p) THEN disk ELSE kept

\* The port is taken, mg_bind gives NULL and mg_set_protocol_http_websocket
\* writes through it.
WebFails(p) == pc[p] = "web" /\ Dies(p)

Crash(p) == pc[p] \notin {"off", "client"} /\ Dies(p)

-----------------------------------------------------------------------------

Init ==
  /\ pc = [p \in Procs |-> "off"] /\ sock = [p \in Procs |-> "closed"]
  /\ peer = [p \in Procs |-> Nobody]
  /\ stop = [p \in Procs |-> FALSE] /\ mem = [p \in Procs |-> 0]
  /\ file = NoFile /\ disk = 0 /\ edits = 0 /\ kept = 0

\* What main does by itself once it runs.
MainStep(p) ==
  \/ Bind(p) \/ Listen(p) \/ InitSensor(p) \/ InitFails(p) \/ Load(p) \/ SetHandler(p)
  \/ OpenWeb(p) \/ Leave(p) \/ Close(p) \/ Unlink(p) \/ SaveOpen(p) \/ SaveDone(p)
  \/ Exit(p)

Step(p) ==
  \/ RunDaemon(p) \/ MainStep(p) \/ WebEdit(p)
  \/ Sigterm(p) \/ Killed(p) \/ WebFails(p) \/ Crash(p)

Next == \E p \in Procs : Step(p) \/ \E q \in Procs : RunClient(p, q) \/ Serve(p, q)

Spec == Init /\ [][Next]_vars

(***************************************************************************)
(* Fairness: main takes its steps, and a daemon that serves comes round to *)
(* each client (accept takes them in the order of their connects).  Nobody *)
(* has to start, edit, signal or crash anything.                           *)
(***************************************************************************)
FairSpec ==
  /\ Spec
  /\ \A p \in Procs : WF_vars(MainStep(p)) /\ WF_vars(\E d \in Procs : Serve(d, p))

-----------------------------------------------------------------------------
(* Properties *)

TypeOK ==
  /\ pc \in [Procs -> Steps]
  /\ sock \in [Procs -> {"new", "bound", "listening", "closed"}]
  /\ peer \in [Procs -> Procs \cup {Nobody}]
  /\ \A p \in Procs : pc[p] = "client" <=> peer[p] # Nobody
  /\ stop \in [Procs -> BOOLEAN]
  /\ mem \in [Procs -> Nat]
  /\ file \in Procs \cup {NoFile, Stale}
  /\ disk \in Nat \cup {Torn}
  /\ edits \in Nat
  /\ kept \in Nat \cup {Torn}

\* A daemon works on the list the last one left, though the socket file goes
\* before the list is saved (main.c:153-155) and the next process may start in
\* between: no edit is overwritten by an older list, whoever starts, stops or is
\* sent a SIGTERM when.
NothingForgotten == \A p \in Procs : HasList(p) => mem[p] = kept

\* A daemon that clients reach stays in reach for as long as it serves: no other
\* process's bind, failed init or late unlink takes its socket file away.
StaysReachable ==
  [][\A p \in Procs :
       pc[p] = "serve" /\ Reachable(p) /\ pc'[p] = "serve" => Reachable(p)']_vars

\* A client's connection comes to an end, whatever its process at the other side
\* turns out to be: one that serves, one that stops, one whose init fails.
ClientsFinish == \A c \in Procs : pc[c] = "client" ~> pc[c] = "off"

\* main.c:128, "We couldn't connect, so set up socket server for IPC": a process
\* that serves as the daemon has a socket that clients reach.
DaemonReachable == \A p \in Procs : pc[p] = "serve" => Reachable(p)

=============================================================================
