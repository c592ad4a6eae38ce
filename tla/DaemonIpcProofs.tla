--------------------------- MODULE DaemonIpcProofs ---------------------------
(***************************************************************************)
(* Proofs about the requests of clients, for any number of clients and any *)
(* commands: what a client sent whole is carried out as it was sent, a     *)
(* list shows the edits of those that returned before it, and the requests *)
(* edit the brews by the operations of BrewList only.                      *)
(***************************************************************************)
EXTENDS DaemonIpc, TLAPS

\* The cases of the switch, with the second half of the list's.
Cases == Calls \cup {"brews"}

\* A client that has not run has nothing, one that has has one of the commands.
ClientsInv ==
  \A c \in Clients :
    IF state[c] = "new" THEN cmd[c] = None /\ sent[c] = 0 /\ done[c] = None
                        ELSE cmd[c] \in Commands /\ sent[c] <= Pieces(cmd[c])

\* Who waits to be served has not been served, and waits once.
QueueInv ==
  /\ queue \in Seq(Clients)
  /\ \A i \in DOMAIN queue : state[queue[i]] # "new" /\ done[queue[i]] = None
                             /\ queue[i] # client
  /\ \A i, j \in DOMAIN queue : queue[i] = queue[j] => i = j

\* Where the daemon is follows from the type its client sent, unless that client
\* went away without one.
CaseInv ==
  /\ client \in Clients \cup {Nobody}
  /\ client # Nobody <=> at \notin {"down", "accept", "left"}
  /\ client # Nobody => state[client] # "new" /\ done[client] = None
  /\ at \in Cases =>
       \/ state[client] = "gone" /\ sent[client] < 2
       \/ /\ sent[client] >= 2
          /\ cmd[client].call = IF at = "brews" THEN "list" ELSE at

\* A request was carried out as sent, or it was not whole and stays so.
CarriedInv ==
  /\ done = [c \in Clients |-> done[c]]
  /\ \A c \in Clients :
       \/ done[c] \in {None, cmd[c]}
       \/ state[c] = "gone" /\ (~Whole(c) \/ cmd[c].call = "help")

IInv == IpcTypeOK /\ ClientsInv /\ QueueInv /\ CaseInv /\ CarriedInv

-----------------------------------------------------------------------------

USE DaemonIpcAssumption

\* A request has at most three pieces, and at least two where it matters.
LEMMA PiecesType ==
  ASSUME NEW r \in Commands
  PROVE  /\ Pieces(r) \in 0 .. 3
         /\ r.call # "help" => Pieces(r) >= 2
         /\ r.call \in {"add", "rename", "remove"} => Pieces(r) = 3
  BY DEF Pieces, Calls

LEMMA InitHolds == IpcInit => IInv
<1> SUFFICES ASSUME IpcInit PROVE IInv OBVIOUS
<1>1. IpcTypeOK
  <2>1. cmd \in [Clients -> Commands \cup {None}] /\ sent \in [Clients -> 0 .. 3]
        /\ state \in [Clients -> {"new", "write", "wait", "gone"}]
        /\ earlier \in [Clients -> SUBSET Clients]
    BY DEF IpcInit
  <2>2. queue \in Seq(Clients) BY DEF IpcInit
  <2> QED BY <2>1, <2>2 DEF IpcInit, IpcTypeOK, Calls
<1>2. ClientsInv BY DEF IpcInit, ClientsInv
<1>3. QueueInv BY DEF IpcInit, QueueInv
<1>4. CaseInv BY DEF IpcInit, CaseInv, Cases, Calls
<1>5. CarriedInv BY DEF IpcInit, CarriedInv
<1> QED BY <1>1, <1>2, <1>3, <1>4, <1>5 DEF IInv

\* The clients' steps.
LEMMA ConnectKeeps ==
  ASSUME IInv, NEW c \in Clients, NEW r \in Commands, Connect(c, r)
  PROVE  IInv'
<1>1. /\ state[c] = "new" /\ state' = [state EXCEPT ![c] = "write"]
      /\ cmd' = [cmd EXCEPT ![c] = r] /\ sent' = sent /\ queue' = Append(queue, c)
      /\ earlier' = [earlier EXCEPT ![c] = {d \in Clients : state[d] = "gone"}]
      /\ client' = client /\ at' = at /\ running' = running /\ header' = header
      /\ done' = done
  BY DEF Connect, clients, daemon
<1>2. /\ cmd[c] = None /\ sent[c] = 0 /\ done[c] = None /\ c # client
      /\ \A i \in DOMAIN queue : queue[i] # c
  BY <1>1 DEF IInv, ClientsInv, QueueInv, CaseInv
<1>3. queue \in Seq(Clients) /\ queue' \in Seq(Clients) /\ Len(queue') = Len(queue) + 1
      /\ queue'[Len(queue) + 1] = c /\ \A i \in 1 .. Len(queue) : queue'[i] = queue[i]
  BY <1>1 DEF IInv, QueueInv
<1>4. IpcTypeOK' BY <1>1, <1>3 DEF IInv, IpcTypeOK
<1>5. ClientsInv' BY <1>1, <1>2, PiecesType DEF IInv, IpcTypeOK, ClientsInv
<1>6. QueueInv'
  <2>1. DOMAIN queue = 1 .. Len(queue) /\ DOMAIN queue' = 1 .. Len(queue')
        /\ Len(queue) \in Nat
    BY <1>3
  <2>2. \A d \in Clients : state'[d] # "new" <=> (state[d] # "new" \/ d = c)
    BY <1>1 DEF IInv, IpcTypeOK
  <2>3. \A i \in 1 .. Len(queue) : queue[i] \in Clients BY <1>3
  <2> QED BY <1>1, <1>2, <1>3, <2>1, <2>2, <2>3 DEF IInv, QueueInv
<1>7. CaseInv' BY <1>1, <1>2 DEF IInv, IpcTypeOK, CaseInv, Cases, Calls
<1>8. CarriedInv' BY <1>1, <1>2 DEF IInv, IpcTypeOK, CarriedInv, Whole
<1> QED BY <1>4, <1>5, <1>6, <1>7, <1>8 DEF IInv

LEMMA ClientKeeps ==
  ASSUME IInv, NEW c \in Clients, Client(c) \/ Die(c)
  PROVE  IInv'
<1>1. /\ state[c] \in {"write", "wait"}
      /\ UNCHANGED <<cmd, earlier, queue, client, at, running, header, done>>
      /\ \/ /\ ~Whole(c) /\ sent' = [sent EXCEPT ![c] = @ + 1] /\ UNCHANGED state
         \/ \E s \in {"wait", "gone"} : state' = [state EXCEPT ![c] = s] /\ UNCHANGED sent
  BY DEF Client, WritePiece, Return, PrintList, Die, daemon
<1>2. cmd[c] \in Commands /\ sent[c] \in 0 .. 3 /\ sent[c] <= Pieces(cmd[c])
  BY <1>1 DEF IInv, IpcTypeOK, ClientsInv
<1>3. Pieces(cmd[c]) \in 0 .. 3 BY <1>2, PiecesType
<1>4. CASE /\ ~Whole(c) /\ sent' = [sent EXCEPT ![c] = @ + 1] /\ UNCHANGED state
  <2>1. sent[c] < Pieces(cmd[c]) BY <1>2, <1>3, <1>4 DEF Whole
  <2>2. IpcTypeOK' BY <1>1, <1>2, <1>3, <1>4, <2>1 DEF IInv, IpcTypeOK
  <2>3. ClientsInv' BY <1>1, <1>2, <1>3, <1>4, <2>1 DEF IInv, IpcTypeOK, ClientsInv
  <2>4. QueueInv' BY <1>1, <1>4 DEF IInv, QueueInv
  <2>5. CaseInv'
    <3>1. CASE client = c
      BY <1>1, <1>2, <1>4, <3>1 DEF IInv, IpcTypeOK, CaseInv, Cases
    <3>2. CASE client # c
      BY <1>1, <1>4, <3>2 DEF IInv, IpcTypeOK, CaseInv, Cases, Calls
    <3> QED BY <3>1, <3>2
  <2>6. CarriedInv' BY <1>1, <1>4 DEF IInv, IpcTypeOK, CarriedInv, Whole
  <2> QED BY <2>2, <2>3, <2>4, <2>5, <2>6 DEF IInv
<1>5. CASE \E s \in {"wait", "gone"} : state' = [state EXCEPT ![c] = s] /\ UNCHANGED sent
  <2>1. PICK s \in {"wait", "gone"} : state' = [state EXCEPT ![c] = s] /\ sent' = sent
    BY <1>5
  <2>2. IpcTypeOK' BY <1>1, <2>1 DEF IInv, IpcTypeOK
  <2>3. ClientsInv' BY <1>1, <2>1 DEF IInv, IpcTypeOK, ClientsInv
  <2>4. QueueInv' BY <1>1, <2>1 DEF IInv, IpcTypeOK, QueueInv
  <2>5. CaseInv' BY <1>1, <2>1 DEF IInv, IpcTypeOK, CaseInv, Cases, Calls
  <2>6. CarriedInv' BY <1>1, <2>1 DEF IInv, IpcTypeOK, CarriedInv, Whole
  <2> QED BY <2>2, <2>3, <2>4, <2>5, <2>6 DEF IInv
<1> QED BY <1>1, <1>4, <1>5

\* A step of the daemon that carries nothing out.
LEMMA PassKeeps ==
  ASSUME IInv, UNCHANGED clients, UNCHANGED <<queue, done>>,
         running' \in BOOLEAN, header' \in BOOLEAN,
         \/ client' = Nobody /\ at' \in {"down", "accept", "left"}
         \/ /\ client' = client /\ client # Nobody
            /\ \/ at' \in {"header", "type"}
               \/ /\ at' \in Cases
                  /\ \/ state[client] = "gone" /\ sent[client] < 2
                     \/ /\ sent[client] >= 2
                        /\ cmd[client].call = IF at' = "brews" THEN "list" ELSE at'
  PROVE  IInv'
<1>1. UNCHANGED <<cmd, state, sent, earlier>> BY DEF clients
<1>2. at' \in Calls \cup {"down", "accept", "header", "type", "brews", "left"}
      /\ (client' # Nobody <=> at' \notin {"down", "accept", "left"})
  BY DEF Cases, Calls
<1>3. IpcTypeOK' BY <1>1, <1>2 DEF IInv, IpcTypeOK
<1>4. ClientsInv' /\ CarriedInv' BY <1>1 DEF IInv, ClientsInv, CarriedInv, Whole
<1>5. QueueInv'
  <2>1. \A i \in DOMAIN queue : queue[i] \in Clients BY DEF IInv, QueueInv
  <2> QED BY <1>1, <2>1 DEF IInv, QueueInv
<1>6. CaseInv' BY <1>1, <1>2 DEF IInv, CaseInv, Cases, Calls
<1> QED BY <1>3, <1>4, <1>5, <1>6 DEF IInv

\* A step of the daemon that carries out request r.
LEMMA CarryKeeps ==
  ASSUME IInv, UNCHANGED clients, UNCHANGED queue, client \in Clients,
         running' \in BOOLEAN, header' \in BOOLEAN,
         client' = Nobody, at' \in {"accept", "left"},
         NEW r, Carry(r),
         \/ r = cmd[client]
         \/ state[client] = "gone" /\ (~Whole(client) \/ cmd[client].call = "help")
  PROVE  IInv'
<1>1. UNCHANGED <<cmd, state, sent, earlier, queue>> BY DEF clients
<1>2. \A c \in Clients \ {client} : done'[c] = done[c]
  BY DEF Carry
<1>3. state[client] # "new" /\ done[client] = None BY DEF IInv, CaseInv
<1>4. IpcTypeOK' BY <1>1 DEF IInv, IpcTypeOK, Calls
<1>5. ClientsInv' BY <1>1, <1>2, <1>3 DEF IInv, ClientsInv
<1>6. QueueInv'
  <2>1. \A i \in DOMAIN queue : queue[i] \in Clients \ {client} BY DEF IInv, QueueInv
  <2>2. \A i \in DOMAIN queue : queue[i] # client' BY <2>1
  <2> QED BY <1>1, <1>2, <2>1, <2>2 DEF IInv, QueueInv
<1>7. CaseInv' BY DEF CaseInv, Cases, Calls
<1>8. CarriedInv'
  <2>1. done'[client] = r /\ done' = [c \in Clients |-> done'[c]]
    BY DEF Carry, IInv, CarriedInv
  <2> QED BY <1>1, <1>2, <2>1 DEF IInv, CarriedInv, Whole
<1> QED BY <1>4, <1>5, <1>6, <1>7, <1>8 DEF IInv

LEMMA AcceptKeeps ==
  ASSUME IInv, Accept
  PROVE  IInv'
<1>1. /\ at = "accept" /\ queue # <<>> /\ client' = Head(queue) /\ queue' = Tail(queue)
      /\ at' = "header"
      /\ UNCHANGED <<cmd, state, sent, earlier, running, header, done>>
  BY DEF Accept, clients
<1>2. /\ queue \in Seq(Clients) /\ queue' \in Seq(Clients) /\ Len(queue) \in Nat \ {0}
      /\ Len(queue') = Len(queue) - 1 /\ client' = queue[1] /\ client' \in Clients
      /\ \A i \in 1 .. Len(queue') : queue'[i] = queue[i + 1]
  BY <1>1 DEF IInv, QueueInv
<1>3. /\ DOMAIN queue = 1 .. Len(queue) /\ DOMAIN queue' = 1 .. Len(queue')
      /\ 1 \in DOMAIN queue
  BY <1>2
<1>4. \A i \in DOMAIN queue' : i + 1 \in DOMAIN queue /\ i + 1 # 1 BY <1>2, <1>3
<1>5. IpcTypeOK' BY <1>1, <1>2 DEF IInv, IpcTypeOK
<1>6. ClientsInv' /\ CarriedInv' BY <1>1 DEF IInv, ClientsInv, CarriedInv, Whole
<1>7. QueueInv'
  <2>1. \A i \in DOMAIN queue' : state[queue'[i]] # "new" /\ done[queue'[i]] = None
                                 /\ queue'[i] # client'
    BY <1>2, <1>3, <1>4 DEF IInv, QueueInv
  <2>2. ASSUME NEW i \in DOMAIN queue', NEW j \in DOMAIN queue', queue'[i] = queue'[j]
        PROVE  i = j
    <3>1. queue[i + 1] = queue[j + 1] BY <1>2, <1>3, <2>2
    <3>2. i + 1 = j + 1 BY <1>4, <3>1 DEF IInv, QueueInv
    <3> QED BY <1>3, <3>2
  <2> QED BY <1>1, <1>2, <2>1, <2>2 DEF QueueInv
<1>8. CaseInv'
  BY <1>1, <1>2, <1>3 DEF IInv, QueueInv, CaseInv, Cases, Calls
<1> QED BY <1>5, <1>6, <1>7, <1>8 DEF IInv

\* The type that was read is the client's, or the client is gone without one.
LEMMA TypeKeeps ==
  ASSUME IInv, TestHeader \/ ReadType \/ WriteCount
  PROVE  IInv'
<1>1. /\ at \in {"header", "type", "list"} /\ client # Nobody /\ client \in Clients
      /\ sent[client] \in 0 .. 3 /\ cmd[client] \in Commands
      /\ running \in BOOLEAN /\ header \in BOOLEAN
  <2>1. at \in {"header", "type", "list"} BY DEF TestHeader, ReadType, WriteCount
  <2>2. client # Nobody /\ client \in Clients BY <2>1 DEF IInv, CaseInv
  <2> QED BY <2>1, <2>2 DEF IInv, CaseInv, IpcTypeOK, ClientsInv
<1>2. UNCHANGED clients /\ UNCHANGED <<queue, done>> /\ running' \in BOOLEAN
      /\ header' \in BOOLEAN
  BY <1>1 DEF TestHeader, ReadType, WriteCount
<1>3. CASE TestHeader
  BY <1>1, <1>2, <1>3, PassKeeps DEF TestHeader, Finish
<1>4. CASE ReadType
  <2>1. at' \in Calls /\ client' = client
        /\ \/ state[client] = "gone" /\ sent[client] < 2
           \/ sent[client] >= 2 /\ cmd[client].call = at'
    BY <1>1, <1>4 DEF ReadType, Got, Eof
  <2> QED BY <1>1, <1>2, <2>1, PassKeeps DEF Cases, Calls
<1>5. CASE WriteCount
  <2>1. at = "list" /\ at' = "brews" /\ client' = client BY <1>5 DEF WriteCount
  <2>2. \/ state[client] = "gone" /\ sent[client] < 2
        \/ sent[client] >= 2 /\ cmd[client].call = "list"
    BY <2>1 DEF IInv, CaseInv, Cases, Calls
  <2> QED BY <1>1, <1>2, <2>1, <2>2, PassKeeps DEF Cases
<1> QED BY <1>3, <1>4, <1>5

\* What is carried out was sent so, or the client is gone with less than all of it.
LEMMA CarriesAreFaithful ==
  ASSUME IInv, NEW r, client \in Clients,
         \/ Quit /\ r = [call |-> "stop"]
         \/ WriteBrews /\ r = [call |-> "list"]
         \/ EditBrews /\ r \in Data(at)
  PROVE  \/ r = cmd[client]
         \/ state[client] = "gone" /\ (~Whole(client) \/ cmd[client].call = "help")
<1>1. /\ sent[client] \in 0 .. 3 /\ cmd[client] \in Commands
  <2>1. client # Nobody OBVIOUS
  <2> QED BY <2>1 DEF IInv, CaseInv, IpcTypeOK, ClientsInv
<1>2. at \in Cases BY DEF Quit, WriteBrews, EditBrews, Cases, Calls
<1>3. CASE state[client] = "gone" /\ sent[client] < 2
  BY <1>1, <1>3, PiecesType DEF Whole
<1>4. CASE sent[client] >= 2 /\ cmd[client].call = IF at = "brews" THEN "list" ELSE at
  <2>1. CASE Quit \/ WriteBrews
    <3>1. cmd[client].call \in {"stop", "list"} /\ r = [call |-> cmd[client].call]
      BY <1>4, <2>1 DEF Quit, WriteBrews, EditBrews
    <3> QED BY <1>1, <3>1
  <2>2. CASE EditBrews /\ r \in Data(at)
    <3>1. cmd[client].call \in {"add", "rename", "remove"} BY <1>4, <2>2 DEF EditBrews
    <3>2. Pieces(cmd[client]) = 3 BY <1>1, <3>1, PiecesType
    <3>3. CASE Got(3) BY <2>2, <3>3 DEF Data
    <3>4. CASE ~Got(3)
      BY <1>1, <2>2, <3>2, <3>4 DEF EditBrews, Got, Eof, Whole
    <3> QED BY <3>3, <3>4
  <2> QED BY <2>1, <2>2
<1> QED BY <1>2, <1>3, <1>4 DEF IInv, CaseInv

LEMMA DaemonKeeps ==
  ASSUME IInv, Daemon \/ Sigterm \/ CrashDaemon
  PROVE  IInv'
<1>t. running \in BOOLEAN /\ header \in BOOLEAN /\ client \in Clients \cup {Nobody}
  BY DEF IInv, IpcTypeOK
<1>1. CASE StartDaemon
  <2>1. client = Nobody BY <1>1 DEF StartDaemon, IInv, CaseInv
  <2> QED BY <1>1, <1>t, <2>1, PassKeeps DEF StartDaemon
<1>2. CASE Accept BY <1>2, AcceptKeeps
<1>3. CASE NoClient \/ NoRequest
  BY <1>3, <1>t, PassKeeps DEF NoClient, NoRequest, Finish
<1>4. CASE TestHeader \/ ReadType \/ WriteCount BY <1>4, TypeKeeps
<1>5. CASE Quit \/ WriteBrews \/ EditBrews
  <2>1. client \in Clients
    BY <1>5, <1>t DEF IInv, CaseInv, Quit, WriteBrews, EditBrews
  <2>2. PICK r : /\ Carry(r)
                 /\ \/ Quit /\ r = [call |-> "stop"]
                    \/ WriteBrews /\ r = [call |-> "list"]
                    \/ EditBrews /\ r \in Data(at)
    BY <1>5 DEF Quit, WriteBrews, EditBrews
  <2>3. /\ UNCHANGED clients /\ UNCHANGED queue /\ running' \in BOOLEAN
        /\ header' \in BOOLEAN /\ client' = Nobody /\ at' \in {"accept", "left"}
    BY <1>5, <1>t DEF Quit, WriteBrews, EditBrews, Finish
  <2> QED BY <2>1, <2>2, <2>3, CarriesAreFaithful, CarryKeeps
<1>6. CASE Sigterm
  <2>1. UNCHANGED clients /\ UNCHANGED <<queue, done, client, at, header>>
        /\ running' \in BOOLEAN
    BY <1>6 DEF Sigterm
  <2>2. UNCHANGED <<cmd, state, sent, earlier>> BY <2>1 DEF clients
  <2>3. IpcTypeOK' BY <2>1, <2>2 DEF IInv, IpcTypeOK
  <2> QED BY <2>1, <2>2, <2>3
          DEF IInv, ClientsInv, QueueInv, CaseInv, CarriedInv, Whole
<1>7. CASE Leave \/ CrashDaemon
  <2>1. UNCHANGED clients /\ UNCHANGED <<done, header>> /\ queue' = <<>> /\ at' = "down"
        /\ client' = Nobody /\ running' \in BOOLEAN
    BY <1>7, <1>t DEF Leave, CrashDaemon, IInv, CaseInv
  <2>2. UNCHANGED <<cmd, state, sent, earlier>> BY <2>1 DEF clients
  <2>3. IpcTypeOK' BY <2>1, <2>2 DEF IInv, IpcTypeOK
  <2>4. CaseInv' /\ QueueInv' BY <2>1 DEF CaseInv, QueueInv, Cases, Calls
  <2> QED BY <2>1, <2>2, <2>3, <2>4 DEF IInv, ClientsInv, CarriedInv, Whole
<1> QED BY <1>1, <1>2, <1>3, <1>4, <1>5, <1>6, <1>7 DEF Daemon

LEMMA StepKeeps == IInv /\ [IpcNext]_ipcVars => IInv'
<1> SUFFICES ASSUME IInv, [IpcNext]_ipcVars PROVE IInv' OBVIOUS
<1>1. CASE UNCHANGED ipcVars
  <2>1. UNCHANGED <<cmd, state, sent, earlier, queue, client, at, running, header, done>>
    BY <1>1 DEF ipcVars, clients, daemon
  <2>2. IpcTypeOK' BY <2>1 DEF IInv, IpcTypeOK
  <2> QED BY <2>1, <2>2 DEF IInv, ClientsInv, QueueInv, CaseInv, CarriedInv, Whole
<1>2. CASE \E c \in Clients : Client(c) \/ Die(c) BY <1>2, ClientKeeps
<1>3. CASE \E c \in Clients, r \in Commands : Connect(c, r) BY <1>3, ConnectKeeps
<1>4. CASE Daemon \/ Sigterm \/ CrashDaemon BY <1>4, DaemonKeeps
<1>5. CASE Over BY <1>1, <1>5 DEF Over
<1> QED BY <1>1, <1>2, <1>3, <1>4, <1>5 DEF IpcNext

\* The inductive invariant holds throughout.
THEOREM IpcInvariance == IpcSpec => []IInv
  BY InitHolds, StepKeeps, PTL DEF IpcSpec

-----------------------------------------------------------------------------
(* Edits are carried out, in the order of the queue *)

Edit(c) == cmd[c].call \in {"add", "rename", "remove"}

\* An edit that was sent whole has been carried out or waits to be, as long as the
\* daemon lives; without its connection a client sends nothing more.
EditsInv ==
  /\ at = "left" => ~running
  /\ \A c \in Clients :
       \/ ~Edit(c) \/ ~Whole(c) \/ done[c] = cmd[c]
       \/ Open(c)
       \/ at = "down" /\ ~running

\* Who had returned when c connected is gone for good, and never behind c in the
\* queue.
OrderInv ==
  /\ \A c, d \in Clients : d \in earlier[c] => state[d] = "gone" /\ d # c
  /\ \A i, j \in DOMAIN queue : i < j => queue[j] \notin earlier[queue[i]]
  /\ client # Nobody => \A i \in DOMAIN queue : queue[i] \notin earlier[client]

LEMMA ConnectKeepsOrder ==
  ASSUME IInv, OrderInv, NEW c \in Clients, NEW r \in Commands, Connect(c, r)
  PROVE  OrderInv'
<1>1. /\ state[c] = "new" /\ state' = [state EXCEPT ![c] = "write"]
      /\ queue' = Append(queue, c) /\ client' = client
      /\ earlier' = [earlier EXCEPT ![c] = {d \in Clients : state[d] = "gone"}]
  BY DEF Connect, daemon
<1>2. /\ c # client /\ \A i \in DOMAIN queue : queue[i] # c
      /\ \A d \in Clients : c \notin earlier[d]
      /\ queue \in Seq(Clients) /\ client \in Clients \cup {Nobody}
      /\ state \in [Clients -> {"new", "write", "wait", "gone"}]
      /\ earlier \in [Clients -> SUBSET Clients]
  <2>1. \A d \in Clients : c \notin earlier[d] BY <1>1 DEF OrderInv
  <2> QED BY <1>1, <2>1 DEF IInv, QueueInv, CaseInv, IpcTypeOK
<1>3. /\ DOMAIN queue = 1 .. Len(queue) /\ DOMAIN queue' = 1 .. (Len(queue) + 1)
      /\ Len(queue) \in Nat /\ queue'[Len(queue) + 1] = c
      /\ \A i \in 1 .. Len(queue) : queue'[i] = queue[i] /\ queue[i] \in Clients \ {c}
  BY <1>1, <1>2
<1>4. \A d \in Clients \ {c} : earlier'[d] = earlier[d] BY <1>1, <1>2
<1>5. \A d, e \in Clients : e \in earlier'[d] => state'[e] = "gone" /\ e # d
  <2>1. \A e \in Clients : state[e] = "gone" => state'[e] = "gone" BY <1>1, <1>2
  <2>2. \A e \in Clients : e \in earlier'[c] => state[e] = "gone" /\ e # c
    BY <1>1, <1>2
  <2> QED BY <1>4, <2>1, <2>2 DEF OrderInv
<1>6. \A i, j \in DOMAIN queue' : i < j => queue'[j] \notin earlier'[queue'[i]]
  <2> SUFFICES ASSUME NEW i \in DOMAIN queue', NEW j \in DOMAIN queue', i < j
               PROVE  queue'[j] \notin earlier'[queue'[i]]
    OBVIOUS
  <2>1. i \in DOMAIN queue /\ queue'[i] = queue[i] /\ queue[i] \in Clients \ {c}
    BY <1>3
  <2>2. earlier'[queue'[i]] = earlier[queue[i]] BY <1>4, <2>1
  <2>3. CASE j = Len(queue) + 1 BY <1>2, <1>3, <2>1, <2>2, <2>3
  <2>4. CASE j # Len(queue) + 1
    <3>1. j \in DOMAIN queue /\ queue'[j] = queue[j] BY <1>3, <2>4
    <3> QED BY <2>1, <2>2, <3>1 DEF OrderInv
  <2> QED BY <2>3, <2>4
<1>7. client' # Nobody => \A i \in DOMAIN queue' : queue'[i] \notin earlier'[client']
  <2> SUFFICES ASSUME client # Nobody, NEW i \in DOMAIN queue'
               PROVE  queue'[i] \notin earlier[client]
    BY <1>1, <1>2, <1>4
  <2>1. CASE i = Len(queue) + 1 BY <1>2, <1>3, <2>1
  <2>2. CASE i # Len(queue) + 1
    <3>1. i \in DOMAIN queue /\ queue'[i] = queue[i] BY <1>3, <2>2
    <3> QED BY <3>1 DEF OrderInv
  <2> QED BY <2>1, <2>2
<1> QED BY <1>5, <1>6, <1>7 DEF OrderInv

LEMMA AcceptKeepsOrder ==
  ASSUME IInv, OrderInv, Accept
  PROVE  OrderInv'
<1>1. /\ queue # <<>> /\ client' = Head(queue) /\ queue' = Tail(queue)
      /\ UNCHANGED <<state, earlier>>
  BY DEF Accept, clients
<1>2. /\ queue \in Seq(Clients) /\ Len(queue) \in Nat \ {0} /\ client' = queue[1]
      /\ DOMAIN queue = 1 .. Len(queue) /\ DOMAIN queue' = 1 .. (Len(queue) - 1)
      /\ \A i \in DOMAIN queue' : queue'[i] = queue[i + 1]
  BY <1>1 DEF IInv, QueueInv
<1>3. \A i \in DOMAIN queue' : i + 1 \in DOMAIN queue /\ 1 < i + 1 BY <1>2
<1>4. \A i, j \in DOMAIN queue' : i < j => queue'[j] \notin earlier[queue'[i]]
  BY <1>2, <1>3 DEF OrderInv
<1>5. \A i \in DOMAIN queue' : queue'[i] \notin earlier[client']
  BY <1>2, <1>3 DEF OrderInv
<1> QED BY <1>1, <1>4, <1>5 DEF OrderInv

LEMMA StepKeepsOrder == IInv /\ OrderInv /\ [IpcNext]_ipcVars => OrderInv'
<1> SUFFICES ASSUME IInv, OrderInv, [IpcNext]_ipcVars PROVE OrderInv' OBVIOUS
<1>t. client \in Clients \cup {Nobody} /\ state \in [Clients -> {"new", "write", "wait", "gone"}]
  BY DEF IInv, CaseInv, IpcTypeOK
<1>1. CASE \E c \in Clients, r \in Commands : Connect(c, r) BY <1>1, ConnectKeepsOrder
<1>2. CASE Accept BY <1>2, AcceptKeepsOrder
<1>3. CASE \E c \in Clients : Client(c) \/ Die(c)
  <2>1. UNCHANGED <<earlier, queue, client>>
    BY <1>3 DEF Client, WritePiece, Return, PrintList, Die, daemon
  <2>2. \A d \in Clients : state[d] = "gone" => state'[d] = "gone"
    BY <1>3, <1>t DEF Client, WritePiece, Return, PrintList, Die
  <2> QED BY <2>1, <2>2 DEF OrderInv
<1>4. CASE \/ StartDaemon \/ NoClient \/ TestHeader \/ ReadType \/ NoRequest \/ Quit
           \/ EditBrews \/ WriteCount \/ WriteBrews \/ Leave \/ Sigterm \/ CrashDaemon \/ Over
           \/ UNCHANGED ipcVars
  <2>1. UNCHANGED <<state, earlier>> /\ queue' \in {queue, <<>>} /\ client' \in {client, Nobody}
    BY <1>4 DEF StartDaemon, NoClient, TestHeader, ReadType, NoRequest, Quit, EditBrews,
                WriteCount, WriteBrews, Leave, Sigterm, CrashDaemon, Over, Finish,
                clients, daemon, ipcVars
  <2>2. CASE queue' = queue BY <2>1, <2>2 DEF OrderInv
  <2>3. CASE queue' = <<>> BY <2>1, <2>3 DEF OrderInv
  <2> QED BY <2>1, <2>2, <2>3
<1> QED BY <1>1, <1>2, <1>3, <1>4 DEF IpcNext, Daemon

\* The connections that are open are those of the queue and the accepted one.
LEMMA OpenStays ==
  ASSUME IInv, NEW c \in Clients, Open(c),
         \/ UNCHANGED <<queue, client>>
         \/ Accept
         \/ \E d \in Clients, r \in Commands : Connect(d, r)
  PROVE  Open(c)'
<1>1. CASE UNCHANGED <<queue, client>>
  BY <1>1 DEF Open
<1>2. CASE Accept
  <2>1. /\ queue # <<>> /\ client' = Head(queue) /\ queue' = Tail(queue) /\ client = Nobody
    BY <1>2 DEF Accept, IInv, CaseInv
  <2>2. PICK i \in DOMAIN queue : queue[i] = c
    BY <2>1 DEF Open
  <2>3. /\ queue \in Seq(Clients) /\ Len(queue) \in Nat \ {0} /\ i \in 1 .. Len(queue)
        /\ client' = queue[1] /\ DOMAIN queue' = 1 .. (Len(queue) - 1)
        /\ \A k \in DOMAIN queue' : queue'[k] = queue[k + 1]
    BY <2>1, <2>2 DEF IInv, QueueInv
  <2>4. CASE i = 1
    BY <2>2, <2>3, <2>4 DEF Open
  <2>5. CASE i # 1
    <3>1. i - 1 \in DOMAIN queue' /\ queue'[i - 1] = c
      BY <2>2, <2>3, <2>5
    <3> QED BY <3>1 DEF Open
  <2> QED BY <2>4, <2>5
<1>3. CASE \E d \in Clients, r \in Commands : Connect(d, r)
  <2>1. PICK d \in Clients : queue' = Append(queue, d) /\ client' = client
    BY <1>3 DEF Connect, daemon
  <2>2. queue \in Seq(Clients) BY DEF IInv, QueueInv
  <2>3. /\ DOMAIN queue \subseteq DOMAIN queue'
        /\ \A i \in DOMAIN queue : queue'[i] = queue[i]
    BY <2>1, <2>2
  <2> QED BY <2>1, <2>3 DEF Open
<1> QED BY <1>1, <1>2, <1>3

\* A handler returns: its client had sent no edit, not all of one, or it was carried out.
LEMMA FinishKeepsEdits ==
  ASSUME IInv, EditsInv, client \in Clients, UNCHANGED clients, UNCHANGED queue,
         running' \in {running, FALSE}, Finish(running'),
         \/ done' = done /\ (~Edit(client) \/ ~Whole(client))
         \/ \E r : Carry(r) /\ (~Edit(client) \/ ~Whole(client) \/ r = cmd[client])
  PROVE  EditsInv'
<1>1. UNCHANGED <<cmd, state, sent, earlier>> BY DEF clients
<1>2. at' \in {"accept", "left"} /\ (at' = "left" => ~running') BY DEF Finish
<1>3. at # "down" /\ done = [c \in Clients |-> done[c]] /\ Nobody \notin Clients
  BY DEF IInv, CaseInv, CarriedInv
<1>4. ASSUME NEW c \in Clients
      PROVE  ~Edit(c) \/ ~Whole(c) \/ done'[c] = cmd[c] \/ Open(c)'
  <2>1. CASE c = client BY <1>3, <2>1 DEF Carry
  <2>2. CASE c # client
    <3>1. done'[c] = done[c] BY <1>3, <2>2 DEF Carry
    <3>2. Open(c) => Open(c)' BY <2>2 DEF Open
    <3> QED BY <1>3, <3>1, <3>2 DEF EditsInv
  <2> QED BY <2>1, <2>2
<1>5. \A c \in Clients : Edit(c)' = Edit(c) /\ Whole(c)' = Whole(c)
  BY <1>1 DEF Edit, Whole
<1> QED BY <1>1, <1>2, <1>4, <1>5 DEF EditsInv

\* A client connects or writes.
LEMMA ClientKeepsEdits ==
  ASSUME IInv, EditsInv,
         NEW c \in Clients, Client(c) \/ Die(c) \/ \E r \in Commands : Connect(c, r)
  PROVE  EditsInv'
<1>1. UNCHANGED <<client, at, running, done>>
  BY DEF Client, WritePiece, Return, PrintList, Die, Connect, daemon
<1>2. /\ cmd \in [Clients -> Commands \cup {None}] /\ sent \in [Clients -> 0 .. 3]
      /\ at = "left" => ~running
  BY DEF IInv, IpcTypeOK, EditsInv
<1>3. ASSUME NEW d \in Clients
      PROVE  \/ ~Edit(d)' \/ ~Whole(d)' \/ done[d] = cmd'[d]
             \/ Open(d)'
             \/ at = "down" /\ ~running
  <2>1. Open(d) => Open(d)'
    <3>1. UNCHANGED <<queue, client>> \/ \E e \in Clients, r \in Commands : Connect(e, r)
      BY <1>1 DEF Client, WritePiece, Return, PrintList, Die
    <3> QED BY <3>1, OpenStays
  <2>2. CASE cmd'[d] = cmd[d] /\ sent'[d] = sent[d]
    BY <2>1, <2>2 DEF EditsInv, Edit, Whole
  <2>3. CASE d = c /\ WritePiece(c)
    BY <2>1, <2>2, <2>3 DEF WritePiece
  <2>4. CASE d = c /\ \E r \in Commands : Connect(c, r)
    <3>1. queue' = Append(queue, c) BY <2>4 DEF Connect
    <3>2. queue \in Seq(Clients) BY DEF IInv, QueueInv
    <3>3. Len(queue) + 1 \in DOMAIN queue' /\ queue'[Len(queue) + 1] = c
      BY <3>1, <3>2
    <3> QED BY <2>4, <3>3 DEF Open
  <2>5. CASE d # c \/ Return(c) \/ PrintList(c) \/ Die(c)
    <3>1. cmd'[d] = cmd[d] /\ sent'[d] = sent[d]
      BY <1>2, <2>5 DEF Client, WritePiece, Return, PrintList, Die, Connect
    <3> QED BY <2>2, <3>1
  <2> QED BY <2>3, <2>4, <2>5 DEF Client
<1> QED BY <1>1, <1>2, <1>3 DEF EditsInv

\* A handler's step that ends it has carried the client's edit out, if it sent one.
LEMMA HandlerKeepsEdits ==
  ASSUME IInv, EditsInv, client' = Nobody,
         \/ TestHeader \/ NoRequest \/ Quit \/ WriteBrews \/ EditBrews
  PROVE  EditsInv'
<1>1. /\ client \in Clients /\ cmd[client] \in Commands /\ sent[client] \in 0 .. 3
      /\ client # Nobody
  <2>1. client \in Clients /\ client # Nobody
    BY DEF IInv, CaseInv, TestHeader, NoRequest, Quit, WriteBrews, EditBrews
  <2> QED BY <2>1 DEF IInv, IpcTypeOK, CaseInv, ClientsInv
<1>2. UNCHANGED clients /\ UNCHANGED queue
  BY DEF TestHeader, NoRequest, Quit, WriteBrews, EditBrews
<1>3. CASE TestHeader
  <2>1. Eof(1) /\ Finish(running) /\ UNCHANGED <<running, done>>
    BY <1>1, <1>3 DEF TestHeader
  <2>2. ~Edit(client) \/ ~Whole(client)
    BY <1>1, <2>1, PiecesType DEF Eof, Edit, Whole
  <2> QED BY <1>1, <1>2, <2>1, <2>2, FinishKeepsEdits
<1>4. CASE NoRequest
  <2>1. at = "help" /\ Finish(running) /\ UNCHANGED <<running, done>>
    BY <1>4 DEF NoRequest
  <2>2. \/ sent[client] < 2 \/ cmd[client].call = "help"
    BY <2>1 DEF IInv, CaseInv, Cases, Calls
  <2>3. ~Edit(client) \/ ~Whole(client)
    BY <1>1, <2>2, PiecesType DEF Edit, Whole
  <2> QED BY <1>1, <1>2, <2>1, <2>3, FinishKeepsEdits
<1>5. CASE Quit \/ WriteBrews \/ EditBrews
  <2>1. PICK r : /\ Carry(r)
                 /\ \/ Quit /\ r = [call |-> "stop"]
                    \/ WriteBrews /\ r = [call |-> "list"]
                    \/ EditBrews /\ r \in Data(at)
    BY <1>5 DEF Quit, WriteBrews, EditBrews
  <2>2. \/ r = cmd[client]
        \/ state[client] = "gone" /\ (~Whole(client) \/ cmd[client].call = "help")
    BY <1>1, <2>1, CarriesAreFaithful
  <2>3. ~Edit(client) \/ ~Whole(client) \/ r = cmd[client]
    BY <2>2 DEF Edit
  <2>4. running' \in {running, FALSE} /\ Finish(running')
    BY <1>5 DEF Quit, WriteBrews, EditBrews
  <2> QED BY <1>1, <1>2, <2>1, <2>3, <2>4, FinishKeepsEdits
<1> QED BY <1>3, <1>4, <1>5

LEMMA StepKeepsEdits == IInv /\ EditsInv /\ [IpcNext]_ipcVars => EditsInv'
<1> SUFFICES ASSUME IInv, EditsInv, [IpcNext]_ipcVars PROVE EditsInv' OBVIOUS
<1>1. CASE \E c \in Clients : Client(c) \/ Die(c) \/ \E r \in Commands : Connect(c, r)
  BY <1>1, ClientKeepsEdits
<1>2. CASE client' = Nobody /\ (TestHeader \/ NoRequest \/ Quit \/ WriteBrews \/ EditBrews)
  BY <1>2, HandlerKeepsEdits
<1>3. CASE \/ Accept \/ (running /\ StartDaemon) \/ ReadType \/ WriteCount \/ Sigterm
           \/ NoClient \/ (TestHeader /\ client' # Nobody)
           \/ Over \/ UNCHANGED ipcVars
  <2>1. UNCHANGED <<cmd, sent, done>> /\ (UNCHANGED <<queue, client>> \/ Accept)
    BY <1>3 DEF StartDaemon, Accept, ReadType, WriteCount, Sigterm, NoClient, TestHeader,
                Finish, Over, ipcVars, clients, daemon, IInv, CaseInv
  <2>2. /\ at' = "left" => ~running'
        /\ at = "down" /\ ~running => at' = "down" /\ ~running'
    <3>1. CASE (running /\ StartDaemon) \/ Accept \/ WriteCount \/ NoClient
      BY <3>1 DEF StartDaemon, Accept, WriteCount, NoClient, Finish
    <3>2. CASE ReadType
      <4>1. client \in Clients /\ at = "type" /\ state[client] # "new"
        BY <3>2 DEF ReadType, IInv, CaseInv
      <4>2. cmd[client].call \in Calls BY <4>1 DEF IInv, ClientsInv
      <4> QED BY <3>2, <4>1, <4>2 DEF ReadType, Calls
    <3>3. CASE TestHeader /\ client' # Nobody
      BY <3>3 DEF TestHeader, Finish
    <3>4. CASE Sigterm \/ Over \/ UNCHANGED ipcVars
      BY <3>4 DEF Sigterm, Over, ipcVars, daemon, EditsInv
    <3> QED BY <1>3, <3>1, <3>2, <3>3, <3>4
  <2>3. \A c \in Clients : /\ Edit(c)' = Edit(c) /\ Whole(c)' = Whole(c)
                           /\ Open(c) => Open(c)'
    BY <2>1, OpenStays DEF Edit, Whole
  <2> QED BY <2>1, <2>2, <2>3 DEF EditsInv
<1>4. CASE Leave \/ CrashDaemon
  <2>1. at' = "down" /\ ~running'
    BY <1>4 DEF Leave, CrashDaemon, EditsInv
  <2> QED BY <2>1 DEF EditsInv
<1>5. TestHeader \/ NoRequest \/ Quit \/ WriteBrews \/ EditBrews =>
        client' = Nobody \/ (TestHeader /\ client' # Nobody)
  BY DEF NoRequest, Quit, WriteBrews, EditBrews, Finish
<1> QED BY <1>1, <1>2, <1>3, <1>4, <1>5 DEF IpcNext, Daemon

-----------------------------------------------------------------------------
(* The results *)

\* Clients, queue and daemon keep their types.
THEOREM IpcTypeCorrect == IpcSpec => []IpcTypeOK
<1>1. IInv => IpcTypeOK BY DEF IInv
<1> QED BY <1>1, IpcInvariance, PTL

\* A request that was sent whole is carried out as sent or not at all, for any
\* number of clients, whatever other clients fail to send.
THEOREM WholeRequestsCarried == IpcSpec => []CarriedAsSent
<1>1. IInv => CarriedAsSent
  <2> SUFFICES ASSUME IInv, NEW c \in Clients, cmd[c].call \notin {"none", "help"}, Whole(c)
               PROVE  done[c] \in {None, cmd[c]}
    BY DEF CarriedAsSent
  <2> QED BY DEF IInv, CarriedInv
<1> QED BY <1>1, IpcInvariance, PTL

\* A list shows the edits of every client that had returned before the one that asks
\* connected, for any number of clients and any commands: what was sent whole is carried
\* out as it was sent, and connections are served in the order of their connects, one at
\* a time and to the end.
THEOREM ListsAreUpToDate == IpcSpec => []ListHasEarlierEdits
<1>1. IpcInit => OrderInv BY DEF IpcInit, OrderInv
<1>2. IpcInit => EditsInv
  BY DEF IpcInit, EditsInv, Edit, None
<1>3. IInv /\ OrderInv /\ EditsInv => ListHasEarlierEdits
  <2> SUFFICES ASSUME IInv, OrderInv, EditsInv, at \in {"list", "brews"},
                      NEW d \in earlier[client], Edit(d), Whole(d)
               PROVE  done[d] = cmd[d]
    BY DEF ListHasEarlierEdits, Edit
  <2>1. client # Nobody /\ client \in Clients BY DEF IInv, CaseInv
  <2>2. d \in Clients BY <2>1 DEF IInv, IpcTypeOK
  <2>3. d # client /\ \A i \in DOMAIN queue : queue[i] # d
    BY <2>1, <2>2 DEF OrderInv
  <2> QED BY <2>2, <2>3 DEF EditsInv, Open
<1> QED
  BY <1>1, <1>2, <1>3, StepKeepsOrder, StepKeepsEdits, IpcInvariance, PTL DEF IpcSpec

\* The requests of clients, junk included, edit the brews by the operations of the
\* abstract list.
THEOREM RequestsEditTheList == IpcSpec => Spec
<1>1. IpcInit => Init BY DEF IpcInit
<1>2. ASSUME IInv, [IpcNext]_ipcVars PROVE [Next]_vars
  <2>1. CASE EditBrews
    <3>1. client \in Clients /\ client # Nobody
      BY <1>2, <2>1 DEF EditBrews, IInv, CaseInv
    <3>2. cmd[client] \in Commands BY <1>2, <3>1 DEF IInv, CaseInv, ClientsInv
    <3>3. PICK r \in Data(at) : Edits(r) BY <2>1 DEF EditBrews
    <3>4. /\ r.call = "add" => r.brew \in Brews
          /\ r.call = "rename" => r.index \in 0 .. (Cap - 1) /\ r.name \in Names
          /\ r.call = "remove" => r.index \in 0 .. (Cap - 1)
      <4>1. CASE Got(3) BY <3>2, <3>3, <4>1 DEF Data
      <4>2. CASE ~Got(3) BY <2>1, <3>3, <4>2 DEF Data, Junk, EditBrews
      <4> QED BY <4>1, <4>2
    <3> QED BY <3>3, <3>4 DEF Edits, Next
  <2>2. CASE StartDaemon \/ Leave \/ CrashDaemon
    BY <2>2 DEF StartDaemon, Leave, CrashDaemon, Next
  <2>3. CASE \/ \E c \in Clients : Client(c) \/ Die(c) \/ \E r \in Commands : Connect(c, r)
             \/ Accept \/ NoClient \/ TestHeader \/ ReadType \/ NoRequest \/ Quit
             \/ WriteCount \/ WriteBrews \/ Sigterm \/ Over \/ UNCHANGED ipcVars
    BY <2>3 DEF Client, WritePiece, Return, PrintList, Die, Connect, Accept, NoClient,
                TestHeader, ReadType, NoRequest, Quit, WriteCount, WriteBrews, Sigterm, Over,
                ipcVars
  <2> QED BY <1>2, <2>1, <2>2, <2>3 DEF IpcNext, Daemon
<1> QED BY <1>1, <1>2, IpcInvariance, PTL DEF IpcSpec, Spec

=============================================================================
