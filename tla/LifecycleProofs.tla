---------------------------- MODULE LifecycleProofs ----------------------------
(***************************************************************************)
(* Lifecycle for any set of processes: no edit is forgotten over stops and *)
(* starts, and a daemon in reach stays there while it serves.              *)
(***************************************************************************)
EXTENDS Lifecycle, TLAPS

(***************************************************************************)
(* What makes NothingForgotten inductive: one process at a time has the    *)
(* sensor, from before its load until after its save, and between the      *)
(* daemons the list to be found is the one on the disk.                    *)
(***************************************************************************)
OneHolder == \A p, q \in Procs : HasSensor(p) /\ HasSensor(q) => p = q

DiskInStep ==
  /\ (\A p \in Procs : ~HasSensor(p)) => kept = disk
  /\ \A p \in Procs :
       /\ pc[p] \in {"load", "exit"} => kept = disk
       /\ pc[p] = "handler" => disk \in {Torn, kept}

IInv == TypeOK /\ OneHolder /\ NothingForgotten /\ DiskInStep

USE LifecycleAssumption

\* What an end does: the process is off, its clients too, and nobody else moves.
LEMMA HangupMoves ==
  ASSUME TypeOK, NEW p \in Procs, NEW to \in Steps \ {"client"}, Hangup(p, to)
  PROVE  /\ pc' \in [Procs -> Steps] /\ pc'[p] = to
         /\ \A q \in Procs \ {p} :
              pc'[q] = pc[q] \/ (pc[q] = "client" /\ pc'[q] = "off")
         /\ peer' \in [Procs -> Procs \cup {Nobody}]
         /\ \A q \in Procs : q # p => (pc'[q] = "client" <=> peer'[q] # Nobody)
         /\ pc[p] # "client" => peer'[p] = Nobody
         /\ sock' \in [Procs -> {"new", "bound", "listening", "closed"}]
         /\ file' \in Procs \cup {NoFile, Stale}
  BY DEF TypeOK, Hangup, Steps

\* A process that ends takes the sensor with it and gives it to nobody.
LEMMA EndsReleases ==
  ASSUME IInv, NEW p \in Procs, pc[p] # "client", Ends(p),
         kept' \in Nat \cup {Torn}, HasSensor(p) => kept' = disk,
         ~HasSensor(p) => kept' = kept
  PROVE  IInv'
<1>1. /\ pc' \in [Procs -> Steps] /\ pc'[p] = "off"
      /\ \A q \in Procs \ {p} :
           pc'[q] = pc[q] \/ (pc[q] = "client" /\ pc'[q] = "off")
      /\ \A q \in Procs : q # p => (pc'[q] = "client" <=> peer'[q] # Nobody)
      /\ peer' \in [Procs -> Procs \cup {Nobody}] /\ peer'[p] = Nobody
      /\ sock' \in [Procs -> {"new", "bound", "listening", "closed"}]
      /\ file' \in Procs \cup {NoFile, Stale}
  BY HangupMoves DEF Ends, IInv, Steps
<1>2. /\ mem' \in [Procs -> Nat] /\ stop' \in [Procs -> BOOLEAN]
      /\ \A q \in Procs \ {p} : mem'[q] = mem[q]
      /\ disk' = disk /\ edits' = edits
  BY DEF Ends, IInv, TypeOK
<1>3. TypeOK'
  <2>1. \A q \in Procs : pc'[q] = "client" <=> peer'[q] # Nobody
    BY <1>1
  <2> QED BY <1>1, <1>2, <2>1 DEF TypeOK, IInv
<1>4. ~HasSensor(p)' /\ \A q \in Procs : HasSensor(q)' => q # p /\ HasSensor(q) /\ pc'[q] = pc[q]
  BY <1>1 DEF HasSensor
<1>5. OneHolder' BY <1>4 DEF OneHolder, IInv
<1>6. NothingForgotten'
  <2> SUFFICES ASSUME NEW q \in Procs, HasList(q)' PROVE mem'[q] = kept'
    BY DEF NothingForgotten
  <2>1. q # p /\ HasSensor(q) /\ HasList(q)
    BY <1>4 DEF HasList
  <2>2. ~HasSensor(p) BY <2>1 DEF OneHolder, IInv
  <2> QED BY <1>2, <2>1, <2>2 DEF IInv, NothingForgotten
<1>7. DiskInStep'
  <2>1. CASE HasSensor(p)
    <3>1. \A q \in Procs : ~HasSensor(q)'
      BY <1>4, <2>1 DEF OneHolder, IInv
    <3>2. kept' = disk' BY <2>1, <1>2
    <3> QED BY <3>1, <3>2 DEF DiskInStep, HasSensor
  <2>2. CASE ~HasSensor(p)
    <3>1. \A q \in Procs : HasSensor(q) => HasSensor(q)'
      BY <1>1, <2>2 DEF HasSensor
    <3>2. kept' = kept /\ disk' = disk BY <2>2, <1>2
    <3>3. (\A q \in Procs : ~HasSensor(q)') => kept' = disk'
      BY <3>1, <3>2 DEF IInv, DiskInStep
    <3>4. \A q \in Procs : pc'[q] \in {"load", "exit", "handler"} => pc[q] = pc'[q]
      BY <1>1
    <3> QED BY <3>2, <3>3, <3>4 DEF IInv, DiskInStep
  <2> QED BY <2>1, <2>2
<1> QED BY <1>3, <1>5, <1>6, <1>7 DEF IInv

\* A process goes from one step of main to another, neither of them "client", and
\* nothing else that the invariant speaks of changes.
LEMMA GoKeeps ==
  ASSUME IInv, NEW p \in Procs, NEW from \in Steps \ {"client"},
         NEW to \in Steps \ {"client", "load", "exit", "handler"}, Go(p, from, to),
         UNCHANGED <<peer, mem, edits, kept>>, stop' \in [Procs -> BOOLEAN],
         sock' \in [Procs -> {"new", "bound", "listening", "closed"}],
         file' \in Procs \cup {NoFile, Stale}, disk' \in Nat \cup {Torn},
         HasList(p)' <=> HasList(p), HasSensor(p)' <=> HasSensor(p),
         disk' = disk \/ HasSensor(p)
  PROVE  IInv'
<1>1. /\ pc' \in [Procs -> Steps] /\ pc'[p] = to /\ pc[p] = from
      /\ \A q \in Procs \ {p} : pc'[q] = pc[q]
      /\ peer' = peer /\ mem' = mem /\ edits' = edits /\ kept' = kept
  BY DEF Go, IInv, TypeOK
<1>2. TypeOK' BY <1>1 DEF TypeOK, IInv
<1>3. \A q \in Procs : (HasSensor(q)' <=> HasSensor(q)) /\ (HasList(q)' <=> HasList(q))
  <2> SUFFICES ASSUME NEW q \in Procs, q # p
               PROVE (HasSensor(q)' <=> HasSensor(q)) /\ (HasList(q)' <=> HasList(q))
    OBVIOUS
  <2> QED BY <1>1 DEF HasSensor, HasList
<1>4. OneHolder' /\ NothingForgotten'
  BY <1>1, <1>3 DEF IInv, OneHolder, NothingForgotten
<1>5. DiskInStep'
  <2>1. CASE disk' = disk
    BY <1>1, <1>3, <2>1 DEF IInv, DiskInStep
  <2>2. CASE HasSensor(p)
    <3>1. \A q \in Procs : q # p => ~HasSensor(q)' BY <1>3, <2>2 DEF IInv, OneHolder
    <3>2. HasSensor(p)' BY <1>3, <2>2
    <3>3. \A q \in Procs : pc'[q] \notin {"load", "exit", "handler"}
      BY <3>1, <1>1 DEF HasSensor
    <3> QED BY <3>2, <3>3 DEF DiskInStep
  <2> QED BY <2>1, <2>2
<1> QED BY <1>2, <1>4, <1>5 DEF IInv

LEMMA InitHolds == Init => IInv
<1> SUFFICES ASSUME Init PROVE IInv OBVIOUS
<1>1. TypeOK BY DEF Init, TypeOK, Steps
<1>2. \A p \in Procs : ~HasSensor(p) BY DEF Init, HasSensor
<1> QED BY <1>1, <1>2 DEF Init, IInv, OneHolder, NothingForgotten, DiskInStep, HasList

\* A client comes and goes: no other process takes a step.
LEMMA ClientKeeps ==
  ASSUME IInv, NEW p \in Procs, NEW q \in Procs, RunClient(p, q)
  PROVE  IInv'
<1>1. /\ pc' \in [Procs -> Steps] /\ pc[p] = "off" /\ pc'[p] = "client"
      /\ \A r \in Procs \ {p} : pc'[r] = pc[r]
      /\ peer' \in [Procs -> Procs \cup {Nobody}] /\ peer'[p] = q
      /\ \A r \in Procs \ {p} : peer'[r] = peer[r]
  BY DEF RunClient, Go, IInv, TypeOK, Steps
<1>2. UNCHANGED <<sock, stop, mem, file, disk, edits, kept>> BY DEF RunClient
<1>3. TypeOK' BY <1>1, <1>2 DEF TypeOK, IInv
<1>4. \A r \in Procs : (HasSensor(r)' <=> HasSensor(r)) /\ (HasList(r)' <=> HasList(r))
  BY <1>1 DEF HasSensor, HasList
<1> QED BY <1>1, <1>2, <1>3, <1>4 DEF IInv, OneHolder, NothingForgotten, DiskInStep

\* A list that is edited where it is held.
LEMMA EditKeeps ==
  ASSUME IInv, NEW p \in Procs, pc[p] = "serve", Edit(p),
         pc' \in [Procs -> Steps], UNCHANGED disk,
         \A q \in Procs : pc'[q] = pc[q] \/ {pc[q], pc'[q]} \subseteq {"client", "off"}
  PROVE  OneHolder' /\ NothingForgotten' /\ DiskInStep'
         /\ mem' \in [Procs -> Nat] /\ edits' \in Nat /\ kept' \in Nat
<1>1. /\ mem' \in [Procs -> Nat] /\ mem'[p] = edits + 1 /\ kept' = edits + 1
      /\ edits' \in Nat /\ edits + 1 \in Nat
      /\ \A q \in Procs \ {p} : mem'[q] = mem[q]
  BY DEF Edit, IInv, TypeOK
<1>2. \A q \in Procs : HasSensor(q)' <=> HasSensor(q)
  BY DEF HasSensor
<1>3. HasSensor(p) BY DEF HasSensor
<1>4. \A q \in Procs : HasSensor(q) => q = p BY <1>3 DEF IInv, OneHolder
<1>5. \A q \in Procs : pc'[q] \notin {"load", "exit", "handler"}
  <2> SUFFICES ASSUME NEW q \in Procs, pc'[q] \in {"load", "exit", "handler"} PROVE FALSE
    OBVIOUS
  <2>1. HasSensor(q) /\ pc[q] = pc'[q] BY <1>2 DEF HasSensor
  <2> QED BY <2>1, <1>4
<1>6. OneHolder' BY <1>2 DEF IInv, OneHolder
<1>7. NothingForgotten' BY <1>1, <1>2, <1>4 DEF NothingForgotten, HasList
<1>8. DiskInStep' BY <1>2, <1>3, <1>5 DEF DiskInStep
<1> QED BY <1>1, <1>6, <1>7, <1>8

LEMMA ServeKeeps ==
  ASSUME IInv, NEW d \in Procs, NEW c \in Procs, Serve(d, c)
  PROVE  IInv'
<1>1. c # d /\ pc[c] = "client" /\ pc[d] = "serve"
  BY DEF Serve, IInv, TypeOK
<1>2. /\ pc' \in [Procs -> Steps] /\ pc'[c] = "off"
      /\ \A q \in Procs \ {c} : pc'[q] = pc[q]
      /\ peer' \in [Procs -> Procs \cup {Nobody}] /\ peer'[c] = Nobody
      /\ \A q \in Procs \ {c} : peer'[q] = peer[q]
      /\ UNCHANGED <<sock, file, disk>>
  BY DEF Serve, IInv, TypeOK, Steps
<1>3. \A q \in Procs : pc'[q] = "client" <=> peer'[q] # Nobody
  BY <1>2 DEF IInv, TypeOK
<1>4. CASE Edit(d) /\ UNCHANGED stop
  <2>1. OneHolder' /\ NothingForgotten' /\ DiskInStep'
        /\ mem' \in [Procs -> Nat] /\ edits' \in Nat /\ kept' \in Nat
    BY <1>1, <1>2, <1>4, EditKeeps
  <2>2. TypeOK' BY <1>2, <1>3, <1>4, <2>1 DEF IInv, TypeOK
  <2> QED BY <2>1, <2>2 DEF IInv
<1>5. CASE stop' \in [Procs -> BOOLEAN] /\ UNCHANGED <<mem, edits, kept>>
  <2>1. TypeOK' BY <1>2, <1>3, <1>5 DEF IInv, TypeOK
  <2>2. \A q \in Procs : (HasSensor(q)' <=> HasSensor(q)) /\ (HasList(q)' <=> HasList(q))
    BY <1>1, <1>2 DEF HasSensor, HasList
  <2> QED BY <1>1, <1>2, <1>5, <2>1, <2>2
          DEF IInv, OneHolder, NothingForgotten, DiskInStep
<1>6. \/ Edit(d) /\ UNCHANGED stop
      \/ stop' \in [Procs -> BOOLEAN] /\ UNCHANGED <<mem, edits, kept>>
  BY DEF Serve, IInv, TypeOK
<1> QED BY <1>4, <1>5, <1>6

\* The load finds the list that is to be found.
LEMMA LoadKeeps ==
  ASSUME IInv, NEW p \in Procs, Load(p)
  PROVE  IInv'
<1>1. PICK n \in 0 .. edits : /\ disk # Torn => n = disk
                              /\ mem' = [mem EXCEPT ![p] = n]
                              /\ kept' = IF disk = Torn THEN n ELSE kept
  BY DEF Load
<1>2. n \in Nat BY DEF IInv, TypeOK
<1>3. /\ pc' \in [Procs -> Steps] /\ pc[p] = "load" /\ pc'[p] = "handler"
      /\ \A q \in Procs \ {p} : pc'[q] = pc[q]
      /\ UNCHANGED <<sock, peer, stop, file, disk, edits>>
      /\ mem' \in [Procs -> Nat] /\ mem'[p] = n
      /\ kept' \in Nat \cup {Torn}
  BY <1>1, <1>2 DEF Load, Go, IInv, TypeOK, Steps
<1>4. TypeOK' BY <1>3 DEF IInv, TypeOK
<1>5. \A q \in Procs : HasSensor(q)' <=> HasSensor(q) BY <1>3 DEF HasSensor
<1>6. \A q \in Procs : HasSensor(q) <=> q = p BY <1>3 DEF HasSensor, IInv, OneHolder
<1>7. kept' = n BY <1>1, <1>3 DEF IInv, DiskInStep
<1>8. OneHolder' /\ NothingForgotten'
  BY <1>3, <1>5, <1>6, <1>7 DEF OneHolder, NothingForgotten, HasList
<1>9. \A q \in Procs : pc'[q] \notin {"load", "exit"} /\ (pc'[q] = "handler" => q = p)
  <2> SUFFICES ASSUME NEW q \in Procs, q # p
               PROVE pc'[q] \notin {"load", "exit", "handler"}
    BY <1>3
  <2> QED BY <1>5, <1>6 DEF HasSensor
<1>10. DiskInStep' BY <1>1, <1>3, <1>5, <1>6, <1>7, <1>9 DEF DiskInStep
<1> QED BY <1>4, <1>8, <1>10 DEF IInv

LEMMA MainKeeps ==
  ASSUME IInv, NEW p \in Procs, MainStep(p)
  PROVE  IInv'
<1>t. /\ stop \in [Procs -> BOOLEAN] /\ disk \in Nat \cup {Torn}
      /\ sock \in [Procs -> {"new", "bound", "listening", "closed"}]
      /\ file \in Procs \cup {NoFile, Stale} /\ mem[p] \in Nat
      /\ pc \in [Procs -> Steps]
  BY DEF IInv, TypeOK
<1>1. CASE Bind(p)
  <2>1. /\ Go(p, "bind", "listen") /\ UNCHANGED <<peer, stop, mem, disk, edits, kept>>
        /\ sock' \in [Procs -> {"new", "bound", "listening", "closed"}]
        /\ file' \in Procs \cup {NoFile, Stale}
    BY <1>1, <1>t DEF Bind
  <2>2. HasSensor(p)' <=> HasSensor(p) BY <2>1, <1>t DEF Go, HasSensor
  <2> QED BY <2>1, <2>2, <1>t, GoKeeps DEF Go, HasList, HasSensor, Steps
<1>2. CASE Listen(p)
  BY <1>2, <1>t, GoKeeps DEF Listen, Go, HasSensor, HasList, Steps
<1>3. CASE InitSensor(p)
  <2>1. /\ pc' \in [Procs -> Steps] /\ pc[p] = "sensor" /\ pc'[p] = "load"
        /\ \A q \in Procs \ {p} : pc'[q] = pc[q]
        /\ UNCHANGED <<sock, peer, stop, mem, file, disk, edits, kept>>
        /\ \A q \in Procs : ~HasSensor(q)
    BY <1>3, <1>t DEF InitSensor, Go, Steps
  <2>2. TypeOK' BY <2>1 DEF IInv, TypeOK
  <2>3. \A q \in Procs : q # p => ~HasSensor(q)' BY <2>1 DEF HasSensor
  <2>4. kept' = disk' BY <2>1 DEF IInv, DiskInStep
  <2>5. \A q \in Procs : ~HasList(q)'
    BY <2>1, <2>3 DEF HasList
  <2>6. DiskInStep'
    BY <2>1, <2>3, <2>4 DEF DiskInStep, HasSensor
  <2> QED BY <2>2, <2>3, <2>5, <2>6 DEF IInv, OneHolder, NothingForgotten
<1>4. CASE InitFails(p)
  <2>1. ~HasSensor(p) /\ pc[p] # "client" BY <1>4 DEF InitFails, HasSensor
  <2> QED BY <1>4, <2>1, EndsReleases DEF InitFails, IInv, TypeOK
<1>5. CASE Load(p) BY <1>5, LoadKeeps
<1>6. CASE SetHandler(p)
  BY <1>6, <1>t, GoKeeps DEF SetHandler, Go, HasSensor, HasList, Steps
<1>7. CASE OpenWeb(p)
  BY <1>7, <1>t, GoKeeps DEF OpenWeb, Go, HasSensor, HasList, Steps
<1>8. CASE Leave(p)
  BY <1>8, <1>t, GoKeeps DEF Leave, Go, HasSensor, HasList, Steps
<1>9. CASE Close(p)
  <2>1. /\ pc' \in [Procs -> Steps] /\ pc'[p] = "unlink" /\ pc[p] = "close"
        /\ \A q \in Procs \ {p} :
             pc'[q] = pc[q] \/ (pc[q] = "client" /\ pc'[q] = "off")
        /\ \A q \in Procs : q # p => (pc'[q] = "client" <=> peer'[q] # Nobody)
        /\ peer' \in [Procs -> Procs \cup {Nobody}] /\ peer'[p] = Nobody
        /\ sock' \in [Procs -> {"new", "bound", "listening", "closed"}]
        /\ file' \in Procs \cup {NoFile, Stale}
        /\ UNCHANGED <<stop, mem, disk, edits, kept>>
    BY <1>9, HangupMoves DEF Close, IInv, Steps
  <2>2. \A q \in Procs : pc'[q] = "client" <=> peer'[q] # Nobody BY <2>1
  <2>3. TypeOK' BY <2>1, <2>2 DEF IInv, TypeOK
  <2>4. \A q \in Procs : (HasSensor(q)' <=> HasSensor(q)) /\ (HasList(q)' <=> HasList(q))
    BY <2>1 DEF HasSensor, HasList
  <2>5. \A q \in Procs : pc'[q] \in {"load", "exit", "handler"} => pc'[q] = pc[q]
    BY <2>1
  <2> QED BY <2>1, <2>3, <2>4, <2>5 DEF IInv, OneHolder, NothingForgotten, DiskInStep
<1>10. CASE Unlink(p)
  BY <1>10, <1>t, GoKeeps DEF Unlink, Go, HasSensor, HasList, Steps
<1>11. CASE SaveOpen(p)
  BY <1>11, <1>t, GoKeeps DEF SaveOpen, Go, HasSensor, HasList, Steps
<1>12. CASE SaveDone(p)
  <2>1. /\ pc' \in [Procs -> Steps] /\ pc[p] = "write" /\ pc'[p] = "exit"
        /\ \A q \in Procs \ {p} : pc'[q] = pc[q]
        /\ UNCHANGED <<sock, peer, stop, mem, file, edits, kept>> /\ disk' = mem[p]
    BY <1>12, <1>t DEF SaveDone, Go, Steps
  <2>2. TypeOK' BY <2>1, <1>t DEF IInv, TypeOK
  <2>3. \A q \in Procs : (HasSensor(q)' <=> HasSensor(q)) /\ (HasList(q)' <=> HasList(q))
    BY <2>1 DEF HasSensor, HasList
  <2>4. disk' = kept' BY <2>1 DEF IInv, NothingForgotten, HasList, HasSensor
  <2> QED BY <2>1, <2>2, <2>3, <2>4 DEF IInv, OneHolder, NothingForgotten, DiskInStep
<1>13. CASE Exit(p)
  <2>1. kept = disk BY <1>13 DEF Exit, IInv, DiskInStep
  <2> QED BY <1>13, <2>1, EndsReleases DEF Exit, IInv, TypeOK
<1> QED
  BY <1>1, <1>2, <1>3, <1>4, <1>5, <1>6, <1>7, <1>8, <1>9, <1>10, <1>11, <1>12, <1>13
  DEF MainStep

LEMMA StepKeeps == IInv /\ [Next]_vars => IInv'
<1> SUFFICES ASSUME IInv, [Next]_vars PROVE IInv' OBVIOUS
<1>t. kept \in Nat \cup {Torn} /\ disk \in Nat \cup {Torn} BY DEF IInv, TypeOK
<1>1. ASSUME NEW p \in Procs, Step(p) PROVE IInv'
  <2>1. CASE RunDaemon(p)
    BY <2>1, GoKeeps DEF RunDaemon, Go, HasSensor, HasList, Steps, IInv, TypeOK
  <2>2. CASE MainStep(p) BY <2>2, MainKeeps
  <2>3. CASE WebEdit(p)
    <3>1. OneHolder' /\ NothingForgotten' /\ DiskInStep'
          /\ mem' \in [Procs -> Nat] /\ edits' \in Nat /\ kept' \in Nat
      <4>1. pc' = pc /\ disk' = disk /\ pc[p] = "serve" /\ Edit(p) BY <2>3 DEF WebEdit
      <4>2. pc' \in [Procs -> Steps] BY <4>1 DEF IInv, TypeOK
      <4> QED BY <4>1, <4>2, EditKeeps
    <3>2. UNCHANGED <<pc, sock, peer, stop, file, disk>> BY <2>3 DEF WebEdit
    <3>3. TypeOK' BY <3>1, <3>2 DEF IInv, TypeOK
    <3> QED BY <3>1, <3>3 DEF IInv
  <2>4. CASE Sigterm(p)
    <3>1. UNCHANGED <<pc, sock, peer, mem, file, disk, edits, kept>>
          /\ stop' \in [Procs -> BOOLEAN]
      BY <2>4 DEF Sigterm, IInv, TypeOK
    <3>2. TypeOK' BY <3>1 DEF IInv, TypeOK
    <3> QED
      BY <3>1, <3>2 DEF IInv, OneHolder, NothingForgotten, DiskInStep, HasSensor, HasList
  <2>5. CASE Killed(p)
    <3>1. pc[p] # "client" /\ Ends(p) BY <2>5 DEF Killed
    <3>2. kept' \in Nat \cup {Torn} BY <2>5, <1>t DEF Killed
    <3>3. ~HasSensor(p) => kept' = kept BY <2>5 DEF Killed, HasList
    <3>4. HasSensor(p) => kept' = disk
      BY <2>5 DEF Killed, HasList, HasSensor, IInv, DiskInStep
    <3> QED BY <3>1, <3>2, <3>3, <3>4, EndsReleases
  <2>6. CASE WebFails(p) \/ Crash(p)
    BY <2>6, <1>t, EndsReleases DEF WebFails, Crash, Dies
  <2> QED BY <1>1, <2>1, <2>2, <2>3, <2>4, <2>5, <2>6 DEF Step
<1>2. CASE UNCHANGED vars
  <2>1. /\ UNCHANGED <<pc, sock, peer, stop, mem, file, disk>> /\ edits' = edits
        /\ kept' = kept
    BY <1>2 DEF vars
  <2> QED BY <2>1 DEF IInv, TypeOK, OneHolder, NothingForgotten, DiskInStep, HasSensor, HasList
<1> QED BY <1>1, <1>2, ClientKeeps, ServeKeeps DEF Next

\* The types of Lifecycle, and that exactly the clients have a peer.
THEOREM TypeCorrect == Spec => []TypeOK
<1>1. IInv => TypeOK BY DEF IInv
<1> QED BY <1>1, InitHolds, StepKeeps, PTL DEF Spec

\* main.c:141-155: a daemon has the last list, for any number of processes.
THEOREM NoEditForgotten == Spec => []NothingForgotten
<1>1. IInv => NothingForgotten BY DEF IInv
<1> QED BY <1>1, InitHolds, StepKeeps, PTL DEF Spec

\* main.c:130-131 and 153-154: a serving daemon's socket file is taken by nobody.
THEOREM ServingStaysReachable == Spec => StaysReachable
<1> DEFINE Stays == \A p \in Procs :
             pc[p] = "serve" /\ Reachable(p) /\ pc'[p] = "serve" => Reachable(p)'
<1>1. IInv /\ [Next]_vars => Stays
  <2> SUFFICES ASSUME IInv, [Next]_vars, NEW p \in Procs, pc[p] = "serve",
                      file = p, sock[p] = "listening", pc'[p] = "serve"
               PROVE  file' = p /\ sock'[p] = "listening"
    BY DEF Reachable
  <2>s. sock \in [Procs -> {"new", "bound", "listening", "closed"}]
    BY DEF IInv, TypeOK
  <2>1. ASSUME NEW q \in Procs, NEW to \in Steps \ {"serve"}, Hangup(q, to)
        PROVE  file' = p /\ sock'[p] = "listening"
    <3>1. q # p BY <2>1 DEF Hangup
    <3> QED BY <2>1, <3>1, <2>s DEF Hangup
  <2>2. ASSUME NEW q \in Procs, Step(q) PROVE file' = p /\ sock'[p] = "listening"
    <3>1. CASE Ends(q) BY <3>1, <2>1 DEF Ends, Steps
    <3>2. CASE Close(q) BY <3>2, <2>1 DEF Close, Steps
    <3>3. CASE Unlink(q)
      <4>1. HasSensor(p) /\ HasSensor(q) /\ pc[q] = "unlink" /\ p # q
        BY <3>3 DEF Unlink, Go, HasSensor
      <4> QED BY <4>1 DEF IInv, OneHolder
    <3>4. CASE Bind(q) BY <3>4, <2>s DEF Bind
    <3>5. CASE Listen(q) BY <3>5, <2>s DEF Listen
    <3>6. CASE RunDaemon(q)
      <4>1. q # p BY <3>6 DEF RunDaemon, Go
      <4> QED BY <3>6, <4>1, <2>s DEF RunDaemon
    <3>7. CASE UNCHANGED <<file, sock>> BY <3>7
    <3> QED
      BY <2>2, <3>1, <3>2, <3>3, <3>4, <3>5, <3>6, <3>7
      DEF Step, MainStep, InitSensor, InitFails, Load, SetHandler, OpenWeb, Leave, SaveOpen,
          SaveDone, Exit, WebEdit, Sigterm, Killed, WebFails, Crash, Dies
  <2>3. ASSUME NEW q \in Procs, NEW r \in Procs, RunClient(q, r) \/ Serve(q, r)
        PROVE  file' = p /\ sock'[p] = "listening"
    BY <2>3 DEF RunClient, Serve
  <2>4. CASE UNCHANGED vars BY <2>4 DEF vars
  <2> QED BY <2>2, <2>3, <2>4 DEF Next
<1>2. Stays => [\A p \in Procs :
        pc[p] = "serve" /\ Reachable(p) /\ pc'[p] = "serve" => Reachable(p)']_vars
  OBVIOUS
<1> QED BY <1>1, <1>2, InitHolds, StepKeeps, PTL DEF Spec, StaysReachable

=============================================================================
