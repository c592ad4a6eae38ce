--------------------------- MODULE TapServerProofs ---------------------------
(***************************************************************************)
(* Proofs about the main loop on top of the flow sensor: it uses the       *)
(* sensor by its specification, so what FlowSensorProofs shows of the      *)
(* sensor holds in the daemon; no pulse is billed twice; and what pages    *)
(* show is held or billed, for any tick counter and any number of edges.   *)
(***************************************************************************)
EXTENDS TapServer, FlowSensorProofs

-----------------------------------------------------------------------------
(* The sensor inside the daemon *)

\* Every step of the daemon is a step of the sensor or leaves it alone.
LEMMA TapStepIsSensorStep == [TapNext]_tapVars => [Next]_vars
<1>1. CASE SensorStep
  BY <1>1 DEF SensorStep, Next, Lifecycle, MainCalls
<1>2. CASE LoopStep
  <2>1. {"GetPulses", "GetFrequency", "ResetPulses"} = Calls
    BY DEF Calls
  <2> QED
    BY <1>2, <2>1 DEF LoopStep, ZeroFrame, Bill, ZeroDone, Enter, PollReturn, FreeReturn, Show, Broadcast,
                      NoBroadcast, NoClient, Client, Served, Next, MainCalls
<1>3. CASE Sigterm \/ UNCHANGED tapVars
  BY <1>3 DEF Sigterm, tapVars
<1> QED
  BY <1>1, <1>2, <1>3 DEF TapNext

\* The daemon runs the sensor by its specification.
THEOREM RunsSensor == TapSpec => Spec
<1>1. TapInit => Init
  BY DEF TapInit
<1> QED
  BY <1>1, TapStepIsSensorStep, PTL DEF TapSpec, Spec

\* Pulse conservation and the other results about the sensor hold in the daemon.
THEOREM SensorHolds ==
  TapSpec => [](PulseConservation /\ OneStrayPerPour /\ PeriodGuarded /\ PeriodAccurate)
  BY RunsSensor, PulsesConserved, StraysBounded, PeriodHasTimer, PeriodIsAccurate, PTL

-----------------------------------------------------------------------------
(* The inductive invariant *)

\* Where the main thread may be in the sensor, for each place in the loop.
LoopInv ==
  /\ loopPc = "start" => mainPc \in {"boot", "hooked", "failed", "idle"}
  /\ loopPc \in {"poll", "accept", "request"} => mainPc = "idle"
  /\ loopPc \in {"bill", "show"} => mainPc \in {"GetPulses", "idle"}
  /\ loopPc = "zero" => mainPc \in {"ResetPulses", "idle"}
  /\ loopPc = "frequency" => mainPc \in {"GetFrequency", "idle"}
  /\ loopPc = "left" => mainPc \in {"idle", "freed", "unhooked", "quit"}

\* What flowSensorGetPulses returned is still in the counter.
ReadInv == (loopPc \in {"bill", "show"} /\ mainPc = "idle") => ret <= pulses

\* What pages show was billed since the broadcast.
ShownBilled == billed >= billedAtShow + shown

\* What is read for a bill is no less than what pages show, unless that was billed, and
\* so at the reset of the counter it was.
ShownInv ==
  /\ billed >= billedAtShow
  /\ shown <= pulses \/ ShownBilled
  /\ (loopPc = "bill" /\ mainPc = "idle") => shown <= ret \/ ShownBilled
  /\ loopPc = "zero" => ShownBilled

TapInv == IInv /\ TapTypeOK /\ LoopInv /\ ReadInv /\ BilledOnce /\ ShownInv

\* The invariant holds at the start.
LEMMA TapInitEstablishes == TapInit => TapInv
<1> SUFFICES ASSUME TapInit PROVE TapInv
  OBVIOUS
<1>1. IInv
  BY InitEstablishes DEF TapInit
<1>2. TapTypeOK
  BY <1>1 DEF TapInit, IInv, TapTypeOK
<1>3. LoopInv /\ ReadInv /\ BilledOnce /\ ShownInv
  BY DEF TapInit, Init, LoopInv, ReadInv, BilledOnce, ShownInv, ShownBilled
<1> QED
  BY <1>1, <1>2, <1>3 DEF TapInv

\* pigpio's threads leave the main thread alone and only add to the pulses.
LEMMA ThreadsOnlyAdd ==
  ASSUME IInv, AlertThread \/ TimerThread \/ Fault \/ Ended
  PROVE  /\ UNCHANGED <<mainPc, ret, cleared>>
         /\ pulses' >= pulses
<1>1. TypeOK /\ LoadInv
  BY DEF IInv
<1>2. CASE AlertThread
  <2>1. CASE AlertStore
    BY <1>1, <2>1 DEF AlertStore, TypeOK, LoadInv, mainVars, history
  <2>2. CASE \E now \in Ticks : AlertLock(now) \/ AlertDefer(now)
    BY <1>1, <2>2 DEF AlertLock, AlertDefer, Edge, TypeOK, mainVars
  <2>3. CASE AlertCount \/ AlertArm \/ AlertUnlock
    BY <1>1, <2>3 DEF AlertCount, AlertArm, AlertUnlock, TypeOK, mainVars, counters, history
  <2> QED
    BY <1>2, <2>1, <2>2, <2>3 DEF AlertThread
<1>3. CASE TimerThread
  BY <1>1, <1>3 DEF TimerThread, TimerFire, TimerLock, TimerReset, TimerCancel, TypeOK,
                    mainVars, counters, history
<1>4. CASE Fault \/ Ended
  BY <1>1, <1>4 DEF Fault, Ended, TypeOK, vars, mainVars, counters, history
<1> QED
  BY <1>2, <1>3, <1>4

\* A bound by a sum stays when a summand grows.
LEMMA SumGrows ==
  ASSUME NEW x \in Nat, NEW y \in Nat, NEW z \in Nat, NEW w \in Nat, x <= y + z, w >= z
  PROVE  x <= y + w
  OBVIOUS

\* The sensor's steps preserve what the loop relies on.
LEMMA SensorStepPreserves ==
  ASSUME TapInv, SensorStep, TypeOK'
  PROVE  TapTypeOK' /\ LoopInv' /\ ReadInv' /\ BilledOnce' /\ ShownInv'
<1>1. UNCHANGED <<loopPc, running, freeing, shown, billed, billedAtShow>>
  BY DEF SensorStep, server
<1>2. TapTypeOK /\ TypeOK /\ LoopInv /\ ReadInv /\ BilledOnce /\ ShownInv /\ IInv
  BY DEF TapInv, TapTypeOK
<1>3. TapTypeOK'
  BY <1>1, <1>2 DEF TapTypeOK
<1>4. /\ pulses \in Nat /\ cleared \in Nat /\ ret \in Nat /\ billed \in Nat /\ shown \in Nat /\ billedAtShow \in Nat
      /\ pulses' \in Nat /\ cleared' \in Nat
  BY <1>2 DEF TapTypeOK, TypeOK
<1>5. CASE AlertThread \/ TimerThread \/ Fault \/ Ended
  <2>1. UNCHANGED <<mainPc, ret, cleared>> /\ pulses' >= pulses
    BY <1>2, <1>5, ThreadsOnlyAdd
  <2>2. LoopInv'
    BY <1>1, <1>2, <2>1 DEF LoopInv
  <2>3. ReadInv'
    BY <1>1, <1>2, <1>4, <2>1 DEF ReadInv
  <2>4. /\ loopPc' = loopPc /\ mainPc' = mainPc /\ billed' = billed /\ shown' = shown
        /\ billedAtShow' = billedAtShow
        /\ cleared' = cleared
    BY <1>1, <2>1
  <2>5. BilledOnce'
    <3>1. CASE loopPc = "zero" /\ mainPc = "ResetPulses"
      <4>1. billed <= cleared + pulses
        BY <1>2, <3>1 DEF BilledOnce
      <4>2. pulses' >= pulses
        BY <2>1
      <4>3. billed <= cleared + pulses'
        BY <1>4, <4>1, <4>2, SumGrows
      <4> QED
        BY <2>4, <3>1, <4>3 DEF BilledOnce
    <3>2. CASE ~(loopPc = "zero" /\ mainPc = "ResetPulses")
      BY <1>2, <2>4, <3>2 DEF BilledOnce
    <3> QED
      BY <3>1, <3>2
  <2>6. ShownInv'
    BY <1>2, <1>4, <2>1, <2>4 DEF ShownInv, ShownBilled
  <2> QED
    BY <1>3, <2>2, <2>3, <2>5, <2>6
<1>6. CASE InitHook \/ InitMutex \/ InitFail
  <2>1. /\ mainPc \in {"boot", "hooked"} /\ mainPc' \in {"hooked", "idle", "failed"}
        /\ UNCHANGED <<pulses, ret, cleared>>
    BY <1>6 DEF InitHook, InitMutex, InitFail, counters, history
  <2>2. loopPc = "start"
    BY <1>2, <2>1 DEF LoopInv, TapTypeOK
  <2>3. LoopInv' /\ ReadInv' /\ BilledOnce' /\ ShownInv'
    BY <1>1, <1>2, <2>1, <2>2 DEF LoopInv, ReadInv, BilledOnce, ShownInv, ShownBilled
  <2> QED
    BY <1>3, <2>3
<1>7. CASE CallLock
  <2>1. UNCHANGED <<mainPc, pulses, ret, cleared>>
    BY <1>7 DEF CallLock, counters, mainVars, history
  <2>2. LoopInv' /\ ReadInv' /\ BilledOnce' /\ ShownInv'
    BY <1>1, <1>2, <2>1 DEF LoopInv, ReadInv, BilledOnce, ShownInv, ShownBilled
  <2> QED
    BY <1>3, <2>2
<1>8. CASE GetPulses \/ GetFrequency
  <2>1. /\ mainPc' = "idle" /\ UNCHANGED <<pulses, cleared>>
        /\ \/ mainPc = "GetPulses" /\ ret' = pulses
           \/ mainPc = "GetFrequency"
    BY <1>8 DEF GetPulses, GetFrequency, Return
  <2>2. loopPc \in {"bill", "show", "frequency"}
    BY <1>2, <2>1 DEF LoopInv, TapTypeOK
  <2>3. loopPc \in {"bill", "show"} => ret' = pulses
    BY <1>2, <2>1, <2>2 DEF LoopInv
  <2>4. LoopInv' /\ ReadInv' /\ BilledOnce' /\ ShownInv'
    BY <1>1, <1>2, <1>4, <2>1, <2>2, <2>3 DEF LoopInv, ReadInv, BilledOnce, ShownInv, ShownBilled
  <2> QED
    BY <1>3, <2>4
<1>9. CASE ResetPulses
  <2>1. /\ mainPc = "ResetPulses" /\ mainPc' = "idle"
        /\ pulses' = 0 /\ cleared' = cleared + pulses
    BY <1>9 DEF ResetPulses, Return
  <2>2. loopPc = "zero"
    BY <1>2, <2>1 DEF LoopInv, TapTypeOK
  <2>3. LoopInv' /\ ReadInv' /\ BilledOnce' /\ ShownInv'
    BY <1>1, <1>2, <1>4, <2>1, <2>2 DEF LoopInv, ReadInv, BilledOnce, ShownInv, ShownBilled
  <2> QED
    BY <1>3, <2>3
<1>10. CASE loopPc = "left" /\ (QuitFree \/ QuitUnhook \/ QuitTimer)
  <2>1. mainPc' \in {"freed", "unhooked", "quit"} /\ UNCHANGED <<pulses, ret, cleared>>
    BY <1>10 DEF QuitFree, QuitUnhook, QuitTimer, counters, history
  <2>2. LoopInv' /\ ReadInv' /\ BilledOnce' /\ ShownInv'
    BY <1>1, <1>2, <1>10, <2>1 DEF LoopInv, ReadInv, BilledOnce, ShownInv, ShownBilled
  <2> QED
    BY <1>3, <2>2
<1> QED
  BY <1>5, <1>6, <1>7, <1>8, <1>9, <1>10 DEF SensorStep

\* The loop's own steps preserve it.
LEMMA LoopStepPreserves ==
  ASSUME TapInv, LoopStep, TypeOK'
  PROVE  TapTypeOK' /\ LoopInv' /\ ReadInv' /\ BilledOnce' /\ ShownInv'
<1>1. TapTypeOK /\ LoopInv /\ ReadInv /\ BilledOnce /\ ShownInv
  BY DEF TapInv
<1>2. /\ pulses \in Nat /\ cleared \in Nat /\ ret \in Nat /\ billed \in Nat /\ shown \in Nat /\ billedAtShow \in Nat
      /\ running \in BOOLEAN /\ freeing \in BOOLEAN
  BY <1>1 DEF TapTypeOK, TypeOK
<1>3. UNCHANGED <<pulses, ret, cleared>>
  BY DEF LoopStep, ZeroFrame, Bill, ZeroDone, Enter, PollReturn, FreeReturn, Show, Broadcast, NoBroadcast,
         NoClient, Client, Served, Call, vars, counters, mainVars, history
<1>4. CASE ZeroFrame \/ PollReturn \/ Show
  <2>1. /\ UNCHANGED <<running, freeing, shown, billed, billedAtShow>> /\ loopPc # "zero" /\ loopPc' # "zero"
        /\ \/ loopPc' = "bill" /\ mainPc' = "GetPulses"
           \/ loopPc' = "frequency" /\ mainPc' = "GetFrequency"
           \/ loopPc' = "show" /\ mainPc' = "GetPulses"
    BY <1>4 DEF ZeroFrame, PollReturn, Show, Call
  <2> QED
    BY <1>1, <1>2, <1>3, <2>1 DEF TapTypeOK, LoopInv, ReadInv, BilledOnce, ShownInv, ShownBilled
<1>5. CASE Bill
  <2>1. /\ loopPc = "bill" /\ mainPc = "idle" /\ loopPc' = "zero" /\ mainPc' = "ResetPulses"
        /\ billed' = billed + ret /\ UNCHANGED <<running, freeing, shown, billedAtShow>>
    BY <1>5 DEF Bill, Call
  <2> QED
    BY <1>1, <1>2, <1>3, <2>1 DEF TapTypeOK, LoopInv, ReadInv, BilledOnce, ShownInv, ShownBilled
<1>6. CASE ZeroDone
  <2>1. /\ loopPc = "zero" /\ mainPc = "idle" /\ loopPc' = "poll" /\ mainPc' = "idle"
        /\ UNCHANGED <<running, freeing, shown, billed, billedAtShow>>
    BY <1>6 DEF ZeroDone, vars, mainVars
  <2> QED
    BY <1>1, <1>2, <1>3, <2>1 DEF TapTypeOK, LoopInv, ReadInv, BilledOnce, ShownInv, ShownBilled
<1>7. CASE Broadcast
  <2>1. /\ loopPc = "show" /\ mainPc = "idle" /\ loopPc' = "accept" /\ mainPc' = "idle"
        /\ shown' = ret /\ billedAtShow' = billed /\ UNCHANGED <<running, freeing, billed>>
    BY <1>7 DEF Broadcast, vars, mainVars
  <2> QED
    BY <1>1, <1>2, <1>3, <2>1 DEF TapTypeOK, LoopInv, ReadInv, BilledOnce, ShownInv, ShownBilled
<1>8. CASE Enter \/ FreeReturn \/ NoBroadcast \/ NoClient \/ Client \/ Served
  <2>1. /\ loopPc \in {"start", "poll", "frequency", "accept", "request"}
        /\ loopPc' \in {"poll", "left", "accept", "request"}
        /\ UNCHANGED <<mainPc, shown, billed, billedAtShow>>
    BY <1>8 DEF Enter, FreeReturn, NoBroadcast, NoClient, Client, Served, LoopTest, vars, mainVars
  <2>2. mainPc = "idle"
    BY <1>1, <1>8 DEF Enter, FreeReturn, NoBroadcast, NoClient, Client, Served, LoopInv
  <2>3. running' \in BOOLEAN /\ freeing' \in BOOLEAN
    BY <1>2, <1>8, Zenon DEF Enter, FreeReturn, NoBroadcast, NoClient, Client, Served, LoopTest
  <2> QED
    BY <1>1, <1>2, <1>3, <2>1, <2>2, <2>3
       DEF TapTypeOK, LoopInv, ReadInv, BilledOnce, ShownInv, ShownBilled
<1> QED
  BY <1>4, <1>5, <1>6, <1>7, <1>8 DEF LoopStep

\* Every step of the daemon preserves the invariant.
LEMMA TapNextPreserves == TapInv /\ [TapNext]_tapVars => TapInv'
<1> SUFFICES ASSUME TapInv, [TapNext]_tapVars PROVE TapInv'
  OBVIOUS
<1>1. IInv' /\ TypeOK'
  BY TapStepIsSensorStep, NextPreserves DEF TapInv, IInv
<1>2. CASE SensorStep
  BY <1>1, <1>2, SensorStepPreserves DEF TapInv
<1>3. CASE LoopStep
  BY <1>1, <1>3, LoopStepPreserves DEF TapInv
<1>4. CASE Sigterm \/ UNCHANGED tapVars
  <2>1. /\ UNCHANGED <<mainPc, ret, pulses, cleared, loopPc, freeing, shown, billed, billedAtShow>>
        /\ running' \in {running, FALSE}
    BY <1>4 DEF Sigterm, tapVars, vars, server, mainVars, counters, history
  <2>2. TapTypeOK'
    BY <1>1, <2>1 DEF TapInv, TapTypeOK
  <2>3. LoopInv' /\ ReadInv' /\ BilledOnce' /\ ShownInv'
    BY <2>1 DEF TapInv, LoopInv, ReadInv, BilledOnce, ShownInv, ShownBilled
  <2> QED
    BY <1>1, <2>2, <2>3 DEF TapInv
<1> QED
  BY <1>2, <1>3, <1>4 DEF TapNext

\* The inductive invariant holds throughout.
THEOREM TapInvariance == TapSpec => []TapInv
  BY TapInitEstablishes, TapNextPreserves, PTL DEF TapSpec

-----------------------------------------------------------------------------
(* The results *)

\* Every variable of the daemon keeps its type.
THEOREM TapTypeCorrect == TapSpec => []TapTypeOK
<1>1. TapInv => TapTypeOK
  BY DEF TapInv
<1> QED
  BY <1>1, TapInvariance, PTL

\* However pulses, zero frames and broadcasts interleave, no pulse is billed twice.
THEOREM NothingBilledTwice == TapSpec => []BilledOnce
<1>1. TapInv => BilledOnce
  BY DEF TapInv
<1> QED
  BY <1>1, TapInvariance, PTL

\* Pages show pulses that the sensor holds, or that zero frames since the broadcast have
\* billed, however pulses, zero frames and broadcasts interleave.
THEOREM ShownIsHeldOrBilled == TapSpec => []ShownHeldOrBilled
<1>1. TapInv => ShownHeldOrBilled
  BY DEF TapInv, ShownInv, ShownBilled, ShownHeldOrBilled
<1> QED
  BY <1>1, TapInvariance, PTL

=============================================================================
