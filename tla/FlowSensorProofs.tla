--------------------------- MODULE FlowSensorProofs ---------------------------
(***************************************************************************)
(* Machine-checked proofs about FlowSensor, for every value of Half,       *)
(* MaxPulseTick and MaxEdges.                                              *)
(*                                                                         *)
(* The argument: LockInv says which thread may be where while a thread     *)
(* holds pulseMutex; with it the pulse count that gpioChangeState loaded   *)
(* is still current when it stores the sum (LoadInv), the period cannot    *)
(* change under the callback, and the timer thread cannot be between its   *)
(* reset and its cancel with a period that is not 0, unless it was         *)
(* overtaken (CancelInv).                                                  *)
(***************************************************************************)
EXTENDS FlowSensor, TLAPS

\* flowSensorInit has set up the mutex and flowSensorQuit has not freed it.
Up == mainPc \in {"idle"} \cup Calls

LockInv ==
  /\ mainPc \in {"boot", "hooked"} =>
       /\ pulseMutex = "null" /\ owner = "nobody"
       /\ alertPc = "idle" /\ timerPc = "idle"
       /\ timerFunc = FALSE /\ period = 0
  /\ Up => /\ pulseMutex = "live"
           /\ alertPc # "idle" <=> owner = "alert"
           /\ timerPc = "reset" <=> owner = "timer"
  /\ mainPc \in {"freed", "unhooked", "quit"} => pulseMutex = "freed"
  /\ owner = "main" => mainPc \in Calls

LoadInv == alertPc = "store" => load = pulses

\* A stray pulse that is about to be dropped already opened its pour.
StrayInv ==
  strays + (IF alertPc = "count" /\ Elapsed(tick, lastTick) > MaxPulseTick
              THEN 1 ELSE 0) <= pours

CancelInv ==
  (Up /\ timerPc = "cancel" /\ period # 0)
    => (alertPc \in {"store", "arm"} \/ overtaken)

GuardInv ==
  (Up /\ period # 0) => (timerFunc \/ alertPc \in {"store", "arm"} \/ overtaken)

AccurateInv ==
  (Up /\ alertPc \in {"store", "arm", "unlock"})
    => Elapsed(tick, lastTick) - period \in {0, 1}

IInv ==
  /\ TypeOK
  /\ LockInv
  /\ LoadInv
  /\ PulseConservation
  /\ StrayInv
  /\ CancelInv
  /\ GuardInv
  /\ AccurateInv

-----------------------------------------------------------------------------
(* Tick arithmetic *)

\* uint32_t subtraction stays in range.
LEMMA ElapsedType ==
  ASSUME NEW a \in Ticks, NEW b \in Ticks
  PROVE  Elapsed(a, b) \in Ticks
BY FlowSensorAssumption DEF Ticks, TickMod, Elapsed

\* The roll over case of gpioChangeState does not overflow, and its period is
\* the true time or one tick less, for every width of the counter.
LEMMA PeriodWithinOneTick ==
  ASSUME NEW last \in Ticks, NEW now \in Ticks
  PROVE  /\ PulsePeriod(last, now) \in Ticks
         /\ Elapsed(now, last) - PulsePeriod(last, now) \in {0, 1}
BY FlowSensorAssumption DEF Ticks, TickMod, Elapsed, PulsePeriod

\* So a pulse that the filter drops really came after a long silence.
LEMMA StrayOpensPour ==
  ASSUME NEW last \in Ticks, NEW now \in Ticks, IsStray(PulsePeriod(last, now))
  PROVE  Elapsed(now, last) > MaxPulseTick
<1>1. /\ PulsePeriod(last, now) \in Int
      /\ Elapsed(now, last) \in Int
  BY PeriodWithinOneTick, ElapsedType DEF Ticks
<1>2. Elapsed(now, last) >= PulsePeriod(last, now)
  BY <1>1, PeriodWithinOneTick
<1> QED
  BY <1>1, <1>2, FlowSensorAssumption DEF IsStray

-----------------------------------------------------------------------------
(* The inductive invariant *)

\* The invariant holds before flowSensorInit.
LEMMA InitEstablishes == Init => IInv
<1> SUFFICES ASSUME Init PROVE IInv
  OBVIOUS
<1>1. TypeOK
  <2>1. 0 \in Ticks /\ 0 \in 0 .. MaxEdges
    BY FlowSensorAssumption DEF Ticks, TickMod
  <2> QED
    BY <2>1 DEF Init, TypeOK
<1>2. LockInv /\ LoadInv /\ CancelInv /\ GuardInv /\ AccurateInv
  BY DEF Init, LockInv, LoadInv, CancelInv, GuardInv, AccurateInv, Up, Calls
<1>3. PulseConservation /\ StrayInv
  BY DEF Init, PulseConservation, StrayInv
<1> QED
  BY <1>1, <1>2, <1>3 DEF IInv

\* The alert thread preserves the invariant.
LEMMA AlertPreserves ==
  ASSUME IInv, AlertThread
  PROVE  IInv'
<1> USE DEF IInv
<1>1. ASSUME NEW now \in Ticks, AlertLock(now)
      PROVE  IInv'
  <2> USE <1>1 DEF AlertLock, Edge, Acquire
  <2>1. OpensPour(now) \in {0, 1}
    BY DEF OpensPour
  <2>2. TypeOK'
    BY <2>1, FlowSensorAssumption DEF TypeOK, counters, mutexVars, gpioVars, mainVars
  <2>3. LockInv' /\ LoadInv'
    BY DEF TypeOK, LockInv, LoadInv, Up, Calls, Alive, mutexVars, gpioVars, mainVars
  <2>4. PulseConservation'
    BY DEF TypeOK, PulseConservation
  <2>5. StrayInv'
    BY <2>1 DEF TypeOK, StrayInv, OpensPour, Elapsed
  <2>6. CancelInv' /\ GuardInv' /\ AccurateInv'
    BY DEF TypeOK, LockInv, CancelInv, GuardInv, AccurateInv, Up, Calls, gpioVars,
           mainVars, mutexVars
  <2> QED
    BY <2>2, <2>3, <2>4, <2>5, <2>6
<1>2. ASSUME NEW now \in Ticks, AlertDefer(now)
      PROVE  IInv'
  <2> USE <1>2 DEF AlertDefer, Edge, Busy
  <2>1. OpensPour(now) \in {0, 1}
    BY DEF OpensPour
  <2>2. TypeOK'
    BY <2>1, FlowSensorAssumption DEF TypeOK, counters, mutexVars, gpioVars, mainVars
  <2>3. LockInv' /\ LoadInv'
    BY DEF TypeOK, LockInv, LoadInv, Up, Calls, mutexVars, gpioVars, mainVars
  <2>4. PulseConservation' /\ StrayInv'
    BY <2>1 DEF TypeOK, PulseConservation, StrayInv
  <2>5. CancelInv' /\ GuardInv' /\ AccurateInv'
    BY DEF TypeOK, LockInv, CancelInv, GuardInv, AccurateInv, Up, Calls, gpioVars,
           mainVars, mutexVars
  <2> QED
    BY <2>2, <2>3, <2>4, <2>5
<1>3. ASSUME AlertCount PROVE IInv'
  <2> USE <1>3 DEF AlertCount
  <2>1. /\ period' \in Ticks
        /\ Elapsed(tick, lastTick) - period' \in {0, 1}
        /\ IsStray(period') => Elapsed(tick, lastTick) > MaxPulseTick
    BY PeriodWithinOneTick, StrayOpensPour DEF TypeOK
  <2>2. TypeOK'
    BY <2>1 DEF TypeOK, counters, mutexVars, gpioVars, mainVars
  <2>3. LockInv' /\ LoadInv'
    BY DEF TypeOK, LockInv, LoadInv, Up, Calls, mutexVars, gpioVars, mainVars
  <2>4. PulseConservation'
    BY DEF TypeOK, PulseConservation
  <2>5. StrayInv'
    BY <2>1 DEF TypeOK, StrayInv
  <2>6. CancelInv' /\ GuardInv'
    BY DEF TypeOK, CancelInv, GuardInv, Up, Calls, gpioVars, mainVars
  <2>7. AccurateInv'
    BY <2>1 DEF AccurateInv, Elapsed
  <2> QED
    BY <2>2, <2>3, <2>4, <2>5, <2>6, <2>7
<1>4. ASSUME AlertStore PROVE IInv'
  <2> USE <1>4 DEF AlertStore
  <2>1. TypeOK'
    BY DEF TypeOK, counters, mutexVars, gpioVars, mainVars, history
  <2>2. LockInv' /\ LoadInv'
    BY DEF TypeOK, LockInv, LoadInv, Up, Calls, mutexVars, gpioVars, mainVars
  <2>3. PulseConservation' /\ StrayInv'
    BY DEF TypeOK, LoadInv, PulseConservation, StrayInv, history
  <2>4. CancelInv' /\ GuardInv' /\ AccurateInv'
    BY DEF TypeOK, CancelInv, GuardInv, AccurateInv, Elapsed, Up, Calls, gpioVars,
           mainVars, history
  <2> QED
    BY <2>1, <2>2, <2>3, <2>4
<1>5. ASSUME AlertArm PROVE IInv'
  <2> USE <1>5 DEF AlertArm
  <2>1. TypeOK'
    BY DEF TypeOK, counters, mutexVars, mainVars
  <2>2. LockInv' /\ LoadInv'
    BY DEF TypeOK, LockInv, LoadInv, Up, Calls, counters, mutexVars, mainVars
  <2>3. PulseConservation' /\ StrayInv'
    BY DEF TypeOK, PulseConservation, StrayInv, counters
  <2>4. CancelInv' /\ GuardInv' /\ AccurateInv'
    BY DEF TypeOK, CancelInv, GuardInv, AccurateInv, Elapsed, Up, Calls, counters, mainVars
  <2> QED
    BY <2>1, <2>2, <2>3, <2>4
<1>6. ASSUME AlertUnlock PROVE IInv'
  <2> USE <1>6 DEF AlertUnlock, Release
  <2>1. TypeOK'
    BY DEF TypeOK, gpioVars, mainVars, history
  <2>2. LockInv' /\ LoadInv'
    BY DEF TypeOK, LockInv, LoadInv, Up, Calls, gpioVars, mainVars
  <2>3. PulseConservation' /\ StrayInv'
    BY DEF TypeOK, PulseConservation, StrayInv, history
  <2>4. CancelInv' /\ GuardInv' /\ AccurateInv'
    BY DEF TypeOK, CancelInv, GuardInv, AccurateInv, Up, Calls, gpioVars, mainVars, history
  <2> QED
    BY <2>1, <2>2, <2>3, <2>4
<1> QED
  BY <1>1, <1>2, <1>3, <1>4, <1>5, <1>6 DEF AlertThread

\* The timer thread preserves the invariant.
LEMMA TimerPreserves ==
  ASSUME IInv, TimerThread
  PROVE  IInv'
<1> USE DEF IInv
<1>1. CASE TimerFire
  BY <1>1 DEF TimerFire, TypeOK, LockInv, LoadInv, PulseConservation, StrayInv, CancelInv,
              GuardInv, AccurateInv, Elapsed, Up, counters, mutexVars, gpioVars,
              alertVars, mainVars, history
<1>2. CASE TimerLock
  BY <1>2 DEF TimerLock, Acquire, TypeOK, LockInv, LoadInv, PulseConservation, StrayInv,
              CancelInv, GuardInv, AccurateInv, Elapsed, Up, Calls, counters, mutexVars,
              gpioVars, alertVars, mainVars, history
<1>3. CASE TimerReset
  <2> USE <1>3 DEF TimerReset, Release
  <2>1. TypeOK'
    BY FlowSensorAssumption
       DEF TypeOK, Ticks, TickMod, gpioVars, alertVars, mainVars, history
  <2>2. LockInv' /\ LoadInv'
    BY DEF TypeOK, LockInv, LoadInv, Up, Calls, gpioVars, alertVars, mainVars
  <2>3. PulseConservation' /\ StrayInv'
    BY DEF TypeOK, PulseConservation, StrayInv, Elapsed, alertVars, history
  <2>4. CancelInv' /\ GuardInv' /\ AccurateInv'
    BY DEF TypeOK, LockInv, CancelInv, GuardInv, AccurateInv, Up, Calls, alertVars, mainVars
  <2> QED
    BY <2>1, <2>2, <2>3, <2>4
<1>4. CASE TimerCancel
  BY <1>4 DEF TimerCancel, TypeOK, LockInv, LoadInv, PulseConservation, StrayInv, CancelInv,
              GuardInv, AccurateInv, Elapsed, Up, counters, mutexVars, alertVars,
              mainVars, history
<1> QED
  BY <1>1, <1>2, <1>3, <1>4 DEF TimerThread

\* flowSensorInit and flowSensorQuit preserve the invariant.
LEMMA LifecyclePreserves ==
  ASSUME IInv, Lifecycle
  PROVE  IInv'
<1> USE DEF IInv, counters, mutexVars, gpioVars, alertVars, history
<1>1. TypeOK'
  BY DEF Lifecycle, InitHook, InitMutex, InitFail, QuitFree, QuitUnhook, QuitTimer,
         TypeOK, Calls
<1>2. LockInv' /\ LoadInv'
  BY DEF Lifecycle, InitHook, InitMutex, InitFail, QuitFree, QuitUnhook, QuitTimer,
         TypeOK, LockInv, LoadInv, Up, Calls
<1>3. PulseConservation' /\ StrayInv'
  BY DEF Lifecycle, InitHook, InitMutex, InitFail, QuitFree, QuitUnhook, QuitTimer,
         PulseConservation, StrayInv, Elapsed
<1>4. CancelInv' /\ GuardInv' /\ AccurateInv'
  BY DEF Lifecycle, InitHook, InitMutex, InitFail, QuitFree, QuitUnhook, QuitTimer,
         LockInv, CancelInv, GuardInv, AccurateInv, Elapsed, Up, Calls
<1> QED
  BY <1>1, <1>2, <1>3, <1>4

\* The calls of the main thread preserve the invariant.
LEMMA MainCallsPreserve ==
  ASSUME IInv, MainCalls
  PROVE  IInv'
<1> USE DEF IInv, counters, mutexVars, gpioVars, alertVars, mainVars, history
<1>1. ASSUME NEW f \in Calls, Call(f) PROVE IInv'
  BY <1>1 DEF Call, TypeOK, LockInv, LoadInv, PulseConservation, StrayInv, CancelInv,
              GuardInv, AccurateInv, Elapsed, Up, Calls
<1>2. CASE CallLock
  BY <1>2 DEF CallLock, Acquire, TypeOK, LockInv, LoadInv, PulseConservation, StrayInv,
              CancelInv, GuardInv, AccurateInv, Elapsed, Up, Calls
<1>3. CASE GetPulses \/ GetFrequency
  BY <1>3 DEF GetPulses, GetFrequency, Return, Release, TypeOK, LockInv, LoadInv,
              PulseConservation, StrayInv, CancelInv, GuardInv, AccurateInv, Elapsed,
              Up, Calls, Ticks
<1>4. CASE ResetPulses
  <2>1. TypeOK' /\ LockInv'
    BY <1>4 DEF ResetPulses, Return, Release, TypeOK, LockInv, Up, Calls
  <2>2. LoadInv' /\ PulseConservation' /\ StrayInv'
    BY <1>4 DEF ResetPulses, Return, Release, TypeOK, LockInv, Up, Calls, LoadInv,
                PulseConservation, StrayInv, Elapsed
  <2>3. CancelInv' /\ GuardInv' /\ AccurateInv'
    BY <1>4 DEF ResetPulses, Return, TypeOK, CancelInv, GuardInv, AccurateInv, Elapsed,
                Up, Calls
  <2> QED
    BY <2>1, <2>2, <2>3
<1> QED
  BY <1>1, <1>2, <1>3, <1>4 DEF MainCalls

\* Every step of every thread preserves the invariant.
LEMMA NextPreserves == IInv /\ [Next]_vars => IInv'
<1> SUFFICES ASSUME IInv, [Next]_vars PROVE IInv'
  OBVIOUS
<1> USE DEF IInv, vars, counters, mutexVars, gpioVars, alertVars, mainVars, history
<1>1. CASE Fault
  <2> USE <1>1 DEF Fault
  <2>1. TypeOK'
    BY DEF TypeOK
  <2>2. LockInv' /\ LoadInv' /\ PulseConservation' /\ StrayInv'
    BY DEF LockInv, LoadInv, PulseConservation, StrayInv, Elapsed, Up
  <2>3. CancelInv' /\ GuardInv' /\ AccurateInv'
    BY DEF CancelInv, GuardInv, AccurateInv, Elapsed, Up
  <2> QED
    BY <2>1, <2>2, <2>3
<1>2. CASE UNCHANGED vars
  <2>1. TypeOK'
    BY <1>2 DEF TypeOK
  <2>2. LockInv' /\ LoadInv' /\ PulseConservation' /\ StrayInv'
    BY <1>2 DEF LockInv, LoadInv, PulseConservation, StrayInv, Elapsed, Up
  <2>3. CancelInv' /\ GuardInv' /\ AccurateInv'
    BY <1>2 DEF CancelInv, GuardInv, AccurateInv, Elapsed, Up
  <2> QED
    BY <2>1, <2>2, <2>3
<1> QED
  BY <1>1, <1>2, AlertPreserves, TimerPreserves, LifecyclePreserves, MainCallsPreserve
     DEF Next, Ended

\* The inductive invariant holds throughout.
THEOREM Invariance == Spec => []IInv
BY InitEstablishes, NextPreserves, PTL DEF Spec

-----------------------------------------------------------------------------
(* The results *)

\* Every variable keeps its type.
THEOREM TypeCorrect == Spec => []TypeOK
<1>1. IInv => TypeOK
  BY DEF IInv
<1> QED
  BY <1>1, Invariance, PTL

\* No interleaving of the three threads loses a pulse or counts one twice.
THEOREM PulsesConserved == Spec => []PulseConservation
<1>1. IInv => PulseConservation
  BY DEF IInv
<1> QED
  BY <1>1, Invariance, PTL

\* The filter for stray ticks costs at most one pulse a pour, for every width of
\* the tick counter.
THEOREM StraysBounded == Spec => []OneStrayPerPour
<1>1. IInv => OneStrayPerPour
  BY DEF IInv, TypeOK, StrayInv, OneStrayPerPour
<1> QED
  BY <1>1, Invariance, PTL

\* A running sensor with a period that is not 0 has its reset timer armed or
\* about to be, unless a cancel overtook the arming.
THEOREM PeriodHasTimer == Spec => []PeriodGuarded
<1>1. IInv => PeriodGuarded
  BY DEF IInv, GuardInv, PeriodGuarded, Running, Up
<1> QED
  BY <1>1, Invariance, PTL

\* The callback's period is exact up to the one tick lost at a roll over, and
\* no other thread changes it while the callback holds the mutex.
THEOREM PeriodIsAccurate == Spec => []PeriodAccurate
<1>1. IInv => PeriodAccurate
  BY DEF IInv, AccurateInv, PeriodAccurate, Running, Up
<1> QED
  BY <1>1, Invariance, PTL

=============================================================================
