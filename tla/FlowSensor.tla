------------------------------ MODULE FlowSensor ------------------------------
(***************************************************************************)
(* The flow sensor of the Raspberry Pi build (flowsensor_pi.c).            *)
(*                                                                         *)
(* Three threads run its code: pigpio's alert thread calls gpioChangeState *)
(* on every edge of the pin, pigpio's timer thread calls                   *)
(* gpioResetFlowPeriod, and the daemon's main thread calls the flowSensor* *)
(* functions.  They share pulses and period under pulseMutex; localPulses  *)
(* and lastTick belong to the alert thread alone.                          *)
(*                                                                         *)
(* Time is abstract: the armed timer may fire at any moment, and an edge   *)
(* may carry any tick.  Edges with level 0 and edges of other pins return  *)
(* at once from the callback and are left out.                             *)
(***************************************************************************)
EXTENDS Integers

CONSTANTS
  Half,          \* UINT32_HALF, 2^31 - 1 in the build
  MaxPulseTick,  \* MAX_PULSE_TICK
  MaxEdges       \* bound: rising edges delivered to the callback

ASSUME FlowSensorAssumption ==
  /\ Half \in Nat
  /\ MaxPulseTick \in Nat
  /\ MaxEdges \in Nat

TickMod == 2 * Half + 2          \* 2^32 in the build
Ticks   == 0 .. (TickMod - 1)    \* the values of a uint32_t

VARIABLES
  pulses, localPulses, period, lastTick,  \* the file's static variables
  pulseMutex,   \* "null" before flowSensorInit allocates it, then "live", "freed"
  owner,        \* the thread that holds the live mutex, or "nobody"
  alertFunc,    \* gpioChangeState is registered with pigpio
  timerFunc,    \* gpioResetFlowPeriod is registered with timer 0
  alertPc,      \* where the alert thread is in gpioChangeState
  tick,         \* the tick argument of that call
  load,         \* pulses as that call read it, before it writes the sum back
  timerPc,      \* where the timer thread is in gpioResetFlowPeriod
  mainPc,       \* the flowSensor* function the main thread is in
  ret,          \* what the last Get* function returned
  crashed       \* a thread took a fault on the mutex: the process is gone

VARIABLES       \* history variables, read by no guard of the program
  edges,        \* rising edges delivered
  strays,       \* pulses the MAX_PULSE_TICK filter dropped
  cleared,      \* pulses flowSensorResetPulses dropped
  pours,        \* edges that came after a silence longer than MAX_PULSE_TICK
  overtaken     \* the latest arming of the timer fell between the timer
                \* thread's unlock and its cancel

counters   == <<pulses, localPulses, period, lastTick>>
mutexVars  == <<pulseMutex, owner>>
gpioVars   == <<alertFunc, timerFunc>>
alertVars  == <<alertPc, tick, load>>
mainVars   == <<mainPc, ret>>
history    == <<edges, strays, cleared, pours, overtaken>>
vars == <<counters, mutexVars, gpioVars, alertVars, timerPc, mainVars, crashed,
          history>>

Calls == {"GetPulses", "GetFrequency", "ResetPulses"}

-----------------------------------------------------------------------------
(* Ticks *)

\* a - b in uint32_t arithmetic
Elapsed(a, b) == IF a >= b THEN a - b ELSE (a - b) + TickMod

\* Mutants of PulsePeriod: no modular subtraction; the new tick forgotten.
PulsePeriod_Signed(last, now) == now - last
PulsePeriod_DropsTick(last, now) ==
  IF last > Half /\ now < Half THEN (TickMod - 1) - last ELSE Elapsed(now, last)

\* The period gpioChangeState computes, with its own case for a rolled over
\* counter.
PulsePeriod(last, now) ==
  IF last > Half /\ now < Half THEN now + ((TickMod - 1) - last)
                               ELSE Elapsed(now, last)

\* Mutant of IsStray: off by one at the limit.
IsStray_AtLimit(p) == p >= MaxPulseTick

IsStray(p) == p > MaxPulseTick

\* History: does an edge at "now" open a new pour?
OpensPour(now) == IF Elapsed(now, lastTick) > MaxPulseTick THEN 1 ELSE 0

-----------------------------------------------------------------------------
(* The mutex.  Operations on a freed mutex are undefined: the memory may   *)
(* still read as an unlocked mutex, as a locked one, or fault.             *)

Alive == ~crashed /\ mainPc \notin {"quit", "failed"}

Acquire(thread) ==
  \/ /\ pulseMutex = "live" /\ owner = "nobody"
     /\ owner' = thread
     /\ UNCHANGED pulseMutex
  \/ /\ pulseMutex = "freed"
     /\ UNCHANGED mutexVars

Release(thread) ==
  /\ owner' = IF pulseMutex = "live" /\ owner = thread THEN "nobody" ELSE owner
  /\ UNCHANGED pulseMutex

Busy == (pulseMutex = "live" /\ owner # "nobody") \/ pulseMutex = "freed"

\* A thread about to lock or unlock a mutex that does not exist faults.
Fault ==
  /\ Alive
  /\ \/ pulseMutex = "null" /\ alertFunc /\ edges < MaxEdges
     \/ pulseMutex = "freed" /\ alertFunc /\ edges < MaxEdges
     \/ pulseMutex = "freed" /\ (alertPc = "unlock" \/ timerPc \in {"lock", "reset"})
  /\ crashed' = TRUE
  /\ UNCHANGED <<counters, mutexVars, gpioVars, alertVars, timerPc, mainVars, history>>

-----------------------------------------------------------------------------
(* The alert thread: gpioChangeState *)

Edge(now) ==
  /\ Alive /\ alertFunc
  /\ alertPc = "idle"
  /\ edges < MaxEdges
  /\ edges' = edges + 1
  /\ pours' = pours + OpensPour(now)
  /\ tick' = now
  /\ UNCHANGED <<pulses, period, gpioVars, load, timerPc, mainVars, crashed,
                 strays, cleared, overtaken>>

\* pthread_mutex_trylock succeeded
AlertLock(now) ==
  /\ Edge(now)
  /\ Acquire("alert")
  /\ alertPc' = "count"
  /\ UNCHANGED <<localPulses, lastTick>>

\* pthread_mutex_trylock failed: the pulse is deferred and the call returns
AlertDefer(now) ==
  /\ Edge(now)
  /\ Busy
  /\ localPulses' = localPulses + 1
  /\ lastTick' = now
  /\ UNCHANGED <<mutexVars, alertPc>>

\* The period is saved; a stray pulse is dropped, any other is about to be
\* added: pulses++ and += are a read and a later write.
AlertCount ==
  /\ Alive /\ alertPc = "count"
  /\ period' = PulsePeriod(lastTick, tick)
  /\ \/ /\ ~IsStray(period')
        /\ alertPc' = "store"
        /\ load' = pulses
        /\ UNCHANGED strays
     \/ /\ IsStray(period')
        /\ alertPc' = "arm"
        /\ strays' = strays + 1
        /\ UNCHANGED load
  /\ UNCHANGED <<pulses, localPulses, lastTick, mutexVars, gpioVars, tick, timerPc,
                 mainVars, crashed, edges, cleared, pours, overtaken>>

\* Mutant of AlertStore: localPulses is added and not cleared.
AlertStore_KeepsDeferred ==
  /\ Alive /\ alertPc = "store"
  /\ alertPc' = "arm"
  /\ pulses' = load + 1 + localPulses
  /\ UNCHANGED <<localPulses, period, lastTick, mutexVars, gpioVars, tick, load, timerPc,
                 mainVars, crashed, history>>

\* The pulse and those deferred before it reach the shared counter.
AlertStore ==
  /\ Alive /\ alertPc = "store"
  /\ alertPc' = "arm"
  /\ pulses' = load + 1 + localPulses
  /\ localPulses' = 0
  /\ UNCHANGED <<period, lastTick, mutexVars, gpioVars, tick, load, timerPc, mainVars,
                 crashed, history>>

\* Mutant of AlertArm: the timer is not set.
AlertArm_Skipped ==
  /\ Alive /\ alertPc = "arm"
  /\ alertPc' = "unlock"
  /\ UNCHANGED <<counters, mutexVars, gpioVars, tick, load, timerPc, mainVars, crashed,
                 history>>

AlertArm ==
  /\ Alive /\ alertPc = "arm"
  /\ alertPc' = "unlock"
  /\ timerFunc' = TRUE
  /\ overtaken' = (timerPc = "cancel")
  /\ UNCHANGED <<counters, mutexVars, alertFunc, tick, load, timerPc, mainVars, crashed,
                 edges, strays, cleared, pours>>

\* Mutant of AlertUnlock: the callback returns with the mutex held.
AlertUnlock_KeepsLock ==
  /\ Alive /\ alertPc = "unlock"
  /\ alertPc' = "idle"
  /\ lastTick' = tick
  /\ UNCHANGED <<pulses, localPulses, period, mutexVars, gpioVars, tick, load, timerPc,
                 mainVars, crashed, history>>

AlertUnlock ==
  /\ Alive /\ alertPc = "unlock"
  /\ alertPc' = "idle"
  /\ Release("alert")
  /\ lastTick' = tick
  /\ UNCHANGED <<pulses, localPulses, period, gpioVars, tick, load, timerPc,
                 mainVars, crashed, history>>

-----------------------------------------------------------------------------
(* The timer thread: gpioResetFlowPeriod *)

TimerFire ==
  /\ Alive /\ timerFunc
  /\ timerPc = "idle"
  /\ timerPc' = "lock"
  /\ UNCHANGED <<counters, mutexVars, gpioVars, alertVars, mainVars, crashed, history>>

TimerLock ==
  /\ Alive /\ timerPc = "lock"
  /\ Acquire("timer")
  /\ timerPc' = "reset"
  /\ UNCHANGED <<counters, gpioVars, alertVars, mainVars, crashed, history>>

\* Mutant of TimerReset: the period is left alone.
TimerReset_KeepsPeriod ==
  /\ Alive /\ timerPc = "reset"
  /\ Release("timer")
  /\ timerPc' = "cancel"
  /\ UNCHANGED <<counters, gpioVars, alertVars, mainVars, crashed, history>>

TimerReset ==
  /\ Alive /\ timerPc = "reset"
  /\ period' = 0
  /\ Release("timer")
  /\ timerPc' = "cancel"
  /\ UNCHANGED <<pulses, localPulses, lastTick, gpioVars, alertVars, mainVars,
                 crashed, history>>

\* gpioSetTimerFunc(..., NULL), after the mutex was released
TimerCancel ==
  /\ Alive /\ timerPc = "cancel"
  /\ timerFunc' = FALSE
  /\ timerPc' = "idle"
  /\ UNCHANGED <<counters, mutexVars, alertFunc, alertVars, mainVars, crashed, history>>

-----------------------------------------------------------------------------
(* The main thread: flowSensorInit, the Get and Reset calls, flowSensorQuit *)

InitHook ==
  /\ Alive /\ mainPc = "boot"
  /\ alertFunc' = TRUE
  /\ mainPc' = "hooked"
  /\ UNCHANGED <<counters, mutexVars, timerFunc, alertVars, timerPc, ret, crashed, history>>

InitMutex ==
  /\ Alive /\ mainPc = "hooked"
  /\ pulseMutex' = "live"
  /\ mainPc' = "idle"
  /\ UNCHANGED <<counters, owner, gpioVars, alertVars, timerPc, ret, crashed, history>>

\* An error return of flowSensorInit; main then leaves the process.
InitFail ==
  /\ Alive /\ mainPc \in {"boot", "hooked"}
  /\ mainPc' = "failed"
  /\ UNCHANGED <<counters, mutexVars, gpioVars, alertVars, timerPc, ret, crashed, history>>

Call(f) ==
  /\ Alive /\ mainPc = "idle"
  /\ mainPc' = f
  /\ UNCHANGED <<counters, mutexVars, gpioVars, alertVars, timerPc, ret, crashed, history>>

CallLock ==
  /\ Alive /\ mainPc \in Calls
  /\ owner # "main"
  /\ Acquire("main")
  /\ UNCHANGED <<counters, gpioVars, alertVars, timerPc, mainVars, crashed, history>>

Return ==
  /\ Alive /\ owner = "main"
  /\ Release("main")
  /\ mainPc' = "idle"
  /\ UNCHANGED <<localPulses, period, lastTick, gpioVars, alertVars, timerPc, crashed,
                 edges, strays, pours, overtaken>>

GetPulses ==
  /\ mainPc = "GetPulses"
  /\ Return
  /\ ret' = pulses
  /\ UNCHANGED <<pulses, cleared>>

\* The frequency is a one-to-one function of the period and 0 for 0, so the
\* period stands for it.
GetFrequency ==
  /\ mainPc = "GetFrequency"
  /\ Return
  /\ ret' = period
  /\ UNCHANGED <<pulses, cleared>>

ResetPulses ==
  /\ mainPc = "ResetPulses"
  /\ Return
  /\ pulses' = 0
  /\ cleared' = cleared + pulses
  /\ UNCHANGED ret

QuitFree ==
  /\ Alive /\ mainPc = "idle"
  /\ pulseMutex' = "freed"
  /\ mainPc' = "freed"
  /\ UNCHANGED <<counters, owner, gpioVars, alertVars, timerPc, ret, crashed, history>>

QuitUnhook ==
  /\ Alive /\ mainPc = "freed"
  /\ alertFunc' = FALSE
  /\ mainPc' = "unhooked"
  /\ UNCHANGED <<counters, mutexVars, timerFunc, alertVars, timerPc, ret, crashed, history>>

QuitTimer ==
  /\ Alive /\ mainPc = "unhooked"
  /\ timerFunc' = FALSE
  /\ mainPc' = "quit"
  /\ UNCHANGED <<counters, mutexVars, alertFunc, alertVars, timerPc, ret, crashed, history>>

-----------------------------------------------------------------------------

Init ==
  /\ pulses = 0 /\ localPulses = 0 /\ period = 0 /\ lastTick = 0
  /\ pulseMutex = "null" /\ owner = "nobody"
  /\ alertFunc = FALSE /\ timerFunc = FALSE
  /\ alertPc = "idle" /\ tick = 0 /\ load = 0
  /\ timerPc = "idle"
  /\ mainPc = "boot" /\ ret = 0
  /\ crashed = FALSE
  /\ edges = 0 /\ strays = 0 /\ cleared = 0 /\ pours = 0
  /\ overtaken = FALSE

AlertThread ==
  \/ \E now \in Ticks : AlertLock(now) \/ AlertDefer(now)
  \/ AlertCount \/ AlertStore \/ AlertArm \/ AlertUnlock

TimerThread == TimerFire \/ TimerLock \/ TimerReset \/ TimerCancel

Lifecycle ==
  \/ InitHook \/ InitMutex \/ InitFail
  \/ QuitFree \/ QuitUnhook \/ QuitTimer

MainCalls ==
  \/ \E f \in Calls : Call(f)
  \/ CallLock \/ GetPulses \/ GetFrequency \/ ResetPulses

\* The process has ended.
Ended == ~Alive /\ UNCHANGED vars

Next == AlertThread \/ TimerThread \/ Lifecycle \/ MainCalls \/ Fault \/ Ended

Spec == Init /\ [][Next]_vars

-----------------------------------------------------------------------------
(* Properties *)

TypeOK ==
  /\ pulses \in Nat /\ localPulses \in Nat /\ load \in Nat
  /\ period \in Ticks /\ lastTick \in Ticks /\ tick \in Ticks
  /\ pulseMutex \in {"null", "live", "freed"}
  /\ owner \in {"nobody", "alert", "timer", "main"}
  /\ alertFunc \in BOOLEAN /\ timerFunc \in BOOLEAN
  /\ alertPc \in {"idle", "count", "store", "arm", "unlock"}
  /\ timerPc \in {"idle", "lock", "reset", "cancel"}
  /\ mainPc \in {"boot", "hooked", "idle", "freed", "unhooked", "quit", "failed"} \cup Calls
  /\ ret \in Nat
  /\ crashed \in BOOLEAN
  /\ edges \in 0 .. MaxEdges
  /\ strays \in Nat /\ cleared \in Nat /\ pours \in Nat
  /\ overtaken \in BOOLEAN

\* flowSensorInit has returned 0 and flowSensorQuit has not begun.
Running == ~crashed /\ mainPc \in {"idle"} \cup Calls

\* Every rising edge is in exactly one place: in the shared counter, in the
\* deferred one, dropped as stray, dropped by a reset, or in the callback that
\* is still to add it.  The trylock path of gpioChangeState and the read and
\* write of pulses neither lose nor double a pulse, whoever else locks.
PulseConservation ==
  edges = pulses + localPulses + strays + cleared
            + (IF alertPc \in {"count", "store"} THEN 1 ELSE 0)

\* The stray filter costs at most one pulse a pour (the comment in
\* gpioChangeState), rolled over tick counters and deferred pulses included.
OneStrayPerPour == strays <= pours

\* A period that is not 0 has a timer armed to reset it, or is about to arm
\* one; the only way to lose that timer is an arming overtaken by the cancel
\* at the end of gpioResetFlowPeriod.
PeriodGuarded ==
  (Running /\ period # 0) => (timerFunc \/ alertPc \in {"store", "arm"} \/ overtaken)

\* While the callback holds the mutex the saved period is the time since the
\* previous edge, or one tick less when the counter rolled over: the other
\* threads leave it alone and no pulse is taken for a much faster one.
PeriodAccurate ==
  (Running /\ alertPc \in {"store", "arm", "unlock"})
    => Elapsed(tick, lastTick) - period \in {0, 1}

\* A main thread call of the sensor returns: no thread keeps the mutex.
CallReturns == mainPc \in Calls ~> mainPc = "idle"

\* The comment in gpioChangeState, "Set up a timer to reset the period after a
\* while": once pulses stop, the period is set back to 0, but for an arming that
\* the cancel of the timer before it took away.
PeriodResetUnlessOvertaken ==
  \A n \in 0 .. MaxEdges :
    (Running /\ edges = n /\ period # 0)
      ~> (period = 0 \/ edges > n \/ overtaken \/ ~Running)

\* flowSensorInit "initializes the flow sensor" and flowSensorQuit "cleans up":
\* no callback runs into the mutex before it is allocated or after it is freed.
MutexExists == ~crashed

=============================================================================
