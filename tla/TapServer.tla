------------------------------- MODULE TapServer -------------------------------
(***************************************************************************)
(* The daemon's main thread on top of the flow sensor: the loop of         *)
(* serverMain and the "zero" frame of eventHandler that bills a pour.      *)
(*                                                                         *)
(* Every flowSensor* call of the loop is the call of module FlowSensor,    *)
(* mutex included, with pigpio's threads running beside it.  Of the volume *)
(* only the pulses it is computed from are kept: what is subtracted from   *)
(* the store is DataStore's Pour.  Other web requests change nothing here. *)
(***************************************************************************)
EXTENDS FlowSensor

VARIABLES
  loopPc,   \* where serverMain is: "start", "poll", "bill", "zero",
            \* "frequency", "show", "accept", "request", "left"
  running,  \* serverRunning
  freeing,  \* the poll is the last one, of mg_mgr_free
  shown     \* pulses in the latest broadcast: what a page shows until the next one

VARIABLES   \* history
  billed,        \* pulses taken off the store by zero frames
  billedAtShow   \* those that were when the latest broadcast was sent

server  == <<loopPc, running, freeing, shown, billed, billedAtShow>>
tapVars == <<vars, server>>

-----------------------------------------------------------------------------
(* The zero frame: flowSensorGetPulses, the subtraction, flowSensorResetPulses *)

ZeroFrame ==
  /\ loopPc = "poll"
  /\ loopPc' = "bill"
  /\ Call("GetPulses")
  /\ UNCHANGED <<running, freeing, shown, billed, billedAtShow>>

\* Mutant of Bill: the pulses are billed and not reset.
Bill_NoReset ==
  /\ loopPc = "bill" /\ mainPc = "idle"
  /\ loopPc' = "zero"
  /\ billed' = billed + ret
  /\ Call("GetFrequency")
  /\ UNCHANGED <<running, freeing, shown, billedAtShow>>

\* Mutant of Bill: without a brew nothing is billed, and the pulses are reset.
Bill_OnlyWithBrew ==
  /\ loopPc = "bill" /\ mainPc = "idle"
  /\ loopPc' = "zero"
  /\ billed' \in {billed, billed + ret}
  /\ Call("ResetPulses")
  /\ UNCHANGED <<running, freeing, shown, billedAtShow>>

Bill ==
  /\ loopPc = "bill" /\ mainPc = "idle"
  /\ loopPc' = "zero"
  /\ billed' = billed + ret
  /\ Call("ResetPulses")
  /\ UNCHANGED <<running, freeing, shown, billedAtShow>>

ZeroDone ==
  /\ loopPc = "zero" /\ mainPc = "idle" /\ ~crashed
  /\ loopPc' = "poll"
  /\ UNCHANGED <<vars, running, freeing, shown, billed, billedAtShow>>

-----------------------------------------------------------------------------
(* The rest of the loop *)

\* The test of the loop: one more round, or mg_mgr_free with its one last poll.
LoopTest == loopPc' = "poll" /\ freeing' = ~running'

\* flowSensorInit is done and serverMain begins.
Enter ==
  /\ loopPc = "start" /\ mainPc = "idle" /\ ~crashed
  /\ UNCHANGED <<vars, running, shown, billed, billedAtShow>>
  /\ LoopTest

\* mg_mgr_poll returns and the flow rate is read.
PollReturn ==
  /\ loopPc = "poll" /\ ~freeing
  /\ loopPc' = "frequency"
  /\ Call("GetFrequency")
  /\ UNCHANGED <<running, freeing, shown, billed, billedAtShow>>

\* The last poll returns and the rest of mg_mgr_free is done.
FreeReturn ==
  /\ loopPc = "poll" /\ freeing /\ ~crashed
  /\ loopPc' = "left"
  /\ UNCHANGED <<vars, running, freeing, shown, billed, billedAtShow>>

\* BROADCAST_DELAY has passed: the pulses are read for the broadcast.
Show ==
  /\ loopPc = "frequency"
  /\ loopPc' = "show"
  /\ Call("GetPulses")
  /\ UNCHANGED <<running, freeing, shown, billed, billedAtShow>>

Broadcast ==
  /\ loopPc = "show" /\ mainPc = "idle" /\ ~crashed
  /\ loopPc' = "accept"
  /\ shown' = ret /\ billedAtShow' = billed
  /\ UNCHANGED <<vars, running, freeing, billed>>

NoBroadcast ==
  /\ loopPc = "frequency" /\ mainPc = "idle" /\ ~crashed
  /\ loopPc' = "accept"
  /\ UNCHANGED <<vars, running, freeing, shown, billed, billedAtShow>>

\* Mutant of NoClient: the loop goes on without its test.
NoClient_Forever ==
  /\ loopPc = "accept" /\ ~crashed
  /\ loopPc' = "poll"
  /\ UNCHANGED <<vars, running, freeing, shown, billed, billedAtShow>>

\* accept finds no client.
NoClient ==
  /\ loopPc = "accept" /\ ~crashed
  /\ UNCHANGED <<vars, running, shown, billed, billedAtShow>>
  /\ LoopTest

\* A client is accepted; its request is read from a blocking socket.
Client ==
  /\ loopPc = "accept" /\ ~crashed
  /\ loopPc' = "request"
  /\ UNCHANGED <<vars, running, freeing, shown, billed, billedAtShow>>

\* The request is served, DAEMON_QUIT among others, or the client went away.
Served ==
  /\ loopPc = "request" /\ ~crashed
  /\ running' \in {running, FALSE}
  /\ UNCHANGED <<vars, shown, billed, billedAtShow>>
  /\ LoopTest

\* SIGTERM, once main has installed its handler.
Sigterm ==
  /\ Running /\ running
  /\ running' = FALSE
  /\ UNCHANGED <<vars, loopPc, freeing, shown, billed, billedAtShow>>

-----------------------------------------------------------------------------

TapInit == Init /\ loopPc = "start" /\ running = TRUE /\ freeing = FALSE
                /\ shown = 0 /\ billed = 0 /\ billedAtShow = 0

\* The sensor's own steps: pigpio's threads, and the main thread inside one of
\* its functions, in flowSensorInit or, after the loop, in flowSensorQuit.
SensorStep ==
  /\ \/ AlertThread \/ TimerThread \/ Fault
     \/ InitHook \/ InitMutex \/ InitFail
     \/ CallLock \/ GetPulses \/ GetFrequency \/ ResetPulses
     \/ loopPc = "left" /\ (QuitFree \/ QuitUnhook \/ QuitTimer)
     \/ Ended
  /\ UNCHANGED server

LoopStep ==
  \/ ZeroFrame \/ Bill \/ ZeroDone
  \/ Enter \/ PollReturn \/ FreeReturn \/ Show \/ Broadcast \/ NoBroadcast
  \/ NoClient \/ Client \/ Served

TapNext == SensorStep \/ LoopStep \/ Sigterm

TapSpec == TapInit /\ [][TapNext]_tapVars

(***************************************************************************)
(* Fairness.  Each thread takes its enabled steps (weak); one that waits   *)
(* for the mutex gets it if it is free again and again (strong).  Nothing  *)
(* makes edges come.  The main thread goes round its loop; a poll returns, *)
(* after 200 ms at the latest, though frames may keep it busy (strong).  A *)
(* client need not ever send its request: nothing is assumed of Served.    *)
(***************************************************************************)
TapFairness ==
  /\ WF_tapVars((AlertCount \/ AlertStore \/ AlertArm \/ AlertUnlock) /\ UNCHANGED server)
  /\ WF_tapVars((TimerFire \/ TimerReset \/ TimerCancel) /\ UNCHANGED server)
  /\ SF_tapVars(TimerLock /\ UNCHANGED server)
  /\ SF_tapVars(CallLock /\ UNCHANGED server)
  /\ WF_tapVars((GetPulses \/ GetFrequency \/ ResetPulses) /\ UNCHANGED server)
  /\ WF_tapVars(Bill \/ ZeroDone \/ Enter \/ Show \/ Broadcast \/ NoBroadcast
                  \/ NoClient \/ Client)
  /\ SF_tapVars(PollReturn) /\ SF_tapVars(FreeReturn)
  /\ WF_tapVars(loopPc = "left" /\ (QuitFree \/ QuitUnhook \/ QuitTimer) /\ UNCHANGED server)

FairTapSpec == TapSpec /\ TapFairness

-----------------------------------------------------------------------------
(* Properties *)

TapTypeOK ==
  /\ TypeOK
  /\ loopPc \in {"start", "poll", "bill", "zero", "frequency", "show", "accept",
                 "request", "left"}
  /\ running \in BOOLEAN /\ freeing \in BOOLEAN
  /\ shown \in Nat /\ billed \in Nat /\ billedAtShow \in Nat

\* No pulse is billed twice: what zero frames took off the store was reset, or is
\* about to be by the frame that is being handled, whatever pulses come between
\* its read and its reset.
BilledOnce ==
  billed <= cleared + (IF loopPc = "zero" /\ mainPc = "ResetPulses" THEN pulses ELSE 0)

\* What a page shows is in the sensor still, or was billed in full: a zero frame
\* sends nothing, so that pages show more than the sensor holds until the next
\* broadcast, and then zero frames that came after the last one have taken at least
\* what it showed off the store.
ShownHeldOrBilled == shown <= pulses \/ billed >= billedAtShow + shown

\* A SIGTERM ends the daemon: the loop is left and flowSensorQuit done, unless a
\* client that was accepted keeps its request back for ever or a callback faults.
StopsUnlessHeldUp ==
  ~running ~> (mainPc = "quit" \/ crashed \/ [](loopPc = "request"))

\* The comment in gpioChangeState, the filter works "at the expense of losing one
\* tick every pour": the pulses that reach no bill are at most as many as pours.
LostOnePerPour ==
  (Running /\ loopPc = "poll") => strays + (cleared - billed) <= pours

=============================================================================
