---------------------------- MODULE TicklessSleep ----------------------------
(***************************************************************************)
(* How the kernel tick survives sleep: the idle loop, the tick interrupt   *)
(* and vPortSuppressTicksAndSleep (port.c), the deep sleep that stops the  *)
(* timer and reads the RTC instead (tickless_sleep.c), and what they do to *)
(* xTickCount (tasks.c).                                                   *)
(*                                                                         *)
(* Time passes in units, UnitsPerMs to the millisecond; a tick is TU of    *)
(* them.  Every clock is kept relative to another one, so the state is     *)
(* finite: left is a distance from xTickCount, due a distance from the     *)
(* timer counter, lag the distance of xTickCount from real time.           *)
(***************************************************************************)
EXTENDS Integers

CONSTANTS
    UnitsPerMs,
    PeriodMs,       \* portTICK_PERIOD_MS
    MsPerSec, SecPerMin,
    Word,           \* range of ulReloadValue (2^32)
    MinIdle,        \* configEXPECTED_IDLE_TIME_BEFORE_SLEEP
    FloorMs,        \* DEEP_SLEEP_FLOOR_MS
    CalEvery,       \* ticks between two clock calibrations (1000)
    MaxLeft,        \* bound on how far ahead the next unblock time is
    MaxOver,        \* bound on the milliseconds a deep sleep lasts too long
    MaxLate,        \* bound on the units that interrupts are held up
    MaxSleeps       \* bound on the sleeps explored

TU == UnitsPerMs * PeriodMs

\* xMaximumPossibleSuppressedTicks, set by vPortSetupTimerInterrupt.
MaxSuppressed == (Word - 1) \div TU

ASSUME TicklessAssumption ==
    /\ {UnitsPerMs, PeriodMs, MsPerSec, SecPerMin, MaxLeft} \subseteq Nat \ {0}
    /\ {CalEvery, MaxOver, MaxLate, MaxSleeps} \subseteq Nat
    /\ MinIdle \in Nat /\ MinIdle > 1
    /\ FloorMs \in Nat /\ FloorMs >= 2 * PeriodMs
    /\ Word \in Nat /\ MaxSuppressed >= MinIdle
    /\ MaxSuppressed * PeriodMs + MaxOver < MsPerSec * (SecPerMin - 1)

VARIABLES
    pc,         \* where the idle task is
    ready,      \* a task other than idle can run
    left,       \* ticks from xTickCount to xNextTaskUnblockTime
    pended,     \* xPendedTicks
    bank,       \* sleep_catchup_ticks
    taken,      \* n of freertos_sleep_catchup, between reading and replaying it
    due,        \* units until the timer interrupt (0 or less: it is pending)
    ticklock,   \* the systick wake lock
    expected,   \* xExpectedIdleTime
    reload,     \* ulReloadValue
    elapsed,    \* units since the sleep began
    since,      \* ticks since ulLastCalibrationTick, up to CalEvery + 1
    rtc,        \* the RTC, in units since the last full minute
    before,     \* time_before_sleep
    lag,        \* real time minus xTickCount, in units
    cerr,       \* the timer counter minus real time, in units
    sleeps,     \* sleeps so far
    calibrated  \* history: xTickCount has been corrected by the counter

sleepvars == <<expected, reload, elapsed, before>>
\* The local variables of a sleep that is over.
Forget == expected' = 0 /\ reload' = 0 /\ elapsed' = 0 /\ before' = 0
vars == <<pc, ready, left, pended, bank, taken, due, ticklock, sleepvars,
          since, rtc, lag, cerr, sleeps, calibrated>>

Asleep == pc \in {"shallow", "deep"}
\* vTaskSuspendAll: ticks are pended and no task runs.
Suspended == pc \in {"gate", "woken", "resume"} \/ Asleep

Min2(a, b) == IF a < b THEN a ELSE b

Init ==
    /\ pc = "hook"
    /\ ready = FALSE
    /\ left \in 1..MaxLeft
    /\ pended = 0 /\ bank = 0 /\ taken = 0
    /\ due = TU
    /\ ticklock = FALSE
    /\ expected = 0 /\ reload = 0 /\ elapsed = 0 /\ before = 0
    /\ since = 0
    /\ rtc \in 0..UnitsPerMs - 1
    /\ lag = 0 /\ cerr = 0
    /\ sleeps = 0
    /\ calibrated = FALSE

-----------------------------------------------------------------------------
(* Counting ticks *)

Counted(n) ==
    /\ lag' = lag - TU * n
    /\ since' = Min2(since + n, CalEvery + 1)

\* n calls of xTaskIncrementTick: reaching xNextTaskUnblockTime makes a task
\* ready and sets the next unblock time.
Increment(n) ==
    /\ Counted(n)
    /\ IF n < left
       THEN left' = left - n /\ UNCHANGED ready
       ELSE left' \in 1..MaxLeft /\ ready' = TRUE

\* vTaskStepTick: the last tick before a task is due goes through
\* xTaskIncrementTick; beyond it the assertion stops the system.
StepTick(n, next) ==
    IF n > left
    THEN pc' = "halted" /\ UNCHANGED <<left, pended, lag, since>>
    ELSE LET hit == IF n = left THEN 1 ELSE 0 IN
         /\ pc' = next
         /\ pended' = pended + hit
         /\ left' = left - (n - hit)
         /\ Counted(n - hit)

\* xPortSysTickHandler
TickIsr ==
    /\ due <= 0
    /\ ~Asleep /\ pc # "halted"
    /\ due' = TU
    /\ ticklock' = FALSE
    /\ IF Suspended
       THEN pended' = pended + 1 /\ UNCHANGED <<left, ready, lag, since>>
       ELSE Increment(1) /\ UNCHANGED pended
    /\ UNCHANGED <<pc, bank, taken, sleepvars, rtc, cerr, sleeps, calibrated>>

-----------------------------------------------------------------------------
(* The idle task *)

(* Wrong variant: the hook returns early when little is owed. *)
CatchupLarge ==
    /\ pc = "hook" /\ ~ready
    /\ IF bank = 1
       THEN pc' = "idle" /\ UNCHANGED <<taken, bank>>
       ELSE pc' = "replay" /\ taken' = bank /\ bank' = 0
    /\ UNCHANGED <<ready, left, pended, due, ticklock, sleepvars, since, rtc, lag, cerr,
                   sleeps, calibrated>>

\* freertos_sleep_catchup takes what was banked ...
Catchup ==
    /\ pc = "hook" /\ ~ready
    /\ taken' = bank
    /\ bank' = 0
    /\ pc' = "replay"
    /\ UNCHANGED <<ready, left, pended, due, ticklock, sleepvars, since, rtc, lag, cerr,
                   sleeps, calibrated>>

\* ... and xTaskCatchUpTicks replays it.
Replay ==
    /\ pc = "replay" /\ ~ready
    /\ Increment(taken)
    /\ taken' = 0
    /\ pc' = "calibrate"
    /\ UNCHANGED <<pended, bank, due, ticklock, sleepvars, rtc, cerr, sleeps, calibrated>>

(* Wrong variant: the difference is taken the other way round. *)
DeltaReversed == -((lag + cerr) \div TU)

\* How far xTickCount is behind the timer counter.
DeltaTick == (lag + cerr) \div TU

\* The second half of vApplicationIdleHook.  vTaskStepTickExt stops short of
\* the unblock time, and xTaskResumeAll then makes the pended tick.
Calibrate ==
    /\ pc = "calibrate" /\ ~ready
    /\ IF DeltaTick > MinIdle /\ since > CalEvery
       THEN LET n == Min2(MinIdle, left) IN
            /\ lag' = lag - TU * n
            /\ IF n < left
               THEN left' = left - n /\ since' = 0 /\ UNCHANGED ready
               ELSE left' \in 1..MaxLeft /\ since' = Min2(1, CalEvery + 1) /\ ready' = TRUE
            /\ calibrated' = TRUE
       ELSE UNCHANGED <<left, ready, lag, since, calibrated>>
    /\ pc' = "idle"
    /\ UNCHANGED <<pended, bank, taken, due, ticklock, sleepvars, rtc, cerr, sleeps>>

\* prvIdleTask: the expected idle time, sampled with the scheduler suspended.
Idle ==
    /\ pc = "idle" /\ ~ready
    /\ IF left >= MinIdle
       THEN expected' = left /\ pc' = "gate"
       ELSE pc' = "hook" /\ UNCHANGED expected
    /\ UNCHANGED <<ready, left, pended, bank, taken, due, ticklock, reload, elapsed, before,
                   since, rtc, lag, cerr, sleeps, calibrated>>

\* eTaskConfirmSleepModeStatus and freertos_ready_to_sleep.
MaySleep == pended = 0 /\ ~ready /\ ~ticklock /\ sleeps < MaxSleeps

\* Any other wake lock, or Wi-Fi hardware that is awake, ends it here as well.
Abort ==
    /\ pc = "gate"
    /\ pc' = "resume"
    /\ Forget
    /\ UNCHANGED <<ready, left, pended, bank, taken, due, ticklock, since, rtc,
                   lag, cerr, sleeps, calibrated>>

(* Wrong variant: the idle time is not limited to what the counter can hold. *)
GrantedAll == expected

\* vPortSuppressTicksAndSleep limits the idle time.
Granted == Min2(expected, MaxSuppressed)

\* The rest of the running tick is added to the reload value; a timer
\* interrupt that is already pending is lost with the old compare value.
Sleep(mode) ==
    /\ pc = "gate"
    /\ MaySleep
    /\ LET counts == (TU * (Granted - 1) + IF due > 0 THEN due ELSE 0) % Word IN
       /\ reload' = counts
       /\ due' = counts
    /\ expected' = Granted
    /\ elapsed' = 0
    /\ before' = rtc
    /\ sleeps' = sleeps + 1
    /\ pc' = mode
    /\ UNCHANGED <<ready, left, pended, bank, taken, ticklock, since, rtc, lag, cerr, calibrated>>

\* freertos_pre_sleep_processing declines: deep sleep is not asked for, a
\* peripheral holds its clock, or the window is too short.
SleepShallow == Sleep("shallow")

SleepDeep == Granted * PeriodMs >= FloorMs /\ Sleep("deep")

-----------------------------------------------------------------------------
(* Waking up *)

\* The timer, or any other interrupt, which may have made a task ready.
WakeShallow ==
    /\ pc = "shallow"
    /\ pc' = "woken"
    /\ ready' \in {ready, TRUE}
    /\ UNCHANGED <<left, pended, bank, taken, due, ticklock, sleepvars, since, rtc, lag,
                   cerr, sleeps, calibrated>>

\* Wrong variant: a shallow sleep is taken for a deep one and not counted.
AfterWakeUncounted ==
    /\ pc = "woken"
    /\ IF elapsed >= reload
       THEN StepTick(0, "resume") /\ UNCHANGED due
       ELSE StepTick(elapsed \div TU, "resume") /\ due' = TU
    /\ Forget
    /\ ticklock' = TRUE
    /\ UNCHANGED <<ready, bank, taken, rtc, cerr, sleeps, calibrated>>

\* After the window in which interrupts were served: all but one of the ticks
\* when the timer has expired, else the whole ticks that passed.
AfterWake ==
    /\ pc = "woken"
    /\ IF elapsed >= reload
       THEN StepTick(expected - 1, "resume") /\ UNCHANGED due
       ELSE StepTick(elapsed \div TU, "resume") /\ due' = TU
    /\ Forget
    /\ ticklock' = TRUE
    /\ UNCHANGED <<ready, bank, taken, rtc, cerr, sleeps, calibrated>>

\* rtc_32k_time_get, in milliseconds since the last full minute.
Ms(t) == t \div UnitsPerMs
Sec(t) == Ms(t) \div MsPerSec

\* passed_time
Passed ==
    Ms(rtc) - Ms(before) + IF Sec(rtc) >= Sec(before) THEN 0 ELSE SecPerMin * MsPerSec

(* Wrong variant: the step is not limited to the time granted. *)
WakeDeepUnlimited ==
    /\ pc = "deep"
    /\ cerr' = cerr + UnitsPerMs * Passed - elapsed
    /\ StepTick(Passed * PeriodMs, "resume")
    /\ due' = TU
    /\ Forget
    /\ ticklock' = TRUE
    /\ ready' \in {ready, TRUE}
    /\ UNCHANGED <<bank, taken, rtc, sleeps, calibrated>>

\* The second half of freertos_pre_sleep_processing, and the rest of the port's
\* function, which finds no time elapsed since and reloads one tick.
WakeDeep ==
    /\ pc = "deep"
    /\ cerr' = cerr + UnitsPerMs * Passed - elapsed
    /\ LET granted == expected * PeriodMs
           over == IF Passed > granted THEN Passed - granted ELSE 0
       IN  /\ bank' = bank + over \div PeriodMs
           /\ StepTick((Passed - over) * PeriodMs, "resume")
    /\ due' = TU
    /\ Forget
    /\ ticklock' = TRUE
    /\ ready' \in {ready, TRUE}
    /\ UNCHANGED <<taken, rtc, sleeps, calibrated>>

\* xTaskResumeAll makes the pended ticks.
Resume ==
    /\ pc = "resume"
    /\ Increment(pended)
    /\ pended' = 0
    /\ pc' = "hook"
    /\ UNCHANGED <<bank, taken, due, ticklock, sleepvars, rtc, cerr, sleeps, calibrated>>

-----------------------------------------------------------------------------
(* The rest of the system *)

\* An interrupt makes a task ready.
Interrupt ==
    /\ ~Asleep /\ pc # "halted"
    /\ ~ready
    /\ ready' = TRUE
    /\ UNCHANGED <<pc, left, pended, bank, taken, due, ticklock, sleepvars, since, rtc, lag,
                   cerr, sleeps, calibrated>>

\* The last ready task blocks, perhaps for less than the others wait.
Block ==
    /\ ready
    /\ ~Suspended
    /\ ready' = FALSE
    /\ left' \in 1..left
    /\ UNCHANGED <<pc, pended, bank, taken, due, ticklock, sleepvars, since, rtc, lag, cerr,
                   sleeps, calibrated>>

\* A unit of time.  The timer interrupt is served before the next one unless
\* interrupts are off; deep sleep stops the timer.
Pass ==
    /\ pc # "halted"
    /\ CASE pc = "deep" -> elapsed < UnitsPerMs * (expected * PeriodMs + MaxOver)
         [] pc = "woken" -> due > -MaxLate /\ elapsed < reload + MaxLate
         [] pc \in {"gate", "resume"} -> due > 0 /\ pended = 0
         [] OTHER -> due > 0
    /\ due' = IF pc = "deep" THEN due ELSE due - 1
    /\ elapsed' = IF Asleep \/ pc = "woken" THEN elapsed + 1 ELSE elapsed
    /\ lag' = lag + 1
    /\ rtc' = (rtc + 1) % (UnitsPerMs * MsPerSec * SecPerMin)
    /\ UNCHANGED <<pc, ready, left, pended, bank, taken, ticklock, expected, reload, before,
                   since, cerr, sleeps, calibrated>>

Next ==
    \/ TickIsr \/ Interrupt \/ Block \/ Pass
    \/ Catchup \/ Replay \/ Calibrate \/ Idle
    \/ Abort \/ SleepShallow \/ SleepDeep
    \/ WakeShallow \/ AfterWake \/ WakeDeep \/ Resume

\* Time passes, interrupts are served and a sleep ends (its timer or its alarm
\* sees to that); ready tasks block again, and the idle task, though it may be
\* preempted at every step, is not starved.
Fairness ==
    /\ WF_vars(Pass) /\ WF_vars(TickIsr) /\ WF_vars(Block)
    /\ WF_vars(WakeShallow) /\ WF_vars(AfterWake) /\ WF_vars(WakeDeep)
    /\ WF_vars(Abort) /\ WF_vars(Resume)
    /\ SF_vars(Catchup) /\ SF_vars(Replay) /\ SF_vars(Calibrate) /\ SF_vars(Idle)

Spec == Init /\ [][Next]_vars /\ Fairness

-----------------------------------------------------------------------------
(* Properties *)

\* Every variable keeps its range; while the processor is awake and not in the
\* middle of the wake-up code the timer is never more than a tick away, which
\* is what keeps ulReloadValue within its 32 bits at the next sleep.
TypeOK ==
    /\ pc \in {"hook", "replay", "calibrate", "idle", "gate", "shallow", "woken", "deep",
               "resume", "halted"}
    /\ left \in 1..MaxLeft
    /\ pended \in 0..2 /\ bank \in Nat /\ taken \in Nat
    /\ due <= IF Asleep \/ pc = "woken" THEN Word - 1 ELSE TU
    /\ reload \in 0..Word - 1
    /\ since \in 0..CalEvery + 1

\* vTaskStepTick asserts that it is never told to step past the next unblock
\* time; however long the sleep lasted, the assertion holds, and the counters
\* stay within the bounds of their types.
NeverHalted == TypeOK /\ pc # "halted"

\* The ticks that have happened but are not in xTickCount yet.
Owed == pended + bank + taken

\* No tick is counted twice: what the kernel has counted and still owes is
\* never more than the timer counter, which carries on across deep sleep, says.
\* The millisecond differences that deep sleep steps by are rounded, but the
\* rounding does not add up: until the counter has been used to correct it,
\* the kernel is never a full tick ahead of real time either.
NeverAhead ==
    /\ lag + cerr >= TU * Owed
    /\ ~calibrated => lag - TU * Owed > -TU

\* A sleep costs less than two ticks, however long it is and whatever ends it:
\* oversleeping is banked and paid back, never dropped.
SlowBy == lag - TU * Owed - (TU - due)
DriftBounded ==
    ~Asleep /\ pc # "woken" => SlowBy <= sleeps * (2 * TU - 1)

\* Oversleep that has been banked is replayed, whatever preempts the idle task.
BankReplayed == (bank + taken > 0) ~> (bank + taken = 0)

\* Calibration brings the tick count back to within
\* configEXPECTED_IDLE_TIME_BEFORE_SLEEP of the counter once sleeping stops.
DriftRepaired == []<>((lag + cerr) \div TU <= MinIdle)
=============================================================================
