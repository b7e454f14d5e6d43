------------------------------ MODULE PeriBusy ------------------------------
(***************************************************************************)
(* The "this peripheral needs its clock" vote and the depth of sleep.      *)
(*                                                                         *)
(* Every driver keeps one atomic vote per port (timer_vote, uart_tx_vote,  *)
(* i2c_vote, spi_vote, pwm_vote); the edge of a vote moves the shared      *)
(* reference count peri_busy_count (tkl_sleep.c), the 0 <-> 1 edge of the  *)
(* count moves bit 6 of wake_lock (wakelock.c), and the idle task picks    *)
(* stop mode only while that bit is clear (port.c, tickless_sleep.c). The  *)
(* ADC driver calls the count directly, once per nesting level.            *)
(*                                                                         *)
(* Each atomic operation is one step of the task that executes it, so a    *)
(* task can be preempted between any two; an interrupt handler runs to     *)
(* completion, between any two steps of a task. Nothing in tkl_sleep.c     *)
(* keeps callers apart, and nothing here does. The idle task runs only     *)
(* when every other task is blocked, and no task blocks inside the vote    *)
(* code.                                                                   *)
(***************************************************************************)
EXTENDS Integers, FiniteSets

CONSTANTS
    Tasks,      \* the tasks that call drivers
    Votes,      \* one per driver port
    IsrVotes,   \* the votes an interrupt handler drops (and may take again)
    MaxNest     \* how deep the ADC calls nest: voltage > data > channel

(* The holders of the count: a vote, or one nesting level of a task's ADC  *)
(* call.                                                                   *)
Levels == Tasks \X (1..MaxNest)
Holders == Votes \cup Levels

ASSUME SetsAssumption == IsFiniteSet(Tasks) /\ IsFiniteSet(Votes)
ASSUME DisjointAssumption == Votes \cap Levels = {}
ASSUME IsrVotesAssumption == IsrVotes \subseteq Votes
ASSUME MaxNestAssumption == MaxNest \in Nat

VARIABLES
    held,    \* the votes that are 1 and the ADC levels entered
    count,   \* peri_busy_count
    wake,    \* the lock ids set in wake_lock
    ps,      \* sys_ps_get() = SYS_PS_DEEP_SLEEP
    call,    \* where each task is inside a vote call, and on whose behalf
    cpu,     \* "run", or the depth the idle task put the core to sleep at
    overlap  \* history: the count's last edge was crossed while the lock
             \* write of an earlier edge was still due

vars == <<held, count, wake, ps, call, cpu, overlap>>

-----------------------------------------------------------------------------
TklId == "tkl"          \* TKL_WAKELOCK_ID 5
BusyId == "busy"        \* TKL_BUSY_LOCK_ID 6
SystickId == "systick"  \* LOCK_ID_SYSTICK
LockIds == {TklId, BusyId, SystickId}

(* "out": not in the vote code. "add", "sub": the vote has changed and the *)
(* fetch_add or fetch_sub comes next. "acquire", "drop": the count crossed *)
(* its edge and the wake_lock write comes next. "mode": between the two    *)
(* writes of tkl_cpu_sleep_mode_set, h saying which mode was asked for.    *)
NoHolder == <<>>
Out == [st |-> "out", h |-> NoHolder]
Stages == {"add", "acquire", "sub", "drop"}
Calls == {Out} \cup [st : Stages, h : Holders] \cup [st : {"mode"}, h : BOOLEAN]

TypeOK ==
    /\ held \subseteq Holders
    /\ count \in Int
    /\ wake \subseteq LockIds
    /\ ps \in BOOLEAN
    /\ call \in [Tasks -> Calls]
    /\ cpu \in {"run", "shallow", "deep"}
    /\ overlap \in BOOLEAN

Init ==
    /\ held = {}
    /\ count = 0
    /\ wake = {}
    /\ ps = FALSE
    /\ call = [t \in Tasks |-> Out]
    /\ cpu = "run"
    /\ overlap = FALSE

-----------------------------------------------------------------------------
Inside(t) == call[t].st \in Stages
WriteDue(t) == call[t].st \in {"acquire", "drop"}
LockDue == \E t \in Tasks : WriteDue(t)

MayEnter(t) == cpu = "run" /\ call[t] = Out

(* timer_clock_hold, uart_tx_vote_hold, i2c_busy_hold, spi_busy_hold,      *)
(* pwm_clock_hold: the exchange; a vote already held does nothing more.    *)
Hold(t, v) ==
    /\ MayEnter(t)
    /\ held' = held \cup {v}
    /\ call' = [call EXCEPT ![t] = IF v \in held THEN Out
                                   ELSE [st |-> "add", h |-> v]]
    /\ UNCHANGED <<count, wake, ps, cpu, overlap>>

(* Wrong variant: the count is dropped whether or not the vote was held. *)
ReleaseAlways(t, v) ==
    /\ MayEnter(t)
    /\ held' = held \ {v}
    /\ call' = [call EXCEPT ![t] = [st |-> "sub", h |-> v]]
    /\ UNCHANGED <<count, wake, ps, cpu, overlap>>

Release(t, v) ==
    /\ MayEnter(t)
    /\ held' = held \ {v}
    /\ call' = [call EXCEPT ![t] = IF v \in held THEN [st |-> "sub", h |-> v]
                                   ELSE Out]
    /\ UNCHANGED <<count, wake, ps, cpu, overlap>>

(* The ADC calls nest: level n is entered from level n - 1 and is the      *)
(* first to be left; a level has no vote to exchange.                      *)
AdcEnter(t, n) ==
    /\ MayEnter(t)
    /\ {m \in 1..MaxNest : <<t, m>> \in held} = 1..(n - 1)
    /\ held' = held \cup {<<t, n>>}
    /\ call' = [call EXCEPT ![t] = [st |-> "add", h |-> <<t, n>>]]
    /\ UNCHANGED <<count, wake, ps, cpu, overlap>>

AdcLeave(t, n) ==
    /\ MayEnter(t)
    /\ {m \in 1..MaxNest : <<t, m>> \in held} = 1..n
    /\ held' = held \ {<<t, n>>}
    /\ call' = [call EXCEPT ![t] = [st |-> "sub", h |-> <<t, n>>]]
    /\ UNCHANGED <<count, wake, ps, cpu, overlap>>

(* gd32_peri_busy_inc: fetch_add, then the acquire when it returned 0.     *)
Add(t) ==
    /\ cpu = "run" /\ call[t].st = "add"
    /\ count' = count + 1
    /\ call' = [call EXCEPT ![t] = IF count = 0 THEN [st |-> "acquire", h |-> call[t].h]
                                                ELSE Out]
    /\ overlap' = IF count = 0 THEN LockDue ELSE overlap
    /\ UNCHANGED <<held, wake, ps, cpu>>

Acquire(t) ==
    /\ cpu = "run" /\ call[t].st = "acquire"
    /\ wake' = wake \cup {BusyId}
    /\ call' = [call EXCEPT ![t] = Out]
    /\ UNCHANGED <<held, count, ps, cpu, overlap>>

(* Wrong variant: fetch_sub's result taken for the new value. *)
SubNewValue(t) ==
    /\ cpu = "run" /\ call[t].st = "sub"
    /\ count' = count - 1
    /\ call' = [call EXCEPT ![t] = IF count = 0 THEN [st |-> "drop", h |-> call[t].h]
                                                ELSE Out]
    /\ overlap' = IF count = 0 THEN LockDue ELSE overlap
    /\ UNCHANGED <<held, wake, ps, cpu>>

(* gd32_peri_busy_dec: fetch_sub, then the release when it returned 1.     *)
Sub(t) ==
    /\ cpu = "run" /\ call[t].st = "sub"
    /\ count' = count - 1
    /\ call' = [call EXCEPT ![t] = IF count = 1 THEN [st |-> "drop", h |-> call[t].h]
                                                ELSE Out]
    /\ overlap' = IF count = 1 THEN LockDue ELSE overlap
    /\ UNCHANGED <<held, wake, ps, cpu>>

Drop(t) ==
    /\ cpu = "run" /\ call[t].st = "drop"
    /\ wake' = wake \ {BusyId}
    /\ call' = [call EXCEPT ![t] = Out]
    /\ UNCHANGED <<held, count, ps, cpu, overlap>>

(* The same two calls made by an interrupt handler, to completion. The     *)
(* handler may find the vote of a task whose hold has not returned: a flag *)
(* left pending raises it at once, and the count is then -1 for a while.   *)
IsrRelease(v) ==
    /\ cpu = "run" /\ v \in held
    /\ held' = held \ {v}
    /\ count' = count - 1
    /\ wake' = IF count = 1 THEN wake \ {BusyId} ELSE wake
    /\ overlap' = IF count = 1 THEN LockDue ELSE overlap
    /\ UNCHANGED <<ps, call, cpu>>

(* A completion callback starts the next transfer from the handler.        *)
IsrHold(v) ==
    /\ cpu = "run" /\ v \notin held
    /\ held' = held \cup {v}
    /\ count' = count + 1
    /\ wake' = IF count = 0 THEN wake \cup {BusyId} ELSE wake
    /\ overlap' = IF count = 0 THEN LockDue ELSE overlap
    /\ UNCHANGED <<ps, call, cpu>>

(* tkl_cpu_sleep_mode_set(enable, TUYA_CPU_SLEEP): sys_ps_set, then the    *)
(* TKL lock.                                                               *)
ModeSetPs(t, enable) ==
    /\ cpu = "run" /\ call[t] = Out
    /\ ps' = enable
    /\ call' = [call EXCEPT ![t] = [st |-> "mode", h |-> enable]]
    /\ UNCHANGED <<held, count, wake, cpu, overlap>>

ModeSetLock(t) ==
    /\ cpu = "run" /\ call[t].st = "mode"
    /\ wake' = IF call[t].h THEN wake \ {TklId} ELSE wake \cup {TklId}
    /\ call' = [call EXCEPT ![t] = Out]
    /\ UNCHANGED <<held, count, ps, cpu, overlap>>

AllowSleep(t) ==
    /\ cpu = "run" /\ call[t] = Out
    /\ wake' = wake \ {TklId}
    /\ UNCHANGED <<held, count, ps, call, cpu, overlap>>

ForceWakeup(t) ==
    /\ cpu = "run" /\ call[t] = Out
    /\ wake' = wake \cup {TklId}
    /\ UNCHANGED <<held, count, ps, call, cpu, overlap>>

(* vPortSuppressTicksAndSleep: freertos_ready_to_sleep, with the busy bit  *)
(* masked out, then freertos_pre_sleep_processing, with interrupts off.    *)
(* long: the idle window reaches DEEP_SLEEP_FLOOR_MS.                      *)
ReadyToSleep == wake \ {BusyId} = {}
TakesDeep(long) == ps /\ BusyId \notin wake /\ long

IdleSleep ==
    /\ cpu = "run" /\ \A t \in Tasks : call[t] = Out
    /\ ReadyToSleep
    /\ \E long \in BOOLEAN : cpu' = IF TakesDeep(long) THEN "deep" ELSE "shallow"
    /\ UNCHANGED <<held, count, wake, ps, call, overlap>>

(* Any interrupt wakes the core; the port takes the systick lock and the   *)
(* next tick returns it (eclic_mtip_handler).                              *)
Wakeup ==
    /\ cpu # "run"
    /\ cpu' = "run"
    /\ wake' = wake \cup {SystickId}
    /\ UNCHANGED <<held, count, ps, call, overlap>>

Tick ==
    /\ cpu = "run" /\ SystickId \in wake
    /\ wake' = wake \ {SystickId}
    /\ UNCHANGED <<held, count, ps, call, cpu, overlap>>

VoteCall(t) == \/ \E v \in Votes : Hold(t, v) \/ Release(t, v)
               \/ \E n \in 1..MaxNest : AdcEnter(t, n) \/ AdcLeave(t, n)
               \/ Add(t) \/ Acquire(t) \/ Sub(t) \/ Drop(t)
ModeCall(t) == \/ \E enable \in BOOLEAN : ModeSetPs(t, enable)
               \/ ModeSetLock(t) \/ AllowSleep(t) \/ ForceWakeup(t)
Isr == \E v \in IsrVotes : IsrRelease(v) \/ IsrHold(v)

Next == \/ \E t \in Tasks : VoteCall(t) \/ ModeCall(t)
        \/ Isr
        \/ IdleSleep \/ Wakeup \/ Tick

Spec == Init /\ [][Next]_vars

-----------------------------------------------------------------------------
Quiet == \A t \in Tasks : ~Inside(t)

(* Stop mode is never entered, or stayed in, while a holder needs its      *)
(* clock: "Refcounted, so nesting and several drivers at once are safe"    *)
(* (gd32_peri_busy.h:14). The code does not keep this: see LockExact.      *)
DeepSleepSafe == cpu = "deep" => held = {}

(* With nobody inside the vote code and nothing held, bit 6 is clear, so   *)
(* stop mode is reachable again: "done with the clock - let idle reach     *)
(* stop mode again" (gd32_peri_busy.h:34). The code does not keep this.    *)
NoLockLeak == Quiet /\ held = {} => BusyId \notin wake

(* What the code does keep, with every preemption: the lock bit can be     *)
(* wrong only if an edge of the count was crossed in the window between    *)
(* another caller's fetch_add or fetch_sub and its lock write, and only    *)
(* until the next edge that meets no such window (gd32_peri_busy_inc,      *)
(* gd32_peri_busy_dec). Otherwise stop mode is entered with no holder, and *)
(* bit 6 is not left behind.                                               *)
LockExact == ~overlap => DeepSleepSafe /\ NoLockLeak

(* The reference count loses nothing, whatever races: at rest it is the    *)
(* number of holders, and it is off only by the calls still in flight.     *)
CountExact ==
    count = Cardinality(held)
            - Cardinality({t \in Tasks : call[t].st = "add"})
            + Cardinality({t \in Tasks : call[t].st = "sub"})
=============================================================================
