------------------------- MODULE TicklessSleepProofs -------------------------
(***************************************************************************)
(* Proofs about TicklessSleep, for any tick length, word size, sleep       *)
(* window, calibration interval and number of sleeps.  Two things are      *)
(* assumed: a tick is a millisecond, as it is configured (the code         *)
(* multiplies by portTICK_PERIOD_MS where it should divide), and the       *)
(* interrupts are held up for less than a tick on the way out of sleep.    *)
(***************************************************************************)
EXTENDS TicklessSleep, TLAPS

Minute == UnitsPerMs * (MsPerSec * SecPerMin)

Pos(x) == IF x > 0 THEN x ELSE 0

\* The timer counter, and real time, minus the ticks counted or owed.
Counter == lag + cerr - TU * Owed
Real == lag - TU * Owed

\* Where in a millisecond of the RTC the ticks fall; it never changes.
Phase == (rtc - lag) % TU

\* The ticks that waking up from a shallow sleep will count.
Coming == IF pc \in {"shallow", "woken"} THEN TU * (expected - 1) ELSE 0

\* What n sleeps may cost.
Cost(n) == n * (2 * TU - 1)

-----------------------------------------------------------------------------
Ranges ==
    /\ TypeOK
    /\ pc # "halted"
    /\ due \in Int /\ lag \in Int /\ cerr \in Int
    /\ expected \in Nat /\ elapsed \in Nat /\ sleeps \in Nat
    /\ rtc \in 0..Minute - 1 /\ before \in 0..Minute - 1

\* Ticks are owed only where something will pay them: at most one is pended,
\* and while it is, the next interrupt is not due yet.
Owing ==
    /\ pended \in {0, 1}
    /\ pended = 1 => due > 0 /\ pc \in {"gate", "woken", "resume"}
    /\ taken # 0 => pc = "replay"
    /\ pc \in {"replay", "calibrate"} => bank = 0

\* The window of a sleep: within what was granted, and never past the next
\* unblock time.  The timer is due when the window ends; an interrupt served
\* on the way out sets it for the next tick.
Window ==
    /\ pc = "gate" => expected = left /\ expected >= MinIdle
    /\ pc \in {"shallow", "deep", "woken"} =>
          /\ expected \in 1..left /\ expected <= MaxSuppressed
          /\ TU * (expected - 1) <= reload /\ reload <= TU * expected
    /\ pc = "shallow" => due = reload - elapsed /\ due >= 0
    /\ pc = "woken" =>
          /\ elapsed <= reload + MaxLate
          /\ pended = 0 => due = reload - elapsed
          /\ pended = 1 => reload <= elapsed /\ due + elapsed >= reload + TU /\ due <= TU
    /\ pc = "deep" =>
          /\ elapsed <= UnitsPerMs * (expected * PeriodMs + MaxOver)
          /\ rtc \in {before + elapsed, before + elapsed - Minute}
          /\ due = reload

\* The kernel stays behind the counter by what is left of the running tick,
\* and by the time slept once it is asleep.
Behind ==
    /\ pc # "deep" => Counter + Pos(due) >= TU + Coming
    /\ pc = "deep" => Counter >= elapsed

\* Likewise behind real time, as the RTC divides it, until it is corrected.
BehindRtc ==
    ~calibrated => /\ pc # "deep" => Real + Phase + Pos(due) >= TU + Coming
                   /\ pc = "deep" => Real + Phase >= elapsed

\* But not further behind than what the sleeps may cost.
Drift ==
    /\ ~Asleep /\ pc # "woken" => Real + Pos(due) <= TU + Cost(sleeps)
    /\ pc = "shallow" => Real + Pos(due) <= TU + Coming + Cost(sleeps - 1)
    /\ pc = "woken" =>
          Real + Pos(due) <= TU + Coming + Cost(sleeps - 1)
                             + (IF pended = 0 THEN Pos(-due) ELSE MaxLate)
    /\ pc = "deep" => Real - elapsed <= TU + Cost(sleeps - 1)

ClockInv == Ranges /\ Owing /\ Window /\ Behind /\ BehindRtc /\ Drift

-----------------------------------------------------------------------------
(* Arithmetic *)

\* Lemma: quotient and remainder.
LEMMA DivMod ==
    ASSUME NEW a \in Int, NEW b \in Nat, b > 0
    PROVE  /\ a \div b \in Int /\ a % b \in Int
           /\ 0 <= a % b /\ a % b < b
           /\ a % b = a - b * (a \div b)
  OBVIOUS

\* Lemma: there is one quotient and one remainder.
LEMMA DivUnique ==
    ASSUME NEW b \in Nat, b > 0, NEW q \in Int, NEW r \in Int, 0 <= r, r < b
    PROVE  (b * q + r) \div b = q /\ (b * q + r) % b = r
<1>1. b * q + r \in Int
  OBVIOUS
<1>2. PICK a \in Int : a = b * q + r
  BY <1>1
<1>3. a \div b = q /\ a % b = r
  BY <1>2
<1> QED  BY <1>2, <1>3

\* Lemma: whole periods do not change the remainder.
LEMMA ModShift ==
    ASSUME NEW a \in Int, NEW b \in Nat, b > 0, NEW k \in Int
    PROVE  (a + b * k) % b = a % b
<1> DEFINE q == a \div b
           r == a % b
<1>1. q \in Int /\ r \in Int /\ 0 <= r /\ r < b /\ r = a - b * q
  BY DivMod
<1> HIDE DEF q, r
<1>2. PICK p \in Int : p = q + k
  BY <1>1
<1>3. a + b * k = b * p + r
  BY <1>1, <1>2
<1>4. (b * p + r) % b = r
  BY <1>1, DivUnique
<1> QED  BY <1>3, <1>4 DEF r

\* Lemma: multiples of a positive number are ordered as their factors are.
LEMMA TimesOrder ==
    ASSUME NEW b \in Nat, b > 0, NEW x \in Int, NEW y \in Int
    PROVE  /\ x < y => b * x + b <= b * y
           /\ x <= y => b * x <= b * y
           /\ b * y < b * x + b => y <= x
  OBVIOUS

\* Lemma: the constants, with a tick of one millisecond.
LEMMA Constants ==
    ASSUME PeriodMs = 1
    PROVE  /\ TU = UnitsPerMs /\ TU \in Nat /\ TU > 0
           /\ MsPerSec \in Nat /\ MsPerSec > 0 /\ SecPerMin \in Nat /\ SecPerMin > 0
           /\ MaxLeft \in Nat /\ MaxLeft > 0 /\ CalEvery \in Nat
           /\ MaxOver \in Nat /\ MaxLate \in Nat /\ MinIdle \in Nat /\ MinIdle > 1
           /\ Word \in Nat /\ MaxSuppressed \in Int /\ MaxSuppressed >= MinIdle
           /\ TU * MaxSuppressed <= Word - 1
           /\ MaxSuppressed + MaxOver < MsPerSec * (SecPerMin - 1)
           /\ Minute \in Nat /\ Minute > 0 /\ Minute = TU * (MsPerSec * SecPerMin)
<1>1. /\ UnitsPerMs \in Nat /\ UnitsPerMs > 0 /\ MsPerSec \in Nat /\ MsPerSec > 0
      /\ SecPerMin \in Nat /\ SecPerMin > 0 /\ MaxLeft \in Nat /\ MaxLeft > 0
      /\ CalEvery \in Nat /\ MaxOver \in Nat /\ MaxLate \in Nat
      /\ MinIdle \in Nat /\ MinIdle > 1 /\ Word \in Nat /\ MaxSuppressed >= MinIdle
  BY TicklessAssumption
<1>2. TU = UnitsPerMs
  BY <1>1 DEF TU
<1>3. MaxSuppressed \in Int /\ TU * MaxSuppressed <= Word - 1
  BY <1>1, <1>2, DivMod DEF MaxSuppressed
<1>4. MaxSuppressed + MaxOver < MsPerSec * (SecPerMin - 1)
  BY <1>3, TicklessAssumption
<1>5. MsPerSec * SecPerMin \in Nat /\ MsPerSec * SecPerMin > 0
  BY <1>1
<1>6. Minute \in Nat /\ Minute > 0
  BY <1>1, <1>5 DEF Minute
<1> QED  BY <1>1, <1>2, <1>3, <1>4, <1>6 DEF Minute

\* Lemma: division is monotonic, and strictly so over a whole divisor.
LEMMA DivMono ==
    ASSUME NEW b \in Nat, b > 0, NEW x \in Int, NEW y \in Int
    PROVE  /\ x <= y => x \div b <= y \div b
           /\ x + b <= y => x \div b < y \div b
<1> DEFINE p == x \div b
           q == y \div b
<1>1. p \in Int /\ q \in Int /\ 0 <= x - b * p /\ x - b * p < b /\ 0 <= y - b * q /\ y - b * q < b
  BY DivMod
<1> HIDE DEF p, q
<1>2. x <= y => b * p < b * q + b
  BY <1>1
<1>3. x + b <= y => b * p + b < b * q + b
  BY <1>1
<1>4. ~(p <= q) => b * q + b <= b * p
  BY <1>1, TimesOrder
<1>5. ~(p < q) => b * q <= b * p
  BY <1>1, TimesOrder
<1> QED  BY <1>1, <1>2, <1>3, <1>4, <1>5 DEF p, q

\* Lemma: the RTC wraps after a minute, the seconds tell whether it did, and
\* passed_time is the difference of the milliseconds all the same.
LEMMA PassedExact ==
    ASSUME PeriodMs = 1, Ranges, Window, pc = "deep"
    PROVE  \E q, r, z, t \in Int :
              /\ 0 <= r /\ r < TU /\ 0 <= t /\ t < TU
              /\ before = TU * q + r
              /\ before + elapsed = TU * z + t
              /\ Passed = z - q /\ Passed >= 0
<1>1. /\ TU = UnitsPerMs /\ TU \in Nat /\ TU > 0 /\ MsPerSec \in Nat /\ MsPerSec > 0
      /\ SecPerMin \in Nat /\ MaxOver \in Nat /\ Minute \in Nat /\ Minute > 0
      /\ Minute = TU * (MsPerSec * SecPerMin) /\ MaxSuppressed \in Int
      /\ MaxSuppressed + MaxOver < MsPerSec * (SecPerMin - 1)
  BY Constants
<1>2. /\ rtc \in Int /\ before \in Int /\ elapsed \in Nat /\ expected \in Nat
      /\ elapsed <= UnitsPerMs * (expected * PeriodMs + MaxOver)
      /\ expected <= MaxSuppressed
      /\ rtc \in {before + elapsed, before + elapsed - Minute}
  BY <1>1 DEF Ranges, Window
<1> DEFINE q == Ms(before)
           p == Ms(rtc)
           mm == MsPerSec * SecPerMin
<1>3. /\ q \in Int /\ 0 <= before - TU * q /\ before - TU * q < TU
      /\ p \in Int /\ 0 <= rtc - TU * p /\ rtc - TU * p < TU
  BY <1>1, <1>2, DivMod DEF Ms
<1>4. /\ Sec(rtc) \in Int /\ Sec(before) \in Int
      /\ p >= q => Sec(rtc) >= Sec(before)
      /\ p + MsPerSec <= q => Sec(rtc) < Sec(before)
  BY <1>1, <1>3, DivMod, DivMono DEF Sec
<1>5. Passed = p - q + IF Sec(rtc) >= Sec(before) THEN 0 ELSE mm
  <2>1. SecPerMin * MsPerSec = mm
    BY <1>1
  <2> QED  BY <2>1 DEF Passed
<1>6. mm \in Int /\ Minute = TU * mm
  BY <1>1
<1>7. elapsed + TU + TU * MsPerSec <= Minute
  <2>1. PICK x \in Int : x = expected + MaxOver
    BY <1>1, <1>2
  <2>2. x < mm - MsPerSec
    BY <1>1, <1>2, <2>1
  <2>3. TU * x + TU <= TU * (mm - MsPerSec)
    BY <1>1, <1>6, <2>2, TimesOrder
  <2>4. TU * (mm - MsPerSec) = Minute - TU * MsPerSec
    BY <1>1, <1>6
  <2>5. elapsed <= TU * x
    BY <1>1, <1>2, <2>1
  <2> QED  BY <1>1, <1>2, <2>1, <2>3, <2>4, <2>5
<1> HIDE DEF q, p, mm
<1>8. CASE rtc = before + elapsed
  <2>1. p >= q
    BY <1>1, <1>2, <1>8, DivMono DEF p, q, Ms
  <2>2. Passed = p - q
    BY <1>3, <1>4, <1>5, <2>1
  <2>3. before = TU * q + (before - TU * q) /\ before + elapsed = TU * p + (rtc - TU * p)
    BY <1>1, <1>2, <1>3, <1>8
  <2> QED  BY <1>1, <1>2, <1>3, <2>1, <2>2, <2>3
<1>9. CASE rtc = before + elapsed - Minute
  <2>1. p + MsPerSec <= q
    <3>1. rtc + TU * MsPerSec + TU <= before
      BY <1>1, <1>2, <1>7, <1>9
    <3>2. TU * (p + MsPerSec) < TU * q + TU
      BY <1>1, <1>2, <1>3, <3>1
    <3>3. p + MsPerSec \in Int
      BY <1>1, <1>3
    <3> QED  BY <1>1, <1>3, <3>2, <3>3, TimesOrder
  <2>2. Passed = (p + mm) - q
    BY <1>1, <1>3, <1>4, <1>5, <1>6, <2>1
  <2>3. before + elapsed = TU * (p + mm) + (rtc - TU * p)
    BY <1>1, <1>2, <1>3, <1>6, <1>9
  <2>4. p + mm >= q
    <3>1. TU * q < TU * (p + mm) + TU
      BY <1>1, <1>2, <1>3, <1>6, <1>9
    <3>2. p + mm \in Int
      BY <1>3, <1>6
    <3> QED  BY <1>1, <1>3, <3>1, <3>2, TimesOrder
  <2>5. PICK z \in Int : z = p + mm
    BY <1>3, <1>6
  <2>6. before = TU * q + (before - TU * q)
    BY <1>1, <1>2, <1>3
  <2> QED  BY <1>1, <1>2, <1>3, <2>2, <2>3, <2>4, <2>5, <2>6
<1> QED  BY <1>2, <1>8, <1>9
-----------------------------------------------------------------------------
(* What the steps do to the accounts *)

\* Lemma: the accounts are integers.
LEMMA Accounts ==
    ASSUME PeriodMs = 1, Ranges
    PROVE  /\ lag \in Int /\ cerr \in Int /\ due \in Int /\ rtc \in Int
           /\ pended \in Nat /\ bank \in Nat /\ taken \in Nat /\ Owed \in Nat
           /\ left \in Nat /\ left > 0 /\ left <= MaxLeft
           /\ expected \in Nat /\ elapsed \in Nat /\ sleeps \in Nat /\ reload \in Nat
           /\ TU * Owed \in Int /\ Counter \in Int /\ Real \in Int
           /\ Phase \in Int /\ 0 <= Phase /\ Phase < TU
           /\ Pos(due) \in Int /\ Coming \in Int /\ Cost(sleeps) \in Int
           /\ Cost(sleeps + 1) = Cost(sleeps) + 2 * TU - 1
           /\ Cost(sleeps) = Cost(sleeps - 1) + 2 * TU - 1
           /\ Cost(sleeps - 1) \in Int
<1>1. TU \in Nat /\ TU > 0 /\ Word \in Nat /\ MaxLeft \in Nat /\ Minute \in Nat
  BY Constants
<1>2. /\ lag \in Int /\ cerr \in Int /\ due \in Int /\ rtc \in Int
      /\ pended \in Nat /\ bank \in Nat /\ taken \in Nat
      /\ left \in Nat /\ left > 0 /\ left <= MaxLeft
      /\ expected \in Nat /\ elapsed \in Nat /\ sleeps \in Nat /\ reload \in Nat
  BY <1>1 DEF Ranges, TypeOK
<1>3. Owed \in Nat
  BY <1>2 DEF Owed
<1>4. TU * Owed \in Int
  BY <1>1, <1>3
<1>5. Counter \in Int /\ Real \in Int
  BY <1>2, <1>4 DEF Counter, Real
<1>6. Phase \in Int /\ 0 <= Phase /\ Phase < TU
  <2>1. rtc - lag \in Int
    BY <1>2
  <2> QED  BY <1>1, <2>1, DivMod DEF Phase
<1>7. Pos(due) \in Int
  BY <1>2 DEF Pos
<1>8. Coming \in Int
  BY <1>1, <1>2 DEF Coming
<1>9. /\ Cost(sleeps) \in Int /\ Cost(sleeps - 1) \in Int
      /\ Cost(sleeps + 1) = Cost(sleeps) + 2 * TU - 1
      /\ Cost(sleeps) = Cost(sleeps - 1) + 2 * TU - 1
  <2>1. PICK c \in Int : c = 2 * TU - 1
    BY <1>1
  <2>2. /\ Cost(sleeps) = sleeps * c /\ Cost(sleeps - 1) = (sleeps - 1) * c
        /\ Cost(sleeps + 1) = (sleeps + 1) * c
    BY <2>1 DEF Cost
  <2>3. sleeps * c \in Int /\ (sleeps - 1) * c = sleeps * c - c /\ (sleeps + 1) * c = sleeps * c + c
    BY <1>2, <2>1
  <2> QED  BY <1>1, <2>1, <2>2, <2>3
<1> QED  BY <1>2, <1>3, <1>4, <1>5, <1>6, <1>7, <1>8, <1>9

\* Lemma: counting n ticks, and owing m more.
LEMMA Moves ==
    ASSUME PeriodMs = 1, Ranges, NEW n \in Int, NEW m \in Int,
           lag' = lag - TU * n, Owed' = Owed + m, cerr' \in Int, rtc' = rtc
    PROVE  /\ Counter' = Counter + (cerr' - cerr) - TU * (n + m)
           /\ Real' = Real - TU * (n + m)
           /\ Phase' = Phase
<1>1. TU \in Nat /\ TU > 0
  BY Constants
<1>2. lag \in Int /\ cerr \in Int /\ Owed \in Int /\ TU * Owed \in Int /\ rtc \in Int
  BY Accounts
<1>3. TU * Owed' = TU * Owed + TU * m /\ TU * (n + m) = TU * n + TU * m
      /\ TU * n \in Int /\ TU * m \in Int
  BY <1>1, <1>2
<1>4. /\ Counter' = lag' + cerr' - TU * Owed'
      /\ Real' = lag' - TU * Owed'
      /\ Phase' = (rtc' - lag') % TU
  BY DEF Counter, Real, Phase
<1>5. Counter' = Counter + (cerr' - cerr) - TU * (n + m) /\ Real' = Real - TU * (n + m)
  BY <1>2, <1>3, <1>4 DEF Counter, Real
<1>6. Phase' = Phase
  <2>1. PICK a \in Int : a = rtc - lag
    BY <1>2
  <2>2. rtc' - lag' = a + TU * n
    BY <1>2, <1>3, <2>1
  <2>3. (a + TU * n) % TU = a % TU
    BY <1>1, ModShift
  <2> QED  BY <1>4, <2>1, <2>2, <2>3 DEF Phase
<1> QED  BY <1>5, <1>6

\* Lemma: what nothing moves.
LEMMA Still ==
    ASSUME PeriodMs = 1, Ranges, UNCHANGED <<lag, cerr, rtc>>, Owed' = Owed
    PROVE  Counter' = Counter /\ Real' = Real /\ Phase' = Phase
  BY DEF Counter, Real, Phase

\* Lemma: ticks that are counted leave the types alone.
LEMMA Incremented ==
    ASSUME PeriodMs = 1, Ranges, NEW n \in Nat, Increment(n)
    PROVE  /\ lag' = lag - TU * n /\ lag' \in Int
           /\ left' \in 1..MaxLeft /\ since' \in 0..CalEvery + 1
<1>1. TU \in Nat /\ TU > 0 /\ CalEvery \in Nat /\ MaxLeft \in Nat
  BY Constants
<1>2. left \in 1..MaxLeft /\ since \in 0..CalEvery + 1 /\ lag \in Int
  BY DEF Ranges, TypeOK
<1>3. lag' = lag - TU * n /\ since' = Min2(since + n, CalEvery + 1)
  BY DEF Increment, Counted
<1>4. left' \in 1..MaxLeft
  BY <1>1, <1>2 DEF Increment
<1>5. TU * n \in Int
  BY <1>1
<1> QED  BY <1>1, <1>2, <1>3, <1>4, <1>5 DEF Min2

-----------------------------------------------------------------------------
(* The invariant, action by action *)

\* Lemma: it holds at the start.
LEMMA InitClock ==
    ASSUME PeriodMs = 1, MaxLate < TU, Init
    PROVE  ClockInv
<1>1. /\ TU \in Nat /\ TU > 0 /\ TU = UnitsPerMs /\ Word \in Nat /\ MaxLeft \in Nat /\ CalEvery \in Nat
      /\ MsPerSec \in Nat /\ MsPerSec > 0 /\ SecPerMin \in Nat /\ SecPerMin > 0
      /\ Minute \in Nat /\ Minute > 0 /\ Minute = TU * (MsPerSec * SecPerMin)
      /\ MaxSuppressed \in Int /\ MaxSuppressed > 1 /\ TU * MaxSuppressed <= Word - 1
  BY Constants
<1>2. TU <= Minute
  <2>1. PICK k \in Int : k = MsPerSec * SecPerMin /\ k >= 1
    BY <1>1
  <2> QED  BY <1>1, <2>1, TimesOrder
<1>3. Word >= 1
  BY <1>1
<1>4. Ranges
  BY <1>1, <1>2, <1>3 DEF Init, Ranges, TypeOK, Asleep
<1>5. Owing /\ Window
  BY DEF Init, Owing, Window
<1>6. Owed = 0 /\ lag = 0 /\ cerr = 0 /\ due = TU /\ pc = "hook" /\ sleeps = 0
  BY DEF Init, Owed
<1>7. Counter = 0 /\ Real = 0 /\ Pos(due) = TU /\ Coming = 0 /\ Cost(sleeps) = 0
  BY <1>1, <1>6 DEF Counter, Real, Pos, Coming, Cost
<1>8. Phase \in Int /\ Phase >= 0
  BY <1>4, Accounts
<1>9. Behind /\ BehindRtc /\ Drift
  BY <1>1, <1>6, <1>7, <1>8 DEF Behind, BehindRtc, Drift, Asleep
<1> QED  BY <1>4, <1>5, <1>9 DEF ClockInv

\* Lemma: steps that move no clock and begin or end no sleep.
LEMMA QuietStep ==
    ASSUME PeriodMs = 1, MaxLate < TU, ClockInv,
           UNCHANGED <<due, reload, elapsed, before, since, rtc, lag, cerr, sleeps, calibrated>>,
           Owed' = Owed, left' \in 1..MaxLeft, pended' = pended,
           bank' \in Nat, taken' \in Nat, expected' \in Nat,
           Owing', Window', pc' \in {"hook", "replay", "calibrate", "idle", "gate", "resume"},
           pc \in {"hook", "replay", "calibrate", "idle", "gate", "resume"}
    PROVE  ClockInv'
<1>1. Counter' = Counter /\ Real' = Real /\ Phase' = Phase
  BY Still DEF ClockInv
<1>2. Coming = 0 /\ Coming' = 0
  BY DEF Coming
<1>3. Ranges'
  BY DEF ClockInv, Ranges, TypeOK, Asleep
<1>4. Pos(due)' = Pos(due) /\ Cost(sleeps)' = Cost(sleeps)
  BY DEF Pos, Cost
<1>5. Behind'
  BY <1>1, <1>2, <1>4 DEF ClockInv, Behind
<1>6. BehindRtc'
  BY <1>1, <1>2, <1>4 DEF ClockInv, BehindRtc
<1>7. Drift'
  BY <1>1, <1>2, <1>4 DEF ClockInv, Drift, Asleep
<1> QED  BY <1>3, <1>5, <1>6, <1>7 DEF ClockInv
\* Lemma: what other tasks and interrupts do to the idle task.
LEMMA OthersClock ==
    ASSUME PeriodMs = 1, MaxLate < TU, ClockInv, Interrupt \/ Block
    PROVE  ClockInv'
<1>1. /\ UNCHANGED <<pc, pended, bank, taken, due, ticklock, sleepvars, since, rtc, lag, cerr,
                     sleeps, calibrated>>
      /\ ~Asleep
  BY DEF Interrupt, Block, Suspended
<1>2. UNCHANGED <<expected, reload, elapsed, before>>
  BY <1>1 DEF sleepvars
<1>3. left \in 1..MaxLeft /\ MaxLeft \in Nat
  BY Constants DEF ClockInv, Ranges, TypeOK
<1>4. left' \in 1..MaxLeft /\ (left' = left \/ ~Suspended)
  <2>1. CASE Interrupt
    BY <1>3, <2>1 DEF Interrupt
  <2>2. CASE Block
    <3>1. left' \in 1..left /\ ~Suspended
      BY <2>2 DEF Block
    <3> QED  BY <1>3, <3>1
  <2> QED  BY <2>1, <2>2
<1>5. Window'
  BY <1>1, <1>2, <1>4 DEF ClockInv, Window, Suspended, Asleep
<1>6. Owing' /\ Owed' = Owed
  BY <1>1 DEF ClockInv, Owing, Owed
<1>7. Counter' = Counter /\ Real' = Real /\ Phase' = Phase
  BY <1>1, <1>6, Still DEF ClockInv
<1>8. Coming' = Coming
  BY <1>1, <1>2 DEF Coming
<1>9. Ranges'
  BY <1>1, <1>2, <1>4 DEF ClockInv, Ranges, TypeOK, Asleep
<1>10. Behind' /\ BehindRtc' /\ Drift'
  BY <1>1, <1>2, <1>7, <1>8 DEF ClockInv, Behind, BehindRtc, Drift, Pos, Cost, Asleep
<1> QED  BY <1>5, <1>6, <1>9, <1>10 DEF ClockInv

\* Lemma: the steps of the idle task that count nothing.
LEMMA IdleClock ==
    ASSUME PeriodMs = 1, MaxLate < TU, ClockInv, Catchup \/ Idle \/ Abort
    PROVE  ClockInv'
<1>1. /\ bank \in Nat /\ taken \in Nat /\ pended \in Nat /\ left \in 1..MaxLeft
      /\ expected \in Nat /\ left \in Nat /\ MaxLeft \in Nat /\ Owing /\ Window
  BY Accounts, Constants DEF ClockInv, Ranges, TypeOK
<1>2. CASE Catchup
  <2>1. /\ UNCHANGED <<due, sleepvars, since, rtc, lag, cerr, sleeps, calibrated, left, pended>>
        /\ bank' = 0 /\ taken' = bank /\ taken = 0 /\ pc = "hook" /\ pc' = "replay"
    BY <1>1, <1>2 DEF Catchup, Owing
  <2>2. Owed' = Owed
    BY <1>1, <2>1 DEF Owed
  <2>3. Owing' /\ Window'
    BY <1>1, <2>1 DEF Owing, Window, sleepvars
  <2> QED  BY <1>1, <2>1, <2>2, <2>3, QuietStep DEF sleepvars
<1>3. CASE Idle
  <2>1. /\ UNCHANGED <<due, reload, elapsed, before, since, rtc, lag, cerr, sleeps, calibrated,
                       left, pended, bank, taken>>
        /\ pc = "idle"
        /\ \/ left >= MinIdle /\ expected' = left /\ pc' = "gate"
           \/ pc' = "hook" /\ expected' = expected
    BY <1>3 DEF Idle
  <2>2. Owed' = Owed
    BY <2>1 DEF Owed
  <2>3. Owing' /\ Window'
    BY <1>1, <2>1 DEF Owing, Window
  <2> QED  BY <1>1, <2>1, <2>2, <2>3, QuietStep
<1>4. CASE Abort
  <2>1. /\ UNCHANGED <<due, since, rtc, lag, cerr, sleeps, calibrated, left, pended, bank, taken>>
        /\ pc = "gate" /\ pc' = "resume"
        /\ expected' = 0 /\ reload' = 0 /\ elapsed' = 0 /\ before' = 0
    BY <1>4 DEF Abort, Forget
  <2>2. Owed' = Owed
    BY <2>1 DEF Owed
  <2>3. Owing' /\ Window'
    BY <1>1, <2>1 DEF Owing, Window
  <2>4. Counter' = Counter /\ Real' = Real /\ Phase' = Phase
    BY <2>1, <2>2, Still DEF ClockInv
  <2>5. Coming' = 0 /\ Coming = 0
    BY <2>1 DEF Coming
  <2>6. Ranges'
    <3>1. Word \in Nat /\ Word > 0 /\ Minute \in Nat /\ Minute > 0
      <4>1. /\ TU \in Nat /\ TU > 0 /\ MaxSuppressed \in Int /\ MaxSuppressed > 0
            /\ TU * MaxSuppressed <= Word - 1 /\ Word \in Nat /\ Minute \in Nat /\ Minute > 0
        BY Constants
      <4> QED  BY <4>1
    <3> QED  BY <2>1, <3>1 DEF ClockInv, Ranges, TypeOK, Asleep
  <2>7. Behind' /\ BehindRtc' /\ Drift'
    BY <2>1, <2>4, <2>5 DEF ClockInv, Behind, BehindRtc, Drift, Pos, Cost, Asleep
  <2> QED  BY <2>3, <2>6, <2>7 DEF ClockInv
<1> QED  BY <1>2, <1>3, <1>4

\* Lemma: ticks that were owed are counted; nothing else changes.
LEMMA PaidStep ==
    ASSUME PeriodMs = 1, MaxLate < TU, ClockInv, NEW n \in Nat, Increment(n), Owed' = Owed - n,
           UNCHANGED <<due, sleepvars, rtc, cerr, sleeps, calibrated>>,
           pended' = 0, bank' \in Nat, taken' = 0, pc' \in {"hook", "calibrate"},
           pc' = "calibrate" => bank' = 0, pc \in {"replay", "resume"}
    PROVE  ClockInv'
<1>1. TU \in Nat /\ TU > 0 /\ cerr \in Int /\ Owed \in Int
  BY Constants, Accounts DEF ClockInv
<1>2. lag' = lag - TU * n /\ lag' \in Int /\ left' \in 1..MaxLeft /\ since' \in 0..CalEvery + 1
  BY Incremented DEF ClockInv
<1>3. PICK m \in Int : m = -n
  OBVIOUS
<1>4. Owed' = Owed + m /\ n + m = 0 /\ TU * 0 = 0
  BY <1>1, <1>3
<1>5. Counter' = Counter /\ Real' = Real /\ Phase' = Phase
  <2>1. /\ Counter' = Counter + (cerr' - cerr) - TU * (n + m)
        /\ Real' = Real - TU * (n + m)
        /\ Phase' = Phase
    BY <1>1, <1>2, <1>4, Moves DEF ClockInv
  <2>2. Counter \in Int /\ Real \in Int
    BY Accounts DEF ClockInv
  <2> QED  BY <1>1, <1>4, <2>1, <2>2
<1>6. Coming' = 0 /\ Coming = 0
  BY DEF Coming
<1>7. Ranges'
  BY <1>2 DEF ClockInv, Ranges, TypeOK, Asleep, sleepvars
<1>8. Owing' /\ Window'
  BY DEF Owing, Window
<1>9. Behind' /\ BehindRtc' /\ Drift'
  BY <1>5, <1>6 DEF ClockInv, Behind, BehindRtc, Drift, Pos, Cost, Asleep
<1> QED  BY <1>7, <1>8, <1>9 DEF ClockInv

\* Lemma: the replay of what was banked, and the ticks made on resuming.
LEMMA PayClock ==
    ASSUME PeriodMs = 1, MaxLate < TU, ClockInv, Replay \/ Resume
    PROVE  ClockInv'
<1>1. bank \in Nat /\ taken \in Nat /\ pended \in Nat /\ Owing
  BY Accounts DEF ClockInv
<1>2. CASE Replay
  <2>1. /\ pc = "replay" /\ pc' = "calibrate" /\ Increment(taken) /\ taken' = 0
        /\ UNCHANGED <<pended, bank, due, sleepvars, rtc, cerr, sleeps, calibrated>>
        /\ pended = 0 /\ bank = 0
    BY <1>1, <1>2 DEF Replay, Owing
  <2>2. Owed' = Owed - taken
    BY <1>1, <2>1 DEF Owed
  <2> QED  BY <1>1, <2>1, <2>2, PaidStep
<1>3. CASE Resume
  <2>1. /\ pc = "resume" /\ pc' = "hook" /\ Increment(pended) /\ pended' = 0
        /\ UNCHANGED <<taken, bank, due, sleepvars, rtc, cerr, sleeps, calibrated>>
        /\ taken = 0
    BY <1>1, <1>3 DEF Resume, Owing
  <2>2. Owed' = Owed - pended
    BY <1>1, <2>1 DEF Owed
  <2> QED  BY <1>1, <2>1, <2>2, PaidStep
<1> QED  BY <1>2, <1>3

\* Lemma: the timer interrupt, which is due no later than a tick.
LEMMA TickClock ==
    ASSUME PeriodMs = 1, MaxLate < TU, ClockInv, TickIsr
    PROVE  ClockInv'
<1>1. TU \in Nat /\ TU > 0 /\ MaxLate \in Nat
  BY Constants
<1>2. /\ due \in Int /\ due <= 0 /\ due' = TU /\ ~Asleep /\ pc # "halted"
      /\ UNCHANGED <<pc, bank, taken, sleepvars, rtc, cerr, sleeps, calibrated>>
      /\ elapsed \in Nat /\ reload \in Nat /\ bank \in Nat /\ taken \in Nat
      /\ Owed \in Nat /\ Counter \in Int /\ Real \in Int /\ lag \in Int /\ cerr \in Int
      /\ Coming \in Int /\ Phase \in Int /\ Cost(sleeps) \in Int /\ Cost(sleeps - 1) \in Int
  BY Accounts DEF ClockInv, TickIsr
<1>3. UNCHANGED <<expected, reload, elapsed, before>>
  BY <1>2 DEF sleepvars
<1>4. pended = 0
  BY <1>2 DEF ClockInv, Owing
<1>5. \/ Suspended /\ pended' = 1 /\ UNCHANGED <<left, lag, since>>
      \/ ~Suspended /\ Increment(1) /\ pended' = 0
  BY <1>4 DEF TickIsr
<1>6. \E n, m \in Int : n + m = 1 /\ lag' = lag - TU * n /\ Owed' = Owed + m
  <2>1. CASE Suspended
    <3>1. lag' = lag - TU * 0 /\ Owed' = Owed + 1
      BY <1>1, <1>2, <1>4, <1>5, <2>1 DEF Owed
    <3> QED  BY <3>1
  <2>2. CASE ~Suspended
    <3>1. lag' = lag - TU * 1 /\ Owed' = Owed + 0
      BY <1>2, <1>4, <1>5, <2>2, Incremented DEF Owed, ClockInv
    <3> QED  BY <3>1
  <2> QED  BY <2>1, <2>2
<1>7. Counter' = Counter - TU /\ Real' = Real - TU /\ Phase' = Phase
  <2>1. PICK n, m \in Int : n + m = 1 /\ lag' = lag - TU * n /\ Owed' = Owed + m
    BY <1>6
  <2>2. TU * (n + m) = TU
    BY <1>1, <2>1
  <2> QED  BY <1>1, <1>2, <2>1, <2>2, Moves DEF ClockInv
<1>8. Pos(due) = 0 /\ Pos(due)' = TU /\ Coming' = Coming /\ Cost(sleeps)' = Cost(sleeps)
      /\ Cost(sleeps - 1)' = Cost(sleeps - 1)
  BY <1>1, <1>2, <1>3 DEF Pos, Coming, Cost
<1>9. Ranges'
  <2>1. lag' \in Int /\ left' \in 1..MaxLeft /\ since' \in 0..CalEvery + 1
    BY <1>2, <1>5, Incremented DEF ClockInv, Ranges, TypeOK
  <2>2. TU <= Word - 1
    <3>1. /\ MaxSuppressed \in Int /\ MaxSuppressed >= 1 /\ TU * MaxSuppressed <= Word - 1
          /\ Word \in Nat
      BY Constants
    <3>2. TU * 1 <= TU * MaxSuppressed
      BY <1>1, <3>1, TimesOrder
    <3> QED  BY <1>1, <3>1, <3>2
  <2>3. Word \in Nat
    BY Constants
  <2> QED  BY <1>1, <1>2, <1>3, <1>5, <2>1, <2>2, <2>3 DEF ClockInv, Ranges, TypeOK, Asleep
<1>10. Owing'
  BY <1>1, <1>2, <1>4, <1>5 DEF ClockInv, Owing, Suspended, Asleep
<1>11. Window'
  <2>1. pc = "woken" => due = reload - elapsed /\ elapsed <= reload + MaxLate
    BY <1>4 DEF ClockInv, Window
  <2>2. pc \in {"gate", "woken"} => left' = left /\ pended' = 1
    BY <1>5 DEF Suspended
  <2> QED  BY <1>1, <1>2, <1>3, <2>1, <2>2 DEF ClockInv, Window, Asleep
<1>12. Behind'
  BY <1>1, <1>2, <1>7, <1>8 DEF ClockInv, Behind, Asleep
<1>13. BehindRtc'
  BY <1>1, <1>2, <1>7, <1>8 DEF ClockInv, BehindRtc, Asleep
<1>14. Drift'
  <2>1. pc = "woken" => /\ Pos(-due) <= MaxLate /\ pended' = 1
                        /\ Real <= TU + Coming + Cost(sleeps - 1) + Pos(-due)
    <3>1. pc = "woken" => due = reload - elapsed /\ elapsed <= reload + MaxLate
      BY <1>4 DEF ClockInv, Window
    <3>2. pc = "woken" => pended' = 1
      BY <1>5 DEF Suspended
    <3>3. pc = "woken" => Real <= TU + Coming + Cost(sleeps - 1) + Pos(-due)
      BY <1>2, <1>4, <1>8 DEF ClockInv, Drift
    <3> QED  BY <1>1, <1>2, <3>1, <3>2, <3>3 DEF Pos
  <2>2. Pos(-due) \in Int
    BY <1>2 DEF Pos
  <2>3. pc # "woken" => Real <= TU + Cost(sleeps)
    BY <1>2, <1>8 DEF ClockInv, Drift
  <2> QED  BY <1>1, <1>2, <1>7, <1>8, <2>1, <2>2, <2>3 DEF Drift, Asleep
<1> QED  BY <1>9, <1>10, <1>11, <1>12, <1>13, <1>14 DEF ClockInv
\* Lemma: the calibration steps less than the counter is ahead.
LEMMA CalibrateClock ==
    ASSUME PeriodMs = 1, MaxLate < TU, ClockInv, Calibrate
    PROVE  ClockInv'
<1>1. /\ TU \in Nat /\ TU > 0 /\ MinIdle \in Nat /\ MinIdle > 1 /\ CalEvery \in Nat
      /\ MaxLeft \in Nat
  BY Constants
<1>2. /\ pc = "calibrate" /\ pc' = "idle"
      /\ UNCHANGED <<pended, bank, taken, due, sleepvars, rtc, cerr, sleeps>>
      /\ lag \in Int /\ cerr \in Int /\ left \in Nat /\ left > 0 /\ left <= MaxLeft
      /\ Counter \in Int /\ Real \in Int /\ Pos(due) \in Int /\ Cost(sleeps) \in Int
      /\ Owed \in Int /\ due \in Int
  BY Accounts DEF Calibrate, ClockInv
<1>3. pended = 0 /\ bank = 0 /\ taken = 0
  BY <1>2 DEF ClockInv, Owing
<1>4. Owed = 0 /\ Owed' = 0
  BY <1>2, <1>3 DEF Owed
<1>5. UNCHANGED <<expected, reload, elapsed, before>>
  BY <1>2 DEF sleepvars
<1>6. Owing' /\ Window'
  BY <1>2, <1>3 DEF Owing, Window
<1>7. Coming = 0 /\ Coming' = 0 /\ Pos(due)' = Pos(due) /\ Cost(sleeps)' = Cost(sleeps)
  BY <1>2 DEF Coming, Pos, Cost
<1>8. CASE DeltaTick > MinIdle /\ since > CalEvery
  <2>1. PICK n \in Nat : n = Min2(MinIdle, left)
    BY <1>1, <1>2 DEF Min2
  <2>2. n <= MinIdle
    BY <1>1, <1>2, <2>1 DEF Min2
  <2>3. lag' = lag - TU * n /\ calibrated' = TRUE
    BY <1>8, <2>1 DEF Calibrate
  <2>4. left' \in 1..MaxLeft /\ since' \in 0..CalEvery + 1
    BY <1>1, <1>2, <1>8, <2>1 DEF Calibrate, Min2
  <2>5. lag' \in Int /\ TU * n \in Int /\ TU * n >= 0
    BY <1>1, <1>2, <2>3
  <2>6. Owed' = Owed + 0 /\ cerr' \in Int /\ rtc' = rtc
    BY <1>2, <1>4
  <2>7. Counter' = Counter + (cerr' - cerr) - TU * (n + 0) /\ Real' = Real - TU * (n + 0)
    BY <2>3, <2>6, Moves DEF ClockInv
  <2>8. Counter' = Counter - TU * n /\ Real' = Real - TU * n
    BY <1>1, <1>2, <2>5, <2>7
  <2>9. Counter >= TU * n + TU
    <3>1. PICK d \in Int : d = (lag + cerr) \div TU /\ TU * d <= lag + cerr
      BY <1>1, <1>2, DivMod
    <3>2. n < d
      BY <1>1, <1>8, <2>2, <3>1 DEF DeltaTick
    <3>3. TU * n + TU <= TU * d
      BY <1>1, <3>1, <3>2, TimesOrder
    <3>4. Counter = lag + cerr
      BY <1>1, <1>2, <1>4 DEF Counter
    <3> QED  BY <1>1, <1>2, <3>1, <3>3, <3>4
  <2>10. Ranges'
    BY <1>2, <1>5, <2>4, <2>5 DEF ClockInv, Ranges, TypeOK, Asleep
  <2>11. Behind'
    <3>1. Pos(due) >= 0
      BY <1>2 DEF Pos
    <3> QED  BY <1>1, <1>2, <1>7, <2>5, <2>8, <2>9, <3>1 DEF Behind
  <2>12. BehindRtc'
    BY <2>3 DEF BehindRtc
  <2>13. Drift'
    BY <1>1, <1>2, <1>7, <2>5, <2>8 DEF ClockInv, Drift, Asleep
  <2> QED  BY <1>6, <2>10, <2>11, <2>12, <2>13 DEF ClockInv
<1>9. CASE ~(DeltaTick > MinIdle /\ since > CalEvery)
  <2>1. UNCHANGED <<left, lag, since, calibrated>>
    BY <1>9 DEF Calibrate
  <2>2. bank' \in Nat /\ taken' \in Nat /\ expected' \in Nat /\ left' \in 1..MaxLeft
    BY <1>2, <1>3, <1>5, <2>1 DEF ClockInv, Ranges
  <2> QED  BY <1>2, <1>4, <1>5, <1>6, <2>1, <2>2, QuietStep
<1> QED  BY <1>8, <1>9

\* Lemma: the reload value of a sleep stays within the word.
LEMMA Reload ==
    ASSUME PeriodMs = 1, ClockInv, pc = "gate"
    PROVE  /\ Granted \in 2..left /\ Granted <= MaxSuppressed
           /\ TU * (Granted - 1) \in Int
           /\ (TU * (Granted - 1) + IF due > 0 THEN due ELSE 0) % Word
                = TU * (Granted - 1) + Pos(due)
           /\ TU * (Granted - 1) + Pos(due) \in 0..Word - 1
           /\ TU * (Granted - 1) + Pos(due) <= TU * Granted
<1>1. /\ TU \in Nat /\ TU > 0 /\ MinIdle \in Nat /\ MinIdle > 1 /\ Word \in Nat
      /\ MaxSuppressed \in Int /\ MaxSuppressed >= MinIdle /\ TU * MaxSuppressed <= Word - 1
  BY Constants
<1>2. expected = left /\ expected >= MinIdle /\ expected \in Nat /\ due \in Int /\ due <= TU
  BY Accounts DEF ClockInv, Window, Ranges, TypeOK, Asleep
<1>3. PICK g \in Int : g = Granted
  BY <1>1, <1>2 DEF Granted, Min2
<1>4. g \in 2..left /\ g <= MaxSuppressed
  BY <1>1, <1>2, <1>3 DEF Granted, Min2
<1>5. TU * (g - 1) = TU * g - TU /\ TU * g \in Int /\ TU * 1 <= TU * g
  BY <1>1, <1>4, TimesOrder
<1>6. TU * g <= TU * MaxSuppressed
  BY <1>1, <1>4, TimesOrder
<1>7. Pos(due) \in 0..TU /\ (IF due > 0 THEN due ELSE 0) = Pos(due)
  BY <1>1, <1>2 DEF Pos
<1>8. PICK c \in Int : c = TU * (g - 1) + Pos(due)
  BY <1>1, <1>5, <1>7
<1>9. 0 <= c /\ c <= Word - 1 /\ c <= TU * g
  BY <1>1, <1>5, <1>6, <1>7, <1>8
<1>10. c % Word = c
  BY <1>1, <1>9
<1> QED  BY <1>1, <1>3, <1>4, <1>5, <1>7, <1>8, <1>9, <1>10

\* Lemma: falling asleep.
LEMMA SleepClock ==
    ASSUME PeriodMs = 1, MaxLate < TU, ClockInv, SleepShallow \/ SleepDeep
    PROVE  ClockInv'
<1>1. TU \in Nat /\ TU > 0 /\ MaxOver \in Nat /\ Minute \in Nat /\ TU = UnitsPerMs
  BY Constants
<1>2. PICK mode \in {"shallow", "deep"} : Sleep(mode)
  BY DEF SleepShallow, SleepDeep
<1>3. PICK g \in Int : g = Granted
  BY <1>2, Reload DEF Sleep
<1> DEFINE c == TU * (g - 1) + Pos(due)
<1>4. /\ g \in 2..left /\ g <= MaxSuppressed /\ TU * (g - 1) \in Int
      /\ c \in 0..Word - 1 /\ c <= TU * g /\ reload' = c /\ due' = c
  BY <1>2, <1>3, Reload DEF Sleep
<1>5. /\ pc = "gate" /\ pc' = mode /\ pended = 0 /\ expected' = g /\ elapsed' = 0 /\ before' = rtc
      /\ sleeps' = sleeps + 1
      /\ UNCHANGED <<left, pended, bank, taken, since, rtc, lag, cerr, calibrated>>
  BY <1>2, <1>3 DEF Sleep, MaySleep
<1>6. /\ Counter \in Int /\ Real \in Int /\ Phase \in Int /\ Pos(due) \in Int /\ rtc \in Int
      /\ Cost(sleeps) \in Int /\ sleeps \in Nat /\ due \in Int
  BY Accounts DEF ClockInv
<1>7. 0 <= Pos(due) /\ Pos(due) <= TU
  BY <1>1, <1>5, <1>6 DEF ClockInv, Ranges, TypeOK, Asleep, Pos
<1>8. Owed' = Owed
  BY <1>5 DEF Owed
<1>9. Counter' = Counter /\ Real' = Real /\ Phase' = Phase
  BY <1>5, <1>8, Still DEF ClockInv
<1>10. /\ Counter + Pos(due) >= TU /\ Real + Pos(due) <= TU + Cost(sleeps)
       /\ ~calibrated => Real + Phase + Pos(due) >= TU
  BY <1>1, <1>5, <1>6 DEF ClockInv, Behind, BehindRtc, Drift, Coming, Asleep
<1>11. Pos(due)' = c /\ c \in Int
  BY <1>4, <1>6 DEF Pos
<1>12. Coming' = IF mode = "shallow" THEN TU * (g - 1) ELSE 0
  BY <1>5 DEF Coming
<1>13. Cost(sleeps - 1)' = Cost(sleeps)
  BY <1>5, <1>6 DEF Cost
<1>14. Ranges'
  BY <1>4, <1>5, <1>6, <1>11 DEF ClockInv, Ranges, TypeOK, Asleep
<1>15. Owing'
  BY <1>5 DEF ClockInv, Owing
<1>16. Window'
  <2>1. TU * (g - 1) <= c
    BY <1>4, <1>6, <1>7
  <2>2. 0 <= UnitsPerMs * (g * PeriodMs + MaxOver)
    BY <1>1, <1>4
  <2> QED  BY <1>1, <1>4, <1>5, <1>6, <2>1, <2>2 DEF Window
<1> HIDE DEF c
<1>17. c = TU * (g - 1) + Pos(due)
  BY DEF c
<1>18. Behind'
  BY <1>1, <1>4, <1>5, <1>6, <1>7, <1>9, <1>10, <1>11, <1>12, <1>17 DEF Behind
<1>19. BehindRtc'
  BY <1>1, <1>4, <1>5, <1>6, <1>7, <1>9, <1>10, <1>11, <1>12, <1>17 DEF BehindRtc
<1>20. Drift'
  BY <1>1, <1>4, <1>5, <1>6, <1>7, <1>9, <1>10, <1>11, <1>12, <1>13, <1>17 DEF Drift, Asleep
<1> QED  BY <1>14, <1>15, <1>16, <1>18, <1>19, <1>20 DEF ClockInv

\* Lemma: the end of a shallow sleep.
LEMMA WakeShallowClock ==
    ASSUME PeriodMs = 1, MaxLate < TU, ClockInv, WakeShallow
    PROVE  ClockInv'
<1>1. /\ pc = "shallow" /\ pc' = "woken"
      /\ UNCHANGED <<left, pended, bank, taken, due, sleepvars, since, rtc, lag, cerr, sleeps,
                     calibrated>>
  BY DEF WakeShallow
<1>2. UNCHANGED <<expected, reload, elapsed, before>>
  BY <1>1 DEF sleepvars
<1>3. /\ pended = 0 /\ MaxLate \in Nat /\ elapsed \in Nat /\ reload \in Nat /\ due \in Int
      /\ due = reload - elapsed /\ due >= 0
  BY <1>1, Accounts, Constants DEF ClockInv, Owing, Window
<1>4. Owed' = Owed
  BY <1>1 DEF Owed
<1>5. Counter' = Counter /\ Real' = Real /\ Phase' = Phase
  BY <1>1, <1>4, Still DEF ClockInv
<1>6. Coming' = Coming /\ Pos(due)' = Pos(due) /\ Cost(sleeps - 1)' = Cost(sleeps - 1) /\ Pos(-due) = 0
  BY <1>1, <1>2, <1>3 DEF Coming, Pos, Cost
<1>7. Ranges'
  BY <1>1, <1>2 DEF ClockInv, Ranges, TypeOK, Asleep
<1>8. Owing'
  BY <1>1, <1>3 DEF ClockInv, Owing
<1>9. Window'
  BY <1>1, <1>2, <1>3 DEF ClockInv, Window
<1>10. Behind' /\ BehindRtc'
  BY <1>1, <1>5, <1>6 DEF ClockInv, Behind, BehindRtc
<1>11. Drift'
  <2>1. Cost(sleeps - 1) \in Int /\ Coming \in Int /\ TU \in Int /\ Real \in Int
    BY Accounts, Constants DEF ClockInv
  <2>2. Pos(-due)' = 0
    BY <1>1, <1>3 DEF Pos
  <2> QED  BY <1>1, <1>3, <1>5, <1>6, <2>1, <2>2 DEF ClockInv, Drift, Asleep
<1> QED  BY <1>7, <1>8, <1>9, <1>10, <1>11 DEF ClockInv
\* Lemma: what stepping n ticks at once does, when the window allows them.
LEMMA Stepped ==
    ASSUME PeriodMs = 1, Ranges, NEW n \in Nat, n <= left, pended = 0 \/ n < left,
           pended \in {0, 1}, StepTick(n, "resume")
    PROVE  /\ pc' = "resume"
           /\ left' \in 1..MaxLeft /\ since' \in 0..CalEvery + 1
           /\ pended' \in {0, 1} /\ (n < left => pended' = pended)
           /\ lag' = lag - TU * (n - (pended' - pended)) /\ lag' \in Int
<1>1. TU \in Nat /\ TU > 0 /\ CalEvery \in Nat /\ MaxLeft \in Nat
  BY Constants
<1>2. left \in 1..MaxLeft /\ since \in 0..CalEvery + 1 /\ lag \in Int
  BY DEF Ranges, TypeOK
<1> DEFINE hit == IF n = left THEN 1 ELSE 0
<1>3. /\ pc' = "resume" /\ pended' = pended + hit /\ left' = left - (n - hit)
      /\ lag' = lag - TU * (n - hit) /\ since' = Min2(since + (n - hit), CalEvery + 1)
  BY <1>1, <1>2 DEF StepTick, Counted
<1>4. hit \in {0, 1} /\ n - hit \in 0..left - 1 /\ (n < left => hit = 0) /\ (n = left => n - hit = left - 1)
  BY <1>1, <1>2
<1> HIDE DEF hit
<1>5. pended' - pended = hit /\ pended' \in {0, 1}
  BY <1>1, <1>2, <1>3, <1>4 DEF hit
<1>6. since' \in 0..CalEvery + 1 /\ left' \in 1..MaxLeft
  BY <1>1, <1>2, <1>3, <1>4 DEF Min2
<1>7. lag' \in Int
  <2>1. PICK k \in Int : k = n - hit
    BY <1>4
  <2> QED  BY <1>1, <1>2, <1>3, <2>1
<1> QED  BY <1>3, <1>4, <1>5, <1>6, <1>7

\* Lemma: the code after a shallow sleep counts what has passed, and loses
\* less than two ticks.
LEMMA AfterWakeClock ==
    ASSUME PeriodMs = 1, MaxLate < TU, ClockInv, AfterWake
    PROVE  ClockInv'
<1>1. TU \in Nat /\ TU > 0 /\ MaxLate \in Nat /\ Word \in Nat /\ Minute \in Nat /\ Minute > 0
  BY Constants
<1>2. /\ pc = "woken" /\ expected' = 0 /\ reload' = 0 /\ elapsed' = 0 /\ before' = 0
      /\ UNCHANGED <<bank, taken, rtc, cerr, sleeps, calibrated>>
  BY DEF AfterWake, Forget
<1>3. /\ Counter \in Int /\ Real \in Int /\ Phase \in Int /\ due \in Int /\ lag \in Int /\ cerr \in Int
      /\ Owed \in Int /\ pended \in Nat /\ bank \in Nat /\ taken \in Nat /\ left \in Nat
      /\ expected \in Nat /\ elapsed \in Nat /\ reload \in Nat
      /\ Cost(sleeps - 1) \in Int /\ Cost(sleeps) = Cost(sleeps - 1) + 2 * TU - 1
  BY Accounts DEF ClockInv
<1>4. /\ expected \in 1..left /\ TU * (expected - 1) <= reload /\ reload <= TU * expected
      /\ elapsed <= reload + MaxLate
      /\ pended = 0 => due = reload - elapsed
      /\ pended = 1 => reload <= elapsed /\ due > 0 /\ due <= TU
      /\ pended \in {0, 1}
  BY <1>2 DEF ClockInv, Window, Owing
<1>5. PICK E \in Int : E = TU * (expected - 1)
  BY <1>1, <1>3
<1>6. /\ Coming = E /\ TU * expected = E + TU
  BY <1>1, <1>2, <1>3, <1>5 DEF Coming
<1>7. /\ Counter + Pos(due) >= TU + E
      /\ ~calibrated => Real + Phase + Pos(due) >= TU + E
      /\ Real + Pos(due) <= TU + E + Cost(sleeps - 1) + (IF pended = 0 THEN Pos(-due) ELSE MaxLate)
  BY <1>2, <1>6 DEF ClockInv, Behind, BehindRtc, Drift
<1>8. \E n \in Nat :
         /\ n < left /\ StepTick(n, "resume")
         /\ \/ due' = due /\ n = expected - 1 /\ elapsed >= reload
            \/ due' = TU /\ n = elapsed \div TU /\ elapsed < reload
  <2>1. CASE elapsed >= reload
    <3>1. expected - 1 \in Nat /\ expected - 1 < left
      BY <1>3, <1>4
    <3>2. StepTick(expected - 1, "resume") /\ due' = due
      BY <2>1 DEF AfterWake
    <3> QED  BY <2>1, <3>1, <3>2
  <2>2. CASE ~(elapsed >= reload)
    <3>1. PICK n \in Int : /\ n = elapsed \div TU
                           /\ 0 <= elapsed - TU * n /\ elapsed - TU * n < TU
      BY <1>1, <1>3, DivMod
    <3>2. n < expected
      <4>1. TU * n < TU * expected
        BY <1>1, <1>3, <1>4, <2>2, <3>1
      <4>2. ~(n < expected) => TU * expected <= TU * n
        BY <1>1, <1>3, <3>1, TimesOrder
      <4> QED  BY <1>1, <1>3, <3>1, <4>1, <4>2
    <3>3. n >= 0
      <4>1. ~(n >= 0) => TU * n + TU <= TU * 0
        BY <1>1, <3>1, TimesOrder
      <4> QED  BY <1>1, <1>3, <3>1, <4>1
    <3>4. StepTick(n, "resume") /\ due' = TU
      BY <2>2, <3>1 DEF AfterWake
    <3> QED  BY <1>3, <1>4, <2>2, <3>1, <3>2, <3>3, <3>4
  <2> QED  BY <2>1, <2>2
<1>9. PICK n \in Nat :
         /\ n < left /\ StepTick(n, "resume")
         /\ \/ due' = due /\ n = expected - 1 /\ elapsed >= reload
            \/ due' = TU /\ n = elapsed \div TU /\ elapsed < reload
  BY <1>8
<1>10. /\ pc' = "resume" /\ left' \in 1..MaxLeft /\ since' \in 0..CalEvery + 1
       /\ pended' = pended
       /\ lag' = lag - TU * (n - (pended' - pended)) /\ lag' \in Int
  BY <1>3, <1>4, <1>9, Stepped DEF ClockInv
<1>11. lag' = lag - TU * n /\ Owed' = Owed + 0 /\ n + 0 = n
  <2>1. n - (pended' - pended) = n
    BY <1>3, <1>10
  <2> QED  BY <1>2, <1>3, <1>10, <2>1 DEF Owed
<1>12. Counter' = Counter - TU * n /\ Real' = Real - TU * n /\ Phase' = Phase
  <2>1. /\ Counter' = Counter + (cerr' - cerr) - TU * (n + 0)
        /\ Real' = Real - TU * (n + 0)
        /\ Phase' = Phase
    BY <1>2, <1>3, <1>11, Moves DEF ClockInv
  <2>2. TU * n \in Int
    BY <1>1
  <2> QED  BY <1>2, <1>3, <1>11, <2>1, <2>2
<1>13. Coming' = 0 /\ Cost(sleeps)' = Cost(sleeps)
  BY <1>2, <1>10 DEF Coming, Cost
<1>14. /\ Counter' + Pos(due') >= TU
       /\ ~calibrated => Real' + Phase' + Pos(due') >= TU
       /\ Real' + Pos(due') <= TU + Cost(sleeps)
       /\ due' \in Int /\ due' <= TU /\ (pended = 1 => due' > 0)
  <2>1. CASE due' = due /\ n = expected - 1 /\ elapsed >= reload
    <3>1. TU * n = E
      BY <1>5, <2>1
    <3>2. (IF pended = 0 THEN Pos(-due) ELSE MaxLate) <= MaxLate /\ due <= TU
      BY <1>1, <1>3, <1>4, <2>1 DEF Pos
    <3>3. (IF pended = 0 THEN Pos(-due) ELSE MaxLate) \in Int /\ Pos(due) \in Int
      BY <1>1, <1>3 DEF Pos
    <3> QED  BY <1>1, <1>3, <1>4, <1>5, <1>7, <1>12, <2>1, <3>1, <3>2, <3>3
  <2>2. CASE due' = TU /\ n = elapsed \div TU /\ elapsed < reload
    <3>1. PICK N \in Int : N = TU * n /\ 0 <= elapsed - N /\ elapsed - N < TU
      BY <1>1, <1>3, <2>2, DivMod
    <3>2. pended = 0 /\ due = reload - elapsed /\ due > 0
      BY <1>3, <1>4, <2>2
    <3>3. Pos(due) = due /\ Pos(-due) = 0 /\ Pos(due') = TU
      BY <1>1, <1>3, <2>2, <3>2 DEF Pos
    <3>4. Counter' + Pos(due') >= TU
      BY <1>1, <1>3, <1>4, <1>5, <1>6, <1>7, <1>12, <2>2, <3>1, <3>2, <3>3
    <3>5. ~calibrated => Real' + Phase' + Pos(due') >= TU
      BY <1>1, <1>3, <1>4, <1>5, <1>6, <1>7, <1>12, <2>2, <3>1, <3>2, <3>3
    <3>6. Real' + Pos(due') <= TU + Cost(sleeps)
      BY <1>1, <1>3, <1>4, <1>5, <1>6, <1>7, <1>12, <2>2, <3>1, <3>2, <3>3
    <3> QED  BY <1>1, <2>2, <3>2, <3>4, <3>5, <3>6
  <2> QED  BY <1>9, <2>1, <2>2
<1>15. Ranges'
  BY <1>1, <1>2, <1>4, <1>10, <1>14 DEF ClockInv, Ranges, TypeOK, Asleep
<1>16. Owing'
  BY <1>2, <1>4, <1>10, <1>14 DEF ClockInv, Owing
<1>17. Window'
  BY <1>10 DEF Window
<1>18. Pos(due)' = Pos(due')
  BY DEF Pos
<1>19. Behind' /\ BehindRtc' /\ Drift'
  BY <1>1, <1>2, <1>10, <1>13, <1>14, <1>18 DEF Behind, BehindRtc, Drift, Asleep
<1> QED  BY <1>15, <1>16, <1>17, <1>19 DEF ClockInv

\* Lemma: a deep sleep is too short for the RTC to go round.
LEMMA DeepShort ==
    ASSUME PeriodMs = 1, Ranges, Window, pc = "deep"
    PROVE  UnitsPerMs * (expected * PeriodMs + MaxOver) < Minute
<1>1. /\ TU = UnitsPerMs /\ TU \in Nat /\ TU > 0 /\ MsPerSec \in Nat /\ MsPerSec > 0
      /\ SecPerMin \in Nat /\ MaxOver \in Nat
      /\ Minute = TU * (MsPerSec * SecPerMin) /\ MaxSuppressed \in Int
      /\ MaxSuppressed + MaxOver < MsPerSec * (SecPerMin - 1)
  BY Constants
<1>2. expected \in Nat /\ expected <= MaxSuppressed
  BY DEF Ranges, Window
<1>3. PICK x \in Int : x = expected * PeriodMs + MaxOver
  BY <1>1, <1>2
<1>4. x < MsPerSec * SecPerMin
  <2>1. MsPerSec * (SecPerMin - 1) = MsPerSec * SecPerMin - MsPerSec
    BY <1>1
  <2> QED  BY <1>1, <1>2, <1>3, <2>1
<1>5. TU * x + TU <= TU * (MsPerSec * SecPerMin)
  BY <1>1, <1>3, <1>4, TimesOrder
<1> QED  BY <1>1, <1>3, <1>5
\* Lemma: the milliseconds a deep sleep is credited with never put the kernel
\* ahead of the RTC, because the ticks keep their place in its millisecond.
LEMMA DeepCredit ==
    ASSUME PeriodMs = 1, ClockInv, pc = "deep"
    PROVE  /\ Passed \in Nat /\ TU * Passed \in Int
           /\ elapsed - TU * Passed > -TU /\ elapsed - TU * Passed < TU
           /\ Real + Phase >= elapsed => Real + Phase - TU * Passed >= 0
<1>1. /\ TU \in Nat /\ TU > 0 /\ Minute \in Nat /\ MsPerSec \in Nat /\ SecPerMin \in Nat
      /\ Minute = TU * (MsPerSec * SecPerMin)
  BY Constants
<1>2. PICK q, r, z, t \in Int :
         /\ 0 <= r /\ r < TU /\ 0 <= t /\ t < TU
         /\ before = TU * q + r
         /\ before + elapsed = TU * z + t
         /\ Passed = z - q /\ Passed >= 0
  BY PassedExact DEF ClockInv
<1>3. /\ lag \in Int /\ rtc \in Int /\ Owed \in Int /\ elapsed \in Int /\ Real \in Int
      /\ Phase \in Int /\ 0 <= Phase /\ Phase < TU /\ TU * Owed \in Int
  BY Accounts DEF ClockInv
<1>4. TU * Passed = TU * z - TU * q /\ TU * z \in Int /\ TU * q \in Int
  BY <1>1, <1>2
<1>5. elapsed = TU * Passed + t - r
  BY <1>1, <1>2, <1>3, <1>4
<1>6. PICK k \in Int : rtc - lag = Phase + TU * k
  BY <1>1, <1>3, DivMod DEF Phase
<1>7. PICK j \in Int : lag + Phase = TU * (z + j) + t
  <2>1. rtc \in {before + elapsed, before + elapsed - Minute}
    BY DEF ClockInv, Window
  <2>2. CASE rtc = before + elapsed
    <3>1. lag + Phase = TU * (z + (-k)) + t
      BY <1>1, <1>2, <1>3, <1>6, <2>2
    <3> QED  BY <1>6, <3>1
  <2>3. CASE rtc = before + elapsed - Minute
    <3>1. PICK mm \in Int : mm = MsPerSec * SecPerMin
      BY <1>1
    <3>2. PICK i \in Int : i = -k - mm
      BY <1>6, <3>1
    <3>3. lag + Phase = TU * (z + i) + t
      BY <1>1, <1>2, <1>3, <1>6, <2>3, <3>1, <3>2
    <3> QED  BY <3>2, <3>3
  <2> QED  BY <2>1, <2>2, <2>3
<1>8. PICK u \in Int : u = q + j - Owed
  BY <1>2, <1>3, <1>7
<1>9. Real + Phase - TU * Passed = TU * u + t
  BY <1>1, <1>2, <1>3, <1>4, <1>7, <1>8 DEF Real
<1>10. ASSUME Real + Phase >= elapsed
       PROVE  Real + Phase - TU * Passed >= 0
  <2>1. TU * u >= -r
    BY <1>1, <1>2, <1>3, <1>4, <1>5, <1>8, <1>9, <1>10
  <2>2. u >= 0
    <3>1. ~(u >= 0) => TU * u + TU <= TU * 0
      BY <1>1, <1>8, TimesOrder
    <3> QED  BY <1>1, <1>2, <1>8, <2>1, <3>1
  <2>3. TU * 0 <= TU * u
    BY <1>1, <1>8, <2>2, TimesOrder
  <2> QED  BY <1>1, <1>2, <1>8, <1>9, <2>3
<1> QED  BY <1>1, <1>2, <1>3, <1>4, <1>5, <1>10

\* Lemma: the end of a deep sleep, whose excess is banked.
LEMMA WakeDeepClock ==
    ASSUME PeriodMs = 1, MaxLate < TU, ClockInv, WakeDeep
    PROVE  ClockInv'
<1>1. TU \in Nat /\ TU > 0 /\ TU = UnitsPerMs /\ Word \in Nat /\ Minute \in Nat /\ Minute > 0
  BY Constants
<1>2. /\ pc = "deep" /\ expected' = 0 /\ reload' = 0 /\ elapsed' = 0 /\ before' = 0
      /\ UNCHANGED <<taken, rtc, sleeps, calibrated>>
      /\ due' = TU
      /\ cerr' = cerr + UnitsPerMs * Passed - elapsed
  BY DEF WakeDeep, Forget
<1>3. /\ Counter \in Int /\ Real \in Int /\ Phase \in Int /\ lag \in Int /\ cerr \in Int
      /\ Owed \in Int /\ pended \in Nat /\ bank \in Nat /\ taken \in Nat /\ left \in Nat
      /\ expected \in Nat /\ elapsed \in Nat
      /\ Cost(sleeps - 1) \in Int /\ Cost(sleeps) = Cost(sleeps - 1) + 2 * TU - 1
  BY Accounts DEF ClockInv
<1>4. /\ Passed \in Nat /\ TU * Passed \in Int
      /\ elapsed - TU * Passed > -TU /\ elapsed - TU * Passed < TU
      /\ Real + Phase >= elapsed => Real + Phase - TU * Passed >= 0
  BY <1>2, DeepCredit
<1>5. expected \in 1..left /\ pended = 0
  BY <1>2 DEF ClockInv, Window, Owing
<1>6. PICK over \in Nat : over = IF Passed > expected THEN Passed - expected ELSE 0
  <2>1. (IF Passed > expected THEN Passed - expected ELSE 0) \in Nat
    BY <1>3, <1>4
  <2> QED  BY <2>1
<1>7. PICK n \in Nat : n = Passed - over /\ n <= left
  BY <1>3, <1>4, <1>5, <1>6
<1>8. bank' = bank + over /\ StepTick(n, "resume")
  <2>1. expected * PeriodMs = expected /\ over \div PeriodMs = over /\ n * PeriodMs = n
    BY <1>3, <1>6, <1>7
  <2> QED  BY <1>6, <1>7, <2>1 DEF WakeDeep
<1>9. /\ pc' = "resume" /\ left' \in 1..MaxLeft /\ since' \in 0..CalEvery + 1
      /\ pended' \in {0, 1}
      /\ lag' = lag - TU * (n - (pended' - pended)) /\ lag' \in Int
  BY <1>5, <1>7, <1>8, Stepped DEF ClockInv
<1>10. PICK k \in Int : k = n - pended'
  <2>1. n - pended' \in Int
    BY <1>9
  <2> QED  BY <2>1
<1>11. PICK m \in Int : m = over + pended'
  <2>1. over + pended' \in Int
    BY <1>9
  <2> QED  BY <2>1
<1>12. lag' = lag - TU * k /\ Owed' = Owed + m /\ k + m = Passed
  <2>1. n - (pended' - pended) = k
    BY <1>5, <1>9, <1>10
  <2>2. Owed' = Owed + m
    BY <1>2, <1>3, <1>5, <1>8, <1>9, <1>11 DEF Owed
  <2>3. k + m = Passed
    <3>1. pended' \in Int
      BY <1>9
    <3>2. k + m = n + over
      BY <1>6, <1>7, <1>10, <1>11, <3>1
    <3> QED  BY <1>4, <1>6, <1>7, <3>2
  <2> QED  BY <1>9, <2>1, <2>2, <2>3
<1>13. cerr' \in Int /\ cerr' - cerr = TU * Passed - elapsed
  BY <1>1, <1>2, <1>3, <1>4
<1>14. Counter' = Counter - elapsed /\ Real' = Real - TU * Passed /\ Phase' = Phase
  <2>1. /\ Counter' = Counter + (cerr' - cerr) - TU * (k + m)
        /\ Real' = Real - TU * (k + m)
        /\ Phase' = Phase
    BY <1>2, <1>12, <1>13, Moves DEF ClockInv
  <2> QED  BY <1>3, <1>4, <1>12, <1>13, <2>1
<1>15. /\ Counter >= elapsed
       /\ ~calibrated => Real + Phase >= elapsed
       /\ Real - elapsed <= TU + Cost(sleeps - 1)
  BY <1>2 DEF ClockInv, Behind, BehindRtc, Drift
<1>16. Coming' = 0 /\ Cost(sleeps)' = Cost(sleeps) /\ Pos(due)' = TU
  BY <1>1, <1>2, <1>9 DEF Coming, Cost, Pos
<1>17. Ranges'
  BY <1>1, <1>2, <1>3, <1>8, <1>9, <1>13 DEF ClockInv, Ranges, TypeOK, Asleep
<1>18. Owing'
  BY <1>1, <1>2, <1>9 DEF ClockInv, Owing
<1>19. Window'
  BY <1>9 DEF Window
<1>20. Behind'
  BY <1>1, <1>3, <1>9, <1>14, <1>15, <1>16 DEF Behind
<1>21. BehindRtc'
  BY <1>1, <1>2, <1>3, <1>4, <1>9, <1>14, <1>15, <1>16 DEF BehindRtc
<1>22. Drift'
  BY <1>1, <1>3, <1>4, <1>9, <1>14, <1>15, <1>16 DEF Drift, Asleep
<1> QED  BY <1>17, <1>18, <1>19, <1>20, <1>21, <1>22 DEF ClockInv

\* Lemma: the RTC and real time move together.
LEMMA PhaseKept ==
    ASSUME PeriodMs = 1, Ranges, lag' = lag + 1, rtc' = (rtc + 1) % Minute
    PROVE  /\ rtc' \in {rtc + 1, rtc + 1 - Minute} /\ rtc' \in 0..Minute - 1
           /\ Phase' = Phase
<1>1. /\ TU \in Nat /\ TU > 0 /\ Minute \in Nat /\ Minute > 0 /\ MsPerSec \in Nat
      /\ SecPerMin \in Nat /\ Minute = TU * (MsPerSec * SecPerMin)
  BY Constants
<1>2. rtc \in 0..Minute - 1 /\ lag \in Int
  BY DEF Ranges
<1>3. (rtc + 1 < Minute => rtc' = rtc + 1) /\ (rtc + 1 = Minute => rtc' = rtc + 1 - Minute)
  <2>1. (rtc + 1 < Minute => (rtc + 1) % Minute = rtc + 1)
    BY <1>1, <1>2
  <2>2. Minute % Minute = 0
    BY <1>1
  <2> QED  BY <1>1, <1>2, <2>1, <2>2
<1>4. rtc' \in {rtc + 1, rtc + 1 - Minute} /\ rtc' \in 0..Minute - 1
  BY <1>1, <1>2, <1>3
<1>5. PICK a \in Int : a = rtc - lag
  BY <1>2
<1>6. PICK k \in Int : rtc' - lag' = a + TU * k
  <2>1. CASE rtc' = rtc + 1
    <3>1. rtc' - lag' = a + TU * 0
      BY <1>1, <1>2, <1>5, <2>1
    <3> QED  BY <3>1
  <2>2. CASE rtc' = rtc + 1 - Minute
    <3>1. PICK mm \in Int : mm = MsPerSec * SecPerMin
      BY <1>1
    <3>2. rtc' - lag' = a + TU * (-mm)
      BY <1>1, <1>2, <1>5, <2>2, <3>1
    <3> QED  BY <3>1, <3>2
  <2> QED  BY <1>4, <2>1, <2>2
<1>7. (a + TU * k) % TU = a % TU
  BY <1>1, ModShift
<1> QED  BY <1>4, <1>5, <1>6, <1>7 DEF Phase
\* Lemma: a unit of time.
LEMMA PassClock ==
    ASSUME PeriodMs = 1, MaxLate < TU, ClockInv, Pass
    PROVE  ClockInv'
<1>1. /\ TU \in Nat /\ TU > 0 /\ MaxLate \in Nat /\ Word \in Nat /\ Minute \in Nat /\ Minute > 0
      /\ TU = UnitsPerMs /\ MsPerSec \in Nat /\ SecPerMin \in Nat /\ MaxOver \in Nat
  BY Constants
<1>2. /\ UNCHANGED <<pc, ready, left, pended, bank, taken, expected, reload, before, since, cerr,
                     sleeps, calibrated>>
      /\ lag' = lag + 1
      /\ due' = IF pc = "deep" THEN due ELSE due - 1
      /\ elapsed' = IF Asleep \/ pc = "woken" THEN elapsed + 1 ELSE elapsed
  BY DEF Pass
<1>3. /\ Counter \in Int /\ Real \in Int /\ Phase \in Int /\ due \in Int /\ lag \in Int /\ cerr \in Int
      /\ Owed \in Int /\ TU * Owed \in Int /\ pended \in Nat /\ reload \in Nat /\ elapsed \in Nat
      /\ expected \in Nat /\ Coming \in Int /\ Pos(due) \in Int
      /\ Cost(sleeps) \in Int /\ Cost(sleeps - 1) \in Int
  BY Accounts DEF ClockInv
<1>4. /\ pc = "deep" => elapsed < UnitsPerMs * (expected * PeriodMs + MaxOver)
      /\ pc = "woken" => elapsed < reload + MaxLate
      /\ pc \notin {"deep", "woken"} => due > 0
      /\ pc \in {"gate", "resume"} => pended = 0
  BY DEF Pass
<1>5. rtc' = (rtc + 1) % Minute
  <2>1. UnitsPerMs * MsPerSec * SecPerMin = Minute
    BY <1>1 DEF Minute
  <2> QED  BY <2>1 DEF Pass
<1>6. /\ rtc' \in {rtc + 1, rtc + 1 - Minute} /\ rtc' \in 0..Minute - 1
      /\ Phase' = Phase
  BY <1>2, <1>5, PhaseKept DEF ClockInv
<1>7. Counter' = Counter + 1 /\ Real' = Real + 1
  <2>1. Owed' = Owed
    BY <1>2 DEF Owed
  <2>2. TU * Owed' = TU * Owed
    BY <2>1
  <2> QED  BY <1>2, <1>3, <2>1, <2>2 DEF Counter, Real
<1>8. Coming' = Coming /\ Cost(sleeps)' = Cost(sleeps) /\ Cost(sleeps - 1)' = Cost(sleeps - 1)
  BY <1>2 DEF Coming, Cost
<1>9. /\ Pos(due)' \in Int
      /\ pc # "deep" => Pos(due) <= Pos(due)' + 1
      /\ pc # "deep" /\ due > 0 => Pos(due) = Pos(due)' + 1
      /\ pc # "deep" /\ due <= 0 => Pos(due) = Pos(due)' /\ Pos(-due)' = Pos(-due) + 1
      /\ Pos(-due) \in Int /\ Pos(-due)' \in Int
      /\ due > 0 => Pos(-due) = 0 /\ Pos(-due)' = 0
  BY <1>2, <1>3 DEF Pos
<1>10. Ranges'
  <2>1. due' \in Int /\ due' <= due /\ elapsed' \in Nat /\ lag' \in Int
    BY <1>2, <1>3
  <2>2. due' <= IF Asleep' \/ pc' = "woken" THEN Word - 1 ELSE TU
    BY <1>1, <1>2, <1>3, <2>1 DEF ClockInv, Ranges, TypeOK, Asleep
  <2> QED  BY <1>2, <1>6, <2>1, <2>2 DEF ClockInv, Ranges, TypeOK
<1>11. Window'
  <2>1. CASE pc = "deep"
    <3>1. UnitsPerMs * (expected * PeriodMs + MaxOver) < Minute
      BY <2>1, DeepShort DEF ClockInv
    <3>2. /\ rtc \in {before + elapsed, before + elapsed - Minute}
          /\ before \in 0..Minute - 1 /\ rtc \in 0..Minute - 1
          /\ elapsed' = elapsed + 1 /\ due' = due
          /\ elapsed + 1 <= UnitsPerMs * (expected * PeriodMs + MaxOver)
      <4>1. UnitsPerMs * (expected * PeriodMs + MaxOver) \in Int
        BY <1>1, <1>3
      <4> QED  BY <1>2, <1>3, <1>4, <2>1, <4>1 DEF ClockInv, Window, Ranges, Asleep
    <3>3. elapsed + 1 < Minute
      BY <1>1, <1>3, <3>1, <3>2
    <3>4. rtc' \in {before + elapsed', before + elapsed' - Minute}
      BY <1>1, <1>3, <1>6, <3>2, <3>3
    <3> QED  BY <1>2, <2>1, <3>2, <3>4 DEF ClockInv, Window
  <2>2. CASE pc = "woken"
    <3>1. elapsed' = elapsed + 1 /\ due' = due - 1 /\ elapsed < reload + MaxLate
      BY <1>2, <1>4, <2>2
    <3> QED  BY <1>1, <1>2, <1>3, <2>2, <3>1 DEF ClockInv, Window
  <2>3. CASE pc = "shallow"
    <3>1. elapsed' = elapsed + 1 /\ due' = due - 1 /\ due > 0
      BY <1>2, <1>4, <2>3 DEF Asleep
    <3> QED  BY <1>1, <1>2, <1>3, <2>3, <3>1 DEF ClockInv, Window
  <2>4. CASE pc \notin {"deep", "woken", "shallow"}
    BY <1>2, <2>4 DEF ClockInv, Window
  <2> QED  BY <2>1, <2>2, <2>3, <2>4
<1>12. Owing'
  <2>1. pended = 1 => pc = "woken"
    BY <1>3, <1>4 DEF ClockInv, Owing
  <2>2. pended = 1 => due' > 0
    BY <1>1, <1>2, <1>3, <1>11, <2>1 DEF Window
  <2> QED  BY <1>2, <2>1, <2>2 DEF ClockInv, Owing
<1>13. Behind'
  BY <1>1, <1>2, <1>3, <1>7, <1>8, <1>9 DEF ClockInv, Behind, Asleep
<1>14. BehindRtc'
  BY <1>1, <1>2, <1>3, <1>6, <1>7, <1>8, <1>9 DEF ClockInv, BehindRtc, Asleep
<1>15. Drift'
  <2>1. CASE pc = "deep"
    BY <1>1, <1>2, <1>3, <1>7, <1>8, <2>1 DEF ClockInv, Drift, Asleep
  <2>2. CASE pc = "woken"
    <3>1. pended = 1 => due > 0
      BY DEF ClockInv, Owing
    <3>2. pended \in {0, 1}
      BY DEF ClockInv, Owing
    <3> QED  BY <1>1, <1>2, <1>3, <1>7, <1>8, <1>9, <2>2, <3>1, <3>2 DEF ClockInv, Drift, Asleep
  <2>3. CASE pc \notin {"deep", "woken"}
    BY <1>1, <1>2, <1>3, <1>4, <1>7, <1>8, <1>9, <2>3 DEF ClockInv, Drift, Asleep
  <2> QED  BY <2>1, <2>2, <2>3
<1> QED  BY <1>10, <1>11, <1>12, <1>13, <1>14, <1>15 DEF ClockInv

-----------------------------------------------------------------------------
(* The theorems *)

\* Lemma: a step that changes nothing.
LEMMA StutterClock ==
    ASSUME ClockInv, UNCHANGED vars
    PROVE  ClockInv'
  BY DEF vars, sleepvars, ClockInv, Ranges, Owing, Window, Behind, BehindRtc, Drift, TypeOK, Asleep,
         Counter, Real, Phase, Coming, Cost, Pos, Owed

\* Lemma: the invariant holds in every state.
LEMMA ClockInvariant ==
    ASSUME PeriodMs = 1, MaxLate < TU
    PROVE  Spec => []ClockInv
<1>1. Init => ClockInv
  BY InitClock
<1>2. ClockInv /\ [Next]_vars => ClockInv'
  <2> SUFFICES ASSUME ClockInv, [Next]_vars
               PROVE  ClockInv'
    OBVIOUS
  <2>1. CASE Interrupt \/ Block
    BY <2>1, OthersClock
  <2>2. CASE Catchup \/ Idle \/ Abort
    BY <2>2, IdleClock
  <2>3. CASE Replay \/ Resume
    BY <2>3, PayClock
  <2>4. CASE TickIsr
    BY <2>4, TickClock
  <2>5. CASE Calibrate
    BY <2>5, CalibrateClock
  <2>6. CASE SleepShallow \/ SleepDeep
    BY <2>6, SleepClock
  <2>7. CASE WakeShallow
    BY <2>7, WakeShallowClock
  <2>8. CASE AfterWake
    BY <2>8, AfterWakeClock
  <2>9. CASE WakeDeep
    BY <2>9, WakeDeepClock
  <2>10. CASE Pass
    BY <2>10, PassClock
  <2>11. CASE UNCHANGED vars
    BY <2>11, StutterClock
  <2> QED  BY <2>1, <2>2, <2>3, <2>4, <2>5, <2>6, <2>7, <2>8, <2>9, <2>10, <2>11 DEF Next
<1> QED  BY <1>1, <1>2, PTL DEF Spec

\* Theorem: the assertion of vTaskStepTick never fails, and ulReloadValue never
\* wraps: however long the sleep lasts and whatever ends it, the kernel is not
\* told to step past the next unblock time.
THEOREM StepNeverPastUnblock ==
    ASSUME PeriodMs = 1, MaxLate < TU
    PROVE  Spec => []NeverHalted
<1>1. ClockInv => NeverHalted
  BY DEF ClockInv, Ranges, NeverHalted
<1> QED  BY <1>1, ClockInvariant, PTL

\* Theorem: no tick is counted twice.  The kernel never gets ahead of the timer
\* counter, nor, until the counter has been used to correct it, of real time by
\* a tick: the rounding to milliseconds of freertos_pre_sleep_processing does
\* not add up over any number of sleeps.
THEOREM NoTickTwice ==
    ASSUME PeriodMs = 1, MaxLate < TU
    PROVE  Spec => []NeverAhead
<1>1. ClockInv => NeverAhead
  <2> SUFFICES ASSUME ClockInv
               PROVE  NeverAhead
    OBVIOUS
  <2>1. TU \in Nat /\ TU > 0
    BY Constants
  <2>2. /\ Counter \in Int /\ Real \in Int /\ Phase \in Int /\ 0 <= Phase /\ Phase < TU
        /\ due \in Int /\ lag \in Int /\ cerr \in Int /\ TU * Owed \in Int /\ Coming \in Int
        /\ elapsed \in Nat /\ reload \in Nat /\ expected \in Nat /\ Pos(due) \in Int
    BY Accounts DEF ClockInv
  <2>3. pc # "deep" => Pos(due) <= TU + Coming
    <3>1. CASE pc \in {"shallow", "woken"}
      <4>1. /\ expected \in 1..left /\ reload <= TU * expected
            /\ due <= reload \/ due <= TU
        BY <2>1, <2>2, <3>1 DEF ClockInv, Window, Owing
      <4>2. PICK E \in Int : E = TU * (expected - 1) /\ TU * expected = E + TU
        BY <2>1, <2>2
      <4>3. expected >= 1
        BY <2>2, <4>1 DEF ClockInv, Ranges, TypeOK
      <4>4. TU * 0 <= E
        BY <2>1, <2>2, <4>2, <4>3, TimesOrder
      <4> QED  BY <2>1, <2>2, <3>1, <4>1, <4>2, <4>4 DEF Pos, Coming
    <3>2. CASE pc \notin {"shallow", "woken", "deep"}
      BY <2>1, <2>2, <3>2 DEF ClockInv, Ranges, TypeOK, Asleep, Pos, Coming
    <3> QED  BY <3>1, <3>2
  <2>4. Counter >= 0
    BY <2>1, <2>2, <2>3 DEF ClockInv, Behind
  <2>5. ~calibrated => Real > -TU
    BY <2>1, <2>2, <2>3 DEF ClockInv, BehindRtc
  <2> QED  BY <2>1, <2>2, <2>4, <2>5 DEF NeverAhead, Counter, Real
<1> QED  BY <1>1, ClockInvariant, PTL

\* Theorem: a sleep costs less than two ticks.  After any number of sleeps, of
\* any kind and length, xTickCount with what is still owed to it is behind real
\* time by less than two ticks for each of them.
THEOREM DriftPerSleep ==
    ASSUME PeriodMs = 1, MaxLate < TU
    PROVE  Spec => []DriftBounded
<1>1. ClockInv => DriftBounded
  <2> SUFFICES ASSUME ClockInv
               PROVE  DriftBounded
    OBVIOUS
  <2>1. TU \in Nat /\ TU > 0
    BY Constants
  <2>2. /\ Real \in Int /\ due \in Int /\ lag \in Int /\ TU * Owed \in Int
        /\ Cost(sleeps) \in Int /\ Pos(due) \in Int
    BY Accounts DEF ClockInv
  <2>3. due <= Pos(due)
    BY <2>2 DEF Pos
  <2>4. ~Asleep /\ pc # "woken" => Real + due <= TU + Cost(sleeps)
    BY <2>1, <2>2, <2>3 DEF ClockInv, Drift
  <2>5. SlowBy = Real + due - TU
    BY <2>1, <2>2 DEF SlowBy, Real
  <2>6. Cost(sleeps) = sleeps * (2 * TU - 1)
    BY DEF Cost
  <2> QED  BY <2>1, <2>2, <2>4, <2>5, <2>6 DEF DriftBounded
<1> QED  BY <1>1, ClockInvariant, PTL
=============================================================================
