----------------------------- MODULE VoteProofs -----------------------------
(***************************************************************************)
(* Proofs about the votes that keep the clocks on, and about the SPI       *)
(* driver, which holds one over its transfers.                             *)
(*                                                                         *)
(* PeriBusy. For any number of tasks, votes and nesting levels, with tasks *)
(* and handlers preempting each other at any step: the reference count is  *)
(* exact, and the lock bit is exact but for the windows LockExact names.   *)
(*                                                                         *)
(* SpiDriver, with any fault, stale flag and callback. The SPI is switched *)
(* on where its vote is taken and off where it is returned, so `Covered',  *)
(* that a driver which is on has the vote, is kept by each piece of the    *)
(* code: starting a transfer, a callback, the three handlers, abort and    *)
(* deinit. There is one lemma per piece.                                   *)
(***************************************************************************)
EXTENDS PeriBusy, SpiDriver, FiniteSetTheorems, TLAPS

-----------------------------------------------------------------------------
(* The votes.                                                              *)

(* Lemma: the holders are finitely many, so held always has a cardinality. *)
LEMMA HoldersFinite == IsFiniteSet(Holders)
<1>1. IsFiniteSet(1..MaxNest)
  BY FS_Interval, MaxNestAssumption
<1>2. IsFiniteSet(Levels)
  BY <1>1, FS_Product, SetsAssumption DEF Levels
<1> QED  BY <1>2, FS_Union, SetsAssumption DEF Holders

(* Lemma: the cardinality of the holders as one is added or removed.       *)
LEMMA HeldCard ==
    ASSUME NEW S \in SUBSET Holders, NEW h \in Holders
    PROVE  /\ Cardinality(S) \in Nat
           /\ (Cardinality(S) = 0 <=> S = {})
           /\ h \notin S => Cardinality(S \cup {h}) = Cardinality(S) + 1
           /\ h \in S => Cardinality(S \ {h}) = Cardinality(S) - 1
           /\ h \in S => (Cardinality(S) = 1 <=> S = {h})
<1>1. IsFiniteSet(S)
  BY HoldersFinite, FS_Subset
<1>2. Cardinality(S) \in Nat /\ (Cardinality(S) = 0 <=> S = {})
  BY <1>1, FS_CardinalityType, FS_EmptySet
<1>3. h \notin S => Cardinality(S \cup {h}) = Cardinality(S) + 1
  BY <1>1, FS_AddElement
<1>4. h \in S => Cardinality(S \ {h}) = Cardinality(S) - 1
  BY <1>1, FS_RemoveElement
<1>5. ASSUME h \in S PROVE Cardinality(S) = 1 <=> S = {h}
  <2>1. S \ {h} = {} <=> S = {h}
    BY <1>5
  <2>2. Cardinality(S \ {h}) = 0 <=> S \ {h} = {}
    <3>1. IsFiniteSet(S \ {h})
      BY <1>1, FS_Subset
    <3> QED  BY <3>1, FS_EmptySet
  <2> QED  BY <2>1, <2>2, <1>2, <1>4, <1>5
<1> QED  BY <1>2, <1>3, <1>4, <1>5

LEMMA EmptyCard == Cardinality({}) = 0
BY FS_EmptySet

(* Lemma: the three shapes of a call, told apart by their stage.           *)
LEMMA CallShapes ==
    ASSUME TypeOK, NEW t \in Tasks
    PROVE  /\ Inside(t) => call[t].h \in Holders
           /\ call[t] = Out => ~Inside(t)
           /\ call[t] # Out => call[t].st \in Stages \cup {"mode"}
BY DEF TypeOK, Calls, Out, Inside, Stages

-----------------------------------------------------------------------------
(* Lemma: the initial state is well typed.                                 *)
LEMMA TypeInit == Init => TypeOK
<1> SUFFICES ASSUME Init PROVE TypeOK
  OBVIOUS
<1>1. Out \in Calls
  BY DEF Calls
<1>2. call \in [Tasks -> Calls]
  BY <1>1 DEF Init
<1>3. count \in Int /\ held \subseteq Holders /\ wake \subseteq LockIds
  BY DEF Init
<1>4. ps \in BOOLEAN /\ cpu \in {"run", "shallow", "deep"} /\ overlap \in BOOLEAN
  BY DEF Init
<1> QED  BY <1>2, <1>3, <1>4 DEF TypeOK

(* Lemma: every step keeps the types; nothing about races is needed.       *)
LEMMA TypeStep == TypeOK /\ [Next]_vars => TypeOK'
<1> SUFFICES ASSUME TypeOK, [Next]_vars PROVE TypeOK'
  OBVIOUS
<1> USE DEF TypeOK
<1>1. \A h \in Holders : \A s \in Stages : [st |-> s, h |-> h] \in Calls
  BY DEF Calls
<1>2. Out \in Calls /\ \A b \in BOOLEAN : [st |-> "mode", h |-> b] \in Calls
  BY DEF Calls
<1>3. ASSUME NEW t \in Tasks, VoteCall(t) PROVE TypeOK'
  <2>1. ASSUME NEW v \in Votes, Hold(t, v) \/ Release(t, v) PROVE TypeOK'
    <3>1. v \in Holders
      BY DEF Holders
    <3>2. call' \in [Tasks -> Calls]
      BY <2>1, <3>1, <1>1, <1>2 DEF Hold, Release, Stages
    <3> QED  BY <2>1, <3>1, <3>2 DEF Hold, Release
  <2>2. ASSUME NEW n \in 1..MaxNest, AdcEnter(t, n) \/ AdcLeave(t, n) PROVE TypeOK'
    <3>1. <<t, n>> \in Holders
      BY <2>2 DEF Holders, Levels
    <3> QED  BY <2>2, <3>1, <1>1 DEF AdcEnter, AdcLeave, Stages
  <2>3. ASSUME Add(t) \/ Sub(t) \/ Acquire(t) \/ Drop(t) PROVE TypeOK'
    <3>1. call[t].h \in Holders
      BY <2>3, CallShapes DEF Add, Sub, Acquire, Drop, Inside, Stages
    <3>2. ASSUME Add(t) PROVE TypeOK'
      <4>1. call' \in [Tasks -> Calls]
        BY <3>1, <3>2, <1>1, <1>2 DEF Add, Stages
      <4>2. overlap' \in BOOLEAN
        BY <3>2 DEF Add, LockDue
      <4> QED  BY <4>1, <4>2, <3>2 DEF Add
    <3>3. ASSUME Sub(t) PROVE TypeOK'
      <4>1. call' \in [Tasks -> Calls]
        BY <3>1, <3>3, <1>1, <1>2 DEF Sub, Stages
      <4>2. overlap' \in BOOLEAN
        BY <3>3 DEF Sub, LockDue
      <4> QED  BY <4>1, <4>2, <3>3 DEF Sub
    <3>4. ASSUME Acquire(t) \/ Drop(t) PROVE TypeOK'
      BY <3>4, <1>2 DEF Acquire, Drop, LockIds, BusyId
    <3> QED  BY <2>3, <3>2, <3>3, <3>4
  <2> QED  BY <1>3, <2>1, <2>2, <2>3 DEF VoteCall
<1>4. ASSUME NEW t \in Tasks, ModeCall(t) PROVE TypeOK'
  BY <1>4, <1>2 DEF ModeCall, ModeSetPs, ModeSetLock, AllowSleep, ForceWakeup, LockIds, TklId
<1>5. ASSUME NEW v \in IsrVotes, IsrRelease(v) \/ IsrHold(v) PROVE TypeOK'
  <2>1. overlap' \in BOOLEAN
    BY <1>5 DEF IsrRelease, IsrHold, LockDue
  <2> QED  BY <1>5, <2>1, IsrVotesAssumption DEF IsrRelease, IsrHold, Holders, LockIds, BusyId
<1>6. ASSUME IdleSleep \/ Wakeup \/ Tick PROVE TypeOK'
  <2>1. ASSUME IdleSleep PROVE TypeOK'
    BY <2>1 DEF IdleSleep
  <2>2. ASSUME Wakeup \/ Tick PROVE TypeOK'
    BY <2>2 DEF Wakeup, Tick, LockIds, SystickId
  <2> QED  BY <1>6, <2>1, <2>2
<1>7. CASE UNCHANGED vars
  BY <1>7 DEF vars
<1> QED  BY <1>3, <1>4, <1>5, <1>6, <1>7 DEF Next, Isr

(* The types are kept for every value of the constants.                    *)
THEOREM TypeCorrect == Spec => []TypeOK
BY TypeInit, TypeStep, PTL DEF Spec

-----------------------------------------------------------------------------
(* The tasks at a stage of their call.                                     *)
At(s) == {t \in Tasks : call[t].st = s}

(* Lemma: how many tasks are at a stage as one task moves on.              *)
LEMMA AtMoves ==
    ASSUME TypeOK, NEW t \in Tasks, NEW c \in Calls, NEW s,
           call' = [call EXCEPT ![t] = c]
    PROVE  /\ Cardinality(At(s)) \in Nat /\ Cardinality(At(s)') \in Nat
           /\ call[t].st = s /\ c.st = s => Cardinality(At(s)') = Cardinality(At(s))
           /\ call[t].st # s /\ c.st # s => Cardinality(At(s)') = Cardinality(At(s))
           /\ call[t].st # s /\ c.st = s => Cardinality(At(s)') = Cardinality(At(s)) + 1
           /\ call[t].st = s /\ c.st # s => Cardinality(At(s)') = Cardinality(At(s)) - 1
<1>1. call \in [Tasks -> Calls] /\ call'[t] = c
      /\ \A u \in Tasks : u # t => call'[u] = call[u]
  BY DEF TypeOK
<1>2. IsFiniteSet(At(s)) /\ IsFiniteSet(At(s)')
  BY SetsAssumption, FS_Subset DEF At
<1>3. (call[t].st = s <=> t \in At(s)) /\ (c.st = s <=> t \in At(s)')
  BY <1>1 DEF At
<1>4. At(s) \ {t} = At(s)' \ {t}
  BY <1>1 DEF At
<1>5. t \in At(s) /\ t \in At(s)' => At(s)' = At(s)
  BY <1>4
<1>6. t \notin At(s) /\ t \notin At(s)' => At(s)' = At(s)
  BY <1>4
<1>7. t \notin At(s) /\ t \in At(s)' => At(s)' = At(s) \cup {t}
  BY <1>4
<1>8. t \in At(s) /\ t \notin At(s)' => At(s)' = At(s) \ {t}
  BY <1>4
<1> QED
  BY <1>2, <1>3, <1>5, <1>6, <1>7, <1>8, FS_AddElement, FS_RemoveElement, FS_CardinalityType

(* Lemma: the count follows a step of a task inside the vote code.         *)
LEMMA CountVoteCall ==
    ASSUME TypeOK, CountExact, NEW t \in Tasks, VoteCall(t)
    PROVE  CountExact'
<1>1. held \in SUBSET Holders /\ count \in Int /\ Cardinality(held) \in Nat
  BY HoldersFinite, FS_Subset, FS_CardinalityType DEF TypeOK
<1>2. CountExact <=> count = Cardinality(held) - Cardinality(At("add"))
                             + Cardinality(At("sub"))
  BY DEF CountExact, At
<1>3. CountExact' <=> count' = Cardinality(held') - Cardinality(At("add")')
                               + Cardinality(At("sub")')
  BY DEF CountExact, At
<1>4. Out \in Calls /\ Out.st = "out"
      /\ \A h \in Holders : \A s \in Stages :
            [st |-> s, h |-> h] \in Calls /\ [st |-> s, h |-> h].st = s
  BY DEF Calls, Out
<1>5. ASSUME NEW h \in Holders, h \notin held, call[t] = Out, held' = held \cup {h},
             call' = [call EXCEPT ![t] = [st |-> "add", h |-> h]], count' = count
      PROVE  CountExact'
  <2> DEFINE c == [st |-> "add", h |-> h]
  <2>0. call' = [call EXCEPT ![t] = c]
    BY <1>5
  <2>1. c \in Calls /\ c.st = "add" /\ c.st # "sub" /\ call[t].st # "add" /\ call[t].st # "sub"
    BY <1>4, <1>5 DEF Stages
  <2> HIDE DEF c
  <2>2. Cardinality(At("add")') = Cardinality(At("add")) + 1
        /\ Cardinality(At("add")) \in Nat
    BY <2>0, <2>1, AtMoves
  <2>3. Cardinality(At("sub")') = Cardinality(At("sub"))
        /\ Cardinality(At("sub")) \in Nat
    BY <2>0, <2>1, AtMoves
  <2>4. Cardinality(held') = Cardinality(held) + 1
    BY <1>1, <1>5, HeldCard
  <2> QED  BY <1>1, <1>2, <1>3, <1>5, <2>2, <2>3, <2>4
<1>6. ASSUME NEW h \in Holders, h \in held, call[t] = Out, held' = held \ {h},
             call' = [call EXCEPT ![t] = [st |-> "sub", h |-> h]], count' = count
      PROVE  CountExact'
  <2> DEFINE c == [st |-> "sub", h |-> h]
  <2>0. call' = [call EXCEPT ![t] = c]
    BY <1>6
  <2>1. c \in Calls /\ c.st = "sub" /\ c.st # "add" /\ call[t].st # "sub" /\ call[t].st # "add"
    BY <1>4, <1>6 DEF Stages
  <2> HIDE DEF c
  <2>2. Cardinality(At("sub")') = Cardinality(At("sub")) + 1
        /\ Cardinality(At("sub")) \in Nat
    BY <2>0, <2>1, AtMoves
  <2>3. Cardinality(At("add")') = Cardinality(At("add"))
        /\ Cardinality(At("add")) \in Nat
    BY <2>0, <2>1, AtMoves
  <2>4. Cardinality(held') = Cardinality(held) - 1
    BY <1>1, <1>6, HeldCard
  <2> QED  BY <1>1, <1>2, <1>3, <1>6, <2>2, <2>3, <2>4
<1>7. ASSUME NEW c \in Calls, c.st \notin {"add", "sub"}, held' = held,
             call' = [call EXCEPT ![t] = c],
             \/ call[t].st = "add" /\ count' = count + 1
             \/ call[t].st = "sub" /\ count' = count - 1
             \/ call[t].st \notin {"add", "sub"} /\ count' = count
      PROVE  CountExact'
  <2>1. /\ Cardinality(At("add")) \in Nat
        /\ Cardinality(At("add")') = IF call[t].st = "add" THEN Cardinality(At("add")) - 1
                                                           ELSE Cardinality(At("add"))
    BY <1>7, AtMoves
  <2>2. /\ Cardinality(At("sub")) \in Nat
        /\ Cardinality(At("sub")') = IF call[t].st = "sub" THEN Cardinality(At("sub")) - 1
                                                           ELSE Cardinality(At("sub"))
    BY <1>7, AtMoves
  <2> QED  BY <1>1, <1>2, <1>3, <1>7, <2>1, <2>2
<1>8. ASSUME NEW v \in Votes, Hold(t, v) PROVE CountExact'
  <2>1. v \in Holders /\ call[t] = Out
    BY <1>8 DEF Holders, Hold, MayEnter
  <2>2. CASE v \in held
    <3>1. held' = held /\ count' = count /\ call' = [call EXCEPT ![t] = Out]
      BY <1>8, <2>2 DEF Hold
    <3> QED  BY <3>1, <2>1, <1>4, <1>7
  <2>3. CASE v \notin held
    BY <1>8, <2>1, <2>3, <1>5 DEF Hold
  <2> QED  BY <2>2, <2>3
<1>9. ASSUME NEW v \in Votes, Release(t, v) PROVE CountExact'
  <2>1. v \in Holders /\ call[t] = Out
    BY <1>9 DEF Holders, Release, MayEnter
  <2>2. CASE v \notin held
    <3>1. held' = held /\ count' = count /\ call' = [call EXCEPT ![t] = Out]
      BY <1>9, <2>2 DEF Release
    <3> QED  BY <3>1, <2>1, <1>4, <1>7
  <2>3. CASE v \in held
    BY <1>9, <2>1, <2>3, <1>6 DEF Release
  <2> QED  BY <2>2, <2>3
<1>10. ASSUME NEW n \in 1..MaxNest, AdcEnter(t, n) \/ AdcLeave(t, n) PROVE CountExact'
  <2>1. <<t, n>> \in Holders /\ call[t] = Out
    BY <1>10 DEF Holders, Levels, AdcEnter, AdcLeave, MayEnter
  <2>2. CASE AdcEnter(t, n)
    <3>1. <<t, n>> \notin held
      BY <2>2, MaxNestAssumption DEF AdcEnter
    <3> QED  BY <2>1, <2>2, <3>1, <1>5 DEF AdcEnter
  <2>3. CASE AdcLeave(t, n)
    <3>1. <<t, n>> \in held
      BY <2>3, MaxNestAssumption DEF AdcLeave
    <3> QED  BY <2>1, <2>3, <3>1, <1>6 DEF AdcLeave
  <2> QED  BY <1>10, <2>2, <2>3
<1>11. ASSUME Add(t) \/ Sub(t) \/ Acquire(t) \/ Drop(t) PROVE CountExact'
  <2>1. call[t].h \in Holders
    BY <1>11, CallShapes DEF Add, Sub, Acquire, Drop, Inside, Stages
  <2>2. CASE Add(t)
    <3>1. PICK c \in Calls : c.st \notin {"add", "sub"} /\ call' = [call EXCEPT ![t] = c]
      BY <1>4, <2>1, <2>2 DEF Add, Stages
    <3> QED  BY <2>2, <3>1, <1>7 DEF Add
  <2>3. CASE Sub(t)
    <3>1. PICK c \in Calls : c.st \notin {"add", "sub"} /\ call' = [call EXCEPT ![t] = c]
      BY <1>4, <2>1, <2>3 DEF Sub, Stages
    <3> QED  BY <2>3, <3>1, <1>7 DEF Sub
  <2>4. CASE Acquire(t) \/ Drop(t)
    BY <2>4, <1>4, <1>7 DEF Acquire, Drop
  <2> QED  BY <1>11, <2>2, <2>3, <2>4
<1> QED  BY <1>8, <1>9, <1>10, <1>11 DEF VoteCall

(* The count is the number of holders but for the calls in flight, however *)
(* tasks and handlers overlap inside the vote code: what the races can     *)
(* spoil is the lock bit, never peri_busy_count.                           *)
THEOREM CountNeverLost == Spec => []CountExact
<1>1. Init => CountExact
  <2> SUFFICES ASSUME Init PROVE CountExact
    OBVIOUS
  <2>1. {t \in Tasks : call[t].st = "add"} = {} /\ {t \in Tasks : call[t].st = "sub"} = {}
    BY DEF Init, Out
  <2>2. held = {} /\ count = 0
    BY DEF Init
  <2> QED  BY <2>1, <2>2, EmptyCard DEF CountExact
<1>2. TypeOK /\ CountExact /\ [Next]_vars => CountExact'
  <2> SUFFICES ASSUME TypeOK, CountExact, [Next]_vars PROVE CountExact'
    OBVIOUS
  <2>1. ASSUME NEW t \in Tasks, VoteCall(t) PROVE CountExact'
    BY <2>1, CountVoteCall
  <2>2. ASSUME NEW t \in Tasks, ModeCall(t) PROVE CountExact'
    <3>1. held' = held /\ count' = count
          /\ \A u \in Tasks : \A s \in {"add", "sub"} : call'[u].st = s <=> call[u].st = s
      BY <2>2 DEF ModeCall, ModeSetPs, ModeSetLock, AllowSleep, ForceWakeup, TypeOK, Out
    <3>2. \A s \in {"add", "sub"} :
             {u \in Tasks : call'[u].st = s} = {u \in Tasks : call[u].st = s}
      BY <3>1
    <3> QED  BY <3>1, <3>2 DEF CountExact
  <2>3. ASSUME NEW v \in IsrVotes, IsrRelease(v) \/ IsrHold(v) PROVE CountExact'
    <3>1. v \in Holders /\ held \in SUBSET Holders /\ call' = call
      BY <2>3, IsrVotesAssumption DEF Holders, TypeOK, IsrRelease, IsrHold
    <3>2. /\ Cardinality(held) \in Nat /\ count \in Int
          /\ \/ count' = count - 1 /\ Cardinality(held') = Cardinality(held) - 1
             \/ count' = count + 1 /\ Cardinality(held') = Cardinality(held) + 1
      <4>1. /\ Cardinality(held) \in Nat
            /\ v \notin held => Cardinality(held \cup {v}) = Cardinality(held) + 1
            /\ v \in held => Cardinality(held \ {v}) = Cardinality(held) - 1
        BY <3>1, HeldCard
      <4> QED  BY <2>3, <4>1 DEF IsrRelease, IsrHold, TypeOK
    <3>3. /\ Cardinality({t \in Tasks : call[t].st = "add"}) \in Nat
          /\ Cardinality({t \in Tasks : call[t].st = "sub"}) \in Nat
      BY SetsAssumption, FS_Subset, FS_CardinalityType
    <3> QED  BY <3>1, <3>2, <3>3 DEF CountExact
  <2>4. CASE IdleSleep \/ Wakeup \/ Tick \/ UNCHANGED vars
    BY <2>4 DEF IdleSleep, Wakeup, Tick, vars, CountExact
  <2> QED  BY <2>1, <2>2, <2>3, <2>4 DEF Next, Isr
<1> QED  BY <1>1, <1>2, TypeCorrect, PTL DEF Spec

-----------------------------------------------------------------------------
(* The inductive invariant of the lock bit. With no overlap behind them,   *)
(* at most one lock write is due, it is the one the count asks for, and    *)
(* while none is due the bit says whether the count is positive.           *)
LockInv ==
    /\ cpu # "run" => \A t \in Tasks : call[t] = Out
    /\ ~overlap =>
         /\ \A t, u \in Tasks : WriteDue(t) /\ WriteDue(u) => t = u
         /\ \A t \in Tasks : WriteDue(t) => (call[t].st = "acquire" <=> count > 0)
         /\ ~LockDue => (BusyId \in wake <=> count > 0)
    /\ LockExact

(* Lemma: nobody inside the vote code: the count is the number of holders. *)
(* It is needed, like the next one, of the state a step ends in.           *)
LEMMA QuietCount ==
    ASSUME TypeOK', CountExact', Quiet'
    PROVE  (count > 0 <=> held # {})' /\ ~LockDue'
<1>1. held' \in SUBSET Holders /\ count' \in Int /\ IsFiniteSet(held')
  BY HoldersFinite, FS_Subset DEF TypeOK
<1>2. Cardinality(held') \in Nat /\ (Cardinality(held') = 0 <=> held' = {})
  BY <1>1, FS_CardinalityType, FS_EmptySet
<1>3. \A t \in Tasks : call'[t].st \notin Stages
  BY DEF Quiet, Inside
<1>4. {t \in Tasks : call'[t].st = "add"} = {} /\ {t \in Tasks : call'[t].st = "sub"} = {}
  BY <1>3 DEF Stages
<1>5. count' = Cardinality(held')
  <2>1. count' = Cardinality(held') - Cardinality({t \in Tasks : call'[t].st = "add"})
                                    + Cardinality({t \in Tasks : call'[t].st = "sub"})
    BY DEF CountExact
  <2>2. count' = Cardinality(held') - Cardinality({}) + Cardinality({})
    BY <2>1, <1>4
  <2>3. count' = Cardinality(held') - 0 + 0
    BY <2>2, EmptyCard, Zenon
  <2> QED  BY <2>3, <1>2
<1>6. ~LockDue'
  BY <1>3 DEF Stages, LockDue, WriteDue
<1> QED  BY <1>1, <1>2, <1>5, <1>6

(* Lemma: LockExact follows from the rest of the invariant while the core  *)
(* runs.                                                                   *)
LEMMA LockExactRun ==
    ASSUME TypeOK', CountExact', cpu' = "run",
           ~overlap' => (~LockDue' => (BusyId \in wake' <=> count' > 0))
    PROVE  LockExact'
<1>1. DeepSleepSafe'
  BY DEF DeepSleepSafe
<1>2. ASSUME ~overlap', Quiet', held' = {} PROVE BusyId \notin wake'
  BY <1>2, QuietCount
<1> QED  BY <1>1, <1>2 DEF LockExact, NoLockLeak

(* Lemma: a step of the vote code that crosses no edge and writes no lock. *)
LEMMA LockKept ==
    ASSUME TypeOK, LockInv, TypeOK', CountExact', cpu' = "run",
           \A u \in Tasks : (WriteDue(u)' <=> WriteDue(u)) /\ (WriteDue(u) => call'[u] = call[u]),
           count' > 0 <=> count > 0, overlap' = overlap,
           BusyId \in wake' <=> BusyId \in wake
    PROVE  LockInv'
<1>1. LockDue' <=> LockDue
  BY DEF LockDue
<1>2. ~overlap' => (~LockDue' => (BusyId \in wake' <=> count' > 0))
  BY <1>1 DEF LockInv
<1>3. LockExact'
  BY <1>2, LockExactRun
<1> QED  BY <1>2, <1>3 DEF LockInv

(* Lemma: an edge of the count crossed by task t, which now owes the lock  *)
(* write.                                                                  *)
LEMMA LockEdge ==
    ASSUME TypeOK, LockInv, TypeOK', CountExact', cpu' = "run", NEW t \in Tasks, ~WriteDue(t),
           \A u \in Tasks \ {t} : call'[u] = call[u],
           WriteDue(t)', call'[t].st = "acquire" <=> count' > 0, overlap' = LockDue
    PROVE  LockInv'
<1>1. LockDue'
  BY DEF LockDue
<1>2. ASSUME ~overlap' PROVE \A u \in Tasks \ {t} : ~WriteDue(u)'
  BY <1>2 DEF LockDue, WriteDue
<1>3. LockExact'
  BY <1>1, LockExactRun
<1> QED  BY <1>1, <1>2, <1>3 DEF LockInv

(* Lemma: task t makes the lock write it owes.                             *)
LEMMA LockWrite ==
    ASSUME TypeOK, LockInv, TypeOK', CountExact', NEW t \in Tasks, Acquire(t) \/ Drop(t)
    PROVE  LockInv'
<1>1. /\ call' = [call EXCEPT ![t] = Out] /\ call \in [Tasks -> Calls] /\ cpu' = "run"
      /\ count' = count /\ overlap' = overlap
  BY DEF Acquire, Drop, TypeOK
<1>2. ~WriteDue(t)' /\ \A u \in Tasks \ {t} : WriteDue(u)' <=> WriteDue(u)
  BY <1>1 DEF WriteDue, Out
<1>3. WriteDue(t) /\ (BusyId \in wake' <=> call[t].st = "acquire")
  BY DEF Acquire, Drop, WriteDue
<1>4. ASSUME ~overlap' PROVE BusyId \in wake' <=> count' > 0
  BY <1>1, <1>3, <1>4 DEF LockInv
<1>5. ASSUME ~overlap' PROVE \A u \in Tasks : ~WriteDue(u)'
  BY <1>1, <1>2, <1>3, <1>5 DEF LockInv
<1>6. LockExact'
  BY <1>1, <1>4, LockExactRun
<1> QED  BY <1>1, <1>4, <1>5, <1>6 DEF LockInv

(* Lemma: every step keeps the invariant.                                  *)
LEMMA LockStep ==
    ASSUME TypeOK, LockInv, TypeOK', CountExact', [Next]_vars
    PROVE  LockInv'
<1>1. call \in [Tasks -> Calls] /\ count \in Int
  BY DEF TypeOK
<1>2. ASSUME NEW t \in Tasks, VoteCall(t) PROVE LockInv'
  <2>1. CASE Acquire(t) \/ Drop(t)
    BY <2>1, LockWrite
  <2>2. CASE Add(t) \/ Sub(t)
    <3>1. /\ cpu' = "run" /\ \A u \in Tasks \ {t} : call'[u] = call[u]
          /\ ~WriteDue(t) /\ wake' = wake
      BY <1>1, <2>2 DEF Add, Sub, WriteDue
    <3>2. CASE WriteDue(t)'
      <4>1. overlap' = LockDue /\ (call'[t].st = "acquire" <=> count' > 0)
        BY <1>1, <2>2, <3>2 DEF Add, Sub, WriteDue, Out
      <4> QED  BY <3>1, <3>2, <4>1, LockEdge
    <3>3. CASE ~WriteDue(t)'
      <4>1. overlap' = overlap /\ (count' > 0 <=> count > 0)
        BY <1>1, <2>2, <3>3 DEF Add, Sub, WriteDue
      <4>2. \A u \in Tasks : (WriteDue(u)' <=> WriteDue(u)) /\ (WriteDue(u) => call'[u] = call[u])
        BY <3>1, <3>3 DEF WriteDue
      <4> QED  BY <3>1, <4>1, <4>2, LockKept
    <3> QED  BY <3>2, <3>3
  <2>3. CASE \/ \E v \in Votes : Hold(t, v) \/ Release(t, v)
             \/ \E n \in 1..MaxNest : AdcEnter(t, n) \/ AdcLeave(t, n)
    <3>1. /\ cpu' = "run" /\ \A u \in Tasks \ {t} : call'[u] = call[u]
          /\ UNCHANGED <<count, wake, overlap>> /\ call[t] = Out
          /\ call'[t].st \in {"add", "sub", "out"}
      BY <1>1, <2>3 DEF Hold, Release, AdcEnter, AdcLeave, MayEnter, Out
    <3>2. \A u \in Tasks : (WriteDue(u)' <=> WriteDue(u)) /\ (WriteDue(u) => call'[u] = call[u])
      BY <3>1 DEF WriteDue, Out
    <3> QED  BY <3>1, <3>2, LockKept
  <2> QED  BY <1>2, <2>1, <2>2, <2>3 DEF VoteCall
<1>3. ASSUME NEW t \in Tasks, ModeCall(t) PROVE LockInv'
  <2>1. /\ UNCHANGED <<count, overlap>> /\ cpu' = "run" /\ (BusyId \in wake' <=> BusyId \in wake)
        /\ \A u \in Tasks \ {t} : call'[u] = call[u]
    BY <1>1, <1>3 DEF ModeCall, ModeSetPs, ModeSetLock, AllowSleep, ForceWakeup, BusyId, TklId
  <2>2. ~WriteDue(t) /\ ~WriteDue(t)'
    BY <1>1, <1>3 DEF ModeCall, ModeSetPs, ModeSetLock, AllowSleep, ForceWakeup, WriteDue, Out
  <2>3. \A u \in Tasks : (WriteDue(u)' <=> WriteDue(u)) /\ (WriteDue(u) => call'[u] = call[u])
    BY <2>1, <2>2 DEF WriteDue
  <2> QED  BY <2>1, <2>3, LockKept
<1>4. ASSUME NEW v \in IsrVotes, IsrRelease(v) \/ IsrHold(v) PROVE LockInv'
  <2>1. call' = call /\ cpu' = "run"
    BY <1>4 DEF IsrRelease, IsrHold
  <2>2. \A u \in Tasks : (WriteDue(u)' <=> WriteDue(u)) /\ (WriteDue(u) => call'[u] = call[u])
    BY <2>1 DEF WriteDue
  <2>3. CASE (count > 0) <=> (count' > 0)
    <3>1. overlap' = overlap /\ wake' = wake
      BY <1>1, <1>4, <2>3 DEF IsrRelease, IsrHold
    <3> QED  BY <2>1, <2>2, <2>3, <3>1, LockKept
  <2>4. CASE ~((count > 0) <=> (count' > 0))
    <3>1. overlap' = LockDue /\ (BusyId \in wake' <=> count' > 0)
      BY <1>1, <1>4, <2>4 DEF IsrRelease, IsrHold
    <3>2. ASSUME ~overlap' PROVE \A u \in Tasks : ~WriteDue(u)'
      BY <2>2, <3>1, <3>2 DEF LockDue
    <3>3. LockExact'
      BY <2>1, <3>1, LockExactRun
    <3> QED  BY <2>1, <3>1, <3>2, <3>3 DEF LockInv
  <2> QED  BY <2>3, <2>4
<1>5. ASSUME IdleSleep PROVE LockInv'
  <2>1. UNCHANGED <<held, count, wake, call, overlap>> /\ \A t \in Tasks : call[t] = Out
    BY <1>5 DEF IdleSleep
  <2>2. Quiet' /\ ~LockDue /\ \A t \in Tasks : ~WriteDue(t)'
    BY <2>1 DEF Quiet, Inside, Out, Stages, LockDue, WriteDue
  <2>3. ~overlap' => (BusyId \in wake' <=> count' > 0)
    BY <2>1, <2>2 DEF LockInv
  <2>4. cpu' = "deep" => BusyId \notin wake'
    BY <1>5 DEF IdleSleep, TakesDeep
  <2>5. LockExact'
    BY <2>2, <2>3, <2>4, QuietCount DEF LockExact, DeepSleepSafe, NoLockLeak
  <2> QED  BY <2>1, <2>2, <2>3, <2>5 DEF LockInv
<1>6. ASSUME Wakeup \/ Tick PROVE LockInv'
  <2>1. /\ UNCHANGED <<count, call, overlap>> /\ cpu' = "run"
        /\ (BusyId \in wake' <=> BusyId \in wake)
    BY <1>6 DEF Wakeup, Tick, BusyId, SystickId
  <2>2. \A u \in Tasks : (WriteDue(u)' <=> WriteDue(u)) /\ (WriteDue(u) => call'[u] = call[u])
    BY <2>1 DEF WriteDue
  <2> QED  BY <2>1, <2>2, LockKept
<1>7. CASE UNCHANGED vars
  BY <1>7 DEF vars, LockInv, LockExact, DeepSleepSafe, NoLockLeak, Quiet, Inside, LockDue, WriteDue
<1> QED  BY <1>2, <1>3, <1>4, <1>5, <1>6, <1>7 DEF Next, Isr

(* The lock bit is exact outside the windows the code leaves open: for any *)
(* number of tasks, votes and handlers and every preemption, stop mode is  *)
(* entered with a holder, or the bit left behind with none, only after an  *)
(* edge of the count met another caller between its edge and its write.    *)
THEOREM LockFollowsCount == Spec => []LockExact
<1>1. Init => LockInv
  <2> SUFFICES ASSUME Init PROVE LockInv
    OBVIOUS
  <2>1. /\ cpu = "run" /\ wake = {} /\ count = 0 /\ \A t \in Tasks : call[t].st = "out"
    BY DEF Init, Out
  <2>2. (\A t \in Tasks : ~WriteDue(t)) /\ LockExact
    BY <2>1 DEF WriteDue, LockExact, DeepSleepSafe, NoLockLeak
  <2> QED  BY <2>1, <2>2 DEF LockInv
<1>2. TypeOK /\ TypeOK' /\ CountExact' /\ LockInv /\ [Next]_vars => LockInv'
  BY LockStep
<1>3. LockInv => LockExact
  BY DEF LockInv
<1> QED  BY <1>1, <1>2, <1>3, TypeCorrect, CountNeverLost, PTL DEF Spec

-----------------------------------------------------------------------------
(* The SPI driver.                                                         *)

(* What spi_env_info and the hardware switches can be.                     *)
DrvSet == [op : SUBSET OpBits, vote : BOOLEAN, on : BOOLEAN,
           tbe : BOOLEAN, err : BOOLEAN, tx : Channel, rx : Channel,
           shifting : BOOLEAN, fault : {"none", "ovr", "conf"}]

(* The SPI is switched on and off together with its vote.                  *)
Covered(d) == d \in DrvSet /\ (d.on => d.vote)

(* Starting a transfer, from a task or a callback.                         *)
LEMMA LaunchedCovered ==
    ASSUME irqEn \in BOOLEAN, NEW d, Covered(d), NEW k \in {"send", "recv", "transfer"}
    PROVE  /\ Covered(IrqsOn(d, k)) /\ Covered(Launched(d, k)) /\ Launched(d, k).op # {}
           /\ IrqsOn(d, k).op = d.op
<1>1. OpOf(k) \in SUBSET OpBits /\ OpOf(k) # {}
  BY DEF OpOf, OpBits
<1>2. Covered(IrqsOn(d, k)) /\ IrqsOn(d, k).op = d.op
  <2>1. (d.tbe \/ (irqEn /\ k = "send")) \in BOOLEAN /\ (d.err \/ (irqEn /\ k # "transfer")) \in BOOLEAN
    OBVIOUS
  <2> QED BY <2>1 DEF IrqsOn, Covered, DrvSet
<1>3. Covered(Launched(d, k)) /\ Launched(d, k).op = OpOf(k)
  <2>1. (d.err \/ (irqEn /\ k = "transfer")) \in BOOLEAN
    OBVIOUS
  <2> QED BY <1>1, <2>1 DEF Launched, Covered, DrvSet, Channel
<1> QED BY <1>1, <1>2, <1>3

(* A callback leaves a driver whose vote covers it, and op_msk names the   *)
(* transfer it started.                                                    *)
LEMMA CallbackCovered ==
    ASSUME irqEn \in BOOLEAN, NEW d, Covered(d), NEW k \in Reqs
    PROVE  /\ Covered(Callback(d, k))
           /\ k # "none" => Callback(d, k).op # {}
           /\ k = "none" => Callback(d, k) = d
<1>1. CASE k = "none"
  BY <1>1 DEF Callback
<1>2. CASE k # "none"
  <2>1. k \in {"send", "recv", "transfer"}
    BY <1>2 DEF Reqs
  <2>2. Covered(IrqsOn(d, k))
    BY <2>1, LaunchedCovered
  <2> QED BY <1>2, <2>1, <2>2, LaunchedCovered DEF Callback
<1> QED BY <1>1, <1>2

(* The end of a handler, whatever it did to op_msk and the flags.          *)
LEMMA CloseCovered ==
    ASSUME NEW d, Covered(d)
    PROVE  Covered(CloseIfDone(d)) /\ CloseIfDone(d).op = d.op
BY DEF CloseIfDone, Covered, DrvSet, Unfed, Channel

(* The three handlers keep the vote, and with it take a transfer out of    *)
(* op_msk only when they report an event.                                  *)
LEMMA DmaTxCovered ==
    ASSUME irqEn \in BOOLEAN, NEW d, Covered(d), NEW k \in Reqs,
           k # "none" => DmaTxEvent(d)
    PROVE  /\ Covered(DmaTxHandler(d, k))
           /\ d.tx # "fee" /\ d.op # {} /\ (DmaTxEvent(d) => k # "none")
                 => DmaTxHandler(d, k).op # {}
<1>1. CASE d.tx = "fee"
  <2> DEFINE c == Callback(d, k)
             r == [c EXCEPT !.op = {}, !.tx = Clear(@, "fee")]
  <2>1. Covered(c)
    BY CallbackCovered
  <2>2. DmaTxHandler(d, k) = CloseIfDone(r)
    BY <1>1 DEF DmaTxHandler
  <2> HIDE DEF c
  <2>3. Covered(r)
    BY <2>1 DEF Covered, DrvSet, Clear, Channel
  <2> HIDE DEF r
  <2> QED BY <1>1, <2>2, <2>3, CloseCovered
<1>2. CASE d.tx # "fee" /\ d.op \cap {"TRANS_SEND", "TRANS_RECV"} # {}
  <2> DEFINE e == [d EXCEPT !.op = @ \ {"TRANS_SEND"}]
             c == IF e.op = {} THEN Callback(e, k) ELSE e
             r == [c EXCEPT !.tx = Clear(@, "ftf")]
  <2>1. Covered(e) /\ e.op = d.op \ {"TRANS_SEND"}
    BY DEF Covered, DrvSet
  <2>2. e.op = {} <=> DmaTxEvent(d)
    BY <1>2, <2>1 DEF DmaTxEvent
  <2>3. DmaTxHandler(d, k) = CloseIfDone(r)
    BY <1>2 DEF DmaTxHandler
  <2> HIDE DEF e
  <2>4. Covered(c) /\ ((DmaTxEvent(d) => k # "none") => c.op # {})
    BY <2>1, <2>2, CallbackCovered
  <2> HIDE DEF c
  <2>5. Covered(r) /\ r.op = c.op
    BY <2>4 DEF Covered, DrvSet, Clear, Channel
  <2> HIDE DEF r
  <2> QED BY <2>3, <2>4, <2>5, CloseCovered
<1>3. CASE d.tx # "fee" /\ d.op \cap {"TRANS_SEND", "TRANS_RECV"} = {}
  <2> DEFINE r == [d EXCEPT !.op = @ \cup {"DMA_SEND_CMPLT"}, !.tx = Clear(@, "ftf")]
  <2>1. Covered(r) /\ r.op # {}
    BY DEF Covered, DrvSet, Clear, Channel, OpBits
  <2>2. DmaTxHandler(d, k) = CloseIfDone(r)
    BY <1>3 DEF DmaTxHandler
  <2> HIDE DEF r
  <2> QED BY <2>1, <2>2, CloseCovered
<1> QED BY <1>1, <1>2, <1>3

LEMMA DmaRxCovered ==
    ASSUME irqEn \in BOOLEAN, NEW d, Covered(d), NEW k \in Reqs,
           k # "none" => DmaRxEvent(d)
    PROVE  /\ Covered(DmaRxHandler(d, k))
           /\ d.rx # "fee" /\ d.op # {} /\ (DmaRxEvent(d) => k # "none")
                 => DmaRxHandler(d, k).op # {}
           /\ d.rx # "fee" /\ k # "none" => DmaRxHandler(d, k).op # {}
<1>1. CASE d.rx = "fee"
  <2> DEFINE c == Callback(d, k)
             r == [c EXCEPT !.op = {}, !.rx = Clear(@, "fee")]
  <2>1. Covered(c)
    BY CallbackCovered
  <2>2. DmaRxHandler(d, k) = CloseIfDone(r)
    BY <1>1 DEF DmaRxHandler
  <2> HIDE DEF c
  <2>3. Covered(r)
    BY <2>1 DEF Covered, DrvSet, Clear, Channel
  <2> HIDE DEF r
  <2> QED BY <1>1, <2>2, <2>3, CloseCovered
<1>2. CASE d.rx # "fee"
  <2> DEFINE left == IF d.op \cap {"TRANS_SEND", "TRANS_RECV"} # {} THEN d.op \ {"TRANS_RECV"} ELSE {}
             e == [d EXCEPT !.op = IF @ \cap {"TRANS_SEND", "TRANS_RECV"} # {}
                                   THEN @ \ {"TRANS_RECV"} ELSE {}]
             c == IF e.op = {} THEN Callback(e, k) ELSE e
             r == [c EXCEPT !.rx = Clear(@, "ftf")]
  <2>1. Covered(e) /\ e.op = left
    BY DEF Covered, DrvSet
  <2>2. e.op = {} /\ d.op # {} => DmaRxEvent(d)
    BY <1>2, <2>1 DEF DmaRxEvent
  <2>3. DmaRxHandler(d, k) = CloseIfDone(r)
    BY <1>2 DEF DmaRxHandler
  <2> HIDE DEF e
  <2>4. Covered(c) /\ (d.op # {} /\ (DmaRxEvent(d) => k # "none") => c.op # {})
        /\ (k # "none" => c.op # {})
    BY <2>1, <2>2, CallbackCovered
  <2> HIDE DEF c
  <2>5. Covered(r) /\ r.op = c.op
    BY <2>4 DEF Covered, DrvSet, Clear, Channel
  <2> HIDE DEF r
  <2> QED BY <2>3, <2>4, <2>5, CloseCovered
<1> QED BY <1>1, <1>2

LEMMA SpiCovered ==
    ASSUME irqEn \in BOOLEAN, NEW d, Covered(d), NEW k \in Reqs
    PROVE  /\ Covered(SpiHandler(d, k))
           /\ d.op # {} /\ ~SpiEvent(d) => SpiHandler(d, k).op # {}
<1> DEFINE c == IF SpiEvent(d) THEN [Callback(d, k) EXCEPT !.op = {}] ELSE d
           r == [c EXCEPT !.fault = "none"]
<1>1. Covered(Callback(d, k))
  BY CallbackCovered
<1>2. Covered(c) /\ (~SpiEvent(d) => c.op = d.op)
  BY <1>1 DEF Covered, DrvSet
<1>3. SpiHandler(d, k) = CloseIfDone(r)
  BY DEF SpiHandler
<1> HIDE DEF c
<1>4. Covered(r) /\ r.op = c.op
  BY <1>2 DEF Covered, DrvSet
<1> HIDE DEF r
<1> QED BY <1>2, <1>3, <1>4, CloseCovered
-----------------------------------------------------------------------------
Pcs == {"idle", "launch_send", "launch_recv", "poll", "abort", "deinit"}
Reasons == {"no", "late", "lost", "early"}
SpiInv ==
    /\ Covered(drv)
    /\ irqEn \in BOOLEAN /\ duplex \in BOOLEAN
    /\ req \in Reqs /\ pc \in Pcs /\ missed \in Reasons

(* The transfers of a role, and what a callback may start.                 *)
LEMMA KindsOf == Kinds \subseteq {"send", "recv", "transfer"} /\ Kinds \cup {"none"} \subseteq Reqs
BY DEF Kinds, Reqs

(* A handler: the driver stays covered, and keeps the transfer the client  *)
(* goes on waiting for, unless its callback was told of an event after     *)
(* which op_msk is cleared.                                                *)
LEMMA HandlersKeep ==
    ASSUME SpiInv, ForgottenOnlyLate, Handlers
    PROVE  SpiInv' /\ ForgottenOnlyLate'
<1>1. PICK k \in Kinds \cup {"none"} : DmaTxIsr(k) \/ DmaRxIsr(k) \/ SpiIsr(k)
  BY DEF Handlers
<1>2. k \in Reqs
  BY <1>1, KindsOf
<1>3. UNCHANGED <<irqEn, duplex, pc>>
  BY <1>1 DEF DmaTxIsr, DmaRxIsr, SpiIsr, config
<1>4. ASSUME NEW event, NEW how \in Reasons, Deliver(event, k, how), Covered(drv'),
             event /\ k # "none" => how \in {"late", "lost"} \/ drv'.op # {},
             ~event /\ drv.op # {} => drv'.op # {}
      PROVE  SpiInv' /\ ForgottenOnlyLate'
  <2>1. CASE event /\ k = "none"
    <3>1. req' = "none" /\ missed' = "no"
      BY <1>4, <2>1 DEF Deliver
    <3> QED BY <1>3, <1>4, <3>1 DEF SpiInv, ForgottenOnlyLate, Forgotten, Reqs, Reasons
  <2>2. CASE event /\ k # "none"
    <3>1. req' = k /\ missed' = how
      BY <1>4, <2>2 DEF Deliver
    <3>2. ForgottenOnlyLate'
      BY <1>4, <2>2, <3>1 DEF ForgottenOnlyLate, Forgotten
    <3> QED BY <1>2, <1>3, <1>4, <3>1, <3>2 DEF SpiInv
  <2>3. CASE ~event
    <3>1. req' = req /\ missed' = missed
      BY <1>4, <2>3 DEF Deliver
    <3>2. ForgottenOnlyLate'
      BY <1>3, <1>4, <2>3, <3>1 DEF ForgottenOnlyLate, Forgotten
    <3> QED BY <1>3, <1>4, <3>1, <3>2 DEF SpiInv
  <2> QED BY <2>1, <2>2, <2>3
<1>5. CASE DmaTxIsr(k)
  <2>1. PICK how \in Reasons :
           /\ how = IF drv.tx = "fee" THEN "lost" ELSE "no"
           /\ Deliver(DmaTxEvent(drv), k, how)
    BY <1>5 DEF DmaTxIsr, Reasons
  <2>2. (k # "none" => DmaTxEvent(drv)) /\ drv' = DmaTxHandler(drv, k)
    BY <1>5, <2>1 DEF DmaTxIsr, Deliver
  <2>3. /\ Covered(drv')
        /\ drv.tx # "fee" /\ drv.op # {} /\ (DmaTxEvent(drv) => k # "none") => drv'.op # {}
    BY <1>2, <2>2, DmaTxCovered DEF SpiInv
  <2>4. drv.tx = "fee" => DmaTxEvent(drv)
    BY DEF DmaTxEvent
  <2>5. drv.tx # "fee" /\ DmaTxEvent(drv) => drv.op # {}
    BY DEF DmaTxEvent
  <2>6. DmaTxEvent(drv) /\ k # "none" => how \in {"late", "lost"} \/ drv'.op # {}
    BY <2>1, <2>3, <2>5
  <2>7. ~DmaTxEvent(drv) /\ drv.op # {} => drv'.op # {}
    BY <2>3, <2>4
  <2> QED BY <1>4, <2>1, <2>3, <2>6, <2>7
<1>6. CASE DmaRxIsr(k)
  <2>1. PICK how \in Reasons :
           /\ how = IF drv.rx = "fee" THEN "lost" ELSE "no"
           /\ Deliver(DmaRxEvent(drv), k, how)
    BY <1>6 DEF DmaRxIsr, Reasons
  <2>2. (k # "none" => DmaRxEvent(drv)) /\ drv' = DmaRxHandler(drv, k)
    BY <1>6, <2>1 DEF DmaRxIsr, Deliver
  <2>3. /\ Covered(drv')
        /\ drv.rx # "fee" /\ drv.op # {} /\ (DmaRxEvent(drv) => k # "none") => drv'.op # {}
        /\ drv.rx # "fee" /\ k # "none" => drv'.op # {}
    BY <1>2, <2>2, DmaRxCovered DEF SpiInv
  <2>4. drv.rx = "fee" => DmaRxEvent(drv)
    BY DEF DmaRxEvent
  <2>6. DmaRxEvent(drv) /\ k # "none" => how \in {"late", "lost"} \/ drv'.op # {}
    BY <2>1, <2>3
  <2>7. ~DmaRxEvent(drv) /\ drv.op # {} => drv'.op # {}
    BY <2>3, <2>4
  <2> QED BY <1>4, <2>1, <2>3, <2>6, <2>7
<1>7. CASE SpiIsr(k)
  <2>1. PICK how \in {"late", "lost"} : Deliver(SpiEvent(drv), k, how)
    BY <1>7 DEF SpiIsr
  <2>2. drv' = SpiHandler(drv, k)
    BY <1>7 DEF SpiIsr
  <2>3. Covered(drv') /\ (drv.op # {} /\ ~SpiEvent(drv) => drv'.op # {})
    BY <1>2, <2>2, SpiCovered DEF SpiInv
  <2> QED BY <1>4, <2>1, <2>3 DEF Reasons
<1> QED BY <1>1, <1>5, <1>6, <1>7

(* Every step.                                                             *)
LEMMA SpiStep ==
    ASSUME SpiInv, ForgottenOnlyLate, [DriverNext]_driverVars
    PROVE  SpiInv' /\ ForgottenOnlyLate'
<1>1. /\ Covered(drv) /\ irqEn \in BOOLEAN /\ duplex \in BOOLEAN /\ req \in Reqs
      /\ pc \in Pcs /\ missed \in Reasons
  BY DEF SpiInv
<1> USE DEF ForgottenOnlyLate, Forgotten
<1>2. CASE Configure
  <2>1. PICK b \in BOOLEAN : SetIrq(b) \/ SpiInit(b)
    BY <1>2 DEF Configure
  <2>2. /\ Covered(drv') /\ irqEn' \in BOOLEAN /\ duplex' \in BOOLEAN
        /\ UNCHANGED <<req, pc, missed>> /\ req = "none"
    BY <1>1, <2>1 DEF SetIrq, SpiInit, Covered, DrvSet
  <2> QED BY <1>1, <2>2 DEF SpiInv
<1>3. CASE Start
  <2>1. CASE \E k \in Kinds \ {"transfer"} : Begin(k)
    <3>1. PICK k \in Kinds \ {"transfer"} : Begin(k)
      BY <2>1
    <3>2. Covered(drv') /\ req' = "none" /\ pc' \in Pcs /\ UNCHANGED <<config, missed>>
      BY <1>1, <3>1, KindsOf, LaunchedCovered DEF Begin, Pcs
    <3> QED BY <1>1, <3>2 DEF SpiInv, config, Reqs
  <2>2. CASE \E k \in Kinds : Launch(k)
    <3>1. PICK k \in Kinds : Launch(k)
      BY <2>2
    <3>2. /\ Covered(drv') /\ drv'.op # {} /\ req' \in Reqs /\ pc' \in Pcs /\ UNCHANGED config
          /\ missed' \in Reasons
      BY <1>1, <3>1, KindsOf, LaunchedCovered DEF Launch, Pcs, Reasons
    <3> QED BY <1>1, <3>2 DEF SpiInv, config
  <2> QED BY <1>3, <2>1, <2>2 DEF Start
<1>4. CASE PollEnd
  <2>1. Covered(drv') /\ req' = "none" /\ missed' = "no" /\ pc' \in Pcs /\ UNCHANGED config
    BY <1>1, <1>4 DEF PollEnd, Covered, DrvSet, Channel, Pcs
  <2> QED BY <1>1, <2>1 DEF SpiInv, config, Reqs, Reasons
<1>5. CASE AbortBegin \/ DeinitBegin
  <2>1. Covered(Stopped(drv)) /\ Covered([Stopped(drv) EXCEPT !.op = {}])
    BY <1>1 DEF Stopped, Covered, DrvSet, Channel, Unfed
  <2>2. Covered([drv EXCEPT !.on = FALSE, !.tbe = FALSE, !.err = FALSE,
                            !.shifting = FALSE, !.fault = "none"])
    BY <1>1 DEF Covered, DrvSet
  <2>3. /\ Covered(drv') /\ pc' \in Pcs /\ pc' \notin {"idle", "poll"}
        /\ UNCHANGED <<config, req, missed>>
    BY <1>5, <2>1, <2>2 DEF AbortBegin, DeinitBegin, Pcs
  <2> QED BY <1>1, <2>3 DEF SpiInv, config
<1>6. CASE SleepEnd
  <2>1. Covered(drv') /\ req' = "none" /\ missed' = "no" /\ pc' \in Pcs /\ UNCHANGED config
    BY <1>1, <1>6 DEF SleepEnd, Covered, DrvSet, Pcs
  <2> QED BY <1>1, <2>1 DEF SpiInv, config, Reqs, Reasons
<1>7. CASE AbortNothing
  BY <1>1, <1>7 DEF AbortNothing, SpiInv, config, Reqs, Reasons
<1>8. CASE Handlers
  BY <1>8, HandlersKeep
<1>9. CASE Hardware \/ \E f \in {"ovr", "conf"} : BusFault(f)
  <2>1. Covered(drv') /\ drv'.op = drv.op /\ UNCHANGED <<config, req, pc, missed>>
    BY <1>1, <1>9 DEF Hardware, DmaTxDone, DmaRxDone, ShiftDone, BusFault, Covered, DrvSet, Channel
  <2> QED BY <1>1, <2>1 DEF SpiInv, config
<1>10. CASE UNCHANGED driverVars
  BY <1>1, <1>10 DEF driverVars, SpiInv
<1> QED BY <1>2, <1>3, <1>4, <1>5, <1>6, <1>7, <1>8, <1>9, <1>10 DEF DriverNext

(* The initial state.                                                      *)
LEMMA SpiInit0 == DriverInit => SpiInv /\ ForgottenOnlyLate
<1> SUFFICES ASSUME DriverInit PROVE SpiInv /\ ForgottenOnlyLate
  OBVIOUS
<1>1. Covered(drv)
  BY DEF DriverInit, Covered, DrvSet, Channel
<1> QED BY <1>1 DEF DriverInit, SpiInv, ForgottenOnlyLate, Forgotten, Reqs, Pcs, Reasons

(* The clock vote is held for as long as the SPI is on and a transfer is   *)
(* in flight: through callbacks that start the next one on any event,      *)
(* faults, early TBE interrupts, aborts and deinitialisation.              *)
THEOREM VoteHeld == DriverSpec => []VoteCovers
<1>1. SpiInv /\ ForgottenOnlyLate /\ [DriverNext]_driverVars => SpiInv' /\ ForgottenOnlyLate'
  BY SpiStep
<1>2. SpiInv => VoteCovers
  BY DEF SpiInv, VoteCovers, DriverTypeOK, Covered, DrvSet, Pcs, Reasons
<1> QED BY <1>1, <1>2, SpiInit0, PTL DEF DriverSpec

(* A transfer the driver accepted stays in op_msk until the client learns  *)
(* of its end, with any client and any faults, unless a callback started   *)
(* it that is told of an event before its handler clears op_msk.           *)
THEOREM Remembered == DriverSpec => []ForgottenOnlyLate
<1>1. SpiInv /\ ForgottenOnlyLate /\ [DriverNext]_driverVars => SpiInv' /\ ForgottenOnlyLate'
  BY SpiStep
<1> QED BY <1>1, SpiInit0, PTL DEF DriverSpec
=============================================================================
