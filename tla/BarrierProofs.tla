--------------------------- MODULE BarrierProofs ---------------------------
(***************************************************************************)
(* Proofs about Barrier, for any number of threads, any counts and any     *)
(* number of calls, wherever the timer fires.                              *)
(***************************************************************************)
EXTENDS Barrier, SchedulerProofs, FiniteSets, FiniteSetTheorems

\* Where threads are, once the types are right: only the running thread is
\* RUNNING, and a BLOCKED one is past bar_block and gets no further.
Placed ==
  /\ \A t \in Threads : status[t] = TS_RUNNING => t = TID
  /\ \A t \in Threads : status[t] = TS_BLOCKED =>
       \/ pc[t] = "bar_sched"
       \/ pc[t] = "bar_spin" /\ (proc = "run" => t # TID)

\* Between the load of left and the raising of flag there is no other thread,
\* until the timer fires there; so what bar_flag saw is still true.
Alone ==
  ~hit => /\ \A t \in Threads : pc[t] \in {"bar_store", "bar_flag", "bar_block"} => t = TID
          /\ pc[TID] = "bar_block" => flag = 0

IType == TypeOK /\ Placed /\ Alone /\ BlockedIsCalling

-----------------------------------------------------------------------------
\* There is at least one unsigned number.
LEMMA UnsignedSize == UINT_SIZE \in Nat /\ UINT_SIZE > 0
BY BarrierAssumption

\* left-- in unsigned arithmetic.
LEMMA Wraps ==
  ASSUME NEW u \in Nat, u > 0, NEW x \in 0 .. u - 1
  PROVE  (x - 1) % u = IF x = 0 THEN u - 1 ELSE x - 1
OBVIOUS

\* What a call of schedule does to statuses and TID, with TID still a thread.
LEMMA CalledSchedule ==
  ASSUME TypeOK, Placed, schedule(status), proc = "run"
  PROVE  /\ status' \in [Threads -> {TS_RUNNING, TS_READY, TS_BLOCKED}]
         /\ TID' \in Threads /\ proc' \in {"run", "spin"}
         /\ \A t \in Threads : status'[t] = TS_RUNNING => t = TID'
         /\ \A t \in Threads : status'[t] = TS_BLOCKED <=> status[t] = TS_BLOCKED
         /\ proc' = "run" => status[TID'] # TS_BLOCKED
<1> USE DEF TypeOK, Placed, CanRun, TS_RUNNING, TS_READY, TS_BLOCKED
<1> DEFINE S == {TS_RUNNING, TS_READY, TS_BLOCKED}
<1>1. CanRun \subseteq S /\ status \in [Threads -> S]
  OBVIOUS
<1>2. /\ status' \in [Threads -> S] /\ TID' \in Threads
      /\ \A t \in Threads : status'[t] = TS_RUNNING => t = TID'
      /\ \A t \in Threads : status[t] \in CanRun => status'[t] \in CanRun
      /\ \A t \in Threads : status[t] \notin CanRun => status'[t] = status[t]
      /\ \/ status'[TID'] = TS_RUNNING /\ status[TID'] \in CanRun /\ proc' = proc
         \/ proc' = "spin"
  <2> HIDE DEF S, CanRun
  <2> QED BY <1>1, ScheduleEffect
<1> QED BY <1>2

\* A step that calls schedule and moves the caller to p.
LEMMA ScheduleStep ==
  ASSUME IType, schedule(status), proc = "run", NEW p \in Points,
         pc' = [pc EXCEPT ![TID] = p], p \notin {"bar_store", "bar_flag", "bar_block"},
         p = "bar_spin" \/ status[TID] # TS_BLOCKED,
         hit' = hit, hit \/ pc[TID] \notin {"bar_store", "bar_flag", "bar_block"},
         UNCHANGED <<bcb, reg, history, last>>
  PROVE  IType'
<1> USE CalledSchedule DEF IType, Points, TS_RUNNING, TS_READY, TS_BLOCKED, bcb, history
<1>1. TypeOK'
  BY DEF TypeOK
<1>2. Placed'
  BY DEF TypeOK, Placed
<1>3. Alone'
  BY DEF TypeOK, Alone
<1>4. BlockedIsCalling'
  BY DEF BlockedIsCalling
<1> QED BY <1>1, <1>2, <1>3, <1>4

\* Types, and what the blocked thread needs, are preserved by every step.
LEMMA TypeStep == IType /\ [Next]_vars => IType'
<1> SUFFICES ASSUME IType, [Next]_vars PROVE IType'
  OBVIOUS
<1>0. TypeOK /\ Placed /\ Alone /\ BlockedIsCalling /\ TID \in Threads
  BY DEF IType, TypeOK
<1>s. NoThread \notin Threads
  BY MaxThreadsAssumption DEF Threads, NoThread
<1> USE DEF TS_RUNNING, TS_READY, TS_BLOCKED, Points, bcb, history, At, Goto
<1>1. CASE UNCHANGED vars
  BY <1>1 DEF IType, TypeOK, Placed, Alone, BlockedIsCalling, vars
<1>2. ASSUME NEW n \in Counts, pthread_barrier_init(n) PROVE IType'
  <2>1. CASE UNCHANGED <<bcb, history>> /\ last' = "EINVAL"
    BY <1>0, <1>2, <2>1 DEF pthread_barrier_init, IType, TypeOK, Placed, Alone, BlockedIsCalling
  <2>2. CASE flag' = 0 /\ calling_thread' = NoThread /\ init' = 1 /\ count' = n /\ left' = n
             /\ enters' = 0 /\ returns' = 0 /\ serials' = 0 /\ last' = "init_done"
    <3>1. TypeOK'
      BY <1>0, <1>2, <2>2, BarrierAssumption DEF pthread_barrier_init, TypeOK
    <3>2. Placed'
      BY <1>0, <1>2, <2>2 DEF pthread_barrier_init, Placed
    <3>3. Alone'
      BY <1>0, <1>2, <2>2 DEF pthread_barrier_init, Alone, Idle
    <3>4. BlockedIsCalling'
      BY <1>0, <1>2, <2>2, <1>s DEF pthread_barrier_init, Placed, BlockedIsCalling, Idle
    <3> QED BY <3>1, <3>2, <3>3, <3>4 DEF IType
  <2> QED BY <1>2, <2>1, <2>2 DEF pthread_barrier_init
<1>3. CASE pthread_barrier_destroy
  <2>1. TypeOK'
    <3>1. init' \in 0 .. 1
      <4>1. CASE init = 1
        BY <1>3, <4>1 DEF pthread_barrier_destroy
      <4>2. CASE init # 1
        BY <1>3, <4>2 DEF pthread_barrier_destroy
      <4> QED BY <4>1, <4>2
    <3> QED BY <1>0, <1>3, <3>1 DEF pthread_barrier_destroy, TypeOK
  <2>2. Placed'
    BY <1>0, <1>3 DEF pthread_barrier_destroy, TypeOK, Placed
  <2>3. Alone'
    BY <1>0, <1>3 DEF pthread_barrier_destroy, TypeOK, Alone
  <2>4. BlockedIsCalling'
    BY <1>0, <1>3 DEF pthread_barrier_destroy, TypeOK, BlockedIsCalling
  <2> QED BY <2>1, <2>2, <2>3, <2>4 DEF IType
<1>4. CASE WaitLoad
  <2>1. TypeOK'
    BY <1>0, <1>4 DEF WaitLoad, TypeOK
  <2>2. Placed'
    BY <1>0, <1>4 DEF WaitLoad, TypeOK, Placed
  <2>3. Alone'
    BY <1>0, <1>4 DEF WaitLoad, TypeOK, Alone
  <2>4. BlockedIsCalling'
    BY <1>0, <1>4 DEF WaitLoad, TypeOK, BlockedIsCalling
  <2> QED BY <2>1, <2>2, <2>3, <2>4 DEF IType
<1>5. CASE WaitStore
  <2>0. 0 \in 0 .. UINT_SIZE - 1 /\ (reg[TID] - 1) % UINT_SIZE \in 0 .. UINT_SIZE - 1
    <3>1. reg[TID] \in 0 .. UINT_SIZE - 1
      BY <1>0 DEF TypeOK
    <3> QED BY <3>1, Wraps, UnsignedSize
  <2>1. TypeOK'
    BY <1>0, <1>5, <2>0 DEF WaitStore, TypeOK
  <2>2. Placed'
    BY <1>0, <1>5, <2>0 DEF WaitStore, TypeOK, Placed
  <2>3. Alone'
    BY <1>0, <1>5, <2>0 DEF WaitStore, TypeOK, Alone
  <2>4. BlockedIsCalling'
    BY <1>0, <1>5, <2>0 DEF WaitStore, TypeOK, BlockedIsCalling
  <2> QED BY <2>1, <2>2, <2>3, <2>4 DEF IType
<1>6. CASE WaitTest
  <2>1. TypeOK'
    BY <1>0, <1>6 DEF WaitTest, TypeOK
  <2>2. Placed'
    BY <1>0, <1>6 DEF WaitTest, TypeOK, Placed
  <2>3. Alone'
    BY <1>0, <1>6 DEF WaitTest, TypeOK, Alone
  <2>4. BlockedIsCalling'
    BY <1>0, <1>6 DEF WaitTest, TypeOK, BlockedIsCalling
  <2> QED BY <2>1, <2>2, <2>3, <2>4 DEF IType
<1>7. CASE WaitBlock
  <2>1. TypeOK'
    BY <1>0, <1>7 DEF WaitBlock, Raised, TypeOK
  <2>2. Placed'
    BY <1>0, <1>7 DEF WaitBlock, Raised, TypeOK, Placed
  <2>3. Alone'
    BY <1>0, <1>7 DEF WaitBlock, Raised, TypeOK, Alone
  <2>4. BlockedIsCalling'
    BY <1>0, <1>7 DEF WaitBlock, Raised, TypeOK, Alone, BlockedIsCalling
  <2> QED BY <2>1, <2>2, <2>3, <2>4 DEF IType
<1>8. CASE WaitSched
  BY <1>8, ScheduleStep DEF WaitSched
<1>9. CASE WaitSpin
  <2>1. CASE left # 0
    BY <1>0, <1>9, <2>1, ScheduleStep DEF WaitSpin, TypeOK, Placed
  <2>2. CASE left = 0
    BY <1>0, <1>9, <2>2 DEF WaitSpin, IType, TypeOK, Placed, Alone, BlockedIsCalling
  <2> QED BY <2>1, <2>2
<1>10. CASE WaitRelease
  <2>1. TypeOK'
    BY <1>0, <1>10 DEF WaitRelease, TypeOK
  <2>2. Placed'
    BY <1>0, <1>10 DEF WaitRelease, TypeOK, Placed
  <2>3. Alone'
    BY <1>0, <1>10 DEF WaitRelease, TypeOK, Alone
  <2>4. BlockedIsCalling'
    BY <1>0, <1>10 DEF WaitRelease, TypeOK, BlockedIsCalling
  <2> QED BY <2>1, <2>2, <2>3, <2>4 DEF IType
<1>11. CASE WaitYield
  BY <1>0, <1>11, ScheduleStep DEF WaitYield, Placed
<1>12. CASE WaitReturn
  <2>1. TypeOK'
    BY <1>0, <1>12, BarrierAssumption DEF WaitReturn, Reset, TypeOK
  <2>2. Placed'
    BY <1>0, <1>12, BarrierAssumption DEF WaitReturn, Reset, TypeOK, Placed
  <2>3. Alone'
    BY <1>0, <1>12, BarrierAssumption DEF WaitReturn, Reset, TypeOK, Alone
  <2>4. BlockedIsCalling'
    BY <1>0, <1>12, BarrierAssumption DEF WaitReturn, Reset, TypeOK, BlockedIsCalling
  <2> QED BY <2>1, <2>2, <2>3, <2>4 DEF IType
<1>13. CASE Alarm
  <2>1. TypeOK' /\ Placed' /\ BlockedIsCalling'
    BY <1>0, <1>13, CalledSchedule DEF Alarm, TypeOK, Placed, BlockedIsCalling
  <2>2. Alone'
    BY <1>0, <1>13, CalledSchedule DEF Alarm, TypeOK, Alone, InWindow
  <2> QED BY <2>1, <2>2 DEF IType
<1> QED
  BY <1>1, <1>2, <1>3, <1>4, <1>5, <1>6, <1>7, <1>8, <1>9, <1>10, <1>11, <1>12, <1>13
     DEF Next, pthread_barrier_wait

-----------------------------------------------------------------------------
(* The rounds, when no call begins before everyone has left the last one.  *)

Inside == {t \in Threads : pc[t] # "user"}
AtStore == {t \in Threads : pc[t] = "bar_store"}
Stored == Inside \ AtStore
Past == {t \in Threads : pc[t] \in {"bar_release", "bar_yield", "bar_return"}}

\* The calls of a round that is not full.
Seat == enters % count

\* A round in which a thread has returned, or none has begun since.
Done == Seat = 0 /\ enters - returns < count

\* left has been decremented at most once by each thread that stored it; updates
\* can be lost, but never come twice.
Counting ==
  /\ left >= count - Cardinality(Stored)
  /\ \A t \in AtStore : reg[t] >= count - Cardinality(Stored)

\* The round began with 0 in left, which nobody had reset: it never ends.
Wrapped ==
  /\ (Stored = {} /\ left = 0) \/ left >= UINT_SIZE - Cardinality(Stored)
  /\ \A t \in AtStore : reg[t] = 0 \/ reg[t] >= UINT_SIZE - Cardinality(Stored)

Entered ==
  /\ enters - returns = Cardinality(Inside)
  /\ Seat # 0 => enters - returns = Seat
  /\ Seat = 0 => enters - returns <= count

Ending == Done \/ Past # {} => Seat = 0 /\ AtStore = {} /\ left \in {0, count}

Rounds ==
  /\ last = "init_done" => count # 0
  /\ count = 0 => Inside = {}
  /\ count # 0 => Entered /\ Ending /\ (Done \/ Counting \/ Wrapped)

\* Division with remainder, with the facts the provers need.
LEMMA Division ==
  ASSUME NEW n \in Nat, NEW c \in Nat, c > 0
  PROVE  n \div c \in Nat /\ n % c \in 0 .. c - 1 /\ n = c * (n \div c) + (n % c)
OBVIOUS

\* 0 is a multiple of every count.
LEMMA ZeroModulo == \A c \in Nat : c > 0 => 0 % c = 0
OBVIOUS

\* A count more is at least a whole round more.
LEMMA Multiples ==
  ASSUME NEW c \in Nat, NEW p \in Nat, NEW q \in Nat, q >= p + 1
  PROVE  c * q >= c * p + c
OBVIOUS

\* The remainder of the next number: one more, or 0.
LEMMA Modulo ==
  ASSUME NEW n \in Nat, NEW c \in Nat, c > 0
  PROVE  (n + 1) % c = IF n % c = c - 1 THEN 0 ELSE (n % c) + 1
<1>1. PICK p \in Nat, i \in 0 .. c - 1 : i = n % c /\ n = c * p + i
  BY Division
<1>2. PICK q \in Nat, k \in 0 .. c - 1 : k = (n + 1) % c /\ n + 1 = c * q + k
  <2>1. n + 1 \in Nat
    OBVIOUS
  <2> QED BY <2>1, Division
<1>3. CASE q = p
  BY <1>1, <1>2, <1>3
<1>4. CASE q >= p + 1
  <2>1. c * q >= c * p + c
    BY <1>4, Multiples
  <2>2. c * p \in Int /\ c * q \in Int
    OBVIOUS
  <2>3. i = c - 1 /\ k = 0
    BY <1>1, <1>2, <2>1, <2>2
  <2> QED BY <1>1, <1>2, <2>3
<1>5. CASE p >= q + 1
  <2>1. c * p >= c * q + c
    BY <1>5, Multiples
  <2> QED BY <1>1, <1>2, <2>1
<1> QED BY <1>3, <1>4, <1>5

\* The sets of threads in the rounds are finite, so that they can be counted.
LEMMA Finite ==
  /\ IsFiniteSet(Inside) /\ IsFiniteSet(Stored) /\ Stored \subseteq Inside
  /\ Cardinality(Inside) \in Nat /\ Cardinality(Stored) \in Nat
  /\ Cardinality(Stored) <= Cardinality(Inside)
  /\ Cardinality(Stored) = Cardinality(Inside) => Stored = Inside
  /\ Cardinality(Inside) = 0 => Inside = {}
  /\ Stored = {} => Cardinality(Stored) = 0
<1>1. IsFiniteSet(Threads)
  BY FS_Interval, MaxThreadsAssumption DEF Threads
<1>2. Inside \in SUBSET Threads /\ Stored \in SUBSET Inside
  BY DEF Inside, Stored
<1>3. IsFiniteSet(Inside)
  BY <1>1, <1>2, FS_Subset
<1>4. IsFiniteSet(Stored) /\ Cardinality(Stored) <= Cardinality(Inside)
      /\ (Cardinality(Inside) = Cardinality(Stored) => Inside = Stored)
  BY <1>2, <1>3, FS_Subset
<1>5. (Cardinality(Inside) = 0 => Inside = {}) /\ (Stored = {} => Cardinality(Stored) = 0)
  BY <1>3, FS_EmptySet
<1> QED BY <1>2, <1>3, <1>4, <1>5, FS_CardinalityType

\* Steps that begin no call, end none and pass nobody leave the round alone.
LEMMA SameRound ==
  ASSUME Rounds, Inside' = Inside, AtStore' = AtStore, Past' \subseteq Past,
         UNCHANGED <<count, left, reg, enters, returns>>,
         last' = "init_done" => last = "init_done"
  PROVE  Rounds'
<1>1. Stored' = Stored
  BY DEF Stored
<1>2. Entered' = Entered /\ Done' = Done
  BY DEF Entered, Done, Seat
<1>3. Counting' = Counting /\ Wrapped' = Wrapped
  BY <1>1 DEF Counting, Wrapped
<1>4. Ending => Ending'
  BY <1>2 DEF Ending, Seat
<1> QED BY <1>2, <1>3, <1>4 DEF Rounds

\* The numbers of the barrier are natural numbers, left and the registers unsigned.
LEMMA Unsigned ==
  ASSUME TypeOK
  PROVE  /\ count \in Nat /\ count < UINT_SIZE /\ UINT_SIZE \in Nat /\ UINT_SIZE > 0
         /\ enters \in Nat /\ returns \in Nat /\ left \in 0 .. UINT_SIZE - 1
         /\ \A t \in Threads : reg[t] \in 0 .. UINT_SIZE - 1
BY BarrierAssumption, UnsignedSize DEF TypeOK

\* A call begins: in a round that is not full, or when everyone has left.
LEMMA LoadStep == ASSUME ~ReuseAtOnce, TypeOK, Rounds, WaitLoad PROVE Rounds'
<1>1. /\ TID \in Threads /\ pc[TID] = "user" /\ pc' = [pc EXCEPT ![TID] = "bar_store"]
      /\ pc \in [Threads -> Points]
      /\ reg' = [reg EXCEPT ![TID] = left] /\ reg \in [Threads -> 0 .. UINT_SIZE - 1]
      /\ enters' = enters + 1 /\ UNCHANGED <<returns, count, left, last>>
      /\ count # 0 /\ (Seat # 0 \/ returns = enters)
  BY DEF WaitLoad, Seat, At, Goto, TypeOK, bcb, Rounds
<1>2. Inside' = Inside \cup {TID} /\ TID \notin Inside /\ AtStore' = AtStore \cup {TID}
      /\ Stored' = Stored /\ Past' = Past
  BY <1>1 DEF Inside, AtStore, Stored, Past
<1>3. Cardinality(Inside') = Cardinality(Inside) + 1
  BY <1>2, Finite, FS_AddElement
<1>4. Entered /\ Ending /\ (Done \/ Counting \/ Wrapped)
  BY <1>1 DEF Rounds
<1>5. Seat \in 0 .. count - 1 /\ Seat' = IF Seat = count - 1 THEN 0 ELSE Seat + 1
  <2>1. enters \in Nat /\ count \in Nat /\ count > 0
    BY <1>1, Unsigned
  <2> QED BY <1>1, <2>1, Modulo, Division DEF Seat
<1>6. Entered' /\ ~Done' /\ Past = {}
  <2>1. CASE Seat # 0
    BY <1>1, <1>3, <1>4, <1>5, <2>1, Unsigned DEF Entered, Done, Ending
  <2>2. CASE Seat = 0 /\ returns = enters
    <3>1. Inside = {}
      BY <1>4, <2>2, Finite, Unsigned DEF Entered
    <3>2. Past = {}
      BY <3>1 DEF Inside, Past
    <3>3. enters' - returns' = 1 /\ Cardinality(Inside') = 1
      BY <1>1, <1>3, <1>4, <2>2, Unsigned DEF Entered
    <3>4. (count = 1 /\ Seat' = 0) \/ (count > 1 /\ Seat' = 1)
      <4>1. count \in Nat /\ count # 0 /\ Seat = 0
        BY <1>1, <2>2, Unsigned
      <4>2. CASE count = 1
        BY <1>5, <4>1, <4>2
      <4>3. CASE count > 1
        BY <1>5, <4>1, <4>3
      <4> QED BY <4>1, <4>2, <4>3
    <3> QED BY <1>1, <3>2, <3>3, <3>4, Unsigned DEF Entered, Done
  <2> QED BY <1>1, <2>1, <2>2
<1>7. Counting' \/ Wrapped'
  <2>1. CASE Counting
    BY <1>1, <1>2, <2>1, Unsigned DEF Counting, AtStore
  <2>2. CASE Wrapped
    BY <1>1, <1>2, <2>2, Unsigned DEF Wrapped, AtStore
  <2>3. CASE Done
    <3>1. Inside = {}
      BY <1>1, <1>4, <2>3, Finite, Unsigned DEF Entered, Done
    <3>2. Stored = {} /\ AtStore = {} /\ Cardinality(Stored) = 0
      BY <3>1, Finite DEF Stored, Inside, AtStore
    <3>3. left = 0 \/ left = count
      BY <1>4, <2>3 DEF Ending
    <3>4. AtStore' = {TID} /\ reg'[TID] = left
      BY <1>1, <1>2, <3>2
    <3> QED BY <1>1, <1>2, <3>2, <3>3, <3>4, Unsigned DEF Counting, Wrapped
  <2> QED BY <1>4, <2>1, <2>2, <2>3
<1>8. Ending'
  BY <1>2, <1>6 DEF Ending
<1> QED BY <1>1, <1>6, <1>7, <1>8 DEF Rounds

\* left is stored: no thread has passed, and nobody returns in the meantime.
LEMMA StoreStep == ASSUME TypeOK, Rounds, WaitStore PROVE Rounds'
<1>1. /\ TID \in Threads /\ pc[TID] = "bar_store" /\ pc' = [pc EXCEPT ![TID] = "bar_flag"]
      /\ pc \in [Threads -> Points]
      /\ reg' = [reg EXCEPT ![TID] = 0] /\ reg \in [Threads -> 0 .. UINT_SIZE - 1]
      /\ left' = (reg[TID] - 1) % UINT_SIZE
      /\ UNCHANGED <<enters, returns, count, last>>
  BY DEF WaitStore, At, Goto, TypeOK, history
<1>2. Inside' = Inside /\ TID \in AtStore /\ AtStore' = AtStore \ {TID}
      /\ Stored' = Stored \cup {TID} /\ TID \notin Stored /\ Past' = Past
  BY <1>1 DEF Inside, AtStore, Stored, Past
<1>3. Cardinality(Stored') = Cardinality(Stored) + 1
  BY <1>2, Finite, FS_AddElement
<1>4. count # 0
  BY <1>2 DEF Rounds, AtStore, Inside
<1>5. ~Done /\ Past = {} /\ Entered /\ (Counting \/ Wrapped)
  BY <1>2, <1>4 DEF Rounds, Ending
<1>6. Entered' /\ ~Done'
  BY <1>1, <1>2, <1>5 DEF Entered, Done, Seat
<1>7. Ending'
  BY <1>2, <1>5, <1>6 DEF Ending
<1>8. Cardinality(Stored) < count
  <2>1. Cardinality(Stored) < Cardinality(Inside)
    BY <1>2, Finite DEF Inside, AtStore
  <2>2. Cardinality(Inside) <= count
    <3>1. Seat \in 0 .. count - 1
      BY <1>4, Unsigned, Division DEF Seat
    <3> QED BY <1>4, <1>5, <3>1, Unsigned DEF Entered
  <2> QED BY <2>1, <2>2, Finite, Unsigned
<1>9. left' = IF reg[TID] = 0 THEN UINT_SIZE - 1 ELSE reg[TID] - 1
  BY <1>1, Wraps, UnsignedSize
<1>10. Counting' \/ Wrapped'
  <2> DEFINE s == Cardinality(Stored)
  <2>1. s \in Nat /\ s < count
    BY <1>8, Finite
  <2>2. \A t \in AtStore' : t \in AtStore /\ reg'[t] = reg[t] /\ reg[t] \in 0 .. UINT_SIZE - 1
    BY <1>1, <1>2 DEF AtStore
  <2>3. reg[TID] \in 0 .. UINT_SIZE - 1
    BY <1>1
  <2>0. count' = count /\ count \in Nat /\ UINT_SIZE \in Nat /\ count < UINT_SIZE
    BY <1>1, Unsigned
  <2>6. Cardinality(Stored') = s + 1
    BY <1>3
  <2>4. CASE Counting
    <3>1. reg[TID] >= count - s /\ \A t \in AtStore : reg[t] >= count - s
      BY <1>2, <2>4 DEF Counting
    <3> HIDE DEF s
    <3>2. left' >= count - (s + 1)
      BY <1>9, <2>0, <2>1, <2>3, <3>1
    <3>3. \A t \in AtStore' : reg'[t] >= count - (s + 1)
      BY <2>0, <2>1, <2>2, <3>1
    <3> QED BY <2>0, <2>6, <3>2, <3>3 DEF Counting
  <2>5. CASE Wrapped
    <3>1. /\ reg[TID] = 0 \/ reg[TID] >= UINT_SIZE - s
          /\ \A t \in AtStore : reg[t] = 0 \/ reg[t] >= UINT_SIZE - s
      BY <1>2, <2>5 DEF Wrapped
    <3> HIDE DEF s
    <3>2. left' >= UINT_SIZE - (s + 1)
      BY <1>9, <2>0, <2>1, <2>3, <3>1
    <3>3. \A t \in AtStore' : reg'[t] = 0 \/ reg'[t] >= UINT_SIZE - (s + 1)
      BY <2>0, <2>1, <2>2, <3>1
    <3> QED BY <2>0, <2>6, <3>2, <3>3 DEF Wrapped
  <2> QED BY <1>5, <2>4, <2>5
<1> QED BY <1>1, <1>4, <1>6, <1>7, <1>10 DEF Rounds

\* left = 0 is seen by a thread that stored it: then count threads did.
LEMMA PassStep ==
  ASSUME TypeOK, Rounds, At("bar_spin"), left = 0, Goto("bar_release"),
         UNCHANGED <<bcb, reg, history, last>>
  PROVE  Rounds'
<1>1. /\ TID \in Threads /\ pc[TID] = "bar_spin" /\ pc' = [pc EXCEPT ![TID] = "bar_release"]
      /\ pc \in [Threads -> Points]
      /\ UNCHANGED <<enters, returns, count, left, reg, last>>
  BY DEF At, Goto, TypeOK, history, bcb
<1>2. Inside' = Inside /\ TID \in Stored /\ AtStore' = AtStore /\ Stored' = Stored
  BY <1>1 DEF Inside, AtStore, Stored, Past
<1>3. count # 0
  BY <1>2 DEF Rounds, Stored
<1>4. Seat = 0 /\ AtStore = {}
  <2>1. CASE Done
    BY <1>3, <2>1 DEF Rounds, Ending
  <2>2. CASE ~Done /\ Wrapped
    <3>1. Cardinality(Stored) <= count
      <4>1. Seat \in 0 .. count - 1
        BY <1>3, Unsigned, Division DEF Seat
      <4> QED BY <1>3, <4>1, Finite, Unsigned DEF Rounds, Entered
    <3> QED BY <1>2, <2>2, <3>1, Finite, Unsigned DEF Wrapped
  <2>3. CASE ~Done /\ Counting
    <3>1. Cardinality(Stored) >= count
      BY <2>3, Finite, Unsigned DEF Counting
    <3>2. Seat \in 0 .. count - 1
      BY <1>3, Unsigned, Division DEF Seat
    <3>3. Seat = 0 /\ Cardinality(Inside) <= count
      BY <1>3, <3>1, <3>2, Finite, Unsigned DEF Rounds, Entered
    <3>4. Stored = Inside
      BY <3>1, <3>3, Finite, Unsigned
    <3> QED BY <3>3, <3>4 DEF Stored, Inside, AtStore
  <2> QED BY <1>3, <2>1, <2>2, <2>3 DEF Rounds
<1>5. Entered' = Entered /\ Done' = Done /\ Seat' = Seat
  BY <1>1, <1>2 DEF Entered, Done, Seat
<1>6. Counting' = Counting /\ Wrapped' = Wrapped
  BY <1>1, <1>2 DEF Counting, Wrapped
<1>7. Ending'
  BY <1>1, <1>2, <1>4, <1>5 DEF Ending
<1> QED BY <1>1, <1>3, <1>5, <1>6, <1>7 DEF Rounds

\* A thread leaves, and may reset left.
LEMMA ReturnStep == ASSUME TypeOK, Rounds, WaitReturn PROVE Rounds'
<1>1. /\ TID \in Threads /\ pc[TID] = "bar_return" /\ pc' = [pc EXCEPT ![TID] = "user"]
      /\ pc \in [Threads -> Points]
      /\ left' \in {left, count} /\ returns' = returns + 1
      /\ UNCHANGED <<enters, count, reg, last>>
  BY DEF WaitReturn, Reset, At, Goto, TypeOK
<1>2. Inside' = Inside \ {TID} /\ TID \in Inside /\ AtStore' = AtStore /\ TID \in Past
  BY <1>1 DEF Inside, AtStore, Past
<1>3. Cardinality(Inside') = Cardinality(Inside) - 1
  BY <1>2, Finite, FS_RemoveElement
<1>4. count # 0
  BY <1>2 DEF Rounds
<1>5. Seat = 0 /\ AtStore = {} /\ left \in {0, count} /\ Entered
  BY <1>2, <1>4 DEF Rounds, Ending
<1>6. Seat' = 0 /\ AtStore' = {} /\ left' \in {0, count}
  BY <1>1, <1>2, <1>5 DEF Seat
<1>7. Entered' /\ Done'
  BY <1>1, <1>3, <1>5, <1>6, Finite, Unsigned DEF Entered, Done
<1> QED BY <1>1, <1>4, <1>6, <1>7 DEF Rounds, Ending

\* Rounds is preserved by every step, if nobody enters before everyone has left.
LEMMA RoundsStep == ASSUME ~ReuseAtOnce, TypeOK, Rounds, [Next]_vars PROVE Rounds'
<1>0. TID \in Threads /\ pc \in [Threads -> Points]
  BY DEF TypeOK
<1> USE DEF bcb, history, At, Goto
<1>1. CASE UNCHANGED vars
  BY <1>1, SameRound DEF vars, Inside, AtStore, Past
<1>2. ASSUME NEW n \in Counts, pthread_barrier_init(n) PROVE Rounds'
  <2>1. CASE UNCHANGED <<bcb, history>> /\ last' = "EINVAL"
    BY <1>2, <2>1, SameRound DEF pthread_barrier_init, Inside, AtStore, Past
  <2>2. ASSUME n # 0, count' = n, left' = n, enters' = 0, returns' = 0 PROVE Rounds'
    <3>1. Inside' = {} /\ AtStore' = {}
      BY <1>2 DEF pthread_barrier_init, Idle, Inside, AtStore
    <3>2. Cardinality(Inside') = 0
      BY <3>1, FS_EmptySet
    <3>3. n \in Nat /\ n > 0 /\ Seat' = 0
      BY <2>2, ZeroModulo, BarrierAssumption DEF Seat
    <3>4. Entered' /\ Done' /\ Ending'
      BY <2>2, <3>1, <3>2, <3>3 DEF Entered, Done, Ending
    <3> QED BY <2>2, <3>3, <3>4 DEF Rounds
  <2> QED BY <1>2, <2>1, <2>2 DEF pthread_barrier_init
<1>3. CASE pthread_barrier_destroy
  BY <1>3, SameRound DEF pthread_barrier_destroy, Inside, AtStore, Past
<1>4. CASE WaitTest \/ WaitBlock \/ WaitSched \/ WaitRelease \/ WaitYield
  <2>1. PICK p, q : /\ p \notin {"user", "bar_store"} /\ q \notin {"user", "bar_store"}
                    /\ pc[TID] = p /\ pc' = [pc EXCEPT ![TID] = q]
                    /\ q \in {"bar_yield", "bar_return"} => p \in {"bar_release", "bar_yield"}
                    /\ q # "bar_release"
    BY <1>4 DEF WaitTest, WaitBlock, WaitSched, WaitRelease, WaitYield
  <2>2. Inside' = Inside /\ AtStore' = AtStore /\ Past' \subseteq Past
    BY <1>0, <2>1 DEF Inside, AtStore, Past
  <2>3. UNCHANGED <<count, left, reg, enters, returns, last>>
    BY <1>4 DEF WaitTest, WaitBlock, WaitSched, WaitRelease, WaitYield
  <2> QED BY <2>2, <2>3, SameRound
<1>5. CASE WaitSpin
  <2>1. CASE UNCHANGED <<pc, bcb, reg, history, last>>
    BY <2>1, SameRound DEF Inside, AtStore, Past
  <2>2. CASE left = 0 /\ Goto("bar_release")
    BY <1>5, <2>2, PassStep DEF WaitSpin
  <2> QED BY <1>5, <2>1, <2>2 DEF WaitSpin
<1>6. CASE Alarm
  BY <1>6, SameRound DEF Alarm, Inside, AtStore, Past
<1> QED
  BY <1>1, <1>2, <1>3, <1>4, <1>5, <1>6, LoadStep, StoreStep, ReturnStep
     DEF Next, pthread_barrier_wait

-----------------------------------------------------------------------------
\* The types hold in every behaviour.
LEMMA TypeInvariance == Spec => []IType
<1>1. Init => IType
  <2> SUFFICES ASSUME Init PROVE IType
    OBVIOUS
  <2> USE MaxThreadsAssumption, UnsignedSize
      DEF Init, Threads, TS_RUNNING, TS_READY, TS_BLOCKED, NoThread, Points
  <2>1. TypeOK
    <3>1. status \in [Threads -> {TS_RUNNING, TS_READY, TS_BLOCKED}] /\ TID \in Threads
      OBVIOUS
    <3>2. 0 \in 0 .. UINT_SIZE - 1 /\ pc \in [Threads -> Points]
      OBVIOUS
    <3>3. left \in 0 .. UINT_SIZE - 1 /\ reg \in [Threads -> 0 .. UINT_SIZE - 1]
      BY <3>2
    <3>4. hit \in BOOLEAN
      BY Zenon
    <3>5. proc \in {"run", "spin"} /\ last \in {"none", "init_done", "EINVAL", "destroyed", "not_destroyed"}
      OBVIOUS
    <3>6. init \in 0 .. 1 /\ flag \in 0 .. 1 /\ calling_thread \in Threads \cup {NoThread}
          /\ count \in Counts \cup {0} /\ enters \in Nat /\ returns \in Nat /\ serials \in Nat
      OBVIOUS
    <3> HIDE DEF Init, Threads, Points, NoThread, TS_RUNNING, TS_READY, TS_BLOCKED
    <3> QED BY <3>1, <3>2, <3>3, <3>4, <3>5, <3>6 DEF TypeOK
  <2>2. Placed /\ Alone
    BY DEF Placed, Alone
  <2>3. BlockedIsCalling
    BY DEF BlockedIsCalling
  <2> QED BY <2>1, <2>2, <2>3 DEF IType
<1> QED BY <1>1, TypeStep, PTL DEF Spec

\* Every variable keeps its type, left and the registers as unsigned numbers.
THEOREM TypesHold == Spec => []TypeOK
<1>1. IType => TypeOK
  BY DEF IType
<1> QED BY <1>1, TypeInvariance, PTL

\* At most one thread is BLOCKED in the barrier, the one that calling_thread
\* names while flag is up, until the timer fires in a window: whoever releases
\* the barrier wakes the right thread.
THEOREM TheBlockedThreadIsKnown == Spec => []BlockedIsCalling
<1>1. IType => BlockedIsCalling
  BY DEF IType
<1> QED BY <1>1, TypeInvariance, PTL

\* No call of pthread_barrier_wait returns before count calls have begun, for
\* any number of threads and rounds and wherever the timer fires, provided
\* that no thread calls again before all have left the last round.
THEOREM NobodyLeavesEarly == ~ReuseAtOnce => (Spec => []NoEarlyExit)
<1> SUFFICES ASSUME ~ReuseAtOnce PROVE Spec => []NoEarlyExit
  OBVIOUS
<1>1. Init => Rounds
  BY FS_EmptySet DEF Init, Rounds, Inside
<1>2. IType /\ Rounds /\ [Next]_vars => Rounds'
  BY RoundsStep DEF IType
<1>3. IType /\ Rounds => NoEarlyExit
  <2> SUFFICES ASSUME IType, Rounds, count # 0 PROVE returns <= count * (enters \div count)
    BY DEF NoEarlyExit
  <2>1. TypeOK
    BY DEF IType
  <2>2. enters \in Nat /\ returns \in Nat /\ count \in Nat /\ count > 0
    BY <2>1, Unsigned
  <2>3. Seat \in Nat /\ enters = count * (enters \div count) + Seat
    BY <2>2, Division DEF Seat
  <2>4. returns <= enters - Seat
    BY <2>2, <2>3, Finite DEF Rounds, Entered
  <2>5. PICK k : k = count * (enters \div count)
    OBVIOUS
  <2>6. k = enters - Seat
    BY <2>2, <2>3, <2>5, Division
  <2> QED BY <2>4, <2>5, <2>6
<1> QED BY <1>1, <1>2, <1>3, TypeInvariance, PTL DEF Spec
====
