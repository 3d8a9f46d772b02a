----------------------------- MODULE MutexProofs -----------------------------
(***************************************************************************)
(* Proofs of the safety properties of Mutex, for any number of threads.    *)
(***************************************************************************)
EXTENDS Mutex, SchedulerProofs

\* A BLOCKED thread is inside schedule(), or about to call it; and only there
\* can a thread that is BLOCKED still have the processor.
BlockedIsInLock ==
  /\ \A t \in Threads : status[t] = TS_BLOCKED => pc[t] \in {"lock_sched", "lock_ebusy"}
  /\ proc = "run" => status[TID] \in CanRun \/ pc[TID] = "lock_sched"

\* What the threads in the windows have seen is still so, and they have the
\* processor, as long as the timer spares the window.
SeenUnlocked ==
  "lock_take" \notin hit =>
    \A t \in Threads : pc[t] = "lock_take" => t = TID /\ state = UNLOCKED

SeenLocked ==
  "lock_block" \notin hit =>
    \A t \in Threads : pc[t] = "lock_block" => t = TID /\ state = LOCKED

SeenEmpty ==
  "unlock_free" \notin hit =>
    \A t \in Threads : pc[t] = "unlock_free" => t = TID /\ wait_list = <<>>

SeenWaiter ==
  "unlock_hand" \notin hit =>
    \A t \in Threads : pc[t] = "unlock_hand" => t = TID /\ wait_list # <<>>

Seen == SeenUnlocked /\ SeenLocked /\ SeenEmpty /\ SeenWaiter

\* Under the conditions of MutualExclusion a holder keeps the mutex LOCKED.
HolderLocks == (~ignored /\ "lock_take" \notin hit /\ Holders # {}) => state = LOCKED

IInv ==
  /\ TypeOK
  /\ \A t \in Threads : status[t] = TS_RUNNING => t = TID
  /\ BlockedIsInLock
  /\ WaitListBlocked
  /\ Seen
  /\ LockedHasHolder
  /\ HolderLocks
  /\ MutualExclusion
  /\ NoLostWakeup
  /\ NoNullHead
  /\ NeverAllBlocked

-----------------------------------------------------------------------------
(* The wait list as a sequence *)

\* insert_tail adds the thread to those that wait, once if it was not there.
LEMMA InsertTail ==
  ASSUME wait_list \in Seq(Threads), NEW t \in Threads, t \notin Waiting,
         wait_list' = Append(wait_list, t),
         \A i, j \in DOMAIN wait_list : wait_list[i] = wait_list[j] => i = j
  PROVE  /\ wait_list' \in Seq(Threads)
         /\ wait_list' # <<>>
         /\ Waiting' = Waiting \cup {t}
         /\ (\A i, j \in DOMAIN wait_list : wait_list[i] = wait_list[j] => i = j)'
<1>1. /\ wait_list' \in Seq(Threads)
      /\ Len(wait_list') = Len(wait_list) + 1
      /\ \A i \in 1 .. Len(wait_list) : wait_list'[i] = wait_list[i]
      /\ wait_list'[Len(wait_list) + 1] = t
  OBVIOUS
<1>2. Len(wait_list) \in Nat /\ DOMAIN wait_list = 1 .. Len(wait_list)
      /\ DOMAIN wait_list' = 1 .. Len(wait_list) + 1
  BY <1>1
<1>3. Waiting' = Waiting \cup {t}
  BY <1>1, <1>2 DEF Waiting
<1>4. (\A i, j \in DOMAIN wait_list : wait_list[i] = wait_list[j] => i = j)'
  BY <1>1, <1>2 DEF Waiting
<1> QED  BY <1>1, <1>3, <1>4

\* get_head removes the thread at the head, and only that one.
LEMMA GetHead ==
  ASSUME wait_list \in Seq(Threads), wait_list # <<>>,
         wait_list' = Tail(wait_list),
         \A i, j \in DOMAIN wait_list : wait_list[i] = wait_list[j] => i = j
  PROVE  /\ wait_list' \in Seq(Threads)
         /\ Head(wait_list) \in Waiting
         /\ Waiting' = Waiting \ {Head(wait_list)}
         /\ (\A i, j \in DOMAIN wait_list : wait_list[i] = wait_list[j] => i = j)'
<1>1. /\ wait_list' \in Seq(Threads)
      /\ Len(wait_list) \in Nat \ {0}
      /\ Len(wait_list') = Len(wait_list) - 1
      /\ \A i \in 1 .. Len(wait_list) - 1 : wait_list'[i] = wait_list[i + 1]
      /\ Head(wait_list) = wait_list[1]
  OBVIOUS
<1>2. DOMAIN wait_list = 1 .. Len(wait_list) /\ DOMAIN wait_list' = 1 .. Len(wait_list) - 1
  BY <1>1
<1>3. Waiting' = Waiting \ {Head(wait_list)}
  <2>1. \A x \in Waiting' : x \in Waiting /\ x # wait_list[1]
    BY <1>1, <1>2 DEF Waiting
  <2>2. ASSUME NEW i \in DOMAIN wait_list, wait_list[i] # wait_list[1]
        PROVE  wait_list[i] \in Waiting'
    <3>1. i - 1 \in DOMAIN wait_list' /\ wait_list'[i - 1] = wait_list[i]
      BY <1>1, <1>2, <2>2
    <3> QED  BY <3>1 DEF Waiting
  <2> QED  BY <1>1, <2>1, <2>2 DEF Waiting
<1>4. Head(wait_list) \in Waiting
  BY <1>1, <1>2 DEF Waiting
<1>5. (\A i, j \in DOMAIN wait_list : wait_list[i] = wait_list[j] => i = j)'
  BY <1>1, <1>2
<1> QED  BY <1>1, <1>3, <1>4, <1>5

-----------------------------------------------------------------------------
(* The invariant *)

\* The invariant holds at the start.
LEMMA InitIInv == Init => IInv
<1> SUFFICES ASSUME Init PROVE IInv
  OBVIOUS
<1> USE DEF Init, TS_RUNNING, TS_READY, TS_BLOCKED, LOCKED, UNLOCKED, Holders
<1>0. 0 \in Threads
  BY MaxThreadsAssumption DEF Threads
<1>1. TypeOK
  BY <1>0 DEF TypeOK, Points, Windows
<1>2. BlockedIsInLock /\ WaitListBlocked
  BY <1>0 DEF BlockedIsInLock, CanRun, WaitListBlocked, Waiting
<1>3. Seen /\ LockedHasHolder /\ HolderLocks /\ MutualExclusion
  BY DEF Seen, SeenUnlocked, SeenLocked, SeenEmpty, SeenWaiter, LockedHasHolder,
         HolderLocks, MutualExclusion
<1>4. NoLostWakeup /\ NoNullHead /\ NeverAllBlocked
  BY DEF NoLostWakeup, NoNullHead, NeverAllBlocked
<1> QED  BY <1>1, <1>2, <1>3, <1>4 DEF IInv

\* If the wakeups are in order, some thread can run: schedule() finds it.
LEMMA SomeoneCanRun ==
  ASSUME IInv, hit \cap {"lock_block", "unlock_free"} = {}
  PROVE  \E t \in Threads : status[t] \in CanRun
<1> USE DEF IInv, TypeOK, CanRun, TS_RUNNING, TS_READY, TS_BLOCKED
<1>1. SUFFICES ASSUME \A t \in Threads : status[t] = TS_BLOCKED PROVE FALSE
  OBVIOUS
<1>2. wait_list # <<>>
  BY <1>1 DEF WaitListBlocked, Waiting
<1> QED  BY <1>1, <1>2 DEF NoLostWakeup, Holders, BlockedIsInLock

\* A run of schedule(), whoever calls it, for a thread that is in no window.
LEMMA ScheduleKeeps ==
  ASSUME IInv, schedule(status)
  PROVE  /\ status' \in [Threads -> {TS_RUNNING, TS_READY, TS_BLOCKED}]
         /\ TID' \in Threads
         /\ \A t \in Threads : status'[t] = TS_RUNNING => t = TID'
         /\ \A t \in Threads : status'[t] = TS_BLOCKED <=> status[t] = TS_BLOCKED
         /\ proc' = "run" => status'[TID'] \in CanRun
         /\ proc' \in {proc, "spin"}
         /\ (proc' = "spin" /\ proc # "spin") => hit \cap {"lock_block", "unlock_free"} # {}
<1> USE DEF IInv, TypeOK
<1>1. CanRun \subseteq {TS_RUNNING, TS_READY, TS_BLOCKED}
  BY DEF CanRun
<1>2. /\ status' \in [Threads -> {TS_RUNNING, TS_READY, TS_BLOCKED}]
      /\ TID' \in Threads
      /\ \A t \in Threads : status'[t] = TS_RUNNING => t = TID'
      /\ \A t \in Threads : status[t] \in CanRun => status'[t] \in CanRun
      /\ \A t \in Threads : status[t] \notin CanRun => status'[t] = status[t]
      /\ \/ status'[TID'] = TS_RUNNING /\ status[TID'] \in CanRun /\ proc' = proc
         \/ proc' = "spin" /\ TID' = TID /\ \A t \in Threads : status[t] \notin CanRun
  BY <1>1, ScheduleEffect
<1>3. (\A t \in Threads : status[t] \notin CanRun) => hit \cap {"lock_block", "unlock_free"} # {}
  BY SomeoneCanRun
<1> QED  BY <1>2, <1>3 DEF CanRun, TS_RUNNING, TS_READY, TS_BLOCKED

\* Every step preserves the invariant.
LEMMA StepIInv == IInv /\ [Next]_vars => IInv'
<1> SUFFICES ASSUME IInv, [Next]_vars PROVE IInv'
  OBVIOUS
<1> USE DEF IInv, TypeOK, At, Goto, Points, Windows, Holders, mutexVars, LOCKED, UNLOCKED
<1>1. CASE pthread_mutex_init
  BY <1>1 DEF pthread_mutex_init, Idle, BlockedIsInLock, WaitListBlocked, Waiting, Seen,
     SeenUnlocked, SeenLocked, SeenEmpty, SeenWaiter, LockedHasHolder, HolderLocks,
     MutualExclusion, NoLostWakeup, NoNullHead, NeverAllBlocked
<1>2. CASE pthread_mutex_destroy
  BY <1>2 DEF pthread_mutex_destroy, BlockedIsInLock, WaitListBlocked, Waiting, Seen,
     SeenUnlocked, SeenLocked, SeenEmpty, SeenWaiter, LockedHasHolder, HolderLocks,
     MutualExclusion, NoLostWakeup, NoNullHead, NeverAllBlocked
<1>3. CASE LockTest
  <2> USE <1>3 DEF LockTest
  <2>1. TypeOK' /\ (\A t \in Threads : status[t] = TS_RUNNING => t = TID)'
    OBVIOUS
  <2>2. BlockedIsInLock' /\ WaitListBlocked'
    BY DEF BlockedIsInLock, WaitListBlocked, Waiting, CanRun, TS_RUNNING, TS_READY, TS_BLOCKED
  <2>3. Seen'
    BY DEF Seen, SeenUnlocked, SeenLocked, SeenEmpty, SeenWaiter
  <2>4. LockedHasHolder' /\ HolderLocks' /\ MutualExclusion'
    BY DEF LockedHasHolder, HolderLocks, MutualExclusion
  <2>5. NoLostWakeup' /\ NoNullHead' /\ NeverAllBlocked'
    BY DEF NoLostWakeup, LockedHasHolder, NoNullHead, NeverAllBlocked
  <2> QED  BY <2>1, <2>2, <2>3, <2>4, <2>5
<1>4. CASE LockTake
  <2> USE <1>4 DEF LockTake
  <2>1. TypeOK' /\ (\A t \in Threads : status[t] = TS_RUNNING => t = TID)'
    OBVIOUS
  <2>2. BlockedIsInLock' /\ WaitListBlocked'
    BY DEF BlockedIsInLock, WaitListBlocked, Waiting, CanRun, TS_RUNNING, TS_READY, TS_BLOCKED
  <2>3. Seen'
    BY DEF Seen, SeenUnlocked, SeenLocked, SeenEmpty, SeenWaiter
  <2>4. LockedHasHolder' /\ HolderLocks' /\ MutualExclusion'
    BY DEF LockedHasHolder, HolderLocks, MutualExclusion, Seen, SeenUnlocked
  <2>5. NoLostWakeup' /\ NoNullHead' /\ NeverAllBlocked'
    BY DEF NoLostWakeup, NoNullHead, NeverAllBlocked
  <2> QED  BY <2>1, <2>2, <2>3, <2>4, <2>5
<1>5. CASE LockBlock
  <2> USE <1>5 DEF LockBlock
  <2>0. TID \notin Waiting
    BY DEF BlockedIsInLock, WaitListBlocked, CanRun, TS_RUNNING, TS_READY, TS_BLOCKED
  <2>1. /\ wait_list' \in Seq(Threads)
        /\ wait_list' # <<>>
        /\ Waiting' = Waiting \cup {TID}
        /\ (\A i, j \in DOMAIN wait_list : wait_list[i] = wait_list[j] => i = j)'
    BY <2>0, InsertTail DEF WaitListBlocked, insert_tail
  <2>2. TypeOK' /\ (\A t \in Threads : status[t] = TS_RUNNING => t = TID)'
    BY <2>1 DEF TS_RUNNING, TS_BLOCKED
  <2>3. BlockedIsInLock' /\ WaitListBlocked'
    BY <2>1 DEF BlockedIsInLock, WaitListBlocked
  <2>4. Seen'
    BY <2>1 DEF Seen, SeenUnlocked, SeenLocked, SeenEmpty, SeenWaiter
  <2>5. LockedHasHolder' /\ HolderLocks' /\ MutualExclusion'
    BY DEF LockedHasHolder, HolderLocks, MutualExclusion
  <2>6. NoLostWakeup' /\ NoNullHead' /\ NeverAllBlocked'
    BY DEF NoLostWakeup, LockedHasHolder, Seen, SeenLocked, NoNullHead, NeverAllBlocked
  <2> QED  BY <2>2, <2>3, <2>4, <2>5, <2>6
<1>6. CASE LockSched
  <2> USE <1>6 DEF LockSched
  <2>1. schedule(status)
    OBVIOUS
  <2>2. TypeOK' /\ (\A t \in Threads : status[t] = TS_RUNNING => t = TID)'
    BY <2>1, ScheduleKeeps
  <2>3. BlockedIsInLock' /\ WaitListBlocked'
    BY <2>1, ScheduleKeeps DEF BlockedIsInLock, WaitListBlocked, Waiting
  <2>4. Seen'
    BY DEF Seen, SeenUnlocked, SeenLocked, SeenEmpty, SeenWaiter
  <2>5. LockedHasHolder' /\ HolderLocks' /\ MutualExclusion'
    BY DEF LockedHasHolder, HolderLocks, MutualExclusion
  <2>6. NoLostWakeup' /\ NoNullHead' /\ NeverAllBlocked'
    BY <2>1, ScheduleKeeps DEF NoLostWakeup, NoNullHead, NeverAllBlocked
  <2> QED  BY <2>2, <2>3, <2>4, <2>5, <2>6
<1>7. CASE LockReturn
  <2> USE <1>7 DEF LockReturn
  <2>1. TypeOK' /\ (\A t \in Threads : status[t] = TS_RUNNING => t = TID)'
    OBVIOUS
  <2>2. BlockedIsInLock' /\ WaitListBlocked'
    BY DEF BlockedIsInLock, WaitListBlocked, Waiting, CanRun, TS_RUNNING, TS_READY, TS_BLOCKED
  <2>3. Seen'
    BY DEF Seen, SeenUnlocked, SeenLocked, SeenEmpty, SeenWaiter
  <2>4. LockedHasHolder' /\ HolderLocks' /\ MutualExclusion'
    BY DEF LockedHasHolder, HolderLocks, MutualExclusion
  <2>5. NoLostWakeup' /\ NoNullHead' /\ NeverAllBlocked'
    BY DEF NoLostWakeup, NoNullHead, NeverAllBlocked
  <2> QED  BY <2>1, <2>2, <2>3, <2>4, <2>5
<1>8. CASE UnlockTest
  <2> USE <1>8 DEF UnlockTest
  <2>1. TypeOK' /\ (\A t \in Threads : status[t] = TS_RUNNING => t = TID)'
    OBVIOUS
  <2>2. BlockedIsInLock' /\ WaitListBlocked'
    BY DEF BlockedIsInLock, WaitListBlocked, Waiting, CanRun, TS_RUNNING, TS_READY, TS_BLOCKED
  <2>3. Seen'
    BY DEF Seen, SeenUnlocked, SeenLocked, SeenEmpty, SeenWaiter
  <2>4. LockedHasHolder' /\ HolderLocks' /\ MutualExclusion'
    BY DEF LockedHasHolder, HolderLocks, MutualExclusion
  <2>5. NoLostWakeup' /\ NoNullHead' /\ NeverAllBlocked'
    BY DEF NoLostWakeup, NoNullHead, NeverAllBlocked
  <2> QED  BY <2>1, <2>2, <2>3, <2>4, <2>5
<1>9. CASE UnlockFree
  <2> USE <1>9 DEF UnlockFree
  <2>1. TypeOK' /\ (\A t \in Threads : status[t] = TS_RUNNING => t = TID)'
    OBVIOUS
  <2>2. BlockedIsInLock' /\ WaitListBlocked'
    BY DEF BlockedIsInLock, WaitListBlocked, Waiting, CanRun, TS_RUNNING, TS_READY, TS_BLOCKED
  <2>3. Seen'
    BY DEF Seen, SeenUnlocked, SeenLocked, SeenEmpty, SeenWaiter
  <2>4. LockedHasHolder' /\ HolderLocks' /\ MutualExclusion'
    BY DEF LockedHasHolder, HolderLocks, MutualExclusion
  <2>5. NoLostWakeup' /\ NoNullHead' /\ NeverAllBlocked'
    BY DEF NoLostWakeup, Seen, SeenEmpty, NoNullHead, NeverAllBlocked
  <2> QED  BY <2>1, <2>2, <2>3, <2>4, <2>5
<1>10. CASE UnlockHand /\ wait_list = <<>>
  BY <1>10 DEF UnlockHand, BlockedIsInLock, WaitListBlocked, Waiting, Seen, SeenUnlocked,
     SeenLocked, SeenEmpty, SeenWaiter, LockedHasHolder, HolderLocks, MutualExclusion,
     NoLostWakeup, NoNullHead, NeverAllBlocked
<1>11. CASE UnlockHand /\ wait_list # <<>>
  <2> USE <1>11 DEF UnlockHand, Handover
  <2>1. /\ wait_list' \in Seq(Threads)
        /\ Head(wait_list) \in Waiting
        /\ Waiting' = Waiting \ {Head(wait_list)}
        /\ (\A i, j \in DOMAIN wait_list : wait_list[i] = wait_list[j] => i = j)'
    BY GetHead DEF WaitListBlocked, Rest
  <2>2. /\ Head(wait_list) \in Threads
        /\ status[Head(wait_list)] = TS_BLOCKED
        /\ status' = [status EXCEPT ![Head(wait_list)] = TS_READY]
    BY <2>1 DEF WaitListBlocked
  <2>3. TypeOK' /\ (\A t \in Threads : status[t] = TS_RUNNING => t = TID)'
    BY <2>1, <2>2 DEF TS_RUNNING, TS_READY
  <2>4. BlockedIsInLock' /\ WaitListBlocked'
    BY <2>1, <2>2 DEF BlockedIsInLock, WaitListBlocked, CanRun, TS_RUNNING, TS_READY, TS_BLOCKED
  <2>5. Seen'
    BY DEF Seen, SeenUnlocked, SeenLocked, SeenEmpty, SeenWaiter
  <2>6. LockedHasHolder' /\ HolderLocks' /\ MutualExclusion'
    BY DEF LockedHasHolder, HolderLocks, MutualExclusion
  <2>7. NoLostWakeup' /\ NoNullHead' /\ NeverAllBlocked'
    BY <2>2 DEF NoLostWakeup, BlockedIsInLock, NoNullHead, NeverAllBlocked,
       TS_READY, TS_BLOCKED
  <2> QED  BY <2>3, <2>4, <2>5, <2>6, <2>7
<1>12. CASE UnlockSched
  <2> USE <1>12 DEF UnlockSched
  <2>1. schedule(status)
    OBVIOUS
  <2>2. TypeOK' /\ (\A t \in Threads : status[t] = TS_RUNNING => t = TID)'
    BY <2>1, ScheduleKeeps
  <2>3. BlockedIsInLock' /\ WaitListBlocked'
    BY <2>1, ScheduleKeeps DEF BlockedIsInLock, WaitListBlocked, Waiting
  <2>4. Seen'
    BY DEF Seen, SeenUnlocked, SeenLocked, SeenEmpty, SeenWaiter
  <2>5. LockedHasHolder' /\ HolderLocks' /\ MutualExclusion'
    BY DEF LockedHasHolder, HolderLocks, MutualExclusion
  <2>6. NoLostWakeup' /\ NoNullHead' /\ NeverAllBlocked'
    BY <2>1, ScheduleKeeps DEF NoLostWakeup, NoNullHead, NeverAllBlocked
  <2> QED  BY <2>2, <2>3, <2>4, <2>5, <2>6
<1>13. CASE Alarm
  <2> USE <1>13 DEF Alarm
  <2>1. schedule(status)
    OBVIOUS
  <2>2. TypeOK' /\ (\A t \in Threads : status[t] = TS_RUNNING => t = TID)'
    BY <2>1, ScheduleKeeps
  <2>3. BlockedIsInLock' /\ WaitListBlocked'
    BY <2>1, ScheduleKeeps DEF BlockedIsInLock, WaitListBlocked, Waiting
  <2>4. Seen'
    BY DEF Seen, SeenUnlocked, SeenLocked, SeenEmpty, SeenWaiter
  <2>5. LockedHasHolder' /\ HolderLocks' /\ MutualExclusion'
    BY DEF LockedHasHolder, HolderLocks, MutualExclusion
  <2>6. NoLostWakeup' /\ NoNullHead' /\ NeverAllBlocked'
    BY <2>1, ScheduleKeeps DEF NoLostWakeup, NoNullHead, NeverAllBlocked
  <2> QED  BY <2>2, <2>3, <2>4, <2>5, <2>6
<1>14. CASE UNCHANGED vars
  BY <1>14 DEF vars, BlockedIsInLock, WaitListBlocked, Waiting, Seen, SeenUnlocked,
     SeenLocked, SeenEmpty, SeenWaiter, LockedHasHolder, HolderLocks, MutualExclusion,
     NoLostWakeup, NoNullHead, NeverAllBlocked
<1> QED
  BY <1>1, <1>2, <1>3, <1>4, <1>5, <1>6, <1>7, <1>8, <1>9, <1>10, <1>11, <1>12, <1>13,
     <1>14 DEF Next, Lock, Unlock

\* The invariant holds in every behaviour.
LEMMA Inductive == Spec => []IInv
BY InitIInv, StepIInv, PTL DEF Spec

-----------------------------------------------------------------------------
\* The variables of Mutex always have their types.
THEOREM TypeCorrect == Spec => []TypeOK
BY Inductive, PTL DEF IInv

\* A thread is BLOCKED exactly while it stands in the wait list, once, wherever
\* the timer fires.
THEOREM SleepersAreListed == Spec => []WaitListBlocked
BY Inductive, PTL DEF IInv

\* A LOCKED mutex has a thread that will unlock it.
THEOREM LockedIsHeld == Spec => []LockedHasHolder
BY Inductive, PTL DEF IInv

\* Two threads never hold the mutex together, if callers retry on EBUSY and the
\* timer never fired between pthread_mutex_lock's test and its write.
THEOREM MutualExclusionHolds == Spec => []MutualExclusion
BY Inductive, PTL DEF IInv

\* Whenever a thread waits there is one that will unlock or is about to take the
\* mutex, unless the timer has come between a test and the step that relies on it.
THEOREM WakeupsAreKept == Spec => []NoLostWakeup
BY Inductive, PTL DEF IInv

\* get_head never follows a null pointer, unless the timer has come between the
\* test for an empty list and the use of the list.
THEOREM HeadExists == Spec => []NoNullHead
BY Inductive, PTL DEF IInv

\* schedule() always finds a thread to run, unless a wakeup was lost.
THEOREM SomeThreadRuns == Spec => []NeverAllBlocked
BY Inductive, PTL DEF IInv
=============================================================================
