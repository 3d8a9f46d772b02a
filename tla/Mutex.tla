-------------------------------- MODULE Mutex --------------------------------
(***************************************************************************)
(* The mutex of the synchronisation library, used by threads that have all *)
(* been created.  Each function first looks at the mutex with SIGALRM      *)
(* enabled and then acts on what it saw with SIGALRM masked (lock() to     *)
(* unlock() is one step), so the timer can come between the two.           *)
(***************************************************************************)
EXTENDS Scheduler, Sequences

VARIABLES
  pc,          \* where each thread is
  live,        \* the mutex is initialised (its control block is allocated)
  state,       \* MutexControlBlock.state
  wait_list,   \* the linked list wait_list .. wait_list_tail
  hit,         \* history: the Windows in which the timer has fired
  ignored      \* history: a caller took EBUSY of pthread_mutex_lock for success

mutexVars == <<live, state, wait_list>>
vars == <<status, TID, proc, pc, live, state, wait_list, hit, ignored>>

LOCKED == 0
UNLOCKED == 1

\* Between the unmasked test and the masked step that relies on it.
Windows == {"lock_take", "lock_block", "unlock_free", "unlock_hand"}

Points == Windows \cup {"user", "lock_sched", "lock_ebusy", "retry", "critical",
                        "unlock_sched"}

Init ==
  /\ status = [t \in Threads |-> IF t = 0 THEN TS_RUNNING ELSE TS_READY]
  /\ TID = 0
  /\ proc = "run"
  /\ pc = [t \in Threads |-> "user"]
  /\ live = TRUE
  /\ state = UNLOCKED
  /\ wait_list = <<>>
  /\ hit = {}
  /\ ignored = FALSE

At(p) == proc = "run" /\ pc[TID] = p

Goto(p) == pc' = [pc EXCEPT ![TID] = p]

-----------------------------------------------------------------------------
(* pthread_mutex_init and pthread_mutex_destroy.  Their behaviour is left  *)
(* undefined while a thread uses the mutex, so they are called when none   *)
(* does.                                                                   *)

Idle == \A t \in Threads : pc[t] = "user"

pthread_mutex_init ==
  /\ At("user") /\ Idle /\ ~live
  /\ live' = TRUE
  /\ state' = UNLOCKED
  /\ wait_list' = <<>>
  /\ UNCHANGED <<status, TID, proc, pc, hit, ignored>>

\* A LOCKED mutex is kept (-1 is returned).
pthread_mutex_destroy ==
  /\ At("user") /\ Idle /\ live
  /\ live' = (state = LOCKED)
  /\ UNCHANGED <<status, TID, proc, pc, state, wait_list, hit, ignored>>

-----------------------------------------------------------------------------
(* pthread_mutex_lock *)

\* Mutant: the state is not tested.
LockTestNone ==
  /\ At("user") \/ At("retry")
  /\ live
  /\ Goto("lock_take")
  /\ UNCHANGED <<status, TID, proc, mutexVars, hit, ignored>>

\* The unmasked test of state.
LockTest ==
  /\ At("user") \/ At("retry")
  /\ live
  /\ Goto(IF state = UNLOCKED THEN "lock_take" ELSE "lock_block")
  /\ UNCHANGED <<status, TID, proc, mutexVars, hit, ignored>>

LockTake ==
  /\ At("lock_take")
  /\ state' = LOCKED
  /\ Goto("critical")
  /\ UNCHANGED <<status, TID, proc, live, wait_list, hit, ignored>>

insert_tail(list, t) == Append(list, t)

\* Blocked, and inserted at the tail of the wait list.
LockBlock ==
  /\ At("lock_block")
  /\ status' = [status EXCEPT ![TID] = TS_BLOCKED]
  /\ wait_list' = insert_tail(wait_list, TID)
  /\ Goto("lock_sched")
  /\ UNCHANGED <<TID, proc, live, state, hit, ignored>>

LockSched ==
  /\ At("lock_sched")
  /\ schedule(status)
  /\ Goto("lock_ebusy")
  /\ UNCHANGED <<mutexVars, hit, ignored>>

\* The woken thread returns EBUSY.  Its caller calls again, or (like the
\* repository's own test) does not look at the result.
LockReturn ==
  /\ At("lock_ebusy")
  /\ \/ Goto("retry") /\ UNCHANGED ignored
     \/ Goto("critical") /\ ignored' = TRUE
  /\ UNCHANGED <<status, TID, proc, mutexVars, hit>>

-----------------------------------------------------------------------------
(* pthread_mutex_unlock, called by a thread that believes it holds the mutex *)

\* Mutants: the list is never looked at; or it is taken to be full.
UnlockTestFree ==
  /\ At("critical")
  /\ Goto("unlock_free")
  /\ UNCHANGED <<status, TID, proc, mutexVars, hit, ignored>>

UnlockTestHand ==
  /\ At("critical")
  /\ Goto("unlock_hand")
  /\ UNCHANGED <<status, TID, proc, mutexVars, hit, ignored>>

\* The unmasked test of is_empty(wait_list).
UnlockTest ==
  /\ At("critical")
  /\ Goto(IF wait_list = <<>> THEN "unlock_free" ELSE "unlock_hand")
  /\ UNCHANGED <<status, TID, proc, mutexVars, hit, ignored>>

\* Mutant: the mutex stays LOCKED.
UnlockFreeKeeps ==
  /\ At("unlock_free")
  /\ Goto("user")
  /\ UNCHANGED <<status, TID, proc, mutexVars, hit, ignored>>

UnlockFree ==
  /\ At("unlock_free")
  /\ state' = UNLOCKED
  /\ Goto("user")
  /\ UNCHANGED <<status, TID, proc, live, wait_list, hit, ignored>>

\* Mutant: get_head leaves the list as it was.
RestKept == wait_list

\* What get_head leaves of the list.
Rest == Tail(wait_list)

\* Mutant: the state is incremented.
HandoverCounts == state + 1

\* What is written to state when a thread is woken: 1, which is UNLOCKED.
Handover == UNLOCKED

\* get_head reads through a null pointer when the list has become empty.
UnlockHand ==
  /\ At("unlock_hand")
  /\ \/ /\ wait_list = <<>>
        /\ proc' = "segv"
        /\ UNCHANGED <<status, pc, state, wait_list>>
     \/ /\ wait_list # <<>>
        /\ state' = Handover
        /\ status' = [status EXCEPT ![Head(wait_list)] = TS_READY]
        /\ wait_list' = Rest
        /\ Goto("unlock_sched")
        /\ UNCHANGED proc
  /\ UNCHANGED <<TID, live, hit, ignored>>

UnlockSched ==
  /\ At("unlock_sched")
  /\ schedule(status)
  /\ Goto("user")
  /\ UNCHANGED <<mutexVars, hit, ignored>>

-----------------------------------------------------------------------------
Alarm ==
  /\ proc = "run"
  /\ schedule(status)
  /\ hit' = hit \cup ({pc[TID]} \cap Windows)
  /\ UNCHANGED <<pc, mutexVars, ignored>>

Lock == LockTest \/ LockTake \/ LockBlock \/ LockSched \/ LockReturn
Unlock == UnlockTest \/ UnlockFree \/ UnlockHand \/ UnlockSched

Next == pthread_mutex_init \/ pthread_mutex_destroy \/ Lock \/ Unlock \/ Alarm

Spec == Init /\ [][Next]_vars

\* The timer is periodic; and a thread that is in a call or in its critical
\* section, and gets turn after turn of up to 50 ms, goes on.
Busy(t) == TID = t /\ pc[t] # "user" /\ (Lock \/ Unlock)

FairSpec == Spec /\ WF_vars(Alarm) /\ \A t \in Threads : SF_vars(Busy(t))

-----------------------------------------------------------------------------
(* Properties *)

\* The threads that are between a successful lock and the end of their unlock.
Holders == {t \in Threads : pc[t] \in {"critical", "unlock_free", "unlock_hand"}}

Waiting == {wait_list[i] : i \in DOMAIN wait_list}

\* Every variable has its type.
TypeOK ==
  /\ status \in [Threads -> {TS_RUNNING, TS_READY, TS_BLOCKED}]
  /\ TID \in Threads
  /\ proc \in {"run", "spin", "segv"}
  /\ pc \in [Threads -> Points]
  /\ live \in BOOLEAN
  /\ state \in {LOCKED, UNLOCKED}
  /\ wait_list \in Seq(Threads)
  /\ hit \in SUBSET Windows
  /\ ignored \in BOOLEAN

\* A thread is BLOCKED exactly while it is in the wait list, where it stands
\* once: no thread sleeps unlisted and none is woken twice, wherever the timer
\* fires and whatever callers do with EBUSY.
WaitListBlocked ==
  /\ Waiting = {t \in Threads : status[t] = TS_BLOCKED}
  /\ \A i, j \in DOMAIN wait_list : wait_list[i] = wait_list[j] => i = j

\* A LOCKED mutex has a thread that will unlock it, so that
\* pthread_mutex_destroy succeeds on an idle one.
LockedHasHolder == state = LOCKED => Holders # {}

\* Two threads never hold the mutex together if callers retry on EBUSY and the
\* timer never fired between the test in pthread_mutex_lock and the write.
MutualExclusion ==
  (~ignored /\ "lock_take" \notin hit) =>
     \A t, u \in Holders : t = u

\* Someone will call unlock, or is about to take the mutex, whenever a thread
\* waits, unless the timer separated a test from the step that relies on it.
\* Callers that get EBUSY call again or go on as if they had the mutex: one that
\* gives up, and leaves an unlocked mutex with threads in the list, is not modelled.
NoLostWakeup ==
  (hit \cap {"lock_block", "unlock_free"} = {} /\ wait_list # <<>>) =>
     \E t \in Threads :
        t \in Holders \/ pc[t] = "lock_take"
        \/ (status[t] # TS_BLOCKED /\ pc[t] \in {"lock_sched", "lock_ebusy", "retry"})

\* pthread_mutex_unlock takes the head of an empty list only if the timer fired
\* between its test of the list and its use, whoever holds the mutex by then.
NoNullHead == proc = "segv" => "unlock_hand" \in hit

\* The library never spins with every thread blocked on the mutex, unless a
\* wakeup was lost.
NeverAllBlocked == proc = "spin" => hit \cap {"lock_block", "unlock_free"} # {}

\* A thread that blocks in pthread_mutex_lock is woken, unless the timer fired
\* in a window.  As in NoLostWakeup, no caller gives up on EBUSY.
BlockedWakes ==
  \A t \in Threads :
    (status[t] = TS_BLOCKED) ~> (status[t] # TS_BLOCKED \/ hit # {})

\* As the documentation has it ("the woken thread will finish acquiring the
\* lock"), and as the tests use it, mutual exclusion does not depend on what a
\* caller does with the result of pthread_mutex_lock.
WokenAcquires == hit = {} => \A t, u \in Holders : t = u
=============================================================================
