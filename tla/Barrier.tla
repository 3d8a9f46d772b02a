------------------------------- MODULE Barrier -------------------------------
(***************************************************************************)
(* The barrier of the synchronisation library, used by threads that have   *)
(* all been created.  The first thread to find flag down blocks; the       *)
(* others yield in a loop until left is 0; one of these wakes the blocked  *)
(* thread, which sets left back to count and returns                       *)
(* PTHREAD_BARRIER_SERIAL_THREAD.                                          *)
(***************************************************************************)
EXTENDS Scheduler

CONSTANTS
  Counts,        \* values passed to pthread_barrier_init as count
  UINT_SIZE,     \* number of values of an unsigned (2^32 in the code)
  MaxEnters,     \* bound: calls of pthread_barrier_wait per initialised barrier
  ReuseAtOnce    \* may a call begin while threads of a full round are inside?

ASSUME BarrierAssumption ==
  /\ Counts \subseteq Nat
  /\ UINT_SIZE \in Nat \ {0} /\ \A n \in Counts : n < UINT_SIZE
  /\ MaxEnters \in Nat
  /\ ReuseAtOnce \in BOOLEAN

VARIABLES
  pc,               \* where each thread is
  init,             \* BarrierControlBlock.init; 0 when there is no barrier
  flag, calling_thread, count, left,   \* the other fields
  reg,              \* the register in which each thread decrements left
  enters, returns, serials,   \* history: calls begun, calls ended, SERIAL results
  last,             \* result of the last pthread_barrier_init or _destroy
  hit               \* history: the timer has fired InWindow

bcb == <<init, flag, calling_thread, count, left>>
history == <<enters, returns, serials>>
vars == <<status, TID, proc, pc, bcb, reg, history, last, hit>>

Points == {"user", "bar_store", "bar_flag", "bar_block", "bar_sched", "bar_spin",
           "bar_release", "bar_yield", "bar_return"}

NoThread == -1

Init ==
  /\ status = [t \in Threads |-> IF t = 0 THEN TS_RUNNING ELSE TS_READY]
  /\ TID = 0
  /\ proc = "run"
  /\ pc = [t \in Threads |-> "user"]
  /\ init = 0 /\ flag = 0 /\ calling_thread = NoThread /\ count = 0 /\ left = 0
  /\ reg = [t \in Threads |-> 0]
  /\ enters = 0 /\ returns = 0 /\ serials = 0
  /\ last = "none"
  /\ hit = FALSE

At(p) == proc = "run" /\ pc[TID] = p

Goto(p) == pc' = [pc EXCEPT ![TID] = p]

Idle == \A t \in Threads : pc[t] = "user"

-----------------------------------------------------------------------------
\* Behaviour is undefined while a thread is in the barrier, and when a barrier
\* that was not destroyed is initialised again.
pthread_barrier_init(n) ==
  /\ At("user") /\ Idle
  /\ init = 0 \/ last = "not_destroyed"
  /\ \/ n = 0 /\ last' = "EINVAL" /\ UNCHANGED <<bcb, history>>
     \/ /\ n # 0
        /\ init' = 1 /\ flag' = 0 /\ calling_thread' = NoThread
        /\ count' = n /\ left' = n
        /\ enters' = 0 /\ returns' = 0 /\ serials' = 0
        /\ last' = "init_done"
  /\ UNCHANGED <<status, TID, proc, pc, reg, hit>>

\* The block is released only if init is not 1; pthread_barrier_init wrote 1,
\* so the other fields are never cleared.
pthread_barrier_destroy ==
  /\ At("user") /\ Idle
  /\ last = "init_done"
  /\ init' = IF init = 1 THEN init ELSE 0
  /\ last' = IF init = 1 THEN "not_destroyed" ELSE "destroyed"
  /\ UNCHANGED <<status, TID, proc, pc, flag, calling_thread, count, left, reg,
                 history, hit>>

-----------------------------------------------------------------------------
(* pthread_barrier_wait *)

\* left-- is a load ...
WaitLoad ==
  /\ At("user")
  /\ last = "init_done"
  /\ enters < MaxEnters
  /\ ReuseAtOnce \/ enters % count # 0 \/ returns = enters
  /\ reg' = [reg EXCEPT ![TID] = left]
  /\ enters' = enters + 1
  /\ Goto("bar_store")
  /\ UNCHANGED <<status, TID, proc, bcb, returns, serials, last, hit>>

\* ... and a store, of an unsigned.
WaitStore ==
  /\ At("bar_store")
  /\ left' = (reg[TID] - 1) % UINT_SIZE
  /\ reg' = [reg EXCEPT ![TID] = 0]   \* dead from here on
  /\ Goto("bar_flag")
  /\ UNCHANGED <<status, TID, proc, init, flag, calling_thread, count,
                 history, last, hit>>

WaitTest ==
  /\ At("bar_flag")
  /\ Goto(IF flag # 1 THEN "bar_block" ELSE "bar_spin")
  /\ UNCHANGED <<status, TID, proc, bcb, reg, history, last, hit>>

\* Mutant: flag counts the threads that block.
RaisedCounts == flag + 1

Raised == 1

\* The first thread blocks itself (SIGALRM masked).
WaitBlock ==
  /\ At("bar_block")
  /\ status' = [status EXCEPT ![TID] = TS_BLOCKED]
  /\ calling_thread' = TID
  /\ flag' = Raised
  /\ Goto("bar_sched")
  /\ UNCHANGED <<TID, proc, init, count, left, reg, history, last, hit>>

WaitSched ==
  /\ At("bar_sched")
  /\ schedule(status)
  /\ Goto("bar_spin")
  /\ UNCHANGED <<bcb, reg, history, last, hit>>

\* Mutant: if (left != 0) schedule();
WaitSpinOnce ==
  /\ At("bar_spin")
  /\ \/ left # 0 /\ schedule(status)
     \/ left = 0 /\ UNCHANGED <<status, TID, proc>>
  /\ Goto("bar_release")
  /\ UNCHANGED <<bcb, reg, history, last, hit>>

\* while (left != 0) schedule();
WaitSpin ==
  /\ At("bar_spin")
  /\ \/ left # 0 /\ schedule(status) /\ UNCHANGED pc
     \/ left = 0 /\ Goto("bar_release") /\ UNCHANGED <<status, TID, proc>>
  /\ UNCHANGED <<bcb, reg, history, last, hit>>

\* Mutants: nobody is woken; or flag stays up.
WaitReleaseNone ==
  /\ At("bar_release")
  /\ Goto("bar_yield")
  /\ UNCHANGED <<status, TID, proc, bcb, reg, history, last, hit>>

WaitReleaseFlagUp ==
  /\ At("bar_release")
  /\ flag = 1 /\ status' = [status EXCEPT ![calling_thread] = TS_READY]
  /\ Goto("bar_yield")
  /\ UNCHANGED <<TID, proc, bcb, reg, history, last, hit>>

\* Whoever finds flag up takes it down and wakes the blocked thread (masked).
WaitRelease ==
  /\ At("bar_release")
  /\ \/ flag = 1 /\ flag' = 0
        /\ status' = [status EXCEPT ![calling_thread] = TS_READY]
     \/ flag # 1 /\ UNCHANGED <<flag, status>>
  /\ Goto("bar_yield")
  /\ UNCHANGED <<TID, proc, init, calling_thread, count, left, reg, history,
                 last, hit>>

WaitYield ==
  /\ At("bar_yield")
  /\ schedule(status)
  /\ Goto("bar_return")
  /\ UNCHANGED <<bcb, reg, history, last, hit>>

\* Mutant: left is not reset.
ResetNone == left

Reset == count

\* The thread named in calling_thread resets the barrier and returns SERIAL.
WaitReturn ==
  /\ At("bar_return")
  /\ \/ calling_thread = TID /\ left' = Reset /\ serials' = serials + 1
     \/ calling_thread # TID /\ UNCHANGED <<left, serials>>
  /\ returns' = returns + 1
  /\ Goto("user")
  /\ UNCHANGED <<status, TID, proc, init, flag, calling_thread, count, reg, enters,
                 last, hit>>

pthread_barrier_wait ==
  WaitLoad \/ WaitStore \/ WaitTest \/ WaitBlock \/ WaitSched \/ WaitSpin
  \/ WaitRelease \/ WaitYield \/ WaitReturn
-----------------------------------------------------------------------------
\* Where a switch can do harm: within left--, between it and the masked step
\* that raises flag, and just before the loop condition is seen to be false.
InWindow ==
  \/ pc[TID] \in {"bar_store", "bar_flag", "bar_block"}
  \/ pc[TID] = "bar_spin" /\ left = 0

Alarm ==
  /\ proc = "run"
  /\ schedule(status)
  /\ hit' = (hit \/ InWindow)
  /\ UNCHANGED <<pc, bcb, reg, history, last>>

Next ==
  \/ \E n \in Counts : pthread_barrier_init(n)
  \/ pthread_barrier_destroy
  \/ pthread_barrier_wait
  \/ Alarm

Spec == Init /\ [][Next]_vars

Busy(t) == TID = t /\ pc[t] # "user" /\ pthread_barrier_wait

FairSpec == Spec /\ WF_vars(Alarm) /\ \A t \in Threads : SF_vars(Busy(t))

-----------------------------------------------------------------------------
(* Properties *)

\* Every variable has its type.
TypeOK ==
  /\ status \in [Threads -> {TS_RUNNING, TS_READY, TS_BLOCKED}]
  /\ TID \in Threads
  /\ proc \in {"run", "spin"}
  /\ pc \in [Threads -> Points]
  /\ init \in 0 .. 1 /\ flag \in 0 .. 1 /\ calling_thread \in Threads \cup {NoThread}
  /\ count \in Counts \cup {0} /\ left \in 0 .. UINT_SIZE - 1
  /\ reg \in [Threads -> 0 .. UINT_SIZE - 1]
  /\ enters \in Nat /\ returns \in Nat /\ serials \in Nat
  /\ last \in {"none", "init_done", "EINVAL", "destroyed", "not_destroyed"}
  /\ hit \in BOOLEAN

\* No thread leaves the barrier before the required number have entered, wherever
\* the timer fires, if rounds do not overlap (ReuseAtOnce is FALSE).
NoEarlyExit ==
  count # 0 => returns <= count * (enters \div count)

\* A round that everyone has left returned SERIAL to one thread and left the
\* barrier as pthread_barrier_init made it, ready for the next round: unless the
\* timer fired in one of the windows (hit).  Threads enter only after all of the
\* round before have left (ReuseAtOnce is FALSE).
RoundResets ==
  (count # 0 /\ ~hit /\ returns = enters /\ enters % count = 0) =>
     serials = enters \div count /\ left = count /\ flag = 0

\* When count threads have entered, or a multiple of it, as many return.  (With
\* a count of 1 nobody does: the only thread blocks.)  This is for threads that
\* enter after all of the round before have left (ReuseAtOnce is FALSE), as long
\* as the timer has not fired in one of the windows (hit).
RoundEnds ==
  \A k \in 1 .. MaxEnters :
    (count >= 2 /\ enters >= k * count)
      ~> (returns >= k * count \/ enters < k * count \/ hit)

\* At most one thread is blocked in the barrier and flag and calling_thread say
\* which, so that whoever finds left = 0 wakes it: unless the timer fired in one of
\* the windows (hit), and with rounds that do not overlap (ReuseAtOnce is FALSE).
BlockedIsCalling ==
  ~hit =>
    \A t \in Threads : status[t] = TS_BLOCKED <=> (flag = 1 /\ calling_thread = t)

\* Also when threads call again as soon as they have left, each round returns
\* SERIAL to exactly one of them, as the documentation promises.  (Every thread
\* takes part in every round, so that rounds return one after the other; the timer
\* has not fired in one of the windows.)
OneSerial ==
  (count = MAX_THREADS /\ ~hit) =>
    \A k \in 1 .. MaxEnters : returns = k * count => serials = k
=============================================================================
