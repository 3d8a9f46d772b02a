------------------------------ MODULE Scheduler ------------------------------
(***************************************************************************)
(* The part of the threading library that every other part builds on: the  *)
(* thread control blocks, the identifier of the running thread and         *)
(* schedule(), the round-robin switch that is both called by the library   *)
(* and installed as the SIGALRM handler.                                   *)
(*                                                                         *)
(* schedule() is one step here.  ScheduleSteps models its statements one   *)
(* by one and says when this is justified.  The saved registers of a       *)
(* thread (setjmp/longjmp) are its program counter in the modules that     *)
(* extend this one: a thread that is switched to goes on where it was.     *)
(***************************************************************************)
EXTENDS Integers

CONSTANT MAX_THREADS        \* number of thread control blocks (128 in the code)

ASSUME MaxThreadsAssumption == MAX_THREADS \in Nat /\ MAX_THREADS >= 2

VARIABLES
  status,   \* TCB_Table[t].status
  TID,      \* the running thread
  proc      \* what has become of the process

Threads == 0 .. MAX_THREADS - 1

TS_EXITED  == "EXITED"
TS_RUNNING == "RUNNING"
TS_READY   == "READY"
TS_EMPTY   == "EMPTY"
TS_BLOCKED == "BLOCKED"

ThreadStatus == {TS_EXITED, TS_RUNNING, TS_READY, TS_EMPTY, TS_BLOCKED}

\* "run": it runs; "spin": schedule() loops for ever since no thread is READY;
\* the others are ends of the process.
ProcStates == {"run", "spin", "exit0", "exit_failure", "main_returned", "segv",
               "killed"}

\* Mutant: the search goes down instead of up.
GapBackwards(t, u) == IF u < t THEN t - u ELSE t - u + MAX_THREADS

\* How many increments of current_tid (back to 0 after MAX_THREADS - 1) lead
\* from thread t to thread u: the thread itself is the last one looked at.
Gap(t, u) == IF u > t THEN u - t ELSE u - t + MAX_THREADS

\* Mutant: every search begins at thread 0.
IsFirst(st, t, u) == st[u] = TS_READY /\ \A v \in Threads : st[v] = TS_READY => u <= v

\* u is the first READY thread the search loop meets when it starts after t.
IsNext(st, t, u) ==
  /\ st[u] = TS_READY
  /\ \A v \in Threads : st[v] = TS_READY => Gap(t, u) <= Gap(t, v)

\* Mutant: the running thread keeps its status.
DemoteNone(st) == st

\* The running thread becomes READY; a thread that is anything else stays so.
Demote(st) == [st EXCEPT ![TID] = IF @ = TS_RUNNING THEN TS_READY ELSE @]

\* schedule(), called when the statuses are st.  Without a READY thread the
\* search loop never ends.
schedule(st) ==
  \/ \E u \in Threads :
       /\ IsNext(Demote(st), TID, u)
       /\ status' = [Demote(st) EXCEPT ![u] = TS_RUNNING]
       /\ TID' = u
       /\ UNCHANGED proc
  \/ /\ \A u \in Threads : Demote(st)[u] # TS_READY
     /\ status' = Demote(st)
     /\ proc' = "spin"
     /\ UNCHANGED TID
=============================================================================
