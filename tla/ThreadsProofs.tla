---------------------------- MODULE ThreadsProofs ----------------------------
(***************************************************************************)
(* Proofs of the safety properties of Threads, for any number of threads.  *)
(***************************************************************************)
EXTENDS Threads, SchedulerProofs

\* Before the first pthread_create is under way there is one thread, and the
\* table is either all zero or all EMPTY.
FirstCall ==
  is_first_call =>
    /\ TID = 0
    /\ \A t \in Threads : status[t] \notin CanRun /\ created[t] = 0
    /\ pc[0] \in {"user", "create_init", "exit_scan"}
    /\ \A t \in Threads \ {0} : pc[t] = "user"

\* From then on the running thread can run until it has exited.
RunnerCanRun ==
  ~is_first_call =>
    /\ \A t \in Threads : pc[t] # "create_init"
    /\ proc = "run" => status[TID] \in CanRun \/ pc[TID] = "exit_scan"

\* While the timer spares the window in pthread_create, only the running thread
\* is in it, and an id was handed out once for every slot that is not EMPTY and
\* for the slot in that window.
HandedOut ==
  "create_setup" \notin hit =>
    /\ \A t \in Threads : pc[t] = "create_setup" => t = TID
    /\ \A t \in Threads :
         /\ created[t] \in 0 .. 1
         /\ created[t] = 1 =>
              status[t] # TS_EMPTY \/ (pc[TID] = "create_setup" /\ slot[TID] = t)

IInv ==
  /\ TypeOK
  /\ \A t \in Threads : status[t] = TS_RUNNING => t = TID
  /\ SearchEnds
  /\ FirstCall
  /\ RunnerCanRun
  /\ HandedOut

\* The invariant holds at the start.
LEMMA InitIInv == Init => IInv
<1> SUFFICES ASSUME Init PROVE IInv
  OBVIOUS
<1> USE DEF Init, TS_EXITED, TS_RUNNING, TS_READY, TS_EMPTY, TS_BLOCKED
<1>0. 0 \in Threads
  BY MaxThreadsAssumption DEF Threads
<1>1. TypeOK
  BY <1>0 DEF TypeOK, ThreadStatus, ProcStates, Points, Windows
<1>2. FirstCall /\ RunnerCanRun
  BY <1>0 DEF FirstCall, RunnerCanRun, CanRun
<1>3. HandedOut /\ SearchEnds
  BY <1>0 DEF HandedOut, SearchEnds
<1> QED  BY <1>1, <1>2, <1>3 DEF IInv

\* Every step preserves the invariant.
LEMMA StepIInv == IInv /\ [Next]_vars => IInv'
<1> SUFFICES ASSUME IInv, [Next]_vars PROVE IInv'
  OBVIOUS
<1> USE DEF IInv, TypeOK, At, Goto
<1>0. 0 \in Threads
  BY MaxThreadsAssumption DEF Threads
<1>s. ASSUME schedule(status)
      PROVE  /\ status' \in [Threads -> ThreadStatus \ {TS_BLOCKED}]
             /\ TID' \in Threads
             /\ \A t \in Threads : status'[t] = TS_RUNNING => t = TID'
             /\ \A t \in Threads : status[t] \in CanRun => status'[t] \in CanRun
             /\ \A t \in Threads : status[t] \notin CanRun => status'[t] = status[t]
             /\ \/ status'[TID'] = TS_RUNNING /\ status[TID'] \in CanRun /\ proc' = proc
                \/ proc' = "spin" /\ TID' = TID /\ \A t \in Threads : status[t] \notin CanRun
  <2>1. CanRun \subseteq ThreadStatus \ {TS_BLOCKED}
    BY DEF CanRun, ThreadStatus, TS_EXITED, TS_RUNNING, TS_READY, TS_EMPTY, TS_BLOCKED
  <2> QED  BY <1>s, <2>1, ScheduleEffect
<1> USE DEF ThreadStatus, ProcStates, Points, Windows, CanRun,
            TS_EXITED, TS_RUNNING, TS_READY, TS_EMPTY, TS_BLOCKED
<1>1. CASE scheduler_init
  BY <1>0, <1>1 DEF scheduler_init, SearchEnds, FirstCall, RunnerCanRun, HandedOut
<1>2. CASE CreateFirst
  BY <1>0, <1>2 DEF CreateFirst, SearchEnds, FirstCall, RunnerCanRun, HandedOut
<1>3. CASE CreateFind
  BY <1>0, <1>3 DEF CreateFind, EmptySlots, SearchEnds, FirstCall, RunnerCanRun, HandedOut
<1>4. CASE CreateSetup
  BY <1>0, <1>4 DEF CreateSetup, SearchEnds, FirstCall, RunnerCanRun, HandedOut
<1>5. CASE CreateSched
  BY <1>0, <1>5, <1>s DEF CreateSched, SearchEnds, FirstCall, RunnerCanRun, HandedOut
<1>6. CASE ExitMark
  BY <1>0, <1>6 DEF ExitMark, SearchEnds, FirstCall, RunnerCanRun, HandedOut
<1>7. CASE ExitScan
  BY <1>0, <1>7, <1>s DEF ExitScan, threads_left, SearchEnds, FirstCall, RunnerCanRun, HandedOut
<1>8. CASE MainReturn
  BY <1>8 DEF MainReturn, SearchEnds, FirstCall, RunnerCanRun, HandedOut
<1>9. CASE Alarm
  BY <1>0, <1>9, <1>s DEF Alarm, SearchEnds, FirstCall, RunnerCanRun, HandedOut
<1>10. CASE AlarmUnhandled
  BY <1>0, <1>10 DEF AlarmUnhandled, SearchEnds, FirstCall, RunnerCanRun, HandedOut
<1>11. CASE UNCHANGED vars
  BY <1>11 DEF vars, SearchEnds, FirstCall, RunnerCanRun, HandedOut
<1> QED
  BY <1>1, <1>2, <1>3, <1>4, <1>5, <1>6, <1>7, <1>8, <1>9, <1>10, <1>11 DEF Next, Library

\* The invariant holds in every behaviour.
LEMMA Inductive == Spec => []IInv
BY InitIInv, StepIInv, PTL DEF Spec

\* The variables of Threads always have their types.
THEOREM TypeCorrect == Spec => []TypeOK
BY Inductive, PTL DEF IInv

\* schedule() never searches for ever, unless the timer has fired in
\* scheduler_init or after pthread_exit wrote TS_EXITED.
THEOREM SearchTerminates == Spec => []SearchEnds
BY Inductive, PTL DEF IInv

\* Only the thread TID is RUNNING, and outside the windows it can run on.
THEOREM RunningThread == Spec => []RunningIsTID
<1>1. IInv => RunningIsTID
  BY DEF IInv, RunningIsTID, RunnerCanRun, CanRun, Windows
<1> QED  BY <1>1, Inductive, PTL

\* pthread_create hands out no id twice, unless the timer has fired between
\* its search for a slot and its write of the slot's status.
THEOREM IdsAreUnique == Spec => []UniqueIds
<1>1. IInv => UniqueIds
  BY DEF IInv, UniqueIds, HandedOut, TypeOK
<1> QED  BY <1>1, Inductive, PTL
=============================================================================
