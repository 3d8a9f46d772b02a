-------------------------- MODULE SchedulerProofs --------------------------
(***************************************************************************)
(* What one execution of schedule() does to the thread table, stated once  *)
(* for the modules that call it.                                           *)
(***************************************************************************)
EXTENDS Scheduler, TLAPS

CanRun == {TS_RUNNING, TS_READY}

\* Every run of schedule() keeps the types, keeps the running thread unique,
\* leaves alone the threads that cannot run, and either gives the processor to
\* a thread that could run or finds none, the calling thread included.
LEMMA ScheduleEffect ==
  ASSUME NEW S, CanRun \subseteq S, status \in [Threads -> S], TID \in Threads,
         \A t \in Threads : status[t] = TS_RUNNING => t = TID,
         schedule(status)
  PROVE  /\ status' \in [Threads -> S]
         /\ TID' \in Threads
         /\ \A t \in Threads : status'[t] = TS_RUNNING => t = TID'
         /\ \A t \in Threads : status[t] \in CanRun => status'[t] \in CanRun
         /\ \A t \in Threads : status[t] \notin CanRun => status'[t] = status[t]
         /\ \/ status'[TID'] = TS_RUNNING /\ status[TID'] \in CanRun /\ proc' = proc
            \/ proc' = "spin" /\ TID' = TID /\ \A t \in Threads : status[t] \notin CanRun
<1>1. CASE \E u \in Threads : /\ IsNext(Demote(status), TID, u)
                              /\ status' = [Demote(status) EXCEPT ![u] = TS_RUNNING]
                              /\ TID' = u
                              /\ UNCHANGED proc
  BY <1>1 DEF IsNext, Demote, CanRun, TS_RUNNING, TS_READY
<1>2. CASE /\ \A u \in Threads : Demote(status)[u] # TS_READY
           /\ status' = Demote(status)
           /\ proc' = "spin"
           /\ UNCHANGED TID
  BY <1>2 DEF Demote, CanRun, TS_RUNNING, TS_READY
<1> QED  BY <1>1, <1>2 DEF schedule
=============================================================================
