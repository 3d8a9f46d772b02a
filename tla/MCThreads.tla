------------------------------ MODULE MCThreads ------------------------------
(***************************************************************************)
(* Threads for TLC, with the refinement mapping to FairQueue: the line is  *)
(* the set of threads that can run, in the order in which the search loop  *)
(* of schedule() meets them from TID on, TID itself first.                 *)
(***************************************************************************)
EXTENDS Threads, SequencesExt

Runnable == {t \in Threads : status[t] \in {TS_READY, TS_RUNNING}}

ServiceOrder ==
  IF proc = "run"
  THEN SetToSortSeq(Runnable,
         LAMBDA t, u : (t - TID) % MAX_THREADS < (u - TID) % MAX_THREADS)
  ELSE <<>>

Queue == INSTANCE FairQueue WITH Thread <- Threads, queue <- ServiceOrder

\* schedule() serves the threads as a line that nobody overtakes and that
\* never stops, whether it is called or runs as the SIGALRM handler, and
\* wherever in pthread_create and pthread_exit the timer fires.
RoundRobin == Queue!Spec
=============================================================================
