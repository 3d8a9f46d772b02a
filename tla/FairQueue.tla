------------------------------ MODULE FairQueue ------------------------------
(***************************************************************************)
(* What the scheduler promises its clients: the threads that can run stand *)
(* in a line whose head has the processor.  A switch sends the head to the *)
(* end of the line, so nobody in it is overtaken; a thread that becomes    *)
(* runnable enters somewhere behind the head; and the line keeps moving.   *)
(***************************************************************************)
EXTENDS Naturals, Sequences, SequencesExt

CONSTANT Thread

VARIABLE queue

Init == queue = <<>>

Rotate == queue # <<>> /\ queue' = Append(Tail(queue), Head(queue))

\* The head exits or blocks.
Leave == queue # <<>> /\ queue' = Tail(queue)

\* A thread is created or woken.
Join ==
  \E t \in Thread \ ToSet(queue) :
    \/ queue = <<>> /\ queue' = <<t>>
    \/ \E k \in 2 .. Len(queue) + 1 : queue' = InsertAt(queue, k, t)

\* The process ends.
Halt == queue' = <<>>

Next == Rotate \/ Leave \/ Join \/ Halt

Spec == Init /\ [][Next]_queue /\ WF_queue(Rotate)
=============================================================================
