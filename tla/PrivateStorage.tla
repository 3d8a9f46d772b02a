--------------------------- MODULE PrivateStorage ---------------------------
(***************************************************************************)
(* What thread local storage promises: each thread has at most one array   *)
(* of bytes, which only its own writes change, and a thread that goes      *)
(* round the interface is ended without harm to the others.                *)
(***************************************************************************)
EXTENDS Naturals

CONSTANTS Threads, Sizes, Ranges, None

VARIABLES
  lsa,     \* the local storage area of each thread, or None
  alive    \* the threads that have not been ended

Init == lsa = [t \in Threads |-> None] /\ alive = Threads

Create(t) ==
  /\ lsa[t] = None
  /\ \E n \in Sizes \ {0} : lsa' = [lsa EXCEPT ![t] = [k \in 0 .. n - 1 |-> 0]]
  /\ UNCHANGED alive

Destroy(t) == lsa[t] # None /\ lsa' = [lsa EXCEPT ![t] = None] /\ UNCHANGED alive

\* One byte of a write of the bytes 1, 2, ... to one of the ranges.
Write(t) ==
  /\ lsa[t] # None
  /\ \E r \in Ranges, k \in DOMAIN lsa[t] :
       /\ k \in r[1] .. r[1] + r[2] - 1
       /\ lsa' = [lsa EXCEPT ![t][k] = k - r[1] + 1]
  /\ UNCHANGED alive

Clone(t, target) ==
  /\ lsa[t] = None /\ lsa[target] # None
  /\ lsa' = [lsa EXCEPT ![t] = lsa[target]]
  /\ UNCHANGED alive

Fault(t) == alive' = alive \ {t} /\ UNCHANGED lsa

Next ==
  \E t \in alive :
    Create(t) \/ Destroy(t) \/ Write(t) \/ Fault(t) \/ \E target \in Threads : Clone(t, target)
=============================================================================
