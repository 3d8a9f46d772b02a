--------------------------- MODULE MCLocalStorage ---------------------------
(***************************************************************************)
(* LocalStorage for TLC, and the mapping to PrivateStorage: the bytes of a *)
(* thread are read through its pages.                                      *)
(***************************************************************************)
EXTENDS LocalStorage

CONSTANTS
  MaxCalls,    \* bound: the number of calls
  MaxOverlap   \* bound: the number of calls in progress at a time

VARIABLE calls

Busy == {t \in Threads : pc[t] \notin {"user", "gone"}}

MCInit == Init /\ calls = 0

\* After a race, the calls in progress are followed to their end.
MCNext ==
  \E t \in Threads :
    \/ /\ Call(t)
       /\ calls < MaxCalls /\ Cardinality(Busy) < MaxOverlap /\ hit \cap Races = {}
       /\ calls' = calls + 1
    \/ Body(t) /\ UNCHANGED calls

MCSpec == MCInit /\ [][MCNext]_<<vars, calls>> /\ Fairness

\* Across two pages, too long, and wrapping around.
MCRanges == {<<1, 2>>, <<2, 2>>, <<4, 1>>}

\* The area exists from the end of the cloning or creation of its pages to
\* the call of tls_destroy.
HasArea(t) ==
  IF pc[t] \in {"destroy_page", "destroy_store"} THEN FALSE ELSE pc[t] = "add" \/ Find(t)

Areas ==
  [t \in Threads |->
     IF HasArea(t)
     THEN [k \in 0 .. tls[t].size - 1 |->
             page[tls[t].pages[page_number(k)]].data[page_offset(k)]]
     ELSE NULL]

Alive == IF proc = "run" THEN {t \in Threads : pc[t] # "gone"} ELSE {}

Private == INSTANCE PrivateStorage WITH None <- NULL, lsa <- Areas, alive <- Alive

\* Pages that are mapped and that no thread has any more.
Orphans == {p \in Pages : ~Unmapped(p) /\ \A t \in Threads : p \notin pagesOf(t)}

\* Every call does to the storage areas what it should do to private arrays,
\* and an access to an area from outside ends that thread alone.  This is up
\* to the first race, and unless the process dies in a copy without a free
\* page, or of the Items that tls_destroy freed and left in the table.
PrivateArrays ==
  /\ Private!Init
  /\ [][hit' \cap Races = {} /\ proc' \in {"run", "raised"} =>
          Private!Next \/ (proc' = "raised" /\ Orphans # {})]_<<Areas, Alive>>
=============================================================================
