------------------------- MODULE LocalStorageProofs -------------------------
(***************************************************************************)
(* Proofs about LocalStorage, for any threads, pages, sizes and calls.     *)
(***************************************************************************)
EXTENDS LocalStorage, TLAPS

\* The variables are functions to records, with the fields that matter here.
Shape ==
  /\ Threads \subseteq DOMAIN pc
  /\ Threads \subseteq DOMAIN loc
  /\ \A t \in Threads : {"i", "last", "old"} \subseteq DOMAIN loc[t]
  /\ Threads \subseteq DOMAIN tls
  /\ \A t \in Threads : {"size", "pages"} \subseteq DOMAIN tls[t]
  /\ Pages \subseteq DOMAIN page
  /\ \A p \in Pages : "prot" \in DOMAIN page[p]

-----------------------------------------------------------------------------
\* Division with remainder, with the facts the provers need.
LEMMA Division ==
  ASSUME NEW a \in Nat, NEW b \in Nat, b > 0
  PROVE  a \div b \in Nat /\ a % b \in 0 .. b - 1 /\ a = b * (a \div b) + (a % b)
OBVIOUS

\* A page more is at least PAGE_SIZE more.
LEMMA Multiples ==
  ASSUME NEW b \in Nat, NEW d \in Nat, NEW q \in Nat, q >= d + 1
  PROVE  b * q >= b * d + b
OBVIOUS

\* An index below the size of an area is on one of its pages.
LEMMA PageInArea ==
  ASSUME NEW s \in Nat, NEW i \in Nat, i < s
  PROVE  page_number(i) \in 0 .. page_num(s) - 1
<1> PAGE_SIZE \in Nat /\ PAGE_SIZE > 0
  BY ConstantsAssumption
<1>1. PICK q \in Nat, m \in 0 .. PAGE_SIZE - 1 :
        q = i \div PAGE_SIZE /\ i = PAGE_SIZE * q + m
  BY Division
<1>2. PICK d \in Nat, n \in 0 .. PAGE_SIZE - 1 :
        d = s \div PAGE_SIZE /\ n = s % PAGE_SIZE /\ s = PAGE_SIZE * d + n
  BY Division
<1>3. ~(q >= d + 1)
  BY <1>1, <1>2, Multiples
<1>4. q <= d /\ (q = d => n # 0)
  BY <1>1, <1>2, <1>3
<1>5. q \in 0 .. (d + IF n # 0 THEN 1 ELSE 0) - 1
  BY <1>4
<1> QED BY <1>1, <1>2, <1>5, Zenon DEF page_number, page_num

-----------------------------------------------------------------------------
\* What a step of t is, with the calls that share a part taken apart.
LEMMA Cases ==
  ASSUME NEW t \in Threads, Call(t) \/ Body(t)
  PROVE  \/ \E how \in {"killed", "raised", "undefined", "cycle"} : Over(how)
         \/ \E size : At(t, "user") /\ tls_create(t, size) /\ size \in Sizes
         \/ CreateInit(t) \/ CreateMutex(t) \/ CreateFind(t) \/ Add(t)
         \/ tls_destroy(t) \/ DestroyPage(t) \/ DestroyStore(t)
         \/ \E r \in Ranges : tls_write(t, r[1], r[2]) \/ tls_read(t, r[1], r[2])
         \/ ReadLock(t) \/ ReadBytes(t) \/ WriteLock(t) \/ WriteTest(t) \/ WriteLoad(t)
         \/ WriteStore(t) \/ WriteByte(t) \/ WriteEnd(t)
         \/ \E tid \in Threads : tls_clone(t, tid)
         \/ CloneLoad(t) \/ CloneStore(t)
         \/ \E p \in Pages : tls_handle_page_fault(t, p)
BY Zenon DEF Call, Body, tls_create

\* A step of t changes neither the place, nor the area, nor these locals of
\* another thread.
Same(u) ==
  /\ pc'[u] = pc[u] /\ tls'[u] = tls[u]
  /\ loc'[u].i = loc[u].i /\ loc'[u].last = loc[u].last /\ loc'[u].old = loc[u].old

\* Every step of t leaves the other threads as they are, up to their pages.
LEMMA StepIsLocal ==
  ASSUME Shape, NEW t \in Threads, Call(t) \/ Body(t)
  PROVE  Shape' /\ \A u \in Threads \ {t} : Same(u)
<1> DEFINE Goal == Shape' /\ \A u \in Threads \ {t} : Same(u)
<1> SUFFICES Goal
  OBVIOUS
<1> USE DEF Shape, Same, Return
<1>0. ASSUME NEW p, NEW l, {"i", "last", "old"} \subseteq DOMAIN l, Step(t, p, l)
      PROVE  /\ Threads \subseteq DOMAIN pc' /\ Threads \subseteq DOMAIN loc'
             /\ \A u \in Threads : {"i", "last", "old"} \subseteq DOMAIN loc'[u]
             /\ \A u \in Threads \ {t} : pc'[u] = pc[u] /\ loc'[u] = loc[u]
  BY <1>0 DEF Step
<1>1. ASSUME NEW how, Over(how) PROVE Goal
  BY <1>1 DEF Over
<1>2. ASSUME NEW size, CreateItem(t, size) PROVE Goal
  BY <1>2, <1>1 DEF CreateItem, MallocReuses, newPage, Step, idle
<1>3. ASSUME NEW size, tls_create(t, size) PROVE Goal
  BY <1>2, <1>3 DEF tls_create, Step, idle
<1>4. CASE CreateInit(t) \/ CreateMutex(t) \/ Add(t)
  BY <1>4 DEF CreateInit, CreateMutex, Add, Step, idle
<1>5. CASE tls_destroy(t)
  BY <1>1, <1>5 DEF tls_destroy, Step, idle
<1>6. CASE DestroyPage(t) \/ DestroyStore(t)
  <2>1. Pages \subseteq DOMAIN page' /\ \A p \in Pages : "prot" \in DOMAIN page'[p]
    <3>1. ASSUME NEW p, page' = [page EXCEPT ![p] = noPage] PROVE <2>1!:
      BY <3>1 DEF noPage
    <3>2. ASSUME NEW p, NEW v, page' = [page EXCEPT ![p].ref_count = v] PROVE <2>1!:
      BY <3>2
    <3> QED BY <1>6, <3>1, <3>2 DEF DestroyPage, DestroyStore
  <2>2. CASE DestroyNext(t)
    <3>1. CASE Step(t, "destroy_page", [idle EXCEPT !.i = loc[t].i + 1]) /\ UNCHANGED tls
      BY <2>1, <3>1, <1>0 DEF idle
    <3>2. CASE tls' = [tls EXCEPT ![t] = noTLS] /\ pc' = [pc EXCEPT ![t] = "user"]
               /\ loc' = [u \in Threads |-> IF u = t THEN idle
                                            ELSE [loc[u] EXCEPT !.element = Freed(t, @)]]
      BY <2>1, <3>2 DEF idle, noTLS
    <3> QED BY <2>2, <3>1, <3>2 DEF DestroyNext
  <2>3. CASE UNCHANGED tls /\ Step(t, "destroy_store", [loc[t] EXCEPT !.ref = page[tls[t].pages[loc[t].i]].ref_count])
    BY <2>1, <2>3, <1>0
  <2> QED BY <1>6, <2>2, <2>3 DEF DestroyPage, DestroyStore
<1>7. ASSUME NEW r, tls_write(t, r[1], r[2]) \/ tls_read(t, r[1], r[2]) PROVE Goal
  <2>1. ASSUME NEW a, NEW b, NEW p, NEW l, {"i", "last", "old"} \subseteq DOMAIN l,
               Enter(t, a, b, p, l)
        PROVE  Goal
    BY <2>1, <1>0 DEF Enter
  <2> HIDE DEF Goal
  <2>2. ASSUME NEW a, NEW b, NEW c
        PROVE  {"i", "last", "old"} \subseteq DOMAIN [idle EXCEPT !.first = a, !.i = b, !.last = c]
    BY DEF idle
  <2>3. {"i", "last", "old"} \subseteq DOMAIN idle
    BY DEF idle
  <2>4. tls_read(t, r[1], r[2]) => Goal
    BY <2>1, <2>3, Zenon DEF tls_read
  <2>5. tls_write(t, r[1], r[2]) => Goal
    <3>1. PICK l : /\ {"i", "last", "old"} \subseteq DOMAIN l
                   /\ tls_write(t, r[1], r[2]) => Enter(t, r[1], r[2], "write_lock", l)
      BY <2>2, Zenon DEF tls_write
    <3> QED BY <3>1, <2>1
  <2> QED BY <1>7, <2>4, <2>5
<1>8. CASE ReadLock(t) \/ WriteLock(t)
  BY <1>8 DEF ReadLock, WriteLock, Lock, mprotect, Step
<1>9. CASE ReadBytes(t) \/ WriteEnd(t)
  BY <1>9 DEF ReadBytes, WriteEnd, Unlock, mprotect, Step, idle
<1>10. CASE WriteTest(t)
  <2>1. CASE Over("killed")
    BY <1>1, <2>1
  <2>2. ASSUME NEW a, NEW d, NEW n, page' = [page EXCEPT ![a] = newPage("write", d)],
               tls' = [tls EXCEPT ![t].pages[n] = a],
               Step(t, "write_load", [loc[t] EXCEPT !.old = tls[t].pages[n]])
        PROVE  Goal
    BY <2>2, <1>0 DEF newPage
  <2>3. CASE Step(t, "write_byte", loc[t]) /\ UNCHANGED <<tls, page>>
    BY <2>3, <1>0
  <2> QED BY <1>10, <2>1, <2>2, <2>3 DEF WriteTest
<1>11. CASE WriteLoad(t) \/ WriteStore(t)
  <2>1. ASSUME NEW v PROVE {"i", "last", "old"} \subseteq DOMAIN [loc[t] EXCEPT !.ref = v]
    OBVIOUS
  <2>2. {"i", "last", "old"} \subseteq DOMAIN [loc[t] EXCEPT !.old = NULL, !.ref = 0]
    OBVIOUS
  <2> QED BY <1>11, <1>0, <2>1, <2>2 DEF WriteLoad, WriteStore
<1>12. CASE WriteByte(t)
  BY <1>12 DEF WriteByte, Step
<1>13. ASSUME NEW tid, tls_clone(t, tid) PROVE Goal
  <2>1. {"i", "last", "old"} \subseteq DOMAIN [idle EXCEPT !.target = tid, !.last = page_num(tls[tid].size)]
    BY DEF idle
  <2> QED BY <1>13, <1>0, <1>1, <2>1 DEF tls_clone, MallocReuses
<1>14. CASE CloneLoad(t)
  BY <1>14 DEF CloneLoad, Step
<1>15. CASE CloneStore(t)
  <2>1. {"i", "last", "old"} \subseteq DOMAIN [loc[t] EXCEPT !.i = @ + 1, !.ref = 0]
    OBVIOUS
  <2>2. {"i", "last", "old"} \subseteq DOMAIN [idle EXCEPT !.element = chain(t)]
    BY DEF idle
  <2> QED BY <1>15, <1>0, <2>1, <2>2 DEF CloneStore
<1>16. ASSUME NEW p, tls_handle_page_fault(t, p) PROVE Goal
  BY <1>16, <1>1 DEF tls_handle_page_fault, Step, idle
<1> HIDE DEF Goal, Shape, Same, Return
<1>17. CreateFind(t) => Goal
  BY <1>2 DEF CreateFind
<1> QED
  BY Cases, <1>1, <1>3, <1>4, <1>5, <1>6, <1>7, <1>8, <1>9, <1>10, <1>11, <1>12,
     <1>13, <1>14, <1>15, <1>16, <1>17, Zenon

-----------------------------------------------------------------------------
\* The loops stay inside the area: every index below the size has a page, but
\* for a clone that is not complete.  A page is old only while it is replaced.
InArea(t) ==
  /\ pc[t] \notin {"write_load", "write_store"} => loc[t].old = NULL
  /\ tls[t].size \in Nat /\ loc[t].i \in Nat
  /\ pc[t] \in {"create_init", "create_mutex", "create_find"} => loc[t].last \in Sizes
  /\ pc[t] \in {"write_lock"} \cup Writing => loc[t].last \in Nat /\ loc[t].last <= tls[t].size
  /\ pc[t] \in Writing \ {"write_test"} => loc[t].i < loc[t].last
  /\ pc[t] \in {"clone_load", "clone_store"} => loc[t].last = page_num(tls[t].size)
  /\ pc[t] = "clone_store" => 0 .. loc[t].i \subseteq DOMAIN tls[t].pages
  /\ pc[t] \notin {"clone_load", "clone_store"} =>
       0 .. page_num(tls[t].size) - 1 \subseteq DOMAIN tls[t].pages

\* An area has a natural number of pages.
LEMMA PageNum == \A s \in Nat : page_num(s) \in Nat
BY Division, ConstantsAssumption DEF page_num

\* No bytes, no pages.
LEMMA PageNumZero == page_num(0) = 0
<1>1. \A b \in Nat : b > 0 => 0 \div b = 0 /\ 0 % b = 0
  OBVIOUS
<1> QED BY <1>1, ConstantsAssumption DEF page_num

\* Every step keeps the indices of every thread inside its area.
LEMMA InAreaStep ==
  ASSUME Shape, NEW t \in Threads, Call(t) \/ Body(t), \A u \in Threads : InArea(u)
  PROVE  \A u \in Threads : InArea(u)'
<1>1. \A u \in Threads \ {t} : InArea(u)'
  BY StepIsLocal DEF InArea, Same
<1> SUFFICES InArea(t)'
  BY <1>1
<1> SUFFICES ASSUME ~UNCHANGED <<pc, loc, tls>> PROVE InArea(t)'
  BY DEF InArea
<1>2. ASSUME NEW p, NEW l, Step(t, p, l) PROVE pc'[t] = p /\ loc'[t] = l
  BY <1>2 DEF Step, Shape
<1>3. ASSUME NEW how, Over(how) PROVE FALSE
  BY <1>3 DEF Over
<1> USE DEF InArea, Writing
<1>4. ASSUME NEW size \in Sizes, CreateItem(t, size),
             pc[t] \notin {"clone_load", "clone_store"}
      PROVE InArea(t)'
  <2>1. size \in Nat
    BY ConstantsAssumption
  <2>2. CASE Return(t) /\ UNCHANGED tls
    BY <1>2, <1>4, <2>2 DEF Return, idle
  <2>3. ASSUME NEW ps, DOMAIN ps = 0 .. page_num(size) - 1, 
               tls' = [tls EXCEPT ![t] = [size |-> size, pages |-> ps]],
               Step(t, "add", [idle EXCEPT !.element = chain(t)])
        PROVE  InArea(t)'
    BY <1>2, <2>1, <2>3 DEF Shape, idle
  <2> QED BY <1>3, <1>4, <2>2, <2>3 DEF CreateItem, MallocReuses
<1>5. ASSUME NEW size \in Sizes, tls_create(t, size) PROVE InArea(t)'
  BY <1>2, <1>4, <1>5 DEF tls_create, At, idle
<1>6. CASE CreateInit(t) \/ CreateMutex(t)
  BY <1>2, <1>6 DEF CreateInit, CreateMutex, At
<1>7. CASE CreateFind(t)
  BY <1>4, <1>7 DEF CreateFind, At
<1>8. CASE Add(t)
  BY <1>2, <1>8 DEF Add, At, Return, idle
<1>9. CASE tls_destroy(t)
  BY <1>2, <1>3, <1>9 DEF tls_destroy, At, idle
<1>10. CASE DestroyPage(t) \/ DestroyStore(t)
  <2>1. CASE tls' = [tls EXCEPT ![t] = noTLS] /\ pc' = [pc EXCEPT ![t] = "user"]
             /\ loc'[t] = idle
    BY <2>1, PageNumZero DEF Shape, idle, noTLS
  <2>2. ASSUME UNCHANGED tls, Step(t, "destroy_page", [idle EXCEPT !.i = loc[t].i + 1]),
               pc[t] \in {"destroy_page", "destroy_store"}
        PROVE  InArea(t)'
    BY <1>2, <2>2 DEF idle
  <2>3. ASSUME NEW v, UNCHANGED tls, Step(t, "destroy_store", [loc[t] EXCEPT !.ref = v]),
               pc[t] \in {"destroy_page", "destroy_store"}
        PROVE  InArea(t)'
    BY <1>2, <2>3 DEF Shape
  <2> QED BY <1>10, <2>1, <2>2, <2>3 DEF DestroyPage, DestroyStore, DestroyNext, At
<1>11. ASSUME NEW r \in Ranges, tls_write(t, r[1], r[2]) \/ tls_read(t, r[1], r[2]) PROVE InArea(t)'
  <2> DEFINE n == (r[1] + r[2]) % UINT_SIZE
  <2>1. r[1] \in Nat /\ n \in Nat
    BY ConstantsAssumption
  <2>2. CASE tls_read(t, r[1], r[2])
    BY <1>2, <2>2 DEF tls_read, Enter, At, idle
  <2>3. CASE tls_write(t, r[1], r[2])
    <3>1. n <= tls[t].size /\ pc[t] = "user" /\ UNCHANGED tls
      BY <2>1, <2>3 DEF tls_write, Enter, TooLong, At
    <3>2. pc'[t] = "write_lock" /\ loc'[t].i = r[1] /\ loc'[t].last = n
          /\ loc'[t].old = NULL
      <4>1. PICK a, b : a = r[1] /\ b = n
        OBVIOUS
      <4>2. Step(t, "write_lock", [idle EXCEPT !.first = a, !.i = a, !.last = b])
        BY <2>3, <4>1, Zenon DEF tls_write, Enter
      <4>3. /\ pc'[t] = "write_lock"
            /\ loc'[t] = [idle EXCEPT !.first = a, !.i = a, !.last = b]
        BY <1>2, <4>2, Zenon
      <4>4. loc'[t].i = a /\ loc'[t].last = b /\ loc'[t].old = NULL
        BY <4>3 DEF idle
      <4> QED BY <4>1, <4>3, <4>4, Zenon
    <3> QED BY <2>1, <3>1, <3>2
  <2> QED BY <1>11, <2>2, <2>3
<1>12. CASE ReadLock(t) \/ WriteLock(t)
  BY <1>2, <1>12 DEF ReadLock, WriteLock, Lock, At
<1>13. CASE ReadBytes(t) \/ WriteEnd(t)
  BY <1>2, <1>13 DEF ReadBytes, WriteEnd, Unlock, Return, At, idle
<1>14. CASE WriteTest(t)
  <2>1. pc[t] = "write_test" /\ loc[t].i < loc[t].last
    BY <1>14 DEF WriteTest, At
  <2>2. ASSUME NEW a, NEW n, tls' = [tls EXCEPT ![t].pages[n] = a],
               Step(t, "write_load", [loc[t] EXCEPT !.old = tls[t].pages[n]])
        PROVE  InArea(t)'
    BY <1>2, <2>1, <2>2 DEF Shape
  <2>3. CASE Step(t, "write_byte", loc[t]) /\ UNCHANGED tls
    BY <1>2, <2>1, <2>3
  <2> QED BY <1>3, <1>14, <2>2, <2>3 DEF WriteTest
<1>15. CASE WriteLoad(t) \/ WriteStore(t)
  <2>1. ASSUME NEW v, pc[t] = "write_load", UNCHANGED tls,
               Step(t, "write_store", [loc[t] EXCEPT !.ref = v])
        PROVE  InArea(t)'
    BY <1>2, <2>1 DEF Shape
  <2>2. ASSUME pc[t] = "write_store", UNCHANGED tls,
               Step(t, "write_byte", [loc[t] EXCEPT !.old = NULL, !.ref = 0])
        PROVE  InArea(t)'
    <3>1. pc'[t] = "write_byte" /\ loc'[t] = [loc[t] EXCEPT !.old = NULL, !.ref = 0]
      BY <1>2, <2>2
    <3>2. loc'[t].i = loc[t].i /\ loc'[t].last = loc[t].last /\ loc'[t].old = NULL
      BY <3>1 DEF Shape
    <3> QED BY <2>2, <3>1, <3>2
  <2> QED BY <1>15, <2>1, <2>2 DEF WriteLoad, WriteStore, At
<1>16. CASE WriteByte(t)
  <2>1. pc[t] = "write_byte" /\ UNCHANGED tls
        /\ pc'[t] = "write_test" /\ loc'[t] = [loc[t] EXCEPT !.i = @ + 1]
    BY <1>2, <1>16 DEF WriteByte, At
  <2>2. loc'[t].i = loc[t].i + 1 /\ loc'[t].last = loc[t].last /\ loc'[t].old = loc[t].old
    BY <2>1 DEF Shape
  <2> QED BY <2>1, <2>2
<1>17. ASSUME NEW tid \in Threads, tls_clone(t, tid) PROVE InArea(t)'
  <2>1. ASSUME NEW a, NEW b
        PROVE  LET l == [idle EXCEPT !.target = a, !.last = b]
               IN  l.i = 0 /\ l.last = b /\ l.old = NULL
    BY DEF idle
  <2>2. pc'[t] = "clone_load" /\ loc'[t] = [idle EXCEPT !.target = tid, !.last = page_num(tls[tid].size)]
    BY <1>2, <1>3, <1>17 DEF tls_clone, MallocReuses
  <2>3. tls'[t].size = tls[tid].size
    BY <1>3, <1>17 DEF tls_clone, MallocReuses, Shape
  <2>4. loc'[t].i = 0 /\ loc'[t].last = page_num(tls[tid].size) /\ loc'[t].old = NULL
    BY <2>1, <2>2
  <2> QED BY <2>2, <2>3, <2>4
<1>18. CASE CloneLoad(t)
  <2>1. ASSUME NEW v, pc[t] = "clone_load",
               Step(t, "clone_store", [loc[t] EXCEPT !.ref = v]),
               tls'[t].size = tls[t].size, DOMAIN tls'[t].pages = 0 .. loc[t].i
        PROVE  InArea(t)'
    BY <1>2, <2>1 DEF Shape
  <2> QED BY <1>18, <2>1 DEF CloneLoad, At, Shape
<1>19. CASE CloneStore(t)
  <2>1. page_num(tls[t].size) \in Nat
    BY PageNum
  <2>2. ASSUME Step(t, "clone_load", [loc[t] EXCEPT !.i = @ + 1, !.ref = 0]),
               pc[t] = "clone_store", UNCHANGED tls
        PROVE  InArea(t)'
    <3>1. pc'[t] = "clone_load" /\ loc'[t] = [loc[t] EXCEPT !.i = @ + 1, !.ref = 0]
      BY <1>2, <2>2
    <3>2. loc'[t].i = loc[t].i + 1 /\ loc'[t].last = loc[t].last /\ loc'[t].old = loc[t].old
      BY <3>1 DEF Shape
    <3> QED BY <2>2, <3>1, <3>2
  <2>3. ASSUME ~(loc[t].i + 1 < loc[t].last), pc[t] = "clone_store", UNCHANGED tls,
               Step(t, "add", [idle EXCEPT !.element = chain(t)])
        PROVE  InArea(t)'
    BY <1>2, <2>1, <2>3 DEF idle
  <2> QED BY <1>19, <2>2, <2>3 DEF CloneStore, At
<1>20. ASSUME NEW p, tls_handle_page_fault(t, p) PROVE InArea(t)'
  BY <1>2, <1>3, <1>20 DEF tls_handle_page_fault, At, idle
<1> HIDE DEF InArea, Writing
<1> QED
  BY Cases, <1>3, <1>5, <1>6, <1>7, <1>8, <1>9, <1>10, <1>11, <1>12, <1>13, <1>14,
     <1>15, <1>16, <1>17, <1>18, <1>19, <1>20, Zenon

-----------------------------------------------------------------------------
Holding == Writing \cup {"read_bytes"}

\* Whoever is between lock and unlock has the mutex, until it is initialised
\* while it is held.
Guarded ==
  proc = "run" /\ "init" \notin hit => \A t \in Threads : pc[t] \in Holding => mutex = t

Access(p) == page[p].prot \in {"read", "write"}

\* A step of t outside the mutex that makes no page accessible.
Quiet(t) ==
  /\ proc = "run" /\ hit \subseteq hit'
  /\ pc[t] \notin Holding /\ pc'[t] \notin Holding
  /\ mutex' = mutex
  /\ \A p \in Pages : Access(p)' => Access(p)

\* Steps outside tls_read and tls_write are quiet.
LEMMA QuietSteps ==
  ASSUME Shape, NEW t \in Threads, Call(t) \/ Body(t), proc' = "run", "init" \notin hit'
  PROVE  \/ Quiet(t)
         \/ ReadLock(t) \/ ReadBytes(t) \/ WriteLock(t) \/ WriteTest(t) \/ WriteLoad(t)
         \/ WriteStore(t) \/ WriteByte(t) \/ WriteEnd(t)
<1> USE DEF Quiet, Access, Holding, Writing, At, Note
<1>1. ASSUME NEW how \in {"killed", "raised", "undefined", "cycle"}, Over(how) PROVE FALSE
  BY <1>1 DEF Over
<1>2. ASSUME NEW p, NEW l, Step(t, p, l) PROVE pc'[t] = p
  BY <1>2 DEF Step, Shape
<1>3. ASSUME NEW size, CreateItem(t, size), proc = "run", pc[t] \notin Holding PROVE Quiet(t)
  BY <1>1, <1>2, <1>3 DEF CreateItem, MallocReuses, newPage, Return
<1>4. ASSUME NEW size, tls_create(t, size) PROVE Quiet(t)
  BY <1>2, <1>3, <1>4 DEF tls_create
<1>5. CASE CreateInit(t)
  BY <1>2, <1>5 DEF CreateInit
<1>6. CASE CreateMutex(t)
  BY <1>2, <1>6 DEF CreateMutex, Race
<1>7. CASE CreateFind(t)
  BY <1>3, <1>7 DEF CreateFind
<1>8. CASE Add(t)
  BY <1>2, <1>8 DEF Add, Return
<1>9. CASE tls_destroy(t)
  BY <1>1, <1>2, <1>9 DEF tls_destroy
<1>10. CASE DestroyPage(t) \/ DestroyStore(t)
  <2>1. pc'[t] \notin Holding
    BY <1>2, <1>10 DEF DestroyPage, DestroyStore, DestroyNext, Shape
  <2>2. \A p \in Pages : Access(p)' => Access(p)
    <3>1. ASSUME NEW q, page' = [page EXCEPT ![q] = noPage] PROVE <2>2!:
      BY <3>1 DEF noPage, Shape
    <3>2. ASSUME NEW q, NEW v, page' = [page EXCEPT ![q].ref_count = v] PROVE <2>2!:
      BY <3>2 DEF Shape
    <3> QED BY <1>10, <3>1, <3>2 DEF DestroyPage, DestroyStore
  <2> QED BY <1>10, <2>1, <2>2 DEF DestroyPage, DestroyStore
<1>11. ASSUME NEW r, tls_write(t, r[1], r[2]) \/ tls_read(t, r[1], r[2]) PROVE Quiet(t)
  BY <1>2, <1>11 DEF tls_write, tls_read, Enter
<1>12. ASSUME NEW tid, tls_clone(t, tid) PROVE Quiet(t)
  BY <1>1, <1>2, <1>12 DEF tls_clone, MallocReuses
<1>13. CASE CloneLoad(t)
  BY <1>2, <1>13 DEF CloneLoad
<1>14. CASE CloneStore(t)
  BY <1>2, <1>14 DEF CloneStore, Shape
<1>15. ASSUME NEW p, tls_handle_page_fault(t, p) PROVE Quiet(t)
  BY <1>1, <1>2, <1>15 DEF tls_handle_page_fault
<1> HIDE DEF Quiet, Access, Holding, Writing, At, Note
<1> QED
  BY Cases, <1>1, <1>4, <1>5, <1>6, <1>7, <1>8, <1>9, <1>10, <1>11, <1>12, <1>13, <1>14,
     <1>15, Zenon

\* p is a page of u, or one that u is replacing.
Has(u, p) == p \in pagesOf(u) \cup {loc[u].old}

\* Every step preserves the guarding of pages by the mutex.
LEMMA ProtectedStep ==
  ASSUME Shape, NEW t \in Threads, Call(t) \/ Body(t), \A u \in Threads : InArea(u),
         Guarded, Protected
  PROVE  Guarded' /\ Protected'
<1> SUFFICES ASSUME proc' = "run", "init" \notin hit'
             PROVE  /\ \A u \in Threads : pc'[u] \in Holding => mutex' = u
                    /\ \A p \in Pages : Access(p)' =>
                         \E u \in Threads : mutex' = u /\ pc'[u] \in Holding /\ Has(u, p)'
  BY DEF Guarded, Protected, Access, Has, Holding
<1>1. ASSUME proc = "run", "init" \notin hit
      PROVE  /\ \A u \in Threads : pc[u] \in Holding => mutex = u
             /\ \A p \in Pages : Access(p) =>
                  \E u \in Threads : mutex = u /\ pc[u] \in Holding /\ Has(u, p)
  BY <1>1 DEF Guarded, Protected, Access, Has, Holding
<1>2. \A u \in Threads \ {t} : pc'[u] = pc[u] /\ \A p : Has(u, p)' = Has(u, p)
  BY StepIsLocal DEF Same, Has, pagesOf
<1>3. CASE Quiet(t)
  BY <1>1, <1>2, <1>3 DEF Quiet
<1>4. ASSUME NEW p, NEW l, Step(t, p, l) PROVE pc'[t] = p /\ loc'[t] = l
  BY <1>4 DEF Step, Shape
<1>5. CASE ReadLock(t) \/ WriteLock(t)
  <2>1. proc = "run" /\ "init" \notin hit /\ mutex = NULL /\ mutex' = t /\ UNCHANGED tls
        /\ pc'[t] \in Holding /\ \E prot : page' = mprotect(t, prot)
    BY <1>4, <1>5 DEF ReadLock, WriteLock, Lock, At, Holding, Writing
  <2>2. (\A u \in Threads : pc[u] \notin Holding) /\ (\A p \in Pages : ~Access(p))
    BY <1>1, <2>1, ConstantsAssumption
  <2>3. \A p \in Pages : Access(p)' => Has(t, p)'
    BY <2>1, <2>2 DEF Access, Has, mprotect, pagesOf
  <2> QED BY <1>2, <2>1, <2>2, <2>3
<1>6. CASE ReadBytes(t) \/ WriteEnd(t)
  <2>1. proc = "run" /\ "init" \notin hit /\ pc[t] \in Holding /\ loc[t].old = NULL
        /\ pc'[t] = "user" /\ page' = mprotect(t, "none")
    BY <1>4, <1>6 DEF ReadBytes, WriteEnd, Unlock, At, Holding, Writing, Return, InArea
  <2>2. \A u \in Threads \ {t} : pc'[u] \notin Holding
    BY <1>1, <1>2, <2>1
  <2>3. \A p \in Pages : Access(p) => p \in pagesOf(t)
    BY <1>1, <2>1, ConstantsAssumption DEF Has
  <2>4. \A p \in Pages : ~Access(p)'
    BY <2>1, <2>3 DEF Access, mprotect, Shape
  <2> QED BY <2>1, <2>2, <2>4 DEF Holding, Writing
<1>7. ASSUME proc = "run", "init" \notin hit, pc[t] \in Holding, pc'[t] \in Holding, mutex' = mutex,
             \A p \in Pages : Access(p)' => Has(t, p)'
      PROVE  /\ \A u \in Threads : pc'[u] \in Holding => mutex' = u
             /\ \A p \in Pages : Access(p)' =>
                  \E u \in Threads : mutex' = u /\ pc'[u] \in Holding /\ Has(u, p)'
  BY <1>1, <1>2, <1>7
<1>8. ASSUME proc = "run", "init" \notin hit, pc[t] \in Holding
      PROVE  \A p \in Pages : Access(p) => Has(t, p)
  BY <1>1, <1>8
<1>9. CASE WriteTest(t)
  <2> DEFINE n == page_number(loc[t].i)
  <2>1. proc = "run" /\ pc[t] = "write_test" /\ loc[t].i < loc[t].last
    BY <1>9 DEF WriteTest, At
  <2>2. n \in DOMAIN tls[t].pages
    BY <2>1, PageInArea DEF InArea, Writing
  <2> HIDE DEF n
  <2>3. ASSUME NEW a, NEW d, page' = [page EXCEPT ![a] = newPage("write", d)],
               tls' = [tls EXCEPT ![t].pages[n] = a],
               pc'[t] = "write_load", loc'[t].old = tls[t].pages[n],
               mutex' = mutex, hit' = hit
        PROVE  \A p \in Pages : Access(p)' => Has(t, p)'
    <3>1. tls'[t].pages = [tls[t].pages EXCEPT ![n] = a]
      BY <2>3 DEF Shape
    <3>2. \A p \in Pages : Access(p)' => p = a \/ Access(p)
      BY <2>3 DEF Access, Shape
    <3>3. \A p \in Pages : Access(p) => p \in pagesOf(t)
      BY <1>8, <2>1, <2>3, ConstantsAssumption DEF Has, Holding, Writing, InArea
    <3>4. \A p \in pagesOf(t) \cup {a} : Has(t, p)'
      BY <2>2, <2>3, <3>1 DEF Has, pagesOf
    <3> QED BY <3>2, <3>3, <3>4
  <2>4. CASE Step(t, "write_byte", loc[t]) /\ UNCHANGED <<mutex, tls, page, hit>>
    <3>1. \A p \in Pages : Access(p)' => Has(t, p)'
      BY <1>4, <1>8, <2>1, <2>4 DEF Access, Has, pagesOf, Holding, Writing
    <3> QED BY <1>4, <1>7, <2>1, <2>4, <3>1 DEF Holding, Writing
  <2>5. CASE Over("killed")
    BY <2>5 DEF Over
  <2>6. ASSUME NEW a, NEW d, page' = [page EXCEPT ![a] = newPage("write", d)],
               tls' = [tls EXCEPT ![t].pages[n] = a], UNCHANGED <<mutex, hit>>,
               Step(t, "write_load", [loc[t] EXCEPT !.old = tls[t].pages[n]])
        PROVE  /\ \A u \in Threads : pc'[u] \in Holding => mutex' = u
               /\ \A p \in Pages : Access(p)' =>
                    \E u \in Threads : mutex' = u /\ pc'[u] \in Holding /\ Has(u, p)'
    <3>1. pc'[t] = "write_load" /\ loc'[t].old = tls[t].pages[n]
      BY <1>4, <2>6 DEF Shape
    <3>2. \A p \in Pages : Access(p)' => Has(t, p)'
      BY <2>3, <2>6, <3>1
    <3> QED BY <1>7, <2>1, <2>6, <3>1, <3>2 DEF Holding, Writing
  <2> QED BY <1>9, <2>4, <2>5, <2>6 DEF WriteTest, n
<1>10. CASE WriteLoad(t)
  <2>1. pc[t] = "write_load" /\ proc = "run" /\ UNCHANGED <<mutex, tls, page, hit>>
        /\ pc'[t] = "write_store" /\ \E v : loc'[t] = [loc[t] EXCEPT !.ref = v]
    BY <1>4, <1>10 DEF WriteLoad, At
  <2>2. loc'[t].old = loc[t].old
    BY <2>1 DEF Shape
  <2>3. \A p \in Pages : Access(p)' => Has(t, p)'
    BY <1>8, <2>1, <2>2 DEF Access, Has, pagesOf, Holding, Writing
  <2> QED BY <1>7, <2>1, <2>3 DEF Holding, Writing
<1>11. CASE WriteStore(t)
  <2>1. pc[t] = "write_store" /\ proc = "run" /\ UNCHANGED <<mutex, tls>> /\ hit \subseteq hit'
        /\ pc'[t] = "write_byte"
    BY <1>4, <1>11 DEF WriteStore, At, Note
  <2>2. PICK v : page' = [page EXCEPT ![loc[t].old].ref_count = v, ![loc[t].old].prot = "none"]
    BY <1>11 DEF WriteStore
  <2>3. \A p \in Pages : Access(p)' => Access(p) /\ p # loc[t].old
    BY <2>2 DEF Access, Shape
  <2>4. \A p \in Pages : Access(p)' => Has(t, p)'
    BY <1>8, <2>1, <2>3 DEF Has, pagesOf, Holding, Writing
  <2> QED BY <1>7, <2>1, <2>4 DEF Holding, Writing
<1>12. CASE WriteByte(t)
  <2>1. pc[t] = "write_byte" /\ proc = "run" /\ UNCHANGED <<mutex, tls>> /\ hit \subseteq hit'
        /\ pc'[t] = "write_test" /\ loc'[t] = [loc[t] EXCEPT !.i = @ + 1]
    BY <1>4, <1>12 DEF WriteByte, At, Note
  <2>2. loc'[t].old = loc[t].old
    BY <2>1 DEF Shape
  <2>3. \A p \in Pages : Access(p)' => Access(p)
    <3>1. ASSUME NEW q, NEW k, NEW v, page' = [page EXCEPT ![q].data[k] = v] PROVE <2>3!:
      BY <3>1 DEF Access, Shape
    <3> QED BY <1>12, <3>1 DEF WriteByte
  <2>4. \A p \in Pages : Access(p)' => Has(t, p)'
    BY <1>8, <2>1, <2>2, <2>3 DEF Has, pagesOf, Holding, Writing
  <2> QED BY <1>7, <2>1, <2>4 DEF Holding, Writing
<1> QED
  BY QuietSteps, <1>3, <1>5, <1>6, <1>9, <1>10, <1>11, <1>12

-----------------------------------------------------------------------------
IInv == Shape /\ (\A t \in Threads : InArea(t)) /\ Guarded /\ Protected

\* The inductive invariant holds in every behaviour.
LEMMA Invariance == Spec => []IInv
<1>1. Init => IInv
  <2> SUFFICES ASSUME Init PROVE IInv
    OBVIOUS
  <2>1. Shape
    BY DEF Init, Shape, idle, noTLS, noPage
  <2>2. \A t \in Threads : InArea(t)
    BY PageNumZero DEF Init, InArea, idle, noTLS, Writing
  <2>3. Guarded /\ Protected
    BY DEF Init, Guarded, Protected, Holding, Writing, noPage
  <2> QED BY <2>1, <2>2, <2>3 DEF IInv
<1>2. IInv /\ [Next]_vars => IInv'
  <2> SUFFICES ASSUME IInv, [Next]_vars PROVE IInv'
    OBVIOUS
  <2>1. CASE UNCHANGED vars
    BY <2>1 DEF IInv, Shape, InArea, Guarded, Protected, Holding, Writing, pagesOf, vars
  <2>2. ASSUME NEW t \in Threads, Call(t) \/ Body(t) PROVE IInv'
    BY <2>2, StepIsLocal, InAreaStep, ProtectedStep DEF IInv
  <2> QED BY <2>1, <2>2 DEF Next
<1> QED BY <1>1, <1>2, PTL DEF Spec

\* Pages are accessible only to the thread that has the mutex and the page, and
\* only during tls_read and tls_write; tls_clone, tls_destroy and tls_create,
\* which take no mutex, do not break this, whatever they interleave with.
THEOREM PagesAreProtected == Spec => []Protected
<1>1. IInv => Protected
  BY DEF IInv
<1> QED BY <1>1, Invariance, PTL

\* tls_write never writes behind the end of the area of its thread, although
\* its test is in unsigned arithmetic and offset + length may wrap around.
THEOREM WritesStayInside == Spec => []WritesInside
<1>1. IInv => WritesInside
  BY DEF IInv, InArea, WritesInside, Writing
<1> QED BY <1>1, Invariance, PTL
====
