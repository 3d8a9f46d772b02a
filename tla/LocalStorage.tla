---------------------------- MODULE LocalStorage ----------------------------
(***************************************************************************)
(* Copy-on-write thread local storage (tls.c), called by threads that run  *)
(* in parallel.  Only tls_read and tls_write take the mutex.  A step ends   *)
(* where another thread can see or disturb what the call does next: a      *)
(* reference count is loaded in one step and stored in another.            *)
(***************************************************************************)
EXTENDS Integers, FiniteSets

CONSTANTS
  Threads,     \* the pthread_t of the threads
  HASH,        \* the number of chains of the table
  Pages,       \* bound: the pages that mmap has
  PAGE_SIZE,
  UINT_SIZE,   \* unsigned int is 0 .. UINT_SIZE - 1
  Sizes,       \* bound: the sizes passed to tls_create
  Ranges,      \* bound: the offsets and lengths passed to tls_read, tls_write
  NULL

ASSUME ConstantsAssumption ==
  /\ Threads \subseteq Nat /\ Pages \subseteq Nat /\ NULL \notin Nat
  /\ HASH \in Nat \ {0} /\ PAGE_SIZE \in Nat \ {0} /\ UINT_SIZE \in Nat \ {0}
  /\ Sizes \subseteq 0 .. UINT_SIZE - 1
  /\ Ranges \subseteq (0 .. UINT_SIZE - 1) \X (0 .. UINT_SIZE - 1)

VARIABLES
  proc,          \* "run", or how the process ended
  pc,            \* where each thread is
  loc,           \* the local variables of its call
  is_first_call,
  mutex,         \* the thread that holds the mutex, or NULL
  Table,         \* the Items in each chain: their tid, or NULL for freed ones
  tls,           \* the ThreadLocalStorage of each thread
  page,          \* each page with its Page
  hit            \* history: the races, and the leaks of pages, that have happened

vars == <<proc, pc, loc, is_first_call, mutex, Table, tls, page, hit>>

-----------------------------------------------------------------------------
(* The table.  Remove unlinks nothing: freed Items stay in the chains.     *)
(* free() overwrites the tid of an Item and leaves its next, so that Find  *)
(* passes over it.                                                         *)

HashFunction(tid) == tid % HASH
chain(tid) == Table[HashFunction(tid)]
Find(tid) == tid \in chain(tid)

\* Remove dereferences NULL if the chain has Items, but none of tid.
RemoveFails(tid) == ~Find(tid) /\ chain(tid) # {}

-----------------------------------------------------------------------------
(* Pages.  "unmapped": the page and its Page are freed.                    *)

zeros == [k \in 0 .. PAGE_SIZE - 1 |-> 0]
newPage(prot, data) == [ref_count |-> 1, prot |-> prot, data |-> data]
noPage == [ref_count |-> 0, prot |-> "unmapped", data |-> zeros]

Unmapped(p) == page[p].prot = "unmapped"
Free == {p \in Pages : Unmapped(p)}

\* The page that mmap returns: the first that is free, after i others.
mmap(i) == CHOOSE p \in Free : Cardinality({q \in Free : q < p}) = i

noTLS == [size |-> 0, pages |-> <<>>]
page_num(size) == size \div PAGE_SIZE + (IF size % PAGE_SIZE # 0 THEN 1 ELSE 0)
page_number(index) == index \div PAGE_SIZE
page_offset(index) == index % PAGE_SIZE
pagesOf(t) == {tls[t].pages[i] : i \in DOMAIN tls[t].pages}

\* tls_protect and tls_unprotect, for all pages of a thread.
mprotect(t, prot) ==
  [p \in Pages |-> IF p \in pagesOf(t) THEN [page[p] EXCEPT !.prot = prot] ELSE page[p]]

-----------------------------------------------------------------------------
(* The locals: loop variable and end of a loop, offset of the call, loaded *)
(* reference count, page before its copy, target of a clone; and for Add   *)
(* the chain behind the head that it loaded.                               *)

idle == [i |-> 0, last |-> 0, first |-> 0, ref |-> 0, old |-> NULL, target |-> NULL,
         element |-> {}]

Init ==
  /\ proc = "run" /\ is_first_call = TRUE /\ mutex = NULL /\ hit = {}
  /\ pc = [t \in Threads |-> "user"]
  /\ loc = [t \in Threads |-> idle]
  /\ Table = [b \in 0 .. HASH - 1 |-> {}]
  /\ tls = [t \in Threads |-> noTLS]
  /\ page = [p \in Pages |-> noPage]

At(t, p) == proc = "run" /\ pc[t] = p

Step(t, p, l) == pc' = [pc EXCEPT ![t] = p] /\ loc' = [loc EXCEPT ![t] = l]
Return(t) == Step(t, "user", idle)

Races == {"init", "add", "count", "cow", "torn", "destroy"}
Leaks == {"left", "last"}

Race(name, happens) == IF happens THEN {name} ELSE {}
Leak(name, happens) == IF happens THEN {name} ELSE {}
Note(events) == hit' = hit \cup events

\* Killed by a signal, or undefined: freed memory was used.
Over(how) ==
  proc' = how /\ UNCHANGED <<pc, loc, is_first_call, mutex, Table, tls, page, hit>>

\* A thread is in the loop of tls_clone over the pages of target.
Cloning(target) ==
  \E t \in Threads : pc[t] \in {"clone_load", "clone_store"} /\ loc[t].target = target

\* Another thread than t has loaded the ref_count of p and not yet stored it.
Loaded(t, p) ==
  \E u \in Threads \ {t} :
    \/ pc[u] \in {"destroy_store", "clone_store"} /\ tls[u].pages[loc[u].i] = p
    \/ pc[u] = "write_store" /\ loc[u].old = p

\* A thread in tls_write takes p for unshared and is about to write to it.
Tested(p) ==
  \E u \in Threads : /\ pc[u] \in {"write_load", "write_store", "write_byte"}
                     /\ tls[u].pages[page_number(loc[u].i)] = p

-----------------------------------------------------------------------------
(* Add: the load of the head is part of the step before.                   *)

\* Items that were added since the load are lost.
Add(t) ==
  /\ At(t, "add")
  /\ Table' = [Table EXCEPT ![HashFunction(t)] = loc[t].element \cup {t}]
  /\ Note(Race("add", chain(t) # loc[t].element))
  /\ Return(t)
  /\ UNCHANGED <<proc, is_first_call, mutex, tls, page>>

\* malloc may return the address of a freed Item that is still linked.  Add
\* then closes the chain to a cycle, and the next walk along it does not end.
MallocReuses(t) == NULL \in chain(t) /\ Over("cycle")

-----------------------------------------------------------------------------
(* tls_create.  When mmap has no page left, -1 is returned and the pages   *)
(* mapped before are left behind.                                          *)

CreateItem(t, size) ==
  IF size <= 0 \/ Find(t)
  THEN Return(t) /\ UNCHANGED <<proc, is_first_call, mutex, Table, tls, page, hit>>
  ELSE LET n == page_num(size)
           ps == [i \in 0 .. n - 1 |-> mmap(i)]
       IN  IF Cardinality(Free) < n
           THEN /\ page' = [p \in Pages |-> IF p \in Free THEN newPage("none", zeros) ELSE page[p]]
                /\ Note(Leak("left", Free # {}))
                /\ Return(t)
                /\ UNCHANGED <<proc, is_first_call, mutex, Table, tls>>
           ELSE \/ MallocReuses(t)
                \/ /\ tls' = [tls EXCEPT ![t] = [size |-> size, pages |-> ps]]
                   /\ page' = [p \in Pages |-> IF \E i \in 0 .. n - 1 : ps[i] = p
                                               THEN newPage("none", zeros) ELSE page[p]]
                   /\ Step(t, "add", [idle EXCEPT !.element = chain(t)])
                   /\ UNCHANGED <<proc, is_first_call, mutex, Table, hit>>

tls_create(t, size) ==
  /\ At(t, "user")
  /\ IF is_first_call
     THEN /\ Step(t, "create_init", [idle EXCEPT !.last = size])
          /\ UNCHANGED <<proc, is_first_call, mutex, Table, tls, page, hit>>
     ELSE CreateItem(t, size)

\* tls_init() installs the handler; is_first_call = false.
CreateInit(t) ==
  /\ At(t, "create_init")
  /\ is_first_call' = FALSE
  /\ Step(t, "create_mutex", loc[t])
  /\ UNCHANGED <<proc, mutex, Table, tls, page, hit>>

\* pthread_mutex_init(&mutex, NULL), whoever holds the mutex.
CreateMutex(t) ==
  /\ At(t, "create_mutex")
  /\ mutex' = NULL
  /\ Note(Race("init", mutex # NULL))
  /\ Step(t, "create_find", loc[t])
  /\ UNCHANGED <<proc, is_first_call, Table, tls, page>>

CreateFind(t) == At(t, "create_find") /\ CreateItem(t, loc[t].last)

-----------------------------------------------------------------------------
(* tls_destroy, without the mutex.                                         *)

tls_destroy(t) ==
  /\ At(t, "user")
  /\ \/ RemoveFails(t) /\ Over("killed")
     \/ /\ Find(t)
        /\ Step(t, "destroy_page", idle)
        /\ Note(Race("destroy", Cloning(t)))
        /\ UNCHANGED <<proc, is_first_call, mutex, Table, tls, page>>

\* The Item of t is freed, wherever it is linked.
Freed(t, items) == IF t \in items THEN (items \ {t}) \cup {NULL} ELSE items

\* The end of the loop body; after the last page, TLS and Item are freed.
DestroyNext(t) ==
  IF loc[t].i + 1 \in DOMAIN tls[t].pages
  THEN /\ Step(t, "destroy_page", [idle EXCEPT !.i = loc[t].i + 1])
       /\ UNCHANGED <<Table, tls>>
  ELSE /\ pc' = [pc EXCEPT ![t] = "user"]
       /\ loc' = [u \in Threads |-> IF u = t THEN idle
                                    ELSE [loc[u] EXCEPT !.element = Freed(t, @)]]
       /\ Table' = [Table EXCEPT ![HashFunction(t)] = Freed(t, @)]
       /\ tls' = [tls EXCEPT ![t] = noTLS]

DestroyPage(t) ==
  LET p == tls[t].pages[loc[t].i]
  IN  /\ At(t, "destroy_page")
      /\ IF page[p].ref_count = 1
         THEN /\ page' = [page EXCEPT ![p] = noPage]
              /\ Note(Race("count", Loaded(t, p)))
              /\ DestroyNext(t)
         ELSE /\ Step(t, "destroy_store", [loc[t] EXCEPT !.ref = page[p].ref_count])
              /\ UNCHANGED <<Table, tls, page, hit>>
      /\ UNCHANGED <<proc, is_first_call, mutex>>

\* ref_count--, the store.
DestroyStore(t) ==
  LET p == tls[t].pages[loc[t].i]
  IN  /\ At(t, "destroy_store")
      /\ page' = [page EXCEPT ![p].ref_count = loc[t].ref - 1]
      /\ Note(Race("count", Loaded(t, p)))
      /\ DestroyNext(t)
      /\ UNCHANGED <<proc, is_first_call, mutex>>

-----------------------------------------------------------------------------
(* tls_write and tls_read.                                                 *)

TooLongByOne(t, offset, length) == (offset + length) % UINT_SIZE > tls[t].size + 1

\* (offset + length) > TLS->size, in unsigned arithmetic.
TooLong(t, offset, length) == (offset + length) % UINT_SIZE > tls[t].size

\* The tests before the lock; l are the locals of the loop.
Enter(t, offset, length, p, l) ==
  /\ At(t, "user") /\ Find(t) /\ ~TooLong(t, offset, length)
  /\ Step(t, p, l)
  /\ UNCHANGED <<proc, is_first_call, mutex, Table, tls, page, hit>>

tls_read(t, offset, length) == Enter(t, offset, length, "read_lock", idle)
tls_write(t, offset, length) ==
  Enter(t, offset, length, "write_lock",
        [idle EXCEPT !.first = offset, !.i = offset, !.last = (offset + length) % UINT_SIZE])

\* pthread_mutex_lock, and tls_unprotect of all pages.
Lock(t, from, to, prot) ==
  /\ At(t, from) /\ mutex = NULL
  /\ mutex' = t
  /\ page' = mprotect(t, prot)
  /\ Step(t, to, loc[t])
  /\ UNCHANGED <<proc, is_first_call, Table, tls, hit>>

\* tls_protect of all pages, and pthread_mutex_unlock.
Unlock(t) ==
  /\ mutex' = NULL
  /\ page' = mprotect(t, "none")
  /\ Return(t)
  /\ UNCHANGED <<proc, is_first_call, Table, tls, hit>>

ReadLock(t) == Lock(t, "read_lock", "read_bytes", "read")
WriteLock(t) == Lock(t, "write_lock", "write_test", "write")

\* The mutex keeps writers away: the bytes are read in one step.
ReadBytes(t) == At(t, "read_bytes") /\ Unlock(t)

Writing == {"write_test", "write_load", "write_store", "write_byte"}

SharedByMore(p) == page[p].ref_count > 2
Shared(p) == page[p].ref_count > 1

\* The test of ref_count, and the copy of a shared page.  The result of mmap
\* is not tested: without a page the copying ends the process.
WriteTest(t) ==
  LET n == page_number(loc[t].i)
      p == tls[t].pages[n]
  IN  /\ At(t, "write_test") /\ loc[t].i < loc[t].last
      /\ CASE Shared(p) /\ Free = {} -> Over("killed")
           [] Shared(p) /\ Free # {} ->
                /\ page' = [page EXCEPT ![mmap(0)] = newPage("write", page[p].data)]
                /\ tls' = [tls EXCEPT ![t].pages[n] = mmap(0)]
                /\ Step(t, "write_load", [loc[t] EXCEPT !.old = p])
                /\ UNCHANGED <<proc, is_first_call, mutex, Table, hit>>
           [] ~Shared(p) ->
                /\ Step(t, "write_byte", loc[t])
                /\ UNCHANGED <<proc, is_first_call, mutex, Table, tls, page, hit>>

\* ref_count-- of the page that was copied: the load, and the store.
WriteLoad(t) ==
  /\ At(t, "write_load")
  /\ Step(t, "write_store", [loc[t] EXCEPT !.ref = page[loc[t].old].ref_count])
  /\ UNCHANGED <<proc, is_first_call, mutex, Table, tls, page, hit>>

\* Mutants of WriteStore: no decrement, and no tls_protect.
WriteStoreKeeps(t) ==
  /\ At(t, "write_store")
  /\ page' = [page EXCEPT ![loc[t].old].prot = "none"]
  /\ Step(t, "write_byte", [loc[t] EXCEPT !.old = NULL, !.ref = 0])
  /\ UNCHANGED <<proc, is_first_call, mutex, Table, tls, hit>>

WriteStoreOpens(t) ==
  /\ At(t, "write_store")
  /\ page' = [page EXCEPT ![loc[t].old].ref_count = loc[t].ref - 1]
  /\ Step(t, "write_byte", [loc[t] EXCEPT !.old = NULL, !.ref = 0])
  /\ UNCHANGED <<proc, is_first_call, mutex, Table, tls, hit>>

\* When the last other user has called tls_destroy since the test of ref_count,
\* 0 is stored: nobody unmaps the page any more.
WriteStore(t) ==
  LET p == loc[t].old
  IN  /\ At(t, "write_store")
      /\ page' = [page EXCEPT ![p].ref_count = loc[t].ref - 1, ![p].prot = "none"]
      /\ Note(Race("count", Loaded(t, p)) \cup Leak("last", loc[t].ref = 1))
      /\ Step(t, "write_byte", [loc[t] EXCEPT !.old = NULL, !.ref = 0])
      /\ UNCHANGED <<proc, is_first_call, mutex, Table, tls>>

\* *page_byte = buffer[count], for a buffer of the bytes 1, 2, ...
WriteByte(t) ==
  LET p == tls[t].pages[page_number(loc[t].i)]
  IN  /\ At(t, "write_byte")
      /\ page' = [page EXCEPT ![p].data[page_offset(loc[t].i)] = loc[t].i - loc[t].first + 1]
      /\ Note(Race("torn", Cloning(t)))
      /\ Step(t, "write_test", [loc[t] EXCEPT !.i = @ + 1])
      /\ UNCHANGED <<proc, is_first_call, mutex, Table, tls>>

\* Mutant: returns without pthread_mutex_unlock.
WriteEndLocked(t) ==
  /\ At(t, "write_test") /\ loc[t].i >= loc[t].last
  /\ page' = mprotect(t, "none")
  /\ Return(t)
  /\ UNCHANGED <<proc, is_first_call, mutex, Table, tls, hit>>

WriteEnd(t) == At(t, "write_test") /\ loc[t].i >= loc[t].last /\ Unlock(t)

-----------------------------------------------------------------------------
(* tls_clone, without the mutex.                                           *)

tls_clone(t, tid) ==
  /\ At(t, "user") /\ ~Find(t) /\ Find(tid)
  /\ \/ MallocReuses(t)
     \/ /\ tls' = [tls EXCEPT ![t] = [size |-> tls[tid].size, pages |-> <<>>]]
        /\ Step(t, "clone_load", [idle EXCEPT !.target = tid,
                                              !.last = page_num(tls[tid].size)])
        /\ Note(Race("destroy", pc[tid] \in {"destroy_page", "destroy_store"}))
        /\ UNCHANGED <<proc, is_first_call, mutex, Table, page>>

\* pages[i] = targetTLS->pages[i], and the load of its ref_count.
CloneLoad(t) ==
  LET i == loc[t].i
      p == tls[loc[t].target].pages[i]
  IN  /\ At(t, "clone_load")
      /\ tls' = [tls EXCEPT ![t].pages = [j \in 0 .. i |-> IF j = i THEN p ELSE @[j]]]
      /\ Step(t, "clone_store", [loc[t] EXCEPT !.ref = page[p].ref_count])
      /\ UNCHANGED <<proc, is_first_call, mutex, Table, page, hit>>

\* ref_count++, the store.
CloneStore(t) ==
  LET p == tls[t].pages[loc[t].i]
  IN  /\ At(t, "clone_store")
      /\ page' = [page EXCEPT ![p].ref_count = loc[t].ref + 1]
      /\ Note(Race("count", Loaded(t, p)) \cup Race("cow", Tested(p)))
      /\ IF loc[t].i + 1 < loc[t].last
         THEN Step(t, "clone_load", [loc[t] EXCEPT !.i = @ + 1, !.ref = 0])
         ELSE Step(t, "add", [idle EXCEPT !.element = chain(t)])
      /\ UNCHANGED <<proc, is_first_call, mutex, Table, tls>>

-----------------------------------------------------------------------------
(* A thread uses a pointer into a protected page, not one of an area that  *)
(* is being created.  The handler ends the thread if a chain has the page  *)
(* and raises the signal if none has.  A freed Item on its way has no      *)
(* usable tls.                                                             *)

tls_handle_page_fault(t, p) ==
  LET listed == \E u \in Threads : Find(u) /\ p \in pagesOf(u)
      freed == \E b \in DOMAIN Table : NULL \in Table[b]
  IN  /\ At(t, "user") /\ page[p].prot = "none"
      /\ \A u \in Threads : pc[u] = "add" => p \notin pagesOf(u)
      /\ \/ /\ listed
            /\ Step(t, "gone", idle)
            /\ UNCHANGED <<proc, is_first_call, mutex, Table, tls, page, hit>>
         \/ freed /\ Over("undefined")
         \/ ~listed /\ ~freed /\ Over("raised")

-----------------------------------------------------------------------------
(* Calls that return -1 at once, without any effect, are not steps.        *)
Call(t) ==
  \/ \E size \in Sizes : tls_create(t, size)
  \/ tls_destroy(t)
  \/ \E r \in Ranges : tls_write(t, r[1], r[2]) \/ tls_read(t, r[1], r[2])
  \/ \E tid \in Threads : tls_clone(t, tid)
  \/ \E p \in Pages : tls_handle_page_fault(t, p)

\* The call of t is about to use a page, or the target of its clone, that
\* another thread has freed.
UsesFreed(t) ==
  CASE pc[t] \in {"destroy_page", "destroy_store", "clone_store"} ->
         Unmapped(tls[t].pages[loc[t].i])
    [] pc[t] = "clone_load" ->
         LET ps == tls[loc[t].target].pages
         IN  IF loc[t].i \in DOMAIN ps THEN Unmapped(ps[loc[t].i]) ELSE TRUE
    [] pc[t] \in {"read_lock", "read_bytes", "write_lock"} \cup Writing ->
         (pagesOf(t) \cup {loc[t].old}) \cap Free # {}
    [] OTHER -> FALSE

Body(t) ==
  IF UsesFreed(t) THEN proc = "run" /\ Over("undefined") ELSE
    \/ CreateInit(t) \/ CreateMutex(t) \/ CreateFind(t) \/ Add(t)
    \/ DestroyPage(t) \/ DestroyStore(t)
    \/ ReadLock(t) \/ ReadBytes(t)
    \/ WriteLock(t) \/ WriteTest(t) \/ WriteLoad(t) \/ WriteStore(t) \/ WriteByte(t)
    \/ WriteEnd(t)
    \/ CloneLoad(t) \/ CloneStore(t)

Next == \E t \in Threads : Call(t) \/ Body(t)

Spec == Init /\ [][Next]_vars

\* The operating system runs every thread.
Fairness == \A t \in Threads : WF_vars(Body(t))

-----------------------------------------------------------------------------
Points == Writing \cup
  {"user", "gone", "create_init", "create_mutex", "create_find", "add", "destroy_page",
   "destroy_store", "read_lock", "read_bytes", "write_lock", "clone_load", "clone_store"}

(* A byte is written inside the storage area, also when offset + length    *)
(* wraps around in the test of tls_write.                                  *)
WritesInside == \A t \in Threads : pc[t] = "write_byte" => loc[t].i < tls[t].size

(* Every variable has its type, and WritesInside.                          *)
TypeOK ==
  /\ proc \in {"run", "killed", "raised", "undefined", "cycle"}
  /\ pc \in [Threads -> Points]
  /\ is_first_call \in BOOLEAN
  /\ mutex \in Threads \cup {NULL}
  /\ Table \in [0 .. HASH - 1 -> SUBSET (Threads \cup {NULL})]
  /\ \A t \in Threads : pagesOf(t) \subseteq Pages
  /\ WritesInside
  /\ \A p \in Pages : page[p].prot \in {"unmapped", "none", "read", "write"}
  /\ hit \subseteq Races \cup Leaks

\* The threads that count as users of page p: those whose TLS has it, up to
\* the steps that increment and decrement its ref_count.
Users(p) ==
  {t \in Threads :
     \/ \E i \in DOMAIN tls[t].pages :
          /\ tls[t].pages[i] = p
          /\ pc[t] \in {"destroy_page", "destroy_store"} => i >= loc[t].i
          /\ pc[t] = "clone_store" => i < loc[t].i
     \/ pc[t] \in {"write_load", "write_store"} /\ loc[t].old = p}

(* Reference counts are right, so that no page is unmapped while a thread  *)
(* has it: unless two threads update a count at the same time (only        *)
(* tls_write holds the mutex then), a clone and tls_destroy of its target  *)
(* overlap, or an Item is lost.  And none stays mapped after its last      *)
(* user, but for two leaks: the pages of a tls_create that ran out of      *)
(* pages, and the page that tls_write has just copied when tls_destroy of  *)
(* its other user came between the test of ref_count and the decrement.    *)
RefCounted ==
  proc = "run" /\ hit \cap {"count", "add", "destroy"} = {} =>
    \A p \in Pages :
      /\ Users(p) # {} => ~Unmapped(p) /\ page[p].ref_count = Cardinality(Users(p))
      /\ Users(p) = {} /\ hit \cap Leaks = {} => Unmapped(p)

(* A page can be accessed only while its user executes tls_read or         *)
(* tls_write with the mutex: unless the first calls of tls_create race and *)
(* one of them initialises a mutex that is held.                           *)
Protected ==
  proc = "run" /\ "init" \notin hit =>
    \A p \in Pages : page[p].prot \in {"read", "write"} =>
      \E t \in Threads :
        /\ mutex = t /\ pc[t] \in Writing \cup {"read_bytes"}
        /\ p \in pagesOf(t) \cup {loc[t].old}

(* A thread that has the mutex gives it back, whatever the others do.      *)
MutexReleased ==
  \A t \in Threads : mutex = t ~> mutex # t \/ proc # "run"

=============================================================================
