------------------------------- MODULE Threads -------------------------------
(***************************************************************************)
(* Creation and termination of threads: pthread_create and pthread_exit,   *)
(* statement by statement where a SIGALRM can make a difference, with a    *)
(* timer that may fire before any of them.                                 *)
(***************************************************************************)
EXTENDS Scheduler

VARIABLES
  is_first_call,   \* pthread_create's static flag
  pc,              \* where each thread is: in its own code or in the library
  slot,            \* pthread_create's local current_tid, per calling thread
  created,         \* history: how often each id was handed out as *thread
  hit              \* history: the Windows in which the timer has fired

vars == <<status, TID, proc, is_first_call, pc, slot, created, hit>>

Points == {"user", "create_init", "create_find", "create_setup", "create_sched",
           "exit_scan"}

\* Places where the code would need lock()/unlock() around it: between
\* ualarm() and the first READY status, between the choice of an EMPTY slot
\* and the write of its status, and after the write of TS_EXITED.
Windows == {"create_init", "create_setup", "exit_scan"}

\* The TCB table is a zero-initialised global, and TS_EXITED is 0.
Init ==
  /\ status = [t \in Threads |-> TS_EXITED]
  /\ TID = 0
  /\ proc = "run"
  /\ is_first_call = TRUE
  /\ pc = [t \in Threads |-> "user"]
  /\ slot = [t \in Threads |-> 0]
  /\ created = [t \in Threads |-> 0]
  /\ hit = {}

At(p) == proc = "run" /\ pc[TID] = p

Goto(p) == pc' = [pc EXCEPT ![TID] = p]

-----------------------------------------------------------------------------
(* pthread_create *)

\* The first call runs scheduler_init: every slot EMPTY, and the timer armed.
scheduler_init ==
  /\ At("user")
  /\ is_first_call
  /\ status' = [t \in Threads |-> TS_EMPTY]
  /\ Goto("create_init")
  /\ UNCHANGED <<TID, proc, is_first_call, slot, created, hit>>

\* The main thread becomes thread 0, READY (not RUNNING).
CreateFirst ==
  /\ At("create_init")
  /\ is_first_call' = FALSE
  /\ status' = [status EXCEPT ![0] = TS_READY]
  /\ Goto("create_find")
  /\ UNCHANGED <<TID, proc, slot, created, hit>>

\* Mutant: the search runs one slot too far.
EmptySlotsBeyond ==
  {s \in 1 .. MAX_THREADS : s = MAX_THREADS \/ status[s] = TS_EMPTY}

EmptySlots == {s \in Threads \ {0} : status[s] = TS_EMPTY}

\* The lowest EMPTY slot is chosen and its number stored in *thread, or the
\* process gives up: the slots of threads that exited are never EMPTY again.
CreateFind ==
  /\ At("create_find") \/ (At("user") /\ ~is_first_call)
  /\ \/ /\ EmptySlots = {}
        /\ proc' = "exit_failure"
        /\ UNCHANGED <<pc, slot, created>>
     \/ \E s \in EmptySlots :
          /\ \A r \in EmptySlots : s <= r
          /\ slot' = [slot EXCEPT ![TID] = s]
          /\ created' = [created EXCEPT ![s] = @ + 1]
          /\ Goto("create_setup")
          /\ UNCHANGED proc
  /\ UNCHANGED <<status, TID, is_first_call, hit>>

\* Mutant: the slot stays EMPTY.
CreateSetupStaysEmpty ==
  /\ At("create_setup")
  /\ pc' = [pc EXCEPT ![slot[TID]] = "user", ![TID] = "create_sched"]
  /\ UNCHANGED <<status, TID, proc, is_first_call, slot, created, hit>>

\* Registers and stack are set up, so that the slot's thread starts (again)
\* from start_thunk, and the status becomes READY.
CreateSetup ==
  /\ At("create_setup")
  /\ status' = [status EXCEPT ![slot[TID]] = TS_READY]
  /\ pc' = [pc EXCEPT ![slot[TID]] = "user", ![TID] = "create_sched"]
  /\ UNCHANGED <<TID, proc, is_first_call, slot, created, hit>>

CreateSched ==
  /\ At("create_sched")
  /\ schedule(status)
  /\ Goto("user")
  /\ UNCHANGED <<is_first_call, slot, created, hit>>

-----------------------------------------------------------------------------
(* pthread_exit, also reached when a start routine returns *)

ExitMark ==
  /\ At("user")
  /\ status' = [status EXCEPT ![TID] = TS_EXITED]
  /\ Goto("exit_scan")
  /\ UNCHANGED <<TID, proc, is_first_call, slot, created, hit>>

\* Mutants: threads that have exited are counted; every thread is.
threads_left_exited == \E t \in Threads : status[t] # TS_EMPTY
threads_left_always == TRUE

threads_left ==
  \E t \in Threads : status[t] \in {TS_READY, TS_RUNNING, TS_BLOCKED}

\* Switch away for good, or free the stacks and exit(0).
ExitScan ==
  /\ At("exit_scan")
  /\ \/ threads_left /\ schedule(status)
     \/ ~threads_left /\ proc' = "exit0" /\ UNCHANGED <<status, TID>>
  /\ UNCHANGED <<is_first_call, pc, slot, created, hit>>

\* main() returns: the C runtime ends the process, whoever else is running.
MainReturn ==
  /\ At("user")
  /\ TID = 0
  /\ proc' = "main_returned"
  /\ UNCHANGED <<status, TID, is_first_call, pc, slot, created, hit>>

-----------------------------------------------------------------------------
\* SIGALRM: schedule() runs as the handler, on the stack of the running thread.
Alarm ==
  /\ proc = "run"
  /\ ~is_first_call \/ pc[0] = "create_init"
  /\ schedule(status)
  /\ hit' = hit \cup ({pc[TID]} \cap Windows)
  /\ UNCHANGED <<is_first_call, pc, slot, created>>

\* In scheduler_init the timer is started before the handler is installed, and
\* the default action of SIGALRM ends the process.
AlarmUnhandled ==
  /\ At("create_init")
  /\ proc' = "killed"
  /\ hit' = hit \cup {"create_init"}
  /\ UNCHANGED <<status, TID, is_first_call, pc, slot, created>>

Library == scheduler_init \/ CreateFirst \/ CreateFind \/ CreateSetup
           \/ CreateSched \/ ExitMark \/ ExitScan

Next == Library \/ MainReturn \/ Alarm \/ AlarmUnhandled

Spec == Init /\ [][Next]_vars

\* A call the thread has begun goes on when the thread has the processor: a
\* turn is up to 50 ms long, so not every turn of it ends before one statement.
InCall(t) ==
  TID = t /\ (CreateFirst \/ (CreateFind /\ pc[TID] = "create_find")
              \/ CreateSetup \/ CreateSched \/ ExitScan)

\* ualarm() makes the timer periodic.
FairSpec == Spec /\ WF_vars(Alarm) /\ \A t \in Threads : SF_vars(InCall(t))
-----------------------------------------------------------------------------
(* Properties *)

\* Every variable has its type; this library has no blocked threads yet.
TypeOK ==
  /\ status \in [Threads -> ThreadStatus \ {TS_BLOCKED}]
  /\ TID \in Threads
  /\ proc \in ProcStates
  /\ is_first_call \in BOOLEAN
  /\ pc \in [Threads -> Points]
  /\ slot \in [Threads -> Threads]
  /\ created \in [Threads -> Nat]
  /\ hit \in SUBSET Windows

\* pthread_create hands out an id once, and so never restarts a thread that
\* exists, unless the timer has fired between its search for an EMPTY slot
\* and its write of the slot's status.
UniqueIds == "create_setup" \notin hit => \A t \in Threads : created[t] <= 1

\* schedule()'s search loop always ends, unless the timer has fired during the
\* first scheduler_init or after pthread_exit wrote TS_EXITED.
SearchEnds == proc = "spin" => hit \cap {"create_init", "exit_scan"} # {}

\* At most the thread TID is RUNNING, and outside the windows it can run on:
\* it is RUNNING or READY, so a timer that fires finds a thread to switch to.
RunningIsTID ==
  /\ \A t \in Threads : status[t] = TS_RUNNING => t = TID
  /\ (proc = "run" /\ ~is_first_call /\ pc[TID] \notin Windows)
       => status[TID] \in {TS_RUNNING, TS_READY}

\* A thread whose id pthread_create has handed out, and later every thread that
\* waits for the processor, gets to run, unless the process ends before or the
\* timer has let two creators set up the same slot (which restarts its thread
\* in the middle of what it was doing).
CreatedRuns ==
  \A t \in Threads :
    (created[t] > 0 /\ status[t] \in {TS_EMPTY, TS_READY})
      ~> (status[t] = TS_RUNNING \/ proc # "run" \/ "create_setup" \in hit)

AllGone ==
  ~is_first_call /\ \A t \in Threads : status[t] \in {TS_EXITED, TS_EMPTY}

\* When the last thread has called pthread_exit the process exits with status
\* 0, unless the timer fires in one of the windows.
LastExitEnds == AllGone ~> (proc = "exit0" \/ hit # {})

\* The same without the exception, which is what the documentation promises.
ProcessExits == AllGone ~> (proc = "exit0")
=============================================================================
