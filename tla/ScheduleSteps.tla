---------------------------- MODULE ScheduleSteps ----------------------------
(***************************************************************************)
(* schedule() statement by statement.  The handler is installed with       *)
(* SA_NODEFER, so SIGALRM can come while schedule() runs, called or as a    *)
(* handler, and start another schedule() on the same stack.  The stack of  *)
(* a thread is the sequence of its unfinished calls of schedule(); a       *)
(* thread without one is in its own code.  Threads have all been created.  *)
(***************************************************************************)
EXTENDS Integers, Sequences

CONSTANTS MAX_THREADS,
          MaxDepth,     \* bound: calls of schedule() on one stack
          MaxHits       \* bound: alarms InWindow

ASSUME ScheduleStepsAssumption == {MAX_THREADS, MaxDepth, MaxHits} \subseteq Nat \ {0}

VARIABLES
  status, TID,   \* as in Scheduler
  proc,          \* "run", or "lost" after a jump to a frame that is gone
  cpu,           \* whose stack the processor is on
  stack,         \* the unfinished calls of each thread, innermost last
  regs,          \* TCB_Table[t].regs: a stack and a frame in it, 0 for a new thread
  old_status, old_TID,  \* history: status and TID without the unfinished switch
  hits           \* history: how often the timer has fired InWindow

vars == <<status, TID, proc, cpu, stack, regs, old_status, old_TID, hits>>

Abs == INSTANCE Scheduler WITH status <- old_status, TID <- old_TID, proc <- proc

Threads == 0 .. MAX_THREADS - 1

Points == {"demote", "search", "save", "pick", "mark", "jump"}

Frame == [pc : Points, current_tid : Threads, saved : BOOLEAN]

NewFrame == [pc |-> "demote", current_tid |-> 0, saved |-> FALSE]

Init ==
  /\ status = [t \in Threads |-> IF t = 0 THEN Abs!TS_RUNNING ELSE Abs!TS_READY]
  /\ TID = 0
  /\ proc = "run"
  /\ cpu = 0
  /\ stack = [t \in Threads |-> <<>>]
  /\ regs = [t \in Threads |-> [own |-> t, frame |-> 0]]
  /\ old_status = status /\ old_TID = 0
  /\ hits = 0

-----------------------------------------------------------------------------
Depth == Len(stack[cpu])
Top == stack[cpu][Depth]

InUser == proc = "run" /\ Depth = 0
At(p) == proc = "run" /\ Depth > 0 /\ Top.pc = p

Call == stack' = [stack EXCEPT ![cpu] = Append(@, NewFrame)]

Goto(p) == stack' = [stack EXCEPT ![cpu][Depth].pc = p]

\* The callers: a thread that yields; one that marks itself EXITED or BLOCKED
\* while another can run; and one that makes a BLOCKED thread READY.  Each goes
\* on to call schedule().
Yield ==
  /\ InUser /\ Call
  /\ UNCHANGED <<status, TID, proc, cpu, regs, old_status, old_TID, hits>>

Stop(st) ==
  /\ InUser /\ Call
  /\ \E t \in Threads \ {TID} : status[t] \in {Abs!TS_READY, Abs!TS_RUNNING}
  /\ status' = [status EXCEPT ![TID] = st]
  /\ old_status' = status'
  /\ UNCHANGED <<TID, proc, cpu, regs, old_TID, hits>>

Wake(t) ==
  /\ InUser /\ Call
  /\ status[t] = Abs!TS_BLOCKED
  /\ status' = [status EXCEPT ![t] = Abs!TS_READY]
  /\ old_status' = status'
  /\ UNCHANGED <<TID, proc, cpu, regs, old_TID, hits>>

-----------------------------------------------------------------------------
(* The body of schedule() *)

\* Mutants: the search begins one thread early; or always at thread 0.
StartEarly == TID - 1
StartZero == 0

\* Where the search begins.
Start == TID

DemoteStep ==
  /\ At("demote")
  /\ status' = [status EXCEPT ![TID] = IF @ = Abs!TS_RUNNING THEN Abs!TS_READY ELSE @]
  /\ stack' = [stack EXCEPT ![cpu][Depth] = [@ EXCEPT !.pc = "search", !.current_tid = Start]]
  /\ UNCHANGED <<TID, proc, cpu, regs, old_status, old_TID, hits>>

\* Mutant: the highest thread is skipped.
AfterSkips(t) == IF t >= MAX_THREADS - 2 THEN 0 ELSE t + 1

After(t) == IF t = MAX_THREADS - 1 THEN 0 ELSE t + 1

\* One turn of the search loop.
SearchStep ==
  /\ At("search")
  /\ LET u == After(Top.current_tid) IN
     stack' = [stack EXCEPT ![cpu][Depth] =
                 [@ EXCEPT !.current_tid = u,
                           !.pc = IF status[u] = Abs!TS_READY THEN "save" ELSE "search"]]
  /\ UNCHANGED <<status, TID, proc, cpu, regs, old_status, old_TID, hits>>

\* Mutant: the registers are saved as those of the next thread.
SaverNext == Top.current_tid

\* Whose registers are saved.
Saver == TID

\* setjmp, which returns 0 now and 1 when the thread is switched to.
SaveStep ==
  /\ At("save")
  /\ \/ /\ status[TID] # Abs!TS_EXITED
        /\ regs' = [regs EXCEPT ![Saver] = [own |-> cpu, frame |-> Depth]]
        /\ stack' = [stack EXCEPT ![cpu][Depth] = [@ EXCEPT !.pc = "pick", !.saved = TRUE]]
     \/ /\ status[TID] = Abs!TS_EXITED
        /\ Goto("pick")
        /\ UNCHANGED regs
  /\ UNCHANGED <<status, TID, proc, cpu, old_status, old_TID, hits>>

PickStep ==
  /\ At("pick")
  /\ TID' = Top.current_tid
  /\ Goto("mark")
  /\ UNCHANGED <<status, proc, cpu, regs, old_status, old_TID, hits>>

MarkStep ==
  /\ At("mark")
  /\ status' = [status EXCEPT ![TID] = Abs!TS_RUNNING]
  /\ Goto("jump")
  /\ UNCHANGED <<TID, proc, cpu, regs, old_status, old_TID, hits>>

\* The frame is still there in which setjmp was called (0: a new stack).
Intact(r) ==
  r.frame <= Len(stack[r.own]) /\ (r.frame > 0 => stack[r.own][r.frame].saved)

\* longjmp: a new thread starts; otherwise schedule() returns, in the frame in
\* which setjmp was called, to whatever it interrupted or was called by.  What
\* happens when that frame is gone is undefined.
JumpStep ==
  /\ At("jump")
  /\ LET r == regs[TID] IN
     \/ /\ Intact(r)
        /\ cpu' = r.own
        /\ stack' = [stack EXCEPT ![r.own] =
                       IF r.frame = 0 THEN <<>> ELSE SubSeq(@, 1, r.frame - 1)]
        /\ UNCHANGED proc
     \/ /\ ~Intact(r)
        /\ proc' = "lost"
        /\ UNCHANGED <<cpu, stack>>
  /\ old_status' = status /\ old_TID' = TID
  /\ UNCHANGED <<status, TID, regs, hits>>

Body == DemoteStep \/ SearchStep \/ SaveStep \/ PickStep \/ MarkStep \/ JumpStep

\* From the write of the running thread's status on.
InWindow == Depth > 0 /\ Top.pc # "demote"

\* SIGALRM, wherever the processor is.
Alarm ==
  /\ proc = "run" /\ Depth < MaxDepth
  /\ Call
  /\ \/ ~InWindow /\ UNCHANGED hits
     \/ InWindow /\ hits < MaxHits /\ hits' = hits + 1
  /\ UNCHANGED <<status, TID, proc, cpu, regs, old_status, old_TID>>

Next ==
  \/ Yield \/ Stop(Abs!TS_EXITED) \/ Stop(Abs!TS_BLOCKED)
  \/ \E t \in Threads : Wake(t)
  \/ Body
  \/ Alarm

Spec == Init /\ [][Next]_vars

\* The processor goes on, and the timer is periodic.
FairSpec == Spec /\ WF_vars(Body) /\ WF_vars(Alarm)
-----------------------------------------------------------------------------
(* Properties *)

\* Every variable has its type.
TypeOK ==
  /\ status \in [Threads -> Abs!ThreadStatus] /\ old_status \in [Threads -> Abs!ThreadStatus]
  /\ {TID, old_TID, cpu} \subseteq Threads
  /\ proc \in {"run", "lost"}
  /\ \A t \in Threads : Len(stack[t]) <= MaxDepth /\ stack[t] \in Seq(Frame)
  /\ regs \in [Threads -> [own : Threads, frame : 0 .. MaxDepth]]
  /\ hits \in 0 .. MaxHits

\* A call of schedule() has the effect of Scheduler's schedule as one step, at
\* its longjmp, even if the timer fires before its first statement.
SwitchIsAtomic ==
  [][(hits = 0 /\ Depth > 0) =>
       Abs!schedule(old_status) \/ UNCHANGED <<old_status, old_TID>>]_vars

\* A thread that is in its own code is on its own stack, alone RUNNING, and
\* the others have a frame, or a fresh stack, of their own to go on from.
OwnStack ==
  (hits = 0 /\ InUser) =>
    /\ cpu = TID
    /\ \A t \in Threads : status[t] = Abs!TS_RUNNING <=> t = TID
    /\ \A t \in Threads \ {TID} :
         status[t] # Abs!TS_EXITED => regs[t].own = t /\ regs[t].frame = Len(stack[t])

HasProcessor(t) == cpu = t /\ status[t] = Abs!TS_RUNNING

\* A thread that waits for the processor gets it, unless the timer has fired in
\* the window or a jump was lost.
ReadyRuns ==
  \A t \in Threads :
    (status[t] = Abs!TS_READY) ~> (HasProcessor(t) \/ hits > 0)

\* The same wherever the timer fires, if no jump is lost: "an equal, fair share to
\* each thread".
FairShare ==
  \A t \in Threads :
    (status[t] \in {Abs!TS_READY, Abs!TS_RUNNING}) ~> (HasProcessor(t) \/ proc = "lost")
=============================================================================
