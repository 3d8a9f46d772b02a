------------------------ MODULE ScheduleStepsProofs -------------------------
(***************************************************************************)
(* schedule(), statement by statement, implements the schedule of          *)
(* Scheduler as long as the timer spares its window: for any number of     *)
(* threads, and any number of alarms before its first statement.           *)
(***************************************************************************)
EXTENDS ScheduleSteps, TLAPS

\* Where the processor is.
Point == IF Depth = 0 THEN "user" ELSE Top.pc

\* The statuses after the first statement of schedule().
Demoted == Abs!Demote(old_status)

\* Thread t can be returned to: its registers are those of its innermost frame.
Resumable(t) ==
  /\ regs[t].own = t /\ regs[t].frame = Len(stack[t])
  /\ Len(stack[t]) > 0 => stack[t][Len(stack[t])].saved

\* How far schedule() has come, and what it has done to status and TID.
Progress ==
  /\ Point \in {"user", "demote"} => status = old_status /\ TID = old_TID
  /\ Point \in {"search", "save", "pick"} => status = Demoted /\ TID = old_TID
  /\ Point = "search" =>
       \/ Top.current_tid = TID
       \/ \A v \in Threads : status[v] = Abs!TS_READY =>
            Abs!Gap(TID, Top.current_tid) < Abs!Gap(TID, v)
  /\ Point \in {"save", "pick"} => Abs!IsNext(Demoted, old_TID, Top.current_tid)
  /\ Point \in {"mark", "jump"} => Abs!IsNext(Demoted, old_TID, TID)
  /\ Point = "mark" => status = Demoted
  /\ Point = "jump" => status = [Demoted EXCEPT ![TID] = Abs!TS_RUNNING]
  /\ Point \in {"pick", "mark", "jump"} =>
       (Demoted[cpu] # Abs!TS_EXITED => Resumable(cpu))

\* The stacks: only the innermost call of schedule() has done anything, the
\* others were interrupted before their first statement.
Below(t) == \A k \in 1 .. Len(stack[t]) - 1 : stack[t][k].pc = "demote"

Stacks ==
  /\ \A t \in Threads : Below(t)
  /\ \A t \in Threads \ {cpu} : status[t] # Abs!TS_EXITED => Resumable(t)

Runs ==
  /\ cpu = old_TID
  /\ \A t \in Threads : status[t] = Abs!TS_RUNNING => t = TID
  /\ Depth = 0 => status[TID] = Abs!TS_RUNNING

Types == TypeOK /\ stack \in [Threads -> Seq(Frame)]

Calm == proc = "run" /\ Stacks /\ Runs /\ Progress

IInv == Types /\ (hits = 0 => Calm)

USE DEF Abs!TS_EXITED, Abs!TS_RUNNING, Abs!TS_READY, Abs!TS_EMPTY, Abs!TS_BLOCKED

-----------------------------------------------------------------------------
\* The search loop looks at the threads in the order of their gaps.
LEMMA Gaps ==
  ASSUME NEW t \in Threads, NEW c \in Threads
  PROVE  /\ After(c) \in Threads
         /\ Abs!Gap(t, After(t)) = 1
         /\ c # t => Abs!Gap(t, After(c)) = Abs!Gap(t, c) + 1
         /\ Abs!Gap(t, c) \in Int /\ Abs!Gap(t, c) >= 1
         /\ \A v \in Threads : Abs!Gap(t, c) = Abs!Gap(t, v) => c = v
BY ScheduleStepsAssumption DEF Threads, After, Abs!Gap

\* A call of schedule() adds a frame to the stack of the processor.
LEMMA Called ==
  ASSUME Types, Call
  PROVE  /\ stack' \in [Threads -> Seq(Frame)]
         /\ \A t \in Threads \ {cpu} : stack'[t] = stack[t]
         /\ Len(stack'[cpu]) = Depth + 1
         /\ \A k \in 1 .. Depth : stack'[cpu][k] = stack[cpu][k]
         /\ stack'[cpu][Depth + 1] = NewFrame
<1>1. cpu \in Threads /\ stack[cpu] \in Seq(Frame)
  BY DEF Types, TypeOK
<1>2. 0 \in Threads
  BY ScheduleStepsAssumption DEF Threads
<1>3. NewFrame \in Frame
  BY <1>2 DEF NewFrame, Frame, Points
<1> QED BY <1>1, <1>3 DEF Types, Call, Depth

\* A statement of schedule() changes the innermost frame.
LEMMA Changed ==
  ASSUME Types, Depth > 0, NEW f \in Frame,
         stack' = [stack EXCEPT ![cpu][Depth] = f]
  PROVE  /\ stack' \in [Threads -> Seq(Frame)]
         /\ \A t \in Threads \ {cpu} : stack'[t] = stack[t]
         /\ Len(stack'[cpu]) = Depth
         /\ \A k \in 1 .. Depth - 1 : stack'[cpu][k] = stack[cpu][k]
         /\ stack'[cpu][Depth] = f
<1>1. cpu \in Threads /\ stack[cpu] \in Seq(Frame)
  BY DEF Types, TypeOK
<1> QED BY <1>1 DEF Types, Depth

\* What every statement of schedule() but the last does to the stack.
Moved(p, c, b) ==
  /\ stack' \in [Threads -> Seq(Frame)]
  /\ \A t \in Threads \ {cpu} : stack'[t] = stack[t]
  /\ Len(stack'[cpu]) = Depth
  /\ \A k \in 1 .. Depth - 1 : stack'[cpu][k] = stack[cpu][k]
  /\ stack'[cpu][Depth].pc = p /\ stack'[cpu][Depth].current_tid = c
  /\ stack'[cpu][Depth].saved = b

\* The statements up to longjmp are such steps.
LEMMA Statements ==
  ASSUME Types, proc = "run"
  PROVE  /\ DemoteStep => Moved("search", TID, Top.saved)
         /\ SearchStep => Moved(IF status[After(Top.current_tid)] = Abs!TS_READY
                                THEN "save" ELSE "search", After(Top.current_tid), Top.saved)
         /\ SaveStep => Moved("pick", Top.current_tid,
                              IF status[TID] # Abs!TS_EXITED THEN TRUE ELSE Top.saved)
         /\ PickStep => Moved("mark", Top.current_tid, Top.saved)
         /\ MarkStep => Moved("jump", Top.current_tid, Top.saved)
<1>1. cpu \in Threads /\ TID \in Threads /\ stack[cpu] \in Seq(Frame) /\ Depth \in Nat
  BY DEF Types, TypeOK, Depth
<1>2. ASSUME Depth > 0
      PROVE  Top \in Frame
  BY <1>1, <1>2 DEF Depth, Top
<1>3. Depth > 0 => After(Top.current_tid) \in Threads
  BY <1>2, Gaps DEF Frame
<1>4. ASSUME DemoteStep PROVE Moved("search", TID, Top.saved)
  <2>1. PICK f : f = [Top EXCEPT !.pc = "search", !.current_tid = TID]
    OBVIOUS
  <2>2. Depth > 0 /\ stack' = [stack EXCEPT ![cpu][Depth] = f]
    BY <1>1, <1>4, <2>1 DEF DemoteStep, At, Top, Start
  <2>3. f \in Frame /\ f.pc = "search" /\ f.current_tid = TID /\ f.saved = Top.saved
    BY <1>1, <1>2, <2>1, <2>2 DEF Frame, Points
  <2> QED BY <1>4, <2>2, <2>3, Changed DEF Moved
<1>5. ASSUME SearchStep, NEW u, u = After(Top.current_tid),
             NEW q, q = IF status[u] = Abs!TS_READY THEN "save" ELSE "search"
      PROVE  Moved(q, u, Top.saved)
  <2>1. PICK f : f = [Top EXCEPT !.current_tid = u, !.pc = q]
    OBVIOUS
  <2>2. Depth > 0 /\ stack' = [stack EXCEPT ![cpu][Depth] = [@ EXCEPT !.current_tid = u, !.pc = q]]
    BY <1>5, Zenon DEF SearchStep, At
  <2>4. stack' = [stack EXCEPT ![cpu][Depth] = f]
    BY <1>1, <2>1, <2>2 DEF Top
  <2>3. f \in Frame /\ f.pc = q /\ f.current_tid = u /\ f.saved = Top.saved
    BY <1>1, <1>2, <1>3, <1>5, <2>1, <2>2 DEF Frame, Points, SearchStep, At
  <2> QED BY <1>5, <2>2, <2>3, <2>4, Changed DEF Moved
<1>6. ASSUME SaveStep, status[TID] # Abs!TS_EXITED PROVE Moved("pick", Top.current_tid, TRUE)
  <2>1. PICK f : f = [Top EXCEPT !.pc = "pick", !.saved = TRUE]
    OBVIOUS
  <2>2. Depth > 0 /\ stack' = [stack EXCEPT ![cpu][Depth] = f]
    BY <1>1, <1>6, <2>1 DEF SaveStep, At, Top
  <2>3. f \in Frame /\ f.pc = "pick" /\ f.current_tid = Top.current_tid /\ f.saved = TRUE
    BY <1>1, <1>2, <2>1, <2>2 DEF Frame, Points
  <2> QED BY <1>6, <2>2, <2>3, Changed DEF Moved
<1>7. ASSUME NEW p \in Points, Depth > 0, Goto(p)
      PROVE  Moved(p, Top.current_tid, Top.saved)
  <2>1. PICK f : f = [Top EXCEPT !.pc = p]
    OBVIOUS
  <2>2. stack' = [stack EXCEPT ![cpu][Depth] = f]
    BY <1>1, <1>7, <2>1 DEF Goto, Top
  <2>3. f \in Frame /\ f.pc = p /\ f.current_tid = Top.current_tid /\ f.saved = Top.saved
    BY <1>1, <1>2, <1>7, <2>1, <2>2 DEF Frame, Points
  <2> QED BY <1>7, <2>2, <2>3, Changed DEF Moved
<1>8. ASSUME SaveStep, status[TID] = Abs!TS_EXITED
      PROVE  Moved("pick", Top.current_tid, Top.saved)
  BY <1>7, <1>8 DEF SaveStep, At, Points
<1>9. PickStep => Moved("mark", Top.current_tid, Top.saved)
  BY <1>7 DEF PickStep, At, Points
<1>10. MarkStep => Moved("jump", Top.current_tid, Top.saved)
  BY <1>7 DEF MarkStep, At, Points
<1> QED BY <1>4, <1>5, <1>6, <1>8, <1>9, <1>10

\* longjmp to a frame that is there cuts the stack back to below that frame.
LEMMA Jumped ==
  ASSUME Types, NEW r, r = regs[TID], Intact(r), JumpStep
  PROVE  /\ r.own \in Threads /\ r.frame \in 0 .. Len(stack[r.own])
         /\ cpu' = r.own /\ proc' = proc
         /\ stack' \in [Threads -> Seq(Frame)]
         /\ \A t \in Threads \ {r.own} : stack'[t] = stack[t]
         /\ Len(stack'[r.own]) = IF r.frame = 0 THEN 0 ELSE r.frame - 1
         /\ \A k \in 1 .. r.frame - 1 : stack'[r.own][k] = stack[r.own][k]
<1>1. r.own \in Threads /\ r.frame \in Nat /\ TID \in Threads
  BY DEF Types, TypeOK
<1>2. stack[r.own] \in Seq(Frame) /\ r.frame <= Len(stack[r.own])
  BY <1>1 DEF Types, Intact
<1>3. /\ cpu' = r.own /\ proc' = proc
      /\ stack' = [stack EXCEPT ![r.own] =
                     IF r.frame = 0 THEN <<>> ELSE SubSeq(@, 1, r.frame - 1)]
  BY DEF JumpStep
<1>4. CASE r.frame = 0
  <2>1. stack' = [stack EXCEPT ![r.own] = <<>>]
    BY <1>3, <1>4
  <2>2. <<>> \in Seq(Frame) /\ Len(<<>>) = 0
    OBVIOUS
  <2> QED BY <1>1, <1>2, <1>3, <1>4, <2>1, <2>2 DEF Types
<1>5. CASE r.frame > 0
  <2>1. PICK s : s = SubSeq(stack[r.own], 1, r.frame - 1)
    OBVIOUS
  <2>2. s \in Seq(Frame) /\ Len(s) = r.frame - 1
        /\ \A k \in 1 .. r.frame - 1 : s[k] = stack[r.own][k]
    BY <1>1, <1>2, <1>5, <2>1
  <2>3. stack' = [stack EXCEPT ![r.own] = s]
    <3>1. r.frame # 0
      BY <1>1, <1>5
    <3>2. stack' = [stack EXCEPT ![r.own] = SubSeq(stack[r.own], 1, r.frame - 1)]
      BY <1>3, <3>1, Zenon
    <3> QED BY <2>1, <3>2, Zenon
  <2> QED BY <1>1, <1>2, <1>3, <1>5, <2>2, <2>3 DEF Types
<1> QED BY <1>1, <1>4, <1>5

\* Every step preserves the types.
LEMMA TypeStep == Types /\ [Next]_vars => Types'
<1> SUFFICES ASSUME Types, [Next]_vars PROVE Types'
  OBVIOUS
<1>1. /\ cpu \in Threads /\ TID \in Threads /\ old_TID \in Threads /\ Depth \in 0 .. MaxDepth
      /\ MaxDepth \in Nat \ {0} /\ MaxHits \in Nat \ {0}
      /\ \A t \in Threads : stack[t] \in Seq(Frame) /\ Len(stack[t]) \in 0 .. MaxDepth
  BY ScheduleStepsAssumption DEF Types, TypeOK, Depth
<1>2. ASSUME Call, Depth < MaxDepth
      PROVE  /\ stack' \in [Threads -> Seq(Frame)]
             /\ \A t \in Threads : Len(stack'[t]) <= MaxDepth
  BY <1>1, <1>2, Called
<1>3. ASSUME NEW p, NEW c, NEW b, Moved(p, c, b)
      PROVE  /\ stack' \in [Threads -> Seq(Frame)]
             /\ \A t \in Threads : Len(stack'[t]) <= MaxDepth
  <2>1. /\ stack' \in [Threads -> Seq(Frame)]
        /\ \A t \in Threads \ {cpu} : Len(stack'[t]) = Len(stack[t])
        /\ Len(stack'[cpu]) = Depth
    BY <1>3, Zenon DEF Moved
  <2> QED BY <1>1, <2>1
<1>4. CASE Yield
  BY <1>1, <1>2, <1>4 DEF Yield, InUser, Types, TypeOK
<1>5. ASSUME NEW st \in Abs!ThreadStatus, Stop(st) PROVE Types'
  BY <1>1, <1>2, <1>5 DEF Stop, InUser, Types, TypeOK
<1>6. ASSUME NEW t \in Threads, Wake(t) PROVE Types'
  BY <1>1, <1>2, <1>6 DEF Wake, InUser, Types, TypeOK, Abs!ThreadStatus
<1>7. CASE DemoteStep
  BY <1>1, <1>3, <1>7, Statements DEF DemoteStep, At, Types, TypeOK, Abs!ThreadStatus
<1>8. CASE SearchStep
  BY <1>1, <1>3, <1>8, Statements DEF SearchStep, At, Types, TypeOK
<1>9. CASE SaveStep
  <2>1. regs' \in [Threads -> [own : Threads, frame : 0 .. MaxDepth]]
    <3>1. PICK r : r = [own |-> cpu, frame |-> Depth]
      OBVIOUS
    <3>2. r \in [own : Threads, frame : 0 .. MaxDepth]
      BY <1>1, <3>1
    <3>3. regs' = [regs EXCEPT ![TID] = r] \/ regs' = regs
      BY <1>9, <3>1 DEF SaveStep, Saver
    <3> QED BY <1>1, <3>2, <3>3 DEF Types, TypeOK
  <2> QED BY <1>1, <1>3, <1>9, <2>1, Statements DEF SaveStep, At, Types, TypeOK
<1>10. CASE PickStep
  <2>1. Depth > 0 => Top \in Frame
    BY <1>1 DEF Depth, Top
  <2>2. Depth > 0 => Top.current_tid \in Threads
    BY <2>1 DEF Frame
  <2> QED BY <1>1, <1>3, <1>10, <2>2, Statements DEF PickStep, At, Types, TypeOK
<1>11. CASE MarkStep
  BY <1>1, <1>3, <1>11, Statements DEF MarkStep, At, Types, TypeOK, Abs!ThreadStatus
<1>12. CASE JumpStep
  <2>1. CASE Intact(regs[TID])
    <3>1. stack' \in [Threads -> Seq(Frame)] /\ cpu' \in Threads /\ proc' = proc
          /\ \A t \in Threads : Len(stack'[t]) <= MaxDepth
      <4>1. PICK r : r = regs[TID]
        OBVIOUS
      <4>2. /\ r.own \in Threads /\ r.frame \in 0 .. Len(stack[r.own])
            /\ cpu' = r.own /\ proc' = proc
            /\ stack' \in [Threads -> Seq(Frame)]
            /\ \A t \in Threads \ {r.own} : Len(stack'[t]) = Len(stack[t])
            /\ Len(stack'[r.own]) = IF r.frame = 0 THEN 0 ELSE r.frame - 1
        BY <1>12, <2>1, <4>1, Jumped, Zenon
      <4>3. Len(stack[r.own]) \in 0 .. MaxDepth
        BY <1>1, <4>2
      <4>4. Len(stack'[r.own]) <= MaxDepth
        BY <1>1, <4>2, <4>3
      <4>5. \A t \in Threads \ {r.own} : Len(stack'[t]) <= MaxDepth
        BY <1>1, <4>2
      <4> QED BY <4>2, <4>4, <4>5
    <3> QED BY <1>1, <1>12, <3>1 DEF JumpStep, Types, TypeOK
  <2>2. CASE ~Intact(regs[TID])
    BY <1>1, <1>12, <2>2 DEF JumpStep, Types, TypeOK
  <2> QED BY <2>1, <2>2
<1>13. CASE Alarm
  BY <1>1, <1>2, <1>13 DEF Alarm, Types, TypeOK
<1>14. CASE UNCHANGED vars
  BY <1>14 DEF vars, Types, TypeOK
<1> QED
  BY <1>4, <1>5, <1>6, <1>7, <1>8, <1>9, <1>10, <1>11, <1>12, <1>13, <1>14
     DEF Next, Body, Abs!ThreadStatus

-----------------------------------------------------------------------------
\* A stack that stays the same can be returned to as before.
LEMMA SameStack ==
  ASSUME NEW t \in Threads, stack'[t] = stack[t]
  PROVE  /\ Below(t) => Below(t)'
         /\ regs'[t] = regs[t] => (Resumable(t) <=> Resumable(t)')
BY DEF Below, Resumable

\* The processor after a statement of schedule().
LEMMA AfterStatement ==
  ASSUME Types, Stacks, Depth > 0, NEW p, NEW c, NEW b, Moved(p, c, b), cpu' = cpu
  PROVE  /\ Depth' = Depth /\ Point' = p
         /\ Top'.current_tid = c /\ Top'.saved = b
         /\ \A t \in Threads : Below(t)'
         /\ \A t \in Threads \ {cpu} : regs'[t] = regs[t] => (Resumable(t) <=> Resumable(t)')
<1>1. cpu \in Threads /\ stack[cpu] \in Seq(Frame) /\ Depth \in Nat
  BY DEF Types, TypeOK, Depth
<1>2. Depth' = Depth
  BY DEF Moved, Depth
<1>3. Point' = p /\ Top'.current_tid = c /\ Top'.saved = b
  BY <1>2 DEF Moved, Point, Top
<1>4. Below(cpu)'
  BY <1>1 DEF Moved, Stacks, Below, Depth
<1> QED BY <1>2, <1>3, <1>4, SameStack DEF Moved, Stacks

\* The processor after a call of schedule() by a thread, or by an alarm before
\* the first statement of another one.
LEMMA AfterCall ==
  ASSUME Types, Stacks, Call, cpu' = cpu, Point \in {"user", "demote"}
  PROVE  /\ Depth' = Depth + 1 /\ Point' = "demote"
         /\ \A t \in Threads : Below(t)'
         /\ \A t \in Threads \ {cpu} : regs'[t] = regs[t] => (Resumable(t) <=> Resumable(t)')
<1>1. cpu \in Threads /\ stack[cpu] \in Seq(Frame) /\ Depth \in Nat
  BY DEF Types, TypeOK, Depth
<1>2. /\ \A t \in Threads \ {cpu} : stack'[t] = stack[t]
      /\ Len(stack'[cpu]) = Depth + 1
      /\ \A k \in 1 .. Depth : stack'[cpu][k] = stack[cpu][k]
      /\ stack'[cpu][Depth + 1] = NewFrame
  BY Called
<1>3. Depth' = Depth + 1
  BY <1>2 DEF Depth
<1>4. Point' = "demote"
  BY <1>1, <1>2, <1>3 DEF Point, Top, NewFrame
<1>5. \A k \in 1 .. Depth : stack[cpu][k].pc = "demote"
  <2>1. \A k \in 1 .. Depth - 1 : stack[cpu][k].pc = "demote"
    BY <1>1 DEF Stacks, Below, Depth
  <2>2. ASSUME Depth > 0 PROVE stack[cpu][Depth].pc = "demote"
    <3>1. Top \in Frame
      BY <1>1, <2>2 DEF Top, Depth
    <3> QED BY <2>2, <3>1 DEF Point, Top, Frame, Points
  <2> QED BY <1>1, <2>1, <2>2
<1>6. Below(cpu)'
  BY <1>1, <1>2, <1>5 DEF Below
<1> QED BY <1>2, <1>3, <1>4, <1>6, SameStack DEF Stacks

-----------------------------------------------------------------------------
\* Callers and alarms leave the switch complete.
LEMMA CallSteps ==
  ASSUME Types, Calm, hits' = 0,
         Yield \/ Alarm \/ (\E st \in {Abs!TS_EXITED, Abs!TS_BLOCKED} : Stop(st))
         \/ (\E t \in Threads : Wake(t)),
         hits = 0
  PROVE  Calm'
<1>1. cpu \in Threads /\ TID \in Threads /\ old_TID \in Threads /\ Depth \in Nat
      /\ status \in [Threads -> Abs!ThreadStatus] /\ stack[cpu] \in Seq(Frame)
  BY DEF Types, TypeOK, Depth
<1>2. Call /\ cpu' = cpu /\ TID' = TID /\ old_TID' = old_TID /\ regs' = regs /\ proc' = proc
  BY DEF Yield, Alarm, Stop, Wake
<1>3. Point \in {"user", "demote"}
  <2>1. Depth > 0 => Top \in Frame
    BY <1>1 DEF Top, Depth
  <2> QED BY <1>1, <2>1 DEF Yield, Alarm, Stop, Wake, InUser, InWindow, Point, Frame, Points
<1>4. status' = old_status' /\ TID' = old_TID'
  BY <1>2, <1>3 DEF Calm, Progress, Yield, Alarm, Stop, Wake
<1> DEFINE Statuses ==
      /\ \A t \in Threads : status'[t] = Abs!TS_RUNNING => t = TID
      /\ \A t \in Threads \ {cpu} : status'[t] # Abs!TS_EXITED => status[t] # Abs!TS_EXITED
<1>5. Statuses
  <2>1. TID = cpu
    BY <1>3 DEF Calm, Runs, Progress
  <2>2. CASE Yield \/ Alarm
    BY <2>2 DEF Calm, Runs, Yield, Alarm
  <2>3. ASSUME NEW st \in {Abs!TS_EXITED, Abs!TS_BLOCKED}, Stop(st) PROVE Statuses
    BY <1>1, <2>1, <2>3 DEF Calm, Runs, Stop
  <2>4. ASSUME NEW t \in Threads, Wake(t) PROVE Statuses
    BY <1>1, <2>4 DEF Calm, Runs, Wake
  <2> QED BY <2>2, <2>3, <2>4
<1>6. /\ Depth' = Depth + 1 /\ Point' = "demote"
      /\ \A t \in Threads : Below(t)'
      /\ \A t \in Threads \ {cpu} : Resumable(t) <=> Resumable(t)'
  BY <1>2, <1>3, AfterCall DEF Calm
<1>7. Stacks'
  BY <1>2, <1>5, <1>6 DEF Calm, Stacks
<1>8. Runs'
  BY <1>1, <1>2, <1>5, <1>6 DEF Calm, Runs
<1>9. Progress'
  BY <1>4, <1>6 DEF Progress
<1> QED BY <1>2, <1>7, <1>8, <1>9 DEF Calm

-----------------------------------------------------------------------------
\* Facts that all statements of schedule() start from.
LEMMA Running ==
  ASSUME Types, Calm, NEW p \in Points, At(p)
  PROVE  /\ Depth > 0 /\ Depth \in Nat /\ Top \in Frame /\ Top.current_tid \in Threads
         /\ Point = p /\ cpu = old_TID
         /\ cpu \in Threads /\ TID \in Threads
         /\ status \in [Threads -> Abs!ThreadStatus]
         /\ old_status \in [Threads -> Abs!ThreadStatus]
         /\ Demoted \in [Threads -> Abs!ThreadStatus]
         /\ Demoted[old_TID] # Abs!TS_RUNNING
<1>1. stack[cpu] \in Seq(Frame) /\ Depth > 0 /\ Depth \in Nat /\ cpu \in Threads
  BY DEF Types, TypeOK, Depth, At
<1>2. Top \in Frame
  BY <1>1 DEF Top, Depth
<1>3. Top.current_tid \in Threads
  BY <1>2 DEF Frame
<1>4. /\ TID \in Threads /\ old_TID \in Threads
      /\ status \in [Threads -> Abs!ThreadStatus]
      /\ old_status \in [Threads -> Abs!ThreadStatus]
  BY DEF Types, TypeOK
<1>5. /\ Demoted \in [Threads -> Abs!ThreadStatus]
      /\ Demoted[old_TID] # Abs!TS_RUNNING
  BY <1>4 DEF Demoted, Abs!Demote, Abs!ThreadStatus
<1> QED BY <1>1, <1>2, <1>3, <1>4, <1>5 DEF At, Point, Calm, Runs

\* The first statement demotes the running thread.
LEMMA DemoteCalm == ASSUME Types, Calm, DemoteStep PROVE Calm'
<1>1. At("demote") /\ "demote" \in Points
  BY DEF DemoteStep, Points
<1>2. Point = "demote" /\ status = old_status /\ TID = old_TID /\ proc = "run"
  BY <1>1, Running DEF Calm, Progress
<1>3. Moved("search", TID, Top.saved)
  BY <1>2, Statements
<1>4. /\ cpu' = cpu /\ TID' = TID /\ old_TID' = old_TID /\ regs' = regs /\ proc' = proc
      /\ old_status' = old_status
  BY DEF DemoteStep
<1>5. /\ Depth' = Depth /\ Point' = "search" /\ Top'.current_tid = TID
      /\ \A t \in Threads : Below(t)'
      /\ \A t \in Threads \ {cpu} : Resumable(t) <=> Resumable(t)'
  BY <1>1, <1>3, <1>4, AfterStatement, Running DEF Calm
<1>6. status' = Demoted /\ Demoted' = Demoted
  BY <1>2, <1>4 DEF DemoteStep, Demoted, Abs!Demote
<1>7. \A t \in Threads : Demoted[t] # Abs!TS_RUNNING
  BY <1>1, <1>2, Running DEF Calm, Runs, Demoted, Abs!Demote, Abs!ThreadStatus
<1>8. \A t \in Threads \ {cpu} : status'[t] = status[t]
  BY <1>1, <1>2, Running DEF DemoteStep
<1>9. Stacks'
  BY <1>4, <1>5, <1>8 DEF Calm, Stacks
<1>10. Runs'
  BY <1>1, <1>4, <1>5, <1>6, <1>7, Running DEF Calm, Runs
<1>11. Progress'
  BY <1>2, <1>4, <1>5, <1>6 DEF Progress
<1> QED BY <1>2, <1>4, <1>9, <1>10, <1>11 DEF Calm

\* The search goes on, or has found the next thread.
LEMMA SearchCalm == ASSUME Types, Calm, SearchStep PROVE Calm'
<1> DEFINE c == Top.current_tid
           u == After(c)
<1>1. At("search") /\ "search" \in Points
  BY DEF SearchStep, Points
<1>2. Point = "search" /\ status = Demoted /\ TID = old_TID /\ proc = "run"
  BY <1>1, Running DEF Calm, Progress
<1>3. PICK q : /\ q = IF status[u] = Abs!TS_READY THEN "save" ELSE "search"
               /\ Moved(q, u, Top.saved)
  BY <1>2, Statements
<1>4. /\ cpu' = cpu /\ TID' = TID /\ old_TID' = old_TID /\ regs' = regs /\ proc' = proc
      /\ old_status' = old_status /\ status' = status
  BY DEF SearchStep
<1>5. /\ Depth' = Depth /\ Point' = q /\ Top'.current_tid = u
      /\ \A t \in Threads : Below(t)'
      /\ \A t \in Threads \ {cpu} : Resumable(t) <=> Resumable(t)'
  BY <1>1, <1>3, <1>4, AfterStatement, Running DEF Calm
<1>6. Demoted' = Demoted
  BY <1>4 DEF Demoted, Abs!Demote
<1>7. Stacks' /\ Runs'
  BY <1>1, <1>4, <1>5, Running DEF Calm, Stacks, Runs
<1>8. \A v \in Threads : status[v] = Abs!TS_READY => Abs!Gap(TID, u) <= Abs!Gap(TID, v)
  <2>1. c \in Threads /\ TID \in Threads
    BY <1>1, Running
  <2>2. \/ c = TID
        \/ \A v \in Threads : status[v] = Abs!TS_READY => Abs!Gap(TID, c) < Abs!Gap(TID, v)
    BY <1>2 DEF Calm, Progress
  <2>3. CASE c = TID
    BY <2>1, <2>3, Gaps
  <2>4. CASE /\ c # TID
             /\ \A v \in Threads : status[v] = Abs!TS_READY => Abs!Gap(TID, c) < Abs!Gap(TID, v)
    BY <2>1, <2>4, Gaps
  <2> QED BY <2>2, <2>3, <2>4
<1>9. CASE status[u] = Abs!TS_READY
  <2>1. Abs!IsNext(Demoted, old_TID, u)
    BY <1>2, <1>8, <1>9 DEF Abs!IsNext, Abs!Threads, Threads
  <2>2. Progress'
    BY <1>2, <1>3, <1>4, <1>5, <1>6, <1>9, <2>1 DEF Progress
  <2> QED BY <1>2, <1>4, <1>7, <2>2 DEF Calm
<1>10. CASE status[u] # Abs!TS_READY
  <2>1. \A v \in Threads : status[v] = Abs!TS_READY => Abs!Gap(TID, u) < Abs!Gap(TID, v)
    BY <1>1, <1>8, <1>10, Running, Gaps
  <2>2. Progress'
    BY <1>2, <1>3, <1>4, <1>5, <1>6, <1>10, <2>1 DEF Progress
  <2> QED BY <1>2, <1>4, <1>7, <2>2 DEF Calm
<1> QED BY <1>9, <1>10

\* setjmp makes the calling thread one that can be returned to, unless it exits.
LEMMA SaveCalm == ASSUME Types, Calm, SaveStep PROVE Calm'
<1>1. At("save") /\ "save" \in Points
  BY DEF SaveStep, Points
<1>2. /\ Point = "save" /\ status = Demoted /\ TID = old_TID /\ proc = "run" /\ cpu = TID
      /\ Abs!IsNext(Demoted, old_TID, Top.current_tid)
  BY <1>1, Running DEF Calm, Progress
<1>3. PICK b : /\ status[TID] # Abs!TS_EXITED => b = TRUE
               /\ Moved("pick", Top.current_tid, b)
  BY <1>2, Statements
<1>4. /\ cpu' = cpu /\ TID' = TID /\ old_TID' = old_TID /\ proc' = proc
      /\ old_status' = old_status /\ status' = status
      /\ \A t \in Threads \ {cpu} : regs'[t] = regs[t]
  BY <1>1, <1>2, Running DEF SaveStep, Saver, Types, TypeOK
<1>5. /\ Depth' = Depth /\ Point' = "pick" /\ Top'.current_tid = Top.current_tid /\ Top'.saved = b
      /\ \A t \in Threads : Below(t)'
      /\ \A t \in Threads \ {cpu} : Resumable(t) <=> Resumable(t)'
  BY <1>1, <1>3, <1>4, AfterStatement, Running DEF Calm
<1>6. Demoted' = Demoted
  BY <1>4 DEF Demoted, Abs!Demote
<1>7. Stacks' /\ Runs'
  BY <1>1, <1>4, <1>5, Running DEF Calm, Stacks, Runs
<1>8. Demoted[cpu] # Abs!TS_EXITED => Resumable(cpu)'
  <2>1. ASSUME status[TID] # Abs!TS_EXITED
        PROVE  regs'[cpu].own = cpu /\ regs'[cpu].frame = Depth
    BY <1>1, <1>2, <2>1, Running DEF SaveStep, Saver, Types, TypeOK
  <2>2. Depth' = Len(stack'[cpu]) /\ Top' = stack'[cpu][Len(stack'[cpu])]
    BY <1>4 DEF Depth, Top
  <2> QED BY <1>2, <1>3, <1>4, <1>5, <2>1, <2>2 DEF Resumable
<1>9. Progress'
  BY <1>2, <1>4, <1>5, <1>6, <1>8 DEF Progress
<1> QED BY <1>2, <1>4, <1>7, <1>9 DEF Calm

\* Between setjmp and longjmp the frame of the calling thread keeps its mark.
LEMMA StillResumable ==
  ASSUME Types, Depth > 0, NEW p, Moved(p, Top.current_tid, Top.saved), cpu' = cpu, regs' = regs,
         Resumable(cpu)
  PROVE  Resumable(cpu)'
<1>1. Len(stack'[cpu]) = Len(stack[cpu]) /\ stack'[cpu][Len(stack[cpu])].saved = Top.saved
  BY DEF Moved, Depth
<1> QED BY <1>1 DEF Resumable, Top, Depth

\* The next thread becomes the current one.
LEMMA PickCalm == ASSUME Types, Calm, PickStep PROVE Calm'
<1>1. At("pick") /\ "pick" \in Points
  BY DEF PickStep, Points
<1>2. /\ Point = "pick" /\ status = Demoted /\ TID = old_TID /\ proc = "run" /\ cpu = old_TID
      /\ Abs!IsNext(Demoted, old_TID, Top.current_tid)
      /\ Demoted[cpu] # Abs!TS_EXITED => Resumable(cpu)
  BY <1>1, Running DEF Calm, Progress
<1>3. Moved("mark", Top.current_tid, Top.saved)
  BY <1>2, Statements
<1>4. /\ cpu' = cpu /\ TID' = Top.current_tid /\ old_TID' = old_TID /\ proc' = proc
      /\ old_status' = old_status /\ status' = status /\ regs' = regs
  BY DEF PickStep
<1>5. /\ Depth' = Depth /\ Point' = "mark"
      /\ \A t \in Threads : Below(t)'
      /\ \A t \in Threads \ {cpu} : Resumable(t) <=> Resumable(t)'
  BY <1>1, <1>3, <1>4, AfterStatement, Running DEF Calm
<1>6. Demoted' = Demoted
  BY <1>4 DEF Demoted, Abs!Demote
<1>7. \A t \in Threads : status[t] # Abs!TS_RUNNING
  BY <1>1, <1>2, Running DEF Calm, Runs
<1>8. Stacks' /\ Runs'
  BY <1>1, <1>4, <1>5, <1>7, Running DEF Calm, Stacks, Runs
<1>9. Demoted[cpu] # Abs!TS_EXITED => Resumable(cpu)'
  BY <1>1, <1>2, <1>3, <1>4, StillResumable, Running
<1>10. Progress'
  BY <1>2, <1>4, <1>5, <1>6, <1>9 DEF Progress
<1> QED BY <1>2, <1>4, <1>8, <1>10 DEF Calm

\* The next thread is marked as RUNNING.
LEMMA MarkCalm == ASSUME Types, Calm, MarkStep PROVE Calm'
<1>1. At("mark") /\ "mark" \in Points
  BY DEF MarkStep, Points
<1>2. /\ Point = "mark" /\ status = Demoted /\ proc = "run" /\ cpu = old_TID
      /\ Abs!IsNext(Demoted, old_TID, TID)
      /\ Demoted[cpu] # Abs!TS_EXITED => Resumable(cpu)
  BY <1>1, Running DEF Calm, Progress
<1>3. Moved("jump", Top.current_tid, Top.saved)
  BY <1>2, Statements
<1>4. /\ cpu' = cpu /\ TID' = TID /\ old_TID' = old_TID /\ proc' = proc
      /\ old_status' = old_status /\ regs' = regs
      /\ status' = [Demoted EXCEPT ![TID] = Abs!TS_RUNNING]
  BY <1>2 DEF MarkStep
<1>5. /\ Depth' = Depth /\ Point' = "jump"
      /\ \A t \in Threads : Below(t)'
      /\ \A t \in Threads \ {cpu} : Resumable(t) <=> Resumable(t)'
  BY <1>1, <1>3, <1>4, AfterStatement, Running DEF Calm
<1>6. Demoted' = Demoted
  BY <1>4 DEF Demoted, Abs!Demote
<1>7. \A t \in Threads : status'[t] # Abs!TS_EXITED => status[t] # Abs!TS_EXITED
  BY <1>1, <1>2, <1>4, Running DEF Abs!IsNext
<1>8. Stacks'
  BY <1>4, <1>5, <1>7 DEF Calm, Stacks
<1>9. Runs'
  BY <1>1, <1>2, <1>4, <1>5, Running DEF Calm, Runs
<1>10. Demoted[cpu] # Abs!TS_EXITED => Resumable(cpu)'
  BY <1>1, <1>2, <1>3, <1>4, StillResumable, Running
<1>11. Progress'
  BY <1>2, <1>4, <1>5, <1>6, <1>10 DEF Progress
<1> QED BY <1>2, <1>4, <1>8, <1>9, <1>11 DEF Calm

\* longjmp finds its frame and completes the switch: to its callers, schedule()
\* has been one step.
LEMMA JumpCalm == ASSUME Types, Calm, JumpStep PROVE Calm' /\ Abs!schedule(old_status)
<1>1. At("jump") /\ "jump" \in Points
  BY DEF JumpStep, Points
<1>2. /\ Point = "jump" /\ proc = "run" /\ cpu = old_TID
      /\ status = [Demoted EXCEPT ![TID] = Abs!TS_RUNNING]
      /\ Abs!IsNext(Demoted, old_TID, TID)
      /\ Demoted[cpu] # Abs!TS_EXITED => Resumable(cpu)
  BY <1>1, Running DEF Calm, Progress
<1>3. /\ cpu \in Threads /\ TID \in Threads /\ status[TID] = Abs!TS_RUNNING
      /\ Demoted[TID] = Abs!TS_READY
      /\ \A t \in Threads \ {TID} : status[t] = Demoted[t]
  BY <1>1, <1>2, Running DEF Abs!IsNext
<1>4. Resumable(TID)
  BY <1>2, <1>3 DEF Calm, Stacks
<1>5. Intact(regs[TID])
  <2>1. stack[TID] \in Seq(Frame)
    BY <1>3 DEF Types
  <2> QED BY <1>4, <2>1 DEF Resumable, Intact
<1>6. /\ cpu' = TID /\ proc' = proc
      /\ \A t \in Threads \ {TID} : stack'[t] = stack[t]
      /\ Len(stack'[TID]) = IF Len(stack[TID]) = 0 THEN 0 ELSE Len(stack[TID]) - 1
      /\ \A k \in 1 .. Len(stack[TID]) - 1 : stack'[TID][k] = stack[TID][k]
      /\ Len(stack[TID]) \in Nat
  <2>1. PICK r : r = regs[TID]
    OBVIOUS
  <2>2. r.own = TID /\ r.frame = Len(stack[TID])
    BY <1>4, <2>1 DEF Resumable
  <2>3. stack[TID] \in Seq(Frame)
    BY <1>3 DEF Types
  <2>4. /\ cpu' = r.own /\ proc' = proc
        /\ \A t \in Threads \ {r.own} : stack'[t] = stack[t]
        /\ Len(stack'[r.own]) = IF r.frame = 0 THEN 0 ELSE r.frame - 1
        /\ \A k \in 1 .. r.frame - 1 : stack'[r.own][k] = stack[r.own][k]
    BY <1>5, <2>1, Jumped, Zenon
  <2> QED BY <2>2, <2>3, <2>4
<1>7. /\ status' = status /\ old_status' = status /\ TID' = TID /\ old_TID' = TID
      /\ regs' = regs
  BY DEF JumpStep
<1>8. \A k \in 1 .. Len(stack'[TID]) : stack'[TID][k].pc = "demote"
  BY <1>3, <1>6 DEF Calm, Stacks, Below
<1>9. Point' \in {"user", "demote"}
  <2>1. Depth' = Len(stack'[TID]) /\ Depth' \in Nat
    BY <1>6 DEF Depth
  <2>2. Top' = stack'[TID][Depth']
    BY <1>6 DEF Top
  <2>3. CASE Depth' = 0
    BY <2>3 DEF Point
  <2>4. CASE Depth' > 0
    BY <1>8, <2>1, <2>2, <2>4 DEF Point
  <2> QED BY <2>1, <2>3, <2>4
<1>10. \A t \in Threads : Below(t)'
  <2>1. Below(TID)'
    BY <1>6, <1>7, <1>8 DEF Below
  <2> QED BY <1>6, <1>7, <2>1, SameStack DEF Calm, Stacks
<1>11. \A t \in Threads \ {TID} : status[t] # Abs!TS_EXITED => Resumable(t)'
  <2>1. \A t \in Threads \ {TID} : status[t] # Abs!TS_EXITED => Resumable(t)
    BY <1>2, <1>3 DEF Calm, Stacks
  <2> QED BY <1>6, <1>7, <2>1, SameStack
<1>12. Stacks'
  BY <1>6, <1>7, <1>10, <1>11 DEF Stacks
<1>13. Runs'
  BY <1>3, <1>6, <1>7 DEF Calm, Runs
<1>14. Progress'
  BY <1>7, <1>9 DEF Progress
<1>15. Abs!schedule(old_status)
  BY <1>2, <1>3, <1>6, <1>7 DEF Abs!schedule, Demoted, Abs!Threads, Threads
<1> QED BY <1>2, <1>6, <1>12, <1>13, <1>14, <1>15 DEF Calm

-----------------------------------------------------------------------------
\* The switch is as its progress says, while the timer spares the window.
LEMMA CalmStep == ASSUME Types, hits = 0 => Calm, [Next]_vars, hits' = 0 PROVE Calm'
<1>1. hits = 0
  BY ScheduleStepsAssumption
     DEF Types, TypeOK, Next, Yield, Stop, Wake, Body, DemoteStep, SearchStep, SaveStep, PickStep,
         MarkStep, JumpStep, Alarm, vars
<1>2. CASE UNCHANGED vars
  BY <1>1, <1>2 DEF vars, Calm, Stacks, Runs, Progress, Point, Depth, Top, Below, Resumable,
                    Demoted, Abs!Demote
<1> QED
  BY <1>1, <1>2, CallSteps, DemoteCalm, SearchCalm, SaveCalm, PickCalm, MarkCalm, JumpCalm
     DEF Next, Body

\* The inductive invariant holds in every behaviour.
LEMMA Invariance == Spec => []IInv
<1>1. Init => IInv
  <2> SUFFICES ASSUME Init PROVE IInv
    OBVIOUS
  <2>1. 0 \in Threads /\ MaxDepth \in Nat /\ MaxHits \in Nat
    BY ScheduleStepsAssumption DEF Threads
  <2>2. <<>> \in Seq(Frame) /\ Len(<<>>) = 0
    OBVIOUS
  <2>3. Types
    BY <2>1, <2>2 DEF Init, Types, TypeOK, Abs!ThreadStatus
  <2>4. Depth = 0 /\ Point = "user"
    BY <2>1, <2>2 DEF Init, Depth, Point
  <2>5. Stacks /\ Runs
    BY <2>1, <2>2, <2>4 DEF Init, Stacks, Runs, Below, Resumable
  <2>6. Progress
    BY <2>4 DEF Init, Progress
  <2> QED BY <2>3, <2>5, <2>6 DEF IInv, Calm, Init
<1>2. IInv /\ [Next]_vars => IInv'
  BY TypeStep, CalmStep DEF IInv
<1> QED BY <1>1, <1>2, PTL DEF Spec

\* Every variable keeps its type, for any number of threads.
THEOREM TypesHold == Spec => []TypeOK
<1>1. IInv => TypeOK
  BY DEF IInv, Types
<1> QED BY <1>1, Invariance, PTL

\* A thread in its own code is on its own stack and the only one RUNNING, and
\* every other thread that has not exited can go on from where it was.
THEOREM EveryoneHasTheirStack == Spec => []OwnStack
<1>1. IInv => OwnStack
  BY DEF IInv, Calm, OwnStack, InUser, Runs, Stacks, Progress, Point, Resumable
<1> QED BY <1>1, Invariance, PTL

\* schedule() implements the schedule of Scheduler: for any number of threads
\* its statements amount to that one step, taken at longjmp, until the timer
\* fires between its first write and the longjmp.
THEOREM ScheduleIsAtomic == Spec => SwitchIsAtomic
<1>1. IInv /\ [Next]_vars =>
        [(hits = 0 /\ Depth > 0) =>
           Abs!schedule(old_status) \/ UNCHANGED <<old_status, old_TID>>]_vars
  <2> SUFFICES ASSUME Types, Calm, Next, Depth > 0
               PROVE  Abs!schedule(old_status) \/ UNCHANGED <<old_status, old_TID>>
    BY DEF IInv
  <2> QED
    BY JumpCalm DEF Next, Yield, Stop, Wake, InUser, Alarm, Body, DemoteStep, SearchStep, SaveStep,
                    PickStep, MarkStep
<1> QED BY <1>1, Invariance, PTL DEF Spec, SwitchIsAtomic
=============================================================================
