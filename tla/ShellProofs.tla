----------------------------- MODULE ShellProofs ----------------------------
(***************************************************************************)
(* Proofs about Shell, for any lines, any number of children and any       *)
(* capacity of the pipes.                                                  *)
(***************************************************************************)
EXTENDS Shell, TLAPS

\* The children are records with the fields of noProc.
IsProc(r) ==
  r = [state |-> r.state, command |-> r.command, background |-> r.background,
       first |-> r.first, last |-> r.last, input |-> r.input, stdin |-> r.stdin,
       stdout |-> r.stdout, writes |-> r.writes, todo |-> r.todo]

Children == DOMAIN proc = Pids /\ proc = [p \in Pids |-> proc[p]] /\ \A p \in Pids : IsProc(proc[p])

\* A child in the foreground is the last one, and the shell is waiting.
OnlyChildIsAlive ==
  early \/ \A p \in Alive : proc[p].background \/ (p = child /\ pc \in {"call_wait", "waiting"})

\* The pipe ends that the shell has open, by the place where it is.
OpenEnds ==
  fds \subseteq CASE pc = "prompt" -> {}
                  [] pc = "exec" -> {<<input, "read">>}
                  [] OTHER -> {<<input, "read">>, <<child, "read">>, <<child, "write">>}

IInv == Children /\ OnlyChildIsAlive /\ OpenEnds

\* The record of a child that does not exist has the fields of a child.
LEMMA NoProcIsProc == IsProc(noProc)
<1> DEFINE f(b) == [state |-> "none", command |-> noCommand, background |-> b,
                    first |-> b, last |-> b, input |-> 0, stdin |-> Tty,
                    stdout |-> Tty, writes |-> b, todo |-> 0]
<1>1. ASSUME NEW b PROVE IsProc(f(b))
  BY DEF IsProc
<1>2. IsProc(f(FALSE))
  BY <1>1
<1> QED BY <1>2 DEF noProc

\* At the start every child has its fields.
LEMMA ChildrenInit == Init => Children
BY NoProcIsProc DEF Init, Children

\* Every step keeps the fields of every child.
LEMMA ChildrenStep == Children /\ [Next]_vars => Children'
<1> SUFFICES ASSUME Children, [Next]_vars PROVE Children'
  OBVIOUS
<1> USE DEF Children, IsProc
<1>1. CASE UNCHANGED proc
  BY <1>1
<1>2. CASE Fork
  BY <1>2 DEF Fork, noProc
<1>3. CASE Wait
  BY <1>3 DEF Wait, In
<1>4. CASE signalHandler
  BY <1>4 DEF signalHandler
<1>5. ASSUME NEW p \in Pids, Process(p) PROVE Children'
  <2>1. CASE Exec(p)
    <3>1. ASSUME NEW in, NEW out, NEW w, NEW n,
                 proc' = [proc EXCEPT ![p].state = "running", ![p].stdin = in,
                                      ![p].stdout = out, ![p].writes = w, ![p].todo = n]
          PROVE  Children'
      BY <3>1
    <3>2. PICK n :
            proc' = [proc EXCEPT ![p].state = "running", ![p].stdin = stdin(p),
                                 ![p].stdout = stdout(p),
                                 ![p].writes = ~proc[p].background \/ fd1(p) # PipeOf(p),
                                 ![p].todo = n]
      BY <2>1, Zenon DEF Exec
    <3> HIDE DEF Children
    <3> QED BY <3>1, <3>2, Zenon
  <2>2. CASE ExecFails(p) \/ Exit(p)
    BY <2>2, NoProcIsProc DEF ExecFails, Exit, Ended
  <2>3. CASE Read(p)
    BY <2>3 DEF Read
  <2>4. CASE Write(p)
    BY <2>4 DEF Write
  <2> QED BY <1>5, <2>1, <2>2, <2>3, <2>4 DEF Process
<1> QED
  BY <1>1, <1>2, <1>3, <1>4, <1>5
     DEF Next, Shell, vars, world, ReadLine, EndOfInput, CallWait, Close

-----------------------------------------------------------------------------
\* The invariant behind PromptAfterCommands is preserved by every step.
LEMMA OnlyChildStep == Children /\ OnlyChildIsAlive /\ [Next]_vars => OnlyChildIsAlive'
<1> SUFFICES ASSUME Children, OnlyChildIsAlive, [Next]_vars PROVE OnlyChildIsAlive'
  OBVIOUS
<1> USE DEF OnlyChildIsAlive, Alive, In
<1>1. CASE early /\ early' = early
  BY <1>1
<1>2. CASE UNCHANGED <<proc, child, early>> /\ pc \notin {"call_wait", "waiting"}
  BY <1>2
<1>3. CASE UNCHANGED vars
  BY <1>3 DEF vars
<1>4. CASE CallWait
  BY <1>4 DEF CallWait, world
<1>5. CASE Fork
  <2> DEFINE c == [noProc EXCEPT !.state = "forked", !.command = Head(my_pipeline.commands),
                     !.background = my_pipeline.is_background, !.first = first, !.last = last,
                     !.input = input, !.writes = TRUE]
  <2>1. c.background = my_pipeline.is_background
    BY DEF noProc
  <2>2. pc = "exec" /\ child' = child + 1 /\ proc' = [proc EXCEPT ![child + 1] = c]
        /\ early' = early /\ pc' = IF waits THEN "call_wait" ELSE "close"
    BY <1>5 DEF Fork
  <2> HIDE DEF c
  <2>3. ASSUME NEW p \in Alive', ~early PROVE proc'[p].background \/ (p = child' /\ pc' = "call_wait")
    BY <2>1, <2>2, <2>3 DEF Children, waits
  <2> QED BY <2>2, <2>3
<1>6. CASE Wait
  <2>1. CASE Alive = {} /\ UNCHANGED <<proc, early>>
    BY <2>1
  <2>2. ASSUME NEW p \in In("zombie"), proc' = [proc EXCEPT ![p].state = "reaped"],
               early' = (early \/ p # child), child' = child
        PROVE  OnlyChildIsAlive'
    <3>1. \A q \in Alive' : q # p /\ q \in Alive /\ proc'[q].background = proc[q].background
      BY <2>2 DEF Children, IsProc
    <3> QED BY <2>2, <3>1
  <2> QED BY <1>6, <2>1, <2>2 DEF Wait
<1>7. CASE signalHandler
  <2>1. UNCHANGED <<pc, child, early>>
    BY <1>7 DEF signalHandler
  <2>2. \A q \in Alive' : q \in Alive /\ proc'[q].background = proc[q].background
    BY <1>7 DEF signalHandler, Children, IsProc
  <2> QED BY <2>1, <2>2
<1>8. ASSUME NEW p \in Pids, Process(p) PROVE OnlyChildIsAlive'
  <2>1. UNCHANGED <<pc, child, early>>
    BY <1>8 DEF Process, Exec, ExecFails, Read, Write, Exit
  <2>2. \A q \in Alive' : q \in Alive /\ proc'[q].background = proc[q].background
    <3>1. CASE Exec(p)
      BY <3>1 DEF Exec, Children, IsProc
    <3>2. CASE ExecFails(p) \/ Exit(p)
      <4>1. PICK r : r.state = "zombie" /\ proc' = [proc EXCEPT ![p] = r]
        BY <3>2, NoProcIsProc DEF ExecFails, Exit, Ended, IsProc
      <4> QED BY <4>1 DEF Children
    <3>3. CASE Read(p)
      BY <3>3 DEF Read, Children
    <3>4. CASE Write(p)
      BY <3>4 DEF Write, Children, IsProc
    <3> QED BY <1>8, <3>1, <3>2, <3>3, <3>4 DEF Process
  <2> QED BY <2>1, <2>2
<1> QED
  BY <1>1, <1>2, <1>3, <1>4, <1>5, <1>6, <1>7, <1>8
     DEF Next, Shell, world, ReadLine, EndOfInput, Close

-----------------------------------------------------------------------------
\* Whatever a command opens is closed by the end of the next one.
LEMMA OpenEndsStep == OpenEnds /\ [Next]_vars => OpenEnds'
<1> SUFFICES ASSUME OpenEnds, [Next]_vars PROVE OpenEnds'
  OBVIOUS
<1> USE DEF OpenEnds
<1>1. CASE UNCHANGED <<pc, input, child, fds>>
  BY <1>1
<1>2. ASSUME NEW command_line, ReadLine(command_line) PROVE OpenEnds'
  BY <1>2 DEF ReadLine
<1>3. CASE EndOfInput
  BY <1>3 DEF EndOfInput, main
<1>4. CASE Fork
  BY <1>4 DEF Fork, main
<1>5. CASE CallWait \/ Wait
  BY <1>5 DEF CallWait, Wait, main
<1>6. CASE Close
  BY <1>6 DEF Close, closedEnds
<1> QED
  BY <1>1, <1>2, <1>3, <1>4, <1>5, <1>6
     DEF Next, Shell, vars, main, signalHandler, Process, Exec, ExecFails, Read, Write, Exit

-----------------------------------------------------------------------------
\* The inductive invariant holds in every behaviour.
LEMMA Invariance == Spec => []IInv
<1>1. Init => IInv
  BY ChildrenInit DEF IInv, Init, OnlyChildIsAlive, OpenEnds, Alive, In, noProc
<1>2. IInv /\ [Next]_vars => IInv'
  BY ChildrenStep, OnlyChildStep, OpenEndsStep DEF IInv
<1> QED BY <1>1, <1>2, PTL DEF Spec

\* The shell prompts when the commands of a foreground pipeline have ended, as
\* long as wait has returned for the child it was called for: whatever the
\* lines, the programs and the moments at which children end.
THEOREM PromptComesLast == Spec => []PromptAfterCommands
<1>1. IInv => PromptAfterCommands
  BY Zenon DEF IInv, OnlyChildIsAlive, PromptAfterCommands
<1> QED BY <1>1, Invariance, PTL

\* At the prompt every pipe end is closed, so that descriptors do not run out
\* however many lines are read.
THEOREM PipesAreClosed == Spec => []PipesClosed
<1>1. IInv => PipesClosed
  BY DEF IInv, OpenEnds, PipesClosed
<1> QED BY <1>1, Invariance, PTL
=============================================================================
