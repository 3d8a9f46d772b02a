------------------------------- MODULE Shell --------------------------------
(***************************************************************************)
(* The shell, myshell.c: the main loop, execCommand with its pipe and its  *)
(* child, and the SIGCHLD handler, among the processes they start.  What   *)
(* programs do is external: they read their input, write an amount of      *)
(* output and end.                                                         *)
(***************************************************************************)
EXTENDS Parser, FiniteSets

CONSTANTS
  MaxProcs,    \* bound: the children of a session, numbered as they are forked
  CAPACITY,    \* what a pipe holds, in units of output
  MaxOutput,   \* bound: the units of output of a program
  CommandLines \* bound: the lines that fgets reads

ASSUME ShellAssumption == {MaxProcs, CAPACITY, MaxOutput} \subseteq Nat \ {0}

Pids == 1 .. MaxProcs

VARIABLES
  pc,          \* where the shell is
  my_pipeline, \* the commands not yet started, and is_background
  input, first,
  child,       \* the last child, 0 before the first
  fds,         \* the pipe ends that the shell has open
  pending,     \* SIGCHLD has been sent and not handled
  proc,        \* the children
  fill,        \* the units in the pipe that was made for each child
  early        \* history: wait returned for another child than the last

vars == <<pc, my_pipeline, input, first, child, fds, pending, proc, fill, early>>

main == <<my_pipeline, input, first>>
world == <<proc, fill, pending>>

\* Files that a descriptor can refer to.
Tty == <<"tty">>
File(path) == <<"file", path>>
PipeOf(p) == <<"pipe", p>>
Closed == <<"closed">>

noProc ==
  [state |-> "none", command |-> noCommand, background |-> FALSE, first |-> FALSE,
   last |-> FALSE, input |-> 0, stdin |-> Tty, stdout |-> Tty, writes |-> FALSE, todo |-> 0]

Init ==
  /\ pc = "prompt" /\ pending = FALSE /\ early = FALSE
  /\ my_pipeline = [commands |-> <<>>, is_background |-> FALSE]
  /\ input = 0 /\ first = TRUE /\ child = 0 /\ fds = {}
  /\ proc = [p \in Pids |-> noProc]
  /\ fill = [p \in Pids |-> 0]

In(state) == {p \in Pids : proc[p].state = state}
Alive == In("forked") \cup In("running")
Over == {"exit", "crashed"}

-----------------------------------------------------------------------------
(* main *)

ReadLine(command_line) ==
  LET pipeline == pipeline_build(command_line)
  IN  /\ pc = "prompt"
      /\ child + Len(pipeline.commands) <= MaxProcs
      /\ my_pipeline' = pipeline
      /\ input' = 0 /\ first' = TRUE
      /\ pc' = IF \E i \in DOMAIN pipeline.commands : pipeline.commands[i].crash
               THEN "crashed" ELSE "exec"
      /\ UNCHANGED <<world, child, fds, early>>

\* The end of the input.  Before the first line, my_pipeline has no value, and
\* what pipeline_free makes of it is undefined.
EndOfInput ==
  /\ pc = "prompt"
  /\ \/ pc' = "exit"
     \/ my_pipeline.commands = <<>> /\ pc' = "crashed"
  /\ UNCHANGED <<main, world, child, fds, early>>

-----------------------------------------------------------------------------
(* execCommand *)

last == Len(my_pipeline.commands) = 1

\* Mutant: the last command is not waited for.
waitsNotForLast == ~my_pipeline.is_background /\ ~last

waits == ~my_pipeline.is_background

\* pipe and fork.
Fork ==
  LET p == child + 1
  IN  /\ pc = "exec"
      /\ child' = p
      /\ fds' = fds \cup {<<p, "read">>, <<p, "write">>}
      /\ proc' = [proc EXCEPT ![p] =
           [noProc EXCEPT !.state = "forked", !.command = Head(my_pipeline.commands),
              !.background = my_pipeline.is_background, !.first = first, !.last = last,
              !.input = input, !.writes = TRUE]]
      /\ pc' = IF waits THEN "call_wait" ELSE "close"
      /\ UNCHANGED <<main, fill, pending, early>>

\* The system call wait(&status) begins: from here on it is served before
\* the handler.
CallWait == pc = "call_wait" /\ pc' = "waiting" /\ UNCHANGED <<main, world, child, fds, early>>

\* Any child will do, and without children wait fails at once.
Wait ==
  /\ pc = "waiting" /\ pc' = "close"
  /\ \/ \E p \in In("zombie") :
          /\ proc' = [proc EXCEPT ![p].state = "reaped"]
          /\ early' = (early \/ p # child)
     \/ Alive \cup In("zombie") = {} /\ UNCHANGED <<proc, early>>
  /\ UNCHANGED <<main, child, fds, fill, pending>>

\* Mutants: the read end of the last pipe stays open, or every write end.
closedEndsNotLast == {<<child, "write">>, <<input, "read">>}

closedEndsRead == {<<input, "read">>} \cup (IF last THEN {<<child, "read">>} ELSE {})

closedEnds ==
  {<<child, "write">>, <<input, "read">>} \cup (IF last THEN {<<child, "read">>} ELSE {})

\* The closing, and on to the next command or line.
Close ==
  /\ pc = "close"
  /\ fds' = fds \ closedEnds
  /\ input' = child /\ first' = FALSE
  /\ IF last
     THEN pc' = "prompt" /\ UNCHANGED my_pipeline
     ELSE pc' = "exec" /\ my_pipeline' = [my_pipeline EXCEPT !.commands = Tail(@)]
  /\ UNCHANGED <<world, child, early>>

\* Mutant: waitpid is called once.
reapedByHandlerOne == {p \in In("zombie") : \A q \in In("zombie") : p <= q}

reapedByHandler == In("zombie")

\* It interrupts the shell anywhere, and wait where there is nothing to wait for.
signalHandler ==
  /\ pending /\ pc \notin Over
  /\ pc = "waiting" => In("zombie") = {}
  /\ pending' = FALSE
  /\ proc' = [p \in Pids |-> IF p \in reapedByHandler
                             THEN [proc[p] EXCEPT !.state = "reaped"] ELSE proc[p]]
  /\ UNCHANGED <<pc, main, child, fds, fill, early>>

-----------------------------------------------------------------------------
(* The child in execCommand *)

\* fd[1] after the redirections: the pipe, or the file that was opened last.
fd1(p) ==
  LET c == proc[p].command
  IN  IF c.redirect_in_path # NULL THEN File(c.redirect_in_path)
      ELSE IF c.redirect_out_path # NULL THEN File(c.redirect_out_path)
      ELSE PipeOf(p)

\* dup2 of fd[1], which a background child has closed, has no effect then.
dup2(p, std) == IF proc[p].background THEN std ELSE fd1(p)

stdout(p) ==
  IF ~proc[p].last \/ proc[p].command.redirect_out_path # NULL THEN dup2(p, Tty) ELSE Tty

\* The first child of a pipeline leaves its input alone, the others read the
\* pipe, a single one a file.
stdin(p) ==
  IF proc[p].first /\ proc[p].last /\ proc[p].command.redirect_in_path # NULL
  THEN dup2(p, Tty)
  ELSE IF proc[p].input = 0 THEN Tty ELSE PipeOf(proc[p].input)

\* A process ends: a zombie keeps no descriptors.
Ended(p) ==
  /\ proc' = [proc EXCEPT ![p] = [noProc EXCEPT !.state = "zombie", !.background = proc[p].background]]
  /\ pending' = TRUE

\* Only output to a pipe is counted.
Exec(p) ==
  /\ proc[p].state = "forked"
  /\ nth(proc[p].command.command_args, 1) # NULL
  /\ \E n \in IF stdout(p) = PipeOf(p) THEN 0 .. MaxOutput ELSE {0} :
       proc' = [proc EXCEPT ![p].state = "running", ![p].stdin = stdin(p), ![p].stdout = stdout(p),
                            ![p].writes = ~proc[p].background \/ fd1(p) # PipeOf(p),
                            ![p].todo = n]
  /\ UNCHANGED <<pc, main, child, fds, fill, pending, early>>

\* A file cannot be opened, or execvp fails.
ExecFails(p) ==
  proc[p].state = "forked" /\ Ended(p) /\ UNCHANGED <<pc, main, child, fds, fill, early>>

-----------------------------------------------------------------------------
(* Programs and pipes *)

\* The write end of pipe q is open somewhere.
HasWriter(q) == <<q, "write">> \in fds \/ (q \in Alive /\ proc[q].writes)

ReadsPipe(p, q) == proc[p].state = "running" /\ proc[p].stdin = PipeOf(q)
WritesPipe(p, q) == proc[p].state = "running" /\ proc[p].todo > 0 /\ proc[p].stdout = PipeOf(q)

Stuck(p) == \E q \in Pids : WritesPipe(p, q) /\ fill[q] = CAPACITY

Read(p) ==
  /\ \E q \in Pids : ReadsPipe(p, q) /\ fill[q] > 0 /\ fill' = [fill EXCEPT ![q] = @ - 1]
  /\ UNCHANGED <<pc, main, child, fds, pending, proc, early>>

Write(p) ==
  /\ \E q \in Pids : /\ WritesPipe(p, q) /\ fill[q] < CAPACITY
                     /\ fill' = [fill EXCEPT ![q] = @ + 1]
  /\ proc' = [proc EXCEPT ![p].todo = @ - 1]
  /\ UNCHANGED <<pc, main, child, fds, pending, early>>

Exit(p) ==
  /\ proc[p].state = "running" /\ proc[p].todo = 0
  /\ Ended(p)
  /\ UNCHANGED <<pc, main, child, fds, fill, early>>

\* p has read its input to the end.
Drained(p) == \A q \in Pids : ReadsPipe(p, q) => fill[q] = 0 /\ ~HasWriter(q)

-----------------------------------------------------------------------------
Shell == Fork \/ CallWait \/ Wait \/ Close
Process(p) == Exec(p) \/ ExecFails(p) \/ Read(p) \/ Write(p) \/ Exit(p)

Next ==
  \/ \E command_line \in CommandLines : ReadLine(command_line)
  \/ EndOfInput \/ Shell \/ signalHandler
  \/ \E p \in Pids : Process(p)

Spec == Init /\ [][Next]_vars

\* The system runs every process.  A program comes to its end when it has
\* written what it has to write and its input has ended.
Fairness ==
  /\ WF_vars(Shell) /\ WF_vars(signalHandler)
  /\ \A p \in Pids : WF_vars(Exec(p) \/ ExecFails(p) \/ Read(p) \/ Write(p)
                             \/ (Drained(p) /\ Exit(p)))

-----------------------------------------------------------------------------
(* At the prompt the shell has no pipe open.                               *)
PipesClosed == pc = "prompt" => fds = {}

(* Every variable has its type; pipes hold what they can hold, and         *)
(* descriptors do not pile up (PipesClosed).                               *)
TypeOK ==
  /\ pc \in {"prompt", "exec", "call_wait", "waiting", "close"} \cup Over
  /\ my_pipeline.is_background \in BOOLEAN
  /\ pc \notin {"prompt", "exit", "crashed"} => Len(my_pipeline.commands) \in 1 .. MaxProcs
  /\ {input, child} \subseteq Pids \cup {0} /\ {first, pending, early} \subseteq BOOLEAN
  /\ fds \subseteq Pids \X {"read", "write"}
  /\ fill \in [Pids -> 0 .. CAPACITY]
  /\ \A p \in Pids : /\ proc[p].state \in {"none", "forked", "running", "zombie", "reaped"}
                     /\ proc[p].todo \in 0 .. MaxOutput
  /\ PipesClosed

(* The prompt comes when the commands of a foreground pipeline have ended, *)
(* unless a background child has ended first and wait returned for it.     *)
PromptAfterCommands ==
  pc = "prompt" /\ ~early => \A p \in Alive : proc[p].background

(* No child stays a zombie, whoever collects it and however many end at    *)
(* the same time.                                                          *)
NoZombies ==
  \A p \in Pids : proc[p].state = "zombie" ~> proc[p].state = "reaped" \/ pc \in Over

(* The shell comes back to its prompt, unless a command fills the pipe to  *)
(* the next one, which is started when the first has ended.                *)
PromptReturns ==
  pc \notin {"prompt"} \cup Over ~> pc \in {"prompt"} \cup Over \/ \E p \in Pids : Stuck(p)
=============================================================================
