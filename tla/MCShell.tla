------------------------------ MODULE MCShell -------------------------------
(***************************************************************************)
(* A session with the shell: lines are written by the rules of the         *)
(* documentation, and what runs is compared with what was written.         *)
(***************************************************************************)
EXTENDS Shell

VARIABLES
  written,     \* the line that was read last, as it was meant
  meant        \* for each child the command it should execute

mcvars == <<vars, written, meant>>

-----------------------------------------------------------------------------
(* Lines: what they mean, and the text; tight and outFirst are ways to     *)
(* write the same line.                                                    *)

CONSTANTS ArgLists, Paths    \* bound: arguments and paths of the commands

Command(args, in, out) == [args |-> args, in |-> in, out |-> out]

\* The first command may have its input redirected, the last its output.
Pipelines ==
  {<<Command(a, i, o)>> : a \in ArgLists, i \in Paths \cup {NULL}, o \in Paths \cup {NULL}}
  \cup {<<Command(a, i, NULL)>> \o m \o <<Command(a, NULL, o)>> :
          a \in ArgLists, i \in Paths \cup {NULL}, o \in Paths \cup {NULL},
          m \in {<<>>, <<Command(<< <<"a">> >>, NULL, NULL)>>}}

\* Bound: at most two commands in the background.
Lines ==
  {l \in [commands : Pipelines, background : BOOLEAN] : l.background => Len(l.commands) <= 2}

Spaced(tight, token) == IF tight THEN <<token>> ELSE <<SPACE, token, SPACE>>

Redirected(tight, red, path) == IF path = NULL THEN <<>> ELSE Append(Spaced(tight, red), path)

CommandText(c, tight, outFirst) ==
  LET in == Redirected(tight, RED_IN, c.in)
      out == Redirected(tight, RED_OUT, c.out)
  IN  FlattenSeq([i \in DOMAIN c.args |-> <<SPACE, c.args[i]>>])
        \o IF outFirst THEN out \o in ELSE in \o out

Text(line, tight, outFirst) ==
  LET bar(i) == IF i = 1 THEN <<>> ELSE Spaced(tight, PIPE)
      text(i) == bar(i) \o CommandText(line.commands[i], tight, outFirst)
  IN  FlattenSeq([i \in DOMAIN line.commands |-> text(i)])
        \o (IF line.background THEN Spaced(tight, AMPERSAND) ELSE <<>>) \o <<SPACE>>

MCLines == {Text(line, tight, outFirst) : line \in Lines, tight \in BOOLEAN, outFirst \in BOOLEAN}

-----------------------------------------------------------------------------
(* Meaning *)

Occurs(path, word) == path # NULL /\ ReplaceAllSubSeqs(<<>>, path, word) # word

\* The text of a path is in no other word of the command.
Distinct(c) ==
  /\ \A w \in ToSet(c.args) : ~Occurs(c.in, w) /\ ~Occurs(c.out, w)
  /\ ~Occurs(c.in, c.out)

\* The k-th command of the line, run by child p.
Meaning(line, k, p) ==
  LET c == line.commands[k]
  IN  [args |-> c.args,
       stdin |-> IF c.in # NULL THEN File(c.in) ELSE IF k = 1 THEN Tty ELSE PipeOf(p - 1),
       stdout |-> IF c.out # NULL THEN File(c.out)
                  ELSE IF k < Len(line.commands) THEN PipeOf(p) ELSE Tty,
       distinct |-> Distinct(c), redirected |-> c.in # NULL,
       background |-> line.background, last |-> k = Len(line.commands)]

-----------------------------------------------------------------------------
noLine == [commands |-> <<>>]

MCInit == Init /\ written = noLine /\ meant = [p \in Pids |-> noLine]

SimpleLines ==
  {l \in Lines : \A i \in DOMAIN l.commands :
     i <= 2 /\ l.commands[i] = Command(<< <<"a">> >>, NULL, NULL)}

\* Bound: a simple line in the foreground after one in the background.
NextLines ==
  CASE child = 0 -> Lines
    [] child > 0 -> {l \in SimpleLines : ~l.background /\ written.background
                                           /\ written \in SimpleLines}

MCReadLine ==
  \E line \in NextLines, tight \in BOOLEAN, outFirst \in BOOLEAN :
    /\ ReadLine(Text(line, tight, outFirst))
    /\ written' = line
    /\ UNCHANGED meant

MCFork ==
  /\ Fork
  /\ meant' = [meant EXCEPT ![child'] =
       LET k == Len(written.commands) - Len(my_pipeline.commands) + 1
       IN  IF k > 0 THEN Meaning(written, k, child') ELSE noLine]
  /\ UNCHANGED written

MCNext ==
  \/ MCReadLine \/ MCFork
  \/ /\ \/ EndOfInput \/ CallWait \/ Wait \/ Close \/ signalHandler
        \/ \E p \in Pids : Process(p)
     /\ UNCHANGED <<written, meant>>

MCSpec == MCInit /\ [][MCNext]_mcvars /\ Fairness

(* What runs is what was written.  The arguments are right unless the text *)
(* of a path occurs in them too, and only such a line crashes the parser.  *)
(* stdin is right unless it should be a file for a command that is not the *)
(* last one or in the background, stdout unless it should not be the       *)
(* terminal and the command has its input redirected or is in the          *)
(* background.                                                             *)
RunsAsWritten ==
  /\ \A p \in In("running") :
       LET m == meant[p]
       IN  m.distinct =>
             /\ argv(proc[p].command.command_args) = m.args
             /\ ~(m.redirected /\ (~m.last \/ m.background)) => proc[p].stdin = m.stdin
             /\ ~(m.stdout # Tty /\ (m.redirected \/ m.background)) => proc[p].stdout = m.stdout
  /\ pc = "crashed" /\ written # noLine =>
       \E i \in DOMAIN written.commands : ~Distinct(written.commands[i])

-----------------------------------------------------------------------------
MCArgLists == {<< <<"a">> >>, << <<"a", "b">>, <<"c">> >>}
MCPaths == {<<"f">>, <<"b">>}
=============================================================================
