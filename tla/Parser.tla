------------------------------- MODULE Parser -------------------------------
(***************************************************************************)
(* The command parser, myshell_parser.c.  A line is a sequence of tokens:  *)
(* words, the special characters, and white space (SPACE stands for any    *)
(* amount of it).  A word is a sequence of letters, which only deleteWords *)
(* looks at.  Two words are never next to each other.                      *)
(***************************************************************************)
EXTENDS Integers, Sequences, SequencesExt

AMPERSAND == <<"&">>
PIPE == <<"|">>
RED_IN == <<"<">>
RED_OUT == <<">">>
SPACE == <<" ">>
NULL == <<>>

WHITESPACE_CHARS == {SPACE}
SPECIAL_CHARS == {AMPERSAND, PIPE, RED_IN, RED_OUT}

findChars(line, chars) == Contains(line, chars)

\* What the calls of strtok return one after the other: the longest parts of
\* the line without a delimiter.
strtok(line, delimiters) ==
  LET part == {i \in DOMAIN line : line[i] \notin delimiters}
      start == SetToSortSeq({i \in part : i - 1 \notin part}, <)
      end(i) == Max({j \in part : i .. j \subseteq part})
  IN  [n \in DOMAIN start |-> SubSeq(line, start[n], end(start[n]))]

nth(s, n) == IF n \in DOMAIN s THEN s[n] ELSE NULL

\* Behind the first red: the first word of the first part between white space.
redirect_path(line, red) ==
  LET behind == nth(strtok(line, {red}), 2)
      part == nth(strtok(behind, WHITESPACE_CHARS), 1)
  IN  nth(nth(strtok(part, SPECIAL_CHARS), 1), 1)

\* Every occurrence of word is deleted, also inside other words.
deleteWords(line, word) ==
  SelectSeq([i \in DOMAIN line |-> ReplaceAllSubSeqs(<<>>, word, line[i])],
            LAMBDA token : token # <<>>)

\* The arguments are the parts between white space.  Of a part with several
\* words the last one counts, a part without any leaves a hole.
command_args(line) ==
  LET part == strtok(line, WHITESPACE_CHARS)
      words(i) == strtok(part[i], SPECIAL_CHARS)
  IN  [i \in DOMAIN part |-> IF words(i) = <<>> THEN NULL ELSE Last(words(i))[1]]

\* Mutant: the path is left among the arguments.
linkKeeps(line, path) == line

link(line, path) == IF path = NULL THEN line ELSE deleteWords(line, path)

\* A redirection without a path makes deleteWords dereference NULL.
p_command_link(cline) ==
  LET in == redirect_path(cline, RED_IN)
      rest == link(cline, in)
      out == redirect_path(rest, RED_OUT)
  IN  [command_args |-> command_args(link(rest, out)),
       redirect_in_path |-> in,
       redirect_out_path |-> out,
       crash |-> \/ findChars(cline, RED_IN) /\ in = NULL
                 \/ findChars(rest, RED_OUT) /\ out = NULL]

noCommand ==
  [command_args |-> <<>>, redirect_in_path |-> NULL, redirect_out_path |-> NULL, crash |-> FALSE]

\* A first command without a name is replaced (if it did not crash), otherwise last
\* becomes the last.
pipelines(commands, pipe_token) ==
  LET last == p_command_link(pipe_token)
  IN  IF nth(commands[1].command_args, 1) = NULL
      THEN <<[last EXCEPT !.crash = @ \/ commands[1].crash]>>
      ELSE Append(commands, last)

pipeline_build(command_line) ==
  [commands |-> FoldLeft(pipelines, <<noCommand>>, strtok(command_line, {PIPE})),
   is_background |-> findChars(command_line, AMPERSAND)]

\* What execvp makes of command_args: the arguments in front of the first NULL.
argv(args) == SubSeq(args, 1, SelectInSeq(Append(args, NULL), LAMBDA a : a = NULL) - 1)
=============================================================================
