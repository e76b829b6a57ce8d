------------------------------ MODULE ShParser ------------------------------
(***************************************************************************)
(* The command-line parser of the shell (user/sh.c).  gettoken() has cut   *)
(* the line: a line is a sequence of tokens, the symbols below or words.   *)
(* "+" stands for ">>".  A parsing function takes the tokens that are left *)
(* and returns the command with the tokens it leaves, or Syntax where the  *)
(* code calls panic() and the child process exits.                         *)
(***************************************************************************)
EXTENDS Naturals, Sequences, SequencesExt

CONSTANTS MAXARGS   \* size of argv[] in a parsed command

Symbols == {"|", "(", ")", ";", "&", "<", ">", "+"}
Redirections == {"<", ">", "+"}

Execcmd(argv) == [type |-> "EXEC", argv |-> argv]
Redircmd(cmd, file, mode) ==
    [type |-> "REDIR", cmd |-> cmd, file |-> file, mode |-> mode,
     fd |-> IF mode = "<" THEN 0 ELSE 1]
Pipecmd(left, right) == [type |-> "PIPE", left |-> left, right |-> right]
Listcmd(left, right) == [type |-> "LIST", left |-> left, right |-> right]
Backcmd(cmd) == [type |-> "BACK", cmd |-> cmd]

-----------------------------------------------------------------------------
(* The recursive descent of sh.c.                                          *)

Parsed(cmd, ps) == [ok |-> TRUE, cmd |-> cmd, ps |-> ps]
Syntax == [ok |-> FALSE]

Peek(ps, toks) == ps # <<>> /\ Head(ps) \in toks
IsWord(ps) == ps # <<>> /\ Head(ps) \notin Symbols

RECURSIVE Parseredirs(_, _)
Parseredirs(cmd, ps) ==
    IF ~Peek(ps, Redirections) THEN Parsed(cmd, ps)
    ELSE IF ~IsWord(Tail(ps)) THEN Syntax
    ELSE Parseredirs(Redircmd(cmd, ps[2], ps[1]), SubSeq(ps, 3, Len(ps)))

\* Adding an argument changes the EXEC command under the redirections.
RECURSIVE AddArg(_, _)
AddArg(cmd, arg) ==
    IF cmd.type = "EXEC" THEN [cmd EXCEPT !.argv = Append(@, arg)]
    ELSE [cmd EXCEPT !.cmd = AddArg(@, arg)]

\* The loop of parseexec() with the number of arguments so far.
RECURSIVE Parseargs(_, _, _)
Parseargs(ret, argc, ps) ==
    IF ps = <<>> \/ Peek(ps, {"|", ")", "&", ";"}) THEN Parsed(ret, ps)
    ELSE IF ~IsWord(ps) \/ argc + 1 >= MAXARGS THEN Syntax
    ELSE LET r == Parseredirs(AddArg(ret, Head(ps)), Tail(ps))
         IN  IF r.ok THEN Parseargs(r.cmd, argc + 1, r.ps) ELSE Syntax

RECURSIVE Parseline(_)
RECURSIVE Parsepipe(_)
RECURSIVE Parseblock(_)
RECURSIVE Background(_, _)

Parseexec(ps) ==
    IF Peek(ps, {"("}) THEN Parseblock(ps)
    ELSE LET r == Parseredirs(Execcmd(<<>>), ps)
         IN  IF r.ok THEN Parseargs(r.cmd, 0, r.ps) ELSE Syntax

Parseblock(ps) ==
    LET r == Parseline(Tail(ps))
    IN  IF r.ok /\ Peek(r.ps, {")"}) THEN Parseredirs(r.cmd, Tail(r.ps)) ELSE Syntax

Parsepipe(ps) ==
    LET l == Parseexec(ps)
        r == Parsepipe(Tail(l.ps))
    IN  IF ~l.ok \/ ~Peek(l.ps, {"|"}) THEN l
        ELSE IF r.ok THEN Parsed(Pipecmd(l.cmd, r.cmd), r.ps) ELSE Syntax

Background(cmd, ps) ==
    IF Peek(ps, {"&"}) THEN Background(Backcmd(cmd), Tail(ps)) ELSE Parsed(cmd, ps)

\* Mutant: what follows "&" is taken for the next command.
MutParseline(ps) ==
    LET p == Parsepipe(ps)
        l == Background(p.cmd, p.ps)
        r == Parseline(IF Head(l.ps) = ";" THEN Tail(l.ps) ELSE l.ps)
    IN  IF ~p.ok THEN Syntax
        ELSE IF ~Peek(l.ps, {";"}) /\ ~(l.cmd.type = "BACK" /\ IsWord(l.ps)) THEN l
        ELSE IF r.ok THEN Parsed(Listcmd(l.cmd, r.cmd), r.ps) ELSE Syntax

Parseline(ps) ==
    LET p == Parsepipe(ps)
        l == Background(p.cmd, p.ps)
        r == Parseline(Tail(l.ps))
    IN  IF ~p.ok THEN Syntax
        ELSE IF ~Peek(l.ps, {";"}) THEN l
        ELSE IF r.ok THEN Parsed(Listcmd(l.cmd, r.cmd), r.ps) ELSE Syntax

\* parsecmd(): nothing may be left over.
Parsecmd(line) ==
    LET r == Parseline(line) IN IF r.ok /\ r.ps = <<>> THEN r ELSE Syntax

-----------------------------------------------------------------------------
(* The grammar the parser stands for, stated on whole token sequences:     *)
(*    line  ::= back | back ";" line        back  ::= pipe | back "&"      *)
(*    pipe  ::= command | command "|" pipe  command ::= simple | block     *)
(*    block ::= "(" line ")" redirection*                                  *)
(*    simple: words and redirections in any order, fewer than MAXARGS      *)
(*    words; redirection ::= ("<" | ">" | ">>") word                       *)
(* A nonterminal is the set of commands its token sequence can mean.       *)

Cut(ts, sym) == {i \in DOMAIN ts : ts[i] = sym}
Before(ts, i) == SubSeq(ts, 1, i - 1)
After(ts, i) == SubSeq(ts, i + 1, Len(ts))

\* The positions of ts that hold the file name of a redirection.
Files(ts) == {i \in DOMAIN ts : i > 1 /\ ts[i - 1] \in Redirections}

\* Each redirection wraps the command; the first one is the innermost.
Wrap(ts, cmd) ==
    LET Step(c, i) == IF i \in Files(ts) THEN Redircmd(c, ts[i], ts[i - 1]) ELSE c
    IN  FoldLeft(Step, cmd, [i \in DOMAIN ts |-> i])

\* Words and redirections with their file names, and nothing else.
Wellformed(ts) ==
    \A i \in DOMAIN ts :
        /\ ts[i] \in Redirections \/ ts[i] \notin Symbols
        /\ ts[i] \in Redirections => i < Len(ts) /\ ts[i + 1] \notin Symbols

OnlyRedirections(ts) ==
    Wellformed(ts) /\ \A i \in DOMAIN ts : ts[i] \in Redirections \/ i \in Files(ts)

Simple(ts) ==
    LET words == SelectSeq([i \in DOMAIN ts |-> i],
                           LAMBDA i : ts[i] \notin Symbols /\ i \notin Files(ts))
    IN  IF Wellformed(ts) /\ Len(words) < MAXARGS
        THEN {Wrap(ts, Execcmd([j \in DOMAIN words |-> ts[words[j]]]))}
        ELSE {}

RECURSIVE Line(_)

Block(ts) ==
    IF ~Peek(ts, {"("}) THEN {}
    ELSE UNION {{Wrap(After(ts, i), c) : c \in Line(SubSeq(ts, 2, i - 1))} :
                  i \in {j \in Cut(ts, ")") : OnlyRedirections(After(ts, j))}}

RECURSIVE Pipe(_)
Pipe(ts) ==
    LET command(s) == Simple(s) \cup Block(s)
    IN  command(ts) \cup
          UNION {{Pipecmd(l, r) : l \in command(Before(ts, i)), r \in Pipe(After(ts, i))} :
                   i \in Cut(ts, "|")}

RECURSIVE Back(_)
Back(ts) == Pipe(ts) \cup IF ts # <<>> /\ Last(ts) = "&" THEN {Backcmd(c) : c \in Back(Front(ts))}
                          ELSE {}

Line(ts) == Back(ts) \cup
              UNION {{Listcmd(l, r) : l \in Back(Before(ts, i)), r \in Line(After(ts, i))} :
                       i \in Cut(ts, ";")}
=============================================================================
