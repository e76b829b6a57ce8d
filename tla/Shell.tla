------------------------------- MODULE Shell --------------------------------
(***************************************************************************)
(* A command line from the prompt to the next prompt: the shell parses it, *)
(* runcmd() turns it into processes with fork(), pipe(), dup(), close(),   *)
(* open() and wait(), and the programs exchange bytes through pipes.  The  *)
(* module composes the parser with the pipes, the open-file table          *)
(* (kernel/file.c), the descriptors (kernel/sysfile.c) and the parts of    *)
(* fork(), exit(), wait() and kill() that touch them.                      *)
(*                                                                         *)
(* A process carries the system calls it is going to make, proc[p].todo;   *)
(* what its program computes between two calls happens with the first.     *)
(* A call is one step, except fileclose(), which gives the table entry     *)
(* free in one step and closes the pipe in another.  Files on disk are     *)
(* their contents (module FileSystem models what is below), and the        *)
(* terminal is at end of file.                                             *)
(***************************************************************************)
EXTENDS ShParser, Pipe, Integers, FiniteSets, FiniteSetsExt, TLC

CONSTANTS NProc, NFILE, NPipe, NOFILE, \* slots, open files, pipes in memory, descriptors
          BUFSIZE,   \* bytes cat reads at a time
          Lines,     \* command lines, as token sequences
          Executed,  \* bound: the lines that are also run
          MaxHarm    \* bound on kill() calls and stranded processes

VARIABLES line,      \* what the user typed
          parsed,    \* what parsecmd() makes of it
          proc, file, pipe,
          disk,      \* contents of the files there are
          console,   \* bytes written to the terminal
          kills,
          disturbed  \* a process was killed or stranded, or a call found no resources

vars == <<line, parsed, proc, file, pipe, disk, console, kills, disturbed>>

Proc == 1..NProc
File == 1..NFILE
PipeId == 1..NPipe
Fd == 0..(NOFILE - 1)
init == 1
sh == 2

-----------------------------------------------------------------------------
(* System calls a process is going to make.                                *)

CallRun(cmd) == [op |-> "run", cmd |-> cmd]
CallFork(child) == [op |-> "fork", child |-> child]
CallPipe(cmd) == [op |-> "pipe", cmd |-> cmd]
CallClose(fd) == [op |-> "close", fd |-> fd]
CallDup(fd) == [op |-> "dup", fd |-> fd]
CallOpen(name, mode, use) == [op |-> "open", name |-> name, mode |-> mode, use |-> use]
CallRead(fd) == [op |-> "read", fd |-> fd]
CallWrite(data, checked) == [op |-> "write", data |-> data, checked |-> checked]
CallWait == [op |-> "wait"]
CallExit == [op |-> "exit"]
\* The second half of fileclose().
PipeClose(i, writable) == [op |-> "pipeclose", pipe |-> i, writable |-> writable]

\* echo writes its arguments without looking at the result; cat copies until
\* end of file or an error.
Program(argv) ==
    LET args == Tail(argv)
    IN  CASE Head(argv) = "echo" -> [i \in DOMAIN args |-> CallWrite(<<args[i]>>, FALSE)]
          [] Head(argv) = "cat" /\ args = <<>> -> <<CallRead(0)>>
          [] Head(argv) = "cat" /\ args # <<>> -> [i \in DOMAIN args |-> CallOpen(args[i], "<", "cat")]
          [] OTHER -> <<>>

\* What runcmd() does with a command, up to the next nested runcmd().
Runcmd(cmd) ==
    CASE cmd.type = "EXEC" -> Append(IF cmd.argv = <<>> THEN <<>> ELSE Program(cmd.argv), CallExit)
      [] cmd.type = "REDIR" -> <<CallClose(cmd.fd), CallOpen(cmd.file, cmd.mode, "redir"),
                                 CallRun(cmd.cmd)>>
      [] cmd.type = "LIST" -> <<CallFork(<<CallRun(cmd.left)>>), CallWait, CallRun(cmd.right)>>
      [] cmd.type = "PIPE" -> <<CallPipe(cmd)>>
      [] cmd.type = "BACK" -> <<CallFork(<<CallRun(cmd.cmd)>>), CallExit>>

\* Mutant: the parent of a pipeline keeps the ends it made.
MutPiped(cmd, r, w) ==
    LET side(fd, end, c) == <<CallClose(fd), CallDup(end), CallClose(r), CallClose(w), CallRun(c)>>
    IN  <<CallFork(side(1, w, cmd.left)), CallFork(side(0, r, cmd.right)),
          CallWait, CallWait, CallExit>>

\* The rest of the PIPE case, once pipe() has returned r and w.
Piped(cmd, r, w) ==
    LET side(fd, end, c) == <<CallClose(fd), CallDup(end), CallClose(r), CallClose(w), CallRun(c)>>
    IN  <<CallFork(side(1, w, cmd.left)), CallFork(side(0, r, cmd.right)),
          CallClose(r), CallClose(w), CallWait, CallWait, CallExit>>

-----------------------------------------------------------------------------
(* Processes and the open-file table.                                      *)

NoProc == [state |-> "unused", parent |-> 0, killed |-> FALSE, chan |-> <<>>,
           ofile |-> [fd \in Fd |-> 0], todo |-> <<>>]
NoFile == [ref |-> 0, type |-> "none", pipe |-> 0, name |-> "", off |-> 0,
           readable |-> FALSE, writable |-> FALSE]

\* p is about to make the call op.
Calls(p, op) == /\ proc[p].state = "run" /\ proc[p].chan = <<>>
                /\ proc[p].todo # <<>> /\ Head(proc[p].todo).op = op
Arg(p) == Head(proc[p].todo)
Rest(p) == Tail(proc[p].todo)

\* The calls of a program that has come to a runcmd().
Upto(todo) == IF todo # <<>> /\ Head(todo).op = "run" THEN Runcmd(Head(todo).cmd) ELSE todo

\* A call returns: a killed process goes no further than exit().
Returning(r, rest) == [r EXCEPT !.todo = IF r.killed THEN <<CallExit>> ELSE Upto(rest)]
Return(p, rest) == proc' = [proc EXCEPT ![p] = Returning(proc[p], rest)]

\* wakeup() applied to a process table.
Wakeup(pr, chan) ==
    [q \in Proc |-> IF pr[q].chan = chan THEN [pr[q] EXCEPT !.chan = <<>>] ELSE pr[q]]

FreeFd(p) == {fd \in Fd : proc[p].ofile[fd] = 0}
FreeFile == {f \in File : file[f].ref = 0}
FreeSlot == {q \in Proc : proc[q].state = "unused"}
FileOf(p, fd) == IF fd \in Fd THEN proc[p].ofile[fd] ELSE 0

\* filedup() of every open file of p.
Dupall(p) == [f \in File |-> [file[f] EXCEPT
                !.ref = @ + Cardinality({fd \in Fd : proc[p].ofile[fd] = f})]]

\* Mutant: the last close leaves its end of the pipe open.
MutFileclose(f) == <<>>

\* fileclose() under ftable.lock; the last reference to a pipe end leaves the
\* pipeclose() to do.
Fileclose(f) ==
    IF file[f].ref = 1 /\ file[f].type = "pipe"
    THEN <<PipeClose(file[f].pipe, file[f].writable)>> ELSE <<>>

Unref(f) == [file EXCEPT ![f] = IF @.ref = 1 THEN NoFile ELSE [@ EXCEPT !.ref = @ - 1]]

-----------------------------------------------------------------------------
(* System calls on descriptors.                                            *)

Close(p) ==
    LET fd == Arg(p).fd
        f == FileOf(p, fd)
    IN  /\ Calls(p, "close")
        /\ IF f = 0 THEN Return(p, Rest(p)) /\ UNCHANGED file
           ELSE /\ proc' = [proc EXCEPT ![p].ofile[fd] = 0,
                                        ![p].todo = Fileclose(f) \o Upto(Rest(p))]
                /\ file' = Unref(f)
        /\ UNCHANGED <<line, parsed, pipe, disk, console, kills, disturbed>>

\* pipeclose(): the sleepers at the other end look again.
ClosePipe(p) ==
    LET c == Arg(p)
        chan == IF c.writable THEN <<"nread", c.pipe>> ELSE <<"nwrite", c.pipe>>
    IN  /\ Calls(p, "pipeclose")
        /\ pipe' = [pipe EXCEPT ![c.pipe] = CloseEnd(@, c.writable)]
        /\ proc' = Wakeup([proc EXCEPT ![p] = Returning(@, Rest(p))], chan)
        /\ UNCHANGED <<line, parsed, file, disk, console, kills, disturbed>>

Dup(p) ==
    LET f == FileOf(p, Arg(p).fd)
        fd == Min(FreeFd(p))
    IN  /\ Calls(p, "dup")
        /\ IF f = 0 \/ FreeFd(p) = {} THEN Return(p, Rest(p)) /\ UNCHANGED file
           ELSE /\ proc' = [proc EXCEPT ![p] = Returning([@ EXCEPT !.ofile[fd] = f], Rest(p))]
                /\ file' = [file EXCEPT ![f].ref = @ + 1]
        /\ UNCHANGED <<line, parsed, pipe, disk, console, kills, disturbed>>

\* open(): "<" needs the file; ">" empties it, ">>" does not, and both write
\* from offset 0.  The caller exits when it fails.
Open(p) ==
    LET c == Arg(p)
        exists == c.name \in DOMAIN disk
        fails == FreeFd(p) = {} \/ FreeFile = {}
        f == Min(FreeFile)
        fd == Min(FreeFd(p))
        opened == [NoFile EXCEPT !.ref = 1, !.type = "inode", !.name = c.name,
                                 !.readable = c.mode = "<", !.writable = c.mode # "<"]
        use == IF c.use = "cat" THEN <<CallRead(fd), CallClose(fd)>> ELSE <<>>
    IN  /\ Calls(p, "open")
        /\ disk' = IF c.mode # "<" /\ (~exists \/ (c.mode = ">" /\ ~fails))
                   THEN (c.name :> <<>>) @@ disk ELSE disk
        /\ IF fails \/ (c.mode = "<" /\ ~exists)
           THEN Return(p, <<CallExit>>) /\ UNCHANGED file
           ELSE /\ file' = [file EXCEPT ![f] = opened]
                /\ proc' = [proc EXCEPT ![p] = Returning([@ EXCEPT !.ofile[fd] = f], use \o Rest(p))]
        /\ disturbed' = (disturbed \/ fails)
        /\ UNCHANGED <<line, parsed, pipe, console, kills>>

\* sys_pipe() and pipealloc(); without two files, a page and two descriptors
\* everything is given back and the shell panics.
MakePipe(p) ==
    LET fails == Cardinality(FreeFile) < 2 \/ Cardinality(FreeFd(p)) < 2
                   \/ \A i \in PipeId : pipe[i].alloc
        i == Min({j \in PipeId : ~pipe[j].alloc})
        rf == Min(FreeFile)
        wf == Min(FreeFile \ {rf})
        r == Min(FreeFd(p))
        w == Min(FreeFd(p) \ {r})
        end == [NoFile EXCEPT !.ref = 1, !.type = "pipe", !.pipe = i]
    IN  /\ Calls(p, "pipe")
        /\ IF fails THEN Return(p, <<CallExit>>) /\ UNCHANGED <<file, pipe>>
           ELSE /\ pipe' = [pipe EXCEPT ![i] = NewPipe]
                /\ file' = [file EXCEPT ![rf] = [end EXCEPT !.readable = TRUE],
                                        ![wf] = [end EXCEPT !.writable = TRUE]]
                /\ proc' = [proc EXCEPT ![p] = Returning([@ EXCEPT !.ofile[r] = rf, !.ofile[w] = wf],
                                                         Piped(Arg(p).cmd, r, w))]
        /\ disturbed' = (disturbed \/ fails)
        /\ UNCHANGED <<line, parsed, disk, console, kills>>

\* The program's reaction to the result of write() and of read().
Wrote(p, ok) == IF ok \/ ~Arg(p).checked THEN Rest(p) ELSE <<CallExit>>
Got(p, data) == IF data = <<>> THEN Rest(p) ELSE <<CallWrite(data, TRUE)>> \o proc[p].todo

\* pipewrite(): as many bytes as fit, and sleep for more room; an end nobody
\* reads, or a kill, ends it at once.
Pipewrite(p, i) ==
    LET data == Arg(p).data
        n == Min({Len(data), Space(pipe[i])})
        left == SubSeq(data, n + 1, Len(data))
        on == IF left = <<>> THEN Returning(proc[p], Wrote(p, TRUE))
              ELSE [proc[p] EXCEPT !.todo = <<CallWrite(left, Arg(p).checked)>> \o Rest(p),
                                   !.chan = <<"nwrite", i>>]
    IN  IF ~pipe[i].readopen \/ proc[p].killed
        THEN Return(p, Wrote(p, FALSE)) /\ UNCHANGED pipe
        ELSE /\ pipe' = [pipe EXCEPT ![i] = Put(@, n, data)]
             /\ proc' = Wakeup([proc EXCEPT ![p] = on], <<"nread", i>>)

\* Mutant: no wakeup of the writers.
MutPiperead(p, i) ==
    LET n == Min({BUFSIZE, Unread(pipe[i])})
    IN  IF PipeEmpty(pipe[i]) /\ pipe[i].writeopen
        THEN /\ IF proc[p].killed THEN Return(p, <<CallExit>>)
                ELSE proc' = [proc EXCEPT ![p].chan = <<"nread", i>>]
             /\ UNCHANGED pipe
        ELSE /\ pipe' = [pipe EXCEPT ![i] = Drop(@, n)]
             /\ proc' = [proc EXCEPT ![p] = Returning(@, Got(p, Oldest(pipe[i], n)))]

\* piperead(): sleeps while the pipe is empty and a writer is left.
Piperead(p, i) ==
    LET n == Min({BUFSIZE, Unread(pipe[i])})
    IN  IF PipeEmpty(pipe[i]) /\ pipe[i].writeopen
        THEN /\ IF proc[p].killed THEN Return(p, <<CallExit>>)
                ELSE proc' = [proc EXCEPT ![p].chan = <<"nread", i>>]
             /\ UNCHANGED pipe
        ELSE /\ pipe' = [pipe EXCEPT ![i] = Drop(@, n)]
             /\ proc' = Wakeup([proc EXCEPT ![p] = Returning(@, Got(p, Oldest(pipe[i], n)))],
                               <<"nwrite", i>>)

\* Bytes of a file overwritten from offset off on.
Overwrite(old, off, data) ==
    [k \in 1..Max({Len(old), off + Len(data)}) |->
       IF k > off /\ k <= off + Len(data) THEN data[k - off] ELSE old[k]]

\* filewrite() on descriptor 1.
Write(p) ==
    LET f == FileOf(p, 1)
        data == Arg(p).data
        type == IF f = 0 \/ ~file[f].writable THEN "error" ELSE file[f].type
    IN  /\ Calls(p, "write")
        /\ \/ type = "error" /\ Return(p, Wrote(p, FALSE)) /\ UNCHANGED <<file, pipe, disk, console>>
           \/ type = "pipe" /\ Pipewrite(p, file[f].pipe) /\ UNCHANGED <<file, disk, console>>
           \/ /\ type = "console"
              /\ console' = console \o data
              /\ Return(p, Wrote(p, TRUE)) /\ UNCHANGED <<file, pipe, disk>>
           \/ /\ type = "inode"
              /\ disk' = [disk EXCEPT ![file[f].name] = Overwrite(@, file[f].off, data)]
              /\ file' = [file EXCEPT ![f].off = @ + Len(data)]
              /\ Return(p, Wrote(p, TRUE)) /\ UNCHANGED <<pipe, console>>
        /\ UNCHANGED <<line, parsed, kills, disturbed>>

\* fileread().
Read(p) ==
    LET f == FileOf(p, Arg(p).fd)
        type == IF f = 0 \/ ~file[f].readable THEN "error" ELSE file[f].type
        old == disk[file[f].name]
        n == Min({BUFSIZE, Max({0, Len(old) - file[f].off})})
    IN  /\ Calls(p, "read")
        /\ \/ type = "error" /\ Return(p, <<CallExit>>) /\ UNCHANGED <<file, pipe>>
           \/ type = "console" /\ Return(p, Got(p, <<>>)) /\ UNCHANGED <<file, pipe>>
           \/ type = "pipe" /\ Piperead(p, file[f].pipe) /\ UNCHANGED file
           \/ /\ type = "inode"
              /\ file' = [file EXCEPT ![f].off = @ + n]
              /\ Return(p, Got(p, SubSeq(old, file[f].off + 1, file[f].off + n)))
              /\ UNCHANGED pipe
        /\ UNCHANGED <<line, parsed, disk, console, kills, disturbed>>

-----------------------------------------------------------------------------
(* System calls on processes.                                              *)

\* The shell is given a line and forks a child that runs what parsecmd()
\* makes of it; only the lines of Executed are run here.
Getcmd ==
    LET child == IF parsed.ok THEN CallRun(parsed.cmd) ELSE CallExit
    IN  /\ Calls(sh, "getcmd") /\ line \in Executed
        /\ Return(sh, <<CallFork(<<child>>), CallWait>>)
        /\ UNCHANGED <<line, parsed, file, pipe, disk, console, kills, disturbed>>

\* fork1(): without a free slot it panics and the caller exits.
Fork(p) ==
    LET np == Min(FreeSlot)
        child == [NoProc EXCEPT !.state = "run", !.parent = p, !.ofile = proc[p].ofile,
                                !.todo = Upto(Arg(p).child)]
    IN  /\ Calls(p, "fork")
        /\ IF FreeSlot = {} THEN Return(p, <<CallExit>>) /\ UNCHANGED file
           ELSE /\ proc' = [proc EXCEPT ![p] = Returning(@, Rest(p)), ![np] = child]
                /\ file' = Dupall(p)
        /\ disturbed' = (disturbed \/ FreeSlot = {})
        /\ UNCHANGED <<line, parsed, pipe, disk, console, kills>>

\* exit() closes the open files one after the other.  Those of the terminal,
\* which init keeps open, go together with the next one.
ExitClose(p) ==
    LET tty == {fd \in Fd : proc[p].ofile[fd] # 0 /\ file[proc[p].ofile[fd]].type = "console"}
        others == Fd \ (FreeFd(p) \cup tty)
        gone == IF others = {} THEN tty ELSE tty \cup {Min(others)}
        closed == [f \in File |->
                     LET n == Cardinality({fd \in gone : proc[p].ofile[fd] = f})
                     IN  IF n > 0 /\ file[f].ref = n THEN NoFile ELSE [file[f] EXCEPT !.ref = @ - n]]
    IN  /\ Calls(p, "exit") /\ FreeFd(p) # Fd
        /\ proc' = [proc EXCEPT
                      ![p].ofile = [fd \in Fd |-> IF fd \in gone THEN 0 ELSE @[fd]],
                      ![p].todo = IF others = {} THEN @
                                  ELSE Fileclose(proc[p].ofile[Min(others)]) \o @]
        /\ file' = closed
        /\ UNCHANGED <<line, parsed, pipe, disk, console, kills, disturbed>>

\* Then it becomes a zombie and init inherits its children.
Exit(p) ==
    /\ Calls(p, "exit") /\ FreeFd(p) = Fd
    /\ proc' = [q \in Proc |->
                  IF q = p THEN [proc[p] EXCEPT !.state = "zombie", !.todo = <<>>]
                  ELSE IF proc[q].parent = p THEN [proc[q] EXCEPT !.parent = init] ELSE proc[q]]
    /\ UNCHANGED <<line, parsed, file, pipe, disk, console, kills, disturbed>>

\* wait() frees a zombie child, or fails without children or when killed.
\* init waits for ever.
Wait(p) ==
    LET children == {q \in Proc : proc[q].parent = p}
        rest == IF p = init THEN proc[p].todo ELSE Rest(p)
    IN  /\ Calls(p, "wait")
        /\ \/ \E q \in children :
                /\ proc[q].state = "zombie"
                /\ proc' = [proc EXCEPT ![p] = Returning(@, rest), ![q] = NoProc]
           \/ (children = {} \/ proc[p].killed) /\ Return(p, rest)
        /\ UNCHANGED <<line, parsed, file, pipe, disk, console, kills, disturbed>>

\* A killed process that comes back from the kernel, or enters it, exits.
KilledExit(p) ==
    /\ proc[p].state = "run" /\ proc[p].killed /\ proc[p].chan = <<>>
    /\ ~Calls(p, "exit") /\ ~Calls(p, "pipeclose")
    /\ proc' = [proc EXCEPT ![p].todo = <<CallExit>>]
    /\ UNCHANGED <<line, parsed, file, pipe, disk, console, kills, disturbed>>

\* The processes that sleep()'s window has stranded (LostOnlyInWindow in Sched).
Lost == {p \in Proc : proc[p].state = "lost"}

MoreHarm == kills + Cardinality(Lost) < MaxHarm

\* The calls that sleep: in wait(), in a pipe, for the log, a buffer, an inode
\* or the disk under a file, or for the terminal.
Sleeps == {"open", "read", "write", "close", "wait", "exit"}

\* One of them strands p in the window of proc.c's sleep(): it never runs
\* again, and no wakeup() reaches it.  It keeps what it has open.
Lose(p) ==
    /\ MoreHarm /\ proc[p].state = "run"
    /\ proc[p].todo # <<>> /\ Arg(p).op \in Sleeps
    /\ proc' = [proc EXCEPT ![p].state = "lost", ![p].chan = <<>>]
    /\ disturbed' = TRUE
    /\ UNCHANGED <<line, parsed, file, pipe, disk, console, kills>>

\* kill() of one of the command's processes also ends its sleep.
Kill(p) ==
    /\ MoreHarm /\ p \notin {init, sh}
    /\ proc[p].state = "run" /\ ~proc[p].killed
    /\ proc' = [proc EXCEPT ![p].killed = TRUE, ![p].chan = <<>>]
    /\ kills' = kills + 1 /\ disturbed' = TRUE
    /\ UNCHANGED <<line, parsed, file, pipe, disk, console>>

-----------------------------------------------------------------------------

\* init and the shell have the terminal open three times; the shell waits at
\* its prompt.
Init ==
    LET open == [fd \in Fd |-> IF fd < 3 THEN 1 ELSE 0]
    IN  /\ line \in Lines /\ parsed = Parsecmd(line)
        /\ proc = [p \in Proc |->
                     CASE p = init -> [NoProc EXCEPT !.state = "run", !.ofile = open, !.todo = <<CallWait>>]
                       [] p = sh -> [NoProc EXCEPT !.state = "run", !.parent = init, !.ofile = open,
                                                   !.todo = <<[op |-> "getcmd"]>>]
                       [] OTHER -> NoProc]
        /\ file = [f \in File |-> IF f # 1 THEN NoFile
                                  ELSE [NoFile EXCEPT !.ref = 6, !.type = "console",
                                                      !.readable = TRUE, !.writable = TRUE]]
        /\ pipe = [i \in PipeId |-> NoPipe]
        /\ disk = <<>> /\ console = <<>> /\ kills = 0 /\ disturbed = FALSE

Step(p) == \/ Close(p) \/ ClosePipe(p) \/ Dup(p) \/ Open(p) \/ MakePipe(p)
           \/ Write(p) \/ Read(p) \/ Fork(p)
           \/ ExitClose(p) \/ Exit(p) \/ Wait(p) \/ KilledExit(p)
           \/ (p = sh /\ Getcmd)

Next == \E p \in Proc : Step(p) \/ Kill(p) \/ Lose(p)

\* The scheduler runs every runnable process again and again (QueuedRuns in
\* Sched); a stranded one has no step.
Spec == Init /\ [][Next]_vars /\ \A p \in Proc : WF_vars(Step(p))

-----------------------------------------------------------------------------
(* Properties.                                                             *)

\* On every line the recursive descent of sh.c finds the one command the
\* grammar gives it, and refuses exactly the lines it gives none.  (The line
\* is looked at before it is run.)
ParserExact ==
    Calls(sh, "getcmd") => Line(line) = IF parsed.ok THEN {parsed.cmd} ELSE {}

\* Type invariant.
TypeOK ==
    /\ \A p \in Proc :
         /\ proc[p].state \in {"unused", "run", "zombie", "lost"} /\ proc[p].parent \in 0..NProc
         /\ proc[p].ofile \in [Fd -> 0..NFILE] /\ proc[p].killed \in BOOLEAN
         /\ proc[p].chan \in {<<>>} \cup ({"nread", "nwrite"} \X PipeId)
    /\ \A f \in File : file[f].type \in {"none", "console", "pipe", "inode"}
                         /\ file[f].ref \in Nat /\ file[f].off \in Nat
    /\ \A i \in PipeId : pipe[i].nread \in 0..(WORD - 1) /\ pipe[i].nwrite \in 0..(WORD - 1)

\* A table entry counts the descriptors that refer to it, and a pipe exists,
\* with the right ends open, exactly as long as an open file or a pipeclose()
\* still to be done refers to it: never freed under a reader or a writer,
\* never kept after the last.
PipeEndsExact ==
    /\ TypeOK
    /\ \A f \in File :
         file[f].ref = Cardinality({x \in Proc \X Fd : proc[x[1]].ofile[x[2]] = f})
    /\ \A i \in PipeId :
         LET has(w) == \/ \E f \in File : /\ file[f].ref > 0 /\ file[f].type = "pipe"
                                          /\ file[f].pipe = i /\ file[f].writable = w
                       \/ \E p \in Proc : /\ proc[p].todo # <<>>
                                          /\ Head(proc[p].todo) = PipeClose(i, w)
         IN  /\ pipe[i].readopen = has(FALSE) /\ pipe[i].writeopen = has(TRUE)
             /\ pipe[i].alloc = (has(FALSE) \/ has(TRUE))

\* Nobody sleeps on a pipe without reason: a reader only on an empty pipe with
\* a writer left, a writer only on a full pipe with a reader left.
PipeSleepers ==
    \A p \in Proc, i \in PipeId :
        /\ proc[p].chan = <<"nread", i>> => PipeEmpty(pipe[i]) /\ pipe[i].writeopen
        /\ proc[p].chan = <<"nwrite", i>> => PipeFull(pipe[i]) /\ pipe[i].readopen

\* The command is over: the shell is back and the other processes are gone.
Over == proc[sh].todo = <<>> /\ \A p \in Proc \ {init, sh} : proc[p].state = "unused"

\* What a command writes to its descriptor 1, what it leaves of its input and
\* of the disk, run alone and to the end.
RECURSIVE Meaning(_, _, _)
Meaning(cmd, in, dsk) ==
    LET Result(o, i, d) == [out |-> o, in |-> i, disk |-> d]
        args == Tail(cmd.argv)
        l == Meaning(cmd.left, in, dsk)
        r == Meaning(cmd.right, IF cmd.type = "PIPE" THEN l.out ELSE l.in, l.disk)
        old == IF cmd.mode = ">" \/ cmd.file \notin DOMAIN dsk THEN <<>> ELSE dsk[cmd.file]
        inner == Meaning(cmd.cmd, in, (cmd.file :> old) @@ dsk)
        filled == Overwrite(inner.disk[cmd.file], 0, inner.out)
    IN  CASE cmd.type = "EXEC" /\ cmd.argv = <<>> -> Result(<<>>, in, dsk)
          [] cmd.type = "EXEC" /\ cmd.argv # <<>> ->
               (CASE cmd.argv[1] = "echo" -> Result(args, in, dsk)
                  [] cmd.argv[1] = "cat" /\ args = <<>> -> Result(in, <<>>, dsk)
                  [] cmd.argv[1] = "cat" /\ args # <<>> ->
                       Result(FlattenSeq([k \in DOMAIN args |->
                                IF \A j \in 1..k : args[j] \in DOMAIN dsk THEN dsk[args[k]] ELSE <<>>]),
                              in, dsk)
                  [] OTHER -> Result(<<>>, in, dsk))
          [] cmd.type = "REDIR" /\ cmd.mode = "<" ->
               IF cmd.file \notin DOMAIN dsk THEN Result(<<>>, in, dsk)
               ELSE LET m == Meaning(cmd.cmd, dsk[cmd.file], dsk) IN Result(m.out, in, m.disk)
          [] cmd.type = "REDIR" /\ cmd.mode # "<" ->
               Result(<<>>, inner.in, (cmd.file :> filled) @@ inner.disk)
          [] cmd.type = "LIST" -> Result(l.out \o r.out, r.in, r.disk)
          [] cmd.type = "PIPE" -> Result(r.out, l.in, r.disk)

\* When a line without "&" is over, undisturbed, the terminal and the files
\* hold what its command means: no byte lost, doubled or out of order through
\* any pipe, every descriptor where runcmd() wanted it.
OutputMeant ==
    Over /\ ~disturbed /\ "&" \notin ToSet(line) /\ parsed.ok =>
        LET m == Meaning(parsed.cmd, <<>>, <<>>)
        IN  console = m.out /\ disk = m.disk

\* Every line that is run comes to its end, whatever is killed or runs out of
\* slots: no reader waits for a writer that is gone, no writer for a reader,
\* and nobody for a process that is there no more.  Only a process that
\* sleep()'s window has stranded can hold the line up.
LineEnds == ~Calls(sh, "getcmd") ~> (Over \/ Lost # {})
=============================================================================
