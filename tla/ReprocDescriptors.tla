--------------------------- MODULE ReprocDescriptors ---------------------------
(***************************************************************************)
(* The numbers of the descriptors on POSIX: where the pipes of a start     *)
(* come to lie in the parent, which numbers the child closes, and what     *)
(* dup2 and FD_CLOEXEC leave to the program (process.posix.c).             *)
(*                                                                         *)
(* A table gives for every number its file and whether exec closes it.     *)
(***************************************************************************)
EXTENDS Integers, Sequences

CONSTANT Limit         \* RLIMIT_NOFILE

\* Enough for all pipes of a start, the standard streams and two more files.
ASSUME LimitAssumption == Limit \in Nat /\ Limit >= 17

Numbers == 0..Limit - 1
Standard == 0..2
Stream == <<"in", "out", "err">>

\* Redirects that are not a descriptor of the caller's
Pipe == -1
Discard == -2
Stdout == -3

Of(name, part) == <<name, part>>
Free == [file |-> Of("none", 0), cloexec |-> FALSE]
Holds(table, n) == table[n] # Free
NumberOf(table, file) == CHOOSE n \in Numbers : table[n].file = file

\* The application has files open at its highest numbers, without FD_CLOEXEC.
Application(open) ==
    [n \in Numbers |-> IF n \in open \cup {Limit - 2, Limit - 1}
                       THEN [file |-> Of("application", n), cloexec |-> FALSE] ELSE Free]

\* pipe(2) and open(2) take the lowest numbers, and all of ours are close-on-exec.
Open(table, file) ==
    LET lowest == CHOOSE n \in Numbers : ~Holds(table, n) /\ \A k \in 0..n - 1 : Holds(table, k)
    IN  [table EXCEPT ![lowest] = [file |-> file, cloexec |-> TRUE]]

PipeOf(name) == <<Of(name, "read"), Of(name, "write")>>
ChildEnd(s) == Of(s, IF s = "in" THEN "read" ELSE "write")

\* What redirect_init opens for stream s.
Redirected(c, s) ==
    CASE c[s] = Pipe -> PipeOf(s)
      [] c[s] = Discard -> <<ChildEnd(s)>>
      [] OTHER -> <<>>

\* What is opened by reproc_start and process_start, in their order.
Opened(c) ==
    Redirected(c, "in") \o Redirected(c, "out") \o Redirected(c, "err")
        \o PipeOf("exit") \o PipeOf("error") \o PipeOf("fork")

\* The parent's table after each file that it opens, and at fork.
Opening(c) ==
    LET table[n \in 0..Len(Opened(c))] ==
            IF n = 0 THEN Application(c.open) ELSE Open(table[n - 1], Opened(c)[n])
    IN  table
AtFork(c) == Opening(c)[Len(Opened(c))]

\* options.handle of process_start, from the table t at fork
Handle(c, t, s) ==
    LET of == IF c[s] = Stdout THEN "out" ELSE s
    IN  IF c[of] \in {Pipe, Discard} THEN NumberOf(t, ChildEnd(of)) ELSE c[of]

\* Mutant: the loop ends at the largest number less one more.
GetMaxFdLess == Limit - 2

\* get_max_fd is the largest number, and the loop that closes stops before it.
GetMaxFd == Limit - 1

\* options.handle.exit
ExitHandle(t) == NumberOf(t, Of("exit", "write"))

Except(t, handles) ==
    {handles[i] : i \in Standard}
        \cup {n \in Numbers : t[n].file \in {Of("error", "read"), Of("error", "write"), Of("exit", "write")}}

\* The end of process_fork in the child: the pipe of process_fork goes last.
CloseFds(t, except) ==
    [n \in Numbers |-> IF (n < GetMaxFd /\ n \notin except) \/ t[n].file[1] = "fork"
                       THEN Free ELSE t[n]]

\* One round of the loop over the standard streams: dup2 clears FD_CLOEXEC of
\* its target, but does nothing if it is the source.
Dup(t, handles, i) ==
    IF handles[i] = i THEN t
    ELSE [t EXCEPT ![i] = [t[handles[i]] EXCEPT !.cloexec = FALSE], ![handles[i]].cloexec = TRUE]

\* handle_cloexec(options.handle.exit, false)
KeepExit(t, exit) == [t EXCEPT ![exit].cloexec = FALSE]

\* execvp
Exec(t) == [n \in Numbers |-> IF t[n].cloexec THEN Free ELSE t[n]]

\* A start with redirects c: the table at fork, options.handle by the number of
\* the stream, and what the program finds.
Started(c) ==
    LET t == AtFork(c)
        handles == [i \in Standard |-> Handle(c, t, Stream[i + 1])]
        closed == CloseFds(t, Except(t, handles))
        dup == Dup(Dup(Dup(closed, handles, 0), handles, 1), handles, 2)
    IN  [atFork |-> t, handles |-> handles, program |-> Exec(KeepExit(dup, ExitHandle(t)))]
-----------------------------------------------------------------------------
(* Properties. *)

\* No redirect takes a standard descriptor other than its own, and no pipe of
\* the start lies on one: the loop overwrites nothing that is still needed.
Apart(start) ==
    /\ \A i \in Standard : start.handles[i] \in Standard
           => start.handles[i] = i /\ ~start.atFork[i].cloexec
    /\ \A i \in Standard : start.atFork[i].file \notin {Of("exit", "write"), Of("error", "write")}

\* With redirects that stay apart the program has the three files it should
\* have, the exit pipe by which its end is noticed, and nothing else of the
\* parent's, but for the descriptor with the largest number, which the loop
\* does not reach.
PlacedRight(c) ==
    LET start == Started(c)
        exit == ExitHandle(start.atFork)
        last == Limit - 1
        missed == {last} \ Except(start.atFork, start.handles)
    IN  Apart(start) =>
            /\ \A i \in Standard : start.program[i].file = start.atFork[start.handles[i]].file
            /\ start.program[exit].file = Of("exit", "write")
            /\ {n \in Numbers : Holds(start.program, n)} = Standard \cup {exit} \cup missed

\* process.posix.c: "Make sure we don't accidentally cloexec the standard
\* streams of the child process when we're inheriting the parent standard
\* streams": a standard stream that is to be the parent's is open in the program.
KeepsInherited(c) ==
    LET program == Started(c).program
    IN  c.open = Standard => \A i \in Standard : c[Stream[i + 1]] = i => Holds(program, i)
=============================================================================
