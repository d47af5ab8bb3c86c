------------------------------- MODULE ReprocArgv -------------------------------
(***************************************************************************)
(* How arguments become the command line of CreateProcess and arguments    *)
(* again (process.windows.c).  " " stands for any white space, "x" for any *)
(* character without a meaning of its own.                                 *)
(***************************************************************************)
EXTENDS Integers, Sequences

Backslash == "\\"
Quote == "\""

\* argument_should_escape
ShouldEscape(arg) == \E j \in 1..Len(arg) : arg[j] \in {" ", Quote}

Times(c, n) == [j \in 1..n |-> c]

\* Mutant: the backslashes before a quotation mark are left alone.
EscapedQuoteBare(n) == Times(Backslash, n + 1) \o <<Quote>>

\* Backslashes before a quotation mark are doubled, and it gets one of its own.
EscapedQuote(n) == Times(Backslash, n * 2 + 1) \o <<Quote>>

\* Backslashes at the end are doubled: a quotation mark follows.
EscapedEnd(n) == Times(Backslash, n * 2)

\* The loop of argument_escape, character by character: what is written, and the
\* backslashes that are counted but not written yet.
EscapeAt(a, c) ==
    IF c = Backslash THEN [a EXCEPT !.slashes = @ + 1]
    ELSE [text |-> a.text \o (IF c = Quote THEN EscapedQuote(a.slashes)
                              ELSE Append(Times(Backslash, a.slashes), c)),
          slashes |-> 0]
Escaping(arg) ==
    LET at[n \in 0..Len(arg)] ==
            IF n = 0 THEN [text |-> <<Quote>>, slashes |-> 0] ELSE EscapeAt(at[n - 1], arg[n])
    IN  at

\* argument_escape
Escape(arg) ==
    LET all == Escaping(arg)[Len(arg)]
    IN  IF ShouldEscape(arg) THEN all.text \o EscapedEnd(all.slashes) \o <<Quote>> ELSE arg

\* The loop of argument_escaped_size, which counts on its own; 2 is for the
\* quotation marks.
SizeAt(a, c) ==
    IF c = Backslash THEN [a EXCEPT !.slashes = @ + 1]
    ELSE [size |-> a.size + (IF c = Quote THEN a.slashes * 2 + 2 ELSE a.slashes + 1),
          slashes |-> 0]
Sizing(arg) ==
    LET at[n \in 0..Len(arg)] ==
            IF n = 0 THEN [size |-> 2, slashes |-> 0] ELSE SizeAt(at[n - 1], arg[n])
    IN  at

\* argument_escaped_size
EscapedSize(arg) ==
    LET all == Sizing(arg)[Len(arg)]
    IN  IF ShouldEscape(arg) THEN all.size + all.slashes * 2 ELSE Len(arg)

\* argv_join, argument by argument: the command line and the size of what is
\* allocated for it, without the terminator.
JoinAt(a, argv, n) ==
    LET space == IF n < Len(argv) THEN <<" ">> ELSE <<>>
    IN  [line |-> a.line \o Escape(argv[n]) \o space,
         size |-> a.size + EscapedSize(argv[n]) + Len(space)]
Joining(argv) ==
    LET at[n \in 0..Len(argv)] ==
            IF n = 0 THEN [line |-> <<>>, size |-> 0] ELSE JoinAt(at[n - 1], argv, n)
    IN  at
ArgvJoin(argv) == Joining(argv)[Len(argv)].line
JoinedSize(argv) == Joining(argv)[Len(argv)].size

\* How the Microsoft C run time splits a command line: 2n backslashes and a
\* quotation mark are n backslashes and an end or a beginning of quotation,
\* 2n + 1 are n and a quotation mark.
Flushed(a) == [a EXCEPT !.word = @ \o Times(Backslash, a.slashes), !.slashes = 0]
WordEnd(a) ==
    IF a.some THEN [a EXCEPT !.args = Append(@, a.word), !.word = <<>>, !.some = FALSE] ELSE a
SplitAt(a, c) ==
    CASE c = Backslash -> [a EXCEPT !.slashes = @ + 1, !.some = TRUE]
      [] c = Quote ->
           LET b == [a EXCEPT !.word = @ \o Times(Backslash, a.slashes \div 2), !.slashes = 0,
                              !.some = TRUE]
           IN  IF a.slashes % 2 = 1 THEN [b EXCEPT !.word = Append(@, Quote)]
               ELSE [b EXCEPT !.quoted = ~@]
      [] c = " " /\ ~a.quoted -> WordEnd(Flushed(a))
      [] OTHER -> [Flushed(a) EXCEPT !.word = Append(@, c), !.some = TRUE]

Splitting(line) ==
    LET at[n \in 0..Len(line)] ==
            IF n = 0 THEN [args |-> <<>>, word |-> <<>>, slashes |-> 0, quoted |-> FALSE,
                           some |-> FALSE]
            ELSE SplitAt(at[n - 1], line[n])
    IN  at

\* The arguments that a child finds in a command line.
CommandLineArgs(line) == WordEnd(Flushed(Splitting(line)[Len(line)])).args

\* The arguments of argv that are not empty.
NonEmpty(argv) ==
    LET at[n \in 0..Len(argv)] ==
            IF n = 0 THEN <<>>
            ELSE IF argv[n] = <<>> THEN at[n - 1] ELSE Append(at[n - 1], argv[n])
    IN  at

\* The child of a Windows parent gets the arguments that the caller of
\* reproc_start passed, whatever quotation marks and backslashes are in them,
\* and argv_join fills the memory it has allocated and no more.  Only an empty
\* argument is lost: it is not quoted.
ArgumentsArrive(argv) ==
    /\ CommandLineArgs(ArgvJoin(argv)) = NonEmpty(argv)[Len(argv)]
    /\ Len(ArgvJoin(argv)) = JoinedSize(argv)
=============================================================================
