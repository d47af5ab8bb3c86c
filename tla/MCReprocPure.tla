------------------------------ MODULE MCReprocPure ------------------------------
(***************************************************************************)
(* The functions without state, on all inputs up to a size: an input is    *)
(* taken and grows character by character.                                 *)
(***************************************************************************)
EXTENDS ReprocPath, ReprocArgv, ReprocOptions, ReprocPollWin, ReprocDescriptors, ReprocCpp

CONSTANTS
    PathSize,   \* bound: the characters that follow the beginning of a path
    ArgCount,   \* bound: the arguments, with the program's name
    ArgSize,    \* bound: the characters of all arguments but the program's name
    PollSize    \* bound: the entries of an array to poll

ASSUME SizesAssumption ==
    PathSize \in Nat /\ ArgCount \in Nat /\ ArgSize \in Nat /\ PollSize \in Nat

VARIABLE input

PathChars == {"/", ".", "x", ":"}
ArgChars == {"x", " ", Backslash, Quote}
Unc == <<"/", "/", "x", "/", "x">>

\* Which standard descriptors are open and every redirect on them.
FdsInputs ==
    UNION {[open : {open},
            in : {Pipe, Discard, Limit - 2} \cup open,
            out : {Pipe, Discard, Limit - 1} \cup open,
            err : {Pipe, Discard, Stdout, Limit - 1} \cup open] :
           open \in SUBSET Standard}

Init ==
    \/ \E win \in BOOLEAN : input = [kind |-> "path", win |-> win, path |-> <<>>, left |-> PathSize]
    \/ input = [kind |-> "path", win |-> TRUE, path |-> Unc, left |-> PathSize - 2]
    \/ input = [kind |-> "argv", argv |-> <<<<"x">>, <<>>>>, left |-> ArgSize]
    \/ \E stream \in {"in", "out", "err"}, r \in Redirects, h \in Shorthands :
         input = [kind |-> "redirect", stream |-> stream, redirect |-> r, shorthands |-> h]
    \/ input = [kind |-> "poll", fds |-> <<>>]
    \/ \E c \in FdsInputs : input = [kind |-> "fds", c |-> c]
    \/ \E o \in CppOptions : input = [kind |-> "cpp", o |-> o]
    \/ \E d \in Rounds : input = [kind |-> "drain", round |-> d]

\* Another pipe, of any rank, asked for what reproc_poll asks and signalled or not.
GrowPoll ==
    /\ input.kind = "poll" /\ Len(input.fds) < PollSize
    /\ \E fd \in 0..PollSize, i \in {{"in"}, {"out"}} :
       \E e \in {{}} \cup {{x} : x \in PollEvents(i)} :
         /\ fd = NoSocket \/ \A j \in DOMAIN input.fds : input.fds[j].fd # fd
         /\ fd = NoSocket => e = {}
         /\ input' = [input EXCEPT !.fds = Append(@, [fd |-> fd, interests |-> i, signalled |-> e])]

GrowPath ==
    /\ input.kind = "path" /\ input.left > 0
    /\ \E c \in PathChars : input' = [input EXCEPT !.path = Append(@, c), !.left = @ - 1]

GrowArg ==
    /\ input.kind = "argv" /\ input.left > 0
    /\ \E c \in ArgChars :
         input' = [input EXCEPT !.argv[Len(input.argv)] = Append(@, c), !.left = @ - 1]

NextArg ==
    /\ input.kind = "argv" /\ Len(input.argv) < ArgCount
    /\ input' = [input EXCEPT !.argv = Append(@, <<>>)]

Next == GrowPoll \/ GrowPath \/ GrowArg \/ NextArg

Spec == Init /\ [][Next]_input

\* reproc_path_normalize keeps where paths lead and gives their normal form.
PathsNormalized == input.kind = "path" => NormalizeRight(input.path, input.win)

\* A child on Windows gets the arguments that the caller passed.
ArgumentsRoundTrip == input.kind = "argv" => ArgumentsArrive(input.argv)

\* parse_redirect takes what reproc.h allows, and two things more (Overlooked), and
\* makes it what redirect_init asserts, STDOUT for another stream than stderr excepted.
RedirectsParsed ==
    input.kind = "redirect" => RedirectParsed(input.stream, input.redirect, input.shorthands)

\* pipe_poll on Windows reports what is signalled, and something if anything is.
PollReports == input.kind = "poll" => PollWin32Right(input.fds)

\* The program of a start on POSIX finds its files at the numbers they belong.
DescriptorsPlaced == input.kind = "fds" => PlacedRight(input.c)

\* A standard stream that is to be the parent's is open in the program.
StreamsInherited == input.kind = "fds" => KeepsInherited(input.c)

\* The wrapper passes on what it is given and drains as the library does.
WrapperAgrees ==
    /\ input.kind = "cpp" => OptionsReach(input.o)
    /\ input.kind = "drain" => DrainsAlike(input.round)

\* The wrapper's fork forks.
ForkForks == input.kind = "cpp" => ForkSetsFork(input.o)
=============================================================================
