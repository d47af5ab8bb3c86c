-------------------------------- MODULE ReprocCpp --------------------------------
(***************************************************************************)
(* The C++ wrapper (reproc.cpp, reproc.hpp, drain.hpp): what it passes on  *)
(* to the library, what it makes of results, and its own drain.            *)
(*                                                                         *)
(* Of options that are only passed on there is a value that is set and one *)
(* that is not.  Redirects are in ReprocOptions; here stdin is one of two. *)
(***************************************************************************)
EXTENDS Integers, Sequences, Functions

EPIPE == -32
EINVAL == -22
ETIMEDOUT == -110
EACCES == -13

\* The fields of reproc_options, in the order of their declaration.
COptions == <<"working_directory", "show_console_window", "env", "redirect", "stop",
              "deadline", "input", "fork", "nonblocking">>

\* Options of the wrapper, which has no option to fork.
CppFields == Range(COptions) \ {"fork"}
CppOptions == [CppFields -> BOOLEAN]

\* Mutant: the fields in the order of the wrapper's own struct.
InitializerOwnOrder(o, fork) ==
    <<o["env"], o["working_directory"], o["show_console_window"], o["redirect"], o["stop"],
      o["deadline"], o["input"], o["nonblocking"], fork>>

\* The initializer list of reproc_options_from.
Initializer(o, fork) ==
    <<o["working_directory"], o["show_console_window"], o["env"], o["redirect"], o["stop"],
      o["deadline"], o["input"], o["nonblocking"], fork>>

\* It initializes the fields in the order of their declaration.
OptionsFrom(o, fork) ==
    [f \in Range(COptions) |-> Initializer(o, fork)[CHOOSE n \in DOMAIN COptions : COptions[n] = f]]

\* options::clone
Clone(o) == [o EXCEPT !["show_console_window"] = FALSE, !["nonblocking"] = FALSE]

\* parse_options, of options with well-formed redirects: stdin is a pipe unless
\* "redirect" is set, and argv is given or not.
ParseOptions(c, argv) ==
    IF \/ c["input"] /\ c["redirect"]
       \/ c["fork"] = argv
    THEN EINVAL ELSE 0

\* Error codes have a category and a value; the standard's conditions compare
\* by value.
NoError == <<"none", 0>>
BrokenPipe == <<"generic", -EPIPE>>
TimedOut == <<"generic", -ETIMEDOUT>>

\* error_code_from
ErrorCodeFrom(r) ==
    IF r >= 0 THEN NoError ELSE IF r = EPIPE THEN BrokenPipe ELSE <<"system", -r>>

\* process::start and process::fork, up to what reproc_start refuses.
Start(o) == ErrorCodeFrom(ParseOptions(OptionsFrom(o, FALSE), TRUE))
Fork(o) == ErrorCodeFrom(ParseOptions(OptionsFrom(o, TRUE), FALSE))

\* poll: events are those of the library, unless it fails.
PollFrom(answer) ==
    [events |-> IF answer.r >= 0 THEN answer.events ELSE {}, ec |-> ErrorCodeFrom(answer.r)]

\* A round of drain meets an answer of reproc_poll, one of reproc_read for each
\* stream, and one of each sink.
Sink(r, sunk) == IF r < 0 /\ r # EPIPE THEN r ELSE sunk

\* reproc_drain (drain.c): the round's result, or {} to go on.
CRound(round) ==
    LET ev == round.poll.events
        single(s) == IF ev \cap {s, "exit"} # {} THEN Sink(round.read[s], round.sink[s]) ELSE 0
        r == IF single("out") # 0 THEN single("out") ELSE single("err")
    IN  IF round.poll.r < 0 THEN {IF round.poll.r = EPIPE THEN 0 ELSE round.poll.r}
        ELSE IF "deadline" \in ev THEN {ETIMEDOUT}
        ELSE IF r # 0 \/ (ev \cap {"out", "err", "exit"} = {"exit"}) THEN {r} ELSE {}

\* Mutant: the end of a stream is an error.
EndOfStreamError(ec) == ec

\* drain_single takes the end of a stream for an empty read.
EndOfStream(ec) == IF ec = BrokenPipe THEN NoError ELSE ec

\* drain_single (drain.hpp)
Single(round, s) ==
    LET ec == EndOfStream(ErrorCodeFrom(round.read[s]))
    IN  IF ec # NoError THEN ec ELSE ErrorCodeFrom(round.sink[s])

\* drain (drain.hpp)
CppRound(round) ==
    LET poll == PollFrom(round.poll)
        out == IF poll.events \cap {"out", "exit"} # {} THEN Single(round, "out") ELSE NoError
        err == IF poll.events \cap {"err", "exit"} # {} THEN Single(round, "err") ELSE NoError
        ec == IF out # NoError THEN out ELSE err
    IN  IF poll.ec # NoError THEN {EndOfStream(poll.ec)}
        ELSE IF "deadline" \in poll.events THEN {TimedOut}
        ELSE IF ec # NoError \/ ("exit" \in poll.events /\ poll.events \cap {"out", "err"} = {})
        THEN {ec} ELSE {}

Rounds ==
    [poll : [r : {EACCES, EPIPE}, events : {{}}]
                \cup [r : {1}, events : (SUBSET {"out", "err", "exit"} \ {{}}) \cup {{"deadline"}}],
     read : [{"out", "err"} -> {EACCES, EPIPE, 0, 1}],
     sink : [{"out", "err"} -> {EINVAL, 0}]]
-----------------------------------------------------------------------------
(* Properties. *)

\* Every option other than these two reaches reproc_start as it was given, to
\* start and to run's copy of it: clone drops these and one more.
OptionsReach(o) ==
    LET c == OptionsFrom(o, FALSE)
        copy == OptionsFrom(Clone(o), FALSE)
        carried == CppFields \ {"nonblocking", "fork"}
    IN  /\ \A f \in carried : c[f] = o[f]
        /\ \A f \in carried \ {"show_console_window"} : copy[f] = o[f]
        /\ ~o["nonblocking"] => Start(o) = ErrorCodeFrom(IF o["input"] /\ o["redirect"] THEN EINVAL ELSE 0)

\* The wrapper's drain ends when the library's does and with the same result.
DrainsAlike(round) ==
    {ec[2] : ec \in CppRound(round)} = {ErrorCodeFrom(r)[2] : r \in CRound(round)}

\* reproc.hpp: process::fork "Sets the `fork` option in `reproc_options` and
\* calls `start`": it does not fail for the lack of arguments.
ForkSetsFork(o) ==
    /\ OptionsFrom(o, TRUE)["fork"]
    /\ ~(o["input"] /\ o["redirect"]) => Fork(o) = NoError
=============================================================================
