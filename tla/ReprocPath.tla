------------------------------- MODULE ReprocPath -------------------------------
(***************************************************************************)
(* The path functions of util.c.  A path is a sequence of characters: "/"  *)
(* stands for any separator (what is written is always                     *)
(* path_separator_used), "x" for a letter, ":" and "." for themselves.     *)
(***************************************************************************)
EXTENDS Integers, Sequences, SequencesExt

IsSeparator(c) == c = "/"

\* The length of the longest run from position i on of characters that are
\* (`sep`) or are not (~sep) separators.
RunLength(path, i, sep) ==
    LET over == {j \in i..Len(path) : IsSeparator(path[j]) # sep}
    IN  IF i > Len(path) THEN 0
        ELSE IF over = {} THEN Len(path) - i + 1
        ELSE (CHOOSE j \in over : \A k \in over : j <= k) - i

\* //server/share/, where the separator at the end may be missing.
UncRoot(path) ==
    LET server == RunLength(path, 3, FALSE)
        gap == RunLength(path, 3 + server, TRUE)
        share == RunLength(path, 3 + server + gap, FALSE)
        n == 2 + server + gap + share
    IN  IF RunLength(path, 1, TRUE) # 2 \/ server = 0 \/ share = 0 THEN 1
        ELSE IF n < Len(path) THEN n + 1 ELSE n

\* reproc_path_root
PathRoot(path, win) ==
    IF path = <<>> THEN 0
    ELSE IF ~win \/ Len(path) = 1 THEN IF IsSeparator(path[1]) THEN 1 ELSE 0
    ELSE IF path[1] = "x" /\ path[2] = ":"
    THEN IF Len(path) > 2 /\ IsSeparator(path[3]) THEN 3 ELSE 2
    ELSE IF ~IsSeparator(path[1]) THEN 0
    ELSE UncRoot(path)
-----------------------------------------------------------------------------
(* reproc_path_normalize walks the path backwards and writes what it keeps *)
(* in front of `out`.                                                      *)

\* Mutant: a segment before ".." is kept, and ".." with it.
SkippedNever(s) == FALSE

\* The segment is taken back by a ".." behind it.
Skipped(s) == s.skip > 0

\* _reproc_path_segment_append
Append1(s, c) ==
    IF IsSeparator(c) /\ s.appended THEN s
    ELSE [s EXCEPT !.out = <<c>> \o @, !.appended = IsSeparator(c)]

\* _reproc_get_dot_count: the dots of a segment of nothing else, or -1
DotCount(s) == IF s.dots = s.chars THEN s.dots ELSE -1

\* A separator in front of a segment that is kept, if there is one behind it.
Joined(s) == IF ~s.dotSlash /\ s.fromSlash THEN Append1(s, "/") ELSE s

\* The first segment is over: "." for a relative path of which nothing is left.
FirstSegment(s, absolute) ==
    LET n == DotCount(s)
        t == IF n <= 1 /\ ~absolute /\ (s.appended \/ s.out = <<>>)
             THEN Append1(Joined(s), ".") ELSE s
    IN  IF n < 0 \/ n > 2
        THEN [s EXCEPT !.state = "root", !.skip = IF @ > 0 THEN @ - 1 ELSE 0]
        ELSE [t EXCEPT !.state = "root", !.skip = IF n = 2 THEN @ + 1 ELSE @]

DotDots(s) ==
    LET add[n \in 0..3 * s.skip] ==
            IF n = 0 THEN s ELSE Append1(add[n - 1], IF n % 3 = 1 THEN "/" ELSE ".")
    IN  add[3 * s.skip]

\* The walk has come to the root: its separator, or the ".." that are left over.
AtRoot(s, absolute) ==
    LET t == IF s.state = "segment" THEN FirstSegment(s, absolute) ELSE s
        u == IF absolute \/ t.state = "slash"
             THEN [Append1(t, "/") EXCEPT !.state = "root"]
             ELSE DotDots(t)
    IN  [u EXCEPT !.skip = 0]

Arrived(s, root, absolute) == IF s.i = root THEN AtRoot(s, absolute) ELSE s

\* A segment ends in front: it takes back another one, or is taken back.
EndSegment(s) ==
    LET n == DotCount(s)
    IN  [s EXCEPT
            !.state = "slash",
            !.dotSlash = IF n \in {1, 2} /\ ~s.fromSlash THEN TRUE ELSE @,
            !.skip = IF n = 2 THEN @ + 1
                     ELSE IF n # 1 /\ @ > 0 THEN @ - 1 ELSE @]

\* A character of a segment.  Once the segment is known not to be dots alone it
\* is walked through again and written.
InSegment(s, c) ==
    LET t == [s EXCEPT !.dots = IF c = "." THEN @ + 1 ELSE @, !.chars = @ + 1]
    IN  IF ~t.ready
        THEN IF t.chars > 2 \/ t.chars # t.dots
             THEN [t EXCEPT !.ready = TRUE, !.i = @ + t.chars, !.chars = 0, !.dots = 0]
             ELSE t
        ELSE IF Skipped(t) THEN t
        ELSE Append1([Joined(t) EXCEPT !.dotSlash = FALSE, !.fromSlash = FALSE], c)

\* One round of the inner loop, after the root has been looked for.
Walk(s, c) ==
    CASE s.state = "segment" -> IF IsSeparator(c) THEN EndSegment(s) ELSE InSegment(s, c)
      [] s.state = "slash" -> IF IsSeparator(c) THEN s
                              ELSE [s EXCEPT !.fromSlash = TRUE, !.i = @ + 1, !.dots = 0, !.chars = 0,
                                             !.ready = FALSE, !.state = "segment"]
      [] OTHER -> Append1(s, c)

\* The root without the separators at its end.
RootTrimmed(path, win) ==
    LET n == PathRoot(path, win)
        names == {j \in 1..n : ~IsSeparator(path[j])}
    IN  IF names = {} THEN 0 ELSE CHOOSE j \in names : \A k \in names : k <= j

WalkStart(path) ==
    [i |-> Len(path), out |-> <<>>, appended |-> FALSE, state |-> "segment", skip |-> 0,
     ready |-> FALSE, dotSlash |-> FALSE, fromSlash |-> FALSE, dots |-> 0, chars |-> 0]

\* One round of the loop: the root is looked for and a character is read.
Round(s, path, root, absolute) ==
    IF s.i = 0 THEN s
    ELSE Walk([Arrived(s, root, absolute) EXCEPT !.i = @ - 1], path[s.i])

\* Bound: rounds of the loop, more than it takes (WalkEnds).
WalkRounds(path) == 5 * Len(path) + 4

Walking(path, root, absolute) ==
    LET walk[k \in 0..WalkRounds(path)] ==
            IF k = 0 THEN WalkStart(path) ELSE Round(walk[k - 1], path, root, absolute)
    IN  walk

WalkBack(path, root, absolute) ==
    Arrived(Walking(path, root, absolute)[WalkRounds(path)], root, absolute)

\* The path has a root, and not only the letter of a drive.
Absolute(path, win) ==
    RootTrimmed(path, win) < PathRoot(path, win) \/ RootTrimmed(path, win) >= 5

\* reproc_path_normalize: what is left of a path, behind the second separator
\* of a network name, for which separator_appended is reset.
Normalize(path, win) ==
    LET root == RootTrimmed(path, win)
        end == WalkBack(path, root, Absolute(path, win))
    IN  IF root >= 5 THEN <<"/">> \o end.out ELSE end.out
-----------------------------------------------------------------------------
(* What a normalized path is, from its segments. *)

\* The segments of a path, the empty ones left out.
Segments(path) ==
    LET add(a, c) ==
            IF IsSeparator(c) THEN [done |-> IF a.last = <<>> THEN a.done ELSE Append(a.done, a.last),
                                    last |-> <<>>]
            ELSE [a EXCEPT !.last = Append(@, c)]
    IN  FoldLeft(add, [done |-> <<>>, last |-> <<>>], Append(path, "/")).done

DotDot == <<".", ".">>

\* The segments that are left when "." and ".." are carried out.
Resolve(segments, absolute) ==
    LET add(a, g) ==
            IF g = <<".">> THEN a
            ELSE IF g # DotDot THEN Append(a, g)
            ELSE IF a # <<>> /\ Last(a) # DotDot THEN Front(a)
            ELSE IF absolute THEN a ELSE Append(a, g)
    IN  FoldLeft(add, <<>>, segments)

Join(segments) ==
    FlattenSeq([j \in 1..Len(segments) |-> IF j = 1 THEN segments[j] ELSE <<"/">> \o segments[j]])

RootText(path, win) == SubSeq(path, 1, RootTrimmed(path, win))
RestText(path, win) == SubSeq(path, RootTrimmed(path, win) + 1, Len(path))

\* Where a path leads.
Meaning(path, win) ==
    LET absolute == Absolute(path, win)
    IN  [root |-> Segments(RootText(path, win)), absolute |-> absolute,
         left |-> Resolve(Segments(RestText(path, win)), absolute)]

\* The normal form: the root, what the segments come to, and the separator at
\* the end if the path has one.
NormalForm(path, win) ==
    LET m == Meaning(path, win)
        unc == IF Len(RootText(path, win)) >= 5 THEN <<"/", "/">> \o Join(m.root) ELSE RootText(path, win)
        body == IF m.left # <<>> \/ m.absolute THEN Join(m.left) ELSE <<".">>
        slash == IF RestText(path, win) # <<>> /\ IsSeparator(Last(path)) /\ ~(m.absolute /\ m.left = <<>>)
                 THEN <<"/">> ELSE <<>>
    IN  unc \o (IF m.absolute THEN <<"/">> ELSE <<>>) \o body \o slash

\* Nothing but ".." is left of a relative path, or nothing at all.  There the
\* code has forms of its own: x/.. becomes the empty path, .. becomes ../, and
\* ./.. becomes ../. (while "" becomes . as it should).
Degenerate(path, win) ==
    LET m == Meaning(path, win) IN ~m.absolute /\ \A j \in 1..Len(m.left) : m.left[j] = DotDot

\* What is left of a relative path begins like a drive: ./x: becomes x:
BecomesDrive(path, win) ==
    LET m == Meaning(path, win)
    IN  win /\ m.root = <<>> /\ m.left # <<>> /\ IsPrefix(<<"x", ":">>, m.left[1])

\* The loop comes to the front of the path, though it goes back in it.
WalkEnds(path, win) ==
    Walking(path, RootTrimmed(path, win), Absolute(path, win))[WalkRounds(path)].i = 0

\* No two separators follow each other but the two of a network name.
SeparatorsSingle(out, unc) ==
    \A j \in 2..Len(out) : IsSeparator(out[j - 1]) /\ IsSeparator(out[j]) => j = 2 /\ unc

\* reproc_path_normalize ends, does not change where a path leads, on either
\* platform, unless it becomes a drive, and gives the normal form of all paths but
\* the degenerate ones.
NormalizeRight(path, win) ==
    /\ WalkEnds(path, win)
    /\ \A out \in {Normalize(path, win)} :
         /\ SeparatorsSingle(out, RootTrimmed(path, win) >= 5)
         /\ BecomesDrive(path, win) \/ Meaning(out, win) = Meaning(path, win)
         /\ Degenerate(path, win) \/ out = NormalForm(path, win)
=============================================================================
