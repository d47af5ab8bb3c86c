------------------------------ MODULE ReprocOptions ------------------------------
(***************************************************************************)
(* parse_redirect (options.c): what the options of one stream and the      *)
(* shorthands for all of them come to.                                     *)
(***************************************************************************)
EXTENDS Integers, FiniteSets

Types == {"default", "pipe", "parent", "discard", "stdout", "handle", "file", "path"}

\* A redirect of a stream: its type and which of its members are set.
Redirects == [type : Types, handle : BOOLEAN, file : BOOLEAN, path : BOOLEAN]

\* options.redirect.parent, .discard, .file and .path
Shorthands == [parent : BOOLEAN, discard : BOOLEAN, file : BOOLEAN, path : BOOLEAN]

IsSet(r) == r.type # "default" \/ r.handle \/ r.file \/ r.path

\* What parse_options passes on for a stream: stdin has no file and no path.
Passed(stream, h) == IF stream = "in" THEN [h EXCEPT !.file = FALSE, !.path = FALSE] ELSE h

\* The members that only a type of that name may have.
Members == {"handle", "file", "path"}

\* options.redirect.file and .path stand alone and replace an unset redirect.
FromShorthand(r, h) ==
    IF h.file THEN [r EXCEPT !.type = "file", !.file = TRUE]
    ELSE IF h.path THEN [r EXCEPT !.type = "path", !.path = TRUE] ELSE r
ShorthandAllowed(r, h) ==
    h.file \/ h.path => ~IsSet(r) /\ ~h.parent /\ ~h.discard /\ ~(h.file /\ h.path)

\* Mutant: a member of another type is not looked for.
MemberAllowedSloppy(r, m) ==
    r.type = m \/ r[m] => r.type \in {"default", m} /\ r[m]

\* A redirect of type m, or one with member m, has both and no other member.
MemberAllowed(r, m) ==
    r.type = m \/ r[m] => /\ r.type \in {"default", m}
                          /\ r[m]
                          /\ \A o \in Members \ {m} : ~r[o]

FromMember(r) ==
    IF \E m \in Members : r[m] THEN [r EXCEPT !.type = CHOOSE m \in Members : r[m]] ELSE r

Default(stream, h) ==
    IF h.parent THEN "parent" ELSE IF h.discard THEN "discard"
    ELSE IF stream = "err" THEN "parent" ELSE "pipe"

\* parse_redirect: the redirect it makes, or none and EINVAL
ParseRedirect(stream, redirect, shorthands) ==
    LET h == Passed(stream, shorthands)
        r == FromShorthand(redirect, h)
        s == FromMember(r)
    IN  IF ~ShorthandAllowed(redirect, h) \/ \E m \in Members : ~MemberAllowed(r, m) THEN {}
        ELSE IF s.type # "default" THEN {s}
        ELSE IF h.parent /\ h.discard THEN {}
        ELSE {[s EXCEPT !.type = Default(stream, h)]}

\* What redirect_init asserts of a redirect: the type is not the default one, the
\* member it uses, and no other, is there, and only stderr goes where stdout goes.
WellFormed(stream, r) ==
    /\ r.type # "default"
    /\ \A m \in Members : r[m] <=> r.type = m
    /\ r.type = "stdout" => stream = "err"

\* The ways in which the options say how to redirect the stream.
Ways(stream, r, h) ==
    {<<"type", r.type>> : t \in {r.type} \ {"default"}}
        \cup {<<"type", m>> : m \in {k \in Members : r[k]}}
        \cup {<<"all", m>> : m \in {k \in {"file", "path"} : stream # "in" /\ h[k]}}

\* The options say one thing at most and have what they speak of.
OneWish(stream, r, h) ==
    /\ Cardinality(Ways(stream, r, h)) <= 1
    /\ r.type \in Members => r[r.type]
    /\ stream # "in" /\ (h.file \/ h.path) => ~h.parent /\ ~h.discard

\* Exceptions: two things that reproc.h forbids and parse_redirect overlooks.  The
\* type STDOUT is for stderr only, and redirect_init asserts it (redirect.c:110):
\* a start with it for stdin or stdout aborts, or is at fault where assertions are
\* compiled out.  And `parent` may not go with `discard`, which parse_redirect finds
\* out only for a stream that has no redirect of its own.
StdoutElsewhere(stream, r) == r.type = "stdout" /\ stream # "err"
UnusedAtOdds(stream, r, h) == h.parent /\ h.discard /\ Ways(stream, r, h) # {}

\* What reproc.h allows for the stream.
Documented(stream, r, h) ==
    /\ OneWish(stream, r, h)
    /\ ~(h.parent /\ h.discard)
    /\ r.type = "stdout" => stream = "err"

Overlooked(stream, r, h) ==
    /\ OneWish(stream, r, h)
    /\ StdoutElsewhere(stream, r) \/ UnusedAtOdds(stream, r, h)
    /\ h.parent /\ h.discard => UnusedAtOdds(stream, r, h)

\* parse_redirect accepts what reproc.h allows and what it overlooks, and nothing
\* else.  What it makes of it is what the caller asked for and, but for STDOUT
\* elsewhere than for stderr, what redirect_init asserts.
RedirectParsed(stream, r, h) ==
    LET parsed == ParseRedirect(stream, r, h)
    IN  /\ parsed # {} <=> Documented(stream, r, h) \/ Overlooked(stream, r, h)
        /\ \A p \in parsed : /\ WellFormed(stream, p) \/ StdoutElsewhere(stream, r)
                             /\ \A w \in Ways(stream, r, h) : p.type = w[2]
=============================================================================
