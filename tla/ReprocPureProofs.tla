---------------------------- MODULE ReprocPureProofs ----------------------------
(***************************************************************************)
(* Theorems about the functions without state: what the runs check on      *)
(* small inputs holds for inputs of every size.                            *)
(***************************************************************************)
EXTENDS MCReprocPure, FiniteSetTheorems, TLAPS

-----------------------------------------------------------------------------
(***************************************************************************)
(* Induction over natural numbers, from the library's fact that a set of   *)
(* them has a least member, and the functions that loops compute.          *)
(***************************************************************************)

Before == {p \in Nat \X Nat : p[1] < p[2]}

LEMMA BeforeWellFounded == IsWellFoundedOn(Before, Nat)
<1>1. IsWellFoundedOn(OpToRel(<, Nat), Nat)
  BY NatLessThanWellFounded
<1>2. OpToRel(<, Nat) = Before
  BY DEF OpToRel, Before
<1>3. QED
  BY <1>1, <1>2

\* A set of numbers that is not empty has a least member.
LEMMA Least ==
    ASSUME NEW T, T \subseteq Nat, T # {}
    PROVE  \E x \in T : \A y \in T : x <= y
<1>1. T \subseteq Nat /\ T # {}
  OBVIOUS
<1>2. \E x \in T : \A y \in T : ~ (<<y, x>> \in Before)
  BY <1>1, BeforeWellFounded, WFMin
<1>3. PICK x \in T : \A y \in T : ~ (<<y, x>> \in Before)
  BY <1>2
<1>4. ASSUME NEW y \in T PROVE x <= y
  <2>1. x \in Nat /\ y \in Nat /\ <<y, x>> \notin Before
    BY <1>1, <1>3
  <2>2. QED
    BY <2>1 DEF Before
<1>5. QED
  BY <1>4

\* A set with 0, and with n + 1 if with n, has every number.
LEMMA NatSets ==
    ASSUME NEW S, 0 \in S, \A n \in Nat : n \in S => n + 1 \in S
    PROVE  \A n \in Nat : n \in S
<1> DEFINE T == Nat \ S
<1>1. SUFFICES ASSUME T # {} PROVE FALSE
  OBVIOUS
<1>2. T \subseteq Nat
  OBVIOUS
<1> HIDE DEF T
<1>3. PICK x \in T : \A y \in T : x <= y
  BY <1>1, <1>2, Least
<1>4. x \in Nat /\ x \notin S /\ \A y \in Nat : y < x => y \in S
  BY <1>2, <1>3 DEF T
<1>5. x # 0 /\ x - 1 \in Nat /\ x - 1 < x /\ (x - 1) + 1 = x
  BY <1>4
<1>6. QED
  BY <1>4, <1>5

\* The same for the rounds of a loop of N rounds.
LEMMA Rounds0 ==
    ASSUME NEW N \in Nat, NEW S, 0 \in S, \A n \in 1..N : n - 1 \in S => n \in S
    PROVE  \A n \in 0..N : n \in S
<1> DEFINE T == {n \in Nat : n <= N => n \in S}
<1>1. 0 \in T
  OBVIOUS
<1>2. ASSUME NEW n \in Nat, n \in T PROVE n + 1 \in T
  <2>1. CASE n + 1 <= N
    <3>1. n + 1 \in 1..N /\ (n + 1) - 1 = n /\ n \in S
      BY <1>2, <2>1
    <3>2. QED
      BY <3>1
  <2>2. CASE ~(n + 1 <= N)
    BY <2>2
  <2>3. QED
    BY <2>1, <2>2
<1> HIDE DEF T
<1>3. \A n \in Nat : n \in T
  BY <1>1, <1>2, NatSets, Zenon
<1>4. QED
  BY <1>3 DEF T

\* What a loop of N rounds has after each round: a before the first, and what g
\* makes of what it had.
Loop(f, N, S, a, g) ==
    f \in [0..N -> S] /\ f[0] = a /\ \A n \in 1..N : f[n] = g[n][f[n - 1]]

LEMMA LoopExists ==
    ASSUME NEW N \in Nat, NEW S, NEW a \in S, NEW g \in [1..N -> [S -> S]]
    PROVE  \E f : Loop(f, N, S, a, g)
<1> DEFINE T == {n \in Nat : \E f : Loop(f, n, S, a, g)}
<1>1. 0 \in T
  <2> DEFINE h == [k \in 0..0 |-> a]
  <2>1. h \in [0..0 -> S] /\ h[0] = a /\ 1..0 = {}
    OBVIOUS
  <2> HIDE DEF h
  <2>2. Loop(h, 0, S, a, g)
    BY <2>1 DEF Loop
  <2>3. QED
    BY <2>2
<1>2. ASSUME NEW n \in 1..N, n - 1 \in T PROVE n \in T
  <2>1. PICK f : Loop(f, n - 1, S, a, g)
    BY <1>2
  <2> DEFINE h == [k \in 0..n |-> IF k = n THEN g[n][f[n - 1]] ELSE f[k]]
  <2>2. f[n - 1] \in S /\ g[n][f[n - 1]] \in S
    BY <2>1 DEF Loop
  <2>3. h \in [0..n -> S]
    BY <2>1, <2>2 DEF Loop
  <2>4. h[0] = a
    BY <2>1 DEF Loop
  <2>5. ASSUME NEW k \in 1..n PROVE h[k] = g[k][h[k - 1]]
    <3>1. CASE k = n
      <4>1. h[n] = g[n][f[n - 1]] /\ h[n - 1] = f[n - 1]
        OBVIOUS
      <4>2. QED
        BY <3>1, <4>1
    <3>2. CASE k # n
      <4>1. k \in 1..(n - 1)
        BY <3>2
      <4>2. QED
        BY <2>1, <3>2, <4>1 DEF Loop
    <3>3. QED
      BY <3>1, <3>2
  <2> HIDE DEF h
  <2>6. Loop(h, n, S, a, g)
    BY <2>3, <2>4, <2>5 DEF Loop
  <2>7. QED
    BY <2>6
<1> HIDE DEF T
<1>3. \A n \in 0..N : n \in T
  BY <1>1, <1>2, Rounds0
<1>4. N \in T
  BY <1>3
<1>5. QED
  BY <1>4 DEF T

LEMMA FunctionIsSeq ==
    ASSUME NEW m \in Nat, NEW S, NEW f \in [1..m -> S]
    PROVE  f \in Seq(S) /\ Len(f) = m
OBVIOUS

-----------------------------------------------------------------------------
(***************************************************************************)
(* Redirects (options.c).                                                  *)
(***************************************************************************)

\* The ways in which the options ask for a redirect of the stream are not two
\* exactly if all of them are the same.
LEMMA OneWay ==
    ASSUME NEW S, IsFiniteSet(S)
    PROVE  /\ Cardinality(S) <= 1 <=> \A x, y \in S : x = y
           /\ Cardinality(S) = 0 <=> S = {}
<1>1. Cardinality(S) \in Nat /\ (Cardinality(S) = 0 <=> S = {})
  BY FS_CardinalityType, FS_EmptySet
<1>2. Cardinality(S) = 1 <=> \E x : S = {x}
  BY FS_Singleton
<1>3. QED
  BY <1>1, <1>2

LEMMA WaysFinite ==
    ASSUME NEW stream, NEW r \in Redirects, NEW h \in Shorthands
    PROVE  IsFiniteSet(Ways(stream, r, h))
<1>1. IsFiniteSet({r.type} \ {"default"})
  BY FS_Singleton, FS_Subset
<1>2. IsFiniteSet(Types)
  <2>1. IsFiniteSet({"default"})
    BY FS_Singleton
  <2>2. \A S, x : IsFiniteSet(S) => IsFiniteSet(S \cup {x})
    BY FS_AddElement
  <2>3. IsFiniteSet({"default"} \cup {"pipe"} \cup {"parent"} \cup {"discard"} \cup {"stdout"}
                      \cup {"handle"} \cup {"file"} \cup {"path"})
    BY <2>1, <2>2, Zenon
  <2>4. Types = {"default"} \cup {"pipe"} \cup {"parent"} \cup {"discard"} \cup {"stdout"}
                  \cup {"handle"} \cup {"file"} \cup {"path"}
    BY DEF Types
  <2>5. QED
    BY <2>3, <2>4
<1>3. IsFiniteSet({"type", "all"})
  <2>1. {"type", "all"} = {"type"} \cup {"all"}
    OBVIOUS
  <2>2. IsFiniteSet({"type"})
    BY FS_Singleton
  <2>3. IsFiniteSet({"type"} \cup {"all"})
    BY <2>2, FS_AddElement
  <2>4. QED
    BY <2>1, <2>3
<1>4. IsFiniteSet({"type", "all"} \X Types)
  BY <1>2, <1>3, FS_Product
<1>5. Ways(stream, r, h) \subseteq {"type", "all"} \X Types
  BY DEF Ways, Types, Members, Redirects
<1>6. QED
  BY <1>4, <1>5, FS_Subset

\* What it means for the options to ask for one thing at most.
SaysOne(stream, r, h) ==
    /\ ~(r.handle /\ r.file) /\ ~(r.handle /\ r.path) /\ ~(r.file /\ r.path)
    /\ \A m \in Members : r.type # "default" /\ r[m] => r.type = m
    /\ stream # "in" /\ (h.file \/ h.path) => ~IsSet(r) /\ ~(h.file /\ h.path)

LEMMA WaysSayOne ==
    ASSUME NEW stream, NEW r \in Redirects, NEW h \in Shorthands
    PROVE  /\ Cardinality(Ways(stream, r, h)) <= 1 <=> SaysOne(stream, r, h)
           /\ Cardinality(Ways(stream, r, h)) = 0
                <=> ~IsSet(r) /\ ~(stream # "in" /\ (h.file \/ h.path))
<1> DEFINE W == Ways(stream, r, h)
<1>1. /\ Cardinality(W) <= 1 <=> \A x, y \in W : x = y
      /\ Cardinality(W) = 0 <=> W = {}
  BY WaysFinite, OneWay
<1>2. \A w : w \in W <=> \/ r.type # "default" /\ w = <<"type", r.type>>
                         \/ r.handle /\ w = <<"type", "handle">>
                         \/ r.file /\ w = <<"type", "file">>
                         \/ r.path /\ w = <<"type", "path">>
                         \/ stream # "in" /\ h.file /\ w = <<"all", "file">>
                         \/ stream # "in" /\ h.path /\ w = <<"all", "path">>
  BY DEF Ways, Members
<1>3. /\ r.type \in Types
      /\ r.handle \in BOOLEAN /\ r.file \in BOOLEAN /\ r.path \in BOOLEAN
      /\ h.file \in BOOLEAN /\ h.path \in BOOLEAN
  BY DEF Redirects, Shorthands
<1> HIDE DEF W
<1>4. (\A x, y \in W : x = y) => SaysOne(stream, r, h)
  <2>1. SUFFICES ASSUME \A x, y \in W : x = y PROVE SaysOne(stream, r, h)
    OBVIOUS
  <2>2. \A m \in Members : r[m] => <<"type", m>> \in W
    BY <1>2 DEF Members
  <2>3. r.type # "default" => <<"type", r.type>> \in W
    BY <1>2
  <2>4. stream # "in" => /\ h.file => <<"all", "file">> \in W
                         /\ h.path => <<"all", "path">> \in W
    BY <1>2
  <2>5. \A m, n \in Members : r[m] /\ r[n] => m = n
    BY <2>1, <2>2
  <2>6. \A m \in Members : r.type # "default" /\ r[m] => r.type = m
    BY <2>1, <2>2, <2>3
  <2>7. stream # "in" /\ (h.file \/ h.path) =>
          /\ r.type = "default"
          /\ \A m \in Members : ~r[m]
          /\ ~(h.file /\ h.path)
    <3>1. \A m, n : <<"all", m>> \in W => <<"type", n>> \notin W
      <4>1. \A m, n : <<"all", m>> # <<"type", n>>
        OBVIOUS
      <4>2. QED
        BY <2>1, <4>1
    <3>2. ~(<<"all", "file">> \in W /\ <<"all", "path">> \in W)
      BY <2>1
    <3>3. ASSUME NEW k, <<"all", k>> \in W
          PROVE  r.type = "default" /\ \A m \in Members : ~r[m]
      BY <2>2, <2>3, <3>1, <3>3
    <3>4. SUFFICES ASSUME stream # "in", h.file \/ h.path
                   PROVE  /\ r.type = "default"
                          /\ \A m \in Members : ~r[m]
                          /\ ~(h.file /\ h.path)
      OBVIOUS
    <3>5. <<"all", "file">> \in W \/ <<"all", "path">> \in W
      BY <2>4, <3>4
    <3>6. ~(h.file /\ h.path)
      BY <2>4, <3>2, <3>4
    <3>7. QED
      BY <3>3, <3>5, <3>6
  <2>8. ~(r.handle /\ r.file) /\ ~(r.handle /\ r.path) /\ ~(r.file /\ r.path)
    <3>1. "handle" \in Members /\ "file" \in Members /\ "path" \in Members
      BY DEF Members
    <3>2. "handle" # "file" /\ "handle" # "path" /\ "file" # "path"
      OBVIOUS
    <3>3. QED
      BY <2>5, <3>1, <3>2
  <2>9. stream # "in" /\ (h.file \/ h.path) => ~IsSet(r) /\ ~(h.file /\ h.path)
    BY <2>7 DEF IsSet, Members
  <2>10. QED
    BY <2>6, <2>8, <2>9 DEF SaysOne
<1>5. SaysOne(stream, r, h) => \A x, y \in W : x = y
  <2>1. SUFFICES ASSUME SaysOne(stream, r, h), NEW x \in W, NEW y \in W PROVE x = y
    OBVIOUS
  <2>2. QED
    BY <1>2, <1>3, <2>1 DEF SaysOne, Members, IsSet
<1>6. W = {} <=> ~IsSet(r) /\ ~(stream # "in" /\ (h.file \/ h.path))
  BY <1>2, <1>3 DEF IsSet
<1>7. QED
  BY <1>1, <1>4, <1>5, <1>6 DEF W

\* What parse_redirect is asked to refuse.
AtOdds(stream, r, h) ==
    \/ ~SaysOne(stream, r, h)
    \/ r.type \in Members /\ ~r[r.type]
    \/ stream # "in" /\ (h.file \/ h.path) /\ (h.parent \/ h.discard)
    \/ ~IsSet(r) /\ ~(stream # "in" /\ (h.file \/ h.path)) /\ h.parent /\ h.discard

\* For every redirect and all shorthands: parse_redirect refuses what it finds at odds
\* and nothing else, and what it makes of the rest is what was asked for.
LEMMA Parsing ==
    ASSUME NEW stream \in {"in", "out", "err"}, NEW r \in Redirects, NEW h \in Shorthands
    PROVE  RedirectParsed(stream, r, h)
<1> DEFINE p == Passed(stream, h)
           f == FromShorthand(r, p)
           s == FromMember(f)
<1>1. p \in Shorthands /\ p.parent = h.parent /\ p.discard = h.discard
      /\ (p.file <=> stream # "in" /\ h.file) /\ (p.path <=> stream # "in" /\ h.path)
  BY DEF Passed, Shorthands
<1> HIDE DEF p
<1>2. f \in Redirects
  BY <1>1 DEF FromShorthand, Redirects, Types, Shorthands
<1>3. ASSUME ~AtOdds(stream, r, h)
      PROVE  /\ ShorthandAllowed(r, p)
             /\ \A m \in Members : MemberAllowed(f, m)
  BY <1>1, <1>3 DEF AtOdds, SaysOne, ShorthandAllowed, MemberAllowed, FromShorthand, Members,
                    Redirects, Shorthands, Types, IsSet
<1>4. ASSUME ShorthandAllowed(r, p), \A m \in Members : MemberAllowed(f, m),
             ~(f.type = "default" /\ (\A m \in Members : ~f[m]) /\ h.parent /\ h.discard)
      PROVE  ~AtOdds(stream, r, h)
  BY <1>1, <1>4 DEF AtOdds, SaysOne, ShorthandAllowed, MemberAllowed, FromShorthand, Members,
                    Redirects, Shorthands, Types, IsSet
<1>5. f.type \in Types /\ \A m \in Members : m \in Types /\ f[m] \in BOOLEAN
  BY <1>2 DEF Redirects, Members, Types
<1>6. /\ s \in Redirects
      /\ (\A m \in Members : ~f[m]) => s = f
      /\ \A m \in Members : s[m] = f[m]
      /\ (\E m \in Members : f[m]) => s.type \in Members /\ f[s.type]
  BY <1>2, <1>5 DEF FromMember, Redirects, Members
<1>7. s.type = "default" <=> f.type = "default" /\ \A m \in Members : ~f[m]
  BY <1>6 DEF Members
<1>8. ParseRedirect(stream, r, h) # {} <=> ~AtOdds(stream, r, h)
  <2>1. /\ ShorthandAllowed(r, p)
        /\ \A m \in Members : MemberAllowed(f, m)
        /\ ~(f.type = "default" /\ (\A m \in Members : ~f[m]) /\ h.parent /\ h.discard)
        => ~AtOdds(stream, r, h)
    BY <1>4
  <2>2. f.type = "default" /\ (\A m \in Members : ~f[m]) /\ h.parent /\ h.discard
        => AtOdds(stream, r, h)
    BY <1>1 DEF AtOdds, FromShorthand, Members, IsSet, Redirects, Shorthands, Types
  <2>3. ParseRedirect(stream, r, h) # {} <=>
           /\ ShorthandAllowed(r, p)
           /\ \A m \in Members : MemberAllowed(f, m)
           /\ ~(f.type = "default" /\ (\A m \in Members : ~f[m]) /\ h.parent /\ h.discard)
    BY <1>1, <1>7 DEF ParseRedirect, p
  <2>4. QED
    BY <1>3, <2>1, <2>2, <2>3
<1>9. ASSUME NEW q \in ParseRedirect(stream, r, h)
      PROVE  /\ WellFormed(stream, q) \/ StdoutElsewhere(stream, r)
             /\ \A w \in Ways(stream, r, h) : q.type = w[2]
  <2>1. /\ ~AtOdds(stream, r, h)
        /\ ShorthandAllowed(r, p)
        /\ \A m \in Members : MemberAllowed(f, m)
    BY <1>8, <1>9, <1>1 DEF ParseRedirect, p
  <2>2. CASE s.type # "default"
    <3>1. q = s
      BY <1>9, <2>1, <2>2 DEF ParseRedirect, p
    <3>2. \A m \in Members : s[m] <=> s.type = m
      BY <1>5, <1>6, <2>1 DEF MemberAllowed
    <3>3. WellFormed(stream, q) \/ StdoutElsewhere(stream, r)
      <4>1. s.type = "stdout" => r.type = "stdout"
        BY <1>1, <1>5, <1>6 DEF FromShorthand, Members, Redirects, Shorthands
      <4>2. QED
        BY <2>2, <3>1, <3>2, <4>1 DEF WellFormed, StdoutElsewhere
    <3>4. ASSUME NEW w \in Ways(stream, r, h) PROVE q.type = w[2]
      <4>1. \/ r.type # "default" /\ w[2] = r.type
            \/ w[2] \in Members /\ r[w[2]]
            \/ stream # "in" /\ h.file /\ w[2] = "file"
            \/ stream # "in" /\ h.path /\ w[2] = "path"
        BY <3>4 DEF Ways
      <4>2. CASE r.type # "default" /\ w[2] = r.type
        <5>1. f = r
          BY <1>1, <2>1, <4>2 DEF FromShorthand, ShorthandAllowed, IsSet, Shorthands
        <5>2. s.type = f.type
          <6>1. CASE \A m \in Members : ~f[m]
            BY <1>6, <6>1
          <6>2. CASE \E m \in Members : f[m]
            <7>1. s.type \in Members /\ f[s.type]
              BY <1>6, <6>2
            <7>2. f.type \in {"default", s.type}
              BY <2>1, <7>1 DEF MemberAllowed
            <7>3. QED
              BY <4>2, <5>1, <7>2
          <6>3. QED
            BY <6>1, <6>2
        <5>3. QED
          BY <3>1, <4>2, <5>1, <5>2
      <4>3. CASE w[2] \in Members /\ r[w[2]]
        <5>1. f[w[2]]
          <6>1. f = r
            BY <1>1, <2>1, <4>3 DEF FromShorthand, ShorthandAllowed, IsSet, Members, Shorthands
          <6>2. QED
            BY <4>3, <6>1
        <5>2. s.type = w[2]
          BY <1>6, <3>2, <4>3, <5>1
        <5>3. QED
          BY <3>1, <5>2
      <4>4. CASE stream # "in" /\ h.file /\ w[2] = "file"
        <5>1. "file" \in Members /\ f.file
          BY <1>1, <4>4 DEF FromShorthand, Redirects, Members
        <5>2. s.type = "file"
          BY <1>6, <3>2, <5>1
        <5>3. QED
          BY <3>1, <4>4, <5>2
      <4>5. CASE stream # "in" /\ h.path /\ w[2] = "path"
        <5>1. "path" \in Members /\ f.path
          BY <1>1, <2>1, <4>5 DEF FromShorthand, Redirects, Members, ShorthandAllowed, Shorthands
        <5>2. s.type = "path"
          BY <1>6, <3>2, <5>1
        <5>3. QED
          BY <3>1, <4>5, <5>2
      <4>6. QED
        BY <4>1, <4>2, <4>3, <4>4, <4>5
    <3>5. QED
      BY <3>3, <3>4
  <2>3. CASE s.type = "default"
    <3>1. q = [s EXCEPT !.type = Default(stream, p)]
      BY <1>9, <2>1, <2>3 DEF ParseRedirect, p
    <3>2. f.type = "default" /\ \A m \in Members : ~f[m] /\ ~s[m]
      BY <1>6, <1>7, <2>3
    <3>3. q.type = Default(stream, p) /\ \A m \in Members : q[m] = s[m]
      BY <1>6, <3>1 DEF Redirects, Members
    <3>4. WellFormed(stream, q)
      BY <3>2, <3>3 DEF WellFormed, Default, Members
    <3>5. ~IsSet(r) /\ ~(stream # "in" /\ (h.file \/ h.path))
      BY <1>1, <3>2 DEF FromShorthand, IsSet, Members, Redirects
    <3>6. Ways(stream, r, h) = {}
      BY <3>5 DEF Ways, IsSet, Members
    <3>7. QED
      BY <3>4, <3>6
  <2>4. QED
    BY <2>2, <2>3
<1> DEFINE one == /\ SaysOne(stream, r, h)
                  /\ r.type \in Members => r[r.type]
                  /\ stream # "in" /\ (h.file \/ h.path) => ~h.parent /\ ~h.discard
           asked == IsSet(r) \/ (stream # "in" /\ (h.file \/ h.path))
<1>10. (OneWish(stream, r, h) <=> one) /\ (Ways(stream, r, h) # {} <=> asked)
  BY WaysSayOne, WaysFinite, OneWay DEF OneWish
<1>11. Documented(stream, r, h) \/ Overlooked(stream, r, h)
         <=> OneWish(stream, r, h) /\ (h.parent /\ h.discard => Ways(stream, r, h) # {})
  <2>1. h.parent \in BOOLEAN /\ h.discard \in BOOLEAN
    BY DEF Shorthands
  <2>2. QED
    BY <2>1 DEF Documented, Overlooked, StdoutElsewhere, UnusedAtOdds
<1>12. ~AtOdds(stream, r, h) <=> one /\ (h.parent /\ h.discard => asked)
  <2>1. /\ h.parent \in BOOLEAN /\ h.discard \in BOOLEAN /\ h.file \in BOOLEAN /\ h.path \in BOOLEAN
        /\ r.type \in Members => r[r.type] \in BOOLEAN
    BY DEF Redirects, Shorthands, Members
  <2>2. QED
    BY <2>1 DEF AtOdds
<1> HIDE DEF one, asked
<1>13. Documented(stream, r, h) \/ Overlooked(stream, r, h) <=> ~AtOdds(stream, r, h)
  <2>1. OneWish(stream, r, h) /\ (h.parent /\ h.discard => Ways(stream, r, h) # {})
          <=> one /\ (h.parent /\ h.discard => asked)
    BY <1>10, Zenon
  <2>2. QED
    BY <1>11, <1>12, <2>1, Zenon
<1>14. QED
  BY <1>8, <1>9, <1>13 DEF RedirectParsed

-----------------------------------------------------------------------------
(***************************************************************************)
(* The C++ wrapper.                                                        *)
(***************************************************************************)

LEMMA FieldsAre ==
    Range(COptions) = {"working_directory", "show_console_window", "env", "redirect", "stop",
                       "deadline", "input", "fork", "nonblocking"}
<1>1. DOMAIN COptions = 1..9
  BY DEF COptions
<1>2. \A f : (\E n \in 1..9 : COptions[n] = f) <=>
             f \in {"working_directory", "show_console_window", "env", "redirect", "stop",
                    "deadline", "input", "fork", "nonblocking"}
  BY DEF COptions
<1>3. QED
  BY <1>1, <1>2 DEF Range

\* Where the initializer list and the declaration agree on a field.
LEMMA FieldFrom ==
    ASSUME NEW o, NEW fork, NEW n \in 1..9
    PROVE  OptionsFrom(o, fork)[COptions[n]] = Initializer(o, fork)[n]
<1>1. \A k, l \in 1..9 : COptions[k] = COptions[l] => k = l
  BY DEF COptions
<1>2. DOMAIN COptions = 1..9
  BY DEF COptions
<1>3. (CHOOSE k \in DOMAIN COptions : COptions[k] = COptions[n]) = n
  BY <1>1, <1>2
<1>4. COptions[n] \in Range(COptions)
  BY <1>2 DEF Range
<1>5. QED
  BY <1>3, <1>4 DEF OptionsFrom

LEMMA Carried ==
    ASSUME NEW o, NEW fork
    PROVE  LET c == OptionsFrom(o, fork)
           IN  /\ c["working_directory"] = o["working_directory"]
               /\ c["show_console_window"] = o["show_console_window"]
               /\ c["env"] = o["env"]
               /\ c["redirect"] = o["redirect"]
               /\ c["stop"] = o["stop"]
               /\ c["deadline"] = o["deadline"]
               /\ c["input"] = o["input"]
               /\ c["fork"] = o["nonblocking"]
<1>1. \A n \in 1..9 : OptionsFrom(o, fork)[COptions[n]] = Initializer(o, fork)[n]
  BY FieldFrom
<1>2. /\ OptionsFrom(o, fork)[COptions[1]] = Initializer(o, fork)[1]
      /\ OptionsFrom(o, fork)[COptions[2]] = Initializer(o, fork)[2]
      /\ OptionsFrom(o, fork)[COptions[3]] = Initializer(o, fork)[3]
      /\ OptionsFrom(o, fork)[COptions[4]] = Initializer(o, fork)[4]
      /\ OptionsFrom(o, fork)[COptions[5]] = Initializer(o, fork)[5]
      /\ OptionsFrom(o, fork)[COptions[6]] = Initializer(o, fork)[6]
      /\ OptionsFrom(o, fork)[COptions[7]] = Initializer(o, fork)[7]
      /\ OptionsFrom(o, fork)[COptions[8]] = Initializer(o, fork)[8]
  BY <1>1
<1>3. QED
  BY <1>2 DEF COptions, Initializer

\* For all options, every field but two reaches the library.
LEMMA Reaching ==
    ASSUME NEW o \in CppOptions
    PROVE  OptionsReach(o)
<1> DEFINE c == OptionsFrom(o, FALSE)
           copy == OptionsFrom(Clone(o), FALSE)
<1>1. CppFields \ {"nonblocking", "fork"} =
        {"working_directory", "show_console_window", "env", "redirect", "stop", "deadline", "input"}
  BY FieldsAre DEF CppFields
<1>2. \A f \in CppFields \ {"nonblocking", "fork"} : c[f] = o[f]
  BY <1>1, Carried
<1>3. \A f \in CppFields \ {"nonblocking", "fork", "show_console_window"} : Clone(o)[f] = o[f]
  BY DEF Clone, CppOptions
<1>4. \A f \in CppFields \ {"nonblocking", "fork", "show_console_window"} : copy[f] = Clone(o)[f]
  <2>1. \A p : /\ OptionsFrom(p, FALSE)["working_directory"] = p["working_directory"]
               /\ OptionsFrom(p, FALSE)["env"] = p["env"]
               /\ OptionsFrom(p, FALSE)["redirect"] = p["redirect"]
               /\ OptionsFrom(p, FALSE)["stop"] = p["stop"]
               /\ OptionsFrom(p, FALSE)["deadline"] = p["deadline"]
               /\ OptionsFrom(p, FALSE)["input"] = p["input"]
    BY Carried
  <2>2. CppFields \ {"nonblocking", "fork", "show_console_window"} =
          {"working_directory", "env", "redirect", "stop", "deadline", "input"}
    BY <1>1
  <2> DEFINE p == Clone(o)
  <2> HIDE DEF p
  <2>3. \A f \in {"working_directory", "env", "redirect", "stop", "deadline", "input"} :
          OptionsFrom(p, FALSE)[f] = p[f]
    BY <2>1
  <2>4. QED
    BY <2>2, <2>3 DEF p
<1>5. c["input"] = o["input"] /\ c["redirect"] = o["redirect"] /\ c["fork"] = o["nonblocking"]
  BY Carried
<1>6. ~o["nonblocking"] =>
        ParseOptions(c, TRUE) = IF o["input"] /\ o["redirect"] THEN EINVAL ELSE 0
  BY <1>5 DEF ParseOptions
<1>7. ~o["nonblocking"] =>
        Start(o) = ErrorCodeFrom(IF o["input"] /\ o["redirect"] THEN EINVAL ELSE 0)
  BY <1>6 DEF Start
<1>8. \A f \in CppFields \ {"nonblocking", "fork", "show_console_window"} : copy[f] = o[f]
  BY <1>3, <1>4
<1> HIDE DEF c, copy
<1>9. QED
  BY <1>2, <1>7, <1>8 DEF OptionsReach, c, copy

\* Rounds with any results of the library's calls and any errors of sinks, which
\* are not above 0.
AnyRounds ==
    [poll : [r : Int, events : SUBSET {"in", "out", "err", "exit", "deadline"}],
     read : [{"out", "err"} -> Int],
     sink : [{"out", "err"} -> {n \in Int : n <= 0}]]

\* The two drains end at the same time and with the same result on all of them.
LEMMA Draining ==
    ASSUME NEW d \in AnyRounds
    PROVE  DrainsAlike(d)
<1>1. \A r \in Int : ErrorCodeFrom(r)[2] = (IF r >= 0 THEN 0 ELSE -r)
                  /\ (ErrorCodeFrom(r) = NoError <=> r >= 0)
  BY DEF ErrorCodeFrom, NoError, BrokenPipe, EPIPE
<1>2. d.poll.r \in Int
      /\ \A s \in {"out", "err"} : d.read[s] \in Int /\ d.sink[s] \in Int /\ d.sink[s] <= 0
  BY DEF AnyRounds
<1>3. ASSUME NEW s \in {"out", "err"}
      PROVE  /\ Sink(d.read[s], d.sink[s]) \in Int
             /\ Sink(d.read[s], d.sink[s]) <= 0
             /\ Single(d, s) = NoError <=> Sink(d.read[s], d.sink[s]) = 0
             /\ Single(d, s)[2] = -Sink(d.read[s], d.sink[s])
  BY <1>1, <1>2 DEF Sink, Single, EndOfStream, ErrorCodeFrom, EPIPE, NoError, BrokenPipe
<1>4. CASE d.poll.r < 0
  BY <1>1, <1>2, <1>4 DEF DrainsAlike, CRound, CppRound, PollFrom, EndOfStream, ErrorCodeFrom,
                          NoError, BrokenPipe, EPIPE
<1>5. d.poll.r >= 0 => PollFrom(d.poll).events = d.poll.events /\ PollFrom(d.poll).ec = NoError
  BY <1>1, <1>2 DEF PollFrom
<1>6. CASE d.poll.r >= 0 /\ "deadline" \in d.poll.events
  <2>1. CRound(d) = {ETIMEDOUT}
    BY <1>2, <1>6 DEF CRound
  <2>2. CppRound(d) = {TimedOut}
    BY <1>5, <1>6 DEF CppRound
  <2>3. TimedOut[2] = ErrorCodeFrom(ETIMEDOUT)[2]
    BY DEF TimedOut, ErrorCodeFrom, ETIMEDOUT, EPIPE
  <2>4. QED
    BY <2>1, <2>2, <2>3 DEF DrainsAlike
<1>7. CASE d.poll.r >= 0 /\ "deadline" \notin d.poll.events
  <2> DEFINE ev == d.poll.events
             c(s) == IF ev \cap {s, "exit"} # {} THEN Sink(d.read[s], d.sink[s]) ELSE 0
             r == IF c("out") # 0 THEN c("out") ELSE c("err")
             w(s) == IF ev \cap {s, "exit"} # {} THEN Single(d, s) ELSE NoError
             ec == IF w("out") # NoError THEN w("out") ELSE w("err")
  <2>1. \A s \in {"out", "err"} : /\ c(s) \in Int /\ c(s) <= 0
                                  /\ w(s) = NoError <=> c(s) = 0
                                  /\ w(s)[2] = -c(s)
    BY <1>3 DEF NoError
  <2>2. CRound(d) = IF r # 0 \/ ev \cap {"out", "err", "exit"} = {"exit"} THEN {r} ELSE {}
    BY <1>2, <1>7 DEF CRound
  <2>3. CppRound(d) = IF ec # NoError \/ ("exit" \in ev /\ ev \cap {"out", "err"} = {})
                      THEN {ec} ELSE {}
    BY <1>5, <1>7 DEF CppRound
  <2>4. ev \cap {"out", "err", "exit"} = {"exit"} <=> "exit" \in ev /\ ev \cap {"out", "err"} = {}
    OBVIOUS
  <2> HIDE DEF c, w
  <2>5. /\ r \in Int /\ r <= 0 /\ ec[2] = -r
        /\ ec = NoError <=> r = 0
    BY <2>1
  <2>6. ErrorCodeFrom(r)[2] = -r
    BY <1>1, <2>5
  <2> HIDE DEF ec, r, ev
  <2>7. QED
    BY <2>2, <2>3, <2>4, <2>5, <2>6 DEF DrainsAlike
<1>8. QED
  BY <1>2, <1>4, <1>6, <1>7

-----------------------------------------------------------------------------
(***************************************************************************)
(* poll_win32.                                                             *)
(***************************************************************************)

\* f lists the members of S in increasing order.
Lists(f, S) ==
    /\ f \in [1..Cardinality(S) -> S]
    /\ \A j, k \in 1..Cardinality(S) : j < k => f[j] < f[k]

LEMMA PlacesFinite ==
    ASSUME NEW N \in Nat, NEW S \in SUBSET (1..N)
    PROVE  IsFiniteSet(S) /\ Cardinality(S) \in Nat
<1>1. IsFiniteSet(1..N)
  BY FS_Interval
<1>2. IsFiniteSet(S)
  BY <1>1, FS_Subset
<1>3. QED
  BY <1>2, FS_CardinalityType

LEMMA ListExists ==
    ASSUME NEW N \in Nat, NEW S \in SUBSET (1..N)
    PROVE  \E f : Lists(f, S)
<1> DEFINE T == {n \in Nat : \A R \in SUBSET (1..n) : \E f : Lists(f, R)}
<1>1. 0 \in T
  <2>1. ASSUME NEW R \in SUBSET (1..0) PROVE \E f : Lists(f, R)
    <3>1. R = {}
      BY <2>1
    <3>2. Cardinality(R) = 0
      BY <3>1, FS_EmptySet
    <3> DEFINE f == [j \in 1..0 |-> 0]
    <3>3. f \in [1..0 -> R] /\ 1..0 = {}
      OBVIOUS
    <3> HIDE DEF f
    <3>4. Lists(f, R)
      BY <3>2, <3>3 DEF Lists
    <3>5. QED
      BY <3>4
  <2>2. QED
    BY <2>1
<1>2. ASSUME NEW n \in Nat, n \in T PROVE n + 1 \in T
  <2>1. ASSUME NEW R \in SUBSET (1..(n + 1)) PROVE \E f : Lists(f, R)
    <3>1. CASE n + 1 \notin R
      <4>1. R \in SUBSET (1..n)
        BY <2>1, <3>1
      <4>2. QED
        BY <1>2, <4>1
    <3>2. CASE n + 1 \in R
      <4> DEFINE Q == R \ {n + 1}
                 m == Cardinality(Q)
      <4>1. Q \in SUBSET (1..n)
        BY <2>1
      <4>2. PICK f : Lists(f, Q)
        BY <1>2, <4>1
      <4>3. IsFiniteSet(R) /\ IsFiniteSet(Q)
        <5>1. n + 1 \in Nat
          OBVIOUS
        <5>2. QED
          BY <1>2, <2>1, <4>1, <5>1, PlacesFinite
      <4>4. m \in Nat /\ Cardinality(R) = m + 1
        <5>1. m \in Nat
          BY <4>3, FS_CardinalityType
        <5>2. R = Q \cup {n + 1} /\ n + 1 \notin Q
          BY <3>2
        <5>3. Cardinality(Q \cup {n + 1}) = m + 1
          BY <4>3, <5>2, FS_AddElement
        <5>4. QED
          BY <5>1, <5>2, <5>3
      <4> DEFINE h == [j \in 1..(m + 1) |-> IF j = m + 1 THEN n + 1 ELSE f[j]]
      <4>5. f \in [1..m -> Q] /\ \A j, k \in 1..m : j < k => f[j] < f[k]
        BY <4>2 DEF Lists
      <4> HIDE DEF m
      <4>6. \A j \in 1..m : f[j] \in Q /\ f[j] < n + 1
        <5>1. \A i \in Q : i < n + 1
          BY <4>1
        <5>2. QED
          BY <4>5, <5>1
      <4>7. h \in [1..(m + 1) -> R]
        BY <3>2, <4>4, <4>6
      <4>8. ASSUME NEW j \in 1..(m + 1), NEW k \in 1..(m + 1), j < k PROVE h[j] < h[k]
        BY <4>4, <4>5, <4>6, <4>8
      <4> HIDE DEF h
      <4>9. Lists(h, R)
        BY <4>4, <4>7, <4>8 DEF Lists
      <4>10. QED
        BY <4>9
    <3>3. QED
      BY <3>1, <3>2
  <2>2. QED
    BY <2>1
<1> HIDE DEF T
<1>3. N \in T
  BY <1>1, <1>2, NatSets
<1>4. QED
  BY <1>3 DEF T

\* Ascending lists every member, once and in increasing order.
LEMMA AscendingLists ==
    ASSUME NEW N \in Nat, NEW S \in SUBSET (1..N)
    PROVE  /\ Cardinality(S) \in Nat
           /\ Lists(Ascending(S), S)
           /\ \A i \in S : \E j \in 1..Cardinality(S) : Ascending(S)[j] = i
<1> DEFINE m == Cardinality(S)
           f == Ascending(S)
<1>1. IsFiniteSet(S) /\ m \in Nat
  BY PlacesFinite
<1>2. \E g \in [1..m -> S] : \A j, k \in 1..m : j < k => g[j] < g[k]
  BY ListExists DEF Lists
<1>3. Lists(f, S)
  BY <1>2 DEF Ascending, Lists
<1> HIDE DEF f, m
<1>4. f \in Injection(1..m, S)
  <2>1. f \in [1..m -> S] /\ \A j, k \in 1..m : j < k => f[j] < f[k]
    BY <1>3 DEF Lists, m
  <2>2. \A j \in 1..m : f[j] \in Int
    <3>1. \A i \in S : i \in Int
      OBVIOUS
    <3>2. QED
      BY <2>1, <3>1
  <2>3. \A j, k \in 1..m : f[j] = f[k] => j = k
    BY <1>1, <2>1, <2>2
  <2>4. QED
    BY <2>1, <2>3 DEF Injection, IsInjective
<1>5. IsFiniteSet(1..m) /\ Cardinality(1..m) = m
  BY <1>1, FS_Interval
<1>6. f \in Surjection(1..m, S)
  BY <1>1, <1>4, <1>5, FS_Injection DEF m
<1>7. QED
  BY <1>1, <1>3, <1>6 DEF Surjection, f, m

\* The ranges that bsearch goes through.
LEMMA HalvingIs ==
    ASSUME NEW key \in Int, NEW list \in Seq(Int)
    PROVE  LET h == Halving(key, list)
               L == Len(list)
           IN  /\ \A k \in 0..L : \E lo \in 1..(L + 1), hi \in 0..L : h[k] = <<lo, hi>>
               /\ h[0] = <<1, L>>
               /\ \A k \in 1..L : h[k] = Half(key, list, h[k - 1])
<1> DEFINE h == Halving(key, list)
           L == Len(list)
           Ranges == (1..(L + 1)) \X (0..L)
           all == <<1, L>>
           g == [k \in 1..L |-> [r \in Ranges |-> Half(key, list, r)]]
<1>1. L \in Nat
  OBVIOUS
<1>2. ASSUME NEW r \in Ranges PROVE Half(key, list, r) \in Ranges
  <2>1. PICK lo \in 1..(L + 1), hi \in 0..L : r = <<lo, hi>>
    OBVIOUS
  <2> DEFINE m == Middle(<<lo, hi>>)
  <2>2. lo <= hi => m \in lo..hi
    BY <1>1 DEF Middle
  <2> HIDE DEF m
  <2>3. lo <= hi => <<lo, m - 1>> \in Ranges /\ <<m + 1, hi>> \in Ranges
    <3>1. lo <= hi => m - 1 \in 0..L /\ m + 1 \in 1..(L + 1)
      BY <1>1, <2>2
    <3>2. QED
      BY <3>1
  <2>4. \/ Half(key, list, r) = r
        \/ lo <= hi /\ Half(key, list, r) \in {<<lo, m - 1>>, <<m + 1, hi>>}
    BY <2>1 DEF Half, m
  <2>5. QED
    BY <2>3, <2>4
<1>3. all \in Ranges
  BY <1>1
<1> HIDE DEF Ranges, L, all
<1>4. g \in [1..L -> [Ranges -> Ranges]]
  BY <1>2
<1> HIDE DEF g
<1>5. PICK f : Loop(f, L, Ranges, all, g)
  BY <1>1, <1>3, <1>4, LoopExists
<1>6. \A k \in 1..L : f[k] = Half(key, list, f[k - 1])
  <2>1. \A k \in 1..L : f[k - 1] \in Ranges
    BY <1>1, <1>5 DEF Loop
  <2>2. QED
    BY <1>5, <2>1 DEF g, Loop
<1>7. f = [k \in 0..L |-> IF k = 0 THEN all ELSE Half(key, list, f[k - 1])]
  <2>1. \A k \in 0..L : k # 0 => k \in 1..L
    BY <1>1
  <2>2. QED
    BY <1>5, <1>6, <2>1 DEF Loop
<1>8. h = [k \in 0..L |-> IF k = 0 THEN all ELSE Half(key, list, h[k - 1])]
  BY <1>7, Zenon DEF Halving, L, all
<1> HIDE DEF h
<1>9. h[0] = all /\ \A k \in 1..L : h[k] = Half(key, list, h[k - 1])
  BY <1>1, <1>8
<1>10. \A k \in 0..L : h[k] \in Ranges
  <2> DEFINE T == {k \in 0..L : h[k] \in Ranges}
  <2>1. 0 \in T
    BY <1>1, <1>3, <1>9
  <2>2. ASSUME NEW k \in 1..L, k - 1 \in T PROVE k \in T
    BY <1>1, <1>2, <1>9, <2>2
  <2> HIDE DEF T
  <2>3. \A k \in 0..L : k \in T
    BY <1>1, <2>1, <2>2, Rounds0
  <2>4. QED
    BY <2>3 DEF T
<1>11. \A k \in 0..L : \E lo \in 1..(L + 1), hi \in 0..L : h[k] = <<lo, hi>>
  BY <1>10 DEF Ranges
<1>12. QED
  BY <1>9, <1>11 DEF h, L, all

\* What bsearch finds is the key, if the list has it or not, sorted or not.
LEMMA BsearchFinds ==
    ASSUME NEW key \in Int, NEW list \in Seq(Int)
    PROVE  /\ Bsearch(key, list) \in 0..Len(list)
           /\ Bsearch(key, list) # 0 => list[Bsearch(key, list)] = key
<1> DEFINE h == Halving(key, list)
           L == Len(list)
           Done(r) == r[1] > r[2] \/ list[Middle(r)] = key
           T == {k \in 0..L : Done(h[k]) \/ h[k][2] - h[k][1] + 1 <= L - k}
<1>1. L \in Nat
  OBVIOUS
<1>2. /\ \A k \in 0..L : \E lo \in 1..(L + 1), hi \in 0..L : h[k] = <<lo, hi>>
      /\ h[0] = <<1, L>>
      /\ \A k \in 1..L : h[k] = Half(key, list, h[k - 1])
  BY HalvingIs
<1> HIDE DEF h, L
<1>3. 0 \in T
  <2>1. h[0][2] - h[0][1] + 1 <= L - 0
    BY <1>1, <1>2
  <2>2. QED
    BY <1>1, <2>1
<1>4. ASSUME NEW k \in 1..L, k - 1 \in T PROVE k \in T
  <2> k - 1 \in 0..L
    BY <1>1
  <2>1. PICK lo \in 1..(L + 1), hi \in 0..L : h[k - 1] = <<lo, hi>>
    BY <1>2
  <2>2. h[k] = Half(key, list, <<lo, hi>>)
    BY <1>2, <2>1
  <2>3. CASE Done(<<lo, hi>>)
    <3>1. h[k] = <<lo, hi>>
      BY <2>2, <2>3 DEF Half
    <3>2. Done(h[k])
      BY <2>3, <3>1
    <3>3. QED
      BY <1>1, <3>2
  <2>4. CASE ~Done(<<lo, hi>>)
    <3> DEFINE m == Middle(<<lo, hi>>)
    <3>1. lo <= hi /\ m \in lo..hi
      BY <2>4 DEF Middle
    <3>2. hi - lo + 1 <= L - (k - 1)
      <4>1. Done(h[k - 1]) \/ h[k - 1][2] - h[k - 1][1] + 1 <= L - (k - 1)
        BY <1>4
      <4>2. QED
        BY <2>1, <2>4, <4>1
    <3>3. h[k] = <<lo, m - 1>> \/ h[k] = <<m + 1, hi>>
      BY <2>2, <2>4 DEF Half
    <3> HIDE DEF m
    <3>4. h[k][2] - h[k][1] + 1 <= L - k
      <4>1. CASE h[k] = <<lo, m - 1>>
        BY <1>1, <3>1, <3>2, <4>1
      <4>2. CASE h[k] = <<m + 1, hi>>
        BY <1>1, <3>1, <3>2, <4>2
      <4>3. QED
        BY <3>3, <4>1, <4>2
    <3>5. QED
      BY <1>1, <3>4
  <2>5. QED
    BY <2>3, <2>4
<1> HIDE DEF T
<1>5. \A k \in 0..L : k \in T
  BY <1>1, <1>3, <1>4, Rounds0
<1> L \in 0..L
  BY <1>1
<1>6. PICK lo \in 1..(L + 1), hi \in 0..L : h[L] = <<lo, hi>>
  BY <1>2
<1>7. lo <= hi => list[Middle(<<lo, hi>>)] = key
  <2>1. L \in T
    BY <1>1, <1>5
  <2>2. QED
    <3>1. Done(h[L]) \/ h[L][2] - h[L][1] + 1 <= L - L
      BY <2>1 DEF T
    <3>2. QED
      BY <1>1, <1>6, <3>1
<1>8. lo <= hi => Middle(<<lo, hi>>) \in 1..L
  BY <1>1 DEF Middle
<1>9. Bsearch(key, list) = IF lo > hi THEN 0 ELSE Middle(<<lo, hi>>)
  BY <1>6 DEF Bsearch, h, L
<1>10. Bsearch(key, list) \in 0..L /\ (Bsearch(key, list) # 0 => list[Bsearch(key, list)] = key)
  BY <1>1, <1>7, <1>8, <1>9
<1>11. QED
  BY <1>10 DEF L

\* bsearch finds the key in the middle of any list.
LEMMA BsearchMiddle ==
    ASSUME NEW list \in Seq(Int), list # <<>>
    PROVE  \E j \in 1..Len(list) : Bsearch(list[j], list) # 0
<1> DEFINE L == Len(list)
           m == Middle(<<1, L>>)
           key == list[m]
           h == Halving(key, list)
           T == {k \in 0..L : h[k] = <<1, L>>}
<1>1. L \in Nat /\ L > 0 /\ m \in 1..L /\ m # 0
  BY DEF Middle
<1>2. key \in Int
  BY <1>1
<1>3. /\ h[0] = <<1, L>>
      /\ \A k \in 1..L : h[k] = Half(key, list, h[k - 1])
  BY <1>2, HalvingIs
<1>4. Half(key, list, <<1, L>>) = <<1, L>>
  BY DEF Half
<1> HIDE DEF h, key, L, m
<1>5. 0 \in T
  BY <1>1, <1>3
<1>6. ASSUME NEW k \in 1..L, k - 1 \in T PROVE k \in T
  <2>1. h[k - 1] = <<1, L>>
    BY <1>6
  <2>2. h[k] = <<1, L>>
    BY <1>3, <1>4, <2>1
  <2>3. QED
    BY <1>1, <2>2
<1> HIDE DEF T
<1>7. \A k \in 0..L : k \in T
  BY <1>1, <1>5, <1>6, Rounds0
<1>8. h[L] = <<1, L>>
  BY <1>1, <1>7 DEF T
<1>9. Bsearch(key, list) = m
  BY <1>1, <1>8 DEF Bsearch, h, L, m
<1>10. QED
  BY <1>1, <1>9 DEF L, key

\* bsearch finds every key of a sorted list.
LEMMA BsearchSorted ==
    ASSUME NEW list \in Seq(Int), NEW j \in 1..Len(list),
           \A i, k \in 1..Len(list) : i < k => list[i] < list[k]
    PROVE  Bsearch(list[j], list) # 0
<1> DEFINE L == Len(list)
           key == list[j]
           h == Halving(key, list)
           T == {k \in 0..L : h[k][1] <= j /\ j <= h[k][2]}
<1>1. L \in Nat /\ key \in Int
  OBVIOUS
<1>2. /\ \A k \in 0..L : \E lo \in 1..(L + 1), hi \in 0..L : h[k] = <<lo, hi>>
      /\ h[0] = <<1, L>>
      /\ \A k \in 1..L : h[k] = Half(key, list, h[k - 1])
  BY <1>1, HalvingIs
<1>3. \A i \in 1..L : /\ list[i] \in Int
                      /\ key < list[i] => j < i
                      /\ list[i] # key /\ ~(key < list[i]) => i < j
  OBVIOUS
<1>4. j \in 1..L
  OBVIOUS
<1> HIDE DEF h, key, L
<1>5. 0 \in T
  <2>1. h[0][1] = 1 /\ h[0][2] = L
    BY <1>2
  <2>2. QED
    BY <1>1, <1>4, <2>1
<1>6. ASSUME NEW k \in 1..L, k - 1 \in T PROVE k \in T
  <2> k - 1 \in 0..L
    BY <1>1
  <2>1. PICK lo \in 1..(L + 1), hi \in 0..L : h[k - 1] = <<lo, hi>>
    BY <1>2
  <2>2. lo <= j /\ j <= hi
    BY <1>6, <2>1
  <2>3. h[k] = Half(key, list, <<lo, hi>>)
    BY <1>2, <2>1
  <2> DEFINE m == Middle(<<lo, hi>>)
  <2>4. m \in lo..hi /\ m \in 1..L
    BY <1>1, <1>4, <2>2 DEF Middle
  <2>5. \/ h[k] = <<lo, hi>>
        \/ key < list[m] /\ h[k] = <<lo, m - 1>>
        \/ list[m] # key /\ ~(key < list[m]) /\ h[k] = <<m + 1, hi>>
    BY <2>3 DEF Half
  <2> HIDE DEF m
  <2>6. h[k][1] <= j /\ j <= h[k][2]
    <3>1. CASE h[k] = <<lo, hi>>
      BY <2>2, <3>1
    <3>2. CASE key < list[m] /\ h[k] = <<lo, m - 1>>
      BY <1>3, <1>4, <2>2, <2>4, <3>2
    <3>3. CASE list[m] # key /\ ~(key < list[m]) /\ h[k] = <<m + 1, hi>>
      BY <1>3, <1>4, <2>2, <2>4, <3>3
    <3>4. QED
      BY <2>5, <3>1, <3>2, <3>3
  <2>7. QED
    BY <1>1, <2>6
<1> HIDE DEF T
<1>7. \A k \in 0..L : k \in T
  BY <1>1, <1>5, <1>6, Rounds0
<1> L \in 0..L
  BY <1>1
<1>8. PICK lo \in 1..(L + 1), hi \in 0..L : h[L] = <<lo, hi>>
  BY <1>2
<1>9. lo <= hi
  <2>1. L \in T
    BY <1>1, <1>7
  <2>2. QED
    BY <1>4, <1>8, <2>1 DEF T
<1>10. Middle(<<lo, hi>>) # 0
  BY <1>9 DEF Middle
<1>11. QED
  BY <1>8, <1>9, <1>10 DEF Bsearch, h, key, L

AllEvents == AlwaysAsked \cup {"receive", "expedited", "send"}

\* Any array to poll: sockets in any order, each given once, with any interests,
\* and signals of what poll_win32 asks for.
Polled ==
    {e \in [fd : Nat, interests : Interests, signalled : SUBSET AllEvents] :
        /\ e.signalled \subseteq PollEvents(e.interests)
        /\ e.fd = NoSocket => e.signalled = {}}
PollArrays ==
    {fds \in Seq(Polled) :
        \A i, k \in DOMAIN fds : fds[i].fd = fds[k].fd => i = k \/ fds[i].fd = NoSocket}

\* Every event that is asked for is one that the caller is told of.
LEMMA EventsReported ==
    ASSUME NEW interests \in Interests, NEW events \in SUBSET PollEvents(interests), events # {}
    PROVE  Revents(interests, events) # {}
<1>1. PICK e \in events : TRUE
  OBVIOUS
<1>2. CASE e \in AlwaysAsked
  <2>1. "hup" \in Revents(interests, events)
    BY <1>1, <1>2 DEF Revents
  <2>2. QED
    BY <2>1
<1>3. CASE e \in {"receive", "expedited"}
  <2>1. "in" \in interests
    BY <1>1, <1>3 DEF PollEvents, AlwaysAsked
  <2>2. "in" \in Revents(interests, events)
    BY <1>1, <1>3, <2>1 DEF Revents
  <2>3. QED
    BY <2>2
<1>4. CASE e = "send"
  <2>1. "out" \in interests
    BY <1>1, <1>4 DEF PollEvents, AlwaysAsked
  <2>2. "out" \in Revents(interests, events)
    BY <1>1, <1>4, <2>1 DEF Revents
  <2>3. QED
    BY <2>2
<1>5. QED
  BY <1>1, <1>2, <1>3, <1>4 DEF PollEvents

\* For every array: nothing is reported that is not signalled, something is if
\* anything is, and everything is if the sockets are in the order of memcmp.
LEMMA Polling ==
    ASSUME NEW fds \in PollArrays
    PROVE  PollWin32Right(fds)
<1> DEFINE N == Len(fds)
           R == Real(fds)
           G == {i \in R : fds[i].signalled # {}}
           m == Cardinality(G)
           A == Ascending(G)
           answer == Answer(fds)
           handles == [j \in DOMAIN answer |-> answer[j].handle]
           at(i) == Bsearch(fds[i].fd, handles)
           result == PollWin32(fds)
           reported == {i \in R : result.revents[i] # {}}
<1>1. /\ N \in Nat /\ DOMAIN fds = 1..N
      /\ \A i \in 1..N : fds[i] \in Polled
      /\ \A i \in 1..N : fds[i].fd \in Nat
      /\ \A i, k \in 1..N : fds[i].fd = fds[k].fd => i = k \/ fds[i].fd = NoSocket
  BY DEF PollArrays, Polled
<1>2. /\ R \in SUBSET (1..N)
      /\ \A i \in 1..N : i \in R <=> fds[i].fd # NoSocket
      /\ G \in SUBSET (1..N) /\ G \subseteq R
      /\ \A i \in R : i \in G <=> fds[i].signalled # {}
  BY <1>1 DEF Real
<1>3. answer = [j \in 1..m |-> [handle |-> fds[A[j]].fd, events |-> fds[A[j]].signalled]]
  BY DEF Answer
<1> HIDE DEF N, R, A, G, m
<1>4. /\ m \in Nat
      /\ A \in [1..m -> G]
      /\ \A j, k \in 1..m : j < k => A[j] < A[k]
      /\ \A i \in G : \E j \in 1..m : A[j] = i
  <2>1. /\ Cardinality(G) \in Nat
        /\ Lists(Ascending(G), G)
        /\ \A i \in G : \E j \in 1..Cardinality(G) : Ascending(G)[j] = i
    BY <1>1, <1>2, AscendingLists
  <2>2. m \in Nat /\ Lists(A, G) /\ \A i \in G : \E j \in 1..m : A[j] = i
    BY <2>1 DEF m, A
  <2>3. A \in [1..m -> G] /\ \A j, k \in 1..m : j < k => A[j] < A[k]
    BY <2>2 DEF Lists, m
  <2>4. QED
    BY <2>2, <2>3
<1> \A j \in 1..m : A[j] \in G /\ A[j] \in R /\ A[j] \in 1..N
  BY <1>2, <1>4
<1>5. CASE R = {}
  <2>1. PollWin32(fds) = [r |-> -1, revents |-> [i \in DOMAIN fds |-> {}]]
    BY <1>5 DEF PollWin32, R
  <2>2. QED
    BY <1>5, <2>1 DEF PollWin32Right, R
<1>6. CASE R # {}
  <2>1. /\ DOMAIN answer = 1..m /\ Len(answer) = m
        /\ \A j \in 1..m : answer[j].handle = fds[A[j]].fd /\ answer[j].events = fds[A[j]].signalled
    BY <1>3, <1>4
  <2> HIDE DEF answer
  <2>2. /\ handles \in Seq(Int) /\ Len(handles) = m
        /\ \A j \in 1..m : handles[j] = fds[A[j]].fd
    <3>1. handles = [j \in 1..m |-> fds[A[j]].fd]
      BY <2>1
    <3>2. ASSUME NEW j \in 1..m PROVE fds[A[j]].fd \in Int
      <4>1. A[j] \in 1..N
        BY <1>2, <1>4
      <4>2. fds[A[j]].fd \in Nat
        BY <1>1, <4>1
      <4>3. QED
        BY <4>2
    <3> HIDE DEF handles
    <3>3. handles \in [1..m -> Int]
      BY <3>1, <3>2
    <3>4. handles \in Seq(Int) /\ Len(handles) = m
      BY <1>4, <3>3, FunctionIsSeq
    <3>5. QED
      BY <3>1, <3>4
  <2>3. ASSUME NEW j \in 1..m PROVE IndexOf(fds, answer, j) = A[j]
    <3>1. A[j] \in R /\ answer[j].handle = fds[A[j]].fd
      BY <1>2, <1>4, <2>1
    <3>2. \A i \in R : fds[i].fd = fds[A[j]].fd => i = A[j]
      BY <1>1, <1>2, <3>1
    <3>3. QED
      BY <3>1, <3>2 DEF IndexOf, R
  <2>4. {IndexOf(fds, answer, j) : j \in DOMAIN answer} \cap R = G
    <3>1. {IndexOf(fds, answer, j) : j \in DOMAIN answer} = {A[j] : j \in 1..m}
      BY <2>1, <2>3
    <3>2. {A[j] : j \in 1..m} = G
      BY <1>4
    <3>3. QED
      BY <1>2, <3>1, <3>2
  <2> HIDE DEF handles
  <2>5. result = [r |-> m,
                  revents |-> [i \in DOMAIN fds |->
                     IF fds[i].fd = NoSocket THEN {"nval"}
                     ELSE IF i \in G /\ at(i) # 0
                     THEN Revents(fds[i].interests, answer[at(i)].events) ELSE {}]]
    BY <1>6, <2>1, <2>4 DEF PollWin32, answer, handles, R
  <2>6. ASSUME NEW i \in R PROVE at(i) \in 0..m /\ (at(i) # 0 => A[at(i)] = i)
    <3>1. fds[i].fd \in Int
      <4>1. i \in 1..N
        BY <1>2
      <4>2. fds[i].fd \in Nat
        BY <1>1, <4>1
      <4>3. QED
        BY <4>2
    <3>2. at(i) \in 0..m /\ (at(i) # 0 => handles[at(i)] = fds[i].fd)
      BY <2>2, <3>1, BsearchFinds
    <3>3. ASSUME at(i) # 0 PROVE A[at(i)] = i
      <4>1. at(i) \in 1..m /\ fds[A[at(i)]].fd = fds[i].fd
        BY <1>4, <2>2, <3>2, <3>3
      <4>2. A[at(i)] \in R
        BY <1>2, <1>4, <4>1
      <4>3. QED
        BY <1>1, <1>2, <4>1, <4>2
    <3>4. QED
      BY <3>2, <3>3
  <2> HIDE DEF at, result
  <2>7. \A i \in R : result.revents[i] =
          IF i \in G /\ at(i) # 0 THEN Revents(fds[i].interests, fds[i].signalled) ELSE {}
    <3>1. ASSUME NEW i \in R PROVE at(i) # 0 => answer[at(i)].events = fds[i].signalled
      BY <1>4, <2>1, <2>6
    <3>2. QED
      BY <1>1, <1>2, <2>5, <3>1
  <2>8. \A i \in G : Revents(fds[i].interests, fds[i].signalled) # {}
    <3>1. ASSUME NEW i \in G PROVE Revents(fds[i].interests, fds[i].signalled) # {}
      <4>1. fds[i] \in Polled /\ fds[i].signalled # {}
        BY <1>1, <1>2
      <4>2. QED
        BY <4>1, EventsReported DEF Polled
    <3>2. QED
      BY <3>1
  <2>9. \A i \in R : i \in reported <=> i \in G /\ at(i) # 0
    BY <2>7, <2>8
  <2>10. m > 0 => reported # {}
    <3>1. ASSUME m > 0 PROVE reported # {}
      <4>1. handles # <<>>
        BY <2>2, <3>1
      <4>2. PICK j \in 1..m : Bsearch(handles[j], handles) # 0
        BY <2>2, <4>1, BsearchMiddle
      <4>3. A[j] \in G /\ A[j] \in R /\ handles[j] = fds[A[j]].fd
        BY <1>2, <1>4, <2>2
      <4>4. A[j] \in reported
        BY <2>9, <4>2, <4>3 DEF at
      <4>5. QED
        BY <4>4
    <3>2. QED
      BY <3>1
  <2>11. reported # {} => m > 0
    <3>1. ASSUME NEW i \in reported PROVE m > 0
      <4>1. i \in G
        BY <2>9
      <4>2. QED
        BY <1>4, <4>1
    <3>2. QED
      BY <3>1
  <2>12. (\A i, k \in R : i < k => fds[i].fd < fds[k].fd) => reported = G
    <3>1. SUFFICES ASSUME \A i, k \in R : i < k => fds[i].fd < fds[k].fd,
                          NEW i \in G
                   PROVE  at(i) # 0
      BY <1>2, <2>9
    <3>2. ASSUME NEW j \in 1..m, NEW k \in 1..m, j < k PROVE handles[j] < handles[k]
      <4>1. A[j] \in R /\ A[k] \in R /\ A[j] < A[k]
        BY <1>4, <3>2
      <4>2. QED
        BY <2>2, <3>1, <4>1
    <3>3. PICK j \in 1..m : A[j] = i
      BY <1>4
    <3>4. Bsearch(handles[j], handles) # 0
      BY <2>2, <3>2, BsearchSorted
    <3>5. QED
      BY <2>2, <3>3, <3>4 DEF at
  <2>13. result.r = m
    BY <2>5
  <2>14. \A i \in reported : result.revents[i] = Revents(fds[i].interests, fds[i].signalled)
    BY <2>7, <2>9
  <2>15. reported \subseteq G
    BY <2>9
  <2> HIDE DEF reported
  <2>16. /\ result.r >= 0 <=> R # {}
         /\ result.r > 0 <=> reported # {}
         /\ \A i \in reported : result.revents[i] = Revents(fds[i].interests, fds[i].signalled)
         /\ reported \subseteq G
         /\ (\A i, k \in R : i < k => fds[i].fd < fds[k].fd) => reported = G
    BY <1>4, <1>6, <2>10, <2>11, <2>12, <2>13, <2>14, <2>15
  <2>17. QED
    BY <2>16 DEF PollWin32Right, result, reported, R, G
<1>7. QED
  BY <1>5, <1>6

-----------------------------------------------------------------------------
(***************************************************************************)
(* The numbers of descriptors.                                             *)
(***************************************************************************)

Elements(s) == {s[i] : i \in 1..Len(s)}
NoRepeats(s) == \A i, j \in 1..Len(s) : s[i] = s[j] => i = j

\* The elements of a concatenation.
LEMMA Concatenated ==
    ASSUME NEW S, NEW s \in Seq(S), NEW t \in Seq(S), NoRepeats(s), NoRepeats(t),
           Elements(s) \cap Elements(t) = {}
    PROVE  /\ s \o t \in Seq(S) /\ Len(s \o t) = Len(s) + Len(t)
           /\ Elements(s \o t) = Elements(s) \cup Elements(t)
           /\ NoRepeats(s \o t)
<1> DEFINE u == s \o t
<1>1. /\ u \in Seq(S) /\ Len(u) = Len(s) + Len(t) /\ Len(s) \in Nat /\ Len(t) \in Nat
      /\ \A i \in 1..Len(s) : u[i] = s[i]
      /\ \A i \in 1..Len(t) : u[Len(s) + i] = t[i]
  OBVIOUS
<1> HIDE DEF u
<1>2. \A i \in 1..Len(u) : \/ i \in 1..Len(s) /\ u[i] = s[i]
                           \/ i - Len(s) \in 1..Len(t) /\ u[i] = t[i - Len(s)]
  <2>1. SUFFICES ASSUME NEW i \in 1..Len(u), i \notin 1..Len(s)
                 PROVE  i - Len(s) \in 1..Len(t) /\ u[i] = t[i - Len(s)]
    BY <1>1
  <2>2. i - Len(s) \in 1..Len(t) /\ Len(s) + (i - Len(s)) = i
    BY <1>1, <2>1
  <2>3. QED
    BY <1>1, <2>2
<1>3. Elements(u) = Elements(s) \cup Elements(t)
  <2>1. \A i \in 1..Len(s) : i \in 1..Len(u)
    BY <1>1
  <2>2. \A i \in 1..Len(t) : Len(s) + i \in 1..Len(u)
    BY <1>1
  <2>3. Elements(u) \subseteq Elements(s) \cup Elements(t)
    BY <1>2 DEF Elements
  <2>4. Elements(s) \subseteq Elements(u)
    BY <1>1, <2>1 DEF Elements
  <2>5. Elements(t) \subseteq Elements(u)
    BY <1>1, <2>2 DEF Elements
  <2>6. QED
    BY <2>3, <2>4, <2>5
<1>4. NoRepeats(u)
  <2>1. SUFFICES ASSUME NEW i \in 1..Len(u), NEW j \in 1..Len(u), u[i] = u[j] PROVE i = j
    BY DEF NoRepeats
  <2>2. \A k \in 1..Len(s), l \in 1..Len(t) : s[k] # t[l]
    BY DEF Elements
  <2>3. CASE i \in 1..Len(s) /\ u[i] = s[i] /\ j \in 1..Len(s) /\ u[j] = s[j]
    BY <2>1, <2>3 DEF NoRepeats
  <2>4. CASE /\ i - Len(s) \in 1..Len(t) /\ u[i] = t[i - Len(s)]
             /\ j - Len(s) \in 1..Len(t) /\ u[j] = t[j - Len(s)]
    <3>1. i - Len(s) = j - Len(s)
      BY <2>1, <2>4 DEF NoRepeats
    <3>2. QED
      BY <1>1, <3>1
  <2>5. QED
    BY <1>2, <2>1, <2>2, <2>3, <2>4
<1>5. QED
  BY <1>1, <1>3, <1>4 DEF u

Names == {"in", "out", "err", "exit", "error", "fork"}
Files == {Of(name, part) : name \in Names, part \in {"read", "write"}}
FilesOf(name) == {Of(name, "read"), Of(name, "write")}

\* At most n different files, of pipes of these names.
Distinct(s, names, n) ==
    /\ s \in Seq(Files) /\ Len(s) <= n /\ NoRepeats(s)
    /\ \A file \in Elements(s) : file[1] \in names

LEMMA DistinctJoined ==
    ASSUME NEW s, NEW t, NEW M, NEW N, NEW m \in Nat, NEW n \in Nat,
           Distinct(s, M, m), Distinct(t, N, n), M \cap N = {}
    PROVE  Distinct(s \o t, M \cup N, m + n) /\ Elements(s \o t) = Elements(s) \cup Elements(t)
<1>1. /\ s \in Seq(Files) /\ Len(s) \in Nat /\ Len(s) <= m /\ NoRepeats(s)
      /\ t \in Seq(Files) /\ Len(t) \in Nat /\ Len(t) <= n /\ NoRepeats(t)
  BY DEF Distinct
<1>2. Elements(s) \cap Elements(t) = {}
  BY DEF Distinct
<1>3. /\ s \o t \in Seq(Files) /\ Len(s \o t) = Len(s) + Len(t)
      /\ Elements(s \o t) = Elements(s) \cup Elements(t)
      /\ NoRepeats(s \o t)
  BY <1>1, <1>2, Concatenated
<1>4. Len(s \o t) <= m + n
  BY <1>1, <1>3
<1>5. QED
  BY <1>3, <1>4 DEF Distinct

LEMMA PipeIs ==
    ASSUME NEW name \in Names
    PROVE  Distinct(PipeOf(name), {name}, 2) /\ Elements(PipeOf(name)) = FilesOf(name)
<1>1. PipeOf(name) \in Seq(Files) /\ Len(PipeOf(name)) = 2
  BY DEF PipeOf, Files
<1>2. PipeOf(name)[1] = Of(name, "read") /\ PipeOf(name)[2] = Of(name, "write")
  BY DEF PipeOf
<1>3. Of(name, "read") # Of(name, "write")
  BY DEF Of
<1>4. \A i \in 1..2 : i = 1 \/ i = 2
  OBVIOUS
<1>5. NoRepeats(PipeOf(name)) /\ Elements(PipeOf(name)) = FilesOf(name)
  BY <1>1, <1>2, <1>3, <1>4 DEF NoRepeats, Elements, FilesOf
<1>6. \A file \in FilesOf(name) : file[1] = name
  BY DEF FilesOf, Of
<1>7. QED
  BY <1>1, <1>5, <1>6 DEF Distinct

LEMMA RedirectedIs ==
    ASSUME NEW c, NEW s \in {"in", "out", "err"}
    PROVE  /\ Distinct(Redirected(c, s), {s}, 2)
           /\ c[s] \in {Pipe, Discard} => ChildEnd(s) \in Elements(Redirected(c, s))
<1> DEFINE e == ChildEnd(s)
<1>1. e \in Files /\ e \in FilesOf(s) /\ e[1] = s
  BY DEF ChildEnd, FilesOf, Files, Names, Of
<1>2. Pipe # Discard
  BY DEF Pipe, Discard
<1>3. CASE c[s] = Pipe
  <2>1. Redirected(c, s) = PipeOf(s)
    BY <1>2, <1>3 DEF Redirected
  <2>2. s \in Names
    BY DEF Names
  <2>3. Distinct(PipeOf(s), {s}, 2) /\ Elements(PipeOf(s)) = FilesOf(s)
    BY <2>2, PipeIs
  <2>4. QED
    BY <1>1, <2>1, <2>3
<1>4. CASE c[s] = Discard
  <2>1. Redirected(c, s) = <<e>>
    BY <1>2, <1>4 DEF Redirected
  <2> HIDE DEF e
  <2>2. <<e>> \in Seq(Files) /\ Len(<<e>>) = 1 /\ <<e>>[1] = e
    BY <1>1
  <2>3. NoRepeats(<<e>>) /\ Elements(<<e>>) = {e}
    BY <2>2 DEF NoRepeats, Elements
  <2>4. Distinct(<<e>>, {s}, 2)
    BY <1>1, <2>2, <2>3 DEF Distinct
  <2>5. QED
    BY <2>1, <2>3, <2>4 DEF e
<1>5. CASE c[s] # Pipe /\ c[s] # Discard
  <2>1. Redirected(c, s) = <<>>
    BY <1>5 DEF Redirected
  <2>2. Len(<<>>) = 0 /\ NoRepeats(<<>>) /\ Elements(<<>>) = {} /\ <<>> \in Seq(Files)
    BY DEF NoRepeats, Elements
  <2>3. Distinct(<<>>, {s}, 2)
    BY <2>2 DEF Distinct
  <2>4. QED
    BY <1>5, <2>1, <2>3
<1>6. QED
  BY <1>3, <1>4, <1>5

\* Everything that a start opens is another file.
LEMMA OpenedIs ==
    ASSUME NEW c
    PROVE  /\ Distinct(Opened(c), Names, 12)
           /\ FilesOf("exit") \cup FilesOf("error") \cup FilesOf("fork") \subseteq Elements(Opened(c))
           /\ \A s \in {"in", "out", "err"} :
                c[s] \in {Pipe, Discard} => ChildEnd(s) \in Elements(Opened(c))
<1> DEFINE i == Redirected(c, "in") o == Redirected(c, "out") e == Redirected(c, "err")
           x == PipeOf("exit") r == PipeOf("error") f == PipeOf("fork")
<1>1. Distinct(i, {"in"}, 2) /\ Distinct(o, {"out"}, 2) /\ Distinct(e, {"err"}, 2)
  BY RedirectedIs
<1>2. /\ Distinct(x, {"exit"}, 2) /\ Elements(x) = FilesOf("exit")
      /\ Distinct(r, {"error"}, 2) /\ Elements(r) = FilesOf("error")
      /\ Distinct(f, {"fork"}, 2) /\ Elements(f) = FilesOf("fork")
  <2>1. "exit" \in Names /\ "error" \in Names /\ "fork" \in Names
    BY DEF Names
  <2>2. QED
    BY <2>1, PipeIs
<1>3. /\ c["in"] \in {Pipe, Discard} => ChildEnd("in") \in Elements(i)
      /\ c["out"] \in {Pipe, Discard} => ChildEnd("out") \in Elements(o)
      /\ c["err"] \in {Pipe, Discard} => ChildEnd("err") \in Elements(e)
  BY RedirectedIs
<1> HIDE DEF i, o, e, x, r, f
<1> DEFINE io == i \o o  ioe == io \o e  ioex == ioe \o x  ioexr == ioex \o r  all == ioexr \o f
<1>4. /\ Distinct(io, {"in"} \cup {"out"}, 2 + 2)
      /\ Elements(io) = Elements(i) \cup Elements(o)
  <2>1. {"in"} \cap {"out"} = {}
    OBVIOUS
  <2>2. QED
    BY <1>1, <2>1, DistinctJoined
<1> HIDE DEF io
<1>5. /\ Distinct(ioe, {"in", "out"} \cup {"err"}, 4 + 2)
      /\ Elements(ioe) = Elements(io) \cup Elements(e)
  <2>1. {"in", "out"} \cap {"err"} = {} /\ {"in"} \cup {"out"} = {"in", "out"} /\ 2 + 2 = 4
    OBVIOUS
  <2>2. Distinct(io, {"in", "out"}, 4)
    BY <1>4, <2>1
  <2>3. QED
    BY <1>1, <2>1, <2>2, DistinctJoined
<1> HIDE DEF ioe
<1>6. /\ Distinct(ioex, {"in", "out", "err"} \cup {"exit"}, 6 + 2)
      /\ Elements(ioex) = Elements(ioe) \cup Elements(x)
  <2>1. /\ {"in", "out", "err"} \cap {"exit"} = {}
        /\ {"in", "out"} \cup {"err"} = {"in", "out", "err"} /\ 4 + 2 = 6
    OBVIOUS
  <2>2. Distinct(ioe, {"in", "out", "err"}, 6)
    BY <1>5, <2>1
  <2>3. QED
    BY <1>2, <2>1, <2>2, DistinctJoined
<1> HIDE DEF ioex
<1>7. /\ Distinct(ioexr, {"in", "out", "err", "exit"} \cup {"error"}, 8 + 2)
      /\ Elements(ioexr) = Elements(ioex) \cup Elements(r)
  <2>1. /\ {"in", "out", "err", "exit"} \cap {"error"} = {}
        /\ {"in", "out", "err"} \cup {"exit"} = {"in", "out", "err", "exit"} /\ 6 + 2 = 8
    OBVIOUS
  <2>2. Distinct(ioex, {"in", "out", "err", "exit"}, 8)
    BY <1>6, <2>1
  <2>3. QED
    BY <1>2, <2>1, <2>2, DistinctJoined
<1> HIDE DEF ioexr
<1>8. /\ Distinct(all, {"in", "out", "err", "exit", "error"} \cup {"fork"}, 10 + 2)
      /\ Elements(all) = Elements(ioexr) \cup Elements(f)
  <2>1. /\ {"in", "out", "err", "exit", "error"} \cap {"fork"} = {}
        /\ {"in", "out", "err", "exit"} \cup {"error"} = {"in", "out", "err", "exit", "error"}
        /\ 8 + 2 = 10
    OBVIOUS
  <2>2. Distinct(ioexr, {"in", "out", "err", "exit", "error"}, 10)
    BY <1>7, <2>1
  <2>3. QED
    BY <1>2, <2>1, <2>2, DistinctJoined
<1> HIDE DEF all
<1>9. Opened(c) = all
  BY DEF Opened, all, ioexr, ioex, ioe, io, i, o, e, x, r, f
<1>10. {"in", "out", "err", "exit", "error"} \cup {"fork"} = Names /\ 10 + 2 = 12
  BY DEF Names
<1>11. /\ Elements(i) \subseteq Elements(all) /\ Elements(o) \subseteq Elements(all)
       /\ Elements(e) \subseteq Elements(all)
       /\ FilesOf("exit") \cup FilesOf("error") \cup FilesOf("fork") \subseteq Elements(all)
  BY <1>2, <1>4, <1>5, <1>6, <1>7, <1>8
<1>12. QED
  BY <1>3, <1>8, <1>9, <1>10, <1>11

Entries == [file : Files \cup {Of("none", 0)} \cup {Of("application", n) : n \in Numbers},
            cloexec : BOOLEAN]
Tables == [Numbers -> Entries]

LEMMA NamesDiffer ==
    /\ \A file \in Files : file[1] \in Names /\ file # Of("none", 0)
    /\ \A file \in Files, n \in Numbers : file # Of("application", n)
    /\ \A n \in Numbers : Of("application", n) # Of("none", 0) /\ Of("application", n)[1] \notin Names
    /\ Of("none", 0)[1] \notin Names
    /\ \A file \in Files, n \in Names : file[1] = n => file \in FilesOf(n)
BY DEF Files, Names, Of, FilesOf

\* A start's redirects: descriptors that the application has open, or none.
LEMMA ApplicationIs ==
    ASSUME NEW open \in SUBSET Standard
    PROVE  LET t == Application(open)
           IN  /\ t \in Tables
               /\ \A n \in open \cup {Limit - 2, Limit - 1} :
                    n \in Numbers /\ t[n] = [file |-> Of("application", n), cloexec |-> FALSE]
               /\ \A n \in Numbers \ (open \cup {Limit - 2, Limit - 1}) : t[n] = Free
<1>1. open \cup {Limit - 2, Limit - 1} \subseteq Numbers
  BY LimitAssumption DEF Standard, Numbers
<1>2. QED
  BY <1>1 DEF Application, Tables, Entries, Free

\* A file goes to a free number, not above one that is known to be free.
LEMMA OpenIs ==
    ASSUME NEW t \in Tables, NEW file \in Files, NEW b \in Numbers, ~Holds(t, b)
    PROVE  \E n \in Numbers :
             /\ n <= b /\ ~Holds(t, n)
             /\ Open(t, file) = [t EXCEPT ![n] = [file |-> file, cloexec |-> TRUE]]
<1> DEFINE S == {n \in Numbers : ~Holds(t, n)}
<1>1. S \subseteq Nat /\ S # {}
  BY LimitAssumption DEF Numbers
<1>2. PICK l \in S : \A n \in S : l <= n
  BY <1>1, Least
<1>3. \E n \in Numbers : ~Holds(t, n) /\ \A k \in 0..(n - 1) : Holds(t, k)
  <2>1. \A k \in 0..(l - 1) : k \in Numbers /\ k < l
    BY <1>2, LimitAssumption DEF Numbers
  <2>2. \A k \in 0..(l - 1) : Holds(t, k)
    <3>1. SUFFICES ASSUME NEW k \in 0..(l - 1), ~Holds(t, k) PROVE FALSE
      OBVIOUS
    <3>2. k \in S /\ k < l /\ k \in Nat /\ l \in Nat
      BY <1>1, <2>1, <3>1
    <3>3. QED
      BY <1>2, <3>2
  <2>3. QED
    BY <1>2, <2>2
<1> DEFINE n == CHOOSE n \in Numbers : ~Holds(t, n) /\ \A k \in 0..(n - 1) : Holds(t, k)
<1>4. n \in Numbers /\ ~Holds(t, n) /\ \A k \in 0..(n - 1) : Holds(t, k)
  BY <1>3, Zenon
<1>5. Open(t, file) = [t EXCEPT ![n] = [file |-> file, cloexec |-> TRUE]]
  BY DEF Open
<1> HIDE DEF n
<1>6. n <= b
  BY <1>4, LimitAssumption DEF Numbers
<1>7. QED
  BY <1>4, <1>5, <1>6

\* Whatever it holds, a table stays one.
LEMMA OpenTyped ==
    ASSUME NEW t \in Tables, NEW file \in Files
    PROVE  Open(t, file) \in Tables
<1>1. [file |-> file, cloexec |-> TRUE] \in Entries
  BY DEF Entries
<1>2. QED
  BY <1>1 DEF Open, Tables

LEMMA OpeningIs ==
    ASSUME NEW c, c.open \in SUBSET Standard
    PROVE  LET table == Opening(c)
               L == Len(Opened(c))
           IN  /\ table \in [0..L -> Tables]
               /\ table[0] = Application(c.open)
               /\ \A n \in 1..L : table[n] = Open(table[n - 1], Opened(c)[n])
<1> DEFINE table == Opening(c)
           O == Opened(c)
           L == Len(O)
           app == Application(c.open)
           g == [n \in 1..L |-> [t \in Tables |-> Open(t, O[n])]]
<1>1. L \in Nat /\ \A n \in 1..L : O[n] \in Files
  BY OpenedIs DEF Distinct
<1>2. app \in Tables
  BY ApplicationIs
<1>3. table = CHOOSE f : f = [n \in 0..L |-> IF n = 0 THEN app ELSE Open(f[n - 1], O[n])]
  BY DEF Opening
<1> HIDE DEF table, O, L, app
<1>4. g \in [1..L -> [Tables -> Tables]]
  BY <1>1, OpenTyped
<1> HIDE DEF g
<1>5. PICK f : Loop(f, L, Tables, app, g)
  BY <1>1, <1>2, <1>4, LoopExists
<1>6. \A n \in 1..L : n - 1 \in 0..L
  BY <1>1
<1>7. \A n \in 1..L : f[n] = Open(f[n - 1], O[n])
  BY <1>5, <1>6 DEF g, Loop
<1>8. f = [n \in 0..L |-> IF n = 0 THEN app ELSE Open(f[n - 1], O[n])]
  <2>1. \A n \in 0..L : n # 0 => n \in 1..L
    BY <1>1
  <2>2. QED
    BY <1>5, <1>7, <2>1 DEF Loop
<1>9. table = [n \in 0..L |-> IF n = 0 THEN app ELSE Open(table[n - 1], O[n])]
  BY <1>3, <1>8, Zenon
<1> DEFINE T == {n \in 0..L : table[n] \in Tables}
<1>10. table[0] = app /\ \A n \in 1..L : table[n] = Open(table[n - 1], O[n])
  BY <1>1, <1>9
<1>11. 0 \in T
  BY <1>1, <1>2, <1>10
<1>12. ASSUME NEW n \in 1..L, n - 1 \in T PROVE n \in T
  <2>1. table[n] \in Tables
    BY <1>1, <1>10, <1>12, OpenTyped
  <2>2. QED
    BY <1>1, <2>1
<1> HIDE DEF T
<1>13. \A n \in 0..L : n \in T
  BY <1>1, <1>11, <1>12, Rounds0
<1>14. table \in [0..L -> Tables]
  BY <1>9, <1>13 DEF T
<1>15. QED
  BY <1>10, <1>14 DEF table, L, O, app

\* Number n has the file, close-on-exec, and no other number has it.
HasAlone(t, n, file) ==
    /\ n \in Numbers /\ t[n] = [file |-> file, cloexec |-> TRUE]
    /\ \A k \in Numbers : t[k].file = file => k = n

\* The table after n files of O are opened: each is at a number of its own, below
\* the application's files at the highest numbers, and the others are as before.
Filled(app, O, t, n) ==
    /\ t \in Tables
    /\ \A k \in Numbers : \/ t[k] = app[k]
                          \/ app[k] = Free /\ \E j \in 1..n : t[k] = [file |-> O[j], cloexec |-> TRUE]
    /\ \A j \in 1..n : \E k \in Numbers : HasAlone(t, k, O[j])
    /\ \A k \in Numbers : Holds(t, k) => k <= n + 2 \/ k >= Limit - 2

LEMMA Filling ==
    ASSUME NEW open \in SUBSET Standard, NEW O, Distinct(O, Names, 12), NEW n \in 1..Len(O),
           NEW t, Filled(Application(open), O, t, n - 1)
    PROVE  Filled(Application(open), O, Open(t, O[n]), n)
<1> DEFINE app == Application(open)
           file == O[n]
           u == Open(t, file)
<1>1. /\ Len(O) \in Nat /\ Len(O) <= 12
      /\ \A j \in 1..Len(O) : O[j] \in Files
      /\ \A i, j \in 1..Len(O) : O[i] = O[j] => i = j
  BY DEF Distinct, NoRepeats
<1>2. /\ t \in Tables
      /\ \A k \in Numbers : \/ t[k] = app[k]
                            \/ app[k] = Free /\ \E j \in 1..(n - 1) : t[k] = [file |-> O[j], cloexec |-> TRUE]
      /\ \A j \in 1..(n - 1) : \E k \in Numbers : HasAlone(t, k, O[j])
      /\ \A k \in Numbers : Holds(t, k) => k <= (n - 1) + 2 \/ k >= Limit - 2
  BY DEF Filled
<1>3. /\ app \in Tables
      /\ \A k \in Numbers : app[k] = Free \/ app[k].file = Of("application", k)
  <2>1. /\ app \in Tables
        /\ \A k \in open \cup {Limit - 2, Limit - 1} :
             app[k] = [file |-> Of("application", k), cloexec |-> FALSE]
        /\ \A k \in Numbers \ (open \cup {Limit - 2, Limit - 1}) : app[k] = Free
    BY ApplicationIs
  <2>2. \A k \in Numbers : k \in open \cup {Limit - 2, Limit - 1}
                          \/ k \in Numbers \ (open \cup {Limit - 2, Limit - 1})
    OBVIOUS
  <2> HIDE DEF app
  <2>3. ASSUME NEW k \in Numbers PROVE app[k] = Free \/ app[k].file = Of("application", k)
    <3>1. CASE k \in open \cup {Limit - 2, Limit - 1}
      <4>1. app[k] = [file |-> Of("application", k), cloexec |-> FALSE]
        BY <2>1, <3>1
      <4>2. QED
        BY <4>1
    <3>2. CASE k \in Numbers \ (open \cup {Limit - 2, Limit - 1})
      BY <2>1, <3>2
    <3>3. QED
      BY <2>2, <3>1, <3>2
  <2>4. QED
    BY <2>1, <2>3
<1>4. n + 2 \in Numbers /\ ~Holds(t, n + 2)
  <2>1. n + 2 \in Numbers /\ n + 2 < Limit - 2 /\ ~(n + 2 <= (n - 1) + 2)
    BY <1>1, LimitAssumption DEF Numbers
  <2>2. QED
    BY <1>2, <2>1, LimitAssumption DEF Numbers
<1>5. file \in Files
  BY <1>1
<1> HIDE DEF app
<1>6. PICK l \in Numbers : /\ l <= n + 2 /\ ~Holds(t, l)
                           /\ u = [t EXCEPT ![l] = [file |-> file, cloexec |-> TRUE]]
  BY <1>2, <1>4, <1>5, OpenIs
<1>7. t[l] = Free
  BY <1>6 DEF Holds
<1>8. u \in Tables
  BY <1>2, <1>5, OpenTyped
<1>9. u[l] = [file |-> file, cloexec |-> TRUE] /\ \A k \in Numbers \ {l} : u[k] = t[k]
  BY <1>2, <1>6 DEF Tables
<1> HIDE DEF u
<1>10. app[l] = Free
  <2>1. ASSUME NEW j \in 1..(n - 1), t[l] = [file |-> O[j], cloexec |-> TRUE] PROVE FALSE
    BY <1>7, <2>1 DEF Free
  <2>2. QED
    BY <1>2, <1>7, <2>1
<1>11. ASSUME NEW k \in Numbers
       PROVE  \/ u[k] = app[k]
              \/ app[k] = Free /\ \E j \in 1..n : u[k] = [file |-> O[j], cloexec |-> TRUE]
  <2>1. CASE k = l
    <3>1. n \in 1..n /\ u[k] = [file |-> O[n], cloexec |-> TRUE] /\ app[k] = Free
      BY <1>1, <1>9, <1>10, <2>1
    <3>2. QED
      BY <3>1
  <2>2. CASE k # l
    <3>1. \A j \in 1..(n - 1) : j \in 1..n
      BY <1>1
    <3>2. QED
      BY <1>2, <1>9, <2>2, <3>1
  <2>3. QED
    BY <2>1, <2>2
<1>12. \A k \in Numbers : t[k].file # file
  <2>1. SUFFICES ASSUME NEW k \in Numbers, t[k].file = file PROVE FALSE
    OBVIOUS
  <2>2. CASE t[k] = app[k]
    <3>1. app[k].file = Of("none", 0) \/ app[k].file = Of("application", k)
      BY <1>3 DEF Free
    <3>2. QED
      BY <1>5, <2>1, <2>2, <3>1, NamesDiffer
  <2>3. ASSUME NEW j \in 1..(n - 1), t[k] = [file |-> O[j], cloexec |-> TRUE] PROVE FALSE
    <3>1. O[j] = O[n] /\ j \in 1..Len(O) /\ n \in 1..Len(O) /\ j # n
      BY <1>1, <2>1, <2>3
    <3>2. QED
      BY <1>1, <3>1
  <2>4. QED
    BY <1>2, <2>2, <2>3
<1>13. ASSUME NEW j \in 1..n PROVE \E k \in Numbers : HasAlone(u, k, O[j])
  <2>1. CASE j = n
    <3>1. HasAlone(u, l, file)
      BY <1>9, <1>12 DEF HasAlone
    <3>2. QED
      BY <2>1, <3>1
  <2>2. CASE j # n
    <3>1. j \in 1..(n - 1) /\ j \in 1..Len(O) /\ n \in 1..Len(O) /\ O[j] # file
      BY <1>1, <2>2
    <3>2. PICK k \in Numbers : HasAlone(t, k, O[j])
      BY <1>2, <3>1
    <3>3. k # l
      <4>1. O[j] # Of("none", 0)
        BY <1>1, <3>1, NamesDiffer
      <4>2. QED
        BY <1>7, <3>2, <4>1 DEF HasAlone, Free
    <3>4. HasAlone(u, k, O[j])
      BY <1>9, <3>1, <3>2, <3>3 DEF HasAlone
    <3>5. QED
      BY <3>4
  <2>3. QED
    BY <2>1, <2>2
<1>14. ASSUME NEW k \in Numbers, Holds(u, k) PROVE k <= n + 2 \/ k >= Limit - 2
  <2>1. CASE k = l
    BY <1>6, <2>1
  <2>2. CASE k # l
    <3>1. Holds(t, k)
      BY <1>9, <1>14, <2>2 DEF Holds
    <3>2. QED
      BY <1>2, <3>1, LimitAssumption DEF Numbers
  <2>3. QED
    BY <2>1, <2>2
<1>15. QED
  BY <1>8, <1>11, <1>13, <1>14 DEF Filled, app, u

\* The table at fork: what is opened is where NumberOf finds it, and the rest is
\* the application's or free.
LEMMA AtForkIs ==
    ASSUME NEW c, c.open \in SUBSET Standard
    PROVE  LET t == AtFork(c)
           IN  /\ t \in Tables
               /\ \A k \in Numbers :
                    \/ t[k] = Application(c.open)[k]
                    \/ /\ Application(c.open)[k] = Free
                       /\ t[k].file \in Elements(Opened(c)) /\ t[k].cloexec
               /\ \A file \in Elements(Opened(c)) : HasAlone(t, NumberOf(t, file), file)
<1> DEFINE O == Opened(c)
           L == Len(O)
           app == Application(c.open)
           table == Opening(c)
           T == {n \in 0..L : Filled(app, O, table[n], n)}
           t == AtFork(c)
<1>1. Distinct(O, Names, 12)
  BY OpenedIs
<1>2. L \in Nat
  BY <1>1 DEF Distinct
<1>3. /\ table[0] = app
      /\ \A n \in 1..L : table[n] = Open(table[n - 1], O[n])
  BY OpeningIs
<1>4. t = table[L]
  BY DEF AtFork
<1>5. /\ app \in Tables
      /\ \A n \in c.open \cup {Limit - 2, Limit - 1} : n \in Numbers
      /\ \A n \in Numbers \ (c.open \cup {Limit - 2, Limit - 1}) : app[n] = Free
  BY ApplicationIs
<1> HIDE DEF table, O, L, t
<1>6. 0 \in T
  <2>1. \A k \in Numbers : Holds(app, k) => k <= 2 \/ k >= Limit - 2
    BY <1>5, LimitAssumption DEF Holds, Standard, Numbers
  <2>2. Filled(app, O, app, 0)
    BY <1>5, <2>1, LimitAssumption DEF Filled, Numbers
  <2>3. QED
    BY <1>2, <1>3, <2>2
<1>7. ASSUME NEW n \in 1..L, n - 1 \in T PROVE n \in T
  <2>1. Filled(app, O, table[n - 1], n - 1)
    BY <1>7
  <2>2. Filled(app, O, Open(table[n - 1], O[n]), n)
    BY <1>1, <2>1, Filling DEF L
  <2>3. QED
    BY <1>2, <1>3, <2>2
<1> HIDE DEF T
<1>8. \A n \in 0..L : n \in T
  BY <1>2, <1>6, <1>7, Rounds0
<1>9. Filled(app, O, t, L)
  <2>1. L \in T
    BY <1>2, <1>8
  <2>2. QED
    BY <1>4, <2>1 DEF T
<1> HIDE DEF app
<1>10. ASSUME NEW k \in Numbers
       PROVE  t[k] = app[k] \/ (app[k] = Free /\ t[k].file \in Elements(O) /\ t[k].cloexec)
  <2>1. ASSUME NEW j \in 1..L, t[k] = [file |-> O[j], cloexec |-> TRUE]
        PROVE  t[k].file \in Elements(O) /\ t[k].cloexec
    BY <2>1 DEF Elements, L
  <2>2. QED
    BY <1>9, <2>1 DEF Filled
<1>11. ASSUME NEW file \in Elements(O) PROVE HasAlone(t, NumberOf(t, file), file)
  <2>1. PICK j \in 1..L : file = O[j]
    BY DEF Elements, L
  <2>2. PICK k \in Numbers : HasAlone(t, k, file)
    BY <1>9, <2>1 DEF Filled
  <2>3. NumberOf(t, file) = k
    BY <2>2 DEF NumberOf, HasAlone
  <2>4. QED
    BY <2>2, <2>3
<1>12. t \in Tables
  BY <1>9 DEF Filled
<1>13. QED
  BY <1>10, <1>11, <1>12 DEF t, O, app

\* A start: each stream has a pipe, no file, or a descriptor that the application
\* has open; stderr may have what stdout has.
Starts ==
    {c \in [open : SUBSET Standard, in : Int, out : Int, err : Int] :
        /\ \A s \in {"in", "out"} : c[s] \in {Pipe, Discard, Limit - 2, Limit - 1} \cup c.open
        /\ c["err"] \in {Pipe, Discard, Stdout, Limit - 2, Limit - 1} \cup c.open}

\* What a stream's descriptor is at fork: an end of a pipe of the start's own, which
\* is close-on-exec, or a file of the application, which is not.
Source(t, n) ==
    /\ n \in Numbers
    /\ \/ t[n].file \in Files /\ t[n].file[1] \in {"in", "out", "err"} /\ t[n].cloexec
       \/ t[n].file = Of("application", n) /\ ~t[n].cloexec

LEMMA HandleIs ==
    ASSUME NEW c \in Starts, NEW s \in {"in", "out", "err"}
    PROVE  Source(AtFork(c), Handle(c, AtFork(c), s))
<1> DEFINE t == AtFork(c)
           of == IF c[s] = Stdout THEN "out" ELSE s
           held == c.open \cup {Limit - 2, Limit - 1}
<1>1. c.open \in SUBSET Standard
  BY DEF Starts
<1>2. of \in {"in", "out", "err"} /\ c[of] \in {Pipe, Discard} \cup held
  <2>1. c["in"] # Stdout /\ c["out"] # Stdout
    BY LimitAssumption DEF Starts, Stdout, Pipe, Discard, Standard
  <2>2. QED
    BY <2>1 DEF Starts
<1>3. Handle(c, t, s) = IF c[of] \in {Pipe, Discard} THEN NumberOf(t, ChildEnd(of)) ELSE c[of]
  BY DEF Handle
<1> HIDE DEF of, t
<1>4. CASE c[of] \in {Pipe, Discard}
  <2>1. ChildEnd(of) \in Elements(Opened(c))
    BY <1>2, <1>4, OpenedIs
  <2>2. HasAlone(t, NumberOf(t, ChildEnd(of)), ChildEnd(of))
    BY <1>1, <2>1, AtForkIs DEF t
  <2>3. ChildEnd(of) \in Files /\ ChildEnd(of)[1] = of
    BY <1>2 DEF ChildEnd, Files, Names, Of
  <2>4. QED
    BY <1>2, <1>3, <1>4, <2>2, <2>3 DEF HasAlone, Source, t
<1>5. CASE c[of] \notin {Pipe, Discard}
  <2> DEFINE n == c[of]
  <2>1. n \in held
    BY <1>2, <1>5
  <2>2. n \in Numbers /\ Application(c.open)[n] = [file |-> Of("application", n), cloexec |-> FALSE]
    BY <1>1, <2>1, ApplicationIs
  <2>3. Application(c.open)[n] # Free
    <3>1. Of("application", n) # Of("none", 0)
      BY <2>2, NamesDiffer
    <3>2. QED
      BY <2>2, <3>1 DEF Free
  <2>4. t[n] = Application(c.open)[n]
    BY <1>1, <2>2, <2>3, AtForkIs DEF t
  <2> HIDE DEF n
  <2>5. Source(t, n)
    BY <2>2, <2>4 DEF Source
  <2>6. QED
    BY <1>3, <1>5, <2>5 DEF t, n
<1>6. QED
  BY <1>4, <1>5

\* What the loop over the standard streams needs: the sources are there, and one
\* that is a standard descriptor is the stream's own.
Ready(t, d, h) ==
    /\ t \in Tables /\ d \in Tables
    /\ \A i \in Standard : /\ h[i] \in Numbers /\ d[h[i]] = t[h[i]]
                           /\ h[i] \in Standard => h[i] = i /\ ~t[i].cloexec

\* What it has done before round i to the table d, and has made e of it.
Dupped(t, d, h, e, i) ==
    /\ e \in Tables
    /\ \A j \in Standard : /\ j < i => e[j].file = t[h[j]].file /\ ~e[j].cloexec
                           /\ j >= i => e[j] = d[j]
    /\ \A n \in Numbers \ Standard :
         /\ e[n].file = d[n].file
         /\ e[n].cloexec <=> d[n].cloexec \/ \E j \in Standard : j < i /\ h[j] = n

LEMMA Dupping ==
    ASSUME NEW t, NEW d, NEW h, NEW e, NEW i \in Standard, Ready(t, d, h), Dupped(t, d, h, e, i)
    PROVE  Dupped(t, d, h, Dup(e, h, i), i + 1)
<1> DEFINE u == Dup(e, h, i)
<1>1. /\ t \in Tables /\ d \in Tables /\ e \in Tables
      /\ h[i] \in Numbers /\ d[h[i]] = t[h[i]]
      /\ \A j \in Standard : h[j] \in Standard => h[j] = j /\ ~t[j].cloexec
  BY DEF Ready, Dupped
<1>2. Standard \subseteq Numbers /\ \A j \in Standard : j \in Int
  BY LimitAssumption DEF Standard, Numbers
<1>3. \A j \in Standard : j < i + 1 <=> j < i \/ j = i
  BY <1>2
<1>4. \A n \in Numbers : t[n] \in Entries /\ d[n] \in Entries /\ e[n] \in Entries
  BY <1>1 DEF Tables
<1>5. CASE h[i] = i
  <2>1. u = e
    BY <1>5 DEF Dup
  <2>2. e[i] = t[i] /\ ~t[i].cloexec
    BY <1>1, <1>2, <1>5 DEF Dupped
  <2>3. \A j \in Standard : /\ j < i + 1 => e[j].file = t[h[j]].file /\ ~e[j].cloexec
                            /\ j >= i + 1 => e[j] = d[j]
    BY <1>2, <1>3, <1>5, <2>2 DEF Dupped
  <2>4. \A n \in Numbers \ Standard :
          /\ e[n].file = d[n].file
          /\ e[n].cloexec <=> d[n].cloexec \/ \E j \in Standard : j < i + 1 /\ h[j] = n
    BY <1>3, <1>5 DEF Dupped
  <2>5. QED
    BY <1>1, <2>1, <2>3, <2>4 DEF Dupped
<1>6. CASE h[i] # i
  <2>1. h[i] \in Numbers \ Standard
    BY <1>1, <1>6
  <2>2. u = [e EXCEPT ![i] = [e[h[i]] EXCEPT !.cloexec = FALSE], ![h[i]].cloexec = TRUE]
    BY <1>6 DEF Dup
  <2>3. /\ u[i] = [e[h[i]] EXCEPT !.cloexec = FALSE]
        /\ u[h[i]] = [e[h[i]] EXCEPT !.cloexec = TRUE]
        /\ \A n \in Numbers \ {i, h[i]} : u[n] = e[n]
    BY <1>1, <1>2, <1>6, <2>2 DEF Tables
  <2>4. /\ u[i].file = e[h[i]].file /\ ~u[i].cloexec /\ u[i] \in Entries
        /\ u[h[i]].file = e[h[i]].file /\ u[h[i]].cloexec /\ u[h[i]] \in Entries
    BY <1>4, <2>1, <2>3 DEF Entries
  <2>5. e[h[i]].file = t[h[i]].file
    BY <1>1, <2>1 DEF Dupped
  <2>6. u \in Tables
    <3>1. DOMAIN u = Numbers /\ u = [n \in Numbers |-> u[n]]
      BY <1>1, <2>2 DEF Tables
    <3>2. \A n \in Numbers : u[n] \in Entries
      BY <1>4, <2>3, <2>4
    <3>3. QED
      BY <3>1, <3>2 DEF Tables
  <2> HIDE DEF u
  <2>7. ASSUME NEW j \in Standard
        PROVE  /\ j < i + 1 => u[j].file = t[h[j]].file /\ ~u[j].cloexec
               /\ j >= i + 1 => u[j] = d[j]
    <3>1. CASE j = i
      BY <1>2, <2>4, <2>5, <3>1
    <3>2. CASE j # i
      <4>1. u[j] = e[j]
        BY <1>2, <2>1, <2>3, <3>2
      <4>2. QED
        BY <1>2, <3>2, <4>1 DEF Dupped
    <3>3. QED
      BY <3>1, <3>2
  <2>8. ASSUME NEW n \in Numbers \ Standard
        PROVE  /\ u[n].file = d[n].file
               /\ u[n].cloexec <=> d[n].cloexec \/ \E j \in Standard : j < i + 1 /\ h[j] = n
    <3>1. CASE n = h[i]
      <4>1. u[n].file = d[n].file
        BY <2>4, <3>1 DEF Dupped
      <4>2. \E j \in Standard : j < i + 1 /\ h[j] = n
        BY <1>2, <3>1
      <4>3. QED
        BY <2>4, <3>1, <4>1, <4>2
    <3>2. CASE n # h[i]
      <4>1. u[n] = e[n]
        BY <2>3, <3>2
      <4>2. QED
        BY <1>3, <3>2, <4>1 DEF Dupped
    <3>3. QED
      BY <3>1, <3>2
  <2>9. QED
    BY <2>6, <2>7, <2>8 DEF Dupped, u
<1>7. QED
  BY <1>5, <1>6

\* For any limit of descriptors, any open ones and any redirects that stay apart:
\* the program has its files where they belong and no others.
LEMMA Placing ==
    ASSUME NEW c \in Starts
    PROVE  PlacedRight(c)
<1> DEFINE t == AtFork(c)
           h == [i \in Standard |-> Handle(c, t, Stream[i + 1])]
           except == Except(t, h)
           d == CloseFds(t, except)
           d1 == Dup(d, h, 0)
           d2 == Dup(d1, h, 1)
           d3 == Dup(d2, h, 2)
           x == ExitHandle(t)
           last == Limit - 1
           p == Exec(KeepExit(d3, x))
           O == Opened(c)
           K == {NumberOf(t, Of("error", "read")), NumberOf(t, Of("error", "write"))}
<1>1. Started(c) = [atFork |-> t, handles |-> h, program |-> p]
  BY DEF Started
<1>2. c.open \in SUBSET Standard
  BY DEF Starts
<1>3. \A i \in Standard : Source(t, h[i])
  <2>1. \A i \in Standard : Stream[i + 1] \in {"in", "out", "err"}
    BY DEF Standard, Stream
  <2>2. QED
    BY <2>1, HandleIs
<1>4. /\ t \in Tables
      /\ \A n \in Numbers : \/ t[n] = Application(c.open)[n]
                            \/ Application(c.open)[n] = Free /\ t[n].file \in Elements(O) /\ t[n].cloexec
      /\ \A file \in Elements(O) : HasAlone(t, NumberOf(t, file), file)
  BY <1>2, AtForkIs
<1>5. /\ Of("exit", "write") \in Elements(O) /\ Of("error", "read") \in Elements(O)
      /\ Of("error", "write") \in Elements(O)
  BY OpenedIs DEF FilesOf
<1>6. Standard \subseteq Numbers /\ last \in Numbers /\ last \notin Standard
  BY LimitAssumption DEF Standard, Numbers
<1>7. t[last].file = Of("application", last) /\ ~t[last].cloexec
  <2>1. Application(c.open)[last] = [file |-> Of("application", last), cloexec |-> FALSE]
    BY <1>2, ApplicationIs
  <2>2. Application(c.open)[last] # Free
    BY <1>6, <2>1, NamesDiffer DEF Free
  <2>3. QED
    BY <1>4, <1>6, <2>1, <2>2
<1>8. HasAlone(t, x, Of("exit", "write"))
      /\ HasAlone(t, NumberOf(t, Of("error", "read")), Of("error", "read"))
      /\ HasAlone(t, NumberOf(t, Of("error", "write")), Of("error", "write"))
  BY <1>4, <1>5 DEF ExitHandle
<1>9. except = {h[i] : i \in Standard} \cup K \cup {x}
  <2>1. {n \in Numbers : t[n].file \in {Of("error", "read"), Of("error", "write"), Of("exit", "write")}}
          = K \cup {x}
    BY <1>8 DEF HasAlone
  <2>2. QED
    BY <2>1 DEF Except
<1> HIDE DEF t, x, h
<1>10. SUFFICES ASSUME Apart(Started(c))
                PROVE  /\ \A i \in Standard : p[i].file = t[h[i]].file
                       /\ p[x].file = Of("exit", "write")
                       /\ {n \in Numbers : Holds(p, n)} = Standard \cup {x} \cup ({last} \ except)
  <2> HIDE DEF p
  <2>1. Started(c).atFork = t /\ Started(c).handles = h /\ Started(c).program = p
    BY <1>1
  <2>2. ExitHandle(Started(c).atFork) = x
        /\ ({Limit - 1} \ Except(Started(c).atFork, Started(c).handles)) = {last} \ except
    BY <2>1, Zenon DEF x
  <2> DEFINE s == Started(c)
  <2> HIDE DEF s, except, last
  <2>3. QED
    BY <2>1, <2>2 DEF PlacedRight, s
<1>11. /\ \A i \in Standard : h[i] \in Standard => h[i] = i /\ ~t[i].cloexec
       /\ \A i \in Standard : t[i].file \notin {Of("exit", "write"), Of("error", "write")}
  BY <1>1, <1>10 DEF Apart
<1> DEFINE gone == {Of("exit", "write"), Of("error", "read"), Of("error", "write")}
<1>12. ASSUME NEW i \in Standard
       PROVE  /\ h[i] \in Numbers /\ h[i] \notin K \cup {x}
              /\ t[h[i]].file[1] # "fork" /\ t[h[i]].file # Of("none", 0)
  <2>1. h[i] \in Numbers
    BY <1>3 DEF Source
  <2>2. \A file \in gone : file[1] \notin {"in", "out", "err"}
    BY DEF Of
  <2>3. gone \subseteq Files
    BY DEF Files, Names
  <2>4. "fork" \in Names
    BY DEF Names
  <2> HIDE DEF gone
  <2>5. CASE t[h[i]].file \in Files /\ t[h[i]].file[1] \in {"in", "out", "err"}
    <3>1. t[h[i]].file \notin gone
      BY <2>2, <2>5
    <3>2. t[h[i]].file # Of("none", 0)
      BY <2>5, NamesDiffer
    <3>3. h[i] \notin K \cup {x}
      BY <1>8, <3>1 DEF HasAlone, gone
    <3>4. QED
      BY <2>1, <2>5, <3>2, <3>3
  <2>6. CASE t[h[i]].file = Of("application", h[i])
    <3>1. t[h[i]].file \notin gone
      BY <2>1, <2>3, <2>6, NamesDiffer
    <3>2. t[h[i]].file # Of("none", 0) /\ t[h[i]].file[1] # "fork"
      BY <2>1, <2>4, <2>6, NamesDiffer
    <3>3. h[i] \notin K \cup {x}
      BY <1>8, <3>1 DEF HasAlone, gone
    <3>4. QED
      BY <2>1, <3>2, <3>3
  <2>7. QED
    BY <1>3, <2>5, <2>6 DEF Source
<1>13. /\ d \in Tables
       /\ \A n \in except \cup {last} : d[n] = t[n]
       /\ \A n \in Numbers \ (except \cup {last}) : d[n] = Free
  <2>1. ASSUME NEW n \in except \cup {last} PROVE n \in Numbers /\ t[n].file[1] # "fork"
    <3>1. CASE n \in {h[i] : i \in Standard}
      BY <1>12, <3>1
    <3>2. CASE n \in K \cup {x}
      <4>1. n \in Numbers /\ t[n].file \in gone
        BY <1>8, <3>2 DEF HasAlone
      <4>2. \A file \in gone : file[1] # "fork"
        BY DEF Of
      <4>3. QED
        BY <4>1, <4>2
    <3>3. CASE n = last
      <4>1. "fork" \in Names
        BY DEF Names
      <4>2. QED
        BY <1>6, <1>7, <3>3, <4>1, NamesDiffer
    <3>4. QED
      BY <1>9, <2>1, <3>1, <3>2, <3>3
  <2> HIDE DEF except
  <2>2. \A n \in Numbers : d[n] = IF (n < last /\ n \notin except) \/ t[n].file[1] = "fork"
                                  THEN Free ELSE t[n]
    BY DEF CloseFds, GetMaxFd
  <2>3. \A n \in Numbers : n # last => n < last
    BY LimitAssumption DEF Numbers
  <2>4. Free \in Entries
    BY DEF Free, Entries
  <2>5. d \in Tables
    BY <1>4, <2>4 DEF CloseFds, Tables
  <2> HIDE DEF d, last
  <2>6. \A n \in except \cup {last} : d[n] = t[n]
    BY <2>1, <2>2, LimitAssumption DEF Numbers, last
  <2>7. \A n \in Numbers \ (except \cup {last}) : d[n] = Free
    BY <2>2, <2>3
  <2>8. QED
    BY <2>5, <2>6, <2>7
<1> HIDE DEF d, except, K, gone, last
<1>14. Ready(t, d, h)
  <2>1. \A i \in Standard : h[i] \in except
    BY <1>9
  <2>2. QED
    BY <1>4, <1>11, <1>12, <1>13, <2>1 DEF Ready
<1>15. Dupped(t, d, h, d3, 3)
  <2>1. Dupped(t, d, h, d, 0)
    BY <1>13 DEF Dupped, Standard
  <2>2. Dupped(t, d, h, d1, 1)
    <3>1. 0 \in Standard /\ 0 + 1 = 1
      BY DEF Standard
    <3>2. QED
      BY <1>14, <2>1, <3>1, Dupping
  <2> HIDE DEF d1
  <2>3. Dupped(t, d, h, d2, 2)
    <3>1. 1 \in Standard /\ 1 + 1 = 2
      BY DEF Standard
    <3>2. QED
      BY <1>14, <2>2, <3>1, Dupping
  <2> HIDE DEF d2
  <2>4. 2 \in Standard /\ 2 + 1 = 3
    BY DEF Standard
  <2>5. QED
    BY <1>14, <2>3, <2>4, Dupping
<1> HIDE DEF d3
<1>16. /\ d3 \in Tables
       /\ \A i \in Standard : d3[i].file = t[h[i]].file /\ ~d3[i].cloexec
       /\ \A n \in Numbers \ Standard :
            /\ d3[n].file = d[n].file
            /\ d3[n].cloexec <=> d[n].cloexec \/ \E i \in Standard : h[i] = n
  <2>1. \A i \in Standard : i < 3
    BY DEF Standard
  <2>2. QED
    BY <1>15, <2>1 DEF Dupped
<1>17. x \in Numbers \ Standard /\ x \in except /\ t[x].file = Of("exit", "write")
  BY <1>8, <1>9, <1>11 DEF HasAlone
<1> DEFINE k == KeepExit(d3, x)
<1>18. /\ \A n \in Numbers \ {x} : k[n] = d3[n]
       /\ k[x].file = d3[x].file /\ ~k[x].cloexec
  BY <1>16, <1>17 DEF KeepExit, Tables, Entries
<1>19. \A n \in Numbers : p[n] = IF k[n].cloexec THEN Free ELSE k[n]
  BY DEF Exec
<1> HIDE DEF k, p
<1>20. ASSUME NEW i \in Standard PROVE p[i].file = t[h[i]].file /\ Holds(p, i)
  <2>1. p[i] = d3[i]
    BY <1>6, <1>16, <1>17, <1>18, <1>19
  <2>2. QED
    BY <1>12, <1>16, <2>1 DEF Holds, Free
<1>21. p[x].file = Of("exit", "write") /\ Holds(p, x)
  <2>1. p[x] = k[x] /\ k[x].file = Of("exit", "write")
    BY <1>13, <1>16, <1>17, <1>18, <1>19
  <2>2. Of("exit", "write") # Of("none", 0)
    BY DEF Of
  <2>3. QED
    BY <2>1, <2>2 DEF Holds, Free
<1>22. ASSUME NEW n \in Numbers \ Standard, n # x
       PROVE  Holds(p, n) <=> n \in {last} \ except
  <2>1. k[n] = d3[n]
    BY <1>18, <1>22
  <2>2. CASE n \in {h[i] : i \in Standard}
    <3>1. p[n] = Free
      BY <1>16, <1>19, <2>1, <2>2
    <3>2. QED
      BY <1>9, <2>2, <3>1 DEF Holds
  <2>3. CASE n \in K
    <3>1. t[n].cloexec /\ n \in except
      BY <1>8, <1>9, <2>3 DEF HasAlone, K
    <3>2. p[n] = Free
      BY <1>13, <1>16, <1>19, <2>1, <3>1
    <3>3. QED
      BY <3>1, <3>2 DEF Holds
  <2>4. CASE n \notin except
    <3>1. \A i \in Standard : h[i] # n
      BY <1>9, <2>4
    <3>2. d3[n].file = d[n].file /\ (d3[n].cloexec <=> d[n].cloexec)
      BY <1>16, <3>1
    <3>3. CASE n = last
      <4>1. d[n].file = Of("application", last) /\ ~d[n].cloexec
        BY <1>7, <1>13, <3>3
      <4>2. p[n].file = Of("application", last)
        BY <1>19, <2>1, <3>2, <4>1
      <4>3. Of("application", last) # Of("none", 0)
        BY <1>6, NamesDiffer
      <4>4. QED
        BY <2>4, <3>3, <4>2, <4>3 DEF Holds, Free
    <3>4. CASE n # last
      <4>1. d[n] = Free
        BY <1>13, <2>4, <3>4
      <4>2. d3[n] \in Entries
        BY <1>16 DEF Tables
      <4>3. d3[n] = Free
        <5>1. d3[n] = [file |-> d3[n].file, cloexec |-> d3[n].cloexec] /\ d3[n].cloexec \in BOOLEAN
          BY <4>2 DEF Entries
        <5>2. d3[n].file = Of("none", 0) /\ ~d3[n].cloexec
          BY <3>2, <4>1 DEF Free
        <5>3. QED
          BY <5>1, <5>2 DEF Free
      <4>4. p[n] = Free
        BY <1>19, <2>1, <4>3
      <4>5. QED
        BY <3>4, <4>4 DEF Holds
    <3>5. QED
      BY <3>3, <3>4
  <2>5. QED
    BY <1>9, <1>22, <2>2, <2>3, <2>4
<1>23. {n \in Numbers : Holds(p, n)} = Standard \cup {x} \cup ({last} \ except)
  BY <1>6, <1>17, <1>20, <1>21, <1>22
<1>24. QED
  BY <1>20, <1>21, <1>23

-----------------------------------------------------------------------------
(***************************************************************************)
(* Arguments (process.windows.c) and how the C run time splits them again. *)
(***************************************************************************)

Texts == Seq(ArgChars)

Blank == " "

LEMMA Characters ==
    /\ Backslash # Quote /\ Backslash # Blank /\ Quote # Blank
    /\ Backslash \in ArgChars /\ Quote \in ArgChars /\ Blank \in ArgChars
<1>1. Backslash # Quote
  BY DEF Backslash, Quote
<1>2. Backslash # Blank
  BY DEF Backslash, Blank
<1>3. Quote # Blank
  BY DEF Quote, Blank
<1>4. QED
  BY <1>1, <1>2, <1>3 DEF ArgChars, Blank

LEMMA JoinTyped ==
    ASSUME NEW s \in Seq(ArgChars), NEW t \in Seq(ArgChars)
    PROVE  /\ s \o t \in Seq(ArgChars) /\ Len(s \o t) = Len(s) + Len(t)
           /\ Len(s) \in Nat
           /\ \A c \in ArgChars : Append(s, c) \in Seq(ArgChars) /\ Len(Append(s, c)) = Len(s) + 1
OBVIOUS

LEMMA OneCharacter ==
    ASSUME NEW S, NEW c \in S
    PROVE  <<c>> \in Seq(S) /\ Len(<<c>>) = 1 /\ <<c>>[1] = c
OBVIOUS

\* Sequences of the same length with the same members are the same.
LEMMA SameText ==
    ASSUME NEW S, NEW s \in Seq(S), NEW t \in Seq(S), Len(s) = Len(t),
           \A i \in 1..Len(s) : s[i] = t[i]
    PROVE  s = t
OBVIOUS

LEMMA TimesIs ==
    ASSUME NEW n \in Nat, NEW S, NEW c \in S
    PROVE  /\ Times(c, n) \in Seq(S) /\ Len(Times(c, n)) = n
           /\ \A j \in 1..n : Times(c, n)[j] = c
           /\ Times(c, 0) = <<>>
           /\ Times(c, n + 1) = Append(Times(c, n), c)
<1>1. \A k \in Nat : /\ Times(c, k) \in Seq(S) /\ Len(Times(c, k)) = k
                     /\ \A j \in 1..k : Times(c, k)[j] = c
  BY FunctionIsSeq DEF Times
<1>2. Times(c, 0) = <<>>
  BY <1>1
<1>3. Times(c, n + 1) = Append(Times(c, n), c)
  <2> DEFINE s == Times(c, n + 1)
             t == Append(Times(c, n), c)
  <2>1. s \in Seq(S) /\ Len(s) = n + 1 /\ \A j \in 1..(n + 1) : s[j] = c
    BY <1>1
  <2>2. t \in Seq(S) /\ Len(t) = n + 1 /\ \A j \in 1..(n + 1) : t[j] = c
    BY <1>1
  <2> HIDE DEF s, t
  <2>3. s = t
    BY <2>1, <2>2, SameText
  <2>4. QED
    BY <2>3 DEF s, t
<1>4. QED
  BY <1>1, <1>2, <1>3

\* The first n characters of a text.
First(arg, n) == [j \in 1..n |-> arg[j]]

LEMMA FirstIs ==
    ASSUME NEW S, NEW arg \in Seq(S)
    PROVE  /\ First(arg, 0) = <<>> /\ First(arg, Len(arg)) = arg
           /\ \A n \in 0..Len(arg) : First(arg, n) \in Seq(S)
           /\ \A n \in 1..Len(arg) : First(arg, n) = Append(First(arg, n - 1), arg[n])
<1> DEFINE L == Len(arg)
<1>1. L \in Nat /\ \A j \in 1..L : arg[j] \in S
  OBVIOUS
<1> HIDE DEF L
<1>2. ASSUME NEW n \in 0..L
      PROVE  /\ First(arg, n) \in Seq(S) /\ Len(First(arg, n)) = n
             /\ \A j \in 1..n : First(arg, n)[j] = arg[j]
  <2>1. n \in Nat /\ \A j \in 1..n : j \in 1..L
    BY <1>1
  <2>2. First(arg, n) \in [1..n -> S]
    BY <1>1, <2>1 DEF First
  <2>3. QED
    BY <2>1, <2>2, FunctionIsSeq DEF First
<1>3. First(arg, 0) = <<>>
  BY <1>1, <1>2
<1>4. First(arg, L) = arg
  <2>1. First(arg, L) \in Seq(S) /\ Len(First(arg, L)) = L
        /\ \A j \in 1..L : First(arg, L)[j] = arg[j]
    BY <1>1, <1>2
  <2>2. QED
    BY <2>1, SameText DEF L
<1>5. ASSUME NEW n \in 1..L PROVE First(arg, n) = Append(First(arg, n - 1), arg[n])
  <2> DEFINE s == First(arg, n)
             b == First(arg, n - 1)
             t == Append(b, arg[n])
  <2>1. n \in 0..L /\ n - 1 \in 0..L /\ arg[n] \in S
    BY <1>1
  <2>2. s \in Seq(S) /\ Len(s) = n /\ \A j \in 1..n : s[j] = arg[j]
    BY <1>2, <2>1
  <2>3. b \in Seq(S) /\ Len(b) = n - 1 /\ \A j \in 1..(n - 1) : b[j] = arg[j]
    BY <1>2, <2>1
  <2> HIDE DEF s, b
  <2>4. t \in Seq(S) /\ Len(t) = n /\ \A j \in 1..n : t[j] = arg[j]
    <3>1. t \in Seq(S) /\ Len(t) = n /\ t[n] = arg[n] /\ \A j \in 1..(n - 1) : t[j] = b[j]
      BY <2>1, <2>3
    <3>2. QED
      BY <2>3, <3>1
  <2> HIDE DEF t
  <2>5. s = t
    BY <2>2, <2>4, SameText
  <2>6. QED
    BY <2>5 DEF s, b, t
<1>6. QED
  BY <1>2, <1>3, <1>4, <1>5 DEF L

\* A text is empty exactly if it has no characters.
LEMMA EmptyText ==
    ASSUME NEW S, NEW s \in Seq(S)
    PROVE  Len(s) = 0 <=> s = <<>>
OBVIOUS

\* What splits a command line: the states it goes through.
States == [args : Seq(Texts), word : Texts, slashes : Nat, quoted : BOOLEAN, some : BOOLEAN]

\* The state between two arguments.
Between(args) ==
    [args |-> args, word |-> <<>>, slashes |-> 0, quoted |-> FALSE, some |-> FALSE]

LEMMA BetweenTyped ==
    ASSUME NEW args \in Seq(Texts)
    PROVE  Between(args) \in States
<1>1. <<>> \in Texts
  BY DEF Texts
<1>2. QED
  BY <1>1 DEF Between, States

\* Reading a text from state a.
Reading(a, text) ==
    LET at[n \in 0..Len(text)] == IF n = 0 THEN a ELSE SplitAt(at[n - 1], text[n])
    IN  at

\* The state after the text.
After(a, text) == Reading(a, text)[Len(text)]

LEMMA FlushedIs ==
    ASSUME NEW a \in States
    PROVE  /\ Flushed(a) \in States
           /\ Flushed(a) = [args |-> a.args, word |-> a.word \o Times(Backslash, a.slashes),
                            slashes |-> 0, quoted |-> a.quoted, some |-> a.some]
           /\ WordEnd(Flushed(a)) \in States
<1> DEFINE w == a.word \o Times(Backslash, a.slashes)
<1>1. w \in Texts
  <2>1. a.word \in Seq(ArgChars) /\ a.slashes \in Nat
    BY DEF States, Texts
  <2>2. Times(Backslash, a.slashes) \in Seq(ArgChars)
    BY <2>1, Characters, TimesIs
  <2>3. QED
    BY <2>1, <2>2, Characters, JoinTyped DEF Texts
<1>2. Flushed(a) = [args |-> a.args, word |-> w, slashes |-> 0, quoted |-> a.quoted, some |-> a.some]
  <2>1. Flushed(a) = [a EXCEPT !.word = w, !.slashes = 0]
    BY DEF Flushed
  <2> HIDE DEF w
  <2>2. QED
    BY <2>1 DEF States
<1> HIDE DEF w
<1>3. Flushed(a) \in States
  BY <1>1, <1>2 DEF States
<1> DEFINE f == Flushed(a)
<1>4. f \in States
  BY <1>3
<1> HIDE DEF f
<1>5. Append(f.args, f.word) \in Seq(Texts) /\ <<>> \in Texts
  BY <1>4 DEF States, Texts
<1>6. WordEnd(f) \in States
  BY <1>4, <1>5 DEF WordEnd, States
<1>7. QED
  BY <1>2, <1>3, <1>6 DEF w, f

LEMMA SplitTyped ==
    ASSUME NEW a \in States, NEW c \in ArgChars
    PROVE  SplitAt(a, c) \in States
<1>1. /\ a.args \in Seq(Texts) /\ a.word \in Texts /\ a.slashes \in Nat
      /\ a.quoted \in BOOLEAN /\ a.some \in BOOLEAN
  BY DEF States
<1>2. CASE c = Backslash
  <2> DEFINE more == a.slashes + 1
  <2>1. SplitAt(a, c) = [a EXCEPT !.slashes = more, !.some = TRUE]
    BY <1>2, Characters DEF SplitAt, Blank, States
  <2>2. more \in Nat
    BY <1>1
  <2> HIDE DEF more
  <2>3. QED
    BY <2>1, <2>2 DEF States
<1>3. CASE c = Quote
  <2> DEFINE w == a.word \o Times(Backslash, a.slashes \div 2)
  <2>1. a.slashes \div 2 \in Nat
    BY <1>1
  <2>2. w \in Texts /\ Append(w, Quote) \in Texts
    <3>1. Times(Backslash, a.slashes \div 2) \in Seq(ArgChars)
      BY <2>1, Characters, TimesIs
    <3>2. w \in Texts
      BY <1>1, <3>1, Characters, JoinTyped DEF Texts
    <3> HIDE DEF w
    <3>3. QED
      BY <3>2, Characters, JoinTyped DEF Texts
  <2> HIDE DEF w
  <2> DEFINE b == [a EXCEPT !.word = w, !.slashes = 0, !.some = TRUE]
  <2>3. b \in States
    BY <2>2 DEF States
  <2>4. SplitAt(a, c) = IF a.slashes % 2 = 1 THEN [b EXCEPT !.word = Append(@, Quote)]
                        ELSE [b EXCEPT !.quoted = ~@]
    BY <1>3, Characters DEF SplitAt, Blank, w
  <2>5. b.word = w /\ b.quoted \in BOOLEAN
    BY <2>3 DEF States
  <2> HIDE DEF b
  <2>6. QED
    BY <2>2, <2>3, <2>4, <2>5 DEF States
<1>4. CASE c = Blank /\ ~a.quoted
  <2>1. SplitAt(a, c) = WordEnd(Flushed(a))
    BY <1>4, Characters DEF SplitAt, Blank
  <2>2. QED
    BY <2>1, FlushedIs
<1>5. CASE c # Backslash /\ c # Quote /\ ~(c = Blank /\ ~a.quoted)
  <2> DEFINE f == Flushed(a)
  <2>1. SplitAt(a, c) = [f EXCEPT !.word = Append(@, c), !.some = TRUE]
    BY <1>5 DEF SplitAt, Blank
  <2>2. f \in States
    BY FlushedIs
  <2> HIDE DEF f
  <2>3. Append(f.word, c) \in Texts
    BY <2>2 DEF States, Texts
  <2>4. QED
    BY <2>1, <2>2, <2>3 DEF States
<1>6. QED
  BY <1>2, <1>3, <1>4, <1>5

LEMMA ReadingIs ==
    ASSUME NEW a \in States, NEW text \in Texts
    PROVE  LET at == Reading(a, text)
               L == Len(text)
           IN  /\ at \in [0..L -> States]
               /\ at[0] = a
               /\ \A n \in 1..L : at[n] = SplitAt(at[n - 1], text[n])
<1> DEFINE at == Reading(a, text)
           L == Len(text)
           g == [n \in 1..L |-> [s \in States |-> SplitAt(s, text[n])]]
<1>1. L \in Nat /\ \A n \in 1..L : text[n] \in ArgChars
  BY DEF Texts
<1>2. at = CHOOSE f : f = [n \in 0..L |-> IF n = 0 THEN a ELSE SplitAt(f[n - 1], text[n])]
  BY DEF Reading
<1> HIDE DEF at, L
<1>3. g \in [1..L -> [States -> States]]
  BY <1>1, SplitTyped
<1> HIDE DEF g
<1>4. PICK f : Loop(f, L, States, a, g)
  BY <1>1, <1>3, LoopExists
<1>5. \A n \in 1..L : n - 1 \in 0..L
  BY <1>1
<1>6. \A n \in 1..L : f[n] = SplitAt(f[n - 1], text[n])
  BY <1>4, <1>5 DEF g, Loop
<1>7. f = [n \in 0..L |-> IF n = 0 THEN a ELSE SplitAt(f[n - 1], text[n])]
  <2>1. \A n \in 0..L : n # 0 => n \in 1..L
    BY <1>1
  <2>2. QED
    BY <1>4, <1>6, <2>1 DEF Loop
<1>8. at = [n \in 0..L |-> IF n = 0 THEN a ELSE SplitAt(at[n - 1], text[n])]
  BY <1>2, <1>7, Zenon
<1>9. at[0] = a /\ \A n \in 1..L : at[n] = SplitAt(at[n - 1], text[n])
  BY <1>1, <1>8
<1> DEFINE T == {n \in 0..L : at[n] \in States}
<1>10. 0 \in T
  BY <1>1, <1>9
<1>11. ASSUME NEW n \in 1..L, n - 1 \in T PROVE n \in T
  <2>1. at[n] \in States
    BY <1>1, <1>9, <1>11, SplitTyped
  <2>2. QED
    BY <1>1, <2>1
<1> HIDE DEF T
<1>12. \A n \in 0..L : n \in T
  BY <1>1, <1>10, <1>11, Rounds0
<1>13. at \in [0..L -> States]
  BY <1>8, <1>12 DEF T
<1>14. QED
  BY <1>9, <1>13 DEF at, L

\* The result of reading a text is a state, and two texts are read one after the other.
LEMMA AfterTyped ==
    ASSUME NEW a \in States, NEW text \in Texts
    PROVE  After(a, text) \in States
<1>1. Len(text) \in 0..Len(text)
  BY DEF Texts
<1>2. QED
  BY <1>1, ReadingIs DEF After

LEMMA AfterNothing ==
    ASSUME NEW a \in States
    PROVE  After(a, <<>>) = a
<1>1. <<>> \in Texts /\ Len(<<>>) = 0
  BY DEF Texts
<1>2. QED
  BY <1>1, ReadingIs DEF After

LEMMA AfterJoin ==
    ASSUME NEW a \in States, NEW u \in Texts, NEW v \in Texts
    PROVE  u \o v \in Texts /\ After(a, u \o v) = After(After(a, u), v)
<1> DEFINE w == u \o v
           m == Len(u)
           k == Len(v)
           b == After(a, u)
           all == Reading(a, w)
           one == Reading(a, u)
           two == Reading(b, v)
<1>1. /\ m \in Nat /\ k \in Nat
      /\ w \in Texts /\ Len(w) = m + k
      /\ \A n \in 1..m : w[n] = u[n]
      /\ \A n \in 1..k : w[m + n] = v[n]
  BY DEF Texts
<1>2. b \in States
  BY AfterTyped
<1>3. b = one[m]
  BY DEF After
<1> HIDE DEF w, b, m, k
<1>4. all[0] = a /\ \A n \in 1..(m + k) : all[n] = SplitAt(all[n - 1], w[n])
  BY <1>1, ReadingIs
<1>5. one[0] = a /\ \A n \in 1..m : one[n] = SplitAt(one[n - 1], u[n])
  BY ReadingIs DEF m
<1>6. two[0] = b /\ \A n \in 1..k : two[n] = SplitAt(two[n - 1], v[n])
  BY <1>2, ReadingIs DEF k
<1> HIDE DEF all, one, two
<1>7. \A n \in 0..m : all[n] = one[n]
  <2> DEFINE T == {n \in 0..m : all[n] = one[n]}
  <2>1. 0 \in T
    BY <1>1, <1>4, <1>5
  <2>2. ASSUME NEW n \in 1..m, n - 1 \in T PROVE n \in T
    <3>1. n \in 1..(m + k) /\ n \in 0..m
      BY <1>1
    <3>2. QED
      BY <1>1, <1>4, <1>5, <2>2, <3>1
  <2> HIDE DEF T
  <2>3. \A n \in 0..m : n \in T
    BY <1>1, <2>1, <2>2, Rounds0
  <2>4. QED
    BY <2>3 DEF T
<1>8. \A n \in 0..k : all[m + n] = two[n]
  <2> DEFINE T == {n \in 0..k : all[m + n] = two[n]}
  <2>1. 0 \in T
    BY <1>1, <1>3, <1>6, <1>7
  <2>2. ASSUME NEW n \in 1..k, n - 1 \in T PROVE n \in T
    <3>1. m + n \in 1..(m + k) /\ n \in 0..k /\ (m + n) - 1 = m + (n - 1)
      BY <1>1
    <3>2. all[m + n] = SplitAt(all[m + (n - 1)], v[n])
      BY <1>1, <1>4, <3>1
    <3>3. QED
      BY <1>6, <2>2, <3>1, <3>2
  <2> HIDE DEF T
  <2>3. \A n \in 0..k : n \in T
    BY <1>1, <2>1, <2>2, Rounds0
  <2>4. QED
    BY <2>3 DEF T
<1>9. all[m + k] = two[k]
  BY <1>1, <1>8
<1>10. After(a, w) = all[m + k] /\ After(b, v) = two[k]
  BY <1>1 DEF After, all, two, k
<1>11. QED
  BY <1>1, <1>9, <1>10 DEF w, b

LEMMA AfterOne ==
    ASSUME NEW a \in States, NEW c \in ArgChars
    PROVE  <<c>> \in Texts /\ After(a, <<c>>) = SplitAt(a, c)
<1> DEFINE text == <<c>>
<1>1. text \in Texts /\ Len(text) = 1 /\ text[1] = c
  BY DEF Texts
<1> HIDE DEF text
<1>2. /\ Reading(a, text)[0] = a
      /\ Reading(a, text)[1] = SplitAt(Reading(a, text)[1 - 1], text[1])
  BY <1>1, ReadingIs
<1>3. QED
  BY <1>1, <1>2 DEF After, text

\* Backslashes in an argument are only counted.
LEMMA AfterSlashes ==
    ASSUME NEW a \in States, a.some, NEW n \in Nat
    PROVE  /\ Times(Backslash, n) \in Texts
           /\ After(a, Times(Backslash, n)) = [a EXCEPT !.slashes = a.slashes + n]
<1> DEFINE text == Times(Backslash, n)
           at == Reading(a, text)
<1>1. text \in Texts /\ Len(text) = n /\ \A j \in 1..n : text[j] = Backslash
  BY Characters, TimesIs DEF Texts
<1> HIDE DEF text
<1>2. at[0] = a /\ \A j \in 1..n : at[j] = SplitAt(at[j - 1], Backslash)
  BY <1>1, ReadingIs
<1> HIDE DEF at
<1> DEFINE T == {j \in 0..n : at[j] = [a EXCEPT !.slashes = a.slashes + j]}
<1>3. a.slashes \in Nat
  BY DEF States
<1>4. 0 \in T
  <2>1. a = [a EXCEPT !.slashes = a.slashes + 0]
    BY <1>3 DEF States
  <2>2. QED
    BY <1>2, <2>1
<1>5. ASSUME NEW j \in 1..n, j - 1 \in T PROVE j \in T
  <2> DEFINE b == [a EXCEPT !.slashes = a.slashes + (j - 1)]
  <2>1. at[j] = SplitAt(b, Backslash)
    BY <1>2, <1>5
  <2>2. SplitAt(b, Backslash) = [b EXCEPT !.slashes = @ + 1, !.some = TRUE]
    <3> HIDE DEF b
    <3>1. QED
      BY Characters DEF SplitAt, Blank
  <2>3. [b EXCEPT !.slashes = @ + 1, !.some = TRUE] = [a EXCEPT !.slashes = a.slashes + j]
    <3>1. (a.slashes + (j - 1)) + 1 = a.slashes + j
      BY <1>3
    <3>2. QED
      BY <3>1 DEF States
  <2>4. j \in 0..n
    OBVIOUS
  <2>5. QED
    BY <2>1, <2>2, <2>3, <2>4, Zenon
<1> HIDE DEF T
<1>6. \A j \in 0..n : j \in T
  BY <1>4, <1>5, Rounds0
<1>7. n \in T
  BY <1>6
<1>8. QED
  BY <1>1, <1>7 DEF T, After, at, text

\* The loops of argument_escape and argument_escaped_size.
Written == [text : Texts, slashes : Nat]

LEMMA EscapeTyped ==
    ASSUME NEW a \in Written, NEW c \in ArgChars
    PROVE  EscapeAt(a, c) \in Written
<1>1. a.text \in Seq(ArgChars) /\ a.slashes \in Nat
  BY DEF Written, Texts
<1>2. CASE c = Backslash
  <2>1. EscapeAt(a, c) = [a EXCEPT !.slashes = a.slashes + 1]
    BY <1>2 DEF EscapeAt
  <2>2. QED
    BY <1>1, <2>1 DEF Written
<1>3. CASE c # Backslash
  <2> DEFINE more == IF c = Quote THEN EscapedQuote(a.slashes)
                     ELSE Append(Times(Backslash, a.slashes), c)
  <2>1. EscapedQuote(a.slashes) \in Seq(ArgChars)
    <3>1. a.slashes * 2 + 1 \in Nat
      BY <1>1
    <3>2. Times(Backslash, a.slashes * 2 + 1) \in Seq(ArgChars)
      BY <3>1, Characters, TimesIs
    <3>3. <<Quote>> \in Seq(ArgChars)
      BY Characters, OneCharacter
    <3>4. QED
      BY <3>2, <3>3, Characters, JoinTyped DEF EscapedQuote
  <2>2. Append(Times(Backslash, a.slashes), c) \in Seq(ArgChars)
    <3>1. Times(Backslash, a.slashes) \in Seq(ArgChars)
      BY <1>1, Characters, TimesIs
    <3>2. QED
      BY <3>1, JoinTyped
  <2>3. more \in Seq(ArgChars)
    BY <2>1, <2>2
  <2>4. EscapeAt(a, c) = [text |-> a.text \o more, slashes |-> 0]
    BY <1>3 DEF EscapeAt
  <2> HIDE DEF more
  <2>5. a.text \o more \in Texts
    BY <1>1, <2>3, Characters, JoinTyped DEF Texts
  <2>6. QED
    BY <2>4, <2>5 DEF Written
<1>4. QED
  BY <1>2, <1>3

LEMMA EscapingIs ==
    ASSUME NEW arg \in Texts
    PROVE  LET at == Escaping(arg)
               L == Len(arg)
           IN  /\ at \in [0..L -> Written]
               /\ at[0] = [text |-> <<Quote>>, slashes |-> 0]
               /\ \A n \in 1..L : at[n] = EscapeAt(at[n - 1], arg[n])
<1> DEFINE at == Escaping(arg)
           L == Len(arg)
           a == [text |-> <<Quote>>, slashes |-> 0]
           g == [n \in 1..L |-> [s \in Written |-> EscapeAt(s, arg[n])]]
<1>1. L \in Nat /\ \A n \in 1..L : arg[n] \in ArgChars
  BY DEF Texts
<1>2. a \in Written
  BY Characters, OneCharacter DEF Written, Texts
<1>3. at = CHOOSE f : f = [n \in 0..L |-> IF n = 0 THEN a ELSE EscapeAt(f[n - 1], arg[n])]
  BY DEF Escaping
<1> HIDE DEF at, L, a
<1>4. g \in [1..L -> [Written -> Written]]
  BY <1>1, EscapeTyped
<1> HIDE DEF g
<1>5. PICK f : Loop(f, L, Written, a, g)
  BY <1>1, <1>2, <1>4, LoopExists
<1>6. \A n \in 1..L : n - 1 \in 0..L
  BY <1>1
<1>7. \A n \in 1..L : f[n] = EscapeAt(f[n - 1], arg[n])
  BY <1>5, <1>6 DEF g, Loop
<1>8. f = [n \in 0..L |-> IF n = 0 THEN a ELSE EscapeAt(f[n - 1], arg[n])]
  <2>1. \A n \in 0..L : n # 0 => n \in 1..L
    BY <1>1
  <2>2. QED
    BY <1>5, <1>7, <2>1 DEF Loop
<1>9. at = [n \in 0..L |-> IF n = 0 THEN a ELSE EscapeAt(at[n - 1], arg[n])]
  BY <1>3, <1>8, Zenon
<1>10. at[0] = a /\ \A n \in 1..L : at[n] = EscapeAt(at[n - 1], arg[n])
  BY <1>1, <1>9
<1> DEFINE T == {n \in 0..L : at[n] \in Written}
<1>11. 0 \in T
  BY <1>1, <1>2, <1>10
<1>12. ASSUME NEW n \in 1..L, n - 1 \in T PROVE n \in T
  <2>1. at[n] \in Written
    BY <1>1, <1>10, <1>12, EscapeTyped
  <2>2. QED
    BY <1>1, <2>1
<1> HIDE DEF T
<1>13. \A n \in 0..L : n \in T
  BY <1>1, <1>11, <1>12, Rounds0
<1>14. at \in [0..L -> Written]
  BY <1>9, <1>13 DEF T
<1>15. QED
  BY <1>10, <1>14 DEF at, L, a

Sizes == [size : Nat, slashes : Nat]

LEMMA SizingIs ==
    ASSUME NEW arg \in Texts
    PROVE  LET at == Sizing(arg)
               L == Len(arg)
           IN  /\ at \in [0..L -> Sizes]
               /\ at[0] = [size |-> 2, slashes |-> 0]
               /\ \A n \in 1..L : at[n] = SizeAt(at[n - 1], arg[n])
<1> DEFINE at == Sizing(arg)
           L == Len(arg)
           a == [size |-> 2, slashes |-> 0]
           g == [n \in 1..L |-> [s \in Sizes |-> SizeAt(s, arg[n])]]
<1>1. L \in Nat
  BY DEF Texts
<1>2. a \in Sizes
  BY DEF Sizes
<1>3. ASSUME NEW s \in Sizes, NEW c PROVE SizeAt(s, c) \in Sizes
  <2>1. s.size \in Nat /\ s.slashes \in Nat
    BY DEF Sizes
  <2>2. CASE c = Backslash
    <3>1. SizeAt(s, c) = [s EXCEPT !.slashes = s.slashes + 1]
      BY <2>2 DEF SizeAt
    <3>2. QED
      BY <2>1, <3>1 DEF Sizes
  <2>3. CASE c # Backslash
    <3> DEFINE more == IF c = Quote THEN s.slashes * 2 + 2 ELSE s.slashes + 1
    <3>1. s.size + more \in Nat
      BY <2>1
    <3>2. SizeAt(s, c) = [size |-> s.size + more, slashes |-> 0]
      BY <2>3 DEF SizeAt
    <3> HIDE DEF more
    <3>3. QED
      BY <3>1, <3>2 DEF Sizes
  <2>4. QED
    BY <2>2, <2>3
<1>4. at = CHOOSE f : f = [n \in 0..L |-> IF n = 0 THEN a ELSE SizeAt(f[n - 1], arg[n])]
  BY DEF Sizing
<1> HIDE DEF at, L, a
<1>5. g \in [1..L -> [Sizes -> Sizes]]
  BY <1>3
<1> HIDE DEF g
<1>6. PICK f : Loop(f, L, Sizes, a, g)
  BY <1>1, <1>2, <1>5, LoopExists
<1>7. \A n \in 1..L : n - 1 \in 0..L
  BY <1>1
<1>8. \A n \in 1..L : f[n] = SizeAt(f[n - 1], arg[n])
  BY <1>6, <1>7 DEF g, Loop
<1>9. f = [n \in 0..L |-> IF n = 0 THEN a ELSE SizeAt(f[n - 1], arg[n])]
  <2>1. \A n \in 0..L : n # 0 => n \in 1..L
    BY <1>1
  <2>2. QED
    BY <1>6, <1>8, <2>1 DEF Loop
<1>10. at = [n \in 0..L |-> IF n = 0 THEN a ELSE SizeAt(at[n - 1], arg[n])]
  BY <1>4, <1>9, Zenon
<1>11. at[0] = a /\ \A n \in 1..L : at[n] = SizeAt(at[n - 1], arg[n])
  BY <1>1, <1>10
<1> DEFINE T == {n \in 0..L : at[n] \in Sizes}
<1>12. 0 \in T
  BY <1>1, <1>2, <1>11
<1>13. ASSUME NEW n \in 1..L, n - 1 \in T PROVE n \in T
  <2>1. at[n] \in Sizes
    BY <1>1, <1>3, <1>11, <1>13
  <2>2. QED
    BY <1>1, <2>1
<1> HIDE DEF T
<1>14. \A n \in 0..L : n \in T
  BY <1>1, <1>12, <1>13, Rounds0
<1>15. at \in [0..L -> Sizes]
  BY <1>10, <1>14 DEF T
<1>16. QED
  BY <1>11, <1>15 DEF at, L, a

\* The size that argument_escaped_size counts is that of what argument_escape writes.
LEMMA EscapedSizeIs ==
    ASSUME NEW arg \in Texts
    PROVE  Escape(arg) \in Texts /\ EscapedSize(arg) = Len(Escape(arg))
<1> DEFINE L == Len(arg)
           e == Escaping(arg)
           z == Sizing(arg)
           T == {n \in 0..L : Len(e[n].text) + 1 = z[n].size /\ e[n].slashes = z[n].slashes}
<1>1. L \in Nat /\ \A n \in 1..L : arg[n] \in ArgChars
  BY DEF Texts
<1>2. /\ e \in [0..L -> Written]
      /\ e[0] = [text |-> <<Quote>>, slashes |-> 0]
      /\ \A n \in 1..L : e[n] = EscapeAt(e[n - 1], arg[n])
  BY EscapingIs
<1>3. /\ z \in [0..L -> Sizes]
      /\ z[0] = [size |-> 2, slashes |-> 0]
      /\ \A n \in 1..L : z[n] = SizeAt(z[n - 1], arg[n])
  BY SizingIs
<1> HIDE DEF e, z, L
<1>4. 0 \in T
  <2>1. Len(<<Quote>>) = 1
    BY Characters, OneCharacter
  <2>2. e[0].text = <<Quote>> /\ e[0].slashes = 0 /\ z[0].size = 2 /\ z[0].slashes = 0
    BY <1>2, <1>3
  <2>3. Len(e[0].text) + 1 = z[0].size
    BY <2>1, <2>2
  <2>4. e[0].slashes = z[0].slashes
    BY <2>2
  <2>5. 0 \in 0..L
    BY <1>1
  <2>6. QED
    BY <2>3, <2>4, <2>5, Zenon
<1>5. ASSUME NEW n \in 1..L, n - 1 \in T PROVE n \in T
  <2> DEFINE c == arg[n]
             a == e[n - 1]
             b == z[n - 1]
  <2>1. n \in 0..L /\ n - 1 \in 0..L
    BY <1>1
  <2>2. /\ a.text \in Seq(ArgChars) /\ a.slashes \in Nat /\ c \in ArgChars
        /\ Len(a.text) + 1 = b.size /\ a.slashes = b.slashes
        /\ b.size \in Nat /\ b.slashes \in Nat
    BY <1>1, <1>2, <1>3, <1>5, <2>1 DEF Written, Texts, Sizes
  <2>3. e[n] = EscapeAt(a, c) /\ z[n] = SizeAt(b, c)
    BY <1>2, <1>3
  <2>4. CASE c = Backslash
    <3>1. a \in Written /\ b \in Sizes
      BY <1>2, <1>3, <2>1
    <3> HIDE DEF a, b, c
    <3>2. /\ e[n].text = a.text /\ e[n].slashes = a.slashes + 1
          /\ z[n].size = b.size /\ z[n].slashes = b.slashes + 1
      BY <2>3, <2>4, <3>1 DEF EscapeAt, SizeAt, Written, Sizes
    <3>3. QED
      BY <2>1, <2>2, <3>2
  <2>5. CASE c = Quote
    <3> HIDE DEF a, b, c
    <3> DEFINE more == EscapedQuote(a.slashes)
    <3>1. e[n] = [text |-> a.text \o more, slashes |-> 0]
      BY <2>3, <2>5, Characters DEF EscapeAt
    <3>2. z[n] = [size |-> b.size + (b.slashes * 2 + 2), slashes |-> 0]
      BY <2>3, <2>5, Characters DEF SizeAt
    <3>3. more \in Seq(ArgChars) /\ Len(more) = a.slashes * 2 + 2
      <4>1. a.slashes * 2 + 1 \in Nat
        BY <2>2
      <4>2. /\ Times(Backslash, a.slashes * 2 + 1) \in Seq(ArgChars)
            /\ Len(Times(Backslash, a.slashes * 2 + 1)) = a.slashes * 2 + 1
        BY <4>1, Characters, TimesIs
      <4>3. <<Quote>> \in Seq(ArgChars) /\ Len(<<Quote>>) = 1
        BY Characters, OneCharacter
      <4> DEFINE t == Times(Backslash, a.slashes * 2 + 1)
                 q == <<Quote>>
      <4>4. more = t \o q
        BY DEF EscapedQuote
      <4> HIDE DEF t, q, more
      <4>5. t \o q \in Seq(ArgChars) /\ Len(t \o q) = (a.slashes * 2 + 1) + 1
        BY <4>2, <4>3, JoinTyped DEF t, q
      <4>6. QED
        BY <2>2, <4>4, <4>5
    <3> HIDE DEF more
    <3>4. Len(a.text \o more) = Len(a.text) + (a.slashes * 2 + 2)
      BY <2>2, <3>3, JoinTyped
    <3>5. e[n].text = a.text \o more /\ e[n].slashes = 0
          /\ z[n].size = b.size + (b.slashes * 2 + 2) /\ z[n].slashes = 0
      BY <3>1, <3>2
    <3>6. Len(a.text) \in Nat
      BY <2>2
    <3> DEFINE l == Len(a.text)
               s == a.slashes
    <3>7. Len(e[n].text) = l + (s * 2 + 2) /\ z[n].size = b.size + (s * 2 + 2)
          /\ l + 1 = b.size /\ l \in Nat /\ s \in Nat
      BY <2>2, <3>4, <3>5, <3>6
    <3> HIDE DEF l, s
    <3>8. Len(e[n].text) + 1 = z[n].size
      BY <3>7
    <3>9. QED
      BY <2>1, <3>5, <3>8
  <2>6. CASE c # Backslash /\ c # Quote
    <3> HIDE DEF a, b, c
    <3> DEFINE more == Append(Times(Backslash, a.slashes), c)
    <3>1. e[n] = [text |-> a.text \o more, slashes |-> 0]
      BY <2>3, <2>6 DEF EscapeAt
    <3>2. z[n] = [size |-> b.size + (b.slashes + 1), slashes |-> 0]
      BY <2>3, <2>6 DEF SizeAt
    <3>3. more \in Seq(ArgChars) /\ Len(more) = a.slashes + 1
      <4>1. /\ Times(Backslash, a.slashes) \in Seq(ArgChars)
            /\ Len(Times(Backslash, a.slashes)) = a.slashes
        BY <2>2, Characters, TimesIs
      <4>2. QED
        BY <2>2, <4>1, JoinTyped
    <3> HIDE DEF more
    <3>4. Len(a.text \o more) = Len(a.text) + (a.slashes + 1)
      BY <2>2, <3>3, Characters, JoinTyped
    <3>5. e[n].text = a.text \o more /\ e[n].slashes = 0
          /\ z[n].size = b.size + (b.slashes + 1) /\ z[n].slashes = 0
      BY <3>1, <3>2
    <3>6. Len(a.text) \in Nat
      BY <2>2
    <3> DEFINE l == Len(a.text)
               s == a.slashes
    <3>7. Len(e[n].text) = l + (s + 1) /\ z[n].size = b.size + (s + 1)
          /\ l + 1 = b.size /\ l \in Nat /\ s \in Nat
      BY <2>2, <3>4, <3>5, <3>6
    <3> HIDE DEF l, s
    <3>8. Len(e[n].text) + 1 = z[n].size
      BY <3>7
    <3>9. QED
      BY <2>1, <3>5, <3>8
  <2>7. QED
    BY <2>4, <2>5, <2>6
<1> HIDE DEF T
<1>6. \A n \in 0..L : n \in T
  BY <1>1, <1>4, <1>5, Rounds0
<1> DEFINE a == e[L]
           b == z[L]
<1>7. /\ a.text \in Seq(ArgChars) /\ a.slashes \in Nat
      /\ Len(a.text) + 1 = b.size /\ a.slashes = b.slashes
  <2>1. L \in 0..L
    BY <1>1
  <2>2. a \in Written
    BY <1>2, <2>1
  <2>3. QED
    BY <1>6, <2>1, <2>2 DEF T, Written, Texts
<1>8. CASE ShouldEscape(arg)
  <2>1. Escape(arg) = (a.text \o EscapedEnd(a.slashes)) \o <<Quote>>
        /\ EscapedSize(arg) = b.size + b.slashes * 2
    BY <1>8 DEF Escape, EscapedSize, e, z, L
  <2> HIDE DEF a, b
  <2>2. a.slashes * 2 \in Nat
    BY <1>7
  <2>3. EscapedEnd(a.slashes) \in Seq(ArgChars) /\ Len(EscapedEnd(a.slashes)) = a.slashes * 2
    BY <2>2, Characters, TimesIs DEF EscapedEnd
  <2> DEFINE u == a.text \o EscapedEnd(a.slashes)
  <2>4. u \in Seq(ArgChars) /\ Len(u) = Len(a.text) + a.slashes * 2
    BY <1>7, <2>3, Characters, JoinTyped
  <2>5. <<Quote>> \in Seq(ArgChars) /\ Len(<<Quote>>) = 1
    BY Characters, OneCharacter
  <2> HIDE DEF u
  <2>6. u \o <<Quote>> \in Seq(ArgChars) /\ Len(u \o <<Quote>>) = Len(u) + 1
    BY <2>4, <2>5, Characters, JoinTyped
  <2>7. Len(a.text) \in Nat
    BY <1>7
  <2>8. Escape(arg) = u \o <<Quote>>
    BY <2>1 DEF u
  <2> DEFINE l == Len(a.text)
             s == a.slashes
  <2>9. /\ Escape(arg) \in Seq(ArgChars) /\ Len(Escape(arg)) = (l + s * 2) + 1
        /\ EscapedSize(arg) = b.size + s * 2
        /\ l + 1 = b.size /\ l \in Nat /\ s \in Nat
    BY <1>7, <2>1, <2>4, <2>6, <2>7, <2>8
  <2> HIDE DEF l, s
  <2>10. QED
    BY <2>9 DEF Texts
<1>9. CASE ~ShouldEscape(arg)
  BY <1>9 DEF Escape, EscapedSize
<1>10. QED
  BY <1>8, <1>9

\* Texts that are joined.
LEMMA TextSums ==
    ASSUME NEW s \in Seq(ArgChars), NEW t \in Seq(ArgChars), NEW c \in ArgChars
    PROVE  /\ s \o <<>> = s /\ <<>> \o s = s
           /\ s \o <<c>> = Append(s, c)
           /\ s \o Append(t, c) = Append(s \o t, c)
<1>1. s \o <<>> = s /\ <<>> \o s = s
  OBVIOUS
<1>2. s \o <<c>> = Append(s, c)
  OBVIOUS
<1>3. s \o Append(t, c) = Append(s \o t, c)
  OBVIOUS
<1>4. QED
  BY <1>1, <1>2, <1>3

State(args, word, slashes, quoted, some) ==
    [args |-> args, word |-> word, slashes |-> slashes, quoted |-> quoted, some |-> some]

\* How a quotation mark and a backslash are read.
LEMMA SplitIs ==
    ASSUME NEW args \in Seq(Texts), NEW w \in Texts, NEW q \in BOOLEAN, NEW some \in BOOLEAN,
           NEW k \in Nat
    PROVE  /\ State(args, w, k, q, some) \in States
           /\ SplitAt(State(args, w, k * 2 + 1, q, some), Quote)
                = State(args, Append(w \o Times(Backslash, k), Quote), 0, q, TRUE)
           /\ SplitAt(State(args, w, k * 2, q, some), Quote)
                = State(args, w \o Times(Backslash, k), 0, ~q, TRUE)
           /\ SplitAt(State(args, w, k, q, some), Backslash) = State(args, w, k + 1, q, TRUE)
<1>1. State(args, w, k, q, some) \in States
  BY DEF State, States
<1>2. /\ (k * 2 + 1) \div 2 = k /\ (k * 2 + 1) % 2 = 1
      /\ (k * 2) \div 2 = k /\ (k * 2) % 2 = 0
  OBVIOUS
<1>3. SplitAt(State(args, w, k * 2 + 1, q, some), Quote)
        = State(args, Append(w \o Times(Backslash, k), Quote), 0, q, TRUE)
  <2> DEFINE a == State(args, w, k * 2 + 1, q, some)
             word == w \o Times(Backslash, k)
             b == [a EXCEPT !.word = a.word \o Times(Backslash, a.slashes \div 2), !.slashes = 0,
                            !.some = TRUE]
  <2>1. SplitAt(a, Quote) = IF a.slashes % 2 = 1 THEN [b EXCEPT !.word = Append(@, Quote)]
                            ELSE [b EXCEPT !.quoted = ~@]
    <3> HIDE DEF a
    <3>1. QED
      BY Characters DEF SplitAt, Blank
  <2>2. a.slashes = k * 2 + 1 /\ a.word = w
    BY DEF State
  <2>3. b = State(args, word, 0, q, TRUE)
    <3>1. b = [a EXCEPT !.word = word, !.slashes = 0, !.some = TRUE]
      BY <1>2, <2>2
    <3> HIDE DEF b, word
    <3>2. QED
      BY <3>1 DEF State
  <2>4. SplitAt(a, Quote) = [b EXCEPT !.word = Append(@, Quote)]
    BY <1>2, <2>1, <2>2
  <2> HIDE DEF a, b, word
  <2>5. SplitAt(a, Quote) = State(args, Append(word, Quote), 0, q, TRUE)
    BY <2>3, <2>4 DEF State
  <2>6. QED
    BY <2>5 DEF a, word
<1>4. SplitAt(State(args, w, k * 2, q, some), Quote)
        = State(args, w \o Times(Backslash, k), 0, ~q, TRUE)
  <2> DEFINE a == State(args, w, k * 2, q, some)
             word == w \o Times(Backslash, k)
             b == [a EXCEPT !.word = a.word \o Times(Backslash, a.slashes \div 2), !.slashes = 0,
                            !.some = TRUE]
  <2>1. SplitAt(a, Quote) = IF a.slashes % 2 = 1 THEN [b EXCEPT !.word = Append(@, Quote)]
                            ELSE [b EXCEPT !.quoted = ~@]
    <3> HIDE DEF a
    <3>1. QED
      BY Characters DEF SplitAt, Blank
  <2>2. a.slashes = k * 2 /\ a.word = w
    BY DEF State
  <2>3. b = State(args, word, 0, q, TRUE)
    <3>1. b = [a EXCEPT !.word = word, !.slashes = 0, !.some = TRUE]
      BY <1>2, <2>2
    <3> HIDE DEF b, word
    <3>2. QED
      BY <3>1 DEF State
  <2>4. SplitAt(a, Quote) = [b EXCEPT !.quoted = ~@]
    BY <1>2, <2>1, <2>2
  <2> HIDE DEF a, b, word
  <2>5. SplitAt(a, Quote) = State(args, word, 0, ~q, TRUE)
    BY <2>3, <2>4 DEF State
  <2>6. QED
    BY <2>5 DEF a, word
<1>5. SplitAt(State(args, w, k, q, some), Backslash) = State(args, w, k + 1, q, TRUE)
  <2> DEFINE a == State(args, w, k, q, some)
  <2>1. SplitAt(a, Backslash) = [a EXCEPT !.slashes = @ + 1, !.some = TRUE]
    <3> HIDE DEF a
    <3>1. QED
      BY Characters DEF SplitAt, Blank
  <2>2. QED
    BY <2>1 DEF State
<1>6. QED
  BY <1>1, <1>3, <1>4, <1>5

\* How any other character is read that is not white space between arguments.
LEMMA SplitOther ==
    ASSUME NEW args \in Seq(Texts), NEW w \in Texts, NEW q \in BOOLEAN, NEW some \in BOOLEAN,
           NEW k \in Nat, NEW c \in ArgChars, c # Backslash, c # Quote, q \/ c # Blank
    PROVE  SplitAt(State(args, w, k, q, some), c)
             = State(args, Append(w \o Times(Backslash, k), c), 0, q, TRUE)
<1> DEFINE a == State(args, w, k, q, some)
           word == w \o Times(Backslash, k)
           f == Flushed(a)
<1>0. a \in States
  BY SplitIs
<1>1. f = State(args, word, 0, q, some)
  BY <1>0, FlushedIs DEF State
<1>2. ~(c = Blank /\ ~a.quoted)
  BY DEF State
<1>3. SplitAt(a, c) = [f EXCEPT !.word = Append(@, c), !.some = TRUE]
  <2> HIDE DEF a
  <2>1. QED
    BY <1>2 DEF SplitAt, Blank
<1> HIDE DEF a, word, f
<1>4. SplitAt(a, c) = State(args, Append(word, c), 0, q, TRUE)
  BY <1>1, <1>3 DEF State
<1>5. QED
  BY <1>4 DEF a, word

LEMMA StateSlashes ==
    ASSUME NEW args, NEW w, NEW q, NEW some, NEW k, NEW a, a = State(args, w, 0, q, some)
    PROVE  [a EXCEPT !.slashes = k] = State(args, w, k, q, some)
BY DEF State

LEMMA SlashesRead ==
    ASSUME NEW args \in Seq(Texts), NEW w \in Texts, NEW q \in BOOLEAN, NEW some \in BOOLEAN,
           NEW k \in Nat
    PROVE  some => /\ Times(Backslash, k) \in Texts
                   /\ After(State(args, w, 0, q, some), Times(Backslash, k))
                        = State(args, w, k, q, some)
<1> DEFINE in == State(args, w, 0, q, some)
           next == State(args, w, k, q, some)
<1>1. in \in States /\ in.some = some /\ in.slashes = 0
  BY DEF State, States
<1>2. [in EXCEPT !.slashes = k] = next
  BY StateSlashes
<1> HIDE DEF in, next
<1>3. 0 + k = k
  OBVIOUS
<1>4. some => /\ Times(Backslash, k) \in Texts
              /\ After(in, Times(Backslash, k)) = [in EXCEPT !.slashes = in.slashes + k]
  BY <1>1, AfterSlashes
<1>5. QED
  BY <1>1, <1>2, <1>3, <1>4 DEF in, next

\* What is read of an escaped argument up to a character is the argument up to that
\* character, but for the backslashes that are not written yet.
LEMMA EscapingRead ==
    ASSUME NEW args \in Seq(Texts), NEW arg \in Texts
    PROVE  \A n \in 0..Len(arg) :
             \E w \in Texts :
               LET e == Escaping(arg)[n]
               IN  /\ e \in Written
                   /\ After(Between(args), e.text) = State(args, w, 0, TRUE, TRUE)
                   /\ w \o Times(Backslash, e.slashes) = First(arg, n)
<1> DEFINE L == Len(arg)
           at == Escaping(arg)
           start == Between(args)
           Read(n, w) == /\ at[n] \in Written
                         /\ After(start, at[n].text) = State(args, w, 0, TRUE, TRUE)
                         /\ w \o Times(Backslash, at[n].slashes) = First(arg, n)
           T == {n \in 0..L : \E w \in Texts : Read(n, w)}
<1>1. L \in Nat /\ \A n \in 1..L : arg[n] \in ArgChars
  BY DEF Texts
<1>2. /\ at \in [0..L -> Written]
      /\ at[0] = [text |-> <<Quote>>, slashes |-> 0]
      /\ \A n \in 1..L : at[n] = EscapeAt(at[n - 1], arg[n])
  BY EscapingIs
<1>3. start \in States /\ start = State(args, <<>>, 0, FALSE, FALSE)
  BY BetweenTyped DEF Between, State
<1>4. /\ First(arg, 0) = <<>>
      /\ \A n \in 1..L : First(arg, n) = Append(First(arg, n - 1), arg[n])
  BY FirstIs DEF Texts
<1>5. <<>> \in Texts
  BY DEF Texts
<1> HIDE DEF at, L, start
<1>6. 0 \in T
  <2>1. After(start, <<Quote>>) = SplitAt(start, Quote)
    BY <1>3, Characters, AfterOne
  <2>2. Times(Backslash, 0) = <<>>
    BY Characters, TimesIs
  <2>3. SplitAt(State(args, <<>>, 0 * 2, FALSE, FALSE), Quote)
          = State(args, <<>> \o Times(Backslash, 0), 0, ~FALSE, TRUE)
    <3>1. 0 \in Nat /\ FALSE \in BOOLEAN /\ args \in Seq(Texts) /\ <<>> \in Texts
      BY <1>5
    <3>2. QED
      BY <3>1, SplitIs, Zenon
  <2>4. <<>> \o <<>> = <<>> /\ 0 * 2 = 0 /\ ~FALSE = TRUE
    OBVIOUS
  <2>5. SplitAt(start, Quote) = State(args, <<>>, 0, TRUE, TRUE)
    BY <1>3, <2>2, <2>3, <2>4
  <2>6. at[0] \in Written /\ at[0].text = <<Quote>> /\ at[0].slashes = 0
    BY <1>1, <1>2
  <2>7. Read(0, <<>>)
    BY <1>4, <2>1, <2>2, <2>4, <2>5, <2>6
  <2>8. 0 \in 0..L
    BY <1>1
  <2> HIDE DEF Read
  <2>9. QED
    BY <1>5, <2>7, <2>8
<1>7. ASSUME NEW n \in 1..L, n - 1 \in T PROVE n \in T
  <2> DEFINE e == at[n - 1]
             c == arg[n]
  <2>1. PICK w \in Texts : Read(n - 1, w)
    BY <1>7
  <2>2. e.text \in Texts /\ e.slashes \in Nat /\ c \in ArgChars
    BY <1>1, <2>1 DEF Written
  <2>3. at[n] = EscapeAt(e, c) /\ at[n] \in Written /\ n \in 0..L
    BY <1>1, <1>2
  <2>4. /\ After(start, e.text) = State(args, w, 0, TRUE, TRUE)
        /\ w \o Times(Backslash, e.slashes) = First(arg, n - 1)
        /\ First(arg, n) = Append(First(arg, n - 1), c)
    BY <1>4, <2>1
  <2> DEFINE s == e.slashes
             B == Times(Backslash, s)
             in == State(args, w, 0, TRUE, TRUE)
             v == Append(w \o B, c)
  <2>5. B \in Texts /\ w \o B \in Texts /\ v \in Texts
    <3>1. B \in Texts
      BY <2>2, Characters, TimesIs DEF Texts
    <3> HIDE DEF B
    <3>2. w \o B \in Texts
      BY <3>1, JoinTyped DEF Texts
    <3>3. QED
      BY <2>2, <3>1, <3>2, JoinTyped DEF Texts
  <2>6. in \in States /\ in.some /\ in.slashes = 0
    BY SplitIs DEF State
  <2>7. \A k \in Nat : /\ Times(Backslash, k) \in Texts
                       /\ After(in, Times(Backslash, k)) = State(args, w, k, TRUE, TRUE)
    BY SlashesRead
  <2> HIDE DEF Read
  <2>8. CASE c = Backslash
    <3>1. at[n] = [e EXCEPT !.slashes = e.slashes + 1]
      BY <2>3, <2>8 DEF EscapeAt
    <3>2. at[n].text = e.text /\ at[n].slashes = s + 1
      BY <2>1, <3>1 DEF Read, Written
    <3>3. Times(Backslash, s + 1) = Append(B, Backslash)
      BY <2>2, Characters, TimesIs
    <3>4. w \o Append(B, Backslash) = Append(w \o B, Backslash)
      BY <2>5, Characters, TextSums DEF Texts
    <3>5. w \o Times(Backslash, at[n].slashes) = First(arg, n)
      BY <2>4, <2>8, <3>2, <3>3, <3>4
    <3>6. Read(n, w)
      BY <2>3, <2>4, <3>2, <3>5 DEF Read
    <3>7. QED
      BY <2>3, <3>6
  <2>9. CASE c # Backslash
    <3> DEFINE more == IF c = Quote THEN EscapedQuote(s) ELSE Append(B, c)
    <3>1. at[n] = [text |-> e.text \o more, slashes |-> 0]
      BY <2>3, <2>9 DEF EscapeAt
    <3>2. more \in Texts /\ After(in, more) = State(args, v, 0, TRUE, TRUE)
      <4>1. CASE c = Quote
        <5> DEFINE t == Times(Backslash, s * 2 + 1)
                   b == State(args, w, s * 2 + 1, TRUE, TRUE)
        <5>1. more = t \o <<Quote>> /\ s * 2 + 1 \in Nat
          BY <2>2, <4>1 DEF EscapedQuote
        <5>2. t \in Texts /\ After(in, t) = b
          BY <2>7, <5>1
        <5>3. <<Quote>> \in Texts
          BY Characters, AfterOne, <2>6
        <5>4. t \o <<Quote>> \in Texts /\ After(in, t \o <<Quote>>) = After(After(in, t), <<Quote>>)
          BY <2>6, <5>2, <5>3, AfterJoin
        <5>5. b \in States
          BY <2>6, <5>2, AfterTyped
        <5>6. After(b, <<Quote>>) = SplitAt(b, Quote)
          BY <5>5, Characters, AfterOne
        <5>7. SplitAt(b, Quote) = State(args, Append(w \o B, Quote), 0, TRUE, TRUE)
          BY <2>2, SplitIs
        <5>8. QED
          BY <4>1, <5>1, <5>2, <5>4, <5>6, <5>7
      <4>2. CASE c # Quote
        <5> DEFINE b == State(args, w, s, TRUE, TRUE)
        <5>1. more = B \o <<c>>
          BY <2>2, <2>5, <4>2, TextSums DEF Texts
        <5>2. After(in, B) = b
          BY <2>2, <2>7
        <5>3. <<c>> \in Texts
          BY <2>2, AfterOne, <2>6
        <5>4. B \o <<c>> \in Texts /\ After(in, B \o <<c>>) = After(After(in, B), <<c>>)
          BY <2>5, <2>6, <5>3, AfterJoin
        <5>5. b \in States
          BY <2>5, <2>6, <5>2, AfterTyped
        <5>6. After(b, <<c>>) = SplitAt(b, c)
          BY <2>2, <5>5, AfterOne
        <5>7. SplitAt(b, c) = State(args, v, 0, TRUE, TRUE)
          BY <2>2, <2>9, <4>2, SplitOther
        <5>8. QED
          BY <5>1, <5>2, <5>4, <5>6, <5>7
      <4>3. QED
        BY <4>1, <4>2
    <3> HIDE DEF more, in, v
    <3>3. After(start, e.text \o more) = After(After(start, e.text), more)
      BY <1>3, <2>2, <3>2, AfterJoin
    <3>4. After(start, e.text \o more) = State(args, v, 0, TRUE, TRUE)
      BY <2>4, <3>2, <3>3 DEF in
    <3>5. at[n].text = e.text \o more /\ at[n].slashes = 0
      BY <3>1
    <3>6. v \o Times(Backslash, 0) = v
      <4>1. Times(Backslash, 0) = <<>>
        BY Characters, TimesIs
      <4>2. v \o <<>> = v
        BY <2>5, <2>2, TextSums DEF Texts
      <4>3. QED
        BY <4>1, <4>2
    <3>7. v = First(arg, n)
      BY <2>4 DEF v
    <3>8. Read(n, v)
      BY <2>3, <3>4, <3>5, <3>6, <3>7 DEF Read
    <3>9. QED
      BY <2>3, <2>5, <3>8
  <2>10. QED
    BY <2>8, <2>9
<1> HIDE DEF T
<1>8. \A n \in 0..L : n \in T
  BY <1>1, <1>6, <1>7, Rounds0
<1>9. QED
  BY <1>8 DEF T, Read, at, L, start

\* The end of an argument that is not within quotation marks.
LEMMA WordEndIs ==
    ASSUME NEW args \in Seq(Texts), NEW w \in Texts, NEW k \in Nat, NEW some \in BOOLEAN
    PROVE  WordEnd(Flushed(State(args, w, k, FALSE, some)))
             = IF some THEN Between(Append(args, w \o Times(Backslash, k)))
               ELSE State(args, w \o Times(Backslash, k), 0, FALSE, FALSE)
<1> DEFINE v == w \o Times(Backslash, k)
           q == FALSE
           a == State(args, w, k, q, some)
<1>1. q \in BOOLEAN
  OBVIOUS
<1> HIDE DEF q
<1>2. a \in States /\ a.args = args /\ a.word = w /\ a.slashes = k /\ a.quoted = q /\ a.some = some
  BY <1>1, SplitIs DEF State
<1> HIDE DEF a
<1> DEFINE f == Flushed(a)
<1>3. f = [args |-> args, word |-> v, slashes |-> 0, quoted |-> q, some |-> some]
  BY <1>2, FlushedIs
<1> HIDE DEF f
<1>4. CASE some
  <2>1. WordEnd(f) = [f EXCEPT !.args = Append(@, f.word), !.word = <<>>, !.some = FALSE]
    BY <1>3, <1>4 DEF WordEnd
  <2>2. f.args = args /\ f.word = v
    BY <1>3
  <2> DEFINE more == Append(args, v)
  <2>3. WordEnd(f) = [f EXCEPT !.args = more, !.word = <<>>, !.some = FALSE]
    BY <2>1, <2>2
  <2> HIDE DEF more
  <2>4. WordEnd(f) = [args |-> more, word |-> <<>>, slashes |-> 0, quoted |-> q, some |-> FALSE]
    BY <1>3, <2>3
  <2>5. QED
    BY <1>4, <2>4 DEF Between, more, f, a, q
<1>5. CASE ~some
  <2>1. WordEnd(f) = f
    BY <1>3, <1>5 DEF WordEnd
  <2>2. f = State(args, v, 0, q, FALSE)
    BY <1>3, <1>5 DEF State
  <2>3. QED
    BY <1>5, <2>1, <2>2 DEF f, a, q
<1>6. QED
  BY <1>4, <1>5

\* An argument with white space or quotation marks is read in full.
LEMMA QuotedRead ==
    ASSUME NEW args \in Seq(Texts), NEW arg \in Texts, ShouldEscape(arg)
    PROVE  After(Between(args), Escape(arg)) = State(args, arg, 0, FALSE, TRUE)
<1> DEFINE L == Len(arg)
           e == Escaping(arg)[L]
           start == Between(args)
<1>1. L \in 0..L /\ First(arg, L) = arg
  BY FirstIs DEF Texts
<1>2. PICK w \in Texts : /\ e \in Written
                         /\ After(start, e.text) = State(args, w, 0, TRUE, TRUE)
                         /\ w \o Times(Backslash, e.slashes) = First(arg, L)
  BY <1>1, EscapingRead
<1>3. Escape(arg) = (e.text \o EscapedEnd(e.slashes)) \o <<Quote>>
  BY DEF Escape
<1>4. start \in States
  BY BetweenTyped
<1> HIDE DEF e, start, L
<1> DEFINE s == e.slashes
           t == e.text
           v == EscapedEnd(s)
           b == State(args, w, 0, TRUE, TRUE)
           c == State(args, w, s * 2, TRUE, TRUE)
           end == <<Quote>>
<1>5. t \in Texts /\ s \in Nat /\ s * 2 \in Nat
  BY <1>2 DEF Written
<1>6. v \in Texts /\ After(b, v) = c
  BY <1>5, SlashesRead DEF EscapedEnd
<1>7. SplitAt(c, Quote) = State(args, w \o Times(Backslash, s), 0, ~TRUE, TRUE)
  <2>1. TRUE \in BOOLEAN
    OBVIOUS
  <2>2. QED
    BY <1>5, <2>1, SplitIs, Zenon
<1>8. w \o Times(Backslash, s) = arg /\ After(start, t) = b
  BY <1>1, <1>2
<1>9. end \in Texts
  BY Characters, OneCharacter DEF Texts
<1>10. \A a \in States : After(a, end) = SplitAt(a, Quote)
  BY Characters, AfterOne
<1>11. Escape(arg) = (t \o v) \o end
  BY <1>3
<1> HIDE DEF b, c, t, v, s, end
<1>12. t \o v \in Texts /\ After(start, t \o v) = c
  BY <1>4, <1>5, <1>6, <1>8, AfterJoin
<1>13. c \in States
  BY <1>4, <1>12, AfterTyped
<1> DEFINE u == t \o v
<1> HIDE DEF u
<1>14. After(start, u \o end) = After(After(start, u), end)
  BY <1>4, <1>9, <1>12, AfterJoin DEF u
<1>15. After(start, Escape(arg)) = SplitAt(c, Quote)
  BY <1>10, <1>11, <1>12, <1>13, <1>14 DEF u
<1>16. State(args, arg, 0, ~TRUE, TRUE) = State(args, arg, 0, FALSE, TRUE)
  OBVIOUS
<1>17. After(start, Escape(arg)) = State(args, arg, 0, ~TRUE, TRUE)
  BY <1>7, <1>8, <1>15
<1>18. QED
  BY <1>16, <1>17 DEF start

\* Any other argument is written as it is.
LEMMA PlainRead ==
    ASSUME NEW args \in Seq(Texts), NEW arg \in Texts, ~ShouldEscape(arg)
    PROVE  \E w \in Texts, k \in Nat, some \in BOOLEAN :
             /\ After(Between(args), arg) = State(args, w, k, FALSE, some)
             /\ w \o Times(Backslash, k) = arg
             /\ some <=> arg # <<>>
<1> DEFINE L == Len(arg)
           start == Between(args)
           at == Reading(start, arg)
           Read(n, w, k, some) == /\ at[n] = State(args, w, k, FALSE, some)
                                  /\ w \o Times(Backslash, k) = First(arg, n)
                                  /\ some <=> n > 0
           T == {n \in 0..L : \E w \in Texts, k \in Nat, some \in BOOLEAN : Read(n, w, k, some)}
<1>1. L \in Nat /\ \A n \in 1..L : arg[n] \in ArgChars /\ arg[n] # Blank /\ arg[n] # Quote
  <2>1. L \in Nat /\ \A n \in 1..L : arg[n] \in ArgChars
    BY DEF Texts
  <2>2. \A n \in 1..L : arg[n] # Blank /\ arg[n] # Quote
    BY DEF ShouldEscape, Blank
  <2>3. QED
    BY <2>1, <2>2
<1>2. start \in States /\ start = State(args, <<>>, 0, FALSE, FALSE)
  BY BetweenTyped DEF Between, State
<1>3. at[0] = start /\ \A n \in 1..L : at[n] = SplitAt(at[n - 1], arg[n])
  BY <1>2, ReadingIs
<1>4. /\ First(arg, 0) = <<>> /\ First(arg, L) = arg
      /\ \A n \in 1..L : First(arg, n) = Append(First(arg, n - 1), arg[n])
  BY FirstIs DEF Texts
<1>5. <<>> \in Texts /\ <<>> \o Times(Backslash, 0) = <<>>
  <2>1. Times(Backslash, 0) = <<>>
    BY Characters, TimesIs
  <2>2. <<>> \o <<>> = <<>>
    OBVIOUS
  <2>3. QED
    BY <2>1, <2>2 DEF Texts
<1>6. After(start, arg) = at[L]
  BY DEF After
<1> HIDE DEF L, start, at
<1>7. 0 \in T
  <2>1. Read(0, <<>>, 0, FALSE)
    <3>1. at[0] = State(args, <<>>, 0, FALSE, FALSE)
      BY <1>2, <1>3
    <3>2. <<>> \o Times(Backslash, 0) = First(arg, 0)
      BY <1>4, <1>5
    <3>3. FALSE <=> 0 > 0
      OBVIOUS
    <3>4. QED
      BY <3>1, <3>2, <3>3, Zenon
  <2>2. 0 \in 0..L /\ 0 \in Nat
    BY <1>1
  <2>3. FALSE \in BOOLEAN
    OBVIOUS
  <2> HIDE DEF Read
  <2>4. QED
    BY <1>5, <2>1, <2>2, <2>3, Zenon
<1>8. ASSUME NEW n \in 1..L, n - 1 \in T PROVE n \in T
  <2> DEFINE c == arg[n]
  <2>1. PICK w \in Texts, k \in Nat, some \in BOOLEAN : Read(n - 1, w, k, some)
    BY <1>8
  <2>2. c \in ArgChars /\ c # Blank /\ c # Quote
    BY <1>1
  <2>3. n \in 0..L /\ n > 0 /\ k + 1 \in Nat /\ 0 \in Nat
    BY <1>1
  <2>4. TRUE \in BOOLEAN
    OBVIOUS
  <2> DEFINE b == State(args, w, k, FALSE, some)
             B == Times(Backslash, k)
  <2>5. FALSE \in BOOLEAN
    OBVIOUS
  <2>6. at[n] = SplitAt(b, c)
    BY <1>3, <2>1
  <2>7. First(arg, n) = Append(w \o B, c)
    BY <1>4, <2>1
  <2>8. B \in Seq(ArgChars) /\ w \in Seq(ArgChars) /\ Times(Backslash, k + 1) = Append(B, Backslash)
    BY Characters, TimesIs DEF Texts
  <2>9. SplitAt(b, Backslash) = State(args, w, k + 1, FALSE, TRUE)
    BY <2>5, SplitIs
  <2> HIDE DEF c
  <2>10. c # Backslash => SplitAt(b, c) = State(args, Append(w \o B, c), 0, FALSE, TRUE)
    BY <2>2, SplitOther
  <2> HIDE DEF Read, b, B
  <2>11. CASE c = Backslash
    <3>1. at[n] = State(args, w, k + 1, FALSE, TRUE)
      BY <2>6, <2>9, <2>11
    <3>2. w \o Append(B, Backslash) = Append(w \o B, Backslash)
      BY <2>8, Characters, TextSums
    <3>3. w \o Times(Backslash, k + 1) = First(arg, n)
      BY <2>7, <2>8, <2>11, <3>2
    <3>4. TRUE <=> n > 0
      BY <2>3
    <3>5. Read(n, w, k + 1, TRUE)
      BY <3>1, <3>3, <3>4, Zenon DEF Read
    <3>6. QED
      BY <2>3, <2>4, <3>5, Zenon
  <2>12. CASE c # Backslash
    <3> DEFINE v == Append(w \o B, c)
    <3>1. at[n] = State(args, v, 0, FALSE, TRUE)
      BY <2>6, <2>10, <2>12
    <3>2. v \in Texts
      <4>1. w \o B \in Seq(ArgChars)
        BY <2>8, JoinTyped
      <4>2. QED
        BY <2>2, <4>1, JoinTyped DEF Texts
    <3>3. v = First(arg, n)
      BY <2>7
    <3> HIDE DEF v
    <3>4. v \o Times(Backslash, 0) = First(arg, n)
      <4>1. Times(Backslash, 0) = <<>>
        BY Characters, TimesIs
      <4>2. v \o <<>> = v
        BY <3>2, Characters, TextSums DEF Texts
      <4>3. QED
        BY <3>3, <4>1, <4>2
    <3>5. TRUE <=> n > 0
      BY <2>3
    <3>6. Read(n, v, 0, TRUE)
      BY <3>1, <3>4, <3>5, Zenon DEF Read
    <3>7. QED
      BY <2>3, <2>4, <3>2, <3>6, Zenon
  <2>13. QED
    BY <2>11, <2>12
<1> HIDE DEF T
<1>9. \A n \in 0..L : n \in T
  BY <1>1, <1>7, <1>8, Rounds0
<1>10. L \in T
  BY <1>1, <1>9
<1>11. PICK w \in Texts, k \in Nat, some \in BOOLEAN : Read(L, w, k, some)
  <2> HIDE DEF Read
  <2>1. QED
    BY <1>10, Zenon DEF T
<1>12. L > 0 <=> arg # <<>>
  <2>1. L = 0 <=> arg = <<>>
    BY EmptyText DEF L, Texts
  <2>2. QED
    BY <1>1, <2>1
<1>13. /\ After(start, arg) = State(args, w, k, FALSE, some)
       /\ w \o Times(Backslash, k) = arg
       /\ some <=> arg # <<>>
  BY <1>4, <1>6, <1>11, <1>12, Zenon
<1>14. QED
  BY <1>13, Zenon DEF start

\* The arguments before an argument, and that argument unless it is empty.
With(args, arg) == IF arg = <<>> THEN args ELSE Append(args, arg)

\* What is read of an escaped argument is the argument.
LEMMA ArgumentRead ==
    ASSUME NEW args \in Seq(Texts), NEW arg \in Texts
    PROVE  LET a == After(Between(args), Escape(arg))
           IN  /\ a \in States
               /\ ~a.quoted
               /\ WordEnd(Flushed(a)) = Between(With(args, arg))
<1> DEFINE a == After(Between(args), Escape(arg))
<1>1. a \in States
  BY BetweenTyped, EscapedSizeIs, AfterTyped
<1>2. CASE ShouldEscape(arg)
  <2>1. a = State(args, arg, 0, FALSE, TRUE)
    BY <1>2, QuotedRead
  <2>2. arg # <<>>
    <3>1. arg = <<>> => 1..Len(arg) = {}
      OBVIOUS
    <3>2. QED
      BY <1>2, <3>1 DEF ShouldEscape
  <2>3. arg = arg \o Times(Backslash, 0)
    <3>1. Times(Backslash, 0) = <<>>
      BY Characters, TimesIs
    <3>2. arg \o <<>> = arg
      BY Characters, TextSums DEF Texts
    <3>3. QED
      BY <3>1, <3>2
  <2> HIDE DEF a
  <2>4. 0 \in Nat /\ TRUE \in BOOLEAN
    OBVIOUS
  <2>5. WordEnd(Flushed(State(args, arg, 0, FALSE, TRUE))) = Between(Append(args, arg))
    BY <2>3, <2>4, WordEndIs
  <2>6. ~a.quoted
    BY <2>1 DEF State
  <2>7. WordEnd(Flushed(a)) = Between(With(args, arg))
    BY <2>1, <2>2, <2>5 DEF With
  <2>8. QED
    BY <1>1, <2>6, <2>7 DEF a
<1>3. CASE ~ShouldEscape(arg)
  <2>1. Escape(arg) = arg
    BY <1>3 DEF Escape
  <2>2. PICK w \in Texts, k \in Nat, some \in BOOLEAN :
          /\ After(Between(args), arg) = State(args, w, k, FALSE, some)
          /\ w \o Times(Backslash, k) = arg
          /\ some <=> arg # <<>>
    BY <1>3, PlainRead, Zenon
  <2>8. a = State(args, w, k, FALSE, some) /\ arg = w \o Times(Backslash, k)
    BY <2>1, <2>2, Zenon
  <2> HIDE DEF a
  <2> DEFINE v == w \o Times(Backslash, k)
  <2>3. WordEnd(Flushed(State(args, w, k, FALSE, some)))
          = IF some THEN Between(Append(args, v)) ELSE State(args, v, 0, FALSE, FALSE)
    BY WordEndIs
  <2> HIDE DEF v
  <2>9. v = arg
    BY <2>8 DEF v
  <2>4. State(args, <<>>, 0, FALSE, FALSE) = Between(args)
    BY DEF State, Between
  <2>5. WordEnd(Flushed(a)) = Between(With(args, arg))
    <3>1. WordEnd(Flushed(a)) = IF some THEN Between(Append(args, arg))
                                ELSE State(args, arg, 0, FALSE, FALSE)
      BY <2>3, <2>8, <2>9, Zenon
    <3> HIDE DEF a
    <3>2. QED
      BY <2>2, <2>4, <3>1 DEF With
  <2>6. ~a.quoted
    BY <2>8 DEF State
  <2>7. QED
    BY <1>1, <2>5, <2>6 DEF a
<1>4. QED
  BY <1>2, <1>3

LEMMA NonEmptyIs ==
    ASSUME NEW argv \in Seq(Texts)
    PROVE  LET at == NonEmpty(argv)
               L == Len(argv)
           IN  /\ at \in [0..L -> Seq(Texts)]
               /\ at[0] = <<>>
               /\ \A n \in 1..L : at[n] = With(at[n - 1], argv[n])
<1> DEFINE at == NonEmpty(argv)
           L == Len(argv)
           start == <<>>
           g == [n \in 1..L |-> [args \in Seq(Texts) |-> With(args, argv[n])]]
<1>1. L \in Nat /\ \A n \in 1..L : argv[n] \in Texts
  OBVIOUS
<1>2. start \in Seq(Texts)
  OBVIOUS
<1>3. \A args \in Seq(Texts), arg \in Texts : With(args, arg) \in Seq(Texts)
  BY DEF With
<1>4. at = CHOOSE f : f = [n \in 0..L |-> IF n = 0 THEN start ELSE With(f[n - 1], argv[n])]
  BY DEF NonEmpty, With
<1> HIDE DEF at, L, start
<1>5. g \in [1..L -> [Seq(Texts) -> Seq(Texts)]]
  BY <1>1, <1>3
<1> HIDE DEF g
<1>6. PICK f : Loop(f, L, Seq(Texts), start, g)
  BY <1>1, <1>2, <1>5, LoopExists
<1>7. \A n \in 1..L : n - 1 \in 0..L
  BY <1>1
<1>8. \A n \in 1..L : f[n] = With(f[n - 1], argv[n])
  BY <1>6, <1>7 DEF g, Loop
<1>9. f = [n \in 0..L |-> IF n = 0 THEN start ELSE With(f[n - 1], argv[n])]
  <2>1. \A n \in 0..L : n # 0 => n \in 1..L
    BY <1>1
  <2>2. QED
    BY <1>6, <1>8, <2>1 DEF Loop
<1>10. at = [n \in 0..L |-> IF n = 0 THEN start ELSE With(at[n - 1], argv[n])]
  BY <1>4, <1>9, Zenon
<1>11. at[0] = start /\ \A n \in 1..L : at[n] = With(at[n - 1], argv[n])
  BY <1>1, <1>10
<1> DEFINE T == {n \in 0..L : at[n] \in Seq(Texts)}
<1>12. 0 \in T
  BY <1>1, <1>2, <1>11
<1>13. ASSUME NEW n \in 1..L, n - 1 \in T PROVE n \in T
  <2>1. at[n] \in Seq(Texts)
    BY <1>1, <1>3, <1>11, <1>13
  <2>2. QED
    BY <1>1, <2>1
<1> HIDE DEF T
<1>14. \A n \in 0..L : n \in T
  BY <1>1, <1>12, <1>13, Rounds0
<1>15. at \in [0..L -> Seq(Texts)]
  BY <1>10, <1>14 DEF T
<1>16. QED
  BY <1>11, <1>15 DEF at, L, start

\* What argv_join has written and the memory it has counted for it.
Lines == [line : Texts, size : Nat]

\* The space after an argument that is not the last.
Space(argv, n) == IF n < Len(argv) THEN <<Blank>> ELSE <<>>

LEMMA SpaceTyped ==
    ASSUME NEW argv, NEW n
    PROVE  Space(argv, n) \in Texts
<1>1. <<Blank>> \in Texts
  BY Characters, OneCharacter DEF Texts
<1>2. <<>> \in Texts
  BY DEF Texts
<1>3. QED
  BY <1>1, <1>2 DEF Space

LEMMA JoinAtIs ==
    ASSUME NEW argv \in Seq(Texts), NEW n \in 1..Len(argv), NEW a \in Lines
    PROVE  /\ JoinAt(a, argv, n) \in Lines
           /\ JoinAt(a, argv, n).line = (a.line \o Escape(argv[n])) \o Space(argv, n)
           /\ JoinAt(a, argv, n).size = a.size + Len(Escape(argv[n])) + Len(Space(argv, n))
<1> DEFINE e == Escape(argv[n])
           s == Space(argv, n)
           j == JoinAt(a, argv, n)
<1>1. argv[n] \in Texts
  OBVIOUS
<1>2. e \in Texts /\ EscapedSize(argv[n]) = Len(e)
  BY <1>1, EscapedSizeIs
<1>3. s \in Texts
  BY SpaceTyped
<1>4. j = [line |-> (a.line \o e) \o s, size |-> a.size + EscapedSize(argv[n]) + Len(s)]
  BY DEF JoinAt, Space, Blank
<1>5. a.line \in Seq(ArgChars) /\ a.size \in Nat
  BY DEF Lines, Texts
<1> HIDE DEF e, s, j
<1>6. j.line = (a.line \o e) \o s /\ j.size = a.size + Len(e) + Len(s)
  BY <1>2, <1>4
<1>7. a.line \o e \in Seq(ArgChars) /\ Len(e) \in Nat
  BY <1>2, <1>5, JoinTyped DEF Texts
<1>8. (a.line \o e) \o s \in Texts /\ Len(s) \in Nat
  BY <1>3, <1>7, JoinTyped DEF Texts
<1>9. j \in Lines
  <2>1. a.size + Len(e) + Len(s) \in Nat
    BY <1>5, <1>7, <1>8
  <2>2. QED
    BY <1>2, <1>4, <1>8, <2>1 DEF Lines
<1>10. QED
  BY <1>6, <1>9 DEF e, s, j

LEMMA JoiningIs ==
    ASSUME NEW argv \in Seq(Texts)
    PROVE  LET at == Joining(argv)
               L == Len(argv)
           IN  /\ at \in [0..L -> Lines]
               /\ at[0] = [line |-> <<>>, size |-> 0]
               /\ \A n \in 1..L : at[n] = JoinAt(at[n - 1], argv, n)
<1> DEFINE at == Joining(argv)
           L == Len(argv)
           start == [line |-> <<>>, size |-> 0]
           g == [n \in 1..L |-> [a \in Lines |-> JoinAt(a, argv, n)]]
<1>1. L \in Nat
  OBVIOUS
<1>2. start \in Lines
  BY DEF Lines, Texts
<1>3. \A n \in 1..L, a \in Lines : JoinAt(a, argv, n) \in Lines
  BY JoinAtIs
<1>4. at = CHOOSE f : f = [n \in 0..L |-> IF n = 0 THEN start ELSE JoinAt(f[n - 1], argv, n)]
  BY DEF Joining
<1> HIDE DEF at, L, start
<1>5. g \in [1..L -> [Lines -> Lines]]
  BY <1>3
<1> HIDE DEF g
<1>6. PICK f : Loop(f, L, Lines, start, g)
  BY <1>1, <1>2, <1>5, LoopExists
<1>7. \A n \in 1..L : n - 1 \in 0..L
  BY <1>1
<1>8. \A n \in 1..L : f[n] = JoinAt(f[n - 1], argv, n)
  BY <1>6, <1>7 DEF g, Loop
<1>9. f = [n \in 0..L |-> IF n = 0 THEN start ELSE JoinAt(f[n - 1], argv, n)]
  <2>1. \A n \in 0..L : n # 0 => n \in 1..L
    BY <1>1
  <2>2. QED
    BY <1>6, <1>8, <2>1 DEF Loop
<1>10. at = [n \in 0..L |-> IF n = 0 THEN start ELSE JoinAt(at[n - 1], argv, n)]
  BY <1>4, <1>9, Zenon
<1>11. at[0] = start /\ \A n \in 1..L : at[n] = JoinAt(at[n - 1], argv, n)
  BY <1>1, <1>10
<1> DEFINE T == {n \in 0..L : at[n] \in Lines}
<1>12. 0 \in T
  BY <1>1, <1>2, <1>11
<1>13. ASSUME NEW n \in 1..L, n - 1 \in T PROVE n \in T
  <2>1. at[n] \in Lines
    BY <1>1, <1>3, <1>11, <1>13
  <2>2. QED
    BY <1>1, <2>1
<1> HIDE DEF T
<1>14. \A n \in 0..L : n \in T
  BY <1>1, <1>12, <1>13, Rounds0
<1>15. at \in [0..L -> Lines]
  BY <1>10, <1>14 DEF T
<1>16. QED
  BY <1>11, <1>15 DEF at, L, start

\* Between two arguments there is nothing to end.
LEMMA BetweenEnds ==
    ASSUME NEW args \in Seq(Texts)
    PROVE  WordEnd(Flushed(Between(args))) = Between(args)
<1> DEFINE b == Between(args)
<1>1. b \in States /\ b.word = <<>> /\ b.slashes = 0 /\ ~b.some /\ b.args = args
      /\ b.quoted = FALSE /\ b.some = FALSE
  BY BetweenTyped DEF Between
<1> HIDE DEF b
<1>2. Times(Backslash, 0) = <<>>
  BY Characters, TimesIs
<1>3. <<>> \o <<>> = <<>>
  OBVIOUS
<1>4. Flushed(b) = [args |-> args, word |-> <<>>, slashes |-> 0, quoted |-> b.quoted, some |-> b.some]
  BY <1>1, <1>2, <1>3, FlushedIs
<1>5. WordEnd(Flushed(b)) = Flushed(b)
  BY <1>1, <1>4 DEF WordEnd
<1>6. QED
  BY <1>1, <1>4, <1>5 DEF Between, b

\* For arguments of any number and length: the child gets all that are not empty,
\* and the command line has the size that argv_join allocates.
LEMMA Arriving ==
    ASSUME NEW argv \in Seq(Texts)
    PROVE  ArgumentsArrive(argv)
<1> DEFINE L == Len(argv)
           J == Joining(argv)
           N == NonEmpty(argv)
           start == Between(<<>>)
           End(n) == WordEnd(Flushed(After(start, J[n].line)))
           T == {n \in 0..L : /\ Len(J[n].line) = J[n].size
                              /\ End(n) = Between(N[n])
                              /\ n < L => After(start, J[n].line) = Between(N[n])}
<1>1. L \in Nat /\ \A n \in 1..L : argv[n] \in Texts
  OBVIOUS
<1>2. /\ J \in [0..L -> Lines]
      /\ J[0] = [line |-> <<>>, size |-> 0]
      /\ \A n \in 1..L : J[n] = JoinAt(J[n - 1], argv, n)
  BY JoiningIs
<1>3. /\ N \in [0..L -> Seq(Texts)]
      /\ N[0] = <<>>
      /\ \A n \in 1..L : N[n] = With(N[n - 1], argv[n])
  BY NonEmptyIs
<1>4. <<>> \in Seq(Texts) /\ start \in States
  <2>1. <<>> \in Seq(Texts)
    OBVIOUS
  <2>2. QED
    BY <2>1, BetweenTyped, Zenon
<1>5. start = Between(<<>>)
  OBVIOUS
<1> HIDE DEF J, N, start
<1>6. 0 \in T
  <2>1. J[0].line = <<>> /\ J[0].size = 0 /\ Len(<<>>) = 0
    BY <1>2
  <2>2. After(start, <<>>) = start
    BY <1>4, AfterNothing
  <2>3. WordEnd(Flushed(start)) = start
    BY <1>4, <1>5, BetweenEnds
  <2>4. Len(J[0].line) = J[0].size
    BY <2>1
  <2>5. End(0) = Between(N[0])
    BY <1>3, <1>5, <2>1, <2>2, <2>3
  <2>6. After(start, J[0].line) = Between(N[0])
    BY <1>3, <1>5, <2>1, <2>2
  <2>7. 0 \in 0..L
    BY <1>1
  <2> HIDE DEF End
  <2>8. QED
    BY <2>4, <2>5, <2>6, <2>7
<1>7. ASSUME NEW n \in 1..L, n - 1 \in T PROVE n \in T
  <2> DEFINE a == J[n - 1]
             args == N[n - 1]
             arg == argv[n]
             e == Escape(arg)
             s == Space(argv, n)
             u == a.line \o e
  <2>1. n - 1 \in 0..L /\ n \in 0..L /\ n - 1 < L /\ arg \in Texts
    BY <1>1
  <2>2. a \in Lines /\ args \in Seq(Texts)
    BY <1>2, <1>3, <2>1
  <2>3. a.line \in Texts /\ a.size \in Nat
    BY <2>2 DEF Lines
  <2>4. Len(a.line) = a.size /\ After(start, a.line) = Between(args)
    BY <1>7, <2>1
  <2>5. e \in Texts
    BY <2>1, EscapedSizeIs
  <2>6. s \in Texts
    BY SpaceTyped
  <2>7. J[n] = JoinAt(a, argv, n) /\ N[n] = With(args, arg)
    BY <1>2, <1>3
  <2>8. J[n].line = u \o s /\ J[n].size = a.size + Len(e) + Len(s)
    BY <2>2, <2>7, JoinAtIs
  <2>9. /\ After(Between(args), e) \in States
        /\ ~After(Between(args), e).quoted
        /\ WordEnd(Flushed(After(Between(args), e))) = Between(N[n])
    BY <2>1, <2>2, <2>7, ArgumentRead
  <2>10. N[n] \in Seq(Texts)
    BY <1>3, <2>1
  <2>11. s = IF n < L THEN <<Blank>> ELSE <<>>
    BY DEF Space
  <2> HIDE DEF a, args, arg, e, s
  <2>12. u \in Texts /\ After(start, u) = After(After(start, a.line), e)
    BY <1>4, <2>3, <2>5, AfterJoin
  <2>13. u \in Seq(ArgChars) /\ Len(u) = Len(a.line) + Len(e) /\ Len(e) \in Nat
    BY <2>3, <2>5, JoinTyped DEF Texts
  <2> HIDE DEF u
  <2> DEFINE b == After(start, u)
  <2>14. b \in States /\ ~b.quoted /\ WordEnd(Flushed(b)) = Between(N[n])
    BY <2>4, <2>9, <2>12
  <2>15. After(start, u \o s) = After(b, s)
    BY <1>4, <2>6, <2>12, AfterJoin
  <2> HIDE DEF b
  <2>16. Len(J[n].line) = J[n].size
    <3>1. Len(u \o s) = Len(u) + Len(s) /\ Len(s) \in Nat
      BY <2>6, <2>13, JoinTyped DEF Texts
    <3>2. QED
      BY <2>3, <2>4, <2>8, <2>13, <3>1
  <2>17. CASE n < L
    <3>1. s = <<Blank>>
      BY <2>11, <2>17
    <3>2. After(b, s) = SplitAt(b, Blank)
      BY <2>14, <3>1, Characters, AfterOne
    <3>3. SplitAt(b, Blank) = WordEnd(Flushed(b))
      BY <2>14, Characters DEF SplitAt, Blank
    <3>4. After(start, J[n].line) = Between(N[n])
      BY <2>8, <2>14, <2>15, <3>2, <3>3
    <3>5. End(n) = Between(N[n])
      BY <2>10, <3>4, BetweenEnds
    <3> HIDE DEF End
    <3>6. QED
      BY <2>1, <2>16, <3>4, <3>5
  <2>18. CASE ~(n < L)
    <3>1. s = <<>>
      BY <2>11, <2>18
    <3>2. After(b, s) = b
      BY <2>14, <3>1, AfterNothing
    <3>3. End(n) = Between(N[n])
      BY <2>8, <2>14, <2>15, <3>2
    <3> HIDE DEF End
    <3>4. QED
      BY <2>1, <2>16, <2>18, <3>3
  <2>19. QED
    BY <2>17, <2>18
<1> HIDE DEF T
<1>8. \A n \in 0..L : n \in T
  BY <1>1, <1>6, <1>7, Rounds0
<1>9. Len(J[L].line) = J[L].size /\ End(L) = Between(N[L])
  BY <1>1, <1>8 DEF T
<1>10. ArgvJoin(argv) = J[L].line /\ JoinedSize(argv) = J[L].size
  BY DEF ArgvJoin, JoinedSize, J
<1>11. \A line : CommandLineArgs(line) = WordEnd(Flushed(After(start, line))).args
  BY DEF CommandLineArgs, Splitting, After, Reading, Between, start
<1>12. Between(N[L]).args = N[L]
  BY DEF Between
<1>13. QED
  BY <1>9, <1>10, <1>11, <1>12 DEF ArgumentsArrive, N

-----------------------------------------------------------------------------
(***************************************************************************)
(* Paths (util.c).                                                         *)
(***************************************************************************)

PathTexts == Seq(PathChars)

WalkStates ==
    [i : Nat, out : PathTexts, appended : BOOLEAN, state : {"segment", "slash", "root"},
     skip : Nat, ready : BOOLEAN, dotSlash : BOOLEAN, fromSlash : BOOLEAN, dots : Nat, chars : Nat]

\* `appended` says that what is written begins with a separator, and no two of them
\* follow each other.
Unrepeated(s) ==
    /\ s.appended = (Len(s.out) > 0 /\ s.out[1] = "/")
    /\ \A j \in 2..Len(s.out) : ~(s.out[j - 1] = "/" /\ s.out[j] = "/")

\* t is s after more has been written.
Continues(s, t) ==
    /\ t \in WalkStates
    /\ Unrepeated(t)
    /\ t.i = s.i /\ t.state = s.state /\ t.skip = s.skip /\ t.ready = s.ready
    /\ t.dotSlash = s.dotSlash /\ t.fromSlash = s.fromSlash
    /\ t.dots = s.dots /\ t.chars = s.chars

LEMMA InFront ==
    ASSUME NEW text \in PathTexts, NEW c \in PathChars
    PROVE  /\ <<c>> \o text \in PathTexts
           /\ Len(<<c>> \o text) = Len(text) + 1
           /\ (<<c>> \o text)[1] = c
           /\ \A j \in 2..Len(text) + 1 : (<<c>> \o text)[j] = text[j - 1]
BY DEF PathTexts

LEMMA Appending ==
    ASSUME NEW s \in WalkStates, Unrepeated(s), NEW c \in PathChars
    PROVE  Continues(s, Append1(s, c))
<1>1. CASE c = "/" /\ s.appended
  <2>1. Append1(s, c) = s
    BY <1>1 DEF Append1, IsSeparator
  <2>2. QED
    BY <2>1 DEF Continues
<1>2. CASE ~(c = "/" /\ s.appended)
  <2> DEFINE new == <<c>> \o s.out
             t == [s EXCEPT !.out = new, !.appended = (c = "/")]
  <2>1. Append1(s, c) = t
    BY <1>2 DEF Append1, IsSeparator
  <2>2. s.out \in PathTexts /\ Len(s.out) \in Nat
    BY DEF WalkStates, PathTexts
  <2>3. /\ new \in PathTexts /\ Len(new) = Len(s.out) + 1 /\ new[1] = c
        /\ \A j \in 2..Len(s.out) + 1 : new[j] = s.out[j - 1]
    BY <2>2, InFront
  <2> HIDE DEF new
  <2>4. /\ t.out = new /\ t.appended = (c = "/")
        /\ t.i = s.i /\ t.state = s.state /\ t.skip = s.skip /\ t.ready = s.ready
        /\ t.dotSlash = s.dotSlash /\ t.fromSlash = s.fromSlash
        /\ t.dots = s.dots /\ t.chars = s.chars
    BY DEF WalkStates
  <2>5. t \in WalkStates
    BY <2>3 DEF WalkStates
  <2> HIDE DEF t
  <2>6. \A j \in 2..Len(new) : ~(new[j - 1] = "/" /\ new[j] = "/")
    <3>1. SUFFICES ASSUME NEW j \in 2..Len(new), new[j - 1] = "/", new[j] = "/" PROVE FALSE
      OBVIOUS
    <3>2. CASE j = 2
      <4>1. s.out[1] = "/" /\ c = "/" /\ Len(s.out) > 0
        BY <2>2, <2>3, <3>1, <3>2
      <4>2. QED
        BY <1>2, <4>1 DEF Unrepeated
    <3>3. CASE j # 2
      <4>1. j - 1 \in 2..Len(s.out) /\ s.out[(j - 1) - 1] = "/" /\ s.out[j - 1] = "/"
        BY <2>2, <2>3, <3>1, <3>3
      <4>2. QED
        BY <4>1 DEF Unrepeated
    <3>4. QED
      BY <3>2, <3>3
  <2>7. t.appended = (Len(t.out) > 0 /\ t.out[1] = "/")
    BY <2>2, <2>3, <2>4
  <2>8. QED
    BY <2>1, <2>4, <2>5, <2>6, <2>7 DEF Continues, Unrepeated
<1>3. QED
  BY <1>1, <1>2

LEMMA ContinuesOn ==
    ASSUME NEW s, NEW t, NEW u, Continues(s, t), Continues(t, u)
    PROVE  Continues(s, u)
BY DEF Continues

LEMMA JoinedIs ==
    ASSUME NEW s \in WalkStates, Unrepeated(s)
    PROVE  Continues(s, Joined(s))
<1>1. "/" \in PathChars
  BY DEF PathChars
<1>2. Joined(s) = s \/ Joined(s) = Append1(s, "/")
  BY DEF Joined
<1>3. Continues(s, s)
  BY DEF Continues
<1>4. QED
  BY <1>1, <1>2, <1>3, Appending

\* The ".." that are left over are written one by one.
LEMMA DotDotsIs ==
    ASSUME NEW s \in WalkStates, Unrepeated(s)
    PROVE  Continues(s, DotDots(s))
<1> DEFINE N == 3 * s.skip
           S == {t \in WalkStates : Continues(s, t)}
           char(n) == IF n % 3 = 1 THEN "/" ELSE "."
           more(t, n) == Append1(t, char(n))
           g == [n \in 1..N |-> [t \in S |-> more(t, n)]]
           add == CHOOSE f : f = [n \in 0..N |-> IF n = 0 THEN s ELSE more(f[n - 1], n)]
<1>1. N \in Nat
  BY DEF WalkStates
<1>2. s \in S
  BY DEF Continues
<1>3. ASSUME NEW t \in S, NEW n PROVE more(t, n) \in S
  <2> DEFINE c == char(n)
  <2>1. c \in PathChars
    BY DEF PathChars
  <2> HIDE DEF c
  <2>2. t \in WalkStates /\ Unrepeated(t) /\ Continues(s, t)
    BY DEF Continues
  <2>3. Continues(t, Append1(t, c))
    BY <2>1, <2>2, Appending
  <2>4. Continues(s, Append1(t, c))
    BY <2>2, <2>3, ContinuesOn
  <2>5. Append1(t, c) \in S
    BY <2>4 DEF Continues
  <2>6. QED
    BY <2>5 DEF c
<1>4. DotDots(s) = add[N]
  BY DEF DotDots
<1> HIDE DEF char
<1>5. g \in [1..N -> [S -> S]]
  BY <1>3
<1> HIDE DEF N, S
<1>6. PICK f : Loop(f, N, S, s, g)
  BY <1>1, <1>2, <1>5, LoopExists
<1>7. \A n \in 1..N : f[n] = more(f[n - 1], n)
  <2>1. \A n \in 1..N : f[n] = g[n][f[n - 1]] /\ f[n - 1] \in S
    BY <1>1, <1>6 DEF Loop
  <2>2. QED
    BY <2>1
<1> HIDE DEF g
<1>8. f = [n \in 0..N |-> IF n = 0 THEN s ELSE more(f[n - 1], n)]
  <2>1. \A n \in 0..N : n # 0 => n \in 1..N
    BY <1>1
  <2>2. f \in [0..N -> S] /\ f[0] = s
    BY <1>6 DEF Loop
  <2> HIDE DEF more
  <2>3. QED
    BY <1>7, <2>1, <2>2
<1> HIDE DEF more
<1>9. add = [n \in 0..N |-> IF n = 0 THEN s ELSE more(add[n - 1], n)]
  BY <1>8, Zenon
<1> HIDE DEF add
<1>10. add[0] = s /\ \A n \in 1..N : add[n] = more(add[n - 1], n)
  BY <1>1, <1>9
<1> DEFINE T == {n \in 0..N : add[n] \in S}
<1>11. 0 \in T
  BY <1>1, <1>2, <1>10
<1>12. ASSUME NEW n \in 1..N, n - 1 \in T PROVE n \in T
  <2>1. add[n] \in S
    BY <1>3, <1>10, <1>12
  <2>2. QED
    BY <1>1, <2>1
<1> HIDE DEF T
<1>13. N \in T
  BY <1>1, <1>11, <1>12, Rounds0
<1>14. QED
  BY <1>4, <1>13 DEF T, S

\* The place in a path of n characters: behind a separator that ended a segment
\* there is something, and a segment of which two characters at most are known
\* is within the path.
Within(s, n) ==
    /\ s.i <= n
    /\ s.state = "slash" => s.i < n
    /\ s.state = "segment" /\ ~s.ready => s.chars <= 2 /\ s.i + s.chars <= n

Walkable(n) == {s \in WalkStates : Unrepeated(s) /\ Within(s, n)}

\* More than the rounds that are left: a segment is gone back to when its kind is
\* known, and to its last character when that has been found.
RoundsLeft(s) ==
    IF s.state = "root" THEN 5 * s.i
    ELSE IF s.state = "slash" THEN 5 * s.i + 4
    ELSE IF s.ready THEN 5 * s.i
    ELSE 5 * s.i + 3 + 4 * s.chars

LEMMA RoundsLeftTyped ==
    ASSUME NEW n, NEW s \in Walkable(n)
    PROVE  RoundsLeft(s) \in Nat
<1>1. s.i \in Nat /\ s.chars \in Nat
  BY DEF Walkable, WalkStates
<1>2. 5 * s.i \in Nat /\ 5 * s.i + 4 \in Nat /\ 5 * s.i + 3 + 4 * s.chars \in Nat
  BY <1>1
<1>3. QED
  BY <1>2 DEF RoundsLeft

LEMMA FirstSegmentIs ==
    ASSUME NEW s \in WalkStates, Unrepeated(s), NEW absolute \in BOOLEAN
    PROVE  LET t == FirstSegment(s, absolute)
           IN  t \in WalkStates /\ Unrepeated(t) /\ t.i = s.i /\ t.state = "root"
<1> DEFINE n == DotCount(s)
           u == IF n <= 1 /\ ~absolute /\ (s.appended \/ s.out = <<>>)
                THEN Append1(Joined(s), ".") ELSE s
           less == IF s.skip > 0 THEN s.skip - 1 ELSE 0
           more == IF n = 2 THEN u.skip + 1 ELSE u.skip
<1>1. Continues(s, s)
  BY DEF Continues
<1>2. Continues(s, Append1(Joined(s), "."))
  <2>1. Continues(s, Joined(s))
    BY JoinedIs
  <2>2. Joined(s) \in WalkStates /\ Unrepeated(Joined(s)) /\ "." \in PathChars
    BY <2>1 DEF Continues, PathChars
  <2>3. QED
    BY <2>1, <2>2, Appending, ContinuesOn
<1>3. Continues(s, u)
  BY <1>1, <1>2
<1>4. FirstSegment(s, absolute) = [s EXCEPT !.state = "root", !.skip = less]
      \/ FirstSegment(s, absolute) = [u EXCEPT !.state = "root", !.skip = more]
  BY DEF FirstSegment
<1> HIDE DEF u, n
<1>5. u \in WalkStates /\ Unrepeated(u) /\ u.i = s.i
  BY <1>3 DEF Continues
<1>6. ASSUME NEW x \in WalkStates, Unrepeated(x), NEW k \in Nat
      PROVE  LET t == [x EXCEPT !.state = "root", !.skip = k]
             IN  t \in WalkStates /\ Unrepeated(t) /\ t.i = x.i /\ t.state = "root"
  BY <1>6 DEF WalkStates, Unrepeated
<1>7. less \in Nat /\ more \in Nat
  BY <1>5 DEF WalkStates
<1> HIDE DEF less, more
<1>8. CASE FirstSegment(s, absolute) = [s EXCEPT !.state = "root", !.skip = less]
  <2>1. LET t == [s EXCEPT !.state = "root", !.skip = less]
        IN  t \in WalkStates /\ Unrepeated(t) /\ t.i = s.i /\ t.state = "root"
    BY <1>6, <1>7
  <2>2. QED
    BY <1>8, <2>1
<1>9. CASE FirstSegment(s, absolute) = [u EXCEPT !.state = "root", !.skip = more]
  <2>1. LET t == [u EXCEPT !.state = "root", !.skip = more]
        IN  t \in WalkStates /\ Unrepeated(t) /\ t.i = u.i /\ t.state = "root"
    BY <1>5, <1>6, <1>7
  <2>2. QED
    BY <1>5, <1>9, <2>1
<1>10. QED
  BY <1>4, <1>8, <1>9

LEMMA AtRootIs ==
    ASSUME NEW s \in WalkStates, Unrepeated(s), NEW absolute \in BOOLEAN
    PROVE  LET t == AtRoot(s, absolute)
           IN  t \in WalkStates /\ Unrepeated(t) /\ t.i = s.i /\ t.state = "root"
<1> DEFINE t == IF s.state = "segment" THEN FirstSegment(s, absolute) ELSE s
           u == IF absolute \/ t.state = "slash"
                THEN [Append1(t, "/") EXCEPT !.state = "root"]
                ELSE DotDots(t)
<1>1. t \in WalkStates /\ Unrepeated(t) /\ t.i = s.i /\ t.state \in {"slash", "root"}
  BY FirstSegmentIs DEF WalkStates
<1>2. AtRoot(s, absolute) = [u EXCEPT !.skip = 0]
  BY DEF AtRoot
<1> HIDE DEF t
<1>3. u \in WalkStates /\ Unrepeated(u) /\ u.i = s.i /\ u.state = "root"
  <2>1. CASE absolute \/ t.state = "slash"
    <3> DEFINE x == Append1(t, "/")
    <3>1. Continues(t, x)
      BY <1>1, Appending DEF PathChars
    <3>2. u = [x EXCEPT !.state = "root"]
      BY <2>1
    <3> HIDE DEF x, u
    <3>3. QED
      BY <1>1, <3>1, <3>2 DEF Continues, WalkStates, Unrepeated
  <2>2. CASE ~(absolute \/ t.state = "slash")
    <3>1. u = DotDots(t)
      BY <2>2
    <3>2. Continues(t, DotDots(t))
      BY <1>1, DotDotsIs
    <3> HIDE DEF u
    <3>3. QED
      BY <1>1, <2>2, <3>1, <3>2 DEF Continues
  <2>3. QED
    BY <2>1, <2>2
<1> HIDE DEF u
<1>4. QED
  BY <1>2, <1>3 DEF WalkStates, Unrepeated

LEMMA ArrivedIs ==
    ASSUME NEW n \in Nat, NEW s \in Walkable(n), NEW root, NEW absolute \in BOOLEAN
    PROVE  LET t == Arrived(s, root, absolute)
           IN  t \in Walkable(n) /\ t.i = s.i /\ RoundsLeft(t) <= RoundsLeft(s)
<1>1. s \in WalkStates /\ Unrepeated(s) /\ Within(s, n)
  BY DEF Walkable
<1>2. s.i \in Nat /\ s.chars \in Nat /\ RoundsLeft(s) \in Int /\ RoundsLeft(s) >= 5 * s.i
  <2>1. s.i \in Nat /\ s.chars \in Nat
    BY <1>1 DEF WalkStates
  <2>2. QED
    BY <2>1 DEF RoundsLeft
<1>3. CASE s.i = root
  <2> DEFINE t == AtRoot(s, absolute)
  <2>1. t \in WalkStates /\ Unrepeated(t) /\ t.i = s.i /\ t.state = "root"
    BY <1>1, AtRootIs
  <2>2. Arrived(s, root, absolute) = t
    BY <1>3 DEF Arrived
  <2> HIDE DEF t
  <2>3. Within(t, n)
    BY <1>1, <2>1 DEF Within
  <2>4. RoundsLeft(t) = 5 * s.i
    BY <2>1 DEF RoundsLeft
  <2>5. QED
    BY <1>2, <2>1, <2>2, <2>3, <2>4 DEF Walkable
<1>4. CASE s.i # root
  BY <1>2, <1>4 DEF Arrived
<1>5. QED
  BY <1>3, <1>4

\* What changes of a state but for what is written.
LEMMA Unwritten ==
    ASSUME NEW s \in WalkStates, Unrepeated(s), NEW t \in WalkStates,
           t.out = s.out, t.appended = s.appended
    PROVE  Unrepeated(t)
BY DEF Unrepeated

LEMMA InSegmentIs ==
    ASSUME NEW n \in Nat, NEW s \in Walkable(n), s.i > 0, s.state = "segment",
           NEW c \in PathChars
    PROVE  LET w == InSegment([s EXCEPT !.i = @ - 1], c)
           IN  w \in Walkable(n) /\ RoundsLeft(w) < RoundsLeft(s)
<1> DEFINE dots == IF c = "." THEN s.dots + 1 ELSE s.dots
           t == [s EXCEPT !.i = s.i - 1, !.dots = dots, !.chars = s.chars + 1]
           w == InSegment([s EXCEPT !.i = @ - 1], c)
<1>1. s \in WalkStates /\ Unrepeated(s) /\ Within(s, n)
  BY DEF Walkable
<1>2. s.i \in Nat /\ s.chars \in Nat /\ s.dots \in Nat /\ s.i <= n
  BY <1>1 DEF WalkStates, Within
<1>3. t \in WalkStates /\ Unrepeated(t)
  <2>1. dots \in Nat /\ s.i - 1 \in Nat /\ s.chars + 1 \in Nat
    BY <1>2
  <2> HIDE DEF dots
  <2>2. t \in WalkStates /\ t.out = s.out /\ t.appended = s.appended
    BY <1>1, <2>1 DEF WalkStates
  <2> HIDE DEF t
  <2>3. QED
    BY <1>1, <2>2, Unwritten
<1>4. t.i = s.i - 1 /\ t.chars = s.chars + 1 /\ t.state = "segment" /\ t.ready = s.ready
  BY <1>1 DEF WalkStates
<1>5. w = IF ~t.ready
          THEN IF t.chars > 2 \/ t.chars # t.dots
               THEN [t EXCEPT !.ready = TRUE, !.i = t.i + t.chars, !.chars = 0, !.dots = 0]
               ELSE t
          ELSE IF Skipped(t) THEN t
          ELSE Append1([Joined(t) EXCEPT !.dotSlash = FALSE, !.fromSlash = FALSE], c)
  <2>1. t = [[s EXCEPT !.i = @ - 1] EXCEPT !.dots = IF c = "." THEN @ + 1 ELSE @, !.chars = @ + 1]
    BY <1>1 DEF WalkStates
  <2>2. QED
    BY <2>1 DEF InSegment
<1> HIDE DEF t, w
<1>6. CASE ~t.ready /\ (t.chars > 2 \/ t.chars # t.dots)
  <2>1. s.chars <= 2 /\ s.i + s.chars <= n /\ ~s.ready
    BY <1>1, <1>4, <1>6 DEF Within
  <2>2. w = [t EXCEPT !.ready = TRUE, !.i = t.i + t.chars, !.chars = 0, !.dots = 0]
    BY <1>5, <1>6
  <2>3. t.i + t.chars = s.i + s.chars
    BY <1>2, <1>4
  <2>4. /\ w \in WalkStates /\ w.out = t.out /\ w.appended = t.appended
        /\ w.i = s.i + s.chars /\ w.state = "segment" /\ w.ready
    <3> DEFINE k == s.i + s.chars
    <3>1. k \in Nat
      BY <1>2
    <3>2. w = [t EXCEPT !.ready = TRUE, !.i = k, !.chars = 0, !.dots = 0]
      BY <2>2, <2>3
    <3> HIDE DEF k
    <3>3. /\ w \in WalkStates /\ w.out = t.out /\ w.appended = t.appended
          /\ w.i = k /\ w.state = "segment" /\ w.ready
      BY <1>3, <1>4, <3>1, <3>2 DEF WalkStates
    <3>4. QED
      BY <3>3 DEF k
  <2>5. Unrepeated(w)
    BY <1>3, <2>4, Unwritten
  <2>6. Within(w, n)
    BY <2>1, <2>4 DEF Within
  <2>7. RoundsLeft(w) = 5 * (s.i + s.chars) /\ RoundsLeft(s) = 5 * s.i + 3 + 4 * s.chars
    BY <2>1, <2>4 DEF RoundsLeft
  <2>8. QED
    BY <1>2, <2>1, <2>4, <2>5, <2>6, <2>7 DEF Walkable, w
<1>7. CASE ~t.ready /\ ~(t.chars > 2 \/ t.chars # t.dots)
  <2>1. w = t /\ ~s.ready
    BY <1>4, <1>5, <1>7
  <2>2. Within(t, n)
    BY <1>1, <1>2, <1>4, <1>7, <2>1 DEF Within
  <2>3. /\ RoundsLeft(t) = 5 * (s.i - 1) + 3 + 4 * (s.chars + 1)
        /\ RoundsLeft(s) = 5 * s.i + 3 + 4 * s.chars
    BY <1>4, <1>7, <2>1 DEF RoundsLeft
  <2>4. QED
    BY <1>2, <1>3, <2>1, <2>2, <2>3 DEF Walkable, w
<1>8. CASE t.ready
  <2>1. Continues(t, t)
    BY <1>3 DEF Continues
  <2> DEFINE x == [Joined(t) EXCEPT !.dotSlash = FALSE, !.fromSlash = FALSE]
  <2>2. Continues(t, Joined(t))
    BY <1>3, JoinedIs
  <2>3. x \in WalkStates /\ Unrepeated(x) /\ x.i = t.i /\ x.state = t.state /\ x.ready = t.ready
    BY <2>2 DEF Continues, WalkStates, Unrepeated
  <2>4. w = t \/ w = Append1(x, c)
    BY <1>5, <1>8
  <2> HIDE DEF x
  <2>5. Continues(x, Append1(x, c))
    BY <2>3, Appending
  <2>6. w \in WalkStates /\ Unrepeated(w) /\ w.i = s.i - 1 /\ w.state = "segment" /\ w.ready
    BY <1>3, <1>4, <1>8, <2>3, <2>4, <2>5 DEF Continues
  <2>7. Within(w, n)
    BY <1>2, <2>6 DEF Within
  <2>8. RoundsLeft(w) = 5 * (s.i - 1) /\ RoundsLeft(s) = 5 * s.i
    BY <1>4, <1>8, <2>6 DEF RoundsLeft
  <2>9. QED
    BY <1>2, <2>6, <2>7, <2>8 DEF Walkable, w
<1>9. QED
  BY <1>6, <1>7, <1>8

LEMMA WalkIs ==
    ASSUME NEW n \in Nat, NEW s \in Walkable(n), s.i > 0, NEW c \in PathChars
    PROVE  LET w == Walk([s EXCEPT !.i = @ - 1], c)
           IN  w \in Walkable(n) /\ RoundsLeft(w) < RoundsLeft(s)
<1> DEFINE r == [s EXCEPT !.i = s.i - 1]
           w == Walk(r, c)
<1>1. s \in WalkStates /\ Unrepeated(s) /\ Within(s, n)
  BY DEF Walkable
<1>2. s.i \in Nat /\ s.chars \in Nat /\ s.skip \in Nat /\ s.i <= n
  BY <1>1 DEF WalkStates, Within
<1>3. /\ r \in WalkStates /\ r.out = s.out /\ r.appended = s.appended /\ r.i = s.i - 1
      /\ r.state = s.state /\ r.ready = s.ready /\ r.skip = s.skip
      /\ r = [s EXCEPT !.i = @ - 1]
  BY <1>1, <1>2 DEF WalkStates
<1>4. Unrepeated(r)
  BY <1>1, <1>3, Unwritten
<1>5. s.state \in {"segment", "slash", "root"}
  BY <1>1 DEF WalkStates
<1> HIDE DEF r
<1>6. CASE s.state = "segment" /\ c # "/"
  <2>1. w = InSegment(r, c)
    BY <1>3, <1>6 DEF Walk, IsSeparator
  <2>2. QED
    BY <1>3, <1>6, <2>1, InSegmentIs
<1>7. CASE s.state = "segment" /\ c = "/"
  <2> DEFINE skip == IF DotCount(r) = 2 THEN r.skip + 1
                     ELSE IF DotCount(r) # 1 /\ r.skip > 0 THEN r.skip - 1 ELSE r.skip
             dotSlash == IF DotCount(r) \in {1, 2} /\ ~r.fromSlash THEN TRUE ELSE r.dotSlash
  <2>1. w = [r EXCEPT !.state = "slash", !.dotSlash = dotSlash, !.skip = skip]
    BY <1>3, <1>7 DEF Walk, EndSegment, IsSeparator
  <2>2. skip \in Nat
    BY <1>2, <1>3
  <2>3. dotSlash \in BOOLEAN
    BY <1>3 DEF WalkStates
  <2> HIDE DEF skip, dotSlash, w
  <2>4. /\ w \in WalkStates /\ w.out = r.out /\ w.appended = r.appended
        /\ w.i = s.i - 1 /\ w.state = "slash"
    BY <1>3, <2>1, <2>2, <2>3 DEF WalkStates
  <2>5. Unrepeated(w)
    BY <1>3, <1>4, <2>4, Unwritten
  <2>6. Within(w, n)
    BY <1>2, <2>4 DEF Within
  <2>7. RoundsLeft(w) = 5 * (s.i - 1) + 4
    BY <2>4 DEF RoundsLeft
  <2>8. RoundsLeft(s) \in Int /\ RoundsLeft(s) >= 5 * s.i
    BY <1>2, <1>7 DEF RoundsLeft
  <2>9. QED
    BY <1>2, <1>3, <2>4, <2>5, <2>6, <2>7, <2>8 DEF Walkable, w
<1>8. CASE s.state = "slash" /\ c = "/"
  <2>1. w = r
    BY <1>3, <1>8 DEF Walk, IsSeparator
  <2>2. Within(r, n)
    BY <1>2, <1>3, <1>8 DEF Within
  <2>3. RoundsLeft(r) = 5 * (s.i - 1) + 4 /\ RoundsLeft(s) = 5 * s.i + 4
    BY <1>3, <1>8 DEF RoundsLeft
  <2>4. QED
    BY <1>2, <1>3, <1>4, <2>1, <2>2, <2>3 DEF Walkable
<1>9. CASE s.state = "slash" /\ c # "/"
  <2>1. w = [r EXCEPT !.fromSlash = TRUE, !.i = r.i + 1, !.dots = 0, !.chars = 0,
                      !.ready = FALSE, !.state = "segment"]
    BY <1>3, <1>9 DEF Walk, IsSeparator
  <2>2. s.i < n /\ r.i + 1 = s.i
    BY <1>1, <1>2, <1>3, <1>9 DEF Within
  <2> HIDE DEF w
  <2>3. /\ w \in WalkStates /\ w.out = r.out /\ w.appended = r.appended
        /\ w.i = s.i /\ w.state = "segment" /\ ~w.ready /\ w.chars = 0
    BY <1>2, <1>3, <2>1, <2>2 DEF WalkStates
  <2>4. Unrepeated(w)
    BY <1>3, <1>4, <2>3, Unwritten
  <2>5. Within(w, n)
    BY <1>2, <2>2, <2>3 DEF Within
  <2>6. RoundsLeft(w) = 5 * s.i + 3 /\ RoundsLeft(s) = 5 * s.i + 4
    BY <1>2, <1>9, <2>3 DEF RoundsLeft
  <2>7. QED
    BY <1>2, <1>3, <2>3, <2>4, <2>5, <2>6 DEF Walkable, w
<1>10. CASE s.state = "root"
  <2>1. w = Append1(r, c)
    BY <1>3, <1>10 DEF Walk
  <2>2. Continues(r, w)
    BY <1>3, <1>4, <2>1, Appending
  <2> HIDE DEF w
  <2>3. w \in WalkStates /\ Unrepeated(w) /\ w.i = s.i - 1 /\ w.state = "root"
    BY <1>3, <1>10, <2>2 DEF Continues
  <2>4. Within(w, n)
    BY <1>2, <2>3 DEF Within
  <2>5. RoundsLeft(w) = 5 * (s.i - 1) /\ RoundsLeft(s) = 5 * s.i
    BY <1>10, <2>3 DEF RoundsLeft
  <2>6. QED
    BY <1>2, <1>3, <2>3, <2>4, <2>5 DEF Walkable, w
<1>11. QED
  BY <1>5, <1>6, <1>7, <1>8, <1>9, <1>10

LEMMA RoundIs ==
    ASSUME NEW path \in PathTexts, NEW s \in Walkable(Len(path)), NEW root,
           NEW absolute \in BOOLEAN
    PROVE  LET t == Round(s, path, root, absolute)
           IN  /\ t \in Walkable(Len(path))
               /\ s.i = 0 => t = s
               /\ s.i > 0 => RoundsLeft(t) < RoundsLeft(s)
<1> DEFINE t == Arrived(s, root, absolute)
           r == Round(s, path, root, absolute)
<1>1. Len(path) \in Nat /\ s.i \in Nat
  BY DEF PathTexts, Walkable, WalkStates
<1>2. t \in Walkable(Len(path)) /\ t.i = s.i /\ RoundsLeft(t) <= RoundsLeft(s)
  BY <1>1, ArrivedIs
<1>3. r = IF s.i = 0 THEN s ELSE Walk([t EXCEPT !.i = @ - 1], path[s.i])
  BY DEF Round
<1> HIDE DEF t, r
<1>4. CASE s.i = 0
  BY <1>2, <1>3, <1>4 DEF r
<1>5. CASE s.i > 0
  <2>1. s.i \in 1..Len(path)
    BY <1>1, <1>5 DEF Walkable, Within
  <2>2. path[s.i] \in PathChars
    BY <2>1 DEF PathTexts
  <2>3. r = Walk([t EXCEPT !.i = @ - 1], path[s.i])
    BY <1>1, <1>3, <1>5
  <2>4. r \in Walkable(Len(path)) /\ RoundsLeft(r) < RoundsLeft(t)
    BY <1>1, <1>2, <1>5, <2>2, <2>3, WalkIs
  <2>5. RoundsLeft(r) \in Nat /\ RoundsLeft(s) \in Nat /\ RoundsLeft(t) \in Nat
    BY <1>2, <2>4, RoundsLeftTyped
  <2>6. RoundsLeft(r) < RoundsLeft(s)
    BY <1>2, <2>4, <2>5
  <2>7. QED
    BY <1>5, <2>4, <2>6 DEF r
<1>6. QED
  BY <1>1, <1>4, <1>5

LEMMA StartIsWalkable ==
    ASSUME NEW path \in PathTexts
    PROVE  /\ WalkStart(path) \in Walkable(Len(path))
           /\ RoundsLeft(WalkStart(path)) = 5 * Len(path) + 3
<1> DEFINE s == WalkStart(path)
<1>1. Len(path) \in Nat
  BY DEF PathTexts
<1>2. <<>> \in PathTexts
  BY DEF PathTexts
<1>3. /\ s \in WalkStates /\ s.i = Len(path) /\ s.out = <<>> /\ s.appended = FALSE
      /\ s.state = "segment" /\ s.ready = FALSE /\ s.chars = 0
  BY <1>1, <1>2 DEF WalkStart, WalkStates
<1> HIDE DEF s
<1>4. Unrepeated(s)
  <2>1. Len(s.out) = 0
    BY <1>3
  <2>2. \A j \in 2..Len(s.out) : FALSE
    BY <2>1
  <2>3. s.appended = (Len(s.out) > 0 /\ s.out[1] = "/")
    <3>1. ~(Len(s.out) > 0) /\ s.appended = FALSE
      BY <1>3, <2>1
    <3>2. QED
      BY <3>1, Zenon
  <2>4. QED
    BY <2>2, <2>3 DEF Unrepeated
<1>5. Within(s, Len(path))
  BY <1>1, <1>3 DEF Within
<1>6. RoundsLeft(s) = 5 * Len(path) + 3
  BY <1>1, <1>3 DEF RoundsLeft
<1>7. QED
  BY <1>3, <1>4, <1>5, <1>6 DEF Walkable, s

\* The loop is over after at most as many rounds as WalkRounds allows.
LEMMA WalkingIs ==
    ASSUME NEW path \in PathTexts, NEW root, NEW absolute \in BOOLEAN
    PROVE  LET last == Walking(path, root, absolute)[WalkRounds(path)]
           IN  last \in Walkable(Len(path)) /\ last.i = 0
<1> DEFINE N == WalkRounds(path)
           S == Walkable(Len(path))
           a == WalkStart(path)
           step(s) == Round(s, path, root, absolute)
           g == [n \in 1..N |-> [s \in S |-> step(s)]]
           walk == Walking(path, root, absolute)
<1>1. Len(path) \in Nat /\ N \in Nat /\ N = 5 * Len(path) + 4
  BY DEF PathTexts, WalkRounds
<1>2. a \in S /\ RoundsLeft(a) = 5 * Len(path) + 3
  BY StartIsWalkable
<1>3. \A s \in S : /\ step(s) \in S
                   /\ s.i = 0 => step(s) = s
                   /\ s.i > 0 => RoundsLeft(step(s)) < RoundsLeft(s)
  BY RoundIs
<1>4. \A s \in S : s.i \in Nat /\ RoundsLeft(s) \in Nat
  BY RoundsLeftTyped DEF Walkable, WalkStates
<1>5. walk = CHOOSE f : f = [n \in 0..N |-> IF n = 0 THEN a ELSE step(f[n - 1])]
  BY DEF Walking
<1>6. g \in [1..N -> [S -> S]]
  BY <1>3
<1> HIDE DEF walk, N, S, a
<1>7. PICK f : Loop(f, N, S, a, g)
  BY <1>1, <1>2, <1>6, LoopExists
<1>8. \A n \in 1..N : f[n] = step(f[n - 1])
  <2>1. \A n \in 1..N : f[n] = g[n][f[n - 1]] /\ f[n - 1] \in S
    BY <1>1, <1>7 DEF Loop
  <2> HIDE DEF step
  <2>2. QED
    BY <2>1
<1> HIDE DEF g, step
<1>9. f = [n \in 0..N |-> IF n = 0 THEN a ELSE step(f[n - 1])]
  <2>1. \A n \in 0..N : n # 0 => n \in 1..N
    BY <1>1
  <2>2. f \in [0..N -> S] /\ f[0] = a
    BY <1>7 DEF Loop
  <2>3. QED
    BY <1>8, <2>1, <2>2
<1>10. walk = [n \in 0..N |-> IF n = 0 THEN a ELSE step(walk[n - 1])]
  BY <1>5, <1>9, Zenon
<1>11. walk[0] = a /\ \A n \in 1..N : walk[n] = step(walk[n - 1])
  BY <1>1, <1>10
<1> DEFINE good(n) == /\ walk[n] \in S
                      /\ walk[n].i = 0 \/ RoundsLeft(walk[n]) + n <= 5 * Len(path) + 3
           T == {n \in 0..N : good(n)}
<1>12. 0 \in T
  BY <1>1, <1>2, <1>4, <1>11
<1>13. ASSUME NEW n \in 1..N, n - 1 \in T PROVE n \in T
  <2> DEFINE s == walk[n - 1]
  <2>1. s \in S /\ (s.i = 0 \/ RoundsLeft(s) + (n - 1) <= 5 * Len(path) + 3)
    <3>1. good(n - 1)
      <4> HIDE DEF good
      <4>1. QED
        BY <1>13
    <3>2. QED
      BY <3>1
  <2>2. walk[n] = step(s)
    BY <1>11
  <2> HIDE DEF s
  <2>3. step(s) \in S /\ (s.i = 0 => step(s) = s)
        /\ (s.i > 0 => RoundsLeft(step(s)) < RoundsLeft(s))
    BY <1>3, <2>1
  <2>4. /\ s.i \in Nat /\ RoundsLeft(s) \in Nat
        /\ step(s).i \in Nat /\ RoundsLeft(step(s)) \in Nat
    BY <1>4, <2>1, <2>3
  <2>5. step(s).i = 0 \/ RoundsLeft(step(s)) + n <= 5 * Len(path) + 3
    BY <1>1, <2>1, <2>3, <2>4
  <2>6. good(n) /\ n \in 0..N
    BY <1>1, <2>2, <2>3, <2>5
  <2> HIDE DEF good
  <2>7. QED
    BY <2>6
<1> HIDE DEF good
<1>14. good(N)
  <2>1. \A n \in T : good(n)
    OBVIOUS
  <2> HIDE DEF T
  <2>2. \A n \in 0..N : n \in T
    BY <1>1, <1>12, <1>13, Rounds0
  <2>3. N \in 0..N
    BY <1>1
  <2>4. QED
    BY <2>1, <2>2, <2>3
<1>15. walk[N] \in S /\ (walk[N].i = 0 \/ RoundsLeft(walk[N]) + N <= 5 * Len(path) + 3)
  BY <1>14 DEF good
<1>16. RoundsLeft(walk[N]) \in Nat
  BY <1>4, <1>15
<1>17. walk[N].i = 0
  BY <1>1, <1>15, <1>16
<1>18. QED
  BY <1>15, <1>17 DEF walk, N, S

\* For every path: the loop ends, and what is written has no two separators next
\* to each other but those in front of a network name.
LEMMA Normalizing ==
    ASSUME NEW path \in PathTexts, NEW win
    PROVE  /\ WalkEnds(path, win)
           /\ SeparatorsSingle(Normalize(path, win), RootTrimmed(path, win) >= 5)
<1> DEFINE root == RootTrimmed(path, win)
           absolute == Absolute(path, win)
           last == Walking(path, root, absolute)[WalkRounds(path)]
           end == WalkBack(path, root, absolute)
           out == Normalize(path, win)
<1>1. absolute \in BOOLEAN
  BY DEF Absolute
<1> HIDE DEF root, absolute
<1>2. last \in Walkable(Len(path)) /\ last.i = 0
  BY <1>1, WalkingIs
<1>3. WalkEnds(path, win)
  BY <1>2 DEF WalkEnds, root, absolute
<1>4. end = Arrived(last, root, absolute)
  BY DEF WalkBack
<1> HIDE DEF last, end
<1>5. end \in Walkable(Len(path))
  <2>1. Len(path) \in Nat
    BY DEF PathTexts
  <2>2. QED
    BY <1>1, <1>2, <1>4, <2>1, ArrivedIs
<1>6. /\ end.out \in PathTexts /\ Len(end.out) \in Nat
      /\ \A j \in 2..Len(end.out) : ~(end.out[j - 1] = "/" /\ end.out[j] = "/")
  BY <1>5 DEF Walkable, WalkStates, Unrepeated, PathTexts
<1>7. out = IF root >= 5 THEN <<"/">> \o end.out ELSE end.out
  BY DEF Normalize, root, absolute, end
<1> HIDE DEF out
<1>8. \A j \in 2..Len(out) : out[j - 1] = "/" /\ out[j] = "/" => j = 2 /\ root >= 5
  <2>1. CASE root >= 5
    <3>1. out = <<"/">> \o end.out
      BY <1>7, <2>1
    <3>2. "/" \in PathChars
      BY DEF PathChars
    <3>3. /\ Len(out) = Len(end.out) + 1
          /\ \A j \in 2..Len(end.out) + 1 : out[j] = end.out[j - 1]
      <4>1. /\ Len(<<"/">> \o end.out) = Len(end.out) + 1
            /\ \A j \in 2..Len(end.out) + 1 : (<<"/">> \o end.out)[j] = end.out[j - 1]
        BY <1>6, <3>2, InFront
      <4>2. QED
        BY <3>1, <4>1
    <3>4. SUFFICES ASSUME NEW j \in 2..Len(out), out[j - 1] = "/", out[j] = "/", j # 2
                   PROVE  FALSE
      BY <2>1
    <3>5. j - 1 \in 2..Len(end.out) /\ j - 1 \in 2..Len(end.out) + 1 /\ j \in 2..Len(end.out) + 1
      BY <1>6, <3>3, <3>4
    <3>6. end.out[(j - 1) - 1] = "/" /\ end.out[j - 1] = "/"
      BY <3>3, <3>4, <3>5
    <3>7. QED
      BY <1>6, <3>5, <3>6
  <2>2. CASE ~(root >= 5)
    BY <1>6, <1>7, <2>2
  <2>3. QED
    BY <2>1, <2>2
<1>9. SeparatorsSingle(Normalize(path, win), RootTrimmed(path, win) >= 5)
  BY <1>8 DEF SeparatorsSingle, IsSeparator, out, root
<1>10. QED
  BY <1>3, <1>9

-----------------------------------------------------------------------------
(***************************************************************************)
(* The specification takes its inputs from the sets of which the lemmas    *)
(* speak, and they grow within them.                                       *)
(***************************************************************************)

Arguments == {argv \in Seq(Texts) : argv # <<>>}

Paths == [kind : {"path"}, win : BOOLEAN, path : Seq(PathChars), left : Int]
Arrays == [kind : {"poll"}, fds : PollArrays]
Argvs == [kind : {"argv"}, argv : Arguments, left : Int]
Options == [kind : {"redirect"}, stream : {"in", "out", "err"}, redirect : Redirects,
            shorthands : Shorthands]
StartInputs == [kind : {"fds"}, c : Starts]
Wrapped == [kind : {"cpp"}, o : CppOptions]
Drained == [kind : {"drain"}, round : AnyRounds]

TypeInv ==
    \/ input \in Paths \/ input \in Arrays \/ input \in Argvs \/ input \in Options
    \/ input \in StartInputs \/ input \in Wrapped \/ input \in Drained

LEMMA FdsInputsAreStarts == FdsInputs \subseteq Starts
<1>1. SUFFICES ASSUME NEW open \in SUBSET Standard,
                      NEW c \in [open : {open},
                                 in : {Pipe, Discard, Limit - 2} \cup open,
                                 out : {Pipe, Discard, Limit - 1} \cup open,
                                 err : {Pipe, Discard, Stdout, Limit - 1} \cup open]
               PROVE  c \in Starts
  BY DEF FdsInputs
<1>2. /\ c.open = open
      /\ c.in \in {Pipe, Discard, Limit - 2} \cup open
      /\ c.out \in {Pipe, Discard, Limit - 1} \cup open
      /\ c.err \in {Pipe, Discard, Stdout, Limit - 1} \cup open
  OBVIOUS
<1>3. open \subseteq Int /\ Pipe \in Int /\ Discard \in Int /\ Stdout \in Int /\ Limit \in Int
  BY LimitAssumption DEF Standard, Pipe, Discard, Stdout
<1>4. c \in [open : SUBSET Standard, in : Int, out : Int, err : Int]
  <2>1. c.open \in SUBSET Standard /\ c.in \in Int /\ c.out \in Int /\ c.err \in Int
    <3>1. Limit - 1 \in Int /\ Limit - 2 \in Int
      BY <1>3
    <3>2. QED
      BY <1>2, <1>3, <3>1
  <2>2. c = [open |-> c.open, in |-> c.in, out |-> c.out, err |-> c.err]
    OBVIOUS
  <2>3. QED
    BY <2>1, <2>2, Zenon
<1>5. QED
  BY <1>2, <1>4 DEF Starts

LEMMA RoundsAreAny == Rounds \subseteq AnyRounds
<1>1. EACCES \in Int /\ EPIPE \in Int /\ EINVAL \in Int /\ EINVAL <= 0
  BY DEF EACCES, EPIPE, EINVAL
<1>2. QED
  BY <1>1 DEF Rounds, AnyRounds

LEMMA InitTypeInv ==
    ASSUME Init
    PROVE  TypeInv
<1>1. CASE \E win \in BOOLEAN :
             input = [kind |-> "path", win |-> win, path |-> <<>>, left |-> PathSize]
  BY <1>1, SizesAssumption DEF TypeInv, Paths
<1>2. CASE input = [kind |-> "path", win |-> TRUE, path |-> Unc, left |-> PathSize - 2]
  <2>1. Unc \in Seq(PathChars)
    BY DEF Unc, PathChars
  <2>2. QED
    BY <1>2, <2>1, SizesAssumption DEF TypeInv, Paths
<1>3. CASE input = [kind |-> "argv", argv |-> <<<<"x">>, <<>>>>, left |-> ArgSize]
  <2>1. <<"x">> \in Texts /\ <<>> \in Texts
    BY DEF ArgChars, Texts
  <2>2. <<<<"x">>, <<>>>> \in Seq(Texts) /\ <<<<"x">>, <<>>>> # <<>>
    BY <2>1
  <2>3. QED
    BY <1>3, <2>2, SizesAssumption DEF TypeInv, Argvs, Arguments
<1>4. CASE \E stream \in {"in", "out", "err"}, r \in Redirects, h \in Shorthands :
             input = [kind |-> "redirect", stream |-> stream, redirect |-> r, shorthands |-> h]
  BY <1>4 DEF TypeInv, Options
<1>5. CASE input = [kind |-> "poll", fds |-> <<>>]
  <2>1. <<>> \in PollArrays
    BY DEF PollArrays
  <2>2. QED
    BY <1>5, <2>1 DEF TypeInv, Arrays
<1>6. CASE \E c \in FdsInputs : input = [kind |-> "fds", c |-> c]
  BY <1>6, FdsInputsAreStarts DEF TypeInv, StartInputs
<1>7. CASE \E o \in CppOptions : input = [kind |-> "cpp", o |-> o]
  BY <1>7 DEF TypeInv, Wrapped
<1>8. CASE \E d \in Rounds : input = [kind |-> "drain", round |-> d]
  BY <1>8, RoundsAreAny DEF TypeInv, Drained
<1>9. QED
  BY <1>1, <1>2, <1>3, <1>4, <1>5, <1>6, <1>7, <1>8 DEF Init

\* The kind of an input says from which set it is.
LEMMA Kinds ==
    ASSUME TypeInv
    PROVE  /\ input.kind = "path" => input \in Paths
           /\ input.kind = "poll" => input \in Arrays
           /\ input.kind = "argv" => input \in Argvs
           /\ input.kind = "redirect" => input \in Options
           /\ input.kind = "fds" => input \in StartInputs
           /\ input.kind = "cpp" => input \in Wrapped
           /\ input.kind = "drain" => input \in Drained
<1>1. /\ input \in Paths => input.kind = "path"
      /\ input \in Arrays => input.kind = "poll"
      /\ input \in Argvs => input.kind = "argv"
      /\ input \in Options => input.kind = "redirect"
      /\ input \in StartInputs => input.kind = "fds"
      /\ input \in Wrapped => input.kind = "cpp"
      /\ input \in Drained => input.kind = "drain"
  BY DEF Paths, Arrays, Argvs, Options, StartInputs, Wrapped, Drained
<1> DEFINE k == input.kind
<1> HIDE DEF k
<1>2. QED
  BY <1>1 DEF TypeInv

LEMMA NextTypeInv ==
    ASSUME TypeInv, [Next]_input
    PROVE  TypeInv'
<1>1. CASE GrowPoll
  <2>1. input.kind = "poll" /\ input \in Arrays
    BY <1>1, Kinds DEF GrowPoll
  <2>2. PICK fd \in 0..PollSize, i \in {{"in"}, {"out"}} :
          \E e \in {{}} \cup {{x} : x \in PollEvents(i)} :
            /\ fd = NoSocket \/ \A j \in DOMAIN input.fds : input.fds[j].fd # fd
            /\ fd = NoSocket => e = {}
            /\ input' = [input EXCEPT
                 !.fds = Append(@, [fd |-> fd, interests |-> i, signalled |-> e])]
    BY <1>1 DEF GrowPoll
  <2>3. PICK e \in {{}} \cup {{x} : x \in PollEvents(i)} :
            /\ fd = NoSocket \/ \A j \in DOMAIN input.fds : input.fds[j].fd # fd
            /\ fd = NoSocket => e = {}
            /\ input' = [input EXCEPT
                 !.fds = Append(@, [fd |-> fd, interests |-> i, signalled |-> e])]
    BY <2>2
  <2> DEFINE new == [fd |-> fd, interests |-> i, signalled |-> e]
             fds == input.fds
  <2>4. fds \in PollArrays
    BY <2>1 DEF Arrays
  <2>5. new \in Polled
    <3>1. fd \in Nat
      BY <2>2, SizesAssumption
    <3>2. i \in Interests /\ e \subseteq PollEvents(i)
      BY <2>2, <2>3 DEF Interests
    <3>3. PollEvents(i) \subseteq AllEvents
      BY DEF PollEvents, AllEvents
    <3>4. QED
      BY <2>3, <3>1, <3>2, <3>3 DEF Polled
  <2>6. Append(fds, new) \in PollArrays
    <3>1. fds \in Seq(Polled)
          /\ \A j, k \in DOMAIN fds : fds[j].fd = fds[k].fd => j = k \/ fds[j].fd = NoSocket
      BY <2>4 DEF PollArrays
    <3>2. new.fd = NoSocket \/ \A j \in DOMAIN fds : fds[j].fd # new.fd
      BY <2>3
    <3> HIDE DEF new, fds
    <3>3. /\ Append(fds, new) \in Seq(Polled)
          /\ DOMAIN Append(fds, new) = 1..(Len(fds) + 1) /\ DOMAIN fds = 1..Len(fds)
          /\ \A j \in 1..Len(fds) : Append(fds, new)[j] = fds[j]
          /\ Append(fds, new)[Len(fds) + 1] = new
          /\ Len(fds) \in Nat
      BY <2>5, <3>1
    <3> DEFINE grown == Append(fds, new)
    <3> HIDE DEF grown
    <3>4. \A j, k \in 1..(Len(fds) + 1) :
            grown[j].fd = grown[k].fd => j = k \/ grown[j].fd = NoSocket
      <4>1. SUFFICES ASSUME NEW j \in 1..(Len(fds) + 1), NEW k \in 1..(Len(fds) + 1),
                            grown[j].fd = grown[k].fd, j # k
                     PROVE  grown[j].fd = NoSocket
        OBVIOUS
      <4>2. CASE j \in 1..Len(fds) /\ k \in 1..Len(fds)
        BY <3>1, <3>3, <4>1, <4>2 DEF grown
      <4>3. CASE j = Len(fds) + 1 /\ k \in 1..Len(fds)
        BY <3>2, <3>3, <4>1, <4>3 DEF grown
      <4>4. CASE k = Len(fds) + 1 /\ j \in 1..Len(fds)
        BY <3>2, <3>3, <4>1, <4>4 DEF grown
      <4>5. QED
        BY <3>3, <4>1, <4>2, <4>3, <4>4
    <3>5. QED
      BY <3>3, <3>4 DEF PollArrays, grown
  <2>7. input' = [kind |-> "poll", fds |-> Append(fds, new)]
    BY <2>1, <2>3 DEF Arrays
  <2>8. QED
    BY <2>6, <2>7 DEF TypeInv, Arrays
<1>2. CASE GrowPath
  <2>1. input \in Paths
    BY <1>2, Kinds DEF GrowPath
  <2>2. PICK ch \in PathChars :
          input' = [input EXCEPT !.path = Append(@, ch), !.left = @ - 1]
    BY <1>2 DEF GrowPath
  <2>3. Append(input.path, ch) \in Seq(PathChars) /\ input.left - 1 \in Int
    BY <2>1 DEF Paths
  <2>4. input' = [kind |-> "path", win |-> input.win, path |-> Append(input.path, ch),
                  left |-> input.left - 1]
    BY <2>1, <2>2 DEF Paths
  <2>5. input.win \in BOOLEAN
    BY <2>1 DEF Paths
  <2>6. QED
    BY <2>3, <2>4, <2>5 DEF TypeInv, Paths
<1>3. CASE GrowArg
  <2>1. input \in Argvs
    BY <1>3, Kinds DEF GrowArg
  <2>2. PICK ch \in ArgChars :
          input' = [input EXCEPT !.argv[Len(input.argv)] = Append(@, ch), !.left = @ - 1]
    BY <1>3 DEF GrowArg
  <2> DEFINE argv == input.argv
             grown == [argv EXCEPT ![Len(argv)] = Append(@, ch)]
  <2>3. argv \in Seq(Texts) /\ argv # <<>> /\ input.left - 1 \in Int
    BY <2>1 DEF Argvs, Arguments
  <2>4. input' = [kind |-> "argv", argv |-> grown, left |-> input.left - 1]
    BY <2>1, <2>2 DEF Argvs
  <2> HIDE DEF argv
  <2>5. Len(argv) \in 1..Len(argv) /\ Append(argv[Len(argv)], ch) \in Texts
    BY <2>2, <2>3 DEF Texts
  <2>6. grown \in Seq(Texts) /\ Len(grown) = Len(argv)
    BY <2>3, <2>5
  <2>7. grown # <<>>
    BY <2>5, <2>6
  <2> HIDE DEF grown
  <2>8. QED
    BY <2>3, <2>4, <2>6, <2>7 DEF TypeInv, Argvs, Arguments
<1>4. CASE NextArg
  <2>1. input \in Argvs
    BY <1>4, Kinds DEF NextArg
  <2>2. input' = [input EXCEPT !.argv = Append(@, <<>>)]
    BY <1>4 DEF NextArg
  <2> DEFINE argv == input.argv
  <2>3. argv \in Seq(Texts) /\ input.left \in Int
    BY <2>1 DEF Argvs, Arguments
  <2>4. input' = [kind |-> "argv", argv |-> Append(argv, <<>>), left |-> input.left]
    BY <2>1, <2>2 DEF Argvs
  <2> HIDE DEF argv
  <2>5. <<>> \in Texts
    BY DEF Texts
  <2>6. Append(argv, <<>>) \in Seq(Texts) /\ Append(argv, <<>>) # <<>>
    <3>1. \A S, x : x \in S /\ argv \in Seq(S) => Append(argv, x) \in Seq(S)
      OBVIOUS
    <3>2. Len(Append(argv, <<>>)) = Len(argv) + 1 /\ Len(argv) \in Nat
      BY <2>3
    <3>3. QED
      BY <2>3, <2>5, <3>1, <3>2
  <2>7. QED
    BY <2>3, <2>4, <2>6 DEF TypeInv, Argvs, Arguments
<1>5. CASE UNCHANGED input
  BY <1>5 DEF TypeInv
<1>6. QED
  BY <1>1, <1>2, <1>3, <1>4, <1>5 DEF Next

\* The inputs of the specification are always of the sets of which the lemmas speak.
THEOREM InputsTyped == Spec => []TypeInv
<1>1. Init => TypeInv
  BY InitTypeInv
<1>2. TypeInv /\ [Next]_input => TypeInv'
  BY NextTypeInv
<1>3. QED
  BY <1>1, <1>2, PTL DEF Spec

\* parse_redirect (options.c) takes the options that reproc.h allows for a stream and,
\* of those it forbids, only STDOUT for another stream than stderr, and `parent` with
\* `discard` for a stream with a redirect of its own.  It makes of them what the caller
\* asked for and, but for that STDOUT, what redirect_init asserts: for every redirect
\* and all shorthands.
THEOREM RedirectsAreParsed == Spec => []RedirectsParsed
<1>1. TypeInv => RedirectsParsed
  BY Kinds, Parsing DEF RedirectsParsed, Options
<1>2. QED
  BY <1>1, InputsTyped, PTL

\* A child of a Windows parent finds the arguments that reproc_start was given, but
\* for empty ones, and argv_join (process.windows.c) writes as much as it allocates:
\* for any number of arguments of any length.
THEOREM ArgumentsArriveWhole == Spec => []ArgumentsRoundTrip
<1>1. TypeInv => ArgumentsRoundTrip
  BY Kinds, Arriving DEF ArgumentsRoundTrip, Argvs, Arguments
<1>2. QED
  BY <1>1, InputsTyped, PTL

\* poll_win32 (pipe.windows.poll.h) tells pipe_poll of nothing that is not signalled
\* and of something if anything is: for arrays of every length, with any sockets.
THEOREM PollIsReported == Spec => []PollReports
<1>1. TypeInv => PollReports
  BY Kinds, Polling DEF PollReports, Arrays
<1>2. QED
  BY <1>1, InputsTyped, PTL

\* What process_fork and process_start (process.posix.c) close and copy leaves the
\* program its three files and its exit pipe and nothing else but the descriptor
\* that the loop does not reach: for every limit of descriptors.
THEOREM DescriptorsArePlaced == Spec => []DescriptorsPlaced
<1>1. TypeInv => DescriptorsPlaced
  BY Kinds, Placing DEF DescriptorsPlaced, StartInputs
<1>2. QED
  BY <1>1, InputsTyped, PTL

\* The options of the wrapper (reproc.cpp) reach the library, and its drain
\* (drain.hpp) ends when reproc_drain does, with the same result.
THEOREM WrapperIsFaithful == Spec => []WrapperAgrees
<1>1. TypeInv => WrapperAgrees
  BY Kinds, Reaching, Draining DEF WrapperAgrees, Wrapped, Drained
<1>2. QED
  BY <1>1, InputsTyped, PTL

\* reproc_path_normalize (util.c), which goes back in the path to what it has read
\* before, comes to the front of every path, and never writes two separators where
\* one belongs.
THEOREM PathsAreWalked ==
    Spec => [](input.kind = "path" =>
                 /\ WalkEnds(input.path, input.win)
                 /\ SeparatorsSingle(Normalize(input.path, input.win),
                                     RootTrimmed(input.path, input.win) >= 5))
<1>1. TypeInv => (input.kind = "path" =>
                    /\ WalkEnds(input.path, input.win)
                    /\ SeparatorsSingle(Normalize(input.path, input.win),
                                        RootTrimmed(input.path, input.win) >= 5))
  BY Kinds, Normalizing DEF Paths, PathTexts
<1>2. QED
  BY <1>1, InputsTyped, PTL

=============================================================================
