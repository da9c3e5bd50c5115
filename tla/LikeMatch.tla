------------------------------ MODULE LikeMatch ------------------------------
(***************************************************************************)
(* `grep WHERE pattern = '...'`: like_match, the loop that decides whether *)
(* one name matches, and the wrapping of a pattern without wildcards       *)
(* (src/lib/src/tables_grep.cpp), against a definition of SQL's LIKE.      *)
(* Indices start at 0 as in the code, so character i is text[i + 1].       *)
(***************************************************************************)
EXTENDS Integers, Sequences, FiniteSets

CONSTANTS
    Chars,          \* characters of names and patterns
    Any, One,       \* the wildcards % and _
    Lower,          \* [Chars -> Chars]: tolower
    MaxText,        \* bound: length of a name
    MaxPattern      \* bound: length of the pattern asked for

ASSUME WildcardAssumption == Any \in Chars /\ One \in Chars /\ Any # One
ASSUME LowerAssumption ==
    /\ Lower \in [Chars -> Chars] /\ Lower[Any] = Any /\ Lower[One] = One
    /\ \A c \in Chars : Lower[c] \in {Any, One} => Lower[c] = c
ASSUME LengthAssumption == MaxText \in Nat /\ MaxPattern \in Nat

VARIABLES
    name, asked,    \* the row's name, and the pattern of the query
    text, pattern,  \* what the loop compares
    ti, pi,         \* its positions in text and pattern
    star,           \* where the last % seen is, or NoStar (npos)
    retry,          \* where in text the run of that % ends
    verdict         \* "running", then "yes" or "no"

vars == <<name, asked, text, pattern, ti, pi, star, retry, verdict>>

NoStar == -1
Strings(n) == UNION {[1..k -> Chars] : k \in 0..n}
LowerCase(s) == [i \in 1..Len(s) |-> Lower[s[i]]]

-----------------------------------------------------------------------------
(* What LIKE means: the pattern can be laid over the text, a literal on    *)
(* itself, _ on one character, % on any run.  cut[k] is where the first k  *)
(* characters of the pattern end.                                          *)

Covers(c, t, from, to) ==
    \/ c = Any /\ from <= to
    \/ c = One /\ to = from + 1
    \/ c \notin {Any, One} /\ to = from + 1 /\ t[to] = c

Overlays(cut, p, t, i, j) ==
    /\ cut[0] = 0 /\ cut[i] = j
    /\ \A k \in 1..i : Covers(p[k], t, cut[k - 1], cut[k])

PrefixLike(p, t, i, j) == \E cut \in [0..i -> 0..j] : Overlays(cut, p, t, i, j)
Like(p, t) == PrefixLike(p, t, Len(p), Len(t))

Has(s, c) == \E i \in 1..Len(s) : s[i] = c
Contains(t, s) == \E d \in 0..(Len(t) - Len(s)) : \A i \in 1..Len(s) : t[d + i] = s[i]

-----------------------------------------------------------------------------
(* A pattern without wildcards is a search for a substring.                *)
Wrap(p) == IF Has(p, Any) \/ Has(p, One) THEN p ELSE <<Any>> \o p \o <<Any>>

Init ==
    /\ name \in Strings(MaxText) /\ asked \in Strings(MaxPattern)
    /\ text = LowerCase(name) /\ pattern = LowerCase(Wrap(asked))
    /\ ti = 0 /\ pi = 0 /\ star = NoStar /\ retry = 0 /\ verdict = "running"

Looping == verdict = "running" /\ ti < Len(text)
AtLiteral == pi < Len(pattern) /\ pattern[pi + 1] \in {One, text[ti + 1]}
AtAny == pi < Len(pattern) /\ pattern[pi + 1] = Any

Advance ==
    /\ Looping /\ AtLiteral
    /\ ti' = ti + 1 /\ pi' = pi + 1
    /\ UNCHANGED <<name, asked, text, pattern, star, retry, verdict>>

\* Mutant: retry = ti + 1, one character too far.
MarkAnyLate ==
    /\ Looping /\ ~AtLiteral /\ AtAny
    /\ star' = pi /\ pi' = pi + 1 /\ retry' = ti + 1
    /\ UNCHANGED <<name, asked, text, pattern, ti, verdict>>

MarkAny ==
    /\ Looping /\ ~AtLiteral /\ AtAny
    /\ star' = pi /\ pi' = pi + 1 /\ retry' = ti
    /\ UNCHANGED <<name, asked, text, pattern, ti, verdict>>

\* Mutant: goes on behind ti instead of behind retry.
BacktrackFar ==
    /\ Looping /\ ~AtLiteral /\ ~AtAny /\ star # NoStar
    /\ pi' = star + 1 /\ retry' = ti + 1 /\ ti' = ti + 1
    /\ UNCHANGED <<name, asked, text, pattern, star, verdict>>

\* Mutant: retry is not advanced.
BacktrackInPlace ==
    /\ Looping /\ ~AtLiteral /\ ~AtAny /\ star # NoStar
    /\ pi' = star + 1 /\ ti' = retry
    /\ UNCHANGED <<name, asked, text, pattern, star, retry, verdict>>

Backtrack ==
    /\ Looping /\ ~AtLiteral /\ ~AtAny /\ star # NoStar
    /\ pi' = star + 1 /\ retry' = retry + 1 /\ ti' = retry + 1
    /\ UNCHANGED <<name, asked, text, pattern, star, verdict>>

GiveUp ==
    /\ Looping /\ ~AtLiteral /\ ~AtAny /\ star = NoStar
    /\ verdict' = "no"
    /\ UNCHANGED <<name, asked, text, pattern, ti, pi, star, retry>>

(* The text is used up: what is left of the pattern must be % only.        *)
SkipAny ==
    /\ verdict = "running" /\ ~Looping /\ AtAny
    /\ pi' = pi + 1
    /\ UNCHANGED <<name, asked, text, pattern, ti, star, retry, verdict>>

TextEnds ==
    /\ verdict = "running" /\ ~Looping /\ ~AtAny
    /\ verdict' = IF pi = Len(pattern) THEN "yes" ELSE "no"
    /\ UNCHANGED <<name, asked, text, pattern, ti, pi, star, retry>>

Next == Advance \/ MarkAny \/ Backtrack \/ GiveUp \/ SkipAny \/ TextEnds

Spec == Init /\ [][Next]_vars
FairSpec == Spec /\ WF_vars(Next)

-----------------------------------------------------------------------------
(* Properties                                                              *)

(* The loop's indices stay inside the two strings, and the % it returns to *)
(* is one.                                                                 *)
TypeOK ==
    /\ name \in Seq(Chars) /\ asked \in Seq(Chars)
    /\ text \in Seq(Chars) /\ pattern \in Seq(Chars)
    /\ ti \in 0..Len(text) /\ pi \in 0..Len(pattern)
    /\ star \in {NoStar} \cup 0..(Len(pattern) - 1)
    /\ star # NoStar => star < pi /\ pattern[star + 1] = Any
    /\ retry \in 0..Len(text) /\ retry <= ti
    /\ verdict \in {"running", "yes", "no"}

(* What the pattern asked for means: LIKE, and a search for a substring,  *)
(* in either case of the letters, when it has no wildcards.                *)
Meant ==
    IF Has(asked, Any) \/ Has(asked, One) THEN Like(LowerCase(asked), LowerCase(name))
    ELSE Contains(LowerCase(name), LowerCase(asked))

(* A name that is reported is one that was meant, and one that was meant   *)
(* is reported if it has no % of its own: giving back characters to the    *)
(* last % only loses no match, and the wrapping finds every occurrence.    *)
VerdictIsMeant ==
    /\ verdict = "yes" => Meant
    /\ verdict = "no" /\ ~Has(name, Any) => ~Meant

(* The loop comes to a verdict on every name.                              *)
Decides == <>(verdict # "running")

(* The comment's promise: the verdict is LIKE's on every name.             *)
VerdictIsLike == verdict # "running" => (verdict = "yes" <=> Like(pattern, text))
=============================================================================
