--------------------------- MODULE LikeMatchProof ---------------------------
(***************************************************************************)
(* LikeMatch for any alphabet and names and patterns of any length: the    *)
(* loop stays inside both strings, and reports what the query asked for.   *)
(***************************************************************************)
EXTENDS LikeMatch, TLAPS

Facts == INSTANCE SeqFacts

(* The pattern read so far lies over the text read so far; and if a % was  *)
(* read, what precedes it lies over a part that ends before its run does.  *)
PrefixInv ==
    /\ PrefixLike(pattern, text, pi, ti)
    /\ star # NoStar => \E s \in 0..retry : PrefixLike(pattern, text, star, s)
    /\ verdict = "yes" => pi = Len(pattern) /\ ti = Len(text)

LoopInv == TypeOK /\ PrefixInv

-----------------------------------------------------------------------------
(* One more character of the pattern.                                      *)
LEMMA ExtendPrefix ==
    ASSUME NEW p \in Seq(Chars), NEW t \in Seq(Chars), NEW i \in 0..(Len(p) - 1), NEW j \in 0..Len(t), NEW k \in j..Len(t),
           PrefixLike(p, t, i, j), Covers(p[i + 1], t, j, k)
    PROVE  PrefixLike(p, t, i + 1, k)
<1>1. PICK cut \in [0..i -> 0..j] : Overlays(cut, p, t, i, j)
  BY DEF PrefixLike
<1> DEFINE longer == [n \in 0..(i + 1) |-> IF n = i + 1 THEN k ELSE cut[n]]
<1>2. longer \in [0..(i + 1) -> 0..k]
  <2>1. \A n \in 0..i : cut[n] \in 0..j
    BY <1>1
  <2>2. QED
    BY <2>1
<1>3. longer[0] = 0 /\ longer[i + 1] = k
  BY <1>1 DEF Overlays
<1>4. \A n \in 1..(i + 1) : Covers(p[n], t, longer[n - 1], longer[n])
  <2> SUFFICES ASSUME NEW n \in 1..(i + 1) PROVE Covers(p[n], t, longer[n - 1], longer[n])
    OBVIOUS
  <2>1. CASE n = i + 1
    <3>1. longer[n - 1] = j /\ longer[n] = k
      BY <1>1, <2>1 DEF Overlays
    <3>2. QED
      BY <2>1, <3>1
  <2>2. CASE n \in 1..i
    <3>1. longer[n - 1] = cut[n - 1] /\ longer[n] = cut[n]
      BY <2>2
    <3>2. QED
      BY <1>1, <2>2, <3>1 DEF Overlays
  <2>3. QED
    BY <2>1, <2>2
<1>5. QED
  BY <1>2, <1>3, <1>4 DEF PrefixLike, Overlays

(* Nothing lies over nothing.                                            *)
LEMMA EmptyPrefix ==
    ASSUME NEW p, NEW t
    PROVE  PrefixLike(p, t, 0, 0)
<1> DEFINE cut == [n \in 0..0 |-> 0]
<1>1. cut \in [0..0 -> 0..0] /\ Overlays(cut, p, t, 0, 0)
  BY DEF Overlays
<1>2. QED
  BY <1>1 DEF PrefixLike

(* Strings and their lower case are sequences of characters.               *)
LEMMA StringsAreSeqs ==
    ASSUME NEW n \in Nat, NEW s \in Strings(n)
    PROVE  s \in Seq(Chars)
BY DEF Strings

(* A name in lower case has the same length.                             *)
LEMMA LowerCaseIsSeq ==
    ASSUME NEW s \in Seq(Chars)
    PROVE  LowerCase(s) \in Seq(Chars) /\ Len(LowerCase(s)) = Len(s)
<1>1. \A i \in 1..Len(s) : s[i] \in Chars
  OBVIOUS
<1>2. \A i \in 1..Len(s) : Lower[s[i]] \in Chars
  BY <1>1, LowerAssumption
<1>3. QED
  BY <1>2 DEF LowerCase

(* The pattern that is compared is one over the alphabet.                *)
LEMMA WrapIsSeq ==
    ASSUME NEW p \in Seq(Chars)
    PROVE  Wrap(p) \in Seq(Chars)
BY WildcardAssumption DEF Wrap

-----------------------------------------------------------------------------
(* The invariants hold at the start.                                     *)
LEMMA InitInv == Init => LoopInv
<1> SUFFICES ASSUME Init PROVE LoopInv
  OBVIOUS
<1>1. name \in Seq(Chars) /\ asked \in Seq(Chars)
  BY StringsAreSeqs, LengthAssumption DEF Init
<1>2. text \in Seq(Chars) /\ pattern \in Seq(Chars)
  BY <1>1, LowerCaseIsSeq, WrapIsSeq DEF Init
<1>3. TypeOK
  BY <1>1, <1>2 DEF Init, TypeOK, NoStar
<1>4. PrefixInv
  <2>1. PrefixLike(pattern, text, 0, 0)
    BY EmptyPrefix
  <2>2. pi = 0 /\ ti = 0 /\ star = NoStar /\ verdict = "running"
    BY DEF Init
  <2>3. PrefixLike(pattern, text, pi, ti)
    BY <2>1, <2>2
  <2>4. QED
    BY <2>2, <2>3 DEF PrefixInv
<1>5. QED
  BY <1>3, <1>4 DEF LoopInv

(* Every step keeps LoopInv.                                             *)
LEMMA NextInv == LoopInv /\ [Next]_vars => LoopInv'
<1> SUFFICES ASSUME LoopInv, [Next]_vars PROVE LoopInv'
  OBVIOUS
<1> USE DEF LoopInv
<1>1. CASE Advance
  <2>1. TypeOK'
    BY <1>1 DEF Advance, TypeOK, Looping, AtLiteral
  <2>2. Covers(pattern[pi + 1], text, ti, ti + 1)
    BY <1>1 DEF Advance, TypeOK, Looping, AtLiteral, Covers
  <2>3. PrefixLike(pattern, text, pi + 1, ti + 1)
    <3>1. /\ text \in Seq(Chars) /\ pattern \in Seq(Chars)
          /\ pi \in 0..(Len(pattern) - 1) /\ ti \in 0..Len(text) /\ ti + 1 \in ti..Len(text)
      BY <1>1 DEF Advance, TypeOK, Looping, AtLiteral
    <3>2. PrefixLike(pattern, text, pi, ti)
      BY DEF PrefixInv
    <3>3. QED
      BY <2>2, <3>1, <3>2, ExtendPrefix
  <2>4. PrefixInv'
    BY <1>1, <2>3 DEF Advance, PrefixInv, Looping
  <2>5. QED
    BY <2>1, <2>4
<1>2. CASE MarkAny
  <2>1. TypeOK'
    BY <1>2 DEF MarkAny, TypeOK, Looping, AtAny, NoStar
  <2>2. Covers(pattern[pi + 1], text, ti, ti)
    BY <1>2 DEF MarkAny, TypeOK, AtAny, Covers
  <2>3. PrefixLike(pattern, text, pi + 1, ti)
    <3>1. /\ text \in Seq(Chars) /\ pattern \in Seq(Chars)
          /\ pi \in 0..(Len(pattern) - 1) /\ ti \in 0..Len(text) /\ ti \in ti..Len(text)
      BY <1>2 DEF MarkAny, TypeOK, AtAny
    <3>2. PrefixLike(pattern, text, pi, ti)
      BY DEF PrefixInv
    <3>3. QED
      BY <2>2, <3>1, <3>2, ExtendPrefix
  <2>4. star' = pi /\ retry' = ti /\ pi' = pi + 1 /\ verdict' = "running"
        /\ UNCHANGED <<pattern, text, ti>>
    BY <1>2 DEF MarkAny, Looping
  <2>7. ti \in 0..ti /\ PrefixLike(pattern, text, pi, ti)
    BY DEF PrefixInv, TypeOK
  <2>8. \E s \in 0..retry' : PrefixLike(pattern', text', star', s)
    BY <2>4, <2>7
  <2>9. PrefixLike(pattern', text', pi', ti')
    BY <2>3, <2>4
  <2>10. PrefixInv'
    BY <2>4, <2>8, <2>9 DEF PrefixInv
  <2>5. QED
    BY <2>1, <2>10
<1>3. CASE Backtrack
  <2>1. TypeOK'
    BY <1>3 DEF Backtrack, TypeOK, Looping, NoStar
  <2>2. PICK s \in 0..retry : PrefixLike(pattern, text, star, s)
    BY <1>3 DEF Backtrack, PrefixInv
  <2>3. Covers(pattern[star + 1], text, s, retry + 1)
    BY <1>3 DEF Backtrack, TypeOK, Covers
  <2>4. PrefixLike(pattern, text, star + 1, retry + 1)
    <3>1. /\ text \in Seq(Chars) /\ pattern \in Seq(Chars)
          /\ star \in 0..(Len(pattern) - 1) /\ s \in 0..Len(text) /\ retry + 1 \in s..Len(text)
      BY <1>3, <2>2 DEF Backtrack, TypeOK, Looping
    <3>2. QED
      BY <2>2, <2>3, <3>1, ExtendPrefix
  <2>5. pi' = star + 1 /\ ti' = retry + 1 /\ retry' = retry + 1 /\ verdict' = "running"
        /\ UNCHANGED <<pattern, text, star>>
    BY <1>3 DEF Backtrack, Looping
  <2>7. s \in 0..(retry + 1)
    BY DEF TypeOK
  <2>8. \E z \in 0..retry' : PrefixLike(pattern', text', star', z)
    BY <2>2, <2>5, <2>7
  <2>9. PrefixLike(pattern', text', pi', ti')
    BY <2>4, <2>5
  <2>10. PrefixInv'
    BY <2>5, <2>8, <2>9 DEF PrefixInv
  <2>6. QED
    BY <2>1, <2>10
<1>4. CASE GiveUp
  BY <1>4 DEF GiveUp, TypeOK, PrefixInv
<1>5. CASE SkipAny
  <2>1. TypeOK'
    BY <1>5 DEF SkipAny, TypeOK, AtAny
  <2>2. Covers(pattern[pi + 1], text, ti, ti)
    BY <1>5 DEF SkipAny, TypeOK, AtAny, Covers
  <2>3. PrefixLike(pattern, text, pi + 1, ti)
    <3>1. /\ text \in Seq(Chars) /\ pattern \in Seq(Chars)
          /\ pi \in 0..(Len(pattern) - 1) /\ ti \in 0..Len(text) /\ ti \in ti..Len(text)
      BY <1>5 DEF SkipAny, TypeOK, AtAny
    <3>2. PrefixLike(pattern, text, pi, ti)
      BY DEF PrefixInv
    <3>3. QED
      BY <2>2, <3>1, <3>2, ExtendPrefix
  <2>4. PrefixInv'
    BY <1>5, <2>3 DEF SkipAny, PrefixInv
  <2>5. QED
    BY <2>1, <2>4
<1>6. CASE TextEnds
  BY <1>6 DEF TextEnds, TypeOK, PrefixInv, Looping
<1>7. CASE UNCHANGED vars
  BY <1>7 DEF vars, TypeOK, PrefixInv
<1>8. QED
  BY <1>1, <1>2, <1>3, <1>4, <1>5, <1>6, <1>7 DEF Next

-----------------------------------------------------------------------------
(* The loop's indices stay inside the two strings, whatever their length.  *)
THEOREM IndicesInside == Spec => []TypeOK
<1>1. LoopInv => TypeOK
  BY DEF LoopInv
<1>2. QED
  BY <1>1, InitInv, NextInv, PTL DEF Spec

(* What the loop compares is the row's name and the query's pattern.       *)
Compared == text = LowerCase(name) /\ pattern = LowerCase(Wrap(asked))

(* A pattern with wildcards is compared as it is.                        *)
LEMMA ComparesTheQuery == Spec => []Compared
<1>1. Init => Compared
  BY DEF Init, Compared
<1>2. Compared /\ [Next]_vars => Compared'
  BY DEF Compared, Next, vars, Advance, MarkAny, Backtrack, GiveUp, SkipAny, TextEnds
<1>3. QED
  BY <1>1, <1>2, PTL DEF Spec

(* A name that is reported matches the pattern as LIKE does: no retry of   *)
(* the last % and no % in the name makes like_match report too much.       *)
THEOREM ReportedMatches == Spec => [](verdict = "yes" => Like(pattern, text))
<1>1. LoopInv => (verdict = "yes" => Like(pattern, text))
  BY DEF LoopInv, PrefixInv, Like
<1>2. QED
  BY <1>1, InitInv, NextInv, PTL DEF Spec

(* For a pattern with wildcards that is what the query asked for.          *)
THEOREM WildcardsAreMeant ==
    Spec => [](verdict = "yes" /\ (Has(asked, Any) \/ Has(asked, One)) => Meant)
<1>1. (verdict = "yes" => Like(pattern, text)) /\ Compared
      => (verdict = "yes" /\ (Has(asked, Any) \/ Has(asked, One)) => Meant)
  <2> SUFFICES ASSUME Compared, Like(pattern, text), Has(asked, Any) \/ Has(asked, One)
               PROVE  Meant
    OBVIOUS
  <2>1. Wrap(asked) = asked
    BY DEF Wrap
  <2>2. Like(LowerCase(asked), LowerCase(name))
    BY <2>1 DEF Compared
  <2>3. QED
    BY <2>2 DEF Meant
<1>2. QED
  BY <1>1, ReportedMatches, ComparesTheQuery, PTL

-----------------------------------------------------------------------------
(* Nothing is missed.  Wherever a match lays the pattern over a text       *)
(* without a %, the loop is never ahead of it, and it is in step with it   *)
(* from the last % on: while there is none, or while the match begins      *)
(* behind that % where the loop does.                                      *)
Follows(cut) ==
    /\ verdict # "no" /\ cut[pi] >= ti
    /\ Looping /\ star = NoStar => cut[pi] = ti
    /\ Looping /\ star # NoStar =>
        /\ cut[star + 1] >= retry
        /\ cut[pi] - cut[star + 1] = pi - star - 1
        /\ ti - retry = pi - star - 1

FollowInv ==
    ~Has(text, Any) =>
        \A cut \in [0..Len(pattern) -> 0..Len(text)] :
            Overlays(cut, pattern, text, Len(pattern), Len(text)) => Follows(cut)

(* What an overlay of the whole pattern says of each of its characters.    *)
LEMMA CutFacts ==
    ASSUME NEW p \in Seq(Chars), NEW t \in Seq(Chars), NEW cut \in [0..Len(p) -> 0..Len(t)],
           Overlays(cut, p, t, Len(p), Len(t))
    PROVE  \A k \in 0..(Len(p) - 1) :
             /\ cut[k] \in 0..Len(t) /\ cut[k + 1] \in 0..Len(t) /\ cut[k] <= cut[k + 1]
             /\ p[k + 1] # Any => cut[k + 1] = cut[k] + 1
             /\ p[k + 1] \notin {Any, One} => t[cut[k] + 1] = p[k + 1]
<1> TAKE k \in 0..(Len(p) - 1)
<1>1. k + 1 \in 1..Len(p) /\ (k + 1) - 1 = k /\ k \in 0..Len(p) /\ k + 1 \in 0..Len(p)
  OBVIOUS
<1>2. Covers(p[k + 1], t, cut[k], cut[k + 1])
  <2>1. \A n \in 1..Len(p) : Covers(p[n], t, cut[n - 1], cut[n])
    BY DEF Overlays
  <2>2. Covers(p[k + 1], t, cut[(k + 1) - 1], cut[k + 1])
    BY <1>1, <2>1
  <2>3. QED
    BY <1>1, <2>2
<1>3. cut[k] \in 0..Len(t) /\ cut[k + 1] \in 0..Len(t)
  BY <1>1
<1>4. QED
  BY <1>2, <1>3, WildcardAssumption DEF Covers

(* Every step keeps FollowInv.                                           *)
LEMMA FollowStep ==
    ASSUME LoopInv, [Next]_vars, ~Has(text, Any),
           NEW cut \in [0..Len(pattern) -> 0..Len(text)],
           Overlays(cut, pattern, text, Len(pattern), Len(text)), Follows(cut)
    PROVE  Follows(cut)'
<1> DEFINE n == Len(pattern)
           m == Len(text)
<1>1. /\ text \in Seq(Chars) /\ pattern \in Seq(Chars) /\ n \in Nat /\ m \in Nat
      /\ ti \in 0..m /\ pi \in 0..n /\ retry \in 0..m /\ retry <= ti
      /\ star \in {NoStar} \cup 0..(n - 1) /\ (star # NoStar => star < pi)
  BY DEF LoopInv, TypeOK
<1>2. \A k \in 0..n : cut[k] \in 0..m
  OBVIOUS
<1>3. \A k \in 0..(n - 1) :
        /\ cut[k] \in 0..m /\ cut[k + 1] \in 0..m /\ cut[k] <= cut[k + 1]
        /\ pattern[k + 1] # Any => cut[k + 1] = cut[k] + 1
        /\ pattern[k + 1] \notin {Any, One} => text[cut[k] + 1] = pattern[k + 1]
  BY <1>1, CutFacts
<1>4. cut[n] = m
  BY DEF Overlays
<1>5. \A i \in 1..m : text[i] # Any
  BY DEF Has
<1>6. Looping => ti + 1 \in 1..m /\ ti < m
  BY <1>1 DEF Looping
<1>7. ASSUME Looping, ~AtLiteral, ~AtAny
      PROVE  cut[pi] # ti
  <2> SUFFICES ASSUME cut[pi] = ti PROVE FALSE
    OBVIOUS
  <2>1. CASE pi = n
    BY <1>4, <1>6, <1>7, <2>1
  <2>2. CASE pi < n
    <3>1. pi \in 0..(n - 1) /\ pattern[pi + 1] \notin {Any, One} /\ pattern[pi + 1] # text[ti + 1]
      BY <1>1, <1>7, <2>2 DEF AtLiteral, AtAny
    <3>2. QED
      BY <1>3, <3>1
  <2>3. QED
    BY <1>1, <2>1, <2>2
<1>8. verdict # "no" /\ cut[pi] >= ti
      /\ (Looping /\ star = NoStar => cut[pi] = ti)
      /\ (Looping /\ star # NoStar => /\ cut[star + 1] >= retry
                                      /\ cut[pi] - cut[star + 1] = pi - star - 1
                                      /\ ti - retry = pi - star - 1)
  BY DEF Follows
<1>10. star # NoStar => star + 1 \in 0..n /\ cut[star + 1] \in 0..m
  BY <1>1, <1>2 DEF NoStar
<1>11. CASE Advance
  <2>1. /\ Looping /\ pi \in 0..(n - 1) /\ pattern[pi + 1] # Any
        /\ ti' = ti + 1 /\ pi' = pi + 1 /\ UNCHANGED <<text, pattern, star, retry, verdict>>
    BY <1>1, <1>5, <1>6, <1>11, WildcardAssumption DEF Advance, AtLiteral
  <2>2. cut[pi + 1] = cut[pi] + 1 /\ cut[pi] \in 0..m
    BY <1>3, <2>1
  <2>3. verdict' # "no" /\ cut[pi'] >= ti'
    BY <1>1, <1>8, <2>1, <2>2
  <2>4. star' = NoStar => cut[pi'] = ti'
    BY <1>1, <1>8, <2>1, <2>2
  <2>5. ASSUME star' # NoStar
        PROVE  /\ cut[star' + 1] >= retry' /\ cut[pi'] - cut[star' + 1] = pi' - star' - 1
               /\ ti' - retry' = pi' - star' - 1
    <3>1. star' = star /\ retry' = retry /\ star # NoStar /\ pi' = pi + 1 /\ ti' = ti + 1
      BY <2>1, <2>5
    <3>2. /\ cut[star + 1] >= retry /\ cut[pi] - cut[star + 1] = pi - star - 1
          /\ ti - retry = pi - star - 1
      BY <1>8, <2>1, <3>1
    <3>3. star \in Int /\ retry \in Int /\ pi \in Int /\ ti \in Int /\ cut[star + 1] \in Int /\ cut[pi] \in Int
      BY <1>1, <1>10, <2>1, <2>2, <3>1
    <3>4. cut[pi + 1] - cut[star + 1] = (pi + 1) - star - 1 /\ (ti + 1) - retry = (pi + 1) - star - 1
      BY <2>2, <3>2, <3>3
    <3>5. QED
      BY <3>1, <3>2, <3>4
  <2>6. QED
    BY <2>3, <2>4, <2>5 DEF Follows
<1>12. CASE MarkAny
  <2>1. /\ Looping /\ pi \in 0..(n - 1) /\ pi # NoStar
        /\ star' = pi /\ pi' = pi + 1 /\ retry' = ti /\ UNCHANGED <<text, pattern, ti, verdict>>
    BY <1>1, <1>12 DEF MarkAny, AtAny, NoStar
  <2>2. cut[pi] <= cut[pi + 1] /\ cut[pi] \in 0..m /\ cut[pi + 1] \in 0..m
    BY <1>3, <2>1
  <2>3. QED
    BY <1>1, <1>8, <2>1, <2>2 DEF Follows, Looping
<1>13. CASE Backtrack
  <2>1. /\ Looping /\ ~AtLiteral /\ ~AtAny /\ star # NoStar /\ pi' = star + 1
        /\ ti' = retry + 1 /\ retry' = retry + 1 /\ UNCHANGED <<text, pattern, star, verdict>>
    BY <1>13 DEF Backtrack
  <2>2. cut[pi] # ti
    BY <1>7, <2>1
  <2>3. cut[star + 1] >= retry /\ cut[pi] - cut[star + 1] = ti - retry /\ cut[pi] \in 0..m /\ cut[star + 1] \in 0..m
    BY <1>1, <1>2, <1>8, <1>10, <2>1
  <2>4. cut[star + 1] >= retry + 1
    BY <1>1, <2>2, <2>3
  <2>5. QED
    BY <1>1, <1>8, <2>1, <2>3, <2>4 DEF Follows, Looping, NoStar
<1>14. CASE GiveUp
  <2>1. Looping /\ ~AtLiteral /\ ~AtAny /\ star = NoStar
    BY <1>14 DEF GiveUp
  <2>2. QED
    BY <1>7, <1>8, <2>1
<1>15. CASE SkipAny
  <2>1. /\ verdict = "running" /\ ~Looping /\ pi \in 0..(n - 1)
        /\ pi' = pi + 1 /\ UNCHANGED <<text, pattern, ti, star, retry, verdict>>
    BY <1>1, <1>15 DEF SkipAny, AtAny
  <2>2. cut[pi] <= cut[pi + 1] /\ cut[pi] \in 0..m /\ cut[pi + 1] \in 0..m
    BY <1>3, <2>1
  <2>3. QED
    BY <1>1, <1>8, <2>1, <2>2 DEF Follows, Looping
<1>16. CASE TextEnds
  <2>1. verdict = "running" /\ ~Looping /\ ~AtAny /\ UNCHANGED <<text, pattern, ti, pi, star, retry>>
        /\ verdict' = IF pi = Len(pattern) THEN "yes" ELSE "no"
    BY <1>16 DEF TextEnds
  <2>2. ti = m
    BY <1>1, <2>1 DEF Looping
  <2>3. pi = n
    <3> SUFFICES ASSUME pi # n PROVE FALSE
      OBVIOUS
    <3>1. pi \in 0..(n - 1) /\ pattern[pi + 1] # Any
      BY <1>1, <2>1 DEF AtAny
    <3>2. QED
      BY <1>1, <1>3, <1>8, <2>2, <3>1
  <2>4. verdict' = "yes"
    BY <2>1, <2>3
  <2>5. QED
    BY <1>8, <2>1, <2>4 DEF Follows, Looping
<1>17. CASE UNCHANGED vars
  BY <1>8, <1>17 DEF vars, Follows, Looping
<1>18. QED
  BY <1>11, <1>12, <1>13, <1>14, <1>15, <1>16, <1>17 DEF Next

(* Name and pattern do not change.                                       *)
LEMMA StringsStay == [Next]_vars => UNCHANGED <<name, asked, text, pattern>>
BY DEF Next, vars, Advance, MarkAny, Backtrack, GiveUp, SkipAny, TextEnds

(* FollowInv holds in every reachable state.                             *)
LEMMA FollowsAll == Spec => []FollowInv
<1>1. Init => FollowInv
  <2> SUFFICES ASSUME Init, NEW cut \in [0..Len(pattern) -> 0..Len(text)],
                      Overlays(cut, pattern, text, Len(pattern), Len(text))
               PROVE  Follows(cut)
    BY DEF FollowInv
  <2>1. pi = 0 /\ ti = 0 /\ star = NoStar /\ verdict = "running" /\ cut[0] = 0
    BY DEF Init, Overlays
  <2>2. QED
    BY <2>1 DEF Follows
<1>2. LoopInv /\ FollowInv /\ [Next]_vars => FollowInv'
  <2> SUFFICES ASSUME LoopInv, FollowInv, [Next]_vars, ~Has(text', Any),
                      NEW cut \in [0..Len(pattern') -> 0..Len(text')],
                      Overlays(cut, pattern', text', Len(pattern'), Len(text'))
               PROVE  Follows(cut)'
    BY DEF FollowInv
  <2>1. text' = text /\ pattern' = pattern
    BY StringsStay
  <2>2. ~Has(text, Any) /\ cut \in [0..Len(pattern) -> 0..Len(text)]
        /\ Overlays(cut, pattern, text, Len(pattern), Len(text))
    BY <2>1
  <2>3. Follows(cut)
    BY <2>2 DEF FollowInv
  <2>4. QED
    BY <2>2, <2>3, FollowStep
<1>3. QED
  BY <1>1, <1>2, InitInv, NextInv, PTL DEF Spec

(* A name that is not reported does not match the compared pattern as LIKE *)
(* does, if it has no % of its own: to give back characters to the last %  *)
(* only, as tables_grep.cpp does, misses nothing.                          *)
THEOREM NothingMissed ==
    Spec => [](verdict = "no" /\ ~Has(text, Any) => ~Like(pattern, text))
<1>1. FollowInv => (verdict = "no" /\ ~Has(text, Any) => ~Like(pattern, text))
  BY DEF FollowInv, Follows, Like, PrefixLike
<1>2. QED
  BY <1>1, FollowsAll, PTL

-----------------------------------------------------------------------------
(* The pattern that the search for q is wrapped into, and what an overlay  *)
(* of it on t is: a run, the characters of q one after the other, a run.   *)
Wrapped(q) == <<Any>> \o q \o <<Any>>
NoWildcards(q) == \A i \in 1..Len(q) : q[i] \notin {Any, One}

(* The characters of a wrapped pattern.                                  *)
LEMMA WrappedFacts ==
    ASSUME NEW q \in Seq(Chars)
    PROVE  /\ Wrapped(q) \in Seq(Chars) /\ Len(q) \in Nat /\ Len(Wrapped(q)) = Len(q) + 2
           /\ Wrapped(q)[1] = Any /\ Wrapped(q)[Len(q) + 2] = Any
           /\ \A k \in 1..Len(q) : Wrapped(q)[k + 1] = q[k]
BY WildcardAssumption DEF Wrapped

(* An occurrence is a match of the wrapped pattern.                        *)
LEMMA OccurrenceMatches ==
    ASSUME NEW q \in Seq(Chars), NoWildcards(q), NEW t \in Seq(Chars), Contains(t, q)
    PROVE  Like(Wrapped(q), t)
<1> DEFINE n == Len(q)
           m == Len(t)
           w == Wrapped(q)
<1>1. PICK d \in 0..(m - n) : \A i \in 1..n : t[d + i] = q[i]
  BY DEF Contains
<1>2. n \in Nat /\ m \in Nat /\ d \in Nat /\ d + n <= m /\ Len(w) = n + 2
  BY WrappedFacts
<1> DEFINE cut == [k \in 0..(n + 2) |-> IF k = 0 THEN 0 ELSE IF k = n + 2 THEN m ELSE d + (k - 1)]
<1>3. cut \in [0..(n + 2) -> 0..m]
  BY <1>2
<1>4. cut[0] = 0 /\ cut[n + 2] = m
  BY <1>2
<1>5. \A k \in 1..(n + 2) : Covers(w[k], t, cut[k - 1], cut[k])
  <2> SUFFICES ASSUME NEW k \in 1..(n + 2) PROVE Covers(w[k], t, cut[k - 1], cut[k])
    OBVIOUS
  <2>1. CASE k = 1
    <3>1. w[k] = Any /\ cut[k - 1] = 0 /\ cut[k] = d
      BY <1>2, <2>1, WrappedFacts
    <3> HIDE DEF cut, w
    <3>2. QED
      BY <1>2, <3>1 DEF Covers
  <2>2. CASE k = n + 2
    <3>1. w[k] = Any /\ cut[k] = m
      BY <1>2, <2>2, WrappedFacts
    <3>2. k - 1 \in 0..(n + 2) /\ k - 1 # n + 2 /\ k - 1 = n + 1
      BY <1>2, <2>2
    <3>3. cut[k - 1] = IF n + 1 = 0 THEN 0 ELSE d + n
      BY <1>2, <3>2
    <3>4. QED
      BY <1>2, <3>1, <3>3 DEF Covers
  <2>3. CASE k \in 2..(n + 1)
    <3>1. k - 1 \in 1..n /\ (k - 1) + 1 = k
      BY <1>2, <2>3
    <3>2. w[k] = q[k - 1] /\ q[k - 1] \notin {Any, One}
      <4>1. w[(k - 1) + 1] = q[k - 1]
        BY <3>1, WrappedFacts
      <4>2. q[k - 1] \notin {Any, One}
        BY <3>1 DEF NoWildcards
      <4>3. QED
        BY <3>1, <4>1, <4>2, Zenon
    <3>3. cut[k - 1] = d + (k - 2) /\ cut[k] = d + (k - 1)
      BY <1>2, <2>3
    <3>4. t[d + (k - 1)] = q[k - 1]
      BY <1>1, <3>1
    <3>5. QED
      BY <1>2, <3>2, <3>3, <3>4 DEF Covers
  <2>4. QED
    BY <1>2, <2>1, <2>2, <2>3
<1>6. QED
  BY <1>2, <1>3, <1>4, <1>5 DEF Like, PrefixLike, Overlays

(* A match of the wrapped pattern is an occurrence: behind the first run   *)
(* each character takes the next place.                                    *)
LEMMA MatchIsOccurrence ==
    ASSUME NEW q \in Seq(Chars), NoWildcards(q), NEW t \in Seq(Chars), Like(Wrapped(q), t)
    PROVE  Contains(t, q)
<1> DEFINE n == Len(q)
           m == Len(t)
           w == Wrapped(q)
<1>1. n \in Nat /\ m \in Nat /\ w \in Seq(Chars) /\ Len(w) = n + 2
  BY WrappedFacts
<1>2. PICK cut \in [0..Len(w) -> 0..m] : Overlays(cut, w, t, Len(w), m)
  BY DEF Like, PrefixLike
<1>3. \A k \in 1..n : cut[k + 1] = cut[k] + 1 /\ t[cut[k] + 1] = q[k] /\ cut[k] \in 0..m /\ cut[k + 1] \in 0..m
  <2>1. \A k \in 0..(Len(w) - 1) :
          /\ cut[k] \in 0..m /\ cut[k + 1] \in 0..m /\ cut[k] <= cut[k + 1]
          /\ w[k + 1] # Any => cut[k + 1] = cut[k] + 1
          /\ w[k + 1] \notin {Any, One} => t[cut[k] + 1] = w[k + 1]
    <3>1. cut \in [0..Len(w) -> 0..Len(t)] /\ Overlays(cut, w, t, Len(w), Len(t)) /\ w \in Seq(Chars)
      BY <1>1, <1>2
    <3> HIDE DEF w
    <3>2. QED
      BY <3>1, CutFacts, Zenon
  <2>2. \A k \in 1..n : k \in 0..(Len(w) - 1) /\ w[k + 1] = q[k] /\ q[k] \notin {Any, One}
    <3>1. \A k \in 1..n : w[k + 1] = q[k]
      BY WrappedFacts
    <3>2. \A k \in 1..n : q[k] \notin {Any, One}
      BY DEF NoWildcards
    <3> HIDE DEF n, w
    <3>3. \A k \in 1..n : k \in 0..(Len(w) - 1)
      BY <1>1
    <3>4. QED
      BY <3>1, <3>2, <3>3
  <2> HIDE DEF n, m, w
  <2>3. TAKE k \in 1..n
  <2>4. k \in 0..(Len(w) - 1) /\ w[k + 1] = q[k] /\ q[k] \notin {Any, One}
    BY <2>2
  <2>5. QED
    BY <2>1, <2>4
<1>4. cut[1] \in 0..m /\ \A k \in 0..n : cut[k + 1] \in 0..m
  <2>1. cut \in [0..(n + 2) -> 0..m]
    BY <1>1, <1>2
  <2>2. 1 \in 0..(n + 2) /\ \A k \in 0..n : k + 1 \in 0..(n + 2)
    BY <1>1
  <2> HIDE DEF n, m
  <2>3. QED
    BY <2>1, <2>2
<1>5. \A k \in 0..n : cut[k + 1] = cut[1] + k
  <2> DEFINE Strays == {k \in 0..n : cut[k + 1] # cut[1] + k}
  <2> SUFFICES ASSUME Strays # {} PROVE FALSE
    OBVIOUS
  <2>1. PICK k \in Strays : \A i \in Strays : k <= i
    <3>1. Strays \in SUBSET Nat
      BY <1>1
    <3> HIDE DEF Strays
    <3>2. QED
      BY <3>1, Facts!LeastNumber
  <2>2. k \in 0..n /\ k # 0 /\ cut[k + 1] # cut[1] + k
    BY <1>1, <1>4, <2>1
  <2>3. k - 1 \in 0..n /\ k \in 1..n /\ (k - 1) + 1 = k /\ ~(k <= k - 1)
    BY <1>1, <2>2
  <2>6. k - 1 \notin Strays
    BY <2>1, <2>3
  <2>4. cut[k] = cut[1] + (k - 1)
    BY <2>3, <2>6
  <2>5. cut[k + 1] = cut[k] + 1 /\ cut[1] \in 0..m
    BY <1>3, <1>4, <2>3
  <2> HIDE DEF n, m, Strays
  <2>7. QED
    BY <1>1, <2>2, <2>3, <2>4, <2>5
<1>6. cut[1] + n <= m
  <2>1. n \in 0..n
    BY <1>1
  <2>2. cut[n + 1] = cut[1] + n /\ cut[n + 1] \in 0..m
    BY <1>4, <1>5, <2>1
  <2>3. QED
    BY <1>1, <2>2
<1>7. \A i \in 1..n : t[cut[1] + i] = q[i]
  <2> SUFFICES ASSUME NEW i \in 1..n PROVE t[cut[1] + i] = q[i]
    OBVIOUS
  <2>1. i - 1 \in 0..n /\ (i - 1) + 1 = i /\ t[cut[i] + 1] = q[i]
    BY <1>1, <1>3
  <2>2. cut[i] = cut[1] + (i - 1)
    BY <1>5, <2>1
  <2>3. cut[i] + 1 = cut[1] + i
    BY <1>1, <1>4, <2>2
  <2>4. QED
    BY <2>1, <2>3
<1>8. cut[1] \in 0..(m - n)
  BY <1>1, <1>4, <1>6
<1>9. QED
  BY <1>7, <1>8 DEF Contains

-----------------------------------------------------------------------------
(* Folding the case makes no wildcard and hides none.                      *)
LEMMA LowerKeepsWildcards ==
    ASSUME NEW s \in Seq(Chars), NEW c \in {Any, One}
    PROVE  Has(LowerCase(s), c) <=> Has(s, c)
<1>1. Len(LowerCase(s)) = Len(s) /\ \A i \in 1..Len(s) : LowerCase(s)[i] = Lower[s[i]] /\ s[i] \in Chars
  BY LowerCaseIsSeq DEF LowerCase
<1>2. \A i \in 1..Len(s) : LowerCase(s)[i] = c <=> s[i] = c
  BY <1>1, LowerAssumption
<1>3. QED
  BY <1>1, <1>2 DEF Has

(* The comparison is folded after the wrapping, the meaning before it.     *)
LEMMA LowerOfWrapped ==
    ASSUME NEW s \in Seq(Chars)
    PROVE  LowerCase(Wrapped(s)) = Wrapped(LowerCase(s))
<1> DEFINE l == LowerCase(s)
           n == Len(s)
<1>1. l \in Seq(Chars) /\ Len(l) = n /\ n \in Nat /\ \A i \in 1..n : l[i] = Lower[s[i]]
  BY LowerCaseIsSeq DEF LowerCase
<1>2. /\ Wrapped(s) \in Seq(Chars) /\ Len(Wrapped(s)) = n + 2
      /\ Wrapped(s)[1] = Any /\ Wrapped(s)[n + 2] = Any /\ \A k \in 1..n : Wrapped(s)[k + 1] = s[k]
  BY WrappedFacts
<1>3. /\ Wrapped(l) \in Seq(Chars) /\ Len(Wrapped(l)) = n + 2
      /\ Wrapped(l)[1] = Any /\ Wrapped(l)[n + 2] = Any /\ \A k \in 1..n : Wrapped(l)[k + 1] = l[k]
  <2> HIDE DEF l
  <2> QED BY <1>1, WrappedFacts
<1>4. LowerCase(Wrapped(s)) \in Seq(Chars) /\ Len(LowerCase(Wrapped(s))) = n + 2
      /\ \A k \in 1..(n + 2) : LowerCase(Wrapped(s))[k] = Lower[Wrapped(s)[k]]
  BY <1>2, LowerCaseIsSeq DEF LowerCase
<1>5. \A k \in 1..(n + 2) : LowerCase(Wrapped(s))[k] = Wrapped(l)[k]
  <2> SUFFICES ASSUME NEW k \in 1..(n + 2) PROVE LowerCase(Wrapped(s))[k] = Wrapped(l)[k]
    OBVIOUS
  <2>1. CASE k = 1 \/ k = n + 2
    BY <1>1, <1>2, <1>3, <1>4, <2>1, LowerAssumption
  <2>2. CASE k \in 2..(n + 1)
    <3>1. k - 1 \in 1..n /\ (k - 1) + 1 = k
      BY <1>1, <2>2
    <3>2. Wrapped(s)[k] = s[k - 1] /\ Wrapped(l)[k] = l[k - 1] /\ l[k - 1] = Lower[s[k - 1]]
      BY <1>1, <1>2, <1>3, <3>1
    <3>3. QED
      BY <1>4, <3>2
  <2>3. QED
    BY <1>1, <2>1, <2>2
<1> HIDE DEF l
<1>6. QED
  <2> DEFINE a == LowerCase(Wrapped(s))
             b == Wrapped(l)
  <2>1. a \in Seq(Chars) /\ b \in Seq(Chars) /\ Len(a) = Len(b) /\ \A k \in 1..Len(a) : a[k] = b[k]
    BY <1>1, <1>3, <1>4, <1>5
  <2> HIDE DEF a, b
  <2>2. a = b
    BY <2>1
  <2>3. QED
    BY <2>2 DEF a, b, l

(* So the compared pattern says of the compared text what was asked of the *)
(* name, with and without wildcards.                                       *)
LEMMA LikeIsMeant ==
    ASSUME TypeOK, Compared
    PROVE  Like(pattern, text) <=> Meant
<1>1. asked \in Seq(Chars) /\ name \in Seq(Chars) /\ text = LowerCase(name) /\ pattern = LowerCase(Wrap(asked))
  BY DEF TypeOK, Compared
<1>2. CASE Has(asked, Any) \/ Has(asked, One)
  BY <1>1, <1>2 DEF Wrap, Meant
<1>3. CASE ~(Has(asked, Any) \/ Has(asked, One))
  <2> DEFINE q == LowerCase(asked)
  <2>1. q \in Seq(Chars) /\ text \in Seq(Chars) /\ ~Has(q, Any) /\ ~Has(q, One)
    BY <1>1, <1>3, LowerCaseIsSeq, LowerKeepsWildcards
  <2>2. NoWildcards(q)
    <3> HIDE DEF q
    <3> QED BY <2>1 DEF NoWildcards, Has
  <2>3. pattern = Wrapped(q)
    BY <1>1, <1>3, LowerOfWrapped DEF Wrap, Wrapped
  <2>4. Like(Wrapped(q), text) <=> Contains(text, q)
    <3> HIDE DEF q
    <3> QED BY <2>1, <2>2, OccurrenceMatches, MatchIsOccurrence
  <2>5. QED
    BY <1>1, <1>3, <2>3, <2>4 DEF Meant
<1>4. QED
  BY <1>2, <1>3

(* grep reports exactly the names that were meant, but for names with a %  *)
(* of their own, which like_match may miss (tables_grep.cpp:95-104).       *)
THEOREM VerdictCorrect == Spec => []VerdictIsMeant
<1>1. /\ TypeOK /\ Compared
      /\ (verdict = "yes" => Like(pattern, text))
      /\ (verdict = "no" /\ ~Has(text, Any) => ~Like(pattern, text))
      => VerdictIsMeant
  <2> SUFFICES ASSUME TypeOK, Compared, verdict = "yes" => Like(pattern, text),
                      verdict = "no" /\ ~Has(text, Any) => ~Like(pattern, text)
               PROVE  VerdictIsMeant
    OBVIOUS
  <2>1. Like(pattern, text) <=> Meant
    BY LikeIsMeant
  <2>2. Has(text, Any) <=> Has(name, Any)
    BY LowerKeepsWildcards DEF Compared, TypeOK
  <2>3. QED
    BY <2>1, <2>2 DEF VerdictIsMeant
<1>2. QED
  BY <1>1, IndicesInside, ComparesTheQuery, ReportedMatches, NothingMissed, PTL
=============================================================================
