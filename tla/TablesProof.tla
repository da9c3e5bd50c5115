----------------------------- MODULE TablesProof -----------------------------
(***************************************************************************)
(* Proofs about Tables and JsonUtils: sequences put together and chosen    *)
(* from, addresses of any width, base64, the inductive invariant, and that *)
(* what a statement offers is what its table holds.  The theorems about a  *)
(* statement are at the end.                                               *)
(***************************************************************************)
EXTENDS Tables, SeqFacts

-----------------------------------------------------------------------------
(* The inductive invariant: how far the statement has come, told from the  *)
(* functions that are still to be read and the rows that were read and not *)
(* handed out.                                                             *)

IsSeq(s) == s \in Seq(ToSet(s))

(* The columns whose filter a table takes.                                 *)
FilterColumns(table) ==
    CASE table \in Streamed -> {"func_addr"} [] table = "xrefs" -> {"from_addr", "to_addr"} [] table = "grep" -> {"pattern"}
      [] OTHER -> {}

(* radare2 holds what it held, or what the project holds that was opened;  *)
(* an INSERT is the end of its statement.                                  *)
MemInv ==
    /\ query \in Queries /\ before \in Cores(query.table)
    /\ IF query.table = "comments" THEN pc # "done" => mem = before
       ELSE mem = before \/ (pc # "plan" /\ mem \in Projects(query.table))

CursorInv ==
    /\ pc \in {"plan", "rows", "done"} /\ plan \in {"scan", "filter"}
    /\ pc = "plan" => plan = "scan" /\ rows = <<>>
    /\ pc # "rows" => funcs_ = <<>> /\ buf = <<>>
    /\ funcs_ # <<>> => plan = "scan" /\ query.table \in Streamed
    /\ plan = "filter" => query.column \in FilterColumns(query.table)
    /\ query.table = "grep" /\ pc # "plan" => query.column = IF plan = "filter" THEN "pattern" ELSE "none"
    /\ pc # "plan" => query.table \in Streamed \cup Cached \cup {"comments"}
    /\ query.table = "comments" => pc # "rows"
    /\ funcs_ \in Seq(Int64)
    /\ IsSeq(rows) /\ IsSeq(buf)

(* No row shows an address that SQLite could not hold.                     *)
Addressed(s) == \A row \in ToSet(s) : RowAddresses(row) \subseteq Int64
RowsInv == Addressed(rows) /\ Addressed(buf)

(* The first k functions have been read.                                   *)
ScanInv ==
    query.table \in Streamed /\ query.column = "none" /\ pc # "plan" =>
        LET F == FuncAddrs(before)
            seen == rows \o buf
        IN \E k \in 0..Len(F) :
              /\ funcs_ = SubSeq(F, k + 1, Len(F))
              /\ \A i \in 1..k : OfFunction(seen, F[i]) \in {Found(query.table, before)[F[i]], Found(query.table, mem)[F[i]]}
              /\ \A r \in ToSet(seen) : \E i \in 1..k : r.func_addr = F[i]

(* All the rows that a statement is given to keep.                         *)
CacheOf(q, m) ==
    CASE q.table = "xrefs" -> XrefsCache(m) [] q.table = "types" -> TypesCache(m)
      [] q.table = "types_members" -> MembersCache(m)
      [] q.table = "strings" -> StringsCache(m, IF q.column = "text" THEN {4} ELSE {})
      [] q.table = "imports" -> ImportsCache(m) [] q.table = "exports" -> ExportsCache(m)
      [] q.table = "sections" -> SectionsCache(m) [] q.table = "segments" -> SegmentsCache(m)
      [] q.table = "welcome" -> WelcomeCache(m) [] q.table = "grep" -> BuildGrepRows(m)
FilterOf(q, m) ==
    CASE q.table \in Streamed -> Found(q.table, m)[q.value]
      [] q.table = "xrefs" -> IF q.column = "to_addr" THEN XrefsToAddr(m, q.value) ELSE XrefsFromAddr(m, q.value)
      [] q.table = "grep" -> Matching(BuildGrepRows(m), q.value)
Offered(q, p, m) ==
    IF p = "filter" THEN FilterOf(q, m)
    ELSE IF q.table \in Streamed THEN Joined(FuncAddrs(m), Found(q.table, m)) ELSE CacheOf(q, m)

Kept(q, s) == Select(s, LAMBDA row : q.column \in {"none", "pattern"} \/ row[q.column] = q.value)
Left(m) == buf \o Joined(funcs_, Found(query.table, m))

(* Without a change in between, the rows kept and those still to come are  *)
(* all that are to be kept.                                                *)
AnswerInv ==
    pc # "plan" /\ mem = before /\ query.table \in Streamed \cup Cached =>
        rows \o Kept(query, Left(mem)) = Kept(query, Offered(query, plan, mem))

TablesInvariant == MemInv /\ CursorInv /\ RowsInv /\ ScanInv /\ AnswerInv /\ TextArrives

-----------------------------------------------------------------------------
(* Sequences put together                                                  *)

(* up[i] is what there is of the first i elements of s.                    *)
JoinsUpTo(up, s, f, n) ==
    /\ up = [i \in 0..n |-> up[i]] /\ up[0] = <<>>
    /\ \A i \in 1..n : up[i] = up[i - 1] \o f[s[i]]

(* There is such a function for the first n elements.                    *)
LEMMA JoinsExist ==
    ASSUME NEW s, NEW f, NEW n \in Nat
    PROVE  \E up : JoinsUpTo(up, s, f, n)
<1> DEFINE B == {i \in 0..n : \E up : JoinsUpTo(up, s, f, i)}
<1>1. 0 \in B
  <2> DEFINE none == [i \in 0..0 |-> <<>>]
  <2>1. none = [i \in 0..0 |-> none[i]] /\ none[0] = <<>> /\ \A i \in 1..0 : FALSE
    OBVIOUS
  <2> HIDE DEF none
  <2>2. JoinsUpTo(none, s, f, 0)
    BY <2>1 DEF JoinsUpTo
  <2> QED BY <2>2
<1>2. ASSUME NEW i \in 1..n, i - 1 \in B PROVE i \in B
  <2>1. PICK up : JoinsUpTo(up, s, f, i - 1)
    BY <1>2
  <2> DEFINE next == up[i - 1] \o f[s[i]]
             longer == [k \in 0..i |-> IF k = i THEN next ELSE up[k]]
  <2>2. longer = [k \in 0..i |-> longer[k]]
    OBVIOUS
  <2>3. longer[i] = next /\ \A k \in 0..(i - 1) : longer[k] = up[k]
    OBVIOUS
  <2> HIDE DEF longer
  <2>4. up[0] = <<>> /\ \A k \in 1..(i - 1) : up[k] = up[k - 1] \o f[s[k]]
    BY <2>1 DEF JoinsUpTo
  <2>5. longer[0] = <<>>
    BY <2>3, <2>4
  <2>6. ASSUME NEW k \in 1..i PROVE longer[k] = longer[k - 1] \o f[s[k]]
    <3>1. CASE k = i
      <4>1. i - 1 \in 0..(i - 1)
        OBVIOUS
      <4>2. longer[i] = up[i - 1] \o f[s[i]] /\ longer[i - 1] = up[i - 1]
        BY <2>3, <4>1, Zenon
      <4> QED BY <3>1, <4>2, Zenon
    <3>2. CASE k \in 1..(i - 1)
      <4>1. k \in 0..(i - 1) /\ k - 1 \in 0..(i - 1)
        BY <3>2
      <4> HIDE DEF next
      <4>2. longer[k] = up[k] /\ longer[k - 1] = up[k - 1] /\ up[k] = up[k - 1] \o f[s[k]]
        BY <2>3, <2>4, <3>2, <4>1
      <4> QED BY <4>2, Zenon
    <3>3. k = i \/ k \in 1..(i - 1)
      OBVIOUS
    <3> QED BY <3>1, <3>2, <3>3, Zenon
  <2>7. JoinsUpTo(longer, s, f, i)
    BY <2>2, <2>5, <2>6 DEF JoinsUpTo
  <2> QED BY <2>7
<1>3. \A i \in 0..n : i \in B
  <2> HIDE DEF B
  <2> QED BY <1>1, <1>2, StepByStep
<1> QED BY <1>3

(* Joined is the last value of such a function.                          *)
LEMMA JoinedSteps ==
    ASSUME NEW S, NEW s \in Seq(S), NEW f
    PROVE  \E up : JoinsUpTo(up, s, f, Len(s)) /\ Joined(s, f) = up[Len(s)]
<1> DEFINE L == Len(s)
           Adds(g) == [i \in 0..L |-> IF i = 0 THEN <<>> ELSE g[i - 1] \o f[s[i]]]
           upto == CHOOSE g : g = Adds(g)
<1>1. Joined(s, f) = upto[L]
  BY Zenon DEF Joined
<1>2. L \in Nat
  OBVIOUS
<1>3. PICK up : JoinsUpTo(up, s, f, L)
  BY <1>2, JoinsExist
<1>4. up = Adds(up)
  <2>1. up = [i \in 0..L |-> up[i]]
    BY <1>3 DEF JoinsUpTo
  <2>2. \A i \in 0..L : up[i] = IF i = 0 THEN <<>> ELSE up[i - 1] \o f[s[i]]
    BY <1>2, <1>3 DEF JoinsUpTo
  <2>3. Adds(up) = [i \in 0..L |-> up[i]]
    BY <2>2
  <2> QED BY <2>1, <2>3
<1>5. upto = Adds(upto)
  BY <1>4
<1> HIDE DEF upto
<1>6. upto = [i \in 0..L |-> upto[i]]
  BY <1>5
<1>7. upto[0] = <<>> /\ \A i \in 1..L : upto[i] = upto[i - 1] \o f[s[i]]
  <2>1. \A i \in 0..L : upto[i] = IF i = 0 THEN <<>> ELSE upto[i - 1] \o f[s[i]]
    BY <1>5
  <2> HIDE DEF L, Step
  <2>2. 0 \in 0..L /\ \A i \in 1..L : i \in 0..L /\ i # 0
    BY <1>2
  <2> QED BY <2>1, <2>2, Zenon
<1> QED BY <1>1, <1>6, <1>7 DEF JoinsUpTo

(* Two that agree element by element agree.                                *)
LEMMA SameJoins ==
    ASSUME NEW n \in Nat, NEW s, NEW f, NEW up, JoinsUpTo(up, s, f, n),
           NEW m \in 0..n, NEW t, NEW g, NEW vp, JoinsUpTo(vp, t, g, m),
           \A i \in 1..m : f[s[i]] = g[t[i]]
    PROVE  \A i \in 0..m : up[i] = vp[i]
<1> DEFINE B == {i \in 0..m : up[i] = vp[i]}
<1>1. 0 \in B
  BY DEF JoinsUpTo
<1>2. ASSUME NEW i \in 1..m, i - 1 \in B PROVE i \in B
  <2>1. i \in 1..n /\ i \in 0..m
    OBVIOUS
  <2>2. up[i - 1] = vp[i - 1] /\ f[s[i]] = g[t[i]]
    BY <1>2
  <2>3. up[i] = up[i - 1] \o f[s[i]] /\ vp[i] = vp[i - 1] \o g[t[i]]
    BY <2>1, Zenon DEF JoinsUpTo
  <2>4. up[i] = vp[i]
    BY <2>2, <2>3, Zenon
  <2> QED BY <2>1, <2>4
<1>3. \A i \in 0..m : i \in B
  <2> HIDE DEF B
  <2> QED BY <1>1, <1>2, StepByStep
<1> QED BY <1>3

(* Nothing is put together of no elements.                               *)
LEMMA JoinedEmpty == ASSUME NEW f PROVE Joined(<<>>, f) = <<>>
<1>1. <<>> \in Seq({}) /\ Len(<<>>) = 0
  OBVIOUS
<1> QED BY <1>1, JoinedSteps DEF JoinsUpTo

(* Only what f has for the elements of s matters.                        *)
LEMMA JoinedSame ==
    ASSUME NEW S, NEW s \in Seq(S), NEW f, NEW g, \A i \in 1..Len(s) : f[s[i]] = g[s[i]]
    PROVE  Joined(s, f) = Joined(s, g)
<1>1. PICK up : JoinsUpTo(up, s, f, Len(s)) /\ Joined(s, f) = up[Len(s)]
  BY JoinedSteps
<1>2. PICK vp : JoinsUpTo(vp, s, g, Len(s)) /\ Joined(s, g) = vp[Len(s)]
  BY JoinedSteps
<1>3. Len(s) \in Nat /\ Len(s) \in 0..Len(s)
  OBVIOUS
<1>4. \A i \in 0..Len(s) : up[i] = vp[i]
  BY <1>1, <1>2, <1>3, SameJoins
<1> QED BY <1>1, <1>2, <1>3, <1>4

(* One more element adds what f has for it.                              *)
LEMMA JoinedAppend ==
    ASSUME NEW S, NEW s \in Seq(S), NEW e \in S, NEW f
    PROVE  Joined(Append(s, e), f) = Joined(s, f) \o f[e]
<1> DEFINE n == Len(s)
           t == Append(s, e)
<1>1. t \in Seq(S) /\ Len(t) = n + 1 /\ n \in Nat /\ t[n + 1] = e /\ \A i \in 1..n : t[i] = s[i]
  BY AppendFacts
<1> HIDE DEF t
<1>2. PICK up : JoinsUpTo(up, s, f, n) /\ Joined(s, f) = up[n]
  BY JoinedSteps
<1>3. PICK vp : JoinsUpTo(vp, t, f, n + 1) /\ Joined(t, f) = vp[n + 1]
  BY <1>1, JoinedSteps
<1> HIDE DEF n
<1>4. n \in 0..(n + 1) /\ n + 1 \in Nat /\ n \in 0..n /\ n + 1 \in 1..(n + 1) /\ (n + 1) - 1 = n
  BY <1>1
<1>5. \A i \in 0..n : vp[i] = up[i]
  BY <1>1, <1>2, <1>3, <1>4, SameJoins
<1>6. vp[n + 1] = vp[(n + 1) - 1] \o f[t[n + 1]]
  BY <1>3, <1>4 DEF JoinsUpTo
<1> QED BY <1>1, <1>2, <1>3, <1>4, <1>5, <1>6 DEF t

(* The type of what is joined, and its elements.                           *)
LEMMA JoinedFacts ==
    ASSUME NEW S, NEW s \in Seq(S), NEW T, NEW f, \A i \in 1..Len(s) : f[s[i]] \in Seq(T)
    PROVE  /\ Joined(s, f) \in Seq(T)
           /\ \A x : x \in ToSet(Joined(s, f)) <=> \E i \in 1..Len(s) : x \in ToSet(f[s[i]])
<1> DEFINE L == Len(s)
<1>1. L \in Nat /\ L \in 0..L
  OBVIOUS
<1>2. PICK up : JoinsUpTo(up, s, f, L) /\ Joined(s, f) = up[L]
  BY JoinedSteps
<1> HIDE DEF L
<1> DEFINE Right(i) == /\ up[i] \in Seq(T)
                       /\ \A x : x \in ToSet(up[i]) <=> \E j \in 1..i : x \in ToSet(f[s[j]])
           B == {i \in 0..L : Right(i)}
<1>3. 0 \in B
  <2>1. up[0] = <<>>
    BY <1>2 DEF JoinsUpTo
  <2>2. <<>> \in Seq(T) /\ \A x : x \notin ToSet(<<>>)
    BY DEF ToSet
  <2>3. Right(0)
    BY <2>1, <2>2
  <2> QED BY <1>1, <2>3
<1>4. ASSUME NEW i \in 1..L, i - 1 \in B PROVE i \in B
  <2>1. up[i] = up[i - 1] \o f[s[i]]
    BY <1>2, Zenon DEF JoinsUpTo
  <2>2. f[s[i]] \in Seq(T)
    BY DEF L
  <2>3. Right(i - 1)
    BY <1>4
  <2>4. up[i] \in Seq(T)
    BY <2>1, <2>2, <2>3
  <2>5. ASSUME NEW x PROVE x \in ToSet(up[i]) <=> x \in ToSet(up[i - 1]) \/ x \in ToSet(f[s[i]])
    <3>1. up[i - 1] \in Seq(T)
      BY <2>3
    <3> QED BY <2>1, <2>2, <3>1, ToSetConcat
  <2>6. ASSUME NEW x PROVE x \in ToSet(up[i]) <=> \E j \in 1..i : x \in ToSet(f[s[j]])
    <3>1. x \in ToSet(up[i - 1]) <=> \E j \in 1..(i - 1) : x \in ToSet(f[s[j]])
      BY <2>3
    <3>2. \A j \in 1..i : j \in 1..(i - 1) \/ j = i
      OBVIOUS
    <3>3. i \in 1..i /\ \A j \in 1..(i - 1) : j \in 1..i
      OBVIOUS
    <3> QED BY <2>5, <3>1, <3>2, <3>3, Zenon
  <2> QED BY <1>1, <2>4, <2>6
<1>5. \A i \in 0..L : i \in B
  <2> HIDE DEF B
  <2> QED BY <1>1, <1>3, <1>4, StepByStep
<1>6. Right(L)
  BY <1>1, <1>5
<1> QED BY <1>2, <1>6 DEF L

(* Each of two sequences after the other.                                  *)
JoinApart(s, t, f) == Joined(s \o t, f) = Joined(s, f) \o Joined(t, f)

Regrouped(x, y, z) == (x \o y) \o z = x \o (y \o z)

(* Appending sequences is associative.                                     *)
LEMMA Regroup ==
    ASSUME NEW T, NEW x \in Seq(T), NEW y \in Seq(T), NEW z \in Seq(T)
    PROVE  Regrouped(x, y, z)
BY ConcatAssociative DEF Regrouped

(* The parts of a list can be put together one after the other.          *)
LEMMA JoinedConcat ==
    ASSUME NEW S, NEW s \in Seq(S), NEW t \in Seq(S), NEW T, NEW f, \A x \in S : f[x] \in Seq(T)
    PROVE  JoinApart(s, t, f)
<1> DEFINE n == Len(s)
           m == Len(t)
           u == s \o t
<1>1. /\ u \in Seq(S) /\ Len(u) = n + m /\ n \in Nat /\ m \in Nat
      /\ \A k \in 1..n : u[k] = s[k]
      /\ \A k \in 1..m : u[n + k] = t[k]
  BY ConcatFacts
<1> HIDE DEF u
<1>2. PICK up : JoinsUpTo(up, u, f, n + m) /\ Joined(u, f) = up[n + m]
  BY <1>1, JoinedSteps
<1>3. PICK vp : JoinsUpTo(vp, s, f, n) /\ Joined(s, f) = vp[n]
  BY JoinedSteps
<1>4. PICK wp : JoinsUpTo(wp, t, f, m) /\ Joined(t, f) = wp[m]
  BY JoinedSteps
<1>5. n \in 0..(n + m) /\ n + m \in Nat /\ n \in 0..n /\ m \in 0..m
  BY <1>1
<1>6. up[n] = vp[n]
  <2>1. \A i \in 0..n : up[i] = vp[i]
    <3>1. \A i \in 1..n : f[u[i]] = f[s[i]]
      BY <1>1, Zenon
    <3>2. JoinsUpTo(up, u, f, n + m) /\ JoinsUpTo(vp, s, f, n) /\ n + m \in Nat /\ n \in 0..(n + m)
      BY <1>2, <1>3, <1>5
    <3> DEFINE nm == n + m
    <3> HIDE DEF n, m, nm
    <3>3. JoinsUpTo(up, u, f, nm) /\ JoinsUpTo(vp, s, f, n) /\ nm \in Nat /\ n \in 0..nm
      BY <3>2 DEF nm
    <3> QED BY <3>1, <3>3, SameJoins
  <2> QED BY <1>5, <2>1
<1>7. vp[n] \in Seq(T)
  <2>1. \A i \in 1..Len(s) : f[s[i]] \in Seq(T)
    OBVIOUS
  <2> QED BY <1>3, <2>1, JoinedFacts
<1>8. \A i \in 1..m : f[t[i]] \in Seq(T)
  OBVIOUS
<1> HIDE DEF n, m
<1> DEFINE B == {i \in 0..m : wp[i] \in Seq(T) /\ up[n + i] = vp[n] \o wp[i]}
<1>9. 0 \in B
  <2>1. wp[0] = <<>> /\ n + 0 = n
    BY <1>1, <1>4 DEF JoinsUpTo
  <2>2. vp[n] \o <<>> = vp[n] /\ <<>> \in Seq(T)
    BY <1>7
  <2>3. up[n + 0] = vp[n] \o wp[0]
    BY <1>6, <2>1, <2>2, Zenon
  <2>4. 0 \in 0..m /\ wp[0] \in Seq(T)
    BY <1>1, <2>1, <2>2
  <2> QED BY <2>3, <2>4, Zenon
<1>10. ASSUME NEW i \in 1..m, i - 1 \in B PROVE i \in B
  <2>1. wp[i] = wp[i - 1] \o f[t[i]]
    BY <1>4, Zenon DEF JoinsUpTo
  <2>2. n + i \in 1..(n + m) /\ (n + i) - 1 = n + (i - 1) /\ i \in 0..m
    BY <1>1
  <2>3. up[n + i] = up[(n + i) - 1] \o f[u[n + i]]
    BY <1>2, <2>2, Zenon DEF JoinsUpTo
  <2>4. up[n + i] = up[n + (i - 1)] \o f[t[i]]
    BY <1>1, <2>2, <2>3, Zenon
  <2>5. wp[i - 1] \in Seq(T) /\ up[n + (i - 1)] = vp[n] \o wp[i - 1]
    BY <1>10
  <2>6. (vp[n] \o wp[i - 1]) \o f[t[i]] = vp[n] \o (wp[i - 1] \o f[t[i]])
    <3>1. f[t[i]] \in Seq(T) /\ vp[n] \in Seq(T) /\ wp[i - 1] \in Seq(T)
      BY <1>7, <1>8, <2>5
    <3> DEFINE x == vp[n]
               y == wp[i - 1]
               z == f[t[i]]
    <3> HIDE DEF x, y, z
    <3>2. x \in Seq(T) /\ y \in Seq(T) /\ z \in Seq(T)
      BY <3>1 DEF x, y, z
    <3>3. Regrouped(x, y, z)
      BY <3>2, Regroup
    <3> QED BY <3>3, Zenon DEF x, y, z, Regrouped
  <2>7. wp[i] \in Seq(T)
    BY <1>8, <2>1, <2>5
  <2>8. up[n + i] = vp[n] \o wp[i]
    BY <2>1, <2>4, <2>5, <2>6, Zenon
  <2> QED BY <2>2, <2>7, <2>8
<1>11. \A i \in 0..m : i \in B
  <2> HIDE DEF B
  <2> QED BY <1>1, <1>9, <1>10, StepByStep
<1>12. up[n + m] = vp[n] \o wp[m]
  BY <1>5, <1>11
<1> QED BY <1>2, <1>3, <1>4, <1>12, Zenon DEF u, JoinApart

(* One element alone.                                                    *)
LEMMA JoinedOne ==
    ASSUME NEW S, NEW e \in S, NEW T, NEW f, f[e] \in Seq(T)
    PROVE  Joined(<<e>>, f) = f[e]
<1>1. <<>> \in Seq(S) /\ Append(<<>>, e) = <<e>>
  OBVIOUS
<1>2. Joined(<<e>>, f) = Joined(<<>>, f) \o f[e]
  BY <1>1, JoinedAppend
<1>3. <<>> \o f[e] = f[e]
  OBVIOUS
<1> QED BY <1>2, <1>3, JoinedEmpty

(* Of the elements of s that have nothing none is missed.                  *)
LEMMA JoinedNothing ==
    ASSUME NEW S, NEW s \in Seq(S), NEW f, \A i \in 1..Len(s) : f[s[i]] = <<>>
    PROVE  Joined(s, f) = <<>>
<1>1. \A i \in 1..Len(s) : f[s[i]] \in Seq({})
  <2>1. <<>> \in Seq({})
    OBVIOUS
  <2> QED BY <2>1, Zenon
<1>2. Joined(s, f) \in Seq({})
  BY <1>1, JoinedFacts
<1> QED BY <1>2

(* The first element that has anything, and what follows.                  *)
NoneBefore(s, f, k) == \A j \in 1..(k - 1) : f[s[j]] = <<>>
SplitsAt(s, f, k) == Joined(s, f) = f[s[k]] \o Joined(SubSeq(s, k + 1, Len(s)), f)

(* What comes before the first element that has anything adds nothing.   *)
LEMMA JoinedFirst ==
    ASSUME NEW S, NEW s \in Seq(S), NEW T, NEW f, \A x \in S : f[x] \in Seq(T),
           NEW k \in 1..Len(s), NoneBefore(s, f, k)
    PROVE  SubSeq(s, k + 1, Len(s)) \in Seq(S) /\ SplitsAt(s, f, k)
<1> DEFINE a == SubSeq(s, 1, k - 1)
           b == SubSeq(s, k + 1, Len(s))
<1>1. Len(s) \in Nat /\ s[k] \in S /\ k \in Nat
  OBVIOUS
<1>2. a \in Seq(S) /\ Len(a) = k - 1 /\ \A j \in 1..(k - 1) : a[j] = s[j]
  BY <1>1
<1>3. b \in Seq(S) /\ Len(b) = Len(s) - k /\ \A j \in 1..(Len(s) - k) : b[j] = s[k + j]
  BY <1>1
<1> HIDE DEF a, b
<1>4. (a \o <<s[k]>>) \o b = s
  <2>1. a \o <<s[k]>> \in Seq(S) /\ Len(a \o <<s[k]>>) = k
        /\ \A j \in 1..k : (a \o <<s[k]>>)[j] = s[j]
    BY <1>1, <1>2
  <2> DEFINE c == a \o <<s[k]>>
  <2> HIDE DEF c
  <2>2. c \o b \in Seq(S) /\ Len(c \o b) = Len(s)
    <3>1. c \in Seq(S) /\ Len(c) = k
      BY <2>1 DEF c
    <3>2. c \o b \in Seq(S) /\ Len(c \o b) = Len(c) + Len(b)
      BY <1>3, <3>1, ConcatProperties
    <3>3. k + (Len(s) - k) = Len(s)
      BY <1>1
    <3> QED BY <1>3, <3>1, <3>2, <3>3
  <2>3. \A j \in 1..Len(s) : (c \o b)[j] = s[j]
    <3> SUFFICES ASSUME NEW j \in 1..Len(s) PROVE (c \o b)[j] = s[j]
      OBVIOUS
    <3>1. CASE j <= k
      BY <1>1, <1>3, <2>1, <3>1 DEF c
    <3>2. CASE j > k
      <4>1. j - k \in 1..(Len(s) - k) /\ k + (j - k) = j
        BY <1>1, <3>2
      <4>2. b[j - k] = s[j]
        BY <1>3, <4>1
      <4>3. (c \o b)[j] = b[j - k]
        BY <1>1, <1>3, <2>1, <3>2 DEF c
      <4> QED BY <4>2, <4>3
    <3>3. j <= k \/ j > k
      BY <1>1
    <3> QED BY <3>1, <3>2, <3>3, Zenon
  <2>4. c \o b = s
    BY <2>2, <2>3, SeqEqual
  <2> QED BY <2>4 DEF c
<1>5. a \o <<s[k]>> \in Seq(S) /\ <<s[k]>> \in Seq(S)
  BY <1>1, <1>2
<1>6. Joined(s, f) = Joined(a \o <<s[k]>>, f) \o Joined(b, f)
  <2>1. Joined((a \o <<s[k]>>) \o b, f) = Joined(a \o <<s[k]>>, f) \o Joined(b, f)
    <3> DEFINE e == a \o <<s[k]>>
    <3>1. e \in Seq(S) /\ b \in Seq(S)
      BY <1>3, <1>5
    <3> HIDE DEF e
    <3>2. JoinApart(e, b, f)
      BY <3>1, JoinedConcat
    <3> QED BY <3>2, Zenon DEF e, JoinApart
  <2> QED BY <1>4, <2>1, Zenon
<1>7. Joined(a \o <<s[k]>>, f) = Joined(a, f) \o Joined(<<s[k]>>, f)
  <2> DEFINE e == <<s[k]>>
  <2>1. a \in Seq(S) /\ e \in Seq(S)
    BY <1>2, <1>5
  <2> HIDE DEF e
  <2>2. JoinApart(a, e, f)
    BY <2>1, JoinedConcat
  <2> QED BY <2>2, Zenon DEF e, JoinApart
<1>8. Joined(a, f) = <<>>
  <2>1. \A j \in 1..Len(a) : f[a[j]] = <<>>
    BY <1>2 DEF NoneBefore
  <2> QED BY <1>2, <2>1, JoinedNothing
<1>9. Joined(<<s[k]>>, f) = f[s[k]] /\ f[s[k]] \in Seq(T)
  BY <1>1, JoinedOne
<1>10. <<>> \o f[s[k]] = f[s[k]]
  BY <1>9
<1>11. Joined(a \o <<s[k]>>, f) = f[s[k]]
  BY <1>7, <1>8, <1>9, <1>10, Zenon
<1>12. SplitsAt(s, f, k)
  BY <1>6, <1>11, Zenon DEF SplitsAt, b
<1> QED BY <1>3, <1>12 DEF b

-----------------------------------------------------------------------------
(* Some elements of a sequence                                             *)

Pick(S, K) == [x \in S |-> IF x \in K THEN <<x>> ELSE <<>>]
Chosen(s, K) == Joined(s, Pick(ToSet(s), K))

(* One element is picked or not.                                         *)
LEMMA Picked ==
    ASSUME NEW S, NEW K, NEW x \in S
    PROVE  /\ Pick(S, K)[x] = IF x \in K THEN <<x>> ELSE <<>>
           /\ Pick(S, K)[x] \in Seq(S)
           /\ \A y : y \in ToSet(Pick(S, K)[x]) <=> x \in K /\ y = x
<1>1. Pick(S, K)[x] = IF x \in K THEN <<x>> ELSE <<>>
  BY Zenon DEF Pick
<1>2. <<x>> \in Seq(S) /\ <<>> \in Seq(S)
  OBVIOUS
<1>3. \A y : (y \in ToSet(<<x>>) <=> y = x) /\ y \notin ToSet(<<>>)
  BY DEF ToSet
<1>4. CASE x \in K
  <2>1. Pick(S, K)[x] = <<x>>
    BY <1>1, <1>4, Zenon
  <2> QED BY <1>1, <1>2, <1>3, <1>4, <2>1, Zenon
<1>5. CASE x \notin K
  <2>1. Pick(S, K)[x] = <<>>
    BY <1>1, <1>5, Zenon
  <2> QED BY <1>1, <1>2, <1>3, <1>5, <2>1, Zenon
<1> QED BY <1>4, <1>5, Zenon

(* Any set that holds the elements will do.                                *)
LEMMA ChosenOver ==
    ASSUME NEW S, NEW s \in Seq(S), NEW K
    PROVE  Chosen(s, K) = Joined(s, Pick(S, K))
<1>1. \A i \in 1..Len(s) : s[i] \in ToSet(s) /\ s[i] \in S
  BY DEF ToSet
<1>2. ASSUME NEW i \in 1..Len(s) PROVE Pick(ToSet(s), K)[s[i]] = Pick(S, K)[s[i]]
  <2>1. Pick(ToSet(s), K)[s[i]] = IF s[i] \in K THEN <<s[i]>> ELSE <<>>
    BY <1>1, Picked
  <2>2. Pick(S, K)[s[i]] = IF s[i] \in K THEN <<s[i]>> ELSE <<>>
    BY <1>1, Picked
  <2> QED BY <2>1, <2>2
<1> DEFINE f == Pick(ToSet(s), K)
           g == Pick(S, K)
<1> HIDE DEF f, g
<1>3. \A i \in 1..Len(s) : f[s[i]] = g[s[i]]
  BY <1>2 DEF f, g
<1>4. Joined(s, f) = Joined(s, g)
  BY <1>3, JoinedSame
<1> QED BY <1>4 DEF Chosen, f, g

(* Choosing keeps exactly the elements of K.                             *)
LEMMA ChosenFacts ==
    ASSUME NEW S, NEW s \in Seq(S), NEW K
    PROVE  /\ Chosen(s, K) \in Seq(S)
           /\ \A x : x \in ToSet(Chosen(s, K)) <=> x \in ToSet(s) /\ x \in K
<1> DEFINE f == Pick(S, K)
<1>1. \A i \in 1..Len(s) : s[i] \in S
  OBVIOUS
<1>2. \A i \in 1..Len(s) : /\ f[s[i]] \in Seq(S)
                           /\ \A y : y \in ToSet(f[s[i]]) <=> s[i] \in K /\ y = s[i]
  BY <1>1, Picked
<1> HIDE DEF f
<1>3. /\ Joined(s, f) \in Seq(S)
      /\ \A x : x \in ToSet(Joined(s, f)) <=> \E i \in 1..Len(s) : x \in ToSet(f[s[i]])
  BY <1>2, JoinedFacts
<1>4. \A x : x \in ToSet(s) <=> \E i \in 1..Len(s) : x = s[i]
  BY DEF ToSet
<1>5. Chosen(s, K) = Joined(s, f)
  BY ChosenOver DEF f
<1>6. ASSUME NEW x PROVE x \in ToSet(Joined(s, f)) <=> x \in ToSet(s) /\ x \in K
  <2>1. x \in ToSet(Joined(s, f)) <=> \E i \in 1..Len(s) : s[i] \in K /\ x = s[i]
    BY <1>2, <1>3
  <2>2. x \in ToSet(s) <=> \E i \in 1..Len(s) : x = s[i]
    BY <1>4
  <2> QED BY <2>1, <2>2
<1> QED BY <1>3, <1>5, <1>6

(* Choosing from a list is choosing from its parts.                      *)
LEMMA ChosenConcat ==
    ASSUME NEW S, NEW s \in Seq(S), NEW t \in Seq(S), NEW K
    PROVE  Chosen(s \o t, K) = Chosen(s, K) \o Chosen(t, K)
<1> DEFINE f == Pick(S, K)
           u == s \o t
<1>1. \A x \in S : f[x] \in Seq(S)
  BY Picked
<1>2. u \in Seq(S)
  BY ConcatFacts
<1> HIDE DEF f
<1>3. Joined(u, f) = Joined(s, f) \o Joined(t, f)
  <2>1. JoinApart(s, t, f)
    BY <1>1, JoinedConcat
  <2> QED BY <2>1, Zenon DEF JoinApart
<1> HIDE DEF u
<1>4. Chosen(u, K) = Joined(u, f) /\ Chosen(s, K) = Joined(s, f) /\ Chosen(t, K) = Joined(t, f)
  BY <1>2, ChosenOver DEF f
<1>5. Chosen(u, K) = Chosen(s, K) \o Chosen(t, K)
  BY <1>3, <1>4, Zenon
<1> QED BY <1>5 DEF u

(* Nothing is chosen where no element is in K.                           *)
LEMMA ChosenNone ==
    ASSUME NEW S, NEW s \in Seq(S), NEW K, \A x \in ToSet(s) : x \notin K
    PROVE  Chosen(s, K) = <<>>
<1> DEFINE f == Pick(ToSet(s), K)
<1>1. \A i \in 1..Len(s) : s[i] \in ToSet(s)
  BY DEF ToSet
<1>2. ASSUME NEW i \in 1..Len(s) PROVE f[s[i]] = <<>>
  <2>1. f[s[i]] = IF s[i] \in K THEN <<s[i]>> ELSE <<>>
    BY <1>1, Picked
  <2> QED BY <1>1, <2>1
<1> HIDE DEF f
<1>3. Joined(s, f) = <<>>
  BY <1>2, JoinedNothing
<1> QED BY <1>3 DEF Chosen, f

(* Everything is chosen where each element is in K.                      *)
LEMMA ChosenAll ==
    ASSUME NEW S, NEW s \in Seq(S), NEW K, \A x \in ToSet(s) : x \in K
    PROVE  Chosen(s, K) = s
<1> DEFINE f == Pick(ToSet(s), K)
           n == Len(s)
<1>1. \A i \in 1..n : s[i] \in ToSet(s)
  BY DEF ToSet
<1>2. ASSUME NEW i \in 1..n PROVE f[s[i]] = <<s[i]>>
  <2>1. f[s[i]] = IF s[i] \in K THEN <<s[i]>> ELSE <<>>
    BY <1>1, Picked
  <2> QED BY <1>1, <2>1
<1> HIDE DEF f
<1>3. PICK up : JoinsUpTo(up, s, f, n) /\ Joined(s, f) = up[n]
  BY JoinedSteps
<1>4. n \in Nat /\ n \in 0..n
  OBVIOUS
<1> DEFINE B == {i \in 0..n : up[i] = SubSeq(s, 1, i)}
<1>5. 0 \in B
  <2>1. SubSeq(s, 1, 0) = <<>> /\ up[0] = <<>>
    BY <1>3, SubSeqEmpty DEF JoinsUpTo
  <2>2. up[0] = SubSeq(s, 1, 0)
    BY <2>1, Zenon
  <2> QED BY <1>4, <2>2
<1>6. ASSUME NEW i \in 1..n, i - 1 \in B PROVE i \in B
  <2>1. up[i] = up[i - 1] \o f[s[i]]
    BY <1>3, Zenon DEF JoinsUpTo
  <2>2. up[i - 1] = SubSeq(s, 1, i - 1) /\ f[s[i]] = <<s[i]>>
    BY <1>2, <1>6
  <2>3. SubSeq(s, 1, i) = SubSeq(s, 1, i - 1) \o <<s[i]>>
    <3> DEFINE a == SubSeq(s, 1, i - 1)
               b == SubSeq(s, 1, i)
    <3>1. /\ a \in Seq(S) /\ Len(a) = i - 1 /\ \A j \in 1..(i - 1) : a[j] = s[j]
          /\ b \in Seq(S) /\ Len(b) = i /\ \A j \in 1..i : b[j] = s[j]
      BY <1>4
    <3> HIDE DEF a, b
    <3>2. s[i] \in S /\ Append(a, s[i]) = a \o <<s[i]>>
      BY <3>1, AppendIsConcat
    <3>3. Append(a, s[i]) \in Seq(S) /\ Len(Append(a, s[i])) = i /\ \A j \in 1..i : Append(a, s[i])[j] = s[j]
      BY <3>1, <3>2
    <3>4. Append(a, s[i]) = b
      <4> DEFINE c == Append(a, s[i])
      <4> HIDE DEF c
      <4>1. c \in Seq(S) /\ Len(c) = i /\ \A j \in 1..i : c[j] = s[j]
        BY <3>3 DEF c
      <4>2. c = b
        BY <3>1, <4>1, SeqEqual
      <4> QED BY <4>2 DEF c
    <3> QED BY <3>2, <3>4, Zenon DEF a, b
  <2>4. up[i] = SubSeq(s, 1, i)
    BY <2>1, <2>2, <2>3, Zenon
  <2> QED BY <2>4
<1>7. \A i \in 0..n : i \in B
  <2> HIDE DEF B
  <2> QED BY <1>4, <1>5, <1>6, StepByStep
<1>8. up[n] = SubSeq(s, 1, n)
  BY <1>4, <1>7
<1>9. SubSeq(s, 1, n) = s
  OBVIOUS
<1> QED BY <1>3, <1>8, <1>9, Zenon DEF Chosen, f

(* Sets that agree on the elements choose the same.                      *)
LEMMA ChosenSame ==
    ASSUME NEW S, NEW s \in Seq(S), NEW K, NEW L, \A x \in ToSet(s) : x \in K <=> x \in L
    PROVE  Chosen(s, K) = Chosen(s, L)
<1>1. Pick(ToSet(s), K) = Pick(ToSet(s), L)
  BY DEF Pick
<1> QED BY <1>1 DEF Chosen

(* Width is even.                                                        *)
LEMMA HalfIsHalf == Half \in Nat /\ Width = 2 * Half
BY WidthAssumption DEF Half

(* A number read is a signed one.                                        *)
LEMMA SignedIsInt64 == \A n \in Addresses : ToSigned(n) \in Int64
BY WidthAssumption, HalfIsHalf DEF Addresses, Int64, ToSigned

(* A number sent is an address.                                          *)
LEMMA HexIsAddress == \A v \in Int64 : HexAddr(v) \in Addresses
BY WidthAssumption, HalfIsHalf DEF Addresses, Int64, HexAddr

(* An address that a reply gave, i64 turned into a row's value and SQLite  *)
(* handed back in a filter, goes into the next command as it came: also in *)
(* the upper half, where the row shows a negative number.                  *)
THEOREM AddressComesBack == \A n \in Addresses : HexAddr(ToSigned(n)) = n
BY WidthAssumption, HalfIsHalf DEF Addresses, ToSigned, HexAddr

(* And no value of a statement stands for the address of another.          *)
THEOREM ValueComesBack == \A v \in Int64 : ToSigned(HexAddr(v)) = v
BY WidthAssumption, HalfIsHalf DEF Int64, ToSigned, HexAddr

(* Hence a row holds the value of a filter exactly if the address radare2  *)
(* gave is the one the filter makes the table ask about.                   *)
THEOREM FilterMeansAddress ==
    \A n \in Addresses, v \in Int64 : (ToSigned(n) = v) <=> (n = HexAddr(v))
BY AddressComesBack, ValueComesBack

(* i64_addr: whichever of its two keys a reply uses, the row has a signed  *)
(* 64-bit value of the address, and 0 when there is none.                  *)
THEOREM AddressOfReply ==
    ASSUME NEW obj, \A k \in DOMAIN obj : obj[k] \in Addresses
    PROVE  /\ I64Addr(obj) \in Int64
           /\ \A k \in {"addr", "offset"} : DOMAIN obj = {k} => HexAddr(I64Addr(obj)) = obj[k]
<1>1. 0 \in Int64
  BY WidthAssumption, HalfIsHalf DEF Int64
<1>2. \A k \in DOMAIN obj : I64(obj, k, 0) = ToSigned(obj[k]) /\ I64(obj, k, 0) \in Int64
  BY SignedIsInt64 DEF I64
<1>3. I64Addr(obj) \in Int64
  BY <1>1, <1>2 DEF I64Addr, I64
<1>4. ASSUME NEW k \in {"addr", "offset"}, DOMAIN obj = {k} PROVE HexAddr(I64Addr(obj)) = obj[k]
  <2>1. I64Addr(obj) = ToSigned(obj[k])
    BY <1>2, <1>4 DEF I64Addr
  <2>2. QED
    BY <2>1, <1>4, AddressComesBack
<1>5. QED
  BY <1>3, <1>4

-----------------------------------------------------------------------------
(* What radare2 holds                                                      *)

(* What is assumed of radare2 holds of each core of a query.             *)
LEMMA CoresAreCores ==
    ASSUME NEW q \in Queries, NEW m \in Cores(q.table) \cup Projects(q.table)
    PROVE  IsCore(m)
<1>1. q.table \in {r.table : r \in Queries}
  OBVIOUS
<1> QED BY <1>1, CoresAssumption, Zenon

(* Elements, positions and length of a sequence.                         *)
LEMMA InSeq ==
    ASSUME NEW T, NEW s \in Seq(T)
    PROVE  /\ Len(s) \in Nat /\ DOMAIN s = 1..Len(s) /\ \A i \in 1..Len(s) : s[i] \in T
           /\ ToSet(s) \subseteq T /\ \A x : x \in ToSet(s) <=> \E i \in 1..Len(s) : x = s[i]
           /\ IsSeq(s)
<1>1. Len(s) \in Nat /\ DOMAIN s = 1..Len(s) /\ \A i \in 1..Len(s) : s[i] \in T
  OBVIOUS
<1>2. \A x : x \in ToSet(s) <=> \E i \in 1..Len(s) : x = s[i]
  BY <1>1 DEF ToSet
<1>3. s \in Seq(ToSet(s))
  <2> DEFINE A == ToSet(s)
  <2>1. \A i \in 1..Len(s) : s[i] \in A
    BY <1>2, Zenon
  <2> HIDE DEF A
  <2>2. s \in Seq(A)
    BY <1>1, <2>1
  <2> QED BY <2>2 DEF A
<1> QED BY <1>1, <1>2, <1>3 DEF IsSeq

(* A function on 1..n is a sequence of its values.                       *)
LEMMA FunctionIsSeq ==
    ASSUME NEW n \in Nat, NEW s, DOMAIN s = 1..n, s = [i \in 1..n |-> s[i]]
    PROVE  IsSeq(s) /\ Len(s) = n
<1> DEFINE A == ToSet(s)
<1>1. \A i \in 1..n : s[i] \in A
  BY DEF ToSet
<1> HIDE DEF A
<1>2. s \in Seq(A)
  BY <1>1
<1>3. Len(s) = n
  BY <1>2
<1> QED BY <1>2, <1>3 DEF A, IsSeq

(* A function holds its entry, and its entry is an address.              *)
LEMMA EntryInSpan ==
    ASSUME NEW m, IsCore(m), NEW f \in ToSet(m.funcs)
    PROVE  /\ f.entry \in Addresses /\ f.size \in Nat \ {0} /\ f.entry \in Span(f)
           /\ Span(f) \subseteq Addresses /\ f = [entry |-> f.entry, size |-> f.size]
<1>1. f \in [entry : Addresses, size : Nat \ {0}]
  <2>1. m.funcs \in Seq([entry : Addresses, size : Nat \ {0}])
    BY DEF IsCore
  <2> DEFINE T == [entry : Addresses, size : Nat \ {0}]
             F == m.funcs
  <2> HIDE DEF T, F
  <2>2. ToSet(F) \subseteq T
    BY <2>1, InSeq DEF T, F
  <2> QED BY <2>2 DEF T, F
<1>2. f.entry \in Addresses /\ f.size \in Nat \ {0} /\ f = [entry |-> f.entry, size |-> f.size]
  BY <1>1
<1>3. f.entry \in Span(f)
  BY <1>2 DEF Span, Addresses
<1> QED BY <1>2, <1>3, Zenon DEF IsCore

(* Two functions that hold one address are the same.                     *)
LEMMA OneHolder ==
    ASSUME NEW m, IsCore(m), NEW a, NEW f \in Holders(m, a), NEW g \in Holders(m, a)
    PROVE  f = g
<1>1. PICK i \in DOMAIN m.funcs : f = m.funcs[i]
  BY DEF Holders, ToSet
<1>2. PICK j \in DOMAIN m.funcs : g = m.funcs[j]
  BY DEF Holders, ToSet
<1>3. a \in Span(f) /\ a \in Span(g)
  BY DEF Holders
<1>4. i = j
  BY <1>1, <1>2, <1>3 DEF IsCore
<1> QED BY <1>1, <1>2, <1>4

(* The addresses of the functions, each its own.                           *)
LEMMA FuncAddrsFacts ==
    ASSUME NEW m, IsCore(m)
    PROVE  /\ FuncAddrs(m) \in Seq(Int64) /\ Len(FuncAddrs(m)) = Len(m.funcs) /\ Len(m.funcs) \in Nat
           /\ DOMAIN m.funcs = 1..Len(m.funcs)
           /\ \A i \in 1..Len(m.funcs) : /\ FuncAddrs(m)[i] = ToSigned(m.funcs[i].entry)
                                         /\ HexAddr(FuncAddrs(m)[i]) = m.funcs[i].entry
           /\ \A i, j \in 1..Len(m.funcs) : i # j => FuncAddrs(m)[i] # FuncAddrs(m)[j]
<1> DEFINE n == Len(m.funcs)
           F == m.funcs
           objs == [i \in DOMAIN F |-> [k \in {m.key} |-> F[i].entry]]
<1>1. F \in Seq([entry : Addresses, size : Nat \ {0}]) /\ m.key \in {"addr", "offset"}
  BY DEF IsCore
<1>2. n \in Nat /\ DOMAIN F = 1..n /\ \A i \in 1..n : F[i] \in ToSet(F) /\ F[i].entry \in Addresses
  <2>1. n \in Nat /\ DOMAIN F = 1..n /\ \A i \in 1..n : F[i] \in ToSet(F)
    <3>2. n = Len(F)
      OBVIOUS
    <3> HIDE DEF F, n
    <3>1. /\ Len(F) \in Nat /\ DOMAIN F = 1..Len(F)
          /\ \A x : x \in ToSet(F) <=> \E i \in 1..Len(F) : x = F[i]
      BY <1>1, InSeq
    <3> QED BY <3>1, <3>2
  <2> QED BY <2>1, EntryInSpan, Zenon
<1>3. FuncAddrs(m) = [i \in DOMAIN objs |-> I64Addr(objs[i])]
  BY DEF FuncAddrs, Aflj, Array, Elements, Map
<1>4. DOMAIN objs = 1..n /\ \A i \in 1..n : objs[i] = [k \in {m.key} |-> F[i].entry]
  BY <1>2
<1> HIDE DEF objs, n, F
<1>5. ASSUME NEW i \in 1..n PROVE I64Addr(objs[i]) = ToSigned(F[i].entry)
  <2>1. DOMAIN objs[i] = {m.key} /\ objs[i][m.key] = F[i].entry
    BY <1>4
  <2> QED BY <1>1, <2>1 DEF I64Addr, I64
<1>6. FuncAddrs(m) = [i \in 1..n |-> ToSigned(F[i].entry)]
  BY <1>3, <1>4, <1>5
<1>7. \A i \in 1..n : ToSigned(F[i].entry) \in Int64 /\ HexAddr(ToSigned(F[i].entry)) = F[i].entry
  BY <1>2, SignedIsInt64, AddressComesBack
<1>8. FuncAddrs(m) \in Seq(Int64) /\ Len(FuncAddrs(m)) = n
  BY <1>2, <1>6, <1>7
<1>9. \A i \in 1..n : FuncAddrs(m)[i] = ToSigned(F[i].entry)
  BY <1>6
<1>10. ASSUME NEW i \in 1..n, NEW j \in 1..n, i # j PROVE FuncAddrs(m)[i] # FuncAddrs(m)[j]
  <2> SUFFICES ASSUME FuncAddrs(m)[i] = FuncAddrs(m)[j] PROVE FALSE
    OBVIOUS
  <2>1. F[i].entry = F[j].entry
    BY <1>7, <1>9
  <2>2. F[i].entry \in Span(F[i]) /\ F[j].entry \in Span(F[j])
    BY <1>2, EntryInSpan DEF F
  <2>3. Span(F[i]) \cap Span(F[j]) = {}
    BY <1>2, <1>10 DEF IsCore, F
  <2> QED BY <2>1, <2>2, <2>3
<1> QED BY <1>2, <1>7, <1>8, <1>9, <1>10 DEF n, F

-----------------------------------------------------------------------------
(* The rows of one function                                                *)

RowsOf(f, fa) == [i \in 1..f.size |-> [func_addr |-> fa, addr |-> ToSigned(f.entry + i - 1)]]

(* The rows of a function are those of its span, if it is listed.        *)
LEMMA ListedRows ==
    ASSUME NEW m, IsCore(m), NEW fa \in Int64, NEW t \in {"blocks", "instructions"}
    PROVE  /\ Spoken(m, HexAddr(fa)) = {} => Found(t, m)[fa] = <<>>
           /\ Spoken(m, HexAddr(fa)) # {} =>
                \E f \in Spoken(m, HexAddr(fa)) : Found(t, m)[fa] = RowsOf(f, fa)
<1> DEFINE a == HexAddr(fa)
           f == CHOOSE g \in Spoken(m, a) : TRUE
           Items(key) == [i \in 1..f.size |-> [k \in {key} |-> f.entry + i - 1]]
           Rows == RowsOf(f, fa)
<1>1. m.key \in {"addr", "offset"}
  BY DEF IsCore
<1>2. ASSUME NEW key PROVE Elements(Listed(m, a, key)) = IF Spoken(m, a) = {} THEN <<>> ELSE Items(key)
  <2>1. Listed(m, a, key) = IF Spoken(m, a) = {} THEN Null ELSE Array(Items(key))
    BY DEF Listed
  <2>2. Elements(Null) = <<>> /\ Elements(Array(Items(key))) = Items(key)
    BY DEF Elements, Null, Array
  <2> QED BY <2>1, <2>2, Zenon
<1>3. Found(t, m)[fa] = IF t = "blocks" THEN BlocksForFunc(m, fa) ELSE InsnsForFunc(m, fa)
  BY DEF Found
<1>4. CASE Spoken(m, a) = {}
  <2>1. DOMAIN <<>> = {}
    OBVIOUS
  <2>2. BlocksForFunc(m, fa) = <<>> /\ InsnsForFunc(m, fa) = <<>>
    BY <1>2, <1>4 DEF BlocksForFunc, InsnsForFunc, Afbj, Pdfj, Map
  <2> QED BY <1>3, <1>4, <2>2
<1>5. CASE Spoken(m, a) # {}
  <2>1. f \in Spoken(m, a)
    BY <1>5
  <2>2. BlocksForFunc(m, fa) = Rows
    <3> DEFINE items == Items("addr")
    <3>1. DOMAIN items = 1..f.size /\ \A i \in 1..f.size : items[i] = [k \in {"addr"} |-> f.entry + i - 1]
      OBVIOUS
    <3>2. BlocksForFunc(m, fa) = [i \in DOMAIN items |-> [func_addr |-> fa, addr |-> I64(items[i], "addr", 0)]]
      BY <1>2, <1>5 DEF BlocksForFunc, Afbj, Map
    <3> HIDE DEF items, f
    <3>3. \A i \in 1..f.size : I64(items[i], "addr", 0) = ToSigned(f.entry + i - 1)
      BY <3>1 DEF I64
    <3> QED BY <3>1, <3>2, <3>3 DEF RowsOf
  <2>3. InsnsForFunc(m, fa) = Rows
    <3> DEFINE items == Items(m.key)
    <3>1. DOMAIN items = 1..f.size /\ \A i \in 1..f.size : items[i] = [k \in {m.key} |-> f.entry + i - 1]
      OBVIOUS
    <3>2. InsnsForFunc(m, fa) = [i \in DOMAIN items |-> [func_addr |-> fa, addr |-> I64Addr(items[i])]]
      BY <1>2, <1>5 DEF InsnsForFunc, Pdfj, Map
    <3> HIDE DEF items, f
    <3>3. \A i \in 1..f.size : I64Addr(items[i]) = ToSigned(f.entry + i - 1)
      BY <1>1, <3>1 DEF I64, I64Addr
    <3> QED BY <3>1, <3>2, <3>3 DEF RowsOf
  <2>4. Found(t, m)[fa] = Rows
    BY <1>3, <2>2, <2>3
  <2> QED BY <1>5, <2>1, <2>4
<1> QED BY <1>4, <1>5

(* They are all rows of that function.                                     *)
LEMMA FoundFacts ==
    ASSUME NEW m, IsCore(m), NEW fa \in Int64, NEW t \in Streamed
    PROVE  /\ IsSeq(Found(t, m)[fa])
           /\ \A r \in ToSet(Found(t, m)[fa]) : r.func_addr = fa /\ RowAddresses(r) \subseteq Int64
<1>1. CASE t = "pseudocode"
  <2> DEFINE row == [func_addr |-> fa, text |-> Pdc(m, HexAddr(fa))]
  <2>1. Found(t, m)[fa] = <<row>>
    BY <1>1 DEF Found, PseudoForFunc
  <2>2. row.func_addr = fa /\ RowAddresses(row) = {fa}
    BY DEF RowAddresses
  <2> HIDE DEF row
  <2>3. ToSet(<<row>>) = {row} /\ <<row>> \in Seq({row})
    BY DEF ToSet
  <2> QED BY <2>1, <2>2, <2>3 DEF IsSeq
<1>2. CASE t \in {"blocks", "instructions"}
  <2>1. CASE Spoken(m, HexAddr(fa)) = {}
    <3>1. Found(t, m)[fa] = <<>>
      BY <1>2, <2>1, ListedRows
    <3>2. ToSet(<<>>) = {} /\ <<>> \in Seq({})
      BY DEF ToSet
    <3> QED BY <3>1, <3>2 DEF IsSeq
  <2>2. CASE Spoken(m, HexAddr(fa)) # {}
    <3>1. PICK f \in Spoken(m, HexAddr(fa)) : Found(t, m)[fa] = RowsOf(f, fa)
      BY <1>2, <2>2, ListedRows
    <3>2. f.entry \in Addresses /\ f.size \in Nat \ {0} /\ Span(f) \subseteq Addresses
      BY EntryInSpan DEF Spoken, Holders
    <3> DEFINE s == [i \in 1..f.size |-> [func_addr |-> fa, addr |-> ToSigned(f.entry + i - 1)]]
    <3>3. s \in Seq(ToSet(s))
      <4>1. DOMAIN s = 1..f.size /\ f.size \in Nat /\ s = [i \in 1..f.size |-> s[i]]
        BY <3>2
      <4> HIDE DEF s
      <4> QED BY <4>1, FunctionIsSeq DEF IsSeq
    <3>4. ASSUME NEW r \in ToSet(s) PROVE r.func_addr = fa /\ RowAddresses(r) \subseteq Int64
      <4>1. PICK i \in 1..f.size : r = [func_addr |-> fa, addr |-> ToSigned(f.entry + i - 1)]
        BY DEF ToSet
      <4>2. f.entry + i - 1 \in Addresses
        BY <3>2 DEF Span, Addresses
      <4>3. ToSigned(f.entry + i - 1) \in Int64
        BY <4>2, SignedIsInt64
      <4> QED BY <4>1, <4>3 DEF RowAddresses
    <3>5. IsSeq(RowsOf(f, fa)) /\ \A r \in ToSet(RowsOf(f, fa)) : r.func_addr = fa /\ RowAddresses(r) \subseteq Int64
      BY <3>3, <3>4, Zenon DEF RowsOf, IsSeq
    <3> QED BY <3>1, <3>5
  <2> QED BY <2>1, <2>2
<1> QED BY <1>1, <1>2 DEF Streamed

-----------------------------------------------------------------------------
(* Base64                                                                  *)

(* The powers that the conversions use.                                  *)
LEMMA Powers ==
    /\ 64^3 = 262144 /\ 64^2 = 4096 /\ 64^1 = 64 /\ 64^0 = 1
    /\ 2^5 = 32 /\ 2^4 = 16 /\ 2^3 = 8 /\ 2^2 = 4 /\ 2^1 = 2 /\ 2^0 = 1
OBVIOUS

(* The six bits of a character.                                            *)
BitOf(x, r) == (x \div 2^(5 - r)) % 2

(* A character is the sum of its bits, and so are its parts.             *)
LEMMA SixBits ==
    ASSUME NEW x \in 0..63
    PROVE  /\ 32 * BitOf(x, 0) + 16 * BitOf(x, 1) + 8 * BitOf(x, 2) + 4 * BitOf(x, 3) + 2 * BitOf(x, 4) + BitOf(x, 5) = x
           /\ 8 * BitOf(x, 0) + 4 * BitOf(x, 1) + 2 * BitOf(x, 2) + BitOf(x, 3) = x \div 4
           /\ 2 * BitOf(x, 0) + BitOf(x, 1) = x \div 16
           /\ 8 * BitOf(x, 2) + 4 * BitOf(x, 3) + 2 * BitOf(x, 4) + BitOf(x, 5) = (x % 16)
           /\ 2 * BitOf(x, 4) + BitOf(x, 5) = (x % 4)
           /\ \A r \in 0..5 : BitOf(x, r) \in 0..1
<1>1. /\ 5 - 0 = 5 /\ 5 - 1 = 4 /\ 5 - 2 = 3 /\ 5 - 3 = 2 /\ 5 - 4 = 1 /\ 5 - 5 = 0
  OBVIOUS
<1>2. /\ BitOf(x, 0) = (x \div 32) % 2 /\ BitOf(x, 1) = (x \div 16) % 2 /\ BitOf(x, 2) = (x \div 8) % 2
      /\ BitOf(x, 3) = (x \div 4) % 2 /\ BitOf(x, 4) = (x \div 2) % 2 /\ BitOf(x, 5) = (x \div 1) % 2
  BY <1>1, Powers DEF BitOf
<1>3. \A r \in 0..5 : r \in {0, 1, 2, 3, 4, 5}
  OBVIOUS
<1> DEFINE b0 == BitOf(x, 0)
           b1 == BitOf(x, 1)
           b2 == BitOf(x, 2)
           b3 == BitOf(x, 3)
           b4 == BitOf(x, 4)
           b5 == BitOf(x, 5)
<1>4. /\ b0 \in 0..1 /\ b1 \in 0..1 /\ b2 \in 0..1 /\ b3 \in 0..1 /\ b4 \in 0..1 /\ b5 \in 0..1
  BY <1>2
<1>5. /\ x \div 2 = 2 * (x \div 4) + b4 /\ x = 2 * (x \div 2) + b5
  <2>1. x \div 2 = 2 * (x \div 4) + b4
    BY <1>2
  <2>2. x = 2 * (x \div 2) + (x % 2) /\ x \div 1 = x
    OBVIOUS
  <2> QED BY <1>2, <2>1, <2>2
<1>6. x \div 4 = 2 * (x \div 8) + b3
  BY <1>2
<1>7. x \div 8 = 2 * (x \div 16) + b2
  BY <1>2
<1>8. x \div 16 = 2 * (x \div 32) + b1
  BY <1>2
<1>9. x \div 32 = b0
  BY <1>2
<1>10. x = 16 * (x \div 16) + (x % 16) /\ x = 4 * (x \div 4) + (x % 4)
  <2>1. x = 16 * (x \div 16) + (x % 16)
    OBVIOUS
  <2>2. x = 4 * (x \div 4) + (x % 4)
    OBVIOUS
  <2> QED BY <2>1, <2>2
<1>11. x \div 2 \in Int /\ x \div 4 \in Int /\ x \div 8 \in Int /\ x \div 16 \in Int /\ x \div 32 \in Int /\ (x % 16) \in Int /\ (x % 4) \in Int /\ x \in Int
  OBVIOUS
<1> HIDE DEF b0, b1, b2, b3, b4, b5
<1>12. \A r \in 0..5 : BitOf(x, r) \in 0..1
  BY <1>3, <1>4 DEF b0, b1, b2, b3, b4, b5
<1>13. /\ 32 * b0 + 16 * b1 + 8 * b2 + 4 * b3 + 2 * b4 + b5 = x
       /\ 8 * b0 + 4 * b1 + 2 * b2 + b3 = x \div 4
       /\ 2 * b0 + b1 = x \div 16
  BY <1>4, <1>5, <1>6, <1>7, <1>8, <1>9, <1>11
<1>14. /\ 8 * b2 + 4 * b3 + 2 * b4 + b5 = (x % 16)
       /\ 2 * b4 + b5 = (x % 4)
  BY <1>4, <1>5, <1>6, <1>7, <1>8, <1>9, <1>10, <1>11
<1> QED BY <1>12, <1>13, <1>14 DEF b0, b1, b2, b3, b4, b5

(* Three bytes as four characters, and back.                               *)
Recovered(a, b, c, x0, x1, x2, x3) ==
    /\ x0 \in 0..63 /\ x1 \in 0..63 /\ x2 \in 0..63 /\ x3 \in 0..63
    /\ 4 * x0 + x1 \div 16 = a
    /\ 16 * (x1 % 16) + x2 \div 4 = b
    /\ 64 * (x2 % 4) + x3 = c

(* Three bytes come back from the bits of four characters.               *)
LEMMA ThreeBytes ==
    ASSUME NEW a \in Bytes, NEW b \in Bytes, NEW c \in Bytes, NEW v, v = a * 65536 + b * 256 + c
    PROVE  Recovered(a, b, c, (v \div 262144) % 64, (v \div 4096) % 64, (v \div 64) % 64, v % 64)
<1> DEFINE x0 == (v \div 262144) % 64
           x1 == (v \div 4096) % 64
           x2 == (v \div 64) % 64
           x3 == v % 64
<1>1. a \in 0..255 /\ b \in 0..255 /\ c \in 0..255
  BY DEF Bytes
<1>2. v \div 262144 = a \div 4
  BY <1>1
<1>3. v \div 4096 = 16 * a + b \div 16
  BY <1>1
<1>4. v \div 64 = 1024 * a + 4 * b + c \div 64
  BY <1>1
<1>5. (v % 64) = (c % 64)
  BY <1>1
<1>6. (v \div 262144) % 64 = a \div 4
  BY <1>1, <1>2
<1>7. (v \div 4096) % 64 = 16 * (a % 4) + b \div 16
  BY <1>1, <1>3
<1>8. (v \div 64) % 64 = 4 * (b % 16) + c \div 64
  <2>1. a \in Int /\ v \div 64 = 64 * (16 * a + b \div 16) + 4 * (b % 16) + c \div 64
    BY <1>1, <1>4
  <2>2. 4 * (b % 16) + c \div 64 \in 0..63 /\ 16 * a + b \div 16 \in Int
    BY <1>1
  <2> DEFINE q == 16 * a + b \div 16
             r == 4 * (b % 16) + c \div 64
  <2>3. q \in Int /\ r \in 0..63 /\ v \div 64 = 64 * q + r
    BY <2>1, <2>2
  <2> HIDE DEF q, r
  <2>4. (64 * q + r) % 64 = r
    BY <2>3
  <2> QED BY <2>3, <2>4 DEF r
<1>9. /\ 4 * (a \div 4) + (16 * (a % 4) + b \div 16) \div 16 = a
      /\ 16 * ((16 * (a % 4) + b \div 16) % 16) + (4 * (b % 16) + c \div 64) \div 4 = b
      /\ 64 * ((4 * (b % 16) + c \div 64) % 4) + (c % 64) = c
  <2>1. /\ a \div 4 \in 0..63 /\ (a % 4) \in 0..3 /\ a = 4 * (a \div 4) + (a % 4)
        /\ b \div 16 \in 0..15 /\ (b % 16) \in 0..15 /\ b = 16 * (b \div 16) + (b % 16)
        /\ c \div 64 \in 0..3 /\ (c % 64) \in 0..63 /\ c = 64 * (c \div 64) + (c % 64)
    <3>1. a \div 4 \in 0..63 /\ (a % 4) \in 0..3 /\ a = 4 * (a \div 4) + (a % 4)
      BY <1>1
    <3>2. b \div 16 \in 0..15 /\ (b % 16) \in 0..15 /\ b = 16 * (b \div 16) + (b % 16)
      BY <1>1
    <3>3. c \div 64 \in 0..3 /\ (c % 64) \in 0..63 /\ c = 64 * (c \div 64) + (c % 64)
      BY <1>1
    <3> QED BY <3>1, <3>2, <3>3
  <2>2. \A p \in 0..3, q \in 0..15 : (16 * p + q) \div 16 = p /\ (16 * p + q) % 16 = q
    OBVIOUS
  <2>3. \A p \in 0..15, q \in 0..3 : (4 * p + q) \div 4 = p /\ (4 * p + q) % 4 = q
    OBVIOUS
  <2>4. /\ (16 * (a % 4) + b \div 16) \div 16 = (a % 4) /\ (16 * (a % 4) + b \div 16) % 16 = b \div 16
        /\ (4 * (b % 16) + c \div 64) \div 4 = (b % 16) /\ (4 * (b % 16) + c \div 64) % 4 = c \div 64
    BY <2>1, <2>2, <2>3
  <2> QED BY <1>1, <2>1, <2>4
<1>10. /\ a \div 4 \in 0..63 /\ 16 * (a % 4) + b \div 16 \in 0..63 /\ 4 * (b % 16) + c \div 64 \in 0..63 /\ (c % 64) \in 0..63
  BY <1>1
<1>11. x0 = a \div 4 /\ x1 = 16 * (a % 4) + b \div 16 /\ x2 = 4 * (b % 16) + c \div 64 /\ x3 = (c % 64)
  BY <1>5, <1>6, <1>7, <1>8
<1> HIDE DEF x0, x1, x2, x3
<1>12. x0 \in 0..63 /\ x1 \in 0..63 /\ x2 \in 0..63 /\ x3 \in 0..63
  BY <1>10, <1>11
<1>13. 4 * x0 + x1 \div 16 = a
  <2>1. 4 * (a \div 4) + (16 * (a % 4) + b \div 16) \div 16 = a
    BY <1>9
  <2> QED BY <1>11, <2>1
<1>14. 16 * (x1 % 16) + x2 \div 4 = b
  <2>1. 16 * ((16 * (a % 4) + b \div 16) % 16) + (4 * (b % 16) + c \div 64) \div 4 = b
    BY <1>9
  <2> QED BY <1>11, <2>1
<1>15. 64 * (x2 % 4) + x3 = c
  <2>1. 64 * ((4 * (b % 16) + c \div 64) % 4) + (c % 64) = c
    BY <1>9
  <2> QED BY <1>11, <2>1
<1>16. Recovered(a, b, c, x0, x1, x2, x3)
  BY <1>12, <1>13, <1>14, <1>15 DEF Recovered
<1> QED BY <1>16 DEF x0, x1, x2, x3

(* The characters of the g-th group of three bytes.                        *)
ValueOf(s, g) == ByteAt(s, 3 * g + 1) * 65536 + ByteAt(s, 3 * g + 2) * 256 + ByteAt(s, 3 * g + 3)
Groups(s) == (Len(s) + 2) \div 3

(* A byte that is missing counts as zero.                                *)
LEMMA ByteAtByte ==
    ASSUME NEW s \in Seq(Bytes), NEW i
    PROVE  ByteAt(s, i) \in Bytes
<1>1. CASE i \in DOMAIN s
  <2>1. i \in 1..Len(s)
    BY <1>1
  <2>2. s[i] \in Bytes
    BY <2>1
  <2> QED BY <1>1, <2>2 DEF ByteAt
<1>2. CASE i \notin DOMAIN s
  BY <1>2 DEF ByteAt, Bytes
<1> QED BY <1>1, <1>2

(* The characters of a group are the digits of its value, or pads.       *)
LEMMA Characters ==
    ASSUME NEW s \in Seq(Bytes)
    PROVE  /\ Groups(s) \in Nat /\ 3 * Groups(s) >= Len(s) /\ 3 * Groups(s) <= Len(s) + 2
           /\ DOMAIN Base64Encode(s) = 1..(4 * Groups(s)) /\ Len(Base64Encode(s)) = 4 * Groups(s)
           /\ \A g \in 0..(Groups(s) - 1), a \in 0..3 :
                 /\ 4 * g + a + 1 \in 1..(4 * Groups(s))
                 /\ Base64Encode(s)[4 * g + a + 1] =
                      IF a > Len(s) - 3 * g THEN Pad ELSE (ValueOf(s, g) \div 64^(3 - a)) % 64
<1> DEFINE n == Len(s)
           G == Groups(s)
           CharAt(g, at) == IF at > Len(s) - 3 * g THEN Pad ELSE (ValueOf(s, g) \div 64^(3 - at)) % 64
           Char(k) == CharAt((k - 1) \div 4, (k - 1) % 4)
           c == [k \in 1..(4 * G) |-> Char(k)]
<1>1. n \in Nat
  OBVIOUS
<1>2. G \in Nat /\ 3 * G >= n /\ 3 * G <= n + 2
  BY <1>1 DEF Groups
<1>3. Base64Encode(s) = c
  BY DEF Base64Encode, Groups, ValueOf
<1> HIDE DEF CharAt
<1>4. DOMAIN c = 1..(4 * G) /\ Len(c) = 4 * G /\ \A k \in 1..(4 * G) : c[k] = Char(k)
  <2> HIDE DEF G
  <2>1. 4 * G \in Nat
    BY <1>2
  <2>2. DOMAIN c = 1..(4 * G) /\ \A k \in 1..(4 * G) : c[k] = Char(k)
    OBVIOUS
  <2>3. Len(c) = 4 * G
    BY <2>1
  <2> QED BY <2>2, <2>3
<1> HIDE DEF c, G, n
<1>5. ASSUME NEW g \in 0..(G - 1), NEW a \in 0..3
      PROVE  /\ 4 * g + a + 1 \in 1..(4 * G)
             /\ c[4 * g + a + 1] = IF a > Len(s) - 3 * g THEN Pad ELSE (ValueOf(s, g) \div 64^(3 - a)) % 64
  <2> DEFINE k == 4 * g + a + 1
  <2>1. k \in 1..(4 * G) /\ (k - 1) \div 4 = g /\ (k - 1) % 4 = a
    <3>1. k - 1 = 4 * g + a /\ g \in Nat
      BY <1>2
    <3>2. \A x \in Nat, y \in 0..3 : (4 * x + y) \div 4 = x /\ (4 * x + y) % 4 = y
      OBVIOUS
    <3>3. k \in 1..(4 * G)
      BY <1>2
    <3> HIDE DEF k
    <3> QED BY <3>1, <3>2, <3>3
  <2> HIDE DEF k
  <2>2. c[k] = Char(k)
    BY <1>4, <2>1
  <2>3. Char(k) = CharAt(g, a)
    BY <2>1, Zenon
  <2> QED BY <2>1, <2>2, <2>3 DEF k, CharAt
<1> QED BY <1>2, <1>3, <1>4, <1>5 DEF G, n

(* As many characters are no Pad as the bytes need.                        *)
LEMMA PadsAreRest ==
    ASSUME NEW s \in Seq(Bytes)
    PROVE  Cardinality({k \in DOMAIN Base64Encode(s) : Base64Encode(s)[k] = Pad}) = 3 * Groups(s) - Len(s)
<1> DEFINE n == Len(s)
           G == Groups(s)
           c == Base64Encode(s)
           P == {k \in DOMAIN c : c[k] = Pad}
<1>1. n \in Nat /\ G \in Nat /\ 3 * G >= n /\ 3 * G <= n + 2 /\ DOMAIN c = 1..(4 * G)
  <2>1. n \in Nat
    OBVIOUS
  <2> QED BY <2>1, Characters
<1>2. ASSUME NEW k \in 1..(4 * G) PROVE c[k] = Pad <=> k \in (G + n + 1)..(4 * G)
  <2> DEFINE g == (k - 1) \div 4
             a == (k - 1) % 4
  <2>1. k \in Int /\ 1 <= k /\ k <= 4 * G /\ G \in Nat /\ n \in Nat
    BY <1>1
  <2> HIDE DEF G, n
  <2>2. g \in Nat /\ a \in 0..3 /\ k = 4 * g + a + 1
    <3>1. \A x \in Nat : x \div 4 \in Nat /\ (x % 4) \in 0..3 /\ x = 4 * (x \div 4) + (x % 4)
      OBVIOUS
    <3>2. k - 1 \in Nat
      BY <2>1
    <3>3. g \in Nat /\ a \in 0..3 /\ k - 1 = 4 * g + a
      BY <3>1, <3>2
    <3> HIDE DEF g, a
    <3> QED BY <2>1, <3>3
  <2> HIDE DEF g, a
  <2>3. g \in 0..(G - 1)
    BY <2>1, <2>2
  <2>4. c[4 * g + a + 1] = IF a > Len(s) - 3 * g THEN Pad ELSE (ValueOf(s, g) \div 64^(3 - a)) % 64
    BY <2>2, <2>3, Characters DEF G
  <2>5. c[k] = IF a > n - 3 * g THEN Pad ELSE (ValueOf(s, g) \div 64^(3 - a)) % 64
    BY <2>2, <2>4 DEF n
  <2>6. a > n - 3 * g <=> k \in (G + n + 1)..(4 * G)
    <3>1. CASE g = G - 1
      BY <1>1, <2>1, <2>2, <3>1
    <3>2. CASE g < G - 1
      <4>1. g + 1 <= G - 1
        BY <2>1, <2>2, <3>2
      <4>2. n - 3 * g >= 4 /\ k <= 4 * (G - 1)
        BY <1>1, <2>1, <2>2, <4>1
      <4> QED BY <1>1, <2>1, <2>2, <4>2
    <3> QED BY <2>1, <2>3, <3>1, <3>2
  <2>7. a \in {0, 1, 2, 3}
    BY <2>2
  <2>8. ~(a > n - 3 * g) => c[k] # Pad
    <3>1. ValueOf(s, g) \in Int
      <4>1. ByteAt(s, 3 * g + 1) \in Int /\ ByteAt(s, 3 * g + 2) \in Int /\ ByteAt(s, 3 * g + 3) \in Int
        <5>1. \A b \in Bytes : b \in Int
          BY DEF Bytes
        <5> QED BY <5>1, ByteAtByte, Zenon
      <4> QED BY <4>1 DEF ValueOf
    <3>2. 64^(3 - a) \in Nat \ {0}
      <4>1. CASE a = 0
        BY <4>1, Powers
      <4>2. CASE a = 1
        BY <4>2, Powers
      <4>3. CASE a = 2
        BY <4>3, Powers
      <4>4. CASE a = 3
        BY <4>4, Powers
      <4> QED BY <2>7, <4>1, <4>2, <4>3, <4>4
    <3> DEFINE v == ValueOf(s, g)
               w == 64^(3 - a)
               q == v \div w
    <3> HIDE DEF v, w
    <3>3. q \in Int
      BY <3>1, <3>2 DEF v, w
    <3> HIDE DEF q
    <3>4. (q % 64) \in 0..63
      BY <3>3
    <3>5. ~(a > n - 3 * g) => c[k] = q % 64
      BY <2>5, Zenon DEF q, v, w
    <3>6. Pad \notin 0..63
      BY DEF Pad
    <3> QED BY <3>4, <3>5, <3>6, Zenon
  <2> QED BY <2>5, <2>6, <2>8
<1>3. P = (G + n + 1)..(4 * G)
  <2>1. \A k \in (G + n + 1)..(4 * G) : k \in 1..(4 * G)
    BY <1>1
  <2> HIDE DEF c, G, n
  <2> QED BY <1>1, <1>2, <2>1
<1> HIDE DEF c, G, n, P
<1>4. Cardinality(P) = 4 * G - (G + n + 1) + 1
  <2> DEFINE lo == G + n + 1
             hi == 4 * G
  <2>1. lo \in Int /\ hi \in Int /\ (lo > hi => hi = lo - 1)
    BY <1>1
  <2> HIDE DEF lo, hi
  <2>2. Cardinality(lo..hi) = hi - lo + 1
    BY <2>1, FS_Interval
  <2> QED BY <1>3, <2>2 DEF lo, hi
<1>5. Cardinality(P) = 3 * G - n
  BY <1>1, <1>4
<1> QED BY <1>5 DEF P, c, G, n

(* radare2's decoder gives every text back that base64_encode has encoded. *)
THEOREM TextComesBack == \A s \in Seq(Bytes) : Base64Decode(Base64Encode(s)) = s
<1> SUFFICES ASSUME NEW s \in Seq(Bytes) PROVE Base64Decode(Base64Encode(s)) = s
  OBVIOUS
<1> DEFINE n == Len(s)
           G == Groups(s)
           c == Base64Encode(s)
           bit(p) == (c[(p \div 6) + 1] \div 2^(5 - (p % 6))) % 2
           byte(p) == 128 * bit(p) + 64 * bit(p + 1) + 32 * bit(p + 2) + 16 * bit(p + 3)
                        + 8 * bit(p + 4) + 4 * bit(p + 5) + 2 * bit(p + 6) + bit(p + 7)
           pads == Cardinality({k \in DOMAIN c : c[k] = Pad})
<1>1. Base64Decode(c) = [j \in 1..((3 * Len(c)) \div 4 - pads) |-> byte(8 * (j - 1))]
  BY DEF Base64Decode
<1>2. n \in Nat /\ G \in Nat /\ 3 * G >= n /\ 3 * G <= n + 2 /\ Len(c) = 4 * G /\ pads = 3 * G - n
  BY Characters, PadsAreRest
<1>3. (3 * Len(c)) \div 4 - pads = n
  <2> HIDE DEF c, pads, G, n
  <2>1. 3 * Len(c) = 12 * G /\ (12 * G) \div 4 = 3 * G
    BY <1>2
  <2> QED BY <1>2, <2>1
<1>4. ASSUME NEW g \in 0..(G - 1), NEW a \in 0..3, NEW r \in 0..5, NEW p, p = 24 * g + 6 * a + r
      PROVE  bit(p) = BitOf(c[4 * g + a + 1], r)
  <2>1. (p \div 6) + 1 = 4 * g + a + 1 /\ (p % 6) = r
    <3>1. p = 6 * (4 * g + a) + r /\ 4 * g + a \in Int
      BY <1>2, <1>4
    <3>2. \A x \in Int : (6 * x + r) \div 6 = x /\ (6 * x + r) % 6 = r
      OBVIOUS
    <3> HIDE DEF G
    <3> QED BY <3>1, <3>2
  <2> HIDE DEF c
  <2> QED BY <2>1, Zenon DEF BitOf
<1> HIDE DEF bit
<1>5. ASSUME NEW j \in 1..n PROVE byte(8 * (j - 1)) = s[j]
  <2> DEFINE g == (j - 1) \div 3
             b == (j - 1) % 3
  <2>1. g \in Nat /\ b \in 0..2 /\ j = 3 * g + b + 1
    <3>1. \A x \in Nat : x \div 3 \in Nat /\ (x % 3) \in 0..2 /\ x = 3 * (x \div 3) + (x % 3)
      OBVIOUS
    <3>2. j \in Int /\ j - 1 \in Nat
      BY <1>2
    <3>3. g \in Nat /\ b \in 0..2 /\ j - 1 = 3 * g + b
      BY <3>1, <3>2
    <3> HIDE DEF g, b
    <3> QED BY <3>2, <3>3
  <2> HIDE DEF g, b
  <2>2. j \in Int /\ j <= n
    BY <1>2
  <2> HIDE DEF n, G, c
  <2>3. g \in 0..(G - 1) /\ b + 1 <= n - 3 * g
    BY <1>2, <2>1, <2>2
  <2> DEFINE v == ValueOf(s, g)
             a1 == ByteAt(s, 3 * g + 1)
             a2 == ByteAt(s, 3 * g + 2)
             a3 == ByteAt(s, 3 * g + 3)
             x0 == (v \div 262144) % 64
             x1 == (v \div 4096) % 64
             x2 == (v \div 64) % 64
             x3 == v % 64
  <2>17. a1 \in Bytes /\ a2 \in Bytes /\ a3 \in Bytes
    BY ByteAtByte, Zenon
  <2>18. v = a1 * 65536 + a2 * 256 + a3
    BY DEF ValueOf
  <2> HIDE DEF v, a1, a2, a3
  <2>4. /\ a1 \in Bytes /\ a2 \in Bytes /\ a3 \in Bytes
        /\ v = a1 * 65536 + a2 * 256 + a3
    BY <2>17, <2>18
  <2>5. /\ x0 \in 0..63 /\ x1 \in 0..63 /\ x2 \in 0..63 /\ x3 \in 0..63
        /\ 4 * x0 + x1 \div 16 = a1
        /\ 16 * (x1 % 16) + x2 \div 4 = a2
        /\ 64 * (x2 % 4) + x3 = a3
    <3>1. Recovered(a1, a2, a3, x0, x1, x2, x3)
      BY <2>4, ThreeBytes
    <3> HIDE DEF x0, x1, x2, x3
    <3> QED BY <3>1, Zenon DEF Recovered
  <2>6. v \in Int
    BY <2>4 DEF Bytes
  <2>7. c[4 * g + 0 + 1] = x0
    <3>1. ~(0 > n - 3 * g)
      BY <1>2, <2>1, <2>3
    <3>2. c[4 * g + 0 + 1] = IF 0 > n - 3 * g THEN Pad ELSE (v \div 64^(3 - 0)) % 64
      BY <2>3, Characters DEF G, n, c, v
    <3> QED BY <3>1, <3>2, Powers
  <2>8. c[4 * g + 1 + 1] = x1
    <3>1. ~(1 > n - 3 * g)
      BY <1>2, <2>1, <2>3
    <3>2. c[4 * g + 1 + 1] = IF 1 > n - 3 * g THEN Pad ELSE (v \div 64^(3 - 1)) % 64
      BY <2>3, Characters DEF G, n, c, v
    <3> QED BY <3>1, <3>2, Powers
  <2>9. b >= 1 => c[4 * g + 2 + 1] = x2
    <3> SUFFICES ASSUME b >= 1 PROVE c[4 * g + 2 + 1] = x2
      OBVIOUS
    <3>1. ~(2 > n - 3 * g)
      BY <1>2, <2>1, <2>3
    <3>2. c[4 * g + 2 + 1] = IF 2 > n - 3 * g THEN Pad ELSE (v \div 64^(3 - 2)) % 64
      BY <2>3, Characters DEF G, n, c, v
    <3> QED BY <3>1, <3>2, Powers
  <2>10. b = 2 => c[4 * g + 3 + 1] = x3
    <3> SUFFICES ASSUME b = 2 PROVE c[4 * g + 3 + 1] = x3
      OBVIOUS
    <3>1. ~(3 > n - 3 * g)
      BY <1>2, <2>1, <2>3
    <3>2. c[4 * g + 3 + 1] = IF 3 > n - 3 * g THEN Pad ELSE (v \div 64^(3 - 3)) % 64
      BY <2>3, Characters DEF G, n, c, v
    <3>3. v \div 1 = v
      BY <2>6
    <3> QED BY <3>1, <3>2, <3>3, Powers
  <2> HIDE DEF x0, x1, x2, x3
  <2>11. /\ \A r \in 0..5 : bit(24 * g + r) = BitOf(x0, r)
         /\ \A r \in 0..5 : bit(24 * g + 6 + r) = BitOf(x1, r)
         /\ b >= 1 => \A r \in 0..5 : bit(24 * g + 12 + r) = BitOf(x2, r)
         /\ b = 2 => \A r \in 0..5 : bit(24 * g + 18 + r) = BitOf(x3, r)
    <3>1. ASSUME NEW r \in 0..5 PROVE bit(24 * g + r) = BitOf(x0, r)
      <4>1. 24 * g + r = 24 * g + 6 * 0 + r
        BY <2>1
      <4>2. 0 \in 0..3
        OBVIOUS
      <4> QED BY <1>4, <2>3, <2>7, <4>1, <4>2, Zenon
    <3>2. ASSUME NEW r \in 0..5 PROVE bit(24 * g + 6 + r) = BitOf(x1, r)
      <4>1. 24 * g + 6 + r = 24 * g + 6 * 1 + r
        BY <2>1
      <4>2. 1 \in 0..3
        OBVIOUS
      <4> QED BY <1>4, <2>3, <2>8, <4>1, <4>2, Zenon
    <3>3. ASSUME b >= 1, NEW r \in 0..5 PROVE bit(24 * g + 12 + r) = BitOf(x2, r)
      <4>1. 24 * g + 12 + r = 24 * g + 6 * 2 + r
        BY <2>1
      <4>2. 2 \in 0..3
        OBVIOUS
      <4>3. c[4 * g + 2 + 1] = x2
        BY <2>9, <3>3, Zenon
      <4> QED BY <1>4, <2>3, <4>1, <4>2, <4>3, Zenon
    <3>4. ASSUME b = 2, NEW r \in 0..5 PROVE bit(24 * g + 18 + r) = BitOf(x3, r)
      <4>1. 24 * g + 18 + r = 24 * g + 6 * 3 + r
        BY <2>1
      <4>2. 3 \in 0..3
        OBVIOUS
      <4>3. c[4 * g + 3 + 1] = x3
        BY <2>10, <3>4, Zenon
      <4> QED BY <1>4, <2>3, <4>1, <4>2, <4>3, Zenon
    <3> QED BY <3>1, <3>2, <3>3, <3>4
  <2>12. s[j] = ByteAt(s, j)
    <3>1. j \in DOMAIN s
      BY DEF n
    <3> QED BY <3>1 DEF ByteAt
  <2>13. CASE b = 0
    <3>1. j = 3 * g + 1 /\ 8 * (j - 1) = 24 * g
      BY <2>1, <2>13
    <3>2. s[j] = a1
      BY <2>12, <3>1 DEF a1
    <3>3. /\ bit(24 * g) = BitOf(x0, 0) /\ bit(24 * g + 1) = BitOf(x0, 1) /\ bit(24 * g + 2) = BitOf(x0, 2)
          /\ bit(24 * g + 3) = BitOf(x0, 3) /\ bit(24 * g + 4) = BitOf(x0, 4) /\ bit(24 * g + 5) = BitOf(x0, 5)
          /\ bit(24 * g + 6) = BitOf(x1, 0) /\ bit(24 * g + 7) = BitOf(x1, 1)
      <4>1. 24 * g + 0 = 24 * g /\ 24 * g + 6 + 0 = 24 * g + 6 /\ 24 * g + 6 + 1 = 24 * g + 7
        BY <2>1
      <4>2. 0 \in 0..5 /\ 1 \in 0..5 /\ 2 \in 0..5 /\ 3 \in 0..5 /\ 4 \in 0..5 /\ 5 \in 0..5
        OBVIOUS
      <4> QED BY <2>11, <4>1, <4>2, Zenon
    <3> DEFINE d0 == BitOf(x0, 0)
               d1 == BitOf(x0, 1)
               d2 == BitOf(x0, 2)
               d3 == BitOf(x0, 3)
               d4 == BitOf(x0, 4)
               d5 == BitOf(x0, 5)
               e0 == BitOf(x1, 0)
               e1 == BitOf(x1, 1)
    <3>4. /\ d0 \in 0..1 /\ d1 \in 0..1 /\ d2 \in 0..1 /\ d3 \in 0..1 /\ d4 \in 0..1 /\ d5 \in 0..1 /\ e0 \in 0..1 /\ e1 \in 0..1
          /\ 32 * d0 + 16 * d1 + 8 * d2 + 4 * d3 + 2 * d4 + d5 = x0
          /\ 2 * e0 + e1 = x1 \div 16
      <4>1. 0 \in 0..5 /\ 1 \in 0..5 /\ 2 \in 0..5 /\ 3 \in 0..5 /\ 4 \in 0..5 /\ 5 \in 0..5
        OBVIOUS
      <4> QED BY <2>5, <4>1, SixBits, Zenon
    <3>5. byte(24 * g) = 128 * d0 + 64 * d1 + 32 * d2 + 16 * d3 + 8 * d4 + 4 * d5 + 2 * e0 + e1
      BY <3>3, Zenon
    <3> HIDE DEF d0, d1, d2, d3, d4, d5, e0, e1, byte
    <3>6. byte(24 * g) = 4 * x0 + x1 \div 16
      BY <3>4, <3>5
    <3> QED BY <2>5, <3>1, <3>2, <3>6, Zenon
  <2>14. CASE b = 1
    <3>1. j = 3 * g + 2 /\ 8 * (j - 1) = 24 * g + 8
      BY <2>1, <2>14
    <3>2. s[j] = a2
      BY <2>12, <3>1 DEF a2
    <3>3. /\ bit(24 * g + 8) = BitOf(x1, 2) /\ bit(24 * g + 8 + 1) = BitOf(x1, 3) /\ bit(24 * g + 8 + 2) = BitOf(x1, 4)
          /\ bit(24 * g + 8 + 3) = BitOf(x1, 5) /\ bit(24 * g + 8 + 4) = BitOf(x2, 0) /\ bit(24 * g + 8 + 5) = BitOf(x2, 1)
          /\ bit(24 * g + 8 + 6) = BitOf(x2, 2) /\ bit(24 * g + 8 + 7) = BitOf(x2, 3)
      <4>1. /\ 24 * g + 8 = 24 * g + 6 + 2 /\ 24 * g + 8 + 1 = 24 * g + 6 + 3 /\ 24 * g + 8 + 2 = 24 * g + 6 + 4
            /\ 24 * g + 8 + 3 = 24 * g + 6 + 5 /\ 24 * g + 8 + 4 = 24 * g + 12 + 0 /\ 24 * g + 8 + 5 = 24 * g + 12 + 1
            /\ 24 * g + 8 + 6 = 24 * g + 12 + 2 /\ 24 * g + 8 + 7 = 24 * g + 12 + 3
        BY <2>1
      <4>2. 0 \in 0..5 /\ 1 \in 0..5 /\ 2 \in 0..5 /\ 3 \in 0..5 /\ 4 \in 0..5 /\ 5 \in 0..5
        OBVIOUS
      <4>3. b >= 1
        BY <2>14
      <4> QED BY <2>11, <4>1, <4>2, <4>3, Zenon
    <3> DEFINE d2 == BitOf(x1, 2)
               d3 == BitOf(x1, 3)
               d4 == BitOf(x1, 4)
               d5 == BitOf(x1, 5)
               e0 == BitOf(x2, 0)
               e1 == BitOf(x2, 1)
               e2 == BitOf(x2, 2)
               e3 == BitOf(x2, 3)
    <3>4. /\ d2 \in 0..1 /\ d3 \in 0..1 /\ d4 \in 0..1 /\ d5 \in 0..1 /\ e0 \in 0..1 /\ e1 \in 0..1 /\ e2 \in 0..1 /\ e3 \in 0..1
          /\ 8 * d2 + 4 * d3 + 2 * d4 + d5 = x1 % 16
          /\ 8 * e0 + 4 * e1 + 2 * e2 + e3 = x2 \div 4
      <4>1. 0 \in 0..5 /\ 1 \in 0..5 /\ 2 \in 0..5 /\ 3 \in 0..5 /\ 4 \in 0..5 /\ 5 \in 0..5
        OBVIOUS
      <4> QED BY <2>5, <4>1, SixBits, Zenon
    <3>5. byte(24 * g + 8) = 128 * d2 + 64 * d3 + 32 * d4 + 16 * d5 + 8 * e0 + 4 * e1 + 2 * e2 + e3
      BY <3>3, Zenon
    <3> HIDE DEF d2, d3, d4, d5, e0, e1, e2, e3, byte
    <3>6. byte(24 * g + 8) = 16 * (x1 % 16) + x2 \div 4
      BY <3>4, <3>5
    <3> QED BY <2>5, <3>1, <3>2, <3>6, Zenon
  <2>15. CASE b = 2
    <3>1. j = 3 * g + 3 /\ 8 * (j - 1) = 24 * g + 16
      BY <2>1, <2>15
    <3>2. s[j] = a3
      BY <2>12, <3>1 DEF a3
    <3>3. /\ bit(24 * g + 16) = BitOf(x2, 4) /\ bit(24 * g + 16 + 1) = BitOf(x2, 5) /\ bit(24 * g + 16 + 2) = BitOf(x3, 0)
          /\ bit(24 * g + 16 + 3) = BitOf(x3, 1) /\ bit(24 * g + 16 + 4) = BitOf(x3, 2) /\ bit(24 * g + 16 + 5) = BitOf(x3, 3)
          /\ bit(24 * g + 16 + 6) = BitOf(x3, 4) /\ bit(24 * g + 16 + 7) = BitOf(x3, 5)
      <4>1. /\ 24 * g + 16 = 24 * g + 12 + 4 /\ 24 * g + 16 + 1 = 24 * g + 12 + 5 /\ 24 * g + 16 + 2 = 24 * g + 18 + 0
            /\ 24 * g + 16 + 3 = 24 * g + 18 + 1 /\ 24 * g + 16 + 4 = 24 * g + 18 + 2 /\ 24 * g + 16 + 5 = 24 * g + 18 + 3
            /\ 24 * g + 16 + 6 = 24 * g + 18 + 4 /\ 24 * g + 16 + 7 = 24 * g + 18 + 5
        BY <2>1
      <4>2. 0 \in 0..5 /\ 1 \in 0..5 /\ 2 \in 0..5 /\ 3 \in 0..5 /\ 4 \in 0..5 /\ 5 \in 0..5
        OBVIOUS
      <4>3. b >= 1
        BY <2>15
      <4> QED BY <2>11, <2>15, <4>1, <4>2, <4>3, Zenon
    <3> DEFINE d4 == BitOf(x2, 4)
               d5 == BitOf(x2, 5)
               e0 == BitOf(x3, 0)
               e1 == BitOf(x3, 1)
               e2 == BitOf(x3, 2)
               e3 == BitOf(x3, 3)
               e4 == BitOf(x3, 4)
               e5 == BitOf(x3, 5)
    <3>4. /\ d4 \in 0..1 /\ d5 \in 0..1 /\ e0 \in 0..1 /\ e1 \in 0..1 /\ e2 \in 0..1 /\ e3 \in 0..1 /\ e4 \in 0..1 /\ e5 \in 0..1
          /\ 2 * d4 + d5 = x2 % 4
          /\ 32 * e0 + 16 * e1 + 8 * e2 + 4 * e3 + 2 * e4 + e5 = x3
      <4>1. 0 \in 0..5 /\ 1 \in 0..5 /\ 2 \in 0..5 /\ 3 \in 0..5 /\ 4 \in 0..5 /\ 5 \in 0..5
        OBVIOUS
      <4> QED BY <2>5, <4>1, SixBits, Zenon
    <3>5. byte(24 * g + 16) = 128 * d4 + 64 * d5 + 32 * e0 + 16 * e1 + 8 * e2 + 4 * e3 + 2 * e4 + e5
      BY <3>3, Zenon
    <3> HIDE DEF d4, d5, e0, e1, e2, e3, e4, e5, byte
    <3>6. byte(24 * g + 16) = 64 * (x2 % 4) + x3
      BY <3>4, <3>5
    <3> QED BY <2>5, <3>1, <3>2, <3>6, Zenon
  <2>16. b = 0 \/ b = 1 \/ b = 2
    BY <2>1
  <2> QED BY <2>13, <2>14, <2>15, <2>16
<1>6. s = [j \in 1..n |-> s[j]]
  OBVIOUS
<1> HIDE DEF byte, pads
<1>7. Base64Decode(c) = [j \in 1..n |-> byte(8 * (j - 1))]
  BY <1>1, <1>3
<1>8. [j \in 1..n |-> byte(8 * (j - 1))] = [j \in 1..n |-> s[j]]
  BY <1>5, Zenon
<1> QED BY <1>6, <1>7, <1>8, Zenon

-----------------------------------------------------------------------------
(* The tables that are built at once                                       *)

(* The elements of two lists together are those of each.                 *)
LEMMA SeqsTogether ==
    ASSUME NEW s, NEW t, IsSeq(s), IsSeq(t)
    PROVE  /\ IsSeq(s \o t) /\ \A x : x \in ToSet(s \o t) <=> x \in ToSet(s) \/ x \in ToSet(t)
           /\ s \in Seq(ToSet(s) \cup ToSet(t)) /\ t \in Seq(ToSet(s) \cup ToSet(t))
<1> DEFINE S == ToSet(s) \cup ToSet(t)
           u == s \o t
<1>1. s \in Seq(ToSet(s)) /\ t \in Seq(ToSet(t))
  BY DEF IsSeq
<1>2. s \in Seq(S) /\ t \in Seq(S)
  <2> DEFINE A == ToSet(s)
             B == ToSet(t)
             C == A \cup B
  <2>1. A \subseteq C /\ B \subseteq C
    OBVIOUS
  <2> HIDE DEF A, B, C
  <2>2. s \in Seq(A) /\ t \in Seq(B)
    BY <1>1 DEF A, B
  <2>3. s \in Seq(C) /\ t \in Seq(C)
    BY <2>1, <2>2, SeqMonotonic
  <2> QED BY <2>3 DEF A, B, C
<1> HIDE DEF S
<1>3. u \in Seq(S) /\ \A x : x \in ToSet(u) <=> x \in ToSet(s) \/ x \in ToSet(t)
  BY <1>2, ConcatFacts, ToSetConcat
<1> HIDE DEF u
<1>4. IsSeq(u)
  BY <1>3, InSeq
<1> QED BY <1>2, <1>3, <1>4 DEF u, S

(* Every reply to a list command is a list.                              *)
LEMMA RepliesAreSeqs ==
    ASSUME NEW m, IsCore(m), NEW c \in Commands
    PROVE  /\ IsSeq(Elements(Reply(m, c)))
           /\ \A j \in ToSet(Elements(Reply(m, c))) : j \in ToSet(m.listed[c])
           /\ \A j \in ToSet(Elements(Reply(m, c))) : \A k \in DOMAIN j \cap PlaceKeys : j[k] \in Addresses
<1>1. Elements(Reply(m, c)) = IF c \in m.mute THEN <<>> ELSE m.listed[c]
  BY DEF Elements, Reply, Null, Array
<1>2. IsSeq(<<>>) /\ ToSet(<<>>) = {}
  BY DEF IsSeq, ToSet
<1>3. IsSeq(m.listed[c]) /\ \A j \in ToSet(m.listed[c]) : \A k \in DOMAIN j \cap PlaceKeys : j[k] \in Addresses
  BY Zenon DEF IsCore, IsSeq
<1>4. CASE c \in m.mute
  BY <1>1, <1>2, <1>4, Zenon
<1>5. CASE c \notin m.mute
  BY <1>1, <1>3, <1>5, Zenon
<1> QED BY <1>4, <1>5

(* Positions and elements of a list.                                     *)
LEMMA SeqDomain ==
    ASSUME NEW s, IsSeq(s)
    PROVE  Len(s) \in Nat /\ DOMAIN s = 1..Len(s) /\ (\A i \in 1..Len(s) : s[i] \in ToSet(s))
           /\ \A x : x \in ToSet(s) <=> \E i \in 1..Len(s) : x = s[i]
BY InSeq DEF IsSeq

Places(objs, key) == [i \in DOMAIN objs |-> [addr |-> I64(objs[i], key, 0)]]

(* The caches of what is in the file are lists.                          *)
LEMMA ListingsAreSeqs ==
    ASSUME NEW m, IsCore(m)
    PROVE  /\ \A used : IsSeq(StringsCache(m, used)) /\ Len(StringsCache(m, used)) = Len(Elements(Reply(m, "izj")))
           /\ IsSeq(ImportsCache(m)) /\ Len(ImportsCache(m)) = Len(Elements(Reply(m, "iij")))
           /\ IsSeq(ExportsCache(m)) /\ Len(ExportsCache(m)) = Len(Elements(Reply(m, "iEj")))
           /\ IsSeq(SectionsCache(m)) /\ Len(SectionsCache(m)) = Len(Elements(Reply(m, "iSj")))
           /\ IsSeq(SegmentsCache(m)) /\ Len(SegmentsCache(m)) = Len(Elements(Reply(m, "iSSj")))
<1>1. \A c \in Commands : /\ Len(Elements(Reply(m, c))) \in Nat
                          /\ DOMAIN Elements(Reply(m, c)) = 1..Len(Elements(Reply(m, c)))
  BY RepliesAreSeqs, SeqDomain
<1>2. ASSUME NEW used
      PROVE  IsSeq(StringsCache(m, used)) /\ Len(StringsCache(m, used)) = Len(Elements(Reply(m, "izj")))
  <2> DEFINE objs == Elements(Reply(m, "izj"))
             s == StringsCache(m, used)
             row(j) == [addr |-> I64(j, "vaddr", 0), text |-> IF used \cap {4, 63} # {} THEN j.string ELSE ""]
  <2>1. Len(objs) \in Nat /\ DOMAIN objs = 1..Len(objs)
    BY <1>1 DEF Commands
  <2>2. s = [i \in DOMAIN objs |-> row(objs[i])]
    BY Zenon DEF StringsCache, Map
  <2> HIDE DEF objs, s, row
  <2>3. DOMAIN s = 1..Len(objs) /\ s = [i \in 1..Len(objs) |-> s[i]]
    BY <2>1, <2>2
  <2>4. IsSeq(s) /\ Len(s) = Len(objs)
    BY <2>1, <2>3, FunctionIsSeq
  <2> QED BY <2>4 DEF s, objs
<1>3. ASSUME NEW c \in Commands, NEW key
      PROVE  IsSeq(Places(Elements(Reply(m, c)), key)) /\ Len(Places(Elements(Reply(m, c)), key)) = Len(Elements(Reply(m, c)))
  <2> DEFINE objs == Elements(Reply(m, c))
             s == Places(objs, key)
             row(j) == [addr |-> I64(j, key, 0)]
  <2>1. Len(objs) \in Nat /\ DOMAIN objs = 1..Len(objs)
    BY <1>1
  <2>2. s = [i \in DOMAIN objs |-> row(objs[i])]
    BY Zenon DEF Places
  <2> HIDE DEF objs, row, s
  <2>3. DOMAIN s = 1..Len(objs) /\ s = [i \in 1..Len(objs) |-> s[i]]
    BY <2>1, <2>2
  <2>4. IsSeq(s) /\ Len(s) = Len(objs)
    BY <2>1, <2>3, FunctionIsSeq
  <2> QED BY <2>4 DEF objs, s
<1>4. "iij" \in Commands /\ "iEj" \in Commands /\ "iSj" \in Commands /\ "iSSj" \in Commands
  BY DEF Commands
<1>5. IsSeq(ImportsCache(m)) /\ Len(ImportsCache(m)) = Len(Elements(Reply(m, "iij")))
  <2>1. ImportsCache(m) = Places(Elements(Reply(m, "iij")), "plt")
    BY DEF ImportsCache, Map, Places
  <2> QED BY <2>1, <1>3, <1>4
<1>6. IsSeq(ExportsCache(m)) /\ Len(ExportsCache(m)) = Len(Elements(Reply(m, "iEj")))
  <2>1. ExportsCache(m) = Places(Elements(Reply(m, "iEj")), "vaddr")
    BY DEF ExportsCache, Map, Places
  <2> QED BY <2>1, <1>3, <1>4
<1>7. IsSeq(SectionsCache(m)) /\ Len(SectionsCache(m)) = Len(Elements(Reply(m, "iSj")))
  <2>1. SectionsCache(m) = Places(Elements(Reply(m, "iSj")), "vaddr")
    BY DEF SectionsCache, Map, Places
  <2> QED BY <2>1, <1>3, <1>4
<1>8. IsSeq(SegmentsCache(m)) /\ Len(SegmentsCache(m)) = Len(Elements(Reply(m, "iSSj")))
  <2>1. SegmentsCache(m) = Places(Elements(Reply(m, "iSSj")), "vaddr")
    BY DEF SegmentsCache, Map, Places
  <2> QED BY <2>1, <1>3, <1>4
<1> QED BY <1>2, <1>5, <1>6, <1>7, <1>8

(* The references that a command lists, and the rows made of them.         *)
RefsOf(m, a) == Chosen(m.refs, {r \in ToSet(m.refs) : \E f \in Holders(m, a) : r.from \in Span(f)})
RefsTo(m, a) == Chosen(m.refs, {r \in ToSet(m.refs) : r.to = a})
RefsFrom(m, a) == Chosen(m.refs, {r \in ToSet(m.refs) : r.from = a})
XrefsOf(m, fa) ==
    LET refs == RefsOf(m, HexAddr(fa))
    IN [i \in DOMAIN refs |-> XrefRow(ToSigned(refs[i].from), ToSigned(refs[i].to), HexAddr(fa))]
ListedXrefs(m, fa) == Map(Elements(Afxj(m, HexAddr(fa))), LAMBDA j : XrefRow(From(j), To(j), HexAddr(fa)))

(* The references chosen are lists of references.                        *)
LEMMA RefsFacts ==
    ASSUME NEW m, IsCore(m), NEW K
    PROVE  /\ IsSeq(m.refs) /\ IsSeq(Chosen(m.refs, K))
           /\ \A r : r \in ToSet(Chosen(m.refs, K)) <=> r \in ToSet(m.refs) /\ r \in K
           /\ \A r \in ToSet(m.refs) : /\ r.from \in Addresses /\ r.to \in Addresses
                                       /\ r = [from |-> r.from, to |-> r.to]
                                       /\ From(r) = ToSigned(r.from) /\ To(r) = ToSigned(r.to)
                                       /\ \A v : I64(r, "from", v) = ToSigned(r.from)
<1> DEFINE T == [from : Addresses, to : Addresses]
           R == m.refs
<1>1. R \in Seq(T)
  BY DEF IsCore
<1>2. \A r \in T : /\ r.from \in Addresses /\ r.to \in Addresses
                   /\ r = [from |-> r.from, to |-> r.to] /\ DOMAIN r = {"from", "to"}
  OBVIOUS
<1> HIDE DEF T, R
<1>3. IsSeq(R) /\ ToSet(R) \subseteq T
  BY <1>1, InSeq
<1>4. /\ Chosen(R, K) \in Seq(T)
      /\ \A r : r \in ToSet(Chosen(R, K)) <=> r \in ToSet(R) /\ r \in K
  BY <1>1, ChosenFacts
<1>5. IsSeq(Chosen(R, K))
  BY <1>4, InSeq
<1>6. ASSUME NEW r \in ToSet(R)
      PROVE  /\ r.from \in Addresses /\ r.to \in Addresses
             /\ r = [from |-> r.from, to |-> r.to]
             /\ From(r) = ToSigned(r.from) /\ To(r) = ToSigned(r.to)
             /\ \A v : I64(r, "from", v) = ToSigned(r.from)
  <2>1. /\ r.from \in Addresses /\ r.to \in Addresses
        /\ r = [from |-> r.from, to |-> r.to] /\ DOMAIN r = {"from", "to"}
    BY <1>2, <1>3
  <2>2. From(r) = ToSigned(r.from) /\ To(r) = ToSigned(r.to) /\ \A v : I64(r, "from", v) = ToSigned(r.from)
    BY <2>1 DEF From, To, I64
  <2> QED BY <2>1, <2>2, Zenon
<1> QED BY <1>3, <1>4, <1>5, <1>6, Zenon DEF R

(* Each command about references chooses from those there are.           *)
LEMMA SelectRefs ==
    ASSUME NEW m, NEW a
    PROVE  /\ Elements(Axtj(m, a)) = RefsTo(m, a)
           /\ Elements(Axfj(m, a)) = RefsFrom(m, a)
           /\ Elements(Afxj(m, a)) = RefsOf(m, a)
<1> DEFINE S == ToSet(m.refs)
<1>1. \A s : Elements(Array(s)) = s
  BY DEF Elements, Array
<1>2. Select(m.refs, LAMBDA r : r.to = a) = Chosen(m.refs, {r \in S : r.to = a})
  <2>1. [x \in S |-> IF x.to = a THEN <<x>> ELSE <<>>] = Pick(S, {r \in S : r.to = a})
    BY DEF Pick
  <2> QED BY <2>1, Zenon DEF Select, Chosen
<1>3. Select(m.refs, LAMBDA r : r.from = a) = Chosen(m.refs, {r \in S : r.from = a})
  <2>1. [x \in S |-> IF x.from = a THEN <<x>> ELSE <<>>] = Pick(S, {r \in S : r.from = a})
    BY DEF Pick
  <2> QED BY <2>1, Zenon DEF Select, Chosen
<1>4. Select(m.refs, LAMBDA r : \E f \in Holders(m, a) : r.from \in Span(f))
        = Chosen(m.refs, {r \in S : \E f \in Holders(m, a) : r.from \in Span(f)})
  <2>1. [x \in S |-> IF \E f \in Holders(m, a) : x.from \in Span(f) THEN <<x>> ELSE <<>>]
          = Pick(S, {r \in S : \E f \in Holders(m, a) : r.from \in Span(f)})
    BY DEF Pick
  <2> QED BY <2>1, Zenon DEF Select, Chosen
<1> QED BY <1>1, <1>2, <1>3, <1>4 DEF Axtj, Axfj, Afxj, RefsTo, RefsFrom, RefsOf

(* The references from one function, as rows.                            *)
LEMMA XrefsOfFacts ==
    ASSUME NEW m, IsCore(m), NEW fa
    PROVE  /\ XrefsOf(m, fa) = ListedXrefs(m, fa)
           /\ IsSeq(XrefsOf(m, fa)) /\ Len(XrefsOf(m, fa)) = Len(RefsOf(m, HexAddr(fa)))
<1> DEFINE s == RefsOf(m, HexAddr(fa))
           t == XrefsOf(m, fa)
<1>1. Elements(Afxj(m, HexAddr(fa))) = s
  BY SelectRefs
<1>2. IsSeq(s) /\ \A r \in ToSet(s) : r \in ToSet(m.refs)
  BY RefsFacts DEF RefsOf
<1>3. Len(s) \in Nat /\ DOMAIN s = 1..Len(s) /\ \A i \in 1..Len(s) : s[i] \in ToSet(m.refs)
  BY <1>2, SeqDomain
<1>4. t = [i \in DOMAIN s |-> XrefRow(ToSigned(s[i].from), ToSigned(s[i].to), HexAddr(fa))]
  BY DEF XrefsOf
<1>5. Map(s, LAMBDA j : XrefRow(From(j), To(j), HexAddr(fa))) = [i \in DOMAIN s |-> XrefRow(From(s[i]), To(s[i]), HexAddr(fa))]
  BY Zenon DEF Map
<1> HIDE DEF s, t
<1>6. \A i \in DOMAIN s : From(s[i]) = ToSigned(s[i].from) /\ To(s[i]) = ToSigned(s[i].to)
  BY <1>3, RefsFacts
<1>7. t = [i \in DOMAIN s |-> XrefRow(From(s[i]), To(s[i]), HexAddr(fa))]
  BY <1>4, <1>6
<1>8. DOMAIN t = 1..Len(s) /\ t = [i \in 1..Len(s) |-> t[i]]
  BY <1>3, <1>4
<1>9. IsSeq(t) /\ Len(t) = Len(s)
  BY <1>3, <1>8, FunctionIsSeq
<1>10. ListedXrefs(m, fa) = [i \in DOMAIN s |-> XrefRow(From(s[i]), To(s[i]), HexAddr(fa))]
  BY <1>1, <1>5 DEF ListedXrefs
<1> QED BY <1>7, <1>9, <1>10 DEF s, t

(* The cache of xrefs is a list of such rows.                            *)
LEMMA XrefsCacheFacts ==
    ASSUME NEW m, IsCore(m)
    PROVE  /\ XrefsCache(m) = Joined(FuncAddrs(m), [fa \in ToSet(FuncAddrs(m)) |-> XrefsOf(m, fa)])
           /\ IsSeq(XrefsCache(m))
<1> DEFINE F == FuncAddrs(m)
           f == [fa \in ToSet(F) |-> XrefsOf(m, fa)]
           T == UNION {ToSet(XrefsOf(m, fa)) : fa \in ToSet(F)}
<1>1. XrefsCache(m) = Joined(F, f)
  <2>1. \A fa \in ToSet(F) : XrefsOf(m, fa) = ListedXrefs(m, fa)
    BY XrefsOfFacts
  <2>2. f = [fa \in ToSet(F) |-> ListedXrefs(m, fa)]
    BY <2>1
  <2> QED BY <2>2 DEF XrefsCache, Gather, ListedXrefs
<1>2. F \in Seq(Int64) /\ \A i \in 1..Len(F) : F[i] \in ToSet(F)
  <2>1. F \in Seq(Int64)
    BY FuncAddrsFacts
  <2> HIDE DEF F
  <2> QED BY <2>1, InSeq
<1>3. ASSUME NEW fa \in ToSet(F) PROVE f[fa] \in Seq(T)
  <2> DEFINE s == XrefsOf(m, fa)
  <2>1. s \in Seq(ToSet(s))
    BY XrefsOfFacts DEF IsSeq
  <2>2. ToSet(s) \subseteq T
    OBVIOUS
  <2>3. f[fa] = s
    OBVIOUS
  <2> HIDE DEF s, T, f
  <2> QED BY <2>1, <2>2, <2>3, SeqMonotonic
<1> HIDE DEF f, T
<1>4. Joined(F, f) \in Seq(T)
  <2>1. \A i \in 1..Len(F) : f[F[i]] \in Seq(T)
    BY <1>2, <1>3
  <2> HIDE DEF F
  <2> QED BY <1>2, <2>1, JoinedFacts
<1>5. IsSeq(Joined(F, f))
  BY <1>4, InSeq
<1> QED BY <1>1, <1>5 DEF f

(***************************************************************************)
(* The list of types is finite                                             *)
(***************************************************************************)

(* Lists put together are a list.                                        *)
LEMMA JoinedIsSeq ==
    ASSUME NEW S, NEW f, \A x \in S : IsSeq(f[x]), NEW s \in Seq(S)
    PROVE  IsSeq(Joined(s, f))
<1> DEFINE T == UNION {ToSet(f[x]) : x \in S}
<1>1. ASSUME NEW i \in 1..Len(s) PROVE f[s[i]] \in Seq(T)
  <2> DEFINE A == ToSet(f[s[i]])
  <2>1. s[i] \in S
    OBVIOUS
  <2>2. f[s[i]] \in Seq(A)
    BY <2>1 DEF IsSeq
  <2>3. A \subseteq T
    BY <2>1
  <2> HIDE DEF A, T
  <2> QED BY <2>2, <2>3, SeqMonotonic
<1> HIDE DEF T
<1>2. Joined(s, f) \in Seq(T)
  BY <1>1, JoinedFacts
<1> QED BY <1>2, InSeq

(* The image of a finite set is finite.                                  *)
LEMMA FiniteImage ==
    ASSUME NEW S, IsFiniteSet(S), NEW f
    PROVE  IsFiniteSet({f[x] : x \in S})
<1> DEFINE T == {f[x] : x \in S}
           g == [x \in S |-> f[x]]
<1>1. g \in Surjection(S, T)
  BY DEF Surjection
<1> QED BY <1>1, FS_Surjection

(* SetToSeq lists a finite set.                                          *)
LEMMA SeqOfSet ==
    ASSUME NEW S, IsFiniteSet(S)
    PROVE  /\ IsSeq(SetToSeq(S)) /\ \A x : x \in ToSet(SetToSeq(S)) <=> x \in S
           /\ Len(SetToSeq(S)) = Cardinality(S) /\ IsInjective(SetToSeq(S))
<1> DEFINE n == Cardinality(S)
           s == SetToSeq(S)
<1>1. n \in Nat /\ \E f : f \in Bijection(1..n, S)
  BY FS_CardinalityType DEF ExistsBijection
<1>2. \E f \in [1..n -> S] : IsInjective(f)
  BY <1>1 DEF Bijection, Injection
<1>3. s \in [1..n -> S] /\ IsInjective(s)
  BY <1>2 DEF SetToSeq
<1> HIDE DEF s
<1>4. s \in Injection(1..n, S)
  BY <1>3 DEF Injection
<1>5. IsFiniteSet(1..n) /\ Cardinality(1..n) = n
  BY <1>1, FS_Interval
<1>6. s \in Surjection(1..n, S)
  BY <1>4, <1>5, FS_Injection
<1>7. s \in Seq(S) /\ Len(s) = n
  BY <1>1, <1>3
<1>8. \A x : x \in ToSet(s) <=> x \in S
  BY <1>3, <1>6 DEF ToSet, Surjection
<1>9. IsSeq(s)
  BY <1>7, InSeq
<1> QED BY <1>3, <1>7, <1>8, <1>9 DEF s

(* A dump has finitely many ends of records.                             *)
LEMMA EndsFinite ==
    ASSUME NEW tk, IsSeq(tk)
    PROVE  /\ Len(tk) \in Nat /\ DOMAIN tk = 1..Len(tk) /\ Ends(tk) \subseteq 1..(Len(tk) + 1)
           /\ IsFiniteSet(Ends(tk)) /\ IsFiniteSet({0} \cup Ends(tk))
<1>1. Len(tk) \in Nat /\ DOMAIN tk = 1..Len(tk)
  BY SeqDomain
<1>2. Ends(tk) \subseteq 1..(Len(tk) + 1)
  <2> DEFINE n == Len(tk)
  <2>1. n \in Nat /\ DOMAIN tk = 1..n
    BY <1>1
  <2>2. Ends(tk) = {i \in 1..n : tk[i] \in {"\n", " "}} \cup {n + 1}
    BY <2>1, Zenon DEF Ends
  <2>3. \A i \in 1..n : i \in 1..(n + 1)
    BY <2>1
  <2>4. n + 1 \in 1..(n + 1)
    BY <2>1
  <2> HIDE DEF n
  <2>5. ASSUME NEW x \in Ends(tk) PROVE x \in 1..(n + 1)
    BY <2>2, <2>3, <2>4, Zenon
  <2> QED BY <2>5 DEF n
<1>3. IsFiniteSet(0..(Len(tk) + 1))
  BY <1>1, FS_Interval
<1>4. Ends(tk) \subseteq 0..(Len(tk) + 1) /\ {0} \cup Ends(tk) \subseteq 0..(Len(tk) + 1)
  BY <1>1, <1>2
<1>5. IsFiniteSet(Ends(tk)) /\ IsFiniteSet({0} \cup Ends(tk))
  BY <1>3, <1>4, FS_Subset
<1> QED BY <1>1, <1>2, <1>5

(* A stripped text is finite.                                            *)
LEMMA StripFinite ==
    ASSUME NEW T, NEW text \in Seq(T)
    PROVE  IsFiniteSet(DOMAIN Strip(text))
<1> DEFINE kept == {i \in DOMAIN text : /\ \E j \in 1..i : text[j] \notin {"*", "\r"}
                                        /\ \E j \in i..Len(text) : text[j] # "\r"}
           first == CHOOSE i \in kept : \A j \in kept : i <= j
           last == CHOOSE i \in kept : \A j \in kept : j <= i
<1>1. Strip(text) = IF kept = {} THEN <<>> ELSE SubSeq(text, first, last)
  BY DEF Strip
<1>2. kept \subseteq 1..Len(text) /\ Len(text) \in Nat
  OBVIOUS
<1> HIDE DEF kept
<1>3. CASE kept = {}
  <2>1. DOMAIN <<>> = {} /\ IsFiniteSet({})
    BY FS_EmptySet
  <2> QED BY <1>1, <1>3, <2>1
<1>4. CASE kept # {}
  <2>1. first \in kept
    <3>1. kept \in SUBSET Nat
      BY <1>2
    <3>2. \E i \in kept : \A j \in kept : i <= j
      BY <1>4, <3>1, LeastNumber
    <3> QED BY <3>2
  <2>2. last \in kept
    <3> DEFINE n == Len(text)
               back == {b \in 0..n : n - b \in kept}
    <3>1. back # {} /\ back \in SUBSET Nat
      <4>1. \A i \in kept : n - i \in 0..n /\ n - (n - i) = i
        BY <1>2
      <4> QED BY <1>4, <4>1
    <3>2. PICK b \in back : \A c \in back : b <= c
      <4> HIDE DEF back
      <4> QED BY <3>1, LeastNumber
    <3>3. \A j \in kept : j <= n - b
      <4> SUFFICES ASSUME NEW j \in kept PROVE j <= n - b
        OBVIOUS
      <4>1. n - j \in back /\ b \in 0..n /\ j \in 1..n
        BY <1>2
      <4>2. b <= n - j
        BY <3>2, <4>1
      <4> QED BY <1>2, <4>1, <4>2
    <3>4. n - b \in kept
      BY <3>2
    <3> QED BY <3>3, <3>4
  <2> HIDE DEF first, last
  <2>3. first \in Int /\ last \in Int
    BY <1>2, <2>1, <2>2
  <2>4. DOMAIN SubSeq(text, first, last) = 1..(last - first + 1)
    BY <2>3
  <2>5. IsFiniteSet(1..(last - first + 1))
    BY <2>3, FS_Interval
  <2> QED BY <1>1, <1>4, <2>4, <2>5
<1> QED BY <1>3, <1>4

(* A dump has finitely many records.                                     *)
LEMMA RecordsFinite ==
    ASSUME NEW tk, IsSeq(tk)
    PROVE  IsFiniteSet(Records(tk)) /\ \A r \in Records(tk) : IsFiniteSet(DOMAIN r.record)
<1> DEFINE bounds == {p \in ({0} \cup Ends(tk)) \X Ends(tk) :
                         p[1] < p[2] /\ \A i \in (p[1] + 1)..(p[2] - 1) : tk[i] \notin {"\n", " "}}
           g == [p \in bounds |-> [at |-> p[1], record |-> Strip(SubSeq(tk, p[1] + 1, p[2] - 1))]]
<1>1. IsFiniteSet(({0} \cup Ends(tk)) \X Ends(tk))
  BY EndsFinite, FS_Product
<1>2. IsFiniteSet(bounds)
  BY <1>1, FS_Subset
<1>3. Records(tk) = {g[p] : p \in bounds}
  BY Zenon DEF Records
<1>4. ASSUME NEW r \in Records(tk) PROVE IsFiniteSet(DOMAIN r.record)
  <2>1. PICK p \in bounds : r = g[p]
    BY <1>3
  <2> DEFINE text == SubSeq(tk, p[1] + 1, p[2] - 1)
  <2>2. r.record = Strip(text)
    BY <2>1
  <2> DEFINE n == Len(tk)
             a == p[1]
             b == p[2]
  <2>3. n \in Nat /\ Ends(tk) \subseteq 1..(n + 1)
    BY EndsFinite
  <2>4. a \in {0} \cup Ends(tk) /\ b \in Ends(tk)
    BY <2>1
  <2>5. tk \in Seq(ToSet(tk))
    BY DEF IsSeq
  <2>6. text \in Seq(ToSet(tk))
    <3> HIDE DEF a, b, bounds, g
    <3>1. a \in 0..(n + 1) /\ b \in 1..(n + 1)
      BY <2>3, <2>4
    <3>2. \A i \in (a + 1)..(b - 1) : i \in 1..n
      BY <2>3, <3>1
    <3>3. SubSeq(tk, a + 1, b - 1) \in Seq(ToSet(tk))
      BY <2>3, <2>5, <3>1, <3>2
    <3> QED BY <3>3 DEF a, b
  <2> HIDE DEF text
  <2> QED BY <2>2, <2>6, StripFinite
<1> HIDE DEF bounds, g
<1>5. IsFiniteSet(Records(tk))
  BY <1>2, <1>3, FiniteImage
<1> QED BY <1>4, <1>5

(* parse_tk_dump finds finitely many types.                              *)
LEMMA ParsedFinite ==
    ASSUME NEW tk, IsSeq(tk)
    PROVE  IsFiniteSet(ParseTkDump(tk))
<1> DEFINE found(r) == {[at |-> r.at, name |-> n, kind |-> r.record[Len(r.record)]] : n \in TypeName(r.record)}
           types == UNION {found(r) : r \in Records(tk)}
           kept == {u \in types : \A v \in types : v.at < u.at => v.name # u.name}
           g == [t \in kept |-> [name |-> t.name, kind |-> t.kind]]
<1>1. ASSUME NEW r \in Records(tk) PROVE IsFiniteSet(found(r))
  <2> DEFINE R == r.record
             K == {i \in DOMAIN R : /\ R[1] # "#" /\ R[i] = "=" /\ Len(R) = i + 1 /\ R[i + 1] \in Kinds
                                    /\ \A j \in 1..(i - 1) : R[j] \notin {"=", "."}}
             h == [eq \in K |-> SubSeq(R, 1, eq - 1)]
             f == [n \in TypeName(R) |-> [at |-> r.at, name |-> n, kind |-> R[Len(R)]]]
  <2>1. IsFiniteSet(DOMAIN R)
    BY RecordsFinite
  <2>2. IsFiniteSet(K)
    BY <2>1, FS_Subset
  <2>3. TypeName(R) = {h[eq] : eq \in K}
    BY Zenon DEF TypeName
  <2>4. found(r) = {f[n] : n \in TypeName(R)}
    BY Zenon
  <2> HIDE DEF R, K, h, f, found
  <2>5. IsFiniteSet(TypeName(R))
    BY <2>2, <2>3, FiniteImage
  <2> QED BY <2>4, <2>5, FiniteImage
<1>2. IsFiniteSet(types)
  <2> DEFINE F == [r \in Records(tk) |-> found(r)]
  <2>1. {found(r) : r \in Records(tk)} = {F[r] : r \in Records(tk)}
    BY Zenon
  <2> HIDE DEF F, found
  <2>2. IsFiniteSet(Records(tk)) /\ IsFiniteSet({F[r] : r \in Records(tk)})
    BY RecordsFinite, FiniteImage
  <2> QED BY <1>1, <2>1, <2>2, FS_UNION
<1>3. IsFiniteSet(kept)
  <2> HIDE DEF types
  <2> QED BY <1>2, FS_Subset
<1>4. ParseTkDump(tk) = {g[t] : t \in kept}
  BY Zenon DEF ParseTkDump
<1> HIDE DEF kept, g
<1> QED BY <1>3, <1>4, FiniteImage

(* One row is a list.                                                    *)
LEMMA OneIsSeq == ASSUME NEW h PROVE IsSeq(<<h>>) /\ \A x : x \in ToSet(<<h>>) <=> x = h
<1>1. <<h>> \in Seq({h})
  OBVIOUS
<1>2. IsSeq(<<h>>)
  BY <1>1, InSeq
<1> QED BY <1>2 DEF ToSet

(* The dump of any types is a text.                                      *)
LEMMA DumpIsSeq ==
    ASSUME NEW m, IsCore(m)
    PROVE  IsSeq(TkDump(m))
<1>1. IsSeq(m.end) /\ m.types \in Seq(ToSet(m.types)) /\ \A d \in ToSet(m.types) : d.fields \in Seq(ToSet(d.fields))
  <2>1. m.end \in Seq({"\n", "\r", " "}) /\ m.types \in Seq(ToSet(m.types))
        /\ \A d \in ToSet(m.types) : d.fields \in Seq(ToSet(d.fields))
    BY Zenon DEF IsCore
  <2>2. IsSeq(m.end)
    BY <2>1, InSeq
  <2> QED BY <2>1, <2>2
<1>0. \A d \in ToSet(m.types) : IsSeq(d.front)
  BY Zenon DEF IsCore, TypesListed, IsFront, IsSeq
<1>2. ASSUME NEW d \in ToSet(m.types) PROVE IsSeq(TkRecord(m, d))
  <2> DEFINE a == <<d.name, "=", d.kind>>
  <2>1. a \in Seq({d.name, "=", d.kind})
    OBVIOUS
  <2>2. TkRecord(m, d) = d.front \o (a \o m.end)
    BY Zenon DEF TkRecord
  <2> HIDE DEF a
  <2>3. IsSeq(a)
    BY <2>1, InSeq
  <2>4. IsSeq(a \o m.end)
    BY <1>1, <2>3, SeqsTogether
  <2>5. IsSeq(d.front \o (a \o m.end))
    BY <1>0, <2>4, SeqsTogether
  <2> QED BY <2>2, <2>5, Zenon
<1>3. ASSUME NEW d \in ToSet(m.types) PROVE IsSeq(TkFields(m, d))
  <2> DEFINE a == <<d.name, ".", "f", "=", "type">>
             g == [f \in ToSet(d.fields) |-> d.front \o (a \o m.end)]
  <2>1. a \in Seq({d.name, ".", "f", "=", "type"})
    OBVIOUS
  <2>2. TkFields(m, d) = Joined(d.fields, g)
    BY Zenon DEF TkFields, Gather
  <2>3. \A f \in ToSet(d.fields) : g[f] = d.front \o (a \o m.end)
    BY Zenon
  <2> HIDE DEF a, g
  <2>6. IsSeq(a)
    BY <2>1, InSeq
  <2>7. IsSeq(a \o m.end)
    BY <1>1, <2>6, SeqsTogether
  <2>4. IsSeq(d.front \o (a \o m.end))
    BY <1>0, <2>7, SeqsTogether
  <2>5. d.fields \in Seq(ToSet(d.fields)) /\ \A f \in ToSet(d.fields) : IsSeq(g[f])
    BY <1>1, <2>3, <2>4
  <2> QED BY <2>2, <2>5, JoinedIsSeq
<1> DEFINE g == [d \in ToSet(m.types) |-> TkFields(m, d) \o TkRecord(m, d)]
           G == Joined(m.types, g)
<1>4. TkDump(m) = <<"*">> \o G
  BY Zenon DEF TkDump, Gather
<1>5. \A d \in ToSet(m.types) : IsSeq(g[d])
  <2>1. ASSUME NEW d \in ToSet(m.types) PROVE IsSeq(TkFields(m, d) \o TkRecord(m, d))
    BY <1>2, <1>3, SeqsTogether
  <2> QED BY <2>1, Zenon
<1> HIDE DEF g
<1>6. IsSeq(G)
  BY <1>1, <1>5, JoinedIsSeq
<1> HIDE DEF G
<1>7. IsSeq(<<"*">>)
  BY OneIsSeq
<1> QED BY <1>4, <1>6, <1>7, SeqsTogether

(* The members of one type are a list.                                   *)
LEMMA MembersAreSeqs ==
    ASSUME NEW m, IsCore(m), NEW k
    PROVE  IsSeq(MembersOf(m, k))
<1> DEFINE d == Definition(m, k)
           out(f) == MemberOf(k, f)
           s == [i \in DOMAIN d.fields |-> out(d.fields[i])]
<1>1. CASE k.kind \notin {"struct", "union", "enum"} \/ ~Known(m, k)
  <2>1. MembersOf(m, k) = <<>>
    BY <1>1 DEF MembersOf
  <2> QED BY <2>1 DEF IsSeq, ToSet
<1>2. CASE ~(k.kind \notin {"struct", "union", "enum"} \/ ~Known(m, k))
  <2>1. MembersOf(m, k) = s
    BY <1>2, Zenon DEF MembersOf, Map
  <2>2. d \in ToSet(m.types)
    BY <1>2, Zenon DEF Known, Definition, Defined
  <2>3. IsSeq(d.fields)
    <3> HIDE DEF d
    <3>1. d.fields \in Seq(ToSet(d.fields))
      BY <2>2, Zenon DEF IsCore
    <3> QED BY <3>1, InSeq
  <2>4. Len(d.fields) \in Nat /\ DOMAIN d.fields = 1..Len(d.fields)
    BY <2>3, SeqDomain
  <2> DEFINE n == Len(d.fields)
  <2>5. n \in Nat /\ s = [i \in 1..n |-> out(d.fields[i])]
    BY <2>4, Zenon
  <2> HIDE DEF n, d, out
  <2>6. DOMAIN s = 1..n /\ s = [i \in 1..n |-> s[i]]
    BY <2>5, Zenon
  <2> HIDE DEF s
  <2>7. IsSeq(s)
    BY <2>5, <2>6, FunctionIsSeq
  <2> QED BY <2>1, <2>7
<1> QED BY <1>1, <1>2

(* The caches of types and members are lists.                            *)
LEMMA TypesAreSeqs ==
    ASSUME NEW m, IsCore(m)
    PROVE  IsFiniteSet(TypeKinds(m)) /\ IsSeq(TypesCache(m)) /\ IsSeq(MembersCache(m))
<1>1. IsFiniteSet(TypeKinds(m))
  <2>1. TypeKinds(m) = ParseTkDump(TkDump(m))
    BY DEF TypeKinds
  <2> QED BY <2>1, DumpIsSeq, ParsedFinite
<1>2. IsSeq(TypesCache(m))
  <2> DEFINE g == [k \in TypeKinds(m) |-> [name |-> k.name, kind |-> k.kind, size |-> TypeSize(m, k)]]
             S == {g[k] : k \in TypeKinds(m)}
  <2>1. TypesCache(m) = SetToSeq(S)
    BY Zenon DEF TypesCache
  <2> HIDE DEF g
  <2>2. IsFiniteSet(S)
    BY <1>1, FiniteImage
  <2> QED BY <2>1, <2>2, SeqOfSet
<1>3. IsSeq(MembersCache(m))
  <2> DEFINE s == SetToSeq(TypeKinds(m))
             g == [k \in ToSet(s) |-> MembersOf(m, k)]
  <2>1. MembersCache(m) = Joined(s, g)
    BY Zenon DEF MembersCache, Gather
  <2>2. s \in Seq(ToSet(s))
    BY <1>1, SeqOfSet DEF IsSeq
  <2>3. ASSUME NEW k \in ToSet(s) PROVE IsSeq(MembersOf(m, k))
    BY MembersAreSeqs
  <2>4. \A k \in ToSet(s) : IsSeq(g[k])
    BY <2>3, Zenon
  <2> HIDE DEF s, g
  <2> QED BY <2>1, <2>2, <2>4, JoinedIsSeq
<1> QED BY <1>1, <1>2, <1>3

(* The list of functions is a list.                                      *)
LEMMA AfljIsSeq ==
    ASSUME NEW m, IsCore(m)
    PROVE  IsSeq(Elements(Aflj(m))) /\ Len(Elements(Aflj(m))) = Len(m.funcs)
<1> DEFINE s == Elements(Aflj(m))
           n == Len(m.funcs)
           F == m.funcs
<1>1. n \in Nat /\ DOMAIN m.funcs = 1..n
  BY FuncAddrsFacts
<1>2. s = [i \in DOMAIN F |-> [k \in {m.key} |-> F[i].entry]]
  BY DEF Aflj, Array, Elements, Map
<1> HIDE DEF s, n
<1>3. DOMAIN s = 1..n /\ s = [i \in 1..n |-> s[i]]
  BY <1>1, <1>2
<1>4. IsSeq(s) /\ Len(s) = n
  BY <1>1, <1>3, FunctionIsSeq
<1> QED BY <1>4 DEF s, n

Pushed(j, kind, key, parent) ==
    [kind |-> kind, addr |-> Place(j, key), name |-> <<Str(j, "name")>>,
     full_name |-> IF Str(j, parent) = "" THEN <<Str(j, "name")>> ELSE <<Str(j, parent), "!", Str(j, "name")>>]

(* push_array makes a list of rows.                                      *)
LEMMA PushedFacts ==
    ASSUME NEW objs, IsSeq(objs), NEW kind, NEW key, NEW parent
    PROVE  /\ IsSeq(PushArray(objs, kind, key, parent)) /\ Len(PushArray(objs, kind, key, parent)) = Len(objs)
           /\ \A i \in 1..Len(objs) : PushArray(objs, kind, key, parent)[i] = Pushed(objs[i], kind, key, parent)
<1> DEFINE s == PushArray(objs, kind, key, parent)
<1>1. Len(objs) \in Nat /\ DOMAIN objs = 1..Len(objs)
  BY SeqDomain
<1>2. s = [i \in DOMAIN objs |-> Pushed(objs[i], kind, key, parent)]
  BY Zenon DEF PushArray, Map, Pushed
<1> HIDE DEF s
<1>3. DOMAIN s = 1..Len(objs) /\ s = [i \in 1..Len(objs) |-> s[i]]
      /\ \A i \in 1..Len(objs) : s[i] = Pushed(objs[i], kind, key, parent)
  BY <1>1, <1>2
<1>4. IsSeq(s) /\ Len(s) = Len(objs)
  BY <1>1, <1>3, FunctionIsSeq
<1> QED BY <1>3, <1>4 DEF s

(* The rows of welcome and of grep are lists.                            *)
LEMMA WelcomeAndGrepAreSeqs ==
    ASSUME NEW m, IsCore(m)
    PROVE  IsSeq(WelcomeCache(m)) /\ IsSeq(BuildGrepRows(m))
<1>1. \A key, reply : IsSeq(AddCount(key, reply))
  <2> SUFFICES ASSUME NEW key, NEW reply PROVE IsSeq(AddCount(key, reply))
    OBVIOUS
  <2> DEFINE x == [key |-> key, value |-> Len(Elements(reply))]
  <2>1. AddCount(key, reply) = <<x>>
    BY DEF AddCount
  <2> HIDE DEF x
  <2>2. <<x>> \in Seq({x})
    OBVIOUS
  <2>3. IsSeq(<<x>>)
    BY <2>2, InSeq
  <2> QED BY <2>1, <2>3
<1>2. IsSeq(WelcomeCache(m))
  <2> DEFINE a == AddCount("func_count", Aflj(m))
             b == AddCount("string_count", Reply(m, "izj"))
             c == AddCount("import_count", Reply(m, "iij"))
             d == AddCount("section_count", Reply(m, "iSj"))
             e == AddCount("segment_count", Reply(m, "iSSj"))
  <2>1. WelcomeCache(m) = a \o b \o c \o d \o e
    BY DEF WelcomeCache
  <2>2. IsSeq(a) /\ IsSeq(b) /\ IsSeq(c) /\ IsSeq(d) /\ IsSeq(e)
    BY <1>1
  <2> HIDE DEF a, b, c, d, e
  <2>3. IsSeq(a \o b)
    BY <2>2, SeqsTogether
  <2>4. IsSeq(a \o b \o c)
    BY <2>2, <2>3, SeqsTogether
  <2>5. IsSeq(a \o b \o c \o d)
    BY <2>2, <2>4, SeqsTogether
  <2>6. IsSeq(a \o b \o c \o d \o e)
    BY <2>2, <2>5, SeqsTogether
  <2> QED BY <2>1, <2>6, Zenon
<1>3. IsSeq(BuildGrepRows(m))
  <2> DEFINE a == PushArray(Elements(Aflj(m)), "func", "addr", "none")
             b == PushArray(Elements(Reply(m, "fj")), "flag", "addr", "none")
             c == PushArray(Elements(Reply(m, "iij")), "import", "plt", "libname")
             d == PushArray(Elements(Reply(m, "iEj")), "export", "vaddr", "none")
             e == PushArray(Elements(Reply(m, "iSj")), "section", "vaddr", "none")
             f == PushArray(Elements(Reply(m, "CCj")), "comment", "addr", "none")
  <2>1. BuildGrepRows(m) = a \o b \o c \o d \o e \o f
    BY DEF BuildGrepRows
  <2>2. IsSeq(a) /\ IsSeq(b) /\ IsSeq(c) /\ IsSeq(d) /\ IsSeq(e) /\ IsSeq(f)
    <3>1. "fj" \in Commands /\ "iij" \in Commands /\ "iEj" \in Commands /\ "iSj" \in Commands /\ "CCj" \in Commands
      BY DEF Commands
    <3> QED BY <3>1, AfljIsSeq, RepliesAreSeqs, PushedFacts
  <2> HIDE DEF a, b, c, d, e, f
  <2>3. IsSeq(a \o b)
    BY <2>2, SeqsTogether
  <2>4. IsSeq(a \o b \o c)
    BY <2>2, <2>3, SeqsTogether
  <2>5. IsSeq(a \o b \o c \o d)
    BY <2>2, <2>4, SeqsTogether
  <2>6. IsSeq(a \o b \o c \o d \o e)
    BY <2>2, <2>5, SeqsTogether
  <2>7. IsSeq(a \o b \o c \o d \o e \o f)
    BY <2>2, <2>6, SeqsTogether
  <2> QED BY <2>1, <2>7, Zenon
<1> QED BY <1>2, <1>3

(* Every cache is a list.                                                *)
LEMMA CachesAreSeqs ==
    ASSUME NEW m, IsCore(m), NEW q, q.table \in Cached
    PROVE  IsSeq(CacheOf(q, m))
<1>1. CASE q.table = "xrefs"
  <2>1. CacheOf(q, m) = XrefsCache(m)
    BY <1>1 DEF CacheOf
  <2> QED BY <2>1, XrefsCacheFacts
<1>2. CASE q.table = "strings"
  <2>1. \A used : IsSeq(StringsCache(m, used))
    BY ListingsAreSeqs
  <2>2. CacheOf(q, m) = StringsCache(m, IF q.column = "text" THEN {4} ELSE {})
    BY <1>2 DEF CacheOf
  <2> QED BY <2>1, <2>2, Zenon
<1>3. CASE q.table = "imports"
  <2>1. CacheOf(q, m) = ImportsCache(m)
    BY <1>3 DEF CacheOf
  <2> QED BY <2>1, ListingsAreSeqs
<1>4. CASE q.table = "exports"
  <2>1. CacheOf(q, m) = ExportsCache(m)
    BY <1>4 DEF CacheOf
  <2> QED BY <2>1, ListingsAreSeqs
<1>5. CASE q.table = "sections"
  <2>1. CacheOf(q, m) = SectionsCache(m)
    BY <1>5 DEF CacheOf
  <2> QED BY <2>1, ListingsAreSeqs
<1>6. CASE q.table = "segments"
  <2>1. CacheOf(q, m) = SegmentsCache(m)
    BY <1>6 DEF CacheOf
  <2> QED BY <2>1, ListingsAreSeqs
<1>7. CASE q.table = "welcome"
  <2>1. CacheOf(q, m) = WelcomeCache(m)
    BY <1>7 DEF CacheOf
  <2> QED BY <2>1, WelcomeAndGrepAreSeqs
<1>8. CASE q.table = "grep"
  <2>1. CacheOf(q, m) = BuildGrepRows(m)
    BY <1>8 DEF CacheOf
  <2> QED BY <2>1, WelcomeAndGrepAreSeqs
<1>9. CASE q.table = "types"
  <2>1. CacheOf(q, m) = TypesCache(m)
    BY <1>9 DEF CacheOf
  <2> QED BY <2>1, TypesAreSeqs
<1>10. CASE q.table = "types_members"
  <2>1. CacheOf(q, m) = MembersCache(m)
    BY <1>10 DEF CacheOf
  <2> QED BY <2>1, TypesAreSeqs
<1> QED BY <1>1, <1>2, <1>3, <1>4, <1>5, <1>6, <1>7, <1>8, <1>9, <1>10 DEF Cached, Listings

(* The rows behind a filter.                                               *)
XrefsToRows(m, v) ==
    LET refs == RefsTo(m, HexAddr(v)) IN [i \in DOMAIN refs |-> XrefRow(ToSigned(refs[i].from), v, NameAt(m, refs[i].from))]
XrefsFromRows(m, v) ==
    LET refs == RefsFrom(m, HexAddr(v))
    IN [i \in DOMAIN refs |-> XrefRow(ToSigned(refs[i].from), ToSigned(refs[i].to), NameAt(m, HexAddr(v)))]

(* The rows of both xrefs filters are lists.                             *)
LEMMA FilteredXrefs ==
    ASSUME NEW m, IsCore(m), NEW v
    PROVE  /\ XrefsToAddr(m, v) = XrefsToRows(m, v) /\ IsSeq(XrefsToRows(m, v))
           /\ Len(XrefsToRows(m, v)) = Len(RefsTo(m, HexAddr(v)))
           /\ XrefsFromAddr(m, v) = XrefsFromRows(m, v) /\ IsSeq(XrefsFromRows(m, v))
           /\ Len(XrefsFromRows(m, v)) = Len(RefsFrom(m, HexAddr(v)))
<1>1. XrefsToAddr(m, v) = XrefsToRows(m, v) /\ IsSeq(XrefsToRows(m, v)) /\ Len(XrefsToRows(m, v)) = Len(RefsTo(m, HexAddr(v)))
  <2> DEFINE s == RefsTo(m, HexAddr(v))
             t == XrefsToRows(m, v)
  <2>1. Elements(Axtj(m, HexAddr(v))) = s
    BY SelectRefs
  <2>2. IsSeq(s) /\ \A r \in ToSet(s) : r \in ToSet(m.refs)
    BY RefsFacts DEF RefsTo
  <2>3. Len(s) \in Nat /\ DOMAIN s = 1..Len(s) /\ \A i \in 1..Len(s) : s[i] \in ToSet(m.refs)
    BY <2>2, SeqDomain
  <2>4. t = [i \in DOMAIN s |-> XrefRow(ToSigned(s[i].from), v, NameAt(m, s[i].from))]
    BY DEF XrefsToRows
  <2>5. XrefsToAddr(m, v) = [i \in DOMAIN s |-> XrefRow(From(s[i]), v, NameAt(m, s[i].from))]
    BY <2>1 DEF XrefsToAddr, Map
  <2> HIDE DEF s, t
  <2>6. \A i \in DOMAIN s : From(s[i]) = ToSigned(s[i].from)
    BY <2>3, RefsFacts
  <2>7. t = XrefsToAddr(m, v)
    BY <2>4, <2>5, <2>6
  <2>8. DOMAIN t = 1..Len(s) /\ t = [i \in 1..Len(s) |-> t[i]]
    BY <2>3, <2>4
  <2>9. IsSeq(t) /\ Len(t) = Len(s)
    BY <2>3, <2>8, FunctionIsSeq
  <2> QED BY <2>7, <2>9 DEF s, t
<1>2. XrefsFromAddr(m, v) = XrefsFromRows(m, v) /\ IsSeq(XrefsFromRows(m, v)) /\ Len(XrefsFromRows(m, v)) = Len(RefsFrom(m, HexAddr(v)))
  <2> DEFINE s == RefsFrom(m, HexAddr(v))
             t == XrefsFromRows(m, v)
             name == NameAt(m, HexAddr(v))
  <2>1. Elements(Axfj(m, HexAddr(v))) = s
    BY SelectRefs
  <2>2. IsSeq(s) /\ \A r \in ToSet(s) : r \in ToSet(m.refs)
    BY RefsFacts DEF RefsFrom
  <2>3. Len(s) \in Nat /\ DOMAIN s = 1..Len(s) /\ \A i \in 1..Len(s) : s[i] \in ToSet(m.refs)
    BY <2>2, SeqDomain
  <2>4. t = [i \in DOMAIN s |-> XrefRow(ToSigned(s[i].from), ToSigned(s[i].to), name)]
    BY DEF XrefsFromRows
  <2>5. XrefsFromAddr(m, v) = [i \in DOMAIN s |-> XrefRow(I64(s[i], "from", v), To(s[i]), name)]
    BY <2>1 DEF XrefsFromAddr, Map, FunctionNameAt
  <2> HIDE DEF s, t, name
  <2>6. \A i \in DOMAIN s : I64(s[i], "from", v) = ToSigned(s[i].from) /\ To(s[i]) = ToSigned(s[i].to)
    BY <2>3, RefsFacts
  <2>7. t = XrefsFromAddr(m, v)
    BY <2>4, <2>5, <2>6
  <2>8. DOMAIN t = 1..Len(s) /\ t = [i \in 1..Len(s) |-> t[i]]
    BY <2>3, <2>4
  <2>9. IsSeq(t) /\ Len(t) = Len(s)
    BY <2>3, <2>8, FunctionIsSeq
  <2> QED BY <2>7, <2>9 DEF s, t
<1> QED BY <1>1, <1>2

Matches(rowset, word) == {r \in rowset : word \in ToSet(r.name) \/ word \in ToSet(r.full_name)}

(* The pattern of grep chooses the rows that match.                      *)
LEMMA MatchingFacts ==
    ASSUME NEW s, NEW word, IsSeq(s)
    PROVE  /\ Matching(s, word) = Chosen(s, Matches(ToSet(s), word)) /\ IsSeq(Matching(s, word))
           /\ \A r : r \in ToSet(Matching(s, word)) <=> r \in Matches(ToSet(s), word)
<1> DEFINE K == Matches(ToSet(s), word)
<1>1. [x \in ToSet(s) |-> IF word \in ToSet(x.name) \/ word \in ToSet(x.full_name) THEN <<x>> ELSE <<>>] = Pick(ToSet(s), K)
  BY DEF Pick, Matches
<1>2. Matching(s, word) = Chosen(s, K)
  BY <1>1, Zenon DEF Matching, Select, Chosen
<1> HIDE DEF K
<1>3. s \in Seq(ToSet(s))
  BY DEF IsSeq
<1>4. Chosen(s, K) \in Seq(ToSet(s)) /\ \A x : x \in ToSet(Chosen(s, K)) <=> x \in ToSet(s) /\ x \in K
  BY <1>3, ChosenFacts
<1>5. IsSeq(Chosen(s, K))
  BY <1>4, InSeq
<1>6. \A r : r \in K => r \in ToSet(s)
  BY DEF K, Matches
<1> QED BY <1>2, <1>4, <1>5, <1>6, Zenon DEF K

(* The rows of every filter are a list.                                  *)
LEMMA FiltersAreSeqs ==
    ASSUME NEW m, IsCore(m), NEW q, q.table \in Streamed \cup {"xrefs", "grep"}, q.table \in Streamed => q.value \in Int64
    PROVE  IsSeq(FilterOf(q, m))
<1>1. CASE q.table \in Streamed
  <2>1. FilterOf(q, m) = Found(q.table, m)[q.value]
    BY <1>1 DEF FilterOf, Streamed
  <2> QED BY <1>1, <2>1, FoundFacts
<1>2. CASE q.table = "xrefs"
  <2>1. FilterOf(q, m) \in {XrefsToAddr(m, q.value), XrefsFromAddr(m, q.value)}
    BY <1>2 DEF FilterOf, Streamed
  <2>2. IsSeq(XrefsToAddr(m, q.value)) /\ IsSeq(XrefsFromAddr(m, q.value))
    BY FilteredXrefs
  <2> QED BY <2>1, <2>2
<1>3. CASE q.table = "grep"
  <2>1. FilterOf(q, m) = Matching(BuildGrepRows(m), q.value)
    BY <1>3 DEF FilterOf, Streamed
  <2> QED BY <2>1, WelcomeAndGrepAreSeqs, MatchingFacts
<1> QED BY <1>1, <1>2, <1>3

-----------------------------------------------------------------------------
(* What a step does                                                        *)

Started(p, b, fs) ==
    /\ pc = "plan" /\ pc' = "rows" /\ plan' = p /\ buf' = b /\ funcs_' = fs
    /\ UNCHANGED <<query, mem, before, rows>>
StartScan == query.table \in Streamed /\ Started("scan", buf, FuncAddrs(mem))
StartBuild ==
    /\ query.table \in Cached /\ (query.table = "grep" => query.column = "none")
    /\ Started("scan", CacheOf(query, mem), funcs_)
StartFilter == query.column \in FilterColumns(query.table) /\ Started("filter", FilterOf(query, mem), funcs_)

(* A row read before; a row of the first function that has any; the end.   *)
GoesOn == pc = "rows" /\ UNCHANGED <<query, mem, before, plan>>
HandRead == GoesOn /\ buf # <<>> /\ HandOut(Head(buf)) /\ buf' = Tail(buf) /\ UNCHANGED <<funcs_, pc>>
FirstAt(k, found) == k \in DOMAIN funcs_ /\ found[funcs_[k]] # <<>> /\ \A j \in 1..(k - 1) : found[funcs_[j]] = <<>>
HandFirst ==
    /\ GoesOn /\ buf = <<>> /\ plan = "scan" /\ query.table \in Streamed /\ UNCHANGED pc
    /\ \E k \in DOMAIN funcs_ :
          LET found == Found(query.table, mem) IN
          /\ FirstAt(k, found) /\ HandOut(Head(found[funcs_[k]])) /\ buf' = Tail(found[funcs_[k]])
          /\ funcs_' = After(k)
HandEnd ==
    /\ GoesOn /\ buf = <<>> /\ pc' = "done" /\ funcs_' = <<>> /\ UNCHANGED <<rows, buf>>
    /\ funcs_ # <<>> => \A j \in DOMAIN funcs_ : Found(query.table, mem)[funcs_[j]] = <<>>

(* A statement starts with a scan, a cache or a filter.                  *)
LEMMA StartShapes ==
    ASSUME MemInv
    PROVE  /\ Generate => StartScan
           /\ BuildXrefs \/ BuildTypes \/ BuildMembers \/ BuildStrings \/ BuildImports \/ BuildExports
                \/ BuildSections \/ BuildSegments \/ BuildWelcome \/ BuildGrep => StartBuild
           /\ BlocksInFunc \/ InsnsInFunc \/ PseudoAtFunc \/ XrefsTo \/ XrefsFrom \/ GrepPattern => StartFilter
<1> USE DEF Plans, Started
<1>1. ASSUME Generate PROVE StartScan
  BY <1>1 DEF Generate, StartScan
<1>2. ASSUME NEW table \in Cached, table = "grep" => query.column = "none", Build(table, CacheOf(query, mem)) PROVE StartBuild
  BY <1>2 DEF Build, StartBuild
<1> USE DEF Build
<1>3. BuildXrefs => StartBuild
  <2>1. BuildXrefs => query.table = "xrefs"
    BY DEF BuildXrefs
  <2>2. query.table = "xrefs" => CacheOf(query, mem) = XrefsCache(mem)
    BY DEF CacheOf
  <2> QED BY <2>1, <2>2, <1>2 DEF BuildXrefs, Cached
<1>4. BuildTypes => StartBuild
  <2>1. BuildTypes => query.table = "types"
    BY DEF BuildTypes
  <2>2. query.table = "types" => CacheOf(query, mem) = TypesCache(mem)
    BY DEF CacheOf
  <2> QED BY <2>1, <2>2, <1>2 DEF BuildTypes, Cached
<1>5. BuildMembers => StartBuild
  <2>1. BuildMembers => query.table = "types_members"
    BY DEF BuildMembers
  <2>2. query.table = "types_members" => CacheOf(query, mem) = MembersCache(mem)
    BY DEF CacheOf
  <2> QED BY <2>1, <2>2, <1>2 DEF BuildMembers, Cached
<1>6. BuildStrings => StartBuild
  <2>1. BuildStrings => query.table = "strings"
    BY DEF BuildStrings
  <2>2. query.table = "strings" => CacheOf(query, mem) = StringsCache(mem, IF query.column = "text" THEN {4} ELSE {})
    BY DEF CacheOf
  <2> QED BY <2>1, <2>2, <1>2 DEF BuildStrings, Cached, Listings
<1>7. BuildImports => StartBuild
  <2>1. BuildImports => query.table = "imports"
    BY DEF BuildImports
  <2>2. query.table = "imports" => CacheOf(query, mem) = ImportsCache(mem)
    BY DEF CacheOf
  <2> QED BY <2>1, <2>2, <1>2 DEF BuildImports, Cached, Listings
<1>8. BuildExports => StartBuild
  <2>1. BuildExports => query.table = "exports"
    BY DEF BuildExports
  <2>2. query.table = "exports" => CacheOf(query, mem) = ExportsCache(mem)
    BY DEF CacheOf
  <2> QED BY <2>1, <2>2, <1>2 DEF BuildExports, Cached, Listings
<1>9. BuildSections => StartBuild
  <2>1. BuildSections => query.table = "sections"
    BY DEF BuildSections
  <2>2. query.table = "sections" => CacheOf(query, mem) = SectionsCache(mem)
    BY DEF CacheOf
  <2> QED BY <2>1, <2>2, <1>2 DEF BuildSections, Cached, Listings
<1>10. BuildSegments => StartBuild
  <2>1. BuildSegments => query.table = "segments"
    BY DEF BuildSegments
  <2>2. query.table = "segments" => CacheOf(query, mem) = SegmentsCache(mem)
    BY DEF CacheOf
  <2> QED BY <2>1, <2>2, <1>2 DEF BuildSegments, Cached, Listings
<1>11. BuildWelcome => StartBuild
  <2>1. BuildWelcome => query.table = "welcome"
    BY DEF BuildWelcome
  <2>2. query.table = "welcome" => CacheOf(query, mem) = WelcomeCache(mem)
    BY DEF CacheOf
  <2> QED BY <2>1, <2>2, <1>2 DEF BuildWelcome, Cached
<1>12. BuildGrep => StartBuild
  <2>1. BuildGrep => query.table = "grep" /\ query.column = "none"
    BY DEF BuildGrep
  <2>2. query.table = "grep" => CacheOf(query, mem) = BuildGrepRows(mem)
    BY DEF CacheOf
  <2> QED BY <2>1, <2>2, <1>2 DEF BuildGrep, Cached
<1>13. ASSUME NEW table, NEW column, NEW found, Filter(table, column, found), column \in FilterColumns(table), found = FilterOf(query, mem)
       PROVE  StartFilter
  BY <1>13 DEF Filter, StartFilter
<1> USE DEF Filter
<1>14. query.column = "func_addr" => query.value \in Int64
  BY QueriesAssumption DEF MemInv
<1>15. ASSUME NEW table \in Streamed PROVE query.table = table /\ query.column = "func_addr" => FilterOf(query, mem) = Found(table, mem)[query.value]
  BY DEF FilterOf, Streamed
<1>16. /\ "func_addr" \in FilterColumns("blocks") /\ "func_addr" \in FilterColumns("instructions") /\ "func_addr" \in FilterColumns("pseudocode")
       /\ "to_addr" \in FilterColumns("xrefs") /\ "from_addr" \in FilterColumns("xrefs") /\ "pattern" \in FilterColumns("grep")
       /\ "blocks" \in Streamed /\ "instructions" \in Streamed /\ "pseudocode" \in Streamed
  BY DEF FilterColumns, Streamed
<1>17. BlocksInFunc => StartFilter
  <2> SUFFICES ASSUME BlocksInFunc PROVE StartFilter
    OBVIOUS
  <2>1. query.table = "blocks" /\ query.column = "func_addr"
    BY DEF BlocksInFunc
  <2>2. Found("blocks", mem)[query.value] = BlocksForFunc(mem, query.value)
    BY <1>14, <2>1 DEF Found
  <2>3. FilterOf(query, mem) = BlocksForFunc(mem, query.value)
    BY <1>15, <1>16, <2>1, <2>2
  <2> QED BY <2>3, <1>13, <1>16 DEF BlocksInFunc
<1>18. InsnsInFunc => StartFilter
  <2> SUFFICES ASSUME InsnsInFunc PROVE StartFilter
    OBVIOUS
  <2>1. query.table = "instructions" /\ query.column = "func_addr"
    BY DEF InsnsInFunc
  <2>2. Found("instructions", mem)[query.value] = InsnsForFunc(mem, query.value)
    BY <1>14, <2>1 DEF Found
  <2>3. FilterOf(query, mem) = InsnsForFunc(mem, query.value)
    BY <1>15, <1>16, <2>1, <2>2
  <2> QED BY <2>3, <1>13, <1>16 DEF InsnsInFunc
<1>19. PseudoAtFunc => StartFilter
  <2> SUFFICES ASSUME PseudoAtFunc PROVE StartFilter
    OBVIOUS
  <2>1. query.table = "pseudocode" /\ query.column = "func_addr"
    BY DEF PseudoAtFunc
  <2>2. Found("pseudocode", mem)[query.value] = PseudoForFunc(mem, query.value)
    BY <1>14, <2>1 DEF Found
  <2>3. FilterOf(query, mem) = PseudoForFunc(mem, query.value)
    BY <1>15, <1>16, <2>1, <2>2
  <2> QED BY <2>3, <1>13, <1>16 DEF PseudoAtFunc
<1>20. XrefsTo => StartFilter
  <2> SUFFICES ASSUME XrefsTo PROVE StartFilter
    OBVIOUS
  <2>1. query.table = "xrefs" /\ query.column = "to_addr"
    BY DEF XrefsTo
  <2>2. FilterOf(query, mem) = XrefsToAddr(mem, query.value)
    BY <2>1 DEF FilterOf, Streamed
  <2> QED BY <2>2, <1>13, <1>16 DEF XrefsTo
<1>21. XrefsFrom => StartFilter
  <2> SUFFICES ASSUME XrefsFrom PROVE StartFilter
    OBVIOUS
  <2>1. query.table = "xrefs" /\ query.column = "from_addr"
    BY DEF XrefsFrom
  <2>2. FilterOf(query, mem) = XrefsFromAddr(mem, query.value)
    BY <2>1 DEF FilterOf, Streamed
  <2> QED BY <2>2, <1>13, <1>16 DEF XrefsFrom
<1>22. GrepPattern => StartFilter
  <2> SUFFICES ASSUME GrepPattern PROVE StartFilter
    OBVIOUS
  <2>1. query.table = "grep" /\ query.column = "pattern"
    BY DEF GrepPattern
  <2>2. FilterOf(query, mem) = Matching(BuildGrepRows(mem), query.value)
    BY <2>1 DEF FilterOf, Streamed
  <2> QED BY <2>2, <1>13, <1>16 DEF GrepPattern
<1> QED BY <1>1, <1>3, <1>4, <1>5, <1>6, <1>7, <1>8, <1>9, <1>10, <1>11, <1>12, <1>17, <1>18, <1>19, <1>20, <1>21, <1>22

(* A generator hands out a row it has read, the first of a function, or the end. *)
LEMMA NextShapes ==
    ASSUME MemInv, CursorInv
    PROVE  BlocksGen \/ InsnsGen \/ PseudoGen \/ RowsIterator => HandRead \/ HandFirst \/ HandEnd
<1>1. ASSUME NEW table \in Streamed, NEW found, NextOf(table, found),
             \A k \in DOMAIN funcs_ : found[funcs_[k]] = Found(table, mem)[funcs_[k]]
      PROVE  HandRead \/ HandFirst \/ HandEnd
  <2>1. query.table = table /\ plan = "scan" /\ GoesOn
    BY <1>1 DEF NextOf, GoesOn
  <2>2. DOMAIN funcs_ = 1..Len(funcs_) /\ Len(funcs_) \in Nat
    BY DEF CursorInv
  <2>3. CASE buf # <<>>
    BY <1>1, <2>1, <2>3 DEF NextOf, HandRead
  <2>4. ASSUME buf = <<>>, NEW k \in DOMAIN funcs_, found[funcs_[k]] # <<>>, \A j \in 1..(k - 1) : found[funcs_[j]] = <<>>,
               HandOut(Head(found[funcs_[k]])), buf' = Tail(found[funcs_[k]]), funcs_' = After(k), UNCHANGED pc
        PROVE  HandFirst
    <3>1. \A j \in 1..(k - 1) : j \in DOMAIN funcs_
      BY <2>2
    <3>2. FirstAt(k, Found(table, mem))
      BY <1>1, <2>4, <3>1 DEF FirstAt
    <3>3. found[funcs_[k]] = Found(query.table, mem)[funcs_[k]]
      BY <1>1, <2>1
    <3>4. /\ FirstAt(k, Found(query.table, mem)) /\ HandOut(Head(Found(query.table, mem)[funcs_[k]]))
          /\ buf' = Tail(Found(query.table, mem)[funcs_[k]]) /\ funcs_' = After(k)
      BY <2>1, <2>4, <3>2, <3>3
    <3> QED BY <1>1, <2>1, <2>4, <3>4 DEF HandFirst
  <2>5. ASSUME buf = <<>>, \A j \in DOMAIN funcs_ : found[funcs_[j]] = <<>>, pc' = "done", funcs_' = <<>>, UNCHANGED <<rows, buf>>
        PROVE  HandEnd
    BY <1>1, <2>1, <2>5 DEF HandEnd
  <2> QED BY <1>1, <2>3, <2>4, <2>5 DEF NextOf
<1>2. \A k \in DOMAIN funcs_ : funcs_[k] \in ToSet(funcs_) /\ funcs_[k] \in Int64
  BY DEF CursorInv, ToSet
<1>3. BlocksGen => HandRead \/ HandFirst \/ HandEnd
  <2> DEFINE found == [fa \in ToSet(funcs_) |-> BlocksForFunc(mem, fa)]
  <2>1. \A k \in DOMAIN funcs_ : found[funcs_[k]] = Found("blocks", mem)[funcs_[k]]
    BY <1>2 DEF Found
  <2>2. BlocksGen => NextOf("blocks", found)
    BY DEF BlocksGen
  <2> HIDE DEF found
  <2> QED BY <1>1, <2>1, <2>2 DEF Streamed
<1>4. InsnsGen => HandRead \/ HandFirst \/ HandEnd
  <2> DEFINE found == [fa \in ToSet(funcs_) |-> InsnsForFunc(mem, fa)]
  <2>1. \A k \in DOMAIN funcs_ : found[funcs_[k]] = Found("instructions", mem)[funcs_[k]]
    BY <1>2 DEF Found
  <2>2. InsnsGen => NextOf("instructions", found)
    BY DEF InsnsGen
  <2> HIDE DEF found
  <2> QED BY <1>1, <2>1, <2>2 DEF Streamed
<1>5. PseudoGen => HandRead \/ HandFirst \/ HandEnd
  <2> DEFINE found == [fa \in ToSet(funcs_) |-> PseudoForFunc(mem, fa)]
  <2>1. \A k \in DOMAIN funcs_ : found[funcs_[k]] = Found("pseudocode", mem)[funcs_[k]]
    BY <1>2 DEF Found
  <2>2. PseudoGen => NextOf("pseudocode", found)
    BY DEF PseudoGen
  <2> HIDE DEF found
  <2> QED BY <1>1, <2>1, <2>2 DEF Streamed
<1>6. RowsIterator => HandRead \/ HandFirst \/ HandEnd
  <2> SUFFICES ASSUME RowsIterator PROVE HandRead \/ HandEnd
    OBVIOUS
  <2>1. funcs_ = <<>>
    BY DEF RowsIterator, CursorInv, Cached, Streamed, Listings
  <2>2. GoesOn
    BY DEF RowsIterator, GoesOn
  <2>3. CASE buf # <<>>
    BY <2>2, <2>3 DEF RowsIterator, HandRead
  <2>4. CASE buf = <<>>
    BY <2>1, <2>2, <2>4 DEF RowsIterator, HandEnd
  <2> QED BY <2>3, <2>4
<1> QED BY <1>3, <1>4, <1>5, <1>6

(* Every step has one of these shapes.                                   *)
LEMMA StepShapes ==
    ASSUME MemInv, CursorInv, [Next]_vars
    PROVE  \/ StartScan \/ StartBuild \/ StartFilter
           \/ HandRead \/ HandFirst \/ HandEnd
           \/ InsertComment \/ OpenProject \/ UNCHANGED vars
BY StartShapes, NextShapes DEF Next, Step

(* What radare2 holds is what it may hold.                                 *)
LEMMA MemIsCore ==
    ASSUME MemInv
    PROVE  /\ query \in Queries /\ IsCore(before)
           /\ (query.table = "comments" => pc # "done") => IsCore(mem)
<1>1. IsCore(before)
  BY CoresAreCores DEF MemInv
<1>2. ASSUME query.table = "comments" => pc # "done" PROVE IsCore(mem)
  <2>1. mem = before \/ mem \in Projects(query.table)
    BY <1>2 DEF MemInv
  <2> QED BY <1>1, <2>1, CoresAreCores DEF MemInv
<1> QED BY <1>1, <1>2 DEF MemInv

(* Nothing has happened at the start.                                    *)
LEMMA InitMem == Init => MemInv /\ CursorInv
<1> SUFFICES ASSUME Init PROVE MemInv /\ CursorInv
  OBVIOUS
<1>1. <<>> \in Seq(Int64) /\ IsSeq(<<>>)
  BY DEF IsSeq, ToSet
<1>2. MemInv
  BY DEF Init, MemInv
<1>3. CursorInv
  BY <1>1 DEF Init, CursorInv
<1> QED BY <1>2, <1>3

(* radare2 changes only by a project or an INSERT.                       *)
LEMMA MemStep ==
    ASSUME MemInv, CursorInv, [Next]_vars
    PROVE  MemInv'
<1> USE DEF MemInv
<1>1. CASE StartScan
  BY <1>1 DEF StartScan, Started
<1>2. CASE StartBuild
  BY <1>2 DEF StartBuild, Started
<1>3. CASE StartFilter
  BY <1>3 DEF StartFilter, Started
<1>4. CASE GoesOn /\ pc' \in {"rows", "done"}
  BY <1>4 DEF GoesOn, CursorInv
<1>5. CASE InsertComment
  BY <1>5 DEF InsertComment
<1>6. CASE OpenProject
  BY <1>6 DEF OpenProject, CursorInv
<1>7. CASE UNCHANGED vars
  BY <1>7 DEF vars
<1>8. HandRead \/ HandFirst \/ HandEnd => GoesOn /\ pc' \in {"rows", "done"}
  BY DEF HandRead, HandFirst, HandEnd, GoesOn
<1> QED BY StepShapes, <1>1, <1>2, <1>3, <1>4, <1>5, <1>6, <1>7, <1>8

(* A list with one more row is a list.                                   *)
LEMMA AppendIsSeq ==
    ASSUME NEW s, IsSeq(s), NEW e
    PROVE  IsSeq(Append(s, e)) /\ \A x : x \in ToSet(Append(s, e)) <=> x \in ToSet(s) \/ x = e
<1> DEFINE S == ToSet(s) \cup {e}
<1>1. s \in Seq(ToSet(s))
  BY DEF IsSeq
<1>2. s \in Seq(S) /\ e \in S
  <2> DEFINE A == ToSet(s)
  <2>1. A \subseteq S
    OBVIOUS
  <2> HIDE DEF A, S
  <2>2. s \in Seq(S)
    BY <1>1, <2>1, SeqMonotonic DEF A
  <2> QED BY <2>2 DEF S
<1> HIDE DEF S
<1>3. Append(s, e) \in Seq(S) /\ \A x : x \in ToSet(Append(s, e)) <=> x \in ToSet(s) \/ x = e
  BY <1>2, AppendFacts, ToSetFacts
<1> QED BY <1>3, InSeq

(* A list that is not empty is its head and a list.                      *)
LEMMA TailIsSeq ==
    ASSUME NEW s, IsSeq(s), s # <<>>
    PROVE  /\ IsSeq(Tail(s)) /\ Head(s) \in ToSet(s) /\ \A x \in ToSet(Tail(s)) : x \in ToSet(s)
           /\ s = <<Head(s)>> \o Tail(s)
<1> DEFINE S == ToSet(s)
           t == Tail(s)
<1>1. s \in Seq(S)
  BY DEF IsSeq
<1> HIDE DEF S
<1>2. Head(s) \in S /\ t \in Seq(S)
  BY <1>1, TailFacts
<1>3. s = <<Head(s)>> \o t
  BY <1>1
<1> HIDE DEF t
<1>4. IsSeq(t) /\ ToSet(t) \subseteq S
  BY <1>2, InSeq
<1> QED BY <1>2, <1>3, <1>4 DEF S, t

(* What After leaves, position by position.                              *)
LEMMA AfterFacts ==
    ASSUME NEW S, funcs_ \in Seq(S), NEW k \in DOMAIN funcs_
    PROVE  /\ After(k) \in Seq(S) /\ Len(After(k)) = Len(funcs_) - k /\ k \in 1..Len(funcs_) /\ Len(funcs_) \in Nat
           /\ \A j \in 1..(Len(funcs_) - k) : After(k)[j] = funcs_[k + j]
<1>1. Len(funcs_) \in Nat /\ k \in 1..Len(funcs_)
  OBVIOUS
<1> QED BY <1>1 DEF After

(* Every step keeps CursorInv.                                           *)
LEMMA CursorStep ==
    ASSUME MemInv, CursorInv, [Next]_vars
    PROVE  CursorInv'
<1> USE DEF CursorInv
<1>1. <<>> \in Seq(Int64) /\ IsSeq(<<>>)
  BY DEF IsSeq, ToSet
<1>2. pc # "done" => IsCore(mem)
  BY MemIsCore
<1>3. query \in Queries
  BY DEF MemInv
<1>4. CASE StartScan
  <2>1. FuncAddrs(mem) \in Seq(Int64)
    BY <1>2, <1>4, FuncAddrsFacts DEF StartScan, Started
  <2>2. query.table # "comments" /\ query.table # "grep"
    BY <1>4 DEF StartScan, Streamed
  <2> QED BY <1>4, <2>1, <2>2 DEF StartScan, Started
<1>5. CASE StartBuild
  <2>1. IsSeq(CacheOf(query, mem))
    BY <1>2, <1>5, CachesAreSeqs DEF StartBuild, Started
  <2>2. query.table # "comments"
    BY <1>5 DEF StartBuild, Cached, Listings
  <2>3. /\ pc = "plan" /\ pc' = "rows" /\ plan' = "scan" /\ buf' = CacheOf(query, mem) /\ funcs_' = funcs_ /\ funcs_ = <<>>
        /\ query' = query /\ rows' = rows /\ rows = <<>> /\ query.table \in Cached
        /\ query.table = "grep" => query.column = "none"
    BY <1>5 DEF StartBuild, Started
  <2> QED BY <1>1, <2>1, <2>2, <2>3
<1>6. CASE StartFilter
  <2>1. query.table \in Streamed \cup {"xrefs", "grep"} /\ (query.table \in Streamed => query.column = "func_addr")
    <3>1. query.column \in FilterColumns(query.table)
      BY <1>6 DEF StartFilter
    <3>2. query.table \in Streamed => FilterColumns(query.table) = {"func_addr"}
      BY DEF FilterColumns, Streamed
    <3>3. query.table \notin Streamed /\ query.table # "xrefs" /\ query.table # "grep" => FilterColumns(query.table) = {}
      BY DEF FilterColumns
    <3> QED BY <3>1, <3>2, <3>3
  <2>2. query.table \in Streamed => query.value \in Int64
    BY <1>3, <2>1, QueriesAssumption
  <2>3. IsSeq(FilterOf(query, mem))
    BY <1>2, <1>6, <2>1, <2>2, FiltersAreSeqs DEF StartFilter, Started
  <2>4. query.table # "comments" /\ query.table \in Streamed \cup Cached
    BY <2>1 DEF Streamed, Cached
  <2>5. /\ pc = "plan" /\ pc' = "rows" /\ plan' = "filter" /\ buf' = FilterOf(query, mem) /\ funcs_' = funcs_ /\ funcs_ = <<>>
        /\ query' = query /\ rows' = rows /\ rows = <<>> /\ query.column \in FilterColumns(query.table)
    BY <1>6 DEF StartFilter, Started
  <2>6. query.table = "grep" => query.column = "pattern"
    BY <2>5 DEF FilterColumns, Streamed
  <2> QED BY <1>1, <2>3, <2>4, <2>5, <2>6
<1>7. ASSUME NEW row, HandOut(row) PROVE IsSeq(rows')
  BY <1>7, AppendIsSeq DEF HandOut
<1>8. CASE HandRead
  <2>1. IsSeq(buf') /\ IsSeq(rows')
    BY <1>7, <1>8, TailIsSeq DEF HandRead
  <2>2. /\ pc = "rows" /\ pc' = "rows" /\ plan' = plan /\ funcs_' = funcs_ /\ query' = query
    BY <1>8 DEF HandRead, GoesOn
  <2> QED BY <2>1, <2>2
<1>9. CASE HandFirst
  <2>1. PICK k \in DOMAIN funcs_ :
            LET found == Found(query.table, mem) IN
            /\ FirstAt(k, found) /\ HandOut(Head(found[funcs_[k]])) /\ buf' = Tail(found[funcs_[k]])
            /\ funcs_' = After(k)
    BY <1>9 DEF HandFirst
  <2>2. /\ pc = "rows" /\ pc' = "rows" /\ plan' = plan /\ plan = "scan" /\ query' = query /\ query.table \in Streamed
    BY <1>9 DEF HandFirst, GoesOn
  <2>3. After(k) \in Seq(Int64) /\ funcs_[k] \in Int64
    BY AfterFacts
  <2> DEFINE s == Found(query.table, mem)[funcs_[k]]
  <2>4. IsSeq(s) /\ s # <<>>
    BY <1>2, <2>1, <2>2, <2>3, FoundFacts DEF FirstAt
  <2>5. buf' = Tail(s) /\ HandOut(Head(s)) /\ funcs_' = After(k)
    BY <2>1
  <2> HIDE DEF s
  <2>6. IsSeq(buf') /\ IsSeq(rows')
    BY <1>7, <2>4, <2>5, TailIsSeq
  <2> QED BY <2>2, <2>3, <2>5, <2>6
<1>10. CASE HandEnd
  <2>1. /\ pc = "rows" /\ pc' = "done" /\ plan' = plan /\ query' = query /\ funcs_' = <<>> /\ rows' = rows /\ buf' = buf /\ buf = <<>>
    BY <1>10 DEF HandEnd, GoesOn
  <2> QED BY <1>1, <2>1
<1>11. CASE InsertComment
  <2>1. query.table = "comments" /\ pc = "plan" /\ pc' = "done" /\ UNCHANGED <<query, plan, funcs_, buf, rows>>
    BY <1>11 DEF InsertComment
  <2> QED BY <2>1
<1>12. CASE OpenProject
  <2>1. UNCHANGED <<query, pc, plan, funcs_, buf, rows>>
    BY <1>12 DEF OpenProject
  <2> QED BY <2>1
<1>13. CASE UNCHANGED vars
  BY <1>13 DEF vars
<1> QED BY StepShapes, <1>4, <1>5, <1>6, <1>8, <1>9, <1>10, <1>11, <1>12, <1>13

-----------------------------------------------------------------------------
(* The comment                                                             *)

(* A C string ends where its text has the first NUL.                     *)
LEMMA CutAtNul ==
    ASSUME NEW s \in Seq(Bytes)
    PROVE  CString(s) \in Seq(Bytes) /\ UpToNul(CString(s), s)
<1> DEFINE n == Len(s)
           nuls == {i \in DOMAIN s : s[i] = 0}
<1>1. n \in Nat /\ DOMAIN s = 1..n /\ \A i \in 1..n : s[i] \in Bytes
  OBVIOUS
<1>2. CASE nuls = {}
  <2>1. CString(s) = s
    BY <1>2, Zenon DEF CString
  <2>4. \A i \in 1..n : s[i] # 0
    BY <1>1, <1>2
  <2> HIDE DEF nuls
  <2>2. \A i \in 1..n : s[i] \in 1..255
    BY <1>1, <2>4 DEF Bytes
  <2>3. s \in Seq(1..255)
    BY <1>1, <2>2
  <2> QED BY <1>1, <2>1, <2>3 DEF UpToNul
<1>3. CASE nuls # {}
  <2> DEFINE k == CHOOSE i \in nuls : \A j \in nuls : i <= j
             t == SubSeq(s, 1, k - 1)
  <2>1. CString(s) = t
    BY <1>3, Zenon DEF CString
  <2>2. k \in nuls /\ \A j \in nuls : k <= j
    <3>1. nuls \in SUBSET Nat
      BY <1>1
    <3>2. \E i \in nuls : \A j \in nuls : i <= j
      <4> HIDE DEF nuls
      <4> QED BY <1>3, <3>1, LeastNumber
    <3> HIDE DEF nuls
    <3> QED BY <3>2, Zenon
  <2> HIDE DEF k
  <2>3. k \in 1..n /\ s[k] = 0 /\ \A i \in 1..(k - 1) : s[i] # 0
    BY <1>1, <2>2
  <2>4. t \in Seq(Bytes) /\ Len(t) = k - 1 /\ \A i \in 1..(k - 1) : t[i] = s[i]
    BY <1>1, <2>3
  <2> HIDE DEF t, nuls
  <2>5. \A i \in 1..Len(t) : t[i] \in 1..255
    BY <1>1, <2>3, <2>4 DEF Bytes
  <2>6. t \in Seq(1..255)
    <3> DEFINE R == 1..255
    <3>1. \A i \in 1..Len(t) : t[i] \in R
      BY <2>5
    <3>2. t = [i \in 1..Len(t) |-> t[i]] /\ Len(t) \in Nat
      BY <2>4
    <3> HIDE DEF R
    <3>3. t \in Seq(R)
      BY <3>1, <3>2
    <3> QED BY <3>3 DEF R
  <2>7. UpToNul(t, s)
    BY <1>1, <2>3, <2>4, <2>6 DEF UpToNul
  <2> QED BY <2>1, <2>4, <2>7
<1> QED BY <1>2, <1>3

(* Every step keeps TextArrives.                                         *)
LEMMA TextStep ==
    ASSUME MemInv, CursorInv, TextArrives, [Next]_vars
    PROVE  TextArrives'
<1>1. CASE InsertComment
  <2> DEFINE text == Base64Decode(Base64Encode(CString(query.text)))
             c == [offset |-> HexAddr(query.value), name |-> text]
             S == mem.listed["CCj"]
  <2>1. query \in Queries /\ IsCore(mem) /\ query' = query /\ before' = before /\ mem = before
    BY <1>1, MemIsCore DEF InsertComment, MemInv
  <2>9. CASE Refused
    <3>1. mem' = before' /\ Refused'
      BY <1>1, <2>1, <2>9 DEF InsertComment, Refused
    <3> QED BY <3>1 DEF TextArrives
  <2> SUFFICES ASSUME ~Refused PROVE TextArrives'
    BY <2>9
  <2>2. query.value \in Int64 /\ query.text \in Seq(Bytes)
    BY <1>1, <2>1, QueriesAssumption DEF InsertComment, Refused
  <2>3. UpToNul(text, query.text)
    <3>1. CString(query.text) \in Seq(Bytes) /\ UpToNul(CString(query.text), query.text)
      BY <2>2, CutAtNul
    <3>2. text = CString(query.text)
      BY <3>1, TextComesBack
    <3> QED BY <3>1, <3>2, Zenon
  <2>4. I64Addr(c) = query.value /\ c.name = text
    <3>1. I64Addr(c) = ToSigned(HexAddr(query.value))
      BY DEF I64Addr, I64
    <3> QED BY <2>2, <3>1, ValueComesBack
  <2>5. IsSeq(S)
    BY <2>1 DEF IsCore, Commands, IsSeq
  <2>6. mem'.listed["CCj"] = Append(S, c)
    <3>1. mem' = [mem EXCEPT !.listed["CCj"] = Append(@, c)]
      BY <1>1 DEF InsertComment, Comment
    <3> QED BY <2>1, <3>1 DEF IsCore, Commands
  <2> HIDE DEF text, c, S
  <2>7. c \in ToSet(Append(S, c))
    BY <2>5, AppendIsSeq
  <2>8. query' = query /\ Refused' = Refused
    BY <2>1 DEF Refused
  <2>10. UpToNul(c.name, query.text) /\ I64Addr(c) = query.value
    BY <2>3, <2>4
  <2> QED BY <2>6, <2>7, <2>8, <2>10, Zenon DEF TextArrives
<1>2. CASE StartScan \/ StartBuild \/ StartFilter \/ OpenProject
  <2>1. pc' # "done"
    BY <1>2 DEF StartScan, StartBuild, StartFilter, Started, OpenProject
  <2> QED BY <2>1, Zenon DEF TextArrives
<1>3. CASE HandRead \/ HandFirst \/ HandEnd
  <2>1. query.table # "comments" /\ query' = query
    BY <1>3 DEF HandRead, HandFirst, HandEnd, GoesOn, CursorInv
  <2> QED BY <2>1 DEF TextArrives
<1>4. CASE UNCHANGED vars
  BY <1>4 DEF vars, TextArrives, Refused
<1> QED BY StepShapes, <1>1, <1>2, <1>3, <1>4

-----------------------------------------------------------------------------
(* The rows of one function among others                                   *)

OfSet(s, fa) == {r \in ToSet(s) : r.func_addr = fa}

(* The rows of a function are chosen by its address.                     *)
LEMMA OfFunctionIs ==
    ASSUME NEW s, NEW fa
    PROVE  OfFunction(s, fa) = Chosen(s, OfSet(s, fa))
<1>1. [x \in ToSet(s) |-> IF x.func_addr = fa THEN <<x>> ELSE <<>>] = Pick(ToSet(s), OfSet(s, fa))
  BY DEF Pick, OfSet
<1> QED BY <1>1, Zenon DEF OfFunction, Select, Chosen

(* All rows, no rows, or none of a function without any.                 *)
LEMMA OfFunctionFacts ==
    ASSUME NEW s, IsSeq(s), NEW fa
    PROVE  /\ IsSeq(OfFunction(s, fa))
           /\ (\A r \in ToSet(s) : r.func_addr # fa) => OfFunction(s, fa) = <<>>
           /\ (\A r \in ToSet(s) : r.func_addr = fa) => OfFunction(s, fa) = s
<1> DEFINE K == OfSet(s, fa)
<1>1. s \in Seq(ToSet(s))
  BY DEF IsSeq
<1>2. OfFunction(s, fa) = Chosen(s, K)
  BY OfFunctionIs
<1>3. IsSeq(Chosen(s, K))
  <2>1. Chosen(s, K) \in Seq(ToSet(s))
    BY <1>1, ChosenFacts
  <2> QED BY <2>1, InSeq
<1>4. ASSUME \A r \in ToSet(s) : r.func_addr # fa PROVE Chosen(s, K) = <<>>
  <2>1. \A r \in ToSet(s) : r \notin K
    BY <1>4 DEF OfSet
  <2> QED BY <1>1, <2>1, ChosenNone
<1>5. ASSUME \A r \in ToSet(s) : r.func_addr = fa PROVE Chosen(s, K) = s
  <2>1. \A r \in ToSet(s) : r \in K
    BY <1>5 DEF OfSet
  <2> QED BY <1>1, <2>1, ChosenAll
<1> HIDE DEF K
<1> QED BY <1>2, <1>3, <1>4, <1>5

(* The rows of a function in two lists.                                  *)
LEMMA OfConcat ==
    ASSUME NEW s, IsSeq(s), NEW t, IsSeq(t), NEW fa
    PROVE  OfFunction(s \o t, fa) = OfFunction(s, fa) \o OfFunction(t, fa)
<1> DEFINE S == ToSet(s) \cup ToSet(t)
           u == s \o t
           K == OfSet(u, fa)
<1>1. s \in Seq(S) /\ t \in Seq(S) /\ \A x : x \in ToSet(u) <=> x \in ToSet(s) \/ x \in ToSet(t)
  BY SeqsTogether
<1>2. \A x \in ToSet(s) : x \in K <=> x \in OfSet(s, fa)
  BY <1>1 DEF OfSet
<1>3. \A x \in ToSet(t) : x \in K <=> x \in OfSet(t, fa)
  BY <1>1 DEF OfSet
<1> HIDE DEF S, K
<1>4. Chosen(u, K) = Chosen(s, K) \o Chosen(t, K)
  BY <1>1, ChosenConcat
<1>5. Chosen(s, K) = Chosen(s, OfSet(s, fa))
  BY <1>1, <1>2, ChosenSame
<1>6. Chosen(t, K) = Chosen(t, OfSet(t, fa))
  BY <1>1, <1>3, ChosenSame
<1>7. OfFunction(u, fa) = Chosen(u, K)
  BY OfFunctionIs DEF K
<1>8. OfFunction(s, fa) = Chosen(s, OfSet(s, fa)) /\ OfFunction(t, fa) = Chosen(t, OfSet(t, fa))
  BY OfFunctionIs
<1> HIDE DEF u
<1>9. OfFunction(u, fa) = OfFunction(s, fa) \o OfFunction(t, fa)
  BY <1>4, <1>5, <1>6, <1>7, <1>8, Zenon
<1> QED BY <1>9 DEF u

(* The empty list adds nothing.                                          *)
LEMMA ConcatNothing ==
    ASSUME NEW s, IsSeq(s)
    PROVE  s \o <<>> = s /\ <<>> \o s = s
<1>1. s \in Seq(ToSet(s))
  BY DEF IsSeq
<1> DEFINE A == ToSet(s)
<1> HIDE DEF A
<1>2. s \in Seq(A)
  BY <1>1 DEF A
<1> QED BY <1>2

(* Three lists put together in either order.                             *)
LEMMA ConcatsAssociate ==
    ASSUME NEW s, IsSeq(s), NEW t, IsSeq(t), NEW u, IsSeq(u)
    PROVE  Regrouped(s, t, u)
<1> DEFINE S == ToSet(s) \cup ToSet(t) \cup ToSet(u)
           A == ToSet(s)
           B == ToSet(t)
           C == ToSet(u)
<1>1. s \in Seq(A) /\ t \in Seq(B) /\ u \in Seq(C)
  BY DEF IsSeq
<1>2. A \subseteq S /\ B \subseteq S /\ C \subseteq S
  OBVIOUS
<1> HIDE DEF A, B, C, S
<1>3. s \in Seq(S) /\ t \in Seq(S) /\ u \in Seq(S)
  BY <1>1, <1>2, SeqMonotonic
<1>4. (s \o t) \o u = s \o (t \o u)
  BY ONLY <1>3, ConcatAssociative
<1> QED BY <1>4, Zenon DEF Regrouped

(* A row that is handed out only changes its place.                        *)
LEMMA HandedOne ==
    ASSUME NEW r, IsSeq(r), NEW s, IsSeq(s), s # <<>>
    PROVE  Append(r, Head(s)) \o Tail(s) = r \o s
<1> DEFINE h == Head(s)
           t == Tail(s)
           o == <<h>>
<1>1. s = o \o t /\ IsSeq(t)
  BY TailIsSeq
<1>2. Append(r, h) = r \o o
  <2> DEFINE S == ToSet(r) \cup {h}
             A == ToSet(r)
  <2>1. r \in Seq(A)
    BY DEF IsSeq
  <2>2. A \subseteq S /\ h \in S
    OBVIOUS
  <2> HIDE DEF A, S, h
  <2>3. r \in Seq(S)
    BY <2>1, <2>2, SeqMonotonic
  <2> QED BY <2>2, <2>3, AppendIsConcat
<1>3. IsSeq(o)
  <2> HIDE DEF h
  <2>1. o \in Seq({h})
    OBVIOUS
  <2> QED BY <2>1, InSeq
<1> HIDE DEF o, t, h
<1>4. Regrouped(r, o, t)
  BY <1>1, <1>3, ConcatsAssociate
<1>5. Append(r, h) \o t = r \o s
  BY <1>1, <1>2, <1>4, Zenon DEF Regrouped
<1> QED BY <1>5 DEF h, t

-----------------------------------------------------------------------------
(* The scan                                                                *)

ScannedTo(k, F, fs, seen, m) ==
    /\ k \in 0..Len(F) /\ fs = SubSeq(F, k + 1, Len(F))
    /\ \A i \in 1..k : OfFunction(seen, F[i]) \in {Found(query.table, before)[F[i]], Found(query.table, m)[F[i]]}
    /\ \A r \in ToSet(seen) : \E i \in 1..k : r.func_addr = F[i]

(* ScanInv, with its body named.                                         *)
LEMMA ScanInvIs ==
    ScanInv <=> (query.table \in Streamed /\ query.column = "none" /\ pc # "plan" =>
                    \E k \in 0..Len(FuncAddrs(before)) : ScannedTo(k, FuncAddrs(before), funcs_, rows \o buf, mem))
BY Zenon DEF ScanInv, ScannedTo

(* What is left after k and then n functions.                            *)
LEMMA RestOfRest ==
    ASSUME NEW S, NEW F \in Seq(S), NEW L, L = Len(F), NEW k \in 0..L, NEW n \in 0..(L - k),
           NEW fs, fs = SubSeq(F, k + 1, L)
    PROVE  /\ fs \in Seq(S) /\ Len(fs) = L - k /\ \A j \in 1..(L - k) : fs[j] = F[k + j]
           /\ SubSeq(fs, n + 1, Len(fs)) = SubSeq(F, (k + n) + 1, L)
<1> DEFINE a == SubSeq(fs, n + 1, L - k)
           b == SubSeq(F, (k + n) + 1, L)
<1>1. L \in Nat /\ k \in Nat /\ n \in Nat /\ k + n \in 0..L /\ n <= L - k
  OBVIOUS
<1>2. fs \in Seq(S) /\ Len(fs) = L - k /\ \A j \in 1..(L - k) : fs[j] = F[k + j]
  BY <1>1
<1>3. a \in Seq(S) /\ Len(a) = L - k - n /\ \A j \in 1..(L - k - n) : a[j] = fs[n + j]
  BY <1>1, <1>2
<1>4. b \in Seq(S) /\ Len(b) = L - k - n /\ \A j \in 1..(L - k - n) : b[j] = F[k + n + j]
  <2> DEFINE z == k + n
  <2>1. z \in 0..L /\ L - z = L - k - n
    BY <1>1
  <2> HIDE DEF z
  <2>2. SubSeq(F, z + 1, L) \in Seq(S) /\ Len(SubSeq(F, z + 1, L)) = L - z
        /\ \A j \in 1..(L - z) : SubSeq(F, z + 1, L)[j] = F[z + j]
    BY <2>1
  <2> QED BY <2>1, <2>2 DEF z
<1> HIDE DEF a, b
<1>5. ASSUME NEW j \in 1..(L - k - n) PROVE a[j] = b[j]
  <2>1. n + j \in 1..(L - k) /\ k + (n + j) = k + n + j
    BY <1>1
  <2>2. a[j] = fs[n + j] /\ b[j] = F[k + n + j]
    BY <1>3, <1>4
  <2>3. fs[n + j] = F[k + (n + j)]
    BY <1>2, <2>1
  <2> QED BY <2>1, <2>2, <2>3
<1>6. a = b
  BY <1>3, <1>4, <1>5, SeqEqual
<1> QED BY <1>2, <1>6 DEF a, b

(* m after n more functions, of which the last alone has rows.             *)
LEMMA ScanFurther ==
    ASSUME NEW F \in Seq(Int64), \A i, j \in 1..Len(F) : i # j => F[i] # F[j],
           NEW k, NEW fs, NEW seen, NEW m, ScannedTo(k, F, fs, seen, m), IsSeq(seen),
           IsCore(m), query.table \in Streamed,
           NEW n \in 1..Len(fs), \A j \in 1..(n - 1) : Found(query.table, m)[fs[j]] = <<>>,
           NEW new, new = Found(query.table, m)[fs[n]]
    PROVE  ScannedTo(k + n, F, SubSeq(fs, n + 1, Len(fs)), seen \o new, m)
<1> DEFINE L == Len(F)
           t == query.table
<1>1. L \in Nat /\ k \in 0..L /\ fs = SubSeq(F, k + 1, L)
  BY DEF ScannedTo
<1>2. fs \in Seq(Int64) /\ Len(fs) = L - k /\ \A j \in 1..(L - k) : fs[j] = F[k + j]
  BY <1>1
<1>3. k + n \in 0..L /\ n \in Nat \ {0} /\ k \in Nat
  BY <1>1, <1>2
<1>4. SubSeq(fs, n + 1, Len(fs)) = SubSeq(F, (k + n) + 1, L)
  <2>1. n \in 0..(L - k)
    BY <1>1, <1>2
  <2>2. /\ F \in Seq(Int64) /\ L = Len(F) /\ k \in 0..L /\ n \in 0..(L - k)
        /\ fs = SubSeq(F, k + 1, L)
    BY <1>1, <2>1
  <2> HIDE DEF L
  <2>3. /\ fs \in Seq(Int64) /\ Len(fs) = L - k /\ \A j \in 1..(L - k) : fs[j] = F[k + j]
        /\ SubSeq(fs, n + 1, Len(fs)) = SubSeq(F, (k + n) + 1, L)
    BY ONLY <2>2, RestOfRest
  <2> QED BY <2>3
<1>5. fs[n] = F[k + n] /\ F[k + n] \in Int64 /\ k + n \in 1..L
  BY <1>1, <1>2, <1>3
<1>6. IsSeq(new) /\ \A r \in ToSet(new) : r.func_addr = F[k + n]
  BY <1>5, FoundFacts
<1> HIDE DEF L, t
<1>7. ASSUME NEW i \in 1..(k + n)
      PROVE  OfFunction(seen \o new, F[i]) \in {Found(query.table, before)[F[i]], Found(query.table, m)[F[i]]}
  <2>1. i \in 1..L /\ (i \in 1..k \/ (i \notin 1..k /\ i < k + n) \/ i = k + n)
    BY <1>1, <1>3
  <2>2. OfFunction(seen \o new, F[i]) = OfFunction(seen, F[i]) \o OfFunction(new, F[i])
    BY <1>6, OfConcat
  <2>3. i # k + n => OfFunction(new, F[i]) = <<>>
    <3> SUFFICES ASSUME i # k + n PROVE OfFunction(new, F[i]) = <<>>
      OBVIOUS
    <3>1. F[i] # F[k + n]
      BY <1>5, <2>1 DEF L
    <3>2. \A r \in ToSet(new) : r.func_addr # F[i]
      BY <1>6, <3>1
    <3> QED BY <1>6, <3>2, OfFunctionFacts
  <2>4. i \notin 1..k => OfFunction(seen, F[i]) = <<>>
    <3> SUFFICES ASSUME i \notin 1..k PROVE OfFunction(seen, F[i]) = <<>>
      OBVIOUS
    <3>1. ASSUME NEW r \in ToSet(seen) PROVE r.func_addr # F[i]
      <4>1. PICK j \in 1..k : r.func_addr = F[j]
        BY DEF ScannedTo
      <4>2. j # i /\ j \in 1..L
        BY <1>1, <4>1
      <4>3. F[i] # F[j]
        BY <2>1, <4>2 DEF L
      <4> QED BY <4>1, <4>3
    <3> QED BY <3>1, OfFunctionFacts
  <2>5. IsSeq(OfFunction(seen, F[i])) /\ IsSeq(OfFunction(new, F[i]))
    BY <1>6, OfFunctionFacts
  <2>6. CASE i \in 1..k
    <3>1. OfFunction(seen \o new, F[i]) = OfFunction(seen, F[i])
      <4>1. OfFunction(new, F[i]) = <<>>
        BY <1>1, <1>3, <2>3, <2>6
      <4>2. OfFunction(seen, F[i]) \o <<>> = OfFunction(seen, F[i])
        BY <2>5, ConcatNothing
      <4> QED BY <2>2, <4>1, <4>2, Zenon
    <3> QED BY <2>6, <3>1 DEF ScannedTo
  <2>7. CASE i \notin 1..k /\ i < k + n
    <3>1. OfFunction(seen \o new, F[i]) = <<>>
      <4>1. OfFunction(new, F[i]) = <<>> /\ OfFunction(seen, F[i]) = <<>>
        BY <1>1, <1>3, <2>3, <2>4, <2>7
      <4>2. <<>> \o <<>> = <<>>
        OBVIOUS
      <4> QED BY <2>2, <4>1, <4>2, Zenon
    <3>2. i - k \in 1..(n - 1) /\ i - k \in 1..(L - k) /\ k + (i - k) = i
      BY <1>1, <1>3, <2>1, <2>7
    <3>3. fs[i - k] = F[i]
      BY <1>2, <3>2 DEF L
    <3>4. Found(query.table, m)[F[i]] = <<>>
      BY <3>2, <3>3
    <3> QED BY <3>1, <3>4
  <2>8. CASE i = k + n
    <3>1. OfFunction(new, F[i]) = new
      BY <1>6, <2>8, OfFunctionFacts
    <3>2. OfFunction(seen, F[i]) = <<>>
      BY <1>1, <1>3, <2>4, <2>8
    <3>3. <<>> \o new = new
      BY <1>6, ConcatNothing
    <3>4. OfFunction(seen \o new, F[i]) = new
      BY <2>2, <3>1, <3>2, <3>3, Zenon
    <3> QED BY <1>5, <2>8, <3>4
  <2> QED BY <2>1, <2>6, <2>7, <2>8
<1>8. ASSUME NEW r \in ToSet(seen \o new) PROVE \E i \in 1..(k + n) : r.func_addr = F[i]
  <2>1. r \in ToSet(seen) \/ r \in ToSet(new)
    BY <1>6, SeqsTogether
  <2>2. CASE r \in ToSet(seen)
    <3>1. PICK i \in 1..k : r.func_addr = F[i]
      BY <2>2 DEF ScannedTo
    <3>2. i \in 1..(k + n)
      BY <1>1, <1>3
    <3> QED BY <3>1, <3>2
  <2>3. CASE r \in ToSet(new)
    <3>1. k + n \in 1..(k + n)
      BY <1>3
    <3> QED BY <1>6, <2>3, <3>1
  <2> QED BY <2>1, <2>2, <2>3
<1> QED BY <1>3, <1>4, <1>7, <1>8 DEF ScannedTo, L

(* A step of the scan reaches a later function.                          *)
LEMMA ScanInvNext ==
    ASSUME query' = query, before' = before,
           query.table \in Streamed /\ query.column = "none" /\ pc' # "plan" =>
               \E k \in 0..Len(FuncAddrs(before)) : ScannedTo(k, FuncAddrs(before), funcs_', rows' \o buf', mem')
    PROVE  ScanInv'
<1> SUFFICES ASSUME query.table \in Streamed, query.column = "none", pc' # "plan"
             PROVE  \E k \in 0..Len(FuncAddrs(before)) :
                       LET F == FuncAddrs(before)
                           seen == rows' \o buf' IN
                       /\ funcs_' = SubSeq(F, k + 1, Len(F))
                       /\ \A i \in 1..k : OfFunction(seen, F[i]) \in {Found(query.table, before)[F[i]], Found(query.table, mem')[F[i]]}
                       /\ \A r \in ToSet(seen) : \E i \in 1..k : r.func_addr = F[i]
  BY Zenon DEF ScanInv
<1> QED BY Zenon DEF ScannedTo

(* Nothing that counts for the scan has changed.                           *)
LEMMA ScanStays ==
    ASSUME ScanInv, query' = query, before' = before, pc # "plan",
           NEW fs, funcs_' = fs, NEW seen, rows' \o buf' = seen, mem' = mem,
           fs = funcs_, seen = rows \o buf
    PROVE  ScanInv'
<1>1. query.table \in Streamed /\ query.column = "none" =>
         \E k \in 0..Len(FuncAddrs(before)) : ScannedTo(k, FuncAddrs(before), funcs_', rows' \o buf', mem')
  BY Zenon, ScanInvIs
<1> QED BY <1>1, ScanInvNext, Zenon

(* Without a WHERE every row is kept.                                    *)
LEMMA StreamedKeeps ==
    ASSUME query.column = "none", NEW row, HandOut(row)
    PROVE  rows' = Append(rows, row)
BY DEF HandOut, Keeps

(* Every step keeps ScanInv.                                             *)
LEMMA ScanStep ==
    ASSUME MemInv, CursorInv, ScanInv, [Next]_vars
    PROVE  ScanInv'
<1> DEFINE F == FuncAddrs(before)
           T == query.table
<1>1. query.table = "comments" \/ IsCore(mem)
  <2>1. query.table # "comments" => IsCore(mem)
    BY MemIsCore
  <2> QED BY <2>1
<1>2. IsCore(before) /\ query \in Queries
  BY MemIsCore
<1>3. /\ F \in Seq(Int64) /\ Len(F) \in Nat
      /\ \A i, j \in 1..Len(F) : i # j => F[i] # F[j]
  BY <1>2, FuncAddrsFacts
<1>4. T \in Streamed => T # "comments" 
  BY DEF Streamed
<1>5. T \notin Streamed \/ query.column # "none" => ([Next]_vars => ScanInv')
  <2>1. [Next]_vars => query' = query
    BY StepShapes DEF StartScan, StartBuild, StartFilter, Started, HandRead, HandFirst, HandEnd, GoesOn, InsertComment, OpenProject, vars
  <2> QED BY <2>1 DEF ScanInv
<1> SUFFICES ASSUME T \in Streamed, query.column = "none" PROVE ScanInv'
  BY <1>5
<1>6. IsCore(mem) /\ IsSeq(rows) /\ IsSeq(buf) /\ IsSeq(<<>>)
  <2>1. IsSeq(<<>>)
    BY DEF IsSeq, ToSet
  <2> QED BY <1>1, <1>4, <2>1 DEF CursorInv
<1>7. IsSeq(rows \o buf)
  BY <1>6, SeqsTogether, InSeq
<1> HIDE DEF F, T
<1>8. ASSUME pc # "plan"
      PROVE  \E k \in 0..Len(F) : ScannedTo(k, F, funcs_, rows \o buf, mem)
  BY <1>8, ScanInvIs DEF F, T
<1>9. CASE StartScan
  <2>1. pc = "plan" /\ pc' = "rows" /\ funcs_' = FuncAddrs(mem) /\ buf' = buf /\ UNCHANGED <<query, mem, before, rows>>
    BY <1>9 DEF StartScan, Started
  <2>2. mem = before
    BY <1>4, <2>1 DEF MemInv, T
  <2>3. rows = <<>> /\ buf = <<>>
    BY <2>1 DEF CursorInv
  <2>4. rows' \o buf' = <<>>
    BY <1>6, <2>1, <2>3, ConcatNothing
  <2>5. SubSeq(F, 1, Len(F)) = F /\ 0 \in 0..Len(F)
    BY <1>3
  <2>6. ScannedTo(0, F, funcs_', <<>>, mem')
    <3>1. ToSet(<<>>) = {}
      BY DEF ToSet
    <3>2. funcs_' = SubSeq(F, 0 + 1, Len(F))
      BY <2>1, <2>2, <2>5 DEF F
    <3> QED BY <2>5, <3>1, <3>2 DEF ScannedTo
  <2>7. \E k \in 0..Len(F) : ScannedTo(k, F, funcs_', rows' \o buf', mem')
    BY <2>4, <2>5, <2>6, Zenon
  <2> QED BY <2>1, <2>7, ScanInvNext, Zenon DEF F
<1>10. CASE StartBuild
  BY <1>10 DEF StartBuild, Streamed, Cached, Listings, T
<1>11. CASE StartFilter
  BY <1>11 DEF StartFilter, FilterColumns, T
<1>12. CASE HandRead
  <2>1. /\ pc = "rows" /\ buf # <<>> /\ HandOut(Head(buf)) /\ buf' = Tail(buf) /\ funcs_' = funcs_
        /\ query' = query /\ before' = before /\ mem' = mem
    BY <1>12 DEF HandRead, GoesOn
  <2>2. rows' = Append(rows, Head(buf))
    BY <2>1, StreamedKeeps
  <2>3. Append(rows, Head(buf)) \o Tail(buf) = rows \o buf
    BY <1>6, <2>1, HandedOne
  <2>4. rows' \o buf' = rows \o buf
    BY <2>1, <2>2, <2>3, Zenon
  <2> QED BY <2>1, <2>4, ScanStays
<1>13. CASE HandFirst
  <2>1. PICK n \in DOMAIN funcs_ :
            LET found == Found(query.table, mem) IN
            /\ FirstAt(n, found) /\ HandOut(Head(found[funcs_[n]])) /\ buf' = Tail(found[funcs_[n]])
            /\ funcs_' = After(n)
    BY <1>13 DEF HandFirst
  <2>2. pc = "rows" /\ buf = <<>> /\ pc' = "rows" /\ query' = query /\ before' = before /\ mem' = mem
    BY <1>13 DEF HandFirst, GoesOn
  <2> DEFINE new == Found(query.table, mem)[funcs_[n]]
  <2>3. PICK k \in 0..Len(F) : ScannedTo(k, F, funcs_, rows \o buf, mem)
    BY <1>8, <2>2
  <2>4. n \in 1..Len(funcs_) /\ funcs_[n] \in Int64
    BY AfterFacts DEF CursorInv
  <2>5. IsSeq(new) /\ new # <<>>
    BY <1>6, <2>1, <2>4, FoundFacts DEF FirstAt, T
  <2>6. ScannedTo(k + n, F, SubSeq(funcs_, n + 1, Len(funcs_)), (rows \o buf) \o new, mem)
    <3>1. \A j \in 1..(n - 1) : Found(query.table, mem)[funcs_[j]] = <<>>
      BY <2>1 DEF FirstAt
    <3> QED BY <1>3, <1>6, <1>7, <2>3, <2>4, <3>1, ScanFurther DEF T
  <2>7. rows \o buf = rows
    BY <1>6, <2>2, ConcatNothing
  <2>8. rows' \o buf' = rows \o new
    <3>1. rows' = Append(rows, Head(new)) /\ buf' = Tail(new)
      BY <2>1, StreamedKeeps
    <3> HIDE DEF new
    <3>2. Append(rows, Head(new)) \o Tail(new) = rows \o new
      BY <1>6, <2>5, HandedOne
    <3> QED BY <3>1, <3>2, Zenon
  <2>9. k + n \in 0..Len(F)
    BY <2>6 DEF ScannedTo
  <2> HIDE DEF new
  <2>10. ScannedTo(k + n, F, funcs_', rows' \o buf', mem')
    <3>1. funcs_' = SubSeq(funcs_, n + 1, Len(funcs_))
      BY <2>1 DEF After
    <3> QED BY <2>2, <2>6, <2>7, <2>8, <3>1, Zenon
  <2>11. \E i \in 0..Len(F) : ScannedTo(i, F, funcs_', rows' \o buf', mem')
    BY <2>9, <2>10, Zenon
  <2> QED BY <2>2, <2>11, ScanInvNext, Zenon DEF F
<1>14. CASE HandEnd
  <2>1. /\ pc = "rows" /\ funcs_' = <<>> /\ rows' = rows /\ buf' = buf /\ buf = <<>> /\ query' = query /\ before' = before /\ mem' = mem
        /\ funcs_ # <<>> => \A j \in DOMAIN funcs_ : Found(query.table, mem)[funcs_[j]] = <<>>
    BY <1>14 DEF HandEnd, GoesOn
  <2>2. rows' \o buf' = rows \o buf
    BY <2>1, Zenon
  <2>3. CASE funcs_ = <<>>
    <3>1. funcs_' = funcs_
      BY <2>1, <2>3
    <3> QED BY <2>1, <2>2, <3>1, ScanStays
  <2>4. CASE funcs_ # <<>>
    <3> DEFINE n == Len(funcs_)
    <3>1. funcs_ \in Seq(Int64)
      BY DEF CursorInv
    <3>2. n \in 1..Len(funcs_) /\ DOMAIN funcs_ = 1..n /\ funcs_[n] \in Int64 /\ n - 1 \in Nat
      BY <2>4, <3>1
    <3>3. PICK k \in 0..Len(F) : ScannedTo(k, F, funcs_, rows \o buf, mem)
      BY <1>8, <2>1
    <3>4. \A j \in 1..n : Found(query.table, mem)[funcs_[j]] = <<>>
      BY <2>1, <2>4, <3>2
    <3>5. SubSeq(funcs_, n + 1, n) = <<>>
      BY <3>1, <3>2
    <3> HIDE DEF n
    <3>6. ScannedTo(k + n, F, SubSeq(funcs_, n + 1, Len(funcs_)), (rows \o buf) \o <<>>, mem)
      <4>1. \A j \in 1..(n - 1) : Found(query.table, mem)[funcs_[j]] = <<>>
        BY <3>2, <3>4
      <4>2. Found(query.table, mem)[funcs_[n]] = <<>>
        BY <3>2, <3>4
      <4> QED BY <1>3, <1>6, <1>7, <3>2, <3>3, <4>1, <4>2, ScanFurther DEF T
    <3>7. (rows \o buf) \o <<>> = rows \o buf
      BY <1>7, ConcatNothing
    <3>8. ScannedTo(k + n, F, funcs_', rows' \o buf', mem')
      <4>1. funcs_' = SubSeq(funcs_, n + 1, Len(funcs_))
        BY <2>1, <3>5 DEF n
      <4> QED BY <2>1, <2>2, <3>6, <3>7, <4>1, Zenon
    <3>9. k + n \in 0..Len(F)
      BY <3>6 DEF ScannedTo
    <3>10. \E i \in 0..Len(F) : ScannedTo(i, F, funcs_', rows' \o buf', mem')
      BY <3>8, <3>9, Zenon
    <3> QED BY <2>1, <3>10, ScanInvNext, Zenon DEF F
  <2> QED BY <2>3, <2>4
<1>15. CASE InsertComment
  BY <1>4, <1>15 DEF InsertComment, T
<1>16. CASE OpenProject
  <2>1. pc = "rows" /\ mem = before /\ UNCHANGED <<query, before, funcs_, buf, rows>>
    BY <1>16 DEF OpenProject
  <2>2. PICK k \in 0..Len(F) : ScannedTo(k, F, funcs_, rows \o buf, mem)
    BY <1>8, <2>1
  <2>3. ScannedTo(k, F, funcs_, rows \o buf, mem')
    BY <2>1, <2>2 DEF ScannedTo
  <2>4. \E i \in 0..Len(F) : ScannedTo(i, F, funcs_', rows' \o buf', mem')
    BY <2>1, <2>3, Zenon
  <2> QED BY <2>1, <2>4, ScanInvNext, Zenon DEF F
<1>17. CASE UNCHANGED vars
  <2>1. UNCHANGED <<query, mem, before, pc, funcs_, buf, rows>>
    BY <1>17 DEF vars
  <2> QED BY <2>1 DEF ScanInv
<1> QED BY StepShapes, <1>9, <1>10, <1>11, <1>12, <1>13, <1>14, <1>15, <1>16, <1>17

(* At the end the scan has been whole.                                   *)
LEMMA ScanEnds ==
    ASSUME MemInv, CursorInv, ScanInv
    PROVE  ScanIsWhole
<1> SUFFICES ASSUME pc = "done", query.table \in Streamed, query.column = "none"
             PROVE  /\ {r.func_addr : r \in ToSet(rows)} \subseteq ToSet(FuncAddrs(before))
                    /\ \A fa \in ToSet(FuncAddrs(before)) :
                          OfFunction(rows, fa) \in {Found(query.table, before)[fa], Found(query.table, mem)[fa]}
  BY Zenon DEF ScanIsWhole
<1> DEFINE F == FuncAddrs(before)
<1>1. F \in Seq(Int64)
  BY MemIsCore, FuncAddrsFacts
<1>2. PICK k \in 0..Len(F) : ScannedTo(k, F, funcs_, rows \o buf, mem)
  BY ScanInvIs
<1>3. funcs_ = <<>> /\ buf = <<>> /\ IsSeq(rows)
  BY DEF CursorInv, Streamed
<1>4. rows \o buf = rows
  BY <1>3, ConcatNothing
<1> HIDE DEF F
<1>5. k = Len(F)
  <2>1. Len(SubSeq(F, k + 1, Len(F))) = Len(F) - k /\ Len(F) \in Nat
    BY <1>1, <1>2
  <2>2. funcs_ = SubSeq(F, k + 1, Len(F))
    BY <1>2 DEF ScannedTo
  <2>3. Len(F) - k = 0
    <3>1. Len(<<>>) = 0
      OBVIOUS
    <3>2. Len(funcs_) = 0
      BY <1>3, <3>1, Zenon
    <3> QED BY <2>1, <2>2, <3>2
  <2> QED BY <2>1, <2>3
<1>6. ScannedTo(k, F, funcs_, rows, mem)
  BY <1>2, <1>4, Zenon
<1>7. \A x : x \in ToSet(F) <=> \E i \in 1..Len(F) : x = F[i]
  BY <1>1, InSeq
<1> QED BY <1>5, <1>6, <1>7 DEF ScannedTo, F

-----------------------------------------------------------------------------
(* The rows kept                                                           *)

KeptSet(q, s) == {row \in ToSet(s) : q.column \in {"none", "pattern"} \/ row[q.column] = q.value}

(* The rows kept are chosen by the WHERE.                                *)
LEMMA KeptIs ==
    ASSUME NEW q, NEW s
    PROVE  Kept(q, s) = Chosen(s, KeptSet(q, s))
<1>1. [x \in ToSet(s) |-> IF q.column \in {"none", "pattern"} \/ x[q.column] = q.value THEN <<x>> ELSE <<>>]
        = Pick(ToSet(s), KeptSet(q, s))
  BY DEF Pick, KeptSet
<1> QED BY <1>1, Zenon DEF Kept, Select, Chosen

(* What is kept is a list of rows that were there.                       *)
LEMMA KeptFacts ==
    ASSUME NEW q, NEW s, IsSeq(s)
    PROVE  /\ IsSeq(Kept(q, s))
           /\ \A r : r \in ToSet(Kept(q, s)) <=> r \in ToSet(s) /\ r \in KeptSet(q, s)
<1> DEFINE K == KeptSet(q, s)
           A == ToSet(s)
<1>1. s \in Seq(A)
  BY DEF IsSeq
<1>2. Kept(q, s) = Chosen(s, K)
  BY KeptIs
<1> HIDE DEF K, A
<1>3. Chosen(s, K) \in Seq(A) /\ \A x : x \in ToSet(Chosen(s, K)) <=> x \in ToSet(s) /\ x \in K
  BY <1>1, ChosenFacts
<1>4. IsSeq(Chosen(s, K))
  BY <1>3, InSeq
<1> QED BY <1>2, <1>3, <1>4 DEF K

(* The WHERE looks at one row at a time.                                 *)
LEMMA KeptConcat ==
    ASSUME NEW q, NEW s, IsSeq(s), NEW t, IsSeq(t)
    PROVE  Kept(q, s \o t) = Kept(q, s) \o Kept(q, t)
<1> DEFINE S == ToSet(s) \cup ToSet(t)
           u == s \o t
           K == KeptSet(q, u)
<1>1. s \in Seq(S) /\ t \in Seq(S) /\ \A x : x \in ToSet(u) <=> x \in ToSet(s) \/ x \in ToSet(t)
  BY SeqsTogether
<1>2. \A x \in ToSet(s) : x \in K <=> x \in KeptSet(q, s)
  BY <1>1 DEF KeptSet
<1>3. \A x \in ToSet(t) : x \in K <=> x \in KeptSet(q, t)
  BY <1>1 DEF KeptSet
<1> HIDE DEF S, K
<1>4. Chosen(u, K) = Chosen(s, K) \o Chosen(t, K)
  BY <1>1, ChosenConcat
<1>5. Chosen(s, K) = Chosen(s, KeptSet(q, s))
  BY <1>1, <1>2, ChosenSame
<1>6. Chosen(t, K) = Chosen(t, KeptSet(q, t))
  BY <1>1, <1>3, ChosenSame
<1>7. Kept(q, u) = Chosen(u, K)
  BY KeptIs DEF K
<1>8. Kept(q, s) = Chosen(s, KeptSet(q, s)) /\ Kept(q, t) = Chosen(t, KeptSet(q, t))
  BY KeptIs
<1> HIDE DEF u
<1>9. Kept(q, u) = Kept(q, s) \o Kept(q, t)
  BY <1>4, <1>5, <1>6, <1>7, <1>8, Zenon
<1> QED BY <1>9 DEF u

(* Handing out a row keeps it if the WHERE does.                         *)
LEMMA KeptOne ==
    ASSUME NEW h, HandOut(h), IsSeq(rows)
    PROVE  rows' = rows \o Kept(query, <<h>>)
<1> DEFINE o == <<h>>
           K == KeptSet(query, o)
<1>1. o \in Seq({h}) /\ IsSeq(o) /\ \A x : x \in ToSet(o) <=> x = h
  BY OneIsSeq
<1>2. Kept(query, o) = Chosen(o, K)
  BY KeptIs
<1>3. h \in K <=> Keeps(h)
  BY <1>1 DEF KeptSet, Keeps
<1> HIDE DEF o, K
<1>4. CASE Keeps(h)
  <2>1. \A x \in ToSet(o) : x \in K
    BY <1>1, <1>3, <1>4
  <2>2. Chosen(o, K) = o
    BY <1>1, <2>1, ChosenAll
  <2>3. Append(rows, h) = rows \o <<h>>
    <3> DEFINE S == ToSet(rows) \cup {h}
               A == ToSet(rows)
    <3>1. rows \in Seq(A)
      BY DEF IsSeq
    <3>2. A \subseteq S /\ h \in S
      OBVIOUS
    <3> HIDE DEF A, S
    <3>3. rows \in Seq(S)
      BY <3>1, <3>2, SeqMonotonic
    <3> QED BY <3>2, <3>3, AppendIsConcat
  <2>4. rows' = Append(rows, h)
    BY <1>4 DEF HandOut
  <2> QED BY <1>2, <2>2, <2>3, <2>4, Zenon DEF o
<1>5. CASE ~Keeps(h)
  <2>1. \A x \in ToSet(o) : x \notin K
    BY <1>1, <1>3, <1>5
  <2>2. Chosen(o, K) = <<>>
    BY <1>1, <2>1, ChosenNone
  <2>3. rows \o <<>> = rows
    BY ConcatNothing
  <2>4. rows' = rows
    BY <1>5 DEF HandOut
  <2> QED BY <1>2, <2>2, <2>3, <2>4, Zenon DEF o
<1> QED BY <1>4, <1>5

(* A row handed out is kept or was not to be kept.                         *)
Starts(s, h, t) == s = <<h>> \o t
AreKept(r, s, q, t) == r \o Kept(query, s) = q \o Kept(query, t)

(* A row handed out moves from what is left to what is kept.             *)
LEMMA HandedKept ==
    ASSUME IsSeq(rows), NEW h, HandOut(h), NEW t, IsSeq(t), NEW s, Starts(s, h, t)
    PROVE  AreKept(rows', t, rows, s)
<1> DEFINE a == Kept(query, <<h>>)
           b == Kept(query, t)
<1>1. IsSeq(a) /\ IsSeq(b)
  BY OneIsSeq, KeptFacts
<1>2. Kept(query, s) = a \o b
  <2>1. Kept(query, <<h>> \o t) = a \o b
    BY OneIsSeq, KeptConcat
  <2> QED BY <2>1, Zenon DEF Starts
<1>3. rows' = rows \o a
  BY KeptOne
<1> HIDE DEF a, b
<1>4. Regrouped(rows, a, b)
  BY <1>1, ConcatsAssociate
<1>5. rows' \o b = rows \o Kept(query, s)
  BY <1>2, <1>3, <1>4, Zenon DEF Regrouped
<1> QED BY <1>5, Zenon DEF b, AreKept

SplitsInto(s, f, e, r) == Joined(s, f) = f[e] \o Joined(r, f)

(* The rows left begin with those of the first function that has any.    *)
LEMMA FirstAndRest ==
    ASSUME NEW S, NEW f, \A x \in S : IsSeq(f[x]), NEW s \in Seq(S),
           NEW n \in 1..Len(s), NoneBefore(s, f, n),
           NEW r, r = SubSeq(s, n + 1, Len(s)), NEW e, e = s[n]
    PROVE  /\ r \in Seq(S) /\ IsSeq(Joined(r, f)) /\ IsSeq(f[e]) /\ IsSeq(Joined(s, f))
           /\ SplitsInto(s, f, e, r)
<1> DEFINE T == UNION {ToSet(f[x]) : x \in S}
<1>1. ASSUME NEW x \in S PROVE f[x] \in Seq(T)
  <2> DEFINE A == ToSet(f[x])
  <2>2. f[x] \in Seq(A)
    BY DEF IsSeq
  <2>3. A \subseteq T
    OBVIOUS
  <2> HIDE DEF A, T
  <2> QED BY <2>2, <2>3, SeqMonotonic
<1> HIDE DEF T
<1>2. r \in Seq(S) /\ SplitsInto(s, f, e, r)
  <2>1. SubSeq(s, n + 1, Len(s)) \in Seq(S) /\ SplitsAt(s, f, n)
    BY <1>1, JoinedFirst
  <2> QED BY <2>1, Zenon DEF SplitsAt, SplitsInto
<1>3. e \in S
  OBVIOUS
<1> QED BY <1>2, <1>3, JoinedIsSeq
(* What is left is a list of rows.                                       *)
LEMMA LeftFacts ==
    ASSUME MemInv, CursorInv, query.table \in Streamed \cup Cached
    PROVE  /\ IsSeq(Joined(funcs_, Found(query.table, mem))) /\ IsSeq(Left(mem))
           /\ IsCore(mem) /\ IsSeq(buf) /\ IsSeq(rows)
           /\ query.table \in Streamed => \A fa \in Int64 : IsSeq(Found(query.table, mem)[fa])
<1>1. IsCore(mem) /\ IsSeq(buf) /\ IsSeq(rows) /\ funcs_ \in Seq(Int64)
  BY MemIsCore DEF CursorInv, Streamed, Cached, Listings
<1>2. IsSeq(Joined(funcs_, Found(query.table, mem)))
  <2>1. CASE query.table \in Streamed
    <3> DEFINE f == Found(query.table, mem)
               T == UNION {ToSet(f[fa]) : fa \in Int64}
    <3>1. \A fa \in Int64 : IsSeq(f[fa])
      BY <1>1, <2>1, FoundFacts
    <3>2. \A i \in 1..Len(funcs_) : funcs_[i] \in Int64
      BY <1>1
    <3>3. ASSUME NEW i \in 1..Len(funcs_) PROVE f[funcs_[i]] \in Seq(T)
      <4> DEFINE A == ToSet(f[funcs_[i]])
      <4>1. f[funcs_[i]] \in Seq(A)
        BY <3>1, <3>2 DEF IsSeq
      <4>2. A \subseteq T
        BY <3>2
      <4> HIDE DEF A, T, f
      <4> QED BY <4>1, <4>2, SeqMonotonic
    <3> HIDE DEF f, T
    <3>4. Joined(funcs_, f) \in Seq(T)
      BY <1>1, <3>3, JoinedFacts
    <3>5. IsSeq(Joined(funcs_, f))
      BY <3>4, InSeq
    <3> QED BY <3>5 DEF f
  <2>2. CASE query.table \notin Streamed
    <3>1. funcs_ = <<>>
      BY <2>2 DEF CursorInv
    <3>2. Joined(funcs_, Found(query.table, mem)) = <<>>
      BY <3>1, JoinedEmpty
    <3>3. IsSeq(<<>>)
      BY DEF IsSeq, ToSet
    <3> QED BY <3>2, <3>3
  <2> QED BY <2>1, <2>2
<1>3. IsSeq(Left(mem))
  BY <1>1, <1>2, SeqsTogether DEF Left
<1> QED BY <1>1, <1>2, <1>3, FoundFacts

(* Every step keeps AnswerInv.                                           *)
LEMMA AnswerStep ==
    ASSUME MemInv, CursorInv, AnswerInv, [Next]_vars
    PROVE  AnswerInv'
<1> DEFINE T == query.table
           Read == Streamed \cup Cached
           J == Joined(funcs_, Found(T, mem))
           All(p) == Kept(query, Offered(query, p, mem))
<1>1. /\ query' = query /\ before' = before
      /\ T \notin Read => ~(T \in Streamed \cup Cached)
  BY StepShapes DEF StartScan, StartBuild, StartFilter, Started, HandRead, HandFirst, HandEnd, GoesOn, InsertComment, OpenProject, vars
<1>2. CASE T \notin Read
  BY <1>1, <1>2 DEF AnswerInv
<1>3. CASE mem' # before
  BY <1>1, <1>3 DEF AnswerInv
<1> SUFFICES ASSUME T \in Read, mem' = before, pc' # "plan"
             PROVE  rows' \o Kept(query, buf' \o Joined(funcs_', Found(T, mem'))) = Kept(query, Offered(query, plan', mem'))
  <2>1. query' = query
    BY <1>1
  <2>2. T \in Read /\ mem' = before /\ pc' # "plan"
          => rows' \o Kept(query', buf' \o Joined(funcs_', Found(query'.table, mem'))) = Kept(query', Offered(query', plan', mem'))
    BY <2>1
  <2>3. T \in Read /\ mem' = before /\ pc' # "plan" => rows' \o Kept(query', Left(mem)') = Kept(query', Offered(query', plan', mem'))
    BY <2>2, Zenon DEF Left
  <2> QED BY <1>1, <1>2, <1>3, <2>3 DEF AnswerInv
<1>4. /\ IsSeq(J) /\ IsSeq(Left(mem)) /\ IsCore(mem) /\ IsSeq(buf) /\ IsSeq(rows)
      /\ T \in Streamed => \A fa \in Int64 : IsSeq(Found(T, mem)[fa])
  BY LeftFacts
<1>5. T # "comments" /\ (mem = before => (pc # "plan" => rows \o Kept(query, buf \o J) = All(plan)))
  BY Zenon DEF AnswerInv, Left, Streamed, Cached, Listings
<1>6. ASSUME NEW s, IsSeq(s), NEW p, Offered(query, p, mem) = s, rows = <<>>
      PROVE  rows \o Kept(query, s) = All(p)
  <2>1. IsSeq(Kept(query, s))
    BY <1>6, KeptFacts
  <2>2. <<>> \o Kept(query, s) = Kept(query, s)
    BY <2>1, ConcatNothing
  <2> QED BY <1>6, <2>2, Zenon
<1>7. ASSUME NEW s, IsSeq(s) PROVE s \o Joined(<<>>, Found(T, mem)) = s
  <2>1. Joined(<<>>, Found(T, mem)) = <<>>
    BY JoinedEmpty
  <2>2. s \o <<>> = s
    BY <1>7, ConcatNothing
  <2> QED BY <2>1, <2>2, Zenon
<1>8. CASE StartScan
  <2>1. pc = "plan" /\ funcs_' = FuncAddrs(mem) /\ buf' = buf /\ mem' = mem /\ rows' = rows /\ plan' = "scan" /\ T \in Streamed
    BY <1>8 DEF StartScan, Started
  <2>2. rows = <<>> /\ buf = <<>>
    BY <2>1 DEF CursorInv
  <2> DEFINE s == Joined(FuncAddrs(mem), Found(T, mem))
  <2>3. IsSeq(s)
    <3>1. FuncAddrs(mem) \in Seq(Int64)
      BY <1>4, FuncAddrsFacts
    <3> QED BY <1>4, <2>1, <3>1, JoinedIsSeq
  <2>4. Offered(query, "scan", mem) = s
    BY <2>1 DEF Offered
  <2> HIDE DEF s
  <2>5. <<>> \o s = s
    BY <2>3, ConcatNothing
  <2>6. rows \o Kept(query, s) = All("scan")
    BY <1>6, <2>2, <2>3, <2>4
  <2>7. buf' \o Joined(funcs_', Found(T, mem')) = s
    BY <2>1, <2>2, <2>5, Zenon DEF s
  <2> QED BY <2>1, <2>6, <2>7, Zenon
<1>9. CASE StartBuild
  <2>1. pc = "plan" /\ funcs_' = funcs_ /\ buf' = CacheOf(query, mem) /\ mem' = mem /\ rows' = rows /\ plan' = "scan" /\ T \in Cached
    BY <1>9 DEF StartBuild, Started
  <2>2. rows = <<>> /\ funcs_ = <<>>
    BY <2>1 DEF CursorInv
  <2> DEFINE s == CacheOf(query, mem)
  <2>3. IsSeq(s)
    BY <1>4, <2>1, CachesAreSeqs
  <2>4. Offered(query, "scan", mem) = s
    BY <2>1 DEF Offered, Cached, Streamed, Listings
  <2> HIDE DEF s
  <2>5. s \o Joined(<<>>, Found(T, mem)) = s
    BY <1>7, <2>3
  <2>6. rows \o Kept(query, s) = All("scan")
    BY <1>6, <2>2, <2>3, <2>4
  <2>7. buf' \o Joined(funcs_', Found(T, mem')) = s
    BY <2>1, <2>2, <2>5, Zenon DEF s
  <2> QED BY <2>1, <2>6, <2>7, Zenon
<1>10. CASE StartFilter
  <2>1. pc = "plan" /\ funcs_' = funcs_ /\ buf' = FilterOf(query, mem) /\ mem' = mem /\ rows' = rows /\ plan' = "filter"
    BY <1>10 DEF StartFilter, Started
  <2>2. rows = <<>> /\ funcs_ = <<>>
    BY <2>1 DEF CursorInv
  <2> DEFINE s == FilterOf(query, mem)
  <2>3. IsSeq(s)
    <3>1. CursorInv' /\ buf' = s
      BY <2>1, CursorStep
    <3>2. IsSeq(buf')
      BY <1>1, <3>1 DEF CursorInv
    <3> QED BY <3>1, <3>2
  <2>4. Offered(query, "filter", mem) = s
    BY DEF Offered
  <2> HIDE DEF s
  <2>5. s \o Joined(<<>>, Found(T, mem)) = s
    BY <1>7, <2>3
  <2>6. rows \o Kept(query, s) = All("filter")
    BY <1>6, <2>2, <2>3, <2>4
  <2>7. buf' \o Joined(funcs_', Found(T, mem')) = s
    BY <2>1, <2>2, <2>5, Zenon DEF s
  <2> QED BY <2>1, <2>6, <2>7, Zenon
<1>11. CASE HandRead
  <2>1. /\ pc = "rows" /\ buf # <<>> /\ HandOut(Head(buf)) /\ buf' = Tail(buf) /\ funcs_' = funcs_ /\ mem' = mem /\ plan' = plan
    BY <1>11 DEF HandRead, GoesOn
  <2> DEFINE h == Head(buf)
             t == Tail(buf)
             o == <<h>>
             s == t \o J
  <2>2. buf = o \o t /\ IsSeq(t)
    BY <1>4, <2>1, TailIsSeq
  <2>3. IsSeq(o)
    BY OneIsSeq
  <2>4. IsSeq(s)
    BY <1>4, <2>2, SeqsTogether
  <2>5. HandOut(h) /\ buf' = t
    BY <2>1
  <2> HIDE DEF h, t, J
  <2>6. (o \o t) \o J = o \o (t \o J)
    <3> HIDE DEF o
    <3>1. Regrouped(o, t, J)
      BY <1>4, <2>2, <2>3, ConcatsAssociate
    <3> QED BY <3>1, Zenon DEF Regrouped
  <2> DEFINE all == buf \o J
  <2>7. Starts(all, h, s)
    BY <2>2, <2>6, Zenon DEF Starts
  <2> HIDE DEF s, o, all
  <2>8. AreKept(rows', s, rows, all)
    BY <1>4, <2>4, <2>5, <2>7, HandedKept
  <2> USE DEF all
  <2>9. rows \o Kept(query, buf \o J) = All(plan)
    BY <1>5, <2>1
  <2>10. buf' \o Joined(funcs_', Found(T, mem')) = s
    BY <2>1, <2>5, Zenon DEF s, J
  <2> QED BY <2>1, <2>8, <2>9, <2>10, Zenon DEF AreKept
<1>12. CASE HandFirst
  <2>1. PICK n \in DOMAIN funcs_ :
            LET found == Found(query.table, mem) IN
            /\ FirstAt(n, found) /\ HandOut(Head(found[funcs_[n]])) /\ buf' = Tail(found[funcs_[n]])
            /\ funcs_' = After(n)
    BY <1>12 DEF HandFirst
  <2>2. pc = "rows" /\ buf = <<>> /\ mem' = mem /\ plan' = plan /\ T \in Streamed
    BY <1>12 DEF HandFirst, GoesOn
  <2> DEFINE f == Found(T, mem)
             new == f[funcs_[n]]
             h == Head(new)
             t == Tail(new)
             o == <<h>>
             K == Joined(After(n), f)
             s == t \o K
  <2>3. n \in 1..Len(funcs_) /\ funcs_[n] \in Int64 /\ funcs_ \in Seq(Int64)
    BY AfterFacts DEF CursorInv
  <2>4. IsSeq(new) /\ new # <<>> /\ NoneBefore(funcs_, f, n)
    BY <1>4, <2>1, <2>2, <2>3 DEF FirstAt, NoneBefore
  <2>5. J = new \o K /\ IsSeq(K)
    <3>1. \A x \in Int64 : IsSeq(f[x])
      BY <1>4, <2>2
    <3> HIDE DEF f
    <3> DEFINE r == After(n)
               e == funcs_[n]
    <3>2. r = SubSeq(funcs_, n + 1, Len(funcs_)) /\ e = funcs_[n]
      BY DEF After
    <3> HIDE DEF r, e
    <3>3. IsSeq(Joined(r, f)) /\ SplitsInto(funcs_, f, e, r)
      BY <2>3, <2>4, <3>1, <3>2, FirstAndRest
    <3> QED BY <3>3, Zenon DEF r, e, f, SplitsInto
  <2>6. new = o \o t /\ IsSeq(t)
    BY <2>4, TailIsSeq
  <2>8. IsSeq(o)
    BY OneIsSeq
  <2>9. HandOut(h) /\ buf' = t /\ funcs_' = After(n)
    BY <2>1
  <2> HIDE DEF f, new, h, t, J, K
  <2>10. IsSeq(s)
    BY <2>5, <2>6, SeqsTogether
  <2>11. (o \o t) \o K = o \o (t \o K)
    <3> HIDE DEF o
    <3>1. Regrouped(o, t, K)
      BY <2>5, <2>6, <2>8, ConcatsAssociate
    <3> QED BY <3>1, Zenon DEF Regrouped
  <2>12. <<>> \o J = J
    BY <1>4, ConcatNothing
  <2> DEFINE all == buf \o J
  <2>13. Starts(all, h, s)
    BY <2>2, <2>5, <2>6, <2>11, <2>12, Zenon DEF Starts
  <2> HIDE DEF s, o, all
  <2>14. AreKept(rows', s, rows, all)
    BY <1>4, <2>9, <2>10, <2>13, HandedKept
  <2> USE DEF all
  <2>15. rows \o Kept(query, buf \o J) = All(plan)
    BY <1>5, <2>2
  <2>16. buf' \o Joined(funcs_', Found(T, mem')) = s
    BY <2>2, <2>9, Zenon DEF s, K, f
  <2> QED BY <2>2, <2>14, <2>15, <2>16, Zenon DEF AreKept
<1>13. CASE HandEnd
  <2>1. /\ pc = "rows" /\ funcs_' = <<>> /\ rows' = rows /\ buf' = buf /\ buf = <<>> /\ mem' = mem /\ plan' = plan
        /\ funcs_ # <<>> => \A j \in DOMAIN funcs_ : Found(query.table, mem)[funcs_[j]] = <<>>
    BY <1>13 DEF HandEnd, GoesOn
  <2>2. J = <<>>
    <3>1. funcs_ \in Seq(Int64) /\ DOMAIN funcs_ = 1..Len(funcs_)
      BY DEF CursorInv
    <3>2. funcs_ = <<>> => J = <<>>
      BY JoinedEmpty
    <3>3. funcs_ # <<>> => J = <<>>
      BY <2>1, <3>1, JoinedNothing
    <3> QED BY <3>2, <3>3
  <2>3. Joined(<<>>, Found(T, mem)) = <<>>
    BY JoinedEmpty
  <2>4. buf' \o Joined(funcs_', Found(T, mem')) = buf \o J
    BY <2>1, <2>2, <2>3, Zenon
  <2>5. rows \o Kept(query, buf \o J) = All(plan)
    BY <1>5, <2>1
  <2> QED BY <2>1, <2>4, <2>5, Zenon
<1>14. CASE InsertComment
  BY <1>5, <1>14 DEF InsertComment
<1>15. CASE OpenProject
  <2>1. mem = before /\ pc = "rows" /\ UNCHANGED <<plan, funcs_, buf, rows>>
    BY <1>15 DEF OpenProject
  <2>2. rows \o Kept(query, buf \o J) = All(plan)
    BY <1>5, <2>1
  <2> QED BY <2>1, <2>2, Zenon
<1>16. CASE UNCHANGED vars
  <2>1. mem' = mem /\ pc' = pc /\ UNCHANGED <<plan, funcs_, buf, rows>>
    BY <1>16 DEF vars
  <2>2. rows \o Kept(query, buf \o J) = All(plan)
    BY <1>5, <2>1
  <2> QED BY <2>1, <2>2, Zenon
<1> QED BY StepShapes, <1>8, <1>9, <1>10, <1>11, <1>12, <1>13, <1>14, <1>15, <1>16

-----------------------------------------------------------------------------
(* Nothing twice                                                           *)

Once(s) == \A i, j \in 1..Len(s) : s[i] = s[j] => i = j
Apart(s, t) == \A x \in ToSet(s) : x \notin ToSet(t)

(* A list that has each row once is injective.                           *)
LEMMA OnceIsInjective ==
    ASSUME NEW s, IsSeq(s)
    PROVE  IsInjective(s) <=> Once(s)
<1>1. DOMAIN s = 1..Len(s)
  BY SeqDomain
<1> QED BY <1>1 DEF IsInjective, Once

(* Lists without a common row have each row once together.               *)
LEMMA OnceTogether ==
    ASSUME NEW s, IsSeq(s), NEW t, IsSeq(t), Once(s), Once(t), Apart(s, t)
    PROVE  Once(s \o t)
<1> DEFINE u == s \o t
           S == ToSet(s) \cup ToSet(t)
<1>1. s \in Seq(S) /\ t \in Seq(S)
  BY SeqsTogether
<1>2. /\ Len(u) = Len(s) + Len(t) /\ Len(s) \in Nat /\ Len(t) \in Nat
      /\ \A k \in 1..Len(s) : u[k] = s[k]
      /\ \A k \in 1..Len(t) : u[Len(s) + k] = t[k]
      /\ \A k \in 1..Len(u) : k \in 1..Len(s) \/ \E j \in 1..Len(t) : k = Len(s) + j
  <2> HIDE DEF S
  <2> QED BY <1>1, ConcatFacts
<1>3. (\A k \in 1..Len(s) : s[k] \in ToSet(s)) /\ (\A k \in 1..Len(t) : t[k] \in ToSet(t))
  BY SeqDomain
<1> HIDE DEF u, S
<1>4. ASSUME NEW i \in 1..Len(u), NEW j \in 1..Len(u), u[i] = u[j] PROVE i = j
  <2>1. CASE i \in 1..Len(s) /\ j \in 1..Len(s)
    BY <1>2, <1>4, <2>1 DEF Once
  <2>2. CASE i \in 1..Len(s) /\ j \notin 1..Len(s)
    <3>1. PICK l \in 1..Len(t) : j = Len(s) + l
      BY <1>2, <2>2
    <3>2. u[i] \in ToSet(s) /\ u[j] \in ToSet(t)
      BY <1>2, <1>3, <2>2, <3>1
    <3> QED BY <1>4, <3>2 DEF Apart
  <2>3. CASE i \notin 1..Len(s) /\ j \in 1..Len(s)
    <3>1. PICK l \in 1..Len(t) : i = Len(s) + l
      BY <1>2, <2>3
    <3>2. u[j] \in ToSet(s) /\ u[i] \in ToSet(t)
      BY <1>2, <1>3, <2>3, <3>1
    <3> QED BY <1>4, <3>2 DEF Apart
  <2>4. CASE i \notin 1..Len(s) /\ j \notin 1..Len(s)
    <3>1. PICK l \in 1..Len(t) : i = Len(s) + l
      BY <1>2, <2>4
    <3>2. PICK k \in 1..Len(t) : j = Len(s) + k
      BY <1>2, <2>4
    <3>3. t[l] = t[k]
      BY <1>2, <1>4, <3>1, <3>2
    <3> QED BY <3>1, <3>2, <3>3 DEF Once
  <2> QED BY <2>1, <2>2, <2>3, <2>4
<1>5. Once(u)
  BY <1>4 DEF Once
<1> QED BY <1>5 DEF u

(* What is joined of pieces that share nothing.                            *)
OnceEach(s, f) ==
    /\ \A i \in 1..Len(s) : IsSeq(f[s[i]]) /\ Once(f[s[i]])
    /\ \A i, j \in 1..Len(s) : i # j => Apart(f[s[i]], f[s[j]])

(* Rows that no two elements have in common are there once each.         *)
LEMMA JoinedOnce ==
    ASSUME NEW S, NEW s \in Seq(S), NEW f, OnceEach(s, f)
    PROVE  IsSeq(Joined(s, f)) /\ Once(Joined(s, f))
<1> DEFINE n == Len(s)
<1>1. n \in Nat
  OBVIOUS
<1>2. PICK up : JoinsUpTo(up, s, f, n) /\ Joined(s, f) = up[n]
  BY JoinedSteps
<1> DEFINE Good(i) == /\ IsSeq(up[i]) /\ Once(up[i])
                      /\ \A x \in ToSet(up[i]) : \E j \in 1..i : x \in ToSet(f[s[j]])
           B == {i \in 0..n : Good(i)}
<1>3. 0 \in B
  <2>1. up[0] = <<>>
    BY <1>2 DEF JoinsUpTo
  <2>2. IsSeq(<<>>) /\ ToSet(<<>>) = {} /\ Once(<<>>)
    BY DEF IsSeq, ToSet, Once
  <2>3. Good(0)
    BY <2>1, <2>2
  <2> QED BY <1>1, <2>3
<1>4. ASSUME NEW i \in 1..n, i - 1 \in B PROVE i \in B
  <2> DEFINE a == up[i - 1]
             b == f[s[i]]
             c == a \o b
  <2>1. up[i] = c
    BY <1>2, Zenon DEF JoinsUpTo
  <2>2. IsSeq(a) /\ Once(a) /\ \A x \in ToSet(a) : \E j \in 1..(i - 1) : x \in ToSet(f[s[j]])
    BY <1>4
  <2>3. IsSeq(b) /\ Once(b)
    BY DEF OnceEach
  <2>4. Apart(a, b)
    <3> SUFFICES ASSUME NEW x \in ToSet(a) PROVE x \notin ToSet(b)
      BY DEF Apart
    <3>1. PICK j \in 1..(i - 1) : x \in ToSet(f[s[j]])
      BY <2>2
    <3>2. j \in 1..n /\ j # i
      BY <1>1
    <3>3. Apart(f[s[j]], f[s[i]])
      BY <3>2 DEF OnceEach
    <3> QED BY <3>1, <3>3 DEF Apart
  <2> HIDE DEF a, b
  <2>5. Once(c)
    BY <2>2, <2>3, <2>4, OnceTogether
  <2>6. IsSeq(c) /\ \A x : x \in ToSet(c) <=> x \in ToSet(a) \/ x \in ToSet(b)
    BY <2>2, <2>3, SeqsTogether
  <2> HIDE DEF c
  <2>7. ASSUME NEW x \in ToSet(c) PROVE \E j \in 1..i : x \in ToSet(f[s[j]])
    <3>1. CASE x \in ToSet(a)
      <4>1. PICK j \in 1..(i - 1) : x \in ToSet(f[s[j]])
        BY <2>2, <3>1
      <4>2. j \in 1..i
        BY <1>1
      <4> QED BY <4>1, <4>2
    <3>2. CASE x \in ToSet(b)
      <4>1. i \in 1..i
        BY <1>1
      <4> QED BY <3>2, <4>1 DEF b
    <3> QED BY <2>6, <2>7, <3>1, <3>2
  <2>8. Good(i)
    BY <2>1, <2>5, <2>6, <2>7
  <2>9. i \in 0..n
    BY <1>1
  <2> HIDE DEF Good
  <2> QED BY <2>8, <2>9
<1>5. \A i \in 0..n : i \in B
  <2> HIDE DEF B
  <2> QED BY <1>1, <1>3, <1>4, StepByStep
<1>6. n \in B
  BY <1>1, <1>5
<1> QED BY <1>2, <1>6

(* Choosing makes no row twice.                                          *)
LEMMA ChosenOnce ==
    ASSUME NEW s, IsSeq(s), Once(s), NEW K
    PROVE  Once(Chosen(s, K))
<1> DEFINE A == ToSet(s)
           f == Pick(A, K)
<1>1. s \in Seq(A) /\ \A i \in 1..Len(s) : s[i] \in A
  BY SeqDomain DEF IsSeq
<1>2. ASSUME NEW x \in A
      PROVE  IsSeq(f[x]) /\ Once(f[x]) /\ \A y : y \in ToSet(f[x]) <=> x \in K /\ y = x
  <2>1. f[x] = IF x \in K THEN <<x>> ELSE <<>>
    BY <1>2, Picked
  <2>2. f[x] \in Seq(A) /\ \A y : y \in ToSet(f[x]) <=> x \in K /\ y = x
    BY <1>2, Picked
  <2>3. Once(<<x>>) /\ Once(<<>>)
    BY DEF Once
  <2>4. IsSeq(f[x])
    BY <2>2, InSeq
  <2> HIDE DEF f
  <2> QED BY <2>1, <2>2, <2>3, <2>4
<1> HIDE DEF f, A
<1>3. OnceEach(s, f)
  <2>1. \A i \in 1..Len(s) : IsSeq(f[s[i]]) /\ Once(f[s[i]])
    BY <1>1, <1>2
  <2>2. ASSUME NEW i \in 1..Len(s), NEW j \in 1..Len(s), i # j PROVE Apart(f[s[i]], f[s[j]])
    <3>1. s[i] # s[j]
      BY <2>2 DEF Once
    <3>2. s[i] \in A /\ s[j] \in A
      BY <1>1
    <3> QED BY <1>2, <3>1, <3>2 DEF Apart
  <2> QED BY <2>1, <2>2 DEF OnceEach
<1>4. Once(Joined(s, f))
  BY <1>1, <1>3, JoinedOnce
<1> QED BY <1>4 DEF Chosen, f, A

-----------------------------------------------------------------------------
(* The rows of the streamed tables                                         *)

(* At the entry of a function it is the only one.                        *)
LEMMA EntryHolder ==
    ASSUME NEW m, IsCore(m), NEW f \in ToSet(m.funcs)
    PROVE  /\ Holders(m, f.entry) = {f} /\ NameAt(m, f.entry) = f.entry
           /\ Spoken(m, f.entry) = IF f.entry \in m.mute THEN {} ELSE {f}
           /\ ToSigned(f.entry) \in Int64 /\ HexAddr(ToSigned(f.entry)) = f.entry
<1>1. f.entry \in Addresses /\ f.entry \in Span(f)
  BY EntryInSpan
<1>2. f \in Holders(m, f.entry)
  BY <1>1 DEF Holders
<1>3. Holders(m, f.entry) = {f}
  BY <1>2, OneHolder
<1>4. Spoken(m, f.entry) = IF f.entry \in m.mute THEN {} ELSE {f}
  BY <1>3 DEF Spoken
<1>5. NameAt(m, f.entry) = f.entry
  BY <1>3 DEF NameAt
<1> QED BY <1>1, <1>3, <1>4, <1>5, SignedIsInt64, AddressComesBack

(* The rows of a span are its addresses, once each.                      *)
LEMMA SpanRows ==
    ASSUME NEW m, IsCore(m), NEW f \in ToSet(m.funcs), NEW fa
    PROVE  /\ IsSeq(RowsOf(f, fa)) /\ Once(RowsOf(f, fa))
           /\ \A x : x \in ToSet(RowsOf(f, fa)) <=> x \in {[func_addr |-> fa, addr |-> ToSigned(a)] : a \in Span(f)}
<1> DEFINE s == RowsOf(f, fa)
           n == f.size
           e == f.entry
           row(i) == [func_addr |-> fa, addr |-> ToSigned(e + i - 1)]
<1>1. e \in Addresses /\ n \in Nat \ {0} /\ Span(f) \subseteq Addresses /\ Span(f) = e..(e + n - 1)
  BY EntryInSpan DEF Span
<1>2. s = [i \in 1..n |-> row(i)]
  BY DEF RowsOf
<1> HIDE DEF s, n, e
<1>3. DOMAIN s = 1..n /\ s = [i \in 1..n |-> s[i]] /\ \A i \in 1..n : s[i] = row(i)
  BY <1>2
<1>4. IsSeq(s) /\ Len(s) = n
  BY <1>1, <1>3, FunctionIsSeq
<1>5. \A i \in 1..n : e + i - 1 \in Span(f)
  BY <1>1 DEF Addresses
<1>6. ASSUME NEW i \in 1..n, NEW j \in 1..n, s[i] = s[j] PROVE i = j
  <2>1. ToSigned(e + i - 1) = ToSigned(e + j - 1)
    BY <1>3, <1>6
  <2>2. HexAddr(ToSigned(e + i - 1)) = e + i - 1 /\ HexAddr(ToSigned(e + j - 1)) = e + j - 1
    BY <1>1, <1>5, AddressComesBack
  <2> QED BY <1>1, <2>1, <2>2 DEF Addresses
<1>7. ASSUME NEW x PROVE x \in ToSet(s) <=> x \in {[func_addr |-> fa, addr |-> ToSigned(a)] : a \in Span(f)}
  <2>1. x \in ToSet(s) <=> \E i \in 1..n : x = row(i)
    BY <1>3 DEF ToSet
  <2>2. ASSUME NEW a \in Span(f) PROVE \E i \in 1..n : e + i - 1 = a
    <3>1. a - e + 1 \in 1..n /\ e + (a - e + 1) - 1 = a
      BY <1>1 DEF Addresses
    <3> QED BY <3>1
  <2> QED BY <1>5, <2>1, <2>2
<1> QED BY <1>4, <1>6, <1>7 DEF s, Once

FuncRows(t, m, f) ==
    IF t = "pseudocode" THEN {[func_addr |-> ToSigned(f.entry), text |-> Pdc(m, f.entry)]}
    ELSE IF f.entry \in m.mute THEN {}
    ELSE {[func_addr |-> ToSigned(f.entry), addr |-> ToSigned(a)] : a \in Span(f)}

(* A generator finds the rows of the function, once each.                *)
LEMMA FoundRows ==
    ASSUME NEW m, IsCore(m), NEW t \in Streamed, NEW f \in ToSet(m.funcs), NEW fa, fa = ToSigned(f.entry)
    PROVE  /\ IsSeq(Found(t, m)[fa]) /\ Once(Found(t, m)[fa])
           /\ \A x : x \in ToSet(Found(t, m)[fa]) <=> x \in FuncRows(t, m, f)
<1>1. fa \in Int64 /\ HexAddr(fa) = f.entry /\ Spoken(m, f.entry) = IF f.entry \in m.mute THEN {} ELSE {f}
  BY EntryHolder
<1>2. CASE t = "pseudocode"
  <2> DEFINE row == [func_addr |-> fa, text |-> Pdc(m, f.entry)]
  <2>1. Found(t, m)[fa] = <<row>>
    BY <1>1, <1>2 DEF Found, PseudoForFunc
  <2>2. FuncRows(t, m, f) = {row}
    BY <1>2 DEF FuncRows
  <2> HIDE DEF row
  <2>3. IsSeq(<<row>>) /\ \A x : x \in ToSet(<<row>>) <=> x = row
    BY OneIsSeq
  <2>4. Once(<<row>>)
    BY DEF Once
  <2> QED BY <2>1, <2>2, <2>3, <2>4, Zenon
<1>3. CASE t \in {"blocks", "instructions"}
  <2>1. CASE f.entry \in m.mute
    <3>1. Found(t, m)[fa] = <<>>
      BY <1>1, <1>3, <2>1, ListedRows
    <3>2. FuncRows(t, m, f) = {}
      BY <1>3, <2>1 DEF FuncRows
    <3>3. IsSeq(<<>>) /\ Once(<<>>) /\ ToSet(<<>>) = {}
      BY DEF IsSeq, Once, ToSet
    <3> QED BY <3>1, <3>2, <3>3
  <2>2. CASE f.entry \notin m.mute
    <3>1. Found(t, m)[fa] = RowsOf(f, fa)
      BY <1>1, <1>3, <2>2, ListedRows
    <3>2. FuncRows(t, m, f) = {[func_addr |-> fa, addr |-> ToSigned(a)] : a \in Span(f)}
      BY <1>3, <2>2 DEF FuncRows
    <3>3. /\ IsSeq(RowsOf(f, fa)) /\ Once(RowsOf(f, fa))
          /\ \A x : x \in ToSet(RowsOf(f, fa)) <=> x \in {[func_addr |-> fa, addr |-> ToSigned(a)] : a \in Span(f)}
      BY SpanRows
    <3> QED BY <3>1, <3>2, <3>3, Zenon
  <2> QED BY <2>1, <2>2
<1> QED BY <1>2, <1>3 DEF Streamed

(* The relation of a streamed table, function by function.               *)
LEMMA ContentIs ==
    ASSUME query.table \in Streamed
    PROVE  Content(query.table) = UNION {FuncRows(query.table, mem, f) : f \in ToSet(mem.funcs)}
<1>1. CASE query.table = "pseudocode"
  <2>1. Content(query.table) = {[func_addr |-> ToSigned(f.entry), text |-> Pdc(mem, f.entry)] : f \in Functions}
    BY <1>1 DEF Content
  <2>2. \A f : FuncRows(query.table, mem, f) = {[func_addr |-> ToSigned(f.entry), text |-> Pdc(mem, f.entry)]}
    BY <1>1 DEF FuncRows
  <2> QED BY <2>1, <2>2 DEF Functions
<1>2. CASE query.table \in {"blocks", "instructions"}
  <2> DEFINE R(f) == {[func_addr |-> ToSigned(f.entry), addr |-> ToSigned(a)] : a \in Span(f)}
  <2>1. Content(query.table) = UNION {R(f) : f \in {g \in Functions : g.entry \notin mem.mute}}
    BY <1>2 DEF Content
  <2>2. \A f : FuncRows(query.table, mem, f) = IF f.entry \in mem.mute THEN {} ELSE R(f)
    BY <1>2 DEF FuncRows
  <2> HIDE DEF R
  <2> QED BY <2>1, <2>2 DEF Functions
<1> QED BY <1>1, <1>2 DEF Streamed

(* A scan offers this relation, each row once.                           *)
LEMMA ScanOffers ==
    ASSUME NEW m, IsCore(m), NEW t \in Streamed
    PROVE  /\ IsSeq(Joined(FuncAddrs(m), Found(t, m))) /\ Once(Joined(FuncAddrs(m), Found(t, m)))
           /\ \A x : x \in ToSet(Joined(FuncAddrs(m), Found(t, m))) <=> x \in UNION {FuncRows(t, m, f) : f \in ToSet(m.funcs)}
<1> DEFINE F == FuncAddrs(m)
           g == Found(t, m)
           n == Len(F)
           G == m.funcs
           T == UNION {FuncRows(t, m, f) : f \in ToSet(G)}
<1>1. /\ F \in Seq(Int64) /\ n = Len(G) /\ n \in Nat /\ DOMAIN G = 1..n
      /\ \A i \in 1..n : F[i] = ToSigned(G[i].entry)
      /\ \A i, j \in 1..n : i # j => F[i] # F[j]
  BY FuncAddrsFacts
<1>2. \A i \in 1..n : F[i] \in Int64
  BY <1>1
<1> HIDE DEF F, n
<1>3. \A f : f \in ToSet(G) <=> \E i \in 1..n : f = G[i]
  BY <1>1 DEF ToSet
<1>4. ASSUME NEW i \in 1..n
      PROVE  /\ IsSeq(g[F[i]]) /\ Once(g[F[i]])
             /\ \A x : x \in ToSet(g[F[i]]) <=> x \in FuncRows(t, m, G[i])
             /\ \A x \in ToSet(g[F[i]]) : x.func_addr = F[i]
  <2>1. G[i] \in ToSet(m.funcs) /\ F[i] = ToSigned(G[i].entry)
    BY <1>1, <1>3
  <2>2. \A x \in ToSet(g[F[i]]) : x.func_addr = F[i]
    BY <1>2, FoundFacts
  <2> QED BY <2>1, <2>2, FoundRows
<1> HIDE DEF g, G
<1>5. OnceEach(F, g)
  <2>1. ASSUME NEW i \in 1..n, NEW j \in 1..n, i # j PROVE Apart(g[F[i]], g[F[j]])
    <3>1. F[i] # F[j]
      BY <1>1, <2>1
    <3> QED BY <1>4, <3>1 DEF Apart
  <2> QED BY <1>4, <2>1 DEF OnceEach, n
<1>6. IsSeq(Joined(F, g)) /\ Once(Joined(F, g))
  BY <1>1, <1>5, JoinedOnce
<1>7. \A x : x \in ToSet(Joined(F, g)) <=> \E i \in 1..n : x \in ToSet(g[F[i]])
  <2> HIDE DEF T
  <2>1. ASSUME NEW i \in 1..n PROVE g[F[i]] \in Seq(T)
    <3> DEFINE A == ToSet(g[F[i]])
    <3>1. g[F[i]] \in Seq(A)
      BY <1>4 DEF IsSeq
    <3>2. A \subseteq T
      <4>1. \A x \in A : x \in FuncRows(t, m, G[i])
        BY <1>4
      <4>2. G[i] \in ToSet(G)
        BY <1>3
      <4> QED BY <4>1, <4>2 DEF T
    <3> HIDE DEF A
    <3> QED BY <3>1, <3>2, SeqMonotonic
  <2> QED BY <1>1, <2>1, JoinedFacts DEF n
<1>8. ASSUME NEW x PROVE x \in ToSet(Joined(F, g)) <=> x \in T
  <2>1. x \in T <=> \E f \in ToSet(G) : x \in FuncRows(t, m, f)
    OBVIOUS
  <2>2. x \in T <=> \E i \in 1..n : x \in FuncRows(t, m, G[i])
    BY <1>3, <2>1
  <2> QED BY <1>4, <1>7, <2>2
<1> QED BY <1>6, <1>8 DEF F, g, G

(* A filter on a function: the rows of the scan that it means.             *)
LEMMA FilterOffers ==
    ASSUME NEW m, IsCore(m), NEW t \in Streamed, NEW v \in Int64,
           \/ t \in {"blocks", "instructions"} /\ Holders(m, HexAddr(v)) = {}
           \/ HexAddr(v) \in {f.entry : f \in ToSet(m.funcs)}
    PROVE  /\ IsSeq(Found(t, m)[v]) /\ Once(Found(t, m)[v])
           /\ \A x : x \in ToSet(Found(t, m)[v]) <=> x.func_addr = v /\ x \in UNION {FuncRows(t, m, f) : f \in ToSet(m.funcs)}
<1> DEFINE T == UNION {FuncRows(t, m, f) : f \in ToSet(m.funcs)}
<1>1. \A f \in ToSet(m.funcs) : \A x \in FuncRows(t, m, f) : x.func_addr = ToSigned(f.entry)
  <2> SUFFICES ASSUME NEW f \in ToSet(m.funcs), NEW x \in FuncRows(t, m, f) PROVE x.func_addr = ToSigned(f.entry)
    OBVIOUS
  <2> QED BY DEF FuncRows
<1>2. ASSUME NEW f \in ToSet(m.funcs), ToSigned(f.entry) = v PROVE HexAddr(v) = f.entry /\ f \in Holders(m, HexAddr(v))
  <2>1. HexAddr(v) = f.entry
    BY <1>2, EntryHolder
  <2>2. Holders(m, f.entry) = {f}
    BY EntryHolder
  <2> QED BY <2>1, <2>2
<1>3. CASE HexAddr(v) \in {f.entry : f \in ToSet(m.funcs)}
  <2>1. PICK f \in ToSet(m.funcs) : HexAddr(v) = f.entry
    BY <1>3
  <2>2. v = ToSigned(f.entry)
    BY <2>1, ValueComesBack
  <2>3. /\ IsSeq(Found(t, m)[v]) /\ Once(Found(t, m)[v])
        /\ \A x : x \in ToSet(Found(t, m)[v]) <=> x \in FuncRows(t, m, f)
    BY <2>2, FoundRows
  <2>4. ASSUME NEW x PROVE x \in FuncRows(t, m, f) <=> x.func_addr = v /\ x \in T
    <3>1. x \in FuncRows(t, m, f) => x.func_addr = v /\ x \in T
      BY <1>1, <2>2
    <3>2. ASSUME x.func_addr = v, NEW g \in ToSet(m.funcs), x \in FuncRows(t, m, g) PROVE x \in FuncRows(t, m, f)
      <4>1. ToSigned(g.entry) = v
        BY <1>1, <3>2
      <4>2. g \in Holders(m, f.entry) /\ Holders(m, f.entry) = {f}
        BY <1>2, <2>1, <4>1, EntryHolder
      <4> QED BY <3>2, <4>2
    <3> QED BY <3>1, <3>2
  <2> HIDE DEF T
  <2> QED BY <2>3, <2>4 DEF T
<1>4. CASE t \in {"blocks", "instructions"} /\ Holders(m, HexAddr(v)) = {}
  <2>1. Spoken(m, HexAddr(v)) = {}
    BY <1>4 DEF Spoken
  <2>2. Found(t, m)[v] = <<>>
    BY <1>4, <2>1, ListedRows
  <2>3. IsSeq(<<>>) /\ Once(<<>>) /\ ToSet(<<>>) = {}
    BY DEF IsSeq, Once, ToSet
  <2>4. ASSUME NEW x, x.func_addr = v, NEW g \in ToSet(m.funcs), x \in FuncRows(t, m, g) PROVE FALSE
    <3>1. ToSigned(g.entry) = v
      BY <1>1, <2>4
    <3> QED BY <1>2, <1>4, <3>1
  <2> QED BY <2>2, <2>3, <2>4
<1> QED BY <1>3, <1>4

(* The rows of a filter on a function, whatever address it names.          *)
Answers(t, m, v) ==
    IF t = "pseudocode" THEN {[func_addr |-> v, text |-> Pdc(m, HexAddr(v))]}
    ELSE {[func_addr |-> v, addr |-> ToSigned(a)] : a \in UNION {Span(f) : f \in Spoken(m, HexAddr(v))}}

(* It offers them once each, and those of the scan are among them.         *)
LEMMA FilterFinds ==
    ASSUME NEW m, IsCore(m), NEW t \in Streamed, NEW v \in Int64
    PROVE  /\ IsSeq(Found(t, m)[v]) /\ Once(Found(t, m)[v])
           /\ \A x : x \in ToSet(Found(t, m)[v]) <=> x \in Answers(t, m, v)
           /\ \A x \in UNION {FuncRows(t, m, f) : f \in ToSet(m.funcs)} : x.func_addr = v => x \in Answers(t, m, v)
<1> DEFINE a == HexAddr(v)
<1>1. /\ IsSeq(Found(t, m)[v]) /\ Once(Found(t, m)[v])
      /\ \A x : x \in ToSet(Found(t, m)[v]) <=> x \in Answers(t, m, v)
  <2>1. CASE t = "pseudocode"
    <3> DEFINE row == [func_addr |-> v, text |-> Pdc(m, a)]
    <3>1. Found(t, m)[v] = <<row>>
      BY <2>1 DEF Found, PseudoForFunc
    <3>2. Answers(t, m, v) = {row}
      BY <2>1 DEF Answers
    <3> HIDE DEF row
    <3>3. IsSeq(<<row>>) /\ \A x : x \in ToSet(<<row>>) <=> x = row
      BY OneIsSeq
    <3>4. Once(<<row>>)
      BY DEF Once
    <3> QED BY <3>1, <3>2, <3>3, <3>4, Zenon
  <2>2. CASE t \in {"blocks", "instructions"} /\ Spoken(m, a) = {}
    <3>1. Found(t, m)[v] = <<>>
      BY <2>2, ListedRows
    <3>2. Answers(t, m, v) = {}
      BY <2>2 DEF Answers
    <3>3. IsSeq(<<>>) /\ Once(<<>>) /\ ToSet(<<>>) = {}
      BY DEF IsSeq, Once, ToSet
    <3> QED BY <3>1, <3>2, <3>3
  <2>3. CASE t \in {"blocks", "instructions"} /\ Spoken(m, a) # {}
    <3>1. PICK f \in Spoken(m, a) : Found(t, m)[v] = RowsOf(f, v)
      BY <2>3, ListedRows
    <3>2. f \in ToSet(m.funcs) /\ Spoken(m, a) \subseteq Holders(m, a)
      BY DEF Spoken, Holders
    <3>3. Spoken(m, a) = {f}
      BY <3>2, OneHolder
    <3>4. UNION {Span(g) : g \in Spoken(m, a)} = Span(f)
      BY <3>3
    <3>5. Answers(t, m, v) = {[func_addr |-> v, addr |-> ToSigned(b)] : b \in Span(f)}
      BY <2>3, <3>4 DEF Answers
    <3>6. /\ IsSeq(RowsOf(f, v)) /\ Once(RowsOf(f, v))
          /\ \A x : x \in ToSet(RowsOf(f, v)) <=> x \in {[func_addr |-> v, addr |-> ToSigned(b)] : b \in Span(f)}
      BY <3>2, SpanRows
    <3> QED BY <3>1, <3>5, <3>6, Zenon
  <2> QED BY <2>1, <2>2, <2>3 DEF Streamed
<1>2. ASSUME NEW f \in ToSet(m.funcs), NEW x \in FuncRows(t, m, f), x.func_addr = v PROVE x \in Answers(t, m, v)
  <2>1. ToSigned(f.entry) = v
    BY <1>2 DEF FuncRows
  <2>2. x \in ToSet(Found(t, m)[v])
    BY <1>2, <2>1, FoundRows
  <2> QED BY <1>1, <2>2
<1> QED BY <1>1, <1>2

-----------------------------------------------------------------------------
(* The rows of xrefs                                                       *)

RefRow(r, f) == XrefRow(ToSigned(r.from), ToSigned(r.to), f.entry)
RefRows(m) == UNION {{RefRow(r, f) : f \in {g \in ToSet(m.funcs) : r.from \in Span(g)}} : r \in ToSet(m.refs)}

(* The relation of xrefs, reference by reference.                        *)
LEMMA RefRowsIs == Content("xrefs") = RefRows(mem)
BY DEF Content, RefRows, RefRow, XrefRow, Functions

Each(s, g) == [i \in DOMAIN s |-> g[s[i]]]
TellsApart(g, s) == \A r, q \in ToSet(s) : g[r] = g[q] => r = q
AreEach(t, m, K, g) == \A x : x \in ToSet(t) <=> \E r \in ToSet(m.refs) : r \in K /\ x = g[r]

(* A row for each reference of a list, none of them twice.                 *)
LEMMA RowOfEach ==
    ASSUME NEW m, IsCore(m), NEW K, NEW s, s = Chosen(m.refs, K), NEW g, NEW t, t = Each(s, g),
           TellsApart(g, s)
    PROVE  IsSeq(t) /\ Once(t) /\ AreEach(t, m, K, g)
<1>1. IsSeq(m.refs) /\ IsSeq(s) /\ \A r : r \in ToSet(s) <=> r \in ToSet(m.refs) /\ r \in K
  BY RefsFacts
<1>2. Once(m.refs)
  BY <1>1, OnceIsInjective DEF IsCore
<1>3. Once(s)
  BY <1>1, <1>2, ChosenOnce
<1>4. Len(s) \in Nat /\ DOMAIN s = 1..Len(s) /\ (\A i \in 1..Len(s) : s[i] \in ToSet(s))
      /\ \A x : x \in ToSet(s) <=> \E i \in 1..Len(s) : x = s[i]
  BY <1>1, SeqDomain
<1>5. DOMAIN t = 1..Len(s) /\ t = [i \in 1..Len(s) |-> t[i]] /\ \A i \in 1..Len(s) : t[i] = g[s[i]]
  BY <1>4 DEF Each
<1>6. IsSeq(t) /\ Len(t) = Len(s)
  BY <1>4, <1>5, FunctionIsSeq
<1>7. Once(t)
  BY <1>3, <1>4, <1>5, <1>6 DEF Once, TellsApart
<1>8. ASSUME NEW x PROVE x \in ToSet(t) <=> \E r \in ToSet(m.refs) : r \in K /\ x = g[r]
  <2>1. x \in ToSet(t) <=> \E i \in 1..Len(s) : x = g[s[i]]
    BY <1>5 DEF ToSet
  <2>2. x \in ToSet(t) <=> \E r \in ToSet(s) : x = g[r]
    BY <1>4, <2>1
  <2> QED BY <1>1, <2>2
<1> QED BY <1>6, <1>7, <1>8 DEF AreEach

(* Two references differ in one of their ends.                           *)
LEMMA RefsDiffer ==
    ASSUME NEW m, IsCore(m), NEW r \in ToSet(m.refs), NEW q \in ToSet(m.refs)
    PROVE  /\ ToSigned(r.from) = ToSigned(q.from) => r.from = q.from
           /\ ToSigned(r.to) = ToSigned(q.to) => r.to = q.to
           /\ r.from = q.from /\ r.to = q.to => r = q
           /\ r.from \in Addresses /\ r.to \in Addresses
<1>1. /\ r.from \in Addresses /\ r.to \in Addresses /\ r = [from |-> r.from, to |-> r.to]
      /\ q.from \in Addresses /\ q.to \in Addresses /\ q = [from |-> q.from, to |-> q.to]
  BY RefsFacts
<1>2. /\ HexAddr(ToSigned(r.from)) = r.from /\ HexAddr(ToSigned(q.from)) = q.from
      /\ HexAddr(ToSigned(r.to)) = r.to /\ HexAddr(ToSigned(q.to)) = q.to
  BY <1>1, AddressComesBack
<1>3. r.from = q.from /\ r.to = q.to => r = q
  BY <1>1
<1> QED BY <1>1, <1>2, <1>3

(* Two rows of xrefs are equal if their columns are.                     *)
LEMMA XrefRowsDiffer ==
    ASSUME NEW a, NEW b, NEW c, NEW d, NEW e, NEW f
    PROVE  XrefRow(a, b, c) = XrefRow(d, e, f) <=> a = d /\ b = e /\ c = f
<1>1. \A x, y, z : XrefRow(x, y, z).from_addr = x /\ XrefRow(x, y, z).to_addr = y /\ XrefRow(x, y, z).from_func = z
  BY DEF XrefRow
<1> QED BY <1>1

(* The references of one function.                                         *)
LEMMA XrefsOfFunction ==
    ASSUME NEW m, IsCore(m), NEW f \in ToSet(m.funcs), NEW fa, fa = ToSigned(f.entry)
    PROVE  /\ IsSeq(XrefsOf(m, fa)) /\ Once(XrefsOf(m, fa))
           /\ \A x : x \in ToSet(XrefsOf(m, fa)) <=> \E r \in ToSet(m.refs) : r.from \in Span(f) /\ x = RefRow(r, f)
<1> DEFINE K == {r \in ToSet(m.refs) : \E h \in Holders(m, f.entry) : r.from \in Span(h)}
           s == Chosen(m.refs, K)
           g == [r \in ToSet(m.refs) |-> RefRow(r, f)]
           t == Each(s, g)
<1>1. HexAddr(fa) = f.entry /\ Holders(m, f.entry) = {f}
  BY EntryHolder
<1>2. IsSeq(s) /\ \A r : r \in ToSet(s) <=> r \in ToSet(m.refs) /\ r \in K
  BY RefsFacts
<1>3. \A i \in DOMAIN s : s[i] \in ToSet(m.refs)
  <2> HIDE DEF s, K
  <2>1. \A i \in DOMAIN s : s[i] \in ToSet(s)
    BY <1>2, SeqDomain
  <2> QED BY <1>2, <2>1
<1>4. XrefsOf(m, fa) = t
  <2>1. RefsOf(m, HexAddr(fa)) = s
    BY <1>1 DEF RefsOf
  <2>2. XrefsOf(m, fa) = [i \in DOMAIN s |-> XrefRow(ToSigned(s[i].from), ToSigned(s[i].to), f.entry)]
    BY <1>1, <2>1 DEF XrefsOf
  <2> HIDE DEF s
  <2> QED BY <1>3, <2>2 DEF RefRow, Each
<1>5. ASSUME NEW r \in ToSet(s), NEW q \in ToSet(s), g[r] = g[q] PROVE r = q
  <2>1. r \in ToSet(m.refs) /\ q \in ToSet(m.refs)
    BY <1>2
  <2>2. RefRow(r, f) = RefRow(q, f)
    BY <1>5, <2>1
  <2> QED BY <2>1, <2>2, XrefRowsDiffer, RefsDiffer DEF RefRow
<1>6. \A r \in ToSet(m.refs) : (r \in K <=> r.from \in Span(f)) /\ g[r] = RefRow(r, f)
  BY <1>1
<1> HIDE DEF g, K
<1>7. IsSeq(t) /\ Once(t) /\ AreEach(t, m, K, g)
  <2> HIDE DEF t, s
  <2>1. s = Chosen(m.refs, K) /\ t = Each(s, g)
    BY DEF s, t
  <2>2. TellsApart(g, s)
    BY <1>5 DEF TellsApart
  <2> QED BY <2>1, <2>2, RowOfEach
<1> HIDE DEF t
<1> QED BY <1>4, <1>6, <1>7 DEF AreEach

(* The cache offers the relation of xrefs, each row once.                *)
LEMMA CacheOffers ==
    ASSUME NEW m, IsCore(m)
    PROVE  /\ IsSeq(XrefsCache(m)) /\ Once(XrefsCache(m))
           /\ \A x : x \in ToSet(XrefsCache(m)) <=> x \in RefRows(m)
<1> DEFINE F == FuncAddrs(m)
           g == [fa \in ToSet(F) |-> XrefsOf(m, fa)]
           n == Len(F)
           G == m.funcs
           T == RefRows(m)
<1>0. XrefsCache(m) = Joined(F, g)
  BY XrefsCacheFacts
<1>1. /\ F \in Seq(Int64) /\ n = Len(G) /\ n \in Nat /\ DOMAIN G = 1..n
      /\ \A i \in 1..n : F[i] = ToSigned(G[i].entry)
      /\ \A i, j \in 1..n : i # j => F[i] # F[j]
  BY FuncAddrsFacts
<1>2. \A i \in 1..n : F[i] \in ToSet(F) /\ g[F[i]] = XrefsOf(m, F[i])
  <2>1. \A i \in 1..n : F[i] \in ToSet(F)
    <3> HIDE DEF F
    <3> QED BY <1>1, InSeq
  <2> QED BY <2>1
<1> HIDE DEF F, n, g
<1>3. \A f : f \in ToSet(G) <=> \E i \in 1..n : f = G[i]
  BY <1>1 DEF ToSet
<1>4. ASSUME NEW i \in 1..n
      PROVE  /\ IsSeq(g[F[i]]) /\ Once(g[F[i]])
             /\ \A x : x \in ToSet(g[F[i]]) <=> \E r \in ToSet(m.refs) : r.from \in Span(G[i]) /\ x = RefRow(r, G[i])
  <2>1. G[i] \in ToSet(m.funcs) /\ F[i] = ToSigned(G[i].entry)
    BY <1>1, <1>3
  <2> QED BY <1>2, <2>1, XrefsOfFunction
<1>5. OnceEach(F, g)
  <2>1. ASSUME NEW i \in 1..n, NEW j \in 1..n, i # j PROVE Apart(g[F[i]], g[F[j]])
    <3>1. G[i].entry # G[j].entry
      BY <1>1, <2>1
    <3>2. \A r, q : RefRow(r, G[i]) # RefRow(q, G[j])
      BY <3>1, XrefRowsDiffer DEF RefRow
    <3>3. ASSUME NEW x \in ToSet(g[F[i]]) PROVE x \notin ToSet(g[F[j]])
      BY <1>4, <3>2
    <3> QED BY <3>3 DEF Apart
  <2> QED BY <1>4, <2>1 DEF OnceEach, n
<1>6. IsSeq(Joined(F, g)) /\ Once(Joined(F, g))
  BY <1>1, <1>5, JoinedOnce
<1>7. \A x : x \in ToSet(Joined(F, g)) <=> \E i \in 1..n : x \in ToSet(g[F[i]])
  <2> DEFINE U == UNION {ToSet(g[F[i]]) : i \in 1..n}
  <2>1. ASSUME NEW i \in 1..n PROVE g[F[i]] \in Seq(U)
    <3> DEFINE A == ToSet(g[F[i]])
    <3>1. g[F[i]] \in Seq(A)
      BY <1>4 DEF IsSeq
    <3>2. A \subseteq U
      OBVIOUS
    <3> HIDE DEF A, U
    <3> QED BY <3>1, <3>2, SeqMonotonic
  <2> HIDE DEF U
  <2> QED BY <1>1, <2>1, JoinedFacts DEF n
<1>8. ASSUME NEW x PROVE x \in ToSet(Joined(F, g)) <=> x \in T
  <2>1. x \in T <=> \E r \in ToSet(m.refs), f \in ToSet(G) : r.from \in Span(f) /\ x = RefRow(r, f)
    BY DEF RefRows
  <2>2. x \in T <=> \E i \in 1..n : \E r \in ToSet(m.refs) : r.from \in Span(G[i]) /\ x = RefRow(r, G[i])
    BY <1>3, <2>1
  <2> QED BY <1>4, <1>7, <2>2
<1> QED BY <1>0, <1>6, <1>8, Zenon

HeldRow(m, r) == XrefRow(ToSigned(r.from), ToSigned(r.to), NameAt(m, r.from))

(* References that come from no function, and their rows.                  *)
Loose(m) == {r \in ToSet(m.refs) : Holders(m, r.from) = {}}
LooseRow(r) == XrefRow(ToSigned(r.from), ToSigned(r.to), NoName)

(* Each reference has one row: that of the scan, or one without a name.    *)
LEMMA HeldRows ==
    ASSUME NEW m, IsCore(m)
    PROVE  \A x : (\E r \in ToSet(m.refs) : x = HeldRow(m, r)) <=> x \in RefRows(m) \/ \E r \in Loose(m) : x = LooseRow(r)
<1>1. ASSUME NEW r \in ToSet(m.refs), NEW f PROVE f \in {g \in ToSet(m.funcs) : r.from \in Span(g)} <=> f \in Holders(m, r.from)
  BY DEF Holders
<1>2. ASSUME NEW r \in ToSet(m.refs), NEW f \in Holders(m, r.from) PROVE RefRow(r, f) = HeldRow(m, r)
  <2>1. NameAt(m, r.from) = (CHOOSE h \in Holders(m, r.from) : TRUE).entry
    BY <1>2 DEF NameAt
  <2>2. (CHOOSE h \in Holders(m, r.from) : TRUE) = f
    BY OneHolder
  <2> QED BY <2>1, <2>2 DEF RefRow, HeldRow
<1>3. ASSUME NEW x PROVE x \in RefRows(m) <=> \E r \in ToSet(m.refs) : \E f \in Holders(m, r.from) : x = RefRow(r, f)
  <2>1. x \in RefRows(m) <=> \E r \in ToSet(m.refs) : \E f \in {g \in ToSet(m.funcs) : r.from \in Span(g)} : x = RefRow(r, f)
    BY DEF RefRows
  <2> QED BY <1>1, <2>1
<1>4. ASSUME NEW r \in ToSet(m.refs) PROVE r \in Loose(m) \/ \E f \in Holders(m, r.from) : RefRow(r, f) = HeldRow(m, r)
  <2>1. CASE Holders(m, r.from) = {}
    BY <2>1 DEF Loose
  <2>2. CASE Holders(m, r.from) # {}
    BY <1>2, <2>2
  <2> QED BY <2>1, <2>2
<1>5. ASSUME NEW r \in Loose(m) PROVE r \in ToSet(m.refs) /\ LooseRow(r) = HeldRow(m, r)
  <2>1. r \in ToSet(m.refs) /\ NameAt(m, r.from) = NoName
    BY DEF Loose, NameAt
  <2> QED BY <2>1 DEF LooseRow, HeldRow
<1> QED BY <1>2, <1>3, <1>4, <1>5

(* A filter on xrefs offers the rows with that address, and those that     *)
(* have no name.                                                           *)
LEMMA FilterXrefs ==
    ASSUME NEW m, IsCore(m), NEW v \in Int64,
           NEW column \in {"to_addr", "from_addr"},
           NEW s, s = IF column = "to_addr" THEN XrefsToAddr(m, v) ELSE XrefsFromAddr(m, v)
    PROVE  /\ IsSeq(s) /\ Once(s)
           /\ \A x : x \in ToSet(s) <=> /\ x \in RefRows(m) \/ \E r \in Loose(m) : x = LooseRow(r)
                                       /\ x[column] = v
<1> DEFINE a == HexAddr(v)
           K == {r \in ToSet(m.refs) : r.to = a}
           L == {r \in ToSet(m.refs) : r.from = a}
           g == [r \in ToSet(m.refs) |-> HeldRow(m, r)]
           t == Chosen(m.refs, K)
           u == Chosen(m.refs, L)
<1>1. ASSUME NEW r \in ToSet(m.refs)
      PROVE  /\ ToSigned(r.to) = v <=> r.to = a
             /\ ToSigned(r.from) = v <=> r.from = a
             /\ HeldRow(m, r).to_addr = ToSigned(r.to) /\ HeldRow(m, r).from_addr = ToSigned(r.from)
  <2>1. r.from \in Addresses /\ r.to \in Addresses
    BY RefsDiffer
  <2>2. HexAddr(ToSigned(r.from)) = r.from /\ HexAddr(ToSigned(r.to)) = r.to /\ ToSigned(HexAddr(v)) = v
    BY <2>1, AddressComesBack, ValueComesBack
  <2>3. HeldRow(m, r).to_addr = ToSigned(r.to) /\ HeldRow(m, r).from_addr = ToSigned(r.from)
    BY DEF HeldRow, XrefRow
  <2>4. ToSigned(r.to) = v <=> r.to = a
    BY <2>2
  <2>5. ToSigned(r.from) = v <=> r.from = a
    BY <2>2
  <2> QED BY <2>3, <2>4, <2>5
<1>2. /\ IsSeq(t) /\ \A r : r \in ToSet(t) <=> r \in ToSet(m.refs) /\ r \in K
      /\ IsSeq(u) /\ \A r : r \in ToSet(u) <=> r \in ToSet(m.refs) /\ r \in L
  <2> HIDE DEF K, L
  <2> QED BY RefsFacts
<1>3. (\A i \in DOMAIN t : t[i] \in ToSet(t)) /\ (\A i \in DOMAIN u : u[i] \in ToSet(u))
  <2> HIDE DEF t, u
  <2> QED BY <1>2, SeqDomain
<1>4. ASSUME NEW r \in ToSet(m.refs), NEW q \in ToSet(m.refs), g[r] = g[q] PROVE r = q
  <2>1. HeldRow(m, r) = HeldRow(m, q)
    BY <1>4
  <2> QED BY <2>1, XrefRowsDiffer, RefsDiffer DEF HeldRow
<1>5. XrefsToAddr(m, v) = Each(t, g)
  <2>1. RefsTo(m, HexAddr(v)) = t
    BY DEF RefsTo
  <2>2. XrefsToRows(m, v) = [i \in DOMAIN t |-> XrefRow(ToSigned(t[i].from), v, NameAt(m, t[i].from))]
    BY <2>1 DEF XrefsToRows
  <2>3. \A i \in DOMAIN t : t[i] \in ToSet(m.refs) /\ ToSigned(t[i].to) = v
    BY <1>1, <1>2, <1>3
  <2> HIDE DEF t
  <2>4. \A i \in DOMAIN t : g[t[i]] = XrefRow(ToSigned(t[i].from), v, NameAt(m, t[i].from))
    BY <2>3 DEF HeldRow
  <2> HIDE DEF g
  <2>5. XrefsToRows(m, v) = Each(t, g)
    BY <2>2, <2>4 DEF Each
  <2> QED BY <2>5, FilteredXrefs
<1>6. XrefsFromAddr(m, v) = Each(u, g)
  <2>1. RefsFrom(m, HexAddr(v)) = u
    BY DEF RefsFrom
  <2>2. XrefsFromRows(m, v) = [i \in DOMAIN u |-> XrefRow(ToSigned(u[i].from), ToSigned(u[i].to), NameAt(m, a))]
    BY <2>1 DEF XrefsFromRows
  <2>3. \A i \in DOMAIN u : u[i] \in ToSet(m.refs) /\ u[i].from = a
    BY <1>2, <1>3
  <2> HIDE DEF u, a
  <2>4. \A i \in DOMAIN u : g[u[i]] = XrefRow(ToSigned(u[i].from), ToSigned(u[i].to), NameAt(m, a))
    BY <2>3 DEF HeldRow
  <2> HIDE DEF g
  <2>5. XrefsFromRows(m, v) = Each(u, g)
    BY <2>2, <2>4 DEF Each
  <2> QED BY <2>5, FilteredXrefs
<1>7. \A r \in ToSet(m.refs) : (r \in K <=> r.to = a) /\ (r \in L <=> r.from = a) /\ g[r] = HeldRow(m, r)
  OBVIOUS
<1> DEFINE InRows(x) == x \in RefRows(m) \/ \E r \in Loose(m) : x = LooseRow(r)
<1>8. \A x : InRows(x) <=> \E r \in ToSet(m.refs) : x = HeldRow(m, r)
  BY HeldRows
<1>12. SUFFICES IsSeq(s) /\ Once(s) /\ \A x : x \in ToSet(s) <=> InRows(x) /\ x[column] = v
  OBVIOUS
<1> HIDE DEF InRows
<1> HIDE DEF g, K, L, a
<1>9. TellsApart(g, t) /\ TellsApart(g, u)
  BY <1>2, <1>4 DEF TellsApart
<1> HIDE DEF t, u
<1>10. CASE column = "to_addr"
  <2>1. s = Each(t, g) /\ t = Chosen(m.refs, K)
    BY <1>5, <1>10 DEF t
  <2>2. IsSeq(s) /\ Once(s) /\ AreEach(s, m, K, g)
    BY <1>9, <2>1, RowOfEach
  <2>3. \A x : x \in ToSet(s) <=> \E r \in ToSet(m.refs) : r.to = a /\ x = HeldRow(m, r)
    BY <1>7, <2>2 DEF AreEach
  <2>4. \A x : x \in ToSet(s) <=> InRows(x) /\ x.to_addr = v
    BY <1>1, <1>8, <2>3
  <2> QED BY <1>10, <2>2, <2>4
<1>11. CASE column = "from_addr"
  <2>1. s = Each(u, g) /\ u = Chosen(m.refs, L)
    BY <1>6, <1>11 DEF u
  <2>2. IsSeq(s) /\ Once(s) /\ AreEach(s, m, L, g)
    BY <1>9, <2>1, RowOfEach
  <2>3. \A x : x \in ToSet(s) <=> \E r \in ToSet(m.refs) : r.from = a /\ x = HeldRow(m, r)
    BY <1>7, <2>2 DEF AreEach
  <2>4. \A x : x \in ToSet(s) <=> InRows(x) /\ x.from_addr = v
    BY <1>1, <1>8, <2>3
  <2> QED BY <1>11, <2>2, <2>4
<1> QED BY <1>10, <1>11

-----------------------------------------------------------------------------
(* What is offered is what is asked for                                    *)

(* A scan offers the relation of its table.                                *)
LEMMA ScanIsContent ==
    ASSUME MemInv, pc = "done", query.table \in Streamed \cup {"xrefs"}, plan = "scan",
           NEW s, s = Offered(query, plan, mem)
    PROVE  /\ IsSeq(s) /\ Once(s)
           /\ \A x : x \in ToSet(s) <=> x \in Content(query.table)
<1> DEFINE C == Content(query.table)
<1>1. IsCore(mem)
  BY MemIsCore DEF Streamed
<1>2. CASE query.table \in Streamed
  <2>1. s = Joined(FuncAddrs(mem), Found(query.table, mem))
    BY <1>2 DEF Offered
  <2>2. C = UNION {FuncRows(query.table, mem, f) : f \in ToSet(mem.funcs)}
    BY <1>2, ContentIs
  <2> HIDE DEF C
  <2>3. IsSeq(s) /\ Once(s) /\ \A x : x \in ToSet(s) <=> x \in C
    BY <1>1, <1>2, <2>1, <2>2, ScanOffers
  <2> QED BY <2>3 DEF C
<1>3. CASE query.table = "xrefs"
  <2>1. s = XrefsCache(mem)
    BY <1>3 DEF Offered, CacheOf, Streamed
  <2>2. C = RefRows(mem)
    BY <1>3, RefRowsIs
  <2> HIDE DEF C
  <2>3. IsSeq(s) /\ Once(s) /\ \A x : x \in ToSet(s) <=> x \in C
    BY <1>1, <2>1, <2>2, CacheOffers
  <2> QED BY <2>3 DEF C
<1> QED BY <1>2, <1>3

(* What a filter has beyond its scan, for xrefs reference by reference.    *)
LEMMA BeyondIs ==
    ASSUME MemInv, plan = "filter"
    PROVE  /\ query.table \in Streamed => Beyond = Answers(query.table, mem, query.value)
           /\ query.table = "xrefs" /\ query.column \in {"to_addr", "from_addr"} /\ query.value \in Int64 /\ IsCore(mem) =>
                \A x : x \in Beyond <=> x[query.column] = query.value /\ \E r \in Loose(mem) : x = LooseRow(r)
<1>1. CASE query.table = "pseudocode"
  <2>1. Beyond = {[func_addr |-> query.value, text |-> Pdc(mem, HexAddr(query.value))]}
    BY <1>1 DEF Beyond
  <2> QED BY <1>1, <2>1 DEF Answers
<1>2. CASE query.table \in {"blocks", "instructions"}
  <2>1. Beyond = {[func_addr |-> query.value, addr |-> ToSigned(a)] : a \in UNION {Span(f) : f \in Spoken(mem, HexAddr(query.value))}}
    BY <1>2 DEF Beyond
  <2>2. Answers(query.table, mem, query.value)
          = {[func_addr |-> query.value, addr |-> ToSigned(a)] : a \in UNION {Span(f) : f \in Spoken(mem, HexAddr(query.value))}}
    BY <1>2 DEF Answers
  <2> QED BY <1>2, <2>1, <2>2
<1>3. ASSUME query.table = "xrefs", query.column \in {"to_addr", "from_addr"}, query.value \in Int64, IsCore(mem), NEW x
      PROVE  x \in Beyond <=> x[query.column] = query.value /\ \E r \in Loose(mem) : x = LooseRow(r)
  <2> DEFINE v == HexAddr(query.value)
             end(r) == IF query.column = "to_addr" THEN r.to ELSE r.from
             loose == {r \in ToSet(mem.refs) : Holders(mem, r.from) = {} /\ v = end(r)}
  <2>1. Beyond = {LooseRow(r) : r \in loose}
    BY <1>3 DEF Beyond, LooseRow
  <2>2. \A r : r \in loose <=> r \in Loose(mem) /\ v = end(r)
    BY DEF Loose
  <2>3. ASSUME NEW r \in Loose(mem) PROVE v = end(r) <=> LooseRow(r)[query.column] = query.value
    <3>1. r \in ToSet(mem.refs)
      BY DEF Loose
    <3>2. r.from \in Addresses /\ r.to \in Addresses
      BY <1>3, <3>1, RefsDiffer
    <3>3. HexAddr(ToSigned(r.from)) = r.from /\ HexAddr(ToSigned(r.to)) = r.to /\ ToSigned(v) = query.value
      BY <1>3, <3>2, AddressComesBack, ValueComesBack
    <3>4. LooseRow(r).to_addr = ToSigned(r.to) /\ LooseRow(r).from_addr = ToSigned(r.from)
      BY DEF LooseRow, XrefRow
    <3>5. LooseRow(r)[query.column] = ToSigned(end(r)) /\ HexAddr(ToSigned(end(r))) = end(r)
      <4>1. CASE query.column = "to_addr"
        <5>1. end(r) = r.to /\ LooseRow(r)[query.column] = LooseRow(r).to_addr
          BY <4>1
        <5> QED BY <3>3, <3>4, <5>1
      <4>2. CASE query.column = "from_addr"
        <5>1. end(r) = r.from /\ LooseRow(r)[query.column] = LooseRow(r).from_addr
          BY <4>2
        <5> QED BY <3>3, <3>4, <5>1
      <4> QED BY <1>3, <4>1, <4>2
    <3>6. v = HexAddr(query.value)
      OBVIOUS
    <3> HIDE DEF v, end
    <3> QED BY <3>3, <3>5, <3>6
  <2> HIDE DEF loose, v, end
  <2> QED BY <2>1, <2>2, <2>3
<1> QED BY <1>1, <1>2, <1>3 DEF Streamed

(* What is offered, filtered, is what the WHERE asks for and what a filter *)
(* has beyond it.                                                          *)
LEMMA OfferedRows ==
    ASSUME MemInv, CursorInv, pc = "done", mem = before, query.table \in Streamed \cup {"xrefs"},
           NEW s, s = Offered(query, plan, mem)
    PROVE  /\ IsSeq(s) /\ Once(s)
           /\ \A r : r \in ToSet(s) /\ Keeps(r) <=> (r \in Content(query.table) /\ Keeps(r)) \/ r \in Beyond
<1> DEFINE C == Content(query.table)
<1>1. IsCore(mem) /\ query \in Queries
  BY MemIsCore DEF Streamed
<1>2. CASE plan = "scan"
  <2>1. IsSeq(s) /\ Once(s) /\ \A x : x \in ToSet(s) <=> x \in C
    BY <1>2, ScanIsContent
  <2>2. Beyond = {}
    BY <1>2 DEF Beyond
  <2> HIDE DEF C
  <2>3. \A r : r \in ToSet(s) /\ Keeps(r) <=> (r \in C /\ Keeps(r)) \/ r \in Beyond
    BY <2>1, <2>2
  <2> QED BY <2>1, <2>3 DEF C
<1>3. CASE plan = "filter"
  <2>1. query.column \in FilterColumns(query.table) /\ s = FilterOf(query, mem)
    BY <1>3 DEF CursorInv, Offered
  <2>2. query.column \in {"func_addr", "to_addr", "from_addr"}
    BY <2>1 DEF FilterColumns, Streamed
  <2>3. query.value \in Int64
    BY <1>1, <2>2, QueriesAssumption
  <2>4. \A r : Keeps(r) <=> r[query.column] = query.value
    BY <2>2 DEF Keeps
  <2>5. CASE query.table \in Streamed
    <3>1. query.column = "func_addr" /\ s = Found(query.table, mem)[query.value]
      <4>1. query.column = "func_addr"
        BY <2>1, <2>5 DEF FilterColumns, Streamed
      <4>2. s = Found(query.table, mem)[query.value]
        BY <2>1, <2>5 DEF FilterOf, Streamed
      <4> QED BY <4>1, <4>2
    <3>2. C = UNION {FuncRows(query.table, mem, f) : f \in ToSet(mem.funcs)}
      BY <2>5, ContentIs
    <3>3. Beyond = Answers(query.table, mem, query.value)
      BY <1>3, <2>5, BeyondIs
    <3> HIDE DEF C
    <3>4. /\ IsSeq(s) /\ Once(s) /\ \A x : x \in ToSet(s) <=> x \in Beyond
          /\ \A x \in C : x.func_addr = query.value => x \in Beyond
      BY <1>1, <2>3, <2>5, <3>1, <3>2, <3>3, FilterFinds
    <3>5. \A x \in ToSet(s) : x.func_addr = query.value
      BY <1>1, <2>3, <2>5, <3>1, FoundFacts
    <3>6. \A r : Keeps(r) <=> r.func_addr = query.value
      BY <2>4, <3>1
    <3>7. \A r : r \in ToSet(s) /\ Keeps(r) <=> (r \in C /\ Keeps(r)) \/ r \in Beyond
      BY <3>4, <3>5, <3>6
    <3> QED BY <3>4, <3>7 DEF C
  <2>6. CASE query.table = "xrefs"
    <3>1. query.column \in {"to_addr", "from_addr"}
      BY <2>1, <2>6 DEF FilterColumns, Streamed
    <3>2. s = IF query.column = "to_addr" THEN XrefsToAddr(mem, query.value) ELSE XrefsFromAddr(mem, query.value)
      BY <2>1, <2>6 DEF FilterOf, Streamed
    <3>3. C = RefRows(mem)
      BY <2>6, RefRowsIs
    <3>4. \A x : x \in Beyond <=> x[query.column] = query.value /\ \E r \in Loose(mem) : x = LooseRow(r)
      BY <1>1, <1>3, <2>3, <2>6, <3>1, BeyondIs
    <3> HIDE DEF C
    <3>5. /\ IsSeq(s) /\ Once(s)
          /\ \A x : x \in ToSet(s) <=> /\ x \in C \/ \E r \in Loose(mem) : x = LooseRow(r)
                                      /\ x[query.column] = query.value
      BY <1>1, <2>3, <3>1, <3>2, <3>3, FilterXrefs
    <3> DEFINE Asked(r) == r[query.column] = query.value
               Unnamed(r) == \E l \in Loose(mem) : r = LooseRow(l)
    <3>6. ASSUME NEW r PROVE r \in ToSet(s) /\ Keeps(r) <=> (r \in C /\ Keeps(r)) \/ r \in Beyond
      <4>1. (r \in Beyond <=> Asked(r) /\ Unnamed(r)) /\ (Keeps(r) <=> Asked(r))
        BY <2>4, <3>4
      <4>2. r \in ToSet(s) <=> (r \in C \/ Unnamed(r)) /\ Asked(r)
        BY <3>5
      <4> HIDE DEF Asked, Unnamed, C
      <4> QED BY <4>1, <4>2
    <3> QED BY <3>5, <3>6 DEF C
  <2> QED BY <2>5, <2>6
<1> QED BY <1>2, <1>3 DEF CursorInv

(* A filter that asks for rows of the scan has no other.                   *)
LEMMA NothingBeyond ==
    ASSUME MemInv, CursorInv, pc = "done", mem = before, query.table \in Streamed \cup {"xrefs"},
           query.column = "none" \/ AskedAboutRows
    PROVE  \A r \in Beyond : r \in Content(query.table) /\ Keeps(r)
<1> DEFINE C == Content(query.table)
<1>1. IsCore(mem) /\ query \in Queries
  BY MemIsCore DEF Streamed
<1>2. CASE plan = "scan"
  BY <1>2 DEF Beyond
<1>3. CASE plan = "filter"
  <2>1. query.column \in FilterColumns(query.table)
    BY <1>3 DEF CursorInv
  <2>2. query.column \in {"func_addr", "to_addr", "from_addr"}
    BY <2>1 DEF FilterColumns, Streamed
  <2>3. query.value \in Int64 /\ AskedAboutRows
    BY <1>1, <2>2, QueriesAssumption
  <2>4. CASE query.table \in Streamed
    <3>1. query.column = "func_addr"
      BY <2>1, <2>4 DEF FilterColumns, Streamed
    <3>2. \/ query.table \in {"blocks", "instructions"} /\ Holders(mem, HexAddr(query.value)) = {}
          \/ HexAddr(query.value) \in {f.entry : f \in ToSet(mem.funcs)}
      BY <2>3, <2>4 DEF AskedAboutRows, Functions, Streamed
    <3>3. C = UNION {FuncRows(query.table, mem, f) : f \in ToSet(mem.funcs)}
      BY <2>4, ContentIs
    <3>4. Beyond = Answers(query.table, mem, query.value)
      BY <1>3, <2>4, BeyondIs
    <3> HIDE DEF C
    <3>5. \A x : x \in ToSet(Found(query.table, mem)[query.value]) <=> x \in Beyond
      BY <1>1, <2>3, <2>4, <3>4, FilterFinds
    <3>6. \A x : x \in ToSet(Found(query.table, mem)[query.value]) <=> x.func_addr = query.value /\ x \in C
      BY <1>1, <2>3, <2>4, <3>2, <3>3, FilterOffers
    <3>7. \A x \in Beyond : x.func_addr = query.value /\ x \in C
      BY <3>5, <3>6
    <3> QED BY <3>1, <3>7 DEF C, Keeps
  <2>5. CASE query.table = "xrefs"
    <3>1. query.column \in {"to_addr", "from_addr"}
      BY <2>1, <2>5 DEF FilterColumns, Streamed
    <3>2. Loose(mem) = {}
      BY <2>3, <2>5 DEF AskedAboutRows, Loose
    <3>3. \A x : x \in Beyond <=> x[query.column] = query.value /\ \E r \in Loose(mem) : x = LooseRow(r)
      BY <1>1, <1>3, <2>3, <2>5, <3>1, BeyondIs
    <3> QED BY <3>2, <3>3
  <2> QED BY <2>4, <2>5
<1> QED BY <1>2, <1>3 DEF CursorInv

(* At the end nothing is left to hand out.                               *)
LEMMA NothingIsLeft ==
    ASSUME MemInv, CursorInv, AnswerInv, pc = "done", mem = before, query.table \in Streamed \cup Cached
    PROVE  rows = Kept(query, Offered(query, plan, mem)) /\ IsSeq(rows)
<1>1. funcs_ = <<>> /\ buf = <<>> /\ IsSeq(rows) /\ IsSeq(<<>>)
  BY DEF CursorInv, IsSeq, ToSet
<1>2. Left(mem) = <<>>
  <2>1. Joined(<<>>, Found(query.table, mem)) = <<>>
    BY JoinedEmpty
  <2>2. <<>> \o <<>> = <<>>
    OBVIOUS
  <2> QED BY <1>1, <2>1, <2>2, Zenon DEF Left
<1>3. Kept(query, <<>>) = <<>>
  <2>1. <<>> \in Seq({}) /\ ToSet(<<>>) = {}
    BY DEF ToSet
  <2>2. Chosen(<<>>, KeptSet(query, <<>>)) = <<>>
    BY <2>1, ChosenNone
  <2> QED BY <2>2, KeptIs
<1>4. rows \o <<>> = rows
  BY <1>1, ConcatNothing
<1>5. rows \o Kept(query, Left(mem)) = Kept(query, Offered(query, plan, mem))
  BY DEF AnswerInv
<1> QED BY <1>1, <1>2, <1>3, <1>4, <1>5, Zenon

(* The answer of a statement on the code is the one SQL gives.           *)
LEMMA RowsRight ==
    ASSUME MemInv, CursorInv, AnswerInv
    PROVE  RowsAreSql
<1> DEFINE asked == {r \in Content(query.table) : Keeps(r)}
<1> SUFFICES ASSUME pc = "done", mem = before, query.table \in Streamed \cup {"xrefs"}
             PROVE  /\ IsInjective(rows) /\ ToSet(rows) = asked \cup Beyond
                    /\ (query.column = "none" \/ AskedAboutRows) => ToSet(rows) = asked
  BY DEF RowsAreSql, Answered
<1> DEFINE s == Offered(query, plan, mem)
<1>1. query.table \in Streamed \cup Cached
  BY DEF Streamed, Cached
<1>2. rows = Kept(query, s) /\ IsSeq(rows)
  BY <1>1, NothingIsLeft
<1>3. /\ IsSeq(s) /\ Once(s)
      /\ \A r : r \in ToSet(s) /\ Keeps(r) <=> (r \in Content(query.table) /\ Keeps(r)) \/ r \in Beyond
  BY OfferedRows
<1> HIDE DEF s
<1>4. Once(rows)
  BY <1>2, <1>3, KeptIs, ChosenOnce
<1>5. \A r : r \in ToSet(rows) <=> r \in ToSet(s) /\ Keeps(r)
  BY <1>2, <1>3, KeptFacts DEF KeptSet, Keeps
<1>6. ToSet(rows) = asked \cup Beyond
  BY <1>3, <1>5
<1>7. IsInjective(rows)
  BY <1>2, <1>4, OnceIsInjective
<1>8. ASSUME query.column = "none" \/ AskedAboutRows PROVE ToSet(rows) = asked
  <2>1. \A r \in Beyond : r \in Content(query.table) /\ Keeps(r)
    BY <1>8, NothingBeyond
  <2> QED BY <1>6, <2>1
<1> QED BY <1>6, <1>7, <1>8

(***************************************************************************)
(* No row shows an address that SQLite could not hold                      *)
(***************************************************************************)

(* The place of an object is a signed number.                            *)
LEMMA PlaceIsInt64 ==
    ASSUME NEW m, IsCore(m), NEW c \in Commands, NEW j \in ToSet(Elements(Reply(m, c))), NEW key \in PlaceKeys
    PROVE  I64(j, key, 0) \in Int64 /\ I64Addr(j) \in Int64 /\ Place(j, key) \in Int64
<1>1. \A k \in DOMAIN j \cap PlaceKeys : j[k] \in Addresses
  BY RepliesAreSeqs
<1>2. 0 \in Int64
  BY WidthAssumption, HalfIsHalf DEF Int64
<1>3. ASSUME NEW k \in PlaceKeys PROVE I64(j, k, 0) \in Int64
  BY <1>1, <1>2, SignedIsInt64 DEF I64
<1>4. "addr" \in PlaceKeys /\ "offset" \in PlaceKeys
  BY DEF PlaceKeys
<1>5. I64Addr(j) \in Int64
  BY <1>3, <1>4 DEF I64Addr
<1> QED BY <1>3, <1>5 DEF Place

(* The address of a row that has one only.                               *)
LEMMA AddrRow ==
    ASSUME NEW row, DOMAIN row \cap {"addr", "func_addr", "from_addr", "to_addr"} \subseteq {"addr"},
           "addr" \in DOMAIN row => row.addr \in Int64
    PROVE  RowAddresses(row) \subseteq Int64
BY DEF RowAddresses

(* The addresses of a row of xrefs.                                      *)
LEMMA XrefAddresses ==
    ASSUME NEW from \in Int64, NEW to \in Int64, NEW name
    PROVE  RowAddresses(XrefRow(from, to, name)) \subseteq Int64
<1> DEFINE row == XrefRow(from, to, name)
<1>1. DOMAIN row = {"from_addr", "to_addr", "from_func"} /\ row.from_addr = from /\ row.to_addr = to
  BY DEF XrefRow
<1> HIDE DEF row
<1>2. RowAddresses(row) \subseteq Int64
  BY <1>1 DEF RowAddresses
<1> QED BY <1>2 DEF row

(* Two addressed lists together.                                         *)
LEMMA BothAddressed ==
    ASSUME NEW s, NEW t, IsSeq(s), IsSeq(t), Addressed(s), Addressed(t)
    PROVE  IsSeq(s \o t) /\ Addressed(s \o t)
BY SeqsTogether DEF Addressed

(* The empty list shows no address.                                      *)
LEMMA NoneAddressed == Addressed(<<>>)
BY DEF Addressed, ToSet

(* A list of one row shows its addresses.                                *)
LEMMA OneAddressed ==
    ASSUME NEW h, RowAddresses(h) \subseteq Int64
    PROVE  Addressed(<<h>>)
BY OneIsSeq DEF Addressed

(* A row for each element of a list.                                       *)
LEMMA MappedAddressed ==
    ASSUME NEW objs, IsSeq(objs), NEW f, \A j \in ToSet(objs) : RowAddresses(f[j]) \subseteq Int64
    PROVE  Addressed([i \in DOMAIN objs |-> f[objs[i]]])
<1>1. DOMAIN objs = 1..Len(objs) /\ \A i \in 1..Len(objs) : objs[i] \in ToSet(objs)
  BY SeqDomain
<1> QED BY <1>1 DEF Addressed, ToSet

(* The rows of what is in the file.                                      *)
LEMMA ListingsAddressed ==
    ASSUME NEW m, IsCore(m)
    PROVE  /\ \A used : Addressed(StringsCache(m, used))
           /\ Addressed(ImportsCache(m)) /\ Addressed(ExportsCache(m))
           /\ Addressed(SectionsCache(m)) /\ Addressed(SegmentsCache(m))
<1>1. "izj" \in Commands /\ "iij" \in Commands /\ "iEj" \in Commands /\ "iSj" \in Commands /\ "iSSj" \in Commands
      /\ "plt" \in PlaceKeys /\ "vaddr" \in PlaceKeys
  BY DEF Commands, PlaceKeys
<1>2. ASSUME NEW used PROVE Addressed(StringsCache(m, used))
  <2> DEFINE objs == Elements(Reply(m, "izj"))
             row(j) == [addr |-> I64(j, "vaddr", 0), text |-> IF used \cap {4, 63} # {} THEN j.string ELSE ""]
             f == [j \in ToSet(objs) |-> row(j)]
  <2>1. IsSeq(objs) /\ DOMAIN objs = 1..Len(objs) /\ \A i \in 1..Len(objs) : objs[i] \in ToSet(objs)
    BY <1>1, RepliesAreSeqs, SeqDomain
  <2>2. StringsCache(m, used) = [i \in DOMAIN objs |-> row(objs[i])]
    BY Zenon DEF StringsCache, Map
  <2>3. ASSUME NEW j \in ToSet(objs) PROVE RowAddresses(f[j]) \subseteq Int64
    <3>1. I64(j, "vaddr", 0) \in Int64
      BY <1>1, PlaceIsInt64
    <3>2. DOMAIN f[j] = {"addr", "text"} /\ f[j].addr = I64(j, "vaddr", 0)
      OBVIOUS
    <3> HIDE DEF f
    <3> QED BY <3>1, <3>2, AddrRow
  <2>4. \A i \in DOMAIN objs : row(objs[i]) = f[objs[i]]
    BY <2>1
  <2> HIDE DEF objs, row, f
  <2>5. StringsCache(m, used) = [i \in DOMAIN objs |-> f[objs[i]]]
    BY <2>2, <2>4
  <2> QED BY <2>1, <2>3, <2>5, MappedAddressed
<1>3. ASSUME NEW c \in Commands, NEW key \in PlaceKeys
      PROVE  Addressed(Places(Elements(Reply(m, c)), key))
  <2> DEFINE objs == Elements(Reply(m, c))
             row(j) == [addr |-> I64(j, key, 0)]
             f == [j \in ToSet(objs) |-> row(j)]
  <2>1. IsSeq(objs) /\ DOMAIN objs = 1..Len(objs) /\ \A i \in 1..Len(objs) : objs[i] \in ToSet(objs)
    BY RepliesAreSeqs, SeqDomain
  <2>2. Places(objs, key) = [i \in DOMAIN objs |-> row(objs[i])]
    BY Zenon DEF Places
  <2>3. ASSUME NEW j \in ToSet(objs) PROVE RowAddresses(f[j]) \subseteq Int64
    <3>1. I64(j, key, 0) \in Int64
      BY PlaceIsInt64
    <3>2. DOMAIN f[j] = {"addr"} /\ f[j].addr = I64(j, key, 0)
      OBVIOUS
    <3> HIDE DEF f
    <3> QED BY <3>1, <3>2, AddrRow
  <2>4. \A i \in DOMAIN objs : row(objs[i]) = f[objs[i]]
    BY <2>1
  <2> HIDE DEF objs, row, f
  <2>5. Places(objs, key) = [i \in DOMAIN objs |-> f[objs[i]]]
    BY <2>2, <2>4
  <2> QED BY <2>1, <2>3, <2>5, MappedAddressed DEF objs
<1>4. /\ ImportsCache(m) = Places(Elements(Reply(m, "iij")), "plt")
      /\ ExportsCache(m) = Places(Elements(Reply(m, "iEj")), "vaddr")
      /\ SectionsCache(m) = Places(Elements(Reply(m, "iSj")), "vaddr")
      /\ SegmentsCache(m) = Places(Elements(Reply(m, "iSSj")), "vaddr")
  BY DEF ImportsCache, ExportsCache, SectionsCache, SegmentsCache, Map, Places
<1> QED BY <1>1, <1>2, <1>3, <1>4

(* The rows of push_array.                                               *)
LEMMA PushedAddressed ==
    ASSUME NEW objs, IsSeq(objs), NEW kind, NEW key, NEW parent, \A j \in ToSet(objs) : Place(j, key) \in Int64
    PROVE  Addressed(PushArray(objs, kind, key, parent))
<1> DEFINE s == PushArray(objs, kind, key, parent)
<1>1. IsSeq(s) /\ Len(s) = Len(objs) /\ \A i \in 1..Len(objs) : s[i] = Pushed(objs[i], kind, key, parent)
  BY PushedFacts
<1>2. \A i \in 1..Len(objs) : objs[i] \in ToSet(objs)
  BY SeqDomain
<1>3. ASSUME NEW r \in ToSet(s) PROVE RowAddresses(r) \subseteq Int64
  <2> HIDE DEF s
  <2>1. PICK i \in 1..Len(objs) : r = Pushed(objs[i], kind, key, parent)
    BY <1>1, SeqDomain
  <2> DEFINE j == objs[i]
  <2>2. DOMAIN r = {"kind", "addr", "name", "full_name"} /\ r.addr = Place(j, key)
    BY <2>1 DEF Pushed
  <2>3. Place(j, key) \in Int64
    BY <1>2
  <2> QED BY <2>2, <2>3, AddrRow
<1> QED BY <1>3 DEF Addressed

(* The places of the functions.                                          *)
LEMMA FunctionPlaces ==
    ASSUME NEW m, IsCore(m)
    PROVE  \A j \in ToSet(Elements(Aflj(m))) : Place(j, "addr") \in Int64
<1>1. ASSUME NEW j \in ToSet(Elements(Aflj(m))) PROVE Place(j, "addr") \in Int64
  <2> DEFINE s == Elements(Aflj(m))
             F == m.funcs
  <2>1. s = [i \in DOMAIN F |-> [k \in {m.key} |-> F[i].entry]]
    BY DEF Aflj, Array, Elements, Map
  <2>2. PICK i \in DOMAIN F : j = [k \in {m.key} |-> F[i].entry]
    BY <2>1, Zenon DEF ToSet
  <2>3. F[i].entry \in Addresses
    <3>1. F[i] \in ToSet(m.funcs)
      BY DEF ToSet
    <3> QED BY <3>1, EntryInSpan
  <2> HIDE DEF F
  <2>4. \A k \in DOMAIN j : j[k] \in Addresses
    BY <2>2, <2>3
  <2>5. I64Addr(j) \in Int64
    BY <2>4, AddressOfReply
  <2> QED BY <2>5 DEF Place
<1> QED BY <1>1

(* The rows of grep.                                                     *)
LEMMA GrepAddressed ==
    ASSUME NEW m, IsCore(m)
    PROVE  Addressed(BuildGrepRows(m))
<1> DEFINE a == PushArray(Elements(Aflj(m)), "func", "addr", "none")
           b == PushArray(Elements(Reply(m, "fj")), "flag", "addr", "none")
           c == PushArray(Elements(Reply(m, "iij")), "import", "plt", "libname")
           d == PushArray(Elements(Reply(m, "iEj")), "export", "vaddr", "none")
           e == PushArray(Elements(Reply(m, "iSj")), "section", "vaddr", "none")
           f == PushArray(Elements(Reply(m, "CCj")), "comment", "addr", "none")
<1>1. BuildGrepRows(m) = a \o b \o c \o d \o e \o f
  BY DEF BuildGrepRows
<1>2. IsSeq(a) /\ IsSeq(b) /\ IsSeq(c) /\ IsSeq(d) /\ IsSeq(e) /\ IsSeq(f)
  <2>1. "fj" \in Commands /\ "iij" \in Commands /\ "iEj" \in Commands /\ "iSj" \in Commands /\ "CCj" \in Commands
    BY DEF Commands
  <2> QED BY <2>1, AfljIsSeq, RepliesAreSeqs, PushedFacts
<1>3. Addressed(a)
  BY AfljIsSeq, FunctionPlaces, PushedAddressed
<1>4. ASSUME NEW k \in Commands, NEW key \in PlaceKeys, NEW kind, NEW parent
      PROVE  Addressed(PushArray(Elements(Reply(m, k)), kind, key, parent))
  <2>1. \A j \in ToSet(Elements(Reply(m, k))) : Place(j, key) \in Int64
    BY PlaceIsInt64
  <2>2. IsSeq(Elements(Reply(m, k)))
    BY RepliesAreSeqs
  <2> QED BY <2>1, <2>2, PushedAddressed
<1>5. Addressed(b) /\ Addressed(c) /\ Addressed(d) /\ Addressed(e) /\ Addressed(f)
  <2>1. "fj" \in Commands /\ "iij" \in Commands /\ "iEj" \in Commands /\ "iSj" \in Commands /\ "CCj" \in Commands
        /\ "addr" \in PlaceKeys /\ "plt" \in PlaceKeys /\ "vaddr" \in PlaceKeys
    BY DEF Commands, PlaceKeys
  <2> QED BY <1>4, <2>1
<1> HIDE DEF a, b, c, d, e, f
<1>6. IsSeq(a \o b) /\ Addressed(a \o b)
  BY <1>2, <1>3, <1>5, BothAddressed
<1>7. IsSeq(a \o b \o c) /\ Addressed(a \o b \o c)
  BY <1>2, <1>5, <1>6, BothAddressed
<1>8. IsSeq(a \o b \o c \o d) /\ Addressed(a \o b \o c \o d)
  BY <1>2, <1>5, <1>7, BothAddressed
<1>9. IsSeq(a \o b \o c \o d \o e) /\ Addressed(a \o b \o c \o d \o e)
  BY <1>2, <1>5, <1>8, BothAddressed
<1>10. Addressed(a \o b \o c \o d \o e \o f)
  BY <1>2, <1>5, <1>9, BothAddressed
<1> QED BY <1>1, <1>10, Zenon

(* The rows of welcome, which have no address.                           *)
LEMMA WelcomeAddressed ==
    ASSUME NEW m, IsCore(m)
    PROVE  Addressed(WelcomeCache(m))
<1> DEFINE a == AddCount("func_count", Aflj(m))
           b == AddCount("string_count", Reply(m, "izj"))
           c == AddCount("import_count", Reply(m, "iij"))
           d == AddCount("section_count", Reply(m, "iSj"))
           e == AddCount("segment_count", Reply(m, "iSSj"))
<1>1. WelcomeCache(m) = a \o b \o c \o d \o e
  BY DEF WelcomeCache
<1>2. ASSUME NEW key, NEW reply PROVE IsSeq(AddCount(key, reply)) /\ Addressed(AddCount(key, reply))
  <2> DEFINE n == Len(Elements(reply))
             x == [key |-> key, value |-> n]
  <2>1. AddCount(key, reply) = <<x>>
    BY DEF AddCount
  <2> HIDE DEF n
  <2>2. RowAddresses(x) \subseteq Int64
    <3>1. DOMAIN x = {"key", "value"}
      OBVIOUS
    <3> HIDE DEF x
    <3> QED BY <3>1, AddrRow
  <2> HIDE DEF x
  <2> QED BY <2>1, <2>2, OneIsSeq, OneAddressed
<1>3. /\ IsSeq(a) /\ IsSeq(b) /\ IsSeq(c) /\ IsSeq(d) /\ IsSeq(e)
      /\ Addressed(a) /\ Addressed(b) /\ Addressed(c) /\ Addressed(d) /\ Addressed(e)
  BY <1>2
<1> HIDE DEF a, b, c, d, e
<1>4. IsSeq(a \o b) /\ Addressed(a \o b)
  BY <1>3, BothAddressed
<1>5. IsSeq(a \o b \o c) /\ Addressed(a \o b \o c)
  BY <1>3, <1>4, BothAddressed
<1>6. IsSeq(a \o b \o c \o d) /\ Addressed(a \o b \o c \o d)
  BY <1>3, <1>5, BothAddressed
<1>7. Addressed(a \o b \o c \o d \o e)
  BY <1>3, <1>6, BothAddressed
<1> QED BY <1>1, <1>7, Zenon

(* Addressed lists put together.                                         *)
LEMMA JoinedAddressed ==
    ASSUME NEW s, IsSeq(s), NEW g, \A k \in ToSet(s) : IsSeq(g[k]) /\ Addressed(g[k])
    PROVE  IsSeq(Joined(s, g)) /\ Addressed(Joined(s, g))
<1> DEFINE T == UNION {ToSet(g[k]) : k \in ToSet(s)}
<1>1. s \in Seq(ToSet(s)) /\ \A i \in 1..Len(s) : s[i] \in ToSet(s)
  BY SeqDomain DEF IsSeq
<1>2. ASSUME NEW i \in 1..Len(s) PROVE g[s[i]] \in Seq(T)
  <2> DEFINE A == ToSet(g[s[i]])
  <2>1. s[i] \in ToSet(s)
    BY <1>1
  <2>2. g[s[i]] \in Seq(A)
    BY <2>1 DEF IsSeq
  <2>3. A \subseteq T
    BY <2>1
  <2> HIDE DEF A, T
  <2> QED BY <2>2, <2>3, SeqMonotonic
<1>3. \A x \in T : RowAddresses(x) \subseteq Int64
  BY DEF Addressed
<1> HIDE DEF T
<1>4. Joined(s, g) \in Seq(T)
  BY <1>1, <1>2, JoinedFacts
<1>5. ToSet(Joined(s, g)) \subseteq T /\ IsSeq(Joined(s, g))
  BY <1>4, InSeq
<1> QED BY <1>3, <1>5 DEF Addressed

(* The rows of types and members, which have no address.                 *)
LEMMA TypesAddressed ==
    ASSUME NEW m, IsCore(m)
    PROVE  Addressed(TypesCache(m)) /\ Addressed(MembersCache(m))
<1>1. Addressed(TypesCache(m))
  <2> DEFINE g == [k \in TypeKinds(m) |-> [name |-> k.name, kind |-> k.kind, size |-> TypeSize(m, k)]]
             S == {g[k] : k \in TypeKinds(m)}
  <2>1. TypesCache(m) = SetToSeq(S)
    BY Zenon DEF TypesCache
  <2>2. \A k \in TypeKinds(m) : DOMAIN g[k] = {"name", "kind", "size"}
    OBVIOUS
  <2> HIDE DEF g
  <2>3. IsFiniteSet(S)
    BY TypesAreSeqs, FiniteImage
  <2>4. \A x \in S : RowAddresses(x) \subseteq Int64
    BY <2>2, AddrRow
  <2> HIDE DEF S
  <2> QED BY <2>1, <2>3, <2>4, SeqOfSet DEF Addressed
<1>2. Addressed(MembersCache(m))
  <2> DEFINE s == SetToSeq(TypeKinds(m))
             g == [k \in ToSet(s) |-> MembersOf(m, k)]
  <2>1. MembersCache(m) = Joined(s, g)
    BY Zenon DEF MembersCache, Gather
  <2>2. IsSeq(s)
    BY TypesAreSeqs, SeqOfSet
  <2>3. ASSUME NEW k PROVE Addressed(MembersOf(m, k))
    <3> DEFINE F == Definition(m, k).fields
               out(f) == MemberOf(k, f)
               t == [i \in DOMAIN F |-> out(F[i])]
    <3>1. MembersOf(m, k) = <<>> \/ MembersOf(m, k) = t
      BY Zenon DEF MembersOf, Map
    <3>2. \A i \in DOMAIN F : DOMAIN t[i] = {"type_name", "parent_kind", "offset", "size", "array_size"}
      <4>1. \A f : DOMAIN out(f) = {"type_name", "parent_kind", "offset", "size", "array_size"}
        BY DEF MemberOf, Member
      <4> QED BY <4>1
    <3>3. DOMAIN t = DOMAIN F
      OBVIOUS
    <3> HIDE DEF t
    <3>4. \A x \in ToSet(t) : DOMAIN x = {"type_name", "parent_kind", "offset", "size", "array_size"}
      BY <3>2, <3>3, Zenon DEF ToSet
    <3>5. Addressed(t)
      BY <3>4, AddrRow DEF Addressed
    <3> QED BY <3>1, <3>5, NoneAddressed
  <2>4. \A k \in ToSet(s) : IsSeq(g[k]) /\ Addressed(g[k])
    <3>1. \A k \in ToSet(s) : g[k] = MembersOf(m, k)
      BY Zenon
    <3> HIDE DEF g, s
    <3> QED BY <2>3, <3>1, MembersAreSeqs
  <2> HIDE DEF s, g
  <2> QED BY <2>1, <2>2, <2>4, JoinedAddressed
<1> QED BY <1>1, <1>2

(* The ends of a reference, as signed numbers.                           *)
LEMMA RefAddresses ==
    ASSUME NEW m, IsCore(m), NEW r \in ToSet(m.refs)
    PROVE  ToSigned(r.from) \in Int64 /\ ToSigned(r.to) \in Int64
BY RefsFacts, SignedIsInt64

(* The rows of xrefs.                                                    *)
LEMMA XrefsAddressed ==
    ASSUME NEW m, IsCore(m)
    PROVE  /\ Addressed(XrefsCache(m))
           /\ \A v \in Int64 : Addressed(XrefsToAddr(m, v)) /\ Addressed(XrefsFromAddr(m, v))
<1>1. Addressed(XrefsCache(m))
  <2> SUFFICES ASSUME NEW x \in ToSet(XrefsCache(m)) PROVE RowAddresses(x) \subseteq Int64
    BY DEF Addressed
  <2>1. x \in RefRows(m)
    BY CacheOffers
  <2>2. \E r \in ToSet(m.refs), f \in ToSet(m.funcs) : x = XrefRow(ToSigned(r.from), ToSigned(r.to), f.entry)
    BY <2>1 DEF RefRows, RefRow
  <2> QED BY <2>2, RefAddresses, XrefAddresses
<1>2. ASSUME NEW v \in Int64 PROVE Addressed(XrefsToAddr(m, v))
  <2> DEFINE s == RefsTo(m, HexAddr(v))
             t == XrefsToRows(m, v)
  <2>1. IsSeq(s) /\ \A r \in ToSet(s) : r \in ToSet(m.refs)
    BY RefsFacts DEF RefsTo
  <2>2. t = [i \in DOMAIN s |-> XrefRow(ToSigned(s[i].from), v, NameAt(m, s[i].from))]
    BY DEF XrefsToRows
  <2>3. XrefsToAddr(m, v) = t
    BY FilteredXrefs
  <2> HIDE DEF s, t
  <2>4. ASSUME NEW x \in ToSet(t) PROVE RowAddresses(x) \subseteq Int64
    <3>1. PICK i \in DOMAIN s : x = XrefRow(ToSigned(s[i].from), v, NameAt(m, s[i].from))
      BY <2>2 DEF ToSet
    <3>2. s[i] \in ToSet(m.refs)
      BY <2>1 DEF ToSet
    <3> QED BY <3>1, <3>2, RefAddresses, XrefAddresses
  <2> QED BY <2>3, <2>4 DEF Addressed
<1>3. ASSUME NEW v \in Int64 PROVE Addressed(XrefsFromAddr(m, v))
  <2> DEFINE s == RefsFrom(m, HexAddr(v))
             t == XrefsFromRows(m, v)
             name == NameAt(m, HexAddr(v))
  <2>1. IsSeq(s) /\ \A r \in ToSet(s) : r \in ToSet(m.refs)
    BY RefsFacts DEF RefsFrom
  <2>2. t = [i \in DOMAIN s |-> XrefRow(ToSigned(s[i].from), ToSigned(s[i].to), name)]
    BY DEF XrefsFromRows
  <2>3. XrefsFromAddr(m, v) = t
    BY FilteredXrefs
  <2> HIDE DEF s, t, name
  <2>4. ASSUME NEW x \in ToSet(t) PROVE RowAddresses(x) \subseteq Int64
    <3>1. PICK i \in DOMAIN s : x = XrefRow(ToSigned(s[i].from), ToSigned(s[i].to), name)
      BY <2>2 DEF ToSet
    <3>2. s[i] \in ToSet(m.refs)
      BY <2>1 DEF ToSet
    <3> QED BY <3>1, <3>2, RefAddresses, XrefAddresses
  <2> QED BY <2>3, <2>4 DEF Addressed
<1> QED BY <1>1, <1>2, <1>3

(* The rows of every cache.                                              *)
LEMMA CachesAddressed ==
    ASSUME NEW m, IsCore(m), NEW q, q.table \in Cached
    PROVE  Addressed(CacheOf(q, m))
<1>1. CASE q.table = "xrefs"
  <2>1. CacheOf(q, m) = XrefsCache(m)
    BY <1>1 DEF CacheOf
  <2> QED BY <2>1, XrefsAddressed
<1>2. CASE q.table = "strings"
  <2>1. \A used : Addressed(StringsCache(m, used))
    BY ListingsAddressed
  <2>2. CacheOf(q, m) = StringsCache(m, IF q.column = "text" THEN {4} ELSE {})
    BY <1>2 DEF CacheOf
  <2> QED BY <2>1, <2>2, Zenon
<1>3. CASE q.table \in {"imports", "exports", "sections", "segments"}
  <2>1. CacheOf(q, m) \in {ImportsCache(m), ExportsCache(m), SectionsCache(m), SegmentsCache(m)}
    BY <1>3 DEF CacheOf
  <2> QED BY <2>1, ListingsAddressed
<1>4. CASE q.table \in {"types", "types_members"}
  <2>1. CacheOf(q, m) \in {TypesCache(m), MembersCache(m)}
    BY <1>4 DEF CacheOf
  <2> QED BY <2>1, TypesAddressed
<1>5. CASE q.table = "welcome"
  <2>1. CacheOf(q, m) = WelcomeCache(m)
    BY <1>5 DEF CacheOf
  <2> QED BY <2>1, WelcomeAddressed
<1>6. CASE q.table = "grep"
  <2>1. CacheOf(q, m) = BuildGrepRows(m)
    BY <1>6 DEF CacheOf
  <2> QED BY <2>1, GrepAddressed
<1> QED BY <1>1, <1>2, <1>3, <1>4, <1>5, <1>6 DEF Cached, Listings

(* The rows of every filter.                                             *)
LEMMA FiltersAddressed ==
    ASSUME NEW m, IsCore(m), NEW q, q.table \in Streamed \cup {"xrefs", "grep"},
           q.table \in Streamed \cup {"xrefs"} => q.value \in Int64
    PROVE  Addressed(FilterOf(q, m))
<1>1. CASE q.table \in Streamed
  <2>1. FilterOf(q, m) = Found(q.table, m)[q.value]
    BY <1>1 DEF FilterOf, Streamed
  <2> QED BY <1>1, <2>1, FoundFacts DEF Addressed
<1>2. CASE q.table = "xrefs"
  <2>1. FilterOf(q, m) \in {XrefsToAddr(m, q.value), XrefsFromAddr(m, q.value)}
    BY <1>2 DEF FilterOf, Streamed
  <2> QED BY <1>2, <2>1, XrefsAddressed
<1>3. CASE q.table = "grep"
  <2>1. FilterOf(q, m) = Matching(BuildGrepRows(m), q.value)
    BY <1>3 DEF FilterOf, Streamed
  <2> DEFINE s == BuildGrepRows(m)
  <2>2. \A r : r \in ToSet(Matching(s, q.value)) => r \in ToSet(s)
    BY WelcomeAndGrepAreSeqs, MatchingFacts DEF Matches
  <2>3. Addressed(s)
    BY GrepAddressed
  <2> HIDE DEF s
  <2> QED BY <2>1, <2>2, <2>3 DEF Addressed, s
<1> QED BY <1>1, <1>2, <1>3

(* Every step keeps RowsInv.                                             *)
LEMMA RowsStep ==
    ASSUME MemInv, CursorInv, RowsInv, [Next]_vars
    PROVE  RowsInv'
<1> DEFINE A(s) == \A row \in ToSet(s) : RowAddresses(row) \subseteq Int64
<1>1. pc # "done" => IsCore(mem)
  <2>1. query.table # "comments" \/ pc # "done" => IsCore(mem)
    BY MemIsCore
  <2> QED BY <2>1
<1>2. query \in Queries /\ IsSeq(rows) /\ IsSeq(buf) /\ Addressed(rows) /\ Addressed(buf)
  BY DEF MemInv, CursorInv, RowsInv
<1>3. SUFFICES Addressed(rows)' /\ Addressed(buf)'
  BY DEF RowsInv
<1>4. ASSUME NEW s, buf' = s, Addressed(s) PROVE Addressed(buf)'
  BY <1>4 DEF Addressed, RowAddresses
<1>5. ASSUME NEW s, rows' = s, Addressed(s) PROVE Addressed(rows)'
  BY <1>5 DEF Addressed, RowAddresses
<1>6. ASSUME NEW row, HandOut(row), RowAddresses(row) \subseteq Int64 PROVE Addressed(rows)'
  <2>1. Addressed(Append(rows, row))
    BY <1>2, <1>6, AppendIsSeq DEF Addressed
  <2>2. rows' \in {rows, Append(rows, row)}
    BY <1>6 DEF HandOut
  <2> QED BY <1>2, <1>5, <2>1, <2>2
<1>7. CASE StartScan \/ HandEnd \/ InsertComment \/ OpenProject \/ UNCHANGED vars
  <2>1. buf' = buf /\ rows' = rows
    BY <1>7 DEF StartScan, Started, HandEnd, GoesOn, InsertComment, OpenProject, vars
  <2> QED BY <1>2, <1>4, <1>5, <2>1
<1>8. CASE StartBuild
  <2>1. pc = "plan" /\ buf' = CacheOf(query, mem) /\ rows' = rows /\ query.table \in Cached
    BY <1>8 DEF StartBuild, Started
  <2>2. Addressed(CacheOf(query, mem))
    BY <1>1, <2>1, CachesAddressed
  <2> QED BY <1>2, <1>4, <1>5, <2>1, <2>2
<1>9. CASE StartFilter
  <2>1. pc = "plan" /\ buf' = FilterOf(query, mem) /\ rows' = rows /\ query.column \in FilterColumns(query.table)
    BY <1>9 DEF StartFilter, Started
  <2>2. query.table \in Streamed \cup {"xrefs", "grep"}
    BY <2>1 DEF FilterColumns
  <2>3. query.table \in Streamed \cup {"xrefs"} => query.column \in {"func_addr", "from_addr", "to_addr"}
    BY <2>1 DEF FilterColumns, Streamed
  <2>4. query.table \in Streamed \cup {"xrefs"} => query.value \in Int64
    BY <1>2, <2>3, QueriesAssumption
  <2>5. Addressed(FilterOf(query, mem))
    BY <1>1, <2>1, <2>2, <2>4, FiltersAddressed
  <2> QED BY <1>2, <1>4, <1>5, <2>1, <2>5
<1>10. CASE HandRead
  <2>1. buf # <<>> /\ HandOut(Head(buf)) /\ buf' = Tail(buf)
    BY <1>10 DEF HandRead
  <2>2. Head(buf) \in ToSet(buf) /\ \A x \in ToSet(Tail(buf)) : x \in ToSet(buf)
    BY <1>2, <2>1, TailIsSeq
  <2>3. RowAddresses(Head(buf)) \subseteq Int64 /\ Addressed(Tail(buf))
    BY <1>2, <2>2 DEF Addressed
  <2> QED BY <1>4, <1>6, <2>1, <2>3
<1>11. CASE HandFirst
  <2>1. PICK k \in DOMAIN funcs_ :
            LET found == Found(query.table, mem) IN
            FirstAt(k, found) /\ HandOut(Head(found[funcs_[k]])) /\ buf' = Tail(found[funcs_[k]])
    BY <1>11 DEF HandFirst
  <2>2. pc = "rows" /\ query.table \in Streamed /\ funcs_[k] \in Int64
    BY <1>11 DEF HandFirst, GoesOn, CursorInv
  <2> DEFINE s == Found(query.table, mem)[funcs_[k]]
  <2>3. IsSeq(s) /\ s # <<>> /\ Addressed(s)
    BY <1>1, <2>1, <2>2, FoundFacts DEF FirstAt, Addressed
  <2>4. buf' = Tail(s) /\ HandOut(Head(s))
    BY <2>1
  <2> HIDE DEF s
  <2>5. Head(s) \in ToSet(s) /\ \A x \in ToSet(Tail(s)) : x \in ToSet(s)
    BY <2>3, TailIsSeq
  <2>6. RowAddresses(Head(s)) \subseteq Int64 /\ Addressed(Tail(s))
    BY <2>3, <2>5 DEF Addressed
  <2> QED BY <1>4, <1>6, <2>4, <2>6
<1> QED BY StepShapes, <1>7, <1>8, <1>9, <1>10, <1>11

(***************************************************************************)
(* The tables of what is in the file                                       *)
(***************************************************************************)

Marked(s, K, n) == {i \in 1..n : s[i] \in K}

(* Counting one place more.                                              *)
LEMMA OneMore ==
    ASSUME NEW s, NEW K, NEW n \in Nat
    PROVE  /\ Marked(s, K, 0) = {} /\ IsFiniteSet(Marked(s, K, n)) /\ Cardinality(Marked(s, K, n)) \in Nat
           /\ Cardinality(Marked(s, K, n + 1)) = Cardinality(Marked(s, K, n)) + IF s[n + 1] \in K THEN 1 ELSE 0
<1> DEFINE A == Marked(s, K, n)
           B == Marked(s, K, n + 1)
<1>1. Marked(s, K, 0) = {}
  BY DEF Marked
<1>2. IsFiniteSet(A) /\ Cardinality(A) \in Nat
  <2>1. IsFiniteSet(1..n) /\ A \subseteq 1..n
    BY FS_Interval DEF Marked
  <2>2. IsFiniteSet(A)
    BY <2>1, FS_Subset
  <2> QED BY <2>2, FS_CardinalityType
<1>3. CASE s[n + 1] \in K
  <2>1. B = A \cup {n + 1} /\ n + 1 \notin A
    BY <1>3 DEF Marked
  <2> HIDE DEF A, B
  <2>2. Cardinality(B) = Cardinality(A) + 1
    BY <1>2, <2>1, FS_AddElement
  <2> QED BY <1>1, <1>2, <1>3, <2>2 DEF A, B
<1>4. CASE s[n + 1] \notin K
  <2>1. B = A
    BY <1>4 DEF Marked
  <2> HIDE DEF A, B
  <2> QED BY <1>1, <1>2, <1>4, <2>1 DEF A, B
<1> QED BY <1>3, <1>4

(* As many elements are chosen as there are places that hold one.          *)
LEMMA ChosenCount ==
    ASSUME NEW S, NEW s \in Seq(S), NEW K
    PROVE  Len(Chosen(s, K)) = Cardinality(Marked(s, K, Len(s)))
<1> DEFINE f == Pick(ToSet(s), K)
           n == Len(s)
<1>1. \A i \in 1..n : s[i] \in ToSet(s) /\ s[i] \in S
  BY DEF ToSet
<1>2. ASSUME NEW i \in 1..n PROVE f[s[i]] = IF s[i] \in K THEN <<s[i]>> ELSE <<>>
  BY <1>1, Picked
<1> HIDE DEF f
<1>3. PICK up : JoinsUpTo(up, s, f, n) /\ Joined(s, f) = up[n]
  BY JoinedSteps
<1>4. n \in Nat /\ n \in 0..n
  OBVIOUS
<1> DEFINE B == {i \in 0..n : up[i] \in Seq(S) /\ Len(up[i]) = Cardinality(Marked(s, K, i))}
<1>5. 0 \in B
  <2>1. up[0] = <<>>
    BY <1>3 DEF JoinsUpTo
  <2>2. Cardinality(Marked(s, K, 0)) = 0
    BY OneMore, FS_EmptySet
  <2>3. <<>> \in Seq(S) /\ Len(<<>>) = 0
    OBVIOUS
  <2>4. up[0] \in Seq(S) /\ Len(up[0]) = Cardinality(Marked(s, K, 0))
    BY <2>1, <2>2, <2>3, Zenon
  <2>5. 0 \in 0..n
    BY <1>4
  <2> QED BY <2>4, <2>5, Zenon
<1>6. ASSUME NEW i \in 1..n, i - 1 \in B PROVE i \in B
  <2>1. up[i] = up[i - 1] \o f[s[i]]
    BY <1>3, Zenon DEF JoinsUpTo
  <2> DEFINE a == up[i - 1]
             c == Cardinality(Marked(s, K, i - 1))
  <2>2. a \in Seq(S) /\ Len(a) = c /\ i - 1 \in Nat /\ (i - 1) + 1 = i
    BY <1>4, <1>6
  <2>3. c \in Nat /\ Cardinality(Marked(s, K, i)) = c + IF s[i] \in K THEN 1 ELSE 0
    <3> DEFINE j == i - 1
    <3> HIDE DEF j
    <3>1. j \in Nat /\ j + 1 = i
      BY <2>2 DEF j
    <3>2. /\ Cardinality(Marked(s, K, j)) \in Nat
          /\ Cardinality(Marked(s, K, j + 1)) = Cardinality(Marked(s, K, j)) + IF s[j + 1] \in K THEN 1 ELSE 0
      BY <3>1, OneMore
    <3> QED BY <3>1, <3>2 DEF j
  <2> HIDE DEF a, c, B
  <2>4. CASE s[i] \in K
    <3>1. f[s[i]] = <<s[i]>> /\ s[i] \in S
      BY <1>1, <1>2, <2>4
    <3>2. up[i] = a \o <<s[i]>>
      BY <2>1, <3>1, Zenon DEF a
    <3>3. a \o <<s[i]>> \in Seq(S) /\ Len(a \o <<s[i]>>) = Len(a) + 1
      BY <2>2, <3>1
    <3>4. up[i] \in Seq(S) /\ Len(up[i]) = Len(a) + 1
      BY <3>2, <3>3, Zenon
    <3>5. Len(up[i]) = Cardinality(Marked(s, K, i))
      BY <2>2, <2>3, <2>4, <3>4
    <3> QED BY <3>4, <3>5 DEF B
  <2>5. CASE s[i] \notin K
    <3>1. f[s[i]] = <<>>
      BY <1>2, <2>5
    <3>2. up[i] = a \o <<>>
      BY <2>1, <3>1, Zenon DEF a
    <3>3. a \o <<>> = a
      BY <2>2
    <3>4. up[i] \in Seq(S) /\ Len(up[i]) = Len(a)
      BY <2>2, <3>2, <3>3, Zenon
    <3>5. Len(up[i]) = Cardinality(Marked(s, K, i))
      BY <2>2, <2>3, <2>5, <3>4
    <3> QED BY <3>4, <3>5 DEF B
  <2> QED BY <2>4, <2>5
<1>7. \A i \in 0..n : i \in B
  <2> HIDE DEF B
  <2> QED BY <1>4, <1>5, <1>6, StepByStep
<1>8. Len(up[n]) = Cardinality(Marked(s, K, n))
  BY <1>4, <1>7
<1> QED BY <1>3, <1>8 DEF Chosen, f

(* Each listing has a row for each object of its reply.                    *)
KeyOf(table) == IF table = "imports" THEN "plt" ELSE "vaddr"

(* The rows of a listing that are kept are those counted.                *)
LEMMA ListingRows ==
    ASSUME NEW m, IsCore(m), NEW q, q.table \in Listings
    PROVE  LET objs == Elements(Reply(m, Source(q.table)))
               s == CacheOf(q, m)
           IN /\ Source(q.table) \in Commands /\ IsSeq(objs) /\ IsSeq(s) /\ Len(s) = Len(objs)
              /\ \A i \in 1..Len(objs) : s[i].addr = I64(objs[i], KeyOf(q.table), 0)
              /\ q.table = "strings" /\ q.column = "text" => \A i \in 1..Len(objs) : s[i].text = objs[i].string
<1> DEFINE objs == Elements(Reply(m, Source(q.table)))
           s == CacheOf(q, m)
<1>1. Source(q.table) \in Commands
  BY DEF Source, Commands, Listings
<1>2. IsSeq(objs) /\ Len(objs) \in Nat /\ DOMAIN objs = 1..Len(objs)
  BY <1>1, RepliesAreSeqs, SeqDomain
<1>3. IsSeq(s)
  BY CachesAreSeqs DEF Cached
<1>4. CASE q.table = "strings"
  <2> DEFINE used == IF q.column = "text" THEN {4} ELSE {}
             row(j) == [addr |-> I64(j, "vaddr", 0), text |-> IF used \cap {4, 63} # {} THEN j.string ELSE ""]
  <2>1. objs = Elements(Reply(m, "izj")) /\ s = StringsCache(m, used) /\ KeyOf(q.table) = "vaddr"
    BY <1>4 DEF CacheOf, Source, KeyOf
  <2>2. StringsCache(m, used) = [i \in DOMAIN Elements(Reply(m, "izj")) |-> row(Elements(Reply(m, "izj"))[i])]
    BY Zenon DEF StringsCache, Map
  <2>3. s = [i \in DOMAIN objs |-> row(objs[i])]
    BY <2>1, <2>2, Zenon
  <2>4. \A j : row(j).addr = I64(j, "vaddr", 0)
    BY Zenon
  <2>5. q.column = "text" => \A j : row(j).text = j.string
    <3>1. q.column = "text" => used \cap {4, 63} # {}
      OBVIOUS
    <3> HIDE DEF used
    <3> QED BY <3>1
  <2> HIDE DEF objs, s, row
  <2>6. Len(s) = Len(objs)
    <3>1. DOMAIN s = 1..Len(objs)
      BY <1>2, <2>3
    <3> QED BY <1>2, <1>3, <3>1, SeqDomain
  <2>7. \A i \in 1..Len(objs) : s[i] = row(objs[i])
    BY <1>2, <2>3
  <2> QED BY <1>1, <1>2, <1>3, <2>1, <2>4, <2>5, <2>6, <2>7 DEF objs, s
<1>5. CASE q.table # "strings"
  <2> DEFINE key == KeyOf(q.table)
             row(j) == [addr |-> I64(j, key, 0)]
  <2>1. s = Places(objs, key)
    <3>1. /\ ImportsCache(m) = Places(Elements(Reply(m, "iij")), "plt")
          /\ ExportsCache(m) = Places(Elements(Reply(m, "iEj")), "vaddr")
          /\ SectionsCache(m) = Places(Elements(Reply(m, "iSj")), "vaddr")
          /\ SegmentsCache(m) = Places(Elements(Reply(m, "iSSj")), "vaddr")
      BY DEF ImportsCache, ExportsCache, SectionsCache, SegmentsCache, Map, Places
    <3> QED BY <1>5, <3>1 DEF Listings, CacheOf, Source, KeyOf
  <2>2. s = [i \in DOMAIN objs |-> row(objs[i])]
    BY <2>1, Zenon DEF Places
  <2>3. \A j : row(j).addr = I64(j, key, 0)
    BY Zenon
  <2> HIDE DEF objs, s, row
  <2>6. Len(s) = Len(objs)
    <3>1. DOMAIN s = 1..Len(objs)
      BY <1>2, <2>2
    <3> QED BY <1>2, <1>3, <3>1, SeqDomain
  <2>7. \A i \in 1..Len(objs) : s[i] = row(objs[i])
    BY <1>2, <2>2
  <2> QED BY <1>1, <1>2, <1>3, <1>5, <2>3, <2>6, <2>7 DEF objs, s
<1> QED BY <1>4, <1>5

(* A scan keeps what it is to keep of the whole cache.                     *)
LEMMA CacheIsKept ==
    ASSUME MemInv, CursorInv, AnswerInv, pc = "done", mem = before, query.table \in Cached, plan = "scan"
    PROVE  /\ IsCore(mem) /\ query \in Queries /\ IsSeq(rows) /\ IsSeq(CacheOf(query, mem))
           /\ rows = Kept(query, CacheOf(query, mem))
           /\ \A r : r \in ToSet(rows) <=> r \in ToSet(CacheOf(query, mem)) /\ Keeps(r)
<1>1. IsCore(mem) /\ query \in Queries
  BY MemIsCore DEF Cached, Listings
<1> DEFINE s == CacheOf(query, mem)
<1>2. rows = Kept(query, Offered(query, plan, mem)) /\ IsSeq(rows)
  BY NothingIsLeft
<1>3. Offered(query, plan, mem) = s
  BY DEF Offered, Cached, Streamed, Listings
<1>4. IsSeq(s)
  BY <1>1, CachesAreSeqs
<1> HIDE DEF s
<1>5. \A r : r \in ToSet(rows) <=> r \in ToSet(s) /\ Keeps(r)
  BY <1>2, <1>3, <1>4, KeptFacts DEF KeptSet, Keeps
<1> QED BY <1>1, <1>2, <1>3, <1>4, <1>5 DEF s

(* The listings are what radare2 has listed.                             *)
LEMMA ListingsRight ==
    ASSUME MemInv, CursorInv, AnswerInv, pc = "done", mem = before, query.table \in Listings
    PROVE  ListingRight
<1> DEFINE c == Source(query.table)
           objs == Elements(Reply(mem, c))
           s == CacheOf(query, mem)
           K == KeptSet(query, s)
           wanted == {i \in 1..Len(mem.listed[c]) :
                         /\ c \notin mem.mute
                         /\ query.column = "text" => mem.listed["izj"][i].string = query.value}
<1>1. plan = "scan" /\ query.table \in Cached
  BY DEF CursorInv, FilterColumns, Listings, Streamed, Cached
<1>2. /\ IsCore(mem) /\ query \in Queries /\ IsSeq(rows) /\ IsSeq(s) /\ rows = Kept(query, s)
      /\ \A r : r \in ToSet(rows) => r \in ToSet(s)
  BY <1>1, CacheIsKept
<1>3. query.column \in {"none", "text"} /\ (query.column = "text" => query.table = "strings")
  BY <1>2, QueriesAssumption DEF Listings
<1>4. /\ c \in Commands /\ IsSeq(objs) /\ Len(s) = Len(objs)
      /\ \A i \in 1..Len(objs) : s[i].addr = I64(objs[i], KeyOf(query.table), 0)
      /\ query.table = "strings" /\ query.column = "text" => \A i \in 1..Len(objs) : s[i].text = objs[i].string
  BY <1>2, ListingRows
<1>5. objs = IF c \in mem.mute THEN <<>> ELSE mem.listed[c]
  BY DEF Elements, Reply, Null, Array
<1>6. query.column = "text" => c = "izj"
  BY <1>3 DEF Source
<1>7. Len(rows) = Cardinality(wanted)
  <2>1. s \in Seq(ToSet(s)) /\ Len(s) \in Nat /\ \A i \in 1..Len(s) : s[i] \in ToSet(s)
    BY <1>2, SeqDomain DEF IsSeq
  <2>2. Len(rows) = Cardinality(Marked(s, K, Len(s)))
    <3>1. rows = Chosen(s, K)
      BY <1>2, KeptIs
    <3> QED BY <2>1, <3>1, ChosenCount
  <2>3. ASSUME NEW i \in 1..Len(s) PROVE s[i] \in K <=> (query.column = "text" => objs[i].string = query.value)
    <3>1. s[i] \in K <=> query.column \in {"none", "pattern"} \/ s[i][query.column] = query.value
      <4>1. s[i] \in ToSet(s)
        BY <2>1
      <4> QED BY <4>1, Zenon DEF KeptSet
    <3>2. CASE query.column = "none"
      BY <3>1, <3>2
    <3>3. CASE query.column = "text"
      <4>1. s[i]["text"] = objs[i].string
        BY <1>3, <1>4, <3>3
      <4> QED BY <3>1, <3>3, <4>1
    <3> QED BY <1>3, <3>2, <3>3
  <2>4. Marked(s, K, Len(s)) = wanted
    <3>1. CASE c \in mem.mute
      <4>1. Len(s) = 0 /\ wanted = {}
        BY <1>4, <1>5, <3>1
      <4>2. Marked(s, K, 0) = {}
        BY OneMore
      <4> QED BY <4>1, <4>2
    <3>2. CASE c \notin mem.mute
      <4>1. objs = mem.listed[c]
        BY <1>5, <3>2
      <4>2. Len(s) = Len(mem.listed[c])
        BY <1>4, <4>1
      <4>3. query.column = "text" => \A i : objs[i] = mem.listed["izj"][i]
        BY <1>6, <4>1
      <4> HIDE DEF s, K, objs, c
      <4>4. wanted = {i \in 1..Len(s) : query.column = "text" => objs[i].string = query.value}
        BY <3>2, <4>2, <4>3
      <4> HIDE DEF wanted
      <4> QED BY <2>3, <4>4 DEF Marked
    <3> QED BY <3>1, <3>2
  <2> QED BY <2>2, <2>4
<1>8. ASSUME NEW row \in ToSet(rows), row.addr # 0
      PROVE  \E j \in ToSet(mem.listed[c]), k \in {"plt", "vaddr"} : k \in DOMAIN j /\ HexAddr(row.addr) = j[k]
  <2> DEFINE key == KeyOf(query.table)
  <2>1. row \in ToSet(s)
    BY <1>2
  <2>2. PICK i \in 1..Len(s) : row = s[i]
    BY <1>2, <2>1, SeqDomain
  <2> DEFINE j == objs[i]
  <2>3. row.addr = I64(j, key, 0) /\ j \in ToSet(objs)
    BY <1>4, <2>2, SeqDomain
  <2>4. key \in {"plt", "vaddr"} /\ key \in PlaceKeys
    BY DEF KeyOf, PlaceKeys
  <2>5. j \in ToSet(mem.listed[c]) /\ \A k \in DOMAIN j \cap PlaceKeys : j[k] \in Addresses
    BY <1>2, <1>4, <2>3, RepliesAreSeqs
  <2> HIDE DEF j, key
  <2>6. key \in DOMAIN j /\ row.addr = ToSigned(j[key])
    BY <1>8, <2>3 DEF I64
  <2>7. HexAddr(row.addr) = j[key]
    BY <2>4, <2>5, <2>6, AddressComesBack
  <2> QED BY <2>4, <2>5, <2>6, <2>7
<1> HIDE DEF c, objs, s, K
<1> QED BY <1>7, <1>8, Zenon DEF ListingRight, c

(* The counts are those of the tables.                                     *)
LEMMA CountsRight ==
    ASSUME MemInv, CursorInv, AnswerInv, pc = "done", mem = before, query.table = "welcome"
    PROVE  WelcomeRight
<1> DEFINE s == WelcomeCache(mem)
<1>1. plan = "scan" /\ query.table \in Cached
  BY DEF CursorInv, FilterColumns, Streamed, Cached
<1>2. IsCore(mem) /\ \A r : r \in ToSet(rows) => r \in ToSet(s)
  <2>1. CacheOf(query, mem) = s
    BY DEF CacheOf
  <2> QED BY <1>1, <2>1, CacheIsKept
<1>3. Len(FuncAddrs(mem)) = Len(Elements(Aflj(mem)))
  BY <1>2, AfljIsSeq, FuncAddrsFacts
<1>4. /\ Len(StringsCache(mem, {})) = Len(Elements(Reply(mem, "izj")))
      /\ Len(ImportsCache(mem)) = Len(Elements(Reply(mem, "iij")))
      /\ Len(SectionsCache(mem)) = Len(Elements(Reply(mem, "iSj")))
      /\ Len(SegmentsCache(mem)) = Len(Elements(Reply(mem, "iSSj")))
  BY <1>2, ListingsAreSeqs
<1> DEFINE count(key, reply) == [key |-> key, value |-> Len(Elements(reply))]
           a == count("func_count", Aflj(mem))
           b == count("string_count", Reply(mem, "izj"))
           c == count("import_count", Reply(mem, "iij"))
           d == count("section_count", Reply(mem, "iSj"))
           e == count("segment_count", Reply(mem, "iSSj"))
<1>5. ToSet(s) = {a, b, c, d, e}
  <2>1. s = <<a>> \o <<b>> \o <<c>> \o <<d>> \o <<e>>
    BY Zenon DEF WelcomeCache, AddCount
  <2> HIDE DEF a, b, c, d, e, s
  <2>2. \A h : IsSeq(<<h>>) /\ \A x : x \in ToSet(<<h>>) <=> x = h
    BY OneIsSeq
  <2> DEFINE p == <<a>> \o <<b>>
             q == p \o <<c>>
             r == q \o <<d>>
             t == r \o <<e>>
  <2>3. IsSeq(p) /\ \A x : x \in ToSet(p) <=> x \in {a, b}
    BY <2>2, SeqsTogether
  <2> HIDE DEF p
  <2>4. IsSeq(q) /\ \A x : x \in ToSet(q) <=> x \in {a, b, c}
    BY <2>2, <2>3, SeqsTogether
  <2> HIDE DEF q
  <2>5. IsSeq(r) /\ \A x : x \in ToSet(r) <=> x \in {a, b, c, d}
    BY <2>2, <2>4, SeqsTogether
  <2> HIDE DEF r
  <2>6. \A x : x \in ToSet(t) <=> x \in {a, b, c, d, e}
    BY <2>2, <2>5, SeqsTogether
  <2>7. s = t
    BY <2>1, Zenon DEF p, q, r
  <2> QED BY <2>6, <2>7
<1>6. ASSUME NEW row \in ToSet(rows)
      PROVE  row.value = CASE row.key = "func_count" -> Len(FuncAddrs(mem)) [] row.key = "string_count" -> Len(StringsCache(mem, {}))
                           [] row.key = "import_count" -> Len(ImportsCache(mem)) [] row.key = "section_count" -> Len(SectionsCache(mem))
                           [] row.key = "segment_count" -> Len(SegmentsCache(mem))
  <2>1. row \in {a, b, c, d, e}
    BY <1>2, <1>5
  <2>2. CASE row = a
    BY <1>3, <2>2
  <2>3. CASE row = b
    BY <1>4, <2>3
  <2>4. CASE row = c
    BY <1>4, <2>4
  <2>5. CASE row = d
    BY <1>4, <2>5
  <2>6. CASE row = e
    BY <1>4, <2>6
  <2> QED BY <2>1, <2>2, <2>3, <2>4, <2>5, <2>6
<1> QED BY <1>6, Zenon DEF WelcomeRight

(***************************************************************************)
(* grep                                                                    *)
(***************************************************************************)

PushedOf(objs, kind, key, parent) == {Pushed(j, kind, key, parent) : j \in ToSet(objs)}

(* The rows of push_array are one for each object.                       *)
LEMMA PushedSet ==
    ASSUME NEW objs, IsSeq(objs), NEW kind, NEW key, NEW parent
    PROVE  /\ IsSeq(PushArray(objs, kind, key, parent))
           /\ \A r : r \in ToSet(PushArray(objs, kind, key, parent)) <=> r \in PushedOf(objs, kind, key, parent)
<1> DEFINE s == PushArray(objs, kind, key, parent)
<1>1. IsSeq(s) /\ Len(s) = Len(objs) /\ \A i \in 1..Len(objs) : s[i] = Pushed(objs[i], kind, key, parent)
  BY PushedFacts
<1> HIDE DEF s
<1>2. \A r : r \in ToSet(s) <=> \E i \in 1..Len(s) : r = s[i]
  BY <1>1, SeqDomain
<1>3. \A j : j \in ToSet(objs) <=> \E i \in 1..Len(objs) : j = objs[i]
  BY SeqDomain
<1>4. \A r : r \in ToSet(s) <=> r \in PushedOf(objs, kind, key, parent)
  BY <1>1, <1>2, <1>3 DEF PushedOf
<1> QED BY <1>1, <1>4 DEF s

Pieces(m) ==
    [func |-> PushedOf(Elements(Aflj(m)), "func", "addr", "none"),
     flag |-> PushedOf(Elements(Reply(m, "fj")), "flag", "addr", "none"),
     import |-> PushedOf(Elements(Reply(m, "iij")), "import", "plt", "libname"),
     export |-> PushedOf(Elements(Reply(m, "iEj")), "export", "vaddr", "none"),
     section |-> PushedOf(Elements(Reply(m, "iSj")), "section", "vaddr", "none"),
     comment |-> PushedOf(Elements(Reply(m, "CCj")), "comment", "addr", "none")]

(* The rows of one kind come from one list.                                *)
LEMMA GrepRows ==
    ASSUME NEW m, IsCore(m)
    PROVE  /\ IsSeq(BuildGrepRows(m))
           /\ \A k \in {"func", "flag", "import", "export", "section", "comment"} :
                 \A r : r \in ToSet(BuildGrepRows(m)) /\ r.kind = k <=> r \in Pieces(m)[k]
<1> DEFINE a == PushArray(Elements(Aflj(m)), "func", "addr", "none")
           b == PushArray(Elements(Reply(m, "fj")), "flag", "addr", "none")
           c == PushArray(Elements(Reply(m, "iij")), "import", "plt", "libname")
           d == PushArray(Elements(Reply(m, "iEj")), "export", "vaddr", "none")
           e == PushArray(Elements(Reply(m, "iSj")), "section", "vaddr", "none")
           f == PushArray(Elements(Reply(m, "CCj")), "comment", "addr", "none")
           P == Pieces(m)
<1>1. BuildGrepRows(m) = a \o b \o c \o d \o e \o f
  BY DEF BuildGrepRows
<1>2. /\ "fj" \in Commands /\ "iij" \in Commands /\ "iEj" \in Commands /\ "iSj" \in Commands /\ "CCj" \in Commands
  BY DEF Commands
<1>3. /\ IsSeq(a) /\ \A r : r \in ToSet(a) <=> r \in P.func
      /\ IsSeq(b) /\ \A r : r \in ToSet(b) <=> r \in P.flag
      /\ IsSeq(c) /\ \A r : r \in ToSet(c) <=> r \in P.import
      /\ IsSeq(d) /\ \A r : r \in ToSet(d) <=> r \in P.export
      /\ IsSeq(e) /\ \A r : r \in ToSet(e) <=> r \in P.section
      /\ IsSeq(f) /\ \A r : r \in ToSet(f) <=> r \in P.comment
  BY <1>2, AfljIsSeq, RepliesAreSeqs, PushedSet DEF Pieces
<1>4. /\ \A r \in P.func : r.kind = "func"
      /\ \A r \in P.flag : r.kind = "flag"
      /\ \A r \in P.import : r.kind = "import"
      /\ \A r \in P.export : r.kind = "export"
      /\ \A r \in P.section : r.kind = "section"
      /\ \A r \in P.comment : r.kind = "comment"
  <2>1. ASSUME NEW objs, NEW kind, NEW key, NEW parent, NEW r \in PushedOf(objs, kind, key, parent) PROVE r.kind = kind
    <3>1. PICK j \in ToSet(objs) : r = Pushed(j, kind, key, parent)
      BY DEF PushedOf
    <3> DEFINE full == IF Str(j, parent) = "" THEN <<Str(j, "name")>> ELSE <<Str(j, parent), "!", Str(j, "name")>>
               name == <<Str(j, "name")>>
    <3>2. r = [kind |-> kind, addr |-> Place(j, key), name |-> name, full_name |-> full]
      BY <3>1, Zenon DEF Pushed
    <3> HIDE DEF full, name
    <3> QED BY <3>2
  <2> QED BY <2>1 DEF Pieces
<1> HIDE DEF a, b, c, d, e, f, P
<1> DEFINE ab == a \o b
           abc == ab \o c
           abcd == abc \o d
           abcde == abcd \o e
           all == abcde \o f
<1>5. IsSeq(ab) /\ \A r : r \in ToSet(ab) <=> r \in P.func \/ r \in P.flag
  BY <1>3, SeqsTogether
<1> HIDE DEF ab
<1>6. IsSeq(abc) /\ \A r : r \in ToSet(abc) <=> r \in P.func \/ r \in P.flag \/ r \in P.import
  BY <1>3, <1>5, SeqsTogether
<1> HIDE DEF abc
<1>7. IsSeq(abcd) /\ \A r : r \in ToSet(abcd) <=> r \in P.func \/ r \in P.flag \/ r \in P.import \/ r \in P.export
  BY <1>3, <1>6, SeqsTogether
<1> HIDE DEF abcd
<1>8. /\ IsSeq(abcde)
      /\ \A r : r \in ToSet(abcde) <=> r \in P.func \/ r \in P.flag \/ r \in P.import \/ r \in P.export \/ r \in P.section
  BY <1>3, <1>7, SeqsTogether
<1> HIDE DEF abcde
<1>9. IsSeq(all) /\ \A r : r \in ToSet(all) <=> r \in ToSet(abcde) \/ r \in ToSet(f)
  BY <1>3, <1>8, SeqsTogether
<1> HIDE DEF all
<1>10. \A r : r \in ToSet(all) <=> r \in P.func \/ r \in P.flag \/ r \in P.import \/ r \in P.export \/ r \in P.section \/ r \in P.comment
  BY <1>3, <1>8, <1>9
<1>11. BuildGrepRows(m) = all
  BY <1>1, Zenon DEF ab, abc, abcd, abcde, all
<1>12. ASSUME NEW k \in {"func", "flag", "import", "export", "section", "comment"}, NEW r
       PROVE  r \in ToSet(all) /\ r.kind = k <=> r \in P[k]
  BY <1>4, <1>10
<1> QED BY <1>9, <1>11, <1>12 DEF P

(* The addresses of aflj are those of the functions.                     *)
LEMMA FuncPlaces ==
    ASSUME NEW m, IsCore(m)
    PROVE  \A x : x \in ToSet(FuncAddrs(m)) <=> \E j \in ToSet(Elements(Aflj(m))) : x = I64Addr(j)
<1> DEFINE s == Elements(Aflj(m))
           t == FuncAddrs(m)
<1>1. IsSeq(s)
  BY AfljIsSeq
<1>2. t = [i \in DOMAIN s |-> I64Addr(s[i])]
  BY Zenon DEF FuncAddrs, Map
<1> HIDE DEF s, t
<1>3. DOMAIN t = DOMAIN s
  BY <1>2
<1>4. \A x : x \in ToSet(t) <=> \E j \in ToSet(s) : x = I64Addr(j)
  BY <1>2, <1>3 DEF ToSet
<1> QED BY <1>4 DEF s, t

(* The places of a set of rows.                                          *)
LEMMA PlacesSet ==
    ASSUME NEW objs, NEW key
    PROVE  {r.addr : r \in ToSet(Places(objs, key))} = {I64(j, key, 0) : j \in ToSet(objs)}
<1> DEFINE t == Places(objs, key)
<1>1. DOMAIN t = DOMAIN objs /\ \A i \in DOMAIN objs : t[i].addr = I64(objs[i], key, 0)
  BY DEF Places
<1> HIDE DEF t
<1>2. {r.addr : r \in ToSet(t)} = {I64(j, key, 0) : j \in ToSet(objs)}
  BY <1>1 DEF ToSet
<1> QED BY <1>2 DEF t

PlacesOf(s) == {r.addr : r \in s}
ShownRows(kind) == {r \in ToSet(rows) : r.kind = kind}

(* The places that grep shows are those of the list.                     *)
LEMMA PushedPlaces ==
    ASSUME NEW objs, NEW kind, NEW key, NEW parent
    PROVE  PlacesOf(PushedOf(objs, kind, key, parent)) = {Place(j, key) : j \in ToSet(objs)}
<1>1. \A j : Pushed(j, kind, key, parent).addr = Place(j, key)
  <2> SUFFICES ASSUME NEW j PROVE Pushed(j, kind, key, parent).addr = Place(j, key)
    OBVIOUS
  <2> DEFINE full == IF Str(j, parent) = "" THEN <<Str(j, "name")>> ELSE <<Str(j, parent), "!", Str(j, "name")>>
             name == <<Str(j, "name")>>
  <2>1. Pushed(j, kind, key, parent) = [kind |-> kind, addr |-> Place(j, key), name |-> name, full_name |-> full]
    BY Zenon DEF Pushed
  <2> HIDE DEF full, name
  <2> QED BY <2>1
<1> QED BY <1>1 DEF PlacesOf, PushedOf

(* Without a pattern grep shows the places of the other tables.          *)
LEMMA AllNamesRight ==
    ASSUME MemInv, CursorInv, AnswerInv, pc = "done", mem = before, query.table = "grep", query.column = "none"
    PROVE  /\ PlacesOf(ShownRows("func")) = ToSet(FuncAddrs(mem))
           /\ PlacesOf(ShownRows("import")) = PlacesOf(ToSet(ImportsCache(mem)))
           /\ PlacesOf(ShownRows("export")) = PlacesOf(ToSet(ExportsCache(mem)))
           /\ PlacesOf(ShownRows("section")) = PlacesOf(ToSet(SectionsCache(mem)))
<1> DEFINE s == BuildGrepRows(mem)
<1>1. plan = "scan" /\ query.table \in Cached
  BY DEF CursorInv, Cached
<1>2. IsCore(mem) /\ \A r : r \in ToSet(rows) <=> r \in ToSet(s)
  <2>1. CacheOf(query, mem) = s
    BY DEF CacheOf
  <2>2. \A r : Keeps(r)
    BY DEF Keeps
  <2> QED BY <1>1, <2>1, <2>2, CacheIsKept
<1> HIDE DEF s
<1>3. ASSUME NEW k \in {"func", "import", "export", "section"} PROVE ShownRows(k) = Pieces(mem)[k]
  <2>1. \A r : r \in ToSet(s) /\ r.kind = k <=> r \in Pieces(mem)[k]
    BY <1>2, GrepRows DEF s
  <2> QED BY <1>2, <2>1 DEF ShownRows
<1>4. PlacesOf(ShownRows("func")) = ToSet(FuncAddrs(mem))
  <2>1. PlacesOf(ShownRows("func")) = {Place(j, "addr") : j \in ToSet(Elements(Aflj(mem)))}
    BY <1>3, PushedPlaces DEF Pieces
  <2>2. \A j : Place(j, "addr") = I64Addr(j)
    BY DEF Place
  <2> QED BY <1>2, <2>1, <2>2, FuncPlaces
<1>5. ASSUME NEW c, NEW kind, NEW key \in {"plt", "vaddr"}, NEW parent
      PROVE  PlacesOf(PushedOf(Elements(Reply(mem, c)), kind, key, parent)) = PlacesOf(ToSet(Places(Elements(Reply(mem, c)), key)))
  <2> DEFINE objs == Elements(Reply(mem, c))
  <2>1. \A j : Place(j, key) = I64(j, key, 0)
    BY DEF Place
  <2>2. PlacesOf(PushedOf(objs, kind, key, parent)) = {Place(j, key) : j \in ToSet(objs)}
    BY PushedPlaces
  <2>3. PlacesOf(ToSet(Places(objs, key))) = {I64(j, key, 0) : j \in ToSet(objs)}
    BY PlacesSet DEF PlacesOf
  <2> HIDE DEF objs
  <2> QED BY <2>1, <2>2, <2>3 DEF objs
<1>6. /\ ImportsCache(mem) = Places(Elements(Reply(mem, "iij")), "plt")
      /\ ExportsCache(mem) = Places(Elements(Reply(mem, "iEj")), "vaddr")
      /\ SectionsCache(mem) = Places(Elements(Reply(mem, "iSj")), "vaddr")
  BY DEF ImportsCache, ExportsCache, SectionsCache, Map, Places
<1>7. PlacesOf(ShownRows("import")) = PlacesOf(ToSet(ImportsCache(mem)))
  <2>1. ShownRows("import") = PushedOf(Elements(Reply(mem, "iij")), "import", "plt", "libname")
    BY <1>3 DEF Pieces
  <2> QED BY <1>5, <1>6, <2>1
<1>8. PlacesOf(ShownRows("export")) = PlacesOf(ToSet(ExportsCache(mem)))
  <2>1. ShownRows("export") = PushedOf(Elements(Reply(mem, "iEj")), "export", "vaddr", "none")
    BY <1>3 DEF Pieces
  <2> QED BY <1>5, <1>6, <2>1
<1>9. PlacesOf(ShownRows("section")) = PlacesOf(ToSet(SectionsCache(mem)))
  <2>1. ShownRows("section") = PushedOf(Elements(Reply(mem, "iSj")), "section", "vaddr", "none")
    BY <1>3 DEF Pieces
  <2> QED BY <1>5, <1>6, <2>1
<1> QED BY <1>4, <1>7, <1>8, <1>9

(* An import has a row if it is meant.                                     *)
LEMMA ImportMatches ==
    ASSUME NEW j, NEW word, NEW r, r = Pushed(j, "import", "plt", "libname")
    PROVE  /\ word \in ToSet(r.name) \/ word \in ToSet(r.full_name) <=> Named(j, word)
           /\ [addr |-> r.addr, name |-> r.name] = Import(j) /\ r.kind = "import"
<1> DEFINE n == Str(j, "name")
           lib == Str(j, "libname")
           full == IF lib = "" THEN <<n>> ELSE <<lib, "!", n>>
           name == <<n>>
<1>1. r = [kind |-> "import", addr |-> Place(j, "plt"), name |-> name, full_name |-> full]
  BY Zenon DEF Pushed
<1>2. word \in ToSet(name) <=> word = n
  BY OneIsSeq
<1>3. word \in ToSet(full) <=> word = n \/ (lib # "" /\ word \in {lib, "!"})
  <2>1. word \in ToSet(<<lib, "!", n>>) <=> word \in {lib, "!", n}
    <3> HIDE DEF lib, n
    <3> QED BY DEF ToSet
  <2>2. CASE lib = ""
    <3>1. full = <<n>>
      BY <2>2
    <3> HIDE DEF lib, n, full
    <3> QED BY <2>2, <3>1, OneIsSeq
  <2>3. CASE lib # ""
    <3>1. full = <<lib, "!", n>>
      BY <2>3
    <3> HIDE DEF lib, n, full
    <3> QED BY <2>1, <2>3, <3>1
  <2> QED BY <2>2, <2>3
<1> HIDE DEF full, name
<1>4. r.name = name /\ r.full_name = full /\ r.addr = Place(j, "plt") /\ r.kind = "import"
  BY <1>1
<1>5. Named(j, word) <=> word = n \/ (lib # "" /\ word \in {lib, "!"})
  BY DEF Named
<1>6. Place(j, "plt") = I64(j, "plt", 0)
  BY DEF Place
<1>7. Import(j) = [addr |-> I64(j, "plt", 0), name |-> name]
  BY Zenon DEF Import, name
<1> QED BY <1>2, <1>3, <1>4, <1>5, <1>6, <1>7

(* With a pattern it shows the imports that are meant.                   *)
LEMMA MatchesRight ==
    ASSUME MemInv, CursorInv, AnswerInv, pc = "done", mem = before, query.table = "grep", query.column # "none"
    PROVE  {[addr |-> r.addr, name |-> r.name] : r \in ShownRows("import")}
              = {Import(j) : j \in {i \in ToSet(Elements(Reply(mem, "iij"))) : Named(i, query.value)}}
<1> DEFINE s == BuildGrepRows(mem)
           word == query.value
           objs == Elements(Reply(mem, "iij"))
<1>1. plan = "filter" /\ query.column = "pattern" /\ IsCore(mem)
  BY MemIsCore DEF CursorInv
<1>2. Offered(query, plan, mem) = Matching(s, word)
  <2>1. query.table \notin Streamed /\ query.table # "xrefs"
    BY DEF Streamed
  <2>2. FilterOf(query, mem) = Matching(s, word)
    BY <2>1 DEF FilterOf
  <2> QED BY <1>1, <2>2 DEF Offered
<1>3. IsSeq(s)
  BY <1>1, GrepRows
<1>4. \A r : r \in ToSet(rows) <=> r \in Matches(ToSet(s), word)
  <2>1. rows = Kept(query, Matching(s, word))
    <3>1. query.table \in Streamed \cup Cached
      BY DEF Cached
    <3> QED BY <1>2, <3>1, NothingIsLeft
  <2> DEFINE t == Matching(s, word)
  <2>2. IsSeq(t) /\ \A r : r \in ToSet(t) <=> r \in Matches(ToSet(s), word)
    BY <1>3, MatchingFacts
  <2> HIDE DEF t, s, word
  <2>3. \A r : r \in ToSet(rows) <=> r \in ToSet(t)
    BY <1>1, <2>1, <2>2, KeptFacts DEF KeptSet, t
  <2> QED BY <2>2, <2>3
<1>5. \A r : r \in ToSet(s) /\ r.kind = "import" <=> \E j \in ToSet(objs) : r = Pushed(j, "import", "plt", "libname")
  <2>1. \A r : r \in ToSet(s) /\ r.kind = "import" <=> r \in Pieces(mem)["import"]
    BY <1>1, GrepRows
  <2>2. Pieces(mem)["import"] = PushedOf(objs, "import", "plt", "libname")
    BY DEF Pieces
  <2> QED BY <2>1, <2>2 DEF PushedOf
<1> HIDE DEF s, objs, word
<1>6. \A r : r \in ShownRows("import") <=>
              \E j \in ToSet(objs) : r = Pushed(j, "import", "plt", "libname") /\ Named(j, word)
  <2> SUFFICES ASSUME NEW r
               PROVE  r \in ShownRows("import") <=>
                          \E j \in ToSet(objs) : r = Pushed(j, "import", "plt", "libname") /\ Named(j, word)
    OBVIOUS
  <2>1. r \in ShownRows("import") <=> (r \in ToSet(s) /\ r.kind = "import") /\ (word \in ToSet(r.name) \/ word \in ToSet(r.full_name))
    BY <1>4 DEF ShownRows, Matches
  <2>2. \A j : r = Pushed(j, "import", "plt", "libname") =>
                  (word \in ToSet(r.name) \/ word \in ToSet(r.full_name) <=> Named(j, word))
    BY ImportMatches
  <2> QED BY <1>5, <2>1, <2>2
<1>7. \A j : [addr |-> Pushed(j, "import", "plt", "libname").addr, name |-> Pushed(j, "import", "plt", "libname").name] = Import(j)
  BY ImportMatches
<1>8. {[addr |-> r.addr, name |-> r.name] : r \in ShownRows("import")} = {Import(j) : j \in {i \in ToSet(objs) : Named(i, word)}}
  BY <1>6, <1>7
<1> QED BY <1>8 DEF objs, word

(* The tables of what is in the file agree.                              *)
LEMMA ListsRight ==
    ASSUME MemInv, CursorInv, AnswerInv
    PROVE  ListsAreSql
<1>1. ASSUME Answered, query.table = "grep" PROVE GrepRight
  <2>1. pc = "done" /\ mem = before
    BY <1>1 DEF Answered
  <2>2. CASE query.column = "none"
    <3>1. /\ PlacesOf(ShownRows("func")) = ToSet(FuncAddrs(mem))
          /\ PlacesOf(ShownRows("import")) = PlacesOf(ToSet(ImportsCache(mem)))
          /\ PlacesOf(ShownRows("export")) = PlacesOf(ToSet(ExportsCache(mem)))
          /\ PlacesOf(ShownRows("section")) = PlacesOf(ToSet(SectionsCache(mem)))
      BY <1>1, <2>1, <2>2, AllNamesRight
    <3> QED BY <2>2, <3>1, Zenon DEF GrepRight, PlacesOf, ShownRows
  <2>3. CASE query.column # "none"
    <3>1. {[addr |-> r.addr, name |-> r.name] : r \in ShownRows("import")}
              = {Import(j) : j \in {i \in ToSet(Elements(Reply(mem, "iij"))) : Named(i, query.value)}}
      BY <1>1, <2>1, <2>3, MatchesRight
    <3> QED BY <2>3, <3>1, Zenon DEF GrepRight, ShownRows
  <2> QED BY <2>2, <2>3
<1> QED BY <1>1, ListingsRight, CountsRight DEF ListsAreSql, Answered

(***************************************************************************)
(* The types: the records of a text                                        *)
(* A text says that there is a type if one of its records tells of it, and *)
(* a record lies between two cuts.  Where texts end in a cut, the whole    *)
(* says what its parts say, in whichever order they come.                  *)
(***************************************************************************)

(* What ends a record.                                                     *)
Seps == {"\n", " "}
(* What is stripped from the front of one.                                 *)
Marks == {"*", "\r"}

(* The places of a text that strip leaves in it.                           *)
KeptOf(text) == {i \in DOMAIN text : /\ \E j \in 1..i : text[j] \notin {"*", "\r"}
                                     /\ \E j \in i..Len(text) : text[j] # "\r"}

(* A text is stripped down to the part from the first character that is no *)
(* mark to the last that is no '\r'.                                       *)
LEMMA StripIs ==
    ASSUME NEW S, NEW text \in Seq(S), NEW f \in 1..Len(text), NEW l \in f..Len(text),
           text[f] \notin Marks, text[l] # "\r",
           \A j \in 1..(f - 1) : text[j] \in Marks, \A j \in (l + 1)..Len(text) : text[j] = "\r"
    PROVE  Strip(text) = SubSeq(text, f, l)
<1> DEFINE kept == KeptOf(text)
           first == CHOOSE i \in kept : \A j \in kept : i <= j
           last == CHOOSE i \in kept : \A j \in kept : j <= i
<1>1. Strip(text) = IF kept = {} THEN <<>> ELSE SubSeq(text, first, last)
  BY Zenon DEF Strip, KeptOf
<1>2. DOMAIN text = 1..Len(text) /\ Len(text) \in Nat
  OBVIOUS
<1>3. ASSUME NEW i \in 1..Len(text) PROVE i \in kept <=> i \in f..l
  <2>1. (\E j \in 1..i : text[j] \notin Marks) <=> f <= i
    BY <1>2
  <2>2. (\E j \in i..Len(text) : text[j] # "\r") <=> i <= l
    BY <1>2
  <2> QED BY <1>2, <2>1, <2>2 DEF KeptOf, Marks
<1>4. kept \subseteq 1..Len(text)
  BY <1>2 DEF KeptOf
<1> HIDE DEF kept
<1>5. kept = f..l
  <2>1. \A i \in f..l : i \in 1..Len(text)
    BY <1>2
  <2>2. \A i : i \in kept <=> i \in f..l
    BY <1>3, <1>4, <2>1
  <2> QED BY <2>2
<1>6. first = f
  <2>1. f \in kept /\ \A j \in kept : f <= j
    BY <1>2, <1>5
  <2>2. first \in kept /\ \A j \in kept : first <= j
    BY <2>1, Zenon
  <2> HIDE DEF first
  <2> QED BY <1>2, <1>5, <2>1, <2>2
<1>7. last = l
  <2>1. l \in kept /\ \A j \in kept : j <= l
    BY <1>2, <1>5
  <2>2. last \in kept /\ \A j \in kept : j <= last
    BY <2>1, Zenon
  <2> HIDE DEF last
  <2> QED BY <1>2, <1>5, <2>1, <2>2
<1> HIDE DEF first, last
<1>8. kept # {}
  <2>1. f \in f..l
    BY <1>2
  <2> QED BY <1>5, <2>1
<1> QED BY <1>1, <1>6, <1>7, <1>8, Zenon

(* Nothing is left of marks.                                               *)
LEMMA StripNothing ==
    ASSUME NEW S, NEW text \in Seq(S), \A j \in 1..Len(text) : text[j] \in Marks
    PROVE  Strip(text) = <<>>
<1>1. KeptOf(text) = {}
  BY DEF KeptOf, Marks
<1> QED BY <1>1, Zenon DEF Strip, KeptOf

(* Where the part that stays begins and ends.                              *)
LEMMA StripBounds ==
    ASSUME NEW S, NEW text \in Seq(S), ~ \A j \in 1..Len(text) : text[j] \in Marks
    PROVE  \E f \in 1..Len(text) : \E l \in f..Len(text) :
              /\ text[f] \notin Marks /\ text[l] # "\r"
              /\ \A j \in 1..(f - 1) : text[j] \in Marks
              /\ \A j \in (l + 1)..Len(text) : text[j] = "\r"
<1> DEFINE n == Len(text)
           A == {j \in 1..n : text[j] \notin Marks}
           B == {k \in 0..(n - 1) : text[n - k] # "\r"}
<1>1. n \in Nat /\ A \in SUBSET Nat /\ B \in SUBSET Nat /\ A # {}
  OBVIOUS
<1>2. PICK f \in A : \A j \in A : f <= j
  <2> HIDE DEF A
  <2> QED BY <1>1, LeastNumber
<1>3. n - f \in B
  BY <1>2 DEF Marks
<1>4. PICK b \in B : \A j \in B : b <= j
  <2> HIDE DEF B
  <2> QED BY <1>1, <1>3, LeastNumber
<1> DEFINE l == n - b
<1>5. l \in f..n /\ text[l] # "\r"
  <2>1. b <= n - f /\ b \in 0..(n - 1) /\ text[n - b] # "\r"
    BY <1>3, <1>4
  <2> QED BY <1>1, <1>2, <2>1
<1>6. \A j \in (l + 1)..n : text[j] = "\r"
  <2> SUFFICES ASSUME NEW j \in (l + 1)..n, text[j] # "\r" PROVE FALSE
    OBVIOUS
  <2>1. j \in 1..n
    BY <1>2, <1>5
  <2>2. n - j \in B
    <3>1. n - (n - j) = j /\ n - j \in 0..(n - 1)
      BY <2>1
    <3> QED BY <3>1
  <2>3. b <= n - j
    BY <1>4, <2>2
  <2>4. n - b < j /\ b \in Nat
    BY <1>1, <1>4
  <2> HIDE DEF l, A, B
  <2> QED BY <1>1, <2>1, <2>3, <2>4
<1>7. \A j \in 1..(f - 1) : text[j] \in Marks
  BY <1>1, <1>2
<1> HIDE DEF l
<1> QED BY <1>2, <1>5, <1>6, <1>7

(* The mark in front of the very first key is not seen.                    *)
LEMMA StripStar ==
    ASSUME NEW S, NEW text \in Seq(S)
    PROVE  Strip(<<"*">> \o text) = Strip(text)
<1> DEFINE s == <<"*">>
           T == S \cup {"*"}
           u == s \o text
           n == Len(text)
<1>0. s \in Seq(T) /\ text \in Seq(T) /\ Len(s) = 1 /\ s[1] = "*"
  OBVIOUS
<1>1. u \in Seq(T) /\ Len(u) = n + 1 /\ n \in Nat /\ u[1] = "*" /\ \A k \in 1..n : u[k + 1] = text[k]
  <2> HIDE DEF s, T
  <2>1. /\ u \in Seq(T) /\ Len(u) = Len(s) + n /\ n \in Nat
        /\ \A k \in 1..Len(s) : u[k] = s[k]
        /\ \A k \in 1..n : u[Len(s) + k] = text[k]
    BY <1>0, ConcatFacts
  <2>2. \A k \in 1..n : k + 1 = Len(s) + k
    BY <1>0
  <2> QED BY <1>0, <2>1, <2>2
<1> HIDE DEF u, T
<1>2. CASE \A j \in 1..n : text[j] \in Marks
  <2>1. \A j \in 1..Len(u) : u[j] \in Marks
    <3> SUFFICES ASSUME NEW j \in 1..Len(u) PROVE u[j] \in Marks
      OBVIOUS
    <3>1. j = 1 \/ (j - 1 \in 1..n /\ u[(j - 1) + 1] = text[j - 1])
      BY <1>1
    <3> QED BY <1>1, <1>2, <3>1 DEF Marks
  <2>2. Strip(u) = <<>> /\ Strip(text) = <<>>
    BY <1>1, <1>2, <2>1, StripNothing
  <2> QED BY <2>2 DEF u
<1>3. CASE ~ \A j \in 1..n : text[j] \in Marks
  <2>1. PICK f \in 1..n : \E l \in f..n :
              /\ text[f] \notin Marks /\ text[l] # "\r"
              /\ \A j \in 1..(f - 1) : text[j] \in Marks
              /\ \A j \in (l + 1)..n : text[j] = "\r"
    BY <1>3, StripBounds
  <2>2. PICK l \in f..n :
              /\ text[f] \notin Marks /\ text[l] # "\r"
              /\ \A j \in 1..(f - 1) : text[j] \in Marks
              /\ \A j \in (l + 1)..n : text[j] = "\r"
    BY <2>1
  <2>3. Strip(text) = SubSeq(text, f, l)
    BY <2>2, StripIs
  <2> DEFINE g == f + 1
             m == l + 1
  <2>4. g \in 1..Len(u) /\ m \in g..Len(u)
    BY <1>1
  <2>5. u[g] \notin Marks /\ u[m] # "\r"
    BY <1>1, <2>2
  <2>6. \A j \in 1..(g - 1) : u[j] \in Marks
    <3> SUFFICES ASSUME NEW j \in 1..(g - 1) PROVE u[j] \in Marks
      OBVIOUS
    <3>1. j = 1 \/ (j - 1 \in 1..(f - 1) /\ j - 1 \in 1..n /\ u[(j - 1) + 1] = text[j - 1])
      BY <1>1
    <3> QED BY <1>1, <2>2, <3>1 DEF Marks
  <2>7. \A j \in (m + 1)..Len(u) : u[j] = "\r"
    <3> SUFFICES ASSUME NEW j \in (m + 1)..Len(u) PROVE u[j] = "\r"
      OBVIOUS
    <3>1. j - 1 \in (l + 1)..n /\ j - 1 \in 1..n /\ (j - 1) + 1 = j
      BY <1>1
    <3> QED BY <1>1, <2>2, <3>1
  <2> HIDE DEF g, m
  <2>8. Strip(u) = SubSeq(u, g, m)
    BY <1>1, <2>4, <2>5, <2>6, <2>7, StripIs
  <2>9. SubSeq(u, g, m) = SubSeq(text, f, l)
    BY <1>1, <2>2 DEF g, m
  <2> QED BY <2>3, <2>8, <2>9 DEF u
<1> QED BY <1>2, <1>3

(* What may follow a record: its end, and what is stripped from it.        *)
Enders == {"\n", "\r", " "}

(* Between records there are separators and '\r'.                          *)
LEMMA EndersAre ==
    /\ "*" \notin Seps /\ "\r" \notin Seps /\ "=" \notin Seps /\ "." \notin Seps /\ "f" \notin Seps /\ "type" \notin Seps
    /\ \A c \in Enders : c \in Seps \/ c = "\r"
BY Zenon DEF Seps, Enders

(* A piece lies between two separators that follow each other, the ends of *)
(* the text among them.                                                    *)
Cut(tk, a, b) ==
    /\ a \in 0..Len(tk) /\ b \in 1..(Len(tk) + 1) /\ a < b
    /\ a = 0 \/ tk[a] \in Seps
    /\ b = Len(tk) + 1 \/ tk[b] \in Seps
    /\ \A i \in (a + 1)..(b - 1) : tk[i] \notin Seps
(* The record between two places.                                          *)
Piece(tk, a, b) == Strip(SubSeq(tk, a + 1, b - 1))
(* The record r tells of a type n of kind k.                               *)
Tells(r, n, k) == n \in TypeName(r) /\ k = r[Len(r)]
(* A record of the text tells of it.                                       *)
Says(tk, n, k) == \E a, b \in Int : Cut(tk, a, b) /\ Tells(Piece(tk, a, b), n, k)

(* Nothing is not the record of a type.                                    *)
LEMMA NothingTells == ASSUME NEW n, NEW k PROVE ~Tells(<<>>, n, k)
BY DEF Tells, TypeName

(* y has between a + d and b + d what x has between a and b.               *)
(* What is between a and b in x is in y, d places on.                      *)
Shifted(x, y, a, b, d) == \A i \in (a + 1)..(b - 1) : y[i + d] = x[i]

(* Pieces of two texts that agree there.                                   *)
LEMMA SamePiece ==
    ASSUME NEW S, NEW x \in Seq(S), NEW y \in Seq(S), NEW a \in Nat, NEW b \in Nat, NEW d \in Int,
           a < b, b <= Len(x) + 1, a + d >= 0, b + d <= Len(y) + 1,
           Shifted(x, y, a, b, d)
    PROVE  Piece(x, a, b) = Piece(y, a + d, b + d)
<1> DEFINE s == SubSeq(x, a + 1, b - 1)
           t == SubSeq(y, (a + d) + 1, (b + d) - 1)
<1>0. Len(x) \in Nat /\ Len(y) \in Nat
  OBVIOUS
<1>1. s \in Seq(S) /\ Len(s) = b - a - 1 /\ \A i \in 1..(b - a - 1) : s[i] = x[a + i]
  BY <1>0
<1>2. t \in Seq(S) /\ Len(t) = b - a - 1 /\ \A i \in 1..(b - a - 1) : t[i] = y[(a + d) + i]
  BY <1>0
<1>3. ASSUME NEW i \in 1..(b - a - 1) PROVE s[i] = t[i]
  <2>1. a + i \in (a + 1)..(b - 1) /\ (a + i) + d = (a + d) + i
    OBVIOUS
  <2>2. y[(a + i) + d] = x[a + i]
    BY <2>1 DEF Shifted
  <2> QED BY <1>1, <1>2, <2>1, <2>2
<1> HIDE DEF s, t
<1>4. s = t
  BY <1>1, <1>2, <1>3, SeqEqual
<1> QED BY <1>4, Zenon DEF Piece, s, t

(* The records of a text that ends with a separator and of one behind it   *)
(* are those of both.                                                      *)
LEMMA SaysTogether ==
    ASSUME NEW S, NEW x \in Seq(S), NEW y \in Seq(S), x # <<>> => x[Len(x)] \in Seps, NEW n, NEW k
    PROVE  Says(x \o y, n, k) <=> Says(x, n, k) \/ Says(y, n, k)
<1> DEFINE z == x \o y
           p == Len(x)
           q == Len(y)
<1>1. /\ z \in Seq(S) /\ Len(z) = p + q /\ p \in Nat /\ q \in Nat
      /\ \A i \in 1..p : z[i] = x[i]
      /\ \A i \in 1..q : z[p + i] = y[i]
  BY ConcatFacts
<1>2. p = 0 \/ x[p] \in Seps
  OBVIOUS
<1> HIDE DEF z, p, q
<1>3. ASSUME NEW a \in Int, NEW b \in Int, Cut(y, a, b)
      PROVE  Cut(z, a + p, b + p) /\ Piece(y, a, b) = Piece(z, a + p, b + p)
  <2>1. /\ a \in 0..q /\ b \in 1..(q + 1) /\ a < b /\ (a = 0 \/ y[a] \in Seps) /\ (b = q + 1 \/ y[b] \in Seps)
        /\ \A i \in (a + 1)..(b - 1) : y[i] \notin Seps
    BY <1>3 DEF Cut, q
  <2>2. \A i \in (a + 1)..(b - 1) : i \in 1..q /\ z[i + p] = y[i]
    <3>1. \A i \in 1..q : z[i + p] = y[i]
      <4>1. \A i \in 1..q : i + p = p + i
        BY <1>1
      <4> QED BY <1>1, <4>1
    <3>2. \A i \in (a + 1)..(b - 1) : i \in 1..q
      BY <1>1, <2>1
    <3> QED BY <3>1, <3>2
  <2>3. a + p = 0 \/ z[a + p] \in Seps
    <3>1. CASE a = 0
      <4>1. p = 0 \/ z[p] = x[p]
        BY <1>1
      <4> QED BY <1>1, <1>2, <3>1, <4>1
    <3>2. CASE a # 0
      <4>1. a \in 1..q /\ a + p = p + a
        BY <1>1, <2>1, <3>2
      <4> QED BY <1>1, <2>1, <3>2, <4>1
    <3> QED BY <3>1, <3>2
  <2>4. b + p = Len(z) + 1 \/ z[b + p] \in Seps
    <3>1. CASE b = q + 1
      BY <1>1, <3>1
    <3>2. CASE b # q + 1
      <4>1. b \in 1..q /\ b + p = p + b
        BY <1>1, <2>1, <3>2
      <4> QED BY <1>1, <2>1, <3>2, <4>1
    <3> QED BY <3>1, <3>2
  <2>5. ASSUME NEW i \in ((a + p) + 1)..((b + p) - 1) PROVE z[i] \notin Seps
    <3>1. i - p \in (a + 1)..(b - 1) /\ (i - p) + p = i
      BY <1>1
    <3> QED BY <2>1, <2>2, <3>1
  <2>6. a + p \in 0..Len(z) /\ b + p \in 1..(Len(z) + 1) /\ a + p < b + p
    BY <1>1, <2>1
  <2>7. Cut(z, a + p, b + p)
    BY <2>3, <2>4, <2>5, <2>6 DEF Cut
  <2>8. Piece(y, a, b) = Piece(z, a + p, b + p)
    <3>1. a \in Nat /\ b \in Nat /\ p \in Int /\ a < b /\ b <= Len(y) + 1 /\ a + p >= 0 /\ b + p <= Len(z) + 1
      BY <1>1, <2>1, <2>6 DEF q
    <3>2. Shifted(y, z, a, b, p)
      BY <2>2 DEF Shifted
    <3> QED BY <1>1, <3>1, <3>2, SamePiece
  <2> QED BY <2>7, <2>8
<1>4. ASSUME NEW a \in Int, NEW b \in Int, Cut(x, a, b), b <= p
      PROVE  Cut(z, a, b) /\ Piece(x, a, b) = Piece(z, a, b)
  <2>1. /\ a \in 0..p /\ b \in 1..p /\ a < b /\ (a = 0 \/ x[a] \in Seps) /\ x[b] \in Seps
        /\ \A i \in (a + 1)..(b - 1) : x[i] \notin Seps
    BY <1>1, <1>4 DEF Cut, p
  <2>2. \A i \in (a + 1)..(b - 1) : i \in 1..p /\ z[i] = x[i]
    BY <1>1, <2>1
  <2>3. (a = 0 \/ z[a] = x[a]) /\ z[b] = x[b]
    BY <1>1, <2>1
  <2>4. Cut(z, a, b)
    <3>1. a \in 0..Len(z) /\ b \in 1..(Len(z) + 1)
      BY <1>1, <2>1
    <3>2. (a = 0 \/ z[a] \in Seps) /\ z[b] \in Seps
      BY <2>1, <2>3
    <3>3. \A i \in (a + 1)..(b - 1) : z[i] \notin Seps
      BY <2>1, <2>2
    <3> QED BY <2>1, <3>1, <3>2, <3>3 DEF Cut
  <2>5. Piece(x, a, b) = Piece(z, a + 0, b + 0)
    <3>1. /\ a \in Nat /\ b \in Nat /\ a < b /\ b <= Len(x) + 1 /\ a + 0 >= 0 /\ b + 0 <= Len(z) + 1
      BY <1>1, <2>1 DEF p
    <3>2. Shifted(x, z, a, b, 0)
      <4>1. \A i \in (a + 1)..(b - 1) : i + 0 = i
        BY <2>1
      <4> QED BY <2>2, <4>1 DEF Shifted
    <3> QED BY <1>1, <3>1, <3>2, SamePiece
  <2> QED BY <1>1, <2>1, <2>4, <2>5
<1>5. ASSUME NEW a \in Int, NEW b \in Int, Cut(x, a, b), ~(b <= p) PROVE Piece(x, a, b) = <<>>
  <2>1. a \in 0..p /\ b = p + 1 /\ a < b /\ \A i \in (a + 1)..(b - 1) : x[i] \notin Seps
    BY <1>1, <1>5 DEF Cut, p
  <2>2. a = p
    BY <1>1, <1>2, <2>1
  <2>3. SubSeq(x, a + 1, b - 1) = <<>>
    <3>1. a + 1 \in Int /\ b - 1 \in Int /\ b - 1 < a + 1
      BY <1>1, <2>1, <2>2
    <3> QED BY <3>1, SubSeqEmpty
  <2>4. <<>> \in Seq(S) /\ \A j \in 1..Len(<<>>) : <<>>[j] \in Marks
    OBVIOUS
  <2>5. Strip(<<>>) = <<>>
    BY <2>4, StripNothing
  <2> QED BY <2>3, <2>5, Zenon DEF Piece
<1>6. ASSUME NEW a \in Int, NEW b \in Int, Cut(z, a, b)
      PROVE  \/ Cut(x, a, b) /\ b <= p
             \/ Cut(y, a - p, b - p)
  <2>1. /\ a \in 0..(p + q) /\ b \in 1..(p + q + 1) /\ a < b /\ (a = 0 \/ z[a] \in Seps)
        /\ b = p + q + 1 \/ z[b] \in Seps
        /\ \A i \in (a + 1)..(b - 1) : z[i] \notin Seps
    BY <1>1, <1>6 DEF Cut
  <2>2. b <= p \/ p <= a
    <3> SUFFICES ASSUME p < b, a < p PROVE FALSE
      BY <1>1, <2>1
    <3>1. p \in (a + 1)..(b - 1) /\ p \in 1..p
      BY <1>1, <2>1
    <3>2. z[p] = x[p] /\ x[p] \in Seps
      BY <1>1, <1>2, <3>1
    <3> QED BY <2>1, <3>1, <3>2
  <2>3. CASE b <= p
    <3>1. z[b] = x[b] /\ (a = 0 \/ z[a] = x[a]) /\ \A i \in (a + 1)..(b - 1) : z[i] = x[i]
      BY <1>1, <2>1, <2>3
    <3>2. z[b] \in Seps
      BY <1>1, <2>1, <2>3
    <3>3. Cut(x, a, b)
      BY <1>1, <2>1, <2>3, <3>1, <3>2 DEF Cut, p
    <3> QED BY <2>3, <3>3
  <2>4. CASE p <= a
    <3>1. a - p \in 0..q /\ b - p \in 1..(q + 1) /\ a - p < b - p
      BY <1>1, <2>1, <2>4
    <3>2. a - p = 0 \/ y[a - p] \in Seps
      <4>1. ASSUME a - p # 0 PROVE y[a - p] \in Seps
        <5>1. a - p \in 1..q /\ p + (a - p) = a /\ a # 0
          BY <1>1, <2>1, <2>4, <4>1
        <5> QED BY <1>1, <2>1, <5>1
      <4> QED BY <4>1
    <3>3. b - p = q + 1 \/ y[b - p] \in Seps
      <4>1. ASSUME b - p # q + 1 PROVE y[b - p] \in Seps
        <5>1. b - p \in 1..q /\ p + (b - p) = b /\ b # p + q + 1
          BY <1>1, <2>1, <3>1, <4>1
        <5> QED BY <1>1, <2>1, <5>1
      <4> QED BY <4>1
    <3>4. ASSUME NEW i \in ((a - p) + 1)..((b - p) - 1) PROVE y[i] \notin Seps
      <4>1. p + i \in (a + 1)..(b - 1) /\ i \in 1..q
        BY <1>1, <2>1, <3>1
      <4> QED BY <1>1, <2>1, <4>1
    <3>5. Cut(y, a - p, b - p)
      BY <3>1, <3>2, <3>3, <3>4 DEF Cut, q
    <3> QED BY <3>5
  <2> QED BY <2>2, <2>3, <2>4
<1>7. ASSUME Says(y, n, k) PROVE Says(z, n, k)
  <2>1. PICK a, b \in Int : Cut(y, a, b) /\ Tells(Piece(y, a, b), n, k)
    BY <1>7 DEF Says
  <2>2. a + p \in Int /\ b + p \in Int
    BY <1>1
  <2>3. Cut(z, a + p, b + p) /\ Tells(Piece(z, a + p, b + p), n, k)
    BY <1>3, <2>1
  <2> QED BY <2>2, <2>3 DEF Says
<1>8. ASSUME Says(x, n, k) PROVE Says(z, n, k)
  <2>1. PICK a, b \in Int : Cut(x, a, b) /\ Tells(Piece(x, a, b), n, k)
    BY <1>8 DEF Says
  <2>2. b <= p
    BY <1>5, <2>1, NothingTells
  <2>3. Cut(z, a, b) /\ Tells(Piece(z, a, b), n, k)
    BY <1>4, <2>1, <2>2
  <2> QED BY <2>3 DEF Says
<1>9. ASSUME Says(z, n, k) PROVE Says(x, n, k) \/ Says(y, n, k)
  <2>1. PICK a, b \in Int : Cut(z, a, b) /\ Tells(Piece(z, a, b), n, k)
    BY <1>9 DEF Says
  <2>2. CASE Cut(x, a, b) /\ b <= p
    <3>1. Tells(Piece(x, a, b), n, k)
      BY <1>4, <2>1, <2>2
    <3> QED BY <2>2, <3>1 DEF Says
  <2>3. CASE Cut(y, a - p, b - p)
    <3>1. a - p \in Int /\ b - p \in Int /\ (a - p) + p = a /\ (b - p) + p = b
      BY <1>1
    <3>2. Piece(y, a - p, b - p) = Piece(z, (a - p) + p, (b - p) + p)
      BY <1>3, <2>3, <3>1
    <3>3. Tells(Piece(y, a - p, b - p), n, k)
      BY <2>1, <3>1, <3>2
    <3> QED BY <2>3, <3>1, <3>3 DEF Says
  <2> QED BY <1>6, <2>1, <2>2, <2>3
<1> QED BY <1>7, <1>8, <1>9 DEF z

(* The mark in front of the first record changes none of them.             *)
LEMMA SaysStar ==
    ASSUME NEW S, NEW x \in Seq(S), NEW n, NEW k
    PROVE  Says(<<"*">> \o x, n, k) <=> Says(x, n, k)
<1> DEFINE s == <<"*">>
           T == S \cup {"*"}
           z == s \o x
           q == Len(x)
<1>0. s \in Seq(T) /\ x \in Seq(T) /\ Len(s) = 1 /\ s[1] = "*"
  OBVIOUS
<1>1. z \in Seq(T) /\ Len(z) = q + 1 /\ q \in Nat /\ z[1] = "*" /\ \A i \in 1..q : z[i + 1] = x[i]
  <2> HIDE DEF s, T
  <2>1. /\ z \in Seq(T) /\ Len(z) = Len(s) + q /\ q \in Nat
        /\ \A i \in 1..Len(s) : z[i] = s[i]
        /\ \A i \in 1..q : z[Len(s) + i] = x[i]
    BY <1>0, ConcatFacts
  <2>2. \A i \in 1..q : i + 1 = Len(s) + i
    BY <1>0
  <2> QED BY <1>0, <2>1, <2>2
<1>2. z[1] \notin Seps
  BY <1>1, EndersAre
<1> DEFINE up(a) == IF a = 0 THEN 0 ELSE a + 1
<1>3. ASSUME NEW a \in 0..q, NEW b \in 1..(q + 1), a < b
      PROVE  Cut(z, up(a), b + 1) <=> Cut(x, a, b)
  <2> DEFINE c == up(a)
             e == b + 1
  <2>0. c \in Int /\ (a = 0 => c = 0) /\ (a # 0 => c = a + 1) /\ e = b + 1 /\ q \in Nat /\ Len(z) = q + 1
    BY <1>1
  <2> HIDE DEF z, q, c, e, T
  <2>1. c \in 0..Len(z) /\ e \in 1..(Len(z) + 1) /\ c < e
    BY <1>3, <2>0
  <2>2. (c = 0 \/ z[c] \in Seps) <=> (a = 0 \/ x[a] \in Seps)
    <3>1. CASE a = 0
      BY <2>0, <3>1
    <3>2. CASE a # 0
      <4>1. a \in 1..q /\ c = a + 1 /\ c # 0
        BY <2>0, <1>1, <3>2
      <4> QED BY <2>0, <1>1, <3>2, <4>1
    <3> QED BY <3>1, <3>2
  <2>3. (e = Len(z) + 1 \/ z[e] \in Seps) <=> (b = q + 1 \/ x[b] \in Seps)
    <3>1. CASE b = q + 1
      BY <2>0, <1>1, <3>1
    <3>2. CASE b # q + 1
      <4>1. b \in 1..q /\ e # Len(z) + 1
        BY <2>0, <1>1, <3>2
      <4> QED BY <2>0, <1>1, <3>2, <4>1
    <3> QED BY <3>1, <3>2
  <2>4. ASSUME \A i \in (c + 1)..(e - 1) : z[i] \notin Seps, NEW i \in (a + 1)..(b - 1)
        PROVE  x[i] \notin Seps
    <3>1. i + 1 \in (c + 1)..(e - 1) /\ i \in 1..q
      BY <2>0, <1>1
    <3> QED BY <2>0, <1>1, <2>4, <3>1
  <2>5. ASSUME \A i \in (a + 1)..(b - 1) : x[i] \notin Seps, NEW i \in (c + 1)..(e - 1)
        PROVE  z[i] \notin Seps
    <3>1. CASE i = 1
      BY <1>2, <3>1
    <3>2. CASE i # 1
      <4>1. i - 1 \in (a + 1)..(b - 1) /\ i - 1 \in 1..q /\ (i - 1) + 1 = i
        BY <2>0, <1>1, <3>2
      <4> QED BY <2>0, <1>1, <2>5, <4>1
    <3> QED BY <3>1, <3>2
  <2>6. ASSUME Cut(z, c, e) PROVE Cut(x, a, b)
    <3>1. /\ c = 0 \/ z[c] \in Seps
          /\ e = Len(z) + 1 \/ z[e] \in Seps
          /\ \A i \in (c + 1)..(e - 1) : z[i] \notin Seps
      BY <2>6, Zenon DEF Cut
    <3>2. \A i \in (a + 1)..(b - 1) : x[i] \notin Seps
      BY <2>4, <3>1
    <3> QED BY <1>3, <2>2, <2>3, <3>1, <3>2, Zenon DEF Cut, q
  <2>7. ASSUME Cut(x, a, b) PROVE Cut(z, c, e)
    <3>1. /\ a = 0 \/ x[a] \in Seps
          /\ b = q + 1 \/ x[b] \in Seps
          /\ \A i \in (a + 1)..(b - 1) : x[i] \notin Seps
      BY <2>7, Zenon DEF Cut, q
    <3>2. \A i \in (c + 1)..(e - 1) : z[i] \notin Seps
      BY <2>5, <3>1
    <3> QED BY <2>1, <2>2, <2>3, <3>1, <3>2, Zenon DEF Cut
  <2> QED BY <2>6, <2>7 DEF c, e
<1>4. ASSUME NEW a \in 0..q, NEW b \in 1..(q + 1), a < b
      PROVE  Piece(z, up(a), b + 1) = Piece(x, a, b)
  <2>1. CASE a = 0
    <3> DEFINE t == SubSeq(x, 0 + 1, b - 1)
               u == SubSeq(z, 0 + 1, (b + 1) - 1)
               v == s \o t
    <3>1. t \in Seq(S) /\ t \in Seq(T) /\ Len(t) = b - 1 /\ \A i \in 1..(b - 1) : t[i] = x[i]
      BY <1>1
    <3>2. u \in Seq(T) /\ Len(u) = b /\ \A i \in 1..b : u[i] = z[i]
      <4> HIDE DEF z, q, T
      <4> QED BY <1>1
    <3>3. /\ v \in Seq(T) /\ Len(v) = Len(s) + Len(t)
          /\ \A i \in 1..Len(s) : v[i] = s[i]
          /\ \A i \in 1..Len(t) : v[Len(s) + i] = t[i]
      <4>1. t \in Seq(T) /\ s \in Seq(T)
        BY <1>0, <3>1
      <4> HIDE DEF s, t, T, z, q
      <4> QED BY <4>1, ConcatFacts
    <3> HIDE DEF s, t, u, v, z, T, q
    <3>4. Len(v) = b /\ \A i \in 1..b : v[i] = u[i]
      <4>1. Len(v) = b
        BY <1>0, <3>1, <3>3
      <4>2. ASSUME NEW i \in 1..b PROVE v[i] = u[i]
        <5>1. CASE i = 1
          BY <1>0, <1>1, <3>2, <3>3, <5>1
        <5>2. CASE i # 1
          <6>1. i - 1 \in 1..Len(t) /\ i - 1 \in 1..q /\ i - 1 \in 1..(b - 1) /\ Len(s) + (i - 1) = i /\ (i - 1) + 1 = i
            BY <1>0, <1>1, <3>1, <5>2
          <6>2. v[i] = t[i - 1]
            BY <3>3, <6>1
          <6>3. u[i] = z[i] /\ t[i - 1] = x[i - 1] /\ z[i] = x[i - 1]
            BY <1>1, <3>1, <3>2, <6>1
          <6> QED BY <6>2, <6>3
        <5> QED BY <5>1, <5>2
      <4> QED BY <4>1, <4>2
    <3>5. v = u
      BY <3>2, <3>3, <3>4, SeqEqual
    <3>6. Strip(v) = Strip(t)
      BY <3>1, StripStar DEF v, s
    <3>7. Piece(z, 0, b + 1) = Strip(u) /\ Piece(x, 0, b) = Strip(t)
      BY Zenon DEF Piece, u, t
    <3> QED BY <2>1, <3>5, <3>6, <3>7
  <2>2. CASE a # 0
    <3> HIDE DEF z, T
    <3>1. /\ a \in Nat /\ b \in Nat /\ a < b /\ b <= Len(x) + 1 /\ a + 1 >= 0 /\ b + 1 <= Len(z) + 1
      BY <1>1, <1>4
    <3>2. Shifted(x, z, a, b, 1)
      <4>1. \A i \in (a + 1)..(b - 1) : i \in 1..q
        BY <1>1
      <4> QED BY <1>1, <4>1 DEF Shifted
    <3>3. Piece(x, a, b) = Piece(z, a + 1, b + 1)
      BY <1>0, <1>1, <3>1, <3>2, SamePiece
    <3> QED BY <2>2, <3>3
  <2> QED BY <2>1, <2>2
<1>5. ASSUME Says(x, n, k) PROVE Says(z, n, k)
  <2>1. PICK a, b \in Int : Cut(x, a, b) /\ Tells(Piece(x, a, b), n, k)
    BY <1>5 DEF Says
  <2>2. a \in 0..q /\ b \in 1..(q + 1) /\ a < b /\ up(a) \in Int /\ b + 1 \in Int
    BY <2>1 DEF Cut
  <2> HIDE DEF z, q, up
  <2>3. Cut(z, up(a), b + 1) /\ Tells(Piece(z, up(a), b + 1), n, k)
    BY <1>3, <1>4, <2>1, <2>2
  <2> QED BY <2>2, <2>3, Zenon DEF Says
<1>6. ASSUME Says(z, n, k) PROVE Says(x, n, k)
  <2>1. PICK c, e \in Int : Cut(z, c, e) /\ Tells(Piece(z, c, e), n, k)
    BY <1>6 DEF Says
  <2> HIDE DEF z
  <2>2. c \in 0..(q + 1) /\ e \in 1..(q + 2) /\ c < e /\ (c = 0 \/ z[c] \in Seps) /\ (e = q + 2 \/ z[e] \in Seps)
    BY <1>1, <2>1 DEF Cut
  <2>3. c # 1 /\ e # 1
    BY <1>1, <1>2, <2>2
  <2> DEFINE a == IF c = 0 THEN 0 ELSE c - 1
             b == e - 1
  <2>4. a \in 0..q /\ b \in 1..(q + 1) /\ a < b /\ up(a) = c /\ b + 1 = e /\ a \in Int /\ b \in Int
    BY <1>1, <2>2, <2>3
  <2> HIDE DEF a, b, up, q
  <2>5. Cut(x, a, b) /\ Tells(Piece(x, a, b), n, k)
    BY <1>3, <1>4, <2>1, <2>4
  <2> QED BY <2>4, <2>5 DEF Says
<1> QED BY <1>5, <1>6 DEF z

(* One record and what ends it.                                            *)
LEMMA SaysRecord ==
    ASSUME NEW S, NEW r \in Seq(S), r # <<>>, r[1] \notin Marks, r[Len(r)] # "\r",
           \A i \in 1..Len(r) : r[i] \notin Seps,
           NEW e \in Seq(Enders), e # <<>>, e[Len(e)] \in Seps, NEW n, NEW k
    PROVE  Says(r \o e, n, k) <=> Tells(r, n, k)
<1> DEFINE T == S \cup Enders
           z == r \o e
           p == Len(r)
           m == Len(e)
<1>0. r \in Seq(T) /\ e \in Seq(T) /\ p \in Nat \ {0} /\ m \in Nat \ {0}
  OBVIOUS
<1>1. /\ z \in Seq(T) /\ Len(z) = p + m
      /\ \A i \in 1..p : z[i] = r[i]
      /\ \A i \in 1..m : z[p + i] = e[i]
  <2> HIDE DEF T
  <2> QED BY <1>0, ConcatFacts
<1> HIDE DEF z, T
<1>2. \A i \in 1..p : z[i] \notin Seps
  BY <1>1
<1>3. ASSUME NEW i \in (p + 1)..(p + m) PROVE z[i] \in Seps \/ z[i] = "\r"
  <2>1. i - p \in 1..m /\ p + (i - p) = i
    BY <1>0
  <2>2. z[i] = e[i - p] /\ e[i - p] \in Enders
    <3>1. e[i - p] \in Enders
      BY <2>1 DEF m
    <3>2. z[p + (i - p)] = e[i - p]
      BY <1>1, <2>1
    <3> QED BY <2>1, <3>1, <3>2
  <2> QED BY <2>2, EndersAre
<1>4. z[p + m] \in Seps
  <2>1. m \in 1..m /\ z[p + m] = e[m]
    BY <1>0, <1>1
  <2> QED BY <2>1
<1> HIDE DEF p, m
<1> DEFINE B == {i \in 1..(p + m) : z[i] \in Seps}
<1>5. PICK q \in B : \A i \in B : q <= i
  <2>1. B \in SUBSET Nat /\ p + m \in B
    BY <1>0, <1>4
  <2> HIDE DEF B
  <2> QED BY <2>1, LeastNumber
<1>6. q \in (p + 1)..(p + m) /\ z[q] \in Seps /\ \A i \in 1..(q - 1) : z[i] \notin Seps
  <2>1. q \in 1..(p + m) /\ z[q] \in Seps
    BY <1>5
  <2>2. q \notin 1..p
    BY <1>2, <2>1
  <2>3. \A i \in 1..(q - 1) : z[i] \notin Seps
    <3> SUFFICES ASSUME NEW i \in 1..(q - 1), z[i] \in Seps PROVE FALSE
      OBVIOUS
    <3>1. i \in B
      BY <1>0, <2>1
    <3> QED BY <1>5, <2>1, <3>1
  <2> QED BY <1>0, <2>1, <2>2, <2>3
<1> HIDE DEF B
<1>7. Piece(z, 0, q) = r
  <2> DEFINE t == SubSeq(z, 0 + 1, q - 1)
  <2>1. t \in Seq(T) /\ Len(t) = q - 1 /\ \A i \in 1..(q - 1) : t[i] = z[i]
    BY <1>0, <1>1, <1>6
  <2> HIDE DEF t
  <2>2. 1 \in 1..Len(t) /\ p \in 1..Len(t) /\ t[1] = r[1] /\ t[p] = r[p]
    BY <1>0, <1>1, <1>6, <2>1
  <2>3. \A j \in (p + 1)..Len(t) : t[j] = "\r"
    <3> SUFFICES ASSUME NEW j \in (p + 1)..Len(t) PROVE t[j] = "\r"
      OBVIOUS
    <3>1. j \in (p + 1)..(p + m) /\ j \in 1..(q - 1)
      BY <1>0, <1>6, <2>1
    <3> QED BY <1>3, <1>6, <2>1, <3>1
  <2>4. \A j \in 1..(1 - 1) : t[j] \in Marks
    OBVIOUS
  <2>5. t[1] \notin Marks /\ t[p] # "\r" /\ p \in 1..Len(t)
    BY <2>2 DEF p
  <2>6. Strip(t) = SubSeq(t, 1, p)
    BY <2>1, <2>2, <2>3, <2>4, <2>5, StripIs
  <2> DEFINE w == SubSeq(t, 1, p)
  <2>7. w \in Seq(T) /\ Len(w) = p /\ \A i \in 1..p : w[i] = t[i]
    BY <2>1, <2>2
  <2> HIDE DEF w
  <2>8. \A i \in 1..p : w[i] = r[i]
    <3>1. \A i \in 1..p : i \in 1..(q - 1)
      BY <1>0, <1>6
    <3>2. ASSUME NEW i \in 1..p PROVE w[i] = r[i]
      <4>1. w[i] = t[i] /\ z[i] = r[i]
        BY <1>1, <2>7
      <4>2. t[i] = z[i]
        BY <2>1, <3>1
      <4> QED BY <4>1, <4>2
    <3> QED BY <3>2
  <2>9. w = r
    BY <1>0, <2>7, <2>8, SeqEqual DEF p
  <2> QED BY <2>6, <2>9, Zenon DEF Piece, t, w
<1>8. Cut(z, 0, q)
  BY <1>0, <1>1, <1>6 DEF Cut
<1>9. ASSUME NEW a \in Int, NEW b \in Int, Cut(z, a, b), a = 0 PROVE b = q
  <2>1. b \in 1..(p + m + 1) /\ (b = p + m + 1 \/ z[b] \in Seps) /\ \A i \in 1..(b - 1) : z[i] \notin Seps
    BY <1>0, <1>1, <1>9 DEF Cut
  <2>2. b <= q
    <3>1. q \notin 1..(b - 1)
      BY <1>6, <2>1
    <3> QED BY <1>0, <1>6, <2>1, <3>1
  <2>3. z[b] \in Seps /\ b \notin 1..(q - 1)
    BY <1>0, <1>6, <2>1, <2>2
  <2> QED BY <1>0, <1>6, <2>1, <2>2, <2>3
<1>10. ASSUME NEW a \in Int, NEW b \in Int, Cut(z, a, b), a # 0 PROVE Piece(z, a, b) = <<>>
  <2>1. /\ a \in 1..(p + m) /\ z[a] \in Seps /\ b \in 1..(p + m + 1) /\ a < b
        /\ \A i \in (a + 1)..(b - 1) : z[i] \notin Seps
    BY <1>0, <1>1, <1>10 DEF Cut
  <2>2. a > p
    BY <1>0, <1>2, <2>1
  <2> DEFINE t == SubSeq(z, a + 1, b - 1)
  <2>3. t \in Seq(T) /\ Len(t) = b - a - 1 /\ \A i \in 1..(b - a - 1) : t[i] = z[a + i]
    BY <1>0, <1>1, <2>1
  <2> HIDE DEF t
  <2>4. \A j \in 1..Len(t) : t[j] \in Marks
    <3> SUFFICES ASSUME NEW j \in 1..Len(t) PROVE t[j] \in Marks
      OBVIOUS
    <3>1. j \in 1..(b - a - 1) /\ a + j \in (a + 1)..(b - 1) /\ a + j \in (p + 1)..(p + m)
      BY <1>0, <2>1, <2>2, <2>3
    <3>2. t[j] = "\r"
      BY <1>3, <2>1, <2>3, <3>1
    <3> QED BY <3>2 DEF Marks
  <2>5. Strip(t) = <<>>
    BY <2>3, <2>4, StripNothing
  <2> QED BY <2>5, Zenon DEF Piece, t
<1>11. ASSUME Says(z, n, k) PROVE Tells(r, n, k)
  <2>1. PICK a, b \in Int : Cut(z, a, b) /\ Tells(Piece(z, a, b), n, k)
    BY <1>11 DEF Says
  <2>2. a = 0
    BY <1>10, <2>1, NothingTells
  <2>3. b = q
    BY <1>9, <2>1, <2>2
  <2> QED BY <1>7, <2>1, <2>2, <2>3
<1>12. ASSUME Tells(r, n, k) PROVE Says(z, n, k)
  <2>1. q \in Int /\ 0 \in Int /\ Tells(Piece(z, 0, q), n, k)
    BY <1>0, <1>6, <1>7, <1>12
  <2> QED BY <1>8, <2>1 DEF Says
<1> QED BY <1>11, <1>12 DEF z

(* The places between which there is a record.                             *)
BoundsOf(tk) == {p \in ({0} \cup Ends(tk)) \X Ends(tk) :
                    p[1] < p[2] /\ \A i \in (p[1] + 1)..(p[2] - 1) : tk[i] \notin Seps}
(* A type that a record at a tells of, and all that a text tells of.       *)
TypeAt(a, n, k) == [at |-> a, name |-> n, kind |-> k]
TypesAt(tk) == UNION {{TypeAt(r.at, n, r.record[Len(r.record)]) : n \in TypeName(r.record)} : r \in Records(tk)}

(* The places between which parse_tk_dump looks are the cuts.              *)
LEMMA BoundsAreCuts ==
    ASSUME NEW tk, IsSeq(tk)
    PROVE  /\ \A p \in BoundsOf(tk) : p[1] \in Int /\ p[2] \in Int /\ Cut(tk, p[1], p[2])
           /\ \A a, b \in Int : Cut(tk, a, b) => <<a, b>> \in BoundsOf(tk)
<1>1. Len(tk) \in Nat /\ DOMAIN tk = 1..Len(tk)
  BY SeqDomain
<1>2. Ends(tk) = {i \in DOMAIN tk : tk[i] \in Seps} \cup {Len(tk) + 1}
  BY Zenon DEF Ends, Seps
<1>3. \A i \in Int : i \in Ends(tk) <=> i \in 1..(Len(tk) + 1) /\ (i = Len(tk) + 1 \/ tk[i] \in Seps)
  BY <1>1, <1>2
<1>4. Ends(tk) \subseteq Int
  BY <1>1, <1>2
<1>5. ASSUME NEW p \in BoundsOf(tk) PROVE p[1] \in Int /\ p[2] \in Int /\ Cut(tk, p[1], p[2])
  <2> DEFINE a == p[1]
             b == p[2]
  <2>1. /\ a \in {0} \cup Ends(tk) /\ b \in Ends(tk) /\ a < b
        /\ \A i \in (a + 1)..(b - 1) : tk[i] \notin Seps
    BY DEF BoundsOf
  <2> HIDE DEF a, b
  <2>2. a \in Int /\ b \in Int
    BY <1>4, <2>1
  <2>3. b \in 1..(Len(tk) + 1) /\ (b = Len(tk) + 1 \/ tk[b] \in Seps)
    BY <1>3, <2>1, <2>2
  <2>4. a \in 0..Len(tk) /\ (a = 0 \/ tk[a] \in Seps)
    <3>1. CASE a = 0
      BY <1>1, <3>1
    <3>2. CASE a # 0
      <4>1. a \in 1..(Len(tk) + 1) /\ (a = Len(tk) + 1 \/ tk[a] \in Seps)
        BY <1>3, <2>1, <2>2, <3>2
      <4> QED BY <1>1, <2>1, <2>3, <4>1
    <3> QED BY <3>1, <3>2
  <2>5. Cut(tk, a, b)
    BY <2>1, <2>3, <2>4, Zenon DEF Cut
  <2> QED BY <2>2, <2>5 DEF a, b
<1>6. ASSUME NEW a \in Int, NEW b \in Int, Cut(tk, a, b) PROVE <<a, b>> \in BoundsOf(tk)
  <2>1. /\ a \in 0..Len(tk) /\ b \in 1..(Len(tk) + 1) /\ a < b
        /\ (a = 0 \/ tk[a] \in Seps) /\ (b = Len(tk) + 1 \/ tk[b] \in Seps)
        /\ \A i \in (a + 1)..(b - 1) : tk[i] \notin Seps
    BY <1>6, Zenon DEF Cut
  <2>2. b \in Ends(tk)
    BY <1>3, <2>1
  <2>3. a \in {0} \cup Ends(tk)
    BY <1>1, <1>3, <2>1
  <2> QED BY <2>1, <2>2, <2>3 DEF BoundsOf
<1> QED BY <1>5, <1>6

(* The types that are found, with the place of each.                       *)
LEMMA TypesAtCuts ==
    ASSUME NEW tk, IsSeq(tk), NEW u
    PROVE  u \in TypesAt(tk) <=> \E a, b \in Int : \E n, k :
              Cut(tk, a, b) /\ Tells(Piece(tk, a, b), n, k) /\ u = TypeAt(a, n, k)
<1> DEFINE rec(p) == [at |-> p[1], record |-> Piece(tk, p[1], p[2])]
<1>1. Records(tk) = {rec(p) : p \in BoundsOf(tk)}
  BY Zenon DEF Records, BoundsOf, Piece, Seps
<1>2. \A p : rec(p).at = p[1] /\ rec(p).record = Piece(tk, p[1], p[2])
  BY Zenon
<1> HIDE DEF rec
<1>3. u \in TypesAt(tk) <=> \E r \in Records(tk) : \E n \in TypeName(r.record) :
                               u = TypeAt(r.at, n, r.record[Len(r.record)])
  <2> DEFINE found(r) == {TypeAt(r.at, n, r.record[Len(r.record)]) : n \in TypeName(r.record)}
  <2>1. TypesAt(tk) = UNION {found(r) : r \in Records(tk)}
    BY Zenon DEF TypesAt
  <2>2. \A r : u \in found(r) <=> \E n \in TypeName(r.record) : u = TypeAt(r.at, n, r.record[Len(r.record)])
    BY Zenon
  <2> HIDE DEF found
  <2>3. u \in TypesAt(tk) <=> \E r \in Records(tk) : u \in found(r)
    BY <2>1
  <2> QED BY <2>2, <2>3, Zenon
<1>4. u \in TypesAt(tk) <=> \E p \in BoundsOf(tk) : \E n \in TypeName(Piece(tk, p[1], p[2])) :
                               u = TypeAt(p[1], n, Piece(tk, p[1], p[2])[Len(Piece(tk, p[1], p[2]))])
  BY <1>1, <1>2, <1>3, Zenon
<1>5. ASSUME u \in TypesAt(tk)
      PROVE  \E a, b \in Int : \E n, k : Cut(tk, a, b) /\ Tells(Piece(tk, a, b), n, k) /\ u = TypeAt(a, n, k)
  <2>1. PICK p \in BoundsOf(tk) : \E n \in TypeName(Piece(tk, p[1], p[2])) :
                               u = TypeAt(p[1], n, Piece(tk, p[1], p[2])[Len(Piece(tk, p[1], p[2]))])
    BY <1>4, <1>5, Zenon
  <2>2. p[1] \in Int /\ p[2] \in Int /\ Cut(tk, p[1], p[2])
    BY BoundsAreCuts
  <2>3. PICK n \in TypeName(Piece(tk, p[1], p[2])) : u = TypeAt(p[1], n, Piece(tk, p[1], p[2])[Len(Piece(tk, p[1], p[2]))])
    BY <2>1
  <2>4. Tells(Piece(tk, p[1], p[2]), n, Piece(tk, p[1], p[2])[Len(Piece(tk, p[1], p[2]))])
    BY Zenon DEF Tells
  <2> QED BY <2>2, <2>3, <2>4, Zenon
<1>6. ASSUME NEW a \in Int, NEW b \in Int, NEW n, NEW k,
             Cut(tk, a, b), Tells(Piece(tk, a, b), n, k), u = TypeAt(a, n, k)
      PROVE  u \in TypesAt(tk)
  <2> DEFINE p == <<a, b>>
  <2>1. p \in BoundsOf(tk) /\ p[1] = a /\ p[2] = b
    BY <1>6, BoundsAreCuts
  <2> HIDE DEF p
  <2>2. n \in TypeName(Piece(tk, p[1], p[2])) /\ u = TypeAt(p[1], n, Piece(tk, p[1], p[2])[Len(Piece(tk, p[1], p[2]))])
    BY <1>6, <2>1, Zenon DEF Tells
  <2> QED BY <1>4, <2>1, <2>2, Zenon
<1> QED BY <1>5, <1>6, Zenon

(* A record that begins at one place ends at one.                          *)
LEMMA CutEnds ==
    ASSUME NEW tk, IsSeq(tk), NEW a \in Int, NEW b \in Int, NEW d \in Int, Cut(tk, a, b), Cut(tk, a, d)
    PROVE  b = d
<1>1. Len(tk) \in Nat
  BY SeqDomain
<1>2. /\ b \in 1..(Len(tk) + 1) /\ a < b /\ (b = Len(tk) + 1 \/ tk[b] \in Seps)
      /\ \A i \in (a + 1)..(b - 1) : tk[i] \notin Seps
  BY Zenon DEF Cut
<1>3. /\ d \in 1..(Len(tk) + 1) /\ a < d /\ (d = Len(tk) + 1 \/ tk[d] \in Seps)
      /\ \A i \in (a + 1)..(d - 1) : tk[i] \notin Seps
  BY Zenon DEF Cut
<1>4. ~(b < d)
  BY <1>1, <1>2, <1>3
<1>5. ~(d < b)
  BY <1>1, <1>2, <1>3
<1> QED BY <1>1, <1>2, <1>3, <1>4, <1>5

(* parse_tk_dump has one type for each name that the dump tells of, of a   *)
(* kind that it tells of: the first.                                       *)
LEMMA ParseIs ==
    ASSUME NEW tk, IsSeq(tk)
    PROVE  /\ \A t \in ParseTkDump(tk) : t = [name |-> t.name, kind |-> t.kind] /\ Says(tk, t.name, t.kind)
           /\ \A n, k : Says(tk, n, k) => \E t \in ParseTkDump(tk) : t.name = n
           /\ \A t, u \in ParseTkDump(tk) : t.name = u.name => t = u
<1> DEFINE A == TypesAt(tk)
           firsts == {u \in A : \A v \in A : v.at < u.at => v.name # u.name}
           out(u) == [name |-> u.name, kind |-> u.kind]
<1>1. ParseTkDump(tk) = {out(u) : u \in firsts}
  BY Zenon DEF ParseTkDump, TypesAt, TypeAt
<1>2. \A a, n, k : TypeAt(a, n, k).at = a /\ TypeAt(a, n, k).name = n /\ TypeAt(a, n, k).kind = k
  BY Zenon DEF TypeAt
<1>3. ASSUME NEW u \in A
      PROVE  \E a, b \in Int : /\ u.at = a /\ Cut(tk, a, b) /\ u.name \in TypeName(Piece(tk, a, b))
                               /\ u.kind = Piece(tk, a, b)[Len(Piece(tk, a, b))]
  <2>0. \E a, b \in Int : \E n, k : Cut(tk, a, b) /\ Tells(Piece(tk, a, b), n, k) /\ u = TypeAt(a, n, k)
    BY TypesAtCuts
  <2>1. PICK a, b, n, k : a \in Int /\ b \in Int /\ Cut(tk, a, b) /\ Tells(Piece(tk, a, b), n, k) /\ u = TypeAt(a, n, k)
    BY <2>0, Zenon
  <2>3. u.at = a /\ u.name = n /\ u.kind = k
    <3>1. TypeAt(a, n, k).at = a /\ TypeAt(a, n, k).name = n /\ TypeAt(a, n, k).kind = k
      BY DEF TypeAt
    <3> QED BY <2>1, <3>1
  <2>4. n \in TypeName(Piece(tk, a, b)) /\ k = Piece(tk, a, b)[Len(Piece(tk, a, b))]
    BY <2>1, Zenon DEF Tells
  <2> QED BY <2>1, <2>3, <2>4, Zenon
<1> HIDE DEF A
<1>4. ASSUME NEW u \in A PROVE u.at \in Nat /\ Says(tk, u.name, u.kind)
  <2>1. PICK a \in Int, b \in Int : /\ u.at = a /\ Cut(tk, a, b) /\ u.name \in TypeName(Piece(tk, a, b))
                                    /\ u.kind = Piece(tk, a, b)[Len(Piece(tk, a, b))]
    BY <1>3, Zenon
  <2>2. u.at \in Nat
    BY <2>1 DEF Cut
  <2>3. Tells(Piece(tk, a, b), u.name, u.kind)
    BY <2>1, Zenon DEF Tells
  <2>4. Says(tk, u.name, u.kind)
    BY <2>1, <2>3, Zenon DEF Says
  <2> QED BY <2>2, <2>4
<1>5. \A t \in ParseTkDump(tk) : \E u \in firsts : t = out(u) /\ t.name = u.name /\ t.kind = u.kind
  <2>1. \A u : out(u).name = u.name /\ out(u).kind = u.kind
    BY Zenon
  <2> HIDE DEF out, firsts
  <2> QED BY <1>1, <2>1, Zenon
<1>6. ASSUME NEW t \in ParseTkDump(tk) PROVE t = [name |-> t.name, kind |-> t.kind] /\ Says(tk, t.name, t.kind)
  <2>1. PICK u \in firsts : t = out(u) /\ t.name = u.name /\ t.kind = u.kind
    BY <1>5, Zenon
  <2>2. Says(tk, u.name, u.kind)
    BY <1>4
  <2> QED BY <2>1, <2>2, Zenon
<1>7. ASSUME NEW n, NEW k, Says(tk, n, k) PROVE \E t \in ParseTkDump(tk) : t.name = n
  <2> DEFINE mine == {u \in A : u.name = n}
             places == {i \in Nat : \E u \in mine : u.at = i}
  <2>1. PICK a \in Int, b \in Int : Cut(tk, a, b) /\ Tells(Piece(tk, a, b), n, k)
    BY <1>7 DEF Says
  <2>2. TypeAt(a, n, k) \in mine
    <3>1. TypeAt(a, n, k) \in TypesAt(tk)
      BY <2>1, TypesAtCuts
    <3> QED BY <1>2, <3>1 DEF A
  <2>3. places # {} /\ places \in SUBSET Nat
    BY <1>4, <2>2
  <2>4. PICK i \in places : \A j \in places : i <= j
    <3> HIDE DEF places
    <3> QED BY <2>3, LeastNumber
  <2>5. PICK u \in mine : u.at = i
    BY <2>4
  <2>6. \A v \in A : v.at < u.at => v.name # u.name
    <3> SUFFICES ASSUME NEW v \in A, v.at < u.at, v.name = u.name PROVE FALSE
      OBVIOUS
    <3>1. v \in mine /\ v.at \in Nat
      BY <1>4, <2>5
    <3>2. v.at \in places
      BY <3>1
    <3>3. i <= v.at /\ v.at < i /\ i \in Nat
      BY <2>4, <2>5, <3>2
    <3> QED BY <3>1, <3>3
  <2>7. u \in firsts /\ u.name = n
    BY <2>5, <2>6
  <2>8. out(u).name = u.name
    BY Zenon
  <2> HIDE DEF mine, places, firsts, out
  <2> QED BY <1>1, <2>7, <2>8, Zenon
<1>8. ASSUME NEW t \in ParseTkDump(tk), NEW r \in ParseTkDump(tk), t.name = r.name PROVE t = r
  <2>1. PICK u \in firsts : t = out(u) /\ t.name = u.name /\ t.kind = u.kind
    BY <1>5, Zenon
  <2>2. PICK v \in firsts : r = out(v) /\ r.name = v.name /\ r.kind = v.kind
    BY <1>5, Zenon
  <2>3. u \in A /\ v \in A /\ u.name = v.name
    BY <1>8, <2>1, <2>2
  <2>4. u.at \in Nat /\ v.at \in Nat /\ ~(u.at < v.at) /\ ~(v.at < u.at)
    BY <1>4, <2>3
  <2>5. PICK a \in Int, b \in Int : /\ u.at = a /\ Cut(tk, a, b)
                                    /\ u.kind = Piece(tk, a, b)[Len(Piece(tk, a, b))]
    BY <1>3, <2>3, Zenon
  <2>6. PICK c \in Int, d \in Int : /\ v.at = c /\ Cut(tk, c, d)
                                    /\ v.kind = Piece(tk, c, d)[Len(Piece(tk, c, d))]
    BY <1>3, <2>3, Zenon
  <2>7. a = c
    BY <2>4, <2>5, <2>6
  <2>8. b = d
    BY <2>5, <2>6, <2>7, CutEnds
  <2>9. u.kind = v.kind
    BY <2>5, <2>6, <2>7, <2>8, Zenon
  <2> QED BY <2>1, <2>2, <2>3, <2>9, Zenon
<1> HIDE DEF firsts
<1> QED BY <1>6, <1>7, <1>8, Zenon

(* A text behind which a record begins.                                    *)
Closed(x) == x # <<>> => x[Len(x)] \in Seps

(* Such texts, one after the other, are one again.                         *)
LEMMA ClosedTogether ==
    ASSUME NEW T, NEW x \in Seq(T), NEW y \in Seq(T), Closed(x), Closed(y)
    PROVE  Closed(x \o y)
<1> DEFINE z == x \o y
<1>1. /\ z \in Seq(T) /\ Len(z) = Len(x) + Len(y) /\ Len(x) \in Nat /\ Len(y) \in Nat
      /\ \A i \in 1..Len(x) : z[i] = x[i]
      /\ \A i \in 1..Len(y) : z[Len(x) + i] = y[i]
  BY ConcatFacts
<1> HIDE DEF z
<1>2. CASE y = <<>>
  <2>1. ASSUME z # <<>> PROVE z[Len(z)] \in Seps
    <3>1. Len(y) = 0 /\ Len(z) = Len(x) /\ Len(z) # 0
      BY <1>1, <1>2, <2>1, EmptySeq
    <3>2. x # <<>> /\ Len(x) \in 1..Len(x)
      BY <1>1, <3>1
    <3> QED BY <1>1, <3>1, <3>2 DEF Closed
  <2> QED BY <2>1 DEF Closed, z
<1>3. CASE y # <<>>
  <2>1. Len(y) \in 1..Len(y)
    BY <1>1, <1>3, EmptySeq
  <2>2. z[Len(x) + Len(y)] = y[Len(y)] /\ y[Len(y)] \in Seps
    BY <1>1, <1>3, <2>1 DEF Closed
  <2> QED BY <1>1, <2>2 DEF Closed, z
<1> QED BY <1>2, <1>3

(* Nothing tells of no type.                                               *)
LEMMA NothingSays == ASSUME NEW n, NEW k PROVE ~Says(<<>>, n, k)
<1> SUFFICES ASSUME NEW a \in Int, NEW b \in Int, Cut(<<>>, a, b), Tells(Piece(<<>>, a, b), n, k) PROVE FALSE
  BY DEF Says
<1>1. a = 0 /\ b = 1
  <2>1. a \in 0..Len(<<>>) /\ b \in 1..(Len(<<>>) + 1)
    BY Zenon DEF Cut
  <2> QED BY <2>1
<1>2. SubSeq(<<>>, 0 + 1, 1 - 1) = <<>>
  BY SubSeqEmpty
<1>3. Strip(<<>>) = <<>>
  <2>1. <<>> \in Seq({}) /\ \A j \in 1..Len(<<>>) : <<>>[j] \in Marks
    OBVIOUS
  <2> QED BY <2>1, StripNothing
<1>4. Piece(<<>>, 0, 1) = <<>>
  BY <1>2, <1>3, Zenon DEF Piece
<1> QED BY <1>1, <1>4, NothingTells

(* A text without a '=' tells of no type.                                  *)
LEMMA PlainSays ==
    ASSUME NEW S, NEW x \in Seq(S), \A i \in 1..Len(x) : x[i] # "=", NEW n, NEW k
    PROVE  ~Says(x, n, k)
<1> SUFFICES ASSUME NEW a \in Int, NEW b \in Int, Cut(x, a, b), Tells(Piece(x, a, b), n, k) PROVE FALSE
  BY DEF Says
<1> DEFINE t == SubSeq(x, a + 1, b - 1)
           r == Strip(t)
<1>1. Len(x) \in Nat /\ a \in 0..Len(x) /\ b \in 1..(Len(x) + 1) /\ a < b
  BY DEF Cut
<1>2. t \in Seq(S) /\ \A i \in 1..Len(t) : t[i] # "="
  <2>1. t \in Seq(S) /\ Len(t) = b - a - 1 /\ \A i \in 1..(b - a - 1) : t[i] = x[a + i]
    BY <1>1
  <2>2. \A i \in 1..(b - a - 1) : a + i \in 1..Len(x)
    BY <1>1
  <2> HIDE DEF t
  <2> QED BY <2>1, <2>2
<1> HIDE DEF t
<1>3. \A i \in DOMAIN r : r[i] # "="
  <2>1. CASE \A j \in 1..Len(t) : t[j] \in Marks
    <3>1. r = <<>>
      BY <1>2, <2>1, StripNothing
    <3> HIDE DEF r
    <3> QED BY <3>1
  <2>2. CASE ~ \A j \in 1..Len(t) : t[j] \in Marks
    <3>1. \E f \in 1..Len(t) : \E l \in f..Len(t) :
              /\ t[f] \notin Marks /\ t[l] # "\r"
              /\ \A j \in 1..(f - 1) : t[j] \in Marks
              /\ \A j \in (l + 1)..Len(t) : t[j] = "\r"
      BY <1>2, <2>2, StripBounds
    <3>2. PICK f \in 1..Len(t) : \E l \in f..Len(t) :
              /\ t[f] \notin Marks /\ t[l] # "\r"
              /\ \A j \in 1..(f - 1) : t[j] \in Marks
              /\ \A j \in (l + 1)..Len(t) : t[j] = "\r"
      BY <3>1
    <3>7. PICK l \in f..Len(t) :
              /\ t[f] \notin Marks /\ t[l] # "\r"
              /\ \A j \in 1..(f - 1) : t[j] \in Marks
              /\ \A j \in (l + 1)..Len(t) : t[j] = "\r"
      BY <3>2
    <3>8. r = SubSeq(t, f, l)
      BY <1>2, <3>7, StripIs
    <3>3. Len(t) \in Nat
      BY <1>2
    <3> DEFINE u == SubSeq(t, f, l)
    <3>4. u \in Seq(S) /\ DOMAIN u = 1..(l - f + 1) /\ \A i \in 1..(l - f + 1) : u[i] = t[f + i - 1]
      BY <1>2, <3>3
    <3>5. \A i \in 1..(l - f + 1) : f + i - 1 \in 1..Len(t)
      BY <3>3
    <3> HIDE DEF u
    <3>6. \A i \in DOMAIN u : u[i] # "="
      BY <1>2, <3>4, <3>5
    <3> QED BY <3>8, <3>6, Zenon DEF u
  <2> QED BY <2>1, <2>2
<1>4. n \in TypeName(r)
  BY Zenon DEF Tells, Piece, t
<1>5. \E i \in DOMAIN r : r[i] = "="
  <2> HIDE DEF r
  <2> QED BY <1>4, Zenon DEF TypeName
<1> QED BY <1>3, <1>5

(* The records of texts that are put together are those of each.           *)
LEMMA SaysJoined ==
    ASSUME NEW S, NEW s \in Seq(S), NEW T, NEW f, \A i \in 1..Len(s) : f[s[i]] \in Seq(T) /\ Closed(f[s[i]])
    PROVE  /\ Joined(s, f) \in Seq(T) /\ Closed(Joined(s, f))
           /\ \A n, k : Says(Joined(s, f), n, k) <=> \E i \in 1..Len(s) : Says(f[s[i]], n, k)
<1> DEFINE L == Len(s)
<1>1. L \in Nat /\ L \in 0..L
  OBVIOUS
<1>2. PICK up : JoinsUpTo(up, s, f, L) /\ Joined(s, f) = up[L]
  BY JoinedSteps
<1> HIDE DEF L
<1> DEFINE Right(i) == /\ up[i] \in Seq(T) /\ Closed(up[i])
                       /\ \A n, k : Says(up[i], n, k) <=> \E j \in 1..i : Says(f[s[j]], n, k)
           B == {i \in 0..L : Right(i)}
<1>3. 0 \in B
  <2>1. up[0] = <<>>
    BY <1>2 DEF JoinsUpTo
  <2>2. <<>> \in Seq(T) /\ Closed(<<>>) /\ \A n, k : ~Says(<<>>, n, k)
    BY NothingSays DEF Closed
  <2>3. Right(0)
    BY <2>1, <2>2
  <2> QED BY <1>1, <2>3
<1>4. ASSUME NEW i \in 1..L, i - 1 \in B PROVE i \in B
  <2>1. up[i] = up[i - 1] \o f[s[i]]
    BY <1>2, Zenon DEF JoinsUpTo
  <2>2. f[s[i]] \in Seq(T) /\ Closed(f[s[i]])
    BY DEF L
  <2>3. Right(i - 1)
    BY <1>4
  <2> DEFINE x == up[i - 1]
             y == f[s[i]]
  <2>4. x \in Seq(T) /\ y \in Seq(T) /\ Closed(x) /\ Closed(y)
    BY <2>2, <2>3
  <2>5. up[i] = x \o y
    BY <2>1
  <2>6. \A n, k : Says(x, n, k) <=> \E j \in 1..(i - 1) : Says(f[s[j]], n, k)
    BY <2>3
  <2>7. \A n, k : Says(y, n, k) <=> Says(f[s[i]], n, k)
    OBVIOUS
  <2> HIDE DEF x, y
  <2>8. x \o y \in Seq(T) /\ Closed(x \o y)
    BY <2>4, ClosedTogether, ConcatFacts
  <2>9. ASSUME NEW n, NEW k
        PROVE  Says(x \o y, n, k) <=> \E j \in 1..i : Says(f[s[j]], n, k)
    <3>1. Says(x \o y, n, k) <=> Says(x, n, k) \/ Says(y, n, k)
      BY <2>4, SaysTogether DEF Closed
    <3>2. \A j \in 1..i : j \in 1..(i - 1) \/ j = i
      OBVIOUS
    <3>3. i \in 1..i /\ \A j \in 1..(i - 1) : j \in 1..i
      OBVIOUS
    <3> QED BY <2>6, <2>7, <3>1, <3>2, <3>3, Zenon
  <2>10. i \in 0..L
    BY <1>1
  <2> QED BY <2>5, <2>8, <2>9, <2>10
<1>5. \A i \in 0..L : i \in B
  <2> HIDE DEF B
  <2> QED BY <1>1, <1>3, <1>4, StepByStep
<1>6. Right(L)
  BY <1>1, <1>5
<1> QED BY <1>2, <1>6 DEF L

(* What the text of radare2 about its types consists of.                   *)
Words(m) == {"*", "=", ".", "f", "type"} \cup Kinds \cup {d.name : d \in ToSet(m.types)} \cup Enders
              \cup UNION {ToSet(d.front) : d \in ToSet(m.types)}

(* A word that cannot be taken for punctuation.                            *)
IsName(a) == a \notin Seps /\ a \notin Marks /\ a # "=" /\ a # "." /\ a # "#"

(* The words of a record are none of those around it; what is in front of  *)
(* the last word of a name ends with a blank and tells of nothing.         *)
LEMMA WordsAreApart ==
    ASSUME NEW m, IsCore(m)
    PROVE  /\ \A d \in ToSet(m.types) : d.name \in Words(m) /\ (IsName(d.name) \/ d.name = "*") /\ d.kind \in Words(m) /\ d.kind \in Kinds
           /\ \A d \in ToSet(m.types) : d.front \in Seq(Words(m)) /\ Closed(d.front) /\ \A n, k : ~Says(d.front, n, k)
           /\ \A k \in Kinds : IsName(k)
           /\ {"*", "=", ".", "f", "type"} \subseteq Words(m)
           /\ m.end \in Seq(Enders) /\ m.end \in Seq(Words(m))
           /\ m.types # <<>> => m.end # <<>> /\ m.end[Len(m.end)] \in Seps
           /\ m.types \in Seq(ToSet(m.types))
           /\ \A c, d \in ToSet(m.types) : FullName(c) = FullName(d) => c = d
<1>1. \A d \in ToSet(m.types) : d.kind \in Kinds /\ IsFront(d.front) /\ d.name \notin {"\n", " ", "\r", "=", ".", "#"}
  BY Zenon DEF IsCore, TypesListed
<1>2. \A a : a \notin {"\n", " ", "\r", "=", ".", "#"} => IsName(a) \/ a = "*"
  BY Zenon DEF IsName, Seps, Marks
<1>3. \A k \in Kinds : IsName(k)
  BY Zenon DEF Kinds, IsName, Seps, Marks
<1>4. m.end \in Seq(Enders) /\ m.types \in Seq(ToSet(m.types))
  BY Zenon DEF IsCore, Enders
<1>5. m.types # <<>> => m.end # <<>> /\ m.end[Len(m.end)] \in Seps
  BY Zenon DEF IsCore, TypesListed, Seps
<1>6. \A c, d \in ToSet(m.types) : FullName(c) = FullName(d) => c = d
  BY Zenon DEF IsCore, TypesListed
<1>7. Enders \subseteq Words(m) /\ Kinds \subseteq Words(m) /\ {"*", "=", ".", "f", "type"} \subseteq Words(m)
      /\ \A d \in ToSet(m.types) : d.name \in Words(m)
  BY DEF Words
<1>8. m.end \in Seq(Words(m))
  BY <1>4, <1>7
<1>9. ASSUME NEW d \in ToSet(m.types)
      PROVE  d.front \in Seq(Words(m)) /\ Closed(d.front) /\ \A n, k : ~Says(d.front, n, k)
  <2> DEFINE f == d.front
             F == ToSet(f)
             W == Words(m)
  <2>1. f \in Seq(F) /\ "=" \notin F /\ (f # <<>> => f[Len(f)] = " ")
    BY <1>1 DEF IsFront
  <2>2. F \subseteq W
    BY DEF Words
  <2>3. \A i \in 1..Len(f) : f[i] \in F
    <3>1. f \in Seq(F)
      BY <2>1
    <3> HIDE DEF f, F
    <3> QED BY <3>1, InSeq
  <2>4. " " \in Seps
    BY Zenon DEF Seps
  <2> HIDE DEF f, F, W
  <2>5. f \in Seq(W)
    BY <2>1, <2>2, SeqMonotonic
  <2>6. Closed(f)
    BY <2>1, <2>4 DEF Closed
  <2>7. \A i \in 1..Len(f) : f[i] # "="
    BY <2>1, <2>3
  <2>8. \A n, k : ~Says(f, n, k)
    BY <2>1, <2>7, PlainSays
  <2> QED BY <2>5, <2>6, <2>8 DEF f, W
<1> QED BY <1>1, <1>2, <1>3, <1>4, <1>5, <1>6, <1>7, <1>8, <1>9, Zenon

(* A record NAME=KIND tells of its type.                                   *)
LEMMA RecordTells ==
    ASSUME NEW a, IsName(a), NEW c \in Kinds, NEW n, NEW k
    PROVE  Tells(<<a, "=", c>>, n, k) <=> n = <<a>> /\ k = c
<1> DEFINE r == <<a, "=", c>>
           E == {i \in DOMAIN r : /\ r[1] # "#" /\ r[i] = "=" /\ Len(r) = i + 1 /\ r[i + 1] \in Kinds
                                  /\ \A j \in 1..(i - 1) : r[j] \notin {"=", "."}}
<1>1. TypeName(r) = {SubSeq(r, 1, eq - 1) : eq \in E}
  BY Zenon DEF TypeName
<1>2. /\ r \in Seq({a, "=", c}) /\ Len(r) = 3 /\ DOMAIN r = 1..3
      /\ r[1] = a /\ r[2] = "=" /\ r[3] = c
  OBVIOUS
<1> HIDE DEF r
<1>3. E = {2}
  <2>1. \A i \in E : i = 2
    BY <1>2
  <2>2. 2 \in E
    <3>1. r[1] # "#" /\ r[1] \notin {"=", "."}
      BY <1>2 DEF IsName
    <3> QED BY <1>2, <3>1
  <2> QED BY <2>1, <2>2
<1>4. SubSeq(r, 1, 2 - 1) = <<a>>
  <2> DEFINE t == SubSeq(r, 1, 2 - 1)
             o == <<a>>
             A == {a, "=", c}
  <2>1. t \in Seq(A) /\ Len(t) = 1 /\ t[1] = r[1]
    BY <1>2
  <2>2. o \in Seq(A) /\ Len(o) = 1 /\ o[1] = a
    OBVIOUS
  <2> HIDE DEF t, o, A
  <2>3. \A i \in 1..Len(t) : t[i] = o[i]
    BY <1>2, <2>1, <2>2
  <2>4. t = o
    BY <2>1, <2>2, <2>3, SeqEqual
  <2> QED BY <2>4, Zenon DEF t, o
<1> HIDE DEF E
<1>5. TypeName(r) = {<<a>>}
  BY <1>1, <1>3, <1>4, Zenon
<1>6. r[Len(r)] = c
  BY <1>2
<1> QED BY <1>5, <1>6 DEF Tells, r

(* A record without a name tells of a type without a name.                 *)
LEMMA NamelessTells ==
    ASSUME NEW c \in Kinds, NEW n, NEW k
    PROVE  Tells(<<"=", c>>, n, k) <=> n = <<>> /\ k = c
<1> DEFINE r == <<"=", c>>
           E == {i \in DOMAIN r : /\ r[1] # "#" /\ r[i] = "=" /\ Len(r) = i + 1 /\ r[i + 1] \in Kinds
                                  /\ \A j \in 1..(i - 1) : r[j] \notin {"=", "."}}
<1>1. TypeName(r) = {SubSeq(r, 1, eq - 1) : eq \in E}
  BY Zenon DEF TypeName
<1>2. Len(r) = 2 /\ DOMAIN r = 1..2 /\ r[1] = "=" /\ r[2] = c
  OBVIOUS
<1>4. SubSeq(r, 1, 1 - 1) = <<>>
  OBVIOUS
<1> HIDE DEF r
<1>3. E = {1}
  BY <1>2
<1> HIDE DEF E
<1>5. TypeName(r) = {<<>>}
  BY <1>1, <1>3, <1>4, Zenon
<1>6. r[Len(r)] = c
  BY <1>2
<1> QED BY <1>5, <1>6 DEF Tells, r

(* The record of a field tells of no type, with the name or without.       *)
LEMMA FieldTells ==
    ASSUME NEW a, NEW n, NEW k
    PROVE  ~Tells(<<a, ".", "f", "=", "type">>, n, k) /\ ~Tells(<<".", "f", "=", "type">>, n, k)
<1>1. ASSUME NEW r, NEW p \in {1, 2}, DOMAIN r = 1..(p + 3), Len(r) = p + 3, r[p] = "." PROVE ~Tells(r, n, k)
  <2> DEFINE E == {i \in DOMAIN r : /\ r[1] # "#" /\ r[i] = "=" /\ Len(r) = i + 1 /\ r[i + 1] \in Kinds
                                    /\ \A j \in 1..(i - 1) : r[j] \notin {"=", "."}}
  <2>1. TypeName(r) = {SubSeq(r, 1, eq - 1) : eq \in E}
    BY Zenon DEF TypeName
  <2>2. E = {}
    <3> SUFFICES ASSUME NEW i \in E PROVE FALSE
      OBVIOUS
    <3>1. i = p + 2 /\ \A j \in 1..(i - 1) : r[j] \notin {"=", "."}
      BY <1>1
    <3>2. p \in 1..(i - 1)
      BY <1>1, <3>1
    <3> QED BY <1>1, <3>1, <3>2
  <2> HIDE DEF E
  <2> QED BY <2>1, <2>2 DEF Tells
<1> DEFINE r == <<a, ".", "f", "=", "type">>
           t == <<".", "f", "=", "type">>
<1>2. DOMAIN r = 1..(2 + 3) /\ Len(r) = 2 + 3 /\ r[2] = "."
  OBVIOUS
<1>3. DOMAIN t = 1..(1 + 3) /\ Len(t) = 1 + 3 /\ t[1] = "."
  OBVIOUS
<1>6. 1 \in {1, 2} /\ 2 \in {1, 2}
  OBVIOUS
<1> HIDE DEF r, t
<1>4. ~Tells(r, n, k)
  BY <1>1, <1>2, <1>6, Zenon
<1>5. ~Tells(t, n, k)
  BY <1>1, <1>3, <1>6, Zenon
<1> QED BY <1>4, <1>5 DEF r, t

-----------------------------------------------------------------------------
(* What radare2 prints of its types                                        *)


(* What one chunk of a dump, and what ends it, tells of.                   *)
LEMMA ChunkSays ==
    ASSUME NEW m, IsCore(m), m.types # <<>>, NEW r \in Seq(Words(m)), r # <<>>, r[1] \notin Marks, r[Len(r)] # "\r",
           \A i \in 1..Len(r) : r[i] \notin Seps
    PROVE  /\ r \o m.end \in Seq(Words(m)) /\ Closed(r \o m.end)
           /\ \A n, k : Says(r \o m.end, n, k) <=> Tells(r, n, k)
<1> DEFINE W == Words(m)
           e == m.end
           z == r \o e
<1>1. e \in Seq(Enders) /\ e \in Seq(W) /\ e # <<>> /\ e[Len(e)] \in Seps
  BY WordsAreApart
<1> HIDE DEF W, e
<1>2. r \in Seq(W)
  BY DEF W
<1>3. /\ z \in Seq(W) /\ Len(z) = Len(r) + Len(e) /\ Len(r) \in Nat /\ Len(e) \in Nat
      /\ \A i \in 1..Len(e) : z[Len(r) + i] = e[i]
  BY <1>1, <1>2, ConcatFacts
<1>4. \A n, k : Says(z, n, k) <=> Tells(r, n, k)
  BY <1>1, <1>2, SaysRecord
<1> HIDE DEF z
<1>5. Closed(z)
  <2>1. Len(e) \in 1..Len(e)
    BY <1>1, <1>3, EmptySeq
  <2>2. z[Len(z)] = e[Len(e)]
    BY <1>3, <2>1
  <2> QED BY <1>1, <2>2 DEF Closed
<1> QED BY <1>3, <1>4, <1>5, Zenon DEF z, W, e

(* A record in front of which there is a mark tells what is left of it.    *)
LEMMA MarkedSays ==
    ASSUME NEW m, IsCore(m), m.types # <<>>, NEW r \in Seq(Words(m)), r # <<>>, r[1] \notin Marks, r[Len(r)] # "\r",
           \A i \in 1..Len(r) : r[i] \notin Seps,
           NEW w, w = <<"*">> \o r
    PROVE  /\ w \o m.end \in Seq(Words(m)) /\ Closed(w \o m.end)
           /\ \A n, k : Says(w \o m.end, n, k) <=> Tells(r, n, k)
<1> DEFINE W == Words(m)
           star == <<"*">>
           z == r \o m.end
<1>1. z \in Seq(W) /\ Closed(z) /\ \A n, k : Says(z, n, k) <=> Tells(r, n, k)
  BY ChunkSays
<1>2. star \in Seq(W)
  <2>1. "*" \in W
    BY WordsAreApart
  <2> QED BY <2>1
<1>3. m.end \in Seq(W) /\ m.end # <<>>
  BY WordsAreApart
<1>4. w \o m.end = star \o z
  <2>0. IsSeq(star) /\ IsSeq(r) /\ IsSeq(m.end)
    BY <1>2, <1>3, InSeq
  <2> HIDE DEF W, star, z
  <2>1. (star \o r) \o m.end = star \o (r \o m.end)
    <3>1. Regrouped(star, r, m.end)
      BY <2>0, ConcatsAssociate
    <3> QED BY <3>1, Zenon DEF Regrouped
  <2> QED BY <2>1, Zenon DEF star, z
<1>5. \A n, k : Says(star \o z, n, k) <=> Says(z, n, k)
  BY <1>1, SaysStar
<1>6. z # <<>>
  <2>1. Len(z) = Len(r) + Len(m.end) /\ Len(r) \in Nat /\ Len(m.end) \in Nat
    BY <1>3, ConcatFacts
  <2>2. Len(m.end) # 0
    BY <1>3, EmptySeq
  <2> HIDE DEF z
  <2> QED BY <1>1, <2>1, <2>2, EmptySeq
<1> HIDE DEF z, W, star
<1>7. star \o z \in Seq(W) /\ Closed(star \o z)
  <2>1. /\ star \o z \in Seq(W) /\ Len(star \o z) = Len(star) + Len(z) /\ Len(star) \in Nat /\ Len(z) \in Nat
        /\ \A i \in 1..Len(z) : (star \o z)[Len(star) + i] = z[i]
    BY <1>1, <1>2, ConcatFacts
  <2>2. Len(z) \in 1..Len(z) /\ z[Len(z)] \in Seps
    BY <1>1, <1>6, <2>1, EmptySeq DEF Closed
  <2> QED BY <2>1, <2>2 DEF Closed
<1> QED BY <1>1, <1>4, <1>5, <1>7, Zenon DEF W

(* The record of a type tells of the name that is shown.                   *)
LEMMA LastWordSays ==
    ASSUME NEW m, IsCore(m), NEW d \in ToSet(m.types)
    PROVE  /\ <<d.name, "=", d.kind>> \o m.end \in Seq(Words(m)) /\ Closed(<<d.name, "=", d.kind>> \o m.end)
           /\ \A n, k : Says(<<d.name, "=", d.kind>> \o m.end, n, k) <=> n = Shown(d) /\ k = d.kind
<1> DEFINE a == d.name
           c == d.kind
           r == <<a, "=", c>>
           t == <<"=", c>>
<1>1. a \in Words(m) /\ (IsName(a) \/ a = "*") /\ c \in Words(m) /\ c \in Kinds /\ IsName(c) /\ "=" \in Words(m)
  BY WordsAreApart
<1>2. Shown(d) = IF a = "*" THEN <<>> ELSE <<a>>
  BY Zenon DEF Shown
<1>7. m.types # <<>>
  BY DEF ToSet
<1> HIDE DEF a, c
<1>3. r \in Seq(Words(m)) /\ r # <<>> /\ Len(r) = 3 /\ r[1] = a /\ r[2] = "=" /\ r[3] = c
  BY <1>1
<1>4. t \in Seq(Words(m)) /\ t # <<>> /\ Len(t) = 2 /\ t[1] = "=" /\ t[2] = c
  BY <1>1
<1>5. CASE a # "*"
  <2>0. IsName(a)
    BY <1>1, <1>5
  <2>1. \A n, k : Tells(r, n, k) <=> n = <<a>> /\ k = c
    BY <1>1, <2>0, RecordTells
  <2> HIDE DEF r
  <2>2. r[1] \notin Marks /\ r[Len(r)] # "\r"
    BY <1>1, <1>3, <2>0 DEF IsName, Marks
  <2>3. \A i \in 1..Len(r) : r[i] \notin Seps
    <3>1. \A i \in 1..Len(r) : i = 1 \/ i = 2 \/ i = 3
      BY <1>3
    <3> QED BY <1>1, <1>3, <2>0, <3>1, EndersAre DEF IsName
  <2>4. /\ r \o m.end \in Seq(Words(m)) /\ Closed(r \o m.end)
        /\ \A n, k : Says(r \o m.end, n, k) <=> Tells(r, n, k)
    BY <1>3, <1>7, <2>2, <2>3, ChunkSays
  <2>5. Shown(d) = <<a>>
    BY <1>2, <1>5
  <2>6. \A n, k : Says(r \o m.end, n, k) <=> n = Shown(d) /\ k = c
    <3> DEFINE o == <<a>>
               y == r \o m.end
    <3>1. Shown(d) = o
      BY <2>5
    <3>2. \A n, k : Tells(r, n, k) <=> n = o /\ k = c
      BY <2>1
    <3>3. \A n, k : Says(y, n, k) <=> Tells(r, n, k)
      BY <2>4
    <3> HIDE DEF o, y
    <3>4. \A n, k : Says(y, n, k) <=> n = Shown(d) /\ k = c
      BY <3>1, <3>2, <3>3
    <3> QED BY <3>4 DEF y
  <2> QED BY <2>4, <2>6, Zenon DEF r, a, c
<1>6. CASE a = "*"
  <2>1. \A n, k : Tells(t, n, k) <=> n = <<>> /\ k = c
    BY <1>1, NamelessTells
  <2>2. r = <<"*">> \o t
    BY <1>6
  <2> HIDE DEF r, t
  <2>3. t[1] \notin Marks /\ t[Len(t)] # "\r"
    BY <1>1, <1>4 DEF IsName, Marks
  <2>4. \A i \in 1..Len(t) : t[i] \notin Seps
    <3>1. \A i \in 1..Len(t) : i = 1 \/ i = 2
      BY <1>4
    <3> QED BY <1>1, <1>4, <3>1, EndersAre DEF IsName
  <2>5. /\ r \o m.end \in Seq(Words(m)) /\ Closed(r \o m.end)
        /\ \A n, k : Says(r \o m.end, n, k) <=> Tells(t, n, k)
    BY <1>4, <1>7, <2>2, <2>3, <2>4, MarkedSays
  <2>6. Shown(d) = <<>>
    BY <1>2, <1>6
  <2>7. \A n, k : Says(r \o m.end, n, k) <=> n = Shown(d) /\ k = c
    <3> DEFINE o == <<>>
               y == r \o m.end
    <3>1. Shown(d) = o
      BY <2>6
    <3>2. \A n, k : Tells(t, n, k) <=> n = o /\ k = c
      BY <2>1
    <3>3. \A n, k : Says(y, n, k) <=> Tells(t, n, k)
      BY <2>5
    <3> HIDE DEF o, y
    <3>4. \A n, k : Says(y, n, k) <=> n = Shown(d) /\ k = c
      BY <3>1, <3>2, <3>3
    <3> QED BY <3>4 DEF y
  <2> QED BY <2>5, <2>7, Zenon DEF r, a, c
<1> QED BY <1>5, <1>6

(* So does its line, whatever is in front of the last word.                *)
LEMMA RecordSays ==
    ASSUME NEW m, IsCore(m), NEW d \in ToSet(m.types)
    PROVE  /\ TkRecord(m, d) \in Seq(Words(m)) /\ Closed(TkRecord(m, d))
           /\ \A n, k : Says(TkRecord(m, d), n, k) <=> n = Shown(d) /\ k = d.kind
<1> DEFINE x == d.front
           y == <<d.name, "=", d.kind>> \o m.end
<1>1. TkRecord(m, d) = x \o y
  BY Zenon DEF TkRecord
<1>2. x \in Seq(Words(m)) /\ Closed(x) /\ \A n, k : ~Says(x, n, k)
  BY WordsAreApart
<1>3. y \in Seq(Words(m)) /\ Closed(y) /\ \A n, k : Says(y, n, k) <=> n = Shown(d) /\ k = d.kind
  BY LastWordSays
<1> HIDE DEF x, y
<1>4. x \o y \in Seq(Words(m)) /\ Closed(x \o y)
  BY <1>2, <1>3, ConcatFacts, ClosedTogether
<1>5. \A n, k : Says(x \o y, n, k) <=> Says(x, n, k) \/ Says(y, n, k)
  BY <1>2, <1>3, SaysTogether DEF Closed
<1> QED BY <1>1, <1>2, <1>3, <1>4, <1>5, Zenon

(* The line of a field tells of nothing.                                   *)
LEMMA FieldSays ==
    ASSUME NEW m, IsCore(m), NEW d \in ToSet(m.types), NEW z,
           z = d.front \o (<<d.name, ".", "f", "=", "type">> \o m.end)
    PROVE  z \in Seq(Words(m)) /\ Closed(z) /\ \A n, k : ~Says(z, n, k)
<1> DEFINE a == d.name
           r == <<a, ".", "f", "=", "type">>
           t == <<".", "f", "=", "type">>
           W == Words(m)
           x == d.front
           y == r \o m.end
<1>1. a \in W /\ (IsName(a) \/ a = "*") /\ {"*", "=", ".", "f", "type"} \subseteq W
  BY WordsAreApart
<1>2. x \in Seq(W) /\ Closed(x) /\ \A n, k : ~Says(x, n, k)
  BY WordsAreApart
<1>9. m.types # <<>>
  BY DEF ToSet
<1>0. z = x \o y
  OBVIOUS
<1> HIDE DEF a, W, x
<1>5. /\ r \in Seq(W) /\ r # <<>> /\ Len(r) = 5
      /\ r[1] = a /\ r[2] = "." /\ r[3] = "f" /\ r[4] = "=" /\ r[5] = "type"
  <2>1. "." \in W /\ "f" \in W /\ "=" \in W /\ "type" \in W
    BY <1>1
  <2> QED BY <1>1, <2>1
<1>6. /\ t \in Seq(W) /\ t # <<>> /\ Len(t) = 4
      /\ t[1] = "." /\ t[2] = "f" /\ t[3] = "=" /\ t[4] = "type"
  <2>1. "." \in W /\ "f" \in W /\ "=" \in W /\ "type" \in W
    BY <1>1
  <2> QED BY <2>1
<1>7. \A n, k : ~Tells(r, n, k) /\ ~Tells(t, n, k)
  BY FieldTells
<1>3. y \in Seq(W) /\ Closed(y) /\ \A n, k : ~Says(y, n, k)
  <2>1. CASE IsName(a)
    <3> HIDE DEF r
    <3>1. r[1] \notin Marks /\ r[Len(r)] # "\r"
      BY <1>5, <2>1 DEF IsName
    <3>2. \A i \in 1..Len(r) : r[i] \notin Seps
      <4>1. \A i \in 1..Len(r) : i = 1 \/ i = 2 \/ i = 3 \/ i = 4 \/ i = 5
        BY <1>5
      <4> QED BY <1>5, <2>1, <4>1, EndersAre DEF IsName
    <3>3. y \in Seq(W) /\ Closed(y) /\ \A n, k : Says(y, n, k) <=> Tells(r, n, k)
      BY <1>5, <1>9, <3>1, <3>2, ChunkSays DEF W
    <3> QED BY <1>7, <3>3, Zenon
  <2>2. CASE a = "*"
    <3>0. r = <<"*">> \o t
      BY <2>2
    <3> HIDE DEF r, t
    <3>1. t[1] \notin Marks /\ t[Len(t)] # "\r"
      BY <1>6 DEF Marks
    <3>2. \A i \in 1..Len(t) : t[i] \notin Seps
      <4>1. \A i \in 1..Len(t) : i = 1 \/ i = 2 \/ i = 3 \/ i = 4
        BY <1>6
      <4> QED BY <1>6, <4>1, EndersAre
    <3>3. y \in Seq(W) /\ Closed(y) /\ \A n, k : Says(y, n, k) <=> Tells(t, n, k)
      BY <1>6, <1>9, <3>0, <3>1, <3>2, MarkedSays DEF W
    <3> QED BY <1>7, <3>3, Zenon
  <2> QED BY <1>1, <2>1, <2>2
<1> HIDE DEF y
<1>4. x \o y \in Seq(W) /\ Closed(x \o y)
  BY <1>2, <1>3, ConcatFacts, ClosedTogether
<1>8. \A n, k : Says(x \o y, n, k) <=> Says(x, n, k) \/ Says(y, n, k)
  BY <1>2, <1>3, SaysTogether DEF Closed
<1> QED BY <1>0, <1>2, <1>3, <1>4, <1>8, Zenon DEF W

(* Those of all its fields tell of nothing.                                *)
LEMMA FieldsSay ==
    ASSUME NEW m, IsCore(m), NEW d \in ToSet(m.types)
    PROVE  /\ TkFields(m, d) \in Seq(Words(m)) /\ Closed(TkFields(m, d))
           /\ \A n, k : ~Says(TkFields(m, d), n, k)
<1> DEFINE z == d.front \o (<<d.name, ".", "f", "=", "type">> \o m.end)
           g == [f \in ToSet(d.fields) |-> z]
           W == Words(m)
<1>2. TkFields(m, d) = Joined(d.fields, g)
  BY Zenon DEF TkFields, Gather
<1>3. \A f \in ToSet(d.fields) : g[f] = z
  BY Zenon
<1>4. d.fields \in Seq(ToSet(d.fields))
  BY Zenon DEF IsCore
<1>10. z \in Seq(W) /\ Closed(z) /\ \A n, k : ~Says(z, n, k)
  BY FieldSays
<1> HIDE DEF g, W, z
<1> DEFINE fs == d.fields
<1>11. \A i \in 1..Len(fs) : fs[i] \in ToSet(fs)
  BY <1>4 DEF ToSet
<1>12. \A i \in 1..Len(fs) : g[fs[i]] = z
  BY <1>3, <1>11
<1>13. \A i \in 1..Len(fs) : g[fs[i]] \in Seq(W) /\ Closed(g[fs[i]]) /\ \A n, k : ~Says(g[fs[i]], n, k)
  BY <1>10, <1>12, Zenon
<1> DEFINE F == ToSet(fs)
<1>14. fs \in Seq(F)
  BY <1>4
<1> HIDE DEF fs, F
<1>15. /\ Joined(fs, g) \in Seq(W) /\ Closed(Joined(fs, g))
       /\ \A n, k : Says(Joined(fs, g), n, k) <=> \E i \in 1..Len(fs) : Says(g[fs[i]], n, k)
  BY <1>13, <1>14, SaysJoined
<1>16. \A n, k : ~Says(Joined(fs, g), n, k)
  BY <1>13, <1>15, Zenon
<1> QED BY <1>2, <1>15, <1>16, Zenon DEF W, fs

(* tk* tells of each type and of nothing else.                             *)
LEMMA DumpSays ==
    ASSUME NEW m, IsCore(m)
    PROVE  \A n, k : Says(TkDump(m), n, k) <=> \E d \in ToSet(m.types) : n = Shown(d) /\ k = d.kind
<1> DEFINE ts == m.types
           D == ToSet(ts)
           W == Words(m)
           g == [d \in D |-> TkFields(m, d) \o TkRecord(m, d)]
           G == Joined(ts, g)
<1>1. TkDump(m) = <<"*">> \o G
  BY Zenon DEF TkDump, Gather
<1>2. ASSUME NEW d \in D
      PROVE  /\ g[d] \in Seq(W) /\ Closed(g[d])
             /\ \A n, k : Says(g[d], n, k) <=> n = Shown(d) /\ k = d.kind
  <2> DEFINE x == TkFields(m, d)
             y == TkRecord(m, d)
  <2>1. g[d] = x \o y
    BY Zenon
  <2>2. x \in Seq(W) /\ Closed(x) /\ \A n, k : ~Says(x, n, k)
    BY FieldsSay
  <2>3. y \in Seq(W) /\ Closed(y) /\ \A n, k : Says(y, n, k) <=> n = Shown(d) /\ k = d.kind
    BY RecordSays
  <2> HIDE DEF x, y, W, g
  <2>4. x \o y \in Seq(W) /\ Closed(x \o y)
    BY <2>2, <2>3, ConcatFacts, ClosedTogether
  <2>5. \A n, k : Says(x \o y, n, k) <=> Says(x, n, k) \/ Says(y, n, k)
    BY <2>2, <2>3, SaysTogether DEF Closed
  <2> QED BY <2>1, <2>2, <2>3, <2>4, <2>5, Zenon
<1> HIDE DEF g, W
<1>3. ts \in Seq(D)
  BY WordsAreApart
<1>4. \A x : x \in D <=> \E i \in 1..Len(ts) : x = ts[i]
  BY <1>3 DEF ToSet
<1> HIDE DEF ts, D
<1>5. \A i \in 1..Len(ts) : g[ts[i]] \in Seq(W) /\ Closed(g[ts[i]])
  BY <1>2, <1>4
<1>6. G \in Seq(W) /\ \A n, k : Says(G, n, k) <=> \E i \in 1..Len(ts) : Says(g[ts[i]], n, k)
  BY <1>3, <1>5, SaysJoined
<1> HIDE DEF G
<1>7. ASSUME NEW n, NEW k
      PROVE  Says(TkDump(m), n, k) <=> \E d \in D : n = Shown(d) /\ k = d.kind
  <2>1. Says(TkDump(m), n, k) <=> Says(G, n, k)
    BY <1>1, <1>6, SaysStar
  <2>2. Says(G, n, k) <=> \E d \in D : Says(g[d], n, k)
    BY <1>4, <1>6
  <2> QED BY <1>2, <2>1, <2>2
<1> QED BY <1>7 DEF D, ts

(* The types that are found: one for each name that is shown, of the kind  *)
(* of a type that is shown so.                                             *)
LEMMA TypesFound ==
    ASSUME NEW m, IsCore(m)
    PROVE  /\ \A t \in TypeKinds(m) : /\ t = [name |-> t.name, kind |-> t.kind]
                                      /\ \E d \in ToSet(m.types) : t.name = Shown(d) /\ t.kind = d.kind
           /\ \A d \in ToSet(m.types) : \E t \in TypeKinds(m) : t.name = Shown(d)
           /\ \A t, u \in TypeKinds(m) : t.name = u.name => t = u
<1> DEFINE tk == TkDump(m)
           P == ParseTkDump(tk)
<1>1. TypeKinds(m) = P
  BY DEF TypeKinds
<1>2. IsSeq(tk)
  BY DumpIsSeq
<1>3. \A n, k : Says(tk, n, k) <=> \E d \in ToSet(m.types) : n = Shown(d) /\ k = d.kind
  BY DumpSays
<1> HIDE DEF tk
<1>4. /\ \A t \in P : t = [name |-> t.name, kind |-> t.kind] /\ Says(tk, t.name, t.kind)
      /\ \A n, k : Says(tk, n, k) => \E t \in P : t.name = n
      /\ \A t, u \in P : t.name = u.name => t = u
  BY <1>2, ParseIs
<1> HIDE DEF P
<1>5. \A d \in ToSet(m.types) : \E t \in P : t.name = Shown(d)
  BY <1>3, <1>4, Zenon
<1>6. ASSUME NEW t \in P PROVE \E d \in ToSet(m.types) : t.name = Shown(d) /\ t.kind = d.kind
  <2>1. Says(tk, t.name, t.kind)
    BY <1>4, Zenon
  <2> QED BY <1>3, <2>1
<1> QED BY <1>1, <1>4, <1>5, <1>6, Zenon

-----------------------------------------------------------------------------
(* What a type takes up                                                    *)


(* up[i] is the sum of the first i elements of s.                          *)
SumsUpTo(up, s, n) ==
    /\ up = [i \in 0..n |-> up[i]] /\ up[0] = 0
    /\ \A i \in 1..n : up[i] = up[i - 1] + s[i]

(* There is such a function for the first n elements.                      *)
LEMMA SumsExist ==
    ASSUME NEW s, NEW n \in Nat
    PROVE  \E up : SumsUpTo(up, s, n)
<1> DEFINE B == {i \in 0..n : \E up : SumsUpTo(up, s, i)}
<1>1. 0 \in B
  <2> DEFINE none == [i \in 0..0 |-> 0]
  <2>1. none = [i \in 0..0 |-> none[i]] /\ none[0] = 0 /\ \A i \in 1..0 : FALSE
    OBVIOUS
  <2> HIDE DEF none
  <2>2. SumsUpTo(none, s, 0)
    BY <2>1 DEF SumsUpTo
  <2> QED BY <2>2
<1>2. ASSUME NEW i \in 1..n, i - 1 \in B PROVE i \in B
  <2>1. PICK up : SumsUpTo(up, s, i - 1)
    BY <1>2
  <2> DEFINE next == up[i - 1] + s[i]
             longer == [k \in 0..i |-> IF k = i THEN next ELSE up[k]]
  <2>2. longer = [k \in 0..i |-> longer[k]]
    OBVIOUS
  <2>3. longer[i] = next /\ \A k \in 0..(i - 1) : longer[k] = up[k]
    OBVIOUS
  <2> HIDE DEF longer
  <2>4. up[0] = 0 /\ \A k \in 1..(i - 1) : up[k] = up[k - 1] + s[k]
    BY <2>1 DEF SumsUpTo
  <2>5. longer[0] = 0
    BY <2>3, <2>4
  <2>6. ASSUME NEW k \in 1..i PROVE longer[k] = longer[k - 1] + s[k]
    <3>1. CASE k = i
      <4>1. i - 1 \in 0..(i - 1)
        OBVIOUS
      <4>2. longer[i] = up[i - 1] + s[i] /\ longer[i - 1] = up[i - 1]
        BY <2>3, <4>1, Zenon
      <4> QED BY <3>1, <4>2, Zenon
    <3>2. CASE k \in 1..(i - 1)
      <4>1. k \in 0..(i - 1) /\ k - 1 \in 0..(i - 1)
        BY <3>2
      <4> HIDE DEF next
      <4>2. longer[k] = up[k] /\ longer[k - 1] = up[k - 1] /\ up[k] = up[k - 1] + s[k]
        BY <2>3, <2>4, <3>2, <4>1
      <4> QED BY <4>2, Zenon
    <3>3. k = i \/ k \in 1..(i - 1)
      OBVIOUS
    <3> QED BY <3>1, <3>2, <3>3, Zenon
  <2>7. SumsUpTo(longer, s, i)
    BY <2>2, <2>5, <2>6 DEF SumsUpTo
  <2> QED BY <2>7
<1>3. \A i \in 0..n : i \in B
  <2> HIDE DEF B
  <2> QED BY <1>1, <1>2, StepByStep
<1> QED BY <1>3

(* Total is the last value of such a function.                             *)
LEMMA TotalSteps ==
    ASSUME NEW S, NEW s \in Seq(S)
    PROVE  \E up : SumsUpTo(up, s, Len(s)) /\ Total(s) = up[Len(s)]
<1> DEFINE L == Len(s)
           Adds(g) == [i \in 0..L |-> IF i = 0 THEN 0 ELSE g[i - 1] + s[i]]
           upto == CHOOSE g : g = Adds(g)
<1>1. Total(s) = upto[L]
  BY Zenon DEF Total
<1>2. L \in Nat
  OBVIOUS
<1>3. PICK up : SumsUpTo(up, s, L)
  BY <1>2, SumsExist
<1>4. up = Adds(up)
  <2>1. up = [i \in 0..L |-> up[i]]
    BY <1>3 DEF SumsUpTo
  <2>2. \A i \in 0..L : up[i] = IF i = 0 THEN 0 ELSE up[i - 1] + s[i]
    <3>1. up[0] = 0 /\ \A i \in 1..L : up[i] = up[i - 1] + s[i]
      BY <1>3, Zenon DEF SumsUpTo
    <3>2. \A i \in 0..L : i = 0 \/ (i \in 1..L /\ i # 0)
      BY <1>2
    <3> HIDE DEF L
    <3> QED BY <3>1, <3>2, Zenon
  <2>3. Adds(up) = [i \in 0..L |-> up[i]]
    BY <2>2
  <2> QED BY <2>1, <2>3
<1>5. upto = Adds(upto)
  BY <1>4
<1> HIDE DEF upto
<1>6. upto = [i \in 0..L |-> upto[i]]
  BY <1>5
<1>7. upto[0] = 0 /\ \A i \in 1..L : upto[i] = upto[i - 1] + s[i]
  <2>1. \A i \in 0..L : upto[i] = IF i = 0 THEN 0 ELSE upto[i - 1] + s[i]
    BY <1>5
  <2> HIDE DEF L
  <2>2. 0 \in 0..L /\ \A i \in 1..L : i \in 0..L /\ i # 0
    BY <1>2
  <2> QED BY <2>1, <2>2, Zenon
<1> QED BY <1>1, <1>6, <1>7 DEF SumsUpTo

(* The largest of some numbers, and of none 0.                             *)
LEMMA LargestIs ==
    ASSUME NEW S \in SUBSET Nat, NEW e \in S \cup {0}, \A x \in S : x <= e
    PROVE  Largest(S) = e
<1> DEFINE l == Largest(S)
<1>1. l \in S \cup {0} /\ \A x \in S : x <= l
  BY Zenon DEF Largest
<1> HIDE DEF l
<1>2. l \in Nat /\ e \in Nat
  BY <1>1
<1>3. CASE S = {}
  BY <1>1, <1>3 DEF l
<1>4. CASE S # {}
  <2>1. PICK x \in S : TRUE
    BY <1>4
  <2>2. e \in S \/ (e = 0 /\ x = 0)
    BY <2>1
  <2>3. l \in S \/ (l = 0 /\ x = 0)
    BY <1>1, <2>1
  <2>4. e <= l /\ l <= e
    BY <1>1, <1>2, <2>1, <2>2, <2>3
  <2> QED BY <1>2, <2>4 DEF l
<1> QED BY <1>3, <1>4

(* The fields of a type have a place and a size.                           *)
LEMMA FieldFacts ==
    ASSUME NEW m, IsCore(m), NEW d \in ToSet(m.types)
    PROVE  /\ d.fields \in Seq(ToSet(d.fields)) /\ Len(d.fields) \in Nat /\ DOMAIN d.fields = 1..Len(d.fields)
           /\ \A i \in 1..Len(d.fields) :
                 /\ d.fields[i] \in ToSet(d.fields)
                 /\ d.fields[i].offset \in Nat /\ d.fields[i].size * Count(d.fields[i]) \in Nat
                 /\ EndOf(d.fields[i]) = d.fields[i].offset + d.fields[i].size * Count(d.fields[i])
                 /\ d.kind = "union" => d.fields[i].offset = 0
           /\ Sizes(d) \in Seq(Nat) /\ Len(Sizes(d)) = Len(d.fields)
           /\ \A i \in 1..Len(d.fields) : Sizes(d)[i] = d.fields[i].size * Count(d.fields[i])
<1> DEFINE fs == d.fields
           n == Len(fs)
<1>1. fs \in Seq(ToSet(fs))
  BY Zenon DEF IsCore
<1>2. \A f \in ToSet(fs) : IsField(f) /\ (d.kind = "union" => f.offset = 0)
  BY Zenon DEF IsCore, TypesListed
<1>3. n \in Nat /\ DOMAIN fs = 1..n /\ \A i \in 1..n : fs[i] \in ToSet(fs)
  <2>1. IsSeq(fs)
    BY <1>1 DEF IsSeq
  <2> HIDE DEF fs
  <2> QED BY <2>1, SeqDomain
<1> HIDE DEF n
<1>4. ASSUME NEW i \in 1..n
      PROVE  /\ fs[i].offset \in Nat /\ fs[i].size * Count(fs[i]) \in Nat
             /\ EndOf(fs[i]) = fs[i].offset + fs[i].size * Count(fs[i])
             /\ d.kind = "union" => fs[i].offset = 0
  <2> DEFINE f == fs[i]
  <2>1. IsField(f) /\ (d.kind = "union" => f.offset = 0)
    BY <1>2, <1>3
  <2>2. EndOf(f) = f.offset + f.size * Count(f)
    BY Zenon DEF EndOf
  <2> HIDE DEF f
  <2>3. f.offset \in Nat /\ f.size \in Nat /\ Count(f) \in Nat
    BY <2>1 DEF IsField, Count
  <2> DEFINE a == f.size
             b == Count(f)
  <2>4. a \in Nat /\ b \in Nat
    BY <2>3
  <2> HIDE DEF a, b
  <2>5. a * b \in Nat
    BY <2>4
  <2> QED BY <2>1, <2>2, <2>3, <2>5 DEF f, a, b
<1> DEFINE out(f) == f.size * Count(f)
<1>5. Sizes(d) = [i \in DOMAIN fs |-> out(fs[i])]
  BY Zenon DEF Sizes, Map
<1>6. \A i \in 1..n : out(fs[i]) = fs[i].size * Count(fs[i])
  OBVIOUS
<1>7. \A i \in 1..n : out(fs[i]) \in Nat
  BY <1>4
<1> HIDE DEF out, fs
<1>8. Sizes(d) \in Seq(Nat) /\ Len(Sizes(d)) = n /\ \A i \in 1..n : Sizes(d)[i] = out(fs[i])
  BY <1>3, <1>5, <1>7
<1> QED BY <1>1, <1>3, <1>4, <1>6, <1>8, Zenon DEF fs, n

(* A union takes up as much as its largest field.                          *)
LEMMA UnionSize ==
    ASSUME NEW m, IsCore(m), NEW d \in ToSet(m.types), d.kind = "union"
    PROVE  Largest(ToSet(Sizes(d))) = Extent(d)
<1> DEFINE n == Len(d.fields)
<1>1. \A i \in 1..n : EndOf(d.fields[i]) = Sizes(d)[i]
  <2> SUFFICES ASSUME NEW i \in 1..n PROVE EndOf(d.fields[i]) = Sizes(d)[i]
    OBVIOUS
  <2> DEFINE a == d.fields[i].size * Count(d.fields[i])
  <2>1. a \in Nat /\ EndOf(d.fields[i]) = d.fields[i].offset + a /\ d.fields[i].offset = 0 /\ Sizes(d)[i] = a
    BY FieldFacts
  <2> HIDE DEF a
  <2> QED BY <2>1
<1>2. DOMAIN d.fields = 1..n /\ DOMAIN Sizes(d) = 1..n
  BY FieldFacts
<1>3. {EndOf(f) : f \in ToSet(d.fields)} = ToSet(Sizes(d))
  <2> HIDE DEF n
  <2>1. \A f : f \in ToSet(d.fields) <=> \E i \in 1..n : f = d.fields[i]
    BY <1>2, Zenon DEF ToSet
  <2>2. \A x : x \in ToSet(Sizes(d)) <=> \E i \in 1..n : x = Sizes(d)[i]
    BY <1>2, Zenon DEF ToSet
  <2> QED BY <1>1, <2>1, <2>2
<1> QED BY <1>3 DEF Extent

(* A struct whose fields lie in a row takes up their sum.                  *)
LEMMA StructSize ==
    ASSUME NEW m, IsCore(m), NEW d \in ToSet(m.types), d.kind = "struct", Packed(d)
    PROVE  Total(Sizes(d)) = Extent(d)
<1> DEFINE n == Len(d.fields)
           s == Sizes(d)
           E(i) == EndOf(d.fields[i])
           ends == {EndOf(f) : f \in ToSet(d.fields)}
<1>1. n \in Nat /\ s \in Seq(Nat) /\ Len(s) = n /\ DOMAIN d.fields = 1..n
  BY FieldFacts
<1>2. \A i \in 1..n : s[i] \in Nat
  BY <1>1
<1>3. \A i \in 1..n : d.fields[i].offset \in Nat /\ E(i) = d.fields[i].offset + s[i]
  <2> SUFFICES ASSUME NEW i \in 1..n PROVE d.fields[i].offset \in Nat /\ E(i) = d.fields[i].offset + s[i]
    OBVIOUS
  <2> DEFINE a == d.fields[i].size * Count(d.fields[i])
  <2>1. d.fields[i].offset \in Nat /\ EndOf(d.fields[i]) = d.fields[i].offset + a /\ s[i] = a
    BY FieldFacts
  <2> QED BY <2>1, Zenon
<1>4. \A i \in 1..n : d.fields[i].offset = IF i = 1 THEN 0 ELSE E(i - 1)
  BY <1>1 DEF Packed
<1>5. PICK up : SumsUpTo(up, s, n) /\ Total(s) = up[n]
  BY <1>1, TotalSteps
<1>6. up[0] = 0 /\ \A i \in 1..n : up[i] = up[i - 1] + s[i]
  BY <1>5 DEF SumsUpTo
<1>7. ends = {E(i) : i \in 1..n}
  <2>1. \A f : f \in ToSet(d.fields) <=> \E i \in 1..n : f = d.fields[i]
    BY <1>1, Zenon DEF ToSet
  <2> HIDE DEF n
  <2> QED BY <2>1
<1> HIDE DEF n, s, E, ends
<1> DEFINE B == {i \in 0..n : /\ up[i] \in Nat /\ (i > 0 => up[i] = E(i))
                              /\ \A j \in 1..i : E(j) \in Nat /\ E(j) <= up[i]}
<1>8. 0 \in B
  BY <1>1, <1>6
<1>9. ASSUME NEW i \in 1..n, i - 1 \in B PROVE i \in B
  <2>1. /\ up[i - 1] \in Nat /\ (i - 1 > 0 => up[i - 1] = E(i - 1))
        /\ \A j \in 1..(i - 1) : E(j) \in Nat /\ E(j) <= up[i - 1]
    BY <1>9
  <2>2. up[i] = up[i - 1] + s[i] /\ s[i] \in Nat /\ E(i) = d.fields[i].offset + s[i]
    BY <1>2, <1>3, <1>6
  <2>3. d.fields[i].offset = up[i - 1]
    <3>1. CASE i = 1
      BY <1>4, <1>6, <3>1
    <3>2. CASE i # 1
      <4>1. i - 1 > 0
        BY <3>2
      <4> QED BY <1>4, <2>1, <3>2, <4>1
    <3> QED BY <3>1, <3>2
  <2>4. up[i] \in Nat /\ up[i] = E(i) /\ up[i - 1] <= up[i]
    BY <2>1, <2>2, <2>3
  <2>5. \A j \in 1..i : E(j) \in Nat /\ E(j) <= up[i]
    <3> SUFFICES ASSUME NEW j \in 1..i PROVE E(j) \in Nat /\ E(j) <= up[i]
      OBVIOUS
    <3>1. j \in 1..(i - 1) \/ j = i
      OBVIOUS
    <3> QED BY <2>1, <2>4, <3>1
  <2> QED BY <2>4, <2>5
<1>10. \A i \in 0..n : i \in B
  <2> HIDE DEF B
  <2> QED BY <1>1, <1>8, <1>9, StepByStep
<1>11. /\ up[n] \in Nat /\ (n > 0 => up[n] = E(n)) /\ \A j \in 1..n : E(j) \in Nat /\ E(j) <= up[n]
  BY <1>1, <1>10
<1>12. ends \in SUBSET Nat /\ up[n] \in ends \cup {0} /\ \A x \in ends : x <= up[n]
  <2>1. CASE n = 0
    BY <1>6, <1>7, <2>1
  <2>2. CASE n # 0
    <3>1. n \in 1..n /\ up[n] = E(n)
      BY <1>1, <1>11, <2>2
    <3> QED BY <1>7, <1>11, <3>1
  <2> QED BY <2>1, <2>2
<1>13. Largest(ends) = up[n]
  BY <1>12, LargestIs
<1> QED BY <1>5, <1>13 DEF Extent, ends, s

-----------------------------------------------------------------------------
(* The rows of types and types_members                                     *)


(* Of the sequences over T that f has for s, the one of s[p] lies in K and *)
(* the others lie outside it.                                              *)
OnlyPart(s, f, T, p, K) ==
    /\ p \in 1..Len(s)
    /\ \A i \in 1..Len(s) : f[s[i]] \in Seq(T)
    /\ \A x \in ToSet(f[s[p]]) : x \in K
    /\ \A i \in 1..Len(s) : i # p => \A x \in ToSet(f[s[i]]) : x \notin K

(* Of texts that are put together, K chooses the one part that lies in it. *)
LEMMA ChosenPart ==
    ASSUME NEW S, NEW s \in Seq(S), NEW T, NEW f, NEW K, NEW p, OnlyPart(s, f, T, p, K)
    PROVE  Chosen(Joined(s, f), K) = f[s[p]]
<1> DEFINE L == Len(s)
           mine == f[s[p]]
<1>0. /\ p \in 1..Len(s)
      /\ \A i \in 1..Len(s) : f[s[i]] \in Seq(T)
      /\ \A x \in ToSet(f[s[p]]) : x \in K
      /\ \A i \in 1..Len(s) : i # p => \A x \in ToSet(f[s[i]]) : x \notin K
  BY Zenon DEF OnlyPart
<1>1. L \in Nat /\ L \in 0..L
  OBVIOUS
<1>2. PICK up : JoinsUpTo(up, s, f, L) /\ Joined(s, f) = up[L]
  BY <1>0, JoinedSteps
<1>3. mine \in Seq(T) /\ Chosen(mine, K) = mine
  BY <1>0, ChosenAll
<1>4. ASSUME NEW i \in 1..L, i # p PROVE Chosen(f[s[i]], K) = <<>>
  <2>1. f[s[i]] \in Seq(T) /\ \A x \in ToSet(f[s[i]]) : x \notin K
    BY <1>0, <1>4
  <2> QED BY <2>1, ChosenNone
<1>5. \A i \in 1..L : f[s[i]] \in Seq(T)
  BY <1>0
<1>6. p \in 1..L
  BY <1>0
<1> HIDE DEF L, mine
<1> DEFINE B == {i \in 0..L : up[i] \in Seq(T) /\ Chosen(up[i], K) = IF i < p THEN <<>> ELSE mine}
<1>7. 0 \in B
  <2>1. up[0] = <<>> /\ <<>> \in Seq(T)
    BY <1>2 DEF JoinsUpTo
  <2>2. Chosen(<<>>, K) = <<>>
    <3>1. \A x \in ToSet(<<>>) : x \notin K
      BY DEF ToSet
    <3> QED BY <2>1, <3>1, ChosenNone
  <2>3. 0 < p /\ 0 \in 0..L
    BY <1>1, <1>6
  <2> QED BY <2>1, <2>2, <2>3
<1>8. ASSUME NEW i \in 1..L, i - 1 \in B PROVE i \in B
  <2> DEFINE x == up[i - 1]
             y == f[s[i]]
  <2>1. up[i] = x \o y
    BY <1>2, Zenon DEF JoinsUpTo
  <2>2. x \in Seq(T) /\ Chosen(x, K) = IF i - 1 < p THEN <<>> ELSE mine
    BY <1>8
  <2>3. y \in Seq(T)
    BY <1>5
  <2>4. i # p => Chosen(y, K) = <<>>
    BY <1>4
  <2>5. i = p => Chosen(y, K) = mine
    BY <1>3 DEF mine
  <2> HIDE DEF x, y
  <2>6. x \o y \in Seq(T) /\ Chosen(x \o y, K) = Chosen(x, K) \o Chosen(y, K)
    <3>1. x \in Seq(T) /\ y \in Seq(T)
      BY <2>2, <2>3
    <3>2. x \o y \in Seq(T)
      BY <3>1, ConcatFacts
    <3>3. Chosen(x \o y, K) = Chosen(x, K) \o Chosen(y, K)
      BY <3>1, ChosenConcat
    <3> QED BY <3>2, <3>3
  <2>7. Chosen(x, K) \o Chosen(y, K) = IF i < p THEN <<>> ELSE mine
    <3>1. mine \o <<>> = mine /\ <<>> \o mine = mine /\ <<>> \o <<>> = <<>>
      BY <1>3
    <3>2. CASE i < p
      <4>1. i - 1 < p /\ i # p
        BY <1>1, <1>6, <3>2
      <4> QED BY <2>2, <2>4, <3>1, <3>2, <4>1, Zenon
    <3>3. CASE i = p
      <4>1. i - 1 < p /\ ~(i < p)
        BY <1>1, <1>6, <3>3
      <4> QED BY <2>2, <2>5, <3>1, <3>3, <4>1, Zenon
    <3>4. CASE p < i
      <4>1. ~(i - 1 < p) /\ i # p /\ ~(i < p)
        BY <1>1, <1>6, <3>4
      <4> QED BY <2>2, <2>4, <3>1, <4>1, Zenon
    <3>5. i < p \/ i = p \/ p < i
      BY <1>1, <1>6
    <3> QED BY <3>2, <3>3, <3>4, <3>5
  <2>8. i \in 0..L
    BY <1>1
  <2>9. up[i] \in Seq(T) /\ Chosen(up[i], K) = IF i < p THEN <<>> ELSE mine
    BY <2>1, <2>6, <2>7, Zenon
  <2> QED BY <2>8, <2>9
<1>9. \A i \in 0..L : i \in B
  <2> HIDE DEF B
  <2> QED BY <1>1, <1>7, <1>8, StepByStep
<1>10. ~(L < p) /\ Chosen(up[L], K) = IF L < p THEN <<>> ELSE mine
  BY <1>1, <1>6, <1>9
<1> QED BY <1>2, <1>10, Zenon DEF mine

(* Where all rows are asked for, the answer is the cache.                  *)
LEMMA WholeCache ==
    ASSUME MemInv, CursorInv, AnswerInv, pc = "done", mem = before, query.table \in {"types", "types_members"}
    PROVE  IsCore(mem) /\ rows = CacheOf(query, mem) /\ IsSeq(rows)
<1> DEFINE s == CacheOf(query, mem)
<1>1. plan = "scan" /\ query.table \in Cached
  BY DEF CursorInv, FilterColumns, Streamed, Cached
<1>2. IsCore(mem) /\ query \in Queries /\ IsSeq(rows) /\ IsSeq(s) /\ rows = Kept(query, s)
  BY <1>1, CacheIsKept
<1>3. query.column = "none"
  BY <1>2, QueriesAssumption
<1>4. s \in Seq(ToSet(s)) /\ \A r \in ToSet(s) : r \in KeptSet(query, s)
  BY <1>2, <1>3 DEF IsSeq, KeptSet
<1>5. Chosen(s, KeptSet(query, s)) = s
  <2> HIDE DEF s
  <2> QED BY <1>4, ChosenAll
<1>6. Kept(query, s) = Chosen(s, KeptSet(query, s))
  BY KeptIs
<1> QED BY <1>2, <1>5, <1>6, Zenon

(* What types shows of a declared type.                                    *)
KindOf(d) == [name |-> Shown(d), kind |-> d.kind]

(* Asked for a type by its whole name and by its kind, radare2 has its one *)
(* definition, unless it is mute about it.                                 *)
LEMMA KindsDefined ==
    ASSUME NEW m, IsCore(m), NEW d \in ToSet(m.types), NEW k, k.name = FullName(d), k.kind = d.kind
    PROVE  /\ Known(m, k) <=> d.name \notin m.mute
           /\ Known(m, k) => Definition(m, k) = d
<1> DEFINE D == Defined(m, k)
<1>1. \A c \in D : c = d
  <2>1. \A c \in ToSet(m.types) : FullName(c) = FullName(d) => c = d
    BY WordsAreApart
  <2> QED BY <2>1, Zenon DEF Defined
<1>2. d \in D <=> d.name \notin m.mute
  BY Zenon DEF Defined, SameCommand
<1> HIDE DEF D
<1>3. D # {} <=> d.name \notin m.mute
  BY <1>1, <1>2
<1>4. D # {} => (CHOOSE c \in D : TRUE) = d
  BY <1>1
<1> QED BY <1>3, <1>4, Zenon DEF Known, Definition, D

(* A type that is shown by its whole name, and by one kind, is found.      *)
LEMMA WholeNames ==
    ASSUME NEW m, IsCore(m), NEW d \in ToSet(m.types), Shown(d) = FullName(d),
           \A c \in ToSet(m.types) : Shown(c) = Shown(d) => c.kind = d.kind
    PROVE  /\ KindOf(d) \in TypeKinds(m)
           /\ \A t \in TypeKinds(m) : t.name = FullName(d) => t = KindOf(d)
<1>1. ASSUME NEW t \in TypeKinds(m), t.name = FullName(d) PROVE t = KindOf(d)
  <2>1. t = [name |-> t.name, kind |-> t.kind] /\ \E c \in ToSet(m.types) : t.name = Shown(c) /\ t.kind = c.kind
    BY TypesFound
  <2>2. t.name = Shown(d) /\ t.kind = d.kind
    BY <1>1, <2>1
  <2> QED BY <2>1, <2>2, Zenon DEF KindOf
<1>2. \E t \in TypeKinds(m) : t.name = FullName(d)
  <2>1. \E t \in TypeKinds(m) : t.name = Shown(d)
    BY TypesFound
  <2> QED BY <2>1
<1> QED BY <1>1, <1>2

(* types shows each type once, with what it takes up.                      *)
LEMMA TypesShown ==
    ASSUME MemInv, CursorInv, AnswerInv, pc = "done", mem = before, query.table = "types"
    PROVE  IsInjective(rows) /\ TypesRight
<1> DEFINE g == [k \in TypeKinds(mem) |-> [name |-> k.name, kind |-> k.kind, size |-> TypeSize(mem, k)]]
           S == {g[k] : k \in TypeKinds(mem)}
<1>1. IsCore(mem) /\ rows = TypesCache(mem)
  BY WholeCache DEF CacheOf
<1>2. TypesCache(mem) = SetToSeq(S)
  BY Zenon DEF TypesCache
<1>3. \A k \in TypeKinds(mem) : g[k] = [name |-> k.name, kind |-> k.kind, size |-> TypeSize(mem, k)]
  BY Zenon
<1> HIDE DEF g
<1>4. IsFiniteSet(S)
  BY <1>1, TypesAreSeqs, FiniteImage
<1>5. IsInjective(rows) /\ \A x : x \in ToSet(rows) <=> x \in S
  BY <1>1, <1>2, <1>4, SeqOfSet
<1>6. \A r : r \in ToSet(rows) <=> \E k \in TypeKinds(mem) : r = [name |-> k.name, kind |-> k.kind, size |-> TypeSize(mem, k)]
  <2> SUFFICES ASSUME NEW r
               PROVE  r \in ToSet(rows) <=> \E k \in TypeKinds(mem) : r = [name |-> k.name, kind |-> k.kind, size |-> TypeSize(mem, k)]
    OBVIOUS
  <2>1. r \in S <=> \E k \in TypeKinds(mem) : r = g[k]
    OBVIOUS
  <2>2. r \in ToSet(rows) <=> \E k \in TypeKinds(mem) : r = g[k]
    BY <1>5, <2>1
  <2> QED BY <1>3, <2>2, Zenon
<1> DEFINE row(k) == [name |-> k.name, kind |-> k.kind, size |-> TypeSize(mem, k)]
<1>9. \A k : row(k).name = k.name /\ row(k).kind = k.kind /\ row(k).size = TypeSize(mem, k)
  OBVIOUS
<1>10. \A r : r \in ToSet(rows) <=> \E k \in TypeKinds(mem) : r = row(k)
  BY <1>6, Zenon
<1> HIDE DEF row
<1>11. /\ \A k \in TypeKinds(mem) : \E d \in ToSet(mem.types) : k.name = Shown(d) /\ k.kind = d.kind
       /\ \A d \in ToSet(mem.types) : \E k \in TypeKinds(mem) : k.name = Shown(d)
       /\ \A k, l \in TypeKinds(mem) : k.name = l.name => k = l
  BY <1>1, TypesFound
<1>15. \A r \in ToSet(rows) : \E k \in TypeKinds(mem) : r = row(k) /\ r.name = k.name /\ r.kind = k.kind
  <2> SUFFICES ASSUME NEW r \in ToSet(rows)
               PROVE  \E k \in TypeKinds(mem) : r = row(k) /\ r.name = k.name /\ r.kind = k.kind
    OBVIOUS
  <2>1. PICK k \in TypeKinds(mem) : r = row(k)
    BY <1>10
  <2> QED BY <1>9, <2>1
<1>12. \A r \in ToSet(rows) : \E d \in ToSet(mem.types) : r.name = Shown(d) /\ r.kind = d.kind
  <2> SUFFICES ASSUME NEW r \in ToSet(rows) PROVE \E d \in ToSet(mem.types) : r.name = Shown(d) /\ r.kind = d.kind
    OBVIOUS
  <2>1. PICK k \in TypeKinds(mem) : r.name = k.name /\ r.kind = k.kind
    BY <1>15
  <2>2. PICK d \in ToSet(mem.types) : k.name = Shown(d) /\ k.kind = d.kind
    BY <1>11
  <2> QED BY <2>1, <2>2
<1>13. \A d \in ToSet(mem.types) : \E r \in ToSet(rows) : r.name = Shown(d)
  <2> SUFFICES ASSUME NEW d \in ToSet(mem.types) PROVE \E r \in ToSet(rows) : r.name = Shown(d)
    OBVIOUS
  <2>1. PICK k \in TypeKinds(mem) : k.name = Shown(d)
    BY <1>11
  <2>2. row(k) \in ToSet(rows) /\ row(k).name = k.name
    BY <1>9, <1>10
  <2> QED BY <2>1, <2>2
<1>7. {r.name : r \in ToSet(rows)} = {Shown(d) : d \in ToSet(mem.types)}
  BY <1>12, <1>13
<1>14. \A r, s \in ToSet(rows) : r.name = s.name => r = s
  <2> SUFFICES ASSUME NEW r \in ToSet(rows), NEW s \in ToSet(rows), r.name = s.name PROVE r = s
    OBVIOUS
  <2>1. PICK k \in TypeKinds(mem) : r = row(k) /\ r.name = k.name
    BY <1>15
  <2>2. PICK l \in TypeKinds(mem) : s = row(l) /\ s.name = l.name
    BY <1>15
  <2>3. k = l
    BY <1>11, <2>1, <2>2
  <2> QED BY <2>1, <2>2, <2>3
<1>8. ASSUME NEW d \in ToSet(mem.types), NEW r \in ToSet(rows), r.name = FullName(d), r.kind = d.kind,
             d.kind \in {"struct", "union"}, d.name \notin mem.mute, Packed(d)
      PROVE  r.size = Extent(d)
  <2>1. PICK k \in TypeKinds(mem) : r = row(k)
    BY <1>10
  <2>2. k.name = FullName(d) /\ k.kind = d.kind /\ r.size = TypeSize(mem, k)
    BY <1>8, <1>9, <2>1
  <2>3. Definition(mem, k) = d /\ Known(mem, k)
    BY <1>1, <1>8, <2>2, KindsDefined
  <2>5. CASE d.kind = "struct"
    <3>1. TypeSize(mem, k) = Total(Sizes(d))
      BY <2>2, <2>3, <2>5 DEF TypeSize
    <3> QED BY <1>1, <1>8, <2>2, <2>5, <3>1, StructSize
  <2>6. CASE d.kind = "union"
    <3>1. TypeSize(mem, k) = Largest(ToSet(Sizes(d)))
      BY <2>2, <2>3, <2>6 DEF TypeSize
    <3> QED BY <1>1, <2>2, <2>6, <3>1, UnionSize
  <2> QED BY <1>8, <2>5, <2>6
<1> QED BY <1>5, <1>7, <1>8, <1>12, <1>14, Zenon DEF TypesRight

(* The rows of the members of one type carry its name.                     *)
LEMMA MembersNamed ==
    ASSUME NEW m, IsCore(m), NEW k
    PROVE  \A r \in ToSet(MembersOf(m, k)) : r.type_name = k.name
<1> DEFINE fs == Definition(m, k).fields
           out(f) == MemberOf(k, f)
           t == [i \in DOMAIN fs |-> out(fs[i])]
<1>1. MembersOf(m, k) = <<>> \/ MembersOf(m, k) = t
  BY Zenon DEF MembersOf, Map
<1>2. \A f : out(f).type_name = k.name
  BY DEF MemberOf, Member
<1> HIDE DEF out, fs
<1>3. \A r \in ToSet(t) : r.type_name = k.name
  BY <1>2 DEF ToSet
<1>4. \A r : r \notin ToSet(<<>>)
  BY DEF ToSet
<1> HIDE DEF t
<1> QED BY <1>1, <1>3, <1>4

(* There is one for each field or value.                                   *)
LEMMA MembersCounted ==
    ASSUME NEW m, IsCore(m), NEW d \in ToSet(m.types), Shown(d) = FullName(d)
    PROVE  Len(MembersOf(m, KindOf(d))) =
              IF d.name \in m.mute \/ d.kind \notin {"struct", "union", "enum"} THEN 0 ELSE Len(d.fields)
<1> DEFINE k == KindOf(d)
           fs == d.fields
           out(f) == MemberOf(k, f)
           t == [i \in DOMAIN fs |-> out(fs[i])]
<1>1. k.name = FullName(d) /\ k.kind = d.kind
  BY DEF KindOf
<1>2. (Known(m, k) <=> d.name \notin m.mute) /\ (Known(m, k) => Definition(m, k) = d)
  BY <1>1, KindsDefined
<1>3. CASE d.name \in m.mute \/ d.kind \notin {"struct", "union", "enum"}
  <2>1. MembersOf(m, k) = <<>>
    BY <1>1, <1>2, <1>3 DEF MembersOf
  <2> QED BY <1>3, <2>1
<1>4. CASE ~(d.name \in m.mute \/ d.kind \notin {"struct", "union", "enum"})
  <2>1. MembersOf(m, k) = Map(Definition(m, k).fields, LAMBDA f : MemberOf(k, f))
    BY <1>1, <1>2, <1>4 DEF MembersOf
  <2>2. Definition(m, k).fields = fs
    <3>1. Definition(m, k) = d
      BY <1>2, <1>4
    <3> QED BY <3>1
  <2>3. MembersOf(m, k) = t
    BY <2>1, <2>2, Zenon DEF Map
  <2>4. Len(fs) \in Nat /\ DOMAIN fs = 1..Len(fs)
    BY FieldFacts
  <2> HIDE DEF k, fs, out
  <2>5. Len(t) = Len(fs)
    BY <2>4
  <2> QED BY <1>4, <2>3, <2>5 DEF k, fs
<1> QED BY <1>3, <1>4

(* types_members shows each member of each type, and no other.             *)
LEMMA MembersShown ==
    ASSUME MemInv, CursorInv, AnswerInv, pc = "done", mem = before, query.table = "types_members"
    PROVE  MembersRight
<1> SUFFICES ASSUME NEW d \in ToSet(mem.types), Shown(d) = FullName(d),
                    \A c \in ToSet(mem.types) : Shown(c) = Shown(d) => c.kind = d.kind
             PROVE  LET mine == Select(rows, LAMBDA r : r.type_name = FullName(d))
                    IN  Len(mine) = IF d.name \in mem.mute \/ d.kind \notin {"struct", "union", "enum"}
                                    THEN 0 ELSE Len(d.fields)
  BY DEF MembersRight
<1> DEFINE s == SetToSeq(TypeKinds(mem))
           g == [k \in ToSet(s) |-> MembersOf(mem, k)]
           mine == {r \in ToSet(rows) : r.type_name = FullName(d)}
           K == {r \in ToSet(rows) : r \in mine}
           T == ToSet(rows)
           here == KindOf(d)
<1>1. IsCore(mem) /\ rows = MembersCache(mem) /\ IsSeq(rows)
  BY WholeCache DEF CacheOf
<1>2. MembersCache(mem) = Joined(s, g)
  BY Zenon DEF MembersCache, Gather
<1>3. /\ s \in Seq(ToSet(s)) /\ IsInjective(s) /\ DOMAIN s = 1..Len(s)
      /\ \A k : k \in ToSet(s) <=> k \in TypeKinds(mem)
  <2>1. IsFiniteSet(TypeKinds(mem))
    BY <1>1, TypesAreSeqs
  <2>2. IsSeq(s) /\ IsInjective(s) /\ \A k : k \in ToSet(s) <=> k \in TypeKinds(mem)
    BY <2>1, SeqOfSet
  <2> HIDE DEF s
  <2> QED BY <2>2, SeqDomain DEF IsSeq
<1>4. \A k \in ToSet(s) : g[k] = MembersOf(mem, k)
  BY Zenon
<1>5. \A k \in ToSet(s) : IsSeq(g[k])
  BY <1>1, <1>4, MembersAreSeqs
<1> HIDE DEF s, g, T
<1>6. \A i \in 1..Len(s) : s[i] \in ToSet(s)
  BY <1>3 DEF ToSet
<1> DEFINE A == UNION {ToSet(g[k]) : k \in ToSet(s)}
<1>7. \A i \in 1..Len(s) : g[s[i]] \in Seq(A)
  <2> SUFFICES ASSUME NEW i \in 1..Len(s) PROVE g[s[i]] \in Seq(A)
    OBVIOUS
  <2> DEFINE x == g[s[i]]
  <2>1. IsSeq(x) /\ ToSet(x) \subseteq A
    BY <1>5, <1>6
  <2> HIDE DEF x, A
  <2>2. x \in Seq(ToSet(x))
    BY <2>1 DEF IsSeq
  <2>3. x \in Seq(A)
    BY <2>1, <2>2
  <2> QED BY <2>3 DEF x
<1> HIDE DEF A
<1>8. rows = Joined(s, g) /\ \A x : x \in ToSet(rows) <=> \E i \in 1..Len(s) : x \in ToSet(g[s[i]])
  BY <1>1, <1>2, <1>3, <1>7, JoinedFacts
<1>9. PICK p \in 1..Len(s) : s[p] = here
  <2>1. here \in ToSet(s)
    BY <1>1, <1>3, WholeNames
  <2> QED BY <1>3, <2>1 DEF ToSet
<1>10. \A x \in ToSet(g[s[p]]) : x \in mine
  <2> SUFFICES ASSUME NEW x \in ToSet(g[s[p]]) PROVE x \in mine
    OBVIOUS
  <2>1. x \in ToSet(rows) /\ x \in ToSet(MembersOf(mem, here))
    BY <1>4, <1>6, <1>8, <1>9
  <2>2. x.type_name = here.name
    BY <1>1, <2>1, MembersNamed
  <2>3. here.name = FullName(d)
    BY DEF KindOf
  <2> QED BY <2>1, <2>2, <2>3
<1>11. \A i \in 1..Len(s) : i # p => \A x \in ToSet(g[s[i]]) : x \notin mine
  <2> SUFFICES ASSUME NEW i \in 1..Len(s), i # p, NEW x \in ToSet(g[s[i]]), x \in mine PROVE FALSE
    OBVIOUS
  <2>1. s[i] \in ToSet(s) /\ x \in ToSet(MembersOf(mem, s[i]))
    BY <1>4, <1>6
  <2>2. s[i] \in TypeKinds(mem) /\ x.type_name = s[i].name
    BY <1>1, <1>3, <2>1, MembersNamed
  <2>3. s[i].name = FullName(d)
    BY <2>2
  <2>4. s[i] = here
    BY <1>1, <2>2, <2>3, WholeNames
  <2>5. s[i] = s[p] /\ i \in DOMAIN s /\ p \in DOMAIN s
    BY <1>3, <1>9, <2>4
  <2> QED BY <1>3, <2>5 DEF IsInjective
<1> HIDE DEF mine
<1>12. Chosen(rows, mine) = g[s[p]]
  <2>1. Chosen(Joined(s, g), mine) = g[s[p]]
    <3>1. s \in Seq(ToSet(s))
      BY <1>3
    <3>2. OnlyPart(s, g, A, p, mine)
      BY <1>7, <1>10, <1>11, Zenon DEF OnlyPart
    <3> QED BY <3>1, <3>2, ChosenPart
  <2> QED BY <1>8, <2>1
<1>13. g[s[p]] = MembersOf(mem, here)
  BY <1>4, <1>6, <1>9
<1>14. Select(rows, LAMBDA r : r.type_name = FullName(d)) = Chosen(rows, mine)
  <2>1. [x \in ToSet(rows) |-> IF x.type_name = FullName(d) THEN <<x>> ELSE <<>>] = Pick(ToSet(rows), mine)
    BY DEF Pick, mine
  <2> QED BY <2>1, Zenon DEF Select, Chosen
<1>15. Len(MembersOf(mem, here)) =
           IF d.name \in mem.mute \/ d.kind \notin {"struct", "union", "enum"} THEN 0 ELSE Len(d.fields)
  BY <1>1, MembersCounted
<1> QED BY <1>12, <1>13, <1>14, <1>15, Zenon

(* The types are all there.                                                *)
LEMMA TypesHold ==
    ASSUME MemInv, CursorInv, AnswerInv
    PROVE  TypesAreSql
BY TypesShown, MembersShown DEF TypesAreSql, Answered

(***************************************************************************)
(* The theorems about a statement                                          *)
(***************************************************************************)

(* The invariant holds at the start.                                     *)
LEMMA InitInvariant == Init => TablesInvariant
<1> SUFFICES ASSUME Init PROVE TablesInvariant
  OBVIOUS
<1>1. MemInv /\ CursorInv
  BY InitMem
<1>2. pc = "plan"
  BY DEF Init
<1>4. RowsInv
  BY NoneAddressed DEF Init, RowsInv
<1>3. ScanInv /\ AnswerInv /\ TextArrives
  BY <1>2, Zenon DEF ScanInv, AnswerInv, TextArrives
<1> QED BY <1>1, <1>3, <1>4 DEF TablesInvariant

(* Whichever way SQLite plans the statement and whatever a project brings  *)
(* in between: which functions are still to be read, the rows that were    *)
(* read and those handed out always make up what the table has to answer.  *)
THEOREM Invariance == Spec => []TablesInvariant
<1>1. TablesInvariant /\ [Next]_vars => TablesInvariant'
  <2> SUFFICES ASSUME TablesInvariant, [Next]_vars PROVE TablesInvariant'
    OBVIOUS
  <2>1. MemInv /\ CursorInv /\ RowsInv /\ ScanInv /\ AnswerInv /\ TextArrives
    BY DEF TablesInvariant
  <2>2. MemInv'
    BY <2>1, MemStep
  <2>3. CursorInv'
    BY <2>1, CursorStep
  <2>4. ScanInv'
    BY <2>1, ScanStep
  <2>5. AnswerInv'
    BY <2>1, AnswerStep
  <2>6. TextArrives'
    BY <2>1, TextStep
  <2>7. RowsInv'
    BY <2>1, RowsStep
  <2> QED BY <2>2, <2>3, <2>4, <2>5, <2>6, <2>7 DEF TablesInvariant
<1> QED BY <1>1, InitInvariant, PTL DEF Spec

(* Every address that a row shows is a signed 64-bit number, whatever      *)
(* radare2 says: it wraps, and is never cut off or out of range.           *)
THEOREM TypeCorrect == Spec => []TypeOK
<1>1. TablesInvariant => TypeOK
  <2> SUFFICES ASSUME TablesInvariant PROVE TypeOK
    OBVIOUS
  <2>1. MemInv /\ CursorInv /\ Addressed(rows) /\ Addressed(buf)
    BY DEF TablesInvariant, RowsInv
  <2>2. IsSeq(rows) /\ IsSeq(buf) /\ funcs_ \in Seq(Int64)
    BY <2>1 DEF CursorInv
  <2>3. \A row \in ToSet(rows \o buf) : RowAddresses(row) \subseteq Int64
    BY <2>1, <2>2, SeqsTogether DEF Addressed
  <2>4. ToSet(funcs_) \subseteq Int64
    BY <2>2, InSeq
  <2> QED BY <2>1, <2>3, <2>4, Zenon DEF TypeOK, MemInv, CursorInv
<1> QED BY <1>1, Invariance, PTL

(* Blocks, instructions, pseudocode and xrefs answer every statement with  *)
(* the rows of the scan that it asks for, once each, whether the table or  *)
(* SQLite applies the filter; a filter of the table has no others than     *)
(* those of Beyond, and none when it asks for rows of the scan.  What is   *)
(* in the file has one row for each object, and its counts in welcome and  *)
(* its names in grep agree with that.  All this for the replies that       *)
(* IsCore describes.                                                       *)
THEOREM AnswersCorrect == Spec => []AnswerIsSql
<1>1. TablesInvariant => RowsAreSql
  BY RowsRight DEF TablesInvariant
<1>2. TablesInvariant => ListsAreSql
  BY ListsRight DEF TablesInvariant
<1>3. TablesInvariant => AnswerIsSql
  BY <1>1, <1>2 DEF AnswerIsSql
<1> QED BY <1>3, Invariance, PTL

(* Whatever names of one or more words radare2 prints, in whichever order  *)
(* and whatever between them: types has one row for each last word of a    *)
(* name and no other, of the kind of one type that ends so, with what the  *)
(* type of this name and kind takes up; types_members has each member of   *)
(* the types that are shown by their whole name and by one kind.           *)
THEOREM TypesCorrect == Spec => []TypesAreSql
<1>1. TablesInvariant => TypesAreSql
  BY TypesHold DEF TablesInvariant
<1> QED BY <1>1, Invariance, PTL

(* A scan that a project is opened under still shows whole functions only, *)
(* and all those it began with.                                            *)
THEOREM ScanWhole == Spec => []ScanIsWhole
<1>1. TablesInvariant => ScanIsWhole
  BY ScanEnds DEF TablesInvariant
<1> QED BY <1>1, Invariance, PTL

(* base64 brings the text of a comment to radare2 byte by byte up to its   *)
(* first NUL, at the address it was given for; without a text or an        *)
(* address nothing changes.                                                *)
THEOREM CommentArrives == Spec => []TextArrives
<1>1. TablesInvariant => TextArrives
  BY DEF TablesInvariant
<1> QED BY <1>1, Invariance, PTL
=============================================================================
