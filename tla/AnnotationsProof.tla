-------------------------- MODULE AnnotationsProof --------------------------
(***************************************************************************)
(* Proofs about Annotations for every set of threads, every finite set of  *)
(* names and every set of addresses: the commands that a statement sends   *)
(* add up to the statement of Statements.                                  *)
(***************************************************************************)
EXTENDS Annotations, FiniteSetTheorems, SequenceTheorems, TLAPS

-----------------------------------------------------------------------------
(* The inductive invariant: how far the statement that holds query_mu_ has *)
(* come, told from the commands it has still to send and the rows it has   *)
(* still to write.                                                         *)

(* The rows of the table, and of the statement, when it got query_mu_.     *)
Here(f) == IF stmt.table = "bookmarks" THEN f.space = "bookmarks" ELSE before.space \in {"*", f.space}
InTable == {f \in before.flags : Here(f)}
Selected == {f \in InTable : Whole!Selects(stmt, f)}

(* Commands that frame those of bookmarks.                                 *)
SaveSpace == Plain("fss*")
Bookmarks == Plain("fs bookmarks")
Restore == Plain("fsr-")

(* Of the commands s command c is still to be sent, and with its frame the *)
(* last one; or what is left of the frame follows the command that was.    *)
Ahead(table, s, c) ==
    IF table = "bookmarks"
    THEN s \in {<<SaveSpace, Bookmarks, c, Restore>>, <<Bookmarks, c, Restore>>, <<c, Restore>>}
    ELSE s = <<c>>
Behind(table, s) == s = <<>> \/ (table = "bookmarks" /\ s = <<Restore>>)

(* The flag space is the one that the statement found, except in a frame.  *)
SpaceInv ==
    IF stmt.table = "bookmarks"
    THEN /\ saved = IF Len(todo) \in 1..3 THEN <<before.space>> ELSE <<>>
         /\ space = IF Len(todo) \in 1..2 THEN "bookmarks" ELSE before.space
    ELSE saved = <<>> /\ space = before.space

FlagsAsBefore == flags = before.flags
FuncsAsBefore == funcs = before.funcs
Untouched == FlagsAsBefore /\ FuncsAsBefore

(* The listing comes first; nothing has happened yet.                      *)
Unlisted(c) == Ahead(stmt.table, todo, c) /\ rows = {} /\ ok /\ Untouched

SelectInv ==
    /\ ok /\ Untouched
    /\ (Ahead(stmt.table, todo, Plain("fj")) /\ rows = {}) \/ (Behind(stmt.table, todo) /\ rows = Selected)

InsertFlagInv ==
    /\ rows = {} /\ FuncsAsBefore /\ (ok <=> ValidName(stmt.name))
    /\ \/ Ahead(stmt.table, todo, Cmd("f", BadName, stmt.name, stmt.addr)) /\ FlagsAsBefore /\ ValidName(stmt.name)
       \/ /\ Behind(stmt.table, todo) /\ ValidName(stmt.name)
          /\ flags = {f \in before.flags : f.name # stmt.name}
                       \cup {[name |-> stmt.name, addr |-> stmt.addr,
                              space |-> IF stmt.table = "bookmarks" THEN "bookmarks" ELSE before.space]}
       \/ todo = <<>> /\ FlagsAsBefore /\ ~ValidName(stmt.name)

(* The function at the address has, or gets, that name.                    *)
Named(n) == [before.funcs EXCEPT ![stmt.addr] = IF @ = NoName THEN @ ELSE n]
Found(n) == [before.funcs EXCEPT ![stmt.addr] = n]
NoFunc == before.funcs[stmt.addr] = NoName

InsertFuncInv ==
    /\ rows = {} /\ ok /\ FlagsAsBefore
    /\ \/ todo = Insertion(stmt) /\ FuncsAsBefore
       \/ /\ FuncsAsBefore \/ (NoFunc /\ \E n \in Names : funcs = Found(n))
          /\ todo = IF ValidName(stmt.name) THEN <<Cmd("afn", BadName, stmt.name, stmt.addr)>> ELSE <<>>
       \/ /\ (NoFunc /\ FuncsAsBefore) \/ funcs = Found(stmt.name)
          /\ ValidName(stmt.name) /\ todo = <<>>

(* The first row written gets the name, if no flag had it, and its         *)
(* function is renamed; `wrote` and `named` tell whether that is done.     *)
RenamedFlags(wrote) ==
    IF wrote /\ \A f \in before.flags : f.name # stmt.name
    THEN \E f \in Selected : flags = (before.flags \ {f}) \cup {[f EXCEPT !.name = stmt.name]}
    ELSE FlagsAsBefore
RenamedFuncs(named) ==
    IF named /\ stmt.table = "flags" THEN funcs = Named(stmt.name) ELSE FuncsAsBefore

RenameFlagInv ==
    \/ Unlisted(Plain("fj"))
    \/ /\ ~ValidName(stmt.name) /\ Untouched /\ Behind(stmt.table, todo)
       /\ (ok /\ rows = Selected) \/ (~ok /\ rows = {} /\ Selected # {})
    \/ /\ ValidName(stmt.name) /\ ok /\ rows \subseteq Selected
       /\ \/ Behind(stmt.table, todo) /\ RenamedFlags(rows # Selected) /\ RenamedFuncs(rows # Selected)
          \/ \E r \in Selected \ rows :
                LET wrote == rows \cup {r} # Selected
                    fr == Cmd("fr", r.name, stmt.name, NoAddr)
                IN /\ RenamedFlags(wrote)
                   /\ \/ Ahead(stmt.table, todo, fr) /\ RenamedFuncs(TRUE)
                      \/ /\ stmt.table = "flags" /\ RenamedFuncs(wrote)
                         /\ todo = <<Cmd("afn", BadName, stmt.name, r.addr), fr>>

(* The table of functions has one row at an address, or none.              *)
FuncRow == [name |-> before.funcs[stmt.addr], addr |-> stmt.addr, space |-> "*"]
FuncListed == todo = <<>> /\ FuncsAsBefore /\ rows = (IF NoFunc THEN {} ELSE {FuncRow}) /\ ok

RenameFuncInv ==
    /\ FlagsAsBefore
    /\ \/ Unlisted(Plain("aflj"))
       \/ FuncListed
       \/ ~NoFunc /\ ~ValidName(stmt.name) /\ todo = <<>> /\ rows = {} /\ FuncsAsBefore /\ ~ok
       \/ /\ ~NoFunc /\ ValidName(stmt.name) /\ rows = {} /\ ok
          /\ \/ todo = <<Cmd("afn", BadName, stmt.name, stmt.addr)>> /\ FuncsAsBefore
             \/ todo = <<>> /\ funcs = Found(stmt.name)

DeleteFuncInv ==
    /\ FlagsAsBefore /\ ok
    /\ \/ Unlisted(Plain("aflj"))
       \/ FuncListed
       \/ /\ ~NoFunc /\ rows = {}
          /\ \/ todo = <<Cmd("af-", BadName, BadName, stmt.addr)>> /\ FuncsAsBefore
             \/ todo = <<>> /\ funcs = Found(NoName)

(* As many flags are gone at each address as rows have been written.       *)
At(S, a) == {f \in S : f.addr = a}
Gone == before.flags \ flags
Counted(pending) ==
    /\ flags \subseteq before.flags /\ Gone \subseteq InTable
    /\ \A a \in Addrs :
          Cardinality(At(Gone, a)) + Cardinality(At(rows, a)) + (IF a \in pending THEN 1 ELSE 0)
             = Cardinality(At(Selected, a))

DeleteFlagsInv ==
    /\ ok /\ FuncsAsBefore
    /\ \/ Unlisted(Plain("fj"))
       \/ /\ rows \subseteq Selected
          /\ \/ Behind(stmt.table, todo) /\ Counted({})
             \/ \E r \in Selected : Ahead(stmt.table, todo, Cmd("f-", BadName, BadName, r.addr)) /\ Counted({r.addr})

StatementInv ==
    LET onFuncs == stmt.table = "funcs"
    IN /\ stmt.op = "select" => SelectInv
       /\ stmt.op = "insert" => IF onFuncs THEN InsertFuncInv ELSE InsertFlagInv
       /\ stmt.op = "rename" => IF onFuncs THEN RenameFuncInv ELSE RenameFlagInv
       /\ stmt.op = "delete" => IF onFuncs THEN DeleteFuncInv ELSE DeleteFlagsInv

(* radare2 has finitely many flags and no two of one name.                 *)
FlagSet(S) ==
    S \subseteq Whole!Flags /\ IsFiniteSet(S) /\ \A f, g \in S : f.name = g.name => f = g

LockInv ==
    IF Querying
    THEN /\ stmt \in Whole!Queries /\ answer = Whole!Nothing
         /\ FlagSet(before.flags) /\ before.funcs \in [Addrs -> Names \cup {NoName}]
         /\ before.space \in Whole!Spaces
         /\ SpaceInv /\ StatementInv
    ELSE stmt = NoStmt /\ todo = <<>> /\ rows = {} /\ ok /\ saved = <<>>

AnnotationsInvariant == TypeOK /\ FlagSet(flags) /\ LockInv

-----------------------------------------------------------------------------
(* Commands                                                                *)

(* Sequences of up to four commands, head by head.                         *)
LEMMA TupleFacts ==
    ASSUME NEW a, NEW b, NEW c, NEW d
    PROVE  /\ Head(<<a, b, c, d>>) = a /\ Tail(<<a, b, c, d>>) = <<b, c, d>> /\ Len(<<a, b, c, d>>) = 4
           /\ Head(<<a, b, c>>) = a /\ Tail(<<a, b, c>>) = <<b, c>> /\ Len(<<a, b, c>>) = 3
           /\ Head(<<a, b>>) = a /\ Tail(<<a, b>>) = <<b>> /\ Len(<<a, b>>) = 2
           /\ Head(<<a>>) = a /\ Tail(<<a>>) = <<>> /\ Len(<<a>>) = 1
           /\ Len(<<>>) = 0
<1>1. Head(<<a, b, c, d>>) = a /\ Tail(<<a, b, c, d>>) = <<b, c, d>> /\ Len(<<a, b, c, d>>) = 4
  OBVIOUS
<1>2. Head(<<a, b, c>>) = a /\ Tail(<<a, b, c>>) = <<b, c>> /\ Len(<<a, b, c>>) = 3
  OBVIOUS
<1>3. Head(<<a, b>>) = a /\ Tail(<<a, b>>) = <<b>> /\ Len(<<a, b>>) = 2
  OBVIOUS
<1>4. Head(<<a>>) = a /\ Tail(<<a>>) = <<>> /\ Len(<<a>>) = 1 /\ Len(<<>>) = 0
  OBVIOUS
<1> QED BY <1>1, <1>2, <1>3, <1>4

(* Two lists of commands put together.                                     *)
LEMMA ConcatFacts ==
    ASSUME NEW S, NEW s \in Seq(S), NEW t \in Seq(S), NEW u \in Seq(S),
           Len(u) = Len(s) + Len(t),
           \A i \in 1..Len(u) : u[i] = IF i <= Len(s) THEN s[i] ELSE t[i - Len(s)]
    PROVE  s \o t = u
<1>1. s \o t \in Seq(S) /\ Len(s \o t) = Len(u)
  BY ConcatProperties
<1>2. \A i \in 1..Len(u) : (s \o t)[i] = u[i]
  BY ConcatProperties
<1> QED BY <1>1, <1>2, SeqEqual

(* Two commands, as the writers put them together.                         *)
LEMMA ConcatTwo ==
    ASSUME NEW a, NEW b
    PROVE  <<a>> \o <<b>> = <<a, b>>
<1> DEFINE S == {a, b}
<1>1. <<a>> \in Seq(S) /\ <<b>> \in Seq(S) /\ <<a, b>> \in Seq(S)
  OBVIOUS
<1> HIDE DEF S
<1>2. Len(<<a, b>>) = Len(<<a>>) + Len(<<b>>)
  OBVIOUS
<1>3. \A i \in 1..Len(<<a, b>>) : <<a, b>>[i] = IF i <= Len(<<a>>) THEN <<a>>[i] ELSE <<b>>[i - Len(<<a>>)]
  OBVIOUS
<1> QED BY <1>1, <1>2, <1>3, ConcatFacts

(* A frame of bookmarks.                                                   *)
LEMMA ConcatFour ==
    ASSUME NEW a, NEW b, NEW c, NEW d
    PROVE  <<a, b>> \o <<c>> \o <<d>> = <<a, b, c, d>>
<1> DEFINE S == {a, b, c, d}
<1>1. <<a, b>> \in Seq(S) /\ <<a, b, c>> \in Seq(S) /\ <<a, b, c, d>> \in Seq(S)
  OBVIOUS
<1>2. <<c>> \in Seq(S) /\ <<d>> \in Seq(S)
  OBVIOUS
<1> HIDE DEF S
<1>3. <<a, b>> \o <<c>> = <<a, b, c>>
  <2>1. Len(<<a, b, c>>) = Len(<<a, b>>) + Len(<<c>>)
    OBVIOUS
  <2>2. \A i \in 1..Len(<<a, b, c>>) :
           <<a, b, c>>[i] = IF i <= Len(<<a, b>>) THEN <<a, b>>[i] ELSE <<c>>[i - Len(<<a, b>>)]
    OBVIOUS
  <2> QED BY <1>1, <1>2, <2>1, <2>2, ConcatFacts
<1>4. <<a, b, c>> \o <<d>> = <<a, b, c, d>>
  <2>1. Len(<<a, b, c, d>>) = Len(<<a, b, c>>) + Len(<<d>>)
    OBVIOUS
  <2>2. \A i \in 1..Len(<<a, b, c, d>>) :
           <<a, b, c, d>>[i] = IF i <= Len(<<a, b, c>>) THEN <<a, b, c>>[i] ELSE <<d>>[i - Len(<<a, b, c>>)]
    OBVIOUS
  <2> QED BY <1>1, <1>2, <2>1, <2>2, ConcatFacts
<1> QED BY <1>3, <1>4

(* Nothing is put before or behind a list of commands.                     *)
LEMMA ConcatNone ==
    ASSUME NEW a, NEW b, NEW c, NEW d
    PROVE  /\ <<a>> \o <<>> = <<a>>
           /\ <<>> \o <<a, b, c, d>> = <<a, b, c, d>>
<1> DEFINE S == {a, b, c, d}
<1>1. <<a>> \in Seq(S) /\ <<a, b, c, d>> \in Seq(S)
  OBVIOUS
<1> QED BY <1>1, ConcatEmptySeq

(* A stack of one space.                                                   *)
LEMMA StackFacts ==
    ASSUME NEW x
    PROVE  Append(<<>>, x) = <<x>> /\ Last(<<x>>) = x /\ Front(<<x>>) = <<>>
<1>1. Append(<<>>, x) = <<x>>
  OBVIOUS
<1>2. Len(<<x>>) = 1
  OBVIOUS
<1>3. Last(<<x>>) = x
  BY <1>2 DEF Last
<1>4. Front(<<x>>) = <<>>
  <2>1. SubSeq(<<x>>, 1, 0) = <<>>
    OBVIOUS
  <2> QED BY <2>1, <1>2 DEF Front
<1> QED BY <1>1, <1>3, <1>4

(* What a statement sends to radare2 for one row: its command, framed for  *)
(* bookmarks.                                                              *)
Framed(table, c) == IF table = "bookmarks" THEN <<SaveSpace, Bookmarks, c, Restore>> ELSE <<c>>

(* Scoped, spelt out.                                                      *)
LEMMA ScopedFacts ==
    ASSUME NEW q, NEW c
    PROVE  Scoped(q, <<c>>) = Framed(q.table, c)
<1>1. <<SaveSpace, Bookmarks>> \o <<c>> \o <<Restore>> = <<SaveSpace, Bookmarks, c, Restore>>
  BY ConcatFour
<1>2. InBookmarks(<<c>>) = <<SaveSpace, Bookmarks>> \o <<c>> \o <<Restore>>
  BY DEF InBookmarks, SaveSpace, Bookmarks, Restore
<1> QED BY <1>1, <1>2 DEF Scoped, Framed

(* A framed command is still to be sent.                                   *)
LEMMA FramedFacts ==
    ASSUME NEW table, NEW c
    PROVE  /\ Ahead(table, Framed(table, c), c)
           /\ Len(Framed(table, c)) = IF table = "bookmarks" THEN 4 ELSE 1
<1>1. Ahead(table, Framed(table, c), c)
  BY DEF Ahead, Framed
<1>2. Len(Framed(table, c)) = IF table = "bookmarks" THEN 4 ELSE 1
  BY TupleFacts DEF Framed
<1> QED BY <1>1, <1>2

(* What a statement sends first.                                           *)
LEMMA BeginCommands ==
    ASSUME NEW q
    PROVE  /\ Listing(q) = IF q.table = "funcs" THEN <<Plain("aflj")>> ELSE Framed(q.table, Plain("fj"))
           /\ q.table = "funcs" =>
                Insertion(q) = IF ValidName(q.name)
                               THEN <<Cmd("af", BadName, BadName, q.addr), Cmd("afn", BadName, q.name, q.addr)>>
                               ELSE <<Cmd("af", BadName, BadName, q.addr)>>
           /\ q.table # "funcs" =>
                Insertion(q) = IF ValidName(q.name) THEN Framed(q.table, Cmd("f", BadName, q.name, q.addr)) ELSE <<>>
<1>1. Listing(q) = IF q.table = "funcs" THEN <<Plain("aflj")>> ELSE Framed(q.table, Plain("fj"))
  BY ScopedFacts DEF Listing
<1>2. ASSUME q.table = "funcs"
      PROVE  Insertion(q) = IF ValidName(q.name)
                            THEN <<Cmd("af", BadName, BadName, q.addr), Cmd("afn", BadName, q.name, q.addr)>>
                            ELSE <<Cmd("af", BadName, BadName, q.addr)>>
  <2> DEFINE af == Cmd("af", BadName, BadName, q.addr)
             afn == Cmd("afn", BadName, q.name, q.addr)
  <2>1. Insertion(q) = <<af>> \o IF ValidName(q.name) THEN <<afn>> ELSE <<>>
    BY <1>2 DEF Insertion
  <2> HIDE DEF af, afn
  <2>2. <<af>> \o <<afn>> = <<af, afn>> /\ <<af>> \o <<>> = <<af>>
    BY ConcatTwo, ConcatNone
  <2>3. Insertion(q) = IF ValidName(q.name) THEN <<af, afn>> ELSE <<af>>
    BY <2>1, <2>2
  <2> QED BY <2>3 DEF af, afn
<1>3. q.table # "funcs" =>
        Insertion(q) = IF ValidName(q.name) THEN Framed(q.table, Cmd("f", BadName, q.name, q.addr)) ELSE <<>>
  BY ScopedFacts DEF Insertion
<1> QED BY <1>1, <1>2, <1>3

(* What it sends for a row.                                                *)
LEMMA RowCommandsOf ==
    ASSUME NEW q, NEW r
    PROVE  /\ q.table = "funcs" =>
                /\ Renaming(q, r) = <<Cmd("afn", BadName, q.name, r.addr)>>
                /\ Deletion(q, r) = <<Cmd("af-", BadName, BadName, r.addr)>>
           /\ q.table # "funcs" => Deletion(q, r) = Framed(q.table, Cmd("f-", BadName, BadName, r.addr))
           /\ q.table = "flags" =>
                Renaming(q, r) = <<Cmd("afn", BadName, q.name, r.addr), Cmd("fr", r.name, q.name, NoAddr)>>
           /\ q.table = "bookmarks" =>
                Renaming(q, r) = Framed(q.table, Cmd("fr", r.name, q.name, NoAddr))
<1> DEFINE afn == Cmd("afn", BadName, q.name, r.addr)
           fr == Cmd("fr", r.name, q.name, NoAddr)
<1>1. ASSUME q.table = "funcs"
      PROVE  Renaming(q, r) = <<afn>> /\ Deletion(q, r) = <<Cmd("af-", BadName, BadName, r.addr)>>
  <2>1. Renaming(q, r) = <<afn>> \o <<>> /\ Deletion(q, r) = <<Cmd("af-", BadName, BadName, r.addr)>>
    BY <1>1 DEF Renaming, Deletion
  <2> HIDE DEF afn
  <2> QED BY <2>1, ConcatNone
<1>2. q.table # "funcs" => Deletion(q, r) = Framed(q.table, Cmd("f-", BadName, BadName, r.addr))
  BY ScopedFacts DEF Deletion
<1>3. ASSUME q.table = "flags"
      PROVE  Renaming(q, r) = <<afn, fr>>
  <2>1. Scoped(q, <<fr>>) = <<fr>>
    BY <1>3, ScopedFacts DEF Framed
  <2> QED BY <1>3, <2>1, ConcatTwo DEF Renaming
<1>4. ASSUME q.table = "bookmarks"
      PROVE  Renaming(q, r) = Framed(q.table, fr)
  <2>1. Scoped(q, <<fr>>) = <<SaveSpace, Bookmarks, fr, Restore>>
    BY <1>4, ScopedFacts DEF Framed
  <2>2. Renaming(q, r) = <<>> \o Scoped(q, <<fr>>)
    BY <1>4 DEF Renaming
  <2> HIDE DEF fr
  <2>3. <<>> \o <<SaveSpace, Bookmarks, fr, Restore>> = <<SaveSpace, Bookmarks, fr, Restore>>
    BY ConcatNone
  <2>4. Framed(q.table, fr) = <<SaveSpace, Bookmarks, fr, Restore>>
    BY <1>4 DEF Framed
  <2> QED BY <2>1, <2>2, <2>3, <2>4
<1> QED BY <1>1, <1>2, <1>3, <1>4

(* The statements, by what they do.                                        *)
LEMMA QueryFacts ==
    ASSUME NEW q \in Whole!Queries
    PROVE  /\ q.op \in {"select", "insert", "rename", "delete"}
           /\ q.table \in {"flags", "bookmarks", "funcs"}
           /\ q.name \in Names \cup {BadName}
           /\ ValidName(q.name) <=> q.name \in Names
           /\ q.addr \in Addrs \cup {NoAddr}
           /\ q.op \in {"insert", "rename"} \/ q.table = "funcs" => q.addr \in Addrs
           /\ q.op = "select" => q.addr = NoAddr /\ q.table # "funcs"
           /\ q # NoStmt
BY NamesAssumption, AddrsAssumption DEF Whole!Queries, ValidName, NoStmt

-----------------------------------------------------------------------------
(* What a call of Backend::cmd does                                        *)

(* The flag space in which a statement acts.                               *)
TableSpace == IF stmt.table = "bookmarks" THEN "bookmarks" ELSE before.space

Does(c) == Lists(c) \/ ChangesFlags(c) \/ ChangesFuncs(c)
RowCommands == {"fj", "aflj", "f", "fr", "f-", "af", "afn", "af-"}

(* Send carries out the first command.                                     *)
LEMMA SendFacts ==
    ASSUME NEW t \in Threads, Send(t)
    PROVE  /\ todo' = Tail(todo) /\ todo # <<>>
           /\ ChangesSpace(Head(todo)) \/ Does(Head(todo))
           /\ UNCHANGED <<chosen, pc, stmt, ok, before, answer>>
BY DEF Send, Does

(* A command of a row leaves the flag space alone.                         *)
LEMMA RowCommandFacts ==
    ASSUME NEW c, c.do \in RowCommands
    PROVE  /\ ~ChangesSpace(c)
           /\ Does(c) => UNCHANGED <<space, saved>>
<1>1. ~ChangesSpace(c)
  BY DEF ChangesSpace, RowCommands
<1>2. Does(c) => UNCHANGED <<space, saved>>
  BY DEF Does, Lists, ChangesFlags, ChangesFuncs, r2
<1> QED BY <1>1, <1>2

(* The frame: nothing but the flag space changes.                          *)
LEMMA FrameCommandFacts ==
    /\ ChangesSpace(SaveSpace) \/ Does(SaveSpace) => saved' = Append(saved, space) /\ UNCHANGED <<space, flags, funcs, rows>>
    /\ ChangesSpace(Bookmarks) \/ Does(Bookmarks) => space' = "bookmarks" /\ UNCHANGED <<saved, flags, funcs, rows>>
    /\ ChangesSpace(Restore) \/ Does(Restore) =>
          space' = Last(saved) /\ saved' = Front(saved) /\ UNCHANGED <<flags, funcs, rows>>
<1>1. SaveSpace.do = "fss*" /\ Bookmarks.do = "fs bookmarks" /\ Restore.do = "fsr-"
  BY DEF SaveSpace, Bookmarks, Restore, Plain, Cmd
<1>2. ~Does(SaveSpace) /\ ~Does(Bookmarks) /\ ~Does(Restore)
  BY <1>1 DEF Does, Lists, ChangesFlags, ChangesFuncs
<1>3. ChangesSpace(SaveSpace) => saved' = Append(saved, space) /\ UNCHANGED <<space, flags, funcs, rows>>
  BY <1>1 DEF ChangesSpace
<1>4. ChangesSpace(Bookmarks) => space' = "bookmarks" /\ UNCHANGED <<saved, flags, funcs, rows>>
  BY <1>1 DEF ChangesSpace
<1>5. ChangesSpace(Restore) => space' = Last(saved) /\ saved' = Front(saved) /\ UNCHANGED <<flags, funcs, rows>>
  BY <1>1 DEF ChangesSpace
<1> QED BY <1>2, <1>3, <1>4, <1>5

(* The command of a row, and its frame, in the order of the code.          *)
LEMMA SendAhead ==
    ASSUME NEW t \in Threads, Send(t), SpaceInv,
           NEW c, c.do \in RowCommands, Ahead(stmt.table, todo, c)
    PROVE  /\ SpaceInv'
           /\ \/ Ahead(stmt.table, todo', c) /\ UNCHANGED <<flags, funcs, rows>>
              \/ Behind(stmt.table, todo') /\ space = TableSpace /\ Does(c)
<1>0. /\ todo' = Tail(todo)
      /\ ChangesSpace(Head(todo)) \/ Does(Head(todo))
      /\ UNCHANGED <<stmt, before>>
  BY SendFacts
<1>1. CASE stmt.table # "bookmarks"
  <2>1. todo = <<c>> /\ saved = <<>> /\ space = before.space
    BY <1>1 DEF Ahead, SpaceInv
  <2>2. todo' = <<>> /\ Does(c) /\ UNCHANGED <<space, saved>>
    BY <1>0, <2>1, TupleFacts, RowCommandFacts
  <2> QED BY <1>0, <1>1, <2>1, <2>2 DEF SpaceInv, Behind, TableSpace
<1>2. CASE stmt.table = "bookmarks" /\ todo = <<SaveSpace, Bookmarks, c, Restore>>
  <2>1. saved = <<>> /\ space = before.space
    BY <1>2, TupleFacts DEF SpaceInv
  <2>2. todo' = <<Bookmarks, c, Restore>> /\ Len(todo') = 3 /\ Head(todo) = SaveSpace
    BY <1>0, <1>2, TupleFacts
  <2>3. saved' = Append(saved, space) /\ UNCHANGED <<space, flags, funcs, rows>>
    BY <1>0, <2>2, FrameCommandFacts
  <2>4. saved' = <<before.space>>
    BY <2>1, <2>3, StackFacts
  <2>5. SpaceInv'
    BY <1>0, <1>2, <2>1, <2>2, <2>3, <2>4 DEF SpaceInv
  <2> QED BY <1>2, <2>2, <2>3, <2>5 DEF Ahead
<1>3. CASE stmt.table = "bookmarks" /\ todo = <<Bookmarks, c, Restore>>
  <2>1. saved = <<before.space>> /\ space = before.space
    BY <1>3, TupleFacts DEF SpaceInv
  <2>2. todo' = <<c, Restore>> /\ Len(todo') = 2 /\ Head(todo) = Bookmarks
    BY <1>0, <1>3, TupleFacts
  <2>3. space' = "bookmarks" /\ UNCHANGED <<saved, flags, funcs, rows>>
    BY <1>0, <2>2, FrameCommandFacts
  <2>4. SpaceInv'
    BY <1>0, <1>3, <2>1, <2>2, <2>3 DEF SpaceInv
  <2> QED BY <1>3, <2>2, <2>3, <2>4 DEF Ahead
<1>4. CASE stmt.table = "bookmarks" /\ todo = <<c, Restore>>
  <2>1. saved = <<before.space>> /\ space = "bookmarks"
    BY <1>4, TupleFacts DEF SpaceInv
  <2>2. todo' = <<Restore>> /\ Len(todo') = 1 /\ Head(todo) = c
    BY <1>0, <1>4, TupleFacts
  <2>3. Does(c) /\ UNCHANGED <<space, saved>>
    BY <1>0, <2>2, RowCommandFacts
  <2>4. SpaceInv'
    <3> HIDE DEF SpaceInv
    <3> QED BY <1>0, <1>4, <2>1, <2>2, <2>3 DEF SpaceInv
  <2> QED BY <1>4, <2>1, <2>2, <2>3, <2>4 DEF Behind, TableSpace
<1> QED BY <1>1, <1>2, <1>3, <1>4 DEF Ahead

(* What follows the command of a row changes the flag space only.          *)
LEMMA SendBehind ==
    ASSUME NEW t \in Threads, Send(t), SpaceInv, Behind(stmt.table, todo)
    PROVE  SpaceInv' /\ todo' = <<>> /\ UNCHANGED <<flags, funcs, rows>>
<1>0. /\ todo' = Tail(todo)
      /\ ChangesSpace(Head(todo)) \/ Does(Head(todo))
      /\ UNCHANGED <<stmt, before>> /\ todo # <<>>
  BY SendFacts
<1>1. stmt.table = "bookmarks" /\ todo = <<Restore>>
  BY <1>0 DEF Behind
<1>2. saved = <<before.space>>
  BY <1>1, TupleFacts DEF SpaceInv
<1>3. todo' = <<>> /\ Len(todo') = 0 /\ Head(todo) = Restore
  BY <1>0, <1>1, TupleFacts
<1>4. space' = Last(saved) /\ saved' = Front(saved) /\ UNCHANGED <<flags, funcs, rows>>
  BY <1>0, <1>3, FrameCommandFacts
<1>5. space' = before.space /\ saved' = <<>>
  BY <1>2, <1>4, StackFacts
<1>6. SpaceInv'
  BY <1>0, <1>1, <1>3, <1>5 DEF SpaceInv
<1> QED BY <1>3, <1>4, <1>6

(* A command that is sent in no frame.                                     *)
LEMMA SendPlain ==
    ASSUME NEW t \in Threads, Send(t), SpaceInv, stmt.table # "bookmarks",
           NEW c, c.do \in RowCommands, Head(todo) = c
    PROVE  SpaceInv' /\ Does(c)
<1>1. Does(c) /\ UNCHANGED <<space, saved, stmt, before>>
  BY SendFacts, RowCommandFacts
<1> QED BY <1>1 DEF SpaceInv

(* A statement that has nothing left to send may begin a row.              *)
LEMMA SpaceKept ==
    ASSUME SpaceInv, Len(todo) = 0, UNCHANGED <<stmt, before, space, saved>>,
           stmt.table = "bookmarks" => Len(todo') \in {0, 4}
    PROVE  SpaceInv'
BY DEF SpaceInv

-----------------------------------------------------------------------------
(* The statement that holds query_mu_                                      *)

(* radare2's data, and the rows that were read from it.                    *)
R2Types ==
    /\ FlagSet(flags) /\ funcs \in [Addrs -> Names \cup {NoName}] /\ space \in Whole!Spaces
    /\ \A r \in rows : r.addr \in Addrs

(* What every statement relies on.                                         *)
Held ==
    /\ stmt \in Whole!Queries
    /\ FlagSet(before.flags) /\ before.funcs \in [Addrs -> Names \cup {NoName}]
    /\ before.space \in Whole!Spaces
    /\ R2Types /\ SpaceInv

(* A statement never sends a name that valid_flag_name refuses.            *)
WellFormed(c) ==
    /\ c.do \in RowCommands
    /\ c.do \in {"f", "fr", "afn"} => c.new \in Names
    /\ c.do = "f" => c.addr \in Addrs
    /\ c.do = "aflj" => stmt.addr \in Addrs

(* Finite sets of flags, no two of one name.                               *)
LEMMA FlagSetSubset ==
    ASSUME NEW S, FlagSet(S), NEW T, T \subseteq S
    PROVE  FlagSet(T)
BY FS_Subset DEF FlagSet

(* A flag of a new name joins the set.                                     *)
LEMMA FlagSetAdd ==
    ASSUME NEW S, FlagSet(S), NEW f \in Whole!Flags, \A g \in S : g.name # f.name
    PROVE  FlagSet(S \cup {f})
<1>1. IsFiniteSet(S \cup {f})
  BY FS_AddElement DEF FlagSet
<1> QED BY <1>1 DEF FlagSet

(* `f` sets a flag and keeps names apart.                                  *)
LEMMA SetFlagFacts ==
    ASSUME FlagSet(flags), NEW n \in Names, NEW a \in Addrs, space \in Whole!Spaces
    PROVE  FlagSet(SetFlag(n, a))
<1> DEFINE others == {f \in flags : f.name # n}
           new == [name |-> n, addr |-> a, space |-> space]
<1>1. FlagSet(others)
  BY FlagSetSubset
<1>2. new \in Whole!Flags /\ new.name = n
  BY DEF Whole!Flags
<1>3. \A g \in others : g.name # new.name
  BY <1>2
<1> HIDE DEF others, new
<1>4. FlagSet(others \cup {new})
  BY <1>1, <1>2, <1>3, FlagSetAdd
<1> QED BY <1>4 DEF SetFlag, others, new

(* So does `fr`, to a name that is free.                                   *)
LEMMA RenameFacts ==
    ASSUME NEW S, FlagSet(S), NEW f \in S, NEW n \in Names, \A g \in S : g.name # n
    PROVE  FlagSet((S \ {f}) \cup {[f EXCEPT !.name = n]})
<1> DEFINE new == [f EXCEPT !.name = n]
<1>1. FlagSet(S \ {f})
  BY FlagSetSubset
<1>2. new \in Whole!Flags /\ new.name = n
  BY DEF Whole!Flags, FlagSet
<1> HIDE DEF new
<1>3. FlagSet((S \ {f}) \cup {new})
  BY <1>1, <1>2, FlagSetAdd
<1> QED BY <1>3 DEF new

(* A command leaves flags and functions behind.                            *)
LEMMA DoesTypes ==
    ASSUME R2Types, NEW c, WellFormed(c), Does(c)
    PROVE  /\ FlagSet(flags') /\ funcs' \in [Addrs -> Names \cup {NoName}]
           /\ \A r \in rows' : r.addr \in Addrs
<1>0. /\ FlagSet(flags) /\ funcs \in [Addrs -> Names \cup {NoName}] /\ space \in Whole!Spaces
      /\ \A r \in rows : r.addr \in Addrs
  BY DEF R2Types
<1>1. CASE Lists(c)
  <2>1. UNCHANGED <<flags, funcs>>
    BY <1>1 DEF Lists, r2
  <2>2. CASE c.do = "fj"
    <3>1. rows' \subseteq flags
      BY <1>1, <2>2 DEF Lists, Listed
    <3> QED BY <1>0, <2>1, <3>1 DEF FlagSet, Whole!Flags
  <2>3. CASE c.do = "aflj"
    <3>1. \A r \in rows' : r.addr = stmt.addr
      BY <1>1, <2>3 DEF Lists
    <3> QED BY <1>0, <2>1, <2>3, <3>1 DEF WellFormed
  <2> QED BY <1>1, <2>2, <2>3 DEF Lists
<1>2. CASE ChangesFlags(c)
  <2>1. UNCHANGED <<funcs, rows>>
    BY <1>2 DEF ChangesFlags
  <2>2. CASE c.do = "f"
    <3>1. flags' = SetFlag(c.new, c.addr) /\ c.new \in Names /\ c.addr \in Addrs
      BY <1>2, <2>2 DEF ChangesFlags, WellFormed
    <3> QED BY <1>0, <2>1, <3>1, SetFlagFacts
  <2>3. CASE c.do = "fr"
    <3> DEFINE named == {f \in flags : f.name = c.old}
    <3>1. /\ c.new \in Names
          /\ flags' = IF named # {} /\ \A f \in flags : f.name # c.new
                      THEN Rename(CHOOSE f \in named : TRUE, c.new) ELSE flags
      BY <1>2, <2>3 DEF ChangesFlags, WellFormed
    <3>2. CASE named # {} /\ \A f \in flags : f.name # c.new
      <4>1. PICK f \in named : flags' = Rename(f, c.new)
        BY <3>1, <3>2
      <4>2. f \in flags
        BY <4>1
      <4>3. FlagSet(Rename(f, c.new))
        BY <1>0, <3>1, <3>2, <4>2, RenameFacts DEF Rename
      <4> QED BY <1>0, <2>1, <4>1, <4>3
    <3> QED BY <1>0, <2>1, <3>1, <3>2
  <2>4. CASE c.do = "f-"
    <3>1. flags' \subseteq flags
      BY <1>2, <2>4 DEF ChangesFlags
    <3> QED BY <1>0, <2>1, <3>1, FlagSetSubset
  <2> QED BY <1>2, <2>2, <2>3, <2>4 DEF ChangesFlags
<1>3. CASE ChangesFuncs(c)
  <2>1. UNCHANGED <<flags, rows>>
    BY <1>3 DEF ChangesFuncs
  <2>2. funcs' \in [Addrs -> Names \cup {NoName}]
    BY <1>0, <1>3 DEF ChangesFuncs, WellFormed
  <2> QED BY <1>0, <2>1, <2>2
<1> QED BY <1>1, <1>2, <1>3 DEF Does

(* The cache builder reads the rows of the statement.                      *)
LEMMA ListsFlags ==
    ASSUME Does(Plain("fj")), space = TableSpace, FlagsAsBefore
    PROVE  rows' = Selected /\ UNCHANGED <<flags, funcs>>
<1>1. Plain("fj").do = "fj"
  BY DEF Plain, Cmd
<1>2. Lists(Plain("fj"))
  BY <1>1 DEF Does, ChangesFlags, ChangesFuncs
<1>3. rows' = {f \in Listed : Whole!Selects(stmt, f)} /\ UNCHANGED <<flags, funcs>>
  BY <1>1, <1>2 DEF Lists, r2
<1>4. Listed = InTable
  BY DEF Listed, InTable, Here, TableSpace, FlagsAsBefore
<1> QED BY <1>3, <1>4 DEF Selected

(* The same for funcs.                                                     *)
LEMMA ListsFuncs ==
    ASSUME Does(Plain("aflj")), FuncsAsBefore
    PROVE  rows' = (IF NoFunc THEN {} ELSE {FuncRow}) /\ UNCHANGED <<flags, funcs>>
<1>1. Plain("aflj").do = "aflj"
  BY DEF Plain, Cmd
<1>2. Lists(Plain("aflj"))
  BY <1>1 DEF Does, ChangesFlags, ChangesFuncs
<1>3. /\ rows' = {[name |-> funcs[a], addr |-> a, space |-> "*"] : a \in {x \in {stmt.addr} : funcs[x] # NoName}}
      /\ UNCHANGED <<flags, funcs>>
  BY <1>1, <1>2 DEF Lists, r2
<1> QED BY <1>3 DEF FuncsAsBefore, NoFunc, FuncRow

(* What the invariant derives from stmt and before stays with them.        *)
LEMMA Frozen ==
    ASSUME UNCHANGED <<stmt, before>>
    PROVE  /\ Selected' = Selected /\ InTable' = InTable /\ NoFunc' = NoFunc /\ FuncRow' = FuncRow
           /\ \A n : Named(n)' = Named(n) /\ Found(n)' = Found(n)
BY DEF Selected, InTable, Here, NoFunc, FuncRow, Named, Found, Whole!Selects

(* What a step must show for Held.                                         *)
LEMMA HeldAfter ==
    ASSUME Held, UNCHANGED <<stmt, before>>, SpaceInv',
           FlagSet(flags'), funcs' \in [Addrs -> Names \cup {NoName}], \A r \in rows' : r.addr \in Addrs
    PROVE  Held'
<1>1. before.space \in Whole!Spaces /\ "bookmarks" \in Whole!Spaces
  BY DEF Held, Whole!Spaces
<1>2. space' \in Whole!Spaces
  BY <1>1 DEF SpaceInv
<1>3. FlagSet(flags)'
  BY DEF FlagSet
<1>4. /\ stmt' \in Whole!Queries /\ before'.funcs \in [Addrs -> Names \cup {NoName}]
      /\ before'.space \in Whole!Spaces /\ FlagSet(before.flags)'
  BY DEF Held, FlagSet
<1> QED BY <1>2, <1>3, <1>4 DEF Held, R2Types

(* Send, for each place in a statement.                                    *)
LEMMA HeldAhead ==
    ASSUME NEW t \in Threads, Send(t), Held,
           NEW c, WellFormed(c), Ahead(stmt.table, todo, c)
    PROVE  /\ Held'
           /\ \/ Ahead(stmt.table, todo', c) /\ UNCHANGED <<flags, funcs, rows>>
              \/ Behind(stmt.table, todo') /\ space = TableSpace /\ Does(c)
<1>1. /\ SpaceInv'
      /\ \/ Ahead(stmt.table, todo', c) /\ UNCHANGED <<flags, funcs, rows>>
         \/ Behind(stmt.table, todo') /\ space = TableSpace /\ Does(c)
  BY SendAhead DEF Held, WellFormed
<1>2. FlagSet(flags') /\ funcs' \in [Addrs -> Names \cup {NoName}] /\ \A r \in rows' : r.addr \in Addrs
  <2>1. CASE UNCHANGED <<flags, funcs, rows>>
    BY <2>1 DEF Held, R2Types
  <2>2. CASE Does(c)
    BY <2>2, DoesTypes DEF Held
  <2> QED BY <1>1, <2>1, <2>2
<1>3. Held'
  BY <1>1, <1>2, SendFacts, HeldAfter
<1> QED BY <1>1, <1>3

(* Behind the command of a row.                                            *)
LEMMA HeldBehind ==
    ASSUME NEW t \in Threads, Send(t), Held, Behind(stmt.table, todo)
    PROVE  Held' /\ todo' = <<>> /\ UNCHANGED <<flags, funcs, rows>>
<1>1. SpaceInv' /\ todo' = <<>> /\ UNCHANGED <<flags, funcs, rows>>
  BY SendBehind DEF Held
<1>2. FlagSet(flags') /\ funcs' \in [Addrs -> Names \cup {NoName}] /\ \A r \in rows' : r.addr \in Addrs
  BY <1>1 DEF Held, R2Types
<1> QED BY <1>1, <1>2, SendFacts, HeldAfter

(* Outside a frame.                                                        *)
LEMMA HeldPlain ==
    ASSUME NEW t \in Threads, Send(t), Held, stmt.table # "bookmarks",
           NEW c, WellFormed(c), Head(todo) = c
    PROVE  Held' /\ Does(c)
<1>1. SpaceInv' /\ Does(c)
  BY SendPlain DEF Held, WellFormed
<1>2. FlagSet(flags') /\ funcs' \in [Addrs -> Names \cup {NoName}] /\ \A r \in rows' : r.addr \in Addrs
  BY <1>1, DoesTypes DEF Held
<1> QED BY <1>1, <1>2, SendFacts, HeldAfter

(* The listings carry no name.                                             *)
LEMMA WellFormedListing ==
    /\ WellFormed(Plain("fj"))
    /\ stmt.addr \in Addrs => WellFormed(Plain("aflj"))
BY DEF WellFormed, RowCommands, Plain, Cmd

-----------------------------------------------------------------------------
(* SELECT                                                                  *)

(* The listing is sent, or has been answered.                              *)
LEMMA UnlistedSend ==
    ASSUME NEW t \in Threads, Send(t), Held, Unlisted(Plain("fj"))
    PROVE  /\ Held' /\ ok' /\ Untouched'
           /\ \/ Ahead(stmt.table, todo', Plain("fj")) /\ rows' = {}
              \/ Behind(stmt.table, todo') /\ rows' = Selected
<1>1. /\ Ahead(stmt.table, todo, Plain("fj")) /\ rows = {} /\ ok /\ Untouched
      /\ UNCHANGED <<stmt, before, ok>>
  BY SendFacts DEF Unlisted
<1>2. /\ Held'
      /\ \/ Ahead(stmt.table, todo', Plain("fj")) /\ UNCHANGED <<flags, funcs, rows>>
         \/ Behind(stmt.table, todo') /\ space = TableSpace /\ Does(Plain("fj"))
  BY <1>1, HeldAhead, WellFormedListing
<1>3. CASE Ahead(stmt.table, todo', Plain("fj")) /\ UNCHANGED <<flags, funcs, rows>>
  BY <1>1, <1>2, <1>3 DEF Untouched, FlagsAsBefore, FuncsAsBefore
<1>4. CASE Behind(stmt.table, todo') /\ space = TableSpace /\ Does(Plain("fj"))
  <2>1. rows' = Selected /\ UNCHANGED <<flags, funcs>>
    BY <1>1, <1>4, ListsFlags DEF Untouched
  <2> QED BY <1>1, <1>2, <1>4, <2>1 DEF Untouched, FlagsAsBefore, FuncsAsBefore
<1> QED BY <1>2, <1>3, <1>4

(* A SELECT changes nothing and answers the rows it selects.               *)
LEMMA SelectSend ==
    ASSUME NEW t \in Threads, Send(t), Held, SelectInv
    PROVE  Held' /\ SelectInv'
<1>0. UNCHANGED <<stmt, before, ok>> /\ Selected' = Selected
  BY SendFacts, Frozen
<1>1. CASE Ahead(stmt.table, todo, Plain("fj")) /\ rows = {}
  <2>1. Unlisted(Plain("fj"))
    BY <1>1 DEF SelectInv, Unlisted
  <2>2. /\ Held' /\ ok' /\ Untouched'
        /\ \/ Ahead(stmt.table, todo', Plain("fj")) /\ rows' = {}
           \/ Behind(stmt.table, todo') /\ rows' = Selected
    BY <2>1, UnlistedSend
  <2>3. Ahead(stmt.table, todo', Plain("fj")) => Ahead(stmt.table, todo, Plain("fj"))'
    BY <1>0 DEF Ahead, SaveSpace, Bookmarks, Restore, Plain, Cmd
  <2>4. Behind(stmt.table, todo') => Behind(stmt.table, todo)'
    BY <1>0 DEF Behind, Restore, Plain, Cmd
  <2> QED BY <1>0, <2>2, <2>3, <2>4 DEF SelectInv
<1>2. CASE Behind(stmt.table, todo) /\ rows = Selected
  <2>1. Held' /\ todo' = <<>> /\ UNCHANGED <<flags, funcs, rows>>
    BY <1>2, HeldBehind
  <2> QED BY <1>0, <1>2, <2>1 DEF SelectInv, Behind, Untouched, FlagsAsBefore, FuncsAsBefore
<1> QED BY <1>1, <1>2 DEF SelectInv

-----------------------------------------------------------------------------
(* INSERT                                                                  *)

(* A flag is inserted, or nothing is sent.                                 *)
LEMMA InsertFlagSend ==
    ASSUME NEW t \in Threads, Send(t), Held, stmt.op = "insert", InsertFlagInv
    PROVE  Held' /\ InsertFlagInv'
<1> DEFINE c == Cmd("f", BadName, stmt.name, stmt.addr)
<1>0. /\ UNCHANGED <<stmt, before, ok>> /\ todo # <<>>
      /\ rows = {} /\ FuncsAsBefore /\ (ok <=> ValidName(stmt.name))
      /\ ValidName(stmt.name) <=> stmt.name \in Names
      /\ stmt.addr \in Addrs
  BY SendFacts, QueryFacts DEF InsertFlagInv, Held
<1>1. /\ Ahead(stmt.table, todo', c) => Ahead(stmt.table, todo, c)'
      /\ Behind(stmt.table, todo') => Behind(stmt.table, todo)'
      /\ ValidName(stmt.name)' <=> ValidName(stmt.name)
  BY <1>0 DEF Ahead, Behind, SaveSpace, Bookmarks, Restore, Plain, Cmd, ValidName
<1>2. CASE Ahead(stmt.table, todo, c) /\ FlagsAsBefore /\ ValidName(stmt.name)
  <2>1. WellFormed(c)
    BY <1>0, <1>2 DEF WellFormed, RowCommands, Cmd
  <2>2. c.do = "f" /\ c.new = stmt.name /\ c.addr = stmt.addr
    BY DEF Cmd
  <2> HIDE DEF c
  <2>3. /\ Held'
        /\ \/ Ahead(stmt.table, todo', c) /\ UNCHANGED <<flags, funcs, rows>>
           \/ Behind(stmt.table, todo') /\ space = TableSpace /\ Does(c)
    BY <1>2, <2>1, HeldAhead
  <2>4. CASE Ahead(stmt.table, todo', c) /\ UNCHANGED <<flags, funcs, rows>>
    BY <1>0, <1>1, <1>2, <2>3, <2>4 DEF InsertFlagInv, FlagsAsBefore, FuncsAsBefore, c
  <2>5. CASE Behind(stmt.table, todo') /\ space = TableSpace /\ Does(c)
    <3>1. flags' = SetFlag(stmt.name, stmt.addr) /\ UNCHANGED <<funcs, rows>>
      BY <2>2, <2>5 DEF Does, Lists, ChangesFlags, ChangesFuncs
    <3>2. flags' = {f \in before.flags : f.name # stmt.name}
                     \cup {[name |-> stmt.name, addr |-> stmt.addr,
                            space |-> IF stmt.table = "bookmarks" THEN "bookmarks" ELSE before.space]}
      BY <1>2, <2>5, <3>1 DEF SetFlag, TableSpace, FlagsAsBefore
    <3> QED BY <1>0, <1>1, <1>2, <2>3, <2>5, <3>1, <3>2 DEF InsertFlagInv, FuncsAsBefore
  <2> QED BY <2>3, <2>4, <2>5
<1>3. CASE /\ Behind(stmt.table, todo) /\ ValidName(stmt.name)
           /\ flags = {f \in before.flags : f.name # stmt.name}
                        \cup {[name |-> stmt.name, addr |-> stmt.addr,
                               space |-> IF stmt.table = "bookmarks" THEN "bookmarks" ELSE before.space]}
  <2>1. Held' /\ todo' = <<>> /\ UNCHANGED <<flags, funcs, rows>>
    BY <1>3, HeldBehind
  <2>2. Behind(stmt.table, todo)'
    BY <2>1 DEF Behind
  <2> QED BY <1>0, <1>1, <1>3, <2>1, <2>2 DEF InsertFlagInv, FuncsAsBefore
<1> QED BY <1>0, <1>2, <1>3 DEF InsertFlagInv

(* Functions are not framed.                                               *)
LEMMA FuncCommandFacts ==
    ASSUME NEW c, Does(c)
    PROVE  /\ c.do \in {"af", "afn", "af-"} => UNCHANGED <<flags, rows>>
           /\ c.do = "af" => \/ c.addr \in Code /\ funcs[c.addr] = NoName /\ \E n \in Names : funcs' = [funcs EXCEPT ![c.addr] = n]
                             \/ UNCHANGED funcs
           /\ c.do = "afn" => funcs' = [funcs EXCEPT ![c.addr] = IF @ = NoName THEN @ ELSE c.new]
           /\ c.do = "af-" => funcs' = [funcs EXCEPT ![c.addr] = NoName]
BY DEF Does, Lists, ChangesFlags, ChangesFuncs

(* A function is created, then named.                                      *)
LEMMA InsertFuncSend ==
    ASSUME NEW t \in Threads, Send(t), Held, stmt.op = "insert", stmt.table = "funcs", InsertFuncInv
    PROVE  Held' /\ InsertFuncInv'
<1> DEFINE af == Cmd("af", BadName, BadName, stmt.addr)
           afn == Cmd("afn", BadName, stmt.name, stmt.addr)
<1>0. /\ UNCHANGED <<stmt, before, ok>> /\ todo # <<>> /\ todo' = Tail(todo)
      /\ rows = {} /\ ok /\ FlagsAsBefore
      /\ ValidName(stmt.name) <=> stmt.name \in Names
      /\ stmt.addr \in Addrs /\ before.funcs \in [Addrs -> Names \cup {NoName}]
      /\ NoName \notin Names
  BY SendFacts, QueryFacts, NamesAssumption DEF InsertFuncInv, Held
<1>1. /\ af.do = "af" /\ af.addr = stmt.addr /\ WellFormed(af)
      /\ afn.do = "afn" /\ afn.addr = stmt.addr /\ afn.new = stmt.name
      /\ ValidName(stmt.name) => WellFormed(afn)
  BY <1>0 DEF WellFormed, RowCommands, Cmd
<1>2. /\ Insertion(stmt) = IF ValidName(stmt.name) THEN <<af, afn>> ELSE <<af>>
      /\ af' = af /\ afn' = afn /\ ValidName(stmt.name)' = ValidName(stmt.name)
  BY <1>0, BeginCommands DEF Cmd, ValidName
<1>3. CASE todo = Insertion(stmt) /\ FuncsAsBefore
  <2> HIDE DEF af, afn
  <2>1. Head(todo) = af /\ todo' = IF ValidName(stmt.name) THEN <<afn>> ELSE <<>>
    BY <1>0, <1>2, <1>3, TupleFacts
  <2>2. Held' /\ Does(af)
    BY <1>1, <2>1, HeldPlain
  <2>3. /\ UNCHANGED <<flags, rows>>
        /\ \/ funcs[stmt.addr] = NoName /\ \E n \in Names : funcs' = [funcs EXCEPT ![stmt.addr] = n]
           \/ UNCHANGED funcs
    BY <1>1, <2>2, FuncCommandFacts
  <2>4. FuncsAsBefore' \/ (NoFunc' /\ \E n \in Names : funcs' = Found(n)')
    BY <1>0, <1>3, <2>3 DEF FuncsAsBefore, NoFunc, Found
  <2>5. FlagsAsBefore' /\ rows' = {} /\ ok'
    BY <1>0, <2>3 DEF FlagsAsBefore
  <2>6. todo' = (IF ValidName(stmt.name) THEN <<afn>> ELSE <<>>)'
    BY <1>2, <2>1
  <2> QED BY <2>2, <2>4, <2>5, <2>6 DEF InsertFuncInv, afn
<1>4. CASE /\ FuncsAsBefore \/ (NoFunc /\ \E n \in Names : funcs = Found(n))
           /\ todo = IF ValidName(stmt.name) THEN <<afn>> ELSE <<>>
  <2> HIDE DEF af, afn
  <2>1. ValidName(stmt.name) /\ Head(todo) = afn /\ todo' = <<>>
    BY <1>0, <1>4, TupleFacts
  <2>2. Held' /\ Does(afn)
    BY <1>1, <2>1, HeldPlain
  <2>3. /\ UNCHANGED <<flags, rows>>
        /\ funcs' = [funcs EXCEPT ![stmt.addr] = IF @ = NoName THEN @ ELSE stmt.name]
    BY <1>1, <2>2, FuncCommandFacts
  <2>4. (NoFunc /\ funcs' = before.funcs) \/ funcs' = Found(stmt.name)
    <3>1. CASE FuncsAsBefore
      BY <1>0, <2>3, <3>1 DEF FuncsAsBefore, NoFunc, Found
    <3>2. ASSUME NEW n \in Names, funcs = Found(n)
          PROVE  funcs' = Found(stmt.name)
      <4>1. funcs[stmt.addr] = n /\ n # NoName
        BY <1>0, <3>2 DEF Found
      <4>2. funcs' = [funcs EXCEPT ![stmt.addr] = stmt.name]
        BY <2>3, <4>1
      <4>3. [Found(n) EXCEPT ![stmt.addr] = stmt.name] = Found(stmt.name)
        BY <1>0 DEF Found
      <4> QED BY <3>2, <4>2, <4>3
    <3> QED BY <1>4, <3>1, <3>2
  <2>5. (NoFunc' /\ FuncsAsBefore') \/ funcs' = Found(stmt.name)'
    BY <1>0, <2>4 DEF NoFunc, FuncsAsBefore, Found
  <2>6. FlagsAsBefore' /\ rows' = {} /\ ok' /\ ValidName(stmt.name)'
    BY <1>0, <1>2, <2>1, <2>3 DEF FlagsAsBefore
  <2> QED BY <2>1, <2>2, <2>5, <2>6 DEF InsertFuncInv
<1> QED BY <1>0, <1>3, <1>4 DEF InsertFuncInv

-----------------------------------------------------------------------------
(* UPDATE and DELETE on funcs                                              *)

(* The listing of funcs.                                                   *)
LEMMA UnlistedFuncsSend ==
    ASSUME NEW t \in Threads, Send(t), Held, stmt.table = "funcs", Unlisted(Plain("aflj"))
    PROVE  Held' /\ FuncListed' /\ FlagsAsBefore'
<1>1. /\ todo = <<Plain("aflj")>> /\ rows = {} /\ ok /\ Untouched
      /\ UNCHANGED <<stmt, before, ok>> /\ todo' = Tail(todo) /\ stmt.addr \in Addrs
  BY SendFacts, QueryFacts DEF Unlisted, Ahead, Held
<1>2. Head(todo) = Plain("aflj") /\ todo' = <<>>
  BY <1>1, TupleFacts
<1>3. Held' /\ Does(Plain("aflj"))
  BY <1>1, <1>2, HeldPlain, WellFormedListing
<1>4. rows' = (IF NoFunc THEN {} ELSE {FuncRow}) /\ UNCHANGED <<flags, funcs>>
  BY <1>1, <1>3, ListsFuncs DEF Untouched
<1>5. NoFunc' = NoFunc /\ FuncRow' = FuncRow
  BY <1>1, Frozen
<1> QED BY <1>1, <1>2, <1>3, <1>4, <1>5 DEF FuncListed, Untouched, FlagsAsBefore, FuncsAsBefore

(* A function is renamed.                                                  *)
LEMMA RenameFuncSend ==
    ASSUME NEW t \in Threads, Send(t), Held, stmt.op = "rename", stmt.table = "funcs", RenameFuncInv
    PROVE  Held' /\ RenameFuncInv'
<1> DEFINE afn == Cmd("afn", BadName, stmt.name, stmt.addr)
<1>0. /\ UNCHANGED <<stmt, before, ok>> /\ todo # <<>> /\ todo' = Tail(todo)
      /\ ValidName(stmt.name) <=> stmt.name \in Names
      /\ stmt.addr \in Addrs /\ NoFunc' = NoFunc /\ FlagsAsBefore
      /\ ValidName(stmt.name)' = ValidName(stmt.name)
  BY SendFacts, QueryFacts, Frozen DEF RenameFuncInv, Held, ValidName
<1>1. CASE Unlisted(Plain("aflj"))
  BY <1>1, UnlistedFuncsSend DEF RenameFuncInv
<1>2. CASE ~NoFunc /\ ValidName(stmt.name) /\ rows = {} /\ ok /\ todo = <<afn>> /\ FuncsAsBefore
  <2>1. /\ afn.do = "afn" /\ afn.addr = stmt.addr /\ afn.new = stmt.name /\ WellFormed(afn)
    BY <1>0, <1>2 DEF WellFormed, RowCommands, Cmd
  <2> HIDE DEF afn
  <2>2. Head(todo) = afn /\ todo' = <<>>
    BY <1>0, <1>2, TupleFacts
  <2>3. Held' /\ Does(afn)
    BY <2>1, <2>2, HeldPlain
  <2>4. /\ UNCHANGED <<flags, rows>>
        /\ funcs' = [funcs EXCEPT ![stmt.addr] = IF @ = NoName THEN @ ELSE stmt.name]
    BY <2>1, <2>3, FuncCommandFacts
  <2>5. funcs' = Found(stmt.name)
    BY <1>2, <2>4 DEF FuncsAsBefore, NoFunc, Found
  <2>6. funcs' = Found(stmt.name)'
    BY <1>0, <2>5 DEF Found
  <2> QED BY <1>0, <1>2, <2>2, <2>3, <2>4, <2>6 DEF RenameFuncInv, FlagsAsBefore
<1> QED BY <1>0, <1>1, <1>2 DEF RenameFuncInv, FuncListed

(* A function is deleted.                                                  *)
LEMMA DeleteFuncSend ==
    ASSUME NEW t \in Threads, Send(t), Held, stmt.op = "delete", stmt.table = "funcs", DeleteFuncInv
    PROVE  Held' /\ DeleteFuncInv'
<1> DEFINE gone == Cmd("af-", BadName, BadName, stmt.addr)
<1>0. /\ UNCHANGED <<stmt, before, ok>> /\ todo # <<>> /\ todo' = Tail(todo)
      /\ stmt.addr \in Addrs /\ NoFunc' = NoFunc /\ FlagsAsBefore /\ ok
  BY SendFacts, QueryFacts, Frozen DEF DeleteFuncInv, Held
<1>1. CASE Unlisted(Plain("aflj"))
  BY <1>0, <1>1, UnlistedFuncsSend DEF DeleteFuncInv
<1>2. CASE ~NoFunc /\ rows = {} /\ todo = <<gone>> /\ FuncsAsBefore
  <2>1. gone.do = "af-" /\ gone.addr = stmt.addr /\ WellFormed(gone)
    BY DEF WellFormed, RowCommands, Cmd
  <2> HIDE DEF gone
  <2>2. Head(todo) = gone /\ todo' = <<>>
    BY <1>0, <1>2, TupleFacts
  <2>3. Held' /\ Does(gone)
    BY <2>1, <2>2, HeldPlain
  <2>4. UNCHANGED <<flags, rows>> /\ funcs' = [funcs EXCEPT ![stmt.addr] = NoName]
    BY <2>1, <2>3, FuncCommandFacts
  <2>5. funcs' = Found(NoName)'
    BY <1>0, <1>2, <2>4 DEF FuncsAsBefore, Found
  <2> QED BY <1>0, <1>2, <2>2, <2>3, <2>4, <2>5 DEF DeleteFuncInv, FlagsAsBefore
<1> QED BY <1>0, <1>1, <1>2 DEF DeleteFuncInv, FuncListed

(* One row is written.                                                     *)
LEMMA WriteRowFacts ==
    ASSUME NEW t \in Threads, WriteRow(t), Held
    PROVE  /\ todo = <<>> /\ stmt.op \in {"rename", "delete"}
           /\ UNCHANGED <<flags, funcs, space, saved, stmt, before>>
           /\ \E r \in rows :
                 IF Refused(stmt) THEN rows' = {} /\ ok' = FALSE /\ UNCHANGED todo
                 ELSE /\ todo' = IF stmt.op = "rename" THEN Renaming(stmt, r) ELSE Deletion(stmt, r)
                      /\ rows' = rows \ {r} /\ UNCHANGED ok
BY DEF WriteRow, r2

(* A writer starts with an empty list of commands.                         *)
LEMMA HeldWrite ==
    ASSUME NEW t \in Threads, WriteRow(t), Held,
           stmt.table = "bookmarks" => Len(todo') \in {0, 4}
    PROVE  Held'
<1>1. /\ todo = <<>> /\ UNCHANGED <<flags, funcs, space, saved, stmt, before>>
      /\ rows' \subseteq rows
  BY WriteRowFacts
<1>2. Len(todo) = 0
  BY <1>1, TupleFacts
<1>3. SpaceInv'
  BY <1>1, <1>2, SpaceKept DEF Held
<1>4. FlagSet(flags') /\ funcs' \in [Addrs -> Names \cup {NoName}] /\ \A r \in rows' : r.addr \in Addrs
  BY <1>1 DEF Held, R2Types
<1> QED BY <1>1, <1>3, <1>4, HeldAfter

(* A statement that has listed its rows has no command of the listing.     *)
LEMMA NotAhead ==
    ASSUME NEW table, NEW c
    PROVE  ~Ahead(table, <<>>, c)
<1>1. <<>> # <<SaveSpace, Bookmarks, c, Restore>> /\ <<>> # <<Bookmarks, c, Restore>>
      /\ <<>> # <<c, Restore>> /\ <<>> # <<c>>
  BY TupleFacts
<1> QED BY <1>1 DEF Ahead

(* The writer of name on the row of funcs.                                 *)
LEMMA RenameFuncWrite ==
    ASSUME NEW t \in Threads, WriteRow(t), Held, stmt.op = "rename", stmt.table = "funcs", RenameFuncInv
    PROVE  Held' /\ RenameFuncInv'
<1> DEFINE afn == Cmd("afn", BadName, stmt.name, stmt.addr)
<1>0. /\ todo = <<>> /\ UNCHANGED <<flags, funcs, stmt, before>>
      /\ NoFunc' = NoFunc /\ FlagsAsBefore /\ ValidName(stmt.name)' = ValidName(stmt.name)
      /\ Refused(stmt) <=> ~ValidName(stmt.name)
  BY WriteRowFacts, Frozen DEF RenameFuncInv, ValidName, Refused
<1>1. PICK r \in rows :
         IF Refused(stmt) THEN rows' = {} /\ ok' = FALSE /\ UNCHANGED todo
         ELSE todo' = Renaming(stmt, r) /\ rows' = rows \ {r} /\ UNCHANGED ok
  BY WriteRowFacts
<1>2. /\ FuncsAsBefore /\ ok /\ ~NoFunc /\ rows = {FuncRow}
  BY <1>0, <1>1, NotAhead DEF RenameFuncInv, Unlisted, FuncListed
<1>3. r.addr = stmt.addr
  BY <1>1, <1>2 DEF FuncRow
<1>4. Held'
  BY HeldWrite
<1>5. CASE Refused(stmt)
  BY <1>0, <1>1, <1>2, <1>4, <1>5 DEF RenameFuncInv, FlagsAsBefore, FuncsAsBefore
<1>6. CASE ~Refused(stmt)
  <2>1. todo' = <<afn>> /\ rows' = {} /\ ok'
    BY <1>1, <1>2, <1>3, <1>6, RowCommandsOf
  <2>2. afn' = afn
    BY <1>0 DEF Cmd
  <2> HIDE DEF afn
  <2>3. FuncsAsBefore' /\ FlagsAsBefore' /\ ~NoFunc' /\ ValidName(stmt.name)'
    BY <1>0, <1>2, <1>6 DEF FlagsAsBefore, FuncsAsBefore
  <2> QED BY <1>4, <2>1, <2>2, <2>3 DEF RenameFuncInv, afn
<1> QED BY <1>5, <1>6

(* The deleter on the row of funcs.                                        *)
LEMMA DeleteFuncWrite ==
    ASSUME NEW t \in Threads, WriteRow(t), Held, stmt.op = "delete", stmt.table = "funcs", DeleteFuncInv
    PROVE  Held' /\ DeleteFuncInv'
<1> DEFINE gone == Cmd("af-", BadName, BadName, stmt.addr)
<1>0. /\ todo = <<>> /\ UNCHANGED <<flags, funcs, stmt, before>>
      /\ NoFunc' = NoFunc /\ FlagsAsBefore /\ ok /\ ~Refused(stmt)
  BY WriteRowFacts, Frozen DEF DeleteFuncInv, Refused
<1>1. PICK r \in rows : todo' = Deletion(stmt, r) /\ rows' = rows \ {r} /\ UNCHANGED ok
  BY <1>0, WriteRowFacts
<1>2. /\ FuncsAsBefore /\ ~NoFunc /\ rows = {FuncRow}
  BY <1>0, <1>1, NotAhead DEF DeleteFuncInv, Unlisted, FuncListed
<1>3. r.addr = stmt.addr
  BY <1>1, <1>2 DEF FuncRow
<1>4. Held'
  BY HeldWrite
<1>5. todo' = <<gone>> /\ rows' = {} /\ ok'
  BY <1>0, <1>1, <1>2, <1>3, RowCommandsOf
<1>6. gone' = gone
  BY <1>0 DEF Cmd
<1> HIDE DEF gone
<1>7. FuncsAsBefore' /\ FlagsAsBefore' /\ ~NoFunc'
  BY <1>0, <1>2 DEF FlagsAsBefore, FuncsAsBefore
<1> QED BY <1>4, <1>5, <1>6, <1>7 DEF DeleteFuncInv, gone

-----------------------------------------------------------------------------
(* UPDATE on flags and bookmarks                                           *)

(* The statement's rows are flags at its address.                          *)
LEMMA SelectedFacts ==
    ASSUME Held
    PROVE  /\ Selected \subseteq InTable /\ InTable \subseteq before.flags
           /\ stmt.op = "rename" => \A r \in Selected : r.addr = stmt.addr
           /\ \A r \in Selected : r.addr \in Addrs
<1>1. Selected \subseteq InTable /\ InTable \subseteq before.flags
  BY DEF Selected, InTable
<1>2. stmt.op = "rename" => stmt.addr # NoAddr
  BY QueryFacts, AddrsAssumption DEF Held
<1>3. stmt.op = "rename" => \A r \in Selected : r.addr = stmt.addr
  BY <1>2 DEF Selected, Whole!Selects
<1>4. \A r \in Selected : r.addr \in Addrs
  BY <1>1 DEF Held, FlagSet, Whole!Flags
<1> QED BY <1>1, <1>3, <1>4

(* What fr and f- do.                                                      *)
LEMMA FlagCommandFacts ==
    ASSUME NEW c, Does(c)
    PROVE  /\ c.do \in {"fr", "f-"} => UNCHANGED <<funcs, rows>>
           /\ c.do = "fr" =>
                flags' = IF {f \in flags : f.name = c.old} # {} /\ \A f \in flags : f.name # c.new
                         THEN Rename(CHOOSE f \in {f \in flags : f.name = c.old} : TRUE, c.new) ELSE flags
           /\ c.do = "f-" => \/ \E f \in Listed : f.addr = c.addr /\ flags' = flags \ {f}
                             \/ (\A f \in Listed : f.addr # c.addr) /\ UNCHANGED flags
<1>1. CASE c.do = "fr"
  BY <1>1 DEF Does, Lists, ChangesFlags, ChangesFuncs
<1>2. CASE c.do = "f-"
  BY <1>2 DEF Does, Lists, ChangesFlags, ChangesFuncs
<1> QED BY <1>1, <1>2

(* `fr` gives the row its name unless a flag has it, a flag written before *)
(* among them.                                                             *)
LEMMA RenameOnce ==
    ASSUME Held, NEW r \in Selected, NEW wrote \in BOOLEAN, RenamedFlags(wrote),
           NEW c, Does(c), c.do = "fr", c.old = r.name, c.new = stmt.name,
           UNCHANGED <<stmt, before>>
    PROVE  RenamedFlags(TRUE)'
<1> DEFINE named == {f \in flags : f.name = c.old}
           Free(S) == \A f \in S : f.name # stmt.name
<1>1. flags' = IF named # {} /\ Free(flags) THEN Rename(CHOOSE f \in named : TRUE, stmt.name) ELSE flags
  BY FlagCommandFacts
<1>2. Selected' = Selected
  BY Frozen
<1>3. CASE ~Free(before.flags)
  <2>1. flags = before.flags
    BY <1>3 DEF RenamedFlags, FlagsAsBefore
  <2>2. flags' = before.flags
    BY <1>1, <1>3, <2>1
  <2> QED BY <1>3, <2>2 DEF RenamedFlags, FlagsAsBefore
<1>4. CASE Free(before.flags) /\ wrote
  <2>1. PICK f \in Selected : flags = (before.flags \ {f}) \cup {[f EXCEPT !.name = stmt.name]}
    BY <1>4 DEF RenamedFlags
  <2>2. f \in Whole!Flags
    BY SelectedFacts DEF Held, FlagSet
  <2>3. [f EXCEPT !.name = stmt.name].name = stmt.name
    BY <2>2 DEF Whole!Flags
  <2>4. flags' = flags
    BY <1>1, <2>1, <2>3
  <2> QED BY <1>2, <1>4, <2>1, <2>4 DEF RenamedFlags
<1>5. CASE Free(before.flags) /\ ~wrote
  <2>1. flags = before.flags
    BY <1>5 DEF RenamedFlags, FlagsAsBefore
  <2>2. named = {r}
    BY <2>1, SelectedFacts DEF Held, FlagSet
  <2>3. flags' = Rename(r, stmt.name)
    BY <1>1, <1>5, <2>1, <2>2
  <2>4. flags' = (before.flags \ {r}) \cup {[r EXCEPT !.name = stmt.name]}
    BY <2>1, <2>3 DEF Rename
  <2> QED BY <1>2, <1>5, <2>4 DEF RenamedFlags
<1> QED BY <1>3, <1>4, <1>5

(* A row of flags or bookmarks is renamed.                                 *)
LEMMA RenameFlagSend ==
    ASSUME NEW t \in Threads, Send(t), Held, stmt.op = "rename", stmt.table # "funcs", RenameFlagInv
    PROVE  Held' /\ RenameFlagInv'
<1>0. /\ UNCHANGED <<stmt, before, ok>> /\ Selected' = Selected /\ todo # <<>> /\ todo' = Tail(todo)
      /\ ValidName(stmt.name) <=> stmt.name \in Names
      /\ ValidName(stmt.name)' = ValidName(stmt.name)
      /\ \A x : Ahead(stmt.table, todo', x) => Ahead(stmt'.table, todo', x)
      /\ Behind(stmt.table, todo') => Behind(stmt.table, todo)'
  <2>1. UNCHANGED <<stmt, before, ok>> /\ Selected' = Selected /\ todo # <<>> /\ todo' = Tail(todo)
    BY SendFacts, Frozen
  <2>2. Behind(stmt.table, todo') => Behind(stmt.table, todo)'
    BY <2>1 DEF Behind, Restore, Plain, Cmd
  <2> QED BY <2>1, <2>2, QueryFacts DEF Held, ValidName
<1>1. CASE Unlisted(Plain("fj"))
  <2>1. /\ Held' /\ ok' /\ Untouched'
        /\ \/ Ahead(stmt.table, todo', Plain("fj")) /\ rows' = {}
           \/ Behind(stmt.table, todo') /\ rows' = Selected
    BY <1>1, UnlistedSend
  <2>2. CASE Ahead(stmt.table, todo', Plain("fj")) /\ rows' = {}
    <3>1. Ahead(stmt.table, todo, Plain("fj"))'
      BY <1>0, <2>2 DEF Ahead, SaveSpace, Bookmarks, Restore, Plain, Cmd
    <3> QED BY <2>1, <2>2, <3>1 DEF RenameFlagInv, Unlisted
  <2>3. CASE Behind(stmt.table, todo') /\ rows' = Selected
    <3>1. RenamedFlags(rows # Selected)' /\ RenamedFuncs(rows # Selected)'
      BY <1>0, <2>1, <2>3 DEF RenamedFlags, RenamedFuncs, Untouched
    <3> QED BY <1>0, <2>1, <2>3, <3>1 DEF RenameFlagInv
  <2> QED BY <2>1, <2>2, <2>3
<1>2. CASE /\ ~ValidName(stmt.name) /\ Untouched /\ Behind(stmt.table, todo)
           /\ (ok /\ rows = Selected) \/ (~ok /\ rows = {} /\ Selected # {})
  <2>1. Held' /\ todo' = <<>> /\ UNCHANGED <<flags, funcs, rows>>
    BY <1>2, HeldBehind
  <2>2. Behind(stmt.table, todo)' /\ Untouched'
    BY <1>0, <1>2, <2>1 DEF Behind, Untouched, FlagsAsBefore, FuncsAsBefore
  <2> QED BY <1>0, <1>2, <2>1, <2>2 DEF RenameFlagInv
<1>3. CASE /\ ValidName(stmt.name) /\ ok /\ rows \subseteq Selected
           /\ Behind(stmt.table, todo) /\ RenamedFlags(rows # Selected) /\ RenamedFuncs(rows # Selected)
  <2>1. Held' /\ todo' = <<>> /\ UNCHANGED <<flags, funcs, rows>>
    BY <1>3, HeldBehind
  <2>2. Behind(stmt.table, todo)'
    BY <2>1 DEF Behind
  <2>3. RenamedFlags(rows # Selected)' /\ RenamedFuncs(rows # Selected)'
    BY <1>0, <1>3, <2>1 DEF RenamedFlags, RenamedFuncs, FlagsAsBefore, FuncsAsBefore, Named
  <2> QED BY <1>0, <1>3, <2>1, <2>2, <2>3 DEF RenameFlagInv
<1>4. ASSUME ValidName(stmt.name), ok, rows \subseteq Selected, NEW r \in Selected \ rows,
             RenamedFlags(rows \cup {r} # Selected),
             Ahead(stmt.table, todo, Cmd("fr", r.name, stmt.name, NoAddr)), RenamedFuncs(TRUE)
      PROVE  Held' /\ RenameFlagInv'
  <2> DEFINE fr == Cmd("fr", r.name, stmt.name, NoAddr)
             wrote == rows \cup {r} # Selected
  <2>1. fr.do = "fr" /\ fr.old = r.name /\ fr.new = stmt.name /\ WellFormed(fr)
    BY <1>0, <1>4 DEF WellFormed, RowCommands, Cmd
  <2>2. fr = Cmd("fr", r.name, stmt'.name, NoAddr)
    BY <1>0 DEF Cmd
  <2>3. wrote \in BOOLEAN /\ RenamedFlags(wrote) /\ Ahead(stmt.table, todo, fr)
    BY <1>4
  <2> HIDE DEF fr
  <2>4. /\ Held'
        /\ \/ Ahead(stmt.table, todo', fr) /\ UNCHANGED <<flags, funcs, rows>>
           \/ Behind(stmt.table, todo') /\ space = TableSpace /\ Does(fr)
    BY <2>1, <2>3, HeldAhead
  <2>5. CASE Ahead(stmt.table, todo', fr) /\ UNCHANGED <<flags, funcs, rows>>
    <3>1. RenamedFlags(rows \cup {r} # Selected)' /\ RenamedFuncs(TRUE)'
      BY <1>0, <1>4, <2>5 DEF RenamedFlags, RenamedFuncs, FlagsAsBefore, FuncsAsBefore, Named
    <3>2. Ahead(stmt'.table, todo', Cmd("fr", r.name, stmt'.name, NoAddr))
      BY <1>0, <2>2, <2>5
    <3>3. r \in Selected' \ rows' /\ rows' \subseteq Selected'
      BY <1>0, <1>4, <2>5
    <3> QED BY <1>0, <1>4, <2>4, <3>1, <3>2, <3>3 DEF RenameFlagInv
  <2>6. CASE Behind(stmt.table, todo') /\ space = TableSpace /\ Does(fr)
    <3>1. UNCHANGED <<funcs, rows>>
      BY <2>1, <2>6, FlagCommandFacts
    <3>2. RenamedFlags(TRUE)'
      BY <1>0, <2>1, <2>3, <2>6, RenameOnce
    <3>3. RenamedFuncs(TRUE)'
      BY <1>0, <1>4, <3>1 DEF RenamedFuncs, FuncsAsBefore, Named
    <3>4. (rows # Selected)' /\ rows' \subseteq Selected'
      BY <1>0, <1>4, <3>1
    <3>5. RenamedFlags(rows # Selected)' /\ RenamedFuncs(rows # Selected)'
      BY <3>2, <3>3, <3>4 DEF RenamedFlags, RenamedFuncs
    <3> QED BY <1>0, <1>4, <2>4, <2>6, <3>4, <3>5 DEF RenameFlagInv
  <2> QED BY <2>4, <2>5, <2>6
<1>5. ASSUME ValidName(stmt.name), ok, rows \subseteq Selected, NEW r \in Selected \ rows,
             RenamedFlags(rows \cup {r} # Selected),
             stmt.table = "flags", RenamedFuncs(rows \cup {r} # Selected),
             todo = <<Cmd("afn", BadName, stmt.name, r.addr), Cmd("fr", r.name, stmt.name, NoAddr)>>
      PROVE  Held' /\ RenameFlagInv'
  <2> DEFINE afn == Cmd("afn", BadName, stmt.name, r.addr)
             fr == Cmd("fr", r.name, stmt.name, NoAddr)
  <2>1. /\ afn.do = "afn" /\ afn.addr = stmt.addr /\ afn.new = stmt.name /\ WellFormed(afn)
    BY <1>0, <1>5, SelectedFacts DEF WellFormed, RowCommands, Cmd
  <2>2. fr = Cmd("fr", r.name, stmt'.name, NoAddr)
    BY <1>0 DEF Cmd
  <2>3. todo = <<afn, fr>>
    BY <1>5
  <2> HIDE DEF afn, fr
  <2>4. Head(todo) = afn /\ todo' = <<fr>>
    BY <1>0, <2>3, TupleFacts
  <2>5. Held' /\ Does(afn)
    BY <1>5, <2>1, <2>4, HeldPlain
  <2>6. /\ UNCHANGED <<flags, rows>>
        /\ funcs' = [funcs EXCEPT ![stmt.addr] = IF @ = NoName THEN @ ELSE stmt.name]
    BY <2>1, <2>5, FuncCommandFacts
  <2>7. stmt.addr \in Addrs /\ before.funcs \in [Addrs -> Names \cup {NoName}] /\ NoName \notin Names
    BY <1>5, QueryFacts, NamesAssumption DEF Held
  <2>8. funcs' = Named(stmt.name)
    <3>1. CASE FuncsAsBefore
      BY <2>6, <3>1 DEF FuncsAsBefore, Named
    <3>2. CASE funcs = Named(stmt.name)
      BY <1>0, <1>5, <2>6, <2>7, <3>2 DEF Named
    <3> QED BY <1>5, <3>1, <3>2 DEF RenamedFuncs
  <2>9. RenamedFuncs(TRUE)'
    BY <1>0, <1>5, <2>8 DEF RenamedFuncs, Named
  <2>10. RenamedFlags(rows \cup {r} # Selected)'
    BY <1>0, <1>5, <2>6 DEF RenamedFlags, FlagsAsBefore
  <2>11. Ahead(stmt'.table, todo', Cmd("fr", r.name, stmt'.name, NoAddr))
    BY <1>0, <1>5, <2>2, <2>4 DEF Ahead
  <2>12. r \in Selected' \ rows' /\ rows' \subseteq Selected'
    BY <1>0, <1>5, <2>6
  <2> QED BY <1>0, <1>5, <2>5, <2>9, <2>10, <2>11, <2>12 DEF RenameFlagInv
<1> QED BY <1>1, <1>2, <1>3, <1>4, <1>5 DEF RenameFlagInv

(* The writer of name on the next row.                                     *)
LEMMA RenameFlagWrite ==
    ASSUME NEW t \in Threads, WriteRow(t), Held, stmt.op = "rename", stmt.table # "funcs", RenameFlagInv
    PROVE  Held' /\ RenameFlagInv'
<1>0. /\ todo = <<>> /\ UNCHANGED <<flags, funcs, stmt, before>> /\ Selected' = Selected
      /\ ValidName(stmt.name)' = ValidName(stmt.name)
      /\ Refused(stmt) <=> ~ValidName(stmt.name)
      /\ stmt.table \in {"flags", "bookmarks"}
  BY WriteRowFacts, Frozen, QueryFacts DEF ValidName, Refused, Held
<1>1. PICK r \in rows :
         IF Refused(stmt) THEN rows' = {} /\ ok' = FALSE /\ UNCHANGED todo
         ELSE todo' = Renaming(stmt, r) /\ rows' = rows \ {r} /\ UNCHANGED ok
  BY WriteRowFacts
<1> DEFINE fr == Cmd("fr", r.name, stmt.name, NoAddr)
           afn == Cmd("afn", BadName, stmt.name, r.addr)
<1>2. \/ ~ValidName(stmt.name) /\ Untouched /\ ok /\ rows = Selected
      \/ /\ ValidName(stmt.name) /\ ok /\ rows \subseteq Selected
         /\ RenamedFlags(rows # Selected) /\ RenamedFuncs(rows # Selected)
  <2>1. <<afn, fr>> # <<>>
    BY TupleFacts
  <2>2. \A q \in Selected : <<Cmd("afn", BadName, stmt.name, q.addr), Cmd("fr", q.name, stmt.name, NoAddr)>> # <<>>
    BY TupleFacts
  <2> QED BY <1>0, <1>1, <2>2, NotAhead DEF RenameFlagInv, Unlisted
<1>3. CASE ~ValidName(stmt.name)
  <2>1. rows' = {} /\ ~ok' /\ todo' = <<>> /\ Selected # {}
    BY <1>0, <1>1, <1>2, <1>3
  <2>2. Len(todo') = 0
    BY <2>1, TupleFacts
  <2>3. Held'
    BY <2>2, HeldWrite
  <2>4. Untouched' /\ Behind(stmt.table, todo)'
    BY <1>0, <1>2, <1>3, <2>1 DEF Untouched, FlagsAsBefore, FuncsAsBefore, Behind
  <2> QED BY <1>0, <1>3, <2>1, <2>3, <2>4 DEF RenameFlagInv
<1>4. CASE ValidName(stmt.name)
  <2>1. /\ todo' = Renaming(stmt, r) /\ rows' = rows \ {r} /\ ok' /\ rows' \subseteq Selected'
        /\ r \in Selected' \ rows' /\ rows' \cup {r} = rows
    BY <1>0, <1>1, <1>2, <1>4
  <2>2. (RenamedFlags(rows \cup {r} # Selected))' /\ (RenamedFuncs(rows \cup {r} # Selected))'
    BY <1>0, <1>2, <1>4, <2>1 DEF RenamedFlags, RenamedFuncs, FlagsAsBefore, FuncsAsBefore, Named
  <2>3. fr' = Cmd("fr", r.name, stmt'.name, NoAddr) /\ fr' = fr /\ afn' = afn
    BY <1>0 DEF Cmd
  <2>4. CASE stmt.table = "flags"
    <3>1. todo' = <<afn, fr>>
      BY <2>1, <2>4, RowCommandsOf
    <3>2. Held'
      BY <2>4, HeldWrite
    <3>3. todo' = <<Cmd("afn", BadName, stmt'.name, r.addr), Cmd("fr", r.name, stmt'.name, NoAddr)>>
      BY <1>0, <3>1
    <3> QED BY <1>0, <1>4, <2>1, <2>2, <2>4, <3>2, <3>3 DEF RenameFlagInv
  <2>5. CASE stmt.table = "bookmarks"
    <3>1. todo' = Framed(stmt.table, fr)
      BY <2>1, <2>5, RowCommandsOf
    <3>2. Len(todo') = 4 /\ Ahead(stmt.table, todo', fr)
      BY <2>5, <3>1, FramedFacts
    <3>3. Held'
      BY <3>2, HeldWrite
    <3>4. Ahead(stmt'.table, todo', Cmd("fr", r.name, stmt'.name, NoAddr))
      BY <1>0, <3>2
    <3>5. (RenamedFuncs(TRUE))'
      BY <1>0, <2>2, <2>5 DEF RenamedFuncs
    <3> QED BY <1>0, <1>4, <2>1, <2>2, <3>3, <3>4, <3>5 DEF RenameFlagInv
  <2> QED BY <1>0, <2>4, <2>5
<1> QED BY <1>3, <1>4

-----------------------------------------------------------------------------
(* DELETE on flags and bookmarks                                           *)

(* Counting the flags at an address, one flag fewer.                       *)
LEMMA AtFacts ==
    ASSUME NEW S, IsFiniteSet(S), NEW a
    PROVE  /\ IsFiniteSet(At(S, a)) /\ Cardinality(At(S, a)) \in Nat
           /\ \A f \in S : Cardinality(At(S \ {f}, a)) + (IF f.addr = a THEN 1 ELSE 0) = Cardinality(At(S, a))
<1>1. IsFiniteSet(At(S, a)) /\ Cardinality(At(S, a)) \in Nat
  BY FS_Subset, FS_CardinalityType DEF At
<1>2. ASSUME NEW f \in S
      PROVE  Cardinality(At(S \ {f}, a)) + (IF f.addr = a THEN 1 ELSE 0) = Cardinality(At(S, a))
  <2>1. At(S \ {f}, a) = At(S, a) \ {f}
    BY DEF At
  <2>2. f \in At(S, a) <=> f.addr = a
    BY DEF At
  <2>3. Cardinality(At(S, a) \ {f}) = IF f \in At(S, a) THEN Cardinality(At(S, a)) - 1 ELSE Cardinality(At(S, a))
    BY <1>1, FS_RemoveElement
  <2>4. Cardinality(At(S \ {f}, a)) = IF f.addr = a THEN Cardinality(At(S, a)) - 1 ELSE Cardinality(At(S, a))
    BY <2>1, <2>2, <2>3
  <2> QED BY <1>1, <2>4
<1> QED BY <1>1, <1>2

(* Everything counted is finite.                                           *)
LEMMA DeleteFinite ==
    ASSUME Held
    PROVE  /\ IsFiniteSet(before.flags) /\ IsFiniteSet(Gone) /\ IsFiniteSet(Selected)
           /\ rows \subseteq Selected => IsFiniteSet(rows)
<1>1. IsFiniteSet(before.flags)
  BY DEF Held, FlagSet
<1>2. Gone \subseteq before.flags /\ Selected \subseteq before.flags
  BY SelectedFacts DEF Gone
<1> QED BY <1>1, <1>2, FS_Subset

(* `f- @ addr` deletes a flag: there is one left that the table lists.     *)
LEMMA DeleteFinds ==
    ASSUME Held, NEW a \in Addrs, rows \subseteq Selected, Counted({a}), space = TableSpace,
           \A f \in Listed : f.addr # a
    PROVE  FALSE
<1>1. /\ flags \subseteq before.flags /\ Gone \subseteq InTable
      /\ Cardinality(At(Gone, a)) + Cardinality(At(rows, a)) + 1 = Cardinality(At(Selected, a))
  BY DEF Counted
<1>2. Listed = {f \in flags : Here(f)}
  BY DEF Listed, Here, TableSpace
<1>3. At(Selected, a) \subseteq At(Gone, a)
  BY <1>1, <1>2 DEF At, Selected, InTable, Gone
<1>4. IsFiniteSet(At(Gone, a)) /\ Cardinality(At(Gone, a)) \in Nat
  BY DeleteFinite, AtFacts
<1>5. Cardinality(At(Selected, a)) <= Cardinality(At(Gone, a))
  BY <1>3, <1>4, FS_Subset
<1>6. IsFiniteSet(rows)
  BY DeleteFinite
<1>7. Cardinality(At(rows, a)) \in Nat
  BY <1>6, AtFacts
<1>8. Cardinality(At(Selected, a)) \in Nat
  BY DeleteFinite, AtFacts
<1> QED BY <1>1, <1>4, <1>5, <1>7, <1>8

(* A flag goes for the row whose deleter was called.                       *)
LEMMA CountedSend ==
    ASSUME Held, NEW a \in Addrs, rows \subseteq Selected, Counted({a}), space = TableSpace,
           NEW c, Does(c), c.do = "f-", c.addr = a, UNCHANGED <<stmt, before>>
    PROVE  Counted({})' /\ UNCHANGED <<funcs, rows>>
<1>1. UNCHANGED <<funcs, rows>>
  BY FlagCommandFacts
<1>2. PICK f \in Listed : f.addr = a /\ flags' = flags \ {f}
  <2>1. \/ \E f \in Listed : f.addr = a /\ flags' = flags \ {f}
        \/ \A f \in Listed : f.addr # a
    BY FlagCommandFacts
  <2> QED BY <2>1, DeleteFinds
<1>3. f \in flags /\ Here(f)
  BY <1>2 DEF Listed, Here, TableSpace
<1>4. /\ flags \subseteq before.flags /\ Gone \subseteq InTable
      /\ \A b \in Addrs : Cardinality(At(Gone, b)) + Cardinality(At(rows, b)) + (IF b = a THEN 1 ELSE 0)
                            = Cardinality(At(Selected, b))
  BY DEF Counted
<1>5. Selected' = Selected /\ InTable' = InTable
  BY Frozen
<1>6. /\ Gone' \ {f} = Gone /\ f \in Gone' /\ flags' \subseteq before.flags /\ Gone' \subseteq InTable
  BY <1>2, <1>3, <1>4 DEF Gone, InTable
<1>7. IsFiniteSet(Gone')
  BY <1>6, DeleteFinite, FS_Subset DEF Gone
<1>8. ASSUME NEW b \in Addrs
      PROVE  Cardinality(At(Gone', b)) + Cardinality(At(rows', b)) = Cardinality(At(Selected, b))
  <2>1. Cardinality(At(Gone, b)) + (IF a = b THEN 1 ELSE 0) = Cardinality(At(Gone', b))
    BY <1>2, <1>6, <1>7, AtFacts
  <2>2. /\ Cardinality(At(Gone, b)) \in Nat /\ Cardinality(At(Gone', b)) \in Nat
        /\ Cardinality(At(rows, b)) \in Nat /\ Cardinality(At(Selected, b)) \in Nat
    BY <1>7, DeleteFinite, AtFacts
  <2>3. Cardinality(At(Gone, b)) + Cardinality(At(rows, b)) + (IF b = a THEN 1 ELSE 0)
          = Cardinality(At(Selected, b))
    BY <1>4
  <2> QED BY <1>1, <2>1, <2>2, <2>3
<1>9. Counted({})'
  <2>1. \A b \in Addrs : (Cardinality(At(Gone, b)))' = Cardinality(At(Gone', b))
    BY DEF At
  <2>2. \A b \in Addrs : (Cardinality(At(rows, b)))' = Cardinality(At(rows', b))
    BY DEF At
  <2>3. \A b \in Addrs : (Cardinality(At(Selected, b)))' = Cardinality(At(Selected, b))
    BY <1>5 DEF At
  <2>4. \A b \in Addrs : Cardinality(At(Gone', b)) \in Nat /\ Cardinality(At(rows', b)) \in Nat
    BY <1>1, <1>7, DeleteFinite, AtFacts
  <2> QED BY <1>5, <1>6, <1>8, <2>1, <2>2, <2>3, <2>4 DEF Counted
<1> QED BY <1>1, <1>9

(* A step that leaves flags and rows alone leaves the count.               *)
LEMMA CountedKept ==
    ASSUME NEW pending, Counted(pending), UNCHANGED <<flags, rows, stmt, before>>
    PROVE  Counted(pending)'
<1>1. Gone' = Gone /\ Selected' = Selected /\ InTable' = InTable
  BY Frozen DEF Gone
<1>2. \A a : At(Gone, a)' = At(Gone, a) /\ At(rows, a)' = At(rows, a) /\ At(Selected, a)' = At(Selected, a)
  BY <1>1 DEF At
<1> QED BY <1>1, <1>2 DEF Counted

(* Nothing is gone when the rows have been listed.                         *)
LEMMA CountedListed ==
    ASSUME Held', FlagsAsBefore', (rows = Selected)'
    PROVE  Counted({})'
<1>1. (flags \subseteq before.flags)' /\ (Gone = {})'
  BY DEF FlagsAsBefore, Gone
<1>2. IsFiniteSet(Selected')
  <2>1. Selected' \subseteq before'.flags /\ IsFiniteSet(before'.flags)
    BY DEF Held, FlagSet, Selected, InTable
  <2> QED BY <2>1, FS_Subset
<1>3. \A a \in Addrs : (Cardinality(At(Gone, a)) + Cardinality(At(rows, a)) + 0 = Cardinality(At(Selected, a)))'
  <2> SUFFICES ASSUME NEW a \in Addrs
               PROVE  (Cardinality(At(Gone, a)) + Cardinality(At(rows, a)) + 0 = Cardinality(At(Selected, a)))'
    OBVIOUS
  <2>1. (Cardinality(At(Gone, a)))' = Cardinality(At({}, a)) /\ (Cardinality(At(rows, a)))' = Cardinality(At(Selected', a))
    BY <1>1 DEF At
  <2>2. (Cardinality(At(Selected, a)))' = Cardinality(At(Selected', a)) /\ Cardinality(At(Selected', a)) \in Nat
    BY <1>2, AtFacts DEF At
  <2>3. Cardinality(At({}, a)) = 0
    <3>1. At({}, a) = {}
      BY DEF At
    <3> QED BY <3>1, FS_EmptySet
  <2> QED BY <2>1, <2>2, <2>3
<1> QED BY <1>1, <1>3 DEF Counted

(* The rows of flags or bookmarks are deleted.                             *)
LEMMA DeleteFlagsSend ==
    ASSUME NEW t \in Threads, Send(t), Held, stmt.op = "delete", stmt.table # "funcs", DeleteFlagsInv
    PROVE  Held' /\ DeleteFlagsInv'
<1>0. /\ UNCHANGED <<stmt, before, ok>> /\ Selected' = Selected /\ ok /\ FuncsAsBefore
      /\ Behind(stmt.table, todo') => Behind(stmt.table, todo)'
  <2>1. UNCHANGED <<stmt, before, ok>> /\ Selected' = Selected
    BY SendFacts, Frozen
  <2>2. Behind(stmt.table, todo') => Behind(stmt.table, todo)'
    BY <2>1 DEF Behind, Restore, Plain, Cmd
  <2> QED BY <2>1, <2>2 DEF DeleteFlagsInv
<1>1. CASE Unlisted(Plain("fj"))
  <2>1. /\ Held' /\ ok' /\ Untouched'
        /\ \/ Ahead(stmt.table, todo', Plain("fj")) /\ rows' = {}
           \/ Behind(stmt.table, todo') /\ rows' = Selected
    BY <1>1, UnlistedSend
  <2>2. CASE Ahead(stmt.table, todo', Plain("fj")) /\ rows' = {}
    <3>1. Ahead(stmt.table, todo, Plain("fj"))'
      BY <1>0, <2>2 DEF Ahead, SaveSpace, Bookmarks, Restore, Plain, Cmd
    <3> QED BY <2>1, <2>2, <3>1 DEF DeleteFlagsInv, Unlisted, Untouched
  <2>3. CASE Behind(stmt.table, todo') /\ rows' = Selected
    <3>1. Counted({})'
      BY <1>0, <2>1, <2>3, CountedListed DEF Untouched
    <3> QED BY <1>0, <2>1, <2>3, <3>1 DEF DeleteFlagsInv, Untouched
  <2> QED BY <2>1, <2>2, <2>3
<1>2. CASE rows \subseteq Selected /\ Behind(stmt.table, todo) /\ Counted({})
  <2>1. Held' /\ todo' = <<>> /\ UNCHANGED <<flags, funcs, rows>>
    BY <1>2, HeldBehind
  <2>2. Behind(stmt.table, todo)' /\ FuncsAsBefore'
    BY <1>0, <2>1 DEF Behind, FuncsAsBefore
  <2>3. Counted({})'
    BY <1>0, <1>2, <2>1, CountedKept
  <2> QED BY <1>0, <1>2, <2>1, <2>2, <2>3 DEF DeleteFlagsInv
<1>3. ASSUME rows \subseteq Selected, NEW r \in Selected, Counted({r.addr}),
             Ahead(stmt.table, todo, Cmd("f-", BadName, BadName, r.addr))
      PROVE  Held' /\ DeleteFlagsInv'
  <2> DEFINE c == Cmd("f-", BadName, BadName, r.addr)
  <2>1. c.do = "f-" /\ c.addr = r.addr /\ WellFormed(c) /\ r.addr \in Addrs
    BY SelectedFacts DEF WellFormed, RowCommands, Cmd
  <2> HIDE DEF c
  <2>2. /\ Held'
        /\ \/ Ahead(stmt.table, todo', c) /\ UNCHANGED <<flags, funcs, rows>>
           \/ Behind(stmt.table, todo') /\ space = TableSpace /\ Does(c)
    <3>1. Ahead(stmt.table, todo, c)
      BY <1>3 DEF c
    <3> QED BY <2>1, <3>1, HeldAhead
  <2>3. CASE Ahead(stmt.table, todo', c) /\ UNCHANGED <<flags, funcs, rows>>
    <3>1. Counted({r.addr})'
      BY <1>0, <1>3, <2>3, CountedKept
    <3>2. Ahead(stmt'.table, todo', Cmd("f-", BadName, BadName, r.addr))
      BY <1>0, <2>3 DEF c
    <3>3. FuncsAsBefore' /\ rows' \subseteq Selected'
      BY <1>0, <1>3, <2>3 DEF FuncsAsBefore
    <3> QED BY <1>0, <2>2, <3>1, <3>2, <3>3 DEF DeleteFlagsInv
  <2>4. CASE Behind(stmt.table, todo') /\ space = TableSpace /\ Does(c)
    <3>1. Counted({})' /\ UNCHANGED <<funcs, rows>>
      BY <1>0, <1>3, <2>1, <2>4, CountedSend
    <3>2. FuncsAsBefore' /\ rows' \subseteq Selected'
      BY <1>0, <1>3, <3>1 DEF FuncsAsBefore
    <3> QED BY <1>0, <2>2, <2>4, <3>1, <3>2 DEF DeleteFlagsInv
  <2> QED BY <2>2, <2>3, <2>4
<1> QED BY <1>1, <1>2, <1>3 DEF DeleteFlagsInv

(* The deleter on the next row.                                            *)
LEMMA DeleteFlagsWrite ==
    ASSUME NEW t \in Threads, WriteRow(t), Held, stmt.op = "delete", stmt.table # "funcs", DeleteFlagsInv
    PROVE  Held' /\ DeleteFlagsInv'
<1>0. /\ todo = <<>> /\ UNCHANGED <<flags, funcs, stmt, before>> /\ Selected' = Selected
      /\ ok /\ FuncsAsBefore /\ ~Refused(stmt)
  BY WriteRowFacts, Frozen DEF DeleteFlagsInv, Refused
<1>1. PICK r \in rows : todo' = Deletion(stmt, r) /\ rows' = rows \ {r} /\ UNCHANGED ok
  BY <1>0, WriteRowFacts
<1> DEFINE c == Cmd("f-", BadName, BadName, r.addr)
<1>2. rows \subseteq Selected /\ Counted({})
  BY <1>0, <1>1, NotAhead DEF DeleteFlagsInv, Unlisted
<1> HIDE DEF c
<1>3. todo' = Framed(stmt.table, c)
  BY <1>1, RowCommandsOf DEF c
<1>4. Ahead(stmt.table, todo', c) /\ (stmt.table = "bookmarks" => Len(todo') = 4)
  BY <1>3, FramedFacts
<1>5. Held'
  BY <1>4, HeldWrite
<1>6. Counted({r.addr})'
  <2>1. /\ flags \subseteq before.flags /\ Gone \subseteq InTable
        /\ \A a \in Addrs : Cardinality(At(Gone, a)) + Cardinality(At(rows, a)) + 0 = Cardinality(At(Selected, a))
    BY <1>2 DEF Counted
  <2>2. InTable' = InTable /\ Gone' = Gone
    BY <1>0, Frozen DEF Gone
  <2>3. IsFiniteSet(rows) /\ IsFiniteSet(Gone) /\ IsFiniteSet(rows')
    BY <1>1, <1>2, DeleteFinite, FS_Subset
  <2>4. ASSUME NEW a \in Addrs
        PROVE  Cardinality(At(Gone', a)) + Cardinality(At(rows', a)) + (IF a \in {r.addr} THEN 1 ELSE 0)
                 = Cardinality(At(Selected', a))
    <3>1. Cardinality(At(rows', a)) + (IF r.addr = a THEN 1 ELSE 0) = Cardinality(At(rows, a))
      BY <1>1, <2>3, AtFacts
    <3>2. /\ Cardinality(At(rows', a)) \in Nat /\ Cardinality(At(rows, a)) \in Nat
          /\ Cardinality(At(Gone, a)) \in Nat
      BY <2>3, AtFacts
    <3>3. Cardinality(At(Gone, a)) + Cardinality(At(rows, a)) + 0 = Cardinality(At(Selected, a))
      BY <2>1
    <3>4. Cardinality(At(Gone, a)) + Cardinality(At(rows', a)) + (IF a \in {r.addr} THEN 1 ELSE 0)
            = Cardinality(At(Selected, a))
      BY <3>1, <3>2, <3>3
    <3> QED BY <1>0, <2>2, <3>4
  <2>5. \A a : /\ (Cardinality(At(Gone, a)))' = Cardinality(At(Gone', a))
               /\ (Cardinality(At(rows, a)))' = Cardinality(At(rows', a))
               /\ (Cardinality(At(Selected, a)))' = Cardinality(At(Selected', a))
    BY DEF At
  <2> QED BY <1>0, <2>1, <2>2, <2>4, <2>5 DEF Counted
<1>7. FuncsAsBefore' /\ rows' \subseteq Selected' /\ r \in Selected'
  BY <1>0, <1>1, <1>2 DEF FuncsAsBefore
<1>8. Ahead(stmt'.table, todo', Cmd("f-", BadName, BadName, r.addr))
  BY <1>0, <1>4 DEF c
<1> QED BY <1>0, <1>1, <1>5, <1>6, <1>7, <1>8 DEF DeleteFlagsInv

-----------------------------------------------------------------------------
(* The inductive invariant                                                 *)

(* A statement goes on.                                                    *)
LEMMA StatementStep ==
    ASSUME NEW t \in Threads, Send(t) \/ WriteRow(t), Held, StatementInv
    PROVE  Held' /\ StatementInv'
<1>0. /\ UNCHANGED stmt /\ stmt.op \in {"select", "insert", "rename", "delete"}
      /\ WriteRow(t) => stmt.op \in {"rename", "delete"}
  BY SendFacts, WriteRowFacts, QueryFacts DEF Held
<1>1. CASE stmt.op = "select"
  BY <1>0, <1>1, SelectSend DEF StatementInv
<1>2. CASE stmt.op = "insert" /\ stmt.table = "funcs"
  BY <1>0, <1>2, InsertFuncSend DEF StatementInv
<1>3. CASE stmt.op = "insert" /\ stmt.table # "funcs"
  BY <1>0, <1>3, InsertFlagSend DEF StatementInv
<1>4. CASE stmt.op = "rename" /\ stmt.table = "funcs"
  BY <1>0, <1>4, RenameFuncSend, RenameFuncWrite DEF StatementInv
<1>5. CASE stmt.op = "rename" /\ stmt.table # "funcs"
  BY <1>0, <1>5, RenameFlagSend, RenameFlagWrite DEF StatementInv
<1>6. CASE stmt.op = "delete" /\ stmt.table = "funcs"
  BY <1>0, <1>6, DeleteFuncSend, DeleteFuncWrite DEF StatementInv
<1>7. CASE stmt.op = "delete" /\ stmt.table # "funcs"
  BY <1>0, <1>7, DeleteFlagsSend, DeleteFlagsWrite DEF StatementInv
<1> QED BY <1>0, <1>1, <1>2, <1>3, <1>4, <1>5, <1>6, <1>7

(* The threads and the flag space of the user.                             *)
Frontend ==
    /\ pc \in [Threads -> {"idle", "want", "query"}]
    /\ \A t, u \in Threads : pc[t] = "query" /\ pc[u] = "query" => t = u
    /\ chosen \in Whole!Spaces /\ ok \in BOOLEAN

(* At most one flag space is saved.                                        *)
LEMMA ShortStack ==
    ASSUME NEW s, NEW x, s = <<>> \/ s = <<x>>
    PROVE  Len(s) <= 1
<1>1. Len(<<>>) = 0 /\ Len(<<x>>) = 1
  BY TupleFacts
<1> DEFINE n == Len(s)
<1>2. n = 0 \/ n = 1
  BY <1>1
<1> HIDE DEF n
<1>3. n <= 1
  BY <1>2
<1> QED BY <1>3 DEF n

(* The invariant while a statement holds query_mu_.                        *)
LEMMA InvariantWhileQuerying ==
    Querying => (AnnotationsInvariant <=> Frontend /\ Held /\ StatementInv /\ answer = Whole!Nothing)
<1>1. SpaceInv => saved = <<>> \/ saved = <<before.space>>
  BY DEF SpaceInv
<1>2. SpaceInv => Len(saved) <= 1
  BY <1>1, ShortStack
<1>3. FlagSet(flags) => flags \subseteq Whole!Flags
  BY DEF FlagSet
<1> QED BY <1>2, <1>3 DEF AnnotationsInvariant, LockInv, Held, R2Types, TypeOK, Frontend

(* And while none does.                                                    *)
LEMMA InvariantWhenFree ==
    ~Querying => (AnnotationsInvariant <=> /\ Frontend /\ R2Types
                                           /\ stmt = NoStmt /\ todo = <<>> /\ rows = {} /\ ok /\ saved = <<>>)
<1>1. Len(<<>>) <= 1
  BY TupleFacts
<1>2. FlagSet(flags) => flags \subseteq Whole!Flags
  BY DEF FlagSet
<1> QED BY <1>1, <1>2 DEF AnnotationsInvariant, LockInv, R2Types, TypeOK, Frontend

(* The same, after a step.                                                 *)
LEMMA InvariantAfter ==
    /\ Querying' /\ Frontend' /\ Held' /\ StatementInv' /\ answer' = Whole!Nothing => AnnotationsInvariant'
    /\ /\ ~Querying' /\ Frontend' /\ R2Types'
       /\ stmt' = NoStmt /\ todo' = <<>> /\ rows' = {} /\ ok' /\ saved' = <<>>
       => AnnotationsInvariant'
<1>1. Querying /\ Frontend /\ Held /\ StatementInv /\ answer = Whole!Nothing => AnnotationsInvariant
  BY InvariantWhileQuerying
<1>2. (Querying /\ Frontend /\ Held /\ StatementInv /\ answer = Whole!Nothing => AnnotationsInvariant)'
  BY <1>1, PTL
<1>3. /\ ~Querying /\ Frontend /\ R2Types
      /\ stmt = NoStmt /\ todo = <<>> /\ rows = {} /\ ok /\ saved = <<>>
      => AnnotationsInvariant
  BY InvariantWhenFree
<1>4. (/\ ~Querying /\ Frontend /\ R2Types
       /\ stmt = NoStmt /\ todo = <<>> /\ rows = {} /\ ok /\ saved = <<>>
       => AnnotationsInvariant)'
  BY <1>3, PTL
<1>5. (stmt = NoStmt)' <=> stmt' = NoStmt
  BY DEF NoStmt
<1>6. (answer = Whole!Nothing)' <=> answer' = Whole!Nothing
  BY DEF Whole!Nothing
<1> QED BY <1>2, <1>4, <1>5, <1>6

(* A thread moves on; query_mu_ has one holder.                            *)
LEMMA PcFacts ==
    ASSUME Frontend, NEW t \in Threads, NEW v \in {"idle", "want", "query"},
           pc' = [pc EXCEPT ![t] = v], v = "query" => ~Querying, chosen' \in Whole!Spaces, ok' \in BOOLEAN
    PROVE  /\ Frontend'
           /\ v = "query" => Querying'
           /\ v # "query" /\ (pc[t] = "query" \/ ~Querying) => ~Querying'
           /\ v # "query" /\ pc[t] # "query" => (Querying' <=> Querying)
<1>1. pc'[t] = v /\ \A u \in Threads \ {t} : pc'[u] = pc[u]
  BY DEF Frontend
<1>2. pc' \in [Threads -> {"idle", "want", "query"}]
  BY DEF Frontend
<1>3. \A u, w \in Threads : pc'[u] = "query" /\ pc'[w] = "query" => u = w
  BY <1>1 DEF Frontend, Querying
<1>4. Frontend'
  BY <1>2, <1>3 DEF Frontend
<1> QED BY <1>1, <1>4 DEF Querying, Frontend

(* The invariant holds at first.                                           *)
LEMMA InitInv == Init => AnnotationsInvariant
<1> SUFFICES ASSUME Init PROVE AnnotationsInvariant
  OBVIOUS
<1>1. ~Querying /\ Frontend
  BY DEF Init, Querying, Frontend, Whole!Spaces
<1>2. FlagSet({})
  BY FS_EmptySet DEF FlagSet
<1>3. ASSUME NEW x \in Addrs
      PROVE  FlagSet({[name |-> n, addr |-> a, space |-> "symbols"] : n \in Names, a \in {x}})
  <2> DEFINE S == {[name |-> n, addr |-> a, space |-> "symbols"] : n \in Names, a \in {x}}
             f == [n \in Names |-> [name |-> n, addr |-> x, space |-> "symbols"]]
  <2>1. f \in [Names -> S]
    OBVIOUS
  <2>2. \A s \in S : \E n \in Names : f[n] = s
    OBVIOUS
  <2>3. f \in Surjection(Names, S)
    BY <2>1, <2>2 DEF Surjection
  <2>4. IsFiniteSet(S)
    BY <2>3, FS_Surjection, NamesAssumption
  <2>5. S \subseteq Whole!Flags /\ \A g, h \in S : g.name = h.name => g = h
    BY DEF Whole!Flags, Whole!Spaces
  <2> QED BY <2>4, <2>5 DEF FlagSet
<1>4. FlagSet(flags)
  <2> DEFINE first == CHOOSE x \in Addrs : TRUE
  <2>1. first \in Addrs
    BY AddrsAssumption
  <2>2. flags = {} \/ flags = {[name |-> n, addr |-> a, space |-> "symbols"] : n \in Names, a \in {first}}
    BY DEF Init
  <2> HIDE DEF first
  <2> QED BY <1>2, <1>3, <2>1, <2>2
<1>5. funcs \in [Addrs -> Names \cup {NoName}] /\ space \in Whole!Spaces
  BY DEF Init, Whole!Spaces
<1>6. R2Types
  BY <1>4, <1>5 DEF R2Types, Init
<1> QED BY <1>1, <1>6, InvariantWhenFree DEF Init

(* What the invariant reads.                                               *)
LEMMA KeptInv ==
    ASSUME AnnotationsInvariant, (Querying' <=> Querying), Frontend',
           UNCHANGED <<flags, funcs, space, saved, stmt, todo, rows, ok, before, answer>>
    PROVE  AnnotationsInvariant'
<1>1. CASE Querying
  <2>1. Frontend /\ Held /\ StatementInv /\ answer = Whole!Nothing
    BY <1>1, InvariantWhileQuerying
  <2>2. FlagSet(before.flags)' /\ FlagSet(flags)'
    BY <2>1 DEF Held, R2Types, FlagSet
  <2>3. Held'
    BY <2>1, <2>2 DEF Held, R2Types, SpaceInv
  <2>4. StatementInv'
    BY <2>1 DEF StatementInv, SelectInv, InsertFuncInv, InsertFlagInv,
         RenameFuncInv, RenameFlagInv, DeleteFuncInv, DeleteFlagsInv, Counted, Gone, At, FuncListed, FuncRow,
         RenamedFlags, RenamedFuncs, NoFunc, Named, Found, Unlisted, Ahead, Behind, Untouched, FlagsAsBefore,
         FuncsAsBefore, Selected, InTable, Here, Whole!Selects
  <2> QED BY <1>1, <2>1, <2>3, <2>4, InvariantAfter
<1>2. CASE ~Querying
  <2>1. R2Types /\ stmt = NoStmt /\ todo = <<>> /\ rows = {} /\ ok /\ saved = <<>>
    BY <1>2, InvariantWhenFree
  <2>2. R2Types'
    BY <2>1 DEF R2Types, FlagSet
  <2> QED BY <1>2, <2>1, <2>2, InvariantAfter
<1> QED BY <1>1, <1>2

(* A caller waits for query_mu_.                                           *)
LEMMA CallStep ==
    ASSUME AnnotationsInvariant, NEW t \in Threads, Call(t)
    PROVE  /\ AnnotationsInvariant' /\ (Querying' <=> Querying)
           /\ UNCHANGED <<flags, funcs, space, before, answer>>
<1>1. /\ pc[t] = "idle" /\ pc' = [pc EXCEPT ![t] = "want"]
      /\ UNCHANGED <<flags, funcs, space, saved, chosen, stmt, todo, rows, ok, before, answer>>
  BY DEF Call, r2, work
<1>2. Frontend
  BY InvariantWhileQuerying, InvariantWhenFree
<1>3. Frontend' /\ (Querying' <=> Querying)
  BY <1>1, <1>2, PcFacts DEF Frontend
<1> QED BY <1>1, <1>3, KeptInv

(* raw_cmd.                                                                *)
LEMMA RawStep ==
    ASSUME AnnotationsInvariant, NEW t \in Threads, Raw(t)
    PROVE  AnnotationsInvariant' /\ ~Querying /\ ~Querying'
<1>1. /\ pc[t] = "want" /\ ~Querying /\ pc' = [pc EXCEPT ![t] = "idle"] /\ RawEffect
      /\ UNCHANGED <<funcs, saved, stmt, todo, rows, ok>>
  BY DEF Raw, work
<1>2. /\ Frontend /\ R2Types
      /\ stmt = NoStmt /\ todo = <<>> /\ rows = {} /\ ok /\ saved = <<>>
  BY <1>1, InvariantWhenFree
<1>3. FlagSet(flags') /\ space' \in Whole!Spaces /\ chosen' \in Whole!Spaces
  <2>1. ASSUME NEW s \in Whole!Spaces, space' = s, chosen' = s, UNCHANGED flags
        PROVE  FlagSet(flags') /\ space' \in Whole!Spaces /\ chosen' \in Whole!Spaces
    BY <1>2, <2>1 DEF R2Types
  <2>2. ASSUME NEW n \in Names, NEW a \in Addrs, flags' = SetFlag(n, a), UNCHANGED <<space, chosen>>
        PROVE  FlagSet(flags') /\ space' \in Whole!Spaces /\ chosen' \in Whole!Spaces
    BY <1>2, <2>2, SetFlagFacts DEF R2Types, Frontend
  <2> QED BY <1>1, <2>1, <2>2 DEF RawEffect
<1>4. Frontend' /\ ~Querying'
  BY <1>1, <1>2, <1>3, PcFacts DEF Frontend
<1>5. FlagSet(flags)'
  BY <1>3 DEF FlagSet
<1>6. R2Types'
  BY <1>1, <1>2, <1>3, <1>5 DEF R2Types
<1> QED BY <1>1, <1>2, <1>4, <1>6, InvariantAfter

(* A statement begins with its listing, or with the row it inserts.        *)
LEMMA BeginStep ==
    ASSUME AnnotationsInvariant, NEW t \in Threads, Begin(t)
    PROVE  AnnotationsInvariant' /\ ~Querying /\ Querying'
<1>1. /\ pc[t] = "want" /\ ~Querying /\ pc' = [pc EXCEPT ![t] = "query"]
      /\ before' = [flags |-> flags, funcs |-> funcs, space |-> space]
      /\ answer' = Whole!Nothing
      /\ UNCHANGED <<flags, funcs, space, saved, chosen, rows>>
  BY DEF Begin, r2
<1>2. PICK q \in Whole!Queries :
         /\ stmt' = q
         /\ todo' = IF q.op = "insert" THEN Insertion(q) ELSE Listing(q)
         /\ ok' = ~(q.op = "insert" /\ Refused(q))
  BY DEF Begin
<1>3. /\ Frontend /\ R2Types
      /\ todo = <<>> /\ rows = {} /\ saved = <<>>
  BY <1>1, InvariantWhenFree
<1>4. Frontend' /\ Querying'
  BY <1>1, <1>2, <1>3, PcFacts DEF Frontend
<1>5. /\ q.op \in {"select", "insert", "rename", "delete"} /\ q.table \in {"flags", "bookmarks", "funcs"}
      /\ q.op = "select" => q.table # "funcs"
  BY QueryFacts
<1>6. /\ before'.flags = flags' /\ before'.funcs = funcs' /\ before'.space = space' /\ Untouched'
  BY <1>1 DEF Untouched, FlagsAsBefore, FuncsAsBefore
<1>7. FlagSet(flags)' /\ FlagSet(before.flags)' /\ FlagSet(flags)
  BY <1>1, <1>3, <1>6 DEF R2Types, FlagSet
<1>8. R2Types'
  BY <1>1, <1>3, <1>7 DEF R2Types
<1>9. q.table = "bookmarks" => Len(todo') \in {0, 4}
  <2>1. ASSUME q.table = "bookmarks"
        PROVE  todo' = <<>> \/ \E c : todo' = Framed("bookmarks", c)
    <3>1. /\ Listing(q) = Framed("bookmarks", Plain("fj"))
          /\ Insertion(q) = IF ValidName(q.name) THEN Framed("bookmarks", Cmd("f", BadName, q.name, q.addr)) ELSE <<>>
      BY <2>1, BeginCommands
    <3> QED BY <1>2, <3>1
  <2>2. \A c : Len(Framed("bookmarks", c)) = 4
    BY FramedFacts
  <2> QED BY <2>1, <2>2, TupleFacts
<1>10. SpaceInv'
  <2>1. saved' = <<>> /\ space' = before'.space /\ (stmt'.table = "bookmarks" => Len(todo') \in {0, 4})
    BY <1>1, <1>2, <1>3, <1>6, <1>9
  <2> QED BY <2>1 DEF SpaceInv
<1>11. Held'
  BY <1>1, <1>2, <1>3, <1>6, <1>7, <1>8, <1>10 DEF Held, R2Types
<1>12. CASE q.op # "insert"
  <2>1. todo' = Listing(q) /\ ok'
    BY <1>2, <1>12
  <2>2. ASSUME q.table = "funcs"
        PROVE  StatementInv'
    <3>1. todo' = <<Plain("aflj")>>
      BY <2>1, <2>2, BeginCommands
    <3>2. Ahead(stmt.table, todo, Plain("aflj"))'
      BY <1>2, <2>2, <3>1 DEF Ahead, Plain, Cmd
    <3>3. RenameFuncInv' /\ DeleteFuncInv'
      BY <1>1, <1>3, <1>6, <2>1, <3>2 DEF RenameFuncInv, DeleteFuncInv, Unlisted, Untouched
    <3> QED BY <1>2, <1>5, <1>12, <2>2, <3>3 DEF StatementInv
  <2>3. ASSUME q.table # "funcs"
        PROVE  StatementInv'
    <3>1. Ahead(q.table, todo', Plain("fj"))
      BY <2>1, <2>3, BeginCommands, FramedFacts
    <3>2. Ahead(stmt.table, todo, Plain("fj"))'
      BY <1>2, <3>1 DEF Ahead, SaveSpace, Bookmarks, Restore, Plain, Cmd
    <3>3. SelectInv' /\ RenameFlagInv' /\ DeleteFlagsInv'
      BY <1>1, <1>3, <1>6, <2>1, <3>2 DEF SelectInv, RenameFlagInv, DeleteFlagsInv, Unlisted, Untouched
    <3> QED BY <1>2, <1>5, <1>12, <2>3, <3>3 DEF StatementInv
  <2>4. StatementInv'
    BY <2>2, <2>3
  <2> QED BY <1>1, <1>4, <1>11, <2>4, InvariantAfter
<1>13. CASE q.op = "insert"
  <2>1. todo' = Insertion(q) /\ ok' = ~Refused(q) /\ rows' = {}
    BY <1>1, <1>2, <1>3, <1>13
  <2>2. ASSUME q.table = "funcs"
        PROVE  StatementInv'
    <3>1. todo' = Insertion(stmt)' /\ ok'
      BY <1>2, <2>1, <2>2, <1>13 DEF Insertion, Refused, Scoped, InBookmarks, ValidName, Plain, Cmd
    <3>2. InsertFuncInv'
      BY <1>6, <2>1, <3>1 DEF InsertFuncInv, Untouched
    <3> QED BY <1>2, <1>13, <2>2, <3>2 DEF StatementInv
  <2>3. ASSUME q.table # "funcs"
        PROVE  StatementInv'
    <3> DEFINE c == Cmd("f", BadName, q.name, q.addr)
    <3>1. /\ ok' <=> ValidName(q.name)
          /\ ValidName(stmt.name)' <=> ValidName(q.name)
      BY <1>2, <2>1, <2>3, <1>13 DEF Refused, ValidName
    <3>2. /\ ValidName(q.name) => Ahead(q.table, todo', c)
          /\ ~ValidName(q.name) => todo' = <<>>
      BY <2>1, <2>3, BeginCommands, FramedFacts
    <3>3. c = Cmd("f", BadName, stmt.name, stmt.addr)'
      BY <1>2 DEF Cmd
    <3> HIDE DEF c
    <3>4. ValidName(q.name) => Ahead(stmt'.table, todo', c)
      BY <1>2, <3>2
    <3>5. InsertFlagInv'
      <4>1. rows' = {} /\ FuncsAsBefore' /\ FlagsAsBefore' /\ (ok <=> ValidName(stmt.name))'
        BY <1>6, <2>1, <3>1 DEF Untouched
      <4>2. CASE ValidName(q.name)
        <5>1. Ahead(stmt.table, todo, Cmd("f", BadName, stmt.name, stmt.addr))'
          BY <3>3, <3>4, <4>2 DEF Ahead, SaveSpace, Bookmarks, Restore, Plain, Cmd
        <5> QED BY <3>1, <4>1, <4>2, <5>1 DEF InsertFlagInv
      <4>3. CASE ~ValidName(q.name)
        BY <3>1, <3>2, <4>1, <4>3 DEF InsertFlagInv
      <4> QED BY <4>2, <4>3
    <3> QED BY <1>2, <1>13, <2>3, <3>5 DEF StatementInv
  <2>4. StatementInv'
    BY <2>2, <2>3
  <2> QED BY <1>1, <1>4, <1>11, <2>4, InvariantAfter
<1> QED BY <1>1, <1>4, <1>12, <1>13

(* A command, or a row, of the statement.                                  *)
LEMMA ProceedStep ==
    ASSUME AnnotationsInvariant, NEW t \in Threads, Send(t) \/ WriteRow(t)
    PROVE  /\ AnnotationsInvariant' /\ Querying /\ Querying'
           /\ UNCHANGED <<before, answer>>
<1>1. pc[t] = "query" /\ UNCHANGED <<chosen, pc, stmt, before, answer>> /\ ok' \in {ok, FALSE}
  BY DEF Send, WriteRow
<1>2. Querying /\ Querying'
  BY <1>1 DEF Querying
<1>3. Frontend /\ Held /\ StatementInv /\ answer = Whole!Nothing
  BY <1>2, InvariantWhileQuerying
<1>4. Held' /\ StatementInv'
  BY <1>3, StatementStep
<1>5. Frontend'
  BY <1>1, <1>3 DEF Frontend
<1> QED BY <1>1, <1>2, <1>3, <1>4, <1>5, InvariantAfter

(* The statement ends with the flag space as it was.                       *)
LEMMA EndStep ==
    ASSUME AnnotationsInvariant, NEW t \in Threads, End(t)
    PROVE  /\ AnnotationsInvariant' /\ Querying /\ ~Querying'
           /\ Held /\ StatementInv /\ todo = <<>> /\ space = before.space
<1>1. /\ pc[t] = "query" /\ pc' = [pc EXCEPT ![t] = "idle"] /\ todo = <<>>
      /\ stmt' = NoStmt /\ rows' = {} /\ ok' = TRUE
      /\ UNCHANGED <<flags, funcs, space, saved, chosen, todo>>
  BY DEF End, Finish, Done, r2
<1>2. Querying
  BY <1>1 DEF Querying
<1>3. Frontend /\ Held /\ StatementInv
  BY <1>2, InvariantWhileQuerying
<1>4. Frontend' /\ ~Querying'
  BY <1>1, <1>3, PcFacts DEF Frontend
<1>5. saved = <<>> /\ space = before.space
  BY <1>1, <1>3, TupleFacts DEF Held, SpaceInv
<1>6. R2Types'
  BY <1>1, <1>3 DEF Held, R2Types, FlagSet
<1> QED BY <1>1, <1>2, <1>3, <1>4, <1>5, <1>6, InvariantAfter

(* The inductive step.                                                     *)
LEMMA NextInv == AnnotationsInvariant /\ [Next]_vars => AnnotationsInvariant'
<1> SUFFICES ASSUME AnnotationsInvariant, [Next]_vars
             PROVE  AnnotationsInvariant'
  OBVIOUS
<1>1. ASSUME NEW t \in Threads, Call(t) \/ Enter(t) \/ Proceed(t)
      PROVE  AnnotationsInvariant'
  BY <1>1, CallStep, BeginStep, RawStep, ProceedStep, EndStep DEF Enter, Proceed
<1>2. CASE UNCHANGED vars
  <2>1. /\ UNCHANGED <<flags, funcs, space, saved, chosen, pc, stmt, todo, rows, ok, before, answer>>
        /\ (Querying' <=> Querying)
    BY <1>2 DEF vars, r2, work, Querying
  <2>2. Frontend
    BY InvariantWhileQuerying, InvariantWhenFree
  <2>3. Frontend'
    BY <2>1, <2>2 DEF Frontend
  <2> QED BY <2>1, <2>3, KeptInv
<1> QED BY <1>1, <1>2 DEF Next

(* Every statement that holds query_mu_ is as far as the commands sent and *)
(* the rows written say, and the flag space is the one it found whenever   *)
(* no frame of bookmarks is open.                                          *)
THEOREM Invariance == Spec => []AnnotationsInvariant
<1>1. Init => AnnotationsInvariant
  BY InitInv
<1>2. AnnotationsInvariant /\ [Next]_vars => AnnotationsInvariant'
  BY NextInv
<1> QED BY <1>1, <1>2, PTL DEF Spec

(* No name that valid_flag_name refuses reaches radare2, one thread holds  *)
(* query_mu_, and a statement restores only a space it saved.              *)
THEOREM TypeCorrect == Spec => []TypeOK
<1>1. AnnotationsInvariant => TypeOK
  BY DEF AnnotationsInvariant
<1> QED BY <1>1, Invariance, PTL

-----------------------------------------------------------------------------
(* The refinement of Statements                                            *)

(* While a thread holds query_mu_, everybody else sees the state it found. *)
WholeFlags == IF Querying THEN before.flags ELSE flags
WholeFuncs == IF Querying THEN before.funcs ELSE funcs
WholeSpace == IF Querying THEN before.space ELSE space

(* The state that Statements sees.                                         *)
LEMMA WholeVars == Whole!vars = <<WholeFlags, WholeFuncs, WholeSpace, answer>>
BY DEF Whole!vars, WholeFlags, WholeFuncs, WholeSpace

(* A step that shows nothing.                                              *)
LEMMA WholeStutter ==
    ASSUME UNCHANGED <<WholeFlags, WholeFuncs, WholeSpace, answer>>
    PROVE  [Whole!Next]_(Whole!vars)
<1>1. UNCHANGED Whole!vars
  BY WholeVars DEF WholeFlags, WholeFuncs, WholeSpace, Whole!vars
<1> QED BY <1>1

(* The rows of Statements are those the listing selects.                   *)
LEMMA WholeRows ==
    ASSUME Querying
    PROVE  Whole!FlagRows(stmt) = Selected
BY DEF Whole!FlagRows, Whole!InTable, Selected, InTable, Here

(* The initial states of Statements.                                       *)
LEMMA WholeInit == Init => Whole!Init
<1> SUFFICES ASSUME Init PROVE Whole!Init
  OBVIOUS
<1>1. AnnotationsInvariant /\ ~Querying
  BY InitInv DEF Init, Querying
<1>2. flags \subseteq Whole!Flags /\ funcs \in [Addrs -> Names \cup {NoName}] /\ space \in Whole!Spaces
  BY <1>1 DEF AnnotationsInvariant, TypeOK
<1>3. answer = Whole!Nothing
  BY DEF Init
<1> QED BY <1>1, <1>2, <1>3 DEF Whole!Init

(* What a statement answers when it has nothing left to do.                *)
Ended ==
    /\ Querying /\ ~Querying' /\ Held /\ todo = <<>> /\ ok \in BOOLEAN
    /\ stmt.op = "select" \/ rows = {}
    /\ answer' = [ok |-> ok, rows |-> rows]
    /\ UNCHANGED <<flags, funcs>> /\ space' = before.space

(* SELECT keeps its promise.                                               *)
LEMMA EndedSelect ==
    ASSUME Ended, stmt.op = "select", SelectInv
    PROVE  Whole!Select(stmt)
<1>1. ok = TRUE /\ Untouched /\ rows = Selected
  BY NotAhead DEF Ended, SelectInv
<1>2. Whole!FlagRows(stmt) = Selected
  BY WholeRows DEF Ended
<1>3. answer' = [ok |-> TRUE, rows |-> Whole!FlagRows(stmt)]
  BY <1>1, <1>2 DEF Ended
<1> QED BY <1>1, <1>3 DEF Whole!Select, Whole!Told, Ended, Untouched, FlagsAsBefore, FuncsAsBefore

(* INSERT on flags and bookmarks.                                          *)
LEMMA EndedInsertFlag ==
    ASSUME Ended, stmt.op = "insert", stmt.table # "funcs", InsertFlagInv
    PROVE  Whole!InsertFlag(stmt)
<1>1. /\ ValidName(stmt.name) <=> stmt.name \in Names
  BY QueryFacts DEF Ended, Held
<1>2. /\ rows = {} /\ FuncsAsBefore /\ ok = (stmt.name \in Names)
      /\ stmt.name \notin Names => FlagsAsBefore
      /\ stmt.name \in Names =>
            flags = {f \in before.flags : f.name # stmt.name}
                      \cup {[name |-> stmt.name, addr |-> stmt.addr,
                             space |-> IF stmt.table = "bookmarks" THEN "bookmarks" ELSE before.space]}
  <2>1. ok <=> stmt.name \in Names
    BY <1>1 DEF InsertFlagInv
  <2>2. ok = (stmt.name \in Names)
    BY <2>1 DEF Ended
  <2> QED BY <1>1, <2>2, NotAhead DEF InsertFlagInv, Ended
<1>3. answer' = [ok |-> stmt.name \in Names, rows |-> {}]
  BY <1>2 DEF Ended
<1> QED BY <1>2, <1>3 DEF Whole!InsertFlag, Whole!Told, Whole!SetFlag, Ended, FlagsAsBefore, FuncsAsBefore

(* INSERT on funcs.                                                        *)
LEMMA EndedInsertFunc ==
    ASSUME Ended, stmt.op = "insert", stmt.table = "funcs", InsertFuncInv
    PROVE  Whole!InsertFunc(stmt)
<1> DEFINE named == [before.funcs EXCEPT ![stmt.addr] = stmt.name]
<1>1. /\ ValidName(stmt.name) <=> stmt.name \in Names
      /\ stmt.addr \in Addrs /\ before.funcs \in [Addrs -> Names \cup {NoName}]
  BY QueryFacts DEF Ended, Held
<1>2. rows = {} /\ ok = TRUE /\ FlagsAsBefore
  BY DEF InsertFuncInv, Ended
<1>3. answer' = [ok |-> TRUE, rows |-> {}]
  BY <1>2 DEF Ended
<1>4. \/ NoFunc /\ FuncsAsBefore
      \/ stmt.name \in Names /\ funcs = Found(stmt.name)
      \/ stmt.name \notin Names /\ FuncsAsBefore
      \/ stmt.name \notin Names /\ NoFunc /\ \E n \in Names : funcs = Found(n)
  <2>1. Insertion(stmt) # <<>>
    BY BeginCommands, TupleFacts DEF Ended
  <2>2. <<Cmd("afn", BadName, stmt.name, stmt.addr)>> # <<>>
    BY TupleFacts
  <2> QED BY <1>1, <2>1, <2>2 DEF InsertFuncInv, Ended
<1>5. \/ \E n \in IF stmt.name \in Names THEN {stmt.name} ELSE Names :
            funcs = [before.funcs EXCEPT ![stmt.addr] = IF stmt.name \in Names \/ @ = NoName THEN n ELSE @]
      \/ NoFunc /\ FuncsAsBefore
  <2>1. CASE NoFunc /\ FuncsAsBefore
    BY <2>1
  <2>2. CASE stmt.name \in Names /\ funcs = Found(stmt.name)
    BY <2>2 DEF Found
  <2>3. CASE stmt.name \notin Names /\ FuncsAsBefore /\ ~NoFunc
    <3>1. before.funcs[stmt.addr] \in Names
      BY <1>1, <2>3 DEF NoFunc
    <3>2. funcs = [before.funcs EXCEPT ![stmt.addr]
                     = IF stmt.name \in Names \/ @ = NoName THEN before.funcs[stmt.addr] ELSE @]
      BY <1>1, <2>3 DEF NoFunc, FuncsAsBefore
    <3> QED BY <2>3, <3>1, <3>2
  <2>4. ASSUME stmt.name \notin Names, NoFunc, NEW n \in Names, funcs = Found(n)
        PROVE  \E m \in Names :
                  funcs = [before.funcs EXCEPT ![stmt.addr] = IF stmt.name \in Names \/ @ = NoName THEN m ELSE @]
    BY <2>4 DEF Found, NoFunc
  <2> QED BY <1>4, <2>1, <2>2, <2>3, <2>4
<1> QED BY <1>2, <1>3, <1>5 DEF Whole!InsertFunc, Whole!Told, Ended, FlagsAsBefore, FuncsAsBefore, NoFunc

(* UPDATE on flags and bookmarks: one row gets the name.                   *)
LEMMA EndedRenameFlag ==
    ASSUME Ended, stmt.op = "rename", stmt.table # "funcs", RenameFlagInv
    PROVE  Whole!RenameFlag(stmt)
<1>1. /\ ValidName(stmt.name) <=> stmt.name \in Names
      /\ stmt.addr \in Addrs /\ before.funcs \in [Addrs -> Names \cup {NoName}]
      /\ rows = {} /\ Whole!FlagRows(stmt) = Selected
  BY QueryFacts, WholeRows DEF Ended, Held
<1>2. \/ stmt.name \notin Names /\ Untouched /\ ok = (Selected = {})
      \/ /\ stmt.name \in Names /\ ok = TRUE
         /\ RenamedFlags(Selected # {}) /\ RenamedFuncs(Selected # {})
  <2>1. \A q : <<Cmd("afn", BadName, stmt.name, q.addr), Cmd("fr", q.name, stmt.name, NoAddr)>> # <<>>
    BY TupleFacts
  <2>2. \/ ~ValidName(stmt.name) /\ Untouched /\ ((ok /\ rows = Selected) \/ (~ok /\ Selected # {}))
        \/ ValidName(stmt.name) /\ ok /\ RenamedFlags(rows # Selected) /\ RenamedFuncs(rows # Selected)
    BY <2>1, NotAhead DEF RenameFlagInv, Unlisted, Ended
  <2> QED BY <1>1, <2>2 DEF Ended
<1>3. answer' = [ok |-> stmt.name \in Names \/ Selected = {}, rows |-> {}]
  BY <1>1, <1>2 DEF Ended
<1>4. IF stmt.name \in Names /\ (\A f \in before.flags : f.name # stmt.name) /\ Selected # {}
      THEN \E f \in Selected : flags = (before.flags \ {f}) \cup {[f EXCEPT !.name = stmt.name]}
      ELSE flags = before.flags
  BY <1>2 DEF RenamedFlags, Untouched, FlagsAsBefore
<1>5. funcs = IF stmt.table = "flags" /\ stmt.name \in Names /\ Selected # {} /\ before.funcs[stmt.addr] # NoName
              THEN [before.funcs EXCEPT ![stmt.addr] = stmt.name] ELSE before.funcs
  BY <1>1, <1>2 DEF RenamedFuncs, Untouched, FuncsAsBefore, Named
<1> QED BY <1>1, <1>3, <1>4, <1>5 DEF Whole!RenameFlag, Whole!Told, Whole!NameIsFree, Ended

(* UPDATE on funcs.                                                        *)
LEMMA EndedRenameFunc ==
    ASSUME Ended, stmt.op = "rename", stmt.table = "funcs", RenameFuncInv
    PROVE  Whole!RenameFunc(stmt)
<1>1. /\ ValidName(stmt.name) <=> stmt.name \in Names
      /\ stmt.addr \in Addrs /\ rows = {} /\ FlagsAsBefore
  BY QueryFacts DEF Ended, Held, RenameFuncInv
<1>2. Whole!FuncRows(stmt) = {} <=> NoFunc
  BY <1>1 DEF Whole!FuncRows, NoFunc, Ended
<1>3. \/ NoFunc /\ FuncsAsBefore /\ ok
      \/ ~NoFunc /\ stmt.name \notin Names /\ FuncsAsBefore /\ ~ok
      \/ ~NoFunc /\ stmt.name \in Names /\ funcs = Found(stmt.name) /\ ok
  <2>1. <<Cmd("afn", BadName, stmt.name, stmt.addr)>> # <<>>
    BY TupleFacts
  <2> QED BY <1>1, <2>1, NotAhead DEF RenameFuncInv, Unlisted, FuncListed, Ended
<1>4. answer' = [ok |-> stmt.name \in Names \/ Whole!FuncRows(stmt) = {}, rows |-> {}]
  BY <1>1, <1>2, <1>3 DEF Ended
<1> QED BY <1>1, <1>2, <1>3, <1>4 DEF Whole!RenameFunc, Whole!Told, Ended, FlagsAsBefore, FuncsAsBefore, Found

(* DELETE on funcs.                                                        *)
LEMMA EndedDeleteFunc ==
    ASSUME Ended, stmt.op = "delete", stmt.table = "funcs", DeleteFuncInv
    PROVE  Whole!DeleteFunc(stmt)
<1>1. /\ stmt.addr \in Addrs /\ rows = {} /\ FlagsAsBefore /\ ok = TRUE
      /\ before.funcs \in [Addrs -> Names \cup {NoName}]
  BY QueryFacts DEF Ended, Held, DeleteFuncInv
<1>2. (NoFunc /\ FuncsAsBefore) \/ funcs = Found(NoName)
  <2>1. <<Cmd("af-", BadName, BadName, stmt.addr)>> # <<>>
    BY TupleFacts
  <2> QED BY <1>1, <2>1, NotAhead DEF DeleteFuncInv, Unlisted, FuncListed, Ended
<1>3. funcs = [before.funcs EXCEPT ![stmt.addr] = NoName]
  BY <1>1, <1>2 DEF NoFunc, FuncsAsBefore, Found
<1>4. answer' = [ok |-> TRUE, rows |-> {}]
  BY <1>1 DEF Ended
<1> QED BY <1>1, <1>3, <1>4 DEF Whole!DeleteFunc, Whole!Told, Ended, FlagsAsBefore

(* Statements counts as FiniteSets does.                                   *)
LEMMA WholeCardinality == \A S : Whole!Cardinality(S) = Cardinality(S)
BY Zenon DEF Whole!Cardinality, Cardinality

(* DELETE on flags and bookmarks, address by address.                      *)
LEMMA EndedDeleteFlags ==
    ASSUME Ended, stmt.op = "delete", stmt.table # "funcs", DeleteFlagsInv
    PROVE  Whole!DeleteFlags(stmt)
<1>1. rows = {} /\ ok = TRUE /\ FuncsAsBefore /\ Counted({}) /\ Whole!FlagRows(stmt) = Selected
  BY WholeRows, NotAhead DEF Ended, DeleteFlagsInv, Unlisted
<1>2. answer' = [ok |-> TRUE, rows |-> {}]
  BY <1>1 DEF Ended
<1>3. Gone \in SUBSET {f \in before.flags : Whole!InTable(stmt, f)} /\ flags = before.flags \ Gone
  BY <1>1 DEF Counted, InTable, Here, Whole!InTable, Gone, Ended
<1>4. ASSUME NEW a \in Addrs
      PROVE  Cardinality({f \in Gone : f.addr = a}) = Cardinality({f \in Selected : f.addr = a})
  <2>1. Cardinality(At(Gone, a)) + Cardinality(At(rows, a)) + 0 = Cardinality(At(Selected, a))
    BY <1>1 DEF Counted
  <2>2. At(rows, a) = {}
    BY <1>1 DEF At
  <2>3. Cardinality(At(rows, a)) = 0
    BY <2>2, FS_EmptySet
  <2>4. Cardinality(At(Gone, a)) \in Nat
    BY DeleteFinite, AtFacts DEF Ended
  <2>5. Cardinality(At(Gone, a)) = Cardinality(At(Selected, a))
    BY <2>1, <2>3, <2>4
  <2> QED BY <2>5 DEF At
<1>5. \E gone \in SUBSET {f \in before.flags : Whole!InTable(stmt, f)} :
         /\ \A a \in Addrs : Cardinality({f \in gone : f.addr = a}) = Cardinality({f \in Selected : f.addr = a})
         /\ flags = before.flags \ gone
  <2> HIDE DEF Gone
  <2> QED BY <1>3, <1>4
<1> DEFINE then == IF Querying THEN before.flags ELSE flags
           now == IF Querying' THEN before'.flags ELSE flags'
<1>6. then = before.flags /\ now = flags
  BY DEF Ended
<1> HIDE DEF then, now
<1>7. \E gone \in SUBSET {f \in then : Whole!InTable(stmt, f)} :
         /\ \A a \in Addrs : Whole!Cardinality({f \in gone : f.addr = a})
                              = Whole!Cardinality({f \in Whole!FlagRows(stmt) : f.addr = a})
         /\ now = then \ gone
  BY <1>1, <1>5, <1>6, WholeCardinality
<1>8. /\ (IF Querying' THEN before'.funcs ELSE funcs') = IF Querying THEN before.funcs ELSE funcs
      /\ (IF Querying' THEN before'.space ELSE space') = IF Querying THEN before.space ELSE space
  BY <1>1 DEF Ended, FuncsAsBefore
<1> QED BY <1>2, <1>7, <1>8 DEF Whole!DeleteFlags, Whole!Told, then, now

(* Every statement ends with the effect and the answer of Statements.      *)
LEMMA WholeEnd ==
    ASSUME AnnotationsInvariant, NEW t \in Threads, End(t)
    PROVE  Whole!Next
<1>1. /\ Querying /\ ~Querying' /\ Held /\ StatementInv /\ todo = <<>> /\ space = before.space
  BY EndStep
<1>2. /\ stmt.op = "select" \/ rows = {}
      /\ answer' = [ok |-> ok, rows |-> rows] /\ UNCHANGED <<flags, funcs, space>>
  BY DEF End, Done, Finish, r2
<1>3. ok \in BOOLEAN
  BY DEF AnnotationsInvariant, TypeOK
<1>4. Ended
  BY <1>1, <1>2, <1>3 DEF Ended
<1>5. /\ stmt \in Whole!Queries /\ stmt.op \in {"select", "insert", "rename", "delete"}
  BY <1>1, QueryFacts DEF Held
<1>6. Whole!Perform(stmt)
  <2>1. CASE stmt.op = "select"
    BY <1>1, <1>4, <2>1, EndedSelect DEF StatementInv, Whole!Perform
  <2>2. CASE stmt.op = "insert"
    BY <1>1, <1>4, <2>2, EndedInsertFlag, EndedInsertFunc DEF StatementInv, Whole!Perform
  <2>3. CASE stmt.op = "rename"
    BY <1>1, <1>4, <2>3, EndedRenameFlag, EndedRenameFunc DEF StatementInv, Whole!Perform
  <2>4. CASE stmt.op = "delete"
    BY <1>1, <1>4, <2>4, EndedDeleteFlags, EndedDeleteFunc DEF StatementInv, Whole!Perform
  <2> QED BY <1>5, <2>1, <2>2, <2>3, <2>4
<1> QED BY <1>5, <1>6 DEF Whole!Next

(* A raw command is one step of its own.                                   *)
LEMMA WholeRaw ==
    ASSUME AnnotationsInvariant, NEW t \in Threads, Raw(t)
    PROVE  Whole!Next
<1>1. ~Querying /\ ~Querying' /\ AnnotationsInvariant'
  BY RawStep
<1>2. RawEffect /\ answer' = Whole!Nothing /\ UNCHANGED funcs
  BY DEF Raw
<1>3. CASE \E s \in Whole!Spaces : space' = s /\ chosen' = s /\ UNCHANGED flags
  <2>1. space' \in Whole!Spaces /\ UNCHANGED flags
    BY <1>3
  <2> QED BY <1>1, <1>2, <2>1 DEF Whole!Next, Whole!Raw
<1>4. CASE (\E n \in Names, a \in Addrs : flags' = SetFlag(n, a)) /\ UNCHANGED <<space, chosen>>
  <2>1. PICK n \in Names, a \in Addrs : flags' = SetFlag(n, a)
    BY <1>4
  <2>2. flags' = Whole!SetFlag(n, a, WholeSpace)
    BY <1>1, <2>1 DEF SetFlag, Whole!SetFlag, WholeSpace
  <2> QED BY <1>1, <1>2, <1>4, <2>2 DEF Whole!Next, Whole!Raw, WholeSpace
<1> QED BY <1>2, <1>3, <1>4 DEF RawEffect

(* A step of Annotations is a step of Statements or none at all.           *)
LEMMA WholeNext == AnnotationsInvariant /\ [Next]_vars => [Whole!Next]_(Whole!vars)
<1> SUFFICES ASSUME AnnotationsInvariant, [Next]_vars
             PROVE  [Whole!Next]_(Whole!vars)
  OBVIOUS
<1>1. ASSUME NEW t \in Threads, Call(t)
      PROVE  [Whole!Next]_(Whole!vars)
  BY <1>1, CallStep, WholeStutter DEF WholeFlags, WholeFuncs, WholeSpace
<1>2. ASSUME NEW t \in Threads, Begin(t)
      PROVE  [Whole!Next]_(Whole!vars)
  <2>1. ~Querying /\ Querying'
    BY <1>2, BeginStep
  <2>2. /\ before' = [flags |-> flags, funcs |-> funcs, space |-> space]
        /\ answer' = Whole!Nothing
    BY <1>2 DEF Begin
  <2>3. Whole!Forget
    BY <2>1, <2>2 DEF Whole!Forget
  <2> QED BY <2>3 DEF Whole!Next
<1>3. ASSUME NEW t \in Threads, Raw(t)
      PROVE  [Whole!Next]_(Whole!vars)
  BY <1>3, WholeRaw
<1>4. ASSUME NEW t \in Threads, Send(t) \/ WriteRow(t)
      PROVE  [Whole!Next]_(Whole!vars)
  BY <1>4, ProceedStep, WholeStutter DEF WholeFlags, WholeFuncs, WholeSpace
<1>5. ASSUME NEW t \in Threads, End(t)
      PROVE  [Whole!Next]_(Whole!vars)
  BY <1>5, WholeEnd
<1>6. CASE UNCHANGED vars
  <2>1. UNCHANGED <<flags, funcs, space, before, answer>> /\ (Querying' <=> Querying)
    BY <1>6 DEF vars, r2, work, Querying
  <2> QED BY <2>1, WholeStutter DEF WholeFlags, WholeFuncs, WholeSpace
<1> QED BY <1>1, <1>2, <1>3, <1>4, <1>5, <1>6 DEF Next, Enter, Proceed

(* Annotations implements Statements: whatever the commands and whoever    *)
(* waits, a statement shows its whole effect at once, when it ends, and    *)
(* answers the rows of the state in which it got query_mu_.                *)
THEOREM Atomicity == Spec => StatementsAtomic
<1>1. Init => Whole!Init
  BY WholeInit
<1>2. AnnotationsInvariant /\ [Next]_vars => [Whole!Next]_(Whole!vars)
  BY WholeNext
<1> QED BY <1>1, <1>2, Invariance, PTL DEF Spec, StatementsAtomic, Whole!Spec
=============================================================================
