----------------------------- MODULE Annotations -----------------------------
(***************************************************************************)
(* Statements on the writable tables flags, bookmarks and funcs, as a      *)
(* Session carries them out: under query_mu_, one radare2 command after    *)
(* the other (src/lib/src/session.cpp, tables_flags.cpp,                   *)
(* tables_bookmarks.cpp, tables_funcs.cpp).                                *)
(*                                                                         *)
(* The callers are the threads of the HTTP server, which query one session *)
(* without a queue.  A statement on rows first lists the table and then    *)
(* calls the writer of each row it selects with the row as it was listed.  *)
(* radare2 is external: what a command does is what the tables expect of   *)
(* it.                                                                     *)
(***************************************************************************)
EXTENDS Integers, Sequences, FiniteSets, SequencesExt

CONSTANTS
    Threads,   \* the HTTP server's threads
    Names, BadName, NoName, Addrs, NoAddr,  \* as in Statements
    Code       \* the addresses where radare2 can find a function

ASSUME NamesAssumption == IsFiniteSet(Names) /\ BadName \notin Names /\ NoName \notin Names \cup {BadName}
ASSUME AddrsAssumption == Addrs # {} /\ NoAddr \notin Addrs /\ Code \subseteq Addrs

VARIABLES
    flags, funcs, space,   \* radare2's, as in Statements
    saved,     \* its stack of saved flag spaces
    chosen,    \* the flag space the user selected
    pc,        \* [Threads -> "idle", "want" (waits for query_mu_), "query"]
    stmt,      \* the statement of the thread that holds query_mu_
    todo,      \* the commands it has still to send
    rows,      \* the rows listed and not yet written
    ok,        \* no writer has failed
    before,    \* flags, funcs and space when it got query_mu_
    answer     \* what the last statement answered

r2   == <<flags, funcs, space, saved>>
work == <<stmt, todo, rows, ok, before>>
vars == <<r2, chosen, pc, work, answer>>

Querying == \E t \in Threads : pc[t] = "query"

(* A statement takes place when it ends.                                   *)
Whole == INSTANCE Statements WITH
    flags <- IF Querying THEN before.flags ELSE flags,
    funcs <- IF Querying THEN before.funcs ELSE funcs,
    space <- IF Querying THEN before.space ELSE space

NoStmt == [table |-> "none", op |-> "none", addr |-> NoAddr, name |-> BadName]
Idle == [flags |-> {}, funcs |-> [a \in Addrs |-> NoName], space |-> "*"]

Init ==
    /\ flags \in {{}, {[name |-> n, addr |-> a, space |-> "symbols"] : n \in Names, a \in {CHOOSE x \in Addrs : TRUE}}}
    /\ funcs \in {f \in [Addrs -> Names \cup {NoName}] : \A a \in Addrs \ Code : f[a] = NoName}
    /\ space = "*" /\ saved = <<>> /\ chosen = "*"
    /\ pc = [t \in Threads |-> "idle"] /\ stmt = NoStmt /\ todo = <<>> /\ rows = {}
    /\ ok = TRUE /\ before = Idle /\ answer = Whole!Nothing

-----------------------------------------------------------------------------
(* radare2: a command is [do, old, new, addr].                             *)

Cmd(do, old, new, a) == [do |-> do, old |-> old, new |-> new, addr |-> a]
Plain(do) == Cmd(do, BadName, BadName, NoAddr)

Listed == IF space = "*" THEN flags ELSE {f \in flags : f.space = space}

SetFlag(n, a) == {f \in flags : f.name # n} \cup {[name |-> n, addr |-> a, space |-> space]}

ChangesSpace(c) ==
    /\ \/ c.do = "fss*" /\ saved' = Append(saved, space) /\ UNCHANGED space
       \/ c.do = "fs bookmarks" /\ space' = "bookmarks" /\ UNCHANGED saved
       \/ c.do = "fsr-" /\ space' = Last(saved) /\ saved' = Front(saved)
    /\ UNCHANGED <<flags, funcs, rows>>

(* The rows of the listing that the statement is about.                    *)
Lists(c) ==
    /\ \/ c.do = "fj" /\ rows' = {f \in Listed : Whole!Selects(stmt, f)}
       \/ /\ c.do = "aflj"
          /\ rows' = {[name |-> funcs[a], addr |-> a, space |-> "*"] : a \in {x \in {stmt.addr} : funcs[x] # NoName}}
    /\ UNCHANGED r2

Rename(f, n) == (flags \ {f}) \cup {[f EXCEPT !.name = n]}

ChangesFlags(c) ==
    /\ \/ c.do = "f" /\ flags' = SetFlag(c.new, c.addr)
       \/ /\ c.do = "fr"
          /\ LET named == {f \in flags : f.name = c.old}
             IN flags' = IF named # {} /\ \A f \in flags : f.name # c.new
                         THEN Rename(CHOOSE f \in named : TRUE, c.new) ELSE flags
       \/ /\ c.do = "f-"
          /\ \/ \E f \in Listed : f.addr = c.addr /\ flags' = flags \ {f}
             \/ (\A f \in Listed : f.addr # c.addr) /\ UNCHANGED flags
    /\ UNCHANGED <<funcs, space, saved, rows>>

ChangesFuncs(c) ==
    /\ \/ /\ c.do = "af"
          /\ \/ c.addr \in Code /\ funcs[c.addr] = NoName /\ \E n \in Names : funcs' = [funcs EXCEPT ![c.addr] = n]
             \/ UNCHANGED funcs
       \/ c.do = "afn" /\ funcs' = [funcs EXCEPT ![c.addr] = IF @ = NoName THEN @ ELSE c.new]
       \/ c.do = "af-" /\ funcs' = [funcs EXCEPT ![c.addr] = NoName]
    /\ UNCHANGED <<flags, space, saved, rows>>

-----------------------------------------------------------------------------
(* The commands of the tables                                              *)

\* Mutant: any name is sent to radare2.
AnyName(n) == TRUE

ValidName(n) == n # BadName

(* Save the flag space, select bookmarks, act, restore.                    *)
InBookmarks(cs) == <<Plain("fss*"), Plain("fs bookmarks")>> \o cs \o <<Plain("fsr-")>>

Scoped(q, cs) == IF q.table = "bookmarks" THEN InBookmarks(cs) ELSE cs

(* The cache builders.                                                     *)
Listing(q) == IF q.table = "funcs" THEN <<Plain("aflj")>> ELSE Scoped(q, <<Plain("fj")>>)

(* insertable; an invalid name fails, or leaves a function its own.        *)
Insertion(q) ==
    IF q.table = "funcs"
    THEN <<Cmd("af", BadName, BadName, q.addr)>>
           \o IF ValidName(q.name) THEN <<Cmd("afn", BadName, q.name, q.addr)>> ELSE <<>>
    ELSE IF ValidName(q.name) THEN Scoped(q, <<Cmd("f", BadName, q.name, q.addr)>>) ELSE <<>>

Refused(q) ==
    /\ ~ValidName(q.name)
    /\ q.op \in IF q.table = "funcs" THEN {"rename"} ELSE {"rename", "insert"}

(* The setter of name.                                                     *)
Renaming(q, r) ==
    (IF q.table \in {"flags", "funcs"} THEN <<Cmd("afn", BadName, q.name, r.addr)>> ELSE <<>>)
      \o IF q.table = "funcs" THEN <<>> ELSE Scoped(q, <<Cmd("fr", r.name, q.name, NoAddr)>>)

(* deletable.                                                              *)
Deletion(q, r) ==
    IF q.table = "funcs" THEN <<Cmd("af-", BadName, BadName, r.addr)>>
    ELSE Scoped(q, <<Cmd("f-", BadName, BadName, r.addr)>>)

-----------------------------------------------------------------------------
(* The session                                                             *)

Call(t) ==
    /\ pc[t] = "idle" /\ pc' = [pc EXCEPT ![t] = "want"]
    /\ UNCHANGED <<r2, chosen, work, answer>>

(* query: lock query_mu_.                                                  *)
Begin(t) ==
    /\ pc[t] = "want" /\ ~Querying
    /\ pc' = [pc EXCEPT ![t] = "query"]
    /\ \E q \in Whole!Queries :
          /\ stmt' = q
          /\ todo' = IF q.op = "insert" THEN Insertion(q) ELSE Listing(q)
          /\ ok' = ~(q.op = "insert" /\ Refused(q))
    /\ before' = [flags |-> flags, funcs |-> funcs, space |-> space]
    /\ answer' = Whole!Nothing
    /\ UNCHANGED <<r2, chosen, rows>>

(* One call of Backend::cmd.                                               *)
Send(t) ==
    /\ pc[t] = "query" /\ todo # <<>>
    /\ LET c == Head(todo) IN ChangesSpace(c) \/ Lists(c) \/ ChangesFlags(c) \/ ChangesFuncs(c)
    /\ todo' = Tail(todo)
    /\ UNCHANGED <<chosen, pc, stmt, ok, before, answer>>

(* The writer of the next row; a failure ends the statement.               *)
WriteRow(t) ==
    /\ pc[t] = "query" /\ todo = <<>> /\ stmt.op \in {"rename", "delete"}
    /\ \E r \in rows :
          IF Refused(stmt) THEN rows' = {} /\ ok' = FALSE /\ UNCHANGED todo
          ELSE /\ todo' = IF stmt.op = "rename" THEN Renaming(stmt, r) ELSE Deletion(stmt, r)
               /\ rows' = rows \ {r} /\ UNCHANGED ok
    /\ UNCHANGED <<r2, chosen, pc, stmt, before, answer>>

Done == todo = <<>> /\ (stmt.op = "select" \/ rows = {})

Finish(t) ==
    /\ answer' = [ok |-> ok, rows |-> rows]
    /\ stmt' = NoStmt /\ rows' = {} /\ ok' = TRUE /\ before' = Idle
    /\ UNCHANGED <<r2, chosen, todo>>

\* Mutant: a statement that fails keeps query_mu_.
EndHolding(t) ==
    /\ pc[t] = "query" /\ Done
    /\ IF ok THEN pc' = [pc EXCEPT ![t] = "idle"] /\ Finish(t) ELSE UNCHANGED vars

End(t) ==
    /\ pc[t] = "query" /\ Done
    /\ pc' = [pc EXCEPT ![t] = "idle"]
    /\ Finish(t)

RawEffect ==
    \/ \E s \in Whole!Spaces : space' = s /\ chosen' = s /\ UNCHANGED flags
    \/ (\E n \in Names, a \in Addrs : flags' = SetFlag(n, a)) /\ UNCHANGED <<space, chosen>>

\* Mutant: Backend::cmd instead of Session::raw_cmd, without query_mu_.
RawUnlocked(t) ==
    /\ pc[t] = "want" /\ pc' = [pc EXCEPT ![t] = "idle"] /\ RawEffect
    /\ answer' = Whole!Nothing
    /\ UNCHANGED <<funcs, saved, work>>

(* raw_cmd: one command under query_mu_.                                   *)
Raw(t) ==
    /\ pc[t] = "want" /\ ~Querying
    /\ pc' = [pc EXCEPT ![t] = "idle"] /\ RawEffect
    /\ answer' = Whole!Nothing
    /\ UNCHANGED <<funcs, saved, work>>

Enter(t) == Begin(t) \/ Raw(t)
Proceed(t) == Send(t) \/ WriteRow(t) \/ End(t)

Next == \E t \in Threads : Call(t) \/ Enter(t) \/ Proceed(t)

Spec == Init /\ [][Next]_vars

(* Threads are scheduled and none waits for query_mu_ for ever.            *)
FairSpec == Spec /\ \A t \in Threads : SF_vars(Enter(t)) /\ WF_vars(Proceed(t))

-----------------------------------------------------------------------------
(* Properties                                                              *)

(* The types: radare2 is never sent a name that is not valid, one thread   *)
(* holds query_mu_, and a statement restores only a space it saved.        *)
TypeOK ==
    /\ flags \subseteq Whole!Flags /\ funcs \in [Addrs -> Names \cup {NoName}]
    /\ space \in Whole!Spaces /\ chosen \in Whole!Spaces /\ Len(saved) <= 1
    /\ pc \in [Threads -> {"idle", "want", "query"}]
    /\ \A t, u \in Threads : pc[t] = "query" /\ pc[u] = "query" => t = u
    /\ stmt \in Whole!Queries \cup {NoStmt} /\ ok \in BOOLEAN
    /\ \A r \in rows : r.addr \in Addrs

(* A statement is one step to everybody else: it answers the rows and has  *)
(* the effect that Statements gives it, with the three promises that are   *)
(* weaker there than SQL's.                                                *)
StatementsAtomic == Whole!Spec

(* Every query and every raw command returns.                              *)
EveryCallReturns == \A t \in Threads : pc[t] = "want" ~> pc[t] = "idle"
=============================================================================
