----------------------------- MODULE Statements ------------------------------
(***************************************************************************)
(* What one SQL statement on the writable tables of r2sql promises: its    *)
(* whole effect on radare2's flags and functions in a single step, and the *)
(* rows it answers.  Annotations shows how the code gets there command by  *)
(* command.                                                                *)
(*                                                                         *)
(* Three promises are weaker than SQL's, because of the radare2 commands   *)
(* the tables send: a row is deleted by its address (`f- @ addr`), so that *)
(* one of the flags at that address goes; a name in use is not given a     *)
(* second time (`fr`); and INSERT takes its name from the flag that has it *)
(* (`f`), INSERT INTO bookmarks from another space too, which the comment  *)
(* of tables_bookmarks.cpp denies (README, section 3).                     *)
(***************************************************************************)
EXTENDS Integers, FiniteSets

CONSTANTS
    Names,     \* names that valid_flag_name accepts
    BadName,   \* a name it refuses
    NoName,    \* no function at an address
    Addrs, NoAddr

(* "*" selects all spaces; a flag set then belongs to none.                *)
Spaces == {"bookmarks", "symbols", "*"}
Flags == [name : Names, addr : Addrs, space : Spaces]

(* SELECT; INSERT (addr, name); UPDATE SET name WHERE addr; DELETE WHERE   *)
(* addr or WHERE name.                                                     *)
Queries ==
    LET On(tables, op, addrs, names) == [table : tables, op : {op}, addr : addrs, name : names]
        Lists == {"flags", "bookmarks"}
        All == Lists \cup {"funcs"}
    IN On(Lists, "select", {NoAddr}, {BadName})
         \cup On(All, "insert", Addrs, Names \cup {BadName})
         \cup On(All, "rename", Addrs, Names \cup {BadName})
         \cup On(All, "delete", Addrs, {BadName})
         \cup On(Lists, "delete", {NoAddr}, Names)

VARIABLES
    flags,    \* a subset of Flags
    funcs,    \* [Addrs -> Names \cup {NoName}], the functions
    space,    \* the selected flag space
    answer    \* what the last statement answered

vars == <<flags, funcs, space, answer>>

(* Between two statements nothing is answered.                             *)
Nothing == [ok |-> TRUE, rows |-> {}]
Told(ok, rows) == answer' = [ok |-> ok, rows |-> rows]

(* The rows of a table, and those a statement is about.                    *)
InTable(q, f) == IF q.table = "bookmarks" THEN f.space = "bookmarks" ELSE space \in {"*", f.space}
Selects(q, r) == q.addr \in {NoAddr, r.addr} /\ (q.op = "delete" /\ q.addr = NoAddr => r.name = q.name)
FlagRows(q) == {f \in flags : InTable(q, f) /\ Selects(q, f)}
FuncRows(q) == {a \in Addrs : a = q.addr /\ funcs[a] # NoName}

NameIsFree(n) == \A f \in flags : f.name # n

Init ==
    /\ flags \in SUBSET Flags /\ funcs \in [Addrs -> Names \cup {NoName}]
    /\ space \in Spaces /\ answer = Nothing

Select(q) ==
    /\ q.op = "select" /\ Told(TRUE, FlagRows(q))
    /\ UNCHANGED <<flags, funcs, space>>

SetFlag(n, a, s) == {f \in flags : f.name # n} \cup {[name |-> n, addr |-> a, space |-> s]}

InsertFlag(q) ==
    /\ q.op = "insert" /\ q.table # "funcs"
    /\ Told(q.name \in Names, {})
    /\ flags' = IF q.name \notin Names THEN flags
                ELSE SetFlag(q.name, q.addr, IF q.table = "bookmarks" THEN "bookmarks" ELSE space)
    /\ UNCHANGED <<funcs, space>>

(* radare2 names the function itself if the name is refused; it may also   *)
(* find no function there.                                                 *)
InsertFunc(q) ==
    /\ q.op = "insert" /\ q.table = "funcs" /\ Told(TRUE, {})
    /\ \/ \E n \in IF q.name \in Names THEN {q.name} ELSE Names :
             funcs' = [funcs EXCEPT ![q.addr] = IF q.name \in Names \/ @ = NoName THEN n ELSE @]
       \/ funcs[q.addr] = NoName /\ UNCHANGED funcs
    /\ UNCHANGED <<flags, space>>

RenameFlag(q) ==
    /\ q.op = "rename" /\ q.table # "funcs"
    /\ Told(q.name \in Names \/ FlagRows(q) = {}, {})
    /\ IF q.name \in Names /\ NameIsFree(q.name) /\ FlagRows(q) # {}
       THEN \E f \in FlagRows(q) : flags' = (flags \ {f}) \cup {[f EXCEPT !.name = q.name]}
       ELSE UNCHANGED flags
    /\ funcs' = IF q.table = "flags" /\ q.name \in Names /\ FlagRows(q) # {} /\ funcs[q.addr] # NoName
                THEN [funcs EXCEPT ![q.addr] = q.name] ELSE funcs
    /\ UNCHANGED space

RenameFunc(q) ==
    /\ q.op = "rename" /\ q.table = "funcs"
    /\ Told(q.name \in Names \/ FuncRows(q) = {}, {})
    /\ funcs' = IF q.name \in Names /\ FuncRows(q) # {} THEN [funcs EXCEPT ![q.addr] = q.name] ELSE funcs
    /\ UNCHANGED <<flags, space>>

(* As many flags go at each address as rows were selected there.           *)
DeleteFlags(q) ==
    /\ q.op = "delete" /\ q.table # "funcs" /\ Told(TRUE, {})
    /\ \E gone \in SUBSET {f \in flags : InTable(q, f)} :
          /\ \A a \in Addrs : Cardinality({f \in gone : f.addr = a})
                               = Cardinality({f \in FlagRows(q) : f.addr = a})
          /\ flags' = flags \ gone
    /\ UNCHANGED <<funcs, space>>

DeleteFunc(q) ==
    /\ q.op = "delete" /\ q.table = "funcs" /\ Told(TRUE, {})
    /\ funcs' = [funcs EXCEPT ![q.addr] = NoName]
    /\ UNCHANGED <<flags, space>>

(* A raw command: `fs <space>`, or `f <name> @ <addr>`.                    *)
Raw ==
    /\ \/ space' \in Spaces /\ UNCHANGED flags
       \/ /\ \E n \in Names, a \in Addrs : flags' = SetFlag(n, a, space)
          /\ UNCHANGED space
    /\ answer' = Nothing /\ UNCHANGED funcs

Forget == answer' = Nothing /\ UNCHANGED <<flags, funcs, space>>

Perform(q) ==
    \/ Select(q) \/ InsertFlag(q) \/ InsertFunc(q)
    \/ RenameFlag(q) \/ RenameFunc(q) \/ DeleteFlags(q) \/ DeleteFunc(q)

Next == Raw \/ Forget \/ \E q \in Queries : Perform(q)

Spec == Init /\ [][Next]_vars
=============================================================================
