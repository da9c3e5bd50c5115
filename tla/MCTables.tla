------------------------------ MODULE MCTables ------------------------------
(* Tables for TLC: eight addresses, of which the upper four are negative   *)
(* to SQLite.                                                              *)
EXTENDS Tables

NoText == <<>>
On(tables, columns, values) == [table : tables, column : columns, value : values, text : {NoText}]

(* Texts of up to four bytes, at both ends of the addresses.               *)
Texts == UNION {[1..n -> {0, 1, 171, 255}] : n \in 0..4}

MCQueries ==
    On(Streamed \cup Cached,  {"none"}, {0})
      \cup On(Streamed, {"func_addr"}, Int64) \cup On({"xrefs"}, {"from_addr", "to_addr"}, Int64)
      \cup On({"strings"}, {"text"}, {"x", "y"})
      \cup On({"grep"}, {"pattern"}, {"n", "lib"})
      \cup [table : {"comments"}, column : {"none"}, value : {0, -1, NULL}, text : Texts \cup {NULL}]

(* Every selection of some of the elements of s.                           *)
Some(s) == {SelectSeq(s, LAMBDA x : x \in S) : S \in SUBSET ToSet(s)}

(* A function of one address, one of two, and one in the upper half.       *)
Code == <<[entry |-> 1, size |-> 2], [entry |-> 3, size |-> 1], [entry |-> 5, size |-> 3]>>

(* References within a function, between the halves, and from no function. *)
Ref(a, b) == [from |-> a, to |-> b]
References == <<Ref(1, 3), Ref(2, 6), Ref(6, 3), Ref(7, 1), Ref(0, 3)>>

Field(o, s, n) == [offset |-> o, size |-> s, array_size |-> n]
Type(n, k, s, fs) == [front |-> <<>>, name |-> n, kind |-> k, size |-> s, fields |-> fs]
Definitions ==
    <<Type("S", "struct", 0, <<Field(0, 4, 1), Field(4, 2, 3)>>), Type("P", "struct", 0, <<Field(0, 1, 0), Field(4, 4, 1)>>),
      Type("U", "union", 0, <<Field(0, 2, 1), Field(0, 4, 2)>>), Type("E", "enum", 0, <<Field(0, 0, 0), Field(0, 0, 0)>>), Type("A", "atomic", 4, <<>>),
      (* Names of two words: one ends as an other does, one is a pointer.  *)
      [Type("A", "typedef", 8, <<>>) EXCEPT !.front = <<"unsigned", " ">>],
      [Type("*", "type", 8, <<>>) EXCEPT !.front = <<"A", " ">>]>>

Core(F, R, m, k, T, e) ==
    [funcs |-> F, refs |-> R, mute |-> m, key |-> k, types |-> T, end |-> e,
     listed |-> [c \in {"izj", "iij", "iEj", "iSj", "iSSj", "fj", "CCj"} |-> <<>>]]

CodeCores == {Core(F, <<>>, m, k, <<>>, <<>>) : F \in Some(Code), m \in {{}, {1}, {3}}, k \in {"addr", "offset"}}
RefCores == {Core(F, R, {}, "addr", <<>>, <<>>) : F \in Some(Code), R \in Some(References)}
TypeCores == {Core(<<>>, <<>>, m, "addr", T, e) :
                T \in {D \in Some(Definitions) : Len(D) <= 3}, m \in {{}, {"S"}}, e \in {<<"\n">>, <<"\r", "\n">>, <<" ">>}}

(* Objects at both ends of the addresses; imports also without a place.    *)
Objects(key) == <<[k \in {key, "string"} |-> IF k = key THEN 1 ELSE "x"], [k \in {key, "string"} |-> IF k = key THEN 7 ELSE "y"]>>
Imports == <<[plt |-> 7, name |-> "n", libname |-> "lib"], [name |-> "o", libname |-> "lib"], [plt |-> 2, name |-> "p", libname |-> ""]>>
ListedBy(c, n) == IF c = "iij" THEN SubSeq(Imports, 1, n)
                  ELSE SubSeq(Objects(IF c \in {"fj", "CCj"} THEN "offset" ELSE "vaddr"), 1, IF n < 2 THEN n ELSE 2)
ListCores == {[Core(F, <<>>, m, "addr", <<>>, <<>>) EXCEPT !.listed = [c \in DOMAIN @ |-> ListedBy(c, n)]] :
                 F \in Some(Code), m \in SUBSET {"izj", "iij", "iSj"}, n \in 0..3}

MCCores(table) ==
    CASE table \in Streamed -> CodeCores [] table = "xrefs" -> RefCores
      [] table \in {"types", "types_members"} -> TypeCores
      [] table \in Listings \cup {"welcome", "grep"} -> ListCores
      [] OTHER -> {Core(<<>>, <<>>, {}, "addr", <<>>, <<>>)}

(* Tables that are built when a statement starts do not see a change.      *)
MCProjects(table) == IF table \in Streamed THEN {c \in CodeCores : c.key = "addr"} ELSE {}
=============================================================================
