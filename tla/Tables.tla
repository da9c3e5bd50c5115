------------------------------- MODULE Tables -------------------------------
(***************************************************************************)
(* One SQL statement on the tables that show what radare2 knows: blocks,   *)
(* instructions and pseudocode, which read one function after the other    *)
(* while the statement runs, xrefs, the types and the lists of what is in  *)
(* the file, which are built when it starts, and an INSERT into comments   *)
(* (src/lib/src/tables_*.cpp).                                             *)
(* SQLite decides whether a filter is handed to the table, which then asks *)
(* radare2 about one address, or is applied to all rows: the answer must   *)
(* be the same.                                                            *)
(***************************************************************************)
EXTENDS JsonUtils, SequencesExt

CONSTANTS
    Queries,       \* [table, column, value, text], the statements
    Cores(_),      \* what radare2 may hold when a statement on a table starts
    Projects(_),   \* what it may hold once the statement has opened a project
    NoName,        \* no function, in a from_func
    NULL           \* SQL's NULL

VARIABLES
    query,
    mem,      \* what radare2 holds
    before,   \* what it held when the statement started
    pc,       \* "plan", "rows" or "done"
    plan,     \* "scan" or "filter"
    funcs_,   \* the functions that are still to be read
    buf,      \* rows that were read and not handed out
    rows      \* the rows SQLite has got and keeps

vars == <<query, mem, before, pc, plan, funcs_, buf, rows>>

-----------------------------------------------------------------------------
(* Sequences                                                               *)

Map(s, f(_)) == [i \in DOMAIN s |-> f(s[i])]
(* What f has for each element of s, one after the other.                  *)
Joined(s, f) ==
    LET upto[i \in 0..Len(s)] == IF i = 0 THEN <<>> ELSE upto[i - 1] \o f[s[i]]
    IN upto[Len(s)]
Gather(s, found(_)) == Joined(s, [x \in ToSet(s) |-> found(x)])
Select(s, keep(_)) == Joined(s, [x \in ToSet(s) |-> IF keep(x) THEN <<x>> ELSE <<>>])

(* A function has an entry and a size, its blocks and instructions are at  *)
(* the addresses of its span.  A reference leads from one address to       *)
(* another; radare2 can fail to list a function that is mute.              *)
Span(f) == f.entry..(f.entry + f.size - 1)
Holders(m, a) == {f \in ToSet(m.funcs) : a \in Span(f)}
NameAt(m, a) == IF Holders(m, a) = {} THEN NoName ELSE (CHOOSE f \in Holders(m, a) : TRUE).entry

(* A list of objects, each with an address under one of these keys.        *)
Commands == {"izj", "iij", "iEj", "iSj", "iSSj", "fj", "CCj"}
PlaceKeys == {"addr", "offset", "vaddr", "plt"}

(* A type's name is a text of words with blanks between them, as in        *)
(* `unsigned int` and `char *`; name is the last word, front what is       *)
(* before it.                                                              *)
FullName(d) == d.front \o <<d.name>>

(* What the statement relies on of radare2's types: a name has one         *)
(* definition, the punctuation of a record is in no name, and a record     *)
(* that is followed by another ends with a separator.                      *)
IsField(f) == f.offset \in Nat /\ f.size \in Nat /\ f.array_size \in Int
IsFront(s) == s \in Seq(ToSet(s)) /\ "=" \notin ToSet(s) /\ (s # <<>> => s[Len(s)] = " ")
TypesListed(m) ==
    /\ \A d \in ToSet(m.types) :
          /\ d.kind \in Kinds /\ IsFront(d.front) /\ d.name \notin {"\n", " ", "\r", "=", ".", "#"}
          /\ \A f \in ToSet(d.fields) : IsField(f) /\ (d.kind = "union" => f.offset = 0)
    /\ \A c, d \in ToSet(m.types) : FullName(c) = FullName(d) => c = d
    /\ m.types # <<>> => m.end # <<>> /\ m.end[Len(m.end)] \in {"\n", " "}

(* What it relies on otherwise: functions have one address at least and    *)
(* none together, and nothing is listed twice.                             *)
IsCore(m) ==
    /\ DOMAIN m = {"funcs", "refs", "mute", "key", "types", "end", "listed"}
    /\ m.funcs \in Seq([entry : Addresses, size : Nat \ {0}])
    /\ \A f \in ToSet(m.funcs) : Span(f) \subseteq Addresses
    /\ \A i, j \in DOMAIN m.funcs : i # j => Span(m.funcs[i]) \cap Span(m.funcs[j]) = {}
    /\ m.refs \in Seq([from : Addresses, to : Addresses]) /\ IsInjective(m.refs)
    /\ m.key \in {"addr", "offset"}
    /\ m.types \in Seq(ToSet(m.types)) /\ m.end \in Seq({"\n", "\r", " "})
    /\ \A d \in ToSet(m.types) : d.fields \in Seq(ToSet(d.fields))
    /\ TypesListed(m)
    /\ DOMAIN m.listed = Commands
    /\ \A c \in Commands : /\ m.listed[c] \in Seq(ToSet(m.listed[c]))
                           /\ \A j \in ToSet(m.listed[c]) : \A k \in DOMAIN j \cap PlaceKeys : j[k] \in Addresses

ASSUME CoresAssumption ==
    \A t \in {q.table : q \in Queries} : \A m \in Cores(t) \cup Projects(t) : IsCore(m)
ASSUME QueriesAssumption ==
    \A q \in Queries :
        /\ q.column \in {"func_addr", "from_addr", "to_addr"} => q.value \in Int64
        /\ q.table = "comments" => q.value \in Int64 \cup {NULL} /\ q.text \in Seq(Bytes) \cup {NULL}
        /\ q.table \in {"types", "types_members", "imports", "exports", "sections", "segments", "welcome"} => q.column = "none"
        /\ q.table = "strings" => q.column \in {"none", "text"}

-----------------------------------------------------------------------------
(* What radare2 answers                                                    *)

(* Older versions call an address offset.                                  *)
Aflj(m) == Array(Map(m.funcs, LAMBDA f : [k \in {m.key} |-> f.entry]))

Spoken(m, a) == {f \in Holders(m, a) : f.entry \notin m.mute}
Listed(m, a, key) ==
    IF Spoken(m, a) = {} THEN Null
    ELSE LET f == CHOOSE g \in Spoken(m, a) : TRUE
         IN Array([i \in 1..f.size |-> [k \in {key} |-> f.entry + i - 1]])
Afbj(m, a) == Listed(m, a, "addr")
Pdfj(m, a) == Listed(m, a, m.key)
Pdc(m, a) == Spoken(m, a)

Afxj(m, a) == Array(Select(m.refs, LAMBDA r : \E f \in Holders(m, a) : r.from \in Span(f)))
Axtj(m, a) == Array(Select(m.refs, LAMBDA r : r.to = a))
Axfj(m, a) == Array(Select(m.refs, LAMBDA r : r.from = a))

-----------------------------------------------------------------------------
(* The rows of one function or address                                     *)

BlocksForFunc(m, fa) ==
    Map(Elements(Afbj(m, HexAddr(fa))), LAMBDA b : [func_addr |-> fa, addr |-> I64(b, "addr", 0)])
InsnsForFunc(m, fa) ==
    Map(Elements(Pdfj(m, HexAddr(fa))), LAMBDA o : [func_addr |-> fa, addr |-> I64Addr(o)])

(* The text is there whatever the decompiler says.                         *)
PseudoForFunc(m, fa) == <<[func_addr |-> fa, text |-> Pdc(m, HexAddr(fa))]>>

XrefRow(from, to, name) == [from_addr |-> from, to_addr |-> to, from_func |-> name]
From(j) == I64(j, "from", 0)
To(j) == I64(j, "to", 0)

FunctionNameAt(m, a) == NameAt(m, HexAddr(a))

(* axtj names the function of each reference; axfj may leave that to afij. *)
XrefsToAddr(m, v) == Map(Elements(Axtj(m, HexAddr(v))), LAMBDA j : XrefRow(From(j), v, NameAt(m, j.from)))
XrefsFromAddr(m, v) == Map(Elements(Axfj(m, HexAddr(v))), LAMBDA j : XrefRow(I64(j, "from", v), To(j), FunctionNameAt(m, v)))

FuncAddrs(m) == Map(Elements(Aflj(m)), I64Addr)

(* The cache of xrefs: afxj for every function, named as aflj names it.    *)
XrefsCache(m) ==
    LET rowsOf(fa) == Map(Elements(Afxj(m, HexAddr(fa))), LAMBDA j : XrefRow(From(j), To(j), HexAddr(fa)))
    IN Gather(FuncAddrs(m), rowsOf)

-----------------------------------------------------------------------------
(* Types                                                                   *)

(* What tk* prints of the types, whatever their names hold: a line of each *)
(* type and of each field.                                                 *)
TkRecord(m, d) == d.front \o (<<d.name, "=", d.kind>> \o m.end)
TkFields(m, d) == Gather(d.fields, LAMBDA f : d.front \o (<<d.name, ".", "f", "=", "type">> \o m.end))
TkDump(m) == <<"*">> \o Gather(m.types, LAMBDA d : TkFields(m, d) \o TkRecord(m, d))

TypeKinds(m) == UNION {ParseTkDump(tk) : tk \in {TkDump(m)}}

(* What tsj, tuj, tej and tj have under the name k.name: a struct, a       *)
(* union, an enum, and for the other kinds an entry of tj.                 *)
SameCommand(c, k) == c = k \/ {c, k} = {"atomic", "type"}
Defined(m, k) ==
    {d \in ToSet(m.types) : FullName(d) = k.name /\ SameCommand(d.kind, k.kind) /\ d.name \notin m.mute}
Definition(m, k) == CHOOSE d \in Defined(m, k) : TRUE
Known(m, k) == Defined(m, k) # {}

Count(f) == IF f.array_size <= 0 THEN 1 ELSE f.array_size
Sizes(d) == Map(d.fields, LAMBDA f : f.size * Count(f))
Total(s) ==
    LET upto[i \in 0..Len(s)] == IF i = 0 THEN 0 ELSE upto[i - 1] + s[i]
    IN upto[Len(s)]
Largest(S) == CHOOSE e \in S \cup {0} : \A x \in S : x <= e

(* The fields of a struct in a row, the largest of a union.                *)
TypeSize(m, k) ==
    LET d == Definition(m, k) IN
    IF ~Known(m, k) THEN -1
    ELSE CASE k.kind \in {"enum", "typedef", "func"} -> -1
      [] k.kind = "struct" -> Total(Sizes(d))
      [] k.kind = "union" -> Largest(ToSet(Sizes(d)))
      [] OTHER -> d.size

TypesCache(m) ==
    SetToSeq({[name |-> k.name, kind |-> k.kind, size |-> TypeSize(m, k)] : k \in TypeKinds(m)})

(* A value of an enum has no place.                                        *)
Member(k, offset, size, count) ==
    [type_name |-> k.name, parent_kind |-> k.kind, offset |-> offset, size |-> size, array_size |-> count]
MemberOf(k, f) == IF k.kind = "enum" THEN Member(k, 0, 0, 0) ELSE Member(k, f.offset, f.size, Count(f))
MembersOf(m, k) ==
    LET d == Definition(m, k) IN
    IF k.kind \notin {"struct", "union", "enum"} \/ ~Known(m, k) THEN <<>>
    ELSE Map(d.fields, LAMBDA f : MemberOf(k, f))

MembersCache(m) ==
    Gather(SetToSeq(TypeKinds(m)), LAMBDA k : MembersOf(m, k))

-----------------------------------------------------------------------------
(* What the file holds: one command a table, one row an object             *)

Reply(m, c) == IF c \in m.mute THEN Null ELSE Array(m.listed[c])
(* The text is only copied when SQLite says that the statement uses it.    *)
StringsCache(m, colUsed) ==
    Map(Elements(Reply(m, "izj")), LAMBDA j : [addr |-> I64(j, "vaddr", 0), text |-> IF colUsed \cap {4, 63} # {} THEN j.string ELSE ""])

ImportsCache(m) == Map(Elements(Reply(m, "iij")), LAMBDA j : [addr |-> I64(j, "plt", 0)])
ExportsCache(m) == Map(Elements(Reply(m, "iEj")), LAMBDA j : [addr |-> I64(j, "vaddr", 0)])
SectionsCache(m) == Map(Elements(Reply(m, "iSj")), LAMBDA j : [addr |-> I64(j, "vaddr", 0)])
SegmentsCache(m) == Map(Elements(Reply(m, "iSSj")), LAMBDA j : [addr |-> I64(j, "vaddr", 0)])

(* Of welcome the counts, which come from commands of their own.           *)
AddCount(key, reply) == <<[key |-> key, value |-> Len(Elements(reply))]>>
WelcomeCache(m) ==
    AddCount("func_count", Aflj(m)) \o AddCount("string_count", Reply(m, "izj"))
      \o AddCount("import_count", Reply(m, "iij")) \o AddCount("section_count", Reply(m, "iSj"))
      \o AddCount("segment_count", Reply(m, "iSSj"))

-----------------------------------------------------------------------------
(* grep: everything that has a name                                        *)

Str(j, key) == IF key \in DOMAIN j THEN j[key] ELSE ""

(* The callers say where the address is and whether there is a library.    *)
Place(j, key) == IF key = "addr" THEN I64Addr(j) ELSE I64(j, key, 0)

PushArray(objects, kind, key, parent) ==
    Map(objects, LAMBDA j : [kind |-> kind, addr |-> Place(j, key), name |-> <<Str(j, "name")>>,
                             full_name |-> IF Str(j, parent) = "" THEN <<Str(j, "name")>> ELSE <<Str(j, parent), "!", Str(j, "name")>>])

BuildGrepRows(m) ==
    PushArray(Elements(Aflj(m)), "func", "addr", "none") \o PushArray(Elements(Reply(m, "fj")), "flag", "addr", "none")
      \o PushArray(Elements(Reply(m, "iij")), "import", "plt", "libname") \o PushArray(Elements(Reply(m, "iEj")), "export", "vaddr", "none")
      \o PushArray(Elements(Reply(m, "iSj")), "section", "vaddr", "none") \o PushArray(Elements(Reply(m, "CCj")), "comment", "addr", "none")

(* A name is a sequence of words and matches a word it holds; LikeMatch is *)
(* about the characters.                                                   *)
Matching(all, word) == Select(all, LAMBDA r : word \in ToSet(r.name) \/ word \in ToSet(r.full_name))

-----------------------------------------------------------------------------
(* The statement                                                           *)

Streamed == {"blocks", "instructions", "pseudocode"}
Listings == {"strings", "imports", "exports", "sections", "segments"}
Cached == {"xrefs", "types", "types_members", "welcome", "grep"} \cup Listings

(* The pattern of grep is not a column of its rows.                        *)
Keeps(row) == query.column \in {"none", "pattern"} \/ row[query.column] = query.value

Init ==
    /\ query \in Queries /\ mem \in Cores(query.table) /\ before = mem
    /\ pc = "plan" /\ plan = "scan"
    /\ funcs_ = <<>> /\ buf = <<>> /\ rows = <<>>

(* SQLite's choice.  With it the table has been asked for an iterator.     *)
Plans(p) == pc = "plan" /\ pc' = "rows" /\ plan' = p /\ UNCHANGED <<query, mem, before, rows>>

(* A generator: the list of functions is taken once.                       *)
Generate ==
    /\ query.table \in Streamed /\ Plans("scan")
    /\ funcs_' = FuncAddrs(mem) /\ UNCHANGED buf

Build(table, cache) ==
    /\ query.table = table /\ Plans("scan")
    /\ buf' = cache /\ UNCHANGED funcs_

BuildXrefs == Build("xrefs", XrefsCache(mem))
BuildTypes == Build("types", TypesCache(mem))
BuildMembers == Build("types_members", MembersCache(mem))
BuildStrings == Build("strings", StringsCache(mem, IF query.column = "text" THEN {4} ELSE {}))
BuildImports == Build("imports", ImportsCache(mem))
BuildExports == Build("exports", ExportsCache(mem))
BuildSections == Build("sections", SectionsCache(mem))
BuildSegments == Build("segments", SegmentsCache(mem))
BuildWelcome == Build("welcome", WelcomeCache(mem))
BuildGrep == query.column = "none" /\ Build("grep", BuildGrepRows(mem))

(* The filter on one column: an iterator over the rows of one address.     *)
Filter(table, column, found) ==
    /\ query.table = table /\ query.column = column /\ Plans("filter")
    /\ buf' = found /\ UNCHANGED funcs_

BlocksInFunc == Filter("blocks", "func_addr", BlocksForFunc(mem, query.value))
InsnsInFunc == Filter("instructions", "func_addr", InsnsForFunc(mem, query.value))
PseudoAtFunc == Filter("pseudocode", "func_addr", PseudoForFunc(mem, query.value))
XrefsTo == Filter("xrefs", "to_addr", XrefsToAddr(mem, query.value))
GrepPattern == Filter("grep", "pattern", Matching(BuildGrepRows(mem), query.value))
XrefsFrom == Filter("xrefs", "from_addr", XrefsFromAddr(mem, query.value))

HandOut(row) == rows' = IF Keeps(row) THEN Append(rows, row) ELSE rows

\* Mutant: one function too far.
AfterFar(k) == SubSeq(funcs_, k + 2, Len(funcs_))

(* fi_ behind the k-th of the functions that are left.                     *)
After(k) == SubSeq(funcs_, k + 1, Len(funcs_))

(* next() of a generator; found are the rows that each function has.  A    *)
(* row of the function read last, else the first of the next function that *)
(* has any.                                                                *)
NextOf(table, found) ==
    /\ query.table = table /\ pc = "rows" /\ plan = "scan"
    /\ \/ buf # <<>> /\ HandOut(Head(buf)) /\ buf' = Tail(buf) /\ UNCHANGED <<funcs_, pc>>
       \/ /\ buf = <<>>
          /\ \E k \in DOMAIN funcs_ :
                /\ found[funcs_[k]] # <<>> /\ \A j \in 1..(k - 1) : found[funcs_[j]] = <<>>
                /\ HandOut(Head(found[funcs_[k]])) /\ buf' = Tail(found[funcs_[k]])
                /\ funcs_' = After(k)
          /\ UNCHANGED pc
       \/ /\ buf = <<>> /\ \A j \in DOMAIN funcs_ : found[funcs_[j]] = <<>>
          /\ pc' = "done" /\ funcs_' = <<>> /\ UNCHANGED <<rows, buf>>
    /\ UNCHANGED <<query, mem, before, plan>>

BlocksGen == NextOf("blocks", [fa \in ToSet(funcs_) |-> BlocksForFunc(mem, fa)])
InsnsGen == NextOf("instructions", [fa \in ToSet(funcs_) |-> InsnsForFunc(mem, fa)])
PseudoGen == NextOf("pseudocode", [fa \in ToSet(funcs_) |-> PseudoForFunc(mem, fa)])

\* Mutant: the end is not told.
RowsIteratorEndless ==
    /\ pc = "rows" /\ (plan = "filter" \/ query.table \in Cached)
    /\ buf # <<>> /\ HandOut(Head(buf)) /\ buf' = Tail(buf)
    /\ UNCHANGED <<query, mem, before, pc, plan, funcs_>>

(* next() of an iterator over rows that are there.                         *)
RowsIterator ==
    /\ pc = "rows" /\ (plan = "filter" \/ query.table \in Cached)
    /\ IF buf # <<>> THEN HandOut(Head(buf)) /\ buf' = Tail(buf) /\ UNCHANGED pc
       ELSE pc' = "done" /\ UNCHANGED <<rows, buf>>
    /\ UNCHANGED <<query, mem, before, plan, funcs_>>

(* INSERT INTO comments: refused without an address or a text, else CCu    *)
(* with the text, as as_c_str() has it, in base64.                         *)
Refused == query.value = NULL \/ query.text = NULL
Comment == [offset |-> HexAddr(query.value), name |-> Base64Decode(Base64Encode(CString(query.text)))]
InsertComment ==
    /\ query.table = "comments" /\ pc = "plan" /\ pc' = "done"
    /\ mem' = IF Refused THEN mem ELSE [mem EXCEPT !.listed["CCj"] = Append(@, Comment)]
    /\ UNCHANGED <<query, before, plan, funcs_, buf, rows>>

(* r2sql_project_open in the statement itself, once: bound.                *)
OpenProject ==
    /\ pc = "rows" /\ mem = before /\ mem' \in Projects(query.table)
    /\ UNCHANGED <<query, before, pc, plan, funcs_, buf, rows>>

Step ==
    \/ Generate \/ BuildXrefs \/ BuildTypes \/ BuildMembers
    \/ BuildStrings \/ BuildImports \/ BuildExports \/ BuildSections \/ BuildSegments \/ BuildWelcome \/ BuildGrep
    \/ BlocksInFunc \/ InsnsInFunc \/ PseudoAtFunc \/ XrefsTo \/ XrefsFrom \/ GrepPattern
    \/ BlocksGen \/ InsnsGen \/ PseudoGen \/ RowsIterator \/ InsertComment

Next == Step \/ OpenProject

Spec == Init /\ [][Next]_vars

(* SQLite goes on to the end of the statement.                             *)
FairSpec == Spec /\ WF_vars(Step)

-----------------------------------------------------------------------------
(* Properties                                                              *)

RowAddresses(row) == {row[c] : c \in DOMAIN row \cap {"addr", "func_addr", "from_addr", "to_addr"}}

(* The types; above all, every address in a row is a signed 64-bit number, *)
(* as SQLite's are, and nothing is read ahead before or after the scan.    *)
TypeOK ==
    /\ query \in Queries /\ pc \in {"plan", "rows", "done"} /\ plan \in {"scan", "filter"}
    /\ pc # "rows" => funcs_ = <<>> /\ buf = <<>>
    /\ ToSet(funcs_) \subseteq Int64
    /\ \A row \in ToSet(rows \o buf) : RowAddresses(row) \subseteq Int64

(* The tables as relations: what a SELECT without WHERE must answer.       *)
Functions == ToSet(mem.funcs)
Content(table) ==
    CASE table \in {"blocks", "instructions"} ->
            UNION {{[func_addr |-> ToSigned(f.entry), addr |-> ToSigned(a)] : a \in Span(f)} :
                      f \in {g \in Functions : g.entry \notin mem.mute}}
      [] table = "pseudocode" -> {[func_addr |-> ToSigned(f.entry), text |-> Pdc(mem, f.entry)] : f \in Functions}
      [] table = "xrefs" ->
            UNION {{[from_addr |-> ToSigned(r.from), to_addr |-> ToSigned(r.to), from_func |-> f.entry] :
                      f \in {g \in Functions : r.from \in Span(g)}} : r \in ToSet(mem.refs)}

(* The filters that ask for rows of a scan: func_addr is the entry of a    *)
(* function or, for blocks and instructions, in none, and every reference  *)
(* comes from a function.                                                  *)
AskedAboutRows ==
    LET v == HexAddr(query.value)
        entries == {f.entry : f \in Functions}
    IN CASE query.table \in {"blocks", "instructions"} -> Holders(mem, v) = {} \/ v \in entries
         [] query.table = "pseudocode" -> v \in entries
         [] query.table = "xrefs" -> \A r \in ToSet(mem.refs) : Holders(mem, r.from) # {}

(* Otherwise the table's filter has rows that its scan has not: radare2    *)
(* answers for the function that holds an address, the decompiler for any  *)
(* address, and with references that come from no function.                *)
Beyond ==
    LET v == HexAddr(query.value)
        loose == {r \in ToSet(mem.refs) : Holders(mem, r.from) = {} /\ v = IF query.column = "to_addr" THEN r.to ELSE r.from}
    IN CASE plan = "scan" -> {}
         [] plan = "filter" /\ query.table \in {"blocks", "instructions"} ->
              {[func_addr |-> query.value, addr |-> ToSigned(a)] : a \in UNION {Span(f) : f \in Spoken(mem, v)}}
         [] plan = "filter" /\ query.table = "pseudocode" -> {[func_addr |-> query.value, text |-> Pdc(mem, v)]}
         [] plan = "filter" /\ query.table = "xrefs" -> {XrefRow(ToSigned(r.from), ToSigned(r.to), NoName) : r \in loose}

Answered == pc = "done" /\ mem = before

(* What a type takes up: to the end of its last field.                     *)
EndOf(f) == f.offset + f.size * Count(f)
Extent(d) == Largest({EndOf(f) : f \in ToSet(d.fields)})
Packed(d) == d.kind = "struct" =>
                \A i \in DOMAIN d.fields : d.fields[i].offset = IF i = 1 THEN 0 ELSE EndOf(d.fields[i - 1])

(* A blank ends a record, and '*' is stripped from its front: a type is    *)
(* shown by the last word of its name, a pointer without a name.           *)
Shown(d) == IF d.name = "*" THEN <<>> ELSE <<d.name>>

(* One row for all the types that are shown alike, of the kind of one of   *)
(* them, and with the size of the one that has this name and kind.         *)
TypesRight ==
    /\ {r.name : r \in ToSet(rows)} = {Shown(d) : d \in ToSet(mem.types)}
    /\ \A r, s \in ToSet(rows) : r.name = s.name => r = s
    /\ \A r \in ToSet(rows) : \E d \in ToSet(mem.types) : r.name = Shown(d) /\ r.kind = d.kind
    /\ \A d \in ToSet(mem.types), r \in ToSet(rows) :
          r.name = FullName(d) /\ r.kind = d.kind /\ d.kind \in {"struct", "union"} /\ d.name \notin mem.mute /\ Packed(d)
            => r.size = Extent(d)

(* The members of a type that is shown by its whole name, and by one kind. *)
MembersRight ==
    \A d \in ToSet(mem.types) :
        LET mine == Select(rows, LAMBDA r : r.type_name = FullName(d)) IN
        Shown(d) = FullName(d) /\ (\A c \in ToSet(mem.types) : Shown(c) = Shown(d) => c.kind = d.kind)
          => Len(mine) = IF d.name \in mem.mute \/ d.kind \notin {"struct", "union", "enum"} THEN 0 ELSE Len(d.fields)

Source(table) == CASE table = "strings" -> "izj" [] table = "imports" -> "iij" [] table = "exports" -> "iEj"
                   [] table = "sections" -> "iSj" [] table = "segments" -> "iSSj"

ListingRight ==
    /\ Len(rows) = Cardinality({i \in 1..Len(mem.listed[Source(query.table)]) :
                       /\ Source(query.table) \notin mem.mute
                       /\ query.column = "text" => mem.listed["izj"][i].string = query.value})
    /\ \A row \in ToSet(rows) : row.addr # 0 => \E j \in ToSet(mem.listed[Source(query.table)]), k \in {"plt", "vaddr"} :
                                                    k \in DOMAIN j /\ HexAddr(row.addr) = j[k]

(* The counts of welcome are those of the tables (tables_welcome.cpp:15).  *)
WelcomeRight ==
    \A row \in ToSet(rows) :
        row.value = CASE row.key = "func_count" -> Len(FuncAddrs(mem)) [] row.key = "string_count" -> Len(StringsCache(mem, {}))
                      [] row.key = "import_count" -> Len(ImportsCache(mem)) [] row.key = "section_count" -> Len(SectionsCache(mem))
                      [] row.key = "segment_count" -> Len(SegmentsCache(mem))

(* grep shows the named things of the other tables, and with a pattern     *)
(* the imports among them that match by their own or their full name.      *)
Import(j) == [addr |-> I64(j, "plt", 0), name |-> <<Str(j, "name")>>]
Named(j, word) == word = Str(j, "name") \/ (Str(j, "libname") # "" /\ word \in {Str(j, "libname"), "!"})

GrepRight ==
    LET shown(kind) == {r \in ToSet(rows) : r.kind = kind}
        places(s) == {r.addr : r \in s}
        imports == ToSet(Elements(Reply(mem, "iij")))
    IN IF query.column = "none"
       THEN /\ places(shown("func")) = ToSet(FuncAddrs(mem)) /\ places(shown("import")) = places(ToSet(ImportsCache(mem)))
            /\ places(shown("export")) = places(ToSet(ExportsCache(mem)))
            /\ places(shown("section")) = places(ToSet(SectionsCache(mem)))
       ELSE {[addr |-> r.addr, name |-> r.name] : r \in shown("import")}
              = {Import(j) : j \in {i \in imports : Named(i, query.value)}}

(* Whatever a statement asks the tables of the code for, it gets the rows  *)
(* of the scan, once each and at every address, whether SQLite hands the   *)
(* filter to the table or not.  A filter that is handed over has other     *)
(* rows too, those of Beyond and no other, and none if it asks for rows of *)
(* the scan.                                                               *)
RowsAreSql ==
    Answered /\ query.table \in Streamed \cup {"xrefs"} =>
        LET asked == {r \in Content(query.table) : Keeps(r)} IN
        /\ IsInjective(rows) /\ ToSet(rows) = asked \cup Beyond
        /\ (query.column = "none" \/ AskedAboutRows) => ToSet(rows) = asked

(* types has one row for each last word of a type's name, no other, and    *)
(* with its size; the members of the types that are shown by their whole   *)
(* names are all there; whatever radare2 prints around them.               *)
TypesAreSql ==
    /\ Answered /\ query.table = "types" => IsInjective(rows) /\ TypesRight
    /\ Answered /\ query.table = "types_members" => MembersRight

(* The tables of what is in the file, their counts in welcome and their    *)
(* names in grep agree with radare2's lists and with each other.           *)
ListsAreSql ==
    /\ Answered /\ query.table \in Listings => ListingRight
    /\ Answered /\ query.table = "welcome" => WelcomeRight
    /\ Answered /\ query.table = "grep" => GrepRight

(* A statement on the program's code and one on the contents of the file   *)
(* answer what SQL would on radare2's data, but for Beyond.                *)
AnswerIsSql == RowsAreSql /\ ListsAreSql

(* What a generator has for each function, and the rows of one function.   *)
Found(table, m) ==
    [fa \in Int64 |-> CASE table = "blocks" -> BlocksForFunc(m, fa)
                        [] table = "instructions" -> InsnsForFunc(m, fa)
                        [] table = "pseudocode" -> PseudoForFunc(m, fa)]
OfFunction(s, fa) == Select(s, LAMBDA r : r.func_addr = fa)

(* A scan shows each function that was there when it started once and as a *)
(* whole, as it was before or after a change that came in between, and no  *)
(* other.                                                                  *)
ScanIsWhole ==
    pc = "done" /\ query.table \in Streamed /\ query.column = "none" =>
        /\ {r.func_addr : r \in ToSet(rows)} \subseteq ToSet(FuncAddrs(before))
        /\ \A fa \in ToSet(FuncAddrs(before)) :
              OfFunction(rows, fa) \in {Found(query.table, before)[fa], Found(query.table, mem)[fa]}

(* The text of a comment reaches radare2 at its address, byte by byte up   *)
(* to the first NUL, where the code drops the rest; an INSERT that is      *)
(* refused changes nothing.                                                *)
UpToNul(t, s) ==
    /\ t \in Seq(1..255) /\ Len(t) <= Len(s) /\ \A i \in 1..Len(t) : t[i] = s[i]
    /\ Len(t) < Len(s) => s[Len(t) + 1] = 0
TextArrives ==
    pc = "done" /\ query.table = "comments" =>
        IF Refused THEN mem = before
        ELSE \E c \in ToSet(mem.listed["CCj"]) : I64Addr(c) = query.value /\ UpToNul(c.name, query.text)

(* Every statement comes to its end.                                       *)
StatementEnds == <>(pc = "done")
=============================================================================
