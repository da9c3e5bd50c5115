----------------------------- MODULE JsonUtils ------------------------------
(***************************************************************************)
(* The conversions between radare2's replies and the rows of r2sql, and    *)
(* back into commands (src/lib/src/json_utils.cpp, cmd_json in             *)
(* backend_common.cpp).  A JSON object is a function from its keys, a text *)
(* a sequence of characters, or of words where only whole words matter.    *)
(***************************************************************************)
EXTENDS Integers, Sequences, FiniteSets

CONSTANT Width   \* how many addresses there are: 2^64

ASSUME WidthAssumption == Width \in Nat \ {0} /\ Width % 2 = 0

Half == Width \div 2
Addresses == 0..(Width - 1)   \* radare2's
Int64 == -Half..(Half - 1)    \* SQLite's

-----------------------------------------------------------------------------
(* Replies and numbers                                                     *)

(* cmd_json and the test for an array: what is not one has no elements.    *)
Elements(reply) == IF reply.array THEN reply.items ELSE <<>>
Null == [array |-> FALSE, items |-> <<>>]
Array(s) == [array |-> TRUE, items |-> s]

\* Mutant: the number is kept as it is.
ToSignedNot(n) == n

(* get<int64_t> of an unsigned number keeps its bits.                      *)
ToSigned(n) == IF n < Half THEN n ELSE n - Width

I64(obj, key, dflt) == IF key \in DOMAIN obj THEN ToSigned(obj[key]) ELSE dflt

I64Addr(obj) == IF "addr" \in DOMAIN obj THEN I64(obj, "addr", 0) ELSE I64(obj, "offset", 0)

\* Mutant: the absolute value, as "%lld" without its sign would be.
HexAddrAbs(v) == IF v < 0 THEN -v ELSE v

(* "0x%llx" of the value as an unsigned number.                            *)
HexAddr(v) == IF v < 0 THEN v + Width ELSE v

-----------------------------------------------------------------------------
(* Text in a command: a text that is passed on as a C string, and          *)
(* base64_encode.  A character of its result is its place in tbl, or Pad.  *)

(* What a C string shows of a text: the bytes in front of the first NUL.   *)
CString(s) ==
    LET nuls == {i \in DOMAIN s : s[i] = 0}
    IN IF nuls = {} THEN s ELSE SubSeq(s, 1, (CHOOSE i \in nuls : \A j \in nuls : i <= j) - 1)

Pad == 64
Bytes == 0..255

ByteAt(s, i) == IF i \in DOMAIN s THEN s[i] ELSE 0

\* Mutant: a rest of two bytes is padded like one of one.
Base64EncodeShort(s) ==
    [k \in 1..(4 * ((Len(s) + 2) \div 3)) |->
        LET i == 3 * ((k - 1) \div 4)
            at == (k - 1) % 4
            left == Len(s) - i
            v == ByteAt(s, i + 1) * 65536 + ByteAt(s, i + 2) * 256 + ByteAt(s, i + 3)
        IN IF left < 3 /\ at > 1 THEN Pad ELSE (v \div 64^(3 - at)) % 64]

(* The k-th character lies in a group of three bytes, of which left exist. *)
Base64Encode(s) ==
    [k \in 1..(4 * ((Len(s) + 2) \div 3)) |->
        LET i == 3 * ((k - 1) \div 4)
            at == (k - 1) % 4
            left == Len(s) - i
            v == ByteAt(s, i + 1) * 65536 + ByteAt(s, i + 2) * 256 + ByteAt(s, i + 3)
        IN IF at > left THEN Pad ELSE (v \div 64^(3 - at)) % 64]

(* radare2's decoder, bit by bit.                                          *)
Base64Decode(c) ==
    LET bit(p) == (c[(p \div 6) + 1] \div 2^(5 - (p % 6))) % 2
        byte(p) == 128 * bit(p) + 64 * bit(p + 1) + 32 * bit(p + 2) + 16 * bit(p + 3)
                     + 8 * bit(p + 4) + 4 * bit(p + 5) + 2 * bit(p + 6) + bit(p + 7)
        pads == Cardinality({k \in DOMAIN c : c[k] = Pad})
    IN [j \in 1..((3 * Len(c)) \div 4 - pads) |-> byte(8 * (j - 1))]

-----------------------------------------------------------------------------
(* The list of types: parse_tk_dump                                        *)

Kinds == {"atomic", "struct", "union", "enum", "typedef", "func", "type"}

(* The ends of the records: '\n' and ' ' separate them, as does the end.   *)
Ends(tk) == {i \in DOMAIN tk : tk[i] \in {"\n", " "}} \cup {Len(tk) + 1}

\* Mutant: the '\r' behind is kept.
StripFront(text) ==
    LET kept == {i \in DOMAIN text : \E j \in 1..i : text[j] \notin {"*", "\r"}}
    IN IF kept = {} THEN <<>>
       ELSE LET first == CHOOSE i \in kept : \A j \in kept : i <= j
                last == CHOOSE i \in kept : \A j \in kept : j <= i
            IN SubSeq(text, first, last)

(* Without the marks in front and the '\r' behind.                         *)
Strip(text) ==
    LET kept == {i \in DOMAIN text : /\ \E j \in 1..i : text[j] \notin {"*", "\r"}
                                     /\ \E j \in i..Len(text) : text[j] # "\r"}
    IN IF kept = {} THEN <<>>
       ELSE LET first == CHOOSE i \in kept : \A j \in kept : i <= j
                last == CHOOSE i \in kept : \A j \in kept : j <= i
            IN SubSeq(text, first, last)

(* The records, and where each begins.                                     *)
Records(tk) ==
    LET bounds == {p \in ({0} \cup Ends(tk)) \X Ends(tk) :
                      p[1] < p[2] /\ \A i \in (p[1] + 1)..(p[2] - 1) : tk[i] \notin {"\n", " "}}
    IN {[at |-> p[1], record |-> Strip(SubSeq(tk, p[1] + 1, p[2] - 1))] : p \in bounds}

(* The name of a record NAME=KIND, as a set of one, if it is a type's: a   *)
(* name that holds a '.' is a member's.                                    *)
TypeName(r) ==
    {SubSeq(r, 1, eq - 1) : eq \in {i \in DOMAIN r : /\ r[1] # "#" /\ r[i] = "="
                                                  /\ Len(r) = i + 1 /\ r[i + 1] \in Kinds
                                                  /\ \A j \in 1..(i - 1) : r[j] \notin {"=", "."}}}

(* emplace keeps the first of two records of one name.                     *)
ParseTkDump(tk) ==
    LET types == UNION {{[at |-> r.at, name |-> n, kind |-> r.record[Len(r.record)]] : n \in TypeName(r.record)} :
                           r \in Records(tk)}
    IN {[name |-> t.name, kind |-> t.kind] :
           t \in {u \in types : \A v \in types : v.at < u.at => v.name # u.name}}
=============================================================================
