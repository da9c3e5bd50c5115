----------------------------- MODULE R2PipeProof -----------------------------
(***************************************************************************)
(* Proofs about R2Pipe for every set of workers, any number of commands    *)
(* and replies of any length.  When a command is one line (MaxLines = 1),  *)
(* the pipes never hold more than one exchange (IInv); what the callers    *)
(* get and what the session saves follow from it.  Whatever the commands   *)
(* are, the stored project is safe and the child is reaped (SafeInv).      *)
(***************************************************************************)
EXTENDS R2Pipe, SeqFacts, FiniteSetTheorems

-----------------------------------------------------------------------------
(* The inductive invariant for commands of one line, in named parts: the   *)
(* two pipes never hold more than one exchange, and `opc` tells which.     *)

(* The lines that may be under way at each point of the owner.             *)
AskedAt == [listing |-> {"Pl"}, waiting |-> {"aaa", "P"}, ready |-> {"user"}, drain |-> {"Ps"}]

Exchanging == holder # Nobody \/ opc = "drain"

(* One exchange: the line is in the pipe, or the child works on it, or the *)
(* rest of the reply is in the pipe with its NUL at the end.  Nothing of   *)
(* another exchange is in the pipes.                                       *)
Asked == /\ child = "idle" /\ Len(inp) = 1 /\ inp[1].id = inflight /\ inp[1].what \in AskedAt[opc]
Worked == /\ child = "busy" /\ inp = <<>> /\ line.id = inflight /\ line.what \in AskedAt[opc]
Unread == inflight # 0 => parts[inflight] = 0
Replied == /\ child = "idle" /\ inp = <<>> /\ out # <<>> /\ out[Len(out)] = NUL
           /\ inflight # 0 => Len(got) + Len(out) = parts[inflight] + 1
Died == child = "exited" /\ died

OwnTokens ==
    /\ \A k \in 1..Len(got) : got[k].of = inflight
    /\ \A k \in 1..Len(out) : out[k].of = inflight \/ (k = Len(out) /\ out[k] = NUL)

Exchange ==
    /\ OwnTokens
    /\ \/ (Asked \/ Worked) /\ Unread /\ got = <<>> /\ out = <<>>
       \/ Replied
       \/ Died

(* Between two exchanges the pipes are empty.                              *)
Settled == out = <<>> /\ (Died \/ (child = "idle" /\ inp = <<>>))

(* The child's greeting.                                                   *)
Greeting ==
    /\ out # <<>> /\ out[1] = NUL => Len(out) = 1
    /\ \/ child = "starting" /\ inp = <<>> /\ out = <<>>
       \/ child = "idle" /\ inp = <<>> /\ out # <<>>
       \/ child = "exited" /\ (died \/ out = <<>>)

PipeInv ==
    /\ Exchanging => Exchange
    /\ opc \in {"list", "open", "analyze", "save"} => Settled
    /\ opc = "ready" /\ ~Exchanging => Settled
    /\ opc = "handshake" => Greeting
    /\ opc = "quit" => IF failed THEN child = "exited" \/ (child = "idle" /\ inp = <<>>) ELSE Settled
    /\ opc = "reap" => child = "exited" \/ (child = "idle" /\ \A k \in 1..Len(inp) : inp[k].what = "q")

(* Who exchanges, and what start and shutdown have made of the child.      *)
OwnerInv ==
    /\ opc \in {"listing", "waiting"} <=> holder = Owner
    /\ holder \in Workers => opc = "ready"
    /\ \A w \in Workers : wpc[w] # "idle" => opc = "ready"
    /\ holder = Nobody => inflight = 0 /\ got = <<>>
    /\ holder # Nobody => inflight \in 1..lastId /\ inflight \notin answered
    /\ opc = "spawn" => child = "none" /\ inp = <<>> /\ out = <<>>
    /\ opc \in {"closed", "failed"} => child \in {"none", "reaped"}
    /\ fds <=> opc \notin {"spawn", "reap", "closed", "failed"}
    /\ pid <=> opc \notin {"spawn", "closed", "failed"}
    /\ failed => opc \in {"quit", "reap", "failed"}
    /\ opc = "failed" => failed

(* There are numbers enough for the commands of start and the callers that *)
(* wait for m_.                                                            *)
Waiting == {w \in Workers : wpc[w] = "want"}
CountInv ==
    /\ IsFiniteSet(Waiting) /\ lastId + Cardinality(Waiting) <= MaxCmds
    /\ opc \in {"spawn", "handshake", "list"} => lastId = 0
    /\ opc \in {"listing", "open", "analyze"} => lastId <= 1

AnswerInv ==
    /\ WholeReply
    /\ \A i \in answered : i <= lastId
    /\ \A i \in Ids : i \notin answered => returned[i] = <<>>
    /\ \A i \in Ids : i > lastId => parts[i] = 0

(* With -w and a project the edits have been written once Ps is answered.  *)
SavedInv ==
    opts.write /\ opts.project /\ ~died =>
        /\ opc = "drain" /\ child = "idle" /\ inp = <<>> => ~edited
        /\ opc \in {"quit", "reap", "closed"} /\ ~failed => ~edited

(* A project that is on the disk is loaded, unless start is still about to *)
(* find out, or to load it.                                                *)
Named == (\E k \in 1..Len(got) : got[k].name) \/ (\E k \in 1..Len(out) : out[k].name)
Loading == IF child = "busy" THEN line.what = "P" ELSE inp # <<>> /\ inp[1].what = "P"
ProjectInv ==
    /\ ProjectKept
    /\ disk = "previous" => opts.project
    /\ disk = "previous" /\ ChildReads =>
          /\ opc \in {"analyze", "ready", "save", "drain"} => loaded
          /\ opc = "listing" /\ child = "idle" /\ inp = <<>> => Named
          /\ opc = "waiting" => loaded \/ Loading

IInv == TypeOK /\ PipeInv /\ OwnerInv /\ CountInv /\ AnswerInv /\ SavedInv /\ ProjectInv

(* With a command of several lines the reply to one call may reach the     *)
(* next, and IInv is lost.  This remains, of every session that has been   *)
(* opened: only one that has loaded the stored project saves.              *)
Serving == {"ready", "save", "drain", "quit", "reap", "closed"}
ServingInv ==
    /\ TypeOK /\ OwnerInv /\ CountInv /\ ProjectKept
    /\ opc \in Serving /\ ~failed /\ \A i \in answered : i <= lastId
    /\ disk = "previous" /\ ChildReads => loaded

(* So every state is one of these, whatever the commands are.              *)
SafeInv == IInv \/ ServingInv

-----------------------------------------------------------------------------
(* The pipe as a sequence                                                  *)

(* A chunk and what is left of the pipe.                                   *)
LEMMA SplitFacts ==
    ASSUME NEW S, NEW s \in Seq(S), NEW n \in 1..Len(s)
    PROVE  LET chunk == SubSeq(s, 1, n)
               rest == SubSeq(s, n + 1, Len(s))
           IN /\ chunk \in Seq(S) /\ Len(chunk) = n /\ \A k \in 1..n : chunk[k] = s[k]
              /\ rest \in Seq(S) /\ Len(rest) = Len(s) - n
              /\ \A k \in 1..Len(rest) : rest[k] = s[n + k]
<1>1. Len(s) \in Nat /\ n \in Nat /\ n <= Len(s) /\ \A i \in 1..Len(s) : s[i] \in S
  BY LenProperties, ElementOfSeq
<1>2. \A i \in 1..n : s[i] \in S
  BY <1>1
<1>3. \A i \in (n + 1)..Len(s) : s[i] \in S
  BY <1>1
<1>4. /\ SubSeq(s, 1, n) \in Seq(S) /\ Len(SubSeq(s, 1, n)) = n
      /\ \A k \in 1..n : SubSeq(s, 1, n)[k] = s[k]
  BY <1>1, <1>2
<1>5. /\ SubSeq(s, n + 1, Len(s)) \in Seq(S) /\ Len(SubSeq(s, n + 1, Len(s))) = Len(s) - n
      /\ \A k \in 1..(Len(s) - n) : SubSeq(s, n + 1, Len(s))[k] = s[n + k]
  BY <1>1, <1>3
<1> QED BY <1>4, <1>5

(* What precedes the NUL, when there is one and it comes last.             *)
LEMMA BeforeLastNul ==
    ASSUME NEW s \in Seq(Tokens), s # <<>>, s[Len(s)] = NUL,
           \A k \in 1..(Len(s) - 1) : s[k] # NUL
    PROVE  /\ BeforeNul(s) \in Seq(Tokens) /\ Len(BeforeNul(s)) = Len(s) - 1
           /\ \A k \in 1..(Len(s) - 1) : BeforeNul(s)[k] = s[k]
<1> DEFINE First(i) == (i = Len(s) + 1 \/ s[i] = NUL) /\ \A j \in 1..(i - 1) : s[j] # NUL
<1>1. Len(s) \in Nat \ {0} /\ \A i \in 1..Len(s) : s[i] \in Tokens
  BY EmptySeq, LenProperties, ElementOfSeq
<1>2. Len(s) \in 1..(Len(s) + 1) /\ First(Len(s))
  BY <1>1
<1>3. \A i \in 1..(Len(s) + 1) : First(i) => i = Len(s)
  BY <1>1
<1> HIDE DEF First
<1>4. (CHOOSE i \in 1..(Len(s) + 1) : First(i)) = Len(s)
  BY <1>2, <1>3
<1>5. BeforeNul(s) = SubSeq(s, 1, Len(s) - 1)
  BY <1>4 DEF BeforeNul, First
<1> DEFINE n == Len(s) - 1
<1>6. n \in Nat /\ n <= Len(s) /\ \A i \in 1..n : s[i] \in Tokens
  BY <1>1
<1>7. /\ SubSeq(s, 1, n) \in Seq(Tokens) /\ Len(SubSeq(s, 1, n)) = n
      /\ \A k \in 1..n : SubSeq(s, 1, n)[k] = s[k]
  <2> HIDE DEF n
  <2> QED BY <1>6
<1> QED BY <1>5, <1>7

(* What the child writes for one line.                                     *)
LEMMA ReplyFacts ==
    ASSUME NEW id \in 0..MaxCmds, NEW n \in Nat, NEW what
    PROVE  /\ Reply(id, n, what) \in Seq(Tokens) /\ Len(Reply(id, n, what)) = n + 1
           /\ Reply(id, n, what)[n + 1] = NUL
           /\ \A k \in 1..n :
                 /\ Reply(id, n, what)[k].of = id
                 /\ Reply(id, n, what)[k].name <=> (k = n /\ what = "Pl" /\ disk # "absent")
<1> DEFINE e(k) == Data(id, k = n /\ what = "Pl" /\ disk # "absent")
           data == [k \in 1..n |-> e(k)]
<1>0. \A b \in BOOLEAN : Data(id, b) \in Tokens /\ Data(id, b).of = id /\ Data(id, b).name = b
  BY BoundsAssumption DEF Data, Tokens
<1>1. /\ NUL \in Tokens /\ \A k \in 1..n : e(k) \in Tokens
      /\ \A k \in 1..n : e(k).of = id /\ (e(k).name <=> (k = n /\ what = "Pl" /\ disk # "absent"))
  <2>1. NUL \in Tokens
    BY BoundsAssumption DEF NUL, Tokens
  <2>2. ASSUME NEW k \in 1..n
        PROVE  /\ e(k) \in Tokens /\ e(k).of = id
               /\ e(k).name <=> (k = n /\ what = "Pl" /\ disk # "absent")
    <3> DEFINE b == k = n /\ what = "Pl" /\ disk # "absent"
    <3>1. b \in BOOLEAN
      OBVIOUS
    <3> HIDE DEF b
    <3>2. Data(id, b) \in Tokens /\ Data(id, b).of = id /\ (Data(id, b).name <=> b)
      BY <1>0, <3>1
    <3> QED BY <3>2 DEF b
  <2> QED BY <2>1, <2>2
<1>2. data \in Seq(Tokens) /\ Len(data) = n /\ \A k \in 1..n : data[k] = e(k)
  BY <1>1
<1>3. <<NUL>> \in Seq(Tokens) /\ Len(<<NUL>>) = 1 /\ <<NUL>>[1] = NUL
  BY <1>1
<1>4. Reply(id, n, what) = data \o <<NUL>>
  BY DEF Reply
<1> HIDE DEF data, e
<1>5. /\ data \o <<NUL>> \in Seq(Tokens) /\ Len(data \o <<NUL>>) = n + 1
      /\ \A k \in 1..(n + 1) : (data \o <<NUL>>)[k] = IF k <= n THEN data[k] ELSE <<NUL>>[k - n]
  BY <1>2, <1>3, ConcatProperties
<1>6. \A k \in 1..n : (data \o <<NUL>>)[k] = e(k)
  BY <1>2, <1>5
<1>7. \A k \in 1..n :
         /\ (data \o <<NUL>>)[k].of = id
         /\ (data \o <<NUL>>)[k].name <=> (k = n /\ what = "Pl" /\ disk # "absent")
  BY <1>1, <1>6
<1> QED BY <1>3, <1>4, <1>5, <1>7

(* One read in an exchange: it keeps a chunk, or ends the reply, and then  *)
(* the pipe is empty.                                                      *)
ReadOn ==
    /\ UNCHANGED <<holder, inflight, returned, answered>>
    /\ got' \in Seq(Tokens) /\ Len(got') + Len(out') = Len(got) + Len(out)
    /\ OwnTokens' /\ out # <<>>
    /\ out[Len(out)] = NUL => out' # <<>> /\ out'[Len(out')] = NUL
    /\ Named => Named'

ReadEnds ==
    \E text \in Seq(Tokens) :
        /\ Finish(text) /\ out' = <<>>
        /\ \A k \in 1..Len(text) : text[k].of = inflight
        /\ \/ out # <<>> /\ out[Len(out)] = NUL /\ Len(text) + 1 = Len(got) + Len(out)
           \/ ~ChildReads
        /\ Named => ListsProject(text)

(* What a read takes from the pipe.                                        *)
LEMMA ReadFacts ==
    ASSUME TypeOK, OwnTokens, inflight \in Ids, NEW t, ReadChunk(t)
    PROVE  out' \in Seq(Tokens) /\ UNCHANGED <<lastId, inp, host>> /\ (ReadOn \/ ReadEnds)
<1>1. /\ out \in Seq(Tokens) /\ got \in Seq(Tokens) /\ Len(out) \in Nat /\ Len(got) \in Nat
      /\ inflight # -1
  BY LenProperties, BoundsAssumption DEF TypeOK, CallTypes, PipeTypes, Ids
<1>2. UNCHANGED <<lastId, inp, host>>
  BY DEF ReadChunk
<1>3. /\ \A k \in 1..Len(got) : got[k].of = inflight
      /\ \A k \in 1..Len(out) : out[k].of = inflight \/ (k = Len(out) /\ out[k] = NUL)
      /\ \A k \in 1..(Len(out) - 1) : out[k] # NUL
  BY <1>1 DEF OwnTokens, NUL
<1>4. CASE out = <<>> /\ ~ChildReads /\ Finish(got) /\ UNCHANGED out
  <2>1. Named => ListsProject(got)
    BY <1>4 DEF Named, ListsProject
  <2> QED BY <1>1, <1>2, <1>3, <1>4, <2>1 DEF ReadEnds
<1>5. ASSUME NEW n \in 1..Len(out),
             out' = SubSeq(out, n + 1, Len(out)),
             IF HasNul(SubSeq(out, 1, n)) THEN Finish(got \o BeforeNul(SubSeq(out, 1, n)))
             ELSE got' = got \o SubSeq(out, 1, n) /\ UNCHANGED <<holder, inflight, returned, answered>>
      PROVE  out' \in Seq(Tokens) /\ (ReadOn \/ ReadEnds)
  <2> DEFINE chunk == SubSeq(out, 1, n)
  <2>1. /\ chunk \in Seq(Tokens) /\ Len(chunk) = n /\ \A k \in 1..n : chunk[k] = out[k]
        /\ out' \in Seq(Tokens) /\ Len(out') = Len(out) - n
        /\ \A k \in 1..Len(out') : out'[k] = out[n + k]
    BY <1>1, <1>5, SplitFacts
  <2>2. n \in Nat \ {0} /\ n <= Len(out) /\ out # <<>>
    BY <1>1, <1>5
  <2> HIDE DEF chunk
  <2>3. CASE HasNul(chunk)
    <3>1. n = Len(out) /\ chunk[n] = NUL /\ \A k \in 1..(n - 1) : chunk[k] # NUL
      <4>1. PICK i \in 1..n : chunk[i] = NUL
        BY <2>1, <2>3 DEF HasNul
      <4>2. out[i] = NUL /\ i \in 1..Len(out) /\ i \notin 1..(Len(out) - 1)
        BY <1>1, <1>3, <2>1, <2>2, <4>1
      <4>3. i = n /\ n = Len(out)
        BY <1>1, <2>2, <4>1, <4>2
      <4>4. ASSUME NEW k \in 1..(n - 1) PROVE chunk[k] # NUL
        <5>1. k \in 1..n /\ k \in 1..(Len(out) - 1)
          BY <2>2, <4>3
        <5> QED BY <1>3, <2>1, <5>1
      <4> QED BY <4>1, <4>3, <4>4
    <3>2. chunk # <<>> /\ out' = <<>>
      BY <2>1, <2>2, <3>1, EmptySeq
    <3> DEFINE last == BeforeNul(chunk)
               text == got \o last
    <3>3. last \in Seq(Tokens) /\ Len(last) = n - 1 /\ \A k \in 1..(n - 1) : last[k] = chunk[k]
      BY <2>1, <3>1, <3>2, BeforeLastNul
    <3> HIDE DEF last
    <3>4. /\ text \in Seq(Tokens) /\ Len(text) = Len(got) + Len(last)
          /\ \A k \in 1..Len(got) : k \in 1..Len(text) /\ text[k] = got[k]
          /\ \A k \in 1..Len(last) : Len(got) + k \in 1..Len(text) /\ text[Len(got) + k] = last[k]
          /\ \A k \in 1..Len(text) : k \in 1..Len(got) \/ \E j \in 1..Len(last) : k = Len(got) + j
      <4>1. Len(text) = Len(got) + Len(last)
        BY <1>1, <3>3, ConcatFacts
      <4>2. text \in Seq(Tokens)
        BY <1>1, <3>3, ConcatFacts
      <4>3. \A k \in 1..Len(got) : k \in 1..Len(text) /\ text[k] = got[k]
        BY <1>1, <3>3, ConcatFacts
      <4>4. \A k \in 1..Len(last) : Len(got) + k \in 1..Len(text) /\ text[Len(got) + k] = last[k]
        BY <1>1, <3>3, ConcatFacts
      <4>5. \A k \in 1..Len(text) : k \in 1..Len(got) \/ \E j \in 1..Len(last) : k = Len(got) + j
        BY <1>1, <3>3, ConcatFacts
      <4> QED BY <4>1, <4>2, <4>3, <4>4, <4>5
    <3>5. Finish(text)
      BY <1>5, <2>3 DEF chunk, last
    <3> HIDE DEF text
    <3>6. \A k \in 1..Len(text) : text[k].of = inflight
      <4>1. \A k \in 1..Len(last) : last[k].of = inflight
        BY <1>1, <1>3, <2>1, <2>2, <3>1, <3>3
      <4> TAKE k \in 1..Len(text)
      <4>2. CASE k \in 1..Len(got)
        BY <1>3, <3>4, <4>2
      <4>3. ASSUME NEW j \in 1..Len(last), k = Len(got) + j PROVE text[k].of = inflight
        BY <3>4, <4>1, <4>3
      <4> QED BY <3>4, <4>2, <4>3
    <3>7. Named => ListsProject(text)
      <4>1. \A k \in 1..Len(out) : out[k].name => k \in 1..Len(last) /\ last[k] = out[k]
        BY <1>1, <2>1, <2>2, <3>1, <3>3 DEF NUL
      <4> QED BY <3>4, <4>1 DEF Named, ListsProject
    <3>8. out[Len(out)] = NUL /\ Len(text) + 1 = Len(got) + Len(out)
      BY <1>1, <2>1, <2>2, <3>1, <3>3, <3>4
    <3> QED BY <2>1, <2>2, <3>2, <3>4, <3>5, <3>6, <3>7, <3>8 DEF ReadEnds
  <2>4. CASE ~HasNul(chunk)
    <3>1. got' = got \o chunk /\ UNCHANGED <<holder, inflight, returned, answered>>
      BY <1>5, <2>4 DEF chunk
    <3>2. /\ got' \in Seq(Tokens) /\ Len(got') = Len(got) + n
          /\ \A k \in 1..Len(got) : k \in 1..Len(got') /\ got'[k] = got[k]
          /\ \A k \in 1..n : Len(got) + k \in 1..Len(got') /\ got'[Len(got) + k] = out[k]
          /\ \A k \in 1..Len(got') : k \in 1..Len(got) \/ \E j \in 1..n : k = Len(got) + j
      <4>1. Len(got') = Len(got) + n
        BY <1>1, <2>1, <3>1, ConcatFacts
      <4>2. got' \in Seq(Tokens)
        BY <1>1, <2>1, <3>1, ConcatFacts
      <4>3. \A k \in 1..Len(got) : k \in 1..Len(got') /\ got'[k] = got[k]
        BY <1>1, <2>1, <3>1, ConcatFacts
      <4>4. \A k \in 1..n : Len(got) + k \in 1..Len(got') /\ got'[Len(got) + k] = out[k]
        <5> DEFINE s == got \o chunk
        <5>1. got \in Seq(Tokens) /\ chunk \in Seq(Tokens)
          BY <1>1, <2>1
        <5>2. \A k \in 1..Len(chunk) : Len(got) + k \in 1..Len(s) /\ s[Len(got) + k] = chunk[k]
          BY <5>1, ConcatFacts
        <5> HIDE DEF s
        <5>3. got' = s /\ Len(chunk) = n /\ \A k \in 1..n : chunk[k] = out[k]
          BY <2>1, <3>1 DEF s
        <5> QED BY <5>2, <5>3
      <4>5. \A k \in 1..Len(got') : k \in 1..Len(got) \/ \E j \in 1..n : k = Len(got) + j
        <5>1. \A k \in 1..(Len(got) + n) :
                 k \in 1..Len(got) \/ (k - Len(got) \in 1..n /\ k = Len(got) + (k - Len(got)))
          BY <1>1, <2>2
        <5> QED BY <4>1, <5>1
      <4> QED BY <4>1, <4>2, <4>3, <4>4, <4>5
    <3>4. \A k \in 1..n : out[k] # NUL /\ out[k].of = inflight
      BY <1>1, <1>3, <2>1, <2>2, <2>4 DEF HasNul
    <3>5. OwnTokens'
      <4>1. ASSUME NEW k \in 1..Len(got') PROVE got'[k].of = inflight
        <5>1. CASE k \in 1..Len(got)
          BY <1>3, <3>2, <5>1
        <5>2. ASSUME NEW j \in 1..n, k = Len(got) + j PROVE got'[k].of = inflight
          BY <3>2, <3>4, <5>2
        <5> QED BY <3>2, <5>1, <5>2
      <4>2. ASSUME NEW k \in 1..Len(out')
            PROVE  out'[k].of = inflight \/ (k = Len(out') /\ out'[k] = NUL)
        <5>1. n + k \in 1..Len(out) /\ (n + k = Len(out) => k = Len(out')) /\ out'[k] = out[n + k]
          BY <1>1, <2>1, <2>2
        <5> QED BY <1>3, <5>1
      <4> QED BY <3>1, <4>1, <4>2 DEF OwnTokens
    <3>6. ASSUME out[Len(out)] = NUL PROVE out' # <<>> /\ out'[Len(out')] = NUL
      <4>1. Len(out) \notin 1..n /\ n < Len(out)
        BY <1>1, <2>2, <3>4, <3>6
      <4>2. Len(out') \in Nat \ {0} /\ n + Len(out') = Len(out)
        BY <1>1, <2>1, <2>2, <4>1
      <4> QED BY <2>1, <3>6, <4>2, EmptySeq
    <3>7. ASSUME Named PROVE Named'
      <4>1. ASSUME NEW k \in 1..Len(got), got[k].name PROVE Named'
        BY <3>2, <4>1 DEF Named
      <4>2. ASSUME NEW k \in 1..n, out[k].name PROVE Named'
        BY <3>2, <4>2 DEF Named
      <4>3. ASSUME NEW k \in (n + 1)..Len(out), out[k].name PROVE Named'
        <5>1. k - n \in 1..Len(out') /\ out'[k - n] = out[k]
          BY <1>1, <2>1, <2>2
        <5> QED BY <4>3, <5>1 DEF Named
      <4>4. \A k \in 1..Len(out) : k \in 1..n \/ k \in (n + 1)..Len(out)
        BY <1>1, <2>2
      <4> QED BY <3>7, <4>1, <4>2, <4>3, <4>4 DEF Named
    <3> QED BY <1>1, <2>1, <2>2, <3>1, <3>2, <3>5, <3>6, <3>7 DEF ReadOn
  <2> QED BY <2>1, <2>3, <2>4
<1> QED BY <1>2, <1>4, <1>5 DEF ReadChunk

-----------------------------------------------------------------------------
(* The steps of the owner that exchange nothing                            *)

(* The owner is none of the workers.                                       *)
LEMMA OwnerFacts == Owner \notin Workers /\ Nobody \notin Workers /\ Owner # Nobody
BY WorkersAssumption DEF Owner, Nobody

(* A step that leaves a group of variables alone keeps their types.        *)
LEMMA TypesKept ==
    /\ OwnerTypes /\ UNCHANGED ownerVars => OwnerTypes'
    /\ CallTypes /\ UNCHANGED callVars => CallTypes'
    /\ ChildTypes /\ UNCHANGED childVars => ChildTypes'
    /\ PipeTypes /\ UNCHANGED pipeVars => PipeTypes'
<1>1. OwnerTypes /\ UNCHANGED ownerVars => OwnerTypes'
  BY DEF OwnerTypes, ownerVars
<1>2. CallTypes /\ UNCHANGED callVars => CallTypes'
  BY DEF CallTypes, callVars
<1>3. ChildTypes /\ UNCHANGED childVars => ChildTypes'
  BY DEF ChildTypes, childVars
<1>4. PipeTypes /\ UNCHANGED pipeVars => PipeTypes'
  BY DEF PipeTypes, pipeVars
<1> QED BY <1>1, <1>2, <1>3, <1>4

(* What has been answered depends on these variables alone.                *)
LEMMA AnswersKept ==
    AnswerInv /\ UNCHANGED <<returned, answered, lastId, parts>> /\ (died => died') => AnswerInv'
BY DEF AnswerInv, WholeReply, OwnOutput

(* start makes the pipes and the child.                                    *)
LEMMA SpawnKeeps == IInv /\ Spawn => IInv'
<1> SUFFICES ASSUME IInv, Spawn PROVE IInv'
  OBVIOUS
<1> USE DEF IInv
<1>0. /\ opc = "spawn" /\ opc' \in {"handshake", "failed"}
      /\ UNCHANGED <<callVars, pipeVars>> /\ UNCHANGED <<line, parts, died, loaded, edited, disk>>
      /\ UNCHANGED <<opts, host>>
      /\ IF opc' = "handshake" THEN child' = "starting" /\ pid' = TRUE /\ fds' = TRUE /\ UNCHANGED failed
         ELSE failed' = TRUE /\ UNCHANGED <<child, pid, fds>>
  BY DEF Spawn, Goto
<1>1. TypeOK'
  <2>1. OwnerTypes'
    BY <1>0 DEF TypeOK, OwnerTypes
  <2>2. ChildTypes'
    BY <1>0 DEF TypeOK, ChildTypes
  <2> QED BY <1>0, <2>1, <2>2, TypesKept DEF TypeOK
<1> USE <1>0 DEF callVars, pipeVars
<1>2. OwnerInv'
  BY OwnerFacts DEF OwnerInv
<1>3. PipeInv'
  <2>1. holder = Nobody /\ inp = <<>> /\ out = <<>>
    BY OwnerFacts DEF OwnerInv, TypeOK, CallTypes
  <2> QED BY <2>1 DEF PipeInv, Exchanging, Greeting
<1>4. CountInv' /\ AnswerInv'
  BY AnswersKept DEF CountInv, Waiting
<1>5. SavedInv' /\ ProjectInv'
  BY DEF SavedInv, ProjectInv, ProjectKept
<1> QED BY <1>1, <1>2, <1>3, <1>4, <1>5

(* start reads the first byte.                                             *)
LEMMA HandshakeKeeps == IInv /\ Handshake => IInv'
<1> SUFFICES ASSUME IInv, Handshake PROVE IInv'
  OBVIOUS
<1>0. /\ opc = "handshake" /\ Greeting /\ holder = Nobody /\ ~failed
      /\ UNCHANGED <<opts, pid, fds, host, callVars, childVars, inp>>
      /\ opc' \in {"list", "analyze", "ready", "quit"} /\ (opc' = "list" => opts.project)
      /\ (opc' \in {"analyze", "ready"} => ~opts.project)
      /\ failed' = (opc' = "quit")
  BY OwnerFacts DEF IInv, Handshake, Goto, Commence, PipeInv, OwnerInv, TypeOK, CallTypes, OwnerTypes
<1>1. /\ out' \in Seq(Tokens)
      /\ IF opc' = "quit" THEN child = "exited" \/ (child = "idle" /\ inp = <<>>) ELSE Settled'
  <2>1. CASE out # <<>> /\ out' = Tail(out)
    <3>1. out' \in Seq(Tokens) /\ out[1] = Head(out) /\ (Len(out) = 1 => out' = <<>>)
      BY <2>1, TailFacts, EmptySeq DEF IInv, TypeOK, PipeTypes
    <3>2. opc' # "quit" => Head(out) = NUL
      BY <1>0, <2>1 DEF Handshake, Goto
    <3> QED BY <1>0, <2>1, <3>1, <3>2 DEF Greeting, Settled, Died, childVars
  <2>2. CASE out = <<>> /\ ~ChildReads /\ opc' = "quit" /\ UNCHANGED out
    BY <1>0, <2>2 DEF Greeting, ChildReads, IInv, TypeOK, PipeTypes
  <2> QED BY <2>1, <2>2 DEF Handshake, Goto
<1> USE DEF IInv
<1>2. TypeOK'
  <2>1. OwnerTypes' /\ PipeTypes'
    BY <1>0, <1>1 DEF TypeOK, OwnerTypes, PipeTypes
  <2> QED BY <1>0, <2>1, TypesKept DEF TypeOK
<1> USE <1>0 DEF callVars, childVars
<1>3. OwnerInv'
  BY OwnerFacts DEF OwnerInv
<1>4. PipeInv'
  BY <1>1 DEF PipeInv, Exchanging
<1>5. CountInv' /\ AnswerInv'
  BY AnswersKept DEF CountInv, Waiting
<1>6. SavedInv' /\ ProjectInv'
  BY DEF SavedInv, ProjectInv, ProjectKept, ChildReads
<1> QED BY <1>2, <1>3, <1>4, <1>5, <1>6

(* shutdown begins when no call is in progress.                            *)
LEMMA BeginShutdownKeeps == IInv /\ BeginShutdown => IInv'
<1> SUFFICES ASSUME IInv, BeginShutdown PROVE IInv'
  OBVIOUS
<1>0. /\ opc = "ready" /\ UNCHANGED <<opts, failed, pid, fds, host, callVars, childVars, pipeVars>>
      /\ opc' \in {"save", "quit"} /\ (opc' = "quit" => ~(opts.write /\ opts.project))
      /\ \A w \in Workers : wpc[w] = "idle"
  BY DEF BeginShutdown, Goto
<1>1. holder = Nobody
  BY <1>0, OwnerFacts DEF IInv, OwnerInv, TypeOK, CallTypes
<1> USE DEF IInv
<1>2. TypeOK'
  <2>1. OwnerTypes'
    BY <1>0 DEF TypeOK, OwnerTypes
  <2> QED BY <1>0, <2>1, TypesKept DEF TypeOK
<1> USE <1>0 DEF callVars, childVars, pipeVars
<1>3. OwnerInv'
  BY <1>1, OwnerFacts DEF OwnerInv
<1>4. PipeInv'
  BY <1>1 DEF PipeInv, OwnerInv, Exchanging, Settled, Died
<1>5. CountInv' /\ AnswerInv'
  BY AnswersKept DEF CountInv, Waiting
<1>6. SavedInv' /\ ProjectInv'
  BY DEF SavedInv, ProjectInv, ProjectKept, ChildReads
<1> QED BY <1>2, <1>3, <1>4, <1>5, <1>6

(* shutdown waits for the child.                                           *)
LEMMA ReapKeeps == IInv /\ Reap => IInv'
<1> SUFFICES ASSUME IInv, Reap PROVE IInv'
  OBVIOUS
<1>0. /\ opc = "reap" /\ child' = "reaped" /\ ~pid' /\ line' = NoLine
      /\ opc' = (IF failed THEN "failed" ELSE "closed")
      /\ UNCHANGED <<callVars, pipeVars>> /\ UNCHANGED <<parts, died, loaded, edited, disk>>
      /\ UNCHANGED <<opts, failed, fds, host>> /\ pid' = FALSE
  BY DEF Reap, Ended, Goto
<1>1. holder = Nobody /\ ~fds /\ NoLine \in Lines
  BY <1>0, OwnerFacts, BoundsAssumption DEF IInv, OwnerInv, TypeOK, CallTypes, NoLine, Lines
<1> USE DEF IInv
<1>2. TypeOK'
  <2>1. OwnerTypes' /\ ChildTypes'
    BY <1>0, <1>1 DEF TypeOK, OwnerTypes, ChildTypes
  <2> QED BY <1>0, <2>1, TypesKept DEF TypeOK
<1> USE <1>0 DEF callVars, pipeVars
<1>3. OwnerInv'
  BY <1>1, OwnerFacts DEF OwnerInv
<1>4. PipeInv'
  BY <1>1 DEF PipeInv, Exchanging
<1>5. CountInv' /\ AnswerInv'
  BY AnswersKept DEF CountInv, Waiting
<1>6. SavedInv' /\ ProjectInv'
  BY DEF SavedInv, ProjectInv, ProjectKept, ChildReads
<1> QED BY <1>2, <1>3, <1>4, <1>5, <1>6

-----------------------------------------------------------------------------
(* Sending a command                                                       *)

(* A write reaches a child that reads, and changes nothing otherwise.      *)
LEMMA WriteFacts ==
    ASSUME OwnerTypes, NEW ls, WriteLines(ls)
    PROVE  /\ host' \in {"plain", "ignoring", "killed", "windows"}
           /\ IF ChildReads THEN inp' = inp \o ls ELSE inp' = inp
BY DEF OwnerTypes, WriteLines, WritePosix, WriteWindows, Posix, Windows

(* Send when the pipes are empty: the exchange begins, or the child has    *)
(* died and the command is answered with nothing.                          *)
Sent(t, ls) ==
    /\ holder = Nobody /\ lastId' = lastId + 1
    /\ host' \in {"plain", "ignoring", "killed", "windows"}
    /\ IF ChildReads
       THEN /\ child = "idle" /\ out = <<>> /\ inp' = ls
            /\ holder' = t /\ inflight' = lastId + 1 /\ got' = <<>>
            /\ UNCHANGED <<returned, answered>>
       ELSE /\ Died /\ out = <<>> /\ inp' = inp
            /\ answered' = answered \cup {lastId + 1}
            /\ UNCHANGED <<holder, inflight, got, returned>>

(* What send writes.                                                       *)
LEMMA SendFacts ==
    ASSUME TypeOK, Settled, NEW t, NEW ls \in Seq(Lines), Send(t, ls)
    PROVE  Sent(t, ls)
<1>1. /\ host' \in {"plain", "ignoring", "killed", "windows"}
      /\ IF ChildReads THEN inp' = inp \o ls ELSE inp' = inp
  BY WriteFacts DEF Send, TypeOK
<1>2. inp = <<>> => inp \o ls = ls
  OBVIOUS
<1>3. IF ChildReads THEN child = "idle" /\ inp = <<>> /\ out = <<>> ELSE Died /\ out = <<>>
  BY DEF Settled, Died, ChildReads
<1> QED BY <1>1, <1>2, <1>3 DEF Send, Sent

(* What the start of an exchange keeps.                                    *)
LEMMA SentKeeps ==
    ASSUME IInv, lastId < MaxCmds, NEW t \in Workers \cup {Owner}, NEW ls \in Seq(Lines), Len(ls) = 1,
           Sent(t, ls), ls[1].id = lastId + 1, UNCHANGED childVars, UNCHANGED out
    PROVE  /\ PipeTypes' /\ AnswerInv'
           /\ holder' \in Workers \cup {Nobody, Owner} /\ inflight' \in 0..MaxCmds /\ got' \in Seq(Tokens)
           /\ lastId' \in 0..MaxCmds /\ returned' \in [Ids -> Seq(Tokens)] /\ answered' \subseteq Ids
           /\ holder' = Nobody => inflight' = 0 /\ got' = <<>>
           /\ holder' # Nobody => inflight' \in 1..lastId' /\ inflight' \notin answered'
           /\ ChildReads => (ls[1].what \in AskedAt[opc'] => Exchange')
           /\ ~ChildReads => Settled' /\ holder' = Nobody
<1>1. /\ lastId \in 0..MaxCmds /\ lastId + 1 \in Ids /\ lastId + 1 \in 1..(lastId + 1)
      /\ MaxCmds \in Nat
  BY BoundsAssumption DEF IInv, TypeOK, CallTypes, Ids
<1>2. lastId + 1 \notin answered /\ returned[lastId + 1] = <<>> /\ parts[lastId + 1] = 0
  BY <1>1 DEF IInv, AnswerInv
<1>3. PipeTypes'
  BY DEF IInv, TypeOK, PipeTypes, Sent
<1>4. /\ holder' \in Workers \cup {Nobody, Owner} /\ inflight' \in 0..MaxCmds /\ got' \in Seq(Tokens)
      /\ lastId' \in 0..MaxCmds /\ returned' \in [Ids -> Seq(Tokens)] /\ answered' \subseteq Ids
  <2> USE DEF IInv, TypeOK, CallTypes, Sent
  <2>1. holder' \in Workers \cup {Nobody, Owner}
    OBVIOUS
  <2>2. inflight' \in 0..MaxCmds /\ lastId' \in 0..MaxCmds
    BY <1>1 DEF Ids
  <2>3. got' \in Seq(Tokens)
    <3>1. <<>> \in Seq(Tokens) /\ got' \in {<<>>, got}
      OBVIOUS
    <3> QED BY <3>1
  <2>4. returned' \in [Ids -> Seq(Tokens)]
    OBVIOUS
  <2>5. answered' \subseteq Ids
    BY <1>1
  <2> QED BY <2>1, <2>2, <2>3, <2>4, <2>5
<1>5. /\ holder' = Nobody => inflight' = 0 /\ got' = <<>>
      /\ holder' # Nobody => inflight' \in 1..lastId' /\ inflight' \notin answered'
  BY <1>1, <1>2, OwnerFacts DEF IInv, OwnerInv, Sent
<1>6. ~ChildReads => Settled' /\ holder' = Nobody
  BY DEF Sent, Settled, Died, childVars
<1>7. AnswerInv'
  <2>1. UNCHANGED <<parts, died, returned>>
    BY DEF childVars, Sent
  <2>2. CASE ChildReads
    <3>1. UNCHANGED answered /\ lastId' = lastId + 1
      BY <2>2 DEF Sent
    <3>2. \A i \in answered : i <= lastId /\ i \in Ids
      BY DEF IInv, TypeOK, CallTypes, AnswerInv
    <3>3. \A i \in answered' : i <= lastId'
      BY <1>1, <3>1, <3>2 DEF Ids
    <3>4. \A i \in Ids : i > lastId' => parts[i] = 0
      BY <1>1, <3>1 DEF IInv, AnswerInv, Ids
    <3> QED BY <2>1, <3>1, <3>3, <3>4 DEF IInv, AnswerInv, WholeReply, OwnOutput
  <2>3. CASE ~ChildReads
    <3>1. answered' = answered \cup {lastId + 1} /\ lastId' = lastId + 1 /\ died
      BY <2>3 DEF Sent, Died
    <3>2. Len(returned[lastId + 1]) = 0
      BY <1>2
    <3>3. OwnOutput'
      BY <2>1, <3>1, <3>2 DEF IInv, AnswerInv, WholeReply, OwnOutput
    <3>4. \A i \in answered : i <= lastId /\ i \in Ids
      BY DEF IInv, TypeOK, CallTypes, AnswerInv
    <3>5. \A i \in answered' : i <= lastId'
      BY <1>1, <3>1, <3>4 DEF Ids
    <3>6. \A i \in Ids : i > lastId' => parts[i] = 0
      BY <1>1, <3>1 DEF IInv, AnswerInv, Ids
    <3> QED BY <2>1, <3>1, <3>3, <3>5, <3>6 DEF IInv, AnswerInv, WholeReply
  <2> QED BY <2>2, <2>3
<1>8. ASSUME ChildReads, ls[1].what \in AskedAt[opc'] PROVE Exchange'
  <2>1. child' = "idle" /\ inp' = ls /\ inflight' = lastId + 1 /\ got' = <<>> /\ out' = <<>> /\ parts' = parts
    BY <1>8 DEF Sent, childVars
  <2>2. Asked' /\ Unread'
    BY <1>1, <1>2, <1>8, <2>1 DEF Asked, Unread
  <2>3. OwnTokens'
    BY <2>1 DEF OwnTokens
  <2> QED BY <2>1, <2>2, <2>3 DEF Exchange
<1> QED BY <1>3, <1>4, <1>5, <1>6, <1>7, <1>8

(* start sends its commands, aaa, Pl and P.                                *)
LEMMA StartSendKeeps == IInv /\ StartSend => IInv'
<1> SUFFICES ASSUME IInv, StartSend PROVE IInv'
  OBVIOUS
<1> USE DEF IInv
<1> DEFINE what == CommandAt[opc]
           ls == <<[id |-> lastId + 1, what |-> what]>>
<1>1. /\ opc \in {"analyze", "list", "open"} /\ Send(Owner, ls)
      /\ opc' = CASE opc = "list" -> IF ChildReads THEN "listing"
                                     ELSE IF opts.analyze THEN "analyze" ELSE "ready"
                  [] OTHER -> IF ChildReads THEN "waiting" ELSE "ready"
      /\ UNCHANGED <<opts, failed, pid, fds, wpc, childVars, out>>
  BY DEF StartSend, CommandAt, Goto
<1>2. /\ what = (IF opc = "analyze" THEN "aaa" ELSE IF opc = "list" THEN "Pl" ELSE "P")
      /\ what \in Commands
  BY <1>1 DEF CommandAt, Commands
<1>3. /\ lastId \in Nat /\ lastId <= 1 /\ lastId < MaxCmds
      /\ opc = "list" => lastId = 0
  BY <1>1, BoundsAssumption DEF CountInv, TypeOK, CallTypes
<1>4. ls \in Seq(Lines) /\ Len(ls) = 1 /\ ls[1].id = lastId + 1 /\ ls[1].what = what
  <2>1. [id |-> lastId + 1, what |-> what] \in Lines
    BY <1>2, <1>3, BoundsAssumption DEF Lines
  <2> HIDE DEF what
  <2> QED BY <2>1
<1>5. Settled
  BY <1>1 DEF PipeInv
<1> HIDE DEF what, ls
<1>6. Sent(Owner, ls)
  BY <1>1, <1>4, <1>5, SendFacts
<1>7. /\ PipeTypes' /\ AnswerInv'
      /\ holder' \in Workers \cup {Nobody, Owner} /\ inflight' \in 0..MaxCmds /\ got' \in Seq(Tokens)
      /\ lastId' \in 0..MaxCmds /\ returned' \in [Ids -> Seq(Tokens)] /\ answered' \subseteq Ids
      /\ holder' = Nobody => inflight' = 0 /\ got' = <<>>
      /\ holder' # Nobody => inflight' \in 1..lastId' /\ inflight' \notin answered'
      /\ ChildReads => (ls[1].what \in AskedAt[opc'] => Exchange')
      /\ ~ChildReads => Settled' /\ holder' = Nobody
  BY <1>1, <1>3, <1>4, <1>6, SentKeeps
<1>8. /\ IF ChildReads THEN holder' = Owner /\ opc' \in {"listing", "waiting"}
                       ELSE holder' = Nobody /\ opc' \in {"analyze", "ready"}
      /\ lastId' = lastId + 1 /\ host' \in {"plain", "ignoring", "killed", "windows"}
  BY <1>1, <1>6, <1>7 DEF Sent
<1>9. \A w \in Workers : wpc[w] = "idle"
  BY <1>1 DEF OwnerInv
<1>10. TypeOK'
  <2>1. OwnerTypes'
    BY <1>1, <1>8 DEF TypeOK, OwnerTypes
  <2>2. CallTypes'
    BY <1>1, <1>7, <1>8, <1>9, OwnerFacts DEF TypeOK, CallTypes
  <2> QED BY <1>1, <1>7, <2>1, <2>2, TypesKept DEF TypeOK
<1>11. OwnerInv'
  BY <1>1, <1>7, <1>8, <1>9, OwnerFacts DEF OwnerInv, childVars
<1>12. PipeInv'
  <2>1. ChildReads => Exchange'
    <3>1. ChildReads => what \in AskedAt[opc']
      BY <1>1, <1>2 DEF AskedAt
    <3> QED BY <1>4, <1>7, <3>1
  <2> QED BY <1>7, <1>8, <2>1, OwnerFacts DEF PipeInv, Exchanging, Settled
<1>13. CountInv'
  <2>1. Waiting' = {} /\ IsFiniteSet({}) /\ Cardinality({}) = 0
    BY <1>1, <1>9, FS_EmptySet DEF Waiting
  <2>2. lastId' <= MaxCmds /\ (opc' \in {"listing", "analyze"} => lastId' <= 1)
    BY <1>1, <1>3, <1>8, BoundsAssumption
  <2>3. lastId' \in Nat
    BY <1>3, <1>8
  <2> QED BY <1>8, <2>1, <2>2, <2>3 DEF CountInv
<1>14. SavedInv'
  BY <1>8 DEF SavedInv
<1>15. ProjectInv'
  <2>1. disk' = disk /\ opts' = opts /\ loaded' = loaded /\ child' = child
    BY <1>1 DEF childVars
  <2>2. CASE ChildReads
    <3>1. child' = "idle" /\ inp' = ls /\ inp' # <<>>
      <4>1. ls # <<>>
        <5>1. Len(ls) = 1 /\ Len(<<>>) = 0
          BY <1>4
        <5> QED BY <5>1
      <4> QED BY <1>6, <2>1, <2>2, <4>1 DEF Sent
    <3>2. disk = "previous" /\ opc' = "waiting" => loaded \/ inp'[1].what = "P"
      BY <1>1, <1>2, <1>4, <2>2, <3>1 DEF ProjectInv
    <3> QED BY <1>8, <2>1, <2>2, <3>1, <3>2 DEF ProjectInv, ProjectKept, Loading
  <2>3. CASE ~ChildReads
    BY <2>1, <2>3 DEF ProjectInv, ProjectKept, ChildReads
  <2> QED BY <2>2, <2>3
<1> QED BY <1>7, <1>10, <1>11, <1>12, <1>13, <1>14, <1>15

(* One line is one exchange, so here the bound matters.                    *)
LEMMA WorkerSendKeeps ==
    ASSUME MaxLines = 1, IInv, NEW w \in Workers, WorkerSend(w)
    PROVE  IInv'
<1> USE DEF IInv
<1> DEFINE ls == [i \in 1..1 |-> [id |-> lastId + 1, what |-> "user"]]
<1>1. /\ wpc[w] = "want" /\ Send(w, ls)
      /\ wpc' = [wpc EXCEPT ![w] = IF ChildReads THEN "reading" ELSE "idle"]
      /\ UNCHANGED <<opts, opc, failed, pid, fds, childVars, out>>
  BY DEF WorkerSend
<1>2. opc = "ready" /\ holder = Nobody /\ ~failed /\ w \notin {Owner, Nobody}
  BY <1>1, OwnerFacts DEF OwnerInv, Send
<1>3. /\ w \in Waiting /\ IsFiniteSet(Waiting) /\ IsFiniteSet(Waiting \ {w})
      /\ Cardinality(Waiting \ {w}) = Cardinality(Waiting) - 1
      /\ Cardinality(Waiting) \in Nat /\ Cardinality(Waiting \ {w}) \in Nat
  BY <1>1, FS_RemoveElement, FS_CardinalityType DEF CountInv, Waiting
<1>4. lastId \in Nat /\ lastId < MaxCmds /\ MaxCmds \in Nat
  BY <1>3, BoundsAssumption DEF CountInv, TypeOK, CallTypes
<1>5. ls \in Seq(Lines) /\ Len(ls) = 1 /\ ls[1].id = lastId + 1 /\ ls[1].what = "user"
  <2>1. [id |-> lastId + 1, what |-> "user"] \in Lines
    BY <1>4 DEF Lines, Commands
  <2> QED BY <2>1
<1>6. Settled
  BY <1>2 DEF PipeInv, Exchanging
<1> HIDE DEF ls
<1>7. Sent(w, ls)
  BY <1>1, <1>5, <1>6, SendFacts
<1>8. /\ PipeTypes' /\ AnswerInv'
      /\ holder' \in Workers \cup {Nobody, Owner} /\ inflight' \in 0..MaxCmds /\ got' \in Seq(Tokens)
      /\ lastId' \in 0..MaxCmds /\ returned' \in [Ids -> Seq(Tokens)] /\ answered' \subseteq Ids
      /\ holder' = Nobody => inflight' = 0 /\ got' = <<>>
      /\ holder' # Nobody => inflight' \in 1..lastId' /\ inflight' \notin answered'
      /\ ChildReads => (ls[1].what \in AskedAt[opc'] => Exchange')
      /\ ~ChildReads => Settled' /\ holder' = Nobody
  BY <1>1, <1>4, <1>5, <1>7, SentKeeps
<1>9. /\ holder' = (IF ChildReads THEN w ELSE Nobody) /\ opc' = "ready"
      /\ lastId' = lastId + 1 /\ host' \in {"plain", "ignoring", "killed", "windows"}
  BY <1>1, <1>2, <1>7, <1>8 DEF Sent
<1>10. TypeOK'
  <2>1. OwnerTypes'
    BY <1>1, <1>9 DEF TypeOK, OwnerTypes
  <2>2. wpc' \in [Workers -> {"idle", "want", "reading"}]
    BY <1>1 DEF TypeOK, CallTypes
  <2>3. \A v \in Workers : wpc'[v] = "reading" <=> holder' = v
    BY <1>1, <1>2, <1>9, OwnerFacts DEF TypeOK, CallTypes
  <2>4. CallTypes'
    BY <1>8, <2>2, <2>3 DEF CallTypes
  <2> QED BY <1>1, <1>8, <2>1, <2>4, TypesKept DEF TypeOK
<1>11. OwnerInv'
  BY <1>1, <1>2, <1>8, <1>9, OwnerFacts DEF OwnerInv, childVars
<1>12. PipeInv'
  <2>1. ChildReads => Exchange'
    BY <1>5, <1>8, <1>9 DEF AskedAt
  <2> QED BY <1>2, <1>8, <1>9, <2>1, OwnerFacts DEF PipeInv, Exchanging, Settled
<1>13. CountInv'
  <2>1. Waiting' = Waiting \ {w}
    BY <1>1 DEF Waiting, TypeOK, CallTypes
  <2>2. lastId' + Cardinality(Waiting \ {w}) <= MaxCmds
    BY <1>3, <1>4, <1>9 DEF CountInv
  <2> QED BY <1>3, <1>9, <2>1, <2>2 DEF CountInv
<1>14. SavedInv'
  BY <1>9 DEF SavedInv
<1>15. ProjectInv'
  BY <1>1, <1>2, <1>9 DEF ProjectInv, ProjectKept, ChildReads, childVars
<1> QED BY <1>8, <1>10, <1>11, <1>12, <1>13, <1>14, <1>15

-----------------------------------------------------------------------------
(* Reading the reply                                                       *)

(* After a read the exchange goes on, or the command has its answer and    *)
(* the pipes are empty.                                                    *)
LEMMA ReadKeeps ==
    ASSUME IInv, NEW t \in Workers \cup {Owner}, ReadChunk(t), UNCHANGED childVars
    PROVE  /\ PipeTypes' /\ AnswerInv' /\ Exchange /\ UNCHANGED <<lastId, inp, host>>
           /\ inflight' \in 0..MaxCmds /\ got' \in Seq(Tokens)
           /\ returned' \in [Ids -> Seq(Tokens)] /\ answered' \subseteq Ids
           /\ \/ /\ UNCHANGED <<holder, inflight, answered>> /\ Exchange' /\ (Named => Named')
              \/ /\ holder' = Nobody /\ inflight' = 0 /\ got' = <<>> /\ out' = <<>> /\ Settled'
                 /\ Named => ListsProject(returned'[inflight])
                 /\ ChildReads => Replied
<1> USE DEF IInv
<1>1. holder = t /\ holder # Nobody
  BY OwnerFacts DEF ReadChunk
<1>2. /\ inflight \in 1..lastId /\ inflight \in Ids /\ inflight \notin answered /\ inflight # 0
      /\ lastId \in 0..MaxCmds /\ MaxCmds \in Nat
      /\ Exchange /\ OwnTokens
  BY <1>1, BoundsAssumption DEF OwnerInv, PipeInv, Exchanging, Exchange, TypeOK, CallTypes, Ids
<1>3. out' \in Seq(Tokens) /\ UNCHANGED <<lastId, inp, host>> /\ (ReadOn \/ ReadEnds)
  BY <1>2, ReadFacts
<1>4. PipeTypes'
  BY <1>3 DEF TypeOK, PipeTypes
<1>5. /\ returned \in [Ids -> Seq(Tokens)] /\ answered \subseteq Ids
      /\ inflight \in 0..MaxCmds /\ 0 \in 0..MaxCmds
      /\ Len(out) \in Nat /\ Len(got) \in Nat /\ parts \in [Ids -> Nat]
  BY <1>2, LenProperties DEF TypeOK, CallTypes, PipeTypes, ChildTypes
<1>6. UNCHANGED <<child, line, parts, died>> /\ (died => died')
  BY DEF childVars
<1>7. CASE ReadOn
  <2>1. /\ UNCHANGED <<holder, inflight, returned, answered>> /\ OwnTokens' /\ out # <<>>
        /\ got' \in Seq(Tokens) /\ Len(got') + Len(out') = Len(got) + Len(out)
        /\ out[Len(out)] = NUL => out' # <<>> /\ out'[Len(out')] = NUL
        /\ Named => Named'
    BY <1>7 DEF ReadOn
  <2>2. Replied => Replied'
    BY <1>2, <1>3, <1>6, <2>1 DEF Replied
  <2>3. Died => Died'
    BY <1>6 DEF Died
  <2>4. Exchange'
    BY <1>2, <2>1, <2>2, <2>3 DEF Exchange
  <2>5. AnswerInv'
    BY <1>3, <1>6, <2>1, AnswersKept
  <2> QED BY <1>2, <1>3, <1>4, <1>5, <2>1, <2>4, <2>5
<1>8. CASE ReadEnds
  <2>1. PICK text \in Seq(Tokens) :
           /\ Finish(text) /\ out' = <<>>
           /\ \A k \in 1..Len(text) : text[k].of = inflight
           /\ \/ out # <<>> /\ out[Len(out)] = NUL /\ Len(text) + 1 = Len(got) + Len(out)
              \/ ~ChildReads
           /\ Named => ListsProject(text)
    BY <1>8 DEF ReadEnds
  <2>2. /\ returned' = [returned EXCEPT ![inflight] = text]
        /\ answered' = answered \cup {inflight}
        /\ holder' = Nobody /\ inflight' = 0 /\ got' = <<>>
    BY <2>1 DEF Finish
  <2>3. ~Died => Replied /\ ChildReads
    BY <1>2, <2>1 DEF Exchange, Asked, Worked, Replied, ChildReads
  <2>4. Settled' /\ (ChildReads => Replied)
    BY <1>3, <1>6, <2>1, <2>3 DEF Settled, Died, Replied, ChildReads
  <2>5. /\ returned' \in [Ids -> Seq(Tokens)] /\ answered' \subseteq Ids
        /\ returned'[inflight] = text /\ \A i \in Ids \ {inflight} : returned'[i] = returned[i]
    BY <1>2, <1>5, <2>2
  <2>6. ~died => Len(text) = parts[inflight]
    <3>1. ~died => Len(got) + Len(out) = parts[inflight] + 1 /\ ChildReads
      BY <1>2, <2>3 DEF Died, Replied
    <3>2. Len(text) \in Nat /\ parts[inflight] \in Nat
      BY <1>2, <1>5, LenProperties
    <3> QED BY <1>5, <2>1, <3>1, <3>2
  <2>7. AnswerInv'
    <3>1. OwnOutput'
      BY <1>5, <2>1, <2>2, <2>5 DEF AnswerInv, WholeReply, OwnOutput
    <3>2. died' \/ \A i \in answered' : Len(returned'[i]) = parts'[i]
      BY <1>5, <1>6, <2>2, <2>5, <2>6 DEF AnswerInv, WholeReply
    <3>3. \A i \in answered' : i <= lastId'
      BY <1>2, <1>3, <2>2 DEF AnswerInv
    <3>4. \A i \in Ids : i \notin answered' => returned'[i] = <<>>
      BY <2>2, <2>5 DEF AnswerInv
    <3>5. \A i \in Ids : i > lastId' => parts'[i] = 0
      BY <1>3, <1>6 DEF AnswerInv
    <3> QED BY <3>1, <3>2, <3>3, <3>4, <3>5 DEF AnswerInv, WholeReply
  <2>8. got' \in Seq(Tokens) /\ inflight' \in 0..MaxCmds
    <3>1. <<>> \in Seq(Tokens)
      OBVIOUS
    <3> QED BY <1>5, <2>2, <3>1
  <2> QED BY <1>2, <1>3, <1>4, <2>1, <2>2, <2>4, <2>5, <2>7, <2>8
<1> QED BY <1>3, <1>7, <1>8

(* start reads the reply to one of them.                                   *)
LEMMA StartReadKeeps == IInv /\ StartRead => IInv'
<1> SUFFICES ASSUME IInv, StartRead PROVE IInv'
  OBVIOUS
<1> USE DEF IInv
<1>1. /\ opc \in {"listing", "waiting"} /\ ReadChunk(Owner) /\ Owner \in Workers \cup {Owner}
      /\ opc' = IF holder' # Nobody THEN opc
                ELSE IF opc = "listing" THEN AfterList(returned'[inflight]) ELSE "ready"
      /\ UNCHANGED <<opts, failed, pid, fds, wpc, childVars>>
  BY DEF StartRead, Goto
<1>2. /\ PipeTypes' /\ AnswerInv' /\ Exchange /\ UNCHANGED <<lastId, inp, host>>
      /\ inflight' \in 0..MaxCmds /\ got' \in Seq(Tokens)
      /\ returned' \in [Ids -> Seq(Tokens)] /\ answered' \subseteq Ids
      /\ \/ /\ UNCHANGED <<holder, inflight, answered>> /\ Exchange' /\ (Named => Named')
         \/ /\ holder' = Nobody /\ inflight' = 0 /\ got' = <<>> /\ out' = <<>> /\ Settled'
            /\ Named => ListsProject(returned'[inflight])
            /\ ChildReads => Replied
  BY <1>1, ReadKeeps
<1>3. /\ holder = Owner /\ Owner # Nobody /\ ~failed /\ fds /\ pid
      /\ \A w \in Workers : wpc[w] = "idle"
  BY <1>1, OwnerFacts DEF OwnerInv
<1>4. /\ AfterList(returned'[inflight]) \in {"open", "analyze", "ready"}
      /\ ListsProject(returned'[inflight]) => AfterList(returned'[inflight]) = "open"
  BY DEF AfterList
<1>5. IF holder' # Nobody THEN opc' = opc /\ holder' = Owner
      ELSE opc' \in {"open", "analyze", "ready"} /\ (opc = "waiting" => opc' = "ready")
  BY <1>1, <1>2, <1>3, <1>4
<1>6. TypeOK'
  <2>1. OwnerTypes'
    BY <1>1, <1>2, <1>5 DEF TypeOK, OwnerTypes
  <2>2. CallTypes'
    <3>1. holder' \in Workers \cup {Nobody, Owner} /\ \A w \in Workers : wpc'[w] = "reading" <=> holder' = w
      BY <1>1, <1>3, <1>5, OwnerFacts
    <3> QED BY <1>1, <1>2, <3>1 DEF TypeOK, CallTypes
  <2> QED BY <1>1, <1>2, <2>1, <2>2, TypesKept DEF TypeOK
<1>7. OwnerInv'
  <2>1. UNCHANGED child
    BY <1>1 DEF childVars
  <2> QED BY <1>1, <1>2, <1>3, <1>5, <2>1, OwnerFacts DEF OwnerInv
<1>8. PipeInv'
  BY <1>1, <1>2, <1>3, <1>5, OwnerFacts DEF PipeInv, Exchanging
<1>9. CountInv'
  BY <1>1, <1>2, <1>5 DEF CountInv, Waiting
<1>10. SavedInv'
  BY <1>1, <1>5 DEF SavedInv
<1>11. ProjectInv'
  <2>1. UNCHANGED <<opts, disk, loaded, child, line, inp>>
    BY <1>1, <1>2 DEF childVars
  <2>2. CASE holder' # Nobody
    <3>1. Named => Named'
      BY <1>2, <2>2
    <3> QED BY <1>1, <1>5, <2>1, <2>2, <3>1 DEF ProjectInv, ProjectKept, ChildReads, Loading
  <2>3. CASE holder' = Nobody
    <3>1. /\ Named => ListsProject(returned'[inflight])
          /\ ChildReads => child = "idle" /\ inp = <<>>
      BY <1>2, <1>3, <2>3 DEF Replied
    <3>2. disk = "previous" /\ ChildReads => loaded \/ opc' = "open"
      <4>1. CASE opc = "listing"
        BY <1>1, <1>4, <2>3, <3>1, <4>1 DEF ProjectInv
      <4>2. CASE opc = "waiting"
        BY <3>1, <4>2 DEF ProjectInv, Loading
      <4> QED BY <1>1, <4>1, <4>2
    <3> QED BY <1>5, <2>1, <2>3, <3>2 DEF ProjectInv, ProjectKept, ChildReads
  <2> QED BY <2>2, <2>3
<1> QED BY <1>2, <1>6, <1>7, <1>8, <1>9, <1>10, <1>11

(* A caller of cmd reads its reply.                                        *)
LEMMA WorkerReadKeeps ==
    ASSUME IInv, NEW w \in Workers, WorkerRead(w)
    PROVE  IInv'
<1> USE DEF IInv
<1>1. /\ wpc[w] = "reading" /\ ReadChunk(w) /\ w \in Workers \cup {Owner}
      /\ wpc' = [wpc EXCEPT ![w] = IF holder' = w THEN @ ELSE "idle"]
      /\ UNCHANGED <<opts, opc, failed, pid, fds, childVars>>
  BY DEF WorkerRead
<1>2. /\ PipeTypes' /\ AnswerInv' /\ Exchange /\ UNCHANGED <<lastId, inp, host>>
      /\ inflight' \in 0..MaxCmds /\ got' \in Seq(Tokens)
      /\ returned' \in [Ids -> Seq(Tokens)] /\ answered' \subseteq Ids
      /\ \/ /\ UNCHANGED <<holder, inflight, answered>> /\ Exchange' /\ (Named => Named')
         \/ /\ holder' = Nobody /\ inflight' = 0 /\ got' = <<>> /\ out' = <<>> /\ Settled'
            /\ Named => ListsProject(returned'[inflight])
            /\ ChildReads => Replied
  BY <1>1, ReadKeeps
<1>3. holder = w /\ opc = "ready" /\ w \notin {Nobody, Owner} /\ holder' \in {w, Nobody}
  BY <1>1, <1>2, OwnerFacts DEF OwnerInv, ReadChunk
<1>4. TypeOK'
  <2>1. OwnerTypes'
    BY <1>1, <1>2 DEF TypeOK, OwnerTypes
  <2>2. wpc \in [Workers -> {"idle", "want", "reading"}] /\ \A v \in Workers \ {w} : wpc[v] # "reading"
    BY <1>3 DEF TypeOK, CallTypes
  <2>3. wpc' \in [Workers -> {"idle", "want", "reading"}]
    BY <1>1, <2>2
  <2>4. \A v \in Workers : wpc'[v] = "reading" <=> holder' = v
    BY <1>1, <1>3, <2>2, OwnerFacts
  <2>5. CallTypes'
    BY <1>2, <1>3, <2>3, <2>4 DEF TypeOK, CallTypes
  <2> QED BY <1>1, <1>2, <2>1, <2>5, TypesKept DEF TypeOK
<1>5. OwnerInv'
  BY <1>1, <1>2, <1>3, OwnerFacts DEF OwnerInv, childVars
<1>6. PipeInv'
  BY <1>1, <1>2, <1>3, OwnerFacts DEF PipeInv, Exchanging
<1>7. CountInv'
  <2>1. Waiting' = Waiting
    BY <1>1 DEF Waiting, TypeOK, CallTypes
  <2> QED BY <1>1, <1>2, <1>3, <2>1 DEF CountInv
<1>8. SavedInv'
  BY <1>1, <1>3 DEF SavedInv
<1>9. ProjectInv'
  BY <1>1, <1>3 DEF ProjectInv, ProjectKept, ChildReads, childVars
<1> QED BY <1>2, <1>4, <1>5, <1>6, <1>7, <1>8, <1>9

-----------------------------------------------------------------------------
(* A call that waits, and shutdown                                         *)

(* A caller of cmd waits for the lock.                                     *)
LEMMA CallKeeps ==
    ASSUME IInv, NEW w \in Workers, Call(w)
    PROVE  IInv'
<1> USE DEF IInv
<1>1. /\ opc = "ready" /\ wpc[w] = "idle" /\ lastId + Cardinality(Waiting) < MaxCmds
      /\ wpc' = [wpc EXCEPT ![w] = "want"]
      /\ UNCHANGED <<holder, inflight, got, lastId, returned, answered>>
      /\ UNCHANGED ownerVars /\ UNCHANGED childVars /\ UNCHANGED pipeVars
  BY DEF Call, Waiting
<1>2. TypeOK'
  <2>1. wpc \in [Workers -> {"idle", "want", "reading"}]
    BY DEF TypeOK, CallTypes
  <2>2. /\ wpc' \in [Workers -> {"idle", "want", "reading"}]
        /\ \A v \in Workers : wpc'[v] = "reading" <=> wpc[v] = "reading"
    BY <1>1, <2>1
  <2>3. CallTypes'
    BY <1>1, <2>2 DEF TypeOK, CallTypes
  <2> QED BY <1>1, <2>3, TypesKept DEF TypeOK
<1>3. UNCHANGED <<opts, opc, failed, pid, fds, child, line, parts, died, loaded, edited, disk, inp, out>>
  BY <1>1 DEF ownerVars, childVars, pipeVars
<1>4. OwnerInv'
  BY <1>1, <1>3 DEF OwnerInv
<1>5. PipeInv'
  BY <1>1, <1>3 DEF PipeInv, Exchanging, Exchange, OwnTokens, Asked, Worked, Unread, Replied, Died, Settled
<1>6. CountInv'
  <2>1. Waiting' = Waiting \cup {w} /\ w \notin Waiting
    BY <1>1 DEF Waiting, TypeOK, CallTypes
  <2>2. /\ IsFiniteSet(Waiting \cup {w})
        /\ Cardinality(Waiting \cup {w}) = Cardinality(Waiting) + 1
        /\ Cardinality(Waiting) \in Nat
    BY <2>1, FS_AddElement, FS_CardinalityType DEF CountInv
  <2>3. lastId \in Nat /\ MaxCmds \in Nat
    BY BoundsAssumption DEF TypeOK, CallTypes
  <2> QED BY <1>1, <1>3, <2>1, <2>2, <2>3 DEF CountInv
<1>7. AnswerInv'
  BY <1>1, <1>3, AnswersKept
<1>8. SavedInv' /\ ProjectInv'
  BY <1>1, <1>3 DEF SavedInv, ProjectInv, ProjectKept, ChildReads
<1> QED BY <1>2, <1>4, <1>5, <1>6, <1>7, <1>8

(* It saves the project.                                                   *)
LEMMA SaveKeeps == IInv /\ Save => IInv'
<1> SUFFICES ASSUME IInv, Save PROVE IInv'
  OBVIOUS
<1> USE DEF IInv
<1> DEFINE ls == <<[id |-> 0, what |-> "Ps"]>>
<1>1. /\ opc = "save" /\ WriteLines(ls) /\ opc' = "drain"
      /\ UNCHANGED <<opts, failed, pid, fds, callVars, childVars, out>>
  BY DEF Save, Goto
<1>2. ls \in Seq(Lines) /\ Len(ls) = 1 /\ ls[1].id = 0 /\ ls[1].what = "Ps"
  <2>1. [id |-> 0, what |-> "Ps"] \in Lines
    BY BoundsAssumption DEF Lines, Commands
  <2> QED BY <2>1
<1> HIDE DEF ls
<1>3. /\ host' \in {"plain", "ignoring", "killed", "windows"}
      /\ IF ChildReads THEN inp' = inp \o ls ELSE inp' = inp
  BY <1>1, WriteFacts DEF TypeOK
<1>4. IF ChildReads THEN child = "idle" /\ inp = <<>> /\ out = <<>> ELSE Died
  BY <1>1 DEF PipeInv, Settled, Died, ChildReads
<1>5. ChildReads => inp' = ls /\ inp' # <<>>
  <2>1. <<>> \o ls = ls /\ ls # <<>>
    <3>1. <<>> \o ls = ls
      BY <1>2, ConcatEmptySeq
    <3>2. Len(ls) = 1 /\ Len(<<>>) = 0
      BY <1>2
    <3> QED BY <3>1, <3>2
  <2> QED BY <1>3, <1>4, <2>1
<1>6. holder = Nobody /\ inflight = 0 /\ got = <<>> /\ ~failed /\ fds /\ pid
  BY <1>1, OwnerFacts DEF OwnerInv, TypeOK, CallTypes
<1>7. UNCHANGED <<child, line, parts, died, loaded, edited, disk>> /\ UNCHANGED callVars
  BY <1>1 DEF childVars
<1>8. TypeOK'
  <2>1. OwnerTypes'
    BY <1>1, <1>3 DEF TypeOK, OwnerTypes
  <2>2. PipeTypes'
    BY <1>1, <1>2, <1>3, <1>4, <1>5 DEF TypeOK, PipeTypes
  <2> QED BY <1>1, <2>1, <2>2, TypesKept DEF TypeOK
<1>9. OwnerInv'
  BY <1>1, <1>6, <1>7, OwnerFacts DEF OwnerInv, callVars
<1>10. PipeInv'
  <2>1. UNCHANGED <<holder, inflight, got, out>> /\ out = out'
    BY <1>1 DEF callVars
  <2>2. CASE ChildReads
    <3>1. Asked'
      BY <1>1, <1>2, <1>4, <1>5, <1>6, <1>7, <2>1, <2>2 DEF Asked, AskedAt
    <3>2. OwnTokens' /\ Unread'
      BY <1>4, <1>6, <2>1, <2>2 DEF OwnTokens, Unread
    <3>3. Exchange'
      BY <1>4, <1>6, <2>1, <2>2, <3>1, <3>2 DEF Exchange
    <3> QED BY <1>1, <1>6, <2>1, <3>3 DEF PipeInv
  <2>3. CASE ~ChildReads
    <3>1. Died'
      BY <1>4, <1>7, <2>3 DEF Died
    <3>2. out = <<>> /\ OwnTokens'
      BY <1>1, <1>6, <2>1 DEF PipeInv, Settled, OwnTokens
    <3> QED BY <1>1, <1>6, <2>1, <3>1, <3>2 DEF PipeInv, Exchange
  <2> QED BY <2>2, <2>3
<1>11. CountInv' /\ AnswerInv'
  BY <1>1, <1>7, AnswersKept DEF CountInv, Waiting, callVars
<1>12. SavedInv'
  BY <1>1, <1>4, <1>5, <1>7 DEF SavedInv, ChildReads
<1>13. ProjectInv'
  BY <1>1, <1>7 DEF ProjectInv, ProjectKept, ChildReads
<1> QED BY <1>8, <1>9, <1>10, <1>11, <1>12, <1>13

(* It reads the reply to that.                                             *)
LEMMA DrainKeeps == IInv /\ Drain => IInv'
<1> SUFFICES ASSUME IInv, Drain PROVE IInv'
  OBVIOUS
<1> USE DEF IInv
<1>1. /\ opc = "drain" /\ opc' \in {"drain", "quit"}
      /\ UNCHANGED <<opts, failed, pid, fds, host, callVars, childVars, inp>>
  BY DEF Drain, Goto
<1>2. /\ holder = Nobody /\ inflight = 0 /\ got = <<>> /\ ~failed
      /\ Exchange /\ OwnTokens
  BY <1>1, OwnerFacts DEF OwnerInv, TypeOK, CallTypes, PipeInv, Exchanging, Exchange
<1>3. UNCHANGED <<child, line, parts, died, loaded, edited, disk>>
      /\ UNCHANGED <<holder, inflight, got, lastId, returned, answered, wpc>>
  BY <1>1 DEF childVars, callVars
<1>4. /\ out' \in Seq(Tokens)
      /\ IF opc' = "quit" THEN Settled' /\ (~died => child = "idle" /\ inp = <<>>) ELSE Exchange'
  <2>1. CASE out # <<>> /\ out' = Tail(out)
    <3>1. /\ Len(out) \in Nat \ {0} /\ Head(out) = out[1]
          /\ out' \in Seq(Tokens) /\ Len(out') = Len(out) - 1
          /\ \A i \in 1..Len(out') : i + 1 \in 1..Len(out) /\ out'[i] = out[i + 1]
      BY <2>1, TailFacts DEF TypeOK, PipeTypes
    <3>2. \A k \in 1..Len(out) : out[k].of = 0 \/ (k = Len(out) /\ out[k] = NUL)
      BY <1>2 DEF OwnTokens
    <3>3. (Died \/ Replied) /\ (out[Len(out)] = NUL \/ Died)
      BY <1>2, <2>1 DEF Exchange, Replied
    <3>4. CASE Head(out) = NUL
      <4>1. opc' = "quit"
        BY <1>1, <2>1, <3>4 DEF Drain, Goto
      <4>2. Len(out) = 1 /\ out' = <<>>
        BY <3>1, <3>2, <3>4, EmptySeq DEF NUL
      <4> QED BY <1>1, <1>3, <3>1, <3>3, <4>1, <4>2 DEF Settled, Died, Replied
    <3>5. CASE Head(out) # NUL
      <4>1. opc' = "drain"
        BY <1>1, <2>1, <3>5 DEF Drain, Goto
      <4>2. OwnTokens'
        BY <1>2, <1>3, <3>1, <3>2, EmptySeq DEF OwnTokens
      <4>3. ASSUME out[Len(out)] = NUL PROVE out' # <<>> /\ out'[Len(out')] = NUL
        <5>1. Len(out) # 1 /\ Len(out') \in Nat \ {0} /\ Len(out') + 1 = Len(out)
          BY <3>1, <3>5, <4>3
        <5> QED BY <3>1, <4>3, <5>1, EmptySeq
      <4>4. (Died \/ Replied)'
        BY <1>1, <1>2, <1>3, <3>3, <4>3 DEF Died, Replied
      <4> QED BY <3>1, <4>1, <4>2, <4>4 DEF Exchange
    <3> QED BY <3>4, <3>5
  <2>2. CASE out = <<>> /\ ~ChildReads /\ opc' = "quit" /\ UNCHANGED out
    <3>1. Died
      BY <1>2, <2>2 DEF Exchange, Asked, Worked, Replied, ChildReads
    <3> QED BY <1>3, <2>2, <3>1 DEF Settled, Died, TypeOK, PipeTypes
  <2> QED BY <2>1, <2>2 DEF Drain, Goto
<1>5. TypeOK'
  <2>1. OwnerTypes' /\ PipeTypes'
    BY <1>1, <1>4 DEF TypeOK, OwnerTypes, PipeTypes
  <2> QED BY <1>1, <2>1, TypesKept DEF TypeOK
<1>6. OwnerInv'
  BY <1>1, <1>2, <1>3, OwnerFacts DEF OwnerInv
<1>7. PipeInv'
  BY <1>1, <1>2, <1>3, <1>4 DEF PipeInv, Exchanging
<1>8. CountInv' /\ AnswerInv'
  BY <1>1, <1>3, AnswersKept DEF CountInv, Waiting
<1>9. SavedInv'
  <2>1. CASE opc' = "quit"
    BY <1>1, <1>3, <1>4, <2>1 DEF SavedInv
  <2>2. CASE opc' = "drain"
    BY <1>1, <1>3, <2>2 DEF SavedInv
  <2> QED BY <1>1, <2>1, <2>2
<1>10. ProjectInv'
  BY <1>1, <1>3 DEF ProjectInv, ProjectKept, ChildReads
<1> QED BY <1>5, <1>6, <1>7, <1>8, <1>9, <1>10

(* It sends the last command and closes the pipe.                          *)
LEMMA QuitKeeps == IInv /\ Quit => IInv'
<1> SUFFICES ASSUME IInv, Quit PROVE IInv'
  OBVIOUS
<1> USE DEF IInv
<1> DEFINE ls == <<[id |-> 0, what |-> "q"]>>
<1>1. /\ opc = "quit" /\ WriteLines(ls) /\ opc' = "reap" /\ fds' = FALSE
      /\ UNCHANGED <<opts, failed, pid, callVars, childVars, out>>
  BY DEF Quit, Goto
<1>2. ls \in Seq(Lines) /\ Len(ls) = 1 /\ ls[1].what = "q"
  <2>1. [id |-> 0, what |-> "q"] \in Lines
    BY BoundsAssumption DEF Lines, Commands
  <2> QED BY <2>1
<1> HIDE DEF ls
<1>3. /\ host' \in {"plain", "ignoring", "killed", "windows"}
      /\ IF ChildReads THEN inp' = inp \o ls ELSE inp' = inp
  BY <1>1, WriteFacts DEF TypeOK
<1>4. child = "exited" \/ (child = "idle" /\ inp = <<>>)
  BY <1>1 DEF PipeInv, Settled, Died
<1>5. child = "idle" => inp' = ls
  <2>1. <<>> \o ls = ls
    BY <1>2, ConcatEmptySeq
  <2> QED BY <1>3, <1>4, <2>1 DEF ChildReads
<1>6. holder = Nobody /\ inflight = 0 /\ got = <<>>
  BY <1>1, OwnerFacts DEF OwnerInv, TypeOK, CallTypes
<1>7. UNCHANGED <<child, line, parts, died, loaded, edited, disk>>
      /\ UNCHANGED <<holder, inflight, got, lastId, returned, answered, wpc>>
  BY <1>1 DEF childVars, callVars
<1>8. TypeOK'
  <2>1. OwnerTypes'
    BY <1>1, <1>3 DEF TypeOK, OwnerTypes
  <2>2. PipeTypes'
    BY <1>1, <1>2, <1>3, <1>4, <1>5 DEF TypeOK, PipeTypes, ChildReads
  <2> QED BY <1>1, <2>1, <2>2, TypesKept DEF TypeOK
<1>9. OwnerInv'
  BY <1>1, <1>6, <1>7, OwnerFacts DEF OwnerInv
<1>10. PipeInv'
  <2>1. child = "exited" \/ (child = "idle" /\ \A k \in 1..Len(inp') : inp'[k].what = "q")
    BY <1>2, <1>4, <1>5
  <2> QED BY <1>1, <1>6, <1>7, <2>1 DEF PipeInv, Exchanging
<1>11. CountInv' /\ AnswerInv'
  BY <1>1, <1>7, AnswersKept DEF CountInv, Waiting
<1>12. SavedInv' /\ ProjectInv'
  BY <1>1, <1>7 DEF SavedInv, ProjectInv, ProjectKept, ChildReads
<1> QED BY <1>8, <1>9, <1>10, <1>11, <1>12

-----------------------------------------------------------------------------
(* The steps of the child                                                  *)

(* Where the owner is when the child has something to do.                  *)
LEMMA ChildAt ==
    ASSUME IInv
    PROVE  /\ child = "starting" => opc = "handshake" /\ inp = <<>> /\ out = <<>>
           /\ child = "busy" => /\ Exchanging /\ Worked /\ OwnTokens /\ Unread
                                /\ got = <<>> /\ out = <<>> /\ fds
           /\ child = "idle" /\ inp # <<>> =>
                 \/ Exchanging /\ Asked /\ OwnTokens /\ Unread /\ got = <<>> /\ out = <<>>
                 \/ opc = "reap" /\ ~Exchanging /\ inp[1].what = "q"
           /\ ChildReads => opc \notin {"spawn", "closed", "failed"}
<1> USE DEF IInv
<1>1. /\ Exchanging \/ opc \in {"spawn", "handshake", "list", "open", "analyze", "ready", "save",
                                "quit", "reap", "closed", "failed"}
      /\ Exchanging => opc \in {"listing", "waiting", "ready", "drain"}
  BY OwnerFacts DEF TypeOK, OwnerTypes, CallTypes, OwnerInv, Exchanging
<1>2. Exchange => child \in {"idle", "busy", "exited"}
  BY DEF Exchange, Asked, Worked, Replied, Died
<1>3. Settled => child = "exited" \/ (child = "idle" /\ inp = <<>>)
  BY DEF Settled, Died
<1>4. opc \in {"spawn", "closed", "failed"} => child \in {"none", "reaped"}
  BY DEF OwnerInv
<1>5. opc = "handshake" => Greeting
  BY DEF PipeInv
<1>6. /\ opc \in {"list", "open", "analyze", "save"} => Settled
      /\ opc = "ready" /\ ~Exchanging => Settled
      /\ opc = "quit" => child = "exited" \/ (child = "idle" /\ inp = <<>>)
  BY <1>3 DEF PipeInv
<1>7. opc = "reap" => child = "exited" \/ (child = "idle" /\ \A k \in 1..Len(inp) : inp[k].what = "q")
  BY DEF PipeInv
<1>8. child = "starting" => opc = "handshake" /\ inp = <<>> /\ out = <<>>
  <2> SUFFICES ASSUME child = "starting" PROVE opc = "handshake" /\ inp = <<>> /\ out = <<>>
    OBVIOUS
  <2>1. ~Exchange /\ ~Exchanging
    BY <1>2 DEF PipeInv
  <2>2. opc = "handshake"
    BY <1>1, <1>3, <1>4, <1>6, <1>7, <2>1
  <2> QED BY <1>5, <2>2 DEF Greeting
<1>9. child = "busy" => /\ Exchanging /\ Worked /\ OwnTokens /\ Unread
                        /\ got = <<>> /\ out = <<>> /\ fds
  <2> SUFFICES ASSUME child = "busy"
               PROVE  Exchanging /\ Worked /\ OwnTokens /\ Unread /\ got = <<>> /\ out = <<>> /\ fds
    OBVIOUS
  <2>1. Exchanging
    BY <1>1, <1>3, <1>4, <1>5, <1>6, <1>7 DEF Greeting
  <2>2. Exchange /\ opc \in {"listing", "waiting", "ready", "drain"}
    BY <1>1, <2>1 DEF PipeInv
  <2>3. Worked /\ OwnTokens /\ Unread /\ got = <<>> /\ out = <<>>
    BY <2>2 DEF Exchange, Asked, Worked, Replied, Died
  <2>4. fds
    BY <2>2 DEF OwnerInv
  <2> QED BY <2>1, <2>3, <2>4
<1>10. child = "idle" /\ inp # <<>> =>
          \/ Exchanging /\ Asked /\ OwnTokens /\ Unread /\ got = <<>> /\ out = <<>>
          \/ opc = "reap" /\ ~Exchanging /\ inp[1].what = "q"
  <2> SUFFICES ASSUME child = "idle", inp # <<>>
               PROVE  \/ Exchanging /\ Asked /\ OwnTokens /\ Unread /\ got = <<>> /\ out = <<>>
                      \/ opc = "reap" /\ ~Exchanging /\ inp[1].what = "q"
    OBVIOUS
  <2>1. CASE Exchanging
    <3>1. Exchange
      BY <2>1 DEF PipeInv
    <3> QED BY <2>1, <3>1 DEF Exchange, Asked, Worked, Replied, Died
  <2>2. CASE ~Exchanging
    <3>1. opc = "reap"
      BY <1>1, <1>3, <1>4, <1>5, <1>6, <2>2 DEF Greeting
    <3>2. 1 \in 1..Len(inp)
      BY TailFacts DEF TypeOK, PipeTypes
    <3> QED BY <1>7, <2>2, <3>1, <3>2
  <2> QED BY <2>1, <2>2
<1>11. ChildReads => opc \notin {"spawn", "closed", "failed"}
  BY <1>4 DEF ChildReads
<1> QED BY <1>8, <1>9, <1>10, <1>11

(* What the child leaves alone.                                            *)
LEMMA ChildKeeps ==
    ASSUME IInv, UNCHANGED ownerVars, UNCHANGED callVars, opc \notin {"spawn", "closed", "failed"}
    PROVE  OwnerTypes' /\ CallTypes' /\ OwnerInv' /\ CountInv' /\ (Exchanging' <=> Exchanging)
<1> USE DEF IInv
<1>1. OwnerTypes' /\ CallTypes'
  BY TypesKept DEF TypeOK
<1> USE DEF ownerVars, callVars
<1>2. OwnerInv'
  BY DEF OwnerInv
<1>3. CountInv' /\ (Exchanging' <=> Exchanging)
  BY DEF CountInv, Waiting, Exchanging
<1> QED BY <1>1, <1>2, <1>3

(* The child greets, or fails to open the file.                            *)
LEMMA ChildStartsKeeps == IInv /\ (ChildReady \/ ChildRefuses) => IInv'
<1> SUFFICES ASSUME IInv, ChildReady \/ ChildRefuses PROVE IInv'
  OBVIOUS
<1> USE DEF IInv
<1>1. /\ child = "starting" /\ UNCHANGED <<line, parts, died, loaded, edited, disk, inp>>
      /\ UNCHANGED ownerVars /\ UNCHANGED callVars
      /\ \/ child' = "idle" /\ out' = Append(out, NUL)
         \/ child' = "exited" /\ out' = out
         \/ child' = "idle" /\ out' = out \o <<Data(0, TRUE), NUL>>
  BY DEF ChildReady, ChildRefuses
<1>2. opc = "handshake" /\ inp = <<>> /\ out = <<>>
  BY <1>1, ChildAt
<1>3. holder = Nobody /\ ~Exchanging
  BY <1>2, OwnerFacts DEF OwnerInv, Exchanging, TypeOK, CallTypes
<1>4. OwnerTypes' /\ CallTypes' /\ OwnerInv' /\ CountInv' /\ ~Exchanging'
  BY <1>1, <1>2, <1>3, ChildKeeps
<1>5. /\ out' \in Seq(Tokens) /\ (child' = "idle" => out' # <<>>) /\ (child' = "exited" => out' = <<>>)
      /\ out' # <<>> /\ out'[1] = NUL => Len(out') = 1
  <2> DEFINE data == Data(0, TRUE)
  <2>1. NUL \in Tokens /\ data \in Tokens /\ data # NUL
    BY BoundsAssumption DEF NUL, Data, Tokens
  <2>2. \/ child' = "idle" /\ out' = Append(out, NUL)
        \/ child' = "exited" /\ out' = out
        \/ child' = "idle" /\ out' = out \o <<data, NUL>>
    BY <1>1
  <2> HIDE DEF data
  <2>3. CASE child' = "idle" /\ out' = Append(out, NUL)
    <3>1. out' \in Seq(Tokens) /\ Len(out') = 1
      BY <1>2, <2>1, <2>3
    <3> QED BY <2>3, <3>1
  <2>4. CASE child' = "exited" /\ out' = out
    BY <1>2, <2>4
  <2>5. CASE child' = "idle" /\ out' = out \o <<data, NUL>>
    <3>1. <<data, NUL>> \in Seq(Tokens) /\ Len(<<data, NUL>>) = 2 /\ <<data, NUL>>[1] = data
      BY <2>1
    <3>2. out' = <<data, NUL>>
      BY <1>2, <2>5, <3>1
    <3>3. out' \in Seq(Tokens) /\ Len(out') = 2 /\ out'[1] = data
      BY <3>1, <3>2
    <3>4. out' # <<>> /\ out'[1] # NUL /\ child' # "exited"
      <4>1. out' = <<>> => Len(out') = 0
        OBVIOUS
      <4>2. out' # <<>>
        BY <3>3, <4>1
      <4> QED BY <2>1, <2>5, <3>3, <4>2
    <3> QED BY <3>3, <3>4
  <2> QED BY <2>2, <2>3, <2>4, <2>5
<1>6. TypeOK'
  <2>1. PipeTypes' /\ ChildTypes'
    BY <1>1, <1>5 DEF TypeOK, PipeTypes, ChildTypes
  <2> QED BY <1>4, <2>1 DEF TypeOK
<1>7. UNCHANGED <<opts, opc, failed, holder, inflight, got, lastId, returned, answered>>
  BY <1>1 DEF ownerVars, callVars
<1>8. PipeInv'
  <2>1. Greeting'
    BY <1>1, <1>2, <1>5 DEF Greeting
  <2> QED BY <1>2, <1>4, <1>7, <2>1 DEF PipeInv
<1>9. AnswerInv'
  BY <1>1, <1>7, AnswersKept
<1>10. SavedInv' /\ ProjectInv'
  BY <1>1, <1>2, <1>7 DEF SavedInv, ProjectInv, ProjectKept
<1> QED BY <1>4, <1>6, <1>8, <1>9, <1>10

(* The child carries out a command.                                        *)
LEMMA ChildTakesKeeps == IInv /\ ChildTakes => IInv'
<1> SUFFICES ASSUME IInv, ChildTakes PROVE IInv'
  OBVIOUS
<1> USE DEF IInv
<1>1. /\ child = "idle" /\ inp # <<>> /\ inp' = Tail(inp)
      /\ IF Head(inp).what = "q" THEN child' = "exited" /\ UNCHANGED line
         ELSE child' = "busy" /\ line' = Head(inp)
      /\ UNCHANGED ownerVars /\ UNCHANGED callVars
      /\ UNCHANGED <<parts, died, loaded, edited, disk, out>>
  BY DEF ChildTakes
<1>2. /\ Head(inp) = inp[1] /\ Head(inp) \in Lines /\ Tail(inp) \in Seq(Lines)
      /\ Len(inp) = 1 => Tail(inp) = <<>>
  <2>1. /\ Head(inp) = inp[1] /\ Head(inp) \in Lines /\ Tail(inp) \in Seq(Lines)
        /\ Len(Tail(inp)) = Len(inp) - 1
    BY <1>1, TailFacts DEF TypeOK, PipeTypes
  <2> QED BY <2>1, EmptySeq
<1>3. \/ Exchanging /\ Asked /\ OwnTokens /\ Unread /\ got = <<>> /\ out = <<>>
      \/ opc = "reap" /\ ~Exchanging /\ inp[1].what = "q"
  BY <1>1, ChildAt
<1>4. OwnerTypes' /\ CallTypes' /\ OwnerInv' /\ CountInv' /\ (Exchanging' <=> Exchanging)
  BY <1>1, ChildAt, ChildKeeps DEF ChildReads
<1>5. TypeOK'
  <2>1. PipeTypes'
    BY <1>1, <1>2 DEF TypeOK, PipeTypes
  <2>2. ChildTypes'
    BY <1>1, <1>2 DEF TypeOK, ChildTypes
  <2> QED BY <1>4, <2>1, <2>2 DEF TypeOK
<1>6. UNCHANGED <<opts, opc, failed, holder, inflight, got, lastId, returned, answered>>
  BY <1>1 DEF ownerVars, callVars
<1>7. AnswerInv'
  BY <1>1, <1>6, AnswersKept
<1>8. CASE Exchanging /\ Asked /\ OwnTokens /\ Unread /\ got = <<>> /\ out = <<>>
  <2>1. opc \in {"listing", "waiting", "ready", "drain"} /\ inp[1].what # "q"
    <3>1. opc \in {"listing", "waiting", "ready", "drain"}
      BY <1>8, OwnerFacts DEF OwnerInv, TypeOK, CallTypes, Exchanging
    <3> QED BY <1>8, <3>1 DEF Asked, AskedAt
  <2>2. child' = "busy" /\ inp' = <<>> /\ line' = inp[1]
    BY <1>1, <1>2, <1>8, <2>1 DEF Asked
  <2>3. Worked'
    BY <1>6, <1>8, <2>2 DEF Asked, Worked
  <2>4. Exchange'
    BY <1>1, <1>6, <1>8, <2>3 DEF Exchange, OwnTokens, Unread
  <2>5. PipeInv'
    BY <1>4, <1>6, <1>8, <2>1, <2>4 DEF PipeInv
  <2>6. SavedInv'
    BY <1>1, <1>6, <2>1, <2>2 DEF SavedInv
  <2>7. ProjectInv'
    <3>1. Loading => Loading'
      BY <1>1, <2>2 DEF Loading
    <3> QED BY <1>1, <1>6, <2>2, <3>1 DEF ProjectInv, ProjectKept, ChildReads
  <2> QED BY <1>4, <1>5, <1>7, <2>5, <2>6, <2>7
<1>9. CASE opc = "reap" /\ ~Exchanging /\ inp[1].what = "q"
  <2>1. child' = "exited"
    BY <1>1, <1>2, <1>9
  <2>2. PipeInv'
    BY <1>4, <1>6, <1>9, <2>1 DEF PipeInv
  <2>3. SavedInv' /\ ProjectInv'
    BY <1>1, <1>6, <1>9, <2>1 DEF SavedInv, ProjectInv, ProjectKept, ChildReads
  <2> QED BY <1>4, <1>5, <1>7, <2>2, <2>3
<1> QED BY <1>3, <1>8, <1>9

(* A reply, for a command whose line is the only thing under way.          *)
LEMMA ChildRepliesKeeps == IInv /\ ChildReplies => IInv'
<1> SUFFICES ASSUME IInv, ChildReplies PROVE IInv'
  OBVIOUS
<1> USE DEF IInv
<1>1. /\ Exchanging /\ Worked /\ OwnTokens /\ Unread /\ got = <<>> /\ out = <<>> /\ fds
      /\ child = "busy" /\ inp = <<>> /\ line.id = inflight /\ line.what \in AskedAt[opc]
  BY ChildAt DEF ChildReplies, Worked
<1>2. PICK n \in (IF line.what = "Pl" /\ disk # "absent" THEN 1 ELSE 0)..MaxParts :
         /\ out' = IF fds THEN out \o Reply(line.id, n, line.what) ELSE out
         /\ parts' = IF line.id = 0 THEN parts ELSE [parts EXCEPT ![line.id] = @ + n]
  BY DEF ChildReplies
<1>3. /\ child' = "idle" /\ line' = NoLine
      /\ UNCHANGED ownerVars /\ UNCHANGED callVars /\ UNCHANGED <<died, inp>>
      /\ Effect(line.what)
  BY <1>1 DEF ChildReplies
<1>4. /\ opc \in {"listing", "waiting", "ready", "drain"}
      /\ opc = "drain" <=> line.what = "Ps"
      /\ opc = "listing" <=> line.what = "Pl"
      /\ opc = "waiting" => line.what \in {"aaa", "P"}
  <2>1. opc \in {"listing", "waiting", "ready", "drain"}
    BY <1>1, OwnerFacts DEF OwnerInv, TypeOK, CallTypes, Exchanging
  <2> QED BY <1>1, <2>1 DEF AskedAt
<1>5. /\ n \in Nat /\ (line.what = "Pl" /\ disk # "absent" => n >= 1)
      /\ inflight \in 0..MaxCmds /\ MaxCmds \in Nat /\ lastId \in 0..MaxCmds
      /\ inflight # 0 => inflight \in Ids /\ inflight <= lastId /\ inflight \notin answered
  <2>1. n \in Nat /\ (line.what = "Pl" /\ disk # "absent" => n >= 1)
    BY <1>2, BoundsAssumption
  <2>2. inflight \in 0..MaxCmds /\ MaxCmds \in Nat /\ lastId \in 0..MaxCmds
    BY BoundsAssumption DEF TypeOK, CallTypes
  <2>3. holder = Nobody => inflight = 0
    BY DEF OwnerInv
  <2>4. holder # Nobody => inflight \in 1..lastId /\ inflight \notin answered
    BY DEF OwnerInv
  <2> QED BY <2>1, <2>2, <2>3, <2>4 DEF Ids
<1> DEFINE r == Reply(inflight, n, line.what)
<1>6. /\ r \in Seq(Tokens) /\ Len(r) = n + 1 /\ r[n + 1] = NUL
      /\ \A k \in 1..n : /\ r[k].of = inflight
                         /\ r[k].name <=> (k = n /\ line.what = "Pl" /\ disk # "absent")
  BY <1>5, ReplyFacts
<1> HIDE DEF r
<1>7. out' = r /\ out' # <<>>
  <2>1. out' = <<>> \o r
    BY <1>1, <1>2 DEF r
  <2>2. <<>> \o r = r /\ r # <<>>
    <3>1. <<>> \o r = r
      BY <1>6, ConcatEmptySeq
    <3>2. Len(r) # 0 /\ Len(<<>>) = 0
      BY <1>5, <1>6
    <3> QED BY <3>1, <3>2
  <2> QED BY <2>1, <2>2
<1>8. OwnerTypes' /\ CallTypes' /\ OwnerInv' /\ CountInv' /\ Exchanging'
  BY <1>1, <1>3, <1>4, ChildKeeps
<1>9. /\ parts \in [Ids -> Nat] /\ parts' \in [Ids -> Nat]
      /\ inflight # 0 => parts'[inflight] = n
      /\ \A i \in Ids \ {inflight} : parts'[i] = parts[i]
  <2>1. parts \in [Ids -> Nat] /\ parts' = IF inflight = 0 THEN parts ELSE [parts EXCEPT ![inflight] = @ + n]
    BY <1>1, <1>2 DEF TypeOK, ChildTypes
  <2>2. inflight # 0 => parts[inflight] = 0
    BY <1>1 DEF Unread
  <2>3. CASE inflight = 0
    BY <2>1, <2>3
  <2>4. CASE inflight # 0
    BY <1>5, <2>1, <2>2, <2>4
  <2> QED BY <2>3, <2>4
<1>10. /\ loaded' = (loaded \/ line.what = "P")
       /\ line.what = "Ps" => edited' = FALSE
       /\ edited' \in BOOLEAN
       /\ disk' = IF line.what # "Ps" THEN disk
                  ELSE IF disk = "previous" /\ ~loaded THEN "clobbered" ELSE "saved"
  BY <1>3 DEF Effect, TypeOK, ChildTypes
<1>11. UNCHANGED <<opts, opc, failed, fds, holder, inflight, got, lastId, returned, answered>>
  BY <1>3 DEF ownerVars, callVars
<1>12. TypeOK'
  <2>1. PipeTypes'
    BY <1>3, <1>6, <1>7 DEF TypeOK, PipeTypes
  <2>2. NoLine \in Lines
    BY BoundsAssumption DEF NoLine, Lines
  <2>3. ChildTypes'
    BY <1>3, <1>9, <1>10, <2>2 DEF TypeOK, ChildTypes
  <2> QED BY <1>8, <2>1, <2>3 DEF TypeOK
<1>13. PipeInv'
  <2>2. OwnTokens'
    BY <1>1, <1>5, <1>6, <1>7, <1>11 DEF OwnTokens
  <2>3. inflight # 0 => Len(got) + Len(r) = parts'[inflight] + 1
    BY <1>1, <1>5, <1>6, <1>9
  <2>4. Replied'
    BY <1>1, <1>3, <1>5, <1>6, <1>7, <1>11, <2>3 DEF Replied
  <2> QED BY <1>4, <1>8, <1>11, <2>2, <2>4 DEF PipeInv, Exchange
<1>14. AnswerInv'
  <2>1. \A i \in answered : i \in Ids \ {inflight}
    <3>1. 0 \notin Ids
      BY DEF Ids
    <3> QED BY <1>5, <3>1 DEF TypeOK, CallTypes
  <2>2. \A i \in Ids : i > lastId => parts'[i] = 0
    <3>1. \A i \in Ids : i > lastId => i # inflight
      BY <1>5 DEF Ids
    <3> QED BY <1>9, <3>1 DEF AnswerInv
  <2>3. WholeReply'
    BY <1>3, <1>9, <1>11, <2>1 DEF AnswerInv, WholeReply, OwnOutput
  <2> QED BY <1>11, <2>2, <2>3 DEF AnswerInv
<1>15. SavedInv'
  BY <1>3, <1>4, <1>10, <1>11 DEF SavedInv
<1>16. ProjectInv'
  <2>1. ChildReads
    BY <1>1 DEF ChildReads
  <2>2. line.what = "Ps" /\ disk = "previous" => loaded
    BY <1>4, <2>1 DEF ProjectInv
  <2>3. ProjectKept' /\ (disk' = "previous" => disk = "previous")
    BY <1>10, <2>2 DEF ProjectInv, ProjectKept
  <2>4. opc = "listing" /\ disk = "previous" => Named'
    <3> SUFFICES ASSUME opc = "listing", disk = "previous" PROVE Named'
      OBVIOUS
    <3>1. n \in 1..n /\ n \in 1..Len(r) /\ line.what = "Pl" /\ disk # "absent"
      BY <1>4, <1>5, <1>6
    <3>2. r[n].name
      BY <1>6, <3>1
    <3> QED BY <1>7, <3>1, <3>2 DEF Named
  <2>5. opc = "waiting" /\ disk = "previous" => loaded \/ line.what = "P"
    BY <1>1, <2>1 DEF ProjectInv, Loading
  <2> QED BY <1>4, <1>10, <1>11, <2>1, <2>3, <2>4, <2>5 DEF ProjectInv
<1> QED BY <1>8, <1>12, <1>13, <1>14, <1>15, <1>16

(* The child dies.                                                         *)
LEMMA ChildDiesKeeps == IInv /\ ChildDies => IInv'
<1> SUFFICES ASSUME IInv, ChildDies PROVE IInv'
  OBVIOUS
<1> USE DEF IInv
<1>1. /\ ChildReads /\ child # "starting" /\ child' = "exited" /\ died' = TRUE /\ line' = NoLine
      /\ \/ UNCHANGED out
         \/ child = "busy" /\ out' = Append(out, Data(line.id, FALSE))
      /\ UNCHANGED ownerVars /\ UNCHANGED callVars /\ UNCHANGED <<parts, loaded, edited, disk, inp>>
  BY DEF ChildDies
<1>2. child \in {"idle", "busy"} /\ opc \notin {"spawn", "closed", "failed"}
  BY <1>1, ChildAt DEF ChildReads
<1>3. OwnerTypes' /\ CallTypes' /\ OwnerInv' /\ CountInv' /\ (Exchanging' <=> Exchanging)
  BY <1>1, <1>2, ChildKeeps
<1>4. UNCHANGED <<opts, opc, failed, holder, inflight, got, lastId, returned, answered>>
  BY <1>1 DEF ownerVars, callVars
<1>5. /\ out' \in Seq(Tokens)
      /\ out' = out \/ (Exchanging /\ Len(out') = 1 /\ out'[1].of = inflight)
  <2>1. CASE UNCHANGED out
    BY <2>1 DEF TypeOK, PipeTypes
  <2>2. CASE child = "busy" /\ out' = Append(out, Data(line.id, FALSE))
    <3> DEFINE e == Data(inflight, FALSE)
    <3>1. out = <<>> /\ Exchanging /\ line.id = inflight
      BY <2>2, ChildAt DEF Worked
    <3>2. e \in Tokens /\ e.of = inflight
      BY BoundsAssumption DEF TypeOK, CallTypes, Tokens, Data
    <3> HIDE DEF e
    <3>3. out' = Append(<<>>, e)
      BY <2>2, <3>1 DEF e
    <3>4. out' \in Seq(Tokens) /\ Len(out') = 1 /\ out'[1] = e
      BY <3>2, <3>3
    <3> QED BY <3>1, <3>2, <3>4
  <2> QED BY <1>1, <2>1, <2>2
<1>6. TypeOK'
  <2>1. NoLine \in Lines
    BY BoundsAssumption DEF NoLine, Lines
  <2>2. ChildTypes'
    BY <1>1, <2>1 DEF TypeOK, ChildTypes
  <2>3. PipeTypes'
    BY <1>1, <1>5 DEF TypeOK, PipeTypes
  <2> QED BY <1>3, <2>2, <2>3 DEF TypeOK
<1>7. PipeInv'
  <2>1. Died'
    BY <1>1 DEF Died
  <2>2. Exchanging => Exchange'
    <3> SUFFICES ASSUME Exchanging PROVE Exchange'
      OBVIOUS
    <3>1. OwnTokens
      BY DEF PipeInv, Exchange
    <3>2. OwnTokens'
      BY <1>4, <1>5, <3>1 DEF OwnTokens
    <3> QED BY <2>1, <3>2 DEF Exchange
  <2>3. ~Exchanging /\ Settled => Settled'
    BY <1>5, <2>1 DEF Settled
  <2>4. opc \in {"handshake", "list", "open", "analyze", "save", "quit"} => ~Exchanging
    BY OwnerFacts DEF OwnerInv, TypeOK, CallTypes, Exchanging
  <2>5. ~Exchanging /\ Greeting => Greeting'
    BY <1>1, <1>5 DEF Greeting
  <2> QED BY <1>1, <1>3, <1>4, <2>2, <2>3, <2>4, <2>5 DEF PipeInv
<1>8. AnswerInv'
  BY <1>1, <1>4, AnswersKept
<1>9. SavedInv' /\ ProjectInv'
  BY <1>1, <1>4 DEF SavedInv, ProjectInv, ProjectKept, ChildReads
<1> QED BY <1>3, <1>6, <1>7, <1>8, <1>9

-----------------------------------------------------------------------------
(* The invariant, and what follows from it                                 *)

(* The steps of Next without the system they run on.                       *)
LEMMA NextActions ==
    Next => \/ Spawn \/ Handshake \/ StartSend \/ StartRead
            \/ BeginShutdown \/ Save \/ Drain \/ Quit \/ Reap
            \/ ChildReady \/ ChildRefuses \/ ChildTakes \/ ChildReplies \/ ChildDies
            \/ \E w \in Workers : Call(w) \/ WorkerSend(w) \/ WorkerRead(w)
            \/ UNCHANGED vars
<1>1. OwnerStep => Spawn \/ Handshake \/ StartSend \/ StartRead \/ Save \/ Drain \/ Quit \/ Reap
  BY DEF OwnerStep, StartPosix, ShutdownPosix, ReapPosix, SpawnWindows, HandshakeWindows,
         StartWindows, ShutdownWindows, ReapWindows, Shutdown
<1>2. \A w \in Workers : WorkerStep(w) => WorkerSend(w) \/ WorkerRead(w)
  BY DEF WorkerStep, CmdPosix, CmdWindows
<1>3. ChildStep => ChildReady \/ ChildTakes \/ ChildReplies
  BY DEF ChildStep
<1>4. Finished => UNCHANGED vars
  BY DEF Finished
<1> QED BY <1>1, <1>2, <1>3, <1>4 DEF Next

(* The invariant holds at first.                                           *)
LEMMA InitInv == Init => IInv
<1> SUFFICES ASSUME Init PROVE IInv
  OBVIOUS
<1> USE DEF Init
<1>1. /\ opc = "spawn" /\ holder = Nobody /\ child = "none" /\ inp = <<>> /\ out = <<>> /\ got = <<>>
      /\ ~failed /\ ~pid /\ ~fds /\ inflight = 0 /\ lastId = 0 /\ answered = {}
      /\ wpc = [w \in Workers |-> "idle"] /\ returned = [i \in Ids |-> <<>>] /\ parts = [i \in Ids |-> 0]
      /\ disk \in {"absent", "previous"} /\ (disk = "previous" => opts.project)
  OBVIOUS
<1>2. TypeOK
  <2>1. OwnerTypes
    <3>1. /\ opts \in [write : BOOLEAN, project : BOOLEAN, analyze : BOOLEAN]
          /\ host \in {"plain", "ignoring", "windows"}
      OBVIOUS
    <3> QED BY <1>1, <3>1 DEF OwnerTypes
  <2>2. CallTypes
    <3>1. <<>> \in Seq(Tokens) /\ 0 \in 0..MaxCmds
      BY BoundsAssumption
    <3>2. wpc \in [Workers -> {"idle", "want", "reading"}] /\ returned \in [Ids -> Seq(Tokens)]
      BY <1>1, <3>1
    <3> QED BY <1>1, <3>1, <3>2, OwnerFacts DEF CallTypes
  <2>3. ChildTypes
    <3>1. NoLine \in Lines
      BY BoundsAssumption DEF NoLine, Lines
    <3>2. parts \in [Ids -> Nat]
      BY <1>1
    <3>3. line = NoLine /\ died \in BOOLEAN /\ loaded \in BOOLEAN /\ edited \in BOOLEAN
      OBVIOUS
    <3> QED BY <1>1, <3>1, <3>2, <3>3 DEF ChildTypes
  <2>4. PipeTypes
    BY DEF PipeTypes
  <2> QED BY <2>1, <2>2, <2>3, <2>4 DEF TypeOK
<1>3. OwnerInv
  BY <1>1, OwnerFacts DEF OwnerInv
<1>4. PipeInv
  BY <1>1 DEF PipeInv, Exchanging
<1>5. CountInv
  <2>1. Waiting = {} /\ IsFiniteSet({}) /\ Cardinality({}) = 0
    BY <1>1, FS_EmptySet DEF Waiting
  <2> QED BY <1>1, <2>1, BoundsAssumption DEF CountInv
<1>6. AnswerInv
  BY <1>1 DEF AnswerInv, WholeReply, OwnOutput
<1>7. SavedInv /\ ProjectInv
  BY <1>1 DEF SavedInv, ProjectInv, ProjectKept
<1> QED BY <1>2, <1>3, <1>4, <1>5, <1>6, <1>7 DEF IInv

(* Nothing changes.                                                        *)
LEMMA StutterKeeps == IInv /\ UNCHANGED vars => IInv'
<1> SUFFICES ASSUME IInv, UNCHANGED vars PROVE IInv'
  OBVIOUS
<1> USE DEF IInv
<1>1. UNCHANGED ownerVars /\ UNCHANGED callVars /\ UNCHANGED childVars /\ UNCHANGED pipeVars
  BY DEF vars
<1>2. TypeOK'
  BY <1>1, TypesKept DEF TypeOK
<1> USE <1>1 DEF ownerVars, callVars, childVars, pipeVars
<1>3. OwnerInv' /\ CountInv' /\ AnswerInv'
  BY AnswersKept DEF OwnerInv, CountInv, Waiting
<1>4. PipeInv'
  <2>1. (Exchange => Exchange') /\ (Settled => Settled') /\ (Greeting => Greeting')
    BY DEF Exchange, OwnTokens, Asked, Worked, Unread, Replied, Died, Settled, Greeting
  <2> QED BY <2>1 DEF PipeInv, Exchanging
<1>5. SavedInv' /\ ProjectInv'
  BY DEF SavedInv, ProjectInv, ProjectKept, ChildReads, Named, Loading
<1> QED BY <1>2, <1>3, <1>4, <1>5

(* The inductive step.                                                     *)
LEMMA StepKeeps == ASSUME MaxLines = 1 PROVE IInv /\ [Next]_vars => IInv'
<1> SUFFICES ASSUME IInv, [Next]_vars PROVE IInv'
  OBVIOUS
<1>1. CASE Spawn \/ Handshake \/ StartSend \/ StartRead
  BY <1>1, SpawnKeeps, HandshakeKeeps, StartSendKeeps, StartReadKeeps
<1>2. CASE BeginShutdown \/ Save \/ Drain \/ Quit \/ Reap
  BY <1>2, BeginShutdownKeeps, SaveKeeps, DrainKeeps, QuitKeeps, ReapKeeps
<1>3. CASE ChildReady \/ ChildRefuses \/ ChildTakes \/ ChildReplies \/ ChildDies
  BY <1>3, ChildStartsKeeps, ChildTakesKeeps, ChildRepliesKeeps, ChildDiesKeeps
<1>4. ASSUME NEW w \in Workers, Call(w) \/ WorkerSend(w) \/ WorkerRead(w) PROVE IInv'
  BY <1>4, CallKeeps, WorkerSendKeeps, WorkerReadKeeps
<1>5. CASE UNCHANGED vars
  BY <1>5, StutterKeeps
<1> QED BY <1>1, <1>2, <1>3, <1>4, <1>5, NextActions

-----------------------------------------------------------------------------
(* Commands of any number of lines                                         *)

(* The owner's steps, whatever is in the pipes.                            *)
LEMMA OwnerServes ==
    ASSUME ServingInv, BeginShutdown \/ Save \/ Drain \/ Quit \/ Reap
    PROVE  ServingInv'
<1> USE DEF ServingInv
<1>1. /\ UNCHANGED callVars /\ UNCHANGED <<opts, failed, parts, died, loaded, edited, disk>>
      /\ host' \in {"plain", "ignoring", "killed", "windows"}
      /\ \/ opc = "ready" /\ opc' \in {"save", "quit"} /\ UNCHANGED <<pid, fds>> /\ \A w \in Workers : wpc[w] = "idle"
         \/ opc = "save" /\ opc' = "drain" /\ UNCHANGED <<pid, fds>>
         \/ opc = "drain" /\ opc' \in {"drain", "quit"} /\ UNCHANGED <<pid, fds>>
         \/ opc = "quit" /\ opc' = "reap" /\ UNCHANGED pid /\ fds' = FALSE
         \/ opc = "reap" /\ opc' = "closed" /\ UNCHANGED fds /\ pid' = FALSE
      /\ IF opc = "reap" THEN child' = "reaped" /\ line' = NoLine ELSE UNCHANGED <<child, line>>
  <2>0. OwnerTypes
    BY DEF TypeOK
  <2>1. CASE BeginShutdown
    BY <2>0, <2>1 DEF BeginShutdown, Goto, childVars, OwnerTypes
  <2>2. CASE Save
    BY <2>0, <2>2, WriteFacts DEF Save, Goto, childVars
  <2>3. CASE Drain
    BY <2>0, <2>3 DEF Drain, Goto, childVars, OwnerTypes
  <2>4. CASE Quit
    BY <2>0, <2>4, WriteFacts DEF Quit, Goto, childVars
  <2>5. CASE Reap
    BY <2>0, <2>5 DEF Reap, Goto, Ended, OwnerTypes
  <2> QED BY <2>1, <2>2, <2>3, <2>4, <2>5
<1>2. inp' \in Seq(Lines) /\ out' \in Seq(Tokens)
  <2>0. OwnerTypes /\ inp \in Seq(Lines) /\ out \in Seq(Tokens)
    BY DEF TypeOK, PipeTypes
  <2>1. CASE BeginShutdown \/ Reap
    BY <2>0, <2>1 DEF BeginShutdown, Reap, pipeVars
  <2>2. CASE Save
    <3> DEFINE ls == <<[id |-> 0, what |-> "Ps"]>>
    <3>1. ls \in Seq(Lines)
      BY BoundsAssumption DEF Lines, Commands
    <3>2. WriteLines(ls) /\ UNCHANGED out
      BY <2>2 DEF Save
    <3> HIDE DEF ls
    <3>3. inp' = inp \o ls \/ inp' = inp
      BY <2>0, <3>2, WriteFacts
    <3>4. inp \o ls \in Seq(Lines)
      BY <2>0, <3>1
    <3> QED BY <2>0, <3>2, <3>3, <3>4
  <2>3. CASE Drain
    <3>1. out' = out \/ (out # <<>> /\ out' = Tail(out))
      BY <2>3 DEF Drain
    <3> QED BY <2>0, <2>3, <3>1, TailFacts DEF Drain
  <2>4. CASE Quit
    <3> DEFINE ls == <<[id |-> 0, what |-> "q"]>>
    <3>1. ls \in Seq(Lines)
      BY BoundsAssumption DEF Lines, Commands
    <3>2. WriteLines(ls) /\ UNCHANGED out
      BY <2>4 DEF Quit
    <3> HIDE DEF ls
    <3>3. inp' = inp \o ls \/ inp' = inp
      BY <2>0, <3>2, WriteFacts
    <3>4. inp \o ls \in Seq(Lines)
      BY <2>0, <3>1
    <3> QED BY <2>0, <3>2, <3>3, <3>4
  <2> QED BY <2>1, <2>2, <2>3, <2>4
<1>3. TypeOK'
  <2>1. OwnerTypes'
    BY <1>1 DEF TypeOK, OwnerTypes
  <2>2. ChildTypes'
    <3>1. NoLine \in Lines
      BY BoundsAssumption DEF NoLine, Lines
    <3> QED BY <1>1, <3>1 DEF TypeOK, ChildTypes
  <2> QED BY <1>1, <1>2, <2>1, <2>2, TypesKept DEF TypeOK, PipeTypes
<1>4. holder = Nobody /\ \A w \in Workers : wpc[w] = "idle"
  BY <1>1, OwnerFacts DEF OwnerInv, TypeOK, CallTypes
<1>5. OwnerInv'
  BY <1>1, <1>4, OwnerFacts DEF OwnerInv, callVars
<1>6. CountInv'
  BY <1>1 DEF CountInv, Waiting, callVars
<1>7. UNCHANGED <<answered, lastId>>
  BY <1>1 DEF callVars
<1> QED BY <1>1, <1>3, <1>5, <1>6, <1>7 DEF ProjectKept, ChildReads, Serving

(* The callers' steps.                                                     *)
LEMMA CallServes ==
    ASSUME ServingInv, NEW w \in Workers, Call(w)
    PROVE  ServingInv'
<1> USE DEF ServingInv
<1>1. /\ opc = "ready" /\ wpc[w] = "idle" /\ lastId + Cardinality(Waiting) < MaxCmds
      /\ wpc' = [wpc EXCEPT ![w] = "want"]
      /\ UNCHANGED <<holder, inflight, got, lastId, returned, answered>>
      /\ UNCHANGED ownerVars /\ UNCHANGED childVars /\ UNCHANGED pipeVars
  BY DEF Call, Waiting
<1>2. TypeOK'
  <2>1. wpc \in [Workers -> {"idle", "want", "reading"}]
    BY DEF TypeOK, CallTypes
  <2>2. /\ wpc' \in [Workers -> {"idle", "want", "reading"}]
        /\ \A v \in Workers : wpc'[v] = "reading" <=> wpc[v] = "reading"
    BY <1>1, <2>1
  <2>3. CallTypes'
    BY <1>1, <2>2 DEF TypeOK, CallTypes
  <2> QED BY <1>1, <2>3, TypesKept DEF TypeOK
<1>3. UNCHANGED <<opts, opc, failed, pid, fds, child, line, parts, died, loaded, edited, disk, inp, out>>
  BY <1>1 DEF ownerVars, childVars, pipeVars
<1>4. OwnerInv'
  BY <1>1, <1>3 DEF OwnerInv
<1>5. CountInv'
  <2>1. Waiting' = Waiting \cup {w} /\ w \notin Waiting
    BY <1>1 DEF Waiting, TypeOK, CallTypes
  <2>2. /\ IsFiniteSet(Waiting \cup {w})
        /\ Cardinality(Waiting \cup {w}) = Cardinality(Waiting) + 1
        /\ Cardinality(Waiting) \in Nat
    BY <2>1, FS_AddElement, FS_CardinalityType DEF CountInv
  <2>3. lastId \in Nat /\ MaxCmds \in Nat
    BY BoundsAssumption DEF TypeOK, CallTypes
  <2> QED BY <1>1, <1>3, <2>1, <2>2, <2>3 DEF CountInv
<1> QED BY <1>1, <1>2, <1>3, <1>4, <1>5 DEF ProjectKept, ChildReads

(* A command of any number of lines is sent.                               *)
LEMMA SendServes ==
    ASSUME ServingInv, NEW w \in Workers, WorkerSend(w)
    PROVE  ServingInv'
<1> USE DEF ServingInv
<1> DEFINE e == [id |-> lastId + 1, what |-> "user"]
<1>1. PICK n \in 1..MaxLines : Send(w, [i \in 1..n |-> e])
  BY DEF WorkerSend
<1> DEFINE ls == [i \in 1..n |-> e]
<1>2. /\ wpc[w] = "want" /\ Send(w, ls)
      /\ wpc' = [wpc EXCEPT ![w] = IF ChildReads THEN "reading" ELSE "idle"]
      /\ UNCHANGED <<opts, opc, failed, pid, fds, childVars, out>>
  BY <1>1 DEF WorkerSend
<1>3. opc = "ready" /\ holder = Nobody /\ inflight = 0 /\ got = <<>> /\ w \notin {Owner, Nobody}
  BY <1>2, OwnerFacts DEF OwnerInv, Send
<1>4. /\ w \in Waiting /\ IsFiniteSet(Waiting) /\ IsFiniteSet(Waiting \ {w})
      /\ Cardinality(Waiting \ {w}) = Cardinality(Waiting) - 1
      /\ Cardinality(Waiting) \in Nat /\ Cardinality(Waiting \ {w}) \in Nat
  BY <1>2, FS_RemoveElement, FS_CardinalityType DEF CountInv, Waiting
<1>5. lastId \in Nat /\ lastId < MaxCmds /\ MaxCmds \in Nat /\ lastId + 1 \in Ids
  BY <1>4, BoundsAssumption DEF CountInv, TypeOK, CallTypes, Ids
<1>6. ls \in Seq(Lines)
  <2>1. e \in Lines
    BY <1>5 DEF Lines, Commands
  <2>2. n \in Nat
    BY BoundsAssumption
  <2> HIDE DEF e
  <2> QED BY <2>1, <2>2
<1> HIDE DEF ls
<1>7. /\ host' \in {"plain", "ignoring", "killed", "windows"}
      /\ IF ChildReads THEN inp' = inp \o ls ELSE inp' = inp
  BY <1>2, WriteFacts DEF TypeOK, Send
<1>8. /\ lastId' = lastId + 1
      /\ IF ChildReads
         THEN /\ holder' = w /\ inflight' = lastId + 1 /\ got' = <<>>
              /\ UNCHANGED <<returned, answered>>
         ELSE /\ answered' = answered \cup {lastId + 1}
              /\ UNCHANGED <<holder, inflight, got, returned>>
  BY <1>2 DEF Send
<1>9. /\ holder' = (IF ChildReads THEN w ELSE Nobody) /\ holder' \in Workers \cup {Nobody, Owner}
      /\ inflight' \in 0..MaxCmds /\ got' \in Seq(Tokens) /\ lastId' \in 0..MaxCmds
      /\ returned' \in [Ids -> Seq(Tokens)] /\ answered' \subseteq Ids
  <2> USE DEF TypeOK, CallTypes
  <2>1. holder' = (IF ChildReads THEN w ELSE Nobody) /\ holder' \in Workers \cup {Nobody, Owner}
    BY <1>3, <1>8
  <2>2. inflight' \in 0..MaxCmds /\ lastId' \in 0..MaxCmds
    BY <1>3, <1>5, <1>8 DEF Ids
  <2>3. got' \in Seq(Tokens)
    <3>1. <<>> \in Seq(Tokens) /\ got' = <<>>
      BY <1>3, <1>8
    <3> QED BY <3>1
  <2>4. returned' \in [Ids -> Seq(Tokens)]
    BY <1>8
  <2>5. answered' \subseteq Ids
    BY <1>5, <1>8
  <2> QED BY <2>1, <2>2, <2>3, <2>4, <2>5
<1>10. TypeOK'
  <2>1. OwnerTypes'
    BY <1>2, <1>7 DEF TypeOK, OwnerTypes
  <2>2. wpc' \in [Workers -> {"idle", "want", "reading"}]
    BY <1>2 DEF TypeOK, CallTypes
  <2>3. \A v \in Workers : wpc'[v] = "reading" <=> holder' = v
    BY <1>2, <1>3, <1>9, OwnerFacts DEF TypeOK, CallTypes
  <2>4. CallTypes'
    BY <1>9, <2>2, <2>3 DEF CallTypes
  <2>5. PipeTypes'
    <3>1. inp \in Seq(Lines) /\ out \in Seq(Tokens) /\ out' = out
      BY <1>2 DEF TypeOK, PipeTypes
    <3>2. inp \o ls \in Seq(Lines)
      BY <1>6, <3>1
    <3> QED BY <1>7, <3>1, <3>2 DEF PipeTypes
  <2> QED BY <1>2, <2>1, <2>4, <2>5, TypesKept DEF TypeOK
<1>11. \A i \in answered : i <= lastId /\ i \in Nat
  BY DEF TypeOK, CallTypes, Ids
<1>12. \A i \in answered' : i <= lastId'
  BY <1>5, <1>8, <1>11
<1>13. OwnerInv'
  <2>1. holder' = Nobody => inflight' = 0 /\ got' = <<>>
    BY <1>3, <1>8, <1>9
  <2>2. holder' # Nobody => inflight' \in 1..lastId' /\ inflight' \notin answered'
    BY <1>5, <1>8, <1>9, <1>11
  <2> QED BY <1>2, <1>3, <1>9, <2>1, <2>2, OwnerFacts DEF OwnerInv, childVars
<1>14. CountInv'
  <2>1. Waiting' = Waiting \ {w}
    BY <1>2 DEF Waiting, TypeOK, CallTypes
  <2>2. lastId' + Cardinality(Waiting \ {w}) <= MaxCmds
    BY <1>4, <1>5, <1>8 DEF CountInv
  <2> QED BY <1>2, <1>3, <1>4, <2>1, <2>2 DEF CountInv
<1> QED BY <1>2, <1>10, <1>12, <1>13, <1>14 DEF ProjectKept, ChildReads, childVars

(* The data before a NUL.                                                  *)
LEMMA BeforeAnyNul ==
    ASSUME NEW s \in Seq(Tokens)
    PROVE  BeforeNul(s) \in Seq(Tokens)
<1> DEFINE First(i) == (i = Len(s) + 1 \/ s[i] = NUL) /\ \A j \in 1..(i - 1) : s[j] # NUL
           L == {i \in 1..(Len(s) + 1) : i = Len(s) + 1 \/ s[i] = NUL}
           m == CHOOSE i \in 1..(Len(s) + 1) : First(i)
<1>1. Len(s) \in Nat /\ \A i \in 1..Len(s) : s[i] \in Tokens
  BY LenProperties, ElementOfSeq
<1>2. \E i \in 1..(Len(s) + 1) : First(i)
  <2>1. L # {} /\ L \in SUBSET Nat
    BY <1>1
  <2>2. PICK i \in L : \A j \in L : i <= j
    <3> HIDE DEF L
    <3> QED BY <2>1, LeastNumber
  <2>3. \A j \in 1..(i - 1) : s[j] # NUL
    BY <1>1, <2>2
  <2> QED BY <2>2, <2>3
<1> HIDE DEF First, L
<1>3. m \in 1..(Len(s) + 1)
  BY <1>2
<1>4. BeforeNul(s) = SubSeq(s, 1, m - 1)
  BY DEF BeforeNul, First
<1> HIDE DEF m
<1> DEFINE n == m - 1
<1>5. n \in Nat /\ n <= Len(s) /\ \A i \in 1..n : s[i] \in Tokens
  BY <1>1, <1>3
<1>6. SubSeq(s, 1, n) \in Seq(Tokens)
  <2> HIDE DEF n
  <2> QED BY <1>5
<1> QED BY <1>4, <1>6

(* A read takes a chunk of the reply, and ends it or not.                  *)
LEMMA ReadTypes ==
    ASSUME TypeOK, inflight \in Ids, NEW t, ReadChunk(t)
    PROVE  /\ holder = t /\ out' \in Seq(Tokens) /\ UNCHANGED <<lastId, inp, host>>
           /\ \/ got' \in Seq(Tokens) /\ UNCHANGED <<holder, inflight, returned, answered>>
              \/ \E text \in Seq(Tokens) : Finish(text)
<1>1. out \in Seq(Tokens) /\ got \in Seq(Tokens)
  BY DEF TypeOK, CallTypes, PipeTypes
<1>2. holder = t /\ UNCHANGED <<lastId, inp, host>>
  BY DEF ReadChunk
<1>3. CASE out = <<>> /\ ~ChildReads /\ Finish(got) /\ UNCHANGED out
  BY <1>1, <1>2, <1>3
<1>4. ASSUME NEW n \in 1..Len(out), out' = SubSeq(out, n + 1, Len(out)),
             IF HasNul(SubSeq(out, 1, n)) THEN Finish(got \o BeforeNul(SubSeq(out, 1, n)))
             ELSE got' = got \o SubSeq(out, 1, n) /\ UNCHANGED <<holder, inflight, returned, answered>>
      PROVE  /\ out' \in Seq(Tokens)
             /\ \/ got' \in Seq(Tokens) /\ UNCHANGED <<holder, inflight, returned, answered>>
                \/ \E text \in Seq(Tokens) : Finish(text)
  <2> DEFINE chunk == SubSeq(out, 1, n)
             rest == SubSeq(out, n + 1, Len(out))
  <2>1. chunk \in Seq(Tokens) /\ rest \in Seq(Tokens)
    BY <1>1, SplitFacts
  <2>2. out' = rest
    BY <1>4
  <2>3. IF HasNul(chunk) THEN Finish(got \o BeforeNul(chunk))
        ELSE got' = got \o chunk /\ UNCHANGED <<holder, inflight, returned, answered>>
    BY <1>4
  <2> HIDE DEF chunk, rest
  <2>4. BeforeNul(chunk) \in Seq(Tokens)
    BY <2>1, BeforeAnyNul
  <2>5. got \o chunk \in Seq(Tokens) /\ got \o BeforeNul(chunk) \in Seq(Tokens)
    BY <1>1, <2>1, <2>4
  <2> QED BY <2>1, <2>2, <2>3, <2>5
<1> QED BY <1>2, <1>3, <1>4 DEF ReadChunk

(* A caller reads.                                                         *)
LEMMA ReadServes ==
    ASSUME ServingInv, NEW w \in Workers, WorkerRead(w)
    PROVE  ServingInv'
<1> USE DEF ServingInv
<1>1. /\ wpc[w] = "reading" /\ ReadChunk(w)
      /\ wpc' = [wpc EXCEPT ![w] = IF holder' = w THEN @ ELSE "idle"]
      /\ UNCHANGED <<opts, opc, failed, pid, fds, childVars>>
  BY DEF WorkerRead
<1>2. /\ holder = w /\ w \notin {Nobody, Owner} /\ opc = "ready"
      /\ inflight \in 1..lastId /\ inflight \notin answered /\ inflight \in Ids
  BY <1>1, OwnerFacts, BoundsAssumption DEF ReadChunk, OwnerInv, TypeOK, CallTypes, Ids
<1>3. /\ out' \in Seq(Tokens) /\ UNCHANGED <<lastId, inp, host>>
      /\ \/ got' \in Seq(Tokens) /\ UNCHANGED <<holder, inflight, returned, answered>>
         \/ \E text \in Seq(Tokens) : Finish(text)
  BY <1>1, <1>2, ReadTypes
<1>4. /\ got' \in Seq(Tokens) /\ returned' \in [Ids -> Seq(Tokens)] /\ answered' \subseteq Ids
      /\ answered' \subseteq answered \cup {inflight}
      /\ \/ UNCHANGED <<holder, inflight, answered>>
         \/ holder' = Nobody /\ inflight' = 0 /\ got' = <<>>
  <2>1. returned \in [Ids -> Seq(Tokens)] /\ answered \subseteq Ids
    BY DEF TypeOK, CallTypes
  <2>2. CASE got' \in Seq(Tokens) /\ UNCHANGED <<holder, inflight, returned, answered>>
    BY <2>1, <2>2
  <2>3. ASSUME NEW text \in Seq(Tokens), Finish(text)
        PROVE  /\ got' \in Seq(Tokens) /\ returned' \in [Ids -> Seq(Tokens)] /\ answered' \subseteq Ids
               /\ answered' \subseteq answered \cup {inflight}
               /\ holder' = Nobody /\ inflight' = 0 /\ got' = <<>>
    <3>1. returned' = [returned EXCEPT ![inflight] = text] /\ answered' = answered \cup {inflight}
          /\ holder' = Nobody /\ inflight' = 0 /\ got' = <<>>
      BY <2>3 DEF Finish
    <3>2. <<>> \in Seq(Tokens)
      OBVIOUS
    <3>3. got' \in Seq(Tokens)
      BY <3>1, <3>2
    <3>4. returned' \in [Ids -> Seq(Tokens)]
      BY <2>1, <3>1
    <3> QED BY <1>2, <2>1, <3>1, <3>3, <3>4
  <2> QED BY <1>3, <2>2, <2>3
<1>5. TypeOK'
  <2>1. OwnerTypes'
    BY <1>1, <1>3 DEF TypeOK, OwnerTypes
  <2>2. wpc \in [Workers -> {"idle", "want", "reading"}] /\ \A v \in Workers \ {w} : wpc[v] # "reading"
    BY <1>2 DEF TypeOK, CallTypes
  <2>3. wpc' \in [Workers -> {"idle", "want", "reading"}]
    BY <1>1, <2>2
  <2>4. holder' \in {w, Nobody}
    BY <1>2, <1>4
  <2>5. \A v \in Workers : wpc'[v] = "reading" <=> holder' = v
    BY <1>1, <1>2, <2>2, <2>4, OwnerFacts
  <2>6. inflight' \in 0..MaxCmds /\ lastId' \in 0..MaxCmds
    BY <1>3, <1>4, BoundsAssumption DEF TypeOK, CallTypes
  <2>7. CallTypes'
    BY <1>4, <2>3, <2>4, <2>5, <2>6 DEF CallTypes
  <2>8. PipeTypes'
    BY <1>3 DEF TypeOK, PipeTypes
  <2> QED BY <1>1, <2>1, <2>7, <2>8, TypesKept DEF TypeOK
<1>6. OwnerInv'
  BY <1>1, <1>2, <1>3, <1>4, OwnerFacts DEF OwnerInv, childVars
<1>7. CountInv'
  <2>1. Waiting' = Waiting
    BY <1>1 DEF Waiting, TypeOK, CallTypes
  <2> QED BY <1>1, <1>2, <1>3, <2>1 DEF CountInv
<1>8. \A i \in answered' : i <= lastId'
  <2>1. lastId \in Nat
    BY DEF TypeOK, CallTypes
  <2> QED BY <1>2, <1>3, <1>4, <2>1
<1> QED BY <1>1, <1>2, <1>5, <1>6, <1>7, <1>8 DEF ProjectKept, ChildReads, childVars

(* The child's steps.                                                      *)
LEMMA ChildServes ==
    ASSUME ServingInv, ChildReady \/ ChildRefuses \/ ChildTakes \/ ChildReplies \/ ChildDies
    PROVE  ServingInv'
<1> USE DEF ServingInv
<1>1. /\ UNCHANGED ownerVars /\ UNCHANGED callVars /\ ChildReads
      /\ child' \in {"idle", "busy", "exited"} /\ died' \in BOOLEAN
  <2>0. died \in BOOLEAN
    BY DEF TypeOK, ChildTypes
  <2> QED BY <2>0 DEF ChildReady, ChildRefuses, ChildTakes, ChildReplies, ChildDies, ChildReads
<1>2. inp \in Seq(Lines) /\ out \in Seq(Tokens) /\ line \in Lines /\ NoLine \in Lines /\ line.id \in 0..MaxCmds
      /\ parts \in [Ids -> Nat]
  BY BoundsAssumption DEF TypeOK, PipeTypes, ChildTypes, Lines, NoLine
<1>3. NUL \in Tokens /\ Data(0, TRUE) \in Tokens /\ Data(line.id, FALSE) \in Tokens
  BY <1>2, BoundsAssumption DEF NUL, Data, Tokens
<1>4. /\ inp' \in Seq(Lines) /\ out' \in Seq(Tokens) /\ line' \in Lines /\ parts' \in [Ids -> Nat]
      /\ loaded' \in BOOLEAN /\ edited' \in BOOLEAN /\ (loaded => loaded')
      /\ \/ UNCHANGED disk
         \/ disk' = "saved"
         \/ disk = "previous" /\ ~loaded /\ disk' = "clobbered"
  <2>0. loaded \in BOOLEAN /\ edited \in BOOLEAN
    BY DEF TypeOK, ChildTypes
  <2>1. CASE ChildReady
    <3>1. out' = Append(out, NUL) /\ UNCHANGED <<inp, line, parts, loaded, edited, disk>>
      BY <2>1 DEF ChildReady
    <3>2. out' \in Seq(Tokens)
      BY <1>2, <1>3, <3>1
    <3> QED BY <1>2, <2>0, <3>1, <3>2
  <2>2. CASE ChildRefuses
    <3> DEFINE first == Data(0, TRUE)
               two == <<first, NUL>>
    <3>1. two \in Seq(Tokens)
      <4>1. first \in Tokens
        BY <1>3
      <4> HIDE DEF first
      <4> QED BY <1>3, <4>1
    <3>2. (out' = out \/ out' = out \o two) /\ UNCHANGED <<inp, line, parts, loaded, edited, disk>>
      BY <2>2 DEF ChildRefuses
    <3> HIDE DEF two
    <3>3. out \o two \in Seq(Tokens)
      BY <1>2, <3>1
    <3>4. out' \in Seq(Tokens)
      BY <1>2, <3>2, <3>3
    <3> QED BY <1>2, <2>0, <3>2, <3>4
  <2>3. CASE ChildTakes
    <3>1. inp # <<>> /\ inp' = Tail(inp) /\ (line' = line \/ line' = Head(inp))
          /\ UNCHANGED <<out, parts, loaded, edited, disk>>
      BY <2>3 DEF ChildTakes
    <3>2. Head(inp) \in Lines /\ Tail(inp) \in Seq(Lines)
      BY <1>2, <3>1, TailFacts
    <3> QED BY <1>2, <2>0, <3>1, <3>2
  <2>4. CASE ChildReplies
    <3>1. PICK n \in (IF line.what = "Pl" /\ disk # "absent" THEN 1 ELSE 0)..MaxParts :
             /\ out' = IF fds THEN out \o Reply(line.id, n, line.what) ELSE out
             /\ parts' = IF line.id = 0 THEN parts ELSE [parts EXCEPT ![line.id] = @ + n]
      BY <2>4 DEF ChildReplies
    <3>2. n \in Nat
      BY <3>1, BoundsAssumption
    <3> DEFINE r == Reply(line.id, n, line.what)
    <3>3. r \in Seq(Tokens)
      BY <1>2, <3>2, ReplyFacts
    <3>4. out' = out \/ out' = out \o r
      BY <3>1
    <3> HIDE DEF r
    <3>5. out \o r \in Seq(Tokens)
      BY <1>2, <3>3
    <3>6. out' \in Seq(Tokens)
      BY <1>2, <3>4, <3>5
    <3>7. parts' \in [Ids -> Nat]
      <4>1. line.id # 0 => line.id \in Ids
        BY <1>2, BoundsAssumption DEF Ids
      <4> QED BY <1>2, <3>1, <3>2, <4>1
    <3>8. Effect(line.what) /\ line' = NoLine /\ UNCHANGED inp
      BY <2>4 DEF ChildReplies
    <3> QED BY <1>2, <2>0, <3>6, <3>7, <3>8 DEF Effect
  <2>5. CASE ChildDies
    <3> DEFINE e == Data(line.id, FALSE)
    <3>1. (out' = out \/ out' = Append(out, e)) /\ line' = NoLine /\ UNCHANGED <<inp, parts, loaded, edited, disk>>
      BY <2>5 DEF ChildDies
    <3>2. e \in Tokens
      BY <1>3
    <3> HIDE DEF e
    <3>3. Append(out, e) \in Seq(Tokens)
      BY <1>2, <3>2
    <3>4. out' \in Seq(Tokens)
      BY <1>2, <3>1, <3>3
    <3> QED BY <1>2, <2>0, <3>1, <3>4
  <2> QED BY <2>1, <2>2, <2>3, <2>4, <2>5
<1>5. disk = "previous" => loaded
  BY <1>1
<1>6. TypeOK'
  <2>1. ChildTypes'
    <3>1. disk' \in {"absent", "previous", "saved", "clobbered"}
      BY <1>4 DEF TypeOK, ChildTypes
    <3> QED BY <1>1, <1>4, <3>1 DEF ChildTypes
  <2> QED BY <1>1, <1>4, <2>1, TypesKept DEF TypeOK, PipeTypes
<1>7. opc \notin {"spawn", "closed", "failed"}
  BY <1>1 DEF OwnerInv, ChildReads, Serving
<1>8. OwnerInv' /\ CountInv' /\ UNCHANGED <<opc, failed, answered, lastId>>
  BY <1>1, <1>7 DEF OwnerInv, CountInv, Waiting, ownerVars, callVars
<1>9. ProjectKept' /\ (disk' = "previous" => loaded')
  BY <1>4, <1>5 DEF ProjectKept
<1> QED BY <1>6, <1>8, <1>9

(* Once the session is open, every step keeps this.                        *)
LEMMA ServingStep == ServingInv /\ [Next]_vars => ServingInv'
<1> SUFFICES ASSUME ServingInv, [Next]_vars PROVE ServingInv'
  OBVIOUS
<1>1. CASE Spawn \/ Handshake \/ StartSend \/ StartRead
  <2>1. opc \in Serving
    BY DEF ServingInv
  <2> QED BY <1>1, <2>1 DEF Serving, Spawn, Handshake, StartSend, StartRead, CommandAt
<1>2. CASE BeginShutdown \/ Save \/ Drain \/ Quit \/ Reap
  BY <1>2, OwnerServes
<1>3. CASE ChildReady \/ ChildRefuses \/ ChildTakes \/ ChildReplies \/ ChildDies
  BY <1>3, ChildServes
<1>4. ASSUME NEW w \in Workers, Call(w) \/ WorkerSend(w) \/ WorkerRead(w) PROVE ServingInv'
  BY <1>4, CallServes, SendServes, ReadServes
<1>5. CASE UNCHANGED vars
  <2>1. UNCHANGED ownerVars /\ UNCHANGED callVars /\ UNCHANGED childVars /\ UNCHANGED pipeVars
    BY <1>5 DEF vars
  <2>2. TypeOK'
    BY <2>1, TypesKept DEF ServingInv, TypeOK
  <2>3. OwnerInv' /\ CountInv'
    BY <2>1 DEF ServingInv, OwnerInv, CountInv, Waiting, ownerVars, callVars, childVars, pipeVars
  <2> QED BY <2>1, <2>2, <2>3 DEF ServingInv, ProjectKept, ChildReads, ownerVars, callVars, childVars
<1> QED BY <1>1, <1>2, <1>3, <1>4, <1>5, NextActions

(* A command of several lines is sent when the session is open.            *)
LEMMA SafeStep == SafeInv /\ [Next]_vars => SafeInv'
<1> SUFFICES ASSUME SafeInv, [Next]_vars PROVE SafeInv'
  OBVIOUS
<1>1. CASE ServingInv
  BY <1>1, ServingStep DEF SafeInv
<1>2. ASSUME IInv, NEW w \in Workers, WorkerSend(w) PROVE ServingInv'
  <2>1. opc = "ready" /\ TypeOK /\ OwnerInv /\ CountInv /\ ProjectInv /\ AnswerInv
    BY <1>2 DEF IInv, OwnerInv, WorkerSend
  <2>2. ServingInv
    BY <2>1 DEF ServingInv, Serving, ProjectInv, AnswerInv, OwnerInv
  <2> QED BY <1>2, <2>2, SendServes
<1>3. ASSUME IInv, ~ \E w \in Workers : WorkerSend(w) PROVE IInv'
  <2>1. CASE Spawn \/ Handshake \/ StartSend \/ StartRead
    BY <1>3, <2>1, SpawnKeeps, HandshakeKeeps, StartSendKeeps, StartReadKeeps
  <2>2. CASE BeginShutdown \/ Save \/ Drain \/ Quit \/ Reap
    BY <1>3, <2>2, BeginShutdownKeeps, SaveKeeps, DrainKeeps, QuitKeeps, ReapKeeps
  <2>3. CASE ChildReady \/ ChildRefuses \/ ChildTakes \/ ChildReplies \/ ChildDies
    BY <1>3, <2>3, ChildStartsKeeps, ChildTakesKeeps, ChildRepliesKeeps, ChildDiesKeeps
  <2>4. ASSUME NEW w \in Workers, Call(w) \/ WorkerRead(w) PROVE IInv'
    BY <1>3, <2>4, CallKeeps, WorkerReadKeeps
  <2>5. CASE UNCHANGED vars
    BY <1>3, <2>5, StutterKeeps
  <2> QED BY <1>3, <2>1, <2>2, <2>3, <2>4, <2>5, NextActions
<1> QED BY <1>1, <1>2, <1>3 DEF SafeInv

-----------------------------------------------------------------------------
(* The theorems                                                            *)

(* With commands of one line the pipes never hold more than one exchange,  *)
(* and `opc` tells which: every part of IInv.                              *)
THEOREM Invariance == ASSUME MaxLines = 1 PROVE Spec => []IInv
<1>1. Init => IInv
  BY InitInv
<1>2. IInv /\ [Next]_vars => IInv'
  BY StepKeeps
<1> QED BY <1>1, <1>2, PTL DEF Spec

(* Whatever the commands are, a session is in order, or it is open and has *)
(* the stored project, if there is one, loaded.                            *)
THEOREM Safety == Spec => []SafeInv
<1>1. Init => SafeInv
  BY InitInv DEF SafeInv
<1>2. SafeInv /\ [Next]_vars => SafeInv'
  BY SafeStep
<1> QED BY <1>1, <1>2, PTL DEF Spec

(* The variables keep their types, and a call that reads holds m_.         *)
THEOREM TypeCorrect == Spec => []TypeOK
<1>1. SafeInv => TypeOK
  BY DEF SafeInv, IInv, ServingInv
<1> QED BY <1>1, Safety, PTL

(* Unless the child dies, what cmd returns is the reply to the command of  *)
(* that call and all of it: neither a chunk boundary nor another caller    *)
(* takes anything away or adds to it.                                      *)
THEOREM RepliesWhole == ASSUME MaxLines = 1 PROVE Spec => []WholeReply
<1>1. IInv => WholeReply
  BY DEF IInv, AnswerInv
<1> QED BY <1>1, Invariance, PTL

(* A session closed with -w and a project has written its edits: close     *)
(* waits for the answer to Ps, and q is sent after it.                     *)
THEOREM EditsSaved == ASSUME MaxLines = 1 PROVE Spec => []SavedOnExit
<1>1. IInv => SavedOnExit
  BY DEF IInv, SavedInv, OwnerInv, SavedOnExit
<1> QED BY <1>1, Invariance, PTL

(* Ps never replaces a project that is on the disk and was not loaded.     *)
THEOREM ProjectSafe == Spec => []ProjectKept
<1>1. SafeInv => ProjectKept
  BY DEF SafeInv, IInv, ServingInv, ProjectInv
<1> QED BY <1>1, Safety, PTL

(* However start or shutdown ends, no child is left and alive() is false.  *)
THEOREM ChildGone == Spec => []ChildReaped
<1>1. OwnerInv => ChildReaped
  BY DEF OwnerInv, ChildReaped
<1>2. SafeInv => ChildReaped
  BY <1>1 DEF SafeInv, IInv, ServingInv
<1> QED BY <1>2, Safety, PTL

=============================================================================
