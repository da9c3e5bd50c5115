------------------------------- MODULE R2Pipe --------------------------------
(***************************************************************************)
(* The backend that talks to a spawned `radare2 -q0` over two pipes        *)
(* (src/lib/src/backend_r2pipe.cpp), with the child process as the code    *)
(* knows it: it reads one line at a time and ends each reply with a NUL.   *)
(*                                                                         *)
(* There are two classes, R2PipePosixBackend and R2PipeWinBackend; `host`  *)
(* tells on which system the program runs.  They go through the same       *)
(* steps, each in its own system calls: where those differ to the caller,  *)
(* in a write to a child that is gone and in the way it is reaped, there   *)
(* is an operator for each.                                                *)
(*                                                                         *)
(* The owner thread runs start and shutdown.  The workers call cmd while   *)
(* the backend is open; m_ admits one of them at a time.  A reply is a     *)
(* number of data tokens and a NUL; one read returns any non-empty prefix  *)
(* of what is in the pipe, as a chunk of up to 4096 bytes does.            *)
(***************************************************************************)
EXTENDS Integers, Sequences, FiniteSets

CONSTANTS
    Workers,         \* threads that call cmd
    MaxCmds,         \* bound: commands issued, those of start included
    MaxParts,        \* bound: data tokens of one reply
    MaxLines,        \* lines a worker's command may have: 1, or more with \n
    ChildMayDie      \* the child may die by itself

ASSUME BoundsAssumption == MaxCmds \in Nat /\ MaxCmds >= 2 /\ MaxParts \in Nat \ {0} /\ MaxLines \in Nat \ {0}
ASSUME ModesAssumption == ChildMayDie \in BOOLEAN

Ids == 1..MaxCmds
Nobody == "nobody"
Owner == "owner"

ASSUME WorkersAssumption == Workers \cap {Nobody, Owner} = {}

(* A token in the pipe from the child: a NUL, or data of the reply to      *)
(* command `of` (0 for those of start and shutdown that are not a cmd),    *)
(* which may hold the line that names the project.                         *)
NUL == [of |-> -1, name |-> FALSE]
Data(id, named) == [of |-> id, name |-> named]

VARIABLES
    opts,        \* [write, project, analyze] of R2PipeOpenOptions
    opc,         \* where the owner is in start and shutdown
    failed,      \* start has failed
    pid,         \* pid_ > 0, or proc_ is set
    fds,         \* stdin_ and stdout_ are open
    host,        \* "windows"; or POSIX, "plain", "ignoring" SIGPIPE, as its
                 \* HTTP server makes it, or "killed" by SIGPIPE
    wpc,         \* [Workers -> "idle" or "want" (waits for m_)]
    holder,      \* who holds m_
    inflight,    \* the command of the holder
    got,         \* out of cmd: the data read so far
    lastId,      \* commands issued
    returned,    \* [Ids -> what cmd returned, as a sequence of tokens]
    answered,    \* the commands that have returned
    inp, out,    \* the pipes: lines to the child, tokens from it
    child,       \* "none", "starting", "idle", "busy", "exited", "reaped"
    line,        \* the line the child works on
    parts,       \* [Ids -> data tokens of the reply the child wrote]
    died,        \* the child died by itself
    loaded,      \* the child's session includes the stored project
    edited,      \* it has changes that no Ps has written
    disk         \* the project on disk: "absent", "previous", "saved", "clobbered"

ownerVars  == <<opts, opc, failed, pid, fds, host>>
callVars   == <<wpc, holder, inflight, got, lastId, returned, answered>>
childVars  == <<child, line, parts, died, loaded, edited, disk>>
pipeVars   == <<inp, out>>
vars == <<ownerVars, callVars, childVars, pipeVars>>

NoLine == [id |-> 0, what |-> "none"]
Commands == {"aaa", "Pl", "P", "Ps", "q", "user"}

Init ==
    /\ opts \in [write : BOOLEAN, project : BOOLEAN, analyze : BOOLEAN]
    /\ opc = "spawn" /\ failed = FALSE /\ pid = FALSE /\ fds = FALSE /\ host \in {"plain", "ignoring", "windows"}
    /\ wpc = [w \in Workers |-> "idle"] /\ holder = Nobody
    /\ inflight = 0 /\ got = <<>> /\ lastId = 0
    /\ returned = [i \in Ids |-> <<>>] /\ answered = {}
    /\ inp = <<>> /\ out = <<>>
    /\ child = "none" /\ line = NoLine /\ parts = [i \in Ids |-> 0] /\ died = FALSE
    /\ loaded = FALSE /\ edited = FALSE
    /\ disk \in IF opts.project THEN {"absent", "previous"} ELSE {"absent"}

ChildReads == child \in {"starting", "idle", "busy"}   \* its ends are open
Up == host # "killed"

-----------------------------------------------------------------------------
(* Writing to the child.  With no reader left write raises SIGPIPE, which  *)
(* kills the host, or fails where SIGPIPE is ignored; WriteFile fails.     *)

Posix == host # "windows"
Windows == host = "windows"

WritePosix(ls) ==
    /\ Posix
    /\ IF ChildReads THEN inp' = inp \o ls /\ UNCHANGED host
       ELSE /\ UNCHANGED inp
            /\ host' = IF host = "ignoring" THEN host ELSE "killed"

WriteWindows(ls) ==
    /\ Windows /\ UNCHANGED host
    /\ inp' = IF ChildReads THEN inp \o ls ELSE inp

WriteLines(ls) == WritePosix(ls) \/ WriteWindows(ls)

\* Mutant: without the lock on m_.
SendUnlocked(t, ls) ==
    /\ lastId' = lastId + 1
    /\ WriteLines(ls)
    /\ holder' = t /\ inflight' = lastId + 1 /\ got' = <<>>
    /\ UNCHANGED <<returned, answered>>

(* cmd: lock m_, append the newline, write.                                *)
Send(t, ls) ==
    /\ holder = Nobody
    /\ lastId' = lastId + 1
    /\ WriteLines(ls)
    /\ IF ChildReads
       THEN /\ holder' = t /\ inflight' = lastId + 1 /\ got' = <<>>
            /\ UNCHANGED <<returned, answered>>
       ELSE \* the write failed: return {}
            /\ answered' = answered \cup {lastId + 1}
            /\ UNCHANGED <<holder, inflight, got, returned>>

(* The data before the first NUL of a chunk; what follows it is dropped.   *)
BeforeNul(s) ==
    LET n == CHOOSE i \in 1..(Len(s) + 1) :
                /\ i = Len(s) + 1 \/ s[i] = NUL
                /\ \A j \in 1..(i - 1) : s[j] # NUL
    IN SubSeq(s, 1, n - 1)

HasNul(s) == \E i \in 1..Len(s) : s[i] = NUL

Finish(text) ==
    /\ returned' = [returned EXCEPT ![inflight] = text]
    /\ answered' = answered \cup {inflight}
    /\ holder' = Nobody /\ inflight' = 0 /\ got' = <<>>

\* Mutant: out = chunk instead of out.append(chunk).
ReadLastChunk(t) ==
    /\ holder = t
    /\ \/ \E n \in 1..Len(out) :
            LET chunk == SubSeq(out, 1, n)
            IN /\ out' = SubSeq(out, n + 1, Len(out))
               /\ IF HasNul(chunk) THEN Finish(BeforeNul(chunk))
                  ELSE got' = chunk /\ UNCHANGED <<holder, inflight, returned, answered>>
       \/ out = <<>> /\ ~ChildReads /\ Finish(got) /\ UNCHANGED out
    /\ UNCHANGED <<lastId, inp, host>>

\* Mutant: n < 0 for n <= 0, so that end of file is read again and again.
ReadPastEnd(t) ==
    /\ holder = t
    /\ \/ \E n \in 1..Len(out) :
            LET chunk == SubSeq(out, 1, n)
            IN /\ out' = SubSeq(out, n + 1, Len(out))
               /\ IF HasNul(chunk) THEN Finish(got \o BeforeNul(chunk))
                  ELSE got' = got \o chunk /\ UNCHANGED <<holder, inflight, returned, answered>>
       \/ out = <<>> /\ ~ChildReads /\ UNCHANGED <<holder, inflight, got, returned, answered, out>>
    /\ UNCHANGED <<lastId, inp, host>>

(* One read of cmd: a chunk without a NUL is kept, one with a NUL ends the *)
(* reply, end of file ends it too.                                         *)
ReadChunk(t) ==
    /\ holder = t
    /\ \/ \E n \in 1..Len(out) :
            LET chunk == SubSeq(out, 1, n)
            IN /\ out' = SubSeq(out, n + 1, Len(out))
               /\ IF HasNul(chunk) THEN Finish(got \o BeforeNul(chunk))
                  ELSE got' = got \o chunk /\ UNCHANGED <<holder, inflight, returned, answered>>
       \/ out = <<>> /\ ~ChildReads /\ Finish(got) /\ UNCHANGED out
    /\ UNCHANGED <<lastId, inp, host>>

-----------------------------------------------------------------------------
(* start, on the owner thread                                              *)

Goto(l) == opc' = l

(* Two pipes and the child; any of them may fail to be made.               *)
Spawn ==
    /\ Up /\ opc = "spawn"
    /\ \/ /\ Goto("handshake") /\ child' = "starting" /\ pid' = TRUE /\ fds' = TRUE
          /\ UNCHANGED failed
       \/ Goto("failed") /\ failed' = TRUE /\ UNCHANGED <<child, pid, fds>>
    /\ UNCHANGED <<opts, host, callVars, line, parts, died, loaded, edited, disk, pipeVars>>

Commence == IF opts.project THEN "list" ELSE IF opts.analyze THEN "analyze" ELSE "ready"

(* The first byte must be a NUL; otherwise start shuts down and fails.     *)
Handshake ==
    /\ Up /\ opc = "handshake"
    /\ \/ /\ out # <<>> /\ out' = Tail(out)
          /\ IF Head(out) = NUL THEN Goto(Commence) /\ UNCHANGED failed
                                ELSE Goto("quit") /\ failed' = TRUE
       \/ out = <<>> /\ ~ChildReads /\ Goto("quit") /\ failed' = TRUE /\ UNCHANGED out
    /\ UNCHANGED <<opts, pid, fds, host, callVars, childVars, inp>>

(* The commands of start: aaa, or Pl and then P or aaa.                    *)
CommandAt == [analyze |-> "aaa", list |-> "Pl", open |-> "P"]

StartSend ==
    /\ Up /\ opc \in DOMAIN CommandAt
    /\ Send(Owner, <<[id |-> lastId + 1, what |-> CommandAt[opc]]>>)
    /\ Goto(CASE opc = "list" -> IF ChildReads THEN "listing"
                                 ELSE IF opts.analyze THEN "analyze" ELSE "ready"
              [] OTHER -> IF ChildReads THEN "waiting" ELSE "ready")
    /\ UNCHANGED <<opts, failed, pid, fds, wpc, childVars, out>>

\* Mutant: only the first line of the list is looked at.
ListsProjectFirst(text) == Len(text) > 0 /\ text[1].name

(* project_exists_: one line of the list is the name.                      *)
ListsProject(text) == \E i \in 1..Len(text) : text[i].name

AfterList(text) == IF ListsProject(text) THEN "open"
                   ELSE IF opts.analyze THEN "analyze" ELSE "ready"

StartRead ==
    /\ Up /\ opc \in {"listing", "waiting"} /\ ReadChunk(Owner)
    /\ Goto(IF holder' # Nobody THEN opc
            ELSE IF opc = "listing" THEN AfterList(returned'[inflight]) ELSE "ready")
    /\ UNCHANGED <<opts, failed, pid, fds, wpc, childVars>>

-----------------------------------------------------------------------------
(* cmd, on a worker                                                        *)

Call(w) ==
    /\ Up /\ opc = "ready" /\ wpc[w] = "idle"
    /\ lastId + Cardinality({v \in Workers : wpc[v] = "want"}) < MaxCmds
    /\ wpc' = [wpc EXCEPT ![w] = "want"]
    /\ UNCHANGED <<ownerVars, holder, inflight, got, lastId, returned, answered,
                   childVars, pipeVars>>

(* A command with a newline in it is several lines to the child.           *)
WorkerSend(w) ==
    /\ Up /\ wpc[w] = "want"
    /\ \E n \in 1..MaxLines :
          Send(w, [i \in 1..n |-> [id |-> lastId + 1, what |-> "user"]])
    /\ wpc' = [wpc EXCEPT ![w] = IF ChildReads THEN "reading" ELSE "idle"]
    /\ UNCHANGED <<opts, opc, failed, pid, fds, childVars, out>>

WorkerRead(w) ==
    /\ Up /\ wpc[w] = "reading" /\ ReadChunk(w)
    /\ wpc' = [wpc EXCEPT ![w] = IF holder' = w THEN @ ELSE "idle"]
    /\ UNCHANGED <<opts, opc, failed, pid, fds, childVars>>

-----------------------------------------------------------------------------
(* shutdown, on the owner thread, when no call is in progress              *)

BeginShutdown ==
    /\ Up /\ opc = "ready" /\ \A w \in Workers : wpc[w] = "idle"
    /\ Goto(IF opts.write /\ opts.project THEN "save" ELSE "quit")
    /\ UNCHANGED <<opts, failed, pid, fds, host, callVars, childVars, pipeVars>>

\* Mutant: the reply to Ps is not waited for.
SaveUndrained ==
    /\ Up /\ opc = "save"
    /\ WriteLines(<<[id |-> 0, what |-> "Ps"]>>)
    /\ Goto("quit")
    /\ UNCHANGED <<opts, failed, pid, fds, callVars, childVars, out>>

Save ==
    /\ Up /\ opc = "save"
    /\ WriteLines(<<[id |-> 0, what |-> "Ps"]>>)
    /\ Goto("drain")
    /\ UNCHANGED <<opts, failed, pid, fds, callVars, childVars, out>>

(* Byte by byte up to the first NUL or end of file.                        *)
Drain ==
    /\ Up /\ opc = "drain"
    /\ \/ /\ out # <<>> /\ out' = Tail(out)
          /\ Goto(IF Head(out) = NUL THEN "quit" ELSE "drain")
       \/ out = <<>> /\ ~ChildReads /\ Goto("quit") /\ UNCHANGED out
    /\ UNCHANGED <<opts, failed, pid, fds, host, callVars, childVars, inp>>

(* q, then both ends of the pipes are closed.                              *)
Quit ==
    /\ Up /\ opc = "quit"
    /\ WriteLines(<<[id |-> 0, what |-> "q"]>>)
    /\ fds' = FALSE /\ Goto("reap")
    /\ UNCHANGED <<opts, failed, pid, callVars, childVars, out>>

Ended == IF failed THEN "failed" ELSE "closed"

\* Mutant: one waitpid with WNOHANG and no kill.
ReapOnce ==
    /\ Up /\ opc = "reap"
    /\ child' = IF child = "exited" THEN "reaped" ELSE child
    /\ pid' = FALSE /\ Goto(Ended) /\ line' = NoLine
    /\ UNCHANGED <<opts, failed, fds, host, callVars, parts, died, loaded, edited, disk, pipeVars>>

(* waitpid finds the child gone, or after a second it is killed; on        *)
(* Windows it is given two seconds and then terminated anyway.             *)
Reap ==
    /\ Up /\ opc = "reap"
    /\ child' = "reaped" /\ pid' = FALSE /\ Goto(Ended) /\ line' = NoLine
    /\ UNCHANGED <<opts, failed, fds, host, callVars, parts, died, loaded, edited, disk, pipeVars>>

-----------------------------------------------------------------------------
(* The child process                                                       *)

ChildReady ==
    /\ child = "starting"
    /\ child' = "idle" /\ out' = Append(out, NUL)
    /\ UNCHANGED <<ownerVars, callVars, line, parts, died, loaded, edited, disk, inp>>

(* It cannot open the file, or something precedes the NUL.                 *)
ChildRefuses ==
    /\ child = "starting"
    /\ \/ child' = "exited" /\ UNCHANGED out
       \/ child' = "idle" /\ out' = out \o <<Data(0, TRUE), NUL>>
    /\ UNCHANGED <<ownerVars, callVars, line, parts, died, loaded, edited, disk, inp>>

ChildTakes ==
    /\ child = "idle" /\ inp # <<>>
    /\ inp' = Tail(inp)
    /\ IF Head(inp).what = "q" THEN child' = "exited" /\ UNCHANGED line
       ELSE child' = "busy" /\ line' = Head(inp)
    /\ UNCHANGED <<ownerVars, callVars, parts, died, loaded, edited, disk, out>>

Effect(what) ==
    /\ loaded' = (loaded \/ what = "P")
    /\ edited' = IF what = "user" THEN TRUE ELSE IF what = "Ps" THEN FALSE ELSE edited
    /\ disk' = IF what # "Ps" THEN disk
               ELSE IF disk = "previous" /\ ~loaded THEN "clobbered" ELSE "saved"

Reply(id, n, what) ==
    [i \in 1..n |-> Data(id, i = n /\ what = "Pl" /\ disk # "absent")] \o <<NUL>>

ChildReplies ==
    /\ child = "busy"
    /\ \E n \in (IF line.what = "Pl" /\ disk # "absent" THEN 1 ELSE 0)..MaxParts :
         /\ out' = IF fds THEN out \o Reply(line.id, n, line.what) ELSE out
         /\ parts' = IF line.id = 0 THEN parts ELSE [parts EXCEPT ![line.id] = @ + n]
    /\ Effect(line.what)
    /\ child' = (IF fds THEN "idle" ELSE "exited") /\ line' = NoLine
    /\ UNCHANGED <<ownerVars, callVars, died, inp>>

(* It dies, perhaps with a part of its reply written.                      *)
ChildDies ==
    /\ ChildMayDie /\ ChildReads /\ child # "starting"
    /\ child' = "exited" /\ died' = TRUE /\ line' = NoLine
    /\ \/ UNCHANGED out
       \/ child = "busy" /\ out' = Append(out, Data(line.id, FALSE))
    /\ UNCHANGED <<ownerVars, callVars, parts, loaded, edited, disk, inp>>

-----------------------------------------------------------------------------
Finished ==
    /\ ~Up \/ opc \in {"closed", "failed"}
    /\ UNCHANGED vars

(* R2PipePosixBackend, and R2PipeWinBackend: start, shutdown and cmd.      *)
Shutdown == Save \/ Drain \/ Quit
StartPosix == Posix /\ (Spawn \/ Handshake \/ StartSend \/ StartRead)
ShutdownPosix == Posix /\ Shutdown
ReapPosix == Posix /\ Reap
CmdPosix(w) == Posix /\ (WorkerSend(w) \/ WorkerRead(w))

SpawnWindows == Windows /\ Spawn
HandshakeWindows == Windows /\ Handshake
StartWindows == Windows /\ (StartSend \/ StartRead)
ShutdownWindows == Windows /\ Shutdown
ReapWindows == Windows /\ Reap
CmdWindows(w) == Windows /\ (WorkerSend(w) \/ WorkerRead(w))

OwnerStep == StartPosix \/ ShutdownPosix \/ ReapPosix
               \/ SpawnWindows \/ HandshakeWindows \/ StartWindows \/ ShutdownWindows \/ ReapWindows
WorkerStep(w) == CmdPosix(w) \/ CmdWindows(w)
ChildStep == ChildReady \/ ChildTakes \/ ChildReplies

Next == OwnerStep \/ BeginShutdown \/ ChildStep \/ ChildRefuses \/ ChildDies \/ Finished
          \/ (\E w \in Workers : Call(w) \/ WorkerStep(w))

Spec == Init /\ [][Next]_vars

(* Threads are scheduled, a thread that waits for m_ gets it, and a child  *)
(* that lives answers what it is asked.  Nothing makes a session end.      *)
FairSpec == Spec /\ WF_vars(OwnerStep) /\ WF_vars(ChildStep)
              /\ \A w \in Workers : SF_vars(WorkerSend(w)) /\ WF_vars(WorkerRead(w))

-----------------------------------------------------------------------------
(* Properties                                                              *)

Tokens == [of : -1..MaxCmds, name : BOOLEAN]
Lines == [id : 0..MaxCmds, what : Commands \cup {"none"}]

OwnerTypes ==
    /\ opts \in [write : BOOLEAN, project : BOOLEAN, analyze : BOOLEAN]
    /\ opc \in {"spawn", "handshake", "analyze", "list", "open", "listing", "waiting",
                "ready", "save", "drain", "quit", "reap", "closed", "failed"}
    /\ failed \in BOOLEAN /\ pid \in BOOLEAN /\ fds \in BOOLEAN
    /\ host \in {"plain", "ignoring", "killed", "windows"}

CallTypes ==
    /\ wpc \in [Workers -> {"idle", "want", "reading"}]
    /\ holder \in Workers \cup {Nobody, Owner}
    /\ \A w \in Workers : wpc[w] = "reading" <=> holder = w
    /\ inflight \in 0..MaxCmds /\ got \in Seq(Tokens) /\ lastId \in 0..MaxCmds
    /\ returned \in [Ids -> Seq(Tokens)] /\ answered \subseteq Ids

ChildTypes ==
    /\ child \in {"none", "starting", "idle", "busy", "exited", "reaped"}
    /\ line \in Lines /\ parts \in [Ids -> Nat] /\ died \in BOOLEAN
    /\ loaded \in BOOLEAN /\ edited \in BOOLEAN
    /\ disk \in {"absent", "previous", "saved", "clobbered"}

PipeTypes == inp \in Seq(Lines) /\ out \in Seq(Tokens)

(* The types of the variables, and that a call is reading exactly when it  *)
(* holds m_.                                                               *)
TypeOK == OwnerTypes /\ CallTypes /\ ChildTypes /\ PipeTypes

(* What cmd returns is output of that command, not of another one.         *)
OwnOutput ==
    \A i \in answered : \A k \in 1..Len(returned[i]) : returned[i][k].of = i

(* What cmd returns is the reply to that command and the whole of it,      *)
(* however the pipe cut it in chunks, unless the child died.               *)
WholeReply == OwnOutput /\ (died \/ \A i \in answered : Len(returned[i]) = parts[i])

(* A session closed with -w and a project has written its edits.           *)
SavedOnExit ==
    opc = "closed" /\ opts.write /\ opts.project /\ ~died => ~edited

(* A stored project is never overwritten by a session without it.          *)
ProjectKept == disk # "clobbered"

(* Whichever way it ends, the child is not left behind, and alive says so. *)
ChildReaped == opc \in {"closed", "failed"} => child \in {"none", "reaped"} /\ ~fds /\ ~pid

(* A failed open is reported to the caller, it does not end the program.   *)
FailedOpenReturns == failed => Up

(* Every call of cmd, start and shutdown returns, the child's death at any *)
(* point included, unless SIGPIPE ends the program.                        *)
EveryCallReturns ==
    /\ \A w \in Workers : wpc[w] = "want" ~> (wpc[w] = "idle" \/ ~Up)
    /\ opc \notin {"ready", "closed", "failed"} ~> (opc \in {"ready", "closed", "failed"} \/ ~Up)
=============================================================================
