---------------------------- MODULE ProgramProof ----------------------------
(***************************************************************************)
(* Program, for any number of handlers, projects, notes and command lines: *)
(* the types, that nothing uses the session when it is destroyed, that the *)
(* user's work is kept as Persistence promises, and that parse_args makes  *)
(* of a command line what it means.                                        *)
(***************************************************************************)
EXTENDS Program, TLAPS

Facts == INSTANCE SeqFacts

NoSession == {"parse", "parsed", "libr", "pipe", "ended"}
Phases == NoSession \cup {"session", "sql", "script", "repl", "http", "mcp", "started", "serve", "stopping", "closing"}

(* Without a session or its radare2 there is no content, and the name of the project is a *)
(* project's.                                                              *)
SessionInv ==
    /\ pc \in Phases /\ (backend = "none" \/ ~alive => core = Store!Nothing)
    /\ pc # "parse" => project \in Projects \cup {NoProject}
    /\ pc = "parse" => argv \in CommandLines
    /\ pc = "closing" => code \in {0, 1}

(* Requests are at work only while a server is there; it accepts them only *)
(* until it is stopped.                                                    *)
ServerInv ==
    /\ running => pc \in {"started", "serve"}
    /\ pc \notin {"started", "serve", "stopping"} => \A h \in Handlers : hpc[h] = "idle"
    /\ \A g, h \in Handlers : hpc[g] = "query" /\ hpc[h] = "query" => g = h

ProgramInv == TypeOK /\ SessionInv /\ ServerInv

-----------------------------------------------------------------------------
(* What saving a project leaves on the disk.                               *)
LEMMA StoredTypes ==
    ASSUME disk \in [Projects -> Store!Contents \cup {Missing, Damaged}], core \in Store!Contents, NEW p
    PROVE  /\ Store!Stored(p) \subseteq [Projects -> Store!Contents \cup {Missing, Damaged}]
           /\ Store!Torn(p) \in [Projects -> Store!Contents \cup {Missing, Damaged}]
<1>1. Store!Torn(p) \in [Projects -> Store!Contents \cup {Missing, Damaged}]
  BY DEF Store!Torn
<1>2. [disk EXCEPT ![p] = core] \in [Projects -> Store!Contents \cup {Missing, Damaged}]
  OBVIOUS
<1>3. QED
  BY <1>1, <1>2 DEF Store!Stored

(* A statement keeps the types.                                            *)
LEMMA StatementTypes ==
    ASSUME disk \in [Projects -> Store!Contents \cup {Missing, Damaged}], core \in Store!Contents, Statement
    PROVE  disk' \in [Projects -> Store!Contents \cup {Missing, Damaged}] /\ core' \in Store!Contents
<1>1. CASE UNCHANGED work
  BY <1>1 DEF work
<1>2. CASE \E n \in Notes : SetNote(n)
  <2>1. PICK n \in Notes : core' = [core EXCEPT !.notes = @ \cup {n}] /\ UNCHANGED disk
    BY <1>2 DEF SetNote
  <2>2. core' \in Store!Contents
    BY <2>1 DEF Store!Contents
  <2>3. QED
    BY <2>1, <2>2
<1>3. CASE \E n \in core.notes : DropNote(n)
  <2>1. PICK n \in core.notes : core' = [core EXCEPT !.notes = @ \ {n}] /\ UNCHANGED disk
    BY <1>3 DEF DropNote
  <2>2. core' \in Store!Contents
    BY <2>1 DEF Store!Contents
  <2>3. QED
    BY <2>1, <2>2
<1>4. CASE \E p \in Projects : SaveProject(p)
  <2>1. PICK p \in Projects : disk' \in Store!Stored(p) /\ UNCHANGED core
    BY <1>4 DEF SaveProject
  <2>2. QED
    BY <2>1, StoredTypes
<1>5. CASE \E p \in Projects : OpenProject(p)
  <2>1. Store!Nothing \in Store!Contents
    BY DEF Store!Nothing, Store!Contents
  <2>2. QED
    BY <1>5, <2>1 DEF OpenProject, Intact, Store!Intact
<1>6. CASE \E p \in Projects : DeleteProject(p)
  BY <1>6 DEF DeleteProject
<1>7. QED
  BY <1>1, <1>2, <1>3, <1>4, <1>5, <1>6 DEF Statement, WriteComment, DeleteComment, DefineType, DeleteType

(* A statement is a step of Persistence.                                 *)
LEMMA StatementStep ==
    ASSUME core' \in Store!Contents, backend # "none", UNCHANGED <<backend, args, outside>>, Lost' <=> Lost, Statement
    PROVE  Store!Next \/ UNCHANGED Store!vars
<1>1. UNCHANGED <<IF backend # "none" /\ alive /\ Saves THEN project ELSE NoProject, backend # "none" /\ alive, room, Lost>>
  BY DEF Saves, On, Given, project, outside
<1>2. CASE UNCHANGED work
  BY <1>1, <1>2 DEF work, Store!vars, Store!session
<1>3. CASE alive /\ \E n \in Notes : SetNote(n)
  BY <1>1, <1>3 DEF SetNote, Store!Next, Store!Edit
<1>4. CASE alive /\ \E n \in core.notes : DropNote(n)
  BY <1>1, <1>4 DEF DropNote, Store!Next, Store!Edit
<1>5. CASE alive /\ \E p \in Projects : SaveProject(p)
  BY <1>1, <1>5 DEF SaveProject, Store!Next, Store!Save, Store!session
<1>6. CASE alive /\ \E p \in Projects : OpenProject(p)
  BY <1>1, <1>6 DEF OpenProject, Intact, Store!Next, Store!Load
<1>7. CASE alive /\ \E p \in Projects : DeleteProject(p)
  BY <1>1, <1>7 DEF DeleteProject, Store!Next, Store!Forget, Store!session
<1>8. QED
  BY <1>2, <1>3, <1>4, <1>5, <1>6, <1>7 DEF Statement, WriteComment, DeleteComment, DefineType, DeleteType

-----------------------------------------------------------------------------
(* The end of a process keeps the types.                                   *)
LEMMA EndTypes ==
    ASSUME NEW c, End(c), c \in {Killed, BrokenPipe, 0, 1, 2, 3}, ProgramInv,
           disk' \in [Projects -> Store!Contents \cup {Missing, Damaged}]
    PROVE  ProgramInv'
<1>1. Store!Nothing \in Store!Contents
  BY DEF Store!Nothing, Store!Contents
<1>2. TypeOK'
  <2>1. core' \in Store!Contents /\ backend' = "none" /\ pc' = "ended"
    BY <1>1 DEF End
  <2>2. code' \in {NoCode, Killed, BrokenPipe, 0, 1, 2, 3} /\ code' # NoCode
    BY DEF End, NoCode, Killed, BrokenPipe
  <2>3. caught' = {} /\ g_shutdown_flag' \in BOOLEAN /\ running' \in BOOLEAN
    BY DEF End
  <2>4. hpc' \in [Handlers -> {"idle", "want", "query"}]
    BY DEF End
  <2>5. alive' = TRUE /\ room' \in BOOLEAN
    BY DEF End, ProgramInv, TypeOK
  <2>6. QED
    BY <2>1, <2>2, <2>3, <2>4, <2>5 DEF TypeOK
<1>3. SessionInv'
  <2>1. args'.value["--project"] = NoProject
    BY ProjectAssumption DEF End, NoArgs, Valued
  <2>2. QED
    BY <2>1 DEF End, SessionInv, Phases, NoSession, project
<1>4. ServerInv'
  BY DEF End, ServerInv
<1>5. QED
  BY <1>2, <1>3, <1>4 DEF ProgramInv
-----------------------------------------------------------------------------
(* The invariant holds at the start.                                     *)
LEMMA InitInv == Init => ProgramInv
<1> SUFFICES ASSUME Init PROVE ProgramInv
  OBVIOUS
<1>1. Store!Nothing \in Store!Contents
  BY DEF Store!Nothing, Store!Contents
<1>2. disk \in [Projects -> Store!Contents \cup {Missing, Damaged}]
  BY DEF Init
<1>3. TypeOK
  BY <1>1, <1>2 DEF Init, TypeOK, NoCode
<1>4. SessionInv
  BY DEF Init, SessionInv, Phases, NoSession
<1>5. ServerInv
  BY DEF Init, ServerInv
<1>6. QED
  BY <1>3, <1>4, <1>5 DEF ProgramInv

(* From main to a session.                                                 *)
LEMMA StartInv ==
    ASSUME ProgramInv, Parse \/ Early \/ OpenLibr \/ OpenPipe \/ Dispatch \/ Restart
    PROVE  ProgramInv'
<1> USE DEF ProgramInv
<1>0. \A b \in BOOLEAN : [Store!Nothing EXCEPT !.analysed = b] \in Store!Contents /\ Store!Nothing \in Store!Contents
  BY DEF Store!Nothing, Store!Contents
<1>1. CASE Parse
  <2>1. PICK s \in ParseArgs(argv) : args' = s.args /\ code' = IF Malformed(s) THEN 2 ELSE NoCode
    BY <1>1 DEF Parse
  <2>2. project' \in Projects \cup {NoProject}
    BY <1>1, <2>1, LinesAssumption DEF Parse, Goto, SessionInv, project
  <2>3. TypeOK'
    BY <1>1, <2>1 DEF Parse, Goto, TypeOK, work, server, NoCode, outside
  <2>4. SessionInv'
    BY <1>1, <2>2 DEF Parse, Goto, SessionInv, TypeOK, work, Phases, NoSession
  <2>5. ServerInv'
    BY <1>1 DEF Parse, Goto, ServerInv, server
  <2>6. QED
    BY <2>3, <2>4, <2>5
<1>2. CASE Early
  <2>1. CASE End(2)
    BY <1>2, <2>1, EndTypes DEF Early, TypeOK
  <2>2. CASE End(0)
    BY <1>2, <2>2, EndTypes DEF Early, TypeOK
  <2>3. CASE pc' \in {"pipe", "libr"} /\ argv' = <<>> /\ UNCHANGED <<args, core, outside, backend, code, server>>
    <3>1. TypeOK'
      BY <1>2, <2>3 DEF Early, TypeOK, server, outside
    <3>2. SessionInv'
      BY <1>2, <2>3 DEF Early, SessionInv, TypeOK, Phases, NoSession, project
    <3>3. ServerInv'
      BY <1>2, <2>3 DEF Early, ServerInv, server
    <3>4. QED
      BY <3>1, <3>2, <3>3
  <2>4. QED
    BY <1>2, <2>1, <2>2, <2>3 DEF Early
<1>3. CASE OpenLibr
  <2>1. LibrOpen \in Store!Contents
    BY <1>0, <1>3, ProjectAssumption DEF LibrOpen, Analysed, Given, Intact, Store!Intact, TypeOK, SessionInv, project, OpenLibr, Goto
  <2>2. TypeOK'
    BY <1>3, <2>1 DEF OpenLibr, Goto, Opened, TypeOK, server, outside
  <2>3. SessionInv'
    BY <1>3 DEF OpenLibr, Goto, Opened, SessionInv, TypeOK, Phases, NoSession, project, process, outside
  <2>4. ServerInv'
    BY <1>3 DEF OpenLibr, Goto, ServerInv, server
  <2>5. QED
    BY <2>2, <2>3, <2>4
<1>4. CASE OpenPipe
  <2>1. CASE pc' = "session" /\ Opened("pipe", PipeOpen) /\ UNCHANGED <<process, outside, code, server>>
    <3>1. PipeOpen \in Store!Contents
      <4>1. CASE ~Given("--project") \/ disk[project] = Missing
        <5>1. PipeOpen = Analysed(Store!Nothing)
          BY <4>1 DEF PipeOpen
        <5>2. QED
          BY <5>1, <1>0 DEF Analysed
      <4>2. CASE Given("--project") /\ disk[project] # Missing /\ Intact(project)
        <5>1. PipeOpen = disk[project] /\ project \in Projects
          BY <4>2, <1>4, ProjectAssumption DEF PipeOpen, Given, SessionInv, OpenPipe, project
        <5>2. QED
          BY <4>2, <5>1 DEF TypeOK, Intact, Store!Intact
      <4>3. CASE Given("--project") /\ disk[project] # Missing /\ ~Intact(project)
        <5>1. PipeOpen = Store!Nothing
          BY <4>3 DEF PipeOpen
        <5>2. QED
          BY <5>1, <1>0
      <4>4. QED
        BY <4>1, <4>2, <4>3
    <3>2. TypeOK'
      BY <1>4, <2>1, <3>1 DEF OpenPipe, Opened, TypeOK, server, outside
    <3>3. SessionInv'
      BY <1>4, <2>1 DEF OpenPipe, Opened, SessionInv, TypeOK, Phases, NoSession, project, process, outside
    <3>4. ServerInv'
      BY <1>4, <2>1 DEF OpenPipe, ServerInv, server
    <3>5. QED
      BY <3>2, <3>3, <3>4
  <2>2. CASE End(3) \/ End(BrokenPipe)
    BY <1>4, <2>2, EndTypes DEF OpenPipe, TypeOK
  <2>3. QED
    BY <1>4, <2>1, <2>2 DEF OpenPipe
<1>5. CASE Dispatch
  <2>1. Mode \in {"sql", "script", "http", "mcp", "repl", "help"}
    BY DEF Mode
  <2>2. project' = project
    BY <1>5 DEF Dispatch, project, Valued
  <2>3. TypeOK'
    BY <1>5, <2>1 DEF Dispatch, Return, TypeOK, work, server, outside
  <2>4. SessionInv'
    BY <1>5, <2>1, <2>2 DEF Dispatch, Return, SessionInv, work, Phases, NoSession, outside
  <2>5. ServerInv'
    BY <1>5, <2>1 DEF Dispatch, Return, ServerInv, server
  <2>6. QED
    BY <2>3, <2>4, <2>5
<1>6. CASE Restart
  <2>1. TypeOK'
    BY <1>6 DEF Restart, Goto, TypeOK, work, server, NoCode
  <2>2. SessionInv'
    BY <1>6 DEF Restart, Goto, SessionInv, TypeOK, work, Phases, NoSession
  <2>3. ServerInv'
    BY <1>6 DEF Restart, Goto, ServerInv, server
  <2>4. QED
    BY <2>1, <2>2, <2>3
<1>7. QED
  BY <1>1, <1>2, <1>3, <1>4, <1>5, <1>6
(* The one-shot modes and the REPL.                                        *)
LEMMA WorkInv ==
    ASSUME ProgramInv, RunSql \/ RunScript \/ RunRepl
    PROVE  ProgramInv'
<1> USE DEF ProgramInv
<1>1. UNCHANGED <<process, outside, backend, server>> /\ pc \in {"sql", "script", "repl"}
  BY DEF RunSql, RunScript, RunRepl
<1>2. (pc' = pc /\ code' = code) \/ (pc' = "closing" /\ code' \in {0, 1})
  BY DEF RunSql, RunScript, RunRepl, RunRaw, RunQuery, Return
<1>3. Statement \/ UNCHANGED work
  BY DEF RunSql, RunScript, RunRepl, RunRaw, RunQuery
<1>4. disk' \in [Projects -> Store!Contents \cup {Missing, Damaged}] /\ core' \in Store!Contents
  BY <1>3, StatementTypes DEF TypeOK, work
<1>9. ~alive => core' = core
  BY <1>3 DEF Statement, work
<1>5. TypeOK'
  BY <1>1, <1>2, <1>4 DEF TypeOK, server, outside
<1>6. SessionInv'
  BY <1>1, <1>2, <1>9 DEF SessionInv, TypeOK, process, project, Phases, NoSession, outside
<1>7. ServerInv'
  BY <1>1, <1>2 DEF ServerInv, server
<1>8. QED
  BY <1>5, <1>6, <1>7

(* The servers: the main thread.                                           *)
LEMMA ServingInv ==
    ASSUME ProgramInv, StartServer \/ CatchSignal \/ ServeEnds \/ StopServer
    PROVE  ProgramInv'
<1> USE DEF ProgramInv
<1>1. CASE StartServer
  <2>1. TypeOK'
    BY <1>1 DEF StartServer, Return, TypeOK, work, outside
  <2>2. SessionInv'
    BY <1>1 DEF StartServer, Return, SessionInv, TypeOK, work, process, project, Phases, NoSession, outside
  <2>3. ServerInv'
    BY <1>1 DEF StartServer, Return, ServerInv
  <2>4. QED
    BY <2>1, <2>2, <2>3
<1>2. CASE CatchSignal
  <2>1. TypeOK'
    BY <1>2 DEF CatchSignal, TypeOK, work, Signals, outside
  <2>2. SessionInv'
    BY <1>2 DEF CatchSignal, SessionInv, TypeOK, work, process, project, Phases, NoSession, outside
  <2>3. ServerInv'
    BY <1>2 DEF CatchSignal, ServerInv
  <2>4. QED
    BY <2>1, <2>2, <2>3
<1>3. CASE ServeEnds
  <2>1. TypeOK'
    BY <1>3 DEF ServeEnds, Goto, TypeOK, work, outside
  <2>2. SessionInv'
    BY <1>3 DEF ServeEnds, Goto, SessionInv, TypeOK, work, process, project, Phases, NoSession, outside
  <2>3. ServerInv'
    BY <1>3 DEF ServeEnds, Goto, ServerInv
  <2>4. QED
    BY <2>1, <2>2, <2>3
<1>4. CASE StopServer
  <2>1. TypeOK'
    BY <1>4 DEF StopServer, Return, TypeOK, work, outside
  <2>2. SessionInv'
    BY <1>4 DEF StopServer, Return, SessionInv, TypeOK, work, process, project, Phases, NoSession, outside
  <2>3. ServerInv'
    BY <1>4 DEF StopServer, Return, ServerInv
  <2>4. QED
    BY <2>1, <2>2, <2>3
<1>5. QED
  BY <1>1, <1>2, <1>3, <1>4

(* The servers: their handlers.                                            *)
LEMMA HandlerInv ==
    ASSUME ProgramInv, NEW h \in Handlers,
           Connect(h) \/ HttpQuery(h) \/ HttpAnswer(h) \/ HttpShutdown(h) \/ McpQuery(h)
    PROVE  ProgramInv'
<1> USE DEF ProgramInv
<1>1. UNCHANGED <<process, outside, backend, pc, code, caught, g_shutdown_flag>>
  BY DEF Connect, HttpQuery, HttpAnswer, HttpShutdown, McpQuery
<1>2. pc \in {"started", "serve", "stopping"} /\ (running' => running)
  BY DEF Connect, HttpQuery, HttpAnswer, HttpShutdown, McpQuery, ServerInv, TypeOK
<1>3. /\ disk' \in [Projects -> Store!Contents \cup {Missing, Damaged}] /\ core' \in Store!Contents
      /\ running' \in BOOLEAN /\ hpc' \in [Handlers -> {"idle", "want", "query"}]
  BY StatementTypes DEF Connect, HttpQuery, HttpAnswer, HttpShutdown, McpQuery, TypeOK, work
<1>4. TypeOK'
  BY <1>1, <1>3 DEF TypeOK, outside
<1>9. ~alive => core' = core
  BY DEF Connect, HttpQuery, HttpAnswer, HttpShutdown, McpQuery, Statement, work
<1>5. SessionInv'
  BY <1>1, <1>2, <1>9 DEF SessionInv, TypeOK, process, project, Phases, NoSession, outside
<1>6. \A f, g \in Handlers : hpc'[f] = "query" /\ hpc'[g] = "query" => f = g
  BY DEF Connect, HttpQuery, HttpAnswer, HttpShutdown, McpQuery, ServerInv, TypeOK
<1>7. ServerInv'
  BY <1>1, <1>2, <1>6 DEF ServerInv
<1>8. QED
  BY <1>4, <1>5, <1>7

(* The end.                                                                *)
LEMMA CloseInv ==
    ASSUME ProgramInv, LibrClose \/ PipeClose \/ SigPipe \/ R2Dies \/ DiskFills \/ \E s \in Signals : Signal(s)
    PROVE  ProgramInv'
<1> USE DEF ProgramInv
<1> DEFINE Disks == [Projects -> Store!Contents \cup {Missing, Damaged}]
<1>1. /\ Store!Stored(project) \subseteq Disks /\ Store!Torn(project) \in Disks /\ disk \in Disks
  BY StoredTypes DEF TypeOK
<1>2. Closing \subseteq Disks /\ (Interrupted => disk' \in Disks)
  BY <1>1 DEF Closing, Interrupted
<1>3. CASE LibrClose \/ PipeClose
  <2>1. End(code) /\ code \in {0, 1} /\ disk' \in Disks
    BY <1>2, <1>3 DEF LibrClose, PipeClose, SessionInv
  <2>2. QED
    BY <2>1, EndTypes
<1>4. CASE SigPipe
  BY <1>1, <1>4, EndTypes DEF SigPipe
<1>5. CASE R2Dies
  <2>1. Store!Nothing \in Store!Contents
    BY DEF Store!Nothing, Store!Contents
  <2>2. TypeOK'
    BY <1>2, <1>5, <2>1 DEF R2Dies, TypeOK, server
  <2>3. SessionInv'
    BY <1>5 DEF R2Dies, SessionInv, TypeOK, process, project, Phases, NoSession
  <2>4. ServerInv'
    BY <1>5 DEF R2Dies, ServerInv, server
  <2>5. QED
    BY <2>2, <2>3, <2>4
<1>6. CASE DiskFills
  <2>1. TypeOK'
    BY <1>6 DEF DiskFills, TypeOK, work, server
  <2>2. SessionInv'
    BY <1>6 DEF DiskFills, SessionInv, work, process, project, Phases, NoSession
  <2>3. ServerInv'
    BY <1>6 DEF DiskFills, ServerInv, server
  <2>4. QED
    BY <2>1, <2>2, <2>3
<1>7. CASE \E s \in Signals : Signal(s)
  <2>1. PICK s \in Signals : Signal(s)
    BY <1>7
  <2>2. CASE s \in caught
    <3>1. TypeOK'
      BY <2>1, <2>2 DEF Signal, TypeOK, work, outside
    <3>2. SessionInv'
      BY <2>1, <2>2 DEF Signal, SessionInv, work, process, project, outside
    <3>3. ServerInv'
      BY <2>1, <2>2 DEF Signal, ServerInv
    <3>4. QED
      BY <3>1, <3>2, <3>3
  <2>3. CASE s \notin caught
    BY <1>2, <2>1, <2>3, EndTypes DEF Signal
  <2>4. QED
    BY <2>2, <2>3
<1>8. QED
  BY <1>3, <1>4, <1>5, <1>6, <1>7

(* Every step keeps it.                                                  *)
LEMMA NextInv == ProgramInv /\ [Next]_vars => ProgramInv'
<1> SUFFICES ASSUME ProgramInv, [Next]_vars PROVE ProgramInv'
  OBVIOUS
<1>1. CASE Parse \/ Early \/ OpenLibr \/ OpenPipe \/ Dispatch \/ Restart
  BY <1>1, StartInv
<1>2. CASE RunSql \/ RunScript \/ RunRepl
  BY <1>2, WorkInv
<1>3. CASE StartServer \/ CatchSignal \/ ServeEnds \/ StopServer
  BY <1>3, ServingInv
<1>4. CASE \E h \in Handlers : Connect(h) \/ HttpQuery(h) \/ HttpAnswer(h) \/ HttpShutdown(h) \/ McpQuery(h)
  BY <1>4, HandlerInv
<1>5. CASE LibrClose \/ PipeClose \/ SigPipe \/ R2Dies \/ DiskFills \/ \E s \in Signals : Signal(s)
  BY <1>5, CloseInv
<1>6. CASE UNCHANGED vars
  BY <1>6 DEF vars, ProgramInv, TypeOK, SessionInv, ServerInv, process, work, server, project, outside
<1>7. QED
  BY <1>1, <1>2, <1>3, <1>4, <1>5, <1>6 DEF Next, Main
-----------------------------------------------------------------------------
(* Every step is one of Persistence, or changes nothing there.             *)

(* The start is one of Persistence.                                      *)
LEMMA InitStore == Init => Store!Init
<1> SUFFICES ASSUME Init PROVE Store!Init
  OBVIOUS
<1>1. backend = "none" /\ core = Store!Nothing /\ disk \in [Projects -> {Missing, Damaged}] /\ room = TRUE /\ alive = TRUE /\ pc = "parse"
  BY DEF Init
<1>2. QED
  BY <1>1 DEF Store!Init, Lost

(* What Persistence sees of a process that ends.                           *)
LEMMA EndGone ==
    ASSUME NEW c, End(c)
    PROVE  Store!Gone /\ backend' = "none" /\ core' = Store!Nothing /\ room' = room
<1>1. backend' = "none" /\ core' = Store!Nothing /\ room' = room
  BY DEF End
<1>2. QED
  BY <1>1 DEF Store!Gone

(* Without a session only room and lost are seen to change.                *)
LEMMA Without ==
    ASSUME backend = "none" \/ ~alive, backend' = "none" \/ ~alive', core = Store!Nothing, core' = Store!Nothing,
           disk' = disk, room' \in BOOLEAN
    PROVE  Store!Outside
<1>1. Lost' \in BOOLEAN /\ (backend # "none" /\ alive) = FALSE /\ (backend' # "none" /\ alive') = FALSE
  BY DEF Lost
<1>2. QED
  BY <1>1 DEF Store!Outside, Store!session

(* In a session a step is not seen that leaves what it is made of.         *)
LEMMA Unseen ==
    ASSUME UNCHANGED <<disk, core, room, backend, alive>>, Lost' <=> Lost,
           project' = project, "-w" \in args'.on <=> "-w" \in args.on
    PROVE  UNCHANGED Store!vars
<1>1. (Saves' <=> Saves) /\ Lost' = Lost
  BY DEF Saves, On, Given, project, Lost
<1>2. QED
  BY <1>1 DEF Store!vars

(* A session is lost when its radare2 is.                                  *)
LEMMA LostWhen ==
    /\ pc # "ended" => (Lost <=> ~alive)
    /\ (pc # "ended" => (Lost <=> ~alive))'
BY DEF Lost

(* Opening a session is a step of Persistence.                           *)
LEMMA StartStep ==
    ASSUME ProgramInv, Parse \/ Early \/ OpenLibr \/ OpenPipe \/ Dispatch \/ Restart
    PROVE  Store!Next \/ UNCHANGED Store!vars
<1> USE DEF ProgramInv
<1>10. ASSUME backend = "none", backend' = "none", core' = core, disk' = disk, room' \in BOOLEAN
       PROVE  Store!Next
  BY <1>10, Without DEF SessionInv, Store!Next
<1>1. CASE Parse
  BY <1>1, <1>10 DEF Parse, Goto, TypeOK, work, outside
<1>9. CASE Restart
  BY <1>9, <1>10 DEF Restart, Goto, TypeOK, work
<1>2. CASE Early
  <2>1. CASE \E c \in {0, 2} : End(c)
    <3>1. backend = "none" /\ core = Store!Nothing /\ disk' = disk /\ room \in BOOLEAN
      BY <1>2 DEF Early, TypeOK, SessionInv
    <3>2. core' = core /\ backend' = "none" /\ room' = room
      BY <2>1, <3>1 DEF End
    <3>3. QED
      BY <1>10, <3>1, <3>2
  <2>2. CASE UNCHANGED <<args, core, outside, backend, code, server>>
    BY <1>2, <1>10, <2>2 DEF Early, TypeOK, outside
  <2>3. QED
    BY <1>2, <2>1, <2>2 DEF Early
<1>3. ASSUME pc \in {"libr", "pipe"}, pc' = "session", UNCHANGED <<disk, args, outside>>, backend' \in {"libr", "pipe"},
             core' \in IF project \in Projects /\ Intact(project) THEN {disk[project]} ELSE Store!Fresh
      PROVE  Store!Next
  <2>1. PICK p \in Projects \cup {NoProject} : p = project /\ backend = "none" /\ alive = TRUE
    BY <1>3 DEF SessionInv, TypeOK
  <2>3. room' = room /\ alive' = TRUE /\ project' = project /\ backend' # "none" /\ disk' = disk
    BY <1>3, <2>1 DEF outside, project
  <2>5. Lost' = FALSE
    BY <1>3, <2>3 DEF Lost
  <2>2. Store!Open(p)
    BY <1>3, <2>1, <2>3, <2>5 DEF Store!Open, Intact, Saves, On, Given
  <2>4. QED
    BY <2>2 DEF Store!Next
<1>4. Store!Nothing \in Store!Fresh /\ Analysed(Store!Nothing) \in Store!Fresh
  <2>1. \A b \in BOOLEAN : [analysed |-> b, notes |-> {}] \in Store!Fresh
    BY DEF Store!Fresh
  <2>2. Store!Nothing \in Store!Fresh
    BY <2>1 DEF Store!Nothing
  <2>3. PICK b \in BOOLEAN : b = ~On("--no-analyze")
    BY DEF On
  <2>4. Analysed(Store!Nothing) = [analysed |-> b, notes |-> {}]
    BY <2>3 DEF Analysed, Store!Nothing
  <2>5. QED
    BY <2>1, <2>2, <2>4
<1>5. CASE OpenLibr
  <2>1. CASE UNCHANGED <<core, backend>>
    BY <1>5, <1>10, <2>1 DEF OpenLibr, Goto, TypeOK, outside
  <2>2. CASE Goto("libr", "session") /\ Opened("libr", LibrOpen)
    <3>1. LibrOpen \in IF project \in Projects /\ Intact(project) THEN {disk[project]} ELSE Store!Fresh
      BY <2>2, <1>4, ProjectAssumption DEF LibrOpen, Given, project, SessionInv, Goto
    <3>2. QED
      BY <1>3, <1>5, <2>2, <3>1 DEF OpenLibr, Goto, Opened, process
  <2>3. QED
    BY <1>5, <2>1, <2>2 DEF OpenLibr
<1>6. CASE OpenPipe
  <2>1. CASE End(3) \/ End(BrokenPipe)
    <3>1. backend = "none" /\ core = Store!Nothing /\ disk' = disk /\ room \in BOOLEAN
      BY <1>6 DEF OpenPipe, TypeOK, SessionInv
    <3>2. core' = core /\ backend' = "none" /\ room' = room
      BY <2>1, <3>1 DEF End
    <3>3. QED
      BY <1>10, <3>1, <3>2
  <2>2. CASE pc' = "session" /\ Opened("pipe", PipeOpen) /\ UNCHANGED <<process, outside, code, server>>
    <3>1. PipeOpen \in IF project \in Projects /\ Intact(project) THEN {disk[project]} ELSE Store!Fresh
      BY <1>4, <1>6, ProjectAssumption DEF PipeOpen, Given, project, SessionInv, OpenPipe, Intact, Store!Intact
    <3>2. QED
      BY <1>3, <1>6, <2>2, <3>1 DEF OpenPipe, Opened, process
  <2>3. QED
    BY <1>6, <2>1, <2>2 DEF OpenPipe
<1>7. CASE Dispatch
  <2>1. project' = project /\ ("-w" \in args'.on <=> "-w" \in args.on)
    BY <1>7 DEF Dispatch, project, Valued
  <2>3. pc # "ended" /\ pc' # "ended"
    BY <1>7 DEF Dispatch, Return, Mode
  <2>2. QED
    BY <1>7, <2>1, <2>3, Unseen, LostWhen DEF Dispatch, work, outside
<1>8. QED
  BY <1>1, <1>2, <1>5, <1>6, <1>7, <1>9

(* So is each step of a session.                                         *)
LEMMA SessionStep ==
    ASSUME ProgramInv,
           \/ RunSql \/ RunScript \/ RunRepl \/ StartServer \/ CatchSignal \/ ServeEnds \/ StopServer
           \/ \E h \in Handlers : Connect(h) \/ HttpQuery(h) \/ HttpAnswer(h) \/ HttpShutdown(h) \/ McpQuery(h)
    PROVE  Store!Next \/ UNCHANGED Store!vars
<1> USE DEF ProgramInv
<1>1. UNCHANGED <<args, outside, backend>>
  BY DEF RunSql, RunScript, RunRepl, StartServer, CatchSignal, ServeEnds, StopServer,
         Connect, HttpQuery, HttpAnswer, HttpShutdown, McpQuery, process
<1>2. backend # "none"
  BY DEF RunSql, RunScript, RunRepl, StartServer, CatchSignal, ServeEnds, StopServer, Goto,
         Connect, HttpQuery, HttpAnswer, HttpShutdown, McpQuery, TypeOK, ServerInv
<1>7. pc # "ended" /\ pc' # "ended"
  <2>1. pc # "ended"
    BY <1>2 DEF TypeOK
  <2>2. QED
    BY <2>1 DEF RunSql, RunScript, RunRepl, RunRaw, RunQuery, StartServer, CatchSignal, ServeEnds, StopServer, Return, Goto,
           Connect, HttpQuery, HttpAnswer, HttpShutdown, McpQuery
<1>8. Lost' <=> Lost
  BY <1>1, <1>7, LostWhen DEF outside
<1>3. Statement \/ UNCHANGED work
  BY DEF RunSql, RunScript, RunRepl, RunRaw, RunQuery, StartServer, CatchSignal, ServeEnds, StopServer,
         Connect, HttpQuery, HttpAnswer, HttpShutdown, McpQuery
<1>4. CASE Statement
  BY <1>1, <1>2, <1>4, <1>8, StatementTypes, StatementStep DEF TypeOK
<1>5. CASE UNCHANGED work
  BY <1>1, <1>5, <1>8, Unseen DEF work, project, outside
<1>6. QED
  BY <1>3, <1>4, <1>5

(* So is closing it, and what befalls it.                                  *)
LEMMA CloseStep ==
    ASSUME ProgramInv, LibrClose \/ PipeClose \/ SigPipe \/ R2Dies \/ DiskFills \/ \E s \in Signals : Signal(s)
    PROVE  Store!Next \/ UNCHANGED Store!vars
<1> USE DEF ProgramInv
<1>1. backend # "none" /\ Saves => project \in Projects
  BY ProjectAssumption DEF Saves, Given, SessionInv, TypeOK, project
<1>2. ASSUME NEW c, End(c), disk' = disk, backend = "none" \/ ~alive
      PROVE  Store!Next
  <2>1. core = Store!Nothing /\ backend' = "none" /\ core' = Store!Nothing /\ room' \in BOOLEAN
    BY <1>2, EndGone DEF SessionInv, TypeOK
  <2>2. QED
    BY <1>2, <2>1, Without DEF Store!Next
<1>3. CASE LibrClose \/ PipeClose
  <2>1. End(code) /\ backend # "none" /\ disk' \in Closing
    BY <1>3 DEF LibrClose, PipeClose
  <2>2. CASE alive
    <3>1. Store!Gone
      BY <2>1, EndGone
    <3>4. Lost' = FALSE
      BY <1>3, <2>1 DEF LibrClose, PipeClose, End, Lost, SessionInv, Killed, BrokenPipe
    <3>2. Store!Close
      BY <1>1, <2>1, <2>2, <3>1, <3>4, ProjectAssumption DEF Store!Close, Closing
    <3>3. QED
      BY <3>2 DEF Store!Next
  <2>3. CASE ~alive
    BY <1>2, <2>1, <2>3 DEF Closing
  <2>4. QED
    BY <2>2, <2>3
<1>4. CASE SigPipe
  BY <1>2, <1>4 DEF SigPipe
<1>5. ASSUME backend # "none", alive, Interrupted, Store!Gone, Lost' = TRUE
      PROVE  Store!Next
  <2>1. Store!Kill
    BY <1>1, <1>5 DEF Store!Kill, Interrupted
  <2>2. QED
    BY <2>1 DEF Store!Next
<1>6. CASE R2Dies
  BY <1>5, <1>6 DEF R2Dies, Store!Gone, Lost
<1>7. CASE DiskFills
  <2>1. Lost' = Lost
    BY <1>7 DEF DiskFills, Lost
  <2>2. Store!Outside
    BY <1>7, <2>1 DEF DiskFills, Store!Outside, Store!session, process, work, project, Saves, On, Given, Lost
  <2>3. QED
    BY <2>2 DEF Store!Next
<1>8. CASE \E s \in Signals : Signal(s)
  <2>1. PICK s \in Signals : Signal(s)
    BY <1>8
  <2>2. CASE s \in caught
    BY <2>1, <2>2, Unseen DEF Signal, process, work, outside, project, Lost
  <2>3. CASE s \notin caught
    <3>1. End(Killed) /\ Interrupted
      BY <2>1, <2>3 DEF Signal
    <3>2. CASE backend # "none" /\ alive
      BY <1>5, <3>1, <3>2, EndGone DEF End, Lost
    <3>3. CASE backend = "none" \/ ~alive
      <4>1. disk' = disk
        BY <3>1, <3>3 DEF Interrupted, TypeOK
      <4>2. QED
        BY <1>2, <3>1, <3>3, <4>1
    <3>4. QED
      BY <3>2, <3>3
  <2>4. QED
    BY <2>2, <2>3
<1>9. QED
  BY <1>3, <1>4, <1>6, <1>7, <1>8

(* So is every step.                                                     *)
LEMMA NextStore == ProgramInv /\ [Next]_vars => [Store!Next]_(Store!vars)
<1> SUFFICES ASSUME ProgramInv, [Next]_vars PROVE Store!Next \/ UNCHANGED Store!vars
  OBVIOUS
<1>1. CASE Next
  BY <1>1, StartStep, SessionStep, CloseStep DEF Next, Main
<1>2. CASE UNCHANGED vars
  BY <1>2, Unseen DEF vars, process, work, project, outside, Lost
<1>3. QED
  BY <1>1, <1>2

-----------------------------------------------------------------------------
(* The inductive invariant holds in every reachable state.                 *)
THEOREM Invariance == Spec => []ProgramInv
BY InitInv, NextInv, PTL DEF Spec

(* Every variable of the program keeps its type; there is a backend        *)
(* exactly between opening and closing, and every end has an exit code.    *)
THEOREM TypeCorrect == Spec => []TypeOK
<1>1. ProgramInv => TypeOK
  BY DEF ProgramInv
<1>2. QED
  BY <1>1, Invariance, PTL

(* No request is at work when the session and its backend are destroyed,   *)
(* and at most one at a time uses them.                                    *)
THEOREM NothingAtWork == Spec => []NoUseAfterClose
<1>1. ProgramInv => NoUseAfterClose
  BY DEF ProgramInv, ServerInv, NoUseAfterClose
<1>2. QED
  BY <1>1, Invariance, PTL

(* The program keeps what the user writes as Persistence promises, in      *)
(* every mode, with both backends, and whenever it is killed.              *)
THEOREM KeepsWork == Spec => WorkIsKept
BY InitStore, NextStore, Invariance, PTL DEF Spec, WorkIsKept, Store!Spec

-----------------------------------------------------------------------------
(* What parse_args has read before the first argument, and after each.     *)
Unread == [args |-> NoArgs, need |-> "none", bad |-> FALSE]
Readings(W) == [args : [on : SUBSET (Switches \cup Servers), value : [Valued -> W]], need : {"none", "port"} \cup Valued, bad : BOOLEAN]

(* The words of an option and of a value are told apart by need.           *)
IsValue(s, k) == s.need \in Valued \/ (s.need = "port" /\ k \in Ports)
Options == Switches \cup Servers \cup Valued

(* What has been read after an option, as a record.                      *)
LEMMA SetOption ==
    ASSUME NEW W, NEW s \in Readings(W), NEW k \in Switches \cup Servers, NEW n \in {"none", "port"}
    PROVE  [s EXCEPT !.args.on = @ \cup {k}, !.need = n]
             = [args |-> [on |-> s.args.on \cup {k}, value |-> s.args.value], need |-> n, bad |-> s.bad]
<1> DEFINE t == [s EXCEPT !.args.on = @ \cup {k}]
<1>1. t = [args |-> [on |-> s.args.on \cup {k}, value |-> s.args.value], need |-> s.need, bad |-> s.bad]
  BY DEF Readings
<1>2. t \in Readings(W)
  BY <1>1 DEF Readings
<1>3. [s EXCEPT !.args.on = @ \cup {k}, !.need = n] = [t EXCEPT !.need = n]
  BY Zenon
<1> HIDE DEF t
<1>4. [t EXCEPT !.need = n] = [args |-> t.args, need |-> n, bad |-> t.bad]
  BY <1>2 DEF Readings
<1> QED BY <1>1, <1>3, <1>4

(* What has been read after a value, as a record.                        *)
LEMMA SetValue ==
    ASSUME NEW W, NEW s \in Readings(W), NEW k \in W, NEW o \in Valued
    PROVE  [s EXCEPT !.args.value[o] = k, !.need = "none"]
             = [args |-> [on |-> s.args.on, value |-> [s.args.value EXCEPT ![o] = k]], need |-> "none", bad |-> s.bad]
<1> DEFINE t == [s EXCEPT !.args.value[o] = k]
<1>1. t = [args |-> [on |-> s.args.on, value |-> [s.args.value EXCEPT ![o] = k]], need |-> s.need, bad |-> s.bad]
  BY DEF Readings
<1>2. t \in Readings(W)
  BY <1>1 DEF Readings
<1>3. [s EXCEPT !.args.value[o] = k, !.need = "none"] = [t EXCEPT !.need = "none"]
  BY Zenon
<1> HIDE DEF t
<1>4. [t EXCEPT !.need = "none"] = [args |-> t.args, need |-> "none", bad |-> t.bad]
  BY <1>2 DEF Readings
<1> QED BY <1>1, <1>3, <1>4

(* Nothing has been read at first.                                       *)
LEMMA UnreadType ==
    ASSUME NEW W, "" \in W
    PROVE  Unread \in Readings(W)
BY DEF Unread, Readings, NoArgs

(* An argument where a value is expected, and one where an option is.      *)
LEMMA ReadValue ==
    ASSUME NEW W, NEW s \in Readings(W), NEW k \in W, ~s.bad, IsValue(s, k)
    PROVE  /\ ParseArg(s, k) \in Readings(W) /\ ~ParseArg(s, k).bad /\ ParseArg(s, k).need = "none"
           /\ ParseArg(s, k).args.on = s.args.on
           /\ ParseArg(s, k).args.value = IF s.need \in Valued THEN [s.args.value EXCEPT ![s.need] = k] ELSE s.args.value
<1>1. CASE s.need \in Valued
  <2>1. ParseArg(s, k) = [args |-> [on |-> s.args.on, value |-> [s.args.value EXCEPT ![s.need] = k]], need |-> "none", bad |-> s.bad]
    BY <1>1, SetValue DEF ParseArg
  <2>2. [s.args.value EXCEPT ![s.need] = k] \in [Valued -> W]
    BY DEF Readings
  <2> QED BY <1>1, <2>1, <2>2 DEF Readings
<1>2. CASE s.need \notin Valued
  <2>1. ParseArg(s, k) = [s EXCEPT !.need = "none"]
    BY <1>2 DEF ParseArg, IsValue
  <2>2. [s EXCEPT !.need = "none"] = [args |-> s.args, need |-> "none", bad |-> s.bad]
    BY DEF Readings
  <2> QED BY <1>2, <2>1, <2>2 DEF Readings
<1> QED BY <1>1, <1>2

(* An option is read as one.                                             *)
LEMMA ReadOption ==
    ASSUME NEW W, NEW s \in Readings(W), NEW k \in W, ~s.bad, ~IsValue(s, k)
    PROVE  /\ ParseArg(s, k) \in Readings(W)
           /\ ParseArg(s, k).bad <=> k \notin Options
           /\ k \in Options => /\ ParseArg(s, k).need = IF k \in Valued THEN k ELSE IF k \in Servers THEN "port" ELSE "none"
                               /\ ParseArg(s, k).args.on = s.args.on \cup ({k} \ Valued)
                               /\ ParseArg(s, k).args.value = s.args.value
<1>1. ParseArg(s, k) = ParseOption(s, k)
  BY DEF ParseArg, IsValue
<1>2. s.args.value \in [Valued -> W] /\ s.args.on \in SUBSET (Switches \cup Servers) /\ s.need \in {"none", "port"} \cup Valued
  BY DEF Readings
<1>3. CASE k \in Switches \cup Servers
  <2> DEFINE n == IF k \in Servers THEN "port" ELSE "none"
  <2>1. k \notin Valued /\ (k \in Switches <=> k \notin Servers)
    BY <1>3 DEF Switches, Servers, Valued
  <2>2. ParseOption(s, k) = [args |-> [on |-> s.args.on \cup {k}, value |-> s.args.value], need |-> n, bad |-> s.bad]
    BY <1>3, <2>1, SetOption DEF ParseOption
  <2> QED BY <1>1, <1>2, <1>3, <2>1, <2>2 DEF Readings, Options
<1>4. CASE k \in Valued
  <2>1. k \notin Switches \cup Servers
    BY <1>4 DEF Switches, Servers, Valued
  <2>2. ParseOption(s, k) = [s EXCEPT !.need = k]
    BY <1>4, <2>1 DEF ParseOption
  <2>3. [s EXCEPT !.need = k] = [args |-> s.args, need |-> k, bad |-> s.bad]
    BY DEF Readings
  <2> QED BY <1>1, <1>2, <1>4, <2>2, <2>3 DEF Readings, Options
<1>5. CASE k \notin Options
  <2>1. ParseOption(s, k) = [s EXCEPT !.bad = TRUE]
    BY <1>5 DEF ParseOption, Options
  <2>2. [s EXCEPT !.bad = TRUE].bad /\ [s EXCEPT !.bad = TRUE] \in Readings(W)
    BY DEF Readings
  <2> QED BY <1>1, <1>5, <2>1, <2>2
<1> QED BY <1>3, <1>4, <1>5 DEF Options

(* After an argument that cannot be read the rest is not looked at.        *)
LEMMA ReadNothing ==
    ASSUME NEW W, NEW s \in Readings(W), NEW k \in W, s.bad
    PROVE  ParseArg(s, k) = s
BY DEF ParseArg

(* parse_args keeps the types of what it gathers.                        *)
LEMMA ParseArgTypes ==
    ASSUME NEW W, NEW s \in Readings(W), NEW k \in W
    PROVE  ParseArg(s, k) \in Readings(W)
BY ReadValue, ReadOption, ReadNothing

-----------------------------------------------------------------------------
(* One reading of the line: r[i] is what has been read after i arguments.  *)
Words(line) == {line[i] : i \in 1..Len(line)} \cup {""}
ReadsUpTo(r, line, n) ==
    /\ r \in [0..n -> Readings(Words(line))] /\ r[0] = Unread
    /\ \A i \in 1..n : r[i] = ParseArg(r[i - 1], line[i])
Reads(r, line) == ReadsUpTo(r, line, Len(line))

(* There is one, by induction over the arguments.                          *)
LEMMA ReadingExists ==
    ASSUME NEW A, NEW line \in Seq(A)
    PROVE  \E r : Reads(r, line)
<1>0. Len(line) \in Nat
  OBVIOUS
<1>12. "" \in Words(line)
  BY DEF Words
<1>13. \A i \in 1..Len(line) : line[i] \in Words(line)
  BY DEF Words
<1>11. Len(line) \in 0..Len(line)
  BY <1>0
<1> DEFINE Short == {n \in 0..Len(line) : ~\E r : ReadsUpTo(r, line, n)}
<1>1. SUFFICES ASSUME Short # {} PROVE FALSE
  BY <1>11 DEF Reads
<1>2. PICK n \in Short : \A k \in Short : n <= k
  <2>1. Short \in SUBSET Nat
    OBVIOUS
  <2> HIDE DEF Short
  <2> QED BY <1>1, <2>1, Facts!LeastNumber
<1>3. \E r : ReadsUpTo(r, line, 0)
  <2> DEFINE none == [i \in 0..0 |-> Unread]
  <2>1. Unread \in Readings(Words(line))
    BY UnreadType, <1>12
  <2>2. none \in [0..0 -> Readings(Words(line))] /\ none[0] = Unread
    BY <2>1
  <2>3. \A i \in 1..0 : FALSE
    OBVIOUS
  <2> HIDE DEF none
  <2> QED BY <2>2, <2>3 DEF ReadsUpTo
<1>4. n \in 1..Len(line) /\ n - 1 \in 0..Len(line) /\ ~(n <= n - 1)
  <2>1. n \in 0..Len(line) /\ n # 0
    BY <1>2, <1>3
  <2> HIDE DEF Short
  <2> QED BY <1>0, <2>1
<1>5. PICK r : ReadsUpTo(r, line, n - 1)
  BY <1>2, <1>4
<1> DEFINE next == ParseArg(r[n - 1], line[n])
           longer == [i \in 0..n |-> IF i = n THEN next ELSE r[i]]
<1>6. r \in [0..(n - 1) -> Readings(Words(line))] /\ r[0] = Unread
      /\ \A i \in 1..(n - 1) : r[i] = ParseArg(r[i - 1], line[i])
  BY <1>5 DEF ReadsUpTo
<1>7. next \in Readings(Words(line))
  <2>1. n - 1 \in 0..(n - 1)
    BY <1>4, <1>0
  <2>2. r[n - 1] \in Readings(Words(line)) /\ line[n] \in Words(line)
    BY <1>4, <1>6, <1>13, <2>1
  <2> QED BY <2>2, ParseArgTypes
<1> HIDE DEF next
<1>8. longer \in [0..n -> Readings(Words(line))] /\ longer[0] = Unread /\ longer[n] = next
      /\ \A i \in 0..(n - 1) : longer[i] = r[i]
  BY <1>4, <1>6, <1>7
<1> HIDE DEF longer
<1>9. \A i \in 1..n : longer[i] = ParseArg(longer[i - 1], line[i])
  <2> SUFFICES ASSUME NEW i \in 1..n PROVE longer[i] = ParseArg(longer[i - 1], line[i])
    OBVIOUS
  <2>1. CASE i = n
    BY <1>4, <1>8, <2>1 DEF next
  <2>2. CASE i \in 1..(n - 1)
    BY <1>4, <1>6, <1>8, <2>2
  <2> QED BY <1>4, <2>1, <2>2
<1>10. ReadsUpTo(longer, line, n)
  BY <1>8, <1>9 DEF ReadsUpTo
<1> QED BY <1>2, <1>10

(* ParseArgs, which goes through the line by recursion, finds it.          *)
LEMMA ParseArgsReads ==
    ASSUME NEW A, NEW line \in Seq(A), NEW r, Reads(r, line)
    PROVE  ParseArgs(line) = {r[Len(line)]}
<1> DEFINE L == Len(line)
           Step(f) == [i \in 0..L |-> IF i = 0 THEN {Unread} ELSE {ParseArg(s, line[i]) : s \in f[i - 1]}]
           g == [i \in 0..L |-> {r[i]}]
           after == CHOOSE f : f = Step(f)
<1>1. ParseArgs(line) = after[L]
  BY Zenon DEF ParseArgs, Unread
<1>2. L \in Nat /\ r[0] = Unread /\ \A i \in 1..L : r[i] = ParseArg(r[i - 1], line[i])
  BY DEF Reads, ReadsUpTo
<1>3. g = Step(g)
  <2>1. \A i \in 0..L : g[i] = IF i = 0 THEN {Unread} ELSE {ParseArg(s, line[i]) : s \in g[i - 1]}
    <3> SUFFICES ASSUME NEW i \in 0..L PROVE g[i] = IF i = 0 THEN {Unread} ELSE {ParseArg(s, line[i]) : s \in g[i - 1]}
      OBVIOUS
    <3>1. CASE i = 0
      BY <1>2, <3>1
    <3>2. CASE i \in 1..L
      <4>1. i - 1 \in 0..L /\ g[i - 1] = {r[i - 1]} /\ g[i] = {ParseArg(r[i - 1], line[i])} /\ i # 0
        BY <1>2, <3>2
      <4>2. {ParseArg(s, line[i]) : s \in {r[i - 1]}} = {ParseArg(r[i - 1], line[i])}
        OBVIOUS
      <4> HIDE DEF g, L
      <4>3. {ParseArg(s, line[i]) : s \in g[i - 1]} = {ParseArg(r[i - 1], line[i])}
        BY <4>1, <4>2
      <4>4. g[i] = {ParseArg(s, line[i]) : s \in g[i - 1]}
        BY <4>1, <4>3
      <4> QED BY <4>1, <4>4, Zenon
    <3>3. i = 0 \/ i \in 1..L
      BY <1>2
    <3> QED BY <3>1, <3>2, <3>3, Zenon
  <2> DEFINE h == Step(g)
  <2>2. h = [i \in 0..L |-> g[i]]
    BY <2>1
  <2>3. g = [i \in 0..L |-> g[i]]
    OBVIOUS
  <2> QED BY <2>2, <2>3
<1>4. after = Step(after)
  <2> HIDE DEF Step, g
  <2> QED BY <1>3, Zenon
<1> HIDE DEF after
<1>5. \A i \in 0..L : after[i] = IF i = 0 THEN {Unread} ELSE {ParseArg(s, line[i]) : s \in after[i - 1]}
  BY <1>4
<1> DEFINE Wrong == {i \in 0..L : after[i] # {r[i]}}
<1>6. Wrong = {}
  <2> SUFFICES ASSUME Wrong # {} PROVE FALSE
    OBVIOUS
  <2>1. PICK n \in Wrong : \A k \in Wrong : n <= k
    <3>1. Wrong \in SUBSET Nat
      BY <1>2
    <3> HIDE DEF Wrong
    <3> QED BY <3>1, Facts!LeastNumber
  <2>2. n \in 0..L /\ after[n] # {r[n]} /\ n # 0
    BY <1>2, <1>5, <2>1
  <2>3. n \in 1..L /\ n - 1 \in 0..L /\ ~(n <= n - 1)
    BY <1>2, <2>2
  <2>4. after[n - 1] = {r[n - 1]}
    BY <2>1, <2>3
  <2>5. after[n] = {ParseArg(s, line[n]) : s \in after[n - 1]}
    BY <1>5, <2>2
  <2> QED BY <1>2, <2>2, <2>3, <2>4, <2>5
<1>7. after[L] = {r[L]}
  BY <1>2, <1>6
<1> QED BY <1>1, <1>7

-----------------------------------------------------------------------------
(* The arguments that are read as options.                                 *)
OptionsRead(r, line) == {i \in 1..Len(line) : ~IsValue(r[i - 1], line[i])}

(* What one argument changes, as long as every argument could be read.     *)
LEMMA ReadTypes ==
    ASSUME NEW A, NEW line \in Seq(A), NEW r, Reads(r, line)
    PROVE  /\ \A i \in 0..Len(line) : r[i] \in Readings(Words(line))
           /\ \A i \in 1..Len(line) : line[i] \in Words(line) /\ r[i] = ParseArg(r[i - 1], line[i]) /\ r[i - 1] \in Readings(Words(line))
           /\ r[0] = Unread
<1>1. \A i \in 0..Len(line) : r[i] \in Readings(Words(line))
  BY DEF Reads, ReadsUpTo
<1>2. \A i \in 1..Len(line) : line[i] \in Words(line)
  BY DEF Words
<1>3. \A i \in 1..Len(line) : r[i] = ParseArg(r[i - 1], line[i])
  BY DEF Reads, ReadsUpTo
<1>4. \A i \in 1..Len(line) : i - 1 \in 0..Len(line)
  OBVIOUS
<1> QED BY <1>1, <1>2, <1>3, <1>4 DEF Reads, ReadsUpTo

(* Where no value is expected an option is read.                         *)
LEMMA ReadsOption ==
    ASSUME NEW A, NEW line \in Seq(A), NEW r, Reads(r, line),
           NEW i \in 1..Len(line), ~r[i - 1].bad, i \in OptionsRead(r, line)
    PROVE  /\ r[i].bad <=> line[i] \notin Options
           /\ line[i] \in Options =>
                /\ r[i].need = IF line[i] \in Valued THEN line[i] ELSE IF line[i] \in Servers THEN "port" ELSE "none"
                /\ r[i].args.on = r[i - 1].args.on \cup ({line[i]} \ Valued)
                /\ r[i].args.value = r[i - 1].args.value
<1>1. line[i] \in Words(line) /\ r[i] = ParseArg(r[i - 1], line[i]) /\ r[i - 1] \in Readings(Words(line))
  BY ReadTypes
<1>2. ~IsValue(r[i - 1], line[i])
  BY DEF OptionsRead
<1> QED BY <1>1, <1>2, ReadOption

(* Where one is expected the argument is the value.                      *)
LEMMA ReadsValue ==
    ASSUME NEW A, NEW line \in Seq(A), NEW r, Reads(r, line),
           NEW i \in 1..Len(line), ~r[i - 1].bad, i \notin OptionsRead(r, line)
    PROVE  /\ ~r[i].bad /\ r[i].need = "none" /\ r[i].args.on = r[i - 1].args.on
           /\ r[i].args.value = IF r[i - 1].need \in Valued THEN [r[i - 1].args.value EXCEPT ![r[i - 1].need] = line[i]]
                                ELSE r[i - 1].args.value
<1>1. line[i] \in Words(line) /\ r[i] = ParseArg(r[i - 1], line[i]) /\ r[i - 1] \in Readings(Words(line))
  BY ReadTypes
<1>2. IsValue(r[i - 1], line[i])
  BY DEF OptionsRead
<1> QED BY <1>1, <1>2, ReadValue

-----------------------------------------------------------------------------
(* A line that can be read is read: need follows the reading S.            *)
Awaited(line, S, i) ==
    IF i \in S /\ line[i] \in Valued THEN line[i] ELSE IF i \in S /\ line[i] \in Servers THEN "port" ELSE "none"

(* The words of options are different from each other.                   *)
LEMMA WordsApart ==
    /\ "none" \notin Valued /\ "port" \notin Valued /\ "port" # "none"
    /\ Valued \cap Servers = {} /\ Ports \cap Options = {}
BY DEF Valued, Servers, Switches, Ports, Options

(* The loop expects a value where the reading has one.                   *)
LEMMA FollowsReading ==
    ASSUME NEW A, NEW line \in Seq(A), NEW r, Reads(r, line),
           NEW S \in SUBSET DOMAIN line, OptionsAt(line, S), NEW i \in 1..Len(line),
           ~r[i - 1].bad, r[i - 1].need = Awaited(line, S, i - 1)
    PROVE  ~r[i].bad /\ r[i].need = Awaited(line, S, i)
<1>1. S \subseteq 1..Len(line) /\ Len(line) \in Nat /\ i \in DOMAIN line
  OBVIOUS
<1>2. i \in S => line[i] \in Options
  BY DEF OptionsAt, Options
<1>3. i \in S => ~(i - 1 \in S /\ line[i - 1] \in Valued)
  <2> SUFFICES ASSUME i \in S, i - 1 \in S, line[i - 1] \in Valued PROVE FALSE
    OBVIOUS
  <2>1. (i - 1) + 1 \in DOMAIN line \ S
    BY DEF OptionsAt
  <2>2. (i - 1) + 1 = i
    OBVIOUS
  <2> QED BY <2>1, <2>2
<1>4. i \notin S => i - 1 \in S /\ line[i - 1] \in Valued \cup Servers /\ (line[i - 1] \in Servers => line[i] \in Ports)
  BY <1>1 DEF OptionsAt
<1>5. IsValue(r[i - 1], line[i]) <=> i \notin S
  BY <1>2, <1>3, <1>4, WordsApart DEF IsValue, Awaited
<1>6. CASE i \in S
  <2>1. i \in OptionsRead(r, line)
    BY <1>5, <1>6 DEF OptionsRead
  <2> QED BY <1>2, <1>6, <2>1, ReadsOption DEF Awaited
<1>7. CASE i \notin S
  <2>1. i \notin OptionsRead(r, line)
    BY <1>5, <1>7 DEF OptionsRead
  <2>2. ~r[i].bad /\ r[i].need = "none"
    <3>1. /\ ~r[i].bad /\ r[i].need = "none" /\ r[i].args.on = r[i - 1].args.on
          /\ r[i].args.value = IF r[i - 1].need \in Valued THEN [r[i - 1].args.value EXCEPT ![r[i - 1].need] = line[i]]
                               ELSE r[i - 1].args.value
      BY <2>1, ReadsValue, Zenon
    <3> QED BY <3>1
  <2>3. Awaited(line, S, i) = "none"
    BY <1>7 DEF Awaited
  <2> QED BY <2>2, <2>3
<1> QED BY <1>6, <1>7

(* A line that has a reading is accepted.                                *)
LEMMA ReadableIsRead ==
    ASSUME NEW A, NEW line \in Seq(A), NEW r, Reads(r, line),
           NEW S \in SUBSET DOMAIN line, OptionsAt(line, S)
    PROVE  ~Malformed(r[Len(line)])
<1> DEFINE L == Len(line)
           Off == {i \in 0..L : r[i].bad \/ r[i].need # Awaited(line, S, i)}
<1>1. L \in Nat /\ S \subseteq 1..L /\ DOMAIN line = 1..L
  OBVIOUS
<1>2. ~r[0].bad /\ r[0].need = Awaited(line, S, 0)
  <2>1. 0 \notin S
    BY <1>1
  <2> QED BY <2>1, ReadTypes DEF Unread, Awaited
<1>3. Off = {}
  <2> SUFFICES ASSUME Off # {} PROVE FALSE
    OBVIOUS
  <2>1. PICK n \in Off : \A k \in Off : n <= k
    <3>1. Off \in SUBSET Nat
      BY <1>1
    <3> HIDE DEF Off
    <3> QED BY <3>1, Facts!LeastNumber
  <2>2. n \in 1..L
    BY <1>1, <1>2, <2>1
  <2>3. n - 1 \in 0..L /\ ~(n <= n - 1)
    BY <1>1, <2>2
  <2>4. ~r[n - 1].bad /\ r[n - 1].need = Awaited(line, S, n - 1)
    BY <2>1, <2>3
  <2> HIDE DEF L
  <2>5. ~r[n].bad /\ r[n].need = Awaited(line, S, n)
    BY <2>2, <2>4, FollowsReading DEF L
  <2> QED BY <2>1, <2>5
<1>4. ~r[L].bad /\ r[L].need = Awaited(line, S, L)
  BY <1>1, <1>3
<1>5. ~(L \in S /\ line[L] \in Valued)
  <2> SUFFICES ASSUME L \in S, line[L] \in Valued PROVE FALSE
    OBVIOUS
  <2>1. L + 1 \in DOMAIN line
    BY DEF OptionsAt
  <2> QED BY <1>1, <2>1
<1>6. r[L].need \notin Valued
  BY <1>4, <1>5, WordsApart DEF Awaited
<1> QED BY <1>4, <1>6 DEF Malformed

-----------------------------------------------------------------------------
(* A line that is read has a reading, the arguments read as options.       *)
LEMMA NothingBad ==
    ASSUME NEW A, NEW line \in Seq(A), NEW r, Reads(r, line), ~r[Len(line)].bad, NEW i \in 0..Len(line)
    PROVE  ~r[i].bad
<1> DEFINE L == Len(line)
           Well == {k \in i..L : ~r[k].bad}
<1>1. SUFFICES ASSUME r[i].bad PROVE FALSE
  OBVIOUS
<1>2. L \in Nat /\ L \in Well
  OBVIOUS
<1>3. PICK n \in Well : \A k \in Well : n <= k
  <2>1. Well \in SUBSET Nat
    BY <1>2
  <2> HIDE DEF Well
  <2> QED BY <1>2, <2>1, Facts!LeastNumber
<1>4. n \in i..L /\ n # i /\ ~r[n].bad
  BY <1>1, <1>3
<1>5. n - 1 \in i..L /\ n \in 1..L /\ ~(n <= n - 1)
  BY <1>2, <1>4
<1>6. r[n - 1].bad
  BY <1>3, <1>5
<1>7. r[n] = ParseArg(r[n - 1], line[n])
  BY <1>5, ReadTypes
<1>8. r[n] = r[n - 1]
  BY <1>6, <1>7 DEF ParseArg
<1> QED BY <1>4, <1>6, <1>8

(* need tells what the argument before was read as.                        *)
LEMMA NeedTells ==
    ASSUME NEW A, NEW line \in Seq(A), NEW r, Reads(r, line), ~r[Len(line)].bad, NEW i \in 0..Len(line)
    PROVE  /\ i \in OptionsRead(r, line) => line[i] \in Options
           /\ r[i].need = Awaited(line, OptionsRead(r, line), i)
<1>1. CASE i = 0
  <2>1. 0 \notin OptionsRead(r, line)
    BY DEF OptionsRead
  <2>2. r[i].need = "none"
    BY <1>1, ReadTypes DEF Unread
  <2> QED BY <1>1, <2>1, <2>2 DEF Awaited
<1>2. CASE i \in 1..Len(line)
  <2>1. ~r[i].bad /\ ~r[i - 1].bad
    <3>1. i - 1 \in 0..Len(line)
      BY <1>2
    <3> QED BY <3>1, NothingBad
  <2>2. CASE i \in OptionsRead(r, line)
    BY <1>2, <2>1, <2>2, ReadsOption DEF Awaited
  <2>3. CASE i \notin OptionsRead(r, line)
    <3>1. r[i].need = "none"
      BY <1>2, <2>1, <2>3, ReadsValue
    <3>2. Awaited(line, OptionsRead(r, line), i) = "none"
      BY <2>3 DEF Awaited
    <3> QED BY <2>3, <3>1, <3>2
  <2> QED BY <2>2, <2>3
<1> QED BY <1>1, <1>2

(* A line that is accepted has a reading.                                *)
LEMMA ReadIsReading ==
    ASSUME NEW A, NEW line \in Seq(A), NEW r, Reads(r, line), ~Malformed(r[Len(line)])
    PROVE  OptionsRead(r, line) \in SUBSET DOMAIN line /\ OptionsAt(line, OptionsRead(r, line))
<1> DEFINE L == Len(line)
           S == OptionsRead(r, line)
<1>1. L \in Nat /\ DOMAIN line = 1..L /\ S \subseteq 1..L
  BY DEF OptionsRead
<1>2. \A i \in 0..L : (i \in S => line[i] \in Options) /\ r[i].need = Awaited(line, S, i)
  BY NeedTells DEF Malformed
<1>3. r[L].need \notin Valued
  BY DEF Malformed
<1> HIDE DEF L
<1>4. ASSUME NEW i \in S PROVE line[i] \in Switches \cup Servers \cup Valued
  BY <1>1, <1>2 DEF Options
<1>5. ASSUME NEW i \in S, line[i] \in Valued PROVE i + 1 \in DOMAIN line \ S
  <2>1. i \in 1..L /\ r[i].need = line[i]
    BY <1>1, <1>2, <1>5 DEF Awaited
  <2>2. i + 1 \in 1..L /\ (i + 1) - 1 = i
    BY <1>1, <1>3, <1>5, <2>1
  <2>3. IsValue(r[(i + 1) - 1], line[i + 1])
    BY <1>5, <2>1, <2>2 DEF IsValue
  <2> QED BY <1>1, <2>2, <2>3 DEF OptionsRead, L
<1>6. ASSUME NEW i \in DOMAIN line \ S
      PROVE  i - 1 \in S /\ line[i - 1] \in Valued \cup Servers /\ (line[i - 1] \in Servers => line[i] \in Ports)
  <2>1. i \in 1..L /\ i - 1 \in 0..L
    BY <1>1
  <2>2. IsValue(r[i - 1], line[i])
    BY <2>1 DEF OptionsRead, L
  <2>3. r[i - 1].need = Awaited(line, S, i - 1)
    BY <1>2, <2>1
  <2> QED BY <2>2, <2>3, WordsApart DEF IsValue, Awaited
<1> QED BY <1>1, <1>4, <1>5, <1>6 DEF OptionsAt

-----------------------------------------------------------------------------
(* What is known of args after i arguments: the switches among them, and   *)
(* for each option with a value the last one that was given.               *)
OnAfter(r, line, i) == {line[j] : j \in OptionsRead(r, line) \cap 1..i} \ Valued
GivenBy(r, line, o, i) == {j \in OptionsRead(r, line) : line[j] = o /\ j + 1 <= i}
LastGiven(v, line, At) ==
    IF At = {} THEN v = "" ELSE \E m \in At : (\A j \in At : j <= m) /\ v = line[1 + m]
Gathered(r, line, i) ==
    /\ r[i].args.on = OnAfter(r, line, i)
    /\ \A o \in Valued : LastGiven(r[i].args.value[o], line, GivenBy(r, line, o, i))

(* At the first argument nothing is gathered.                            *)
LEMMA GatheredAtFirst ==
    ASSUME NEW A, NEW line \in Seq(A), NEW r, Reads(r, line)
    PROVE  Gathered(r, line, 0)
<1>1. r[0].args.on = {} /\ \A o \in Valued : r[0].args.value[o] = ""
  <2>1. r[0].args = NoArgs
    BY ReadTypes DEF Unread
  <2>2. NoArgs.on = {}
    BY DEF NoArgs
  <2>3. \A o \in Valued : NoArgs.value[o] = ""
    BY DEF NoArgs
  <2> QED BY <2>1, <2>2, <2>3
<1>2. OnAfter(r, line, 0) = {}
  BY DEF OnAfter
<1>3. \A o \in Valued : GivenBy(r, line, o, 0) = {}
  BY DEF GivenBy, OptionsRead
<1> QED BY <1>1, <1>2, <1>3 DEF Gathered, LastGiven

(* The next argument adds its option.                                    *)
LEMMA GatheredNext ==
    ASSUME NEW A, NEW line \in Seq(A), NEW r, Reads(r, line), ~r[Len(line)].bad,
           NEW i \in 1..Len(line), Gathered(r, line, i - 1)
    PROVE  Gathered(r, line, i)
<1> DEFINE S == OptionsRead(r, line)
<1>1. i - 1 \in 0..Len(line) /\ i \in 0..Len(line) /\ S \subseteq 1..Len(line)
  BY DEF OptionsRead
<1>2. ~r[i].bad /\ ~r[i - 1].bad
  BY <1>1, NothingBad
<1>3. r[i - 1].need = Awaited(line, S, i - 1) /\ (i \in S => line[i] \in Options)
  BY <1>1, NeedTells
<1>4. r[i].args.on = OnAfter(r, line, i)
  <2>1. r[i - 1].args.on = OnAfter(r, line, i - 1)
    BY DEF Gathered
  <2>2. CASE i \in S
    <3>1. r[i].args.on = r[i - 1].args.on \cup ({line[i]} \ Valued)
      BY <1>2, <1>3, <2>2, ReadsOption
    <3>2. S \cap 1..i = (S \cap 1..(i - 1)) \cup {i}
      BY <1>1, <2>2
    <3> HIDE DEF S
    <3>3. {line[j] : j \in S \cap 1..i} = {line[j] : j \in S \cap 1..(i - 1)} \cup {line[i]}
      BY <3>2
    <3> QED BY <2>1, <3>1, <3>3 DEF OnAfter, S
  <2>3. CASE i \notin S
    <3>1. r[i].args.on = r[i - 1].args.on
      BY <1>2, <2>3, ReadsValue
    <3>2. S \cap 1..i = S \cap 1..(i - 1)
      BY <1>1, <2>3
    <3> QED BY <2>1, <3>1, <3>2 DEF OnAfter
  <2> QED BY <2>2, <2>3
<1>5. ASSUME NEW o \in Valued
      PROVE  LastGiven(r[i].args.value[o], line, GivenBy(r, line, o, i))
  <2> DEFINE Old == GivenBy(r, line, o, i - 1)
             New == GivenBy(r, line, o, i)
  <2>1. LastGiven(r[i - 1].args.value[o], line, Old)
    BY DEF Gathered
  <2>2. Old = {j \in S : line[j] = o /\ j + 1 <= i - 1} /\ New = {j \in S : line[j] = o /\ j + 1 <= i}
    BY DEF GivenBy
  <2>3. CASE i - 1 \in S /\ line[i - 1] = o
    <3>1. r[i - 1].need = o
      BY <1>3, <2>3 DEF Awaited
    <3>2. i \notin S
      BY <2>3, <3>1 DEF OptionsRead, IsValue
    <3>3. r[i].args.value = [r[i - 1].args.value EXCEPT ![o] = line[i]]
      BY <1>2, <3>1, <3>2, ReadsValue
    <3>4. r[i - 1].args.value \in [Valued -> Words(line)]
      BY <1>1, ReadTypes DEF Readings
    <3>5. r[i].args.value[o] = line[i]
      BY <3>3, <3>4
    <3>6. i - 1 \in New /\ (\A j \in New : j <= i - 1) /\ 1 + (i - 1) = i
      BY <1>1, <2>2, <2>3
    <3> HIDE DEF New
    <3>7. New # {} /\ \E m \in New : (\A j \in New : j <= m) /\ r[i].args.value[o] = line[1 + m]
      BY <3>5, <3>6
    <3> QED BY <3>7, Zenon DEF LastGiven, New
  <2>4. CASE ~(i - 1 \in S /\ line[i - 1] = o)
    <3>1. New = Old
      BY <1>1, <2>2, <2>4
    <3>2. r[i].args.value[o] = r[i - 1].args.value[o]
      <4>1. CASE i \in S
        BY <1>2, <1>3, <4>1, ReadsOption
      <4>2. CASE i \notin S
        <5>1. r[i].args.value = IF r[i - 1].need \in Valued THEN [r[i - 1].args.value EXCEPT ![r[i - 1].need] = line[i]]
                                ELSE r[i - 1].args.value
          BY <1>2, <4>2, ReadsValue
        <5>2. r[i - 1].args.value \in [Valued -> Words(line)]
          BY <1>1, ReadTypes DEF Readings
        <5>3. r[i - 1].need \in Valued => r[i - 1].need # o
          BY <1>3, <2>4, WordsApart DEF Awaited
        <5> QED BY <5>1, <5>2, <5>3
      <4> QED BY <4>1, <4>2
    <3> QED BY <2>1, <3>1, <3>2
  <2> QED BY <2>3, <2>4
<1> QED BY <1>4, <1>5 DEF Gathered

(* Each option has the value given last.                                 *)
LEMMA GatheredAll ==
    ASSUME NEW A, NEW line \in Seq(A), NEW r, Reads(r, line), ~r[Len(line)].bad
    PROVE  Gathered(r, line, Len(line))
<1> DEFINE L == Len(line)
           Off == {i \in 0..L : ~Gathered(r, line, i)}
<1>1. L \in Nat
  OBVIOUS
<1>2. Off = {}
  <2> SUFFICES ASSUME Off # {} PROVE FALSE
    OBVIOUS
  <2>1. PICK n \in Off : \A k \in Off : n <= k
    <3>1. Off \in SUBSET Nat
      BY <1>1
    <3> HIDE DEF Off
    <3> QED BY <3>1, Facts!LeastNumber
  <2>2. n \in 1..L
    BY <1>1, <2>1, GatheredAtFirst
  <2>3. n - 1 \in 0..L /\ ~(n <= n - 1)
    BY <1>1, <2>2
  <2>4. Gathered(r, line, n - 1)
    BY <2>1, <2>3
  <2>5. Gathered(r, line, n)
    BY <2>2, <2>4, GatheredNext
  <2> QED BY <2>1, <2>5
<1> QED BY <1>1, <1>2

(* parse_args on any line: it refuses the lines that have no reading, and  *)
(* gives of the others what a reading says.                                *)
ReadAs(line, a, S) ==
    /\ a.on = {line[i] : i \in S} \ Valued
    /\ \A o \in Valued :
         LET at == {i \in S : line[i] = o} IN
         a.value[o] = IF at = {} THEN "" ELSE line[1 + CHOOSE i \in at : \A j \in at : j <= i]

(* parse_args understands every line.                                    *)
LEMMA ParsesRight ==
    ASSUME NEW A, NEW line \in Seq(A), NEW s \in ParseArgs(line)
    PROVE  /\ Malformed(s) <=> {S \in SUBSET DOMAIN line : OptionsAt(line, S)} = {}
           /\ ~Malformed(s) => \E S \in {T \in SUBSET DOMAIN line : OptionsAt(line, T)} : ReadAs(line, s.args, S)
<1>1. PICK r : Reads(r, line)
  BY ReadingExists
<1>2. s = r[Len(line)]
  BY <1>1, ParseArgsReads
<1>3. (\E S \in SUBSET DOMAIN line : OptionsAt(line, S)) => ~Malformed(s)
  BY <1>1, <1>2, ReadableIsRead
<1> SUFFICES ASSUME ~Malformed(s)
             PROVE  \E S \in SUBSET DOMAIN line : OptionsAt(line, S) /\ ReadAs(line, s.args, S)
  BY <1>3
<1> DEFINE S == OptionsRead(r, line)
           L == Len(line)
<1>4. S \in SUBSET DOMAIN line /\ OptionsAt(line, S)
  BY <1>1, <1>2, ReadIsReading
<1>5. Gathered(r, line, L)
  BY <1>1, <1>2, GatheredAll DEF Malformed
<1>6. L \in Nat /\ S \subseteq 1..L
  BY <1>4
<1>7. s.args.on = {line[i] : i \in S} \ Valued
  <2>1. S \cap 1..L = S
    BY <1>6
  <2> HIDE DEF S, L
  <2> QED BY <1>2, <1>5, <2>1 DEF Gathered, OnAfter, S, L
<1>8. ASSUME NEW o \in Valued
      PROVE  LET at == {i \in S : line[i] = o} IN
             s.args.value[o] = IF at = {} THEN "" ELSE line[1 + CHOOSE i \in at : \A j \in at : j <= i]
  <2> DEFINE at == {i \in S : line[i] = o}
             given == GivenBy(r, line, o, L)
             v == s.args.value[o]
  <2>1. at = given
    <3>1. \A i \in S : line[i] = o => i + 1 <= L
      BY <1>4, <1>6 DEF OptionsAt
    <3> QED BY <3>1 DEF GivenBy
  <2>2. LastGiven(v, line, given)
    BY <1>2, <1>5 DEF Gathered
  <2>3. LastGiven(v, line, at)
    BY <2>1, <2>2
  <2>4. at \subseteq Nat
    BY <1>6
  <2> HIDE DEF at, v, S
  <2>5. CASE at = {}
    <3>1. v = ""
      BY <2>3, <2>5, Zenon DEF LastGiven
    <3> QED BY <2>5, <3>1, Zenon DEF at, v
  <2>6. CASE at # {}
    <3>1. PICK m \in at : (\A j \in at : j <= m) /\ v = line[1 + m]
      BY <2>3, <2>6, Zenon DEF LastGiven
    <3> DEFINE c == CHOOSE i \in at : \A j \in at : j <= i
    <3>2. c \in at /\ \A j \in at : j <= c
      BY <3>1, Zenon
    <3> HIDE DEF c
    <3>3. c = m
      BY <2>4, <3>1, <3>2
    <3>4. v = line[1 + c]
      BY <3>1, <3>3
    <3> QED BY <2>6, <3>4, Zenon DEF c, at, v
  <2> QED BY <2>5, <2>6
<1> HIDE DEF S
<1>9. ReadAs(line, s.args, S)
  BY <1>7, <1>8, Zenon DEF ReadAs
<1> QED BY <1>4, <1>9

-----------------------------------------------------------------------------
(* Until it is looked at, args and code are what parse_args made of argv.  *)
ParsedInv ==
    pc = "parsed" =>
        /\ argv \in CommandLines
        /\ \E s \in ParseArgs(argv) : args = s.args /\ code = IF Malformed(s) THEN 2 ELSE NoCode

(* Only Parse leads to the point where the options are there.            *)
LEMMA ParsedOnlyByParse ==
    ASSUME [Next]_vars, pc' = "parsed"
    PROVE  Parse \/ (pc = "parsed" /\ UNCHANGED <<argv, args, code>>)
<1>1. CASE UNCHANGED vars
  BY <1>1 DEF vars, process
<1>2. CASE Parse
  BY <1>2
<1>3. CASE Early \/ OpenLibr \/ OpenPipe
  BY <1>3 DEF Early, OpenLibr, OpenPipe, Goto, End
<1>4. CASE Dispatch
  BY <1>4 DEF Dispatch, Mode, Return
<1>5. CASE RunSql \/ RunScript
  BY <1>5 DEF RunSql, RunScript, RunRaw, RunQuery, Return
<1>6. CASE RunRepl
  BY <1>6 DEF RunRepl, Return
<1>7. CASE StartServer \/ CatchSignal \/ ServeEnds \/ StopServer
  BY <1>7 DEF StartServer, CatchSignal, ServeEnds, StopServer, Goto, Return
<1>8. CASE LibrClose \/ PipeClose
  BY <1>8 DEF LibrClose, PipeClose, End
<1>9. CASE Restart
  BY <1>9 DEF Restart, Goto
<1>10. CASE \E h \in Handlers : Connect(h) \/ HttpQuery(h) \/ HttpAnswer(h) \/ HttpShutdown(h) \/ McpQuery(h)
  BY <1>10 DEF Connect, HttpQuery, HttpAnswer, HttpShutdown, McpQuery, process
<1>11. CASE \E s \in Signals : Signal(s)
  BY <1>11 DEF Signal, End, process
<1>12. CASE SigPipe \/ R2Dies \/ DiskFills
  BY <1>12 DEF SigPipe, R2Dies, DiskFills, End, process
<1> QED BY <1>1, <1>2, <1>3, <1>4, <1>5, <1>6, <1>7, <1>8, <1>9, <1>10, <1>11, <1>12 DEF Next, Main

(* ParsedRight, once true, stays.                                        *)
LEMMA ParsedStays == Spec => []ParsedInv
<1>1. Init => ParsedInv
  BY DEF Init, ParsedInv
<1>2. ProgramInv /\ ParsedInv /\ [Next]_vars => ParsedInv'
  <2> SUFFICES ASSUME ProgramInv, ParsedInv, [Next]_vars, pc' = "parsed"
               PROVE  /\ argv' \in CommandLines
                      /\ \E s \in ParseArgs(argv') : args' = s.args /\ code' = IF Malformed(s) THEN 2 ELSE NoCode
    BY DEF ParsedInv
  <2>1. CASE Parse
    <3>1. pc = "parse" /\ argv' = argv
      BY <2>1 DEF Parse, Goto
    <3>2. argv \in CommandLines
      BY <3>1 DEF ProgramInv, SessionInv
    <3> QED BY <2>1, <3>1, <3>2 DEF Parse
  <2>2. CASE pc = "parsed" /\ UNCHANGED <<argv, args, code>>
    BY <2>2 DEF ParsedInv
  <2> QED BY <2>1, <2>2, ParsedOnlyByParse
<1>3. QED
  BY <1>1, <1>2, InitInv, NextInv, PTL DEF Spec

(* parse_args accepts a command line exactly if it can be read as options  *)
(* and their values, and gives each option the value it was given last,    *)
(* for every command line.                                                 *)
THEOREM OptionsUnderstood == Spec => []ParsedRight
<1>1. ParsedInv => ParsedRight
  <2> SUFFICES ASSUME ParsedInv, pc = "parsed" PROVE ParsedRight
    BY DEF ParsedRight
  <2> DEFINE readings == {S \in SUBSET DOMAIN argv : OptionsAt(argv, S)}
  <2>1. argv \in Seq(STRING)
    BY LinesAssumption DEF ParsedInv
  <2>2. PICK s \in ParseArgs(argv) : args = s.args /\ code = IF Malformed(s) THEN 2 ELSE NoCode
    BY DEF ParsedInv
  <2>3. /\ Malformed(s) <=> readings = {}
        /\ ~Malformed(s) => \E S \in readings : ReadAs(argv, s.args, S)
    BY <2>1, ParsesRight
  <2>4. code = 2 <=> Malformed(s)
    BY <2>2 DEF NoCode
  <2> HIDE DEF readings
  <2>5. code # 2 => \E S \in readings : ReadAs(argv, args, S)
    BY <2>2, <2>3, <2>4
  <2>6. code = 2 <=> readings = {}
    BY <2>3, <2>4
  <2> QED BY <2>5, <2>6, Zenon DEF ParsedRight, ReadAs, readings
<1> QED BY <1>1, ParsedStays, PTL
=============================================================================
