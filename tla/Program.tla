------------------------------ MODULE Program -------------------------------
(***************************************************************************)
(* One user's runs of the r2sql program, from the command line to the exit *)
(* code (src/cli/main.cpp): the options, the choice of a backend and of a  *)
(* mode, the two servers, signals, and what becomes of the user's work     *)
(* (backend_libr.cpp, session.cpp, and the tables that write comments,     *)
(* types and projects).                                                    *)
(*                                                                         *)
(* The pipes behind the r2pipe backend are those of R2Pipe, the queue of   *)
(* the MCP server that of McpQueue: here a command is one step, and a call *)
(* of an MCP tool waits until the main thread executes it.                 *)
(***************************************************************************)
EXTENDS Integers, Sequences

CONSTANTS
    Handlers,      \* threads of the servers
    CommandLines,  \* the command lines the user tries
    Projects, Notes, NoProject, Missing, Damaged   \* as in Persistence

ASSUME ProjectAssumption == NoProject = "" /\ NoProject \notin Projects

VARIABLES
    argv,      \* the command line, until it has been looked at
    args,      \* what parse_args made of it
    disk,      \* the projects on disk
    backend,   \* "none", "libr" or "pipe"
    core,      \* what radare2 holds
    alive,     \* the radare2 of the session, if it is another process, lives
    room,      \* a project that is saved can be written
    pc,        \* where the main thread is
    code,      \* the exit code
    caught,    \* the signals that have a handler
    g_shutdown_flag,
    running,   \* a server accepts requests
    hpc        \* [Handlers -> "idle", "want", "query"]

work    == <<disk, core>>
process == <<argv, args>>
server  == <<caught, g_shutdown_flag, running, hpc>>
outside == <<alive, room>>
vars    == <<process, work, outside, backend, pc, code, server>>

Signals == {"SIGINT", "SIGTERM"}
NoCode == -1
Killed == -2       \* by SIGINT or SIGTERM
BrokenPipe == -3   \* by SIGPIPE

-----------------------------------------------------------------------------
(* The command line                                                        *)

Switches == {"-h", "--version", "-w", "--no-analyze", "--r2pipe", "-i"}
Servers == {"--http", "--mcp"}
Valued == {"-s", "-q", "-f", "--r2-exe", "--project", "--bind", "--token"}
Ports == {"8080"}   \* what std::stoi can read and does not begin with "-"

NoArgs == [on |-> {}, value |-> [o \in Valued |-> ""]]

(* An argument that is an option, where no value is expected.              *)
ParseOption(s, k) ==
    CASE k \in Switches -> [s EXCEPT !.args.on = @ \cup {k}, !.need = "none"]
      [] k \in Servers -> [s EXCEPT !.args.on = @ \cup {k}, !.need = "port"]
      [] k \in Valued -> [s EXCEPT !.need = k]
      [] OTHER -> [s EXCEPT !.bad = TRUE]

\* Mutant: a value is whatever does not begin with "-".
ParseArgShy(s, k) ==
    IF s.bad THEN s
    ELSE IF s.need \in Valued /\ k \notin Switches THEN [s EXCEPT !.args.value[s.need] = k, !.need = "none"]
    ELSE IF s.need = "port" /\ k \in Ports THEN [s EXCEPT !.need = "none"]
    ELSE ParseOption(s, k)

(* One argument; s.need is the option that waits for its value, which may  *)
(* be anything, or "port" when one may follow.                             *)
ParseArg(s, k) ==
    IF s.bad THEN s
    ELSE IF s.need \in Valued THEN [s EXCEPT !.args.value[s.need] = k, !.need = "none"]
    ELSE IF s.need = "port" /\ k \in Ports THEN [s EXCEPT !.need = "none"]
    ELSE ParseOption(s, k)

(* What has been read of a line after all its arguments, as a set of one.  *)
ParseArgs(line) ==
    LET after[i \in 0..Len(line)] ==
            IF i = 0 THEN {[args |-> NoArgs, need |-> "none", bad |-> FALSE]}
            ELSE {ParseArg(s, line[i]) : s \in after[i - 1]}
    IN after[Len(line)]

Malformed(s) == s.bad \/ s.need \in Valued

(* Arguments are strings, and Projects are the names that are used.        *)
ASSUME LinesAssumption ==
    \A line \in CommandLines :
        /\ line \in Seq(STRING)
        /\ \A s \in ParseArgs(line) : s.args.value["--project"] \in Projects \cup {NoProject}

On(o) == o \in args.on
Given(o) == args.value[o] # ""
project == args.value["--project"]
Saves == On("-w") /\ Given("--project")

-----------------------------------------------------------------------------
(* What the user's statements do                                           *)

(* The radare2 of the session has died, or the program was killed.         *)
Lost == ~alive \/ (pc = "ended" /\ code \in {Killed, BrokenPipe})

Store == INSTANCE Persistence WITH
    content <- core,
    keep <- IF backend # "none" /\ alive /\ Saves THEN project ELSE NoProject,
    open <- backend # "none" /\ alive,
    lost <- Lost

Intact(p) == Store!Intact(p)

SetNote(n) == core' = [core EXCEPT !.notes = @ \cup {n}] /\ UNCHANGED disk
DropNote(n) == core' = [core EXCEPT !.notes = @ \ {n}] /\ UNCHANGED disk

(* comments: UPDATE and INSERT send CCu, DELETE CC-.  A note stands for a  *)
(* comment or a type.                                                      *)
WriteComment == \E n \in Notes : SetNote(n)
DeleteComment == \E n \in core.notes : DropNote(n)

(* r2sql_type_define sends td, DELETE FROM types t-.                       *)
DefineType == \E n \in Notes : SetNote(n)
DeleteType == \E n \in core.notes : DropNote(n)

SaveProject(p) == disk' \in Store!Stored(p) /\ UNCHANGED core

(* P is sent whether the project is there or not, which can leave radare2  *)
(* half initialised (backend_r2pipe.cpp:142).                              *)
OpenProject(p) ==
    /\ core' \in IF Intact(p) THEN {disk[p]} ELSE {core, Store!Nothing}
    /\ UNCHANGED disk

DeleteProject(p) == disk[p] # Missing /\ disk' = [disk EXCEPT ![p] = Missing] /\ UNCHANGED core

(* One statement or raw command; without its radare2 it does nothing.      *)
Statement ==
    \/ UNCHANGED work
    \/ alive /\ (WriteComment \/ DeleteComment \/ DefineType \/ DeleteType)
    \/ alive /\ \E p \in Projects : SaveProject(p) \/ OpenProject(p) \/ DeleteProject(p)

-----------------------------------------------------------------------------
(* From main to a session                                                  *)

Init ==
    /\ argv \in CommandLines /\ args = NoArgs
    /\ disk \in [Projects -> {Missing, Damaged}]
    /\ backend = "none" /\ core = Store!Nothing /\ alive = TRUE /\ room = TRUE
    /\ pc = "parse" /\ code = NoCode
    /\ caught = {} /\ g_shutdown_flag = FALSE /\ running = FALSE
    /\ hpc = [h \in Handlers |-> "idle"]

Goto(here, there) == pc = here /\ pc' = there

(* The process is gone, and what it held with it.                          *)
End(c) ==
    /\ pc' = "ended" /\ code' = c
    /\ argv' = <<>> /\ args' = NoArgs /\ backend' = "none" /\ core' = Store!Nothing
    /\ alive' = TRUE /\ UNCHANGED room
    /\ caught' = {} /\ g_shutdown_flag' = FALSE /\ running' = FALSE
    /\ hpc' = [h \in Handlers |-> "idle"]

Parse ==
    /\ Goto("parse", "parsed")
    /\ \E s \in ParseArgs(argv) : args' = s.args /\ code' = IF Malformed(s) THEN 2 ELSE NoCode
    /\ UNCHANGED <<argv, work, outside, backend, server>>

NothingToDo == ~(Given("-s") \/ Given("-q") \/ Given("-f") \/ On("-i") \/ On("--http") \/ On("--mcp"))

(* A bad command line, -h, --version, and a command line without a task.   *)
Early ==
    /\ pc = "parsed" /\ UNCHANGED disk
    /\ IF code = 2 THEN End(2)
       ELSE IF On("-h") \/ On("--version") \/ NothingToDo THEN End(0)
       ELSE /\ pc' = IF On("--r2pipe") THEN "pipe" ELSE "libr"
            /\ argv' = <<>>
            /\ UNCHANGED <<args, core, outside, backend, code, server>>

Analysed(c) == [c EXCEPT !.analysed = ~On("--no-analyze")]

(* What LibrBackend::open leaves in the core: a project that can be read,  *)
(* else the file, analysed.                                                *)
LibrOpen == IF Given("--project") /\ Intact(project) THEN disk[project] ELSE Analysed(Store!Nothing)

(* R2PipePosixBackend::start: a project that is listed is loaded with P,   *)
(* and what could not be read of it is not analysed.                       *)
PipeOpen ==
    IF ~Given("--project") \/ disk[project] = Missing THEN Analysed(Store!Nothing)
    ELSE IF Intact(project) THEN disk[project] ELSE Store!Nothing

Opened(kind, c) == backend' = kind /\ core' = c

(* libr is tried first; if it is not compiled in, has no core or cannot    *)
(* open the file, the r2pipe backend is next.                              *)
OpenLibr ==
    /\ \/ Goto("libr", "session") /\ Opened("libr", LibrOpen)
       \/ Goto("libr", "pipe") /\ UNCHANGED <<core, backend>>
    /\ UNCHANGED <<process, disk, outside, code, server>>

(* Without any backend the exit code is 3, or SIGPIPE came before: R2Pipe. *)
OpenPipe ==
    /\ pc = "pipe" /\ UNCHANGED disk
    /\ \/ pc' = "session" /\ Opened("pipe", PipeOpen) /\ UNCHANGED <<process, outside, code, server>>
       \/ End(3) \/ End(BrokenPipe)

(* The mode; without one, help.  The other options have done their work.   *)
Mode == IF Given("-q") THEN "sql" ELSE IF Given("-f") THEN "script"
        ELSE IF On("--http") THEN "http" ELSE IF On("--mcp") THEN "mcp"
        ELSE IF On("-i") THEN "repl" ELSE "help"

\* Mutant: a mode forgets its result.
ReturnNothing(c) == pc' = "closing" /\ UNCHANGED code

Return(c) == pc' = "closing" /\ code' = c

Dispatch ==
    /\ pc = "session"
    /\ IF Mode = "help" THEN Return(0) ELSE pc' = Mode /\ UNCHANGED code
    /\ args' = [on |-> (args.on \cap {"-w"}) \cup IF Mode = "http" THEN {"--http"} ELSE IF Mode = "mcp" THEN {"--mcp"} ELSE {},
                value |-> [o \in Valued |-> IF o \in {"-q", "--project"} THEN args.value[o] ELSE ""]]
    /\ UNCHANGED <<argv, work, outside, backend, server>>

-----------------------------------------------------------------------------
(* One-shot modes and the REPL                                             *)

(* A raw command always succeeds.                                          *)
RunRaw == Statement /\ Return(0)
RunQuery == Statement /\ \E c \in {0, 1} : Return(c)

IsRawCmd(text) == text = ".cmd"

RunSql ==
    /\ pc = "sql" /\ IF IsRawCmd(args.value["-q"]) THEN RunRaw ELSE RunQuery
    /\ UNCHANGED <<process, outside, backend, server>>

(* A script that cannot be read is a failure; one that begins with "." is  *)
(* a raw command.                                                          *)
RunScript ==
    /\ pc = "script" /\ \/ Return(1) /\ UNCHANGED work
                        \/ RunRaw \/ RunQuery
    /\ UNCHANGED <<process, outside, backend, server>>

(* A line, or the end of the input.                                        *)
RunRepl ==
    /\ pc = "repl"
    /\ \/ Statement /\ UNCHANGED <<pc, code>>
       \/ Return(0) /\ UNCHANGED work
    /\ UNCHANGED <<process, outside, backend, server>>

-----------------------------------------------------------------------------
(* The servers                                                             *)

(* The port may be taken; MCP may not be compiled in.                      *)
StartServer ==
    /\ pc \in {"http", "mcp"}
    /\ \/ Return(1) /\ UNCHANGED running
       \/ running' = TRUE /\ pc' = "started" /\ UNCHANGED code
    /\ UNCHANGED <<process, work, outside, backend, caught, g_shutdown_flag, hpc>>

(* One std::signal at a time.                                              *)
CatchSignal ==
    /\ pc = "started"
    /\ caught' = IF caught = {} THEN {"SIGINT"} ELSE Signals
    /\ pc' = IF caught' = Signals THEN "serve" ELSE pc
    /\ UNCHANGED <<process, work, outside, backend, code, g_shutdown_flag, running, hpc>>

Connect(h) ==
    /\ running /\ hpc[h] = "idle" /\ hpc' = [hpc EXCEPT ![h] = "want"]
    /\ UNCHANGED <<process, work, outside, backend, pc, code, caught, g_shutdown_flag, running>>

HttpMode == Mode = "http"

(* query_fn on the handler's thread: query_mu_ is taken, a statement is    *)
(* carried out and answered.                                               *)
HttpQuery(h) ==
    /\ HttpMode /\ hpc[h] = "want" /\ \A g \in Handlers : hpc[g] # "query"
    /\ hpc' = [hpc EXCEPT ![h] = "query"]
    /\ UNCHANGED <<process, work, outside, backend, pc, code, caught, g_shutdown_flag, running>>

HttpAnswer(h) ==
    /\ hpc[h] = "query" /\ Statement
    /\ hpc' = [hpc EXCEPT ![h] = "idle"]
    /\ UNCHANGED <<process, outside, backend, pc, code, caught, g_shutdown_flag, running>>

(* POST /shutdown.                                                         *)
HttpShutdown(h) ==
    /\ HttpMode /\ hpc[h] = "want" /\ running' = FALSE
    /\ hpc' = [hpc EXCEPT ![h] = "idle"]
    /\ UNCHANGED <<process, work, outside, backend, pc, code, caught, g_shutdown_flag>>

(* run_until_stopped carries a call out on the main thread.                *)
McpQuery(h) ==
    /\ pc = "serve" /\ ~HttpMode /\ hpc[h] = "want" /\ Statement
    /\ hpc' = [hpc EXCEPT ![h] = "idle"]
    /\ UNCHANGED <<process, outside, backend, pc, code, caught, g_shutdown_flag, running>>

\* Mutant: the loop only looks at the server.
ServeEndsDeaf ==
    /\ Goto("serve", "stopping") /\ ~running
    /\ UNCHANGED <<process, work, outside, backend, code, server>>

(* The loop looks at the flag and at the server.                           *)
ServeEnds ==
    /\ Goto("serve", "stopping") /\ (g_shutdown_flag \/ ~running)
    /\ running' = FALSE
    /\ UNCHANGED <<process, work, outside, backend, code, caught, g_shutdown_flag, hpc>>

\* Mutant: nobody answers the calls in the MCP queue, and stop waits for them.
StopServerWaiting ==
    /\ pc = "stopping" /\ (\A h \in Handlers : hpc[h] = "idle") /\ Return(0)
    /\ UNCHANGED <<process, work, outside, backend, server>>

\* Mutant: stop does not wait for the handlers.
StopServerAtOnce ==
    /\ pc = "stopping" /\ Return(0)
    /\ UNCHANGED <<process, work, outside, backend, server>>

(* stop waits for the handlers; calls in the MCP queue are told that the   *)
(* server has stopped.                                                     *)
StopServer ==
    /\ pc = "stopping" /\ (HttpMode => \A h \in Handlers : hpc[h] = "idle")
    /\ Return(0) /\ hpc' = [h \in Handlers |-> "idle"]
    /\ UNCHANGED <<process, work, outside, backend, caught, g_shutdown_flag, running>>

-----------------------------------------------------------------------------
(* The end                                                                 *)

(* What the save at the end makes of the disk; nobody looks at its result. *)
Closing == IF Saves /\ alive THEN Store!Stored(project) ELSE {disk}

\* Mutant: the project of the command line is not saved.
LibrCloseUnsaved == pc = "closing" /\ backend = "libr" /\ End(code) /\ UNCHANGED disk

LibrClose == pc = "closing" /\ backend = "libr" /\ End(code) /\ disk' \in Closing

(* A radare2 that has died saves nothing.                                  *)
PipeClose == pc = "closing" /\ backend = "pipe" /\ End(code) /\ disk' \in Closing

(* Whoever is killed while a project is being saved may leave half of it.  *)
Interrupted ==
    disk' \in {disk} \cup IF pc = "closing" /\ Saves /\ alive THEN Store!Stored(project) \cup {Store!Torn(project)} ELSE {}

(* A signal sets the flag where on_signal is installed, and kills the      *)
(* program elsewhere.                                                      *)
Signal(s) ==
    /\ pc # "ended"
    /\ IF s \in caught
       THEN g_shutdown_flag' = TRUE /\ UNCHANGED <<process, work, outside, backend, pc, code, caught, running, hpc>>
       ELSE End(Killed) /\ Interrupted

-----------------------------------------------------------------------------
(* What happens outside the program                                        *)

(* The radare2 behind the pipe dies, with all it held.                     *)
R2Dies ==
    /\ backend = "pipe" /\ alive /\ alive' = FALSE
    /\ core' = Store!Nothing /\ Interrupted
    /\ UNCHANGED <<process, room, backend, pc, code, server>>

(* A command written to a radare2 that has died raises SIGPIPE, unless a   *)
(* library has it ignored; then it answers nothing.                        *)
SigPipe ==
    /\ backend = "pipe" /\ ~alive
    /\ pc \in {"sql", "script", "repl", "closing"} \/ \E h \in Handlers : hpc[h] # "idle"
    /\ End(BrokenPipe) /\ UNCHANGED disk

DiskFills ==
    /\ backend # "none" /\ room /\ room' = FALSE
    /\ UNCHANGED <<process, work, alive, backend, pc, code, server>>

(* The user starts the program again, and has made room.                   *)
Restart ==
    /\ Goto("ended", "parse")
    /\ argv' \in CommandLines /\ code' = NoCode /\ room' = TRUE
    /\ UNCHANGED <<args, work, alive, backend, server>>

Main ==
    \/ Parse \/ Early \/ OpenLibr \/ OpenPipe \/ Dispatch
    \/ RunSql \/ RunScript \/ StartServer \/ CatchSignal \/ ServeEnds \/ StopServer
    \/ LibrClose \/ PipeClose

Next ==
    \/ Main \/ RunRepl \/ Restart \/ R2Dies \/ SigPipe \/ DiskFills
    \/ \E h \in Handlers : Connect(h) \/ HttpQuery(h) \/ HttpAnswer(h) \/ HttpShutdown(h) \/ McpQuery(h)
    \/ \E s \in Signals : Signal(s)

Spec == Init /\ [][Next]_vars

(* The main thread goes on, a handler gets query_mu_ and its statement     *)
(* ends, and the drainer comes to every call.  No user has to type, no     *)
(* request or signal has to come.                                          *)
FairSpec ==
    /\ Spec /\ WF_vars(Main)
    /\ \A h \in Handlers : SF_vars(HttpQuery(h)) /\ WF_vars(HttpAnswer(h)) /\ SF_vars(McpQuery(h))

-----------------------------------------------------------------------------
(* Properties                                                              *)

(* The types; there is a backend exactly between opening and closing, and  *)
(* every end has an exit code.                                             *)
TypeOK ==
    /\ disk \in [Projects -> Store!Contents \cup {Missing, Damaged}]
    /\ backend \in {"none", "libr", "pipe"} /\ core \in Store!Contents
    /\ room \in BOOLEAN /\ alive \in BOOLEAN /\ (~alive => backend = "pipe")
    /\ (backend = "none") <=> pc \in {"parse", "parsed", "libr", "pipe", "ended"}
    /\ code \in {NoCode, Killed, BrokenPipe, 0, 1, 2, 3} /\ (pc = "ended" => code # NoCode)
    /\ caught \in {{}, {"SIGINT"}, Signals} /\ g_shutdown_flag \in BOOLEAN
    /\ running \in BOOLEAN /\ hpc \in [Handlers -> {"idle", "want", "query"}]

(* The positions S of a command line that hold options: whatever follows   *)
(* an option with a value is that value, only a port may follow a server.  *)
OptionsAt(line, S) ==
    /\ \A i \in S : line[i] \in Switches \cup Servers \cup Valued
    /\ \A i \in S : line[i] \in Valued => i + 1 \in DOMAIN line \ S
    /\ \A i \in DOMAIN line \ S : i - 1 \in S /\ line[i - 1] \in Valued \cup Servers /\ (line[i - 1] \in Servers => line[i] \in Ports)

(* parse_args accepts the command lines that can be read as options and    *)
(* their values, and each option has the value given to it last.           *)
ParsedRight ==
    pc = "parsed" =>
        LET readings == {S \in SUBSET DOMAIN argv : OptionsAt(argv, S)} IN
        /\ (code = 2) <=> (readings = {})
        /\ code # 2 => \E S \in readings :
              /\ args.on = {argv[i] : i \in S} \ Valued
              /\ \A o \in Valued : LET at == {i \in S : argv[i] = o} IN
                    args.value[o] = IF at = {} THEN "" ELSE argv[1 + CHOOSE i \in at : \A j \in at : j <= i]

(* What the user wrote reaches the disk when and only when Persistence     *)
(* says so, over several runs, in every mode and with both backends: the   *)
(* regular end saves if there is room and a radare2 that still holds it.   *)
WorkIsKept == Store!Spec

(* No request is at work when the session and its backend are destroyed,   *)
(* and at most one at a time uses them.                                    *)
NoUseAfterClose ==
    /\ pc = "closing" => \A h \in Handlers : hpc[h] = "idle"
    /\ \A g, h \in Handlers : hpc[g] = "query" /\ hpc[h] = "query" => g = h

(* Ctrl+C ends a server whose handlers are installed; unless its radare2   *)
(* has died it is not killed but returns, so that its project is saved.    *)
InterruptEnds == (g_shutdown_flag /\ pc = "serve") ~> (pc = "ended" /\ code \in {0, BrokenPipe})

(* Every request that a server has accepted is answered, unless the        *)
(* program is killed.                                                      *)
EveryRequestAnswered == \A h \in Handlers : hpc[h] = "want" ~> (hpc[h] = "idle")
=============================================================================
