-------------------------------- MODULE Plugin -------------------------------
(***************************************************************************)
(* The r2 plugin (src/plugin/core_r2sql.cpp): the session and the two      *)
(* servers of g_state, one mutex g_state.mu around them, r2's command      *)
(* thread, which runs the `sql` commands, and the servers' threads, which  *)
(* answer requests on the same session.  The locks inside the session are  *)
(* only taken under mu here and are never contended.                       *)
(*                                                                         *)
(* The servers are external: start opens a port or fails, stop refuses new *)
(* requests and returns when the handlers in progress have returned, and   *)
(* destroying a server stops it.  A client can end the HTTP server with    *)
(* POST /shutdown, the MCP server only ends when it is stopped.            *)
(***************************************************************************)
CONSTANTS
    Handlers,       \* threads of the servers
    Servers,        \* server objects; three are there at most at any time
    NoServer,       \* null
    Cores,          \* RCore objects that r2 passes to the plugin
    NoCore          \* null

ASSUME CoreAssumption == NoCore \notin Cores /\ Cores # {}
ASSUME ServerAssumption == NoServer \notin Servers

Transports == {"http", "mcp"}
Command == "command"     \* r2's command thread
Nobody == "nobody"

ASSUME HandlerAssumption == Command \notin Handlers /\ Nobody \notin Handlers

VARIABLES
    mu,        \* who holds g_state.mu
    session,   \* the core the session's backend wraps, NoCore without one
    bound,     \* bound_core
    published, \* [Transports -> g_state.http, g_state.mcp]
    running,   \* the servers that accept requests: is_running()
    pc,        \* where the command thread is
    core,      \* the core its command came with
    on,        \* the transport its command is about
    mine,      \* the server that its command holds or destroys
    hpc,       \* [Handlers -> "idle", "want" (waits for mu), "using", "nested"]
    via        \* [Handlers -> the server of the request, NoServer before]

state   == <<session, bound>>
servers == <<published, running>>
command == <<pc, core, on, mine>>
handler == <<hpc, via>>
vars == <<mu, state, servers, command, handler>>

Init ==
    /\ mu = Nobody /\ session = NoCore /\ bound = NoCore
    /\ published = [t \in Transports |-> NoServer] /\ running = {}
    /\ pc = "idle" /\ core \in Cores /\ on = "http" /\ mine = NoServer
    /\ hpc = [h \in Handlers |-> "idle"] /\ via = [h \in Handlers |-> NoServer]

Free == mu = Nobody          \* a critical section of one step needs mu
Goto(l) == pc' = l
Quiet(s) == \A h \in Handlers : via[h] = s => hpc[h] = "idle"

(* The HTTP servers that there are.                                        *)
Http == {published["http"]} \cup IF on = "http" THEN {mine} ELSE {}

-----------------------------------------------------------------------------
(* dispatch: a command comes with its core.                                *)

(* A query, sql.http or sql.mcp, sql.http- or sql.mcp-, one that is not    *)
(* the plugin's, or the end of the plugin.                                 *)
Dispatch ==
    /\ pc = "idle"
    /\ core' \in Cores
    /\ \/ Goto("ensure to query") /\ UNCHANGED on
       \/ Goto("check") /\ on' \in Transports
       \/ Goto("take") /\ on' \in Transports
       \/ Goto("native") /\ UNCHANGED on
       \/ Goto("fini") /\ on' = "http"
    /\ UNCHANGED <<mu, state, servers, mine, handler>>

NativeEnd ==
    /\ pc = "native" /\ Goto("idle")
    /\ UNCHANGED <<mu, state, servers, core, on, mine, handler>>

Ensured == IF pc = "ensure to query" THEN "query" ELSE "start"

\* Mutant: a session is kept whatever core it was made for.
EnsureAnySession ==
    /\ pc \in {"ensure to query", "ensure to start"} /\ Free
    /\ IF session # NoCore THEN UNCHANGED state ELSE session' = core /\ bound' = core
    /\ Goto(Ensured)
    /\ UNCHANGED <<mu, servers, core, on, mine, handler>>

\* Mutant: mu is not taken.
EnsureUnlocked ==
    /\ pc \in {"ensure to query", "ensure to start"}
    /\ IF session # NoCore /\ bound = core THEN UNCHANGED state
       ELSE session' = core /\ bound' = core
    /\ Goto(Ensured)
    /\ UNCHANGED <<mu, servers, core, on, mine, handler>>

(* ensure_session: the session is made anew for another core.              *)
EnsureSession ==
    /\ pc \in {"ensure to query", "ensure to start"} /\ Free
    /\ IF session # NoCore /\ bound = core THEN UNCHANGED state
       ELSE session' = core /\ bound' = core
    /\ Goto(Ensured)
    /\ UNCHANGED <<mu, servers, core, on, mine, handler>>

(* session->query between lock and unlock.                                 *)
QueryLock ==
    /\ pc = "query" /\ Free
    /\ mu' = Command /\ Goto("querying")
    /\ UNCHANGED <<state, servers, core, on, mine, handler>>

QueryEnd ==
    /\ pc = "querying"
    /\ mu' = Nobody /\ Goto("idle")
    /\ UNCHANGED <<state, servers, core, on, mine, handler>>

-----------------------------------------------------------------------------
(* sql.http and sql.mcp                                                    *)

\* Mutant: a second server may be started.
CheckNothing ==
    /\ pc = "check" /\ Free
    /\ Goto("ensure to start")
    /\ UNCHANGED <<mu, state, servers, core, on, mine, handler>>

(* Refused when there is a server that runs; one that a client has shut    *)
(* down is still in g_state and is replaced.                               *)
CheckRunning ==
    /\ pc = "check" /\ Free
    /\ Goto(IF published[on] \in running THEN "idle" ELSE "ensure to start")
    /\ UNCHANGED <<mu, state, servers, core, on, mine, handler>>

(* server->start, without mu: it opens a port or it does not.              *)
StartServer ==
    /\ pc = "start"
    /\ \/ /\ mine' \in Servers \ {published[t] : t \in Transports}
          /\ running' = running \cup {mine'} /\ Goto("publish")
       \/ Goto("idle") /\ UNCHANGED <<running, mine>>
    /\ UNCHANGED <<mu, state, published, core, on, handler>>

(* The assignment to g_state.http or g_state.mcp, under mu.  A server that *)
(* was there is destroyed by it, and mu is kept meanwhile.                 *)
Publish ==
    /\ pc = "publish" /\ Free
    /\ published' = [published EXCEPT ![on] = mine]
    /\ mine' = published[on] /\ running' = running \ {published[on]}
    /\ IF published[on] = NoServer THEN Goto("idle") /\ UNCHANGED mu
       ELSE Goto("destroying") /\ mu' = Command
    /\ UNCHANGED <<state, core, on, handler>>

(* The destructor has joined the handlers of the old server.               *)
DestroyOld ==
    /\ pc = "destroying" /\ Quiet(mine)
    /\ mu' = Nobody /\ mine' = NoServer /\ Goto("idle")
    /\ UNCHANGED <<state, servers, core, on, handler>>

-----------------------------------------------------------------------------
(* sql.http- and sql.mcp-, and plugin_fini, which does the same for both   *)

Stopped == CASE pc \in {"take", "joining"} -> "idle"
             [] on = "http" -> "fini"
             [] OTHER -> "reset"

\* Mutant: g_state keeps the server.
TakeServerKept ==
    /\ pc \in {"take", "fini"} /\ Free
    /\ mine' = published[on]
    /\ Goto(IF mine' = NoServer THEN Stopped ELSE IF pc = "take" THEN "stop" ELSE "fini stop")
    /\ on' = IF pc = "fini" /\ mine' = NoServer THEN "mcp" ELSE on
    /\ UNCHANGED <<mu, state, servers, core, handler>>

(* The server is moved out of g_state under mu.                            *)
TakeServer ==
    /\ pc \in {"take", "fini"} /\ Free
    /\ mine' = published[on] /\ published' = [published EXCEPT ![on] = NoServer]
    /\ Goto(IF mine' = NoServer THEN Stopped ELSE IF pc = "take" THEN "stop" ELSE "fini stop")
    /\ on' = IF pc = "fini" /\ mine' = NoServer THEN "mcp" ELSE on
    /\ UNCHANGED <<mu, state, running, core, handler>>

(* server->stop, without mu: it takes no more requests.                    *)
StopServer ==
    /\ pc \in {"stop", "fini stop"}
    /\ running' = running \ {mine}
    /\ Goto(IF pc = "stop" THEN "joining" ELSE "fini joining")
    /\ UNCHANGED <<mu, state, published, core, on, mine, handler>>

\* The next server of plugin_fini.
NextOn == on' = IF pc = "fini joining" THEN "mcp" ELSE on

\* Mutant: the handlers are not waited for.
JoinNobody ==
    /\ pc \in {"joining", "fini joining"}
    /\ Goto(Stopped) /\ NextOn /\ mine' = NoServer
    /\ UNCHANGED <<mu, state, servers, core, handler>>

\* Mutant: mu is held while the handlers are waited for.
JoinLocked ==
    /\ pc \in {"joining", "fini joining"} /\ mu \in {Nobody, Command}
    /\ IF Quiet(mine) THEN mu' = Nobody /\ Goto(Stopped) /\ NextOn /\ mine' = NoServer
       ELSE mu' = Command /\ UNCHANGED <<pc, on, mine>>
    /\ UNCHANGED <<state, servers, core, handler>>

(* The handlers in progress have returned, and the server is destroyed.    *)
JoinHandlers ==
    /\ pc \in {"joining", "fini joining"} /\ Quiet(mine)
    /\ Goto(Stopped) /\ NextOn /\ mine' = NoServer
    /\ UNCHANGED <<mu, state, servers, core, handler>>

(* The end of plugin_fini.                                                 *)
ResetSession ==
    /\ pc = "reset" /\ Free
    /\ session' = NoCore /\ bound' = NoCore /\ Goto("unloaded")
    /\ UNCHANGED <<mu, servers, core, on, mine, handler>>

-----------------------------------------------------------------------------
(* The servers' threads: plugin_raw_or_sql and the callback of sql.mcp     *)

Request(h) ==
    /\ hpc[h] = "idle"
    /\ \E s \in running : via' = [via EXCEPT ![h] = s]
    /\ hpc' = [hpc EXCEPT ![h] = "want"]
    /\ UNCHANGED <<mu, state, servers, command>>

(* POST /shutdown: the server is not taken out of g_state, nor its         *)
(* handlers waited for.                                                    *)
HttpShutdown ==
    /\ \E s \in running \cap Http : running' = running \ {s}
    /\ UNCHANGED <<mu, state, published, command, handler>>

\* Mutant: without the lock.
HandleUnlocked(h) ==
    /\ hpc[h] = "want"
    /\ mu' = h /\ hpc' = [hpc EXCEPT ![h] = "using"]
    /\ UNCHANGED <<state, servers, command, via>>

(* Without a session the answer is "session not initialized".              *)
Handle(h) ==
    /\ hpc[h] = "want" /\ Free
    /\ IF session = NoCore THEN hpc' = [hpc EXCEPT ![h] = "idle"] /\ UNCHANGED mu
       ELSE mu' = h /\ hpc' = [hpc EXCEPT ![h] = "using"]
    /\ UNCHANGED <<state, servers, command, via>>

Answer(h) ==
    /\ hpc[h] = "using"
    /\ mu' = Nobody /\ hpc' = [hpc EXCEPT ![h] = "idle"]
    /\ UNCHANGED <<state, servers, command, via>>

(* The raw command is an sql command: r2 calls the plugin on this thread,  *)
(* which waits in ensure_session for the mutex it holds.                   *)
Nest(h) ==
    /\ hpc[h] = "using" /\ via[h] \in Http
    /\ hpc' = [hpc EXCEPT ![h] = "nested"]
    /\ UNCHANGED <<mu, state, servers, command, via>>

-----------------------------------------------------------------------------
LockStep == EnsureSession \/ QueryLock \/ CheckRunning \/ Publish \/ TakeServer \/ ResetSession
FreeStep == QueryEnd \/ NativeEnd \/ StartServer \/ DestroyOld \/ StopServer \/ JoinHandlers

Next == Dispatch \/ LockStep \/ FreeStep \/ HttpShutdown
          \/ \E h \in Handlers : Request(h) \/ Handle(h) \/ Answer(h) \/ Nest(h)

Spec == Init /\ [][Next]_vars

(* Threads are scheduled, a thread that waits for mu gets it in the end,   *)
(* and a query comes to an end.  Nothing makes a command or a request come.*)
FairSpec == Spec /\ SF_vars(LockStep) /\ WF_vars(FreeStep)
              /\ \A h \in Handlers : SF_vars(Handle(h)) /\ WF_vars(Answer(h))

-----------------------------------------------------------------------------
(* Properties                                                              *)

(* The types, and that g_state.mu is held by exactly the thread that uses  *)
(* the session or destroys a server in an assignment to g_state.           *)
TypeOK ==
    /\ session \in Cores \cup {NoCore} /\ bound = session /\ core \in Cores
    /\ published \in [Transports -> Servers \cup {NoServer}] /\ running \subseteq Servers
    /\ pc \in {"idle", "native", "ensure to query", "query", "querying", "check",
               "ensure to start", "start", "publish", "destroying", "take", "stop", "joining",
               "fini", "fini stop", "fini joining", "reset", "unloaded"}
    /\ on \in Transports /\ mine \in Servers \cup {NoServer}
    /\ via \in [Handlers -> Servers \cup {NoServer}]
    /\ hpc \in [Handlers -> {"idle", "want", "using", "nested"}]
    /\ mu \in Handlers \cup {Command, Nobody}
    /\ mu = Command <=> pc \in {"querying", "destroying"}
    /\ \A h \in Handlers : mu = h <=> hpc[h] \in {"using", "nested"}

(* `sql` runs on the core it was typed in, though ensure_session gives the *)
(* mutex back before the query takes it again.                             *)
QueryOnOwnCore == pc = "querying" => session = core

(* Between commands a server that runs, or still has a request, is in      *)
(* g_state, so that sql.http- or sql.mcp- can stop it; an MCP server that  *)
(* is there runs.  A request is never left with a server that has been     *)
(* destroyed, and a server that runs is never replaced: only an HTTP       *)
(* server that a client has shut down is.                                  *)
ServersAccounted ==
    /\ pc = "idle" =>
          /\ \A s \in Servers : s \in running \/ ~Quiet(s) => \E t \in Transports : s = published[t]
          /\ published["mcp"] # NoServer => published["mcp"] \in running
    /\ \A s \in Servers : ~Quiet(s) => s = mine \/ \E t \in Transports : s = published[t]
    /\ pc = "publish" /\ published[on] # NoServer => on = "http" /\ published[on] \notin running

(* When the plugin is unloaded nothing of it is left at work.              *)
UnloadedIsQuiet ==
    pc = "unloaded" =>
        /\ session = NoCore
        /\ running = {} /\ \A h \in Handlers : hpc[h] = "idle"

(* A session is not replaced or destroyed while a thread queries it.       *)
SessionStable ==
    [][session' # session => pc # "querying" /\ \A h \in Handlers : hpc[h] \notin {"using", "nested"}]_vars

(* The two ways in which a thread waits for ever: a nested command waits   *)
(* for the mutex of its own thread, or the assignment of line 228 destroys *)
(* an HTTP server that was shut down, under the mutex that a request of    *)
(* this server waits for.                                                  *)
Hung == \E h \in Handlers : hpc[h] = "nested"
Deadlocked == pc = "destroying" /\ on = "http" /\ ~Quiet(mine)

(* Every request is answered, servers that are being stopped included,     *)
(* with these two exceptions.                                              *)
EveryRequestEnds == \A h \in Handlers : hpc[h] = "want" ~> (hpc[h] = "idle" \/ Hung \/ Deadlocked)

(* Every command returns, with the same exceptions: stopping a server      *)
(* never waits for a handler that waits for the command thread.            *)
CommandReturns == pc \notin {"idle", "unloaded"} ~> (pc \in {"idle", "unloaded"} \/ Hung \/ Deadlocked)

(* The comment at plugin_raw_or_sql: .r2cmd forwards a raw r2 command; no  *)
(* thread waits for a mutex it holds.                                      *)
NoSelfWait == ~Hung
=============================================================================
