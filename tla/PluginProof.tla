----------------------------- MODULE PluginProof -----------------------------
(***************************************************************************)
(* Proofs about Plugin for every set of handlers, of cores and of servers. *)
(***************************************************************************)
EXTENDS Plugin, TLAPS

-----------------------------------------------------------------------------
(* The inductive invariant, in named parts                                 *)

(* A command holds a server from start to the end of the assignment to     *)
(* g_state, and from the moment it is moved out until it is destroyed.  A  *)
(* server is in one place only.                                            *)
ObjectsInv ==
    /\ mine # NoServer <=> pc \in {"publish", "destroying", "stop", "fini stop", "joining", "fini joining"}
    /\ \A t \in Transports : published[t] # NoServer => published[t] # mine
    /\ published["http"] # NoServer => published["http"] # published["mcp"]

(* A server that runs is in g_state or held by a command.                  *)
RunningInv ==
    \A s \in running :
        \/ \E t \in Transports : s = published[t]
        \/ s = mine /\ pc \in {"publish", "stop", "fini stop"}

(* Nobody but the command thread ends an MCP server.                       *)
McpInv ==
    /\ published["mcp"] # NoServer => published["mcp"] \in running
    /\ pc = "publish" /\ on = "mcp" => mine \in running

(* What is found when a server is started stays so until it is published:  *)
(* the command thread alone writes g_state.http and g_state.mcp, and a     *)
(* server that was shut down does not run again.                           *)
ReplacedInv ==
    pc \in {"ensure to start", "start", "publish"} =>
        published[on] \notin running /\ (on = "mcp" => published[on] = NoServer)

(* A request is at a server that has not been destroyed.                   *)
QuietInv ==
    \A h \in Handlers : hpc[h] # "idle" =>
        via[h] \in Servers /\ (via[h] = mine \/ \E t \in Transports : via[h] = published[t])

(* plugin_fini takes the http server first, then the mcp server.           *)
FiniInv ==
    /\ pc \in {"fini", "fini stop", "fini joining"} /\ on = "mcp" => published["http"] = NoServer
    /\ pc \in {"fini stop", "fini joining"} => published[on] = NoServer
    /\ pc \in {"reset", "unloaded"} => \A t \in Transports : published[t] = NoServer
    /\ pc = "unloaded" => session = NoCore

OwnCoreInv == pc \in {"query", "querying"} => session = core

(* Why nothing of the plugin is at work when it is unloaded, why a query   *)
(* finds its own session, and why no server that runs is replaced.         *)
PluginInvariant ==
    TypeOK /\ ObjectsInv /\ RunningInv /\ McpInv /\ ReplacedInv /\ QuietInv /\ FiniInv /\ OwnCoreInv

-----------------------------------------------------------------------------
(* The proofs                                                              *)

(* The invariant holds at the start.                                       *)
LEMMA InitInvariant == Init => PluginInvariant
BY CoreAssumption, HandlerAssumption, ServerAssumption
   DEF Init, PluginInvariant, TypeOK, ObjectsInv, RunningInv, McpInv, ReplacedInv, QuietInv, FiniInv,
       OwnCoreInv, Transports, Command, Nobody

(* A handler that gets g_state.mu is the only thread on the session.       *)
LEMMA HandleFacts ==
    ASSUME PluginInvariant, NEW h \in Handlers, Handle(h)
    PROVE  /\ hpc' \in [Handlers -> {"idle", "want", "using", "nested"}]
           /\ mu' \in Handlers \cup {Command, Nobody}
           /\ mu' # Command /\ pc \notin {"querying", "destroying"}
           /\ \A g \in Handlers : mu' = g <=> hpc'[g] \in {"using", "nested"}
<1>1. /\ mu = Nobody /\ pc \notin {"querying", "destroying"}
      /\ hpc \in [Handlers -> {"idle", "want", "using", "nested"}]
      /\ \A g \in Handlers : hpc[g] \notin {"using", "nested"}
  BY HandlerAssumption DEF PluginInvariant, TypeOK, Handle, Free, Command, Nobody
<1>2. CASE session = NoCore
  <2>1. mu' = Nobody /\ hpc' = [hpc EXCEPT ![h] = "idle"]
    BY <1>1, <1>2 DEF Handle
  <2> QED BY <1>1, <2>1, HandlerAssumption DEF Command, Nobody
<1>3. CASE session # NoCore
  <2>1. mu' = h /\ hpc' = [hpc EXCEPT ![h] = "using"]
    BY <1>3 DEF Handle
  <2> QED BY <1>1, <2>1, HandlerAssumption DEF Command, Nobody
<1> QED BY <1>2, <1>3

(* A handler's step leaves the servers and the command thread alone, and   *)
(* a request comes through a server that runs.                             *)
LEMMA HandlerFacts ==
    ASSUME TypeOK, NEW h \in Handlers, Request(h) \/ Handle(h) \/ Answer(h) \/ Nest(h)
    PROVE  /\ UNCHANGED <<state, servers, command>>
           /\ \A g \in Handlers : hpc'[g] # "idle" => via'[g] \in running \/ (hpc[g] # "idle" /\ via'[g] = via[g])
<1>1. CASE Request(h)
  <2>1. PICK s \in running : via' = [via EXCEPT ![h] = s] /\ hpc' = [hpc EXCEPT ![h] = "want"]
    BY <1>1 DEF Request
  <2> QED BY <1>1, <2>1 DEF Request, TypeOK
<1>2. CASE Handle(h) \/ Answer(h) \/ Nest(h)
  <2>1. hpc[h] # "idle" /\ UNCHANGED <<via, state, servers, command>>
    BY <1>2 DEF Handle, Answer, Nest
  <2>2. \A g \in Handlers : g # h => hpc'[g] = hpc[g]
    BY <1>2 DEF Handle, Answer, Nest, TypeOK
  <2> QED BY <2>1, <2>2
<1> QED BY <1>1, <1>2

(* An assignment to g_state and a move out of it exchange a server with    *)
(* the command: every server stays in a place, and none starts to run.     *)
LEMMA MoveFacts ==
    ASSUME TypeOK, ObjectsInv, Publish \/ TakeServer
    PROVE  /\ published' \in [Transports -> Servers \cup {NoServer}] /\ mine' \in Servers \cup {NoServer}
           /\ running' \subseteq running /\ UNCHANGED <<state, core, handler>>
           /\ mine # NoServer => \E t \in Transports : mine = published'[t]
           /\ \A t \in Transports : published[t] = mine' \/ published[t] = published'[t]
<1>1. /\ published \in [Transports -> Servers \cup {NoServer}] /\ mine \in Servers \cup {NoServer}
      /\ on \in Transports /\ running \subseteq Servers
      /\ mine # NoServer => pc \notin {"take", "fini"}
  BY DEF TypeOK, ObjectsInv
<1>2. CASE Publish
  <2>1. /\ published' = [published EXCEPT ![on] = mine] /\ mine' = published[on]
        /\ running' = running \ {published[on]} /\ UNCHANGED <<state, core, handler>>
    BY <1>2 DEF Publish
  <2>2. published'[on] = mine /\ \A t \in Transports : t # on => published'[t] = published[t]
    BY <1>1, <2>1
  <2> QED BY <1>1, <2>1, <2>2
<1>3. CASE TakeServer
  <2>1. /\ published' = [published EXCEPT ![on] = NoServer] /\ mine' = published[on]
        /\ pc \in {"take", "fini"} /\ UNCHANGED <<running, state, core, handler>>
    BY <1>3 DEF TakeServer
  <2>2. \A t \in Transports : t # on => published'[t] = published[t]
    BY <1>1, <2>1
  <2> QED BY <1>1, <2>1, <2>2
<1> QED BY <1>2, <1>3

(* Every step keeps the types and the owner of g_state.mu.                 *)
LEMMA TypeStep == PluginInvariant /\ [Next]_vars => TypeOK'
<1> SUFFICES ASSUME PluginInvariant, [Next]_vars PROVE TypeOK'
  OBVIOUS
<1> USE CoreAssumption, HandlerAssumption, ServerAssumption
        DEF PluginInvariant, TypeOK, Transports, Command, Nobody, state, servers, command, handler,
            Goto, Free, ObjectsInv
<1>1. CASE Dispatch
  BY <1>1 DEF Dispatch
<1>2. CASE EnsureSession
  BY <1>2 DEF EnsureSession, Ensured
<1>3. CASE QueryLock
  BY <1>3 DEF QueryLock
<1>4. CASE QueryEnd
  BY <1>4 DEF QueryEnd
<1>5. CASE NativeEnd
  BY <1>5 DEF NativeEnd
<1>6. CASE CheckRunning
  BY <1>6 DEF CheckRunning
<1>7. CASE StartServer
  <2>1. mine' \in Servers \cup {NoServer} /\ running' \subseteq Servers
    BY <1>7 DEF StartServer
  <2>2. pc = "start" /\ pc' \in {"publish", "idle"} /\ UNCHANGED <<mu, session, bound, published, core, on, hpc, via>>
    BY <1>7 DEF StartServer
  <2> QED BY <2>1, <2>2
<1>8. CASE Publish
  <2>1. /\ published' \in [Transports -> Servers \cup {NoServer}] /\ mine' \in Servers \cup {NoServer}
        /\ running' \subseteq Servers /\ UNCHANGED <<session, bound, core, hpc, via>>
    BY <1>8, MoveFacts
  <2>2. /\ pc = "publish" /\ mu = Nobody /\ on' = on
        /\ (pc' = "idle" /\ mu' = mu) \/ (pc' = "destroying" /\ mu' = Command)
    BY <1>8 DEF Publish
  <2>3. \A h \in Handlers : mu # h /\ mu' # h /\ hpc[h] \notin {"using", "nested"}
    BY <2>2
  <2>4. mu' = Command <=> pc' \in {"querying", "destroying"}
    BY <2>2
  <2>5. session' \in Cores \cup {NoCore} /\ bound' = session' /\ core' \in Cores
    BY <2>1
  <2>6. on' \in Transports /\ via' \in [Handlers -> Servers \cup {NoServer}]
        /\ hpc' \in [Handlers -> {"idle", "want", "using", "nested"}]
    BY <2>1, <2>2
  <2>7. \A h \in Handlers : mu' = h <=> hpc'[h] \in {"using", "nested"}
    BY <2>1, <2>3
  <2> QED BY <2>1, <2>2, <2>4, <2>5, <2>6, <2>7
<1>9. CASE DestroyOld
  BY <1>9 DEF DestroyOld
<1>10. CASE TakeServer
  BY <1>10 DEF TakeServer, Stopped
<1>11. CASE StopServer
  BY <1>11 DEF StopServer
<1>12. CASE JoinHandlers
  BY <1>12 DEF JoinHandlers, Stopped, NextOn
<1>13. CASE ResetSession
  BY <1>13 DEF ResetSession
<1>14. CASE HttpShutdown
  BY <1>14 DEF HttpShutdown
<1>15. ASSUME NEW h \in Handlers, Request(h) \/ Handle(h) \/ Answer(h) \/ Nest(h) PROVE TypeOK'
  <2>1. CASE Request(h)
    BY <2>1 DEF Request
  <2>2. CASE Handle(h)
    BY <2>2, HandleFacts DEF Handle
  <2>3. CASE Answer(h)
    BY <2>3 DEF Answer
  <2>4. CASE Nest(h)
    BY <2>4 DEF Nest
  <2> QED BY <1>15, <2>1, <2>2, <2>3, <2>4
<1>16. CASE UNCHANGED vars
  BY <1>16 DEF vars
<1> QED
  BY <1>1, <1>2, <1>3, <1>4, <1>5, <1>6, <1>7, <1>8, <1>9, <1>10, <1>11, <1>12, <1>13, <1>14, <1>15, <1>16
     DEF Next, LockStep, FreeStep

(* A server is in one place only.                                          *)
LEMMA ObjectsStep == PluginInvariant /\ TypeOK' /\ [Next]_vars => ObjectsInv'
<1> SUFFICES ASSUME PluginInvariant, TypeOK', [Next]_vars PROVE ObjectsInv'
  OBVIOUS
<1> USE ServerAssumption
        DEF PluginInvariant, TypeOK, Transports, state, servers, command, handler, Goto, ObjectsInv
<1>1. CASE Dispatch
  BY <1>1 DEF Dispatch
<1>2. CASE EnsureSession
  BY <1>2 DEF EnsureSession, Ensured
<1>3. CASE QueryLock
  BY <1>3 DEF QueryLock
<1>4. CASE QueryEnd
  BY <1>4 DEF QueryEnd
<1>5. CASE NativeEnd
  BY <1>5 DEF NativeEnd
<1>6. CASE CheckRunning
  BY <1>6 DEF CheckRunning
<1>7. CASE StartServer
  BY <1>7 DEF StartServer
<1>8. CASE Publish
  BY <1>8 DEF Publish
<1>9. CASE DestroyOld
  BY <1>9 DEF DestroyOld
<1>10. CASE TakeServer
  BY <1>10 DEF TakeServer, Stopped
<1>11. CASE StopServer
  BY <1>11 DEF StopServer
<1>12. CASE JoinHandlers
  BY <1>12 DEF JoinHandlers, Stopped, NextOn
<1>13. CASE ResetSession
  BY <1>13 DEF ResetSession
<1>14. CASE HttpShutdown
  BY <1>14 DEF HttpShutdown
<1>15. ASSUME NEW h \in Handlers, Request(h) \/ Handle(h) \/ Answer(h) \/ Nest(h) PROVE ObjectsInv'
  BY <1>15, HandlerFacts
<1>16. CASE UNCHANGED vars
  BY <1>16 DEF vars
<1> QED
  BY <1>1, <1>2, <1>3, <1>4, <1>5, <1>6, <1>7, <1>8, <1>9, <1>10, <1>11, <1>12, <1>13, <1>14, <1>15, <1>16
     DEF Next, LockStep, FreeStep

(* A server that runs is in g_state or held by a command.                  *)
LEMMA RunningStep == PluginInvariant /\ TypeOK' /\ [Next]_vars => RunningInv'
<1> SUFFICES ASSUME PluginInvariant, TypeOK', [Next]_vars PROVE RunningInv'
  OBVIOUS
<1> USE ServerAssumption
        DEF PluginInvariant, TypeOK, Transports, state, servers, command, handler, Goto, ObjectsInv, RunningInv
<1>1. CASE Dispatch
  BY <1>1 DEF Dispatch
<1>2. CASE EnsureSession
  BY <1>2 DEF EnsureSession, Ensured
<1>3. CASE QueryLock
  BY <1>3 DEF QueryLock
<1>4. CASE QueryEnd
  BY <1>4 DEF QueryEnd
<1>5. CASE NativeEnd
  BY <1>5 DEF NativeEnd
<1>6. CASE CheckRunning
  BY <1>6 DEF CheckRunning
<1>7. CASE StartServer
  <2>1. CASE running' = running /\ mine' = mine /\ pc' = "idle"
    BY <1>7, <2>1 DEF StartServer
  <2>2. CASE pc' = "publish" /\ mine' \in Servers \ {published[t] : t \in Transports} /\ running' = running \cup {mine'}
    BY <1>7, <2>2 DEF StartServer
  <2> QED BY <1>7, <2>1, <2>2 DEF StartServer
<1>8. CASE Publish
  BY <1>8 DEF Publish
<1>9. CASE DestroyOld
  BY <1>9 DEF DestroyOld
<1>10. CASE TakeServer
  BY <1>10 DEF TakeServer, Stopped
<1>11. CASE StopServer
  BY <1>11 DEF StopServer
<1>12. CASE JoinHandlers
  BY <1>12 DEF JoinHandlers, Stopped, NextOn
<1>13. CASE ResetSession
  BY <1>13 DEF ResetSession
<1>14. CASE HttpShutdown
  BY <1>14 DEF HttpShutdown
<1>15. ASSUME NEW h \in Handlers, Request(h) \/ Handle(h) \/ Answer(h) \/ Nest(h) PROVE RunningInv'
  BY <1>15, HandlerFacts
<1>16. CASE UNCHANGED vars
  BY <1>16 DEF vars
<1> QED
  BY <1>1, <1>2, <1>3, <1>4, <1>5, <1>6, <1>7, <1>8, <1>9, <1>10, <1>11, <1>12, <1>13, <1>14, <1>15, <1>16
     DEF Next, LockStep, FreeStep

(* Nobody but the command thread ends an MCP server.                       *)
LEMMA McpStep == PluginInvariant /\ TypeOK' /\ [Next]_vars => McpInv'
<1> SUFFICES ASSUME PluginInvariant, TypeOK', [Next]_vars PROVE McpInv'
  OBVIOUS
<1> USE ServerAssumption
        DEF PluginInvariant, TypeOK, Transports, state, servers, command, handler, Goto, ObjectsInv, RunningInv, McpInv, ReplacedInv
<1>1. CASE Dispatch
  BY <1>1 DEF Dispatch
<1>2. CASE EnsureSession
  BY <1>2 DEF EnsureSession, Ensured
<1>3. CASE QueryLock
  BY <1>3 DEF QueryLock
<1>4. CASE QueryEnd
  BY <1>4 DEF QueryEnd
<1>5. CASE NativeEnd
  BY <1>5 DEF NativeEnd
<1>6. CASE CheckRunning
  BY <1>6 DEF CheckRunning
<1>7. CASE StartServer
  BY <1>7 DEF StartServer
<1>8. CASE Publish
  BY <1>8 DEF Publish
<1>9. CASE DestroyOld
  BY <1>9 DEF DestroyOld
<1>10. CASE TakeServer
  BY <1>10 DEF TakeServer, Stopped
<1>11. CASE StopServer
  BY <1>11 DEF StopServer
<1>12. CASE JoinHandlers
  BY <1>12 DEF JoinHandlers, Stopped, NextOn
<1>13. CASE ResetSession
  BY <1>13 DEF ResetSession
<1>14. CASE HttpShutdown
  BY <1>14 DEF HttpShutdown, Http
<1>15. ASSUME NEW h \in Handlers, Request(h) \/ Handle(h) \/ Answer(h) \/ Nest(h) PROVE McpInv'
  <2>1. UNCHANGED <<published, running, pc, on, mine>>
    BY <1>15 DEF Request, Handle, Answer, Nest
  <2> QED BY <2>1
<1>16. CASE UNCHANGED vars
  BY <1>16 DEF vars
<1> QED
  BY <1>1, <1>2, <1>3, <1>4, <1>5, <1>6, <1>7, <1>8, <1>9, <1>10, <1>11, <1>12, <1>13, <1>14, <1>15, <1>16
     DEF Next, LockStep, FreeStep

(* A server that is being replaced does not run.                           *)
LEMMA ReplacedStep == PluginInvariant /\ TypeOK' /\ [Next]_vars => ReplacedInv'
<1> SUFFICES ASSUME PluginInvariant, TypeOK', [Next]_vars PROVE ReplacedInv'
  OBVIOUS
<1> USE ServerAssumption
        DEF PluginInvariant, TypeOK, Transports, state, servers, command, handler, Goto, ObjectsInv, RunningInv, McpInv, ReplacedInv
<1>1. CASE Dispatch
  BY <1>1 DEF Dispatch
<1>2. CASE EnsureSession
  BY <1>2 DEF EnsureSession, Ensured
<1>3. CASE QueryLock
  BY <1>3 DEF QueryLock
<1>4. CASE QueryEnd
  BY <1>4 DEF QueryEnd
<1>5. CASE NativeEnd
  BY <1>5 DEF NativeEnd
<1>6. CASE CheckRunning
  BY <1>6 DEF CheckRunning
<1>7. CASE StartServer
  <2>1. CASE running' = running /\ mine' = mine /\ pc' = "idle"
    BY <1>7, <2>1 DEF StartServer
  <2>2. CASE pc' = "publish" /\ mine' \in Servers \ {published[t] : t \in Transports} /\ running' = running \cup {mine'}
    BY <1>7, <2>2 DEF StartServer
  <2> QED BY <1>7, <2>1, <2>2 DEF StartServer
<1>8. CASE Publish
  BY <1>8 DEF Publish
<1>9. CASE DestroyOld
  BY <1>9 DEF DestroyOld
<1>10. CASE TakeServer
  BY <1>10 DEF TakeServer, Stopped
<1>11. CASE StopServer
  BY <1>11 DEF StopServer
<1>12. CASE JoinHandlers
  BY <1>12 DEF JoinHandlers, Stopped, NextOn
<1>13. CASE ResetSession
  BY <1>13 DEF ResetSession
<1>14. CASE HttpShutdown
  BY <1>14 DEF HttpShutdown
<1>15. ASSUME NEW h \in Handlers, Request(h) \/ Handle(h) \/ Answer(h) \/ Nest(h) PROVE ReplacedInv'
  <2>1. UNCHANGED <<published, running, pc, on, mine>>
    BY <1>15 DEF Request, Handle, Answer, Nest
  <2> QED BY <2>1
<1>16. CASE UNCHANGED vars
  BY <1>16 DEF vars
<1> QED
  BY <1>1, <1>2, <1>3, <1>4, <1>5, <1>6, <1>7, <1>8, <1>9, <1>10, <1>11, <1>12, <1>13, <1>14, <1>15, <1>16
     DEF Next, LockStep, FreeStep

(* A request is never left with a destroyed server.                        *)
LEMMA QuietStep == PluginInvariant /\ TypeOK' /\ [Next]_vars => QuietInv'
<1> SUFFICES ASSUME PluginInvariant, TypeOK', [Next]_vars PROVE QuietInv'
  OBVIOUS
<1> USE ServerAssumption
        DEF PluginInvariant, TypeOK, Transports, state, servers, command, handler, Goto, ObjectsInv, RunningInv, QuietInv, Quiet
<1>1. CASE Dispatch
  BY <1>1 DEF Dispatch
<1>2. CASE EnsureSession
  BY <1>2 DEF EnsureSession, Ensured
<1>3. CASE QueryLock
  BY <1>3 DEF QueryLock
<1>4. CASE QueryEnd
  BY <1>4 DEF QueryEnd
<1>5. CASE NativeEnd
  BY <1>5 DEF NativeEnd
<1>6. CASE CheckRunning
  BY <1>6 DEF CheckRunning
<1>7. CASE StartServer
  <2>1. CASE running' = running /\ mine' = mine /\ pc' = "idle"
    BY <1>7, <2>1 DEF StartServer
  <2>2. CASE pc' = "publish" /\ mine' \in Servers \ {published[t] : t \in Transports} /\ running' = running \cup {mine'}
    BY <1>7, <2>2 DEF StartServer
  <2> QED BY <1>7, <2>1, <2>2 DEF StartServer
<1>8. CASE Publish \/ TakeServer
  <2>1. /\ \A g \in Handlers : hpc'[g] = hpc[g] /\ via'[g] = via[g]
        /\ mine # NoServer => \E t \in Transports : mine = published'[t]
        /\ \A t \in Transports : published[t] = mine' \/ published[t] = published'[t]
    BY <1>8, MoveFacts
  <2>2. ASSUME NEW h \in Handlers, hpc'[h] # "idle"
        PROVE  via'[h] \in Servers /\ (via'[h] = mine' \/ \E t \in Transports : via'[h] = published'[t])
    <3>1. via'[h] = via[h] /\ via[h] \in Servers /\ (via[h] = mine \/ \E t \in Transports : via[h] = published[t])
      BY <2>1, <2>2
    <3>2. via[h] # NoServer
      BY <3>1
    <3> QED BY <2>1, <3>1, <3>2
  <2> QED BY <2>2
<1>9. CASE DestroyOld
  BY <1>9 DEF DestroyOld
<1>11. CASE StopServer
  BY <1>11 DEF StopServer
<1>12. CASE JoinHandlers
  BY <1>12 DEF JoinHandlers, Stopped, NextOn
<1>13. CASE ResetSession
  BY <1>13 DEF ResetSession
<1>14. CASE HttpShutdown
  BY <1>14 DEF HttpShutdown
<1>15. ASSUME NEW h \in Handlers, Request(h) \/ Handle(h) \/ Answer(h) \/ Nest(h) PROVE QuietInv'
  <2>1. /\ UNCHANGED <<published, running, mine>>
        /\ \A g \in Handlers : hpc'[g] # "idle" => via'[g] \in running \/ (hpc[g] # "idle" /\ via'[g] = via[g])
    BY <1>15, HandlerFacts
  <2>2. ASSUME NEW g \in Handlers, hpc'[g] # "idle"
        PROVE  via'[g] \in Servers /\ (via'[g] = mine \/ \E t \in Transports : via'[g] = published[t])
    <3>1. CASE via'[g] \in running
      BY <3>1
    <3>2. CASE hpc[g] # "idle" /\ via'[g] = via[g]
      BY <3>2
    <3> QED BY <2>1, <2>2, <3>1, <3>2
  <2> QED BY <2>1, <2>2
<1>16. CASE UNCHANGED vars
  BY <1>16 DEF vars
<1> QED
  BY <1>1, <1>2, <1>3, <1>4, <1>5, <1>6, <1>7, <1>8, <1>9, <1>11, <1>12, <1>13, <1>14, <1>15, <1>16
     DEF Next, LockStep, FreeStep

(* plugin_fini has taken one server after the other.                       *)
LEMMA FiniStep == PluginInvariant /\ TypeOK' /\ [Next]_vars => FiniInv'
<1> SUFFICES ASSUME PluginInvariant, TypeOK', [Next]_vars PROVE FiniInv'
  OBVIOUS
<1> USE ServerAssumption
        DEF PluginInvariant, TypeOK, Transports, state, servers, command, handler, Goto, ObjectsInv, FiniInv
<1>1. CASE Dispatch
  BY <1>1 DEF Dispatch
<1>2. CASE EnsureSession
  BY <1>2 DEF EnsureSession, Ensured
<1>3. CASE QueryLock
  BY <1>3 DEF QueryLock
<1>4. CASE QueryEnd
  BY <1>4 DEF QueryEnd
<1>5. CASE NativeEnd
  BY <1>5 DEF NativeEnd
<1>6. CASE CheckRunning
  BY <1>6 DEF CheckRunning
<1>7. CASE StartServer
  BY <1>7 DEF StartServer
<1>8. CASE Publish
  BY <1>8 DEF Publish
<1>9. CASE DestroyOld
  BY <1>9 DEF DestroyOld
<1>10. CASE TakeServer
  BY <1>10 DEF TakeServer, Stopped
<1>11. CASE StopServer
  BY <1>11 DEF StopServer
<1>12. CASE JoinHandlers
  BY <1>12 DEF JoinHandlers, Stopped, NextOn
<1>13. CASE ResetSession
  BY <1>13 DEF ResetSession
<1>14. CASE HttpShutdown
  BY <1>14 DEF HttpShutdown
<1>15. ASSUME NEW h \in Handlers, Request(h) \/ Handle(h) \/ Answer(h) \/ Nest(h) PROVE FiniInv'
  BY <1>15, HandlerFacts
<1>16. CASE UNCHANGED vars
  BY <1>16 DEF vars
<1> QED
  BY <1>1, <1>2, <1>3, <1>4, <1>5, <1>6, <1>7, <1>8, <1>9, <1>10, <1>11, <1>12, <1>13, <1>14, <1>15, <1>16
     DEF Next, LockStep, FreeStep

(* The session of a query is that of its core.                             *)
LEMMA OwnCoreStep == PluginInvariant /\ TypeOK' /\ [Next]_vars => OwnCoreInv'
<1> SUFFICES ASSUME PluginInvariant, TypeOK', [Next]_vars PROVE OwnCoreInv'
  OBVIOUS
<1> USE DEF PluginInvariant, TypeOK, state, servers, command, handler, Goto, OwnCoreInv
<1>1. CASE Dispatch
  BY <1>1 DEF Dispatch
<1>2. CASE EnsureSession
  BY <1>2 DEF EnsureSession, Ensured
<1>3. CASE QueryLock
  BY <1>3 DEF QueryLock
<1>4. CASE QueryEnd
  BY <1>4 DEF QueryEnd
<1>5. CASE NativeEnd
  BY <1>5 DEF NativeEnd
<1>6. CASE CheckRunning
  BY <1>6 DEF CheckRunning
<1>7. CASE StartServer
  BY <1>7 DEF StartServer
<1>8. CASE Publish
  BY <1>8 DEF Publish
<1>9. CASE DestroyOld
  BY <1>9 DEF DestroyOld
<1>10. CASE TakeServer
  BY <1>10 DEF TakeServer, Stopped
<1>11. CASE StopServer
  BY <1>11 DEF StopServer
<1>12. CASE JoinHandlers
  BY <1>12 DEF JoinHandlers, Stopped, NextOn
<1>13. CASE ResetSession
  BY <1>13 DEF ResetSession
<1>14. CASE HttpShutdown
  BY <1>14 DEF HttpShutdown
<1>15. ASSUME NEW h \in Handlers, Request(h) \/ Handle(h) \/ Answer(h) \/ Nest(h) PROVE OwnCoreInv'
  BY <1>15, HandlerFacts
<1>16. CASE UNCHANGED vars
  BY <1>16 DEF vars
<1> QED
  BY <1>1, <1>2, <1>3, <1>4, <1>5, <1>6, <1>7, <1>8, <1>9, <1>10, <1>11, <1>12, <1>13, <1>14, <1>15, <1>16
     DEF Next, LockStep, FreeStep

(* Every step keeps the invariant.                                         *)
LEMMA InvariantStep == PluginInvariant /\ [Next]_vars => PluginInvariant'
BY TypeStep, ObjectsStep, RunningStep, McpStep, ReplacedStep, QuietStep, FiniStep, OwnCoreStep DEF PluginInvariant

(* In every execution PluginInvariant holds: each server that runs or has  *)
(* requests is in g_state or held by a command, and one that is replaced   *)
(* does not run.                                                           *)
THEOREM Invariance == Spec => []PluginInvariant
BY InitInvariant, InvariantStep, PTL DEF Spec

(* The types hold, the session's core is bound_core, and g_state.mu is     *)
(* held by the thread that uses the session, or by the command thread      *)
(* while it destroys a server that it has replaced, and by nobody else.    *)
THEOREM TypeCorrect == Spec => []TypeOK
<1>1. PluginInvariant => TypeOK
  BY DEF PluginInvariant
<1> QED BY <1>1, Invariance, PTL

(* `sql` runs its query on the core it was typed in.                       *)
THEOREM QueryUsesOwnCore == Spec => []QueryOnOwnCore
<1>1. PluginInvariant => QueryOnOwnCore
  BY DEF PluginInvariant, OwnCoreInv, QueryOnOwnCore
<1> QED BY <1>1, Invariance, PTL

(* Between commands a server that runs or has requests is in g_state, no   *)
(* request is left with a destroyed server, and no server that runs is     *)
(* replaced, although clients may shut the HTTP server down.               *)
THEOREM ServersAreAccounted == Spec => []ServersAccounted
<1>1. PluginInvariant => ServersAccounted
  <2> SUFFICES ASSUME PluginInvariant PROVE ServersAccounted
    OBVIOUS
  <2> USE ServerAssumption DEF PluginInvariant, TypeOK, Quiet
  <2>1. ASSUME NEW s \in Servers, ~Quiet(s)
        PROVE  s = mine \/ \E t \in Transports : s = published[t]
    BY <2>1 DEF QuietInv
  <2>2. ASSUME pc = "idle"
        PROVE  mine = NoServer /\ \A s \in running : \E t \in Transports : s = published[t]
    BY <2>2 DEF ObjectsInv, RunningInv
  <2>3. pc = "publish" /\ published[on] # NoServer => on = "http" /\ published[on] \notin running
    BY DEF ReplacedInv, Transports
  <2>4. published["mcp"] # NoServer => published["mcp"] \in running
    BY DEF McpInv
  <2> HIDE DEF PluginInvariant, TypeOK, Quiet
  <2> QED BY <2>1, <2>2, <2>3, <2>4 DEF ServersAccounted
<1> QED BY <1>1, Invariance, PTL

(* plugin_fini leaves no session, no server and no request behind.         *)
THEOREM UnloadIsQuiet == Spec => []UnloadedIsQuiet
<1>1. PluginInvariant => UnloadedIsQuiet
  <2> SUFFICES ASSUME PluginInvariant, pc = "unloaded"
               PROVE  session = NoCore /\ running = {} /\ \A h \in Handlers : hpc[h] = "idle"
    BY DEF UnloadedIsQuiet
  <2>1. session = NoCore /\ mine = NoServer /\ \A t \in Transports : published[t] = NoServer
    BY DEF PluginInvariant, FiniInv, ObjectsInv
  <2>2. running = {}
    BY <2>1, ServerAssumption DEF PluginInvariant, TypeOK, RunningInv
  <2> QED BY <2>1, <2>2, ServerAssumption DEF PluginInvariant, QuietInv
<1> QED BY <1>1, Invariance, PTL

(* The session is replaced or destroyed only while no thread queries it.   *)
THEOREM SessionsAreStable == Spec => SessionStable
<1>1. PluginInvariant /\ [Next]_vars =>
        [session' # session => pc # "querying" /\ \A h \in Handlers : hpc[h] \notin {"using", "nested"}]_vars
  <2> SUFFICES ASSUME PluginInvariant, Next, session' # session
               PROVE  pc # "querying" /\ \A h \in Handlers : hpc[h] \notin {"using", "nested"}
    OBVIOUS
  <2>1. EnsureSession \/ ResetSession
    BY DEF Next, LockStep, FreeStep, Dispatch, QueryLock, QueryEnd, NativeEnd, CheckRunning, StartServer,
           Publish, DestroyOld, HttpShutdown, TakeServer, StopServer, JoinHandlers, Request, Handle, Answer, Nest, state
  <2>2. mu = Nobody
    BY <2>1 DEF EnsureSession, ResetSession, Free
  <2> QED BY <2>2, HandlerAssumption DEF PluginInvariant, TypeOK, Nobody, Command
<1> QED BY <1>1, Invariance, PTL DEF Spec, SessionStable
=============================================================================
