------------------------------ MODULE McpQueue -------------------------------
(***************************************************************************)
(* The command queue of r2sql::McpServer (src/common/mcp_server.cpp) in    *)
(* the mode that uses it: `r2sql --mcp` (run_mcp in src/cli/main.cpp).     *)
(* Handler threads of the SSE transport run queue_and_wait, the main       *)
(* thread runs start, run_until_stopped and stop.                          *)
(*                                                                         *)
(* A tool call is one run of queue_and_wait, so calls are the processes; a *)
(* worker thread keeps nothing from one call to the next.  A section under *)
(* queue_mutex_ or under a command's done_mutex is one action: the two are *)
(* never held together.  The atomic running_ is read in those sections     *)
(* without a lock of its own; a reader that found it true and goes to      *)
(* sleep is the same as one that slept before it changed, because storing  *)
(* it notifies no done_cv.  Memory is sequentially consistent.             *)
(***************************************************************************)
EXTENDS Integers, Sequences, SequencesExt

CONSTANTS Calls,      \* the tool calls
          MaxQueue,   \* kMcpDefaultMaxQueue (64)
          NoCall      \* the null command pointer

ASSUME MaxQueueAssumption == MaxQueue \in Nat
ASSUME NoCallAssumption   == NoCall \notin Calls

(* What the query callback does: a result set, a failed query (a JSON text *)
(* in run_mcp), or an exception, which the drainer turns into "Error: ...".*)
Outcomes == {"rows", "failed", "threw"}
NoOutcome == "none"

(* Texts of queue_and_wait and stop for a call that is not executed.       *)
Refusals == {"not_running", "full", "timed_out", "stopped"}

Payloads == Outcomes \cup Refusals \cup {NoOutcome}

VARIABLES
    running,      \* running_
    transport,    \* impl_->server: "none", "listening" or "stopping"
    interrupted,  \* g_shutdown_flag, what interrupt_check_ returns
    queue,        \* pending_commands_
    started, canceled, completed, result,   \* the fields of each command
    pc,           \* where each call is in queue_and_wait
    reply,        \* what queue_and_wait returned
    dpc,          \* where the main thread is
    dcmd,         \* cmd of run_until_stopped
    dresult,      \* result of run_until_stopped
    swapped,      \* pending of complete_pending_commands
    destroying,   \* the stop in progress is the destructor's
    arrivals, ticket,   \* history: pushes so far, the place of each call
    executed, outcome   \* history: order and outcome of query_cb_ runs

cmdVars    == <<started, canceled, completed, result>>
callVars   == <<pc, reply>>
drainVars  == <<dpc, dcmd, dresult, swapped, destroying>>
serverVars == <<running, transport, interrupted>>
orderVars  == <<arrivals, ticket>>
runVars    == <<executed, outcome>>
vars == <<serverVars, queue, cmdVars, callVars, drainVars, orderVars, runVars>>

Init ==
    /\ running = FALSE /\ transport = "none" /\ interrupted = FALSE
    /\ queue = <<>> /\ swapped = <<>>
    /\ started = [c \in Calls |-> FALSE]
    /\ canceled = [c \in Calls |-> FALSE]
    /\ completed = [c \in Calls |-> FALSE]
    /\ result = [c \in Calls |-> NoOutcome]
    /\ pc = [c \in Calls |-> "idle"]
    /\ reply = [c \in Calls |-> [success |-> FALSE, payload |-> NoOutcome]]
    /\ dpc = "start" /\ dcmd = NoCall /\ dresult = NoOutcome
    /\ destroying = FALSE
    /\ arrivals = 0 /\ ticket = [c \in Calls |-> 0]
    /\ executed = <<>> /\ outcome = [c \in Calls |-> NoOutcome]

-----------------------------------------------------------------------------
(* queue_and_wait, on a handler thread                                     *)

GoTo(c, l) == pc' = [pc EXCEPT ![c] = l]

Return(c, ok, payload) ==
    /\ GoTo(c, "done")
    /\ reply' = [reply EXCEPT ![c] = [success |-> ok, payload |-> payload]]

(* The convention of line 118: a text that begins with "Error: " is a      *)
(* failure.  A failed query of run_mcp is a JSON text, which does not.     *)
IsErrorText(payload) == payload \notin {"rows", "failed"}

(* The transport accepts the call and the handler tests running_.          *)
Enter(c) ==
    /\ transport = "listening" /\ pc[c] = "idle"
    /\ IF running THEN GoTo(c, "push") /\ UNCHANGED reply
                  ELSE Return(c, FALSE, "not_running")
    /\ UNCHANGED <<serverVars, queue, cmdVars, drainVars, orderVars, runVars>>

QueueIsFull == MaxQueue > 0 /\ Len(queue) >= MaxQueue

(* Under queue_mutex_.                                                     *)
Push(c) ==
    /\ pc[c] = "push"
    /\ IF QueueIsFull
       THEN Return(c, FALSE, "full") /\ UNCHANGED <<queue, orderVars>>
       ELSE /\ GoTo(c, "notify") /\ UNCHANGED reply
            /\ queue' = Append(queue, c)
            /\ arrivals' = arrivals + 1
            /\ ticket' = [ticket EXCEPT ![c] = arrivals + 1]
    /\ UNCHANGED <<serverVars, cmdVars, drainVars, runVars>>

(* queue_cv_.notify_one, after the lock is released; only the drainer      *)
(* waits on queue_cv_.                                                     *)
NotifyDrainer(c) ==
    /\ pc[c] = "notify"
    /\ GoTo(c, "check")
    /\ dpc' = IF dpc = "asleep" THEN "take" ELSE dpc
    /\ UNCHANGED <<serverVars, queue, cmdVars, reply, dcmd, dresult, swapped,
                   destroying, orderVars, runVars>>

(* Mutant: the waits do not look at running_.                              *)
CheckCompletedOnly(c) ==
    /\ pc[c] = "check"
    /\ GoTo(c, IF completed[c] THEN "leave"
               ELSE IF started[c] THEN "poll" ELSE "wait")
    /\ UNCHANGED <<serverVars, queue, cmdVars, reply, drainVars, orderVars, runVars>>

(* Under done_mutex: the loop condition, then one of the two waits, whose  *)
(* predicate is the negation of what let the call get there.               *)
Check(c) ==
    /\ pc[c] = "check"
    /\ GoTo(c, IF completed[c] \/ ~running THEN "leave"
               ELSE IF started[c] THEN "poll" ELSE "wait")
    /\ UNCHANGED <<serverVars, queue, cmdVars, reply, drainVars, orderVars, runVars>>

(* The 100 ms of wait_for end, or either wait wakes spuriously.            *)
WakeUp(c) ==
    /\ pc[c] \in {"wait", "poll"}
    /\ GoTo(c, "check")
    /\ UNCHANGED <<serverVars, queue, cmdVars, reply, drainVars, orderVars, runVars>>

(* Mutant: the deadline applies to an admitted command too.                *)
ExpireAnyway(c) ==
    /\ pc[c] = "wait"
    /\ IF completed[c] \/ ~running
       THEN GoTo(c, "check") /\ UNCHANGED canceled
       ELSE GoTo(c, "erase") /\ canceled' = [canceled EXCEPT ![c] = TRUE]
    /\ UNCHANGED <<serverVars, queue, started, completed, result, reply,
                   drainVars, orderVars, runVars>>

(* wait_until reaches the deadline and evaluates its predicate once more.  *)
Expire(c) ==
    /\ pc[c] = "wait"
    /\ IF completed[c] \/ started[c] \/ ~running
       THEN GoTo(c, "check") /\ UNCHANGED canceled
       ELSE GoTo(c, "erase") /\ canceled' = [canceled EXCEPT ![c] = TRUE]
    /\ UNCHANGED <<serverVars, queue, started, completed, result, reply,
                   drainVars, orderVars, runVars>>

(* Under queue_mutex_: the expired call removes its command, if the        *)
(* drainer or stop has not taken it.                                       *)
Erase(c) ==
    /\ pc[c] = "erase"
    /\ \/ \E i \in 1..Len(queue) : queue[i] = c /\ queue' = RemoveAt(queue, i)
       \/ c \notin ToSet(queue) /\ UNCHANGED queue
    /\ Return(c, FALSE, "timed_out")
    /\ UNCHANGED <<serverVars, cmdVars, drainVars, orderVars, runVars>>

(* Lines 111-120, after done_mutex is released.                            *)
Leave(c) ==
    /\ pc[c] = "leave"
    /\ IF completed[c] THEN Return(c, ~IsErrorText(result[c]), result[c])
       ELSE Return(c, FALSE, IF running THEN "timed_out" ELSE "stopped")
    /\ UNCHANGED <<serverVars, queue, cmdVars, drainVars, orderVars, runVars>>

-----------------------------------------------------------------------------
(* start, on the main thread                                               *)

(* Mutant: the transport is exposed before running_ is stored.             *)
StartExposed ==
    /\ dpc = "start"
    /\ dpc' = "listen" /\ transport' = "listening"
    /\ UNCHANGED <<running, interrupted, queue, cmdVars, callVars, dcmd,
                   dresult, swapped, destroying, orderVars, runVars>>

(* running_ is stored before the transport is started.                     *)
Start ==
    /\ dpc = "start"
    /\ dpc' = "listen" /\ running' = TRUE
    /\ UNCHANGED <<transport, interrupted, queue, cmdVars, callVars, dcmd,
                   dresult, swapped, destroying, orderVars, runVars>>

Listen ==
    /\ dpc = "listen"
    /\ \/ /\ dpc' = "top" /\ transport' = "listening"
          /\ UNCHANGED <<running, destroying>>
       \/ /\ dpc' = "stop" /\ running' = FALSE /\ destroying' = TRUE
          /\ UNCHANGED transport
    /\ UNCHANGED <<interrupted, queue, cmdVars, callVars, dcmd, dresult,
                   swapped, orderVars, runVars>>

-----------------------------------------------------------------------------
(* run_until_stopped, on the main thread                                   *)

DrainTop ==
    /\ dpc = "top"
    /\ dpc' = IF interrupted THEN "stop" ELSE "take"
    /\ dcmd' = NoCall /\ dresult' = NoOutcome
    /\ UNCHANGED <<serverVars, queue, cmdVars, callVars, swapped, destroying,
                   orderVars, runVars>>

(* Mutant: the newest command first.                                       *)
PopBack ==
    /\ queue # <<>>
    /\ dcmd' = Last(queue) /\ queue' = Front(queue) /\ dpc' = "admit"

PopFront ==
    /\ queue # <<>>
    /\ dcmd' = Head(queue) /\ queue' = Tail(queue) /\ dpc' = "admit"

(* Under queue_mutex_: the predicate of the wait holds, or the drainer     *)
(* sleeps on queue_cv_.                                                    *)
Take ==
    /\ dpc = "take"
    /\ \/ PopFront
       \/ queue = <<>> /\ dpc' = "asleep" /\ UNCHANGED <<queue, dcmd>>
    /\ UNCHANGED <<serverVars, cmdVars, callVars, dresult, swapped, destroying,
                   orderVars, runVars>>

(* Mutant: an empty wait is not followed by `continue`.                    *)
PollEndsEmpty ==
    /\ dpc = "asleep"
    /\ \/ PopFront
       \/ queue = <<>> /\ dpc' = "admit" /\ UNCHANGED <<queue, dcmd>>
    /\ UNCHANGED <<serverVars, cmdVars, callVars, dresult, swapped, destroying,
                   orderVars, runVars>>

(* The 100 ms of queue_cv_.wait_for end.                                   *)
PollEnds ==
    /\ dpc = "asleep"
    /\ \/ PopFront
       \/ queue = <<>> /\ dpc' = "top" /\ UNCHANGED <<queue, dcmd>>
    /\ UNCHANGED <<serverVars, cmdVars, callVars, dresult, swapped, destroying,
                   orderVars, runVars>>

(* Mutant: admission does not look at canceled.                            *)
AdmitCanceled ==
    /\ dpc = "admit"
    /\ LET admitted == ~completed[dcmd]
       IN /\ started' = [started EXCEPT ![dcmd] = @ \/ admitted]
          /\ dpc' = IF admitted THEN "execute" ELSE "notify"
    /\ UNCHANGED <<serverVars, queue, canceled, completed, result, callVars, dcmd,
                   dresult, swapped, destroying, orderVars, runVars>>

(* Under done_mutex: a command its caller gave up is completed, any other  *)
(* is admitted.                                                            *)
Admit ==
    /\ dpc = "admit"
    /\ LET admitted == ~completed[dcmd] /\ ~canceled[dcmd]
       IN /\ started' = [started EXCEPT ![dcmd] = @ \/ admitted]
          /\ completed' = [completed EXCEPT ![dcmd] = @ \/ canceled[dcmd]]
          /\ dpc' = IF admitted THEN "execute" ELSE "notify"
    /\ UNCHANGED <<serverVars, queue, canceled, result, callVars, dcmd, dresult,
                   swapped, destroying, orderVars, runVars>>

(* Mutant: an exception is swallowed.                                      *)
ExecuteQuietly ==
    /\ dpc = "execute"
    /\ \E o \in Outcomes :
          /\ dresult' = IF o = "threw" THEN "rows" ELSE o
          /\ outcome' = [outcome EXCEPT ![dcmd] = o]
    /\ executed' = Append(executed, dcmd)
    /\ dpc' = "publish"
    /\ UNCHANGED <<serverVars, queue, cmdVars, callVars, dcmd, swapped,
                   destroying, orderVars>>

(* query_cb_ runs, without a lock.                                         *)
Execute ==
    /\ dpc = "execute"
    /\ \E o \in Outcomes :
          dresult' = o /\ outcome' = [outcome EXCEPT ![dcmd] = o]
    /\ executed' = Append(executed, dcmd)
    /\ dpc' = "publish"
    /\ UNCHANGED <<serverVars, queue, cmdVars, callVars, dcmd, swapped,
                   destroying, orderVars>>

(* Under done_mutex.                                                       *)
Publish ==
    /\ dpc = "publish"
    /\ IF completed[dcmd] THEN UNCHANGED <<result, completed>>
       ELSE /\ result' = [result EXCEPT ![dcmd] = dresult]
            /\ completed' = [completed EXCEPT ![dcmd] = TRUE]
    /\ dpc' = "notify"
    /\ UNCHANGED <<serverVars, queue, started, canceled, callVars, dcmd, dresult,
                   swapped, destroying, orderVars, runVars>>

(* done_cv.notify_one: only the call itself waits on it.                   *)
Woken(c) == IF pc[c] \in {"wait", "poll"} THEN [pc EXCEPT ![c] = "check"] ELSE pc

(* Mutant: the completed call is not notified.                             *)
NotifyNobody ==
    /\ dpc = "notify"
    /\ dpc' = "top"
    /\ UNCHANGED <<serverVars, queue, cmdVars, callVars, dcmd, dresult, swapped,
                   destroying, orderVars, runVars>>

NotifyCall ==
    /\ dpc = "notify"
    /\ pc' = Woken(dcmd) /\ dpc' = "top"
    /\ UNCHANGED <<serverVars, queue, cmdVars, reply, dcmd, dresult, swapped,
                   destroying, orderVars, runVars>>

-----------------------------------------------------------------------------
(* stop and complete_pending_commands, on the main thread                  *)

Stop ==
    /\ dpc = "stop"
    /\ running' = FALSE /\ dpc' = "swap"
    /\ UNCHANGED <<transport, interrupted, queue, cmdVars, callVars, dcmd,
                   dresult, swapped, destroying, orderVars, runVars>>

(* Mutant: the pending commands are dropped, not completed.                *)
SwapAndDrop ==
    /\ dpc = "swap"
    /\ queue' = <<>> /\ dpc' = "complete"
    /\ UNCHANGED <<serverVars, cmdVars, callVars, dcmd, dresult, swapped, destroying,
                   orderVars, runVars>>

Swap ==
    /\ dpc = "swap"
    /\ swapped' = queue /\ queue' = <<>> /\ dpc' = "complete"
    /\ UNCHANGED <<serverVars, cmdVars, callVars, dcmd, dresult, destroying,
                   orderVars, runVars>>

(* Under done_mutex, then the notification outside it.                     *)
CompleteOne ==
    /\ dpc = "complete" /\ swapped # <<>>
    /\ dcmd' = Head(swapped) /\ swapped' = Tail(swapped)
    /\ IF completed[Head(swapped)] THEN UNCHANGED <<result, completed>>
       ELSE /\ result' = [result EXCEPT ![Head(swapped)] = "stopped"]
            /\ completed' = [completed EXCEPT ![Head(swapped)] = TRUE]
    /\ dpc' = "wake"
    /\ UNCHANGED <<serverVars, queue, started, canceled, callVars, dresult,
                   destroying, orderVars, runVars>>

WakeOne ==
    /\ dpc = "wake"
    /\ pc' = Woken(dcmd) /\ dpc' = "complete"
    /\ UNCHANGED <<serverVars, queue, cmdVars, reply, dcmd, dresult, swapped,
                   destroying, orderVars, runVars>>

(* impl_->server->stop(): the transport accepts no more calls ...          *)
StopTransport ==
    /\ dpc = "complete" /\ swapped = <<>>
    /\ \/ /\ transport = "listening" /\ transport' = "stopping"
          /\ dpc' = "join"
       \/ /\ transport # "listening" /\ UNCHANGED transport
          /\ dpc' = "stopped"
    /\ UNCHANGED <<running, interrupted, queue, cmdVars, callVars, dcmd, dresult,
                   swapped, destroying, orderVars, runVars>>

(* ... and returns when the handlers have; impl_ is reset.                 *)
JoinTransport ==
    /\ dpc = "join" /\ \A c \in Calls : pc[c] \in {"idle", "done"}
    /\ transport' = "none" /\ dpc' = "stopped"
    /\ UNCHANGED <<running, interrupted, queue, cmdVars, callVars, dcmd, dresult,
                   swapped, destroying, orderVars, runVars>>

(* run_mcp returns and destroys the server, which stops it again.          *)
Destroy ==
    /\ dpc = "stopped" /\ ~destroying
    /\ destroying' = TRUE /\ dpc' = "stop"
    /\ UNCHANGED <<serverVars, queue, cmdVars, callVars, dcmd, dresult, swapped,
                   orderVars, runVars>>

-----------------------------------------------------------------------------
(* Ctrl+C: the signal handler stores g_shutdown_flag.                      *)
Interrupt ==
    /\ ~interrupted /\ interrupted' = TRUE
    /\ UNCHANGED <<running, transport, queue, cmdVars, callVars, drainVars,
                   orderVars, runVars>>

CallStep(c) == Enter(c) \/ Push(c) \/ NotifyDrainer(c) \/ Check(c) \/ WakeUp(c)
                 \/ Expire(c) \/ Erase(c) \/ Leave(c)

MainStep == Start \/ Listen \/ DrainTop \/ Take \/ PollEnds \/ Admit \/ Execute
              \/ Publish \/ NotifyCall \/ Stop \/ Swap \/ CompleteOne \/ WakeOne
              \/ StopTransport \/ JoinTransport \/ Destroy

(* run_mcp has returned.                                                   *)
Finished == dpc = "stopped" /\ destroying /\ UNCHANGED vars

Next == (\E c \in Calls : CallStep(c)) \/ MainStep \/ Interrupt \/ Finished

Spec == Init /\ [][Next]_vars

(* Threads are scheduled, and query_cb_ returns.  No timer is assumed to   *)
(* fire: neither the deadline, nor the 100 ms polls, nor a spurious wakeup.*)
CallProgress(c) == Push(c) \/ NotifyDrainer(c) \/ Check(c) \/ Erase(c) \/ Leave(c)
MainProgress == Start \/ Listen \/ DrainTop \/ Take \/ Admit \/ Execute \/ Publish
                  \/ NotifyCall \/ Stop \/ Swap \/ CompleteOne \/ WakeOne
                  \/ StopTransport \/ JoinTransport \/ Destroy

FairSpec == Spec /\ (\A c \in Calls : WF_vars(CallProgress(c))) /\ WF_vars(MainProgress)

-----------------------------------------------------------------------------
(* Properties                                                              *)

CallPoints == {"idle", "push", "notify", "check", "wait", "poll", "erase", "leave", "done"}
MainPoints == {"start", "listen", "top", "take", "asleep", "admit", "execute", "publish",
               "notify", "stop", "swap", "complete", "wake", "join", "stopped"}

(* The type of every variable of the queue.                                *)
TypeOK ==
    /\ running \in BOOLEAN /\ interrupted \in BOOLEAN /\ destroying \in BOOLEAN
    /\ transport \in {"none", "listening", "stopping"}
    /\ queue \in Seq(Calls) /\ swapped \in Seq(Calls) /\ executed \in Seq(Calls)
    /\ started \in [Calls -> BOOLEAN] /\ canceled \in [Calls -> BOOLEAN]
    /\ completed \in [Calls -> BOOLEAN] /\ result \in [Calls -> Payloads]
    /\ pc \in [Calls -> CallPoints]
    /\ reply \in [Calls -> [success : BOOLEAN, payload : Payloads]]
    /\ dpc \in MainPoints /\ dcmd \in Calls \cup {NoCall}
    /\ dpc \in {"admit", "execute", "publish", "notify", "wake"} => dcmd \in Calls
    /\ dresult \in Outcomes \cup {NoOutcome}
    /\ arrivals \in Nat /\ ticket \in [Calls -> Nat]
    /\ outcome \in [Calls -> Outcomes \cup {NoOutcome}]

(* A call that was refused (not running, full, timed out, stopped) is      *)
(* never executed, neither before the refusal nor after it: the deadline   *)
(* and the admission of one command exclude each other.                    *)
RefusedNeverRuns ==
    \A c \in Calls : reply[c].payload \in Refusals => c \notin ToSet(executed)

(* A call answered with an outcome was executed and that is its outcome,   *)
(* not the one of another call nor a text of the queue.                    *)
AnswerIsOwn ==
    \A c \in Calls : reply[c].payload \in Outcomes =>
        c \in ToSet(executed) /\ reply[c].payload = outcome[c]

(* Commands are executed in the order in which they were queued, so each   *)
(* at most once, whichever of them expire in between.                      *)
ExecutedInOrder ==
    \A i, j \in 1..Len(executed) :
        i < j => ticket[executed[i]] < ticket[executed[j]]

(* pending_commands_ never exceeds its limit.                              *)
QueueBounded == MaxQueue > 0 => Len(queue) <= MaxQueue

(* A call asleep on its done_cv is still known to somebody who will notify *)
(* it: it is queued and stop has not swapped the queue yet, or stop holds  *)
(* it, or it is the drainer's current command.                             *)
WaiterIsWatched ==
    \A c \in Calls : pc[c] \in {"wait", "poll"} =>
        \/ c \in ToSet(queue) /\ dpc \notin {"complete", "wake", "join", "stopped"}
        \/ c \in ToSet(swapped)
        \/ dcmd = c /\ dpc \in {"admit", "execute", "publish", "notify", "wake"}

(* The server is marked running before the transport accepts a call (the   *)
(* comment of start): no call finds it stopped before Ctrl+C.              *)
NotRunningMeansInterrupted ==
    \A c \in Calls : reply[c].payload \in {"not_running", "stopped"} => interrupted

(* Every call gets its answer without any timer firing.                    *)
EveryCallAnswered == \A c \in Calls : pc[c] = "push" ~> pc[c] = "done"

(* Ctrl+C ends run_mcp, whatever the calls in progress do, given that the  *)
(* drainer's 100 ms poll of queue_cv_ ends: the signal only sets a flag.   *)
InterruptEndsServer == WF_vars(PollEnds) => (interrupted ~> (dpc = "stopped" /\ destroying))

(* The queue keeps the promise of McpCall.                                 *)
Refusal == "refused"
Phase(c) == IF pc[c] = "idle" THEN "new"
            ELSE IF pc[c] = "done" THEN "answered"
            ELSE IF c \in ToSet(executed) THEN "executed" ELSE "submitted"
Told(c) == LET p == reply[c].payload
           IN IF p \in Refusals THEN Refusal ELSE p

Promise == INSTANCE McpCall WITH
    Refused <- Refusal,
    phase   <- [c \in Calls |-> Phase(c)],
    answer  <- [c \in Calls |-> Told(c)]

(* Each step of the queue is a step of McpCall, or changes nothing that    *)
(* McpCall speaks of.                                                      *)
KeepsPromise == Promise!Spec
=============================================================================
