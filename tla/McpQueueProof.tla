---------------------------- MODULE McpQueueProof ----------------------------
(***************************************************************************)
(* Proofs about McpQueue for every set of calls and every queue limit.     *)
(* The inductive invariant IInv is proved part by part, one step per       *)
(* action; the properties of the runs follow from it.                      *)
(***************************************************************************)
EXTENDS McpQueue, SeqFacts

-----------------------------------------------------------------------------
(* The inductive invariant, in named parts                                 *)

Draining == {"listen", "top", "take", "asleep", "admit", "execute", "publish", "notify"}

(* Where running_ is set, and what the transport and Ctrl+C have to do     *)
(* with it.                                                                *)
ServerInv ==
    /\ dpc \in Draining => running
    /\ dpc \in {"start", "swap", "complete", "wake", "join", "stopped"} => ~running
    /\ dpc \in {"start", "listen"} => transport = "none" /\ (\A c \in Calls : pc[c] = "idle")
    /\ ~running /\ transport # "none" => interrupted
    /\ dpc \in {"stop", "swap", "complete", "wake", "join", "stopped"} /\ ~destroying
          => interrupted
    /\ transport = "stopping" => dpc = "join"
    /\ swapped # <<>> => dpc \in {"complete", "wake"}
    /\ dpc = "stopped" => transport = "none"
    /\ destroying => transport = "none" /\ dpc \in {"stop", "swap", "complete", "wake", "stopped"}
    /\ destroying /\ ~interrupted => \A c \in Calls : pc[c] = "idle"
    /\ dpc \in {"top", "take", "asleep", "admit", "execute", "publish", "notify"}
          => transport = "listening"
    /\ transport = "none" => \A c \in Calls : pc[c] \in {"idle", "done"}

(* Tickets order the queue, and what was executed before the drainer's     *)
(* command before what is queued.                                          *)
OrderInv ==
    /\ \A c \in Calls : ticket[c] <= arrivals
    /\ \A c \in Calls : pc[c] \in {"idle", "push"} => ticket[c] = 0
    /\ \A i \in 1..Len(queue) : ticket[queue[i]] > 0
    /\ \A i \in 1..Len(swapped) : ticket[swapped[i]] > 0
    /\ \A i, j \in 1..Len(queue) : i < j => ticket[queue[i]] < ticket[queue[j]]
    /\ \A i \in 1..Len(queue), j \in 1..Len(executed) : ticket[executed[j]] < ticket[queue[i]]
    /\ dpc \in {"admit", "execute"} =>
          /\ ticket[dcmd] > 0
          /\ \A i \in 1..Len(queue) : ticket[dcmd] < ticket[queue[i]]
          /\ \A j \in 1..Len(executed) : ticket[executed[j]] < ticket[dcmd]
    /\ \A j \in 1..Len(executed) : ticket[executed[j]] > 0
    /\ ExecutedInOrder

(* The flags of a command: canceled and started exclude each other.        *)
Exclusive == \A c \in Calls : ~(started[c] /\ canceled[c])

(* Only what was admitted is started, and only that is executed.           *)
StartedBySeq ==
    /\ \A j \in 1..Len(executed) : started[executed[j]]
    /\ \A i \in 1..Len(queue) : ~started[queue[i]]
    /\ \A i \in 1..Len(swapped) : ~started[swapped[i]]

(* The command in the drainer's hands.                                     *)
DrainerFlags ==
    /\ dpc = "admit" => ~started[dcmd]
    /\ dpc \in {"execute", "publish"} => started[dcmd] /\ ~completed[dcmd]
    /\ dpc = "publish" => /\ dresult \in Outcomes /\ outcome[dcmd] = dresult
                          /\ dcmd \in ToSet(executed)

(* What is started is being executed or completed with its outcome.        *)
StartedFlags ==
    \A c \in Calls : started[c] =>
        /\ ticket[c] > 0
        /\ ~completed[c] => dcmd = c /\ dpc \in {"execute", "publish"}
        /\ completed[c] => /\ result[c] \in Outcomes /\ result[c] = outcome[c]
                           /\ c \in ToSet(executed)

(* What is completed without being started was canceled or stopped.        *)
NotStartedFlags ==
    \A c \in Calls : ~started[c] =>
        /\ result[c] \in {NoOutcome, "stopped"}
        /\ completed[c] => canceled[c] \/ result[c] = "stopped"

(* Commands are completed as stopped only by stop, and not before they     *)
(* were queued.                                                            *)
StoppedFlags ==
    \A c \in Calls : /\ result[c] = "stopped" => ~running
                     /\ pc[c] \in {"idle", "push"} => result[c] = NoOutcome

(* A call that set canceled is on its way out or was told so.              *)
CanceledFlags ==
    \A c \in Calls : canceled[c] =>
        pc[c] = "erase" \/ (pc[c] = "done" /\ reply[c].payload = "timed_out")

FlagsInv == Exclusive /\ StartedBySeq /\ DrainerFlags /\ StartedFlags
              /\ NotStartedFlags /\ StoppedFlags /\ CanceledFlags

(* A call has an answer exactly when it has returned.                      *)
AnsweredWhenDone == \A c \in Calls : pc[c] # "done" <=> reply[c].payload = NoOutcome

(* Why a call is past its waits.                                           *)
WayOut ==
    \A c \in Calls : /\ pc[c] = "erase" => canceled[c]
                     /\ pc[c] = "leave" => completed[c] \/ ~running

(* An outcome is the result of a command that was started and completed.   *)
OutcomeReply ==
    \A c \in Calls : reply[c].payload \in Outcomes =>
        started[c] /\ completed[c] /\ reply[c].payload = result[c]

(* A refused command is not started, and why it will not be: it is         *)
(* canceled, it was never queued, or the drainer has left its loop.        *)
RefusalReply ==
    \A c \in Calls : reply[c].payload \in Refusals =>
        ~started[c] /\ (canceled[c] \/ ~running \/ ticket[c] = 0)

ReplyInv == AnsweredWhenDone /\ WayOut /\ OutcomeReply /\ RefusalReply
              /\ NotRunningMeansInterrupted

(* Who will notify a call: the queue while stop has not swapped it, stop,  *)
(* or the drainer, whose current command it is.                            *)
Watched(c) ==
    \/ c \in ToSet(queue) /\ dpc \notin {"complete", "wake", "join", "stopped"}
    \/ c \in ToSet(swapped)
    \/ dcmd = c /\ dpc \in {"admit", "execute", "publish", "notify", "wake"}

(* A sleeper is watched; a call that may go to sleep is watched or finds a *)
(* reason not to.                                                          *)
WatchInv ==
    /\ \A c \in Calls : pc[c] \in {"wait", "poll"} => Watched(c)
    /\ \A c \in Calls : pc[c] \in {"notify", "check"} =>
          Watched(c) \/ completed[c] \/ ~running
    /\ dpc = "notify" => completed[dcmd]

IInv == TypeOK /\ ServerInv /\ OrderInv /\ FlagsInv /\ ReplyInv /\ WatchInv

-----------------------------------------------------------------------------

-----------------------------------------------------------------------------
(* The proofs                                                              *)

(* Returning from queue_and_wait sets the two variables of the call.       *)
LEMMA ReturnType ==
    ASSUME TypeOK, NEW c \in Calls, NEW ok \in BOOLEAN, NEW p \in Payloads, Return(c, ok, p)
    PROVE  /\ pc' \in [Calls -> CallPoints]
           /\ reply' \in [Calls -> [success : BOOLEAN, payload : Payloads]]
           /\ pc'[c] = "done" /\ reply'[c].success = ok /\ reply'[c].payload = p
           /\ \A d \in Calls : d # c => pc'[d] = pc[d] /\ reply'[d] = reply[d]
<1>1. pc' = [pc EXCEPT ![c] = "done"]
      /\ reply' = [reply EXCEPT ![c] = [success |-> ok, payload |-> p]]
  BY DEF Return, GoTo
<1>2. pc \in [Calls -> CallPoints]
      /\ reply \in [Calls -> [success : BOOLEAN, payload : Payloads]]
  BY DEF TypeOK
<1>3. "done" \in CallPoints
  BY DEF CallPoints
<1>4. [success |-> ok, payload |-> p] \in [success : BOOLEAN, payload : Payloads]
  OBVIOUS
<1> QED BY <1>1, <1>2, <1>3, <1>4

(* Every step keeps the types.                                             *)
LEMMA TypeStep == TypeOK /\ [Next]_vars => TypeOK'
<1> SUFFICES ASSUME TypeOK, [Next]_vars PROVE TypeOK'
  OBVIOUS
<1> USE NoCallAssumption DEF TypeOK, cmdVars, callVars, drainVars, serverVars, orderVars, runVars,
           CallPoints, MainPoints, Payloads, Outcomes, Refusals, NoOutcome
<1>1. ASSUME NEW c \in Calls, Enter(c) PROVE TypeOK'
  <2>1. CASE running
    BY <1>1, <2>1 DEF Enter, GoTo
  <2>2. CASE ~running
    <3>1. Return(c, FALSE, "not_running")
      BY <1>1, <2>2, Zenon DEF Enter
    <3>2. "not_running" \in Payloads
      OBVIOUS
    <3>3. UNCHANGED <<serverVars, queue, cmdVars, drainVars, orderVars, runVars>>
      BY <1>1, Zenon DEF Enter
    <3>4. /\ pc' \in [Calls -> CallPoints]
          /\ reply' \in [Calls -> [success : BOOLEAN, payload : Payloads]]
      BY <3>1, <3>2, ReturnType
    <3> QED BY <3>3, <3>4
  <2> QED BY <2>1, <2>2
<1>2. ASSUME NEW c \in Calls, Push(c) PROVE TypeOK'
  <2>1. CASE QueueIsFull
    <3>1. Return(c, FALSE, "full") /\ UNCHANGED <<queue, arrivals, ticket>>
      BY <1>2, <2>1 DEF Push
    <3>2. pc' \in [Calls -> CallPoints]
          /\ reply' \in [Calls -> [success : BOOLEAN, payload : Payloads]]
      BY <3>1, ReturnType
    <3> QED BY <1>2, <3>1, <3>2 DEF Push
  <2>2. CASE ~QueueIsFull
    <3>1. queue' \in Seq(Calls) /\ arrivals' \in Nat /\ ticket' \in [Calls -> Nat]
      <4>1. queue' = Append(queue, c) /\ arrivals' = arrivals + 1
            /\ ticket' = [ticket EXCEPT ![c] = arrivals + 1]
        BY <1>2, <2>2 DEF Push
      <4> QED BY <4>1, AppendFacts
    <3>2. pc' \in [Calls -> CallPoints] /\ UNCHANGED reply
      BY <1>2, <2>2 DEF Push, GoTo
    <3> QED BY <1>2, <3>1, <3>2 DEF Push
  <2> QED BY <2>1, <2>2
<1>3. ASSUME NEW c \in Calls, NotifyDrainer(c) PROVE TypeOK'
  BY <1>3 DEF NotifyDrainer, GoTo
<1>4. ASSUME NEW c \in Calls, Check(c) PROVE TypeOK'
  BY <1>4 DEF Check, GoTo
<1>5. ASSUME NEW c \in Calls, WakeUp(c) PROVE TypeOK'
  BY <1>5 DEF WakeUp, GoTo
<1>6. ASSUME NEW c \in Calls, Expire(c) PROVE TypeOK'
  <2>1. pc' \in [Calls -> CallPoints] /\ canceled' \in [Calls -> BOOLEAN]
    <3>1. CASE completed[c] \/ started[c] \/ ~running
      BY <1>6, <3>1 DEF Expire, GoTo
    <3>2. CASE ~(completed[c] \/ started[c] \/ ~running)
      BY <1>6, <3>2 DEF Expire, GoTo
    <3> QED BY <3>1, <3>2
  <2>2. UNCHANGED <<serverVars, queue, started, completed, result, reply,
                    drainVars, orderVars, runVars>>
    BY <1>6 DEF Expire
  <2> QED BY <2>1, <2>2
<1>7. ASSUME NEW c \in Calls, Erase(c) PROVE TypeOK'
  <2>1. pc' \in [Calls -> CallPoints]
        /\ reply' \in [Calls -> [success : BOOLEAN, payload : Payloads]]
    BY <1>7, ReturnType DEF Erase
  <2>2. queue' \in Seq(Calls)
    BY <1>7, RemoveAtFacts DEF Erase
  <2> QED BY <1>7, <2>1, <2>2 DEF Erase
<1>8. ASSUME NEW c \in Calls, Leave(c) PROVE TypeOK'
  <2>1. \E ok \in BOOLEAN, p \in Payloads : Return(c, ok, p)
    <3>1. CASE completed[c]
      <4>1. result[c] \in Payloads /\ (~IsErrorText(result[c])) \in BOOLEAN
        BY DEF IsErrorText
      <4> QED BY <1>8, <3>1, <4>1 DEF Leave
    <3>2. CASE ~completed[c]
      <4>1. (IF running THEN "timed_out" ELSE "stopped") \in Payloads
        OBVIOUS
      <4> QED BY <1>8, <3>2, <4>1 DEF Leave
    <3> QED BY <3>1, <3>2
  <2>2. pc' \in [Calls -> CallPoints]
        /\ reply' \in [Calls -> [success : BOOLEAN, payload : Payloads]]
    BY <2>1, ReturnType
  <2> QED BY <1>8, <2>2 DEF Leave
<1>9. CASE Start
  BY <1>9 DEF Start
<1>10. CASE Listen
  BY <1>10 DEF Listen
<1>11. CASE DrainTop
  BY <1>11 DEF DrainTop
<1>12. CASE Take
  <2>1. queue' \in Seq(Calls) /\ dcmd' \in Calls \cup {NoCall}
        /\ (dpc' = "admit" => dcmd' \in Calls) /\ dpc' \in {"admit", "asleep"}
    <3>1. CASE PopFront
      BY <3>1, TailFacts DEF PopFront
    <3>2. CASE ~PopFront
      BY <1>12, <3>2 DEF Take
    <3> QED BY <3>1, <3>2
  <2> QED BY <1>12, <2>1 DEF Take
<1>13. CASE PollEnds
  <2>1. queue' \in Seq(Calls) /\ dcmd' \in Calls \cup {NoCall}
        /\ (dpc' = "admit" => dcmd' \in Calls) /\ dpc' \in {"admit", "top"}
    <3>1. CASE PopFront
      BY <3>1, TailFacts DEF PopFront
    <3>2. CASE ~PopFront
      BY <1>13, <3>2 DEF PollEnds
    <3> QED BY <3>1, <3>2
  <2> QED BY <1>13, <2>1 DEF PollEnds
<1>14. CASE Admit
  BY <1>14 DEF Admit
<1>15. CASE Execute
  BY <1>15, AppendFacts DEF Execute
<1>16. CASE Publish
  BY <1>16 DEF Publish
<1>17. CASE NotifyCall
  BY <1>17 DEF NotifyCall, Woken
<1>18. CASE Stop
  BY <1>18 DEF Stop
<1>19. CASE Swap
  BY <1>19 DEF Swap
<1>20. CASE CompleteOne
  BY <1>20, TailFacts DEF CompleteOne
<1>21. CASE WakeOne
  BY <1>21 DEF WakeOne, Woken
<1>22. CASE StopTransport
  BY <1>22 DEF StopTransport
<1>23. CASE JoinTransport
  BY <1>23 DEF JoinTransport
<1>24. CASE Destroy
  BY <1>24 DEF Destroy
<1>25. CASE Interrupt
  BY <1>25 DEF Interrupt
<1>26. CASE UNCHANGED vars
  BY <1>26 DEF vars
<1> QED
  BY <1>1, <1>2, <1>3, <1>4, <1>5, <1>6, <1>7, <1>8, <1>9, <1>10, <1>11, <1>12,
     <1>13, <1>14, <1>15, <1>16, <1>17, <1>18, <1>19, <1>20, <1>21, <1>22, <1>23, <1>24,
     <1>25, <1>26
  DEF Next, CallStep, MainStep, Finished

(* Every step keeps the relation of running_, the transport and Ctrl+C.    *)
LEMMA ServerStep == TypeOK /\ ServerInv /\ [Next]_vars => ServerInv'
<1> SUFFICES ASSUME TypeOK /\ ServerInv, [Next]_vars PROVE ServerInv'
  OBVIOUS
<1> USE NoCallAssumption DEF TypeOK, cmdVars, callVars, drainVars, serverVars, orderVars, runVars,
           CallPoints, MainPoints, Payloads, Outcomes, Refusals, NoOutcome,
           ServerInv, Draining
<1>1. ASSUME NEW c \in Calls, Enter(c) PROVE ServerInv'
  BY <1>1 DEF Enter, GoTo, Return
<1>2. ASSUME NEW c \in Calls, Push(c) PROVE ServerInv'
  BY <1>2 DEF Push, GoTo, Return
<1>3. ASSUME NEW c \in Calls, NotifyDrainer(c) PROVE ServerInv'
  BY <1>3 DEF NotifyDrainer, GoTo
<1>4. ASSUME NEW c \in Calls, Check(c) PROVE ServerInv'
  BY <1>4 DEF Check, GoTo
<1>5. ASSUME NEW c \in Calls, WakeUp(c) PROVE ServerInv'
  BY <1>5 DEF WakeUp, GoTo
<1>6. ASSUME NEW c \in Calls, Expire(c) PROVE ServerInv'
  BY <1>6 DEF Expire, GoTo
<1>7. ASSUME NEW c \in Calls, Erase(c) PROVE ServerInv'
  BY <1>7 DEF Erase, GoTo, Return
<1>8. ASSUME NEW c \in Calls, Leave(c) PROVE ServerInv'
  BY <1>8 DEF Leave, GoTo, Return, IsErrorText
<1>9. CASE Start
  BY <1>9 DEF Start
<1>10. CASE Listen
  <2>1. transport = "none" /\ running /\ ~destroying /\ \A c \in Calls : pc[c] = "idle"
    BY <1>10 DEF Listen
  <2>2. CASE dpc' = "top" /\ transport' = "listening" /\ UNCHANGED <<running, destroying>>
    BY <1>10, <2>1, <2>2 DEF Listen
  <2>3. CASE dpc' = "stop" /\ running' = FALSE /\ destroying' = TRUE /\ UNCHANGED transport
    BY <1>10, <2>1, <2>3 DEF Listen
  <2> QED BY <1>10, <2>2, <2>3 DEF Listen
<1>11. CASE DrainTop
  BY <1>11 DEF DrainTop
<1>12. CASE Take
  BY <1>12 DEF Take, PopFront
<1>13. CASE PollEnds
  BY <1>13 DEF PollEnds, PopFront
<1>14. CASE Admit
  BY <1>14 DEF Admit
<1>15. CASE Execute
  BY <1>15 DEF Execute
<1>16. CASE Publish
  BY <1>16 DEF Publish
<1>17. CASE NotifyCall
  BY <1>17 DEF NotifyCall, Woken
<1>18. CASE Stop
  BY <1>18 DEF Stop
<1>19. CASE Swap
  BY <1>19 DEF Swap
<1>20. CASE CompleteOne
  BY <1>20 DEF CompleteOne
<1>21. CASE WakeOne
  BY <1>21 DEF WakeOne, Woken
<1>22. CASE StopTransport
  BY <1>22 DEF StopTransport
<1>23. CASE JoinTransport
  BY <1>23 DEF JoinTransport
<1>24. CASE Destroy
  BY <1>24 DEF Destroy
<1>25. CASE Interrupt
  BY <1>25 DEF Interrupt
<1>26. CASE UNCHANGED vars
  BY <1>26 DEF vars
<1> QED
  BY <1>1, <1>2, <1>3, <1>4, <1>5, <1>6, <1>7, <1>8, <1>9, <1>10, <1>11, <1>12,
     <1>13, <1>14, <1>15, <1>16, <1>17, <1>18, <1>19, <1>20, <1>21, <1>22, <1>23, <1>24,
     <1>25, <1>26
  DEF Next, CallStep, MainStep, Finished

(* Taking the head of the queue keeps the order: the head is the oldest.   *)
LEMMA PopOrder ==
    ASSUME TypeOK, OrderInv, PopFront, UNCHANGED <<swapped, executed, arrivals, ticket, pc>>
    PROVE  OrderInv'
<1>1. /\ queue \in Seq(Calls) /\ queue # <<>> /\ executed \in Seq(Calls)
      /\ queue' = Tail(queue) /\ dcmd' = Head(queue) /\ dpc' = "admit"
  BY DEF TypeOK, PopFront
<1>2. /\ Len(queue) \in Nat \ {0} /\ dcmd' = queue[1] /\ Len(queue') = Len(queue) - 1
      /\ \A i \in 1..Len(queue') : i + 1 \in 1..Len(queue) /\ queue'[i] = queue[i + 1]
  BY <1>1, TailFacts
<1>3. /\ \A i \in 1..Len(queue) : ticket[queue[i]] > 0
      /\ \A i, j \in 1..Len(queue) : i < j => ticket[queue[i]] < ticket[queue[j]]
      /\ \A i \in 1..Len(queue), j \in 1..Len(executed) : ticket[executed[j]] < ticket[queue[i]]
  BY DEF OrderInv
<1>4. \A i \in 1..Len(queue') : ticket[queue'[i]] > 0
  BY <1>2, <1>3
<1>5. \A i, j \in 1..Len(queue') : i < j => ticket[queue'[i]] < ticket[queue'[j]]
  BY <1>2, <1>3
<1>6. \A i \in 1..Len(queue'), j \in 1..Len(executed) : ticket[executed[j]] < ticket[queue'[i]]
  BY <1>2, <1>3
<1>7. /\ ticket[dcmd'] > 0
      /\ \A i \in 1..Len(queue') : ticket[dcmd'] < ticket[queue'[i]]
      /\ \A j \in 1..Len(executed) : ticket[executed[j]] < ticket[dcmd']
  BY <1>2, <1>3
<1> QED BY <1>1, <1>4, <1>5, <1>6, <1>7 DEF OrderInv, ExecutedInOrder

(* The command pushed last gets the largest ticket.                        *)
LEMMA PushOrder ==
    ASSUME TypeOK, OrderInv, NEW c \in Calls, Push(c), ~QueueIsFull
    PROVE  OrderInv'
<1> DEFINE t == arrivals + 1
<1>1. /\ pc[c] = "push" /\ queue' = Append(queue, c)
      /\ arrivals' = t /\ ticket' = [ticket EXCEPT ![c] = t]
      /\ pc' = [pc EXCEPT ![c] = "notify"] /\ UNCHANGED <<executed, swapped, dpc, dcmd>>
  BY DEF Push, GoTo, drainVars, runVars
<1>2. /\ queue \in Seq(Calls) /\ executed \in Seq(Calls) /\ swapped \in Seq(Calls)
      /\ arrivals \in Nat /\ ticket \in [Calls -> Nat] /\ pc \in [Calls -> CallPoints]
      /\ dpc \in {"admit", "execute"} => dcmd \in Calls
  BY DEF TypeOK
<1>3. /\ Len(queue) \in Nat /\ Len(queue') = Len(queue) + 1
      /\ \A i \in 1..Len(queue) : queue'[i] = queue[i]
      /\ queue'[Len(queue) + 1] = c
  BY <1>1, <1>2, AppendFacts
<1>4. \A i \in 1..Len(queue') : i \in 1..Len(queue) \/ i = Len(queue) + 1
  BY <1>3
<1>5. /\ \A d \in Calls : ticket[d] < t /\ t \in Nat /\ t > 0
      /\ \A d \in Calls : ticket'[d] = IF d = c THEN t ELSE ticket[d]
      /\ ticket[c] = 0
  BY <1>1, <1>2 DEF OrderInv
<1> HIDE DEF t
<1>6. /\ \A i \in 1..Len(queue) : ticket[queue[i]] > 0 /\ queue[i] \in Calls
      /\ \A i \in 1..Len(swapped) : ticket[swapped[i]] > 0 /\ swapped[i] \in Calls
      /\ \A i \in 1..Len(executed) : ticket[executed[i]] > 0 /\ executed[i] \in Calls
      /\ dpc \in {"admit", "execute"} => ticket[dcmd] > 0 /\ dcmd \in Calls
  BY <1>2, ElementOfSeq DEF OrderInv
<1>7. /\ \A i \in 1..Len(queue) : ticket'[queue'[i]] = ticket[queue[i]] /\ ticket[queue[i]] < t
      /\ ticket'[queue'[Len(queue) + 1]] = t
      /\ \A i \in 1..Len(swapped) : ticket'[swapped'[i]] = ticket[swapped[i]]
      /\ \A i \in 1..Len(executed) : /\ ticket'[executed'[i]] = ticket[executed[i]]
                                     /\ ticket[executed[i]] < t
      /\ dpc \in {"admit", "execute"} => ticket'[dcmd'] = ticket[dcmd] /\ ticket[dcmd] < t
  BY <1>1, <1>3, <1>5, <1>6
<1>8. \A i \in 1..Len(queue') : ticket'[queue'[i]] > 0
  BY <1>4, <1>5, <1>6, <1>7
<1>9. ASSUME NEW i \in 1..Len(queue'), NEW j \in 1..Len(queue'), i < j
      PROVE  ticket'[queue'[i]] < ticket'[queue'[j]]
  <2>1. i \in 1..Len(queue)
    BY <1>3, <1>9
  <2>2. CASE j \in 1..Len(queue)
    BY <1>7, <1>9, <2>1, <2>2 DEF OrderInv
  <2>3. CASE j = Len(queue) + 1
    BY <1>7, <2>1, <2>3
  <2> QED BY <1>4, <2>2, <2>3
<1>10. ASSUME NEW i \in 1..Len(queue'), NEW j \in 1..Len(executed')
       PROVE  ticket'[executed'[j]] < ticket'[queue'[i]]
  <2>1. CASE i \in 1..Len(queue)
    BY <1>1, <1>7, <2>1 DEF OrderInv
  <2>2. CASE i = Len(queue) + 1
    BY <1>1, <1>7, <2>2
  <2> QED BY <1>4, <2>1, <2>2
<1>11. ASSUME dpc' \in {"admit", "execute"}
       PROVE  /\ ticket'[dcmd'] > 0
              /\ \A i \in 1..Len(queue') : ticket'[dcmd'] < ticket'[queue'[i]]
              /\ \A j \in 1..Len(executed') : ticket'[executed'[j]] < ticket'[dcmd']
  <2>1. dpc \in {"admit", "execute"} /\ executed' = executed
    BY <1>1, <1>11
  <2>2. \A i \in 1..Len(queue) : ticket[dcmd] < ticket[queue[i]]
    BY <2>1 DEF OrderInv
  <2>3. \A j \in 1..Len(executed) : ticket[executed[j]] < ticket[dcmd]
    BY <2>1 DEF OrderInv
  <2> QED BY <1>4, <1>6, <1>7, <2>1, <2>2, <2>3
<1>12. \A d \in Calls : ticket'[d] <= arrivals'
  BY <1>1, <1>2, <1>5
<1>13. \A d \in Calls : pc'[d] \in {"idle", "push"} => ticket'[d] = 0
  BY <1>1, <1>2, <1>5 DEF OrderInv
<1>14. ExecutedInOrder'
  BY <1>1, <1>7 DEF OrderInv, ExecutedInOrder
<1>15. /\ \A i \in 1..Len(swapped') : ticket'[swapped'[i]] > 0
       /\ \A i \in 1..Len(executed') : ticket'[executed'[i]] > 0
  BY <1>1, <1>6, <1>7
<1> QED BY <1>8, <1>9, <1>10, <1>11, <1>12, <1>13, <1>14, <1>15 DEF OrderInv

(* A command that expires leaves the order of the others alone.            *)
LEMMA EraseOrder ==
    ASSUME TypeOK, OrderInv, NEW c \in Calls, Erase(c)
    PROVE  OrderInv'
<1>1. /\ UNCHANGED <<swapped, dpc, dcmd, arrivals, ticket, executed>>
      /\ pc' = [pc EXCEPT ![c] = "done"]
  BY DEF Erase, Return, GoTo, drainVars, orderVars, runVars
<1>2. \A d \in Calls : pc'[d] \in {"idle", "push"} => ticket'[d] = 0
  BY <1>1 DEF OrderInv, TypeOK
<1>3. CASE UNCHANGED queue
  BY <1>1, <1>2, <1>3 DEF OrderInv, ExecutedInOrder
<1>4. ASSUME NEW k \in 1..Len(queue), queue' = RemoveAt(queue, k)
      PROVE  OrderInv'
  <2> DEFINE at(i) == IF i < k THEN i ELSE i + 1
  <2>1. queue \in Seq(Calls) /\ Len(queue) \in Nat
    BY LenProperties DEF TypeOK
  <2>2. /\ Len(queue') = Len(queue) - 1
        /\ \A i \in 1..Len(queue') : queue'[i] = queue[at(i)]
    BY <1>4, <2>1, RemoveAtFacts
  <2>3. /\ \A i \in 1..Len(queue') : at(i) \in 1..Len(queue)
        /\ \A i, j \in 1..Len(queue') : i < j => at(i) < at(j)
    BY <2>1, <2>2
  <2> HIDE DEF at
  <2>4. \A i \in 1..Len(queue') : ticket[queue'[i]] > 0
    BY <2>2, <2>3 DEF OrderInv
  <2>5. \A i, j \in 1..Len(queue') : i < j => ticket[queue'[i]] < ticket[queue'[j]]
    BY <2>2, <2>3 DEF OrderInv
  <2>6. \A i \in 1..Len(queue'), j \in 1..Len(executed) : ticket[executed[j]] < ticket[queue'[i]]
    BY <2>2, <2>3 DEF OrderInv
  <2>7. dpc \in {"admit", "execute"} => \A i \in 1..Len(queue') : ticket[dcmd] < ticket[queue'[i]]
    BY <2>2, <2>3 DEF OrderInv
  <2> QED BY <1>1, <1>2, <2>4, <2>5, <2>6, <2>7 DEF OrderInv, ExecutedInOrder
<1> QED BY <1>3, <1>4 DEF Erase

(* The executed command comes before those of the queue and after those    *)
(* executed so far.                                                        *)
LEMMA ExecuteOrder ==
    ASSUME TypeOK, OrderInv, Execute
    PROVE  OrderInv'
<1>1. /\ dpc = "execute" /\ executed' = Append(executed, dcmd) /\ dpc' = "publish"
      /\ UNCHANGED <<queue, swapped, dcmd, arrivals, ticket, pc>>
  BY DEF Execute, callVars, orderVars
<1>2. /\ queue \in Seq(Calls) /\ executed \in Seq(Calls) /\ ticket \in [Calls -> Nat] /\ dcmd \in Calls
  BY <1>1 DEF TypeOK
<1>3. /\ Len(executed) \in Nat /\ Len(executed') = Len(executed) + 1
      /\ \A j \in 1..Len(executed) : executed'[j] = executed[j]
      /\ executed'[Len(executed) + 1] = dcmd
  BY <1>1, <1>2, AppendFacts
<1>4. \A j \in 1..Len(executed') : j \in 1..Len(executed) \/ j = Len(executed) + 1
  BY <1>3
<1>5. /\ ticket[dcmd] > 0
      /\ \A i \in 1..Len(queue) : ticket[dcmd] < ticket[queue[i]]
      /\ \A j \in 1..Len(executed) : ticket[executed[j]] < ticket[dcmd]
  BY <1>1 DEF OrderInv
<1>6. \A i \in 1..Len(queue'), j \in 1..Len(executed') : ticket'[executed'[j]] < ticket'[queue'[i]]
  <2> SUFFICES ASSUME NEW i \in 1..Len(queue), NEW j \in 1..Len(executed')
               PROVE  ticket[executed'[j]] < ticket[queue[i]]
    BY <1>1
  <2>1. CASE j \in 1..Len(executed)
    BY <1>3, <2>1 DEF OrderInv
  <2>2. CASE j = Len(executed) + 1
    BY <1>3, <1>5, <2>2
  <2> QED BY <1>4, <2>1, <2>2
<1>7. \A j \in 1..Len(executed') : ticket'[executed'[j]] > 0
  <2>1. \A j \in 1..Len(executed) : ticket[executed[j]] > 0
    BY DEF OrderInv
  <2> QED BY <1>1, <1>3, <1>4, <1>5, <2>1
<1>8. ExecutedInOrder'
  <2> SUFFICES ASSUME NEW i \in 1..Len(executed'), NEW j \in 1..Len(executed'), i < j
               PROVE  ticket[executed'[i]] < ticket[executed'[j]]
    BY <1>1 DEF ExecutedInOrder
  <2>1. i \in 1..Len(executed)
    BY <1>3, <1>4
  <2>2. CASE j \in 1..Len(executed)
    BY <1>3, <2>1, <2>2 DEF OrderInv, ExecutedInOrder
  <2>3. CASE j = Len(executed) + 1
    BY <1>3, <1>5, <2>1, <2>3
  <2> QED BY <1>4, <2>2, <2>3
<1> QED BY <1>1, <1>6, <1>7, <1>8 DEF OrderInv

(* Every step keeps the order of the tickets.                              *)
LEMMA OrderStep == TypeOK /\ OrderInv /\ [Next]_vars => OrderInv'
<1> SUFFICES ASSUME TypeOK /\ OrderInv, [Next]_vars PROVE OrderInv'
  OBVIOUS
<1> USE NoCallAssumption DEF TypeOK, cmdVars, callVars, drainVars, serverVars, orderVars, runVars,
           CallPoints, MainPoints, Payloads, Outcomes, Refusals, NoOutcome,
           OrderInv, ExecutedInOrder
<1>1. ASSUME NEW c \in Calls, Enter(c) PROVE OrderInv'
  BY <1>1 DEF Enter, GoTo, Return
<1>2. ASSUME NEW c \in Calls, Push(c) PROVE OrderInv'
  <2>1. CASE QueueIsFull
    <3>1. pc' = [pc EXCEPT ![c] = "done"] /\ UNCHANGED <<queue, arrivals, ticket>>
      BY <1>2, <2>1 DEF Push, Return, GoTo
    <3> QED BY <1>2, <3>1 DEF Push
  <2>2. CASE ~QueueIsFull
    BY <1>2, <2>2, PushOrder
  <2> QED BY <2>1, <2>2
<1>3. ASSUME NEW c \in Calls, NotifyDrainer(c) PROVE OrderInv'
  BY <1>3 DEF NotifyDrainer, GoTo
<1>4. ASSUME NEW c \in Calls, Check(c) PROVE OrderInv'
  BY <1>4 DEF Check, GoTo
<1>5. ASSUME NEW c \in Calls, WakeUp(c) PROVE OrderInv'
  BY <1>5 DEF WakeUp, GoTo
<1>6. ASSUME NEW c \in Calls, Expire(c) PROVE OrderInv'
  BY <1>6 DEF Expire, GoTo
<1>7. ASSUME NEW c \in Calls, Erase(c) PROVE OrderInv'
  BY <1>7, EraseOrder
<1>8. ASSUME NEW c \in Calls, Leave(c) PROVE OrderInv'
  BY <1>8 DEF Leave, GoTo, Return, IsErrorText
<1>9. CASE Start
  BY <1>9 DEF Start
<1>10. CASE Listen
  BY <1>10 DEF Listen
<1>11. CASE DrainTop
  BY <1>11 DEF DrainTop
<1>12. CASE Take
  <2>1. CASE PopFront
    BY <1>12, <2>1, PopOrder DEF Take
  <2>2. CASE ~PopFront
    <3>1. UNCHANGED <<queue, dcmd, swapped, executed, arrivals, ticket, pc>>
          /\ dpc' \notin {"admit", "execute"}
      BY <1>12, <2>2 DEF Take
    <3> QED BY <3>1
  <2> QED BY <2>1, <2>2
<1>13. CASE PollEnds
  <2>1. CASE PopFront
    BY <1>13, <2>1, PopOrder DEF PollEnds
  <2>2. CASE ~PopFront
    <3>1. UNCHANGED <<queue, dcmd, swapped, executed, arrivals, ticket, pc>>
          /\ dpc' \notin {"admit", "execute"}
      BY <1>13, <2>2 DEF PollEnds
    <3> QED BY <3>1
  <2> QED BY <2>1, <2>2
<1>14. CASE Admit
  BY <1>14 DEF Admit
<1>15. CASE Execute
  BY <1>15, ExecuteOrder
<1>16. CASE Publish
  BY <1>16 DEF Publish
<1>17. CASE NotifyCall
  BY <1>17 DEF NotifyCall, Woken
<1>18. CASE Stop
  BY <1>18 DEF Stop
<1>19. CASE Swap
  BY <1>19 DEF Swap
<1>20. CASE CompleteOne
  BY <1>20 DEF CompleteOne
<1>21. CASE WakeOne
  BY <1>21 DEF WakeOne, Woken
<1>22. CASE StopTransport
  BY <1>22 DEF StopTransport
<1>23. CASE JoinTransport
  BY <1>23 DEF JoinTransport
<1>24. CASE Destroy
  BY <1>24 DEF Destroy
<1>25. CASE Interrupt
  BY <1>25 DEF Interrupt
<1>26. CASE UNCHANGED vars
  BY <1>26 DEF vars
<1> QED
  BY <1>1, <1>2, <1>3, <1>4, <1>5, <1>6, <1>7, <1>8, <1>9, <1>10, <1>11, <1>12,
     <1>13, <1>14, <1>15, <1>16, <1>17, <1>18, <1>19, <1>20, <1>21, <1>22, <1>23, <1>24,
     <1>25, <1>26
  DEF Next, CallStep, MainStep, Finished

(* A call that returns or moves keeps CanceledFlags unless it was canceled. *)
LEMMA CanceledKept ==
    ASSUME CanceledFlags, NEW c \in Calls, ~canceled[c], UNCHANGED canceled,
           \A d \in Calls : d # c => pc'[d] = pc[d] /\ reply'[d] = reply[d]
    PROVE  CanceledFlags'
BY DEF CanceledFlags

(* An admitted command is started and not completed.                       *)
LEMMA AdmitFlags ==
    ASSUME TypeOK, Admit, dpc' = "execute"
    PROVE  started'[dcmd'] /\ ~completed'[dcmd']
<1>1. /\ dcmd \in Calls /\ dcmd' = dcmd /\ ~completed[dcmd] /\ ~canceled[dcmd]
      /\ started' = [started EXCEPT ![dcmd] = TRUE]
      /\ completed' = [completed EXCEPT ![dcmd] = FALSE]
  <2>1. dcmd \in Calls /\ dcmd' = dcmd /\ ~completed[dcmd] /\ ~canceled[dcmd]
    BY DEF Admit, TypeOK
  <2>2. started' = [started EXCEPT ![dcmd] = started[dcmd] \/ TRUE]
    BY <2>1, Zenon DEF Admit
  <2> QED BY <2>1, <2>2 DEF Admit, TypeOK
<1> QED BY <1>1 DEF TypeOK

(* Every step keeps the flags of the commands consistent.                  *)
LEMMA FlagsStep == TypeOK /\ ServerInv /\ OrderInv /\ FlagsInv /\ ReplyInv /\ [Next]_vars => FlagsInv'
<1> SUFFICES ASSUME TypeOK /\ ServerInv /\ OrderInv /\ FlagsInv /\ ReplyInv, [Next]_vars PROVE FlagsInv'
  OBVIOUS
<1> USE NoCallAssumption DEF TypeOK, cmdVars, callVars, drainVars, serverVars, orderVars, runVars,
           CallPoints, MainPoints, Payloads, Outcomes, Refusals, NoOutcome,
           ServerInv, Draining, OrderInv, FlagsInv, ReplyInv,
           AnsweredWhenDone, WayOut, OutcomeReply, RefusalReply, NotRunningMeansInterrupted,
           Exclusive, StartedBySeq, DrainerFlags, StartedFlags, NotStartedFlags, StoppedFlags, CanceledFlags
<1>1. ASSUME NEW c \in Calls, Enter(c) PROVE FlagsInv'
  <2>1. ~canceled[c] /\ pc[c] = "idle" /\ UNCHANGED canceled
    BY <1>1 DEF Enter
  <2>2. \A d \in Calls : d # c => pc'[d] = pc[d] /\ reply'[d] = reply[d]
    BY <1>1 DEF Enter, Return, GoTo
  <2>3. CanceledFlags'
    <3> HIDE DEF CanceledFlags
    <3> QED BY <2>1, <2>2, CanceledKept
  <2>4. Exclusive'
    BY <1>1 DEF Enter, GoTo, Return
  <2>5. StartedBySeq'
    BY <1>1 DEF Enter, GoTo, Return
  <2>6. DrainerFlags'
    BY <1>1 DEF Enter, GoTo, Return
  <2>7. StartedFlags'
    BY <1>1 DEF Enter, GoTo, Return
  <2>8. NotStartedFlags'
    BY <1>1 DEF Enter, GoTo, Return
  <2>9. StoppedFlags'
    BY <1>1 DEF Enter, GoTo, Return
  <2> QED BY <2>3, <2>4, <2>5, <2>6, <2>7, <2>8, <2>9
<1>2. ASSUME NEW c \in Calls, Push(c) PROVE FlagsInv'
  <2>1. ~started[c] /\ ~canceled[c] /\ pc[c] = "push" /\ UNCHANGED <<started, canceled>>
    BY <1>2 DEF Push
  <2>2. \A i \in 1..Len(queue') : ~started[queue'[i]]
    <3>1. \A i \in 1..Len(queue) : queue[i] \in {d \in Calls : ~started[d]}
      OBVIOUS
    <3>2. c \in Calls \cap {d \in Calls : ~started[d]}
      BY <2>1
    <3>3. CASE UNCHANGED queue
      BY <3>1, <3>3
    <3>4. CASE queue' = Append(queue, c)
      <4>1. \A i \in 1..Len(Append(queue, c)) : Append(queue, c)[i] \in {d \in Calls : ~started[d]}
        BY <3>1, <3>2, AllIn
      <4> QED BY <3>4, <4>1
    <3> QED BY <1>2, <3>3, <3>4 DEF Push
  <2>3. \A d \in Calls : started[d] => ticket'[d] = ticket[d]
    <3>1. ticket' = ticket \/ ticket' = [ticket EXCEPT ![c] = arrivals + 1]
      BY <1>2 DEF Push
    <3> QED BY <2>1, <3>1
  <2>4. \A d \in Calls : d # c => pc'[d] = pc[d] /\ reply'[d] = reply[d]
    BY <1>2 DEF Push, Return, GoTo
  <2>5. StartedBySeq'
    BY <1>2, <2>2 DEF Push
  <2>6. StartedFlags'
    BY <1>2, <2>3 DEF Push
  <2>7. CanceledFlags'
    <3> HIDE DEF CanceledFlags
    <3> QED BY <2>1, <2>4, CanceledKept
  <2>8. Exclusive'
    BY <1>2 DEF Push, GoTo, Return
  <2>9. DrainerFlags'
    BY <1>2 DEF Push, GoTo, Return
  <2>10. NotStartedFlags'
    BY <1>2 DEF Push, GoTo, Return
  <2>11. StoppedFlags'
    BY <1>2 DEF Push, GoTo, Return
  <2> QED BY <2>5, <2>6, <2>7, <2>8, <2>9, <2>10, <2>11
<1>3. ASSUME NEW c \in Calls, NotifyDrainer(c) PROVE FlagsInv'
  BY <1>3 DEF NotifyDrainer, GoTo
<1>4. ASSUME NEW c \in Calls, Check(c) PROVE FlagsInv'
  BY <1>4 DEF Check, GoTo
<1>5. ASSUME NEW c \in Calls, WakeUp(c) PROVE FlagsInv'
  BY <1>5 DEF WakeUp, GoTo
<1>6. ASSUME NEW c \in Calls, Expire(c) PROVE FlagsInv'
  <2>1. CASE UNCHANGED canceled /\ pc' = [pc EXCEPT ![c] = "check"]
    BY <1>6, <2>1 DEF Expire
  <2>2. CASE /\ ~completed[c] /\ ~started[c] /\ canceled' = [canceled EXCEPT ![c] = TRUE]
             /\ pc' = [pc EXCEPT ![c] = "erase"]
    BY <1>6, <2>2 DEF Expire
  <2> QED BY <1>6, <2>1, <2>2 DEF Expire, GoTo
<1>7. ASSUME NEW c \in Calls, Erase(c) PROVE FlagsInv'
  <2>1. \A i \in 1..Len(queue') : ~started[queue'[i]]
    <3>1. \A i \in 1..Len(queue) : queue[i] \in {d \in Calls : ~started[d]}
      OBVIOUS
    <3>2. CASE UNCHANGED queue
      BY <3>2
    <3>3. ASSUME NEW k \in 1..Len(queue), queue' = RemoveAt(queue, k)
          PROVE  \A i \in 1..Len(queue') : queue'[i] \in {d \in Calls : ~started[d]}
      BY <3>1, <3>3, AllIn
    <3> QED BY <1>7, <3>2, <3>3 DEF Erase
  <2>2. StartedBySeq'
    BY <1>7, <2>1 DEF Erase
  <2>3. Exclusive'
    BY <1>7 DEF Erase, GoTo, Return
  <2>4. DrainerFlags'
    BY <1>7 DEF Erase, GoTo, Return
  <2>5. StartedFlags'
    BY <1>7 DEF Erase, GoTo, Return
  <2>6. NotStartedFlags'
    BY <1>7 DEF Erase, GoTo, Return
  <2>7. StoppedFlags'
    BY <1>7 DEF Erase, GoTo, Return
  <2>8. CanceledFlags'
    BY <1>7 DEF Erase, GoTo, Return
  <2> QED BY <2>2, <2>3, <2>4, <2>5, <2>6, <2>7, <2>8
<1>8. ASSUME NEW c \in Calls, Leave(c) PROVE FlagsInv'
  <2>1. ~canceled[c] /\ UNCHANGED canceled
    BY <1>8 DEF Leave
  <2>2. \A d \in Calls : d # c => pc'[d] = pc[d] /\ reply'[d] = reply[d]
    BY <1>8 DEF Leave, Return, GoTo
  <2>3. CanceledFlags'
    <3> HIDE DEF CanceledFlags
    <3> QED BY <2>1, <2>2, CanceledKept
  <2>4. Exclusive'
    BY <1>8 DEF Leave, GoTo, Return, IsErrorText
  <2>5. StartedBySeq'
    BY <1>8 DEF Leave, GoTo, Return, IsErrorText
  <2>6. DrainerFlags'
    BY <1>8 DEF Leave, GoTo, Return, IsErrorText
  <2>7. StartedFlags'
    BY <1>8 DEF Leave, GoTo, Return, IsErrorText
  <2>8. NotStartedFlags'
    BY <1>8 DEF Leave, GoTo, Return, IsErrorText
  <2>9. StoppedFlags'
    BY <1>8 DEF Leave, GoTo, Return, IsErrorText
  <2> QED BY <2>3, <2>4, <2>5, <2>6, <2>7, <2>8, <2>9
<1>9. CASE Start
  BY <1>9 DEF Start
<1>10. CASE Listen
  BY <1>10 DEF Listen
<1>11. CASE DrainTop
  BY <1>11 DEF DrainTop
<1>12. CASE Take
  <2>1. ASSUME PopFront
        PROVE  \A i \in 1..Len(queue') : ~started[queue'[i]]
    BY <2>1, TailFacts DEF PopFront
  <2>2. StartedBySeq'
    BY <1>12, <2>1 DEF Take
  <2>3. Exclusive'
    BY <1>12 DEF Take, PopFront
  <2>4. DrainerFlags'
    BY <1>12 DEF Take, PopFront
  <2>5. StartedFlags'
    BY <1>12 DEF Take, PopFront
  <2>6. NotStartedFlags'
    BY <1>12 DEF Take, PopFront
  <2>7. StoppedFlags'
    BY <1>12 DEF Take, PopFront
  <2>8. CanceledFlags'
    BY <1>12 DEF Take, PopFront
  <2> QED BY <2>2, <2>3, <2>4, <2>5, <2>6, <2>7, <2>8
<1>13. CASE PollEnds
  <2>1. ASSUME PopFront
        PROVE  \A i \in 1..Len(queue') : ~started[queue'[i]]
    BY <2>1, TailFacts DEF PopFront
  <2>2. StartedBySeq'
    BY <1>13, <2>1 DEF PollEnds
  <2>3. Exclusive'
    BY <1>13 DEF PollEnds, PopFront
  <2>4. DrainerFlags'
    BY <1>13 DEF PollEnds, PopFront
  <2>5. StartedFlags'
    BY <1>13 DEF PollEnds, PopFront
  <2>6. NotStartedFlags'
    BY <1>13 DEF PollEnds, PopFront
  <2>7. StoppedFlags'
    BY <1>13 DEF PollEnds, PopFront
  <2>8. CanceledFlags'
    BY <1>13 DEF PollEnds, PopFront
  <2> QED BY <2>2, <2>3, <2>4, <2>5, <2>6, <2>7, <2>8
<1>14. CASE Admit
  <2>1. swapped = <<>> /\ \A i \in 1..Len(queue) : queue[i] # dcmd
    BY <1>14 DEF Admit
  <2>2. dpc' = "execute" => started'[dcmd] /\ ~completed'[dcmd]
    BY <1>14, AdmitFlags DEF Admit
  <2>3. StartedBySeq'
    BY <1>14, <2>1 DEF Admit
  <2>4. DrainerFlags'
    BY <1>14, <2>2 DEF Admit
  <2>5. Exclusive'
    BY <1>14 DEF Admit
  <2>6. StartedFlags'
    BY <1>14 DEF Admit
  <2>7. NotStartedFlags'
    BY <1>14 DEF Admit
  <2>8. StoppedFlags'
    BY <1>14 DEF Admit
  <2>9. CanceledFlags'
    BY <1>14 DEF Admit
  <2> QED BY <2>3, <2>4, <2>5, <2>6, <2>7, <2>8, <2>9
<1>15. CASE Execute
  <2>1. \A x : x \in ToSet(executed') <=> x \in ToSet(executed) \/ x = dcmd
    BY <1>15, ToSetFacts DEF Execute
  <2>2. \A i \in 1..Len(executed') : started[executed'[i]]
    <3>1. \A i \in 1..Len(executed) : executed[i] \in {d \in Calls : started[d]}
      OBVIOUS
    <3>2. executed' = Append(executed, dcmd) /\ dcmd \in Calls \cap {d \in Calls : started[d]}
      BY <1>15 DEF Execute
    <3> QED BY <3>1, <3>2, AllIn
  <2>3. StartedBySeq'
    BY <1>15, <2>2 DEF Execute
  <2>4. StartedFlags'
    BY <1>15, <2>1 DEF Execute
  <2>5. DrainerFlags'
    BY <1>15, <2>1 DEF Execute
  <2>6. Exclusive'
    BY <1>15 DEF Execute
  <2>7. NotStartedFlags'
    BY <1>15 DEF Execute
  <2>8. StoppedFlags'
    BY <1>15 DEF Execute
  <2>9. CanceledFlags'
    BY <1>15 DEF Execute
  <2> QED BY <2>3, <2>4, <2>5, <2>6, <2>7, <2>8, <2>9
<1>16. CASE Publish
  <2>1. /\ dcmd \in Calls /\ started[dcmd] /\ ~completed[dcmd] /\ dpc' = "notify"
        /\ completed' = [completed EXCEPT ![dcmd] = TRUE]
        /\ result' = [result EXCEPT ![dcmd] = dresult]
        /\ UNCHANGED <<started, canceled, ticket, pc, reply, running, queue, swapped,
                       executed, outcome, dcmd, dresult>>
    BY <1>16 DEF Publish
  <2>2. Exclusive'
    BY <1>16, <2>1 DEF Publish
  <2>3. StartedBySeq'
    BY <1>16, <2>1 DEF Publish
  <2>4. DrainerFlags'
    BY <1>16, <2>1 DEF Publish
  <2>5. StartedFlags'
    BY <1>16, <2>1 DEF Publish
  <2>6. NotStartedFlags'
    BY <1>16, <2>1 DEF Publish
  <2>7. StoppedFlags'
    BY <1>16, <2>1 DEF Publish
  <2>8. CanceledFlags'
    BY <1>16, <2>1 DEF Publish
  <2> QED BY <2>2, <2>3, <2>4, <2>5, <2>6, <2>7, <2>8
<1>17. CASE NotifyCall
  BY <1>17 DEF NotifyCall, Woken
<1>18. CASE Stop
  BY <1>18 DEF Stop
<1>19. CASE Swap
  BY <1>19 DEF Swap
<1>20. CASE CompleteOne
  <2>1. Head(swapped) \in Calls /\ ~started[Head(swapped)] /\ ticket[Head(swapped)] > 0
    BY <1>20, TailFacts DEF CompleteOne
  <2>2. \A d \in Calls : started[d] =>
           completed[d] /\ completed'[d] = completed[d] /\ result'[d] = result[d]
    BY <1>20, <2>1 DEF CompleteOne
  <2>3. StartedBySeq'
    BY <1>20, TailFacts DEF CompleteOne
  <2>4. StartedFlags'
    BY <1>20, <2>1, <2>2 DEF CompleteOne
  <2>5. StoppedFlags'
    BY <1>20, <2>1 DEF CompleteOne
  <2>6. Exclusive'
    BY <1>20 DEF CompleteOne
  <2>7. DrainerFlags'
    BY <1>20 DEF CompleteOne
  <2>8. NotStartedFlags'
    BY <1>20 DEF CompleteOne
  <2>9. CanceledFlags'
    BY <1>20 DEF CompleteOne
  <2> QED BY <2>3, <2>4, <2>5, <2>6, <2>7, <2>8, <2>9
<1>21. CASE WakeOne
  BY <1>21 DEF WakeOne, Woken
<1>22. CASE StopTransport
  BY <1>22 DEF StopTransport
<1>23. CASE JoinTransport
  BY <1>23 DEF JoinTransport
<1>24. CASE Destroy
  BY <1>24 DEF Destroy
<1>25. CASE Interrupt
  BY <1>25 DEF Interrupt
<1>26. CASE UNCHANGED vars
  BY <1>26 DEF vars
<1> QED
  BY <1>1, <1>2, <1>3, <1>4, <1>5, <1>6, <1>7, <1>8, <1>9, <1>10, <1>11, <1>12,
     <1>13, <1>14, <1>15, <1>16, <1>17, <1>18, <1>19, <1>20, <1>21, <1>22, <1>23, <1>24,
     <1>25, <1>26
  DEF Next, CallStep, MainStep, Finished

(* A step of one call keeps the answers if that call's new answer is right. *)
LEMMA ReplyOne ==
    ASSUME ReplyInv, NEW c \in Calls,
           \A d \in Calls : d # c =>
               pc'[d] = pc[d] /\ reply'[d] = reply[d] /\ ticket'[d] = ticket[d],
           UNCHANGED <<started, canceled, completed, result, running, interrupted>>,
           pc'[c] # "done" <=> reply'[c].payload = NoOutcome,
           pc'[c] = "erase" => canceled[c],
           pc'[c] = "leave" => completed[c] \/ ~running,
           reply'[c].payload \in Outcomes =>
               started[c] /\ completed[c] /\ reply'[c].payload = result[c],
           reply'[c].payload \in Refusals =>
               ~started[c] /\ (canceled[c] \/ ~running \/ ticket'[c] = 0),
           reply'[c].payload \in {"not_running", "stopped"} => interrupted
    PROVE  ReplyInv'
<1>1. AnsweredWhenDone'
  BY DEF ReplyInv, AnsweredWhenDone
<1>2. WayOut'
  BY DEF ReplyInv, WayOut
<1>3. OutcomeReply'
  BY DEF ReplyInv, OutcomeReply
<1>4. RefusalReply'
  BY DEF ReplyInv, RefusalReply
<1>5. NotRunningMeansInterrupted'
  BY DEF ReplyInv, NotRunningMeansInterrupted
<1> QED BY <1>1, <1>2, <1>3, <1>4, <1>5 DEF ReplyInv

(* Entering: the call starts to wait or is told the server is not running. *)
LEMMA EnterReply ==
    ASSUME TypeOK, ServerInv, OrderInv, FlagsInv, ReplyInv, NEW c \in Calls, Enter(c)
    PROVE  ReplyInv'
<1>1. /\ pc[c] = "idle" /\ transport = "listening"
      /\ UNCHANGED <<ticket, started, canceled, completed, result, running, interrupted>>
  BY DEF Enter, serverVars, cmdVars, orderVars
<1>2. /\ ticket[c] = 0 /\ ~started[c] /\ (~running => interrupted)
      /\ reply[c].payload = NoOutcome
  BY <1>1 DEF OrderInv, FlagsInv, StartedFlags, ServerInv, ReplyInv, AnsweredWhenDone
<1>3. CASE running
  <2>1. pc' = [pc EXCEPT ![c] = "push"] /\ reply' = reply
    BY <1>3 DEF Enter, GoTo
  <2>2. pc'[c] = "push" /\ \A d \in Calls : d # c => pc'[d] = pc[d]
    BY <2>1 DEF TypeOK
  <2> QED BY <1>1, <1>2, <2>1, <2>2, ReplyOne DEF Refusals, Outcomes, NoOutcome
<1>4. CASE ~running
  <2>1. Return(c, FALSE, "not_running")
    BY <1>4 DEF Enter
  <2>2. /\ pc'[c] = "done" /\ reply'[c].payload = "not_running"
        /\ \A d \in Calls : d # c => pc'[d] = pc[d] /\ reply'[d] = reply[d]
    BY <2>1, ReturnType DEF Payloads, Refusals
  <2> QED BY <1>1, <1>2, <1>4, <2>2, ReplyOne DEF Refusals, Outcomes, NoOutcome
<1> QED BY <1>3, <1>4

(* Pushing: the command is queued or the call is told the queue is full.   *)
LEMMA PushReply ==
    ASSUME TypeOK, ServerInv, OrderInv, FlagsInv, ReplyInv, NEW c \in Calls, Push(c)
    PROVE  ReplyInv'
<1>1. /\ pc[c] = "push"
      /\ UNCHANGED <<started, canceled, completed, result, running, interrupted>>
  BY DEF Push, serverVars, cmdVars
<1>2. ticket[c] = 0 /\ ~started[c] /\ reply[c].payload = NoOutcome
  BY <1>1 DEF OrderInv, FlagsInv, StartedFlags, ReplyInv, AnsweredWhenDone
<1>3. CASE QueueIsFull
  <2>1. Return(c, FALSE, "full") /\ UNCHANGED ticket
    BY <1>3 DEF Push, orderVars
  <2>2. /\ pc'[c] = "done" /\ reply'[c].payload = "full"
        /\ \A d \in Calls : d # c => pc'[d] = pc[d] /\ reply'[d] = reply[d]
    BY <2>1, ReturnType DEF Payloads, Refusals
  <2> QED BY <1>1, <1>2, <2>1, <2>2, ReplyOne DEF Refusals, Outcomes, NoOutcome
<1>4. CASE ~QueueIsFull
  <2>1. /\ pc' = [pc EXCEPT ![c] = "notify"] /\ reply' = reply
        /\ ticket' = [ticket EXCEPT ![c] = arrivals + 1]
    BY <1>4 DEF Push, GoTo
  <2>2. /\ pc'[c] = "notify"
        /\ \A d \in Calls : d # c => pc'[d] = pc[d] /\ ticket'[d] = ticket[d]
    BY <2>1 DEF TypeOK
  <2> QED BY <1>1, <1>2, <2>1, <2>2, ReplyOne DEF Refusals, Outcomes, NoOutcome
<1> QED BY <1>3, <1>4

(* An expired call is told so; its command is canceled, so not started.    *)
LEMMA EraseReply ==
    ASSUME TypeOK, FlagsInv, ReplyInv, NEW c \in Calls, Erase(c)
    PROVE  ReplyInv'
<1>1. /\ pc[c] = "erase" /\ Return(c, FALSE, "timed_out")
      /\ UNCHANGED <<ticket, started, canceled, completed, result, running, interrupted>>
  BY DEF Erase, serverVars, cmdVars, orderVars
<1>2. canceled[c] /\ ~started[c]
  BY <1>1 DEF ReplyInv, WayOut, FlagsInv, Exclusive
<1>3. /\ pc'[c] = "done" /\ reply'[c].payload = "timed_out"
      /\ \A d \in Calls : d # c => pc'[d] = pc[d] /\ reply'[d] = reply[d]
  BY <1>1, ReturnType DEF Payloads, Refusals
<1> QED BY <1>1, <1>2, <1>3, ReplyOne DEF Refusals, Outcomes, NoOutcome

(* A call that leaves its waits reads the result, or the stop.             *)
LEMMA LeaveReply ==
    ASSUME TypeOK, ServerInv, FlagsInv, ReplyInv, NEW c \in Calls, Leave(c)
    PROVE  ReplyInv'
<1>1. /\ pc[c] = "leave"
      /\ UNCHANGED <<ticket, started, canceled, completed, result, running, interrupted>>
  BY DEF Leave, serverVars, cmdVars, orderVars
<1>2. ~canceled[c] /\ (completed[c] \/ ~running)
  BY <1>1 DEF FlagsInv, CanceledFlags, ReplyInv, WayOut
<1>3. ~running => interrupted
  BY <1>1 DEF ServerInv, TypeOK
<1>4. CASE completed[c]
  <2>1. \E ok \in BOOLEAN : Return(c, ok, result[c])
    BY <1>4 DEF Leave, IsErrorText
  <2>2. /\ pc'[c] = "done" /\ reply'[c].payload = result[c]
        /\ \A d \in Calls : d # c => pc'[d] = pc[d] /\ reply'[d] = reply[d]
    BY <2>1, ReturnType DEF TypeOK
  <2>3. CASE started[c]
    <3>1. result[c] \in Outcomes
      BY <1>4, <2>3 DEF FlagsInv, StartedFlags
    <3> QED BY <1>1, <1>4, <2>2, <2>3, <3>1, ReplyOne DEF Refusals, Outcomes, NoOutcome
  <2>4. CASE ~started[c]
    <3>1. result[c] = "stopped" /\ ~running
      BY <1>2, <1>4, <2>4 DEF FlagsInv, NotStartedFlags, StoppedFlags
    <3> QED BY <1>1, <1>3, <2>2, <2>4, <3>1, ReplyOne DEF Refusals, Outcomes, NoOutcome
  <2> QED BY <2>3, <2>4
<1>5. CASE ~completed[c]
  <2>1. ~running /\ Return(c, FALSE, "stopped")
    BY <1>2, <1>5 DEF Leave
  <2>2. /\ pc'[c] = "done" /\ reply'[c].payload = "stopped"
        /\ \A d \in Calls : d # c => pc'[d] = pc[d] /\ reply'[d] = reply[d]
    BY <2>1, ReturnType DEF Payloads, Refusals
  <2>3. ~started[c]
    BY <1>5, <2>1 DEF FlagsInv, StartedFlags, ServerInv, Draining
  <2> QED BY <1>1, <1>3, <2>1, <2>2, <2>3, ReplyOne DEF Refusals, Outcomes, NoOutcome
<1> QED BY <1>4, <1>5

(* Every step keeps the answers consistent with the commands.              *)
LEMMA ReplyStep == TypeOK /\ ServerInv /\ OrderInv /\ FlagsInv /\ ReplyInv /\ [Next]_vars => ReplyInv'
<1> SUFFICES ASSUME TypeOK /\ ServerInv /\ OrderInv /\ FlagsInv /\ ReplyInv, [Next]_vars PROVE ReplyInv'
  OBVIOUS
<1> USE NoCallAssumption DEF TypeOK, cmdVars, callVars, drainVars, serverVars, orderVars, runVars,
           CallPoints, MainPoints, Payloads, Outcomes, Refusals, NoOutcome,
           ServerInv, Draining, OrderInv, FlagsInv, ReplyInv,
           Exclusive, StartedBySeq, DrainerFlags, StartedFlags, NotStartedFlags,
           StoppedFlags, CanceledFlags,
           AnsweredWhenDone, WayOut, OutcomeReply, RefusalReply, NotRunningMeansInterrupted
<1>1. ASSUME NEW c \in Calls, Enter(c) PROVE ReplyInv'
  BY <1>1, EnterReply
<1>2. ASSUME NEW c \in Calls, Push(c) PROVE ReplyInv'
  BY <1>2, PushReply
<1>3. ASSUME NEW c \in Calls, NotifyDrainer(c) PROVE ReplyInv'
  BY <1>3 DEF NotifyDrainer, GoTo
<1>4. ASSUME NEW c \in Calls, Check(c) PROVE ReplyInv'
  BY <1>4 DEF Check, GoTo
<1>5. ASSUME NEW c \in Calls, WakeUp(c) PROVE ReplyInv'
  BY <1>5 DEF WakeUp, GoTo
<1>6. ASSUME NEW c \in Calls, Expire(c) PROVE ReplyInv'
  <2>1. CASE UNCHANGED canceled /\ pc' = [pc EXCEPT ![c] = "check"]
    BY <1>6, <2>1 DEF Expire
  <2>2. CASE /\ ~completed[c] /\ ~started[c] /\ canceled' = [canceled EXCEPT ![c] = TRUE]
             /\ pc' = [pc EXCEPT ![c] = "erase"]
    BY <1>6, <2>2 DEF Expire
  <2> QED BY <1>6, <2>1, <2>2 DEF Expire, GoTo
<1>7. ASSUME NEW c \in Calls, Erase(c) PROVE ReplyInv'
  BY <1>7, EraseReply
<1>8. ASSUME NEW c \in Calls, Leave(c) PROVE ReplyInv'
  BY <1>8, LeaveReply
<1>9. CASE Start
  BY <1>9 DEF Start
<1>10. CASE Listen
  BY <1>10 DEF Listen
<1>11. CASE DrainTop
  BY <1>11 DEF DrainTop
<1>12. CASE Take
  BY <1>12 DEF Take, PopFront
<1>13. CASE PollEnds
  BY <1>13 DEF PollEnds, PopFront
<1>14. CASE Admit
  BY <1>14 DEF Admit
<1>15. CASE Execute
  BY <1>15 DEF Execute
<1>16. CASE Publish
  <2>1. /\ dcmd \in Calls /\ started[dcmd] /\ ~completed[dcmd]
        /\ UNCHANGED <<pc, reply, started, ticket, canceled, running, interrupted>>
        /\ \A d \in Calls : completed[d] => completed'[d] /\ result'[d] = result[d]
    BY <1>16 DEF Publish
  <2> QED BY <2>1
<1>17. CASE NotifyCall
  BY <1>17 DEF NotifyCall, Woken
<1>18. CASE Stop
  BY <1>18 DEF Stop
<1>19. CASE Swap
  BY <1>19 DEF Swap
<1>20. CASE CompleteOne
  BY <1>20 DEF CompleteOne
<1>21. CASE WakeOne
  BY <1>21 DEF WakeOne, Woken
<1>22. CASE StopTransport
  BY <1>22 DEF StopTransport
<1>23. CASE JoinTransport
  BY <1>23 DEF JoinTransport
<1>24. CASE Destroy
  BY <1>24 DEF Destroy
<1>25. CASE Interrupt
  BY <1>25 DEF Interrupt
<1>26. CASE UNCHANGED vars
  BY <1>26 DEF vars
<1> QED
  BY <1>1, <1>2, <1>3, <1>4, <1>5, <1>6, <1>7, <1>8, <1>9, <1>10, <1>11, <1>12,
     <1>13, <1>14, <1>15, <1>16, <1>17, <1>18, <1>19, <1>20, <1>21, <1>22, <1>23, <1>24,
     <1>25, <1>26
  DEF Next, CallStep, MainStep, Finished

-----------------------------------------------------------------------------
(* No step loses a sleeper: a command moves from the queue to the drainer  *)
(* or to stop, and leaves their hands only with a notification.            *)
LEMMA WatchStep == TypeOK /\ ServerInv /\ WatchInv /\ [Next]_vars => WatchInv'
<1> SUFFICES ASSUME TypeOK, ServerInv, WatchInv, [Next]_vars PROVE WatchInv'
  OBVIOUS
<1> USE NoCallAssumption DEF cmdVars, callVars, drainVars, serverVars, orderVars, runVars
<1>0. /\ queue \in Seq(Calls) /\ swapped \in Seq(Calls) /\ dpc \in MainPoints
      /\ pc \in [Calls -> CallPoints] /\ completed \in [Calls -> BOOLEAN]
      /\ dpc \in {"admit", "execute", "publish", "notify", "wake"} => dcmd \in Calls
  BY DEF TypeOK
<1>1. ASSUME NEW c \in Calls, Enter(c) PROVE WatchInv'
  BY <1>0, <1>1 DEF Enter, GoTo, Return, WatchInv, Watched
<1>2. ASSUME NEW c \in Calls, Push(c) PROVE WatchInv'
  <2>1. CASE UNCHANGED queue /\ Return(c, FALSE, "full")
    BY <1>0, <1>2, <2>1 DEF Push, GoTo, Return, WatchInv, Watched
  <2>2. ASSUME GoTo(c, "notify"), queue' = Append(queue, c) PROVE WatchInv'
    <3>1. \A d : d \in ToSet(queue') <=> d \in ToSet(queue) \/ d = c
      BY <1>0, <2>2, ToSetFacts
    <3>2. UNCHANGED <<dpc, dcmd, swapped, completed, running>>
      BY <1>2 DEF Push
    <3>3. dpc \in {"complete", "wake", "join", "stopped"} => ~running
      BY DEF ServerInv
    <3> QED BY <1>0, <2>2, <3>1, <3>2, <3>3 DEF GoTo, WatchInv, Watched
  <2> QED BY <1>2, <2>1, <2>2 DEF Push
<1>3. ASSUME NEW c \in Calls, NotifyDrainer(c) PROVE WatchInv'
  BY <1>0, <1>3 DEF NotifyDrainer, GoTo, WatchInv, Watched
<1>4. ASSUME NEW c \in Calls, Check(c) PROVE WatchInv'
  BY <1>0, <1>4 DEF Check, GoTo, WatchInv, Watched
<1>5. ASSUME NEW c \in Calls, WakeUp(c) PROVE WatchInv'
  BY <1>0, <1>5 DEF WakeUp, GoTo, WatchInv, Watched
<1>6. ASSUME NEW c \in Calls, Expire(c) PROVE WatchInv'
  BY <1>0, <1>6 DEF Expire, GoTo, WatchInv, Watched
<1>7. ASSUME NEW c \in Calls, Erase(c) PROVE WatchInv'
  <2>1. /\ pc' = [pc EXCEPT ![c] = "done"]
        /\ UNCHANGED <<dpc, dcmd, swapped, completed, running>>
    BY <1>7 DEF Erase, Return, GoTo
  <2>2. \A d \in Calls : d # c /\ d \in ToSet(queue) => d \in ToSet(queue')
    BY <1>0, <1>7, RemovedFacts DEF Erase
  <2> QED BY <1>0, <2>1, <2>2 DEF WatchInv, Watched
<1>8. ASSUME NEW c \in Calls, Leave(c) PROVE WatchInv'
  BY <1>0, <1>8 DEF Leave, GoTo, Return, WatchInv, Watched
<1>9. CASE Start
  BY <1>0, <1>9 DEF Start, ServerInv, WatchInv, Watched
<1>10. CASE Listen
  BY <1>0, <1>10 DEF Listen, WatchInv, Watched
<1>11. CASE DrainTop
  BY <1>0, <1>11 DEF DrainTop, WatchInv, Watched
<1>12. ASSUME PopFront, dpc \in {"take", "asleep"},
              UNCHANGED <<pc, completed, running, swapped>>
       PROVE  WatchInv'
  <2>1. \A d \in Calls : d \in ToSet(queue) => d = dcmd' \/ d \in ToSet(queue')
    BY <1>0, <1>12, RemovedFacts DEF PopFront
  <2> QED BY <1>0, <1>12, <2>1 DEF PopFront, WatchInv, Watched
<1>13. CASE Take
  BY <1>0, <1>12, <1>13 DEF Take, WatchInv, Watched
<1>14. CASE PollEnds
  BY <1>0, <1>12, <1>14 DEF PollEnds, WatchInv, Watched
<1>15. CASE Admit
  BY <1>0, <1>15 DEF Admit, WatchInv, Watched, TypeOK
<1>16. CASE Execute
  BY <1>0, <1>16 DEF Execute, WatchInv, Watched
<1>17. CASE Publish
  BY <1>0, <1>17 DEF Publish, WatchInv, Watched
<1>18. CASE NotifyCall
  BY <1>0, <1>18 DEF NotifyCall, Woken, WatchInv, Watched
<1>19. CASE Stop
  BY <1>0, <1>19 DEF Stop, WatchInv, Watched
<1>20. CASE Swap
  <2>1. swapped = <<>> /\ ~running
    BY <1>20 DEF Swap, ServerInv
  <2>2. \A d \in Calls : Watched(d) => d \in ToSet(swapped')
    BY <1>0, <1>20, <2>1, RemovedFacts DEF Swap, Watched
  <2> QED BY <1>20, <2>1, <2>2 DEF Swap, WatchInv, Watched
<1>21. CASE CompleteOne
  <2>1. \A d \in Calls : d \in ToSet(swapped) => d = dcmd' \/ d \in ToSet(swapped')
    BY <1>0, <1>21, RemovedFacts DEF CompleteOne
  <2>2. ~running
    BY <1>21 DEF CompleteOne, ServerInv
  <2> QED BY <1>21, <2>1, <2>2 DEF CompleteOne, WatchInv, Watched
<1>22. CASE WakeOne
  <2>1. ~running
    BY <1>22 DEF WakeOne, ServerInv
  <2> QED BY <1>0, <1>22, <2>1 DEF WakeOne, Woken, WatchInv, Watched
<1>23. CASE StopTransport
  <2>1. ~running /\ \A d \in Calls : ~Watched(d)
    BY <1>0, <1>23, RemovedFacts DEF StopTransport, ServerInv, Watched
  <2> QED BY <1>23, <2>1 DEF StopTransport, WatchInv
<1>24. CASE JoinTransport
  BY <1>0, <1>24 DEF JoinTransport, WatchInv, Watched
<1>25. CASE Destroy
  BY <1>0, <1>25 DEF Destroy, WatchInv, Watched
<1>26. CASE Interrupt
  BY <1>26 DEF Interrupt, WatchInv, Watched
<1>27. CASE UNCHANGED vars
  BY <1>27 DEF vars, WatchInv, Watched
<1> QED
  BY <1>1, <1>2, <1>3, <1>4, <1>5, <1>6, <1>7, <1>8, <1>9, <1>10, <1>11, <1>13,
     <1>14, <1>15, <1>16, <1>17, <1>18, <1>19, <1>20, <1>21, <1>22, <1>23, <1>24,
     <1>25, <1>26, <1>27
  DEF Next, CallStep, MainStep, Finished

-----------------------------------------------------------------------------
(* The inductive invariant holds initially.                                *)
LEMMA InitInv == Init => IInv
<1> SUFFICES ASSUME Init PROVE IInv
  OBVIOUS
<1>1. /\ queue = <<>> /\ swapped = <<>> /\ executed = <<>>
      /\ Len(queue) = 0 /\ Len(swapped) = 0 /\ Len(executed) = 0
  BY DEF Init
<1>2. TypeOK
  <2>1. <<>> \in Seq(Calls)
    BY EmptySeq
  <2>2. reply \in [Calls -> [success : BOOLEAN, payload : Payloads]]
    BY DEF Init, Payloads
  <2>3. result \in [Calls -> Payloads] /\ pc \in [Calls -> CallPoints] /\ dpc \in MainPoints
    BY DEF Init, Payloads, CallPoints, MainPoints
  <2> QED BY <2>1, <2>2, <2>3 DEF Init, TypeOK
<1>3. ServerInv
  BY DEF Init, ServerInv, Draining
<1>4. OrderInv
  BY <1>1 DEF Init, OrderInv, ExecutedInOrder
<1>5. FlagsInv
  BY <1>1 DEF Init, FlagsInv, Exclusive, StartedBySeq, DrainerFlags, StartedFlags,
              NotStartedFlags, StoppedFlags, CanceledFlags
<1>6. ReplyInv
  BY DEF Init, ReplyInv, AnsweredWhenDone, WayOut, OutcomeReply, RefusalReply,
         NotRunningMeansInterrupted, Outcomes, Refusals, NoOutcome
<1>7. WatchInv
  BY DEF Init, WatchInv
<1> QED BY <1>2, <1>3, <1>4, <1>5, <1>6, <1>7 DEF IInv

(* IInv is an invariant of the queue, for every set of calls and limit.    *)
THEOREM Invariance == Spec => []IInv
<1>1. IInv /\ [Next]_vars => IInv'
  BY TypeStep, ServerStep, OrderStep, FlagsStep, ReplyStep, WatchStep DEF IInv
<1> QED BY InitInv, <1>1, PTL DEF Spec

(* Every variable of the queue keeps its type.                             *)
THEOREM TypeCorrect == Spec => []TypeOK
<1>1. IInv => TypeOK
  BY DEF IInv
<1> QED BY <1>1, Invariance, PTL

(* A refused call is never executed: the refusal leaves the command        *)
(* canceled, never queued, or behind a drainer that has stopped.           *)
THEOREM RefusalIsFinal == Spec => []RefusedNeverRuns
<1>1. IInv => RefusedNeverRuns
  <2> SUFFICES ASSUME IInv, NEW c \in Calls, reply[c].payload \in Refusals,
                      c \in ToSet(executed)
               PROVE  FALSE
    BY DEF RefusedNeverRuns
  <2>1. ~started[c]
    BY DEF IInv, ReplyInv, RefusalReply
  <2>2. PICK i \in 1..Len(executed) : executed[i] = c
    BY ToSetFacts DEF IInv, TypeOK
  <2> QED BY <2>1, <2>2 DEF IInv, FlagsInv, StartedBySeq
<1> QED BY <1>1, Invariance, PTL

(* An outcome given as answer is the outcome of the call's own execution.  *)
THEOREM AnswerCorrect == Spec => []AnswerIsOwn
<1>1. IInv => AnswerIsOwn
  BY DEF IInv, ReplyInv, OutcomeReply, FlagsInv, StartedFlags, AnswerIsOwn
<1> QED BY <1>1, Invariance, PTL

(* A call asleep on its done_cv is known to the queue, to the drainer or   *)
(* to stop, one of which will notify it: no wakeup is lost.                *)
THEOREM NoSleeperForgotten == Spec => []WaiterIsWatched
<1>1. IInv => WaiterIsWatched
  BY DEF IInv, WatchInv, Watched, WaiterIsWatched
<1> QED BY <1>1, Invariance, PTL

(* Execution follows the order of the queue, so no command runs twice.     *)
THEOREM OrderCorrect == Spec => []ExecutedInOrder
<1>1. IInv => ExecutedInOrder
  BY DEF IInv, OrderInv
<1> QED BY <1>1, Invariance, PTL

(* No call is told that the server is not running before Ctrl+C.           *)
THEOREM RunningBeforeExposed == Spec => []NotRunningMeansInterrupted
<1>1. IInv => NotRunningMeansInterrupted
  BY DEF IInv, ReplyInv
<1> QED BY <1>1, Invariance, PTL

(* pending_commands_ never exceeds its limit.                              *)
THEOREM QueueLimit == Spec => []QueueBounded
<1>1. Init => QueueBounded
  BY MaxQueueAssumption DEF Init, QueueBounded
<1>2. TypeOK /\ QueueBounded /\ [Next]_vars => QueueBounded'
  <2> SUFFICES ASSUME TypeOK, QueueBounded, [Next]_vars, MaxQueue > 0
               PROVE  Len(queue') <= MaxQueue
    BY DEF QueueBounded
  <2>1. queue \in Seq(Calls) /\ Len(queue) \in Nat /\ Len(queue) <= MaxQueue /\ MaxQueue \in Nat
    BY MaxQueueAssumption, LenProperties DEF TypeOK, QueueBounded
  <2>2. CASE UNCHANGED queue
    BY <2>1, <2>2
  <2>3. ASSUME NEW c \in Calls, Push(c), ~QueueIsFull PROVE Len(queue') <= MaxQueue
    <3>1. queue' = Append(queue, c)
      BY <2>3 DEF Push
    <3>2. Len(queue') = Len(queue) + 1
      BY <2>1, <3>1, AppendFacts
    <3>3. ~(Len(queue) >= MaxQueue)
      BY <2>3 DEF QueueIsFull
    <3> QED BY <2>1, <3>2, <3>3
  <2>4. ASSUME NEW c \in Calls, Erase(c) PROVE Len(queue') <= MaxQueue
    <3>1. ASSUME NEW k \in 1..Len(queue), queue' = RemoveAt(queue, k)
          PROVE  Len(queue') <= MaxQueue
      BY <2>1, <3>1, RemoveAtFacts
    <3> QED BY <2>2, <2>4, <3>1 DEF Erase
  <2>5. CASE PopFront
    BY <2>1, <2>5, TailFacts DEF PopFront
  <2>6. CASE Swap
    BY <2>1, <2>6 DEF Swap
  <2>7. ASSUME ~PopFront, ~Swap, ~(\E c \in Calls : Push(c) \/ Erase(c))
        PROVE  UNCHANGED queue
    BY <2>7 DEF Next, CallStep, MainStep, Enter, NotifyDrainer, Check, WakeUp, Expire, Leave,
       Start, Listen, DrainTop, Take, PollEnds, Admit, Execute, Publish, NotifyCall, Stop,
       CompleteOne, WakeOne, StopTransport, JoinTransport, Destroy, Interrupt, Finished, vars
  <2>8. ASSUME NEW c \in Calls, Push(c), QueueIsFull PROVE UNCHANGED queue
    BY <2>8 DEF Push
  <2> QED BY <2>2, <2>3, <2>4, <2>5, <2>6, <2>7, <2>8
<1> QED BY <1>1, <1>2, TypeCorrect, PTL DEF Spec

-----------------------------------------------------------------------------
(* The refinement of McpCall.                                              *)

(* What McpCall sees of a call depends on its pc, its answer and whether   *)
(* it was executed.                                                        *)
LEMMA Stutter ==
    ASSUME UNCHANGED <<reply, executed, outcome>>,
           \A d \in Calls : /\ pc'[d] = "idle" <=> pc[d] = "idle"
                            /\ pc'[d] = "done" <=> pc[d] = "done"
    PROVE  UNCHANGED Promise!vars
BY DEF Promise!vars, Phase, Told

(* A step of one call is the step McpCall makes of its new phase.          *)
LEMMA MoveOf ==
    ASSUME NEW c \in Calls, UNCHANGED <<executed, outcome>>,
           \A d \in Calls : d # c => pc'[d] = pc[d] /\ reply'[d] = reply[d]
    PROVE  /\ [d \in Calls |-> Phase(d)]' = [[d \in Calls |-> Phase(d)] EXCEPT ![c] = Phase(c)']
           /\ [d \in Calls |-> Told(d)]' = [[d \in Calls |-> Told(d)] EXCEPT ![c] = Told(c)']
BY DEF Phase, Told

(* A call that returns a refusal makes the step Refuse.                    *)
LEMMA RefuseMap ==
    ASSUME TypeOK, NEW c \in Calls, NEW p \in Refusals, Return(c, FALSE, p),
           UNCHANGED <<executed, outcome>>, pc[c] # "done", c \notin ToSet(executed)
    PROVE  Promise!Refuse(c)
<1>1. /\ pc'[c] = "done" /\ reply'[c].payload = p
      /\ \A d \in Calls : d # c => pc'[d] = pc[d] /\ reply'[d] = reply[d]
  BY ReturnType DEF Payloads
<1>2. Phase(c) \in {"new", "submitted"} /\ Phase(c)' = "answered" /\ Told(c)' = Refusal
  BY <1>1 DEF Phase, Told
<1> QED BY <1>1, <1>2, MoveOf DEF Promise!Refuse

(* Every step of the queue is a step of McpCall or a stutter.              *)
LEMMA StepMap == IInv /\ IInv' /\ [Next]_vars => [Promise!Next]_(Promise!vars)
<1> SUFFICES ASSUME IInv, IInv', [Next]_vars
             PROVE  Promise!Next \/ UNCHANGED Promise!vars
  OBVIOUS
<1>a. TypeOK /\ ServerInv /\ OrderInv /\ FlagsInv /\ ReplyInv
  BY DEF IInv
<1>b. \A c \in Calls : c \in ToSet(executed) => started[c]
  <2> SUFFICES ASSUME NEW c \in Calls, c \in ToSet(executed) PROVE started[c]
    OBVIOUS
  <2>1. PICK i \in 1..Len(executed) : executed[i] = c
    BY <1>a, ToSetFacts DEF TypeOK
  <2> QED BY <1>a, <2>1 DEF FlagsInv, StartedBySeq
<1>c. \A c \in Calls : pc[c] \in {"idle", "push"} => ~started[c]
  BY <1>a DEF OrderInv, FlagsInv, StartedFlags
<1>1. ASSUME NEW c \in Calls, Enter(c) PROVE Promise!Next
  <2>1. pc[c] = "idle" /\ UNCHANGED <<executed, outcome>> /\ c \notin ToSet(executed)
    BY <1>1, <1>b, <1>c DEF Enter, runVars
  <2>2. CASE running
    <3>1. pc' = [pc EXCEPT ![c] = "push"] /\ reply' = reply
      BY <1>1, <2>2 DEF Enter, GoTo
    <3>2. pc'[c] = "push" /\ \A d \in Calls : d # c => pc'[d] = pc[d]
      BY <1>a, <3>1 DEF TypeOK
    <3>3. Phase(c) = "new" /\ Phase(c)' = "submitted" /\ Told(c)' = Told(c)
      BY <2>1, <3>1, <3>2 DEF Phase, Told
    <3>4. Promise!Submit(c)
      BY <2>1, <3>1, <3>2, <3>3, MoveOf DEF Promise!Submit
    <3> QED BY <3>4 DEF Promise!Next
  <2>3. CASE ~running
    <3>1. Return(c, FALSE, "not_running")
      BY <1>1, <2>3 DEF Enter
    <3> QED BY <1>a, <2>1, <3>1, RefuseMap DEF Refusals, Promise!Next
  <2> QED BY <2>2, <2>3
<1>2. ASSUME NEW c \in Calls, Push(c) PROVE Promise!Next \/ UNCHANGED Promise!vars
  <2>1. pc[c] = "push" /\ UNCHANGED <<executed, outcome>> /\ c \notin ToSet(executed)
    BY <1>2, <1>b, <1>c DEF Push, runVars
  <2>2. CASE QueueIsFull
    <3>1. Return(c, FALSE, "full")
      BY <1>2, <2>2 DEF Push
    <3> QED BY <1>a, <2>1, <3>1, RefuseMap DEF Refusals, Promise!Next
  <2>3. CASE ~QueueIsFull
    BY <1>2, <1>a, <2>1, <2>3, Stutter DEF Push, GoTo, TypeOK
  <2> QED BY <2>2, <2>3
<1>3. ASSUME NEW c \in Calls, NotifyDrainer(c) \/ Check(c) \/ WakeUp(c) \/ Expire(c)
      PROVE  UNCHANGED Promise!vars
  <2>1. /\ UNCHANGED <<reply, executed, outcome>> /\ pc[c] \in {"notify", "check", "wait", "poll"}
        /\ \E l \in {"check", "leave", "poll", "wait", "erase"} : pc' = [pc EXCEPT ![c] = l]
    BY <1>3 DEF NotifyDrainer, Check, WakeUp, Expire, GoTo, runVars, callVars
  <2> QED BY <1>a, <2>1, Stutter DEF TypeOK
<1>4. ASSUME NEW c \in Calls, Erase(c) PROVE Promise!Next
  <2>1. pc[c] = "erase" /\ Return(c, FALSE, "timed_out") /\ UNCHANGED <<executed, outcome>>
    BY <1>4 DEF Erase, runVars
  <2>2. c \notin ToSet(executed)
    BY <1>a, <1>b, <2>1 DEF ReplyInv, WayOut, FlagsInv, Exclusive
  <2> QED BY <1>a, <2>1, <2>2, RefuseMap DEF Refusals, Promise!Next
<1>5. ASSUME NEW c \in Calls, Leave(c) PROVE Promise!Next
  <2>1. pc[c] = "leave" /\ UNCHANGED <<executed, outcome>> /\ ~canceled[c]
    BY <1>5, <1>a DEF Leave, runVars, FlagsInv, CanceledFlags
  <2>2. CASE started[c] /\ completed[c]
    <3>1. result[c] \in Outcomes /\ result[c] = outcome[c] /\ c \in ToSet(executed)
      BY <1>a, <2>2 DEF FlagsInv, StartedFlags
    <3>2. \E ok \in BOOLEAN : Return(c, ok, result[c])
      BY <1>5, <2>2 DEF Leave, IsErrorText
    <3>3. /\ pc'[c] = "done" /\ reply'[c].payload = result[c]
          /\ \A d \in Calls : d # c => pc'[d] = pc[d] /\ reply'[d] = reply[d]
      BY <1>a, <3>1, <3>2, ReturnType DEF Payloads
    <3>4. Phase(c) = "executed" /\ Phase(c)' = "answered" /\ Told(c)' = outcome[c]
      BY <2>1, <3>1, <3>3 DEF Phase, Told, Outcomes, Refusals
    <3>5. Promise!Answer(c)
      BY <2>1, <3>3, <3>4, MoveOf DEF Promise!Answer
    <3> QED BY <3>5 DEF Promise!Next
  <2>3. CASE ~started[c] /\ completed[c]
    <3>1. result[c] = "stopped"
      BY <1>a, <2>1, <2>3 DEF FlagsInv, NotStartedFlags
    <3>2. Return(c, FALSE, "stopped")
      BY <1>5, <2>3, <3>1 DEF Leave, IsErrorText
    <3> QED BY <1>a, <1>b, <2>1, <2>3, <3>2, RefuseMap DEF Refusals, Promise!Next
  <2>4. CASE ~completed[c]
    <3>1. ~running /\ Return(c, FALSE, "stopped")
      BY <1>5, <1>a, <2>1, <2>4 DEF Leave, ReplyInv, WayOut
    <3>2. ~started[c]
      BY <1>a, <2>4, <3>1 DEF FlagsInv, StartedFlags, ServerInv, Draining
    <3> QED BY <1>a, <1>b, <2>1, <3>1, <3>2, RefuseMap DEF Refusals, Promise!Next
  <2> QED BY <2>2, <2>3, <2>4
<1>6. CASE Execute
  <2>0. PICK c \in Calls : c = dcmd
    BY <1>6, <1>a DEF Execute, TypeOK
  <2>1. /\ dpc = "execute" /\ UNCHANGED <<pc, reply>>
        /\ executed' = Append(executed, c)
        /\ \E o \in Outcomes : outcome' = [outcome EXCEPT ![c] = o]
    BY <1>6, <2>0 DEF Execute, callVars
  <2>2. started[c] /\ ~completed[c] /\ ticket[c] > 0
    BY <1>a, <2>0, <2>1 DEF FlagsInv, DrainerFlags, OrderInv
  <2>3. pc[c] # "idle"
    BY <1>c, <2>1, <2>2
  <2>4. pc[c] # "done"
    <3> SUFFICES ASSUME pc[c] = "done" PROVE FALSE
      OBVIOUS
    <3>1. reply[c].payload \in Outcomes \cup Refusals
      BY <1>a, <2>1 DEF ReplyInv, AnsweredWhenDone, TypeOK, Payloads
    <3> QED BY <1>a, <2>1, <2>2, <3>1 DEF ReplyInv, OutcomeReply, RefusalReply
  <2>5. c \notin ToSet(executed)
    <3> SUFFICES ASSUME c \in ToSet(executed) PROVE FALSE
      OBVIOUS
    <3>1. PICK i \in 1..Len(executed) : executed[i] = c
      BY <1>a, <2>1, ToSetFacts DEF TypeOK
    <3>2. ticket[executed[i]] < ticket[c] /\ ticket[c] \in Nat
      BY <1>a, <2>0, <2>1 DEF OrderInv, TypeOK
    <3> QED BY <3>1, <3>2
  <2>6. \A d \in Calls : d \in ToSet(executed') <=> d \in ToSet(executed) \/ d = c
    BY <1>a, <2>1, ToSetFacts DEF TypeOK
  <2>7. Phase(c) = "submitted" /\ Phase(c)' = "executed"
    BY <2>1, <2>3, <2>4, <2>5, <2>6 DEF Phase
  <2>8. \A d \in Calls : d # c => Phase(d)' = Phase(d)
    BY <2>1, <2>6 DEF Phase
  <2>9. UNCHANGED [d \in Calls |-> Told(d)]
    BY <2>1 DEF Told
  <2>10. Promise!Execute(c)
    BY <2>1, <2>7, <2>8, <2>9 DEF Promise!Execute
  <2> QED BY <2>1, <2>10 DEF Promise!Next
<1>7. CASE NotifyCall \/ WakeOne
  <2>1. /\ UNCHANGED <<reply, executed, outcome>> /\ dcmd \in Calls
        /\ pc' = IF pc[dcmd] \in {"wait", "poll"} THEN [pc EXCEPT ![dcmd] = "check"] ELSE pc
    BY <1>7, <1>a DEF NotifyCall, WakeOne, Woken, runVars, TypeOK
  <2> QED BY <1>a, <2>1, Stutter DEF TypeOK
<1>8. CASE UNCHANGED <<pc, reply, executed, outcome>>
  BY <1>8, Stutter
<1>9. ASSUME MainStep \/ Interrupt \/ Finished \/ UNCHANGED vars
      PROVE  Execute \/ NotifyCall \/ WakeOne \/ UNCHANGED <<pc, reply, executed, outcome>>
  BY <1>9 DEF MainStep, Interrupt, Finished, vars, callVars, runVars, Start, Listen, DrainTop,
     Take, PollEnds, Admit, Publish, Stop, Swap, CompleteOne, StopTransport, JoinTransport, Destroy
<1> QED BY <1>1, <1>2, <1>3, <1>4, <1>5, <1>6, <1>7, <1>8, <1>9 DEF Next, CallStep

(* The queue implements McpCall: each call is executed at most once, and   *)
(* is answered with its outcome or refused without ever being executed.    *)
THEOREM QueueKeepsPromise == Spec => KeepsPromise
<1>1. Init => Promise!Init
  <2> SUFFICES ASSUME Init PROVE Promise!Init
    OBVIOUS
  <2>1. \A c \in Calls : Phase(c) = "new" /\ Told(c) = NoOutcome
    BY DEF Init, Phase, Told, Refusals, NoOutcome
  <2> QED BY <2>1 DEF Init, Promise!Init
<1>2. IInv /\ IInv' /\ [Next]_vars => [Promise!Next]_(Promise!vars)
  BY StepMap
<1> QED BY <1>1, <1>2, Invariance, PTL DEF Spec, KeepsPromise, Promise!Spec
=============================================================================
