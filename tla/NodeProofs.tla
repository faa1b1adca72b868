------------------------------ MODULE NodeProofs ------------------------------
(***************************************************************************)
(* Theorems about module Node, for every set of handlers and modes.  The   *)
(* node implements module Supervisor, so what SupervisorProofs shows of    *)
(* the supervisor holds on the node as well.  Each safety property of the  *)
(* node then needs a small invariant of its own next to the supervisor's.  *)
(***************************************************************************)
EXTENDS Node, TLAPS

-------------------------------------------------------------------------------
(***************************************************************************)
(* Node implements Supervisor: an action of the node either leaves the     *)
(* supervisor alone or is one of its steps.                                *)
(***************************************************************************)
LEMMA MainKeepsSupervisor == MainStep => [S!Next]_(S!vars)
<1> SUFFICES ASSUME MainStep PROVE S!Next \/ UNCHANGED supVars
  BY DEF supVars, S!vars, S!callVars, S!runVars, S!stopVars, S!fileVars
<1>1. CASE MountVolumes \/ MountFails \/ Recovered \/ ServerFatal \/ PowerSeen
            \/ Stopped \/ UnmountData \/ DoReboot
  BY <1>1 DEF MountVolumes, MountFails, Recovered, ServerFatal, PowerSeen, Stopped,
              UnmountData, DoReboot
<1>2. CASE Recover
  <2>1. CASE file \in Mode
    BY <1>2, <2>1 DEF Recover, S!Next, Caller
  <2>2. CASE file \notin Mode
    BY <1>2, <2>2 DEF Recover
  <2> QED
    BY <2>1, <2>2
<1>3. CASE Drained
  BY <1>3 DEF Drained, S!Next, S!StopStep
<1>4. CASE UnmountState \/ DoSync
  BY <1>4 DEF UnmountState, DoSync, S!Next
<1> QED
  BY <1>1, <1>2, <1>3, <1>4 DEF MainStep

\* What a handler does to the supervisor is a step of one of its callers.
LEMMA HandlersKeepSupervisor ==
  ASSUME NEW h \in Handler, HandlerStep(h) \/ Disconnect(h)
  PROVE  [S!Next]_(S!vars)
<1> SUFFICES S!Next \/ UNCHANGED supVars
  BY DEF supVars, S!vars, S!callVars, S!runVars, S!stopVars, S!fileVars
<1>1. CASE BadBody(h) \/ BootstrapAnswered(h) \/ RequestPower(h) \/ Respond(h)
  BY <1>1 DEF BadBody, BootstrapAnswered, RequestPower, Respond, Decide
<1>2. CASE CallBootstrap(h)
  BY <1>2 DEF CallBootstrap, S!Next, Caller
<1>3. CASE Disconnect(h)
  BY <1>3 DEF Disconnect, S!Next, Caller
<1> QED
  BY <1>1, <1>2, <1>3 DEF HandlerStep

\* So is every step of a node a step of its supervisor, or none.
LEMMA NodeStep == [Next]_vars => [S!Next]_(S!vars)
<1> SUFFICES ASSUME [Next]_vars PROVE [S!Next]_(S!vars)
  OBVIOUS
<1>0. UNCHANGED supVars => UNCHANGED S!vars
  BY DEF supVars, S!vars, S!callVars, S!runVars, S!stopVars, S!fileVars
<1>1. CASE MainStep
  BY <1>1, MainKeepsSupervisor
<1>2. CASE ServerStep \/ ServerFails
  BY <1>0, <1>2 DEF ServerStep, ServerFails, BeginShutdown, ShutdownReturns, DrainExpires,
                    SetServer
<1>3. CASE RunStep
  BY <1>3 DEF RunStep, PersistStep, RunOther, S!RunStep, S!Next
<1>4. CASE StopTimer
  BY <1>4 DEF StopTimer, S!StopStep, S!Next
<1>5. ASSUME NEW h \in Handler, NEW r \in Mode \cup Action, Arrive(h, r)
      PROVE  [S!Next]_(S!vars)
  BY <1>0, <1>5 DEF Arrive
<1>6. ASSUME NEW h \in Handler, HandlerStep(h) \/ Disconnect(h)
      PROVE  [S!Next]_(S!vars)
  BY <1>6, HandlersKeepSupervisor
<1>7. ASSUME NEW c \in Caller, CallerStep(c) \/ WorkloadExits(c)
      PROVE  [S!Next]_(S!vars)
  BY <1>7 DEF CallerStep, WorkloadExits, S!Next
<1>8. CASE PowerCycle
  BY <1>8 DEF PowerCycle, S!Next
<1>9. CASE UNCHANGED vars
  BY <1>0, <1>9 DEF vars
<1> QED
  BY <1>1, <1>2, <1>3, <1>4, <1>5, <1>6, <1>7, <1>8, <1>9 DEF Next

\* Every step of the node is a step of the supervisor's own specification: the
\* handlers, the recovery at boot, the mounts and the power sequence do nothing
\* to it that module Supervisor does not allow.
THEOREM NodeImplementsSupervisor == Spec => ImplementsSupervisor
<1>1. Init => S!Init
  BY DEF Init
<1> QED
  BY <1>1, NodeStep, PTL DEF Spec, ImplementsSupervisor, S!Spec

-------------------------------------------------------------------------------
(***************************************************************************)
(* The supervisor's theorems, for the node's callers.                      *)
(***************************************************************************)
P == INSTANCE SupervisorProofs

\* A node meets what module Supervisor assumes of its callers.
LEMMA SupervisorAssumed == P!SupervisorAssumption
  BY NodeAssumption DEF P!SupervisorAssumption, Caller

\* The supervisor in a node and the one that module SupervisorProofs is about are the same.
LEMMA SameSupervisor ==
  (S!Init => P!Init) /\ ([S!Next]_(S!vars) => [P!Next]_(P!vars))
  BY DEF
    S!Init, S!Next, S!RunStep, S!StopStep, S!CallerStep, S!Accept,
    S!Refusal, S!WriteTemp, S!Rename, S!PersistFails, S!BootstrapUnknown,
    S!StartFails, S!StartWorkload, S!RecordStarted, S!AcceptStop,
    S!StopReturns, S!StoppedInGrace, S!Kill, S!Killed, S!FinishStop,
    S!Reject, S!BackToSelect, S!CallStop, S!GraceExpires, S!AbandonStop,
    S!Sync, S!Call, S!CancelCall, S!Collect, S!Abandon, S!Answer,
    S!WorkloadExits, S!Restart, S!vars, S!callVars, S!runVars,
    S!stopVars, S!fileVars,
    P!Init, P!Next, P!RunStep, P!StopStep, P!CallerStep, P!Accept,
    P!Refusal, P!WriteTemp, P!Rename, P!PersistFails, P!BootstrapUnknown,
    P!StartFails, P!StartWorkload, P!RecordStarted, P!AcceptStop,
    P!StopReturns, P!StoppedInGrace, P!Kill, P!Killed, P!FinishStop,
    P!Reject, P!BackToSelect, P!CallStop, P!GraceExpires, P!AbandonStop,
    P!Sync, P!Call, P!CancelCall, P!Collect, P!Abandon, P!Answer,
    P!WorkloadExits, P!Restart, P!vars, P!callVars, P!runVars,
    P!stopVars, P!fileVars

\* The inductive invariant of the supervisor holds in a node.
LEMMA NodeSupervisorInv == Spec => []P!IInv
<1>1. Init => P!Init
  BY SameSupervisor DEF Init
<1>2. [Next]_vars => [P!Next]_(P!vars)
  BY NodeStep, SameSupervisor
<1>3. P!Spec => []P!IInv
  BY P!Inductive, SupervisorAssumed
<1> QED
  BY <1>1, <1>2, <1>3, PTL DEF Spec, P!Spec

\* One boot of the node starts at most one workload, whatever its handlers, the
\* recovery of a persisted decision and the power sequence do.
THEOREM NodeOneWorkload == Spec => []S!OneWorkload
<1>1. P!IInv => S!OneWorkload
  BY DEF P!IInv, P!OneWorkload, S!OneWorkload
<1> QED
  BY <1>1, NodeSupervisorInv, PTL

-------------------------------------------------------------------------------
(***************************************************************************)
(* The power sequence waits for Stop.                                      *)
(***************************************************************************)
StopCallInv ==
  /\ main \in PastStop => stopCall = "done"
  /\ stopCall = "done" => stopResult \in {"ok", "killed", "ctx"}

\* Only these steps of the supervisor touch its caller of Stop.
StopCallKept ==
  \/ UNCHANGED <<stopCall, stopResult>>
  \/ stopCall = "idle" /\ stopCall' = "sending" /\ UNCHANGED stopResult
  \/ stopCall \in {"sending", "waiting"} /\ stopCall' = "waiting" /\ UNCHANGED stopResult
  \/ stopCall' = "done" /\ stopResult' \in {"ok", "killed", "ctx"}

\* Steps of the supervisor keep the call of Stop that main is in.
LEMMA RunStopCall ==
  ASSUME RunStep \/ StopTimer \/ \E c \in Caller : CallerStep(c) \/ WorkloadExits(c)
  PROVE  StopCallKept /\ UNCHANGED main
<1> USE DEF nodeVars, S!stopVars
<1>1. ASSUME NEW c \in Caller, CallerStep(c) \/ WorkloadExits(c)
      PROVE  StopCallKept /\ UNCHANGED main
  BY <1>1 DEF CallerStep, WorkloadExits, S!CallerStep, S!Collect, S!Abandon, S!Answer,
              S!WorkloadExits, StopCallKept
<1>2. CASE StopTimer
  BY <1>2 DEF StopTimer, S!GraceExpires, S!AbandonStop, StopCallKept
<1>3. CASE RunStep
  <2> UNCHANGED main
    BY <1>3 DEF RunStep
  <2>1. CASE PersistStep
    BY <2>1 DEF PersistStep, S!WriteTemp, S!Rename, StopCallKept
  <2>2. ASSUME NEW c \in Caller, S!Accept(c) PROVE StopCallKept
    BY <2>2 DEF S!Accept, StopCallKept
  <2>3. CASE S!PersistFails \/ S!BootstrapUnknown \/ S!StartFails
    BY <2>3 DEF S!PersistFails, S!BootstrapUnknown, S!StartFails, S!Reject, StopCallKept
  <2>4. CASE S!StartWorkload
    BY <2>4 DEF S!StartWorkload, StopCallKept
  <2>5. CASE S!AcceptStop
    BY <2>5 DEF S!AcceptStop, S!StopReturns, StopCallKept
  <2>6. CASE S!StoppedInGrace \/ S!Killed
    BY <2>6 DEF S!StoppedInGrace, S!Killed, S!FinishStop, S!StopReturns, StopCallKept
  <2>7. CASE S!Kill
    BY <2>7 DEF S!Kill, StopCallKept
  <2> QED
    BY <1>3, <2>1, <2>2, <2>3, <2>4, <2>5, <2>6, <2>7 DEF RunStep, RunOther
<1> QED
  BY <1>1, <1>2, <1>3

\* Every step keeps where main is in its call of Stop.
LEMMA StopCallStep == StopCallInv /\ [Next]_vars => StopCallInv'
<1> SUFFICES ASSUME StopCallInv, [Next]_vars PROVE StopCallInv'
  OBVIOUS
<1> USE DEF StopCallInv, PastStop
<1>1. CASE MainStep
  <2> USE DEF supVars
  <2>1. CASE MountVolumes \/ MountFails \/ Recovered \/ ServerFatal \/ PowerSeen
    BY <2>1 DEF MountVolumes, MountFails, Recovered, ServerFatal, PowerSeen, Listen
  <2>2. CASE Recover
    BY <2>2 DEF Recover, Listen, S!Call, S!stopVars
  <2>3. CASE Drained
    BY <2>3 DEF Drained, S!CallStop
  <2>4. CASE Stopped
    BY <2>4 DEF Stopped, StopAwaited
  <2>5. CASE UnmountData \/ DoReboot
    BY <2>5 DEF UnmountData, DoReboot
  <2>6. CASE UnmountState \/ DoSync
    BY <2>6 DEF UnmountState, DoSync, S!Sync, S!stopVars
  <2> QED
    BY <1>1, <2>1, <2>2, <2>3, <2>4, <2>5, <2>6 DEF MainStep
<1>2. CASE ServerStep \/ ServerFails
  BY <1>2 DEF ServerStep, ServerFails, BeginShutdown, ShutdownReturns, DrainExpires,
              SetServer, supVars
<1>3. CASE RunStep \/ StopTimer \/ \E c \in Caller : CallerStep(c) \/ WorkloadExits(c)
  BY <1>3, RunStopCall DEF StopCallKept
<1>4. ASSUME NEW h \in Handler, NEW r \in Mode \cup Action, Arrive(h, r)
      PROVE  StopCallInv'
  BY <1>4 DEF Arrive, supVars
<1>5. ASSUME NEW h \in Handler, HandlerStep(h) \/ Disconnect(h) PROVE StopCallInv'
  BY <1>5 DEF HandlerStep, BadBody, CallBootstrap, BootstrapAnswered, RequestPower,
              Respond, Decide, Disconnect, nodeVars, supVars, S!Call, S!CancelCall,
              S!stopVars
<1>6. CASE PowerCycle
  BY <1>6 DEF PowerCycle, S!Restart
<1>7. CASE UNCHANGED vars
  BY <1>7 DEF vars, supVars, nodeVars
<1> QED
  BY <1>1, <1>2, <1>3, <1>4, <1>5, <1>6, <1>7 DEF Next

\* Nothing runs when the volumes are unmounted, unless Stop gave up on a busy
\* Run: no handler that outlives the drain starts a workload afterwards.
THEOREM UnmountsAreQuiet == Spec => []QuietWhenStopped
<1>1. Init => StopCallInv
  BY DEF Init, S!Init, StopCallInv, PastStop
<1>2. StopCallInv /\ P!IInv => QuietWhenStopped
  <2> SUFFICES ASSUME StopCallInv, P!IInv, main \in PastStop, stopResult # "ctx",
                      NEW c \in Caller, workload[c] = "running"
               PROVE  FALSE
    BY DEF QuietWhenStopped, WorkloadRunning
  <2>1. stopResult \in {"ok", "killed"}
    BY DEF StopCallInv
  <2>2. stopping /\ cmd = None /\ stopCall = "done"
    BY <2>1 DEF P!IInv, P!StopInv
  <2>3. run \notin {"grace", "kill"}
    BY <2>2 DEF P!IInv, P!StopInv
  <2>4. c # None
    BY SupervisorAssumed DEF P!SupervisorAssumption
  <2> QED
    BY <2>2, <2>3, <2>4 DEF P!IInv, P!RunningIsReachable
<1> QED
  BY <1>1, <1>2, StopCallStep, NodeSupervisorInv, PTL DEF Spec

-------------------------------------------------------------------------------
(***************************************************************************)
(* Types.                                                                  *)
(***************************************************************************)
NodeTypes ==
  /\ main \in Mains
  /\ srv \in {"off", "serving", "closing", "draining", "drained", "cut", "failed"}
  /\ action \in Action \cup {"none"}
  /\ stateVol \in {"none", "rw", "ro"} /\ dataVol \in {"none", "rw", "ro"}
  /\ request \in [Handler -> Mode \cup Action \cup {"none"}]
  /\ phase \in [Handler -> {"idle", "reading", "calling", "responding", "done"}]
  /\ status \in [Handler -> Status \cup {0}]
  /\ heard \in [Handler -> Status \cup {0}]
  /\ restarts \in 0..MaxRestarts

\* Every step keeps the types of the variables of a node.
LEMMA NodeTypesStep == NodeTypes /\ [Next]_vars => NodeTypes'
<1> SUFFICES ASSUME NodeTypes, [Next]_vars PROVE NodeTypes'
  OBVIOUS
<1> USE DEF NodeTypes, volVars, hVars
<1>1. CASE MainStep
  <2> USE DEF Mains, PastStop, Fatal, Listen, AfterUnmount
  <2>1. CASE MountVolumes \/ MountFails \/ Recovered \/ ServerFatal \/ PowerSeen
    BY <2>1 DEF MountVolumes, MountFails, Recovered, ServerFatal, PowerSeen
  <2>2. CASE Recover
    BY <2>2 DEF Recover
  <2>3. CASE Drained \/ Stopped \/ DoSync \/ DoReboot
    BY <2>3 DEF Drained, Stopped, DoSync, DoReboot
  <2>4. CASE UnmountData
    BY <2>4 DEF UnmountData
  <2>5. CASE UnmountState
    BY <2>5 DEF UnmountState
  <2> QED
    BY <1>1, <2>1, <2>2, <2>3, <2>4, <2>5 DEF MainStep
<1>2. CASE ServerStep \/ ServerFails
  BY <1>2 DEF ServerStep, ServerFails, BeginShutdown, ShutdownReturns, DrainExpires,
              SetServer
<1>3. CASE RunStep \/ StopTimer \/ \E c \in Caller : CallerStep(c) \/ WorkloadExits(c)
  BY <1>3 DEF RunStep, StopTimer, CallerStep, WorkloadExits, nodeVars
<1>4. ASSUME NEW h \in Handler, NEW r \in Mode \cup Action, Arrive(h, r)
      PROVE  NodeTypes'
  BY <1>4 DEF Arrive
<1>5. ASSUME NEW h \in Handler, HandlerStep(h) \/ Disconnect(h) PROVE NodeTypes'
  <2> USE DEF Decide, Status
  <2>1. CASE BadBody(h) \/ RequestPower(h)
    BY <2>1 DEF BadBody, RequestPower
  <2>2. CASE CallBootstrap(h)
    BY <2>2 DEF CallBootstrap
  <2>3. CASE BootstrapAnswered(h)
    BY <2>3 DEF BootstrapAnswered, StatusOf
  <2>4. CASE Respond(h)
    BY <2>4 DEF Respond
  <2>5. CASE Disconnect(h)
    BY <2>5 DEF Disconnect, nodeVars
  <2> QED
    BY <1>5, <2>1, <2>2, <2>3, <2>4, <2>5 DEF HandlerStep
<1>6. CASE PowerCycle
  BY <1>6, NodeAssumption DEF PowerCycle, Mains
<1>7. CASE UNCHANGED vars
  BY <1>7 DEF vars, nodeVars
<1> QED
  BY <1>1, <1>2, <1>3, <1>4, <1>5, <1>6, <1>7 DEF Next

\* The variables of a node have their types.
LEMMA NodeTyped == Spec => []NodeTypes
<1>1. Init => NodeTypes
  BY NodeAssumption DEF Init, NodeTypes, Mains
<1> QED
  BY <1>1, NodeTypesStep, PTL DEF Spec

\* The variables of the node and of its supervisor keep their types.
THEOREM NodeTypeCorrect == Spec => []TypeOK
<1>1. P!IInv => S!TypeOK
  BY DEF P!IInv, P!TypeOK, S!TypeOK, P!Replies, S!Replies, P!Refusals, S!Refusals,
         P!Failures, S!Failures, P!Answers, S!Answers, P!Content, S!Content
<1>2. S!TypeOK /\ NodeTypes => TypeOK
  BY DEF TypeOK, NodeTypes
<1> QED
  BY <1>1, <1>2, NodeTyped, NodeSupervisorInv, PTL

-------------------------------------------------------------------------------
(***************************************************************************)
(* One power request.                                                      *)
(***************************************************************************)
Acting == {"drain", "stop"} \cup PastStop

PowerInv ==
  /\ \A h \in Handler :
       /\ phase[h] \in {"idle", "reading", "calling"} => status[h] = 0
       /\ status[h] = 202 => action # "none"
  /\ action # "none" =>
       \E h \in Handler : status[h] = 202 /\ request[h] = action
  /\ \A h, g \in Handler : status[h] = 202 /\ status[g] = 202 => h = g
  /\ main \in Acting => action # "none"

\* Every step keeps that main acts on the request it took.
LEMMA PowerStep == NodeTypes /\ PowerInv /\ [Next]_vars => PowerInv'
<1> SUFFICES ASSUME NodeTypes, PowerInv, [Next]_vars PROVE PowerInv'
  OBVIOUS
<1>0. ASSUME UNCHANGED <<action, hVars>>, main' \in Acting => main \in Acting
      PROVE  PowerInv'
  BY <1>0 DEF PowerInv, hVars
<1>1. CASE MainStep
  <2> USE DEF Acting, PastStop, Listen
  <2>1. CASE PowerSeen
    BY <2>1 DEF PowerSeen, PowerInv, hVars
  <2>2. CASE MountVolumes \/ MountFails \/ Recovered \/ ServerFatal \/ Stopped
              \/ UnmountData \/ DoSync \/ DoReboot
    BY <1>0, <2>2 DEF MountVolumes, MountFails, Recovered, ServerFatal, Stopped,
                      StopAwaited, UnmountData, DoSync, DoReboot
  <2>3. CASE Recover \/ Drained \/ UnmountState
    BY <1>0, <2>3 DEF Recover, Drained, UnmountState
  <2> QED
    BY <1>1, <2>1, <2>2, <2>3 DEF MainStep
<1>2. CASE ServerStep \/ ServerFails
  BY <1>0, <1>2 DEF ServerStep, ServerFails, BeginShutdown, ShutdownReturns, DrainExpires,
                    SetServer
<1>3. CASE RunStep \/ StopTimer \/ \E c \in Caller : CallerStep(c) \/ WorkloadExits(c)
  BY <1>0, <1>3 DEF RunStep, StopTimer, CallerStep, WorkloadExits, nodeVars
<1>4. ASSUME NEW h \in Handler, NEW r \in Mode \cup Action, Arrive(h, r) PROVE PowerInv'
  BY <1>4 DEF Arrive, PowerInv, NodeTypes
<1>5. ASSUME NEW h \in Handler, HandlerStep(h) \/ Disconnect(h) PROVE PowerInv'
  <2>1. CASE BadBody(h)
    BY <2>1 DEF BadBody, Decide, PowerInv, NodeTypes
  <2>2. CASE CallBootstrap(h)
    BY <2>2 DEF CallBootstrap, PowerInv, NodeTypes
  <2>3. CASE BootstrapAnswered(h)
    <3>1. StatusOf(answer[h]) # 202
      BY DEF StatusOf
    <3> QED
      BY <2>3, <3>1 DEF BootstrapAnswered, Decide, PowerInv, NodeTypes
  <2>4. CASE RequestPower(h)
    <3>1. request[h] # "none"
      BY <2>4 DEF RequestPower, Action
    <3>2. CASE action = "none"
      BY <2>4, <3>1, <3>2 DEF RequestPower, Decide, PowerInv, NodeTypes
    <3>3. CASE action # "none"
      BY <2>4, <3>3 DEF RequestPower, Decide, PowerInv, NodeTypes
    <3> QED
      BY <3>2, <3>3
  <2>5. CASE Respond(h)
    BY <2>5 DEF Respond, PowerInv, NodeTypes
  <2>6. CASE Disconnect(h)
    BY <1>0, <2>6 DEF Disconnect, nodeVars
  <2> QED
    BY <1>5, <2>1, <2>2, <2>3, <2>4, <2>5, <2>6 DEF HandlerStep
<1>6. CASE PowerCycle
  BY <1>6 DEF PowerCycle, PowerInv, Acting, PastStop
<1>7. CASE UNCHANGED vars
  BY <1>0, <1>7 DEF vars, nodeVars
<1> QED
  BY <1>1, <1>2, <1>3, <1>4, <1>5, <1>6, <1>7 DEF Next

\* One power request wins, it alone is told 202, and the boot goroutine acts on
\* what it asked for, however many handlers ask at once.
THEOREM OneRequestWins == Spec => []FirstRequestWins
<1>1. Init => PowerInv
  BY DEF Init, PowerInv, Acting, PastStop
<1>2. PowerInv => FirstRequestWins
  BY DEF PowerInv, FirstRequestWins, Acting
<1> QED
  BY <1>1, <1>2, PowerStep, NodeTyped, PTL DEF Spec

-------------------------------------------------------------------------------
(***************************************************************************)
(* What clients are told.  A handler's status follows from the answer of   *)
(* its own call, which nothing changes once it is given.                   *)
(***************************************************************************)
PhaseInv ==
  \A h \in Handler :
    /\ phase[h] \in {"idle", "reading"} => call[h] = "idle"
    /\ phase[h] \in {"idle", "reading", "calling"} => status[h] = 0
    /\ phase[h] = "calling" => request[h] \in Mode /\ want[h] = request[h]

OkInv == \A h \in Handler : status[h] = 200 => answer[h] = "ok" /\ want[h] = request[h]

AlreadyInv ==
  \A h \in Handler : status[h] = 409 => request[h] \in Action \/ answer[h] = "already"

HeardInv == \A h \in Handler : heard[h] \in {0, status[h]}

HandlerInv == PhaseInv /\ OkInv /\ AlreadyInv /\ HeardInv

\* No handler has a request at first.
LEMMA HandlerInit == Init => HandlerInv
<1> SUFFICES ASSUME Init PROVE HandlerInv
  OBVIOUS
<1>1. ASSUME NEW h \in Handler
      PROVE  phase[h] = "idle" /\ call[h] = "idle" /\ status[h] = 0 /\ heard[h] = 0
  BY DEF Init, S!Init, Caller
<1>2. PhaseInv
  BY <1>1 DEF PhaseInv
<1>3. OkInv /\ AlreadyInv
  BY <1>1 DEF OkInv, AlreadyInv
<1>4. HeardInv
  BY <1>1 DEF HeardInv
<1> QED
  BY <1>2, <1>3, <1>4 DEF HandlerInv

\* What a step of the supervisor leaves alone in the call of one handler.
CallKept(h) ==
  /\ want'[h] = want[h]
  /\ call[h] = "idle" => call'[h] = "idle"
  /\ answer[h] # "none" => answer'[h] = answer[h]

\* What is not a step of a handler leaves its call in the supervisor as it is, or answers it.
LEMMA RunCallKept ==
  ASSUME P!IInv, NEW h \in Handler,
         \/ RunStep \/ StopTimer \/ Disconnect(h)
         \/ \E c \in Caller : CallerStep(c) \/ WorkloadExits(c) \/ S!CancelCall(c)
  PROVE  CallKept(h)
<1> USE DEF S!callVars, S!runVars, S!stopVars, S!fileVars, S!BackToSelect
<1>0. /\ h \in Caller
      /\ call \in [Caller -> {"idle", "sending", "waiting", "done"}]
      /\ answer \in [Caller -> P!Answers \cup {"none"}]
      /\ \A c \in Caller : call[c] \in {"sending", "waiting"} => answer[c] = "none"
  BY DEF Caller, P!IInv, P!TypeOK, P!CallInv
<1>1. CASE UNCHANGED <<call, want, answer>>
  BY <1>1 DEF CallKept
<1>2. ASSUME NEW c \in Caller, S!CallerStep(c) PROVE CallKept(h)
  BY <1>0, <1>2 DEF S!CallerStep, S!Collect, S!Abandon, S!Answer, CallKept
<1>3. ASSUME NEW c \in Caller, S!Accept(c) PROVE CallKept(h)
  BY <1>0, <1>3 DEF S!Accept, CallKept
<1>4. ASSUME NEW c \in Caller, S!WorkloadExits(c) \/ S!CancelCall(c) PROVE CallKept(h)
  BY <1>1, <1>4 DEF S!WorkloadExits, S!CancelCall
<1>5. CASE S!GraceExpires \/ S!AbandonStop
  BY <1>1, <1>5 DEF S!GraceExpires, S!AbandonStop
<1>6. CASE PersistStep
  BY <1>1, <1>6 DEF PersistStep, S!WriteTemp, S!Rename
<1>7. CASE S!PersistFails \/ S!BootstrapUnknown \/ S!StartFails
  BY <1>1, <1>7 DEF S!PersistFails, S!BootstrapUnknown, S!StartFails, S!Reject
<1>8. CASE S!StartWorkload
  BY <1>1, <1>8 DEF S!StartWorkload
<1>9. CASE S!AcceptStop \/ S!StoppedInGrace \/ S!Kill \/ S!Killed
  BY <1>1, <1>9 DEF S!AcceptStop, S!StoppedInGrace, S!Kill, S!Killed, S!FinishStop
<1> QED
  BY <1>0, <1>2, <1>3, <1>4, <1>5, <1>6, <1>7, <1>8, <1>9
  DEF RunStep, RunOther, StopTimer, Disconnect, CallerStep, WorkloadExits

\* The invariant of the handlers is about their own variables and calls.
LEMMA HandlerKept ==
  ASSUME HandlerInv, UNCHANGED hVars, \A h \in Handler : CallKept(h)
  PROVE  HandlerInv'
BY DEF HandlerInv, PhaseInv, OkInv, AlreadyInv, HeardInv, hVars, CallKept

\* Every step keeps the invariant of the handlers.
LEMMA HandlerInvStep == NodeTypes /\ P!IInv /\ HandlerInv /\ [Next]_vars => HandlerInv'
<1> SUFFICES ASSUME NodeTypes, P!IInv, HandlerInv, [Next]_vars PROVE HandlerInv'
  OBVIOUS
<1>a. /\ \A h \in Handler : h \in Caller /\ h # Boot
      /\ Boot \in Caller
      /\ call \in [Caller -> {"idle", "sending", "waiting", "done"}]
      /\ want \in [Caller -> Mode \cup {Absent}]
  BY NodeAssumption DEF Caller, P!IInv, P!TypeOK
<1>b. ASSUME UNCHANGED <<call, want, answer>> PROVE \A h \in Handler : CallKept(h)
  BY <1>b DEF CallKept
<1>1. CASE MainStep
  <2>1. CASE MountVolumes \/ MountFails \/ Recovered \/ ServerFatal \/ PowerSeen
              \/ Stopped \/ UnmountData \/ DoReboot
    BY <1>b, <2>1, HandlerKept
    DEF MountVolumes, MountFails, Recovered, ServerFatal, PowerSeen, Stopped,
        UnmountData, DoReboot, supVars
  <2>2. CASE Recover
    <3>1. ASSUME S!Call(Boot, file) PROVE \A h \in Handler : CallKept(h)
      BY <1>a, <3>1 DEF S!Call, CallKept
    <3> QED
      BY <1>b, <2>2, <3>1, HandlerKept DEF Recover, supVars
  <2>3. CASE Drained \/ UnmountState \/ DoSync
    BY <1>b, <2>3, HandlerKept
    DEF Drained, UnmountState, DoSync, S!CallStop, S!Sync, S!callVars, supVars
  <2> QED
    BY <1>1, <2>1, <2>2, <2>3 DEF MainStep
<1>2. CASE ServerStep \/ ServerFails
  BY <1>b, <1>2, HandlerKept
  DEF ServerStep, ServerFails, BeginShutdown, ShutdownReturns, DrainExpires, SetServer,
      supVars
<1>3. CASE RunStep \/ StopTimer \/ \E c \in Caller : CallerStep(c) \/ WorkloadExits(c)
  BY <1>3, RunCallKept, HandlerKept
  DEF RunStep, StopTimer, CallerStep, WorkloadExits, nodeVars
<1>4. ASSUME NEW h \in Handler, NEW r \in Mode \cup Action, Arrive(h, r)
      PROVE  HandlerInv'
  BY <1>4 DEF Arrive, HandlerInv, PhaseInv, OkInv, AlreadyInv, HeardInv,
         NodeTypes, supVars
<1>5. ASSUME NEW h \in Handler, BadBody(h) PROVE HandlerInv'
  BY <1>5 DEF BadBody, Decide, HandlerInv, PhaseInv, OkInv, AlreadyInv, HeardInv,
         NodeTypes, supVars
<1>6. ASSUME NEW h \in Handler, CallBootstrap(h) PROVE HandlerInv'
  BY <1>6, <1>a
  DEF CallBootstrap, S!Call, HandlerInv, PhaseInv, OkInv, AlreadyInv, HeardInv, NodeTypes
<1>7. ASSUME NEW h \in Handler, BootstrapAnswered(h) PROVE HandlerInv'
  <2>1. /\ StatusOf(answer[h]) = 200 => answer[h] = "ok"
        /\ StatusOf(answer[h]) = 409 => answer[h] = "already"
    BY DEF StatusOf
  <2> QED
    BY <1>7, <2>1
    DEF BootstrapAnswered, Decide, HandlerInv, PhaseInv, OkInv, AlreadyInv, HeardInv,
        NodeTypes, supVars
<1>8. ASSUME NEW h \in Handler, RequestPower(h) PROVE HandlerInv'
  BY <1>8 DEF RequestPower, Decide, HandlerInv, PhaseInv, OkInv, AlreadyInv, HeardInv,
         NodeTypes, supVars
<1>9. ASSUME NEW h \in Handler, Respond(h) PROVE HandlerInv'
  BY <1>9 DEF Respond, HandlerInv, PhaseInv, OkInv, AlreadyInv, HeardInv,
         NodeTypes, supVars
<1>10. ASSUME NEW h \in Handler, Disconnect(h) PROVE HandlerInv'
  BY <1>10, <1>a, RunCallKept, HandlerKept DEF Disconnect, nodeVars
<1>11. CASE PowerCycle
  BY <1>11 DEF PowerCycle, S!Restart, HandlerInv, PhaseInv, OkInv, AlreadyInv, HeardInv,
         Caller
<1>12. CASE UNCHANGED vars
  BY <1>b, <1>12, HandlerKept DEF vars, supVars, nodeVars
<1> QED
  BY <1>1, <1>2, <1>3, <1>4, <1>5, <1>6, <1>7, <1>8, <1>9, <1>10, <1>11, <1>12
  DEF Next, HandlerStep

\* A handler always knows what its call came to.
LEMMA HandlerInvariant == Spec => []HandlerInv
  BY HandlerInit, HandlerInvStep, NodeTyped, NodeSupervisorInv, PTL DEF Spec

\* No client is misinformed: 200 means that its own mode is on record and was
\* started, 409 to a bootstrap that another call's was.
THEOREM ClientsKnow == Spec => []StatusesAreTrue
<1>1. P!IInv /\ HandlerInv => StatusesAreTrue
  <2> SUFFICES ASSUME P!IInv, HandlerInv, NEW h \in Handler, request[h] \in Mode
               PROVE  /\ heard[h] = 200 => workload[h] # "none" /\ file = request[h]
                      /\ heard[h] = 409 => \E c \in Caller \ {h} : workload[c] # "none"
    BY DEF StatusesAreTrue
  <2>1. h \in Caller /\ request[h] \notin Action
    BY NodeModes DEF Caller
  <2>2. P!Truthful(h, answer[h]) /\ (workload[h] # "none" => file = want[h])
    BY <2>1 DEF P!IInv, P!AnswerInv, P!WorkloadRemembered
  <2>3. /\ heard[h] = 200 => answer[h] = "ok" /\ want[h] = request[h]
        /\ heard[h] = 409 => answer[h] = "already"
    BY <2>1 DEF HandlerInv, OkInv, AlreadyInv, HeardInv
  <2> QED
    BY <2>2, <2>3 DEF P!Truthful
<1> QED
  BY <1>1, HandlerInvariant, NodeSupervisorInv, PTL

-------------------------------------------------------------------------------
(***************************************************************************)
(* The drain, and what it leaves behind.                                   *)
(***************************************************************************)
Over(s) == s \in {"drained", "cut", "failed"}

DrainInv ==
  /\ main \in {"mount", "recover", "recovering"} => srv = "off"
  /\ main \in {"stop"} \cup PastStop => Over(srv)
  /\ srv = "drained" => \A h \in Handler : Finished(h)

\* A handler that is done was heard, unless nobody was left to hear it.
RespondedInv ==
  \A h \in Handler : phase[h] = "done" => heard[h] = status[h] \/ h \in gone \/ srv = "cut"

\* A call whose context was cancelled stays cancelled.
LEMMA GoneGrows ==
  ASSUME \/ RunStep \/ StopTimer
         \/ \E c \in Caller : CallerStep(c) \/ WorkloadExits(c) \/ S!CancelCall(c)
  PROVE  gone \subseteq gone'
<1> USE DEF S!callVars
<1>1. ASSUME NEW c \in Caller, S!Accept(c) PROVE gone \subseteq gone'
  BY <1>1 DEF S!Accept
<1>2. ASSUME NEW c \in Caller, S!CallerStep(c) \/ S!WorkloadExits(c) \/ S!CancelCall(c)
      PROVE  gone \subseteq gone'
  BY <1>2 DEF S!CallerStep, S!Collect, S!Abandon, S!Answer, S!WorkloadExits, S!CancelCall
<1>3. CASE S!GraceExpires \/ S!AbandonStop
  BY <1>3 DEF S!GraceExpires, S!AbandonStop
<1>4. CASE PersistStep \/ S!StartWorkload
  BY <1>4 DEF PersistStep, S!WriteTemp, S!Rename, S!StartWorkload
<1>5. CASE S!PersistFails \/ S!BootstrapUnknown \/ S!StartFails
  BY <1>5 DEF S!PersistFails, S!BootstrapUnknown, S!StartFails, S!Reject
<1>6. CASE S!AcceptStop \/ S!StoppedInGrace \/ S!Kill \/ S!Killed
  BY <1>6 DEF S!AcceptStop, S!StoppedInGrace, S!Kill, S!Killed, S!FinishStop
<1> QED
  BY <1>1, <1>2, <1>3, <1>4, <1>5, <1>6
  DEF RunStep, RunOther, StopTimer, CallerStep, WorkloadExits

\* The steps that are none of the server's and none of a handler's.
LEMMA DrainKept ==
  ASSUME DrainInv, RespondedInv, UNCHANGED <<main, srv, hVars>>, gone \subseteq gone'
  PROVE  DrainInv' /\ RespondedInv'
BY DEF DrainInv, RespondedInv, Finished, Over, hVars

\* Main gets to Stop, and beyond, only when the server is over.
LEMMA MainDrains ==
  ASSUME DrainInv, RespondedInv, MainStep
  PROVE  DrainInv' /\ RespondedInv'
<1> USE DEF DrainInv, RespondedInv, Finished, Over, PastStop, hVars, Listen
<1>1. CASE MountVolumes \/ MountFails \/ Recovered \/ ServerFatal
  BY <1>1 DEF MountVolumes, MountFails, Recovered, ServerFatal, supVars
<1>2. CASE Recover
  BY <1>2 DEF Recover, S!Call, supVars
<1>3. CASE PowerSeen
  BY <1>3 DEF PowerSeen, supVars
<1>4. CASE Drained
  BY <1>4 DEF Drained, S!CallStop, S!callVars
<1>5. CASE Stopped \/ UnmountData \/ DoReboot
  BY <1>5 DEF Stopped, StopAwaited, UnmountData, DoReboot, supVars
<1>6. CASE UnmountState \/ DoSync
  BY <1>6 DEF UnmountState, DoSync, S!Sync, S!callVars, supVars
<1> QED
  BY <1>1, <1>2, <1>3, <1>4, <1>5, <1>6 DEF MainStep

\* A handler that is finished has been answered.
LEMMA HandlerDrains ==
  ASSUME NodeTypes, DrainInv, RespondedInv, NEW h \in Handler, HandlerStep(h) \/ Disconnect(h)
  PROVE  DrainInv' /\ RespondedInv'
<1> USE DEF DrainInv, RespondedInv, Finished, NodeTypes
<1>1. CASE BadBody(h) \/ BootstrapAnswered(h) \/ RequestPower(h)
  BY <1>1 DEF BadBody, BootstrapAnswered, RequestPower, Decide, supVars
<1>2. CASE CallBootstrap(h)
  BY <1>2 DEF CallBootstrap, S!Call
<1>3. CASE Respond(h)
  BY <1>3 DEF Respond, supVars
<1>4. CASE Disconnect(h)
  <2>1. UNCHANGED <<main, srv, hVars>> /\ gone \subseteq gone'
    BY <1>4 DEF Disconnect, nodeVars, S!CancelCall
  <2> QED
    BY <2>1, DrainKept
<1> QED
  BY <1>1, <1>2, <1>3, <1>4 DEF HandlerStep

\* Every step keeps the two.
LEMMA DrainStep ==
  NodeTypes /\ DrainInv /\ RespondedInv /\ [Next]_vars => DrainInv' /\ RespondedInv'
<1> SUFFICES ASSUME NodeTypes, DrainInv, RespondedInv, [Next]_vars
             PROVE  DrainInv' /\ RespondedInv'
  OBVIOUS
<1>1. CASE MainStep
  BY <1>1, MainDrains
<1>2. CASE ServerStep \/ ServerFails
  BY <1>2 DEF ServerStep, ServerFails, BeginShutdown, ShutdownReturns, DrainExpires,
              SetServer, DrainInv, RespondedInv, Finished, Over, hVars, supVars
<1>3. CASE RunStep \/ StopTimer \/ \E c \in Caller : CallerStep(c) \/ WorkloadExits(c)
  <2>1. UNCHANGED <<main, srv, hVars>>
    BY <1>3 DEF RunStep, StopTimer, CallerStep, WorkloadExits, nodeVars
  <2> QED
    BY <1>3, <2>1, GoneGrows, DrainKept
<1>4. ASSUME NEW h \in Handler, NEW r \in Mode \cup Action, Arrive(h, r)
      PROVE  DrainInv' /\ RespondedInv'
  BY <1>4 DEF Arrive, Accepting, DrainInv, RespondedInv, Finished, Over, NodeTypes, supVars
<1>5. ASSUME NEW h \in Handler, HandlerStep(h) \/ Disconnect(h)
      PROVE  DrainInv' /\ RespondedInv'
  BY <1>5, HandlerDrains
<1>6. CASE PowerCycle
  BY <1>6 DEF PowerCycle, DrainInv, RespondedInv, Finished, PastStop
<1>7. CASE UNCHANGED vars
  BY <1>7, DrainKept DEF vars, nodeVars, supVars
<1> QED
  BY <1>1, <1>2, <1>3, <1>4, <1>5, <1>6, <1>7 DEF Next

\* The server is drained before main goes on, and a finished handler was answered.
LEMMA DrainInvariant == Spec => [](DrainInv /\ RespondedInv)
<1>1. Init => DrainInv /\ RespondedInv
  BY DEF Init, DrainInv, RespondedInv, PastStop
<1> QED
  BY <1>1, DrainStep, NodeTyped, PTL DEF Spec

\* A drain that did not time out has let every handler finish, so whoever asked
\* for the power action was told 202, or had left, before Stop was called.
THEOREM AnswersPrecedeStop == Spec => []AnsweredBeforeStop
<1>1. NodeTypes /\ PhaseInv /\ DrainInv /\ RespondedInv => AnsweredBeforeStop
  <2> SUFFICES ASSUME NodeTypes, PhaseInv, DrainInv, RespondedInv, srv = "drained",
                      NEW h \in Handler
               PROVE  /\ Finished(h)
                      /\ status[h] = 202 => heard[h] = 202 \/ h \in gone
    BY DEF AnsweredBeforeStop
  <2>1. Finished(h)
    BY DEF DrainInv
  <2>2. status[h] = 202 => phase[h] = "done"
    BY <2>1 DEF Finished, PhaseInv
  <2> QED
    BY <2>1, <2>2 DEF RespondedInv
<1> QED
  BY <1>1, HandlerInvariant, DrainInvariant, NodeTyped, PTL DEF HandlerInv

-------------------------------------------------------------------------------
(***************************************************************************)
(* What was acknowledged is on the disk.  The sync writes the decision     *)
(* back; after it nobody hears "bootstrapped" any more, and if somebody    *)
(* has heard it, Run has nothing left to write.                            *)
(***************************************************************************)
SyncedInv ==
  main \in {"reboot", "down"} /\ srv # "failed" =>
    \A h \in Handler : heard[h] = 200 => onDisk = {file}

\* Who heard 200 had its workload started, so Run writes no file any more.
LEMMA HeardMeansStarted ==
  ASSUME P!IInv, HandlerInv, NEW h \in Handler, heard[h] = 200
  PROVE  /\ run \notin {"write", "rename", "start"}
         /\ file = request[h]
<1>1. h \in Caller /\ status[h] = 200
  BY DEF Caller, HandlerInv, HeardInv
<1>2. answer[h] = "ok" /\ want[h] = request[h]
  BY <1>1 DEF HandlerInv, OkInv
<1>3. workload[h] # "none"
  BY <1>1, <1>2 DEF P!IInv, P!AnswerInv, P!Truthful
<1>4. bootstrapped
  BY <1>1, <1>3 DEF P!IInv, P!StartedInv, P!Quiet
<1> QED
  BY <1>1, <1>2, <1>3, <1>4 DEF P!IInv, P!ServingInv, P!WorkloadRemembered

\* The invariant is about these variables alone.
LEMMA SyncedKept ==
  ASSUME SyncedInv, UNCHANGED <<main, srv, heard, onDisk, file>> PROVE SyncedInv'
BY DEF SyncedInv

\* Once a client heard 200, Run writes no file any more.
LEMMA RunKeepsSynced ==
  ASSUME P!IInv, HandlerInv, SyncedInv, RunStep
  PROVE  SyncedInv'
<1> USE DEF RunStep, nodeVars, hVars, S!fileVars
<1>0. UNCHANGED <<main, srv, heard>>
  OBVIOUS
<1>1. CASE S!WriteTemp \/ S!Rename
  <2>1. \A h \in Handler : heard[h] # 200
    BY <1>1, HeardMeansStarted DEF S!WriteTemp, S!Rename
  <2> QED
    BY <1>0, <2>1 DEF SyncedInv
<1>2. ASSUME NEW c \in Caller, S!Accept(c) PROVE SyncedInv'
  BY <1>0, <1>2, SyncedKept DEF S!Accept
<1>3. CASE S!PersistFails \/ S!BootstrapUnknown \/ S!StartFails \/ S!StartWorkload
  BY <1>0, <1>3, SyncedKept
  DEF S!PersistFails, S!BootstrapUnknown, S!StartFails, S!Reject, S!StartWorkload
<1>4. CASE S!AcceptStop \/ S!StoppedInGrace \/ S!Kill \/ S!Killed
  BY <1>0, <1>4, SyncedKept
  DEF S!AcceptStop, S!StoppedInGrace, S!Kill, S!Killed, S!FinishStop
<1> QED
  BY <1>1, <1>2, <1>3, <1>4 DEF PersistStep, RunOther

\* No handler answers once main is that far.
LEMMA HandlerKeepsSynced ==
  ASSUME NodeTypes, DrainInv, SyncedInv, NEW h \in Handler, HandlerStep(h) \/ Disconnect(h)
  PROVE  SyncedInv'
<1> USE DEF hVars, S!fileVars, supVars
<1>1. CASE BadBody(h) \/ BootstrapAnswered(h) \/ RequestPower(h)
  BY <1>1, SyncedKept DEF BadBody, BootstrapAnswered, RequestPower, Decide
<1>2. CASE CallBootstrap(h) \/ Disconnect(h)
  BY <1>2, SyncedKept DEF CallBootstrap, S!Call, Disconnect, S!CancelCall, nodeVars
<1>3. CASE Respond(h)
  <2>1. /\ heard' = [heard EXCEPT ![h] = IF h \in gone \/ srv = "cut" THEN 0 ELSE status[h]]
        /\ UNCHANGED <<main, srv, onDisk, file>>
    BY <1>3 DEF Respond
  <2>2. srv # "drained"
    BY <1>3 DEF Respond, DrainInv, Finished
  <2>3. main \in {"reboot", "down"} /\ srv # "failed" => srv = "cut"
    BY <2>2 DEF DrainInv, PastStop, Over
  <2>4. main \in {"reboot", "down"} /\ srv # "failed" =>
          \A g \in Handler : heard'[g] = 200 => heard[g] = 200
    BY <2>1, <2>3 DEF NodeTypes
  <2> QED
    BY <2>1, <2>4 DEF SyncedInv
<1> QED
  BY <1>1, <1>2, <1>3 DEF HandlerStep

\* Every step keeps it.
LEMMA SyncedStep ==
  /\ NodeTypes /\ P!IInv /\ HandlerInv /\ DrainInv /\ SyncedInv
  /\ [Next]_vars
  => SyncedInv'
<1> SUFFICES ASSUME NodeTypes, P!IInv, HandlerInv, DrainInv, SyncedInv, [Next]_vars
             PROVE  SyncedInv'
  OBVIOUS
<1> USE DEF hVars, S!fileVars, supVars
<1>1. CASE MainStep
  <2>1. CASE \/ MountVolumes \/ MountFails \/ Recover \/ Recovered \/ ServerFatal
             \/ PowerSeen \/ Drained \/ Stopped \/ UnmountData \/ UnmountState
    BY <2>1 DEF MountVolumes, MountFails, Recover, Recovered, ServerFatal, PowerSeen,
                Drained, Stopped, UnmountData, UnmountState, Listen, SyncedInv
  <2>2. CASE DoSync
    BY <2>2 DEF DoSync, S!Sync, SyncedInv
  <2>3. CASE DoReboot
    BY <2>3 DEF DoReboot, SyncedInv
  <2> QED
    BY <1>1, <2>1, <2>2, <2>3 DEF MainStep
<1>2. CASE ServerStep \/ ServerFails
  <2>1. main \in {"reboot", "down"} => Over(srv)
    BY DEF DrainInv, PastStop
  <2> QED
    BY <1>2, <2>1 DEF ServerStep, ServerFails, BeginShutdown, ShutdownReturns,
                      DrainExpires, SetServer, Over, SyncedInv
<1>3. CASE RunStep
  BY <1>3, RunKeepsSynced
<1>4. CASE StopTimer \/ \E c \in Caller : CallerStep(c) \/ WorkloadExits(c)
  BY <1>4, SyncedKept
  DEF StopTimer, CallerStep, WorkloadExits, nodeVars, S!GraceExpires, S!AbandonStop,
      S!CallerStep, S!Collect, S!Abandon, S!Answer, S!WorkloadExits
<1>5. ASSUME NEW h \in Handler, NEW r \in Mode \cup Action, Arrive(h, r) PROVE SyncedInv'
  BY <1>5, SyncedKept DEF Arrive
<1>6. ASSUME NEW h \in Handler, HandlerStep(h) \/ Disconnect(h) PROVE SyncedInv'
  BY <1>6, HandlerKeepsSynced
<1>7. CASE PowerCycle
  BY <1>7 DEF PowerCycle, SyncedInv
<1>8. CASE UNCHANGED vars
  BY <1>8, SyncedKept DEF vars, nodeVars
<1> QED
  BY <1>1, <1>2, <1>3, <1>4, <1>5, <1>6, <1>7, <1>8 DEF Next

\* An operator who was told "bootstrapped" finds that decision again after an
\* orderly reboot, even if Run outlived Stop and STATE could not be unmounted.
THEOREM AcknowledgedIsDurable == Spec => []AcknowledgedSurvives
<1>1. Init => SyncedInv
  BY DEF Init, SyncedInv
<1>2. P!IInv /\ HandlerInv /\ SyncedInv => AcknowledgedSurvives
  BY HeardMeansStarted DEF SyncedInv, AcknowledgedSurvives
<1> QED
  BY <1>1, <1>2, SyncedStep, HandlerInvariant, DrainInvariant, NodeTyped,
     NodeSupervisorInv, PTL DEF Spec

===============================================================================
