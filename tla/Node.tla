--------------------------------- MODULE Node ---------------------------------
(***************************************************************************)
(* An installed node from runBoot to reboot(2): the boot goroutine of      *)
(* cmd/root.go, the HTTP server and its handlers (internal/mgmtapi), the   *)
(* one recorded power request (internal/power), the mounts of STATE and    *)
(* DATA (internal/mount) and, through S, the supervisor.                   *)
(*                                                                         *)
(* network.Up has no effect on any of this (its error is only printed) and *)
(* is left to module Lease.  The HTTP server is net/http: its Shutdown,    *)
(* Close and request contexts are modelled as serve uses them.             *)
(***************************************************************************)
EXTENDS Naturals

CONSTANTS
  Handler,       \* the requests that one boot may receive
  Boot,          \* the boot goroutine's own call of Supervisor.Bootstrap
  Mode, Implemented, Absent, Torn, None,
  MaxRestarts    \* bound: restarts in a behaviour

ASSUME NodeAssumption ==
  /\ Boot \notin Handler
  /\ None \notin Handler \cup {Boot}
  /\ Implemented \subseteq Mode
  /\ Absent \notin Mode /\ Torn \notin Mode /\ Absent # Torn
  /\ MaxRestarts \in Nat

Action == {"reboot", "shutdown"}

ASSUME NodeModes == Mode \cap (Action \cup {"none"}) = {}

Caller == Handler \cup {Boot}

VARIABLES
  call, want, gone, reply, answer, run, cur, bootstrapped, stopping, cmd,
  workload, stopCall, stopResult, graceOver, file, onDisk,
  main,       \* the step of runBoot or runPower the boot goroutine is at
  srv,        \* the HTTP server
  action,     \* Pending.action; done is closed exactly when it is not "none"
  stateVol,   \* how STATE is mounted
  dataVol,    \* how DATA is mounted
  request,    \* what each handler was asked: a mode or a power action
  phase,      \* where each handler is
  status,     \* the HTTP status it decided on (0: none yet)
  heard,      \* the status its client received (0: none)
  restarts

S == INSTANCE Supervisor

supVars  == <<call, want, gone, reply, answer, run, cur, bootstrapped, stopping,
              cmd, workload, stopCall, stopResult, graceOver, file, onDisk>>
hVars    == <<request, phase, status, heard>>
volVars  == <<stateVol, dataVol>>
nodeVars == <<main, srv, action, volVars, hVars, restarts>>
vars     == <<supVars, nodeVars>>

PastStop == {"unmountData", "unmountState", "sync", "reboot", "down", "fatalReboot"}
Fatal    == {"fatalMount", "fatalServer", "fatalReboot"}
Mains    == {"mount", "recover", "recovering", "serving", "drain", "stop"}
              \cup PastStop \cup Fatal
Status   == {200, 202, 400, 409, 500, 503}

TypeOK ==
  /\ S!TypeOK
  /\ main \in Mains
  /\ srv \in {"off", "serving", "closing", "draining", "drained", "cut", "failed"}
  /\ action \in Action \cup {"none"}
  /\ stateVol \in {"none", "rw", "ro"} /\ dataVol \in {"none", "rw", "ro"}
  /\ request \in [Handler -> Mode \cup Action \cup {"none"}]
  /\ phase \in [Handler -> {"idle", "reading", "calling", "responding", "done"}]
  /\ status \in [Handler -> Status \cup {0}]
  /\ heard \in [Handler -> Status \cup {0}]
  /\ restarts \in 0..MaxRestarts

Init ==
  /\ S!Init
  /\ main = "mount" /\ srv = "off" /\ action = "none"
  /\ stateVol = "none" /\ dataVol = "none"
  /\ request = [h \in Handler |-> "none"] /\ phase = [h \in Handler |-> "idle"]
  /\ status = [h \in Handler |-> 0] /\ heard = [h \in Handler |-> 0]
  /\ restarts = 0

\* reboot(2) has not returned yet: PID 1 and its goroutines run.
Up == main # "down"

WorkloadRunning == \E c \in Caller : workload[c] = "running"

-------------------------------------------------------------------------------
(***************************************************************************)
(* runBoot.                                                                *)
(***************************************************************************)
MountVolumes ==
  /\ main = "mount"
  /\ main' = "recover"
  /\ stateVol' = "rw" /\ dataVol' = "rw"
  /\ UNCHANGED <<supVars, srv, action, hVars, restarts>>

\* STATE is mounted first; console.Fatal leaves it mounted if DATA fails.
MountFails ==
  /\ main = "mount"
  /\ main' = "fatalMount"
  /\ stateVol' \in {"none", "rw"}
  /\ UNCHANGED <<supVars, srv, action, dataVol, hVars, restarts>>

Listen == main' = "serving" /\ srv' = "serving"

RecoverUnparsed ==
  /\ main = "recover"
  /\ IF file # Absent
       THEN S!Call(Boot, file) /\ main' = "recovering" /\ UNCHANGED srv
       ELSE Listen /\ UNCHANGED supVars
  /\ UNCHANGED <<action, volVars, hVars, restarts>>

\* PersistedMode: only a file that parses is acted on.
Recover ==
  /\ main = "recover"
  /\ IF file \in Mode
       THEN S!Call(Boot, file) /\ main' = "recovering" /\ UNCHANGED srv
       ELSE Listen /\ UNCHANGED supVars
  /\ UNCHANGED <<action, volVars, hVars, restarts>>

Recovered ==
  /\ main = "recovering" /\ call[Boot] = "done"
  /\ Listen
  /\ UNCHANGED <<supVars, action, volVars, hVars, restarts>>

\* srvDone delivers an error that no stopServing caused.
ServerFatal ==
  /\ main = "serving" /\ srv = "failed"
  /\ main' = "fatalServer"
  /\ UNCHANGED <<supVars, srv, action, volVars, hVars, restarts>>

\* pending.Done is closed: runPower begins with stopServing.
PowerSeen ==
  /\ main = "serving" /\ action # "none"
  /\ main' = "drain"
  /\ srv' = IF srv = "serving" THEN "closing" ELSE srv
  /\ UNCHANGED <<supVars, action, volVars, hVars, restarts>>

(***************************************************************************)
(* runPower: each step logs its failure and the next one follows.          *)
(***************************************************************************)
Drained ==
  /\ main = "drain" /\ srv \in {"drained", "cut", "failed"}
  /\ main' = "stop"
  /\ S!CallStop
  /\ UNCHANGED <<srv, action, volVars, hVars, restarts>>

StopNotAwaited == main = "stop"
StopAwaited == main = "stop" /\ stopCall = "done"

Stopped ==
  /\ StopAwaited
  /\ main' = "unmountData"
  /\ UNCHANGED <<supVars, srv, action, volVars, hVars, restarts>>

(***************************************************************************)
(* unmountOrRemountReadOnly: the volume is detached, or remounted          *)
(* read-only when something holds it, or stays writable because the        *)
(* unmount or the remount failed.                                          *)
(***************************************************************************)
AfterUnmount(held) == {"none", "rw"} \cup (IF held THEN {"ro"} ELSE {})

UnmountData ==
  /\ main = "unmountData"
  /\ main' = "unmountState"
  /\ dataVol' \in AfterUnmount(WorkloadRunning)
  /\ UNCHANGED <<supVars, srv, action, stateVol, hVars, restarts>>

\* A detached or read-only STATE has written everything back.
UnmountState ==
  /\ main = "unmountState"
  /\ main' = "sync"
  /\ stateVol' \in AfterUnmount(WorkloadRunning \/ run = "write")
  /\ IF stateVol' = "rw" THEN UNCHANGED supVars ELSE S!Sync
  /\ UNCHANGED <<srv, action, dataVol, hVars, restarts>>

\* power.Do: console.Flush, sync(2), reboot(2).
DoWithoutSync ==
  /\ main = "sync"
  /\ main' = "reboot"
  /\ UNCHANGED <<supVars, srv, action, volVars, hVars, restarts>>

DoSync ==
  /\ main = "sync"
  /\ main' = "reboot"
  /\ S!Sync
  /\ UNCHANGED <<srv, action, volVars, hVars, restarts>>

DoReboot ==
  /\ main = "reboot"
  /\ main' \in {"down", "fatalReboot"}
  /\ UNCHANGED <<supVars, srv, action, volVars, hVars, restarts>>

-------------------------------------------------------------------------------
(***************************************************************************)
(* Server.serve.                                                           *)
(***************************************************************************)
SetServer(from, to) ==
  /\ Up /\ srv \in from
  /\ srv' = to
  /\ UNCHANGED <<supVars, main, action, volVars, hVars, restarts>>

ServerFails == SetServer({"serving", "closing"}, "failed")

BeginShutdown == SetServer({"closing"}, "draining")

Finished(h) == phase[h] \in {"idle", "done"}

ShutdownIgnoresHandlers == SetServer({"draining"}, "drained")

ShutdownReturns == (\A h \in Handler : Finished(h)) /\ SetServer({"draining"}, "drained")

DrainNeverExpires == FALSE /\ UNCHANGED vars

\* drainTimeout: Shutdown gives up and Close drops the connections.
DrainExpires == SetServer({"draining"}, "cut")

-------------------------------------------------------------------------------
(***************************************************************************)
(* The handlers.  Shutdown closes the listener, but a request on a         *)
(* connection accepted before may still start while it waits, and a        *)
(* handler that is running when Close drops its connection goes on.        *)
(***************************************************************************)
Accepting == srv \in {"serving", "closing", "draining", "failed"}

Arrive(h, r) ==
  /\ Up /\ Accepting /\ phase[h] = "idle"
  /\ phase' = [phase EXCEPT ![h] = "reading"]
  /\ request' = [request EXCEPT ![h] = r]
  /\ UNCHANGED <<supVars, main, srv, action, volVars, status, heard, restarts>>

Decide(h, s) ==
  /\ phase' = [phase EXCEPT ![h] = "responding"]
  /\ status' = [status EXCEPT ![h] = s]
  /\ UNCHANGED <<supVars, main, srv, volVars, request, heard, restarts>>

\* Too large, not JSON, cut off, or no mode: refused before bootstrapFn (413 is
\* folded into 400).
BadBody(h) ==
  /\ Up /\ phase[h] = "reading" /\ request[h] \in Mode
  /\ Decide(h, 400) /\ UNCHANGED action

CallBootstrap(h) ==
  /\ Up /\ phase[h] = "reading" /\ request[h] \in Mode
  /\ S!Call(h, request[h])
  /\ phase' = [phase EXCEPT ![h] = "calling"]
  /\ UNCHANGED <<main, srv, action, volVars, request, status, heard, restarts>>

StatusConfusesErrors(a) ==
  CASE a = "ok" -> 200
    [] a \in {"notImplemented", "already"} -> 409
    [] a = "stopping" -> 503
    [] OTHER -> 500

StatusOf(a) ==
  CASE a = "ok" -> 200
    [] a = "notImplemented" -> 400
    [] a = "already" -> 409
    [] a = "stopping" -> 503
    [] OTHER -> 500

BootstrapAnswered(h) ==
  /\ Up /\ phase[h] = "calling" /\ call[h] = "done"
  /\ Decide(h, StatusOf(answer[h])) /\ UNCHANGED action

\* Pending.Request, under its mutex.
RequestOverwrites(h) ==
  /\ Up /\ phase[h] = "reading" /\ request[h] \in Action
  /\ action' = request[h]
  /\ Decide(h, 202)

RequestPower(h) ==
  /\ Up /\ phase[h] = "reading" /\ request[h] \in Action
  /\ IF action = "none"
       THEN action' = request[h] /\ Decide(h, 202)
       ELSE UNCHANGED action /\ Decide(h, 409)

\* writeJSON: the client hears it unless its connection is gone.
Respond(h) ==
  /\ Up /\ phase[h] = "responding"
  /\ phase' = [phase EXCEPT ![h] = "done"]
  /\ heard' = [heard EXCEPT ![h] = IF h \in gone \/ srv = "cut" THEN 0 ELSE status[h]]
  /\ UNCHANGED <<supVars, main, srv, action, volVars, request, status, restarts>>

\* The client leaves, or Close is noticed: net/http cancels the request's ctx.
Disconnect(h) ==
  /\ Up /\ ~Finished(h)
  /\ S!CancelCall(h)
  /\ UNCHANGED nodeVars

-------------------------------------------------------------------------------
(***************************************************************************)
(* The supervisor's own steps, on this node: PersistMode can only succeed  *)
(* while STATE is mounted read-write (under it, / is read-only).           *)
(***************************************************************************)
PersistStep == (S!WriteTemp \/ S!Rename) /\ stateVol = "rw"

RunOther ==
  \/ \E c \in Caller : S!Accept(c)
  \/ S!PersistFails \/ S!BootstrapUnknown \/ S!StartFails \/ S!StartWorkload
  \/ S!AcceptStop \/ S!StoppedInGrace \/ S!Kill \/ S!Killed

RunStep == Up /\ (PersistStep \/ RunOther) /\ UNCHANGED nodeVars

CallerStep(c) == Up /\ S!CallerStep(c) /\ UNCHANGED nodeVars

StopTimer == Up /\ (S!GraceExpires \/ S!AbandonStop) /\ UNCHANGED nodeVars

WorkloadExits(c) == Up /\ S!WorkloadExits(c) /\ UNCHANGED nodeVars

\* A crash or loss of power anywhere, the operator's power cycle of a node stuck
\* in console.Fatal, or the boot that follows reboot(2).
PowerCycle ==
  /\ restarts < MaxRestarts
  /\ restarts' = restarts + 1
  /\ \E x \in onDisk : S!Restart(x)
  /\ main' = "mount" /\ srv' = "off" /\ action' = "none"
  /\ stateVol' = "none" /\ dataVol' = "none"
  /\ request' = [h \in Handler |-> "none"] /\ phase' = [h \in Handler |-> "idle"]
  /\ status' = [h \in Handler |-> 0] /\ heard' = [h \in Handler |-> 0]

-------------------------------------------------------------------------------
MainStep ==
  \/ MountVolumes \/ MountFails \/ Recover \/ Recovered \/ ServerFatal \/ PowerSeen
  \/ Drained \/ Stopped \/ UnmountData \/ UnmountState \/ DoSync \/ DoReboot

ServerStep == BeginShutdown \/ ShutdownReturns \/ DrainExpires

HandlerStep(h) ==
  BadBody(h) \/ CallBootstrap(h) \/ BootstrapAnswered(h) \/ RequestPower(h) \/ Respond(h)

Next ==
  \/ MainStep \/ ServerStep \/ ServerFails \/ RunStep \/ StopTimer
  \/ \E h \in Handler :
       \/ \E r \in Mode \cup Action : Arrive(h, r)
       \/ HandlerStep(h) \/ Disconnect(h)
  \/ \E c \in Caller : CallerStep(c) \/ WorkloadExits(c)
  \/ PowerCycle

Spec == Init /\ [][Next]_vars

(***************************************************************************)
(* Fairness.  Going down needs only the boot goroutine, the server's own   *)
(* goroutine and their timers, Run once it has taken the stop request, and *)
(* SIGKILL: not clients, handlers, or a Run that is busy.  Answering every *)
(* request needs the handlers (readTimeout bounds a body) and Run as well. *)
(***************************************************************************)
RunStopStep == Up /\ (S!StoppedInGrace \/ S!Kill \/ S!Killed) /\ UNCHANGED nodeVars

KilledDies == Up /\ S!KilledDies /\ UNCHANGED nodeVars

PowerFairness ==
  /\ WF_vars(MainStep) /\ WF_vars(ServerStep)
  /\ WF_vars(Up /\ S!GraceExpires /\ UNCHANGED nodeVars)
  /\ WF_vars(Up /\ S!AbandonStop /\ UNCHANGED nodeVars)
  /\ WF_vars(RunStopStep) /\ WF_vars(KilledDies)
  /\ WF_vars(Up /\ CallerStep(Boot))

RequestFairness ==
  /\ WF_vars(RunStep)
  /\ \A h \in Handler : WF_vars(HandlerStep(h)) /\ WF_vars(CallerStep(h))

FairSpec == Spec /\ PowerFairness

-------------------------------------------------------------------------------
\* Every step of the node is a step of the supervisor's own specification: the
\* environment Supervisor allows covers what the handlers, the boot goroutine
\* and the mounts really do to it.
ImplementsSupervisor == S!Spec

\* Volumes are unmounted, and the machine goes down, with no workload running,
\* whenever Stop got its reply from Run (root.go:181-183): no handler that
\* outlives the drain starts one behind the power sequence's back.
QuietWhenStopped ==
  main \in PastStop /\ stopResult # "ctx" => ~WorkloadRunning

\* An operator who was told "bootstrapped" finds that decision again after an
\* orderly reboot, even if STATE could not be unmounted: from the sync on,
\* nothing that a loss of power could leave differs from it (power.go:126-130).
\* (A server that failed by itself leaves its connections open, so that a Run
\* which outlived Stop's deadline could still answer after the sync.)
AcknowledgedSurvives ==
  main \in {"reboot", "down"} /\ srv # "failed" =>
    \A h \in Handler : heard[h] = 200 => onDisk = {request[h]}

\* One request decides how the machine goes down: it is the only one told 202,
\* and what the boot goroutine acts on is what that request asked for.
FirstRequestWins ==
  /\ \A h, g \in Handler : status[h] = 202 /\ status[g] = 202 => h = g
  /\ main \in {"drain", "stop"} \cup PastStop =>
       \E h \in Handler : status[h] = 202 /\ request[h] = action

\* A drain that did not time out leaves no handler running, so the operator who
\* asked for the power action has been told 202 (or left) before the workload
\* is signalled (root.go:176-180).
AnsweredBeforeStop ==
  main \in {"stop"} \cup PastStop /\ srv = "drained" =>
    \A h \in Handler :
      /\ Finished(h)
      /\ status[h] = 202 => heard[h] = 202 \/ h \in gone

\* No client is misinformed: 200 only for the one request whose mode bootstrap
\* recorded and started, 409 to a bootstrap only when another call started it.
StatusesAreTrue ==
  \A h \in Handler :
    request[h] \in Mode =>
      /\ heard[h] = 200 => workload[h] # "none" /\ file = request[h]
      /\ heard[h] = 409 => \E c \in Caller \ {h} : workload[c] # "none"

\* An accepted power request takes the machine down, whatever clients, handlers
\* and a busy supervisor do; only a server that failed by itself or a failing
\* reboot(2) leaves it hanging in console.Fatal.
PowerRequestHonoured ==
  action # "none" ~> main \in {"down", "fatalServer", "fatalReboot", "mount"}

\* Every request that reached a handler is answered, unless the machine goes
\* down first: nothing a client, another request or the power sequence does can
\* block a handler, or the Run goroutine under it, for good.
RequestsAnswered ==
  RequestFairness =>
    \A h \in Handler : phase[h] = "reading" ~> Finished(h) \/ main = "down"

\* What stop.go:26-30 promises of Stop's return with no exception for a Stop
\* that timed out: nothing the supervisor started is still running when the
\* volumes are unmounted.
StopMeansQuiet == main \in PastStop => ~WorkloadRunning

===============================================================================
