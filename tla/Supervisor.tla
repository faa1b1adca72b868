------------------------------ MODULE Supervisor ------------------------------
(***************************************************************************)
(* internal/supervise: the goroutine Supervisor.Run, which owns the        *)
(* workload process, and the goroutines that call Bootstrap and Stop and   *)
(* meet it over unbuffered channels; the file bootstrap.json on STATE, as  *)
(* the running system sees it and as a loss of power may leave it.         *)
(*                                                                         *)
(* One boot is the life of one PID 1.  Restart ends it (a crash, a loss of *)
(* power, reboot(2)) and everything but the disk is forgotten.             *)
(***************************************************************************)
CONSTANTS
  Caller,        \* the calls of Supervisor.Bootstrap that one boot may see
  Mode,          \* the values of type Mode those calls may carry
  Implemented,   \* the modes Bootstrap has a case for (ModeSingleDev)
  Absent,        \* bootstrap.json does not exist
  Torn,          \* bootstrap.json exists and cannot be parsed
  None           \* no caller

ASSUME SupervisorAssumption ==
  /\ Implemented \subseteq Mode
  /\ Absent \notin Mode /\ Torn \notin Mode /\ Absent # Torn
  /\ None \notin Caller

VARIABLES
  call,          \* where each caller is inside Bootstrap
  want,          \* the mode it passed
  gone,          \* the callers whose ctx has been cancelled
  reply,         \* content of each caller's reply channel (buffer of one)
  answer,        \* what Bootstrap returned to each caller
  run,           \* where the Run goroutine is
  cur,           \* the request Run serves, or the workload stop waits for
  bootstrapped, stopping, cmd,   \* the Supervisor's fields
  workload,      \* the process started for each caller, if any
  stopCall,      \* where the one caller of Stop is
  stopResult,    \* what Stop returned
  graceOver,     \* Stop's ctx has passed its deadline
  file,          \* bootstrap.json as the running system reads it
  onDisk         \* the contents a loss of power may leave it with

callVars == <<call, want, gone, answer>>
runVars  == <<run, cur, bootstrapped, stopping, cmd>>
stopVars == <<stopCall, stopResult, graceOver>>
fileVars == <<file, onDisk>>
vars     == <<callVars, reply, runVars, workload, stopVars, fileVars>>

Content == Mode \cup {Absent, Torn}

Refusals == {"stopping", "already"}
Failures == {"persistFailed", "notImplemented", "startFailed"}
Replies  == {"ok"} \cup Refusals \cup Failures
Answers  == Replies \cup {"ctx"}

TypeOK ==
  /\ call \in [Caller -> {"idle", "sending", "waiting", "done"}]
  /\ want \in [Caller -> Mode \cup {Absent}]
  /\ gone \in SUBSET Caller
  /\ reply \in [Caller -> Replies \cup {"none"}]
  /\ answer \in [Caller -> Answers \cup {"none"}]
  /\ run \in {"select", "write", "rename", "start", "grace", "kill"}
  /\ cur \in Caller \cup {None}
  /\ run # "select" => cur \in Caller
  /\ bootstrapped \in BOOLEAN /\ stopping \in BOOLEAN
  /\ cmd \in Caller \cup {None}
  /\ workload \in [Caller -> {"none", "running", "exited"}]
  /\ stopCall \in {"idle", "sending", "waiting", "done"}
  /\ stopResult \in {"none", "ok", "killed", "ctx"}
  /\ graceOver \in BOOLEAN
  /\ file \in Content
  /\ onDisk \in SUBSET Content

\* A freshly installed node and a fresh PID 1: NewSupervisor's zero fields.
Init ==
  /\ file = Absent /\ onDisk = {Absent}
  /\ call = [c \in Caller |-> "idle"]
  /\ want = [c \in Caller |-> Absent]
  /\ gone = {}
  /\ reply = [c \in Caller |-> "none"]
  /\ answer = [c \in Caller |-> "none"]
  /\ run = "select" /\ cur = None
  /\ bootstrapped = FALSE /\ stopping = FALSE /\ cmd = None
  /\ workload = [c \in Caller |-> "none"]
  /\ stopCall = "idle" /\ stopResult = "none" /\ graceOver = FALSE

-------------------------------------------------------------------------------
(***************************************************************************)
(* Supervisor.Bootstrap, on the caller's goroutine: a send and a receive,  *)
(* each selected against the caller's ctx.  When both are ready Go picks   *)
(* either, so a caller may be told ctx.Err() of a bootstrap that succeeds. *)
(***************************************************************************)
Call(c, m) ==
  /\ call[c] = "idle"
  /\ call' = [call EXCEPT ![c] = "sending"]
  /\ want' = [want EXCEPT ![c] = m]
  /\ UNCHANGED <<gone, answer, reply, runVars, workload, stopVars, fileVars>>

\* net/http cancels a request's ctx: the client left or the server closed.
CancelCall(c) ==
  /\ c \notin gone
  /\ gone' = gone \cup {c}
  /\ UNCHANGED <<call, want, answer, reply, runVars, workload, stopVars, fileVars>>

Answer(c, a) ==
  /\ call' = [call EXCEPT ![c] = "done"]
  /\ answer' = [answer EXCEPT ![c] = a]
  /\ UNCHANGED <<want, gone, reply, runVars, workload, stopVars, fileVars>>

Collect(c) ==
  /\ call[c] = "waiting" /\ reply[c] # "none"
  /\ Answer(c, reply[c])

Abandon(c) ==
  /\ call[c] \in {"sending", "waiting"} /\ c \in gone
  /\ Answer(c, "ctx")

-------------------------------------------------------------------------------
(***************************************************************************)
(* Run's bootstrap step.  Run receives a request only while it is in its   *)
(* select; from then on it is busy until it has replied, which never       *)
(* blocks because the reply channel has room for one.                      *)
(***************************************************************************)
RefusalIgnoresStopping == IF bootstrapped THEN "already" ELSE "none"
RefusalIgnoresBootstrapped == IF stopping THEN "stopping" ELSE "none"

Refusal ==
  IF stopping THEN "stopping" ELSE IF bootstrapped THEN "already" ELSE "none"

Accept(c) ==
  /\ run = "select" /\ call[c] = "sending"
  /\ call' = [call EXCEPT ![c] = "waiting"]
  /\ IF Refusal = "none"
       THEN run' = "write" /\ cur' = c /\ UNCHANGED reply
       ELSE reply' = [reply EXCEPT ![c] = Refusal] /\ UNCHANGED <<run, cur>>
  /\ UNCHANGED <<want, gone, answer, bootstrapped, stopping, cmd, workload,
                 stopVars, fileVars>>

BackToSelect == run' = "select" /\ cur' = None

RejectSilently(r) ==
  /\ BackToSelect
  /\ UNCHANGED <<callVars, reply, bootstrapped, stopping, cmd, workload,
                 stopVars, fileVars>>

Reject(r) ==
  /\ reply' = [reply EXCEPT ![cur] = r]
  /\ BackToSelect
  /\ UNCHANGED <<callVars, bootstrapped, stopping, cmd, workload, stopVars, fileVars>>

(***************************************************************************)
(* PersistMode: write bootstrap.json.tmp, rename it over bootstrap.json.   *)
(* Nothing is synced: until the kernel has written both the data and the   *)
(* rename back, a loss of power finds the old file, the new one, or the    *)
(* new name without its data.                                              *)
(***************************************************************************)
WriteInPlace ==
  /\ run = "write"
  /\ run' = "rename"
  /\ file' = Torn /\ onDisk' = onDisk \cup {Torn}
  /\ UNCHANGED <<callVars, reply, cur, bootstrapped, stopping, cmd, workload, stopVars>>

WriteTemp ==
  /\ run = "write"
  /\ run' = "rename"
  /\ UNCHANGED <<callVars, reply, cur, bootstrapped, stopping, cmd, workload,
                 stopVars, fileVars>>

Rename ==
  /\ run = "rename"
  /\ run' = "start"
  /\ file' = want[cur]
  /\ onDisk' = onDisk \cup {Torn, want[cur]}
  /\ UNCHANGED <<callVars, reply, cur, bootstrapped, stopping, cmd, workload, stopVars>>

PersistFails == run \in {"write", "rename"} /\ Reject("persistFailed")

\* supervise.Bootstrap: only a mode it has a case for starts a process.
UnknownModeIsNoError == run = "start" /\ want[cur] \notin Implemented /\ Reject("ok")

BootstrapUnknown == run = "start" /\ want[cur] \notin Implemented /\ Reject("notImplemented")

StartFails == run = "start" /\ want[cur] \in Implemented /\ Reject("startFailed")

RecordForgetsHandle == bootstrapped' = TRUE /\ UNCHANGED cmd
RecordForgetsFlag == cmd' = cur /\ UNCHANGED bootstrapped
RecordStarted == bootstrapped' = TRUE /\ cmd' = cur

StartWorkload ==
  /\ run = "start" /\ want[cur] \in Implemented
  /\ workload' = [workload EXCEPT ![cur] = "running"]
  /\ RecordStarted
  /\ reply' = [reply EXCEPT ![cur] = "ok"]
  /\ BackToSelect
  /\ UNCHANGED <<callVars, stopping, stopVars, fileVars>>

\* The process ends: on its own, on SIGTERM or on SIGKILL.
WorkloadExits(c) ==
  /\ workload[c] = "running"
  /\ workload' = [workload EXCEPT ![c] = "exited"]
  /\ UNCHANGED <<callVars, reply, runVars, stopVars, fileVars>>

-------------------------------------------------------------------------------
(***************************************************************************)
(* Supervisor.Stop.  The send is selected against the deadline, the wait   *)
(* for the reply is not.  Run's stop step sends SIGTERM, waits for the     *)
(* process or the deadline, then SIGKILLs it and waits again.  Nothing     *)
(* else ever Waits on the process, so it can always be signalled and the   *)
(* error returns of Signal and Kill are not reachable.                     *)
(***************************************************************************)
CallStop ==
  /\ stopCall = "idle"
  /\ stopCall' = "sending"
  /\ UNCHANGED <<callVars, reply, runVars, workload, stopResult, graceOver, fileVars>>

GraceExpires ==
  /\ stopCall \in {"sending", "waiting"} /\ ~graceOver
  /\ graceOver' = TRUE
  /\ UNCHANGED <<callVars, reply, runVars, workload, stopCall, stopResult, fileVars>>

AbandonStop ==
  /\ stopCall = "sending" /\ graceOver
  /\ stopCall' = "done" /\ stopResult' = "ctx"
  /\ UNCHANGED <<callVars, reply, runVars, workload, graceOver, fileVars>>

StopReturns(r) == stopCall' = "done" /\ stopResult' = r

AcceptStopUnchecked ==
  /\ run = "select" /\ stopCall = "sending"
  /\ stopping' = TRUE
  /\ cmd' = None
  /\ run' = "grace" /\ cur' = cmd /\ stopCall' = "waiting"
  /\ UNCHANGED <<callVars, reply, bootstrapped, workload, stopResult, graceOver,
                 fileVars>>

AcceptStop ==
  /\ run = "select" /\ stopCall = "sending"
  /\ stopping' = TRUE
  /\ cmd' = None
  /\ IF cmd = None
       THEN StopReturns("ok") /\ UNCHANGED <<run, cur>>
       ELSE /\ run' = "grace" /\ cur' = cmd
            /\ stopCall' = "waiting" /\ UNCHANGED stopResult
  /\ UNCHANGED <<callVars, reply, bootstrapped, workload, graceOver, fileVars>>

FinishStop(r) ==
  /\ StopReturns(r)
  /\ BackToSelect
  /\ UNCHANGED <<callVars, reply, bootstrapped, stopping, cmd, workload,
                 graceOver, fileVars>>

StoppedInGrace == run = "grace" /\ workload[cur] = "exited" /\ FinishStop("ok")

Kill ==
  /\ run = "grace" /\ graceOver
  /\ run' = "kill"
  /\ UNCHANGED <<callVars, reply, cur, bootstrapped, stopping, cmd, workload,
                 stopVars, fileVars>>

KilledWithoutWait == run = "kill" /\ FinishStop("killed")

Killed == run = "kill" /\ workload[cur] = "exited" /\ FinishStop("killed")

-------------------------------------------------------------------------------
\* Everything written so far reaches the disk: write-back, unmount, sync(2).
Sync ==
  /\ onDisk' = {file}
  /\ UNCHANGED <<callVars, reply, runVars, workload, stopVars, file>>

\* Power is lost, or PID 1 calls reboot(2): only the disk survives.
Restart(x) ==
  /\ x \in onDisk
  /\ file' = x /\ onDisk' = {x}
  /\ call' = [c \in Caller |-> "idle"]
  /\ want' = [c \in Caller |-> Absent]
  /\ gone' = {}
  /\ reply' = [c \in Caller |-> "none"]
  /\ answer' = [c \in Caller |-> "none"]
  /\ run' = "select" /\ cur' = None
  /\ bootstrapped' = FALSE /\ stopping' = FALSE /\ cmd' = None
  /\ workload' = [c \in Caller |-> "none"]
  /\ stopCall' = "idle" /\ stopResult' = "none" /\ graceOver' = FALSE

RunStep ==
  \/ \E c \in Caller : Accept(c)
  \/ WriteTemp \/ Rename \/ PersistFails
  \/ BootstrapUnknown \/ StartFails \/ StartWorkload
  \/ AcceptStop \/ StoppedInGrace \/ Kill \/ Killed

CallerStep(c) == Collect(c) \/ Abandon(c)

StopStep == CallStop \/ GraceExpires \/ AbandonStop

Next ==
  \/ RunStep \/ StopStep \/ Sync
  \/ \E c \in Caller :
       \/ \E m \in Mode : Call(c, m)
       \/ CancelCall(c) \/ CallerStep(c) \/ WorkloadExits(c)
  \/ \E x \in onDisk : Restart(x)

Spec == Init /\ [][Next]_vars

(***************************************************************************)
(* Fairness.  The Run goroutine is scheduled and its file operations       *)
(* return; a caller with an answer or a cancelled ctx resumes; a deadline  *)
(* passes; a killed process dies.  Nothing is assumed of a workload that   *)
(* was only asked to exit, of clients, or of the time of a restart.        *)
(***************************************************************************)
KilledDies == run = "kill" /\ WorkloadExits(cur)

Fairness ==
  /\ WF_vars(RunStep)
  /\ WF_vars(GraceExpires) /\ WF_vars(AbandonStop)
  /\ WF_vars(KilledDies)
  /\ \A c \in Caller : WF_vars(CallerStep(c))

FairSpec == Spec /\ Fairness

-------------------------------------------------------------------------------
\* One boot starts at most one workload, whatever the order of requests,
\* refusals, retries after a failed start, stop and the workload's own exit
\* (bootstrapped, supervisor.go:43 and 108).
OneWorkload ==
  \A c, d \in Caller : workload[c] # "none" /\ workload[d] # "none" => c = d

\* A workload that was started is the one bootstrap.json names, so the next
\* boot brings back what this one ran: no later request, refused or failing,
\* may change the file under it (persist before start, supervisor.go:96).
WorkloadRemembered ==
  \A c \in Caller : workload[c] # "none" => file = want[c]

\* A running workload is never orphaned: either cmd holds it or the stop step
\* is waiting for it.  This is what makes Stop able to reach it.
RunningIsReachable ==
  \A c \in Caller :
    workload[c] = "running" => cmd = c \/ (run \in {"grace", "kill"} /\ cur = c)

\* Once Stop has had its reply from Run, no workload runs for the rest of the
\* boot: none survived, and none is started later (stop.go:26-30 and 58-64).
StoppedIsQuiet ==
  stopResult \in {"ok", "killed"} => \A c \in Caller : workload[c] # "running"

\* What a caller is told is true of the node: "ok" means the workload was
\* started for this very call, "already" that it was started for another,
\* "stopping" that the node is going down; a failure means none was started
\* for this call.
AnswersAreTrue ==
  \A c \in Caller :
    /\ answer[c] = "ok" => workload[c] # "none"
    /\ answer[c] = "already" => \E d \in Caller \ {c} : workload[d] # "none"
    /\ answer[c] = "stopping" => stopping
    /\ answer[c] \in Refusals \cup Failures => workload[c] = "none"

\* After Run has begun to stop, no step starts a process, even for a request
\* that was sent before Stop (stop.go:58-64).
NoStartWhileStopping ==
  [][stopping /\ stopping' =>
       \A c \in Caller : workload[c] = "none" => workload'[c] = "none"]_vars

\* Nobody waits for ever, or its boot ends first.  Stop returns on its deadline
\* if Run is busy, otherwise once the workload is gone, which SIGKILL forces
\* (stop.go:38-45); a call of Bootstrap returns with its answer, or with its ctx,
\* whatever Run does with the calls before it (supervisor.go:135-154).
NobodyWaitsForever ==
  /\ stopCall = "sending" ~> stopCall \in {"done", "idle"}
  /\ \A c \in Caller : call[c] = "sending" ~> call[c] \in {"done", "idle"}

\* The supervisor implements the abstract decision: the workload that runs is
\* the one decided on, and closing is the moment Run takes the stop request.
Running ==
  IF \E c \in Caller : workload[c] = "running"
    THEN want[CHOOSE c \in Caller : workload[c] = "running"]
    ELSE Absent

Phase ==
  IF stopping THEN "closed" ELSE IF bootstrapped THEN "launched" ELSE "open"

D == INSTANCE Decision WITH
       decision <- file, survivors <- onDisk, running <- Running, phase <- Phase

ImplementsDecision == D!Spec

\* What the comments promise of bootstrap.json (state.go:32-35): a crash leaves
\* the old file or the new one, never one that cannot be parsed.
NeverUnparseable == file # Torn

===============================================================================
