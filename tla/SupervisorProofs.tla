--------------------------- MODULE SupervisorProofs ---------------------------
(***************************************************************************)
(* Theorems about module Supervisor, for every set of callers and modes.   *)
(* All of them follow from one inductive invariant, IInv, whose parts say  *)
(* what holds between the request Run serves, the fields of the            *)
(* Supervisor, the caller of Stop and the answers under way.               *)
(***************************************************************************)
EXTENDS Supervisor, TLAPS

Quiet == \A c \in Caller : workload[c] = "none"

\* From the moment Run takes a request it does not refuse until it replies:
\* nothing has been started, the caller is owed its answer, and what is about
\* to be started is what the file names.
ServingInv ==
  run \in {"write", "rename", "start"} =>
    /\ ~bootstrapped /\ ~stopping
    /\ call[cur] \in {"waiting", "done"}
    /\ reply[cur] = "none" /\ answer[cur] \in {"none", "ctx"}
    /\ run = "start" => file = want[cur]

\* A call Run has not taken yet has had no effect; one under way has a mode.
CallInv ==
  \A c \in Caller :
    /\ call[c] \in {"idle", "sending"} =>
         reply[c] = "none" /\ answer[c] = "none" /\ workload[c] = "none"
    /\ call[c] = "waiting" => answer[c] = "none"
    /\ call[c] # "idle" => want[c] \in Mode

\* bootstrapped says whether a workload was started, cmd is never stale.
StartedInv ==
  /\ ~bootstrapped => Quiet /\ cmd = None
  /\ bootstrapped => ~Quiet

\* The stop step and its caller agree, and a stopping supervisor holds nothing.
StopInv ==
  /\ stopping => cmd = None
  /\ run \in {"grace", "kill"} => stopping /\ stopCall = "waiting"
  /\ stopResult \in {"ok", "killed"} => stopping /\ stopCall = "done"

\* AnswersAreTrue for one answer, stated of the replies still in flight as well.
Truthful(c, a) ==
  /\ a = "ok" => workload[c] # "none"
  /\ a = "already" => \E d \in Caller \ {c} : workload[d] # "none"
  /\ a = "stopping" => stopping
  /\ a \in Refusals \cup Failures => workload[c] = "none"

AnswerInv == \A c \in Caller : Truthful(c, reply[c]) /\ Truthful(c, answer[c])

IInv ==
  /\ TypeOK
  /\ ServingInv /\ CallInv /\ StartedInv /\ StopInv /\ AnswerInv
  /\ OneWorkload /\ WorkloadRemembered /\ RunningIsReachable

-------------------------------------------------------------------------------
(***************************************************************************)
(* Types: TypeOK is inductive by itself.                                   *)
(***************************************************************************)
LEMMA TypeInit == Init => TypeOK
<1> SUFFICES ASSUME Init PROVE TypeOK
  OBVIOUS
<1>1. file \in Content /\ onDisk \in SUBSET Content
  BY DEF Init, Content
<1> QED
  BY <1>1 DEF Init, TypeOK, Replies, Answers

\* Every step keeps the types.
LEMMA TypeStep == TypeOK /\ [Next]_vars => TypeOK'
<1> SUFFICES ASSUME TypeOK, [Next]_vars PROVE TypeOK'
  OBVIOUS
<1> USE SupervisorAssumption
    DEF TypeOK, Content, Replies, Answers, Refusals, Failures,
        callVars, runVars, stopVars, fileVars, BackToSelect
<1>1. CASE RunStep
  <2>1. ASSUME NEW c \in Caller, Accept(c) PROVE TypeOK'
    BY <2>1 DEF Accept, Refusal
  <2>2. CASE WriteTemp
    BY <2>2 DEF WriteTemp
  <2>3. CASE Rename
    BY <2>3 DEF Rename
  <2>4. CASE PersistFails \/ BootstrapUnknown \/ StartFails
    BY <2>4 DEF PersistFails, BootstrapUnknown, StartFails, Reject
  <2>5. CASE StartWorkload
    BY <2>5 DEF StartWorkload, RecordStarted
  <2>6. CASE AcceptStop
    BY <2>6 DEF AcceptStop, StopReturns
  <2>7. CASE StoppedInGrace \/ Killed
    BY <2>7 DEF StoppedInGrace, Killed, FinishStop, StopReturns
  <2>8. CASE Kill
    BY <2>8 DEF Kill
  <2> QED
    BY <1>1, <2>1, <2>2, <2>3, <2>4, <2>5, <2>6, <2>7, <2>8 DEF RunStep
<1>2. CASE StopStep
  <2>1. CASE CallStop
    BY <2>1 DEF CallStop
  <2>2. CASE GraceExpires
    BY <2>2 DEF GraceExpires
  <2>3. CASE AbandonStop
    BY <2>3 DEF AbandonStop
  <2> QED
    BY <1>2, <2>1, <2>2, <2>3 DEF StopStep
<1>3. CASE Sync
  BY <1>3 DEF Sync
<1>4. ASSUME NEW c \in Caller, NEW m \in Mode, Call(c, m) PROVE TypeOK'
  BY <1>4 DEF Call
<1>5. ASSUME NEW c \in Caller, CancelCall(c) PROVE TypeOK'
  BY <1>5 DEF CancelCall
<1>6. ASSUME NEW c \in Caller, CallerStep(c) PROVE TypeOK'
  BY <1>6 DEF CallerStep, Collect, Abandon, Answer
<1>7. ASSUME NEW c \in Caller, WorkloadExits(c) PROVE TypeOK'
  BY <1>7 DEF WorkloadExits
<1>8. ASSUME NEW x \in onDisk, Restart(x) PROVE TypeOK'
  <2>1. x \in Content /\ onDisk' \in SUBSET Content
    BY <1>8 DEF Restart
  <2> QED
    BY <1>8, <2>1 DEF Restart
<1>9. CASE UNCHANGED vars
  BY <1>9 DEF vars
<1> QED
  BY <1>1, <1>2, <1>3, <1>4, <1>5, <1>6, <1>7, <1>8, <1>9 DEF Next

\* The variables of module Supervisor have their types in every reachable state.
THEOREM TypeCorrect == Spec => []TypeOK
  BY TypeInit, TypeStep, PTL DEF Spec

-------------------------------------------------------------------------------
(***************************************************************************)
(* IInv is inductive: one lemma per group of actions, and in it one step   *)
(* per part of IInv that the actions can disturb.                          *)
(***************************************************************************)
LEMMA InitInv == Init => IInv
<1> SUFFICES ASSUME Init PROVE IInv
  OBVIOUS
<1>1. ServingInv /\ CallInv /\ StartedInv /\ StopInv
  BY DEF Init, ServingInv, CallInv, StartedInv, Quiet, StopInv
<1>2. AnswerInv
  BY DEF Init, AnswerInv, Truthful, Refusals, Failures
<1>3. OneWorkload /\ WorkloadRemembered /\ RunningIsReachable
  BY DEF Init, OneWorkload, WorkloadRemembered, RunningIsReachable
<1> QED
  BY <1>1, <1>2, <1>3, TypeInit DEF IInv

\* A caller's own steps.  Call: the caller was idle, so Run is not serving it
\* and nothing was started for it.
LEMMA CallKeeps ==
  ASSUME IInv, NEW c \in Caller, NEW m \in Mode, Call(c, m)
  PROVE  IInv'
<1> USE DEF Call, runVars, stopVars, fileVars
<1>1. TypeOK'
  BY TypeStep DEF IInv, Next
<1>2. ServingInv'
  BY DEF IInv, TypeOK, ServingInv
<1>3. CallInv'
  BY DEF IInv, TypeOK, CallInv
<1>4. WorkloadRemembered'
  BY DEF IInv, TypeOK, CallInv, WorkloadRemembered
<1>5. StartedInv' /\ StopInv' /\ AnswerInv' /\ OneWorkload' /\ RunningIsReachable'
  BY DEF IInv, StartedInv, Quiet, StopInv, AnswerInv, Truthful, OneWorkload, RunningIsReachable
<1> QED
  BY <1>1, <1>2, <1>3, <1>4, <1>5 DEF IInv

\* A caller that collects its answer, or gives up, changes nothing but its call.
LEMMA CallerStepKeeps ==
  ASSUME IInv, NEW c \in Caller, CallerStep(c)
  PROVE  IInv'
<1> USE DEF CallerStep, Collect, Abandon, Answer, runVars, stopVars, fileVars
<1>1. TypeOK'
  BY TypeStep DEF IInv, Next
<1>2. ServingInv'
  BY DEF IInv, TypeOK, ServingInv
<1>3. CallInv'
  BY DEF IInv, TypeOK, CallInv
<1>4. AnswerInv'
  BY DEF IInv, TypeOK, AnswerInv, Truthful, Refusals, Failures
<1>5. StartedInv' /\ StopInv' /\ OneWorkload' /\ WorkloadRemembered' /\ RunningIsReachable'
  BY DEF IInv, StartedInv, Quiet, StopInv, OneWorkload, WorkloadRemembered, RunningIsReachable
<1> QED
  BY <1>1, <1>2, <1>3, <1>4, <1>5 DEF IInv

\* Run takes a request: refused, it is answered by the fields it was refused
\* for; accepted, none of them is set.
LEMMA AcceptKeeps ==
  ASSUME IInv, NEW c \in Caller, Accept(c)
  PROVE  IInv'
<1> USE DEF Accept, stopVars, fileVars
<1>1. TypeOK'
  BY TypeStep DEF IInv, Next, RunStep
<1>2. ServingInv'
  BY DEF IInv, TypeOK, ServingInv, CallInv, Refusal
<1>3. CallInv'
  BY DEF IInv, TypeOK, CallInv
<1>4. AnswerInv'
  BY DEF IInv, TypeOK, AnswerInv, Truthful, CallInv, StartedInv, Quiet, Refusal, Refusals, Failures
<1>5. RunningIsReachable' /\ StopInv'
  BY DEF IInv, RunningIsReachable, StopInv
<1>6. StartedInv' /\ OneWorkload' /\ WorkloadRemembered'
  BY DEF IInv, StartedInv, Quiet, OneWorkload, WorkloadRemembered
<1> QED
  BY <1>1, <1>2, <1>3, <1>4, <1>5, <1>6 DEF IInv

\* PersistMode: nothing was started, so no workload has its file changed.
LEMMA PersistKeeps ==
  ASSUME IInv, WriteTemp \/ Rename
  PROVE  IInv'
<1> USE DEF WriteTemp, Rename, callVars, stopVars, fileVars
<1>1. TypeOK'
  BY TypeStep DEF IInv, Next, RunStep
<1>2. ServingInv'
  BY DEF IInv, ServingInv
<1>3. WorkloadRemembered'
  BY DEF IInv, ServingInv, StartedInv, Quiet, WorkloadRemembered
<1>4. RunningIsReachable' /\ StopInv'
  BY DEF IInv, RunningIsReachable, StopInv
<1>5. CallInv' /\ StartedInv' /\ AnswerInv' /\ OneWorkload'
  BY DEF IInv, CallInv, StartedInv, Quiet, AnswerInv, Truthful, OneWorkload
<1> QED
  BY <1>1, <1>2, <1>3, <1>4, <1>5 DEF IInv

\* A bootstrap that fails.
LEMMA RejectKeeps ==
  ASSUME IInv, PersistFails \/ BootstrapUnknown \/ StartFails
  PROVE  IInv'
<1> USE DEF Reject, BackToSelect, callVars, stopVars, fileVars
<1>1. TypeOK'
  BY TypeStep DEF IInv, Next, RunStep
<1>2. PICK r \in Failures : Reject(r)
  BY DEF PersistFails, BootstrapUnknown, StartFails, Failures
<1>3. run \in {"write", "rename", "start"}
  BY DEF PersistFails, BootstrapUnknown, StartFails
<1>4. ServingInv' /\ StopInv'
  BY <1>2 DEF IInv, ServingInv, StopInv
<1>5. CallInv'
  BY <1>2, <1>3 DEF IInv, TypeOK, ServingInv, CallInv
<1>6. AnswerInv'
  BY <1>2, <1>3 DEF IInv, TypeOK, ServingInv, StartedInv, Quiet, AnswerInv, Truthful, Failures
<1>7. RunningIsReachable'
  BY <1>2, <1>3 DEF IInv, RunningIsReachable
<1>8. StartedInv' /\ OneWorkload' /\ WorkloadRemembered'
  BY <1>2 DEF IInv, StartedInv, Quiet, OneWorkload, WorkloadRemembered
<1> QED
  BY <1>1, <1>4, <1>5, <1>6, <1>7, <1>8 DEF IInv

\* A bootstrap that succeeds: it is the first of this boot.
LEMMA StartKeeps ==
  ASSUME IInv, StartWorkload
  PROVE  IInv'
<1> USE DEF StartWorkload, RecordStarted, BackToSelect, callVars, stopVars, fileVars
<1>1. TypeOK'
  BY TypeStep DEF IInv, Next, RunStep
<1>2. ~bootstrapped /\ ~stopping /\ Quiet /\ file = want[cur] /\ cur \in Caller
  BY DEF IInv, TypeOK, ServingInv, StartedInv
<1>3. workload' = [c \in Caller |-> IF c = cur THEN "running" ELSE "none"]
  BY <1>2 DEF IInv, TypeOK, Quiet
<1>4. CallInv'
  BY <1>2, <1>3 DEF IInv, TypeOK, ServingInv, CallInv
<1>5. AnswerInv'
  BY <1>2, <1>3 DEF IInv, TypeOK, ServingInv, AnswerInv, Truthful, Quiet, Refusals, Failures
<1>6. StartedInv'
  BY <1>2, <1>3 DEF StartedInv, Quiet
<1>7. ServingInv' /\ StopInv'
  BY <1>2 DEF IInv, ServingInv, StopInv
<1>8. OneWorkload' /\ WorkloadRemembered' /\ RunningIsReachable'
  BY <1>2, <1>3 DEF OneWorkload, WorkloadRemembered, RunningIsReachable
<1> QED
  BY <1>1, <1>4, <1>5, <1>6, <1>7, <1>8 DEF IInv

\* A workload that ends is still the one that was started.
LEMMA ExitKeeps ==
  ASSUME IInv, NEW c \in Caller, WorkloadExits(c)
  PROVE  IInv'
<1> USE DEF WorkloadExits, callVars, runVars, stopVars, fileVars
<1>1. TypeOK'
  BY TypeStep DEF IInv, Next
<1>2. \A d \in Caller :
        /\ (workload'[d] = "none") <=> (workload[d] = "none")
        /\ workload'[d] = "running" => workload[d] = "running"
  BY DEF IInv, TypeOK
<1>3. CallInv' /\ StartedInv' /\ StopInv'
  BY <1>2 DEF IInv, CallInv, StartedInv, Quiet, StopInv
<1>4. AnswerInv'
  BY <1>2 DEF IInv, AnswerInv, Truthful
<1>5. OneWorkload' /\ WorkloadRemembered' /\ RunningIsReachable'
  BY <1>2 DEF IInv, OneWorkload, WorkloadRemembered, RunningIsReachable
<1>6. ServingInv'
  BY DEF IInv, ServingInv
<1> QED
  BY <1>1, <1>3, <1>4, <1>5, <1>6 DEF IInv

\* Run takes the stop request: the handle it drops is the one it waits for.
LEMMA AcceptStopKeeps ==
  ASSUME IInv, AcceptStop
  PROVE  IInv'
<1> USE DEF AcceptStop, StopReturns, callVars, fileVars
<1>1. TypeOK'
  BY TypeStep DEF IInv, Next, RunStep
<1>2. RunningIsReachable'
  BY SupervisorAssumption DEF IInv, RunningIsReachable
<1>3. StopInv' /\ ServingInv' /\ StartedInv'
  BY DEF IInv, StopInv, ServingInv, StartedInv, Quiet
<1>4. AnswerInv'
  BY DEF IInv, AnswerInv, Truthful
<1>5. CallInv' /\ OneWorkload' /\ WorkloadRemembered'
  BY DEF IInv, CallInv, OneWorkload, WorkloadRemembered
<1> QED
  BY <1>1, <1>2, <1>3, <1>4, <1>5 DEF IInv

\* The stop step ends only when the process it waits for has.
LEMMA FinishStopKeeps ==
  ASSUME IInv, StoppedInGrace \/ Killed
  PROVE  IInv'
<1> USE DEF StoppedInGrace, Killed, FinishStop, StopReturns, BackToSelect, callVars, fileVars
<1>1. TypeOK'
  BY TypeStep DEF IInv, Next, RunStep
<1>2. RunningIsReachable'
  BY DEF IInv, OneWorkload, RunningIsReachable
<1>3. StopInv' /\ ServingInv' /\ StartedInv'
  BY DEF IInv, StopInv, ServingInv, StartedInv, Quiet
<1>4. CallInv' /\ AnswerInv' /\ OneWorkload' /\ WorkloadRemembered'
  BY DEF IInv, CallInv, AnswerInv, Truthful, OneWorkload, WorkloadRemembered
<1> QED
  BY <1>1, <1>2, <1>3, <1>4 DEF IInv

\* The steps that touch only Stop's caller, the deadline, a ctx or the disk.
LEMMA OtherKeeps ==
  ASSUME IInv, StopStep \/ Kill \/ Sync \/ (\E c \in Caller : CancelCall(c))
  PROVE  IInv'
<1> USE DEF StopStep, CallStop, GraceExpires, AbandonStop, Kill, Sync, CancelCall,
            callVars, runVars, stopVars, fileVars
<1>1. TypeOK'
  BY TypeStep DEF IInv, Next, RunStep
<1>2. StopInv' /\ ServingInv' /\ RunningIsReachable'
  BY DEF IInv, StopInv, ServingInv, RunningIsReachable
<1>3. CallInv' /\ StartedInv' /\ AnswerInv' /\ OneWorkload' /\ WorkloadRemembered'
  BY DEF IInv, CallInv, StartedInv, Quiet, AnswerInv, Truthful, OneWorkload, WorkloadRemembered
<1> QED
  BY <1>1, <1>2, <1>3 DEF IInv

\* A new boot forgets everything but the file.
LEMMA RestartKeeps ==
  ASSUME IInv, NEW x \in onDisk, Restart(x)
  PROVE  IInv'
<1>1. TypeOK'
  BY TypeStep DEF IInv, Next
<1>2. ServingInv' /\ CallInv' /\ StartedInv' /\ StopInv'
  BY DEF Restart, ServingInv, CallInv, StartedInv, Quiet, StopInv
<1>3. AnswerInv'
  BY DEF Restart, AnswerInv, Truthful, Refusals, Failures
<1>4. OneWorkload' /\ WorkloadRemembered' /\ RunningIsReachable'
  BY DEF Restart, OneWorkload, WorkloadRemembered, RunningIsReachable
<1> QED
  BY <1>1, <1>2, <1>3, <1>4 DEF IInv

\* The invariant is about the variables.
LEMMA StutterKeeps == ASSUME IInv, UNCHANGED vars PROVE IInv'
<1> USE DEF vars, callVars, runVars, stopVars, fileVars
<1>1. TypeOK'
  BY TypeStep DEF IInv
<1>2. ServingInv' /\ CallInv' /\ StartedInv' /\ StopInv' /\ AnswerInv'
  BY DEF IInv, ServingInv, CallInv, StartedInv, Quiet, StopInv, AnswerInv, Truthful
<1>3. OneWorkload' /\ WorkloadRemembered' /\ RunningIsReachable'
  BY DEF IInv, OneWorkload, WorkloadRemembered, RunningIsReachable
<1> QED
  BY <1>1, <1>2, <1>3 DEF IInv

\* Every step keeps the invariant.
LEMMA StepInv == IInv /\ [Next]_vars => IInv'
<1> SUFFICES ASSUME IInv, [Next]_vars PROVE IInv'
  OBVIOUS
<1>1. CASE RunStep
  BY <1>1, AcceptKeeps, PersistKeeps, RejectKeeps, StartKeeps, AcceptStopKeeps,
     FinishStopKeeps, OtherKeeps DEF RunStep
<1>2. CASE StopStep \/ Sync \/ \E c \in Caller : CancelCall(c)
  BY <1>2, OtherKeeps
<1>3. ASSUME NEW c \in Caller,
             (\E m \in Mode : Call(c, m)) \/ CallerStep(c) \/ WorkloadExits(c)
      PROVE  IInv'
  BY <1>3, CallKeeps, CallerStepKeeps, ExitKeeps
<1>4. ASSUME NEW x \in onDisk, Restart(x) PROVE IInv'
  BY <1>4, RestartKeeps
<1>5. CASE UNCHANGED vars
  BY <1>5, StutterKeeps
<1> QED
  BY <1>1, <1>2, <1>3, <1>4, <1>5 DEF Next

\* The invariant holds in every behaviour.
THEOREM Inductive == Spec => []IInv
  BY InitInv, StepInv, PTL DEF Spec

-------------------------------------------------------------------------------
(***************************************************************************)
(* The safety properties.                                                  *)
(***************************************************************************)
\* However requests, failures, retries, stop and restarts interleave, a boot
\* starts at most one workload (supervisor.go:96-125).
THEOREM AtMostOneWorkload == Spec => []OneWorkload
  BY Inductive, PTL DEF IInv

\* What runs, or ran in this boot, is what bootstrap.json names.
THEOREM FileNamesWorkload == Spec => []WorkloadRemembered
  BY Inductive, PTL DEF IInv

\* No running process is lost to the supervisor, so Stop can reach it.
THEOREM NoOrphan == Spec => []RunningIsReachable
  BY Inductive, PTL DEF IInv

\* After a Stop that was answered nothing runs until the next boot.
THEOREM QuietAfterStop == Spec => []StoppedIsQuiet
<1>1. IInv => StoppedIsQuiet
  BY SupervisorAssumption DEF IInv, StopInv, RunningIsReachable, StoppedIsQuiet
<1> QED
  BY <1>1, Inductive, PTL

\* No caller of Bootstrap is told something that is not so.
THEOREM TruthfulAnswers == Spec => []AnswersAreTrue
<1>1. IInv => AnswersAreTrue
  BY DEF IInv, AnswerInv, Truthful, AnswersAreTrue
<1> QED
  BY <1>1, Inductive, PTL

\* No step starts a process once Run has taken the stop request.
THEOREM NothingStartsWhileStopping == Spec => NoStartWhileStopping
<1> DEFINE Starts(c) == workload[c] = "none" /\ workload'[c] # "none"
<1>1. ASSUME IInv, Next, NEW c \in Caller, Starts(c)
      PROVE  StartWorkload \/ \E x \in onDisk : Restart(x)
  BY <1>1 DEF IInv, TypeOK, Next, RunStep, Accept, WriteTemp, Rename, PersistFails,
     BootstrapUnknown, StartFails, Reject, AcceptStop, StoppedInGrace, Kill, Killed, FinishStop,
     StopStep, CallStop, GraceExpires, AbandonStop, Sync, Call, CancelCall, CallerStep,
     Collect, Abandon, Answer, WorkloadExits
<1>2. IInv /\ StartWorkload => ~stopping
  BY DEF IInv, ServingInv, StartWorkload
<1>3. ASSUME NEW x \in onDisk, Restart(x) PROVE ~stopping'
  BY <1>3 DEF Restart
<1>4. IInv /\ [Next]_vars =>
        [stopping /\ stopping' =>
           \A c \in Caller : workload[c] = "none" => workload'[c] = "none"]_vars
  BY <1>1, <1>2, <1>3
<1> QED
  BY <1>4, Inductive, PTL DEF Spec, NoStartWhileStopping

-------------------------------------------------------------------------------
(***************************************************************************)
(* The supervisor implements module Decision.                              *)
(***************************************************************************)
RunningFacts ==
  /\ \A c \in Caller : workload[c] = "running" => Running = want[c]
  /\ (\A c \in Caller : workload[c] # "running") => Running = Absent

\* With one workload at most, the mode that runs is what its caller wanted.
LEMMA RunningValue == OneWorkload => RunningFacts
<1> SUFFICES ASSUME OneWorkload PROVE RunningFacts
  OBVIOUS
<1>1. ASSUME NEW c \in Caller, workload[c] = "running" PROVE Running = want[c]
  <2>1. (CHOOSE d \in Caller : workload[d] = "running") = c
    BY <1>1 DEF OneWorkload
  <2> QED
    BY <1>1, <2>1 DEF Running
<1> QED
  BY <1>1 DEF RunningFacts, Running

\* The state a step leaves behind has the same facts.
LEMMA RunningNext == IInv' => RunningFacts'
<1>1. IInv => RunningFacts
  BY RunningValue DEF IInv
<1> QED
  BY <1>1, PTL

\* Running changes only with a workload: a mode is set only for an idle caller.
LEMMA RunningKept ==
  ASSUME IInv, IInv',
         workload' = workload,
         \A c \in Caller : workload[c] = "running" => want'[c] = want[c]
  PROVE  Running' = Running
<1>1. RunningFacts /\ RunningFacts'
  BY RunningValue, RunningNext DEF IInv
<1> QED
  BY <1>1 DEF RunningFacts

\* No mode is decided on at first.
LEMMA DecisionInit == Init => D!Init
  BY DEF Init, D!Init, Running, Phase

\* Every step decides, runs or stops a mode as module Decision allows, or does none of it.
LEMMA DecisionStep == IInv /\ [Next]_vars => [D!Next]_(D!vars)
<1> SUFFICES ASSUME IInv, [Next]_vars PROVE [D!Next]_(D!vars)
  OBVIOUS
<1>0. IInv' /\ RunningFacts /\ RunningFacts'
  BY StepInv, RunningValue, RunningNext DEF IInv
<1> USE DEF BackToSelect, callVars, runVars, stopVars, fileVars
<1>1. ASSUME UNCHANGED <<want, workload, stopping, bootstrapped, file, onDisk>>
      PROVE  UNCHANGED D!vars
  BY <1>0, <1>1, RunningKept DEF D!vars, Phase
<1>2. ASSUME NEW c \in Caller, NEW m \in Mode, Call(c, m) PROVE UNCHANGED D!vars
  <2>1. \A d \in Caller : workload[d] = "running" => want'[d] = want[d]
    BY <1>2 DEF Call, IInv, TypeOK, CallInv
  <2>2. Running' = Running
    BY <1>0, <1>2, <2>1, RunningKept DEF Call
  <2> QED
    BY <1>2, <2>2 DEF Call, D!vars, Phase
<1>3. CASE Rename
  <2>1. want[cur] \in Mode /\ ~bootstrapped /\ ~stopping
    BY <1>3 DEF Rename, IInv, TypeOK, ServingInv, CallInv
  <2>2. Running' = Running
    BY <1>0, <1>3, RunningKept DEF Rename
  <2>3. D!Decide(want[cur])
    BY <1>3, <2>1, <2>2 DEF Rename, D!Decide, Phase
  <2> QED
    BY <2>1, <2>3 DEF D!Next
<1>4. CASE StartWorkload
  <2>1. cur \in Caller /\ ~bootstrapped /\ ~stopping /\ file = want[cur]
    BY <1>4 DEF StartWorkload, IInv, TypeOK, ServingInv
  <2>2. Running' = want[cur]
    BY <1>0, <1>4, <2>1 DEF StartWorkload, RunningFacts, IInv, TypeOK
  <2>3. D!Launch
    BY <1>4, <2>1, <2>2 DEF StartWorkload, RecordStarted, D!Launch, Phase
  <2> QED
    BY <2>3 DEF D!Next
<1>5. ASSUME NEW c \in Caller, WorkloadExits(c) PROVE D!Next
  <2>1. Running = want[c] /\ want[c] \in Mode
    BY <1>0, <1>5 DEF WorkloadExits, RunningFacts, IInv, CallInv
  <2>2. \A d \in Caller : workload'[d] # "running"
    BY <1>5 DEF WorkloadExits, IInv, TypeOK, OneWorkload
  <2>3. Running' = Absent
    BY <1>0, <2>2 DEF RunningFacts
  <2>4. D!End
    BY <1>5, <2>1, <2>3, SupervisorAssumption DEF WorkloadExits, D!End, Phase
  <2> QED
    BY <2>4 DEF D!Next
<1>6. CASE AcceptStop
  <2>1. Running' = Running
    BY <1>0, <1>6, RunningKept DEF AcceptStop
  <2>2. D!Close
    BY <1>6, <2>1 DEF AcceptStop, D!Close, Phase
  <2> QED
    BY <2>2 DEF D!Next
<1>7. CASE Sync
  <2>1. Running' = Running
    BY <1>0, <1>7, RunningKept DEF Sync
  <2>2. D!Settle
    BY <1>7, <2>1 DEF Sync, D!Settle, Phase
  <2> QED
    BY <2>2 DEF D!Next
<1>8. ASSUME NEW x \in onDisk, Restart(x) PROVE D!Next
  <2>1. Running' = Absent
    BY <1>0, <1>8 DEF Restart, RunningFacts
  <2>2. D!PowerCycle
    BY <1>8, <2>1 DEF Restart, D!PowerCycle, Phase
  <2> QED
    BY <2>2 DEF D!Next
<1>9. CASE \/ StopStep \/ WriteTemp \/ PersistFails \/ BootstrapUnknown \/ StartFails
           \/ StoppedInGrace \/ Kill \/ Killed
           \/ \E c \in Caller : Accept(c) \/ CancelCall(c) \/ CallerStep(c)
           \/ UNCHANGED vars
  BY <1>1, <1>9 DEF StopStep, CallStop, GraceExpires, AbandonStop, WriteTemp, PersistFails,
     BootstrapUnknown, StartFails, Reject, StoppedInGrace, Kill, Killed, FinishStop, Accept,
     CancelCall, CallerStep, Collect, Abandon, Answer, vars
<1> QED
  BY <1>2, <1>3, <1>4, <1>5, <1>6, <1>7, <1>8, <1>9 DEF Next, RunStep

\* The supervisor, with its goroutines, channels, signals and file, is a correct
\* implementation of the decision it promises to keep: each of its steps is a
\* step of Decision or changes nothing Decision can see.
THEOREM Implements == Spec => ImplementsDecision
  BY DecisionInit, DecisionStep, Inductive, PTL DEF Spec, ImplementsDecision, D!Spec

===============================================================================
