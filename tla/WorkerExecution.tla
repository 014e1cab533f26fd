---- MODULE WorkerExecution ----
(***************************************************************************)
(* IsolatedWorker.execute_plan_with_receipt (cops/execution/worker.py):    *)
(* one approved plan, its one-use authorization, and the calls made for it *)
(* across crashes and restarts of the worker.                              *)
(*                                                                         *)
(* A call journals its run, makes a workspace, consumes the authorization  *)
(* and runs the operations in order; an operation may run in a scratch     *)
(* directory of its own and may be dispatched through a ReplayBroker.      *)
(* Whatever stops an operation has to be classified so that nobody repeats *)
(* what may already have happened.  `at' is the statement the worker is    *)
(* about to run.                                                           *)
(***************************************************************************)
EXTENDS ReplayBroker

CONSTANTS
    Plans,    \* sequences of operations
    MaxCalls  \* bound: calls made for the authorization

Kinds == {"inert", "adapter", "replay", "lab"}

Operations == [kind : Kinds, idempotent : BOOLEAN, scratch : BOOLEAN]

\* _preflight_execution_request: mediated operations are never idempotent, and
\* a laboratory operation is alone and has no credentials.
WellFormed(p) ==
    \A i \in DOMAIN p :
        /\ p[i].kind \in {"replay", "lab"} => ~p[i].idempotent
        /\ p[i].kind = "lab" => Len(p) = 1 /\ ~p[i].scratch
        /\ p[i].kind = "inert" => ~p[i].scratch

ASSUME WorkerAssumption ==
    /\ \A p \in Plans : p \in Seq(Operations) /\ Len(p) > 0 /\ WellFormed(p)
    /\ MaxCalls \in Nat

VARIABLES
    plan,         \* the approved plan
    calls,        \* calls made so far
    at,           \* the statement the worker is about to run
    op,           \* index of the current operation
    status,       \* status of the run
    authorization,\* its state at the approval authority
    journaled,    \* the cleanup journal has a run with this identifier
    held,         \* the receipt's provenance is registered
    dispatched,   \* adapter_dispatched
    proc,         \* how the adapter process ended
    raised,       \* what is being raised inside the channel: "none", "error", "interrupt"
    broken,       \* the operation's try block left the loop
    scratchFailed,\* operation_cleanup_failed
    tried,        \* attempted_operation_ids
    dirs,         \* directories of the run on disk: 0 is the workspace, i operation i's scratch
    started,      \* operations whose adapter process has been started
    settled,      \* operations whose outcome the worker has observed and recorded
    report        \* what the last call gave its caller

runVars == <<at, op, status, held, dispatched, proc, raised, broken, scratchFailed, tried>>
factVars == <<plan, calls, authorization, journaled, dirs, started, settled, report>>
workerVars == <<brokerVars, runVars, factVars>>

Statuses == {"success", "partial", "cancelled", "failed", "uncertain"}

NoReport == [status |-> "none", tried |-> {}, cleanup |-> "none"]

WorkerInit ==
    /\ BrokerInit
    /\ plan \in Plans
    /\ calls = 0 /\ at = "idle" /\ op = 1 /\ status = "success"
    /\ authorization = "approved" /\ journaled = FALSE /\ held = FALSE
    /\ dispatched = FALSE /\ proc = "none" /\ raised = "none"
    /\ broken = FALSE /\ scratchFailed = FALSE /\ tried = {}
    /\ dirs = {} /\ started = {} /\ settled = {}
    /\ report = NoReport

Mediated(i) == plan[i].kind \in {"replay", "lab"}

Goto(from, to) ==
    /\ at = from
    /\ at' = to

\* A dispatched non-idempotent operation may have had its effect.
InDoubt(sure) ==
    IF dispatched /\ ~plan[op].idempotent THEN "uncertain" ELSE sure

\* rollback: what is left of ds, and the status of the cleanup receipt.
Rollback(ds, cleanup) ==
    \E left \in {{}, ds} :
        /\ dirs' = left
        /\ cleanup = "completed" => left = {}

----------------------------------------------------------------------------
\* From the call to the consumed authorization

\* The run is journaled under the authorization's identifier.
StartRun ==
    /\ Goto("idle", "workspace")
    /\ calls < MaxCalls
    /\ calls' = calls + 1
    /\ ~journaled
    /\ journaled' = TRUE
    /\ tried' = {}
    /\ UNCHANGED <<brokerVars, op, status, held, dispatched, proc, raised, broken,
                   scratchFailed, plan, authorization, dirs, started, settled, report>>

\* start_run: the journal already has the run.
RefuseRun ==
    /\ at = "idle"
    /\ calls < MaxCalls
    /\ calls' = calls + 1
    /\ journaled
    /\ report' = [NoReport EXCEPT !.status = "refused"]
    /\ UNCHANGED <<brokerVars, runVars, plan, authorization, journaled, dirs, started, settled>>

\* The workspace is made, or the caller's is found unchanged.
MakeWorkspace ==
    /\ at = "workspace"
    /\ dirs' \in {dirs, dirs \cup {0}}
    /\ at' \in {"consume", "abandon"}
    /\ UNCHANGED <<brokerVars, op, status, held, dispatched, proc, raised, broken,
                   scratchFailed, tried, plan, calls, authorization, journaled, started,
                   settled, report>>

\* Readiness checks, consumption, the receipt's verification.  The authority
\* may refuse, and may consume without the receipt arriving or verifying.
Consume ==
    /\ at = "consume"
    /\ \/ /\ authorization = "approved"
          /\ authorization' = "consumed"
          /\ held' \in BOOLEAN
          /\ at' = IF held' THEN "setup" ELSE "abandon"
       \/ /\ at' = "abandon"
          /\ UNCHANGED <<authorization, held>>
    /\ UNCHANGED <<brokerVars, op, status, dispatched, proc, raised, broken, scratchFailed,
                   tried, plan, calls, journaled, dirs, started, settled, report>>

\* The consumption is journaled and the recorder set up.
SetUp ==
    /\ at = "setup"
    /\ \/ at' = "loop" /\ op' = 1 /\ status' = "success"
       \/ at' = "abandon" /\ UNCHANGED <<op, status>>
    /\ UNCHANGED <<brokerVars, held, dispatched, proc, raised, broken, scratchFailed, tried,
                   factVars>>

\* An exception before the operations, or an interrupt that no handler of the
\* loop catches: roll back, release the receipt, raise.
Abandon ==
    /\ Goto("abandon", "idle")
    /\ \E cleanup \in {"completed", "partial"} : Rollback(dirs, cleanup)
    /\ held' = FALSE
    /\ report' = [NoReport EXCEPT !.status = "raised"]
    /\ UNCHANGED <<brokerVars, op, status, dispatched, proc, raised, broken, scratchFailed,
                   tried, plan, calls, authorization, journaled, started, settled>>

----------------------------------------------------------------------------
\* One operation

\* The loop is left before the operation's try block.
LeaveLoop ==
    /\ Goto("loop", "finish")
    /\ \/ cancel /\ status' = "cancelled" /\ UNCHANGED dirs
       \/ status' = "partial" /\ UNCHANGED dirs
       \/ /\ status' = "failed"
          /\ dirs' \in {dirs, IF plan[op].scratch THEN dirs \cup {op} ELSE dirs}
    /\ UNCHANGED <<brokerVars, op, held, dispatched, proc, raised, broken, scratchFailed,
                   tried, plan, calls, authorization, journaled, started, settled, report>>

BeginStep ==
    /\ at = "loop"
    /\ ~cancel
    /\ expired' = FALSE
    /\ dispatched' = FALSE /\ raised' = "none" /\ broken' = FALSE /\ scratchFailed' = FALSE
    /\ dirs' = IF plan[op].scratch THEN dirs \cup {op} ELSE dirs
    /\ \/ /\ plan[op].kind = "inert"
          /\ at' = "stepped"
          /\ proc' \in {"ok", "overflow"}
       \/ /\ plan[op].kind # "inert"
          /\ at' = "prepare"
          /\ proc' = "none"
    /\ UNCHANGED <<cancel, channelVars, sent, op, status, held, tried, plan, calls,
                   authorization, journaled, started, settled, report>>

\* The handlers of the try block: the loop is left with status s.
Break(s) ==
    /\ at' = "stepped"
    /\ broken' = TRUE
    /\ status' = s

StepFrame == UNCHANGED <<op, held, scratchFailed, plan, calls, authorization, journaled, dirs,
                         settled, report>>

\* Evidence reservation, executable preparation, credentials, or opening the
\* channel fails, or is interrupted: nothing has been dispatched.
PrepareFails ==
    /\ at = "prepare"
    /\ \E s \in {"failed", "partial", "cancelled"} : Break(s)
    /\ StepFrame
    /\ UNCHANGED <<brokerVars, dispatched, proc, raised, tried, started>>

OpenStep ==
    /\ Goto("prepare", "launch")
    /\ Mediated(op)
    /\ OpenChannel(op, plan[op].kind)
    /\ StepFrame
    /\ UNCHANGED <<status, dispatched, proc, raised, broken, tried, started>>

\* run_prepared_adapter: no process is started once the deadline has passed.
Launch ==
    /\ at = IF Mediated(op) THEN "launch" ELSE "prepare"
    /\ \/ /\ expired
          /\ proc' = "unstarted"
          /\ at' = IF Mediated(op) THEN "close" ELSE "stepped"
          /\ UNCHANGED <<dispatched, started>>
       \/ /\ ~expired
          /\ dispatched' = TRUE
          /\ started' = started \cup {op}
          /\ at' = "running"
          /\ UNCHANGED proc
    /\ StepFrame
    /\ UNCHANGED <<brokerVars, status, raised, broken, tried>>

\* The adapter's only capability: the broker reads the fixed trigger.
Trigger ==
    /\ serves \in started
    /\ Serve("waiting", "connecting")
    /\ Pure
    /\ UNCHANGED <<attempted, payload, sent, runVars, factVars>>

\* The process ends by itself, at the deadline or at the output limit.
RunEnds ==
    /\ at = "running"
    /\ proc' \in {"ok", "nonzero", "overflow"} \cup (IF expired THEN {"timeout"} ELSE {})
    /\ at' = IF Mediated(op) THEN "close" ELSE "stepped"
    /\ StepFrame
    /\ UNCHANGED <<brokerVars, status, dispatched, raised, broken, tried, started>>

\* sandbox.run raises: an error, or an interrupt.
RunRaises ==
    /\ at = "running"
    /\ \E e \in {"error", "interrupt"} :
        \/ Mediated(op) /\ raised' = e /\ at' = "close" /\ UNCHANGED <<broken, status>>
        \/ /\ ~Mediated(op)
           /\ Break(InDoubt(IF e = "error" THEN "failed" ELSE "cancelled"))
           /\ UNCHANGED raised
    /\ StepFrame
    /\ UNCHANGED <<brokerVars, dispatched, proc, tried, started>>

----------------------------------------------------------------------------
\* Closing the channel of a mediated operation

WorkerFrame == UNCHANGED <<runVars, factVars>>

CloseChannel ==
    /\ at = "close"
    /\ CloseStep
    /\ WorkerFrame

CloseFails ==
    /\ at = "close"
    /\ KillGroupFails
    /\ raised' = "error"
    /\ UNCHANGED <<at, op, status, held, dispatched, proc, broken, scratchFailed, tried, factVars>>

\* An interrupt during the close.  The laboratory broker's process, which waits
\* to be killed, is then still running: closing it raises an error instead.
InterruptClose ==
    /\ at = "close"
    /\ LeaveClose
    /\ \/ raised' = "error" /\ mediator = "lab" /\ closing # "reaped"
       \/ raised' = "interrupt" /\ (mediator = "lab" => serving \notin Alive)
    /\ UNCHANGED <<at, op, status, held, dispatched, proc, broken, scratchFailed, tried, factVars>>

\* Mutant: an exception in the channel does not report the attempt.
ForgetAttempt ==
    IF raised = "none" /\ dispatch # "not_dispatched" THEN tried \cup {op} ELSE tried

\* attempted_operation_ids after the channel.
NoteAttempt == IF dispatch # "not_dispatched" THEN tried \cup {op} ELSE tried

\* Mutant: the adapter's exit code is believed without a result.
TrustExit ==
    IF dispatch = "uncertain" THEN "uncertain"
    ELSE IF raised # "none" THEN raised
    ELSE IF dispatch = "completed" /\ proc # "ok" THEN "uncertain"
    ELSE IF cancel THEN "interrupt"
    ELSE "none"

\* What the statements after the channel raise, from its state and the process.
ChannelOutcome ==
    IF dispatch = "uncertain" THEN "uncertain"
    ELSE IF raised # "none" THEN raised
    ELSE IF dispatch = "completed" /\ proc # "ok" THEN "uncertain"
    ELSE IF cancel THEN "interrupt"
    ELSE IF proc = "ok" /\ ~result THEN "error"
    ELSE "none"

\* The step goes on, or its handler classifies what was raised.
Settle ==
    /\ at = "close"
    /\ closing \in {"closed", "left"}
    /\ tried' = NoteAttempt
    /\ dispatched' = (dispatched /\ dispatch # "not_dispatched")
    /\ \/ ChannelOutcome = "none" /\ at' = "stepped" /\ UNCHANGED <<broken, status>>
       \/ ChannelOutcome = "uncertain" /\ Break("uncertain")
       \/ /\ ChannelOutcome = "error"
          /\ Break(IF dispatched' /\ ~plan[op].idempotent THEN "uncertain" ELSE "failed")
       \/ /\ ChannelOutcome = "interrupt"
          /\ Break(IF dispatched' /\ ~plan[op].idempotent THEN "uncertain" ELSE "cancelled")
    /\ StepFrame
    /\ UNCHANGED <<brokerVars, proc, raised, started>>

----------------------------------------------------------------------------
\* After the try block

\* Mutant: a failed scratch cleanup is an ordinary failure.
FailScratch == "failed"

\* The status when the scratch directory cannot be closed or removed.
ScratchFailure == InDoubt("failed")

\* The finally block removes the operation's scratch directory.
LeaveStep ==
    /\ at = "stepped"
    /\ at' = IF broken THEN "finish" ELSE "capture"
    /\ \/ UNCHANGED <<status, scratchFailed>> /\ dirs' = dirs \ {op}
       \/ /\ plan[op].scratch
          /\ scratchFailed' = TRUE
          /\ status' = ScratchFailure
          /\ dirs' \in {dirs, dirs \ {op}}
    /\ UNCHANGED <<brokerVars, op, held, dispatched, proc, raised, broken, tried, plan, calls,
                   authorization, journaled, started, settled, report>>

CaptureFrame == UNCHANGED <<brokerVars, held, dispatched, proc, raised, broken, scratchFailed,
                            tried, plan, calls, authorization, journaled, dirs, started, report>>

\* The output cannot be captured, or the executable not removed, or the process
\* was cut short: the outcome stays in doubt.
Unobserved ==
    /\ at = "capture"
    /\ at' = "finish"
    /\ \/ status' = InDoubt("failed")
       \/ scratchFailed /\ UNCHANGED status
       \/ ~scratchFailed /\ plan[op].kind # "inert" /\ status' = InDoubt("partial")
       \/ /\ ~scratchFailed
          /\ proc \in {"timeout", "unstarted", "overflow"}
          /\ status' = InDoubt("partial")
    /\ CaptureFrame
    /\ UNCHANGED <<op, settled>>

\* No handler catches an interrupt here.
CaptureInterrupted ==
    /\ Goto("capture", "abandon")
    /\ CaptureFrame
    /\ UNCHANGED <<op, status, settled>>

\* The outcome is known: an error exit or truncated evidence ends the plan.
Observe ==
    /\ at = "capture"
    /\ ~scratchFailed
    /\ proc \in {"ok", "nonzero"}
    /\ settled' = settled \cup {op}
    /\ \/ /\ proc = "nonzero"
          /\ at' = "finish" /\ status' = "failed" /\ UNCHANGED op
       \/ /\ proc = "ok"
          /\ at' = "finish" /\ status' = "partial" /\ UNCHANGED op
       \/ /\ proc = "ok"
          /\ op < Len(plan)
          /\ at' = "loop" /\ op' = op + 1 /\ UNCHANGED status
       \/ /\ proc = "ok"
          /\ op = Len(plan)
          /\ at' = "finish" /\ UNCHANGED <<op, status>>
    /\ CaptureFrame

\* The outer finally: roll back, release the receipt, report.
Finish ==
    /\ Goto("finish", "idle")
    /\ held' = FALSE
    /\ \E cleanup \in {"completed", "partial"} :
        /\ Rollback(dirs, cleanup)
        /\ status' = IF cleanup = "partial" /\ status = "success" THEN "partial" ELSE status
        /\ \/ report' = [status |-> status', tried |-> tried,
                         cleanup |-> IF scratchFailed THEN "failed" ELSE cleanup]
           \/ report' = [NoReport EXCEPT !.status = "raised"]
    /\ UNCHANGED <<brokerVars, op, dispatched, proc, raised, broken, scratchFailed, tried, plan,
                   calls, authorization, journaled, started, settled>>

----------------------------------------------------------------------------
\* Crash, restart, environment

\* The worker dies; its broker, a process of its own, may live on.
Crash ==
    /\ at \notin {"idle", "down"}
    /\ at' = "down"
    /\ held' = FALSE
    /\ monitor' = "off"
    /\ closing' = "left"
    /\ UNCHANGED <<cancel, expired, serves, mediator, serving, attempted, cancelled, payload,
                   stopped, result, dispatch, sent, op, status, dispatched, proc, raised,
                   broken, scratchFailed, tried, factVars>>

\* recover_pending_cleanup, before the worker takes another call.
Restart ==
    /\ Goto("down", "idle")
    /\ \E cleanup \in {"completed", "partial"} : Rollback(dirs, cleanup)
    /\ UNCHANGED <<brokerVars, op, status, held, dispatched, proc, raised, broken,
                   scratchFailed, tried, plan, calls, authorization, journaled, started,
                   settled, report>>

Advance ==
    \/ StartRun \/ RefuseRun \/ MakeWorkspace \/ Consume \/ SetUp \/ Abandon
    \/ LeaveLoop \/ BeginStep \/ PrepareFails \/ OpenStep \/ Launch
    \/ RunEnds \/ RunRaises
    \/ CloseChannel \/ CloseFails \/ Settle
    \/ LeaveStep \/ Unobserved \/ Observe \/ Finish

CallStep == Advance \/ InterruptClose \/ CaptureInterrupted

Beside ==
    \/ Trigger
    \/ BrokerStep /\ WorkerFrame
    \/ MonitorStep /\ WorkerFrame

Environment == (OperatorCancels \/ DeadlinePasses) /\ WorkerFrame

WorkerNext == CallStep \/ Beside \/ Environment \/ Crash \/ Restart

WorkerSafety == WorkerInit /\ [][WorkerNext]_workerVars

\* A call that has begun goes on by itself, without the help of an interrupt,
\* and ends its adapter at the deadline at the latest; the monitor thread is
\* scheduled and the clock advances.  The broker waits on a remote peer and the
\* adapter is not trusted: neither need ever move.
WorkerSpec ==
    /\ WorkerSafety
    /\ WF_workerVars(at # "idle" /\ (at = "running" => expired) /\ Advance)
    /\ WF_workerVars(MonitorStep /\ WorkerFrame)
    /\ WF_workerVars(DeadlinePasses /\ WorkerFrame)

----------------------------------------------------------------------------
\* Properties

WorkerTypeOK ==
    /\ plan \in Plans /\ calls \in 0..MaxCalls
    /\ at \in {"idle", "workspace", "consume", "setup", "abandon", "loop", "prepare", "launch",
               "running", "close", "stepped", "capture", "finish", "down"}
    /\ op \in 1..Len(plan)
    /\ status \in Statuses
    /\ authorization \in {"approved", "consumed"}
    /\ journaled \in BOOLEAN /\ held \in BOOLEAN /\ dispatched \in BOOLEAN
    /\ broken \in BOOLEAN /\ scratchFailed \in BOOLEAN
    /\ proc \in {"none", "ok", "nonzero", "overflow", "timeout", "unstarted"}
    /\ raised \in {"none", "error", "interrupt"}
    /\ started \subseteq DOMAIN plan /\ settled \subseteq DOMAIN plan
    /\ tried \subseteq DOMAIN plan /\ sent \subseteq DOMAIN plan
    /\ dirs \subseteq 0..Len(plan)
    /\ serves \in 0..Len(plan) /\ mediator \in {"replay", "lab"}
    /\ serving \in Alive \cup {"none", "gone"}
    /\ cancel \in BOOLEAN /\ expired \in BOOLEAN /\ attempted \in BOOLEAN
    /\ cancelled \in BOOLEAN /\ payload \in BOOLEAN /\ stopped \in BOOLEAN
    /\ result \in BOOLEAN
    /\ monitor \in {"off", "polling", "done"}
    /\ dispatch \in {"not_dispatched", "uncertain", "completed"}
    /\ closing \in {"none", "open", "joining", "stopping", "reaped", "closed", "left"}

\* The operation may have had its effect on the target.
Effected(i) == IF Mediated(i) THEN i \in sent ELSE i \in started

Reported == report.status \in Statuses

AllObserved ==
    \A i \in DOMAIN plan : ~plan[i].idempotent /\ Effected(i) => i \in settled

\* A run result that is not `uncertain' is safe to act on: every non-idempotent
\* operation that may have had its effect, now or later, has an outcome that the
\* worker observed (the InDoubt classification of worker.py and its handlers),
\* unless an interrupt landed in the close of a channel.
HonestStatus ==
    Reported /\ report.status # "uncertain" /\ closing # "left" => AllObserved

\* Interruptions during non-idempotent operations make the run `uncertain': an
\* interrupt in the close of a channel too.
InterruptsAreUncertain ==
    Reported /\ report.status # "uncertain" /\ closing = "left" => AllObserved

\* attempted_operation_ids names every mediated operation of which a request has
\* left the broker, whatever ended the operation short of such an interrupt.
AttemptsReported ==
    Reported /\ closing # "left" => \A i \in sent : i \in report.tried

\* A channel closed as not_dispatched has sent nothing and never will: the state
\* is classified after the broker is reaped and the monitor joined.
NotDispatchedIsFinal ==
    closing = "closed" /\ dispatch = "not_dispatched" => serves \notin sent

\* `success' means that every operation was started, sent if mediated, observed,
\* and that no directory of the run is left.
SuccessIsComplete ==
    report.status = "success" =>
        /\ \A i \in DOMAIN plan : i \in settled
        /\ \A i \in DOMAIN plan : plan[i].kind # "inert" => Effected(i)
        /\ dirs = {} /\ report.cleanup = "completed"

\* An adapter is only started while the worker holds the verified receipt of the
\* consumed authorization, for the first time, and after every earlier operation
\* has been observed.
StartsUnderReceipt ==
    [][started' # started =>
        /\ held /\ authorization = "consumed"
        /\ op \notin started
        /\ \A i \in 1..(op - 1) : i \in settled]_workerVars

\* Every call returns, raises or dies, although the broker may hang.
CallsEnd == at \notin {"idle", "down"} ~> at \in {"idle", "down"}
====
