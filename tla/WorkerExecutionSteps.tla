---- MODULE WorkerExecutionSteps ----
(***************************************************************************)
(* The inductive invariant of WorkerExecution and the first half of its    *)
(* steps: types, the channel, where the worker is and what is behind it.   *)
(*                                                                         *)
(* ChannelInv relates the broker to the channel: an attempt is noted       *)
(* before a request can leave, and a closed channel's broker is gone.      *)
(* RunInv says, for each statement of the worker, what is settled, what is *)
(* in doubt and what is reported.                                          *)
(***************************************************************************)
EXTENDS WorkerExecution, TLAPS

ChannelInv ==
    /\ serves \in sent => attempted
    /\ serving \in {"observed", "sending", "answered", "replied"} => attempted
    /\ serving \in {"sending", "answered", "replied"} => serves \in sent
    /\ payload => serves \in sent
    /\ result => payload
    /\ closing \in {"reaped", "closed"} => serving = "gone"
    /\ closing = "closed" => monitor = "done" /\ dispatch = ChannelState
    /\ closing = "none" => serving = "none" /\ monitor = "off"

Open == {"open", "joining", "stopping", "reaped"}

\* Where the channel is, and which operations can have been started or sent.
Placed ==
    /\ sent \subseteq started
    /\ serving \in Alive \ {"waiting"} => serves \in started
    /\ \A j \in started : j <= op
    /\ ~journaled => at = "idle" /\ ~Reported
    /\ ~journaled \/ at \in {"workspace", "consume", "setup"} =>
           started = {} /\ closing = "none"
    /\ closing \in Open =>
           /\ at \in {"launch", "running", "close"}
           /\ serves = op /\ Mediated(op)
    /\ at = "close" => closing # "none" /\ serves = op /\ Mediated(op)
    /\ at = "launch" => closing = "open"
    /\ at = "running" => (Mediated(op) <=> closing = "open")
    /\ at \in {"loop", "prepare", "capture"} => closing # "left"
    /\ at = "running" => closing # "left"
    /\ at = "stepped" /\ closing = "left" => broken
    /\ at = "close" /\ closing = "left" => raised # "none"

\* What is known of the operations before the current one.
Before ==
    /\ at \in {"setup", "loop", "prepare", "launch", "running", "close", "stepped", "capture",
              "finish"} =>
           held /\ authorization = "consumed"
    /\ at \in {"loop", "prepare", "launch", "running", "close", "stepped", "capture", "finish"} =>
           \A j \in 1..(op - 1) :
               /\ j \in settled
               /\ plan[j].kind # "inert" => Effected(j)

\* What is known of the current operation.
Current ==
    /\ at \in {"loop", "prepare", "launch"} => op \notin started
    /\ at \in {"prepare", "launch"} => ~dispatched
    /\ at \in {"prepare", "launch", "running", "close"} => ~broken
    /\ at \in {"prepare", "launch", "running", "close", "stepped"} => ~scratchFailed
    /\ at \in {"running", "close"} /\ op \in started => dispatched
    /\ at = "running" => op \in started
    /\ at = "close" /\ proc \in {"ok", "nonzero"} => op \in started
    /\ at \in {"stepped", "capture"} /\ closing # "left" =>
           /\ Effected(op) => dispatched
           /\ proc = "ok" /\ ~broken /\ plan[op].kind # "inert" => Effected(op)
    /\ at = "stepped" /\ broken => status # "success"
    /\ at = "stepped" /\ broken /\ closing # "left" /\ dispatched /\ ~plan[op].idempotent =>
           status = "uncertain"
    /\ at = "capture" => ~broken
    /\ at = "capture" /\ scratchFailed => status # "success"
    /\ at = "capture" /\ scratchFailed /\ dispatched /\ ~plan[op].idempotent =>
           status = "uncertain"

\* The plan has run to its end.
Complete ==
    \A j \in DOMAIN plan : j \in settled /\ (plan[j].kind # "inert" => Effected(j))

\* What the result says.
Told ==
    /\ at \in {"loop", "prepare", "stepped", "capture", "finish"} /\ closing # "left" =>
           sent \subseteq tried
    /\ at \in {"launch", "running", "close"} /\ closing # "left" =>
           \A j \in sent : j \in tried \/ (j = op /\ Mediated(op))
    /\ at = "finish" /\ closing # "left" /\ status # "uncertain" => AllObserved
    /\ at = "finish" /\ status = "success" => Complete /\ ~scratchFailed

\* A result, once given, stays true.
Final ==
    /\ Reported => at = "idle" /\ journaled
    /\ HonestStatus /\ AttemptsReported /\ SuccessIsComplete

RunInv == Placed /\ Before /\ Current /\ Told /\ Final

WorkerInv == WorkerTypeOK /\ ChannelInv /\ RunInv

\* The three parts of the type invariant.
RunSorts ==
    /\ at \in {"idle", "workspace", "consume", "setup", "abandon", "loop", "prepare", "launch",
               "running", "close", "stepped", "capture", "finish", "down"}
    /\ status \in Statuses
    /\ authorization \in {"approved", "consumed"}
    /\ journaled \in BOOLEAN /\ held \in BOOLEAN /\ dispatched \in BOOLEAN
    /\ broken \in BOOLEAN /\ scratchFailed \in BOOLEAN
    /\ proc \in {"none", "ok", "nonzero", "overflow", "timeout", "unstarted"}
    /\ raised \in {"none", "error", "interrupt"}

ChannelSorts ==
    /\ mediator \in {"replay", "lab"}
    /\ serving \in Alive \cup {"none", "gone"}
    /\ cancel \in BOOLEAN /\ expired \in BOOLEAN /\ attempted \in BOOLEAN
    /\ cancelled \in BOOLEAN /\ payload \in BOOLEAN /\ stopped \in BOOLEAN
    /\ result \in BOOLEAN
    /\ monitor \in {"off", "polling", "done"}
    /\ dispatch \in {"not_dispatched", "uncertain", "completed"}
    /\ closing \in {"none", "open", "joining", "stopping", "reaped", "closed", "left"}

Indices ==
    /\ plan \in Plans
    /\ calls \in 0..MaxCalls
    /\ op \in 1..Len(plan)
    /\ started \subseteq DOMAIN plan
    /\ settled \subseteq DOMAIN plan
    /\ tried \subseteq DOMAIN plan
    /\ sent \subseteq DOMAIN plan
    /\ dirs \subseteq 0..Len(plan)
    /\ serves \in 0..Len(plan)

LEMMA TypeParts == WorkerTypeOK <=> RunSorts /\ ChannelSorts /\ Indices
  BY DEF WorkerTypeOK, RunSorts, ChannelSorts, Indices

\* Facts about plans that the proofs use.
LEMMA PlanFacts ==
    ASSUME plan \in Plans
    PROVE  /\ Len(plan) \in Nat /\ Len(plan) > 0
           /\ DOMAIN plan = 1..Len(plan)
           /\ \A i \in DOMAIN plan :
                  /\ plan[i].kind \in Kinds
                  /\ plan[i].idempotent \in BOOLEAN
                  /\ plan[i].scratch \in BOOLEAN
                  /\ Mediated(i) => ~plan[i].idempotent
                  /\ plan[i].kind = "inert" => ~Mediated(i) /\ ~plan[i].scratch
<1>1. plan \in Seq(Operations) /\ Len(plan) > 0 /\ WellFormed(plan)
  BY WorkerAssumption
<1>2. \A i \in DOMAIN plan : plan[i] \in Operations
  BY <1>1
<1> QED
  BY <1>1, <1>2 DEF Operations, WellFormed, Mediated

\* Every step keeps the enumerations of the run.
LEMMA RunSortsStep ==
    ASSUME RunSorts, [WorkerNext]_workerVars
    PROVE  RunSorts'
<1> USE DEF RunSorts, Statuses, brokerVars, channelVars, runVars, factVars
<1>1. ASSUME StartRun PROVE RunSorts'
  BY <1>1 DEF StartRun, Goto
<1>2. ASSUME RefuseRun PROVE RunSorts'
  BY <1>2 DEF RefuseRun, NoReport
<1>3. ASSUME MakeWorkspace PROVE RunSorts'
  BY <1>3 DEF MakeWorkspace
<1>4. ASSUME Consume PROVE RunSorts'
  BY <1>4 DEF Consume
<1>5. ASSUME SetUp PROVE RunSorts'
  BY <1>5 DEF SetUp
<1>6. ASSUME Abandon PROVE RunSorts'
  BY <1>6, ZenonT(30) DEF Abandon, Goto, Rollback, NoReport
<1>7. ASSUME LeaveLoop PROVE RunSorts'
  BY <1>7 DEF LeaveLoop, Goto
<1>8. ASSUME BeginStep PROVE RunSorts'
  BY <1>8 DEF BeginStep
<1>9. ASSUME PrepareFails PROVE RunSorts'
  BY <1>9 DEF PrepareFails, Break, StepFrame
<1>10. ASSUME OpenStep PROVE RunSorts'
  BY <1>10 DEF OpenStep, Goto, OpenChannel, StepFrame
<1>11. ASSUME Launch PROVE RunSorts'
  <2>1. /\ at' \in {"close", "stepped", "running"} /\ proc' \in {proc, "unstarted"}
        /\ dispatched' \in BOOLEAN
    BY <1>11 DEF Launch
  <2>2. UNCHANGED <<status, authorization, journaled, held, broken, scratchFailed, raised>>
    BY <1>11 DEF Launch, StepFrame
  <2> QED
    BY <2>1, <2>2
<1>12. ASSUME RunEnds PROVE RunSorts'
  BY <1>12 DEF RunEnds, StepFrame
<1>13. ASSUME RunRaises PROVE RunSorts'
  <2>1. /\ at' \in {"close", "stepped"} /\ broken' \in BOOLEAN
        /\ status' \in {status, "failed", "cancelled", "uncertain"}
        /\ raised' \in {raised, "error", "interrupt"}
    BY <1>13 DEF RunRaises, Break, InDoubt
  <2>2. UNCHANGED <<authorization, journaled, held, dispatched, scratchFailed, proc>>
    BY <1>13 DEF RunRaises, StepFrame
  <2> QED
    BY <2>1, <2>2
<1>14. ASSUME CloseFails PROVE RunSorts'
  BY <1>14 DEF CloseFails, KillGroupFails, Close
<1>15. ASSUME InterruptClose PROVE RunSorts'
  BY <1>15 DEF InterruptClose, LeaveClose, ChannelState
<1>16. ASSUME Settle PROVE RunSorts'
  BY <1>16 DEF Settle, NoteAttempt, ChannelOutcome, Break, StepFrame
<1>17. ASSUME LeaveStep PROVE RunSorts'
  BY <1>17, ZenonT(30) DEF LeaveStep, ScratchFailure, InDoubt
<1>18. ASSUME Unobserved PROVE RunSorts'
  BY <1>18 DEF Unobserved, CaptureFrame, InDoubt
<1>19. ASSUME CaptureInterrupted PROVE RunSorts'
  BY <1>19 DEF CaptureInterrupted, Goto, CaptureFrame
<1>20. ASSUME Observe PROVE RunSorts'
  BY <1>20 DEF Observe, CaptureFrame
<1>21. ASSUME Finish PROVE RunSorts'
  BY <1>21, ZenonT(30) DEF Finish, Goto, Rollback, NoReport
<1>22. ASSUME Trigger PROVE RunSorts'
  BY <1>22 DEF Trigger, Serve, Pure
<1>23. ASSUME Crash PROVE RunSorts'
  BY <1>23, ZenonT(30) DEF Crash
<1>24. ASSUME Restart PROVE RunSorts'
  BY <1>24 DEF Restart, Goto, Rollback
<1>25. ASSUME at = "close", BeginClose, WorkerFrame PROVE RunSorts'
  BY <1>25 DEF BeginClose, Close, WorkerFrame
<1>26. ASSUME at = "close", ReapBroker, WorkerFrame PROVE RunSorts'
  BY <1>26 DEF ReapBroker, Close, WorkerFrame
<1>27. ASSUME at = "close", StopMonitor, WorkerFrame PROVE RunSorts'
  BY <1>27 DEF StopMonitor, Close, WorkerFrame
<1>28. ASSUME at = "close", KillGroup, WorkerFrame PROVE RunSorts'
  BY <1>28 DEF KillGroup, Close, WorkerFrame
<1>29. ASSUME at = "close", Classify, WorkerFrame PROVE RunSorts'
  BY <1>29 DEF Classify, Close, ChannelState, WorkerFrame
<1>30. ASSUME Connect, WorkerFrame PROVE RunSorts'
  BY <1>30 DEF Connect, Serve, Pure, WorkerFrame
<1>31. ASSUME ObserveDispatch, WorkerFrame PROVE RunSorts'
  BY <1>31 DEF ObserveDispatch, Serve, Pure, WorkerFrame
<1>32. ASSUME Transmit, WorkerFrame PROVE RunSorts'
  BY <1>32 DEF Transmit, Serve, Pure, WorkerFrame
<1>33. ASSUME Respond, WorkerFrame PROVE RunSorts'
  BY <1>33 DEF Respond, Serve, Pure, WorkerFrame
<1>34. ASSUME Reply, WorkerFrame PROVE RunSorts'
  BY <1>34 DEF Reply, Serve, Pure, WorkerFrame
<1>35. ASSUME Exit, WorkerFrame PROVE RunSorts'
  BY <1>35 DEF Exit, Pure, WorkerFrame
<1>36. ASSUME MonitorCancels, WorkerFrame PROVE RunSorts'
  BY <1>36 DEF MonitorCancels, MonitorEnds, WorkerFrame
<1>37. ASSUME MonitorReads, WorkerFrame PROVE RunSorts'
  BY <1>37 DEF MonitorReads, MonitorEnds, WorkerFrame
<1>38. ASSUME MonitorStopped, WorkerFrame PROVE RunSorts'
  BY <1>38 DEF MonitorStopped, MonitorEnds, WorkerFrame
<1>39. ASSUME OperatorCancels, WorkerFrame PROVE RunSorts'
  BY <1>39 DEF OperatorCancels, WorkerFrame
<1>40. ASSUME DeadlinePasses, WorkerFrame PROVE RunSorts'
  BY <1>40 DEF DeadlinePasses, WorkerFrame
<1>41. ASSUME UNCHANGED workerVars PROVE RunSorts'
  BY <1>41 DEF workerVars, ChannelState
<1> QED
  BY <1>1, <1>2, <1>3, <1>4, <1>5, <1>6, <1>7, <1>8, <1>9, <1>10, <1>11, <1>12, <1>13, <1>14,
     <1>15, <1>16, <1>17, <1>18, <1>19, <1>20, <1>21, <1>22, <1>23, <1>24, <1>25, <1>26,
     <1>27, <1>28, <1>29, <1>30, <1>31, <1>32, <1>33, <1>34, <1>35, <1>36, <1>37, <1>38,
     <1>39, <1>40, <1>41
     DEF WorkerNext, CallStep, Advance, CloseChannel, CloseStep, Beside, BrokerStep,
        MonitorStep, Environment

\* Every step keeps the enumerations of the channel.
LEMMA ChannelSortsStep ==
    ASSUME ChannelSorts, [WorkerNext]_workerVars
    PROVE  ChannelSorts'
<1> USE DEF ChannelSorts, Alive, brokerVars, channelVars, runVars, factVars
<1>1. ASSUME StartRun PROVE ChannelSorts'
  BY <1>1 DEF StartRun, Goto
<1>2. ASSUME RefuseRun PROVE ChannelSorts'
  BY <1>2 DEF RefuseRun, NoReport
<1>3. ASSUME MakeWorkspace PROVE ChannelSorts'
  BY <1>3 DEF MakeWorkspace
<1>4. ASSUME Consume PROVE ChannelSorts'
  BY <1>4 DEF Consume
<1>5. ASSUME SetUp PROVE ChannelSorts'
  BY <1>5 DEF SetUp
<1>6. ASSUME Abandon PROVE ChannelSorts'
  BY <1>6 DEF Abandon, Goto, Rollback, NoReport
<1>7. ASSUME LeaveLoop PROVE ChannelSorts'
  BY <1>7 DEF LeaveLoop, Goto
<1>8. ASSUME BeginStep PROVE ChannelSorts'
  <2>1. expired' \in BOOLEAN /\ cancel' = cancel /\ mediator' = mediator /\ serving' = serving
        /\ UNCHANGED <<attempted, cancelled, payload, monitor, stopped, result, dispatch, closing>>
    BY <1>8 DEF BeginStep
  <2> QED
    BY <2>1
<1>9. ASSUME PrepareFails PROVE ChannelSorts'
  BY <1>9 DEF PrepareFails, Break, StepFrame
<1>10. ASSUME OpenStep PROVE ChannelSorts'
  BY <1>10 DEF OpenStep, Goto, OpenChannel, StepFrame, Mediated
<1>11. ASSUME Launch PROVE ChannelSorts'
  BY <1>11 DEF Launch, StepFrame
<1>12. ASSUME RunEnds PROVE ChannelSorts'
  BY <1>12 DEF RunEnds, StepFrame
<1>13. ASSUME RunRaises PROVE ChannelSorts'
  BY <1>13 DEF RunRaises, Break, StepFrame, InDoubt
<1>14. ASSUME CloseFails PROVE ChannelSorts'
  BY <1>14 DEF CloseFails, KillGroupFails, Close
<1>15. ASSUME InterruptClose PROVE ChannelSorts'
  BY <1>15 DEF InterruptClose, LeaveClose, ChannelState
<1>16. ASSUME Settle PROVE ChannelSorts'
  BY <1>16 DEF Settle, NoteAttempt, ChannelOutcome, Break, StepFrame
<1>17. ASSUME LeaveStep PROVE ChannelSorts'
  BY <1>17 DEF LeaveStep, ScratchFailure, InDoubt
<1>18. ASSUME Unobserved PROVE ChannelSorts'
  BY <1>18 DEF Unobserved, CaptureFrame, InDoubt
<1>19. ASSUME CaptureInterrupted PROVE ChannelSorts'
  BY <1>19 DEF CaptureInterrupted, Goto, CaptureFrame
<1>20. ASSUME Observe PROVE ChannelSorts'
  BY <1>20 DEF Observe, CaptureFrame
<1>21. ASSUME Finish PROVE ChannelSorts'
  BY <1>21 DEF Finish, Goto, Rollback, NoReport
<1>22. ASSUME Trigger PROVE ChannelSorts'
  BY <1>22 DEF Trigger, Serve, Pure
<1>23. ASSUME Crash PROVE ChannelSorts'
  BY <1>23 DEF Crash
<1>24. ASSUME Restart PROVE ChannelSorts'
  BY <1>24 DEF Restart, Goto, Rollback
<1>25. ASSUME at = "close", BeginClose, WorkerFrame PROVE ChannelSorts'
  BY <1>25 DEF BeginClose, Close, WorkerFrame
<1>26. ASSUME at = "close", ReapBroker, WorkerFrame PROVE ChannelSorts'
  BY <1>26 DEF ReapBroker, Close, WorkerFrame
<1>27. ASSUME at = "close", StopMonitor, WorkerFrame PROVE ChannelSorts'
  BY <1>27 DEF StopMonitor, Close, WorkerFrame
<1>28. ASSUME at = "close", KillGroup, WorkerFrame PROVE ChannelSorts'
  BY <1>28 DEF KillGroup, Close, WorkerFrame
<1>29. ASSUME at = "close", Classify, WorkerFrame PROVE ChannelSorts'
  BY <1>29 DEF Classify, Close, ChannelState, WorkerFrame
<1>30. ASSUME Connect, WorkerFrame PROVE ChannelSorts'
  BY <1>30 DEF Connect, Serve, Pure, WorkerFrame
<1>31. ASSUME ObserveDispatch, WorkerFrame PROVE ChannelSorts'
  BY <1>31 DEF ObserveDispatch, Serve, Pure, WorkerFrame
<1>32. ASSUME Transmit, WorkerFrame PROVE ChannelSorts'
  BY <1>32 DEF Transmit, Serve, Pure, WorkerFrame
<1>33. ASSUME Respond, WorkerFrame PROVE ChannelSorts'
  BY <1>33 DEF Respond, Serve, Pure, WorkerFrame
<1>34. ASSUME Reply, WorkerFrame PROVE ChannelSorts'
  BY <1>34 DEF Reply, Serve, Pure, WorkerFrame
<1>35. ASSUME Exit, WorkerFrame PROVE ChannelSorts'
  BY <1>35 DEF Exit, Pure, WorkerFrame
<1>36. ASSUME MonitorCancels, WorkerFrame PROVE ChannelSorts'
  BY <1>36 DEF MonitorCancels, MonitorEnds, WorkerFrame
<1>37. ASSUME MonitorReads, WorkerFrame PROVE ChannelSorts'
  BY <1>37 DEF MonitorReads, MonitorEnds, WorkerFrame
<1>38. ASSUME MonitorStopped, WorkerFrame PROVE ChannelSorts'
  BY <1>38 DEF MonitorStopped, MonitorEnds, WorkerFrame
<1>39. ASSUME OperatorCancels, WorkerFrame PROVE ChannelSorts'
  BY <1>39 DEF OperatorCancels, WorkerFrame
<1>40. ASSUME DeadlinePasses, WorkerFrame PROVE ChannelSorts'
  BY <1>40 DEF DeadlinePasses, WorkerFrame
<1>41. ASSUME UNCHANGED workerVars PROVE ChannelSorts'
  BY <1>41 DEF workerVars, ChannelState
<1> QED
  BY <1>1, <1>2, <1>3, <1>4, <1>5, <1>6, <1>7, <1>8, <1>9, <1>10, <1>11, <1>12, <1>13, <1>14,
     <1>15, <1>16, <1>17, <1>18, <1>19, <1>20, <1>21, <1>22, <1>23, <1>24, <1>25, <1>26,
     <1>27, <1>28, <1>29, <1>30, <1>31, <1>32, <1>33, <1>34, <1>35, <1>36, <1>37, <1>38,
     <1>39, <1>40, <1>41
     DEF WorkerNext, CallStep, Advance, CloseChannel, CloseStep, Beside, BrokerStep,
        MonitorStep, Environment

\* From here on the leaves go to Zenon; the ones that need arithmetic, or
\* records and functions taken apart, cite SMT.
USE Zenon

\* Every step keeps the indices in range.
LEMMA IndicesStep ==
    ASSUME Indices, Placed, [WorkerNext]_workerVars
    PROVE  Indices'
<1>a. Len(plan) \in Nat /\ DOMAIN plan = 1..Len(plan) /\ MaxCalls \in Nat
  BY PlanFacts, WorkerAssumption DEF Indices
<1> USE <1>a DEF Indices, brokerVars, channelVars, runVars, factVars
<1>1. ASSUME StartRun PROVE Indices'
  BY <1>1, SMT DEF StartRun, Goto
<1>2. ASSUME RefuseRun PROVE Indices'
  BY <1>2, SMT DEF RefuseRun, NoReport
<1>3. ASSUME MakeWorkspace PROVE Indices'
  BY <1>3, SMT DEF MakeWorkspace
<1>4. ASSUME Consume PROVE Indices'
  BY <1>4 DEF Consume
<1>5. ASSUME SetUp PROVE Indices'
  BY <1>5, SMT DEF SetUp
<1>6. ASSUME Abandon PROVE Indices'
  BY <1>6 DEF Abandon, Goto, Rollback, NoReport
<1>7. ASSUME LeaveLoop PROVE Indices'
  <2>1. dirs' \subseteq dirs \cup {op}
    BY <1>7 DEF LeaveLoop
  <2> QED
    BY <1>7, <2>1, SMT DEF LeaveLoop
<1>8. ASSUME BeginStep PROVE Indices'
  <2>1. dirs' \subseteq dirs \cup {op}
    BY <1>8 DEF BeginStep
  <2>2. UNCHANGED <<plan, calls, op, started, settled, tried, sent, serves>>
    BY <1>8 DEF BeginStep
  <2> QED
    BY <2>1, <2>2, SMT
<1>9. ASSUME PrepareFails PROVE Indices'
  BY <1>9 DEF PrepareFails, Break, StepFrame
<1>10. ASSUME OpenStep PROVE Indices'
  BY <1>10, SMT DEF OpenStep, Goto, OpenChannel, StepFrame
<1>11. ASSUME Launch PROVE Indices'
  BY <1>11 DEF Launch, StepFrame
<1>12. ASSUME RunEnds PROVE Indices'
  BY <1>12 DEF RunEnds, StepFrame
<1>13. ASSUME RunRaises PROVE Indices'
  BY <1>13 DEF RunRaises, Break, StepFrame, InDoubt
<1>14. ASSUME CloseFails PROVE Indices'
  BY <1>14 DEF CloseFails, KillGroupFails, Close
<1>15. ASSUME InterruptClose PROVE Indices'
  BY <1>15 DEF InterruptClose, LeaveClose, ChannelState
<1>16. ASSUME Settle PROVE Indices'
  BY <1>16 DEF Settle, NoteAttempt, ChannelOutcome, Break, StepFrame
<1>17. ASSUME LeaveStep PROVE Indices'
  BY <1>17 DEF LeaveStep, ScratchFailure, InDoubt
<1>18. ASSUME Unobserved PROVE Indices'
  BY <1>18 DEF Unobserved, CaptureFrame, InDoubt
<1>19. ASSUME CaptureInterrupted PROVE Indices'
  BY <1>19 DEF CaptureInterrupted, Goto, CaptureFrame
<1>20. ASSUME Observe PROVE Indices'
  <2>1. settled' \subseteq DOMAIN plan
    BY <1>20 DEF Observe
  <2>2. op' = op \/ (op < Len(plan) /\ op' = op + 1)
    BY <1>20 DEF Observe
  <2>3. UNCHANGED <<plan, calls, started, tried, sent, dirs, serves>>
    BY <1>20 DEF Observe, CaptureFrame
  <2> QED
    BY <2>1, <2>2, <2>3, SMT
<1>21. ASSUME Finish PROVE Indices'
  BY <1>21 DEF Finish, Goto, Rollback, NoReport
<1>22. ASSUME Trigger PROVE Indices'
  BY <1>22 DEF Trigger, Serve, Pure
<1>23. ASSUME Crash PROVE Indices'
  BY <1>23 DEF Crash
<1>24. ASSUME Restart PROVE Indices'
  BY <1>24 DEF Restart, Goto, Rollback
<1>25. ASSUME at = "close", BeginClose, WorkerFrame PROVE Indices'
  BY <1>25 DEF BeginClose, Close, WorkerFrame
<1>26. ASSUME at = "close", ReapBroker, WorkerFrame PROVE Indices'
  BY <1>26 DEF ReapBroker, Close, WorkerFrame
<1>27. ASSUME at = "close", StopMonitor, WorkerFrame PROVE Indices'
  BY <1>27 DEF StopMonitor, Close, WorkerFrame
<1>28. ASSUME at = "close", KillGroup, WorkerFrame PROVE Indices'
  BY <1>28 DEF KillGroup, Close, WorkerFrame
<1>29. ASSUME at = "close", Classify, WorkerFrame PROVE Indices'
  BY <1>29 DEF Classify, Close, ChannelState, WorkerFrame
<1>30. ASSUME Connect, WorkerFrame PROVE Indices'
  BY <1>30 DEF Connect, Serve, Pure, WorkerFrame
<1>31. ASSUME ObserveDispatch, WorkerFrame PROVE Indices'
  BY <1>31 DEF ObserveDispatch, Serve, Pure, WorkerFrame
<1>32. ASSUME Transmit, WorkerFrame PROVE Indices'
  BY <1>32 DEF Transmit, Serve, Pure, WorkerFrame, Placed, Alive
<1>33. ASSUME Respond, WorkerFrame PROVE Indices'
  BY <1>33 DEF Respond, Serve, Pure, WorkerFrame
<1>34. ASSUME Reply, WorkerFrame PROVE Indices'
  BY <1>34 DEF Reply, Serve, Pure, WorkerFrame
<1>35. ASSUME Exit, WorkerFrame PROVE Indices'
  BY <1>35 DEF Exit, Pure, WorkerFrame
<1>36. ASSUME MonitorCancels, WorkerFrame PROVE Indices'
  BY <1>36 DEF MonitorCancels, MonitorEnds, WorkerFrame
<1>37. ASSUME MonitorReads, WorkerFrame PROVE Indices'
  BY <1>37 DEF MonitorReads, MonitorEnds, WorkerFrame
<1>38. ASSUME MonitorStopped, WorkerFrame PROVE Indices'
  BY <1>38 DEF MonitorStopped, MonitorEnds, WorkerFrame
<1>39. ASSUME OperatorCancels, WorkerFrame PROVE Indices'
  BY <1>39 DEF OperatorCancels, WorkerFrame
<1>40. ASSUME DeadlinePasses, WorkerFrame PROVE Indices'
  BY <1>40 DEF DeadlinePasses, WorkerFrame
<1>41. ASSUME UNCHANGED workerVars PROVE Indices'
  BY <1>41 DEF workerVars, ChannelState
<1> QED
  BY <1>1, <1>2, <1>3, <1>4, <1>5, <1>6, <1>7, <1>8, <1>9, <1>10, <1>11, <1>12, <1>13, <1>14,
     <1>15, <1>16, <1>17, <1>18, <1>19, <1>20, <1>21, <1>22, <1>23, <1>24, <1>25, <1>26,
     <1>27, <1>28, <1>29, <1>30, <1>31, <1>32, <1>33, <1>34, <1>35, <1>36, <1>37, <1>38,
     <1>39, <1>40, <1>41
     DEF WorkerNext, CallStep, Advance, CloseChannel, CloseStep, Beside, BrokerStep,
        MonitorStep, Environment

\* The broker and the channel stay in step.
LEMMA ChannelStep ==
    ASSUME WorkerTypeOK, ChannelInv, RunInv, [WorkerNext]_workerVars
    PROVE  ChannelInv'
<1> USE DEF ChannelInv, ChannelState, brokerVars, channelVars, runVars, factVars
<1>1. ASSUME StartRun PROVE ChannelInv'
  BY <1>1 DEF StartRun, Goto
<1>2. ASSUME RefuseRun PROVE ChannelInv'
  BY <1>2 DEF RefuseRun, NoReport
<1>3. ASSUME MakeWorkspace PROVE ChannelInv'
  BY <1>3 DEF MakeWorkspace
<1>4. ASSUME Consume PROVE ChannelInv'
  BY <1>4 DEF Consume
<1>5. ASSUME SetUp PROVE ChannelInv'
  BY <1>5 DEF SetUp
<1>6. ASSUME Abandon PROVE ChannelInv'
  BY <1>6 DEF Abandon, Goto, Rollback, NoReport
<1>7. ASSUME LeaveLoop PROVE ChannelInv'
  BY <1>7 DEF LeaveLoop, Goto
<1>8. ASSUME BeginStep PROVE ChannelInv'
  BY <1>8 DEF BeginStep
<1>9. ASSUME PrepareFails PROVE ChannelInv'
  BY <1>9 DEF PrepareFails, Break, StepFrame
<1>10. ASSUME OpenStep PROVE ChannelInv'
  BY <1>10 DEF OpenStep, Goto, OpenChannel, RunInv, Placed, Current
<1>11. ASSUME Launch PROVE ChannelInv'
  BY <1>11 DEF Launch, StepFrame
<1>12. ASSUME RunEnds PROVE ChannelInv'
  BY <1>12 DEF RunEnds, StepFrame
<1>13. ASSUME RunRaises PROVE ChannelInv'
  BY <1>13 DEF RunRaises, Break, StepFrame, InDoubt
<1>14. ASSUME CloseFails PROVE ChannelInv'
  BY <1>14 DEF CloseFails, KillGroupFails, Close
<1>15. ASSUME InterruptClose PROVE ChannelInv'
  BY <1>15 DEF InterruptClose, LeaveClose, ChannelState
<1>16. ASSUME Settle PROVE ChannelInv'
  BY <1>16 DEF Settle, NoteAttempt, ChannelOutcome, Break, StepFrame
<1>17. ASSUME LeaveStep PROVE ChannelInv'
  BY <1>17 DEF LeaveStep, ScratchFailure, InDoubt
<1>18. ASSUME Unobserved PROVE ChannelInv'
  BY <1>18 DEF Unobserved, CaptureFrame, InDoubt
<1>19. ASSUME CaptureInterrupted PROVE ChannelInv'
  BY <1>19 DEF CaptureInterrupted, Goto, CaptureFrame
<1>20. ASSUME Observe PROVE ChannelInv'
  BY <1>20 DEF Observe, CaptureFrame
<1>21. ASSUME Finish PROVE ChannelInv'
  BY <1>21 DEF Finish, Goto, Rollback, NoReport
<1>22. ASSUME Trigger PROVE ChannelInv'
  BY <1>22 DEF Trigger, Serve, Pure
<1>23. ASSUME Crash PROVE ChannelInv'
  BY <1>23 DEF Crash
<1>24. ASSUME Restart PROVE ChannelInv'
  BY <1>24 DEF Restart, Goto, Rollback
<1>25. ASSUME at = "close", BeginClose, WorkerFrame PROVE ChannelInv'
  BY <1>25 DEF BeginClose, Close, WorkerFrame
<1>26. ASSUME at = "close", ReapBroker, WorkerFrame PROVE ChannelInv'
  BY <1>26 DEF ReapBroker, Close, WorkerFrame
<1>27. ASSUME at = "close", StopMonitor, WorkerFrame PROVE ChannelInv'
  BY <1>27 DEF StopMonitor, Close, WorkerFrame
<1>28. ASSUME at = "close", KillGroup, WorkerFrame PROVE ChannelInv'
  BY <1>28 DEF KillGroup, Close, WorkerFrame
<1>29. ASSUME at = "close", Classify, WorkerFrame PROVE ChannelInv'
  BY <1>29 DEF Classify, Close, ChannelState, WorkerFrame
<1>30. ASSUME Connect, WorkerFrame PROVE ChannelInv'
  BY <1>30 DEF Connect, Serve, Pure, WorkerFrame
<1>31. ASSUME ObserveDispatch, WorkerFrame PROVE ChannelInv'
  BY <1>31 DEF ObserveDispatch, Serve, Pure, WorkerFrame
<1>32. ASSUME Transmit, WorkerFrame PROVE ChannelInv'
  BY <1>32 DEF Transmit, Serve, Pure, WorkerFrame
<1>33. ASSUME Respond, WorkerFrame PROVE ChannelInv'
  BY <1>33 DEF Respond, Serve, Pure, WorkerFrame
<1>34. ASSUME Reply, WorkerFrame PROVE ChannelInv'
  BY <1>34 DEF Reply, Serve, Pure, WorkerFrame
<1>35. ASSUME Exit, WorkerFrame PROVE ChannelInv'
  BY <1>35 DEF Exit, Pure, WorkerFrame, Alive
<1>36. ASSUME MonitorCancels, WorkerFrame PROVE ChannelInv'
  BY <1>36 DEF MonitorCancels, MonitorEnds, WorkerFrame
<1>37. ASSUME MonitorReads, WorkerFrame PROVE ChannelInv'
  BY <1>37 DEF MonitorReads, MonitorEnds, WorkerFrame
<1>38. ASSUME MonitorStopped, WorkerFrame PROVE ChannelInv'
  BY <1>38 DEF MonitorStopped, MonitorEnds, WorkerFrame
<1>39. ASSUME OperatorCancels, WorkerFrame PROVE ChannelInv'
  BY <1>39 DEF OperatorCancels, WorkerFrame
<1>40. ASSUME DeadlinePasses, WorkerFrame PROVE ChannelInv'
  BY <1>40 DEF DeadlinePasses, WorkerFrame
<1>41. ASSUME UNCHANGED workerVars PROVE ChannelInv'
  BY <1>41 DEF workerVars, ChannelState
<1> QED
  BY <1>1, <1>2, <1>3, <1>4, <1>5, <1>6, <1>7, <1>8, <1>9, <1>10, <1>11, <1>12, <1>13, <1>14,
     <1>15, <1>16, <1>17, <1>18, <1>19, <1>20, <1>21, <1>22, <1>23, <1>24, <1>25, <1>26,
     <1>27, <1>28, <1>29, <1>30, <1>31, <1>32, <1>33, <1>34, <1>35, <1>36, <1>37, <1>38,
     <1>39, <1>40, <1>41
     DEF WorkerNext, CallStep, Advance, CloseChannel, CloseStep, Beside, BrokerStep,
        MonitorStep, Environment

\* The channel stays where the worker is.
LEMMA PlacedStep ==
    ASSUME WorkerTypeOK, ChannelInv, Placed, Current, Final, [WorkerNext]_workerVars
    PROVE  Placed'
<1>a. op \in Nat /\ op \in DOMAIN plan
  BY PlanFacts, TypeParts, SMT DEF Indices
<1> USE <1>a DEF Placed, Open, Mediated, Reported, Alive, brokerVars, channelVars, runVars,
   factVars
<1>1. ASSUME StartRun PROVE Placed'
  BY <1>1 DEF StartRun, Goto
<1>2. ASSUME RefuseRun PROVE Placed'
  BY <1>2 DEF RefuseRun, NoReport
<1>3. ASSUME MakeWorkspace PROVE Placed'
  BY <1>3 DEF MakeWorkspace
<1>4. ASSUME Consume PROVE Placed'
  BY <1>4 DEF Consume
<1>5. ASSUME SetUp PROVE Placed'
  BY <1>5 DEF SetUp
<1>6. ASSUME Abandon PROVE Placed'
  BY <1>6 DEF Abandon, Goto, Rollback, NoReport
<1>7. ASSUME LeaveLoop PROVE Placed'
  BY <1>7 DEF LeaveLoop, Goto
<1>8. ASSUME BeginStep PROVE Placed'
  BY <1>8 DEF BeginStep
<1>9. ASSUME PrepareFails PROVE Placed'
  BY <1>9 DEF PrepareFails, Break, StepFrame
<1>10. ASSUME OpenStep PROVE Placed'
  BY <1>10 DEF OpenStep, Goto, OpenChannel, StepFrame
<1>11. ASSUME Launch PROVE Placed'
  BY <1>11, SMT DEF Launch, StepFrame
<1>12. ASSUME RunEnds PROVE Placed'
  BY <1>12 DEF RunEnds, StepFrame
<1>13. ASSUME RunRaises PROVE Placed'
  BY <1>13 DEF RunRaises, Break, StepFrame, InDoubt
<1>14. ASSUME CloseFails PROVE Placed'
  BY <1>14 DEF CloseFails, KillGroupFails, Close
<1>15. ASSUME InterruptClose PROVE Placed'
  BY <1>15 DEF InterruptClose, LeaveClose, ChannelState
<1>16. ASSUME Settle PROVE Placed'
  <2>1. at' = "stepped" /\ (closing = "left" => broken')
    BY <1>16 DEF Settle, ChannelOutcome, Break
  <2> QED
    BY <1>16, <2>1 DEF Settle, StepFrame
<1>17. ASSUME LeaveStep PROVE Placed'
  BY <1>17 DEF LeaveStep, ScratchFailure, InDoubt
<1>18. ASSUME Unobserved PROVE Placed'
  BY <1>18 DEF Unobserved, CaptureFrame, InDoubt
<1>19. ASSUME CaptureInterrupted PROVE Placed'
  BY <1>19 DEF CaptureInterrupted, Goto, CaptureFrame
<1>20. ASSUME Observe PROVE Placed'
  <2>1. op' \in Nat /\ op <= op' /\ at' \in {"loop", "finish"}
    BY <1>20, SMT DEF Observe
  <2>2. \A j \in started : j <= op'
    BY <2>1, PlanFacts, TypeParts, SMT DEF Indices
  <2> QED
    BY <1>20, <2>1, <2>2 DEF Observe, CaptureFrame
<1>21. ASSUME Finish PROVE Placed'
  BY <1>21 DEF Finish, Goto, Rollback, NoReport
<1>22. ASSUME Trigger PROVE Placed'
  BY <1>22 DEF Trigger, Serve, Pure
<1>23. ASSUME Crash PROVE Placed'
  BY <1>23 DEF Crash
<1>24. ASSUME Restart PROVE Placed'
  BY <1>24 DEF Restart, Goto, Rollback
<1>25. ASSUME at = "close", BeginClose, WorkerFrame PROVE Placed'
  BY <1>25 DEF BeginClose, Close, WorkerFrame
<1>26. ASSUME at = "close", ReapBroker, WorkerFrame PROVE Placed'
  BY <1>26 DEF ReapBroker, Close, WorkerFrame
<1>27. ASSUME at = "close", StopMonitor, WorkerFrame PROVE Placed'
  BY <1>27 DEF StopMonitor, Close, WorkerFrame
<1>28. ASSUME at = "close", KillGroup, WorkerFrame PROVE Placed'
  BY <1>28 DEF KillGroup, Close, WorkerFrame
<1>29. ASSUME at = "close", Classify, WorkerFrame PROVE Placed'
  BY <1>29 DEF Classify, Close, ChannelState, WorkerFrame
<1>30. ASSUME Connect, WorkerFrame PROVE Placed'
  BY <1>30 DEF Connect, Serve, Pure, WorkerFrame
<1>31. ASSUME ObserveDispatch, WorkerFrame PROVE Placed'
  BY <1>31 DEF ObserveDispatch, Serve, Pure, WorkerFrame
<1>32. ASSUME Transmit, WorkerFrame PROVE Placed'
  BY <1>32 DEF Transmit, Serve, Pure, WorkerFrame
<1>33. ASSUME Respond, WorkerFrame PROVE Placed'
  BY <1>33 DEF Respond, Serve, Pure, WorkerFrame
<1>34. ASSUME Reply, WorkerFrame PROVE Placed'
  BY <1>34 DEF Reply, Serve, Pure, WorkerFrame
<1>35. ASSUME Exit, WorkerFrame PROVE Placed'
  BY <1>35 DEF Exit, Pure, WorkerFrame
<1>36. ASSUME MonitorCancels, WorkerFrame PROVE Placed'
  BY <1>36 DEF MonitorCancels, MonitorEnds, WorkerFrame
<1>37. ASSUME MonitorReads, WorkerFrame PROVE Placed'
  BY <1>37 DEF MonitorReads, MonitorEnds, WorkerFrame
<1>38. ASSUME MonitorStopped, WorkerFrame PROVE Placed'
  BY <1>38 DEF MonitorStopped, MonitorEnds, WorkerFrame
<1>39. ASSUME OperatorCancels, WorkerFrame PROVE Placed'
  BY <1>39 DEF OperatorCancels, WorkerFrame
<1>40. ASSUME DeadlinePasses, WorkerFrame PROVE Placed'
  BY <1>40 DEF DeadlinePasses, WorkerFrame
<1>41. ASSUME UNCHANGED workerVars PROVE Placed'
  BY <1>41 DEF workerVars, ChannelState
<1> QED
  BY <1>1, <1>2, <1>3, <1>4, <1>5, <1>6, <1>7, <1>8, <1>9, <1>10, <1>11, <1>12, <1>13, <1>14,
     <1>15, <1>16, <1>17, <1>18, <1>19, <1>20, <1>21, <1>22, <1>23, <1>24, <1>25, <1>26,
     <1>27, <1>28, <1>29, <1>30, <1>31, <1>32, <1>33, <1>34, <1>35, <1>36, <1>37, <1>38,
     <1>39, <1>40, <1>41
     DEF WorkerNext, CallStep, Advance, CloseChannel, CloseStep, Beside, BrokerStep,
        MonitorStep, Environment

\* The operations before the current one stay observed.
LEMMA BeforeStep ==
    ASSUME WorkerTypeOK, ChannelInv, Placed, Before, Current, [WorkerNext]_workerVars
    PROVE  Before'
<1>a. op \in Nat /\ op \in DOMAIN plan
  BY PlanFacts, TypeParts, SMT DEF Indices
<1> USE <1>a DEF Before, Effected, Mediated, brokerVars, channelVars, runVars, factVars
<1>1. ASSUME StartRun PROVE Before'
  BY <1>1 DEF StartRun, Goto
<1>2. ASSUME RefuseRun PROVE Before'
  BY <1>2 DEF RefuseRun, NoReport
<1>3. ASSUME MakeWorkspace PROVE Before'
  BY <1>3 DEF MakeWorkspace
<1>4. ASSUME Consume PROVE Before'
  BY <1>4 DEF Consume
<1>5. ASSUME SetUp PROVE Before'
  BY <1>5, SMT DEF SetUp
<1>6. ASSUME Abandon PROVE Before'
  BY <1>6 DEF Abandon, Goto, Rollback, NoReport
<1>7. ASSUME LeaveLoop PROVE Before'
  BY <1>7 DEF LeaveLoop, Goto
<1>8. ASSUME BeginStep PROVE Before'
  BY <1>8 DEF BeginStep
<1>9. ASSUME PrepareFails PROVE Before'
  BY <1>9 DEF PrepareFails, Break, StepFrame
<1>10. ASSUME OpenStep PROVE Before'
  BY <1>10 DEF OpenStep, Goto, OpenChannel, StepFrame
<1>11. ASSUME Launch PROVE Before'
  BY <1>11 DEF Launch, StepFrame
<1>12. ASSUME RunEnds PROVE Before'
  BY <1>12 DEF RunEnds, StepFrame
<1>13. ASSUME RunRaises PROVE Before'
  BY <1>13 DEF RunRaises, Break, StepFrame, InDoubt
<1>14. ASSUME CloseFails PROVE Before'
  BY <1>14 DEF CloseFails, KillGroupFails, Close
<1>15. ASSUME InterruptClose PROVE Before'
  BY <1>15 DEF InterruptClose, LeaveClose, ChannelState
<1>16. ASSUME Settle PROVE Before'
  BY <1>16 DEF Settle, NoteAttempt, ChannelOutcome, Break, StepFrame
<1>17. ASSUME LeaveStep PROVE Before'
  BY <1>17 DEF LeaveStep, ScratchFailure, InDoubt
<1>18. ASSUME Unobserved PROVE Before'
  BY <1>18 DEF Unobserved, CaptureFrame, InDoubt
<1>19. ASSUME CaptureInterrupted PROVE Before'
  BY <1>19 DEF CaptureInterrupted, Goto, CaptureFrame
<1>20. ASSUME Observe PROVE Before'
  <2>1. proc = "ok" => op \in settled' /\ (plan[op].kind # "inert" => Effected(op))
    BY <1>20 DEF Observe, Placed, Current
  <2>2. \/ op' = op
        \/ proc = "ok" /\ op' = op + 1
    BY <1>20 DEF Observe
  <2>3. \A j \in 1..(op' - 1) : j \in 1..(op - 1) \/ (proc = "ok" /\ j = op)
    BY <2>2, SMT
  <2>4. settled \subseteq settled' /\ UNCHANGED <<plan, sent, started, held, authorization>>
    BY <1>20 DEF Observe, CaptureFrame
  <2> QED
    BY <1>20, <2>1, <2>3, <2>4 DEF Observe
<1>21. ASSUME Finish PROVE Before'
  BY <1>21 DEF Finish, Goto, Rollback, NoReport
<1>22. ASSUME Trigger PROVE Before'
  BY <1>22 DEF Trigger, Serve, Pure
<1>23. ASSUME Crash PROVE Before'
  BY <1>23 DEF Crash
<1>24. ASSUME Restart PROVE Before'
  BY <1>24 DEF Restart, Goto, Rollback
<1>25. ASSUME at = "close", BeginClose, WorkerFrame PROVE Before'
  BY <1>25 DEF BeginClose, Close, WorkerFrame
<1>26. ASSUME at = "close", ReapBroker, WorkerFrame PROVE Before'
  BY <1>26 DEF ReapBroker, Close, WorkerFrame
<1>27. ASSUME at = "close", StopMonitor, WorkerFrame PROVE Before'
  BY <1>27 DEF StopMonitor, Close, WorkerFrame
<1>28. ASSUME at = "close", KillGroup, WorkerFrame PROVE Before'
  BY <1>28 DEF KillGroup, Close, WorkerFrame
<1>29. ASSUME at = "close", Classify, WorkerFrame PROVE Before'
  BY <1>29 DEF Classify, Close, ChannelState, WorkerFrame
<1>30. ASSUME Connect, WorkerFrame PROVE Before'
  BY <1>30 DEF Connect, Serve, Pure, WorkerFrame
<1>31. ASSUME ObserveDispatch, WorkerFrame PROVE Before'
  BY <1>31 DEF ObserveDispatch, Serve, Pure, WorkerFrame
<1>32. ASSUME Transmit, WorkerFrame PROVE Before'
  BY <1>32 DEF Transmit, Serve, Pure, WorkerFrame
<1>33. ASSUME Respond, WorkerFrame PROVE Before'
  BY <1>33 DEF Respond, Serve, Pure, WorkerFrame
<1>34. ASSUME Reply, WorkerFrame PROVE Before'
  BY <1>34 DEF Reply, Serve, Pure, WorkerFrame
<1>35. ASSUME Exit, WorkerFrame PROVE Before'
  BY <1>35 DEF Exit, Pure, WorkerFrame
<1>36. ASSUME MonitorCancels, WorkerFrame PROVE Before'
  BY <1>36 DEF MonitorCancels, MonitorEnds, WorkerFrame
<1>37. ASSUME MonitorReads, WorkerFrame PROVE Before'
  BY <1>37 DEF MonitorReads, MonitorEnds, WorkerFrame
<1>38. ASSUME MonitorStopped, WorkerFrame PROVE Before'
  BY <1>38 DEF MonitorStopped, MonitorEnds, WorkerFrame
<1>39. ASSUME OperatorCancels, WorkerFrame PROVE Before'
  BY <1>39 DEF OperatorCancels, WorkerFrame
<1>40. ASSUME DeadlinePasses, WorkerFrame PROVE Before'
  BY <1>40 DEF DeadlinePasses, WorkerFrame
<1>41. ASSUME UNCHANGED workerVars PROVE Before'
  BY <1>41 DEF workerVars, ChannelState
<1> QED
  BY <1>1, <1>2, <1>3, <1>4, <1>5, <1>6, <1>7, <1>8, <1>9, <1>10, <1>11, <1>12, <1>13, <1>14,
     <1>15, <1>16, <1>17, <1>18, <1>19, <1>20, <1>21, <1>22, <1>23, <1>24, <1>25, <1>26,
     <1>27, <1>28, <1>29, <1>30, <1>31, <1>32, <1>33, <1>34, <1>35, <1>36, <1>37, <1>38,
     <1>39, <1>40, <1>41
     DEF WorkerNext, CallStep, Advance, CloseChannel, CloseStep, Beside, BrokerStep,
        MonitorStep, Environment
====
