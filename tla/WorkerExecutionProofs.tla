---- MODULE WorkerExecutionProofs ----
(***************************************************************************)
(* Proofs about WorkerExecution, for every set of plans: the steps of the  *)
(* current operation and of the report, and the theorems.                  *)
(***************************************************************************)
EXTENDS WorkerExecutionSteps

\* The leaves go to Zenon; the ones that need arithmetic, or records and
\* functions taken apart, cite SMT.
USE Zenon

\* The worker keeps knowing the state of its operation.
LEMMA CurrentStep ==
    ASSUME WorkerTypeOK, ChannelInv, Placed, Current, [WorkerNext]_workerVars
    PROVE  Current'
<1>a. op \in Nat /\ op \in DOMAIN plan
  BY PlanFacts, TypeParts, SMT DEF Indices
<1> USE <1>a DEF Current, Effected, Mediated, brokerVars, channelVars, runVars, factVars
<1>1. ASSUME StartRun PROVE Current'
  BY <1>1 DEF StartRun, Goto
<1>2. ASSUME RefuseRun PROVE Current'
  BY <1>2 DEF RefuseRun, NoReport
<1>3. ASSUME MakeWorkspace PROVE Current'
  BY <1>3 DEF MakeWorkspace
<1>4. ASSUME Consume PROVE Current'
  BY <1>4 DEF Consume
<1>5. ASSUME SetUp PROVE Current'
  BY <1>5 DEF SetUp, Placed
<1>6. ASSUME Abandon PROVE Current'
  BY <1>6 DEF Abandon, Goto, Rollback, NoReport
<1>7. ASSUME LeaveLoop PROVE Current'
  BY <1>7 DEF LeaveLoop, Goto
<1>8. ASSUME BeginStep PROVE Current'
  BY <1>8 DEF BeginStep
<1>9. ASSUME PrepareFails PROVE Current'
  BY <1>9 DEF PrepareFails, Break, StepFrame, Placed
<1>10. ASSUME OpenStep PROVE Current'
  BY <1>10 DEF OpenStep, Goto, OpenChannel, StepFrame
<1>11. ASSUME Launch PROVE Current'
  BY <1>11 DEF Launch, StepFrame
<1>12. ASSUME RunEnds PROVE Current'
  BY <1>12 DEF RunEnds, StepFrame
<1>13. ASSUME RunRaises PROVE Current'
  BY <1>13, SMT DEF RunRaises, Break, StepFrame, InDoubt
<1>14. ASSUME CloseFails PROVE Current'
  BY <1>14 DEF CloseFails, KillGroupFails, Close
<1>15. ASSUME InterruptClose PROVE Current'
  BY <1>15 DEF InterruptClose, LeaveClose, ChannelState
<1>16. ASSUME Settle PROVE Current'
  <2>1. /\ at' = "stepped"
        /\ UNCHANGED <<op, plan, sent, started, proc, closing, scratchFailed>>
    BY <1>16 DEF Settle, Break, StepFrame
  <2>2. Mediated(op) /\ serves = op
    BY <1>16 DEF Settle, Placed
  <2>3. closing = "closed" /\ op \in sent => dispatched'
    BY <1>16, <2>2 DEF Settle, Placed, ChannelInv, ChannelState
  <2>4. closing = "closed" /\ proc = "ok" /\ ~broken' => op \in sent
    BY <1>16, <2>2 DEF Settle, Break, ChannelOutcome, ChannelInv
  <2>5. broken' => status' # "success"
    BY <1>16 DEF Settle, Break
  <2>6. broken' /\ dispatched' /\ ~plan[op].idempotent => status' = "uncertain"
    BY <1>16 DEF Settle, Break
  <2> QED
    BY <2>1, <2>2, <2>3, <2>4, <2>5, <2>6, <1>16 DEF Settle
<1>17. ASSUME LeaveStep PROVE Current'
  BY <1>17, SMT DEF LeaveStep, ScratchFailure, InDoubt
<1>18. ASSUME Unobserved PROVE Current'
  BY <1>18 DEF Unobserved, CaptureFrame, InDoubt
<1>19. ASSUME CaptureInterrupted PROVE Current'
  BY <1>19 DEF CaptureInterrupted, Goto, CaptureFrame
<1>20. ASSUME Observe PROVE Current'
  <2>1. at' = "loop" => op' \notin started
    BY <1>20, SMT DEF Observe, Placed
  <2> QED
    BY <1>20, <2>1 DEF Observe, CaptureFrame
<1>21. ASSUME Finish PROVE Current'
  BY <1>21 DEF Finish, Goto, Rollback, NoReport
<1>22. ASSUME Trigger PROVE Current'
  BY <1>22 DEF Trigger, Serve, Pure
<1>23. ASSUME Crash PROVE Current'
  BY <1>23 DEF Crash
<1>24. ASSUME Restart PROVE Current'
  BY <1>24 DEF Restart, Goto, Rollback
<1>25. ASSUME at = "close", BeginClose, WorkerFrame PROVE Current'
  BY <1>25 DEF BeginClose, Close, WorkerFrame
<1>26. ASSUME at = "close", ReapBroker, WorkerFrame PROVE Current'
  BY <1>26 DEF ReapBroker, Close, WorkerFrame
<1>27. ASSUME at = "close", StopMonitor, WorkerFrame PROVE Current'
  BY <1>27 DEF StopMonitor, Close, WorkerFrame
<1>28. ASSUME at = "close", KillGroup, WorkerFrame PROVE Current'
  BY <1>28 DEF KillGroup, Close, WorkerFrame
<1>29. ASSUME at = "close", Classify, WorkerFrame PROVE Current'
  BY <1>29 DEF Classify, Close, ChannelState, WorkerFrame
<1>30. ASSUME Connect, WorkerFrame PROVE Current'
  BY <1>30 DEF Connect, Serve, Pure, WorkerFrame
<1>31. ASSUME ObserveDispatch, WorkerFrame PROVE Current'
  BY <1>31 DEF ObserveDispatch, Serve, Pure, WorkerFrame
<1>32. ASSUME Transmit, WorkerFrame PROVE Current'
  BY <1>32 DEF Transmit, Serve, Pure, WorkerFrame, Placed, ChannelInv, Open, WorkerTypeOK
<1>33. ASSUME Respond, WorkerFrame PROVE Current'
  BY <1>33 DEF Respond, Serve, Pure, WorkerFrame
<1>34. ASSUME Reply, WorkerFrame PROVE Current'
  BY <1>34 DEF Reply, Serve, Pure, WorkerFrame
<1>35. ASSUME Exit, WorkerFrame PROVE Current'
  BY <1>35 DEF Exit, Pure, WorkerFrame
<1>36. ASSUME MonitorCancels, WorkerFrame PROVE Current'
  BY <1>36 DEF MonitorCancels, MonitorEnds, WorkerFrame
<1>37. ASSUME MonitorReads, WorkerFrame PROVE Current'
  BY <1>37 DEF MonitorReads, MonitorEnds, WorkerFrame
<1>38. ASSUME MonitorStopped, WorkerFrame PROVE Current'
  BY <1>38 DEF MonitorStopped, MonitorEnds, WorkerFrame
<1>39. ASSUME OperatorCancels, WorkerFrame PROVE Current'
  BY <1>39 DEF OperatorCancels, WorkerFrame
<1>40. ASSUME DeadlinePasses, WorkerFrame PROVE Current'
  BY <1>40 DEF DeadlinePasses, WorkerFrame
<1>41. ASSUME UNCHANGED workerVars PROVE Current'
  BY <1>41 DEF workerVars, ChannelState
<1> QED
  BY <1>1, <1>2, <1>3, <1>4, <1>5, <1>6, <1>7, <1>8, <1>9, <1>10, <1>11, <1>12, <1>13, <1>14,
     <1>15, <1>16, <1>17, <1>18, <1>19, <1>20, <1>21, <1>22, <1>23, <1>24, <1>25, <1>26,
     <1>27, <1>28, <1>29, <1>30, <1>31, <1>32, <1>33, <1>34, <1>35, <1>36, <1>37, <1>38,
     <1>39, <1>40, <1>41
     DEF WorkerNext, CallStep, Advance, CloseChannel, CloseStep, Beside, BrokerStep,
        MonitorStep, Environment

\* Once the current operation is observed or has no lasting effect, none is in doubt.
LEMMA NoDoubt ==
    ASSUME WorkerTypeOK, Placed, Before,
           at \in {"loop", "stepped", "capture"},
           ~plan[op].idempotent /\ Effected(op) => op \in settled
    PROVE  AllObserved
<1> SUFFICES ASSUME NEW i \in DOMAIN plan, ~plan[i].idempotent, Effected(i)
             PROVE  i \in settled
  BY DEF AllObserved
<1>1. i \in started
  BY DEF Effected, Placed
<1>2. i \in Nat /\ op \in Nat /\ 1 <= i /\ i <= op
  BY <1>1, PlanFacts, TypeParts, SMT DEF Placed, Indices
<1>3. CASE i = op
  BY <1>3
<1>4. CASE i # op
  <2>1. \A j \in 1..(op - 1) : j \in settled
    BY DEF Before
  <2> QED
    BY <1>2, <1>4, <2>1, SMT
<1> QED
  BY <1>3, <1>4

\* What the run knows stays sound.
LEMMA ToldStep ==
    ASSUME WorkerTypeOK, ChannelInv, Placed, Before, Current, Told, [WorkerNext]_workerVars
    PROVE  Told'
<1>a. op \in Nat /\ op \in DOMAIN plan
  BY PlanFacts, TypeParts, SMT DEF Indices
<1> USE <1>a DEF Told, AllObserved, Complete, Effected, Mediated,
           brokerVars, channelVars, runVars, factVars
<1>1. ASSUME StartRun PROVE Told'
  BY <1>1 DEF StartRun, Goto
<1>2. ASSUME RefuseRun PROVE Told'
  BY <1>2 DEF RefuseRun, NoReport
<1>3. ASSUME MakeWorkspace PROVE Told'
  BY <1>3 DEF MakeWorkspace
<1>4. ASSUME Consume PROVE Told'
  BY <1>4 DEF Consume
<1>5. ASSUME SetUp PROVE Told'
  BY <1>5 DEF SetUp, Placed
<1>6. ASSUME Abandon PROVE Told'
  BY <1>6 DEF Abandon, Goto, Rollback, NoReport
<1>7. ASSUME LeaveLoop PROVE Told'
  <2>1. AllObserved
    BY <1>7, NoDoubt DEF LeaveLoop, Goto, Placed, Current
  <2> QED
    BY <1>7, <2>1 DEF LeaveLoop, Goto
<1>8. ASSUME BeginStep PROVE Told'
  BY <1>8 DEF BeginStep
<1>9. ASSUME PrepareFails PROVE Told'
  BY <1>9 DEF PrepareFails, Break, StepFrame
<1>10. ASSUME OpenStep PROVE Told'
  BY <1>10 DEF OpenStep, Goto, OpenChannel, StepFrame, Placed
<1>11. ASSUME Launch PROVE Told'
  BY <1>11 DEF Launch, StepFrame
<1>12. ASSUME RunEnds PROVE Told'
  BY <1>12 DEF RunEnds, StepFrame
<1>13. ASSUME RunRaises PROVE Told'
  BY <1>13 DEF RunRaises, Break, StepFrame, InDoubt
<1>14. ASSUME CloseFails PROVE Told'
  BY <1>14 DEF CloseFails, KillGroupFails, Close
<1>15. ASSUME InterruptClose PROVE Told'
  BY <1>15 DEF InterruptClose, LeaveClose, ChannelState
<1>16. ASSUME Settle PROVE Told'
  <2>1. serves = op /\ at' = "stepped"
    BY <1>16 DEF Settle, Placed, Break
  <2>2. closing = "closed" /\ op \in sent => op \in tried'
    BY <1>16, <2>1 DEF Settle, NoteAttempt, ChannelInv, ChannelState
  <2>3. tried \subseteq tried'
    BY <1>16 DEF Settle, NoteAttempt
  <2> QED
    BY <1>16, <2>1, <2>2, <2>3 DEF Settle, StepFrame
<1>17. ASSUME LeaveStep PROVE Told'
  <2>1. broken => status' # "success"
    BY <1>17 DEF LeaveStep, ScratchFailure, InDoubt, Current
  <2>2. broken /\ closing # "left" /\ status' # "uncertain" => AllObserved
    BY <1>17, NoDoubt DEF LeaveStep, ScratchFailure, InDoubt, Current
  <2>3. at' = (IF broken THEN "finish" ELSE "capture") /\ at = "stepped"
        /\ UNCHANGED <<plan, sent, started, settled, tried, closing>>
    BY <1>17 DEF LeaveStep
  <2> QED
    BY <2>1, <2>2, <2>3
<1>18. ASSUME Unobserved PROVE Told'
  <2>1. status' # "success"
    BY <1>18 DEF Unobserved, InDoubt, Current
  <2>2. closing # "left" /\ status' # "uncertain" => AllObserved
    BY <1>18, NoDoubt DEF Unobserved, InDoubt, Current
  <2>3. at' = "finish" /\ at = "capture"
        /\ UNCHANGED <<plan, sent, started, settled, tried, closing>>
    BY <1>18 DEF Unobserved, CaptureFrame
  <2> QED
    BY <2>1, <2>2, <2>3
<1>19. ASSUME CaptureInterrupted PROVE Told'
  BY <1>19 DEF CaptureInterrupted, Goto, CaptureFrame
<1>20. ASSUME Observe PROVE Told'
  <2>1. settled' = settled \cup {op} /\ at = "capture" /\ closing # "left" /\ ~scratchFailed
        /\ at' \in {"loop", "finish"}
        /\ UNCHANGED <<plan, sent, started, tried, closing, scratchFailed>>
    BY <1>20 DEF Observe, CaptureFrame, Placed
  <2>2. AllObserved'
    <3> SUFFICES ASSUME NEW i \in DOMAIN plan, ~plan[i].idempotent, Effected(i), i # op
                 PROVE  i \in settled
      BY <2>1
    <3>1. i \in Nat /\ 1 <= i /\ i <= op
      BY PlanFacts, TypeParts, SMT DEF Indices, Placed
    <3>2. \A j \in 1..(op - 1) : j \in settled
      BY <2>1 DEF Before
    <3> QED
      BY <3>1, <3>2, SMT
  <2>3. ASSUME at' = "finish", status' = "success" PROVE Complete'
    <3>1. op = Len(plan) /\ proc = "ok"
      BY <1>20, <2>3 DEF Observe
    <3>2. plan[op].kind # "inert" => Effected(op)
      BY <3>1, <2>1 DEF Current
    <3>3. ASSUME NEW j \in DOMAIN plan PROVE j = op \/ j \in 1..(op - 1)
      BY <3>1, PlanFacts, TypeParts, SMT DEF Indices
    <3>4. \A j \in 1..(op - 1) : j \in settled /\ (plan[j].kind # "inert" => Effected(j))
      BY <2>1 DEF Before
    <3> QED
      BY <2>1, <3>2, <3>3, <3>4
  <2> QED
    BY <2>1, <2>2, <2>3
<1>21. ASSUME Finish PROVE Told'
  BY <1>21 DEF Finish, Goto, Rollback, NoReport
<1>22. ASSUME Trigger PROVE Told'
  BY <1>22 DEF Trigger, Serve, Pure
<1>23. ASSUME Crash PROVE Told'
  BY <1>23 DEF Crash
<1>24. ASSUME Restart PROVE Told'
  BY <1>24 DEF Restart, Goto, Rollback
<1>25. ASSUME at = "close", BeginClose, WorkerFrame PROVE Told'
  BY <1>25 DEF BeginClose, Close, WorkerFrame
<1>26. ASSUME at = "close", ReapBroker, WorkerFrame PROVE Told'
  BY <1>26 DEF ReapBroker, Close, WorkerFrame
<1>27. ASSUME at = "close", StopMonitor, WorkerFrame PROVE Told'
  BY <1>27 DEF StopMonitor, Close, WorkerFrame
<1>28. ASSUME at = "close", KillGroup, WorkerFrame PROVE Told'
  BY <1>28 DEF KillGroup, Close, WorkerFrame
<1>29. ASSUME at = "close", Classify, WorkerFrame PROVE Told'
  BY <1>29 DEF Classify, Close, ChannelState, WorkerFrame
<1>30. ASSUME Connect, WorkerFrame PROVE Told'
  BY <1>30 DEF Connect, Serve, Pure, WorkerFrame
<1>31. ASSUME ObserveDispatch, WorkerFrame PROVE Told'
  BY <1>31 DEF ObserveDispatch, Serve, Pure, WorkerFrame
<1>32. ASSUME Transmit, WorkerFrame PROVE Told'
  BY <1>32 DEF Transmit, Serve, Pure, WorkerFrame, Placed, ChannelInv, Open, WorkerTypeOK
<1>33. ASSUME Respond, WorkerFrame PROVE Told'
  BY <1>33 DEF Respond, Serve, Pure, WorkerFrame
<1>34. ASSUME Reply, WorkerFrame PROVE Told'
  BY <1>34 DEF Reply, Serve, Pure, WorkerFrame
<1>35. ASSUME Exit, WorkerFrame PROVE Told'
  BY <1>35 DEF Exit, Pure, WorkerFrame
<1>36. ASSUME MonitorCancels, WorkerFrame PROVE Told'
  BY <1>36 DEF MonitorCancels, MonitorEnds, WorkerFrame
<1>37. ASSUME MonitorReads, WorkerFrame PROVE Told'
  BY <1>37 DEF MonitorReads, MonitorEnds, WorkerFrame
<1>38. ASSUME MonitorStopped, WorkerFrame PROVE Told'
  BY <1>38 DEF MonitorStopped, MonitorEnds, WorkerFrame
<1>39. ASSUME OperatorCancels, WorkerFrame PROVE Told'
  BY <1>39 DEF OperatorCancels, WorkerFrame
<1>40. ASSUME DeadlinePasses, WorkerFrame PROVE Told'
  BY <1>40 DEF DeadlinePasses, WorkerFrame
<1>41. ASSUME UNCHANGED workerVars PROVE Told'
  BY <1>41 DEF workerVars, ChannelState
<1> QED
  BY <1>1, <1>2, <1>3, <1>4, <1>5, <1>6, <1>7, <1>8, <1>9, <1>10, <1>11, <1>12, <1>13, <1>14,
     <1>15, <1>16, <1>17, <1>18, <1>19, <1>20, <1>21, <1>22, <1>23, <1>24, <1>25, <1>26,
     <1>27, <1>28, <1>29, <1>30, <1>31, <1>32, <1>33, <1>34, <1>35, <1>36, <1>37, <1>38,
     <1>39, <1>40, <1>41
     DEF WorkerNext, CallStep, Advance, CloseChannel, CloseStep, Beside, BrokerStep,
        MonitorStep, Environment

\* A result stays true once it is given.
LEMMA FinalStep ==
    ASSUME WorkerTypeOK, ChannelInv, Placed, Told, Final, [WorkerNext]_workerVars
    PROVE  Final'
<1>a. op \in Nat /\ op \in DOMAIN plan
  BY PlanFacts, TypeParts, SMT DEF Indices
<1> USE <1>a DEF Final, Reported, HonestStatus, AttemptsReported, SuccessIsComplete,
           AllObserved, Effected, Mediated, brokerVars, channelVars, runVars, factVars
<1>1. ASSUME StartRun PROVE Final'
  BY <1>1 DEF StartRun, Goto
<1>2. ASSUME RefuseRun PROVE Final'
  <2>1. report'.status \notin Statuses /\ (at' = "idle" \/ ~Reported')
    BY <1>2 DEF RefuseRun, NoReport, Statuses
  <2> QED
    BY <2>1 DEF Statuses
<1>3. ASSUME MakeWorkspace PROVE Final'
  <2>1. ~Reported /\ report' = report
    BY <1>3 DEF MakeWorkspace, Goto
  <2> QED
    BY <2>1 DEF Statuses
<1>4. ASSUME Consume PROVE Final'
  BY <1>4 DEF Consume
<1>5. ASSUME SetUp PROVE Final'
  BY <1>5 DEF SetUp
<1>6. ASSUME Abandon PROVE Final'
  <2>1. report'.status \notin Statuses /\ (at' = "idle" \/ ~Reported')
    BY <1>6 DEF Abandon, NoReport, Statuses
  <2> QED
    BY <2>1 DEF Statuses
<1>7. ASSUME LeaveLoop PROVE Final'
  <2>1. ~Reported /\ report' = report
    BY <1>7 DEF LeaveLoop, Goto
  <2> QED
    BY <2>1 DEF Statuses
<1>8. ASSUME BeginStep PROVE Final'
  <2>1. ~Reported /\ report' = report
    BY <1>8 DEF BeginStep, Goto
  <2> QED
    BY <2>1 DEF Statuses
<1>9. ASSUME PrepareFails PROVE Final'
  BY <1>9 DEF PrepareFails, Break, StepFrame
<1>10. ASSUME OpenStep PROVE Final'
  BY <1>10 DEF OpenStep, Goto, OpenChannel, StepFrame
<1>11. ASSUME Launch PROVE Final'
  BY <1>11 DEF Launch, StepFrame
<1>12. ASSUME RunEnds PROVE Final'
  BY <1>12 DEF RunEnds, StepFrame
<1>13. ASSUME RunRaises PROVE Final'
  BY <1>13 DEF RunRaises, Break, StepFrame, InDoubt
<1>14. ASSUME CloseFails PROVE Final'
  BY <1>14 DEF CloseFails, KillGroupFails, Close
<1>15. ASSUME InterruptClose PROVE Final'
  BY <1>15 DEF InterruptClose, LeaveClose, ChannelState
<1>16. ASSUME Settle PROVE Final'
  BY <1>16 DEF Settle, NoteAttempt, ChannelOutcome, Break, StepFrame
<1>17. ASSUME LeaveStep PROVE Final'
  BY <1>17 DEF LeaveStep, ScratchFailure, InDoubt
<1>18. ASSUME Unobserved PROVE Final'
  BY <1>18 DEF Unobserved, CaptureFrame, InDoubt
<1>19. ASSUME CaptureInterrupted PROVE Final'
  BY <1>19 DEF CaptureInterrupted, Goto, CaptureFrame
<1>20. ASSUME Observe PROVE Final'
  BY <1>20 DEF Observe, CaptureFrame
<1>21. ASSUME Finish PROVE Final'
  <2>1. /\ at = "finish" /\ at' = "idle"
        /\ UNCHANGED <<plan, closing, sent, started, settled, tried, journaled, scratchFailed>>
    BY <1>21 DEF Finish, Goto
  <2>2. CASE report'.status = "raised"
    BY <2>1, <2>2 DEF Statuses
  <2>3. CASE report'.status # "raised"
    <3>1. PICK cleanup \in {"completed", "partial"} :
             /\ cleanup = "completed" => dirs' = {}
             /\ status' = IF cleanup = "partial" /\ status = "success" THEN "partial" ELSE status
             /\ report' = [status |-> status', tried |-> tried,
                           cleanup |-> IF scratchFailed THEN "failed" ELSE cleanup]
      BY <1>21, <2>3 DEF Finish, Rollback, NoReport
    <3>2. report'.status = status' /\ report'.tried = tried
      BY <3>1
    <3>3. journaled
      BY <2>1 DEF Placed
    <3>4. HonestStatus'
      BY <2>1, <3>1, <3>2 DEF Told
    <3>5. AttemptsReported'
      BY <2>1, <3>2 DEF Told
    <3>6. SuccessIsComplete'
      <4> SUFFICES ASSUME status' = "success" PROVE SuccessIsComplete'
        BY <3>2
      <4>1. status = "success" /\ cleanup = "completed"
        BY <3>1
      <4>2. Complete /\ ~scratchFailed
        BY <4>1, <2>1 DEF Told
      <4>3. report'.cleanup = "completed" /\ dirs' = {}
        BY <3>1, <4>1, <4>2
      <4> QED
        BY <2>1, <4>2, <4>3 DEF Complete
    <3> QED
      BY <2>1, <3>3, <3>4, <3>5, <3>6
  <2> QED
    BY <2>2, <2>3
<1>22. ASSUME Trigger PROVE Final'
  BY <1>22 DEF Trigger, Serve, Pure
<1>23. ASSUME Crash PROVE Final'
  BY <1>23 DEF Crash
<1>24. ASSUME Restart PROVE Final'
  BY <1>24 DEF Restart, Goto, Rollback
<1>25. ASSUME at = "close", BeginClose, WorkerFrame PROVE Final'
  BY <1>25 DEF BeginClose, Close, WorkerFrame
<1>26. ASSUME at = "close", ReapBroker, WorkerFrame PROVE Final'
  BY <1>26 DEF ReapBroker, Close, WorkerFrame
<1>27. ASSUME at = "close", StopMonitor, WorkerFrame PROVE Final'
  BY <1>27 DEF StopMonitor, Close, WorkerFrame
<1>28. ASSUME at = "close", KillGroup, WorkerFrame PROVE Final'
  BY <1>28 DEF KillGroup, Close, WorkerFrame
<1>29. ASSUME at = "close", Classify, WorkerFrame PROVE Final'
  BY <1>29 DEF Classify, Close, ChannelState, WorkerFrame
<1>30. ASSUME Connect, WorkerFrame PROVE Final'
  BY <1>30 DEF Connect, Serve, Pure, WorkerFrame
<1>31. ASSUME ObserveDispatch, WorkerFrame PROVE Final'
  BY <1>31 DEF ObserveDispatch, Serve, Pure, WorkerFrame
<1>32. ASSUME Transmit, WorkerFrame PROVE Final'
  <2>1. ~Reported \/ serving = "observed"
    BY <1>32 DEF Transmit, Serve
  <2>2. report' = report /\ at' = at /\ closing' = closing /\ started' = started
        /\ sent' = sent \cup {serves} /\ plan' = plan /\ settled' = settled /\ dirs' = dirs
        /\ journaled' = journaled /\ serving = "observed"
    BY <1>32 DEF Transmit, Serve, Pure, WorkerFrame
  <2>3. Reported => closing = "left"
    BY <2>2 DEF ChannelInv, Placed, Open, WorkerTypeOK, Alive
  <2> QED
    BY <2>2, <2>3 DEF Statuses
<1>33. ASSUME Respond, WorkerFrame PROVE Final'
  BY <1>33 DEF Respond, Serve, Pure, WorkerFrame
<1>34. ASSUME Reply, WorkerFrame PROVE Final'
  BY <1>34 DEF Reply, Serve, Pure, WorkerFrame
<1>35. ASSUME Exit, WorkerFrame PROVE Final'
  BY <1>35 DEF Exit, Pure, WorkerFrame
<1>36. ASSUME MonitorCancels, WorkerFrame PROVE Final'
  BY <1>36 DEF MonitorCancels, MonitorEnds, WorkerFrame
<1>37. ASSUME MonitorReads, WorkerFrame PROVE Final'
  BY <1>37 DEF MonitorReads, MonitorEnds, WorkerFrame
<1>38. ASSUME MonitorStopped, WorkerFrame PROVE Final'
  BY <1>38 DEF MonitorStopped, MonitorEnds, WorkerFrame
<1>39. ASSUME OperatorCancels, WorkerFrame PROVE Final'
  BY <1>39 DEF OperatorCancels, WorkerFrame
<1>40. ASSUME DeadlinePasses, WorkerFrame PROVE Final'
  BY <1>40 DEF DeadlinePasses, WorkerFrame
<1>41. ASSUME UNCHANGED workerVars PROVE Final'
  BY <1>41 DEF workerVars, ChannelState
<1> QED
  BY <1>1, <1>2, <1>3, <1>4, <1>5, <1>6, <1>7, <1>8, <1>9, <1>10, <1>11, <1>12, <1>13, <1>14,
     <1>15, <1>16, <1>17, <1>18, <1>19, <1>20, <1>21, <1>22, <1>23, <1>24, <1>25, <1>26,
     <1>27, <1>28, <1>29, <1>30, <1>31, <1>32, <1>33, <1>34, <1>35, <1>36, <1>37, <1>38,
     <1>39, <1>40, <1>41
     DEF WorkerNext, CallStep, Advance, CloseChannel, CloseStep, Beside, BrokerStep,
        MonitorStep, Environment

LEMMA WorkerInvInit == WorkerInit => WorkerInv
<1> SUFFICES ASSUME WorkerInit PROVE WorkerInv
  OBVIOUS
<1> USE DEF WorkerInit, BrokerInit
<1>1. Len(plan) \in Nat /\ Len(plan) > 0 /\ MaxCalls \in Nat
  BY PlanFacts, WorkerAssumption
<1>2. RunSorts
  BY DEF RunSorts, Statuses
<1>3. ChannelSorts
  BY DEF ChannelSorts
<1>4. Indices
  BY <1>1, SMT DEF Indices
<1>5. ChannelInv
  BY DEF ChannelInv
<1>6. ~Reported /\ report.status = "none"
  BY DEF Reported, Statuses, NoReport
<1>7. Placed
  BY <1>6 DEF Placed, Open, Alive
<1>8. Before /\ Current /\ Told
  BY DEF Before, Current, Told
<1>9. Final
  BY <1>6 DEF Final, HonestStatus, AttemptsReported, SuccessIsComplete
<1> QED
  BY <1>2, <1>3, <1>4, <1>5, <1>7, <1>8, <1>9, TypeParts DEF WorkerInv, RunInv

LEMMA WorkerInvStep ==
    ASSUME WorkerInv, [WorkerNext]_workerVars
    PROVE  WorkerInv'
<1>1. WorkerTypeOK /\ RunSorts /\ ChannelSorts /\ Indices /\ ChannelInv
  BY TypeParts DEF WorkerInv
<1>2. Placed /\ Before /\ Current /\ Told /\ Final
  BY DEF WorkerInv, RunInv
<1>3. RunSorts' /\ ChannelSorts' /\ Indices'
  BY <1>1, <1>2, RunSortsStep, ChannelSortsStep, IndicesStep
<1>4. WorkerTypeOK'
  BY <1>3 DEF WorkerTypeOK, RunSorts, ChannelSorts, Indices
<1>5. ChannelInv'
  BY <1>1, ChannelStep DEF WorkerInv
<1>6. Placed' /\ Before' /\ Current' /\ Told' /\ Final'
  BY <1>1, <1>2, PlacedStep, BeforeStep, CurrentStep, ToldStep, FinalStep
<1> QED
  BY <1>4, <1>5, <1>6 DEF WorkerInv, RunInv

\* The invariant of execute_plan_with_receipt and of its dispatch channels.
THEOREM WorkerInvariant == WorkerSafety => []WorkerInv
<1>1. WorkerInv /\ [WorkerNext]_workerVars => WorkerInv'
  BY WorkerInvStep
<1> QED
  BY <1>1, WorkerInvInit, PTL DEF WorkerSafety

\* Every variable of the worker, its broker and its channel keeps its type.
THEOREM WorkerTypes == WorkerSafety => []WorkerTypeOK
<1>1. WorkerInv => WorkerTypeOK
  BY DEF WorkerInv
<1> QED
  BY <1>1, WorkerInvariant, PTL

\* A result that is not `uncertain' leaves no non-idempotent effect unobserved,
\* for every plan, whatever ends the operation (short of an interrupt in the
\* close of a channel) and wherever the worker crashes.
THEOREM ResultsAreHonest == WorkerSafety => []HonestStatus
<1>1. WorkerInv => HonestStatus
  BY DEF WorkerInv, RunInv, Final
<1> QED
  BY <1>1, WorkerInvariant, PTL

\* attempted_operation_ids names every operation of which a request was sent.
THEOREM AttemptsAreReported == WorkerSafety => []AttemptsReported
<1>1. WorkerInv => AttemptsReported
  BY DEF WorkerInv, RunInv, Final
<1> QED
  BY <1>1, WorkerInvariant, PTL

\* `success' means that the whole plan was started, sent and observed, and that
\* nothing of it is left on disk.
THEOREM SuccessIsWhole == WorkerSafety => []SuccessIsComplete
<1>1. WorkerInv => SuccessIsComplete
  BY DEF WorkerInv, RunInv, Final
<1> QED
  BY <1>1, WorkerInvariant, PTL

\* A channel closed as not_dispatched has sent nothing, and its broker is gone.
THEOREM NotDispatchedStays == WorkerSafety => []NotDispatchedIsFinal
<1>1. WorkerInv => NotDispatchedIsFinal
  BY DEF WorkerInv, ChannelInv, ChannelState, NotDispatchedIsFinal
<1> QED
  BY <1>1, WorkerInvariant, PTL

\* An adapter is started once, in order and under a verified receipt.
THEOREM StartsAreCovered == WorkerSafety => StartsUnderReceipt
<1> DEFINE Covered == started' # started =>
              /\ held /\ authorization = "consumed"
              /\ op \notin started
              /\ \A i \in 1..(op - 1) : i \in settled
<1>1. ASSUME WorkerInv, [WorkerNext]_workerVars PROVE [Covered]_workerVars
  <2>1. ASSUME Launch PROVE Covered
    <3>1. at \in {"prepare", "launch"}
      BY <2>1 DEF Launch
    <3> QED
      BY <1>1, <3>1 DEF WorkerInv, RunInv, Before, Current
  <2>2. ASSUME ~Launch PROVE UNCHANGED started
    BY <1>1, <2>2
    DEF WorkerNext, CallStep, Advance, StartRun, RefuseRun, MakeWorkspace, Consume, SetUp,
       Abandon,
        LeaveLoop, BeginStep, PrepareFails, OpenStep, RunEnds, RunRaises, CloseChannel,
        CloseFails, InterruptClose, Settle, LeaveStep, Unobserved, CaptureInterrupted, Observe,
        Finish, Beside, Trigger, Environment, Crash, Restart, WorkerFrame, CaptureFrame,
        workerVars, factVars
  <2> QED
    BY <2>1, <2>2
<1> QED
  BY <1>1, WorkerInvariant, PTL DEF WorkerSafety, StartsUnderReceipt
====
