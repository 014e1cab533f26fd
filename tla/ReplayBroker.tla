---- MODULE ReplayBroker ----
(***************************************************************************)
(* The one-shot dispatch channel of a mediated operation                   *)
(* (cops/web_api/worker_broker.py, cops/laboratory/agent_mcp_broker.py).   *)
(*                                                                         *)
(* Opening a channel forks a broker process and starts a monitor thread.   *)
(* The adapter can only trigger the broker; the broker sends the request,  *)
(* and writes the response to a pipe the monitor reads.  Closing the       *)
(* channel reaps the broker, joins the monitor and classifies what         *)
(* happened.  The two brokers differ in the order of those steps.          *)
(***************************************************************************)
EXTENDS Integers, FiniteSets, Sequences

VARIABLES
    cancel,    \* the operator's cancellation_event
    expired,   \* the deadline of the current step has passed
    serves,    \* the operation the last channel was opened for, 0 before the first
    mediator,  \* which broker serves it: "replay" or "lab"
    serving,   \* the broker process
    attempted, \* the dispatch_attempted event
    cancelled, \* the event that stops the mediator's exchange
    payload,   \* a result is in the trusted pipe
    monitor,   \* the supervise thread: "off", "polling" or "done"
    stopped,   \* the event that ends the monitor's loop
    result,    \* channel.result is set
    dispatch,  \* channel.dispatch_state
    closing,   \* progress of the channel's finally block
    sent       \* the operations of which a request has left the broker

channelVars == <<serves, mediator, serving, attempted, cancelled, payload,
                 monitor, stopped, result, dispatch, closing>>
brokerVars == <<cancel, expired, channelVars, sent>>

Alive == {"waiting", "connecting", "ready", "observed", "sending", "answered", "replied"}

BrokerInit ==
    /\ cancel = FALSE /\ expired = FALSE
    /\ serves = 0 /\ mediator = "replay" /\ serving = "none"
    /\ attempted = FALSE /\ cancelled = FALSE /\ payload = FALSE
    /\ monitor = "off" /\ stopped = FALSE
    /\ result = FALSE /\ dispatch = "not_dispatched"
    /\ closing = "none"
    /\ sent = {}

\* open_channel, up to the yield.
OpenChannel(i, m) ==
    /\ ~expired /\ ~cancel
    /\ serves' = i /\ mediator' = m /\ serving' = "waiting"
    /\ attempted' = FALSE /\ cancelled' = FALSE /\ payload' = FALSE
    /\ monitor' = "polling" /\ stopped' = FALSE
    /\ result' = FALSE /\ dispatch' = "not_dispatched"
    /\ closing' = "open"
    /\ UNCHANGED <<cancel, expired, sent>>

----------------------------------------------------------------------------
\* The broker process

Serve(from, to) ==
    /\ serving = from
    /\ serving' = to

Pure == UNCHANGED <<cancel, expired, serves, mediator, cancelled, monitor, stopped,
                    result, dispatch, closing>>

\* The exchange thread, up to the connection; every wait checks for cancellation.
Connect ==
    /\ ~cancelled
    /\ Serve("connecting", "ready")
    /\ Pure
    /\ UNCHANGED <<attempted, payload, sent>>

\* Mutant: the observer runs once the request is out.
ObserveLate ==
    /\ Serve("ready", "observed")
    /\ Pure
    /\ UNCHANGED <<attempted, payload, sent>>

\* dispatch_observer is called right before the first byte of each request.
ObserveDispatch ==
    /\ Serve("ready", "observed")
    /\ attempted' = TRUE
    /\ Pure
    /\ UNCHANGED <<payload, sent>>

Transmit ==
    /\ Serve("observed", "sending")
    /\ sent' = sent \cup {serves}
    /\ Pure
    /\ UNCHANGED <<attempted, payload>>

\* An approved redirect makes another request; any other response is complete.
Respond ==
    /\ \/ mediator = "replay" /\ Serve("sending", "connecting")
       \/ Serve("sending", "answered")
    /\ Pure
    /\ UNCHANGED <<attempted, payload, sent>>

\* The result goes to the trusted pipe before the adapter is told.
Reply ==
    /\ Serve("answered", "replied")
    /\ payload' = TRUE
    /\ Pure
    /\ UNCHANGED <<attempted, sent>>

\* _serve ends: it is done, or a deadline, cancellation or any error stopped it.
Exit ==
    /\ serving \in Alive
    /\ serving' = "gone"
    /\ Pure
    /\ UNCHANGED <<attempted, payload, sent>>

BrokerStep == Connect \/ ObserveDispatch \/ Transmit \/ Respond \/ Reply \/ Exit

----------------------------------------------------------------------------
\* The monitor thread

MonitorEnds ==
    /\ monitor = "polling"
    /\ monitor' = "done"
    /\ UNCHANGED <<cancel, expired, serves, mediator, serving, attempted, payload,
                   stopped, dispatch, closing, sent>>

\* Deadline or cancellation: the monitor stops the broker and no longer reads.
MonitorCancels ==
    /\ expired \/ cancel
    /\ MonitorEnds
    /\ cancelled' = TRUE
    /\ UNCHANGED result

\* The pipe has a result, or its end when the broker is gone without one.
MonitorReads ==
    /\ payload \/ serving = "gone"
    /\ MonitorEnds
    /\ result' = payload
    /\ UNCHANGED cancelled

MonitorStopped ==
    /\ stopped
    /\ MonitorEnds
    /\ UNCHANGED <<result, cancelled>>

MonitorStep == MonitorCancels \/ MonitorReads \/ MonitorStopped

----------------------------------------------------------------------------
\* The finally block of open_channel, run by the worker

Close(from, to) ==
    /\ closing = from
    /\ closing' = to
    /\ UNCHANGED <<cancel, expired, serves, mediator, attempted, payload, sent>>

ChannelState ==
    IF result THEN "completed"
    ELSE IF attempted THEN "uncertain" ELSE "not_dispatched"

BeginClose ==
    /\ Close("open", "joining")
    /\ cancelled' = TRUE
    /\ UNCHANGED <<serving, monitor, stopped, result, dispatch>>

\* Mutant: the broker is only joined, never terminated.
JoinBroker ==
    /\ mediator = "replay"
    /\ serving = "gone"
    /\ Close("joining", "reaped")
    /\ UNCHANGED <<serving, cancelled, monitor, stopped, result, dispatch>>

\* join, then terminate, then kill.
ReapBroker ==
    /\ mediator = "replay"
    /\ Close("joining", "reaped")
    /\ serving' = "gone"
    /\ UNCHANGED <<cancelled, monitor, stopped, result, dispatch>>

\* The laboratory broker stops its monitor first, after a grace period.
StopMonitor ==
    /\ mediator = "lab"
    /\ Close("joining", "stopping")
    /\ stopped' = TRUE
    /\ UNCHANGED <<serving, cancelled, monitor, result, dispatch>>

KillGroup ==
    /\ monitor = "done"
    /\ Close("stopping", "reaped")
    /\ serving' = "gone"
    /\ UNCHANGED <<cancelled, monitor, stopped, result, dispatch>>

\* The group cannot be killed: the result is dropped and close raises.
KillGroupFails ==
    /\ monitor = "done"
    /\ Close("stopping", "reaped")
    /\ serving' = "gone"
    /\ result' = FALSE
    /\ UNCHANGED <<cancelled, monitor, stopped, dispatch>>

\* The dispatch state is classified once the monitor is joined.
Classify ==
    /\ monitor = "done"
    /\ Close("reaped", "closed")
    /\ dispatch' = ChannelState
    /\ stopped' = TRUE
    /\ UNCHANGED <<serving, cancelled, monitor, result>>

CloseStep == BeginClose \/ ReapBroker \/ StopMonitor \/ KillGroup \/ Classify

\* An interrupt leaves the finally block.  The laboratory broker still
\* classifies; neither reaps a broker that is not reaped yet.
LeaveClose ==
    /\ closing \in {"joining", "stopping", "reaped"}
    /\ closing' = "left"
    /\ dispatch' = IF mediator = "lab" THEN ChannelState ELSE dispatch
    /\ UNCHANGED <<cancel, expired, serves, mediator, serving, attempted, cancelled,
                   payload, monitor, stopped, result, sent>>

----------------------------------------------------------------------------

OperatorCancels ==
    /\ ~cancel
    /\ cancel' = TRUE
    /\ UNCHANGED <<expired, channelVars, sent>>

DeadlinePasses ==
    /\ ~expired
    /\ expired' = TRUE
    /\ UNCHANGED <<cancel, channelVars, sent>>
====
