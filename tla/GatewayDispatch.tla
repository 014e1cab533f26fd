---- MODULE GatewayDispatch ----
(***************************************************************************)
(* The gateway that takes a signed grant at most once                      *)
(* (cops/execution/gateway_dispatch.py: GatewayDispatchEmulator over       *)
(* GatewayDispatchReplayStore).                                            *)
(*                                                                         *)
(* A sender is one call of dispatch or dispatch_envelope; thread[s] is the *)
(* statement it is about to run.  Senders run in any number of threads and *)
(* processes over one replay database.  Signatures and digests are taken   *)
(* as collision free: a grant is what it says.                             *)
(***************************************************************************)
EXTENDS Naturals

CONSTANTS
    Senders,  \* calls of the gateway
    GrantOf   \* sender -> the grant it presents

ASSUME GrantAssumption ==
    \A s \in Senders : GrantOf[s].issued \in Nat /\ GrantOf[s].expires \in Nat

VARIABLES
    thread,    \* sender -> the statement it is about to run, or how it ended
    consumed,  \* consumed_dispatches
    handled    \* senders whose handler was invoked

gatewayVars == <<thread, consumed, handled>>

Threads == {"none", "preflight", "consume", "handler", "answered", "failed"}

GatewayInit ==
    /\ thread = [s \in Senders |-> "none"]
    /\ consumed = {}
    /\ handled = {}

\* dispatch_id is the primary key and authorization_id is unique.
Conflicts(g, h) == g.dispatch = h.dispatch \/ g.authorization = h.authorization

\* A worker sends an envelope, or the live runner starts its thread.
Send(s) ==
    /\ thread[s] = "none"
    /\ thread' = [thread EXCEPT ![s] = "preflight"]
    /\ UNCHANGED <<consumed, handled>>

\* verify_gateway_dispatch includes both ends of the window.
InForce(g, now) == g.issued <= now /\ now <= g.expires

\* preflight: signature, window, plan, worker, target, body and endpoint.
VerifyGrant(s, now) ==
    /\ thread[s] = "preflight"
    /\ \/ InForce(GrantOf[s], now) /\ thread' = [thread EXCEPT ![s] = "consume"]
       \/ thread' = [thread EXCEPT ![s] = "failed"]
    /\ UNCHANGED <<consumed, handled>>

\* Mutant: only the dispatch identifier is unique.
ConsumeByDispatch(s) ==
    LET g == GrantOf[s]
    IN  /\ thread[s] = "consume"
        /\ \A h \in consumed : g.dispatch # h.dispatch
        /\ consumed' = consumed \cup {g}
        /\ thread' = [thread EXCEPT ![s] = "handler"]
        /\ UNCHANGED handled

\* consume: the INSERT is committed before the handler runs; a conflict or an
\* unavailable store ends the dispatch, also when the row was stored.
ConsumeGrant(s) ==
    LET g == GrantOf[s]
    IN  /\ thread[s] = "consume"
        /\ \/ /\ \A h \in consumed : ~Conflicts(g, h)
              /\ consumed' = consumed \cup {g}
              /\ \E t \in {"handler", "failed"} : thread' = [thread EXCEPT ![s] = t]
           \/ UNCHANGED consumed /\ thread' = [thread EXCEPT ![s] = "failed"]
        /\ UNCHANGED handled

\* The handler answers or fails; either way the grant is gone.
Handle(s) ==
    /\ thread[s] = "handler"
    /\ handled' = handled \cup {s}
    /\ \E t \in {"answered", "failed"} : thread' = [thread EXCEPT ![s] = t]
    /\ UNCHANGED consumed

GatewayStep(s, now) == VerifyGrant(s, now) \/ ConsumeGrant(s) \/ Handle(s)

----------------------------------------------------------------------------
\* Properties

\* No two handler invocations, from whatever threads, processes, envelopes and
\* retries, carry one dispatch or one authorization identifier.
HandlerOnce ==
    \A s, t \in handled : s # t => ~Conflicts(GrantOf[s], GrantOf[t])
====
