---- MODULE OneTimeGrant ----
(***************************************************************************)
(* What the approval store promises, without requests, retries or clocks:  *)
(* an issued authorization is claimed by at most one claimant, an expired  *)
(* one by nobody, and a grant is delivered only to the claimant on record. *)
(* ApprovalControl implements it.                                          *)
(***************************************************************************)
EXTENDS Naturals

CONSTANTS
    Grants,     \* authorizations
    Claimants   \* request documents and local consumers

VARIABLES
    phase,      \* grant -> none, untrusted, issued, claimed or expired
    winner,     \* grant -> {} or the set holding its one claimant
    delivered   \* pairs <<grant, claimant>> that hold a receipt

grantVars == <<phase, winner, delivered>>

GrantInit ==
    /\ phase \in [Grants -> {"none", "untrusted"}]
    /\ winner = [g \in Grants |-> {}]
    /\ delivered = {}

Issue(g) ==
    /\ phase[g] = "none"
    /\ phase' = [phase EXCEPT ![g] = "issued"]
    /\ UNCHANGED <<winner, delivered>>

\* A local consumer gets its receipt with the claim, a request document later
\* or never.
Claim(g, x) ==
    /\ phase[g] = "issued"
    /\ phase' = [phase EXCEPT ![g] = "claimed"]
    /\ winner' = [winner EXCEPT ![g] = {x}]
    /\ delivered' \in {delivered, delivered \cup {<<g, x>>}}

Expire(g) ==
    /\ phase[g] = "issued"
    /\ phase' = [phase EXCEPT ![g] = "expired"]
    /\ UNCHANGED <<winner, delivered>>

Deliver(g, x) ==
    /\ x \in winner[g]
    /\ delivered' = delivered \cup {<<g, x>>}
    /\ UNCHANGED <<phase, winner>>

GrantNext ==
    \E g \in Grants :
        \/ Issue(g)
        \/ Expire(g)
        \/ \E x \in Claimants : Claim(g, x) \/ Deliver(g, x)

GrantSpec == GrantInit /\ [][GrantNext]_grantVars
====
