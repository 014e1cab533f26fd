\* Two authorizations and two environments: cases in one environment and across two.
CONSTANTS
    Auths = {a1, a2}
    Environments = {e1, e2}
    Nobody = Nobody
SYMMETRY MCSymmetry
SPECIFICATION Spec
INVARIANT SentOnce
PROPERTY OutcomesFinal
 
