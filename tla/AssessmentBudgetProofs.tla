---- MODULE AssessmentBudgetProofs ----
(***************************************************************************)
(* Proofs about AssessmentBudget, for every tree of attempts, every policy *)
(* and every sequence of receipts.  The sums of tokens and output are      *)
(* compared over different sets of rows, so the module begins with what it *)
(* needs to know about sums.                                               *)
(***************************************************************************)
EXTENDS AssessmentBudget, FiniteSetTheorems, TLAPS

\* The leaves go to Zenon; the ones that need arithmetic, or records and
\* functions taken apart, cite SMT.
USE Zenon

----------------------------------------------------------------------------
\* Sums over finite sets.  The recursion of SumFunctionOnSet is unfolded and
\* reasoned about by smallest counterexamples.

\* Every nonempty set of subsets of a finite set has a smallest one: induction
\* over finite sets, in a form that names the set of counterexamples.
LEMMA SmallestSet ==
    ASSUME NEW S, IsFiniteSet(S), NEW B \in SUBSET SUBSET S, B # {}
    PROVE  \E U \in B : \A V \in B : V \subseteq U => V = U
  <1>1. B \subseteq FiniteSubsetsOf(S)  BY FS_Subset DEF FiniteSubsetsOf
  <1>2. IsWellFoundedOn(StrictSubsetOrdering(S), FiniteSubsetsOf(S))
    BY FS_StrictSubsetOrderingWellFounded
  <1>3. PICK U \in B : \A V \in B : ~(<<V, U>> \in StrictSubsetOrdering(S))
    BY <1>1, <1>2, WFMin
  <1> QED BY <1>3 DEF StrictSubsetOrdering

Pick(s) == CHOOSE x \in s : TRUE

\* g holds the sum of f over every member of D.
Tabulates(g, f, D) ==
    g = [s \in D |-> IF s = {} THEN 0 ELSE f[Pick(s)] + g[s \ {Pick(s)}]]

LEMMA SumDef ==
    ASSUME NEW f, NEW S
    PROVE  SumFunctionOnSet(f, S) = (CHOOSE g : Tabulates(g, f, SUBSET S))[S]
  BY DEF SumFunctionOnSet, FoldFunctionOnSet, MapThenFoldSet, Tabulates, Pick

LEMMA PickFacts ==
    ASSUME NEW s, s # {}
    PROVE  Pick(s) \in s /\ s \ {Pick(s)} \subseteq s /\ s \ {Pick(s)} # s
  BY DEF Pick

\* Two tables agree where both are defined.
LEMMA TablesAgree ==
    ASSUME NEW f, NEW S, IsFiniteSet(S), NEW T \in SUBSET S, NEW g, NEW h,
           Tabulates(g, f, SUBSET S), Tabulates(h, f, SUBSET T)
    PROVE  g[T] = h[T]
  <1> DEFINE B == {s \in SUBSET T : g[s] # h[s]}
  <1>1. SUFFICES ASSUME B # {} PROVE FALSE  OBVIOUS
  <1>2. IsFiniteSet(T)  BY FS_Subset
  <1>3. PICK U \in B : \A V \in B : V \subseteq U => V = U
    <2>1. B \in SUBSET SUBSET T  OBVIOUS
    <2> HIDE DEF B
    <2> QED BY <1>1, <1>2, <2>1, SmallestSet, SMT
  <1>4. U \in SUBSET T /\ U \in SUBSET S /\ g[U] # h[U]  BY <1>3
  <1>5. /\ g[U] = IF U = {} THEN 0 ELSE f[Pick(U)] + g[U \ {Pick(U)}]
        /\ h[U] = IF U = {} THEN 0 ELSE f[Pick(U)] + h[U \ {Pick(U)}]
    BY <1>4 DEF Tabulates
  <1>6. U # {}  BY <1>4, <1>5
  <1>7. U \ {Pick(U)} \notin B  BY <1>3, <1>6, PickFacts
  <1> QED BY <1>4, <1>5, <1>6, <1>7

\* What a table says of a sum.
LEMMA SumStep ==
    ASSUME NEW f, NEW S, IsFiniteSet(S), \A T \in SUBSET S : \E g : Tabulates(g, f, SUBSET T)
    PROVE  SumFunctionOnSet(f, S) =
              IF S = {} THEN 0 ELSE f[Pick(S)] + SumFunctionOnSet(f, S \ {Pick(S)})
  <1> DEFINE Table(T) == CHOOSE g : Tabulates(g, f, SUBSET T)
             t == S \ {Pick(S)}
  <1>1. \A T \in SUBSET S : Tabulates(Table(T), f, SUBSET T)  OBVIOUS
  <1>2. \A T \in SUBSET S : SumFunctionOnSet(f, T) = Table(T)[T]  BY SumDef
  <1> HIDE DEF Table
  <1>3. Table(S)[S] = IF S = {} THEN 0 ELSE f[Pick(S)] + Table(S)[t]  BY <1>1 DEF Tabulates
  <1>4. Table(S)[t] = Table(t)[t]
    <2>1. t \in SUBSET S  OBVIOUS
    <2>2. Tabulates(Table(S), f, SUBSET S) /\ Tabulates(Table(t), f, SUBSET t)  BY <1>1, <2>1
    <2> HIDE DEF t
    <2> QED BY <2>1, <2>2, TablesAgree, SMT
  <1> QED BY <1>2, <1>3, <1>4

\* A finite set has a table: the smallest subset without one would get it from
\* the sums over the sets below it.
LEMMA TableExists ==
    ASSUME NEW f, NEW S, IsFiniteSet(S)
    PROVE  \E g : Tabulates(g, f, SUBSET S)
  <1> DEFINE B == {T \in SUBSET S : ~ \E g : Tabulates(g, f, SUBSET T)}
  <1>1. SUFFICES ASSUME B # {} PROVE FALSE  OBVIOUS
  <1>2. PICK U \in B : \A V \in B : V \subseteq U => V = U
    <2>1. B \in SUBSET SUBSET S  OBVIOUS
    <2> HIDE DEF B
    <2> QED BY <1>1, <2>1, SmallestSet, SMT
  <1> DEFINE g == [s \in SUBSET U |->
                     IF s = {} THEN 0 ELSE f[Pick(s)] + SumFunctionOnSet(f, s \ {Pick(s)})]
  <1>3. ASSUME NEW s \in SUBSET U, s # {}
        PROVE  g[s \ {Pick(s)}] = SumFunctionOnSet(f, s \ {Pick(s)})
    <2> DEFINE t == s \ {Pick(s)}
    <2>1. t \in SUBSET U /\ t # U /\ t \in SUBSET S  BY <1>3, PickFacts
    <2>2. \A T \in SUBSET t : \E h : Tabulates(h, f, SUBSET T)  BY <1>2, <2>1
    <2>3. IsFiniteSet(t)  BY <2>1, FS_Subset
    <2>4. SumFunctionOnSet(f, t) =
             IF t = {} THEN 0 ELSE f[Pick(t)] + SumFunctionOnSet(f, t \ {Pick(t)})
      BY <2>2, <2>3, SumStep
    <2> HIDE DEF t
    <2>5. g[t] = IF t = {} THEN 0 ELSE f[Pick(t)] + SumFunctionOnSet(f, t \ {Pick(t)})
      BY <2>1
    <2>6. g[t] = SumFunctionOnSet(f, t)  BY <2>4, <2>5
    <2> QED BY <2>6 DEF t
  <1>4. g = [s \in SUBSET U |-> IF s = {} THEN 0 ELSE f[Pick(s)] + g[s \ {Pick(s)}]]
    BY <1>3
  <1>5. Tabulates(g, f, SUBSET U)  BY <1>4 DEF Tabulates
  <1> HIDE DEF g
  <1> QED BY <1>2, <1>5

\* The sum over a finite set, unfolded once.
LEMMA SumUnfold ==
    ASSUME NEW f, NEW S, IsFiniteSet(S)
    PROVE  SumFunctionOnSet(f, S) =
              IF S = {} THEN 0 ELSE f[Pick(S)] + SumFunctionOnSet(f, S \ {Pick(S)})
  <1>1. \A T \in SUBSET S : \E g : Tabulates(g, f, SUBSET T)  BY FS_Subset, TableExists
  <1> QED BY <1>1, SumStep

LEMMA SumEmpty == ASSUME NEW f PROVE SumFunctionOnSet(f, {}) = 0
  BY SumUnfold, FS_EmptySet

LEMMA SumType ==
    ASSUME NEW f, NEW S, IsFiniteSet(S), \A x \in S : f[x] \in Nat
    PROVE  SumFunctionOnSet(f, S) \in Nat
  <1> DEFINE B == {T \in SUBSET S : SumFunctionOnSet(f, T) \notin Nat}
  <1>1. SUFFICES ASSUME B # {} PROVE FALSE  OBVIOUS
  <1>2. PICK U \in B : \A V \in B : V \subseteq U => V = U
    <2>1. B \in SUBSET SUBSET S  OBVIOUS
    <2> HIDE DEF B
    <2> QED BY <1>1, <2>1, SmallestSet, SMT
  <1>3. IsFiniteSet(U)  BY FS_Subset
  <1>4. SumFunctionOnSet(f, U) =
           IF U = {} THEN 0 ELSE f[Pick(U)] + SumFunctionOnSet(f, U \ {Pick(U)})
    BY <1>3, SumUnfold
  <1>5. CASE U = {}  BY <1>2, <1>4, <1>5, SMT
  <1>6. CASE U # {}
    <2>1. SumFunctionOnSet(f, U \ {Pick(U)}) \in Nat  BY <1>2, <1>6, PickFacts
    <2>2. f[Pick(U)] \in Nat  BY <1>6, PickFacts
    <2> QED BY <1>2, <1>4, <1>6, <2>1, <2>2, SMT
  <1> QED BY <1>5, <1>6

\* Any element can be taken out first.
LEMMA SumRemove ==
    ASSUME NEW f, NEW S, IsFiniteSet(S), \A x \in S : f[x] \in Nat, NEW y \in S
    PROVE  SumFunctionOnSet(f, S) = f[y] + SumFunctionOnSet(f, S \ {y})
  <1> DEFINE Sum(T) == SumFunctionOnSet(f, T)
             B == {T \in SUBSET S : \E z \in T : Sum(T) # f[z] + Sum(T \ {z})}
  <1>1. SUFFICES ASSUME B # {} PROVE FALSE  OBVIOUS
  <1>2. PICK U \in B : \A V \in B : V \subseteq U => V = U
    <2>1. B \in SUBSET SUBSET S  OBVIOUS
    <2> HIDE DEF B
    <2> QED BY <1>1, <2>1, SmallestSet, SMT
  <1>3. PICK z \in U : Sum(U) # f[z] + Sum(U \ {z})  BY <1>2
  <1> DEFINE x == Pick(U)
             R == (U \ {x}) \ {z}
  <1>4. x \in U /\ U \subseteq S  BY <1>2, <1>3, PickFacts
  <1>5. Sum(U) = f[x] + Sum(U \ {x})  BY <1>3, <1>4, FS_Subset, SumUnfold
  <1>6. x # z  BY <1>3, <1>5
  <1>7. ASSUME NEW v \in U, NEW w \in U \ {v} PROVE Sum(U \ {v}) = f[w] + Sum((U \ {v}) \ {w})
    <2>1. U \ {v} \notin B  BY <1>2
    <2> QED BY <1>4, <2>1
  <1>8. Sum(U \ {x}) = f[z] + Sum(R) /\ Sum(U \ {z}) = f[x] + Sum(R)
    <2>1. (U \ {z}) \ {x} = R  OBVIOUS
    <2> QED BY <1>3, <1>4, <1>6, <1>7, <2>1
  <1>9. Sum(R) \in Nat  BY <1>4, FS_Subset, SumType
  <1>10. f[x] \in Nat /\ f[z] \in Nat  BY <1>3, <1>4
  <1> HIDE DEF Sum, x, R
  <1> QED BY <1>3, <1>5, <1>8, <1>9, <1>10, SMT

\* Fewer and smaller summands give a smaller sum.
LEMMA SumMonotonic ==
    ASSUME NEW f, NEW g, NEW T, IsFiniteSet(T), NEW S \in SUBSET T,
           \A x \in S : f[x] \in Nat /\ f[x] <= g[x],
           \A x \in T : g[x] \in Nat
    PROVE  SumFunctionOnSet(f, S) <= SumFunctionOnSet(g, T)
  <1> DEFINE F(U) == SumFunctionOnSet(f, U \cap S)
             G(U) == SumFunctionOnSet(g, U)
             B == {U \in SUBSET T : ~(F(U) <= G(U))}
  <1>1. SUFFICES ASSUME B # {} PROVE FALSE
    <2>1. T \cap S = S  OBVIOUS
    <2> QED BY <2>1
  <1>2. PICK U \in B : \A V \in B : V \subseteq U => V = U
    <2>1. B \in SUBSET SUBSET T  OBVIOUS
    <2> HIDE DEF B
    <2> QED BY <1>1, <2>1, SmallestSet, SMT
  <1>3. IsFiniteSet(U) /\ IsFiniteSet(U \cap S)  BY FS_Subset
  <1>4. U # {}
    <2>1. F({}) = 0 /\ G({}) = 0
      <3>1. {} \cap S = {}  OBVIOUS
      <3> QED BY <3>1, SumEmpty
    <2>2. ~(F(U) <= G(U))  BY <1>2
    <2> HIDE DEF F, G
    <2> QED BY <2>1, <2>2, SMT
  <1> DEFINE x == Pick(U)
             R == U \ {x}
  <1>5. x \in U /\ x \in T /\ R \in SUBSET T /\ R # U  BY <1>2, <1>4, PickFacts
  <1>6. F(R) <= G(R)  BY <1>2, <1>5
  <1>7. G(U) = g[x] + G(R)  BY <1>3, <1>5, SumRemove, SMT
  <1>8. F(R) \in Nat /\ G(R) \in Nat
    <2>1. IsFiniteSet(R) /\ IsFiniteSet(R \cap S)  BY <1>5, FS_Subset
    <2> QED BY <1>5, <2>1, SumType
  <1>9. CASE x \in S
    <2>1. (U \cap S) \ {x} = R \cap S  OBVIOUS
    <2>2. F(U) = f[x] + F(R)  BY <1>3, <1>5, <1>9, <2>1, SumRemove, SMT
    <2>3. f[x] \in Nat /\ g[x] \in Nat /\ f[x] <= g[x]  BY <1>5, <1>9
    <2>4. ~(F(U) <= G(U))  BY <1>2
    <2> HIDE DEF F, G, x, R
    <2> QED BY <1>6, <1>7, <1>8, <2>2, <2>3, <2>4, SMT
  <1>10. CASE x \notin S
    <2>1. U \cap S = R \cap S  BY <1>10
    <2>2. F(U) = F(R)  BY <2>1
    <2>3. g[x] \in Nat  BY <1>5
    <2>4. ~(F(U) <= G(U))  BY <1>2
    <2> HIDE DEF F, G, x, R
    <2> QED BY <1>6, <1>7, <1>8, <2>2, <2>3, <2>4, SMT
  <1> QED BY <1>9, <1>10

----------------------------------------------------------------------------
\* Types

\* What a request that names a parent inherits is that parent's limits.
LEMMA RequestFacts ==
    ASSUME NEW r \in Requests, TypeOK
    PROVE  /\ r \in AttemptRequest
           /\ r.id \in Attempts
           /\ Inherited(r) \in Limits
           /\ Ancestry(r) \subseteq Attempts
           /\ \/ r.parent = {} /\ Inherited(r) = Policy /\ Ancestry(r) = {}
              \/ \E p \in Attempts :
                    /\ r.parent = {p}
                    /\ Inherited(r) = limits[p]
                    /\ Ancestry(r) = {p} \cup line[p]
  <1>1. r \in AttemptRequest /\ r.id \in Attempts  BY BudgetAssumption DEF AttemptRequest
  <1>2. CASE r.parent = {}
    <2>1. Inherited(r) = Policy /\ Ancestry(r) = {}  BY <1>2 DEF Inherited, Ancestry
    <2> QED BY <1>1, <1>2, <2>1, BudgetAssumption
  <1>3. CASE r.parent # {}
    <2>1. PICK p \in Attempts : r.parent = {p}  BY <1>3, BudgetAssumption
    <2>2. (CHOOSE q \in r.parent : TRUE) = p  BY <2>1
    <2>3. Inherited(r) = limits[p]  BY <2>1, <2>2 DEF Inherited
    <2>4. Ancestry(r) = {p} \cup line[p]  BY <2>1 DEF Ancestry
    <2> QED BY <1>1, <2>1, <2>3, <2>4, SMT DEF TypeOK
  <1> QED BY <1>2, <1>3

LEMMA ReceiptFacts ==
    ASSUME NEW c \in Receipts
    PROVE  c.attempt \in Attempts /\ c.outcome \in Outcomes /\ c.usage \in Usage
  BY BudgetAssumption

LEMMA OptionalFacts ==
    ASSUME NEW S, NEW T \in Optional(S)
    PROVE  T \subseteq S /\ \A x, y \in T : x = y
  BY DEF Optional

LEMMA TypeInductive == TypeOK /\ [Next]_vars => TypeOK'
  <1> SUFFICES ASSUME TypeOK, [Next]_vars PROVE TypeOK'  OBVIOUS
  <1> USE DEF Observed, rowVars, useVars, preVars
  <1>1. ASSUME NEW now \in Times, Observe(now) PROVE TypeOK'
    BY <1>1 DEF Observe, TypeOK
  <1>2. ASSUME NEW now \in Times, NEW r \in Requests,
               NEW l \in LimitChoices \cup {Inherited(r)}, Reserve(r, l, now)
        PROVE  TypeOK'
    <2>1. l \in Limits  BY RequestFacts, BudgetAssumption
    <2>2. "reserved" \in States  BY DEF States
    <2> QED BY <1>2, <2>1, <2>2, RequestFacts DEF Reserve, TypeOK
  <1>3. ASSUME NEW now \in Times, NEW a \in Attempts, NEW X \in Optional(Approvals),
               NEW P \in Optional(Prerequisites), MarkDispatched(a, X, P, now)
        PROVE  TypeOK'
    <2>1. "dispatched" \in States  BY DEF States
    <2> QED BY <1>3, <2>1, SMT DEF MarkDispatched, TypeOK
  <1>4. ASSUME NEW now \in Times, NEW a \in Attempts, MarkUncertain(a, now) PROVE TypeOK'
    <2>1. "uncertain" \in States  BY DEF States
    <2> QED BY <1>4, <2>1 DEF MarkUncertain, TypeOK
  <1>5. ASSUME NEW now \in Times, NEW a \in Attempts, ReleaseUndispatched(a, now) PROVE TypeOK'
    <2>1. "released" \in States  BY DEF States
    <2> QED BY <1>5, <2>1 DEF ReleaseUndispatched, TypeOK
  <1>6. ASSUME NEW now \in Times, NEW c \in Receipts, NEW P \in Optional(Prerequisites),
               Reconcile(c, P, now)
        PROVE  TypeOK'
    <2>1. "settled" \in States /\ "usage_unknown" \in States  BY DEF States
    <2>2. P \subseteq Prerequisites  BY OptionalFacts
    <2>3. prereqs' \subseteq [prerequisite: Prerequisites, source: Attempts]
      BY <1>6, <2>2, ReceiptFacts, SMT DEF Reconcile, TypeOK
    <2> QED BY <1>6, <2>1, <2>3, ReceiptFacts DEF Reconcile, TypeOK
  <1>7. ASSUME NEW now \in Times, Cancel(now) PROVE TypeOK'
    <2>1. "released" \in States  BY DEF States
    <2> QED BY <1>7, <2>1 DEF Cancel, TypeOK, Active
  <1>8. ASSUME NEW now \in Times, Reopen(now) PROVE TypeOK'
    <2>1. "uncertain" \in States  BY DEF States
    <2> QED BY <1>8, <2>1 DEF Reopen, TypeOK
  <1>9. CASE UNCHANGED vars  BY <1>9 DEF vars, TypeOK
  <1> QED BY <1>1, <1>2, <1>3, <1>4, <1>5, <1>6, <1>7, <1>8, <1>9 DEF Next

\* Every variable of the ledger keeps its type.
THEOREM TypeCorrect == Spec => []TypeOK
  <1>1. Init => TypeOK
    <2> SUFFICES ASSUME Init PROVE TypeOK  OBVIOUS
    <2>1. NoUsage \in Usage  BY DEF NoUsage, Usage
    <2>2. \A a \in Attempts :
            [id |-> a, parent |-> {}, tokens |-> 0, output |-> 0] \in AttemptRequest
      BY DEF AttemptRequest
    <2>3. seen \in Times  BY BudgetAssumption, SMT DEF Init, Times
    <2> QED BY <2>1, <2>2, <2>3, BudgetAssumption DEF Init, TypeOK, States
  <1> QED BY <1>1, TypeInductive, PTL DEF Spec

----------------------------------------------------------------------------
\* Every step but an admission keeps the rows and moves their states forward.

RowsKept ==
    /\ UNCHANGED rowVars
    /\ Rows' = Rows
    /\ \A a \in Attempts : Forward(state[a], state'[a]) /\ state'[a] \in States

LEMMA StepKinds ==
    ASSUME TypeOK, [Next]_vars
    PROVE  \/ RowsKept
           \/ \E now \in Times : \E r \in Requests : \E l \in LimitChoices \cup {Inherited(r)} :
                 Reserve(r, l, now)
  <1> USE DEF rowVars
  <1>0. \A a \in Attempts : state'[a] \in States  BY TypeInductive DEF TypeOK
  <1>1. ASSUME UNCHANGED <<state, rowVars>> PROVE RowsKept
    BY <1>0, <1>1 DEF RowsKept, Rows, Forward
  <1>2. ASSUME NEW now \in Times, Observe(now) PROVE RowsKept
    BY <1>1, <1>2 DEF Observe
  <1>3. ASSUME NEW a \in Attempts, NEW s, state' = [state EXCEPT ![a] = s],
               state[a] # "absent", s # "absent", Forward(state[a], s), UNCHANGED rowVars
        PROVE  RowsKept
    BY <1>0, <1>3 DEF RowsKept, Rows, Forward, TypeOK
  <1>4. ASSUME NEW now \in Times, NEW a \in Attempts, NEW X \in Optional(Approvals),
               NEW P \in Optional(Prerequisites), MarkDispatched(a, X, P, now)
        PROVE  RowsKept
    BY <1>3, <1>4 DEF MarkDispatched, Dispatchable, Forward
  <1>5. ASSUME NEW now \in Times, NEW a \in Attempts, MarkUncertain(a, now) PROVE RowsKept
    BY <1>3, <1>5 DEF MarkUncertain, Forward
  <1>6. ASSUME NEW now \in Times, NEW a \in Attempts, ReleaseUndispatched(a, now) PROVE RowsKept
    BY <1>3, <1>6 DEF ReleaseUndispatched, Forward
  <1>7. ASSUME NEW now \in Times, NEW c \in Receipts, NEW P \in Optional(Prerequisites),
               Reconcile(c, P, now)
        PROVE  RowsKept
    <2> DEFINE s == IF Known(c) THEN "settled" ELSE "usage_unknown"
    <2>1. c.attempt \in Attempts  BY ReceiptFacts
    <2>2. CASE state[c.attempt] # "usage_unknown"
      <3>1. Forward(state[c.attempt], s) /\ state[c.attempt] # "absent" /\ s # "absent"
        BY <1>7, <2>2 DEF Reconcile, Forward
      <3> QED BY <1>3, <1>7, <2>1, <3>1 DEF Reconcile
    <2>3. CASE state[c.attempt] = "usage_unknown"
      <3>1. Forward(state[c.attempt], s) /\ state[c.attempt] # "absent" /\ s # "absent"
        BY <2>3 DEF Forward
      <3> QED BY <1>3, <1>7, <2>1, <3>1 DEF Reconcile
    <2> QED BY <2>2, <2>3
  <1>8. ASSUME NEW now \in Times, Cancel(now) PROVE RowsKept
    BY <1>0, <1>8 DEF Cancel, RowsKept, Rows, Forward, TypeOK
  <1>9. ASSUME NEW now \in Times, Reopen(now) PROVE RowsKept
    BY <1>0, <1>9 DEF Reopen, RowsKept, Rows, Forward, TypeOK
  <1>10. CASE UNCHANGED vars  BY <1>1, <1>10 DEF vars
  <1> QED BY <1>2, <1>4, <1>5, <1>6, <1>7, <1>8, <1>9, <1>10 DEF Next

\* An admission adds one row and changes no other.
Admits(r, l) ==
    /\ r.id \in Attempts /\ r.id \notin Rows
    /\ Rows' = Rows \cup {r.id}
    /\ state'[r.id] = "reserved" /\ request'[r.id] = r
    /\ limits'[r.id] = l /\ line'[r.id] = Ancestry(r)
    /\ l \in Limits
    /\ \A a \in Attempts \ {r.id} :
        /\ state'[a] = state[a] /\ request'[a] = request[a]
        /\ limits'[a] = limits[a] /\ line'[a] = line[a]

LEMMA Admission ==
    ASSUME TypeOK, NEW now \in Times, NEW r \in Requests,
           NEW l \in LimitChoices \cup {Inherited(r)}, Reserve(r, l, now)
    PROVE  Admits(r, l)
  <1>1. r.id \in Attempts  BY RequestFacts
  <1>2. l \in Limits  BY RequestFacts, BudgetAssumption
  <1> QED BY <1>1, <1>2, SMT DEF Admits, Reserve, Rows, TypeOK

----------------------------------------------------------------------------
\* Attempts and concurrency

\* Fewer charged and active attempts stay within the same limits.
LEMMA CountsShrink ==
    ASSUME NEW S \in SUBSET Attempts, NEW T \in SUBSET Attempts, NEW l \in Limits,
           CountsWithin(S, l), T \cap Charged' \subseteq S \cap Charged,
           T \cap Active' \subseteq S \cap Active
    PROVE  /\ Cardinality(T \cap Charged') <= l.attempts
           /\ Cardinality(T \cap Active') <= l.concurrency
  <1>1. IsFiniteSet(S \cap Charged) /\ IsFiniteSet(S \cap Active)
    BY FS_Subset, BudgetAssumption
  <1>2. /\ Cardinality(T \cap Charged') <= Cardinality(S \cap Charged)
        /\ Cardinality(T \cap Active') <= Cardinality(S \cap Active)
    BY <1>1, FS_Subset
  <1>3. /\ Cardinality(T \cap Charged') \in Nat /\ Cardinality(S \cap Charged) \in Nat
        /\ Cardinality(T \cap Active') \in Nat /\ Cardinality(S \cap Active) \in Nat
    BY <1>1, FS_Subset, FS_CardinalityType
  <1>4. l.attempts \in Nat /\ l.concurrency \in Nat  BY DEF Limits
  <1> QED BY <1>2, <1>3, <1>4, SMT DEF CountsWithin

\* Without an admission no row becomes charged or active, and no subtree grows.
LEMMA RowsKeptShrink ==
    ASSUME RowsKept
    PROVE  /\ Charged' \subseteq Charged /\ Active' \subseteq Active
           /\ \A a \in Attempts : Subtree(a)' = Subtree(a)
  <1>1. ASSUME NEW a \in Attempts
        PROVE  /\ state'[a] \in ChargedStates => state[a] \in ChargedStates
               /\ state'[a] \in ActiveStates => state[a] \in ActiveStates
    <2>1. state[a] = "absent" => state'[a] = "absent"  BY DEF RowsKept, Rows
    <2>2. Forward(state[a], state'[a])  BY DEF RowsKept
    <2> QED BY <2>1, <2>2 DEF Forward, ChargedStates, ActiveStates
  <1>2. \A a \in Attempts : Subtree(a)' = Subtree(a)  BY DEF RowsKept, Subtree, rowVars
  <1> QED BY <1>1, <1>2 DEF Charged, Active

\* An admission leaves alone every subtree it does not join.
Untouched(a) ==
    /\ a \in Rows /\ a \in Attempts /\ limits'[a] = limits[a]
    /\ Subtree(a) \subseteq Attempts
    /\ Subtree(a)' = Subtree(a)
    /\ Subtree(a) \cap Charged' \subseteq Subtree(a) \cap Charged
    /\ Subtree(a) \cap Active' \subseteq Subtree(a) \cap Active

LEMMA OutsideAdmission ==
    ASSUME NEW r, NEW l, Admits(r, l), NEW a \in Rows', a \notin Ancestry(r) \cup {r.id}
    PROVE  Untouched(a)
  <1>1. a \in Rows /\ a \in Attempts /\ limits'[a] = limits[a]  BY DEF Admits, Rows
  <1>2. Subtree(a)' = Subtree(a)  BY <1>1, SMT DEF Admits, Subtree, Rows
  <1>3. r.id \notin Subtree(a)  BY DEF Admits, Subtree
  <1>4. /\ Subtree(a) \cap Charged' \subseteq Subtree(a) \cap Charged
        /\ Subtree(a) \cap Active' \subseteq Subtree(a) \cap Active
    BY <1>3 DEF Admits, Charged, Active
  <1>5. Subtree(a) \subseteq Attempts  BY DEF Subtree, Rows
  <1> QED BY <1>1, <1>2, <1>4, <1>5 DEF Untouched

LEMMA CountsInductive == TypeOK /\ CountsHold /\ [Next]_vars => CountsHold'
  <1> SUFFICES ASSUME TypeOK, CountsHold, [Next]_vars PROVE CountsHold'  OBVIOUS
  <1>a. Policy \in Limits /\ \A a \in Attempts : limits[a] \in Limits
    BY BudgetAssumption DEF TypeOK
  <1>1. CASE RowsKept
    <2>1. /\ Charged' \subseteq Charged /\ Active' \subseteq Active
          /\ \A a \in Attempts : Subtree(a)' = Subtree(a)
      BY <1>1, RowsKeptShrink
    <2>2. CountsWithin(Attempts, Policy)'
      BY <1>a, <2>1, CountsShrink DEF CountsHold, CountsWithin
    <2>3. ASSUME NEW a \in Rows' PROVE CountsWithin(Subtree(a), limits[a])'
      <3>1. a \in Rows /\ a \in Attempts /\ limits' = limits  BY <1>1 DEF RowsKept, rowVars, Rows
      <3>2. Subtree(a) \subseteq Attempts  BY DEF Subtree, Rows
      <3>3. CountsWithin(Subtree(a), limits[a])  BY <3>1 DEF CountsHold
      <3> QED BY <1>a, <2>1, <3>1, <3>2, <3>3, CountsShrink DEF CountsWithin
    <2> QED BY <2>2, <2>3 DEF CountsHold
  <1>2. ASSUME NEW now \in Times, NEW r \in Requests,
               NEW l \in LimitChoices \cup {Inherited(r)}, Reserve(r, l, now)
        PROVE  CountsHold'
    <2> USE <1>2
    <2>a. Admits(r, l)  BY Admission
    <2>1. CountsWithin(Attempts, Policy)'  BY DEF Reserve, Within
    <2>2. ASSUME NEW a \in Rows' PROVE CountsWithin(Subtree(a), limits[a])'
      <3>1. CASE a \in Ancestry(r) \cup {r.id}  BY <3>1 DEF Reserve, Within
      <3>2. CASE a \notin Ancestry(r) \cup {r.id}
        <4>1. Untouched(a)  BY <2>a, <3>2, OutsideAdmission
        <4>2. CountsWithin(Subtree(a), limits[a])  BY <4>1 DEF CountsHold, Untouched
        <4> QED BY <1>a, <4>1, <4>2, CountsShrink DEF CountsWithin, Untouched
      <3> QED BY <3>1, <3>2
    <2> QED BY <2>1, <2>2 DEF CountsHold
  <1> QED BY <1>1, <1>2, StepKinds

\* Attempts and concurrency keep within the policy and within the limits of
\* every subtree, for every policy, every tree and every number of attempts.
THEOREM CountsAlwaysHold == Spec => []CountsHold
  <1>1. Init => CountsHold
    <2> SUFFICES ASSUME Init PROVE CountsHold  OBVIOUS
    <2>1. Rows = {} /\ Charged = {} /\ Active = {}
      BY DEF Init, Rows, Charged, Active, ChargedStates, ActiveStates
    <2>2. Cardinality({}) = 0  BY FS_EmptySet
    <2>3. Policy.attempts >= 0 /\ Policy.concurrency >= 0  BY BudgetAssumption, SMT DEF Limits
    <2>4. CountsWithin(Attempts, Policy)
      <3>1. Attempts \cap Charged = {} /\ Attempts \cap Active = {}  BY <2>1
      <3> QED BY <2>2, <2>3, <3>1, BudgetAssumption DEF CountsWithin, Limits
    <2> QED BY <2>1, <2>4 DEF CountsHold
  <1> QED BY <1>1, CountsInductive, TypeCorrect, PTL DEF Spec

----------------------------------------------------------------------------
\* The tree.  A new row must not already be somebody's parent: parents are in
\* the line, and lines hold rows only.

ParentsInLine == \A a \in Rows : request[a].parent \subseteq line[a]

LEMMA WithinTransitive ==
    ASSUME NEW l \in Limits, NEW m \in Limits, NEW n \in Limits, IsWithin(l, m), IsWithin(m, n)
    PROVE  IsWithin(l, n)
  BY SMT DEF Limits, IsWithin

LEMMA TreeInductive ==
    TypeOK /\ TreeSound /\ ParentsInLine /\ [Next]_vars => TreeSound' /\ ParentsInLine'
  <1> SUFFICES ASSUME TypeOK, TreeSound, ParentsInLine, [Next]_vars
               PROVE  TreeSound' /\ ParentsInLine'
    OBVIOUS
  <1>1. CASE RowsKept
    BY <1>1 DEF RowsKept, rowVars, TreeSound, ParentsInLine, Depth
  <1>2. ASSUME NEW now \in Times, NEW r \in Requests,
               NEW l \in LimitChoices \cup {Inherited(r)}, Reserve(r, l, now)
        PROVE  TreeSound' /\ ParentsInLine'
    <2> USE <1>2
    <2>a. Admits(r, l)  BY Admission
    <2> DEFINE n == r.id
               Children(a) == {b \in Rows : request[b].parent = {a}}
    <2>1. Admissible(r, l, now)  BY DEF Reserve
    <2>2. r.parent \subseteq Rows /\ Ancestry(r) \subseteq Rows
      <3>1. r.parent \subseteq Rows  BY <2>1 DEF Admissible
      <3>2. CASE r.parent = {}
        <4>1. Ancestry(r) = {}  BY <3>2, RequestFacts
        <4> QED BY <3>1, <4>1
      <3>3. ASSUME NEW p \in Attempts, r.parent = {p}, Ancestry(r) = {p} \cup line[p]
            PROVE  Ancestry(r) \subseteq Rows
        <4>1. p \in Rows  BY <3>1, <3>3
        <4>2. line[p] \subseteq Rows  BY <4>1 DEF TreeSound
        <4> QED BY <3>3, <4>1, <4>2
      <3> QED BY <3>1, <3>2, <3>3, RequestFacts
    <2>3. n \notin Ancestry(r)  BY <2>2, <2>a DEF Admits
    <2>4. ASSUME NEW a \in Rows
          PROVE  /\ a # n /\ n \notin line[a] /\ a \in Attempts
                 /\ line'[a] = line[a] /\ limits'[a] = limits[a] /\ request'[a] = request[a]
                 /\ Depth(a)' = Depth(a)
      <3>1. a # n /\ a \in Attempts  BY <2>a DEF Admits, Rows
      <3>2. n \notin line[a]  BY <2>a DEF Admits, TreeSound
      <3> QED BY <3>1, <3>2, <2>a DEF Admits, Depth
    <2>5. ParentsInLine'
      <3>1. r.parent \subseteq Ancestry(r)  BY DEF Ancestry
      <3>2. ASSUME NEW a \in Rows' PROVE request'[a].parent \subseteq line'[a]
        <4>1. CASE a = n
          <5>1. request'[n] = r /\ line'[n] = Ancestry(r)  BY <2>a DEF Admits
          <5> QED BY <3>1, <4>1, <5>1
        <4>2. CASE a # n
          <5>1. a \in Rows  BY <2>a, <3>2, <4>2 DEF Admits
          <5>2. request'[a] = request[a] /\ line'[a] = line[a]  BY <2>4, <5>1
          <5>3. request[a].parent \subseteq line[a]  BY <5>1 DEF ParentsInLine
          <5> QED BY <5>2, <5>3
        <4> QED BY <4>1, <4>2
      <3> QED BY <3>2 DEF ParentsInLine
    <2>6. ASSUME NEW a \in Rows PROVE n \notin request[a].parent
      BY <2>4 DEF ParentsInLine
    <2>7. \A a \in Rows : IsFiniteSet(Children(a)) /\ Cardinality(Children(a)) \in Nat
      BY FS_Subset, FS_CardinalityType, BudgetAssumption DEF Rows
    <2>8. ASSUME NEW a \in Rows
          PROVE  Cardinality(Children(a)') <= limits[a].children
      <3>1. CASE r.parent = {a}
        <4>1. Children(a)' = Children(a) \cup {n}  BY <2>4, <3>1, <2>a, SMT DEF Admits
        <4>2. n \notin Children(a)  BY <2>a DEF Admits
        <4>3. Cardinality(Children(a)') = Cardinality(Children(a)) + 1
          BY <2>7, <4>1, <4>2, FS_AddElement
        <4>4. Siblings(r) = Children(a)  BY <3>1 DEF Siblings
        <4>5. Inherited(r) = limits[a]  BY <3>1, RequestFacts
        <4>6. Cardinality(Children(a)) < limits[a].children
          BY <2>1, <3>1, <4>4, <4>5 DEF Admissible
        <4>7. limits[a].children \in Nat  BY <2>4 DEF TypeOK, Limits
        <4>8. Cardinality(Children(a)) \in Nat  BY <2>7
        <4> HIDE DEF Children
        <4> QED BY <4>3, <4>6, <4>7, <4>8, SMT
      <3>2. CASE r.parent # {a}
        <4>1. Children(a)' = Children(a)  BY <2>4, <3>2, <2>a, SMT DEF Admits
        <4> QED BY <4>1 DEF TreeSound
      <3> QED BY <3>1, <3>2
    <2>9. Children(n)' = {}
      <3>1. r.parent # {n}  BY <2>2, <2>a DEF Admits
      <3> QED BY <2>4, <2>6, <3>1, <2>a, SMT DEF Admits
    <2>10. IsWithin(l, Policy) /\ \A b \in Ancestry(r) : IsWithin(l, limits[b])
      <3>1. IsWithin(l, Inherited(r)) /\ l \in Limits /\ Inherited(r) \in Limits /\ Policy \in Limits
        BY <2>1, <2>a, RequestFacts, BudgetAssumption DEF Admits, Admissible
      <3>2. CASE r.parent = {}  BY <3>1, <3>2, RequestFacts
      <3>3. ASSUME NEW p \in Attempts, r.parent = {p}, Inherited(r) = limits[p],
                   Ancestry(r) = {p} \cup line[p]
            PROVE  IsWithin(l, Policy) /\ \A b \in Ancestry(r) : IsWithin(l, limits[b])
        <4>1. p \in Rows  BY <2>2, <3>3
        <4>2. IsWithin(limits[p], Policy) /\ \A b \in line[p] : IsWithin(limits[p], limits[b])
          BY <4>1 DEF TreeSound
        <4>3. IsWithin(l, Policy)  BY <3>1, <3>3, <4>2, WithinTransitive, SMT
        <4>4. ASSUME NEW b \in line[p] PROVE IsWithin(l, limits[b])
          <5>1. limits[b] \in Limits  BY <4>4 DEF TypeOK
          <5> QED BY <3>1, <3>3, <4>2, <4>4, <5>1, WithinTransitive, SMT
        <4> QED BY <3>1, <3>3, <4>3, <4>4
      <3> QED BY <3>2, <3>3, RequestFacts
    <2>11. \A b \in Ancestry(r) : line[b] \subseteq Ancestry(r)
      <3>1. ASSUME NEW p \in Attempts, r.parent = {p}, Ancestry(r) = {p} \cup line[p]
            PROVE  \A b \in Ancestry(r) : line[b] \subseteq Ancestry(r)
        BY <2>2, <3>1 DEF TreeSound
      <3> QED BY <3>1, RequestFacts
    <2>12. Depth(n)' = Cardinality(Ancestry(r))  BY <2>a DEF Admits, Depth
    <2>13. /\ Cardinality(Ancestry(r)) <= Policy.depth
           /\ \A b \in Ancestry(r) : Cardinality(Ancestry(r)) - Depth(b) <= limits[b].depth
      BY <2>1 DEF Admissible
    <2>14. ASSUME NEW a \in Rows
           PROVE  /\ a \notin line'[a]
                  /\ IsWithin(limits'[a], Policy)
                  /\ Depth(a)' <= Policy.depth
                  /\ Cardinality(Children(a)') <= limits'[a].children
                  /\ \A b \in line'[a] :
                      /\ b \in Rows'
                      /\ line'[b] \subseteq line'[a]
                      /\ IsWithin(limits'[a], limits'[b])
                      /\ Depth(a)' - Depth(b)' <= limits'[b].depth
      <3>1. \A b \in line[a] : b \in Rows  BY DEF TreeSound
      <3>2. Rows \subseteq Rows'  BY <2>a DEF Admits
      <3>3. Cardinality(Children(a)') <= limits'[a].children  BY <2>4, <2>8
      <3>4. ASSUME NEW b \in line'[a]
            PROVE  /\ b \in Rows'
                   /\ line'[b] \subseteq line'[a]
                   /\ IsWithin(limits'[a], limits'[b])
                   /\ Depth(a)' - Depth(b)' <= limits'[b].depth
        <4>1. b \in line[a] /\ b \in Rows  BY <2>4, <3>1, <3>4
        <4>2. /\ line[b] \subseteq line[a] /\ IsWithin(limits[a], limits[b])
              /\ Depth(a) - Depth(b) <= limits[b].depth
          BY <4>1 DEF TreeSound
        <4> QED BY <2>4, <3>2, <4>1, <4>2
      <3> QED BY <2>4, <3>3, <3>4 DEF TreeSound
    <2>15. /\ n \notin line'[n]
           /\ IsWithin(limits'[n], Policy)
           /\ Depth(n)' <= Policy.depth
           /\ Cardinality(Children(n)') <= limits'[n].children
           /\ \A b \in line'[n] :
               /\ b \in Rows'
               /\ line'[b] \subseteq line'[n]
               /\ IsWithin(limits'[n], limits'[b])
               /\ Depth(n)' - Depth(b)' <= limits'[b].depth
      <3>1. line'[n] = Ancestry(r) /\ limits'[n] = l /\ Rows \subseteq Rows'  BY <2>a DEF Admits
      <3>2. Cardinality(Children(n)') <= limits'[n].children
        <4>1. Cardinality(Children(n)') = 0  BY <2>9, FS_EmptySet
        <4>2. l.children \in Nat  BY <2>a DEF Admits, Limits
        <4> HIDE DEF Children, n
        <4> QED BY <3>1, <4>1, <4>2, SMT
      <3>3. ASSUME NEW b \in Ancestry(r)
            PROVE  /\ b \in Rows'
                   /\ line'[b] \subseteq Ancestry(r)
                   /\ IsWithin(l, limits'[b])
                   /\ Depth(n)' - Depth(b)' <= limits'[b].depth
        <4>1. b \in Rows  BY <2>2
        <4>2. line'[b] = line[b] /\ limits'[b] = limits[b] /\ Depth(b)' = Depth(b)
          BY <2>4, <4>1
        <4> QED BY <2>10, <2>11, <2>12, <2>13, <3>1, <4>1, <4>2
      <3> QED BY <2>3, <2>10, <2>12, <2>13, <3>1, <3>2, <3>3
    <2>16. TreeSound'
      <3>1. Rows' = Rows \cup {n}  BY <2>a DEF Admits
      <3> HIDE DEF n
      <3> QED BY <2>14, <2>15, <3>1 DEF TreeSound
    <2> QED BY <2>5, <2>16
  <1> QED BY <1>1, <1>2, StepKinds

\* The attempts always form a forest with limits that narrow downwards, and
\* depth and fanout keep within the limits of every ancestor, however the
\* controllers nest their requests.
THEOREM TreeAlwaysSound == Spec => []TreeSound
  <1>1. Init => TreeSound /\ ParentsInLine
    BY SMT DEF Init, Rows, TreeSound, ParentsInLine
  <1> QED BY <1>1, TreeInductive, TypeCorrect, PTL DEF Spec

----------------------------------------------------------------------------
\* Reservations

LEMMA StrandedInductive == TypeOK /\ NothingStranded /\ [Next]_vars => NothingStranded'
  <1> SUFFICES ASSUME TypeOK, NothingStranded, [Next]_vars PROVE NothingStranded'  OBVIOUS
  <1> USE DEF Observed, rowVars, Rows, Active, ActiveStates, NothingStranded
  <1>1. ASSUME NEW now \in Times, Observe(now) PROVE NothingStranded'
    BY <1>1 DEF Observe
  <1>2. ASSUME NEW now \in Times, NEW r \in Requests,
               NEW l \in LimitChoices \cup {Inherited(r)}, Reserve(r, l, now)
        PROVE  NothingStranded'
    <2>a. Admits(r, l)  BY <1>2, Admission
    <2>1. ~cancelled /\ cancelled' = cancelled /\ \A b \in Ancestry(r) : state[b] # "released"
      BY <1>2 DEF Reserve, Admissible
    <2>2. \A b \in Attempts : state'[b] = "released" => state[b] = "released"
      BY <1>2, <2>a DEF Admits
    <2>3. ASSUME NEW a \in Rows', state'[a] = "reserved", NEW b \in line'[a]
          PROVE  state'[b] # "released"
      <3>1. b \in Attempts  BY <2>3, TypeInductive DEF TypeOK
      <3>2. CASE a = r.id
        <4>1. b \in Ancestry(r)  BY <2>a, <2>3, <3>2 DEF Admits
        <4> QED BY <2>1, <2>2, <3>1, <4>1
      <3>3. CASE a # r.id
        <4>1. a \in Attempts \ {r.id}  BY <2>3, <3>3
        <4>2. state[a] = "reserved" /\ b \in line[a]  BY <2>a, <2>3, <4>1 DEF Admits
        <4>3. state[b] # "released"  BY <4>1, <4>2
        <4> QED BY <2>2, <3>1, <4>3
      <3> QED BY <3>2, <3>3
    <2> QED BY <2>1, <2>3
  <1>3. ASSUME NEW now \in Times, NEW a \in Attempts, NEW X \in Optional(Approvals),
               NEW P \in Optional(Prerequisites), MarkDispatched(a, X, P, now)
        PROVE  NothingStranded'
    BY <1>3, SMT DEF MarkDispatched, Dispatchable, TypeOK
  <1>4. ASSUME NEW now \in Times, NEW a \in Attempts, MarkUncertain(a, now)
        PROVE  NothingStranded'
    BY <1>4, SMT DEF MarkUncertain, TypeOK
  <1>5. ASSUME NEW now \in Times, NEW a \in Attempts, ReleaseUndispatched(a, now)
        PROVE  NothingStranded'
    BY <1>5 DEF ReleaseUndispatched, Subtree, TypeOK
  <1>6. ASSUME NEW now \in Times, NEW c \in Receipts, NEW P \in Optional(Prerequisites),
               Reconcile(c, P, now)
        PROVE  NothingStranded'
    <2>1. c.attempt \in Attempts  BY ReceiptFacts
    <2> QED BY <1>6, <2>1 DEF Reconcile, TypeOK
  <1>7. ASSUME NEW now \in Times, Cancel(now) PROVE NothingStranded'
    BY <1>7 DEF Cancel, TypeOK
  <1>8. ASSUME NEW now \in Times, Reopen(now) PROVE NothingStranded'
    BY <1>8 DEF Reopen, TypeOK
  <1>9. CASE UNCHANGED vars  BY <1>9 DEF vars
  <1> QED BY <1>1, <1>2, <1>3, <1>4, <1>5, <1>6, <1>7, <1>8, <1>9 DEF Next

\* No reservation outlives its line or the engagement, in any order of
\* admission, release and cancellation.
THEOREM NothingIsStranded == Spec => []NothingStranded
  <1>1. Init => NothingStranded
    BY DEF Init, NothingStranded, Rows, Active, ActiveStates
  <1> QED BY <1>1, StrandedInductive, TypeCorrect, PTL DEF Spec

----------------------------------------------------------------------------
\* Receipts, evidence and cancellation

Reported == {"usage_unknown", "settled"}

\* A row without a receipt has no usage, so the first receipt revises nothing.
UnreportedIsUnknown == \A a \in Attempts : state[a] \notin Reported => used[a] = NoUsage

\* cancel releases what is reserved, so what it marks is released or under way.
RequestedHasMoved == \A a \in requested : state[a] \notin {"absent", "reserved"}

\* The inductive invariant of the records.  ReceiptsMatchRows says that a
\* dispatched attempt has no outcome yet; without it a receipt could overwrite
\* the completed outcome a prerequisite rests on.
Records ==
    /\ ReceiptsMatchRows
    /\ UnreportedIsUnknown
    /\ RequestedHasMoved
    /\ EvidenceSound

\* Steps that neither report nor spend anything.
RecordsKept ==
    /\ UNCHANGED <<useVars, preVars>>
    /\ \A a \in Attempts :
        /\ Begun(a) => Begun(a)'
        /\ state'[a] \in Reported <=> state[a] \in Reported
        /\ state'[a] = "settled" <=> state[a] = "settled"

LEMMA RecordSteps ==
    ASSUME TypeOK, [Next]_vars
    PROVE  \/ RecordsKept
           \/ \E now \in Times : \E a \in Attempts : \E X \in Optional(Approvals) :
                 \E P \in Optional(Prerequisites) : MarkDispatched(a, X, P, now)
           \/ \E now \in Times : \E c \in Receipts : \E P \in Optional(Prerequisites) :
                 Reconcile(c, P, now)
  <1> USE DEF RecordsKept, Begun, Reported
  <1>1. ASSUME NEW now \in Times, Observe(now) PROVE RecordsKept
    BY <1>1 DEF Observe
  <1>2. ASSUME NEW now \in Times, NEW r \in Requests,
               NEW l \in LimitChoices \cup {Inherited(r)}, Reserve(r, l, now)
        PROVE  RecordsKept
    <2>a. Admits(r, l)  BY <1>2, Admission
    <2>1. UNCHANGED <<useVars, preVars>> /\ state[r.id] = "absent"  BY <1>2 DEF Reserve
    <2> QED BY <1>2, <2>1, <2>a DEF Admits
  <1>3. ASSUME NEW now \in Times, NEW a \in Attempts, MarkUncertain(a, now) PROVE RecordsKept
    BY <1>3 DEF MarkUncertain, TypeOK
  <1>4. ASSUME NEW now \in Times, NEW a \in Attempts, ReleaseUndispatched(a, now)
        PROVE  RecordsKept
    BY <1>4 DEF ReleaseUndispatched, TypeOK
  <1>5. ASSUME NEW now \in Times, Cancel(now) PROVE RecordsKept
    BY <1>5 DEF Cancel, TypeOK
  <1>6. ASSUME NEW now \in Times, Reopen(now) PROVE RecordsKept
    BY <1>6 DEF Reopen, TypeOK
  <1>7. CASE UNCHANGED vars  BY <1>7 DEF vars, useVars, preVars
  <1> QED BY <1>1, <1>2, <1>3, <1>4, <1>5, <1>6, <1>7 DEF Next

LEMMA RequestedInductive == TypeOK /\ RequestedHasMoved /\ [Next]_vars => RequestedHasMoved'
  <1> SUFFICES ASSUME TypeOK, RequestedHasMoved, [Next]_vars PROVE RequestedHasMoved'  OBVIOUS
  <1> USE DEF RequestedHasMoved
  <1>1. ASSUME NEW now \in Times, Cancel(now) PROVE RequestedHasMoved'
    <2>1. \A a \in Attempts : state[a] \in ActiveStates => state[a] # "absent"
      BY DEF ActiveStates
    <2> QED BY <1>1, <2>1 DEF Cancel, TypeOK, Active
  <1>2. CASE ~ \E now \in Times : Cancel(now)
    <2>1. requested' = requested
      BY <1>2, SMT DEF Next, Observe, Reserve, MarkDispatched, MarkUncertain, ReleaseUndispatched,
                  Reconcile, Reopen, vars
    <2>2. CASE RowsKept
      <3>1. ASSUME NEW a \in requested' PROVE state'[a] \notin {"absent", "reserved"}
        <4>1. a \in Attempts /\ state[a] \notin {"absent", "reserved"}
          BY <2>1, <3>1 DEF TypeOK
        <4>2. Forward(state[a], state'[a])  BY <2>2, <4>1 DEF RowsKept
        <4> QED BY <4>1, <4>2 DEF Forward
      <3> QED BY <3>1
    <2>3. ASSUME NEW now \in Times, NEW r \in Requests,
                 NEW l \in LimitChoices \cup {Inherited(r)}, Reserve(r, l, now)
          PROVE  RequestedHasMoved'
      <3>a. Admits(r, l)  BY <2>3, Admission
      <3>1. state[r.id] = "absent"  BY <2>3 DEF Reserve
      <3>2. ASSUME NEW a \in requested' PROVE state'[a] \notin {"absent", "reserved"}
        <4>1. a \in Attempts /\ state[a] \notin {"absent", "reserved"}
          BY <2>1, <3>2 DEF TypeOK
        <4>2. a # r.id  BY <3>1, <4>1
        <4> QED BY <2>3, <4>1, <4>2, <3>a DEF Admits
      <3> QED BY <3>2
    <2> QED BY <2>2, <2>3, StepKinds
  <1> QED BY <1>1, <1>2

\* A receipt is the first for its attempt, or repeats what the row says.
Fits(c) ==
    /\ Begun(c.attempt) /\ state[c.attempt] # "settled"
    /\ outcome[c.attempt] \in {"none", c.outcome}
    /\ used[c.attempt].tokens \in {Unknown, c.usage.tokens}
    /\ used[c.attempt].output \in {Unknown, c.usage.output}

LEMMA ReceiptFits ==
    ASSUME TypeOK, Records, NEW now \in Times, NEW c \in Receipts,
           NEW P \in Optional(Prerequisites), Reconcile(c, P, now)
    PROVE  Fits(c)
  <1> USE DEF Fits
  <1> DEFINE a == c.attempt
  <1>1. a \in Attempts  BY ReceiptFacts
  <1>2. Begun(a) /\ state[a] # "settled"  BY DEF Reconcile, Begun
  <1>3. CASE state[a] = "usage_unknown"
    <2>1. Revises(c)  BY <1>3 DEF Reconcile
    <2> QED BY <1>2, <2>1 DEF Revises
  <1>4. CASE state[a] # "usage_unknown"
    <2>1. state[a] \notin Reported  BY <1>2, <1>4 DEF Reported
    <2>2. used[a] = NoUsage  BY <1>1, <2>1 DEF Records, UnreportedIsUnknown
    <2>3. outcome[a] = "none"  BY <1>1, <2>1 DEF Records, ReceiptsMatchRows, Reported
    <2> QED BY <1>2, <2>2, <2>3, SMT DEF NoUsage
  <1> QED BY <1>3, <1>4

\* A receipt changes the row of its attempt and no other.
Effect(c) ==
    /\ c.attempt \in Attempts /\ c.outcome # "none"
    /\ c \notin receipts /\ receipts' = receipts \cup {c}
    /\ state'[c.attempt] = IF Known(c) THEN "settled" ELSE "usage_unknown"
    /\ used'[c.attempt] = c.usage /\ outcome'[c.attempt] = c.outcome
    /\ \A b \in Attempts : b # c.attempt =>
          state'[b] = state[b] /\ used'[b] = used[b] /\ outcome'[b] = outcome[b]

LEMMA ReceiptEffect ==
    ASSUME TypeOK, NEW now \in Times, NEW c \in Receipts,
           NEW P \in Optional(Prerequisites), Reconcile(c, P, now)
    PROVE  Effect(c)
  <1>1. c.attempt \in Attempts /\ c.outcome # "none"  BY ReceiptFacts DEF Outcomes
  <1>2. c \notin receipts /\ receipts' = receipts \cup {c}  BY DEF Reconcile
  <1>3. /\ state' = [state EXCEPT ![c.attempt] = IF Known(c) THEN "settled" ELSE "usage_unknown"]
        /\ used' = [used EXCEPT ![c.attempt] = c.usage]
        /\ outcome' = [outcome EXCEPT ![c.attempt] = c.outcome]
    BY DEF Reconcile
  <1> QED BY <1>1, <1>2, <1>3 DEF Effect, TypeOK

LEMMA ReceiptsInductive ==
    TypeOK /\ Records /\ [Next]_vars => ReceiptsMatchRows' /\ UnreportedIsUnknown'
  <1> SUFFICES ASSUME TypeOK, Records, [Next]_vars
               PROVE  ReceiptsMatchRows' /\ UnreportedIsUnknown'
    OBVIOUS
  <1>1. ASSUME UNCHANGED useVars,
               \A a \in Attempts : state'[a] \in Reported <=> state[a] \in Reported
        PROVE  ReceiptsMatchRows' /\ UnreportedIsUnknown'
    BY <1>1, SMT DEF Records, ReceiptsMatchRows, UnreportedIsUnknown, useVars, Reported
  <1>2. CASE RecordsKept  BY <1>1, <1>2 DEF RecordsKept
  <1>3. ASSUME NEW now \in Times, NEW a \in Attempts, NEW X \in Optional(Approvals),
               NEW P \in Optional(Prerequisites), MarkDispatched(a, X, P, now)
        PROVE  ReceiptsMatchRows' /\ UnreportedIsUnknown'
    BY <1>1, <1>3 DEF MarkDispatched, Dispatchable, TypeOK, Reported
  <1>4. ASSUME NEW now \in Times, NEW c \in Receipts, NEW P \in Optional(Prerequisites),
               Reconcile(c, P, now)
        PROVE  ReceiptsMatchRows' /\ UnreportedIsUnknown'
    <2> USE <1>4
    <2>a. Effect(c)  BY ReceiptEffect
    <2>b. Fits(c)  BY ReceiptFits
    <2> DEFINE Own(a) == {d \in receipts : d.attempt = a}
    <2>1. \A d, e \in receipts' : d.id = e.id => d = e
      BY SMT DEF Reconcile, Records, ReceiptsMatchRows
    <2>2. ASSUME NEW a \in Attempts, a # c.attempt
          PROVE  /\ Own(a)' = Own(a) /\ state'[a] = state[a]
                 /\ outcome'[a] = outcome[a] /\ used'[a] = used[a]
      <3>1. receipts' = receipts \cup {c}  BY <2>a DEF Effect
      <3>2. Own(a)' = Own(a)  BY <2>2, <3>1
      <3>3. state'[a] = state[a] /\ outcome'[a] = outcome[a] /\ used'[a] = used[a]
        BY <2>2, <2>a DEF Effect
      <3> QED BY <3>2, <3>3
    <2>3. /\ Own(c.attempt)' = Own(c.attempt) \cup {c}
          /\ state'[c.attempt] \in Reported
          /\ outcome'[c.attempt] = c.outcome /\ c.outcome # "none"
          /\ used'[c.attempt] = c.usage
      <3>1. receipts' = receipts \cup {c}  BY <2>a DEF Effect
      <3>2. Own(c.attempt)' = Own(c.attempt) \cup {c}  BY <3>1
      <3>3. /\ state'[c.attempt] \in Reported
            /\ outcome'[c.attempt] = c.outcome /\ c.outcome # "none"
            /\ used'[c.attempt] = c.usage
        BY <2>a DEF Effect, Reported
      <3> QED BY <3>2, <3>3
    <2>4. \A d \in Own(c.attempt) : d.outcome = c.outcome
      <3>1. /\ outcome[c.attempt] # "none" <=> Own(c.attempt) # {}
            /\ \A d \in Own(c.attempt) : d.outcome = outcome[c.attempt]
        BY <2>a DEF Effect, Records, ReceiptsMatchRows
      <3> QED BY <3>1, <2>b DEF Fits
    <2>5. UnreportedIsUnknown'
      BY <2>2, <2>3 DEF Records, UnreportedIsUnknown
    <2>6. ASSUME NEW a \in Attempts
          PROVE  /\ outcome'[a] # "none" <=> Own(a)' # {}
                 /\ state'[a] \in Reported <=> Own(a)' # {}
                 /\ Own(a)' # {} => \E d \in Own(a)' : d.usage = used'[a] /\ d.outcome = outcome'[a]
                 /\ \A d \in Own(a)' : d.outcome = outcome'[a]
      <3>1. CASE a = c.attempt
        <4> HIDE DEF Own
        <4> QED BY <2>3, <2>4, <3>1
      <3>2. CASE a # c.attempt
        <4>1. /\ outcome[a] # "none" <=> Own(a) # {}
              /\ state[a] \in Reported <=> Own(a) # {}
              /\ Own(a) # {} => \E d \in Own(a) : d.usage = used[a] /\ d.outcome = outcome[a]
              /\ \A d \in Own(a) : d.outcome = outcome[a]
          BY DEF Records, ReceiptsMatchRows, Reported
        <4>2. /\ Own(a)' = Own(a) /\ state'[a] = state[a]
              /\ outcome'[a] = outcome[a] /\ used'[a] = used[a]
          BY <2>2, <3>2
        <4> HIDE DEF Own
        <4> QED BY <4>1, <4>2
      <3> QED BY <3>1, <3>2
    <2> QED BY <2>1, <2>5, <2>6 DEF ReceiptsMatchRows, Reported
  <1> QED BY <1>2, <1>3, <1>4, RecordSteps

\* The three parts of EvidenceSound: established prerequisites, the attempts that
\* used them, and the attempts that spent approvals.
Sources ==
    \A q \in prereqs :
        /\ Begun(q.source) /\ outcome[q.source] = "completed"
        /\ \A r \in prereqs :
            (r.prerequisite.id = q.prerequisite.id \/ r.source = q.source) => r = q

Consumers ==
    \A i \in PrerequisiteIds : \A a \in consumer[i] :
        /\ Begun(a)
        /\ consumer[i] = {a}
        /\ \E q \in prereqs : q.prerequisite.id = i /\ q.source # a

Spenders ==
    \A x, y \in Approvals : \A a \in spent[x] :
        /\ Begun(a)
        /\ spent[x] = {a}
        /\ a \in spent[y] => x = y

LEMMA EvidenceInductive == TypeOK /\ Records /\ [Next]_vars => EvidenceSound'
  <1> SUFFICES ASSUME TypeOK, Records, [Next]_vars
               PROVE  Sources' /\ Consumers' /\ Spenders'
    BY DEF EvidenceSound, Sources, Consumers, Spenders
  <1>0. Sources /\ Consumers /\ Spenders
    BY DEF Records, EvidenceSound, Sources, Consumers, Spenders
  <1>a. /\ \A q \in prereqs : q.source \in Attempts
        /\ \A i \in PrerequisiteIds : consumer[i] \subseteq Attempts
        /\ \A x \in Approvals : spent[x] \subseteq Attempts
    BY DEF TypeOK
  <1>1. CASE RecordsKept
    <2>1. UNCHANGED <<outcome, prereqs, consumer, spent>>
      BY <1>1 DEF RecordsKept, useVars, preVars
    <2>2. \A a \in Attempts : Begun(a) => Begun(a)'  BY <1>1 DEF RecordsKept
    <2>3. Sources'  BY <1>0, <1>a, <2>1, <2>2 DEF Sources
    <2>4. Consumers'  BY <1>0, <1>a, <2>1, <2>2, SMT DEF Consumers
    <2>5. Spenders'  BY <1>0, <1>a, <2>1, <2>2 DEF Spenders
    <2> QED BY <2>3, <2>4, <2>5
  <1>2. ASSUME NEW now \in Times, NEW a \in Attempts, NEW X \in Optional(Approvals),
               NEW P \in Optional(Prerequisites), MarkDispatched(a, X, P, now)
        PROVE  Sources' /\ Consumers' /\ Spenders'
    <2> USE <1>2
    <2>1. state[a] = "reserved" /\ ~Begun(a) /\ Begun(a)'
      BY DEF MarkDispatched, Dispatchable, Begun, TypeOK
    <2>2. \A b \in Attempts : Begun(b) => Begun(b)'
      BY DEF MarkDispatched, Begun, TypeOK
    <2>3. UNCHANGED <<prereqs, outcome>>  BY DEF MarkDispatched, useVars
    <2>4. ASSUME NEW q \in prereqs'
          PROVE  /\ Begun(q.source)' /\ outcome'[q.source] = "completed"
                 /\ \A r \in prereqs' :
                      (r.prerequisite.id = q.prerequisite.id \/ r.source = q.source) => r = q
      BY <1>0, <1>a, <2>2, <2>3 DEF Sources
    <2>5. ASSUME NEW i \in PrerequisiteIds, NEW b \in consumer'[i]
          PROVE  /\ Begun(b)' /\ consumer'[i] = {b}
                 /\ \E q \in prereqs' : q.prerequisite.id = i /\ q.source # b
      <3>1. CASE \E p \in P : p.id = i
        <4>1. PICK p \in P : p.id = i  BY <3>1
        <4>2. consumer'[i] = {a} /\ b = a  BY <2>5, <3>1 DEF MarkDispatched
        <4>3. PICK q \in prereqs : q.prerequisite = p  BY DEF MarkDispatched
        <4>4. q.source # a
          <5>1. Begun(q.source)  BY <1>0 DEF Sources
          <5> QED BY <2>1, <5>1
        <4> QED BY <2>1, <2>3, <4>1, <4>2, <4>3, <4>4
      <3>2. CASE ~ \E p \in P : p.id = i
        <4>1. consumer'[i] = consumer[i]  BY <3>2 DEF MarkDispatched
        <4> QED BY <1>0, <1>a, <2>2, <2>3, <2>5, <4>1, SMT DEF Consumers
      <3> QED BY <3>1, <3>2
    <2>6. ASSUME NEW x \in Approvals, NEW y \in Approvals, NEW b \in spent'[x]
          PROVE  Begun(b)' /\ spent'[x] = {b} /\ (b \in spent'[y] => x = y)
      <3>1. \A z \in Approvals : spent'[z] = IF z \in X THEN {a} ELSE spent[z]
        BY DEF MarkDispatched
      <3>2. \A u, v \in X : u = v  BY OptionalFacts
      <3>3. X # {} => \A z \in Approvals : a \notin spent[z]  BY DEF MarkDispatched
      <3>4. CASE x \in X  BY <2>1, <2>6, <3>1, <3>2, <3>3, <3>4
      <3>5. CASE x \notin X
        <4>1. b \in spent[x] /\ spent'[x] = spent[x]  BY <2>6, <3>1, <3>5
        <4>2. Begun(b) /\ spent[x] = {b} /\ (b \in spent[y] => x = y)
          BY <1>0, <4>1 DEF Spenders
        <4>3. b # a  BY <2>1, <4>2
        <4> QED BY <1>a, <2>2, <3>1, <4>1, <4>2, <4>3
      <3> QED BY <3>4, <3>5
    <2>7. Sources'  BY <2>4 DEF Sources
    <2>8. Consumers'  BY <2>5 DEF Consumers
    <2>9. Spenders'  BY <2>6 DEF Spenders
    <2> QED BY <2>7, <2>8, <2>9
  <1>3. ASSUME NEW now \in Times, NEW c \in Receipts, NEW P \in Optional(Prerequisites),
               Reconcile(c, P, now)
        PROVE  Sources' /\ Consumers' /\ Spenders'
    <2> USE <1>3
    <2>a. Effect(c)  BY ReceiptEffect
    <2>b. Fits(c)  BY ReceiptFits
    <2> DEFINE a == c.attempt
               New == {[prerequisite |-> p, source |-> a] : p \in P}
    <2>1. /\ UNCHANGED <<consumer, spent>>
          /\ prereqs' = prereqs \cup New
          /\ \A p \in P : Establishes(c, p)
      BY DEF Reconcile
    <2>2. a \in Attempts /\ Begun(a)' /\ outcome'[a] = c.outcome
      BY <2>a DEF Effect, Begun
    <2>3. \A b \in Attempts : Begun(b) => Begun(b)'  BY <2>2, <2>a DEF Effect, Begun
    <2>4. \A b \in Attempts : outcome[b] = "completed" => outcome'[b] = "completed"
      BY <2>b, <2>a DEF Fits, Effect
    <2>5. ASSUME NEW q \in New
          PROVE  /\ q.source = a /\ outcome'[a] = "completed"
                 /\ q \in prereqs \/ \A r \in prereqs : r.prerequisite.id # q.prerequisite.id
                                                        /\ r.source # a
      <3>1. PICK p \in P : q = [prerequisite |-> p, source |-> a]  OBVIOUS
      <3>2. Establishes(c, p)  BY <2>1
      <3> QED BY <2>2, <3>1, <3>2 DEF Establishes
    <2>6. \A q, r \in New : q = r  BY OptionalFacts, SMT
    <2>7. ASSUME NEW q \in prereqs'
          PROVE  Begun(q.source)' /\ outcome'[q.source] = "completed"
      <3>1. CASE q \in prereqs  BY <1>0, <1>a, <2>3, <2>4, <3>1 DEF Sources
      <3>2. CASE q \in New  BY <2>2, <2>5, <3>2
      <3> QED BY <2>1, <3>1, <3>2
    <2>8. ASSUME NEW q \in prereqs', NEW r \in prereqs',
                 r.prerequisite.id = q.prerequisite.id \/ r.source = q.source
          PROVE  r = q
      <3>1. CASE q \in prereqs /\ r \in prereqs  BY <1>0, <2>8, <3>1 DEF Sources
      <3>2. CASE q \in New /\ r \in New  BY <2>6, <3>2
      <3>3. CASE q \in New /\ r \in prereqs
        <4>1. q.source = a
              /\ (q \in prereqs \/ (r.prerequisite.id # q.prerequisite.id /\ r.source # a))
          BY <2>5, <3>3
        <4> QED BY <1>0, <2>8, <3>3, <4>1 DEF Sources
      <3>4. CASE q \in prereqs /\ r \in New
        <4>1. r.source = a
              /\ (r \in prereqs \/ (q.prerequisite.id # r.prerequisite.id /\ q.source # a))
          BY <2>5, <3>4
        <4> QED BY <1>0, <2>8, <3>4, <4>1 DEF Sources
      <3> QED BY <2>1, <3>1, <3>2, <3>3, <3>4
    <2>9. ASSUME NEW i \in PrerequisiteIds, NEW b \in consumer'[i]
          PROVE  /\ Begun(b)' /\ consumer'[i] = {b}
                 /\ \E q \in prereqs' : q.prerequisite.id = i /\ q.source # b
      BY <1>0, <1>a, <2>1, <2>3, <2>9, SMT DEF Consumers
    <2>10. ASSUME NEW x \in Approvals, NEW y \in Approvals, NEW b \in spent'[x]
           PROVE  Begun(b)' /\ spent'[x] = {b} /\ (b \in spent'[y] => x = y)
      BY <1>0, <1>a, <2>1, <2>3, <2>10 DEF Spenders
    <2>11. Sources'  BY <2>7, <2>8 DEF Sources
    <2>12. Consumers'  BY <2>9 DEF Consumers
    <2>13. Spenders'  BY <2>10 DEF Spenders
    <2> QED BY <2>11, <2>12, <2>13
  <1> QED BY <1>1, <1>2, <1>3, RecordSteps

LEMMA RecordsInvariant == Spec => []Records
  <1>1. Init => Records
    BY DEF Init, Records, ReceiptsMatchRows, UnreportedIsUnknown, RequestedHasMoved,
           EvidenceSound, Reported
  <1>2. TypeOK /\ Records /\ [Next]_vars => Records'
    BY ReceiptsInductive, EvidenceInductive, RequestedInductive DEF Records
  <1> QED BY <1>1, <1>2, TypeCorrect, PTL DEF Spec

\* A prerequisite and an approval are each used by at most one attempt, which
\* was dispatched and never released, whatever the order of dispatches and
\* receipts.
THEOREM EvidenceAlwaysSound == Spec => []EvidenceSound
  <1>1. Records => EvidenceSound  BY DEF Records
  <1> QED BY <1>1, RecordsInvariant, PTL

\* The rows always agree with the receipts table.
THEOREM ReceiptsAlwaysMatch == Spec => []ReceiptsMatchRows
  <1>1. Records => ReceiptsMatchRows  BY DEF Records
  <1> QED BY <1>1, RecordsInvariant, PTL

\* No step takes a charge back.
LEMMA StepsMoveForward == TypeOK /\ Records /\ [Next]_vars => [ForwardStep]_vars
  <1> SUFFICES ASSUME TypeOK, Records, Next PROVE ForwardStep  OBVIOUS
  <1>1. seen' >= seen
    <2>1. seen \in Nat  BY SMT DEF TypeOK, Times
    <2>2. \E now \in Times : Observed(now)
      BY DEF Next, Observe, Reserve, MarkDispatched, MarkUncertain, ReleaseUndispatched,
             Reconcile, Cancel, Reopen
    <2> QED BY <2>1, <2>2 DEF Observed, Times
  <1>4. (cancelled => cancelled') /\ requested \subseteq requested'
    <2>1. CASE \E now \in Times : Cancel(now)  BY <2>1 DEF Cancel
    <2>2. CASE ~ \E now \in Times : Cancel(now)
      <3>1. UNCHANGED <<cancelled, requested>>
        BY <2>2 DEF Next, Observe, Reserve, MarkDispatched, MarkUncertain, ReleaseUndispatched,
                    Reconcile, Reopen
      <3> QED BY <3>1
    <2> QED BY <2>1, <2>2
  <1>5. receipts \subseteq receipts'
    <2>1. CASE RecordsKept  BY <2>1 DEF RecordsKept, useVars
    <2>2. ASSUME NEW now \in Times, NEW b \in Attempts, NEW X \in Optional(Approvals),
                 NEW P \in Optional(Prerequisites), MarkDispatched(b, X, P, now)
          PROVE  receipts' = receipts
      BY <2>2 DEF MarkDispatched, useVars
    <2>3. ASSUME NEW now \in Times, NEW c \in Receipts, NEW P \in Optional(Prerequisites),
                 Reconcile(c, P, now)
          PROVE  receipts \subseteq receipts'
      BY <2>3 DEF Reconcile
    <2> QED BY <2>1, <2>2, <2>3, RecordSteps
  <1>2. ASSUME NEW a \in Attempts
        PROVE  /\ Forward(state[a], state'[a])
               /\ state[a] # "absent" =>
                    request'[a] = request[a] /\ limits'[a] = limits[a] /\ line'[a] = line[a]
    <2>1. CASE RowsKept  BY <2>1 DEF RowsKept, rowVars
    <2>2. ASSUME NEW now \in Times, NEW r \in Requests,
                 NEW l \in LimitChoices \cup {Inherited(r)}, Reserve(r, l, now)
          PROVE  /\ Forward(state[a], state'[a])
                 /\ state[a] # "absent" =>
                      request'[a] = request[a] /\ limits'[a] = limits[a] /\ line'[a] = line[a]
      <3>a. Admits(r, l)  BY <2>2, Admission
      <3>1. state[r.id] = "absent"  BY <2>2 DEF Reserve
      <3> QED BY <2>2, <3>1, <3>a DEF Admits, Forward
    <2> QED BY <2>1, <2>2, StepKinds
  <1>3. ASSUME NEW a \in Attempts
        PROVE  /\ outcome[a] # "none" => outcome'[a] = outcome[a]
               /\ used[a].tokens # Unknown => used'[a].tokens = used[a].tokens
               /\ used[a].output # Unknown => used'[a].output = used[a].output
    <2>1. CASE RecordsKept  BY <2>1 DEF RecordsKept, useVars
    <2>2. ASSUME NEW now \in Times, NEW b \in Attempts, NEW X \in Optional(Approvals),
                 NEW P \in Optional(Prerequisites), MarkDispatched(b, X, P, now)
          PROVE  UNCHANGED <<outcome, used>>
      BY <2>2 DEF MarkDispatched, useVars
    <2>3. ASSUME NEW now \in Times, NEW c \in Receipts, NEW P \in Optional(Prerequisites),
                 Reconcile(c, P, now)
          PROVE  /\ outcome[a] # "none" => outcome'[a] = outcome[a]
                 /\ used[a].tokens # Unknown => used'[a].tokens = used[a].tokens
                 /\ used[a].output # Unknown => used'[a].output = used[a].output
      <3>1. Effect(c)  BY <2>3, ReceiptEffect
      <3>2. Fits(c)  BY <2>3, ReceiptFits
      <3> QED BY <3>1, <3>2 DEF Fits, Effect
    <2> QED BY <2>1, <2>2, <2>3, RecordSteps
  <1> QED BY <1>1, <1>2, <1>3, <1>4, <1>5 DEF ForwardStep

\* No restart, cancellation, late or repeated call ever gives a charge back or
\* revises a reported value.
THEOREM ChargesAlwaysMoveForward == Spec => ChargesMoveForward
  BY StepsMoveForward, RecordsInvariant, TypeCorrect, PTL DEF Spec, ChargesMoveForward

\* A cancellation report, once confirmed or final, stays so, and a pending
\* attempt is resolved only by a complete receipt of its own.
THEOREM ReportsAlwaysStable == Spec => ReportsStable
  <1>1. TypeOK /\ Records /\ [Next]_vars => [ReportStep]_vars
    <2> SUFFICES ASSUME TypeOK, Records, Next, NEW a \in Attempts
                 PROVE  /\ CancellationReport(a).confirmed => CancellationReport(a)'.confirmed
                        /\ CancellationReport(a).final => CancellationReport(a)'.final
                        /\ CancellationReport(a).pending /\ ~CancellationReport(a)'.pending =>
                             \E c \in receipts' \ receipts : c.attempt = a /\ Known(c)
      BY DEF ReportStep
    <2>1. ForwardStep \/ UNCHANGED vars  BY StepsMoveForward
    <2>2. /\ Forward(state[a], state'[a])
          /\ outcome[a] # "none" => outcome'[a] = outcome[a]
          /\ requested \subseteq requested'
      BY <2>1 DEF ForwardStep, vars, Forward
    <2>3. CancellationReport(a).confirmed => CancellationReport(a)'.confirmed
      BY <2>2 DEF CancellationReport, Forward
    <2>4. CancellationReport(a).final => CancellationReport(a)'.final
      BY <2>2 DEF CancellationReport, Forward
    <2>5. ASSUME CancellationReport(a).pending, ~CancellationReport(a)'.pending
          PROVE  \E c \in receipts' \ receipts : c.attempt = a /\ Known(c)
      <3>1. a \in requested /\ state[a] \notin {"released", "settled"}
            /\ state'[a] \in {"released", "settled"}
        BY <2>2, <2>5 DEF CancellationReport
      <3>2. state[a] \notin {"absent", "reserved"}  BY <3>1 DEF Records, RequestedHasMoved
      <3>3. state'[a] = "settled"  BY <2>2, <3>1, <3>2 DEF Forward
      <3>4. PICK now \in Times, c \in Receipts, P \in Optional(Prerequisites) :
                Reconcile(c, P, now)
        <4>1. CASE \E now \in Times : \E b \in Attempts :
                    MarkUncertain(b, now) \/ ReleaseUndispatched(b, now)
          BY <3>1, <3>3, <4>1 DEF MarkUncertain, ReleaseUndispatched, TypeOK
        <4>2. CASE \E now \in Times : Observe(now) \/ Cancel(now) \/ Reopen(now)
          BY <3>1, <3>3, <4>2 DEF Observe, Cancel, Reopen, TypeOK
        <4>3. ASSUME NEW now \in Times, NEW r \in Requests,
                     NEW l \in LimitChoices \cup {Inherited(r)}, Reserve(r, l, now)
              PROVE  FALSE
          <5>1. Admits(r, l)  BY <4>3, Admission
          <5> QED BY <3>1, <3>3, <5>1 DEF Admits
        <4>4. ASSUME NEW now \in Times, NEW b \in Attempts, NEW X \in Optional(Approvals),
                     NEW P \in Optional(Prerequisites), MarkDispatched(b, X, P, now)
              PROVE  FALSE
          BY <3>1, <3>3, <4>4 DEF MarkDispatched, TypeOK
        <4> QED BY <4>1, <4>2, <4>3, <4>4 DEF Next
      <3>5. c.attempt = a /\ Known(c) /\ c \in receipts' \ receipts
        <4>1. Effect(c)  BY <3>4, ReceiptEffect
        <4> QED BY <3>1, <3>3, <4>1 DEF Effect
      <3> QED BY <3>5
    <2> QED BY <2>3, <2>4, <2>5
  <1> QED BY <1>1, RecordsInvariant, TypeCorrect, PTL DEF Spec, ReportsStable

----------------------------------------------------------------------------
\* Retained output and the overage of tokens

\* A settled row has its usage, and no row reports more output than it reserved
\* ("retained output exceeds reservation").
Capped ==
    \A a \in Attempts :
        /\ state[a] = "settled" => used[a].tokens # Unknown /\ used[a].output # Unknown
        /\ used[a].output # Unknown => used[a].output <= request[a].output

ChargesTyped == \A a \in Attempts : TokenCharge[a] \in Nat /\ OutputCharge[a] \in Nat

LEMMA ChargesAreNumbers == TypeOK /\ Capped => ChargesTyped
  <1> SUFFICES ASSUME TypeOK, Capped, NEW a \in Attempts
               PROVE  TokenCharge[a] \in Nat /\ OutputCharge[a] \in Nat
    BY DEF ChargesTyped
  <1>1. used[a] \in Usage /\ request[a] \in AttemptRequest  BY DEF TypeOK
  <1>2. /\ used[a].tokens \in Nat \cup {Unknown} /\ used[a].output \in Nat \cup {Unknown}
        /\ request[a].tokens \in Nat /\ request[a].output \in Nat
    BY <1>1 DEF Usage, AttemptRequest
  <1> QED BY <1>2 DEF Capped, TokenCharge, OutputCharge, Charge

\* What a step does to the charge of a row that exists: a receipt may raise the
\* tokens but never the output, nothing else changes either, and tokens change
\* only while the row is charged its reservation or more.
ChargeStep(a) ==
    /\ OutputCharge'[a] <= OutputCharge[a]
    /\ TokenCharge'[a] = TokenCharge[a] \/ request[a].tokens <= TokenCharge[a]
    /\ receipts' = receipts => TokenCharge'[a] = TokenCharge[a] /\ OutputCharge'[a] = OutputCharge[a]

LEMMA RowsKeepRequests ==
    ASSUME TypeOK, [Next]_vars, NEW a \in Rows
    PROVE  a \in Attempts /\ request'[a] = request[a]
  <1>1. a \in Attempts  BY DEF Rows
  <1>2. CASE RowsKept  BY <1>1, <1>2 DEF RowsKept, rowVars
  <1>3. ASSUME NEW now \in Times, NEW r \in Requests,
               NEW l \in LimitChoices \cup {Inherited(r)}, Reserve(r, l, now)
        PROVE  request'[a] = request[a]
    <2>1. Admits(r, l)  BY <1>3, Admission
    <2> QED BY <1>1, <2>1 DEF Admits
  <1> QED BY <1>1, <1>2, <1>3, StepKinds

LEMMA ChargeSteps ==
    ASSUME TypeOK, Records, Capped, [Next]_vars, NEW a \in Rows
    PROVE  ChargeStep(a)
  <1>1. a \in Attempts /\ request'[a] = request[a]  BY RowsKeepRequests
  <1>2. TokenCharge[a] \in Nat /\ OutputCharge[a] \in Nat
    BY <1>1, ChargesAreNumbers DEF ChargesTyped
  <1>3. ASSUME used'[a] = used[a], state'[a] = "settled" <=> state[a] = "settled"
        PROVE  ChargeStep(a)
    <2>1. TokenCharge'[a] = TokenCharge[a] /\ OutputCharge'[a] = OutputCharge[a]
      BY <1>1, <1>3 DEF TokenCharge, OutputCharge, Charge
    <2> QED BY <1>2, <2>1, SMT DEF ChargeStep
  <1>4. CASE RecordsKept  BY <1>1, <1>3, <1>4 DEF RecordsKept, useVars
  <1>5. ASSUME NEW now \in Times, NEW b \in Attempts, NEW X \in Optional(Approvals),
               NEW P \in Optional(Prerequisites), MarkDispatched(b, X, P, now)
        PROVE  ChargeStep(a)
    <2>1. used' = used  BY <1>5 DEF MarkDispatched, useVars
    <2>2. state'[a] = "settled" <=> state[a] = "settled"
      BY <1>1, <1>5 DEF MarkDispatched, Dispatchable, TypeOK
    <2> QED BY <1>3, <2>1, <2>2
  <1>6. ASSUME NEW now \in Times, NEW c \in Receipts, NEW P \in Optional(Prerequisites),
               Reconcile(c, P, now)
        PROVE  ChargeStep(a)
    <2>1. Effect(c)  BY <1>6, ReceiptEffect
    <2>2. CASE a # c.attempt  BY <1>1, <1>3, <2>1, <2>2 DEF Effect
    <2>3. CASE a = c.attempt
      <3>1. receipts' # receipts  BY <2>1 DEF Effect
      <3>2. state[a] # "settled" /\ used'[a] = c.usage  BY <1>6, <2>1, <2>3 DEF Effect, Reconcile
      <3>3. request[a].output \in Nat /\ used[a].output \in Nat \cup {Unknown}
        BY <1>1 DEF TypeOK, AttemptRequest, Usage
      <3>4. request[a].output <= OutputCharge[a]
        BY <1>1, <3>2, <3>3, SMT DEF OutputCharge, Charge
      <3>a. request[a].tokens \in Nat /\ used[a].tokens \in Nat \cup {Unknown}
        BY <1>1 DEF TypeOK, AttemptRequest, Usage
      <3>b. request[a].tokens <= TokenCharge[a]
        BY <1>1, <3>2, <3>a, SMT DEF TokenCharge, Charge
      <3>5. c.usage.output \in Nat \cup {Unknown}  BY ReceiptFacts DEF Usage
      <3>6. c.usage.output # Unknown => c.usage.output <= request[a].output
        BY <1>6, <2>3 DEF Reconcile
      <3>7. state'[a] = "settled" => c.usage.output # Unknown
        BY <2>1, <2>3 DEF Effect, Known
      <3>8. /\ OutputCharge'[a] = IF state'[a] = "settled" THEN c.usage.output
                                  ELSE IF c.usage.output # Unknown
                                            /\ c.usage.output > request[a].output
                                         THEN c.usage.output ELSE request[a].output
        BY <1>1, <3>2 DEF OutputCharge, Charge
      <3>9. OutputCharge'[a] \in Nat /\ OutputCharge'[a] <= request[a].output
        BY <3>3, <3>5, <3>6, <3>7, <3>8, SMT
      <3>10. OutputCharge'[a] <= OutputCharge[a]  BY <1>2, <3>3, <3>4, <3>9, SMT
      <3> QED BY <3>1, <3>b, <3>10 DEF ChargeStep
    <2> QED BY <2>2, <2>3
  <1> QED BY <1>4, <1>5, <1>6, RecordSteps

LEMMA CappedInductive == TypeOK /\ Records /\ Capped /\ [Next]_vars => Capped'
  <1> SUFFICES ASSUME TypeOK, Records, Capped, [Next]_vars, NEW a \in Attempts
               PROVE  /\ state'[a] = "settled" => used'[a].tokens # Unknown /\ used'[a].output # Unknown
                      /\ used'[a].output # Unknown => used'[a].output <= request'[a].output
    BY DEF Capped
  <1>1. used[a].output # Unknown => request'[a] = request[a]
    <2>1. CASE a \in Rows  BY <2>1, RowsKeepRequests
    <2>2. CASE a \notin Rows
      <3>1. used[a] = NoUsage  BY <2>2 DEF Records, UnreportedIsUnknown, Reported, Rows
      <3> QED BY <3>1, SMT DEF NoUsage
    <2> QED BY <2>1, <2>2
  <1>2. ASSUME used'[a] = used[a], state'[a] = "settled" <=> state[a] = "settled"
        PROVE  /\ state'[a] = "settled" => used'[a].tokens # Unknown /\ used'[a].output # Unknown
               /\ used'[a].output # Unknown => used'[a].output <= request'[a].output
    BY <1>1, <1>2 DEF Capped
  <1>3. CASE RecordsKept  BY <1>2, <1>3 DEF RecordsKept, useVars
  <1>4. ASSUME NEW now \in Times, NEW b \in Attempts, NEW X \in Optional(Approvals),
               NEW P \in Optional(Prerequisites), MarkDispatched(b, X, P, now)
        PROVE  used'[a] = used[a] /\ (state'[a] = "settled" <=> state[a] = "settled")
    BY <1>4 DEF MarkDispatched, useVars, Dispatchable, TypeOK
  <1>5. ASSUME NEW now \in Times, NEW c \in Receipts, NEW P \in Optional(Prerequisites),
               Reconcile(c, P, now)
        PROVE  /\ state'[a] = "settled" => used'[a].tokens # Unknown /\ used'[a].output # Unknown
               /\ used'[a].output # Unknown => used'[a].output <= request'[a].output
    <2>1. Effect(c)  BY <1>5, ReceiptEffect
    <2>2. CASE a # c.attempt  BY <1>2, <2>1, <2>2 DEF Effect
    <2>3. CASE a = c.attempt
      <3>1. request' = request  BY <1>5 DEF Reconcile, rowVars
      <3>2. c.usage.output # Unknown => c.usage.output <= request[a].output
        BY <1>5, <2>3 DEF Reconcile
      <3> QED BY <2>1, <2>3, <3>1, <3>2 DEF Effect, Known
    <2> QED BY <2>2, <2>3
  <1> QED BY <1>2, <1>3, <1>4, <1>5, RecordSteps

\* Smaller charges of fewer rows keep under what the larger ones keep under.
LEMMA SumBelow ==
    ASSUME NEW C \in SUBSET Attempts, NEW D \in SUBSET C, NEW f, NEW g, NEW n \in Nat,
           \A x \in C : f[x] \in Nat,
           \A x \in D : g[x] \in Nat /\ g[x] <= f[x],
           SumFunctionOnSet(f, C) <= n
    PROVE  SumFunctionOnSet(g, D) <= n
  <1>1. IsFiniteSet(C) /\ IsFiniteSet(D)  BY FS_Subset, BudgetAssumption
  <1>2. SumFunctionOnSet(g, D) <= SumFunctionOnSet(f, C)  BY <1>1, SumMonotonic
  <1>3. SumFunctionOnSet(g, D) \in Nat /\ SumFunctionOnSet(f, C) \in Nat  BY <1>1, SumType
  <1> QED BY <1>2, <1>3, SMT

\* The tokens of a row without its overage: no more than the row reserved.
Expected ==
    [a \in Attempts |-> IF TokenCharge[a] <= request[a].tokens THEN TokenCharge[a] ELSE request[a].tokens]

ExpectedTokens(S) == SumFunctionOnSet(Expected, S \cap Charged)

\* The tokens of the policy and of every subtree keep within the limits but for
\* overage: what a receipt reports above the reservation of its row.
TokensHold ==
    /\ ExpectedTokens(Attempts) <= Policy.tokens
    /\ \A a \in Rows : ExpectedTokens(Subtree(a)) <= limits[a].tokens

ExpectedTyped == \A a \in Attempts : Expected[a] \in Nat /\ Expected[a] <= TokenCharge[a]

LEMMA ExpectedAreNumbers == TypeOK /\ ChargesTyped => ExpectedTyped
  <1> SUFFICES ASSUME TypeOK, ChargesTyped, NEW a \in Attempts
               PROVE  Expected[a] \in Nat /\ Expected[a] <= TokenCharge[a]
    BY DEF ExpectedTyped
  <1>1. request[a].tokens \in Nat  BY DEF TypeOK, AttemptRequest
  <1>2. TokenCharge[a] \in Nat  BY DEF ChargesTyped
  <1> QED BY <1>1, <1>2, SMT DEF Expected

LEMMA ExpectedSteps ==
    ASSUME TypeOK, ChargesTyped, ChargesTyped', [Next]_vars, NEW a \in Rows, ChargeStep(a)
    PROVE  Expected'[a] <= Expected[a]
  <1>1. a \in Attempts /\ request'[a] = request[a]  BY RowsKeepRequests
  <1>2. request[a].tokens \in Nat  BY <1>1 DEF TypeOK, AttemptRequest
  <1>3. TokenCharge[a] \in Nat /\ TokenCharge'[a] \in Nat  BY <1>1 DEF ChargesTyped
  <1>4. TokenCharge'[a] = TokenCharge[a] \/ request[a].tokens <= TokenCharge[a]  BY DEF ChargeStep
  <1> QED BY <1>1, <1>2, <1>3, <1>4, SMT DEF Expected

LEMMA TotalsInductive ==
    TypeOK /\ Records /\ Capped /\ OutputHolds /\ TokensHold /\ [Next]_vars
        => OutputHolds' /\ TokensHold'
  <1> SUFFICES ASSUME TypeOK, Records, Capped, OutputHolds, TokensHold, [Next]_vars
               PROVE  OutputHolds' /\ TokensHold'
    OBVIOUS
  <1>0. TypeOK' /\ Capped' /\ \A a \in Rows : ChargeStep(a)
    BY TypeInductive, CappedInductive, ChargeSteps
  <1>1. ChargesTyped /\ ChargesTyped' /\ ExpectedTyped /\ ExpectedTyped'
    BY <1>0, ChargesAreNumbers, ExpectedAreNumbers, PTL
  <1>2. /\ Policy.output \in Nat /\ Policy.tokens \in Nat
        /\ \A a \in Attempts : limits[a].output \in Nat /\ limits[a].tokens \in Nat
    BY BudgetAssumption DEF TypeOK, Limits
  <1>3. ASSUME NEW S \in SUBSET Attempts, S \cap Charged' \subseteq S \cap Charged,
               NEW n \in Nat, NEW m \in Nat, ChargedOutput(S) <= n, ExpectedTokens(S) <= m
        PROVE  /\ SumFunctionOnSet(OutputCharge', S \cap Charged') <= n
               /\ SumFunctionOnSet(Expected', S \cap Charged') <= m
    <2>1. \A a \in S \cap Charged : a \in Rows /\ a \in Attempts
      BY DEF Charged, Rows, ChargedStates, ActiveStates
    <2>2. \A a \in S \cap Charged : OutputCharge[a] \in Nat /\ Expected[a] \in Nat
      BY <1>1, <2>1 DEF ChargesTyped, ExpectedTyped
    <2>3. \A a \in S \cap Charged' : OutputCharge'[a] \in Nat /\ OutputCharge'[a] <= OutputCharge[a]
      BY <1>0, <1>1, <1>3, <2>1 DEF ChargesTyped, ChargeStep
    <2>4. \A a \in S \cap Charged' : Expected'[a] \in Nat /\ Expected'[a] <= Expected[a]
      BY <1>0, <1>1, <1>3, <2>1, ExpectedSteps DEF ExpectedTyped
    <2>5. S \cap Charged \in SUBSET Attempts /\ S \cap Charged' \in SUBSET (S \cap Charged)
      BY <1>3
    <2>6. SumFunctionOnSet(OutputCharge', S \cap Charged') <= n
      BY <1>3, <2>2, <2>3, <2>5, SumBelow DEF ChargedOutput
    <2>7. SumFunctionOnSet(Expected', S \cap Charged') <= m
      BY <1>3, <2>2, <2>4, <2>5, SumBelow DEF ExpectedTokens
    <2> QED BY <2>6, <2>7
  <1>4. ASSUME NEW a \in Rows', Untouched(a)
        PROVE  /\ ChargedOutput(Subtree(a))' <= limits'[a].output
               /\ ExpectedTokens(Subtree(a))' <= limits'[a].tokens
    <2>1. /\ ChargedOutput(Subtree(a)) <= limits[a].output
          /\ ExpectedTokens(Subtree(a)) <= limits[a].tokens
      BY <1>4 DEF OutputHolds, TokensHold, Untouched
    <2>2. /\ SumFunctionOnSet(OutputCharge', Subtree(a) \cap Charged') <= limits[a].output
          /\ SumFunctionOnSet(Expected', Subtree(a) \cap Charged') <= limits[a].tokens
      BY <1>2, <1>3, <1>4, <2>1 DEF Untouched
    <2> QED BY <1>4, <2>2 DEF Untouched, ChargedOutput, ExpectedTokens
  <1>5. CASE RowsKept
    <2>1. /\ Charged' \subseteq Charged /\ Active' \subseteq Active
          /\ \A a \in Attempts : Subtree(a)' = Subtree(a)
      BY <1>5, RowsKeptShrink
    <2>2. ChargedOutput(Attempts)' <= Policy.output /\ ExpectedTokens(Attempts)' <= Policy.tokens
      <3>1. Attempts \cap Charged' \subseteq Attempts \cap Charged  BY <2>1
      <3>2. ChargedOutput(Attempts) <= Policy.output /\ ExpectedTokens(Attempts) <= Policy.tokens
        BY DEF OutputHolds, TokensHold
      <3>3. /\ SumFunctionOnSet(OutputCharge', Attempts \cap Charged') <= Policy.output
            /\ SumFunctionOnSet(Expected', Attempts \cap Charged') <= Policy.tokens
        BY <1>2, <1>3, <3>1, <3>2
      <3> QED BY <3>3 DEF ChargedOutput, ExpectedTokens
    <2>3. \A a \in Rows' : Untouched(a)
      BY <1>5, <2>1 DEF Untouched, RowsKept, rowVars, Rows, Subtree
    <2> QED BY <1>4, <2>2, <2>3 DEF OutputHolds, TokensHold
  <1>6. ASSUME NEW now \in Times, NEW r \in Requests,
               NEW l \in LimitChoices \cup {Inherited(r)}, Reserve(r, l, now)
        PROVE  OutputHolds' /\ TokensHold'
    <2>a. Admits(r, l)  BY <1>6, Admission
    <2>b. ASSUME NEW S \in SUBSET Attempts, NEW m \in Nat,
                 SumFunctionOnSet(TokenCharge', S \cap Charged') <= m
          PROVE  SumFunctionOnSet(Expected', S \cap Charged') <= m
      <3>1. \A a \in S \cap Charged' : /\ TokenCharge'[a] \in Nat /\ Expected'[a] \in Nat
                                       /\ Expected'[a] <= TokenCharge'[a]
        BY <1>1 DEF ChargesTyped, ExpectedTyped
      <3>2. S \cap Charged' \in SUBSET Attempts  OBVIOUS
      <3> QED BY <2>b, <3>1, <3>2, SumBelow
    <2>1. ChargedOutput(Attempts)' <= Policy.output /\ ChargedTokens(Attempts)' <= Policy.tokens
      BY <1>6 DEF Reserve, Within
    <2>2. ExpectedTokens(Attempts)' <= Policy.tokens
      BY <1>2, <2>b, <2>1 DEF ExpectedTokens, ChargedTokens
    <2>3. ASSUME NEW a \in Rows', a \in Ancestry(r) \cup {r.id}
          PROVE  /\ ChargedOutput(Subtree(a))' <= limits'[a].output
                 /\ ExpectedTokens(Subtree(a))' <= limits'[a].tokens
      <3>1. /\ ChargedOutput(Subtree(a))' <= limits'[a].output
            /\ ChargedTokens(Subtree(a))' <= limits'[a].tokens
        BY <1>6, <2>3 DEF Reserve, Within
      <3>2. Subtree(a)' \subseteq Attempts /\ a \in Attempts  BY DEF Subtree, Rows
      <3>3. limits'[a].tokens \in Nat  BY <1>0, <3>2 DEF TypeOK, Limits
      <3>4. ExpectedTokens(Subtree(a))' <= limits'[a].tokens
        BY <2>b, <3>1, <3>2, <3>3 DEF ExpectedTokens, ChargedTokens
      <3> QED BY <3>1, <3>4
    <2>4. \A a \in Rows' : a \notin Ancestry(r) \cup {r.id} => Untouched(a)
      BY <2>a, OutsideAdmission
    <2> QED BY <1>4, <2>1, <2>2, <2>3, <2>4 DEF OutputHolds, TokensHold
  <1> QED BY <1>5, <1>6, StepKinds

LEMMA CappedInvariant == Spec => []Capped
  <1>1. Init => Capped  BY SMT DEF Init, Capped, NoUsage
  <1> QED BY <1>1, CappedInductive, RecordsInvariant, TypeCorrect, PTL DEF Spec

LEMMA TotalsInvariant == Spec => [](OutputHolds /\ TokensHold)
  <1>1. Init => OutputHolds /\ TokensHold
    <2> SUFFICES ASSUME Init PROVE OutputHolds /\ TokensHold  OBVIOUS
    <2>1. Rows = {} /\ Charged = {}
      BY DEF Init, Rows, Charged, ChargedStates, ActiveStates
    <2>2. Attempts \cap Charged = {}  BY <2>1
    <2>3. ChargedOutput(Attempts) = 0 /\ ExpectedTokens(Attempts) = 0
      BY <2>2, SumEmpty DEF ChargedOutput, ExpectedTokens
    <2>4. Policy.output \in Nat /\ Policy.tokens \in Nat  BY BudgetAssumption DEF Limits
    <2> QED BY <2>1, <2>3, <2>4, SMT DEF OutputHolds, TokensHold
  <1> QED BY <1>1, TotalsInductive, CappedInvariant, RecordsInvariant, TypeCorrect, PTL DEF Spec

\* Retained output keeps within the policy and within the limits of every
\* subtree, although receipts replace reservations: for every tree, every
\* policy and every order of receipts, releases and restarts.
THEOREM OutputAlwaysHolds == Spec => []OutputHolds
  BY TotalsInvariant, PTL

\* Only overage takes tokens over a limit: without what receipts report above
\* the reservations, the tokens of the policy and of every subtree are within
\* their limits, whatever was admitted meanwhile.
THEOREM OnlyOverageExceeds == Spec => []TokensHold
  BY TotalsInvariant, PTL

\* The totals of charged rows C and active rows A at the charges f and g, and
\* what follows for fewer rows at the same charges.
Totals(C, A, f, g, l) ==
    /\ Cardinality(C) <= l.attempts /\ Cardinality(A) <= l.concurrency
    /\ SumFunctionOnSet(f, C) <= l.tokens /\ SumFunctionOnSet(g, C) <= l.output

Fewer(D, B, d, e, C, A, f, g) ==
    /\ D \subseteq C /\ C \subseteq Attempts /\ B \subseteq A /\ A \subseteq Attempts
    /\ \A x \in C : f[x] \in Nat /\ g[x] \in Nat
    /\ \A x \in D : d[x] = f[x] /\ e[x] = g[x]

LEMMA TotalsShrink ==
    ASSUME NEW D, NEW B, NEW d, NEW e, NEW C, NEW A, NEW f, NEW g, NEW l \in Limits,
           Fewer(D, B, d, e, C, A, f, g), Totals(C, A, f, g, l)
    PROVE  Totals(D, B, d, e, l)
  <1>0. /\ D \subseteq C /\ C \subseteq Attempts /\ B \subseteq A /\ A \subseteq Attempts
        /\ \A x \in C : f[x] \in Nat /\ g[x] \in Nat
        /\ \A x \in D : d[x] = f[x] /\ e[x] = g[x]
    BY DEF Fewer
  <1>1. l.attempts \in Nat /\ l.concurrency \in Nat /\ l.tokens \in Nat /\ l.output \in Nat
    BY DEF Limits
  <1>2. IsFiniteSet(C) /\ IsFiniteSet(D) /\ IsFiniteSet(A) /\ IsFiniteSet(B)
    <2>1. IsFiniteSet(C) /\ IsFiniteSet(A)  BY <1>0, FS_Subset, BudgetAssumption
    <2> QED BY <1>0, <2>1, FS_Subset
  <1>3. /\ Cardinality(D) <= Cardinality(C) /\ Cardinality(B) <= Cardinality(A)
        /\ Cardinality(C) \in Nat /\ Cardinality(D) \in Nat
        /\ Cardinality(A) \in Nat /\ Cardinality(B) \in Nat
    BY <1>0, <1>2, FS_Subset, FS_CardinalityType
  <1>4. Cardinality(D) <= l.attempts /\ Cardinality(B) <= l.concurrency
    BY <1>1, <1>3, SMT DEF Totals
  <1>5. \A x \in D : /\ d[x] \in Nat /\ d[x] <= f[x]
                     /\ e[x] \in Nat /\ e[x] <= g[x]
    BY <1>0, SMT
  <1>6. SumFunctionOnSet(d, D) <= l.tokens  BY <1>0, <1>1, <1>5, SumBelow, SMT DEF Totals
  <1>7. SumFunctionOnSet(e, D) <= l.output  BY <1>0, <1>1, <1>5, SumBelow, SMT DEF Totals
  <1> QED BY <1>4, <1>6, <1>7 DEF Totals

LEMMA OverageSteps == TypeOK /\ Records /\ Capped /\ [Next]_vars => [OverageStep]_vars
  <1> SUFFICES ASSUME TypeOK, Records, Capped, Next PROVE OverageStep  OBVIOUS
  <1>0. TypeOK' /\ Capped' /\ \A a \in Rows : ChargeStep(a)
    BY TypeInductive, CappedInductive, ChargeSteps
  <1>1. ChargesTyped /\ ChargesTyped'  BY <1>0, ChargesAreNumbers, PTL
  <1>2. /\ OverBudget <=> ~Totals(Charged, Active, TokenCharge, OutputCharge, Policy)
        /\ OverBudget' <=> ~Totals(Charged', Active', TokenCharge', OutputCharge', Policy)
    <2>1. /\ Attempts \cap Charged = Charged /\ Attempts \cap Active = Active
          /\ Attempts \cap Charged' = Charged' /\ Attempts \cap Active' = Active'
      BY DEF Charged, Active
    <2> QED BY <2>1 DEF OverBudget, Within, CountsWithin, ChargedTokens, ChargedOutput, Totals
  <1>3. /\ Charged \in SUBSET Attempts /\ Active \in SUBSET Attempts
        /\ Charged' \in SUBSET Attempts /\ Active' \in SUBSET Attempts
        /\ Charged \subseteq Rows
    BY DEF Charged, Active, Rows, ChargedStates, ActiveStates
  <1>4. Policy \in Limits  BY BudgetAssumption
  <1>5. CASE RowsKept
    <2>1. Rows' = Rows /\ Charged' \subseteq Charged /\ Active' \subseteq Active
      BY <1>5, RowsKeptShrink DEF RowsKept
    <2>2. ASSUME ~OverBudget, receipts' = receipts PROVE ~OverBudget'
      <3>1. \A a \in Charged' : TokenCharge'[a] = TokenCharge[a] /\ OutputCharge'[a] = OutputCharge[a]
        BY <1>0, <1>3, <2>1, <2>2 DEF ChargeStep
      <3>2. \A a \in Charged : TokenCharge[a] \in Nat /\ OutputCharge[a] \in Nat
        BY <1>1, <1>3 DEF ChargesTyped
      <3>3. Totals(Charged, Active, TokenCharge, OutputCharge, Policy)  BY <1>2, <2>2
      <3>4. Fewer(Charged', Active', TokenCharge', OutputCharge',
                  Charged, Active, TokenCharge, OutputCharge)
        BY <1>3, <2>1, <3>1, <3>2 DEF Fewer
      <3>5. Totals(Charged', Active', TokenCharge', OutputCharge', Policy)
        BY <1>4, <3>3, <3>4, TotalsShrink
      <3> QED BY <1>2, <3>5
    <2> QED BY <2>1, <2>2 DEF OverageStep
  <1>6. ASSUME NEW now \in Times, NEW r \in Requests,
               NEW l \in LimitChoices \cup {Inherited(r)}, Reserve(r, l, now)
        PROVE  OverageStep
    <2>a. Admits(r, l)  BY <1>6, Admission
    <2>1. ~OverBudget' /\ receipts' = receipts  BY <1>6 DEF Reserve, OverBudget, useVars
    <2>2. Charged \subseteq Charged' /\ Active \subseteq Active'
      BY <2>a DEF Admits, Charged, Active, Rows, ChargedStates, ActiveStates
    <2>3. \A a \in Charged : TokenCharge[a] = TokenCharge'[a] /\ OutputCharge[a] = OutputCharge'[a]
      BY <1>0, <1>3, <2>1 DEF ChargeStep
    <2>4. \A a \in Charged' : TokenCharge'[a] \in Nat /\ OutputCharge'[a] \in Nat
      BY <1>1, <1>3 DEF ChargesTyped
    <2>5. Totals(Charged', Active', TokenCharge', OutputCharge', Policy)  BY <1>2, <2>1
    <2>6. Fewer(Charged, Active, TokenCharge, OutputCharge,
                Charged', Active', TokenCharge', OutputCharge')
      BY <1>3, <2>2, <2>3, <2>4 DEF Fewer
    <2>7. Totals(Charged, Active, TokenCharge, OutputCharge, Policy)
      BY <1>4, <2>5, <2>6, TotalsShrink
    <2> QED BY <1>2, <2>1, <2>7 DEF OverageStep
  <1> QED BY <1>5, <1>6, StepKinds

\* "Reported usage above estimate ... blocks new admission", for every policy
\* and every tree: no row is added while the totals are over, and nothing but
\* a receipt takes them over.
THEOREM OverageAlwaysBlocks == Spec => OverageBlocksAdmission
  BY OverageSteps, CappedInvariant, RecordsInvariant, TypeCorrect, PTL
  DEF Spec, OverageBlocksAdmission

----------------------------------------------------------------------------
\* What no ledger step takes away from an attempt.
Keeps ==
    /\ receipts \subseteq receipts'
    /\ prereqs \subseteq prereqs'
    /\ \A a \in Attempts : Forward(state[a], state'[a])
    /\ \A x \in Approvals : spent[x] # {} => spent'[x] = spent[x]
    /\ \A i \in PrerequisiteIds : consumer[i] # {} => consumer'[i] = consumer[i]

LEMMA LedgerKeeps == TypeOK /\ Records /\ [Next]_vars => Keeps
  <1> SUFFICES ASSUME TypeOK, Records, [Next]_vars PROVE Keeps  OBVIOUS
  <1>1. CASE UNCHANGED vars  BY <1>1 DEF vars, Keeps, Forward
  <1>2. CASE Next
    <2>1. /\ receipts \subseteq receipts'
          /\ \A a \in Attempts : Forward(state[a], state'[a])
      BY <1>2, StepsMoveForward DEF ForwardStep, vars, Forward
    <2>2. CASE RecordsKept
      BY <2>1, <2>2 DEF RecordsKept, preVars, Keeps
    <2>3. ASSUME NEW now \in Times, NEW b \in Attempts, NEW X \in Optional(Approvals),
                 NEW P \in Optional(Prerequisites), MarkDispatched(b, X, P, now)
          PROVE  Keeps
      <3>1. prereqs' = prereqs  BY <2>3 DEF MarkDispatched
      <3>2. ASSUME NEW x \in Approvals, spent[x] # {} PROVE spent'[x] = spent[x]
        BY <2>3, <3>2 DEF MarkDispatched
      <3>3. ASSUME NEW i \in PrerequisiteIds, consumer[i] # {} PROVE consumer'[i] = consumer[i]
        BY <2>3, <3>3 DEF MarkDispatched
      <3> QED BY <2>1, <3>1, <3>2, <3>3 DEF Keeps
    <2>4. ASSUME NEW now \in Times, NEW c \in Receipts, NEW P \in Optional(Prerequisites),
                 Reconcile(c, P, now)
          PROVE  Keeps
      <3>1. prereqs \subseteq prereqs' /\ UNCHANGED <<consumer, spent>>
        BY <2>4 DEF Reconcile
      <3> QED BY <2>1, <3>1 DEF Keeps
    <2> QED BY <1>2, <2>2, <2>3, <2>4, RecordSteps
  <1> QED BY <1>1, <1>2
====
