---- MODULE Cleanup ----
(***************************************************************************)
(* Tracking and rollback of the file-system side effects of one execution  *)
(* run (cops/execution/cleanup.py): the append-only journal, the in-memory *)
(* ledger, the manager that verifies, quarantines and deletes, and recovery*)
(* of the journal after a worker crash.                                    *)
(*                                                                         *)
(* One SQLite append and one file-system call are one step each.  Other    *)
(* processes may remove, replace or add entries between any two of them,   *)
(* and the worker may crash there.                                         *)
(***************************************************************************)
EXTENDS Naturals, Sequences

CONSTANTS
    Effects,    \* tracked resources, one target path each
    Kind,       \* effect -> file or directory
    Ancestors,  \* effect -> the effects whose target is a strict ancestor of its target
    Declared,   \* effects recorded from a plan's cleanup declaration, never created here
    Faults      \* whether journal writes and file-system calls may fail

ASSUME CleanupAssumption ==
    /\ Kind \in [Effects -> {"file", "directory"}]
    /\ Ancestors \in [Effects -> SUBSET Effects]
    /\ \A e \in Effects : e \notin Ancestors[e]
    /\ \A e \in Effects : \A d \in Ancestors[e] : Ancestors[d] \subseteq Ancestors[e]
    /\ Declared \subseteq Effects
    /\ Faults \in BOOLEAN

VARIABLES
    phase,     \* running, failing (an exception is propagating), rollback, done or down
    ledger,    \* effect_recorded events, in order
    ident,     \* effects with a recorded creation identity
    jstat,     \* effect -> last durable status
    mstat,     \* effect -> status in the ledger in memory
    jreceipt,  \* status of the last durable cleanup receipt
    receipt,   \* status of the receipt rollback returned
    cur,       \* {} or the effect being created or cleaned
    step,      \* the next thing to do with it
    place,     \* effect -> what its target path holds
    quar,      \* effect -> what its quarantine directory holds
    stray,     \* directories that hold entries no effect tracks
    destroyed  \* <<effect, object>> pairs the manager deleted

journal == <<ledger, ident, jreceipt>>
disk    == <<place, quar, stray, destroyed>>
vars    == <<phase, ledger, ident, jstat, mstat, jreceipt, receipt,
             cur, step, place, quar, stray, destroyed>>

Statuses == {"absent", "pending", "cleaning", "cleaned", "failed", "unknown"}

Receipts == {"none", "completed", "not_required", "partial", "failed"}

\* "own" is the object this run created for the effect, whose device and inode
\* are the recorded identity; "foreign" is any other object.
Objects == {"none", "own", "foreign"}

Recorded == {e \in Effects : \E i \in 1..Len(ledger) : ledger[i] = e}

Init ==
    /\ phase = "running"
    /\ ledger = <<>>
    /\ ident = {}
    /\ jstat = [e \in Effects |-> "absent"]
    /\ mstat = [e \in Effects |-> "absent"]
    /\ jreceipt = "none"
    /\ receipt = "none"
    /\ cur = {}
    /\ step = "idle"
    /\ place \in [Effects -> {"none", "foreign"}]
    /\ \A e \in Effects : place[e] = "foreign" => Ancestors[e] = {}
    /\ quar = [e \in Effects |-> "none"]
    /\ stray = {}
    /\ destroyed = {}

----------------------------------------------------------------------------
\* Other processes.  A directory with tracked entries below it stays in place:
\* its replacement is checked on the leaves.

Leaf(e) == \A x \in Effects : e \notin Ancestors[x]

EnvRemove(e) ==
    /\ Leaf(e)
    /\ place[e] # "none"
    /\ e \notin stray
    /\ place' = [place EXCEPT ![e] = "none"]
    /\ UNCHANGED <<phase, journal, jstat, mstat, receipt, cur, step, quar, stray, destroyed>>

EnvPut(e) ==
    /\ Leaf(e)
    /\ place[e] = "none"
    /\ \A d \in Ancestors[e] : place[d] # "none"
    /\ place' = [place EXCEPT ![e] = "foreign"]
    /\ UNCHANGED <<phase, journal, jstat, mstat, receipt, cur, step, quar, stray, destroyed>>

EnvStray(d) ==
    /\ Kind[d] = "directory"
    /\ place[d] = "own"
    /\ d \notin stray
    /\ stray' = stray \cup {d}
    /\ UNCHANGED <<phase, journal, jstat, mstat, receipt, cur, step, place, quar, destroyed>>

----------------------------------------------------------------------------
\* The run: intent, creation, identity

\* Persist a status, then expose it in memory; the journal may refuse.
Transition(e, s) ==
    /\ jstat' = [jstat EXCEPT ![e] = s]
    /\ mstat' = [mstat EXCEPT ![e] = s]

\* The handlers that end in effect.status = "unknown" when the journal refuses.
Settle(e, s) ==
    \/ Transition(e, s)
    \/ /\ Faults
       /\ mstat' = [mstat EXCEPT ![e] = "unknown"]
       /\ UNCHANGED jstat

At(e, s) == cur = {e} /\ step = s

Idle == cur' = {} /\ step' = "idle"

\* Mutant: a refused journal write is ignored and the object is created anyway.
RecordEffectBestEffort(e) ==
    /\ phase = "running"
    /\ cur = {}
    /\ e \notin Recorded \cup Declared
    /\ Ancestors[e] \subseteq ident
    /\ \/ ledger' = Append(ledger, e) /\ Transition(e, "pending")
       \/ Faults /\ UNCHANGED <<ledger, jstat, mstat>>
    /\ cur' = {e}
    /\ step' = "create"
    /\ UNCHANGED <<phase, ident, jreceipt, receipt, disk>>

\* Intent first.  A declared effect is only recorded; the others are created
\* next, inside directories this run already identified.
RecordEffect(e) ==
    /\ phase = "running"
    /\ cur = {}
    /\ e \notin Recorded
    /\ e \in Declared \/ Ancestors[e] \subseteq ident
    /\ \/ /\ ledger' = Append(ledger, e)
          /\ Transition(e, "pending")
          /\ IF e \in Declared THEN UNCHANGED <<cur, step>> ELSE cur' = {e} /\ step' = "create"
          /\ UNCHANGED phase
       \/ /\ Faults
          /\ phase' = "failing"
          /\ UNCHANGED <<ledger, jstat, mstat, cur, step>>
    /\ UNCHANGED <<ident, jreceipt, receipt, disk>>

\* Exclusive creation.  An evidence file whose name is taken is written off as
\* cleaned; elsewhere the collision ends the run.
Create(e) ==
    /\ At(e, "create")
    /\ \/ /\ place[e] = "none"
          /\ \A d \in Ancestors[e] : place[d] # "none"
          /\ place' = [place EXCEPT ![e] = "own"]
          /\ step' = "identify"
          /\ UNCHANGED <<phase, cur, jstat, mstat>>
       \/ /\ place[e] # "none"
          /\ Kind[e] = "file"
          /\ Transition(e, "cleaned")
          /\ Idle
          /\ UNCHANGED <<phase, place>>
       \/ /\ place[e] # "none" \/ Faults \/ \E d \in Ancestors[e] : place[d] = "none"
          /\ phase' = "failing"
          /\ Idle
          /\ UNCHANGED <<place, jstat, mstat>>
    /\ UNCHANGED <<journal, receipt, quar, stray, destroyed>>

\* record_created_identity: the path must still name the object just created,
\* and the journal comes before memory.
Identify(e) ==
    /\ At(e, "identify")
    /\ Idle
    /\ \/ /\ place[e] = "own"
          /\ ident' = ident \cup {e}
          /\ UNCHANGED phase
       \/ /\ place[e] # "own" \/ Faults
          /\ phase' = "failing"
          /\ UNCHANGED ident
    /\ UNCHANGED <<ledger, jreceipt, jstat, mstat, receipt, disk>>

----------------------------------------------------------------------------
\* Cleaning one effect

\* Mutant: an unknown outcome does not count as unresolved.
UnresolvedFailedOnly == {e \in Effects : mstat[e] = "failed"}

Unresolved == {e \in Effects : mstat[e] \in {"failed", "unknown"}}

Actionable == {e \in Effects : mstat[e] \in {"pending", "cleaning"}}

\* _verify_resource_ownership: a durable creation identity that the path still
\* matches.
Owned(e) == e \in ident /\ place[e] = "own"

Begin(e, allowed) ==
    \/ /\ allowed /\ Owned(e)
       /\ cur' = {e}
       /\ step' = "mark"
       /\ UNCHANGED <<jstat, mstat>>
    \/ /\ ~(allowed /\ Owned(e))
       /\ Settle(e, "unknown")
       /\ UNCHANGED <<cur, step>>

\* cleanup_effect during the run: credential scratch, discarded evidence,
\* staged executables.
CleanupEffect(e) ==
    /\ phase \in {"running", "failing"}
    /\ cur = {}
    /\ e \notin Declared
    /\ mstat[e] = "pending"
    /\ Begin(e, Kind[e] = "directory" =>
                  \A x \in Recorded : e \in Ancestors[x] => mstat[x] = "cleaned")
    /\ UNCHANGED <<phase, journal, receipt, disk>>

\* The "cleaning" transition is durable before anything is touched.
MarkCleaning(e) ==
    /\ At(e, "mark")
    /\ \/ /\ Transition(e, "cleaning")
          /\ step' = "move"
          /\ UNCHANGED cur
       \/ /\ Faults
          /\ Settle(e, "failed")
          /\ Idle
    /\ UNCHANGED <<phase, journal, receipt, disk>>

\* mkdir of the quarantine and rename into it.  A directory takes everything
\* below it along.
Quarantine(e) ==
    /\ At(e, "move")
    /\ \/ /\ place[e] # "none"
          /\ quar' = [quar EXCEPT ![e] = place[e]]
          /\ place' = [x \in Effects |-> IF x = e \/ e \in Ancestors[x] THEN "none" ELSE place[x]]
          /\ stray' = IF \E x \in Effects : e \in Ancestors[x] /\ place[x] # "none"
                        THEN stray \cup {e} ELSE stray
          /\ step' = "delete"
          /\ UNCHANGED <<cur, jstat, mstat>>
       \/ /\ place[e] = "none" \/ Faults
          /\ Settle(e, "unknown")
          /\ Idle
          /\ UNCHANGED <<place, quar, stray>>
    /\ UNCHANGED <<phase, journal, receipt, destroyed>>

\* Mutant: the ownership check before the rename is trusted afterwards.
DeleteUnchecked(e) ==
    /\ At(e, "delete")
    /\ Kind[e] = "directory" => e \notin stray
    /\ quar' = [quar EXCEPT ![e] = "none"]
    /\ destroyed' = destroyed \cup {<<e, quar[e]>>}
    /\ step' = "settle"
    /\ UNCHANGED <<phase, journal, jstat, mstat, receipt, cur, place, stray>>

\* The moved object is compared again; a directory is removed only when empty.
Delete(e) ==
    LET deletable == quar[e] = "own" /\ (Kind[e] = "directory" => e \notin stray)
    IN  /\ At(e, "delete")
        /\ \/ /\ deletable
              /\ quar' = [quar EXCEPT ![e] = "none"]
              /\ destroyed' = destroyed \cup {<<e, quar[e]>>}
              /\ step' = "settle"
              /\ UNCHANGED <<cur, jstat, mstat>>
           \/ /\ ~deletable \/ Faults
              /\ Settle(e, "unknown")
              /\ Idle
              /\ UNCHANGED <<quar, destroyed>>
        /\ UNCHANGED <<phase, journal, receipt, place, stray>>

\* The quarantine is removed and "cleaned" is persisted with action_taken.  If
\* either fails the outcome stays unknown.
Cleaned(e) ==
    /\ At(e, "settle")
    /\ Idle
    /\ \/ Transition(e, "cleaned")
       \/ Faults /\ Settle(e, "unknown")
    /\ UNCHANGED <<phase, journal, receipt, disk>>

----------------------------------------------------------------------------
\* Rollback, the receipt, and recovery

\* The run ends, normally or by an exception.
BeginRollback ==
    /\ phase \in {"running", "failing"}
    /\ cur = {}
    /\ phase' = "rollback"
    /\ UNCHANGED <<journal, jstat, mstat, receipt, cur, step, disk>>

\* Mutant: a directory waits until everything below it is cleaned.
ReadyWaits(e) ==
    e \in Actionable /\ (\A x \in Recorded : e \in Ancestors[x] => mstat[x] = "cleaned")

\* _rollback_order: the latest entry of the ledger that has no actionable
\* entry below it.
Ready(e) == e \in Actionable /\ (Kind[e] = "directory" => \A x \in Actionable : e \notin Ancestors[x])

NextEffect(e) ==
    \E i \in 1..Len(ledger) :
        /\ ledger[i] = e
        /\ Ready(e)
        /\ \A j \in 1..Len(ledger) : j > i => ~Ready(ledger[j])

\* One iteration of rollback's loop up to the ownership check.
Rollback(e) ==
    /\ phase = "rollback"
    /\ cur = {}
    /\ NextEffect(e)
    /\ Begin(e, /\ mstat[e] = "pending"
                /\ e \notin Declared
                /\ Kind[e] = "directory" => \A x \in Unresolved : e \notin Ancestors[x])
    /\ UNCHANGED <<phase, journal, receipt, disk>>

ReceiptStatus(unresolved) ==
    LET cleaned == \E e \in Effects : mstat[e] = "cleaned"
    IN  CASE unresolved /\ cleaned -> "partial"
          [] unresolved /\ ~cleaned -> "failed"
          [] ~unresolved /\ cleaned -> "completed"
          [] OTHER -> "not_required"

\* _build_receipt and record_receipt; a receipt that cannot be persisted is
\* returned with the journal as an unresolved entry.
WriteReceipt ==
    /\ phase = "rollback"
    /\ cur = {}
    /\ Actionable = {}
    /\ phase' = "done"
    /\ \/ /\ jreceipt' = ReceiptStatus(Unresolved # {})
          /\ receipt' = jreceipt'
       \/ /\ Faults
          /\ receipt' = ReceiptStatus(TRUE)
          /\ UNCHANGED jreceipt
    /\ UNCHANGED <<ledger, ident, jstat, mstat, cur, step, disk>>

\* Memory is lost; what is on disk and in the journal stays.
Crash ==
    /\ phase \in {"running", "failing", "rollback"}
    /\ phase' = "down"
    /\ mstat' = jstat
    /\ receipt' = "none"
    /\ Idle
    /\ UNCHANGED <<journal, jstat, disk>>

\* recoverable_runs and recover_pending_cleanup at the next worker start.
Settled == jreceipt \in {"completed", "not_required"} /\ \A e \in Recorded : jstat[e] = "cleaned"

\* Mutant: recovery retries an interrupted cleanup.
RecoverRetries ==
    /\ phase \in {"down", "done"}
    /\ phase' = IF Settled THEN "done" ELSE "rollback"
    /\ jstat' = [e \in Effects |-> IF jstat[e] = "cleaning" THEN "pending" ELSE jstat[e]]
    /\ mstat' = jstat'
    /\ receipt' = "none"
    /\ UNCHANGED <<journal, cur, step, disk>>

Recover ==
    /\ phase \in {"down", "done"}
    /\ phase' = IF Settled THEN "done" ELSE "rollback"
    /\ mstat' = jstat
    /\ receipt' = "none"
    /\ UNCHANGED <<journal, jstat, cur, step, disk>>

----------------------------------------------------------------------------

Env == \E e \in Effects : EnvRemove(e) \/ EnvPut(e) \/ EnvStray(e)

Run == (\E e \in Effects : RecordEffect(e) \/ Create(e) \/ Identify(e)) \/ BeginRollback

Clean == \E e \in Effects : MarkCleaning(e) \/ Quarantine(e) \/ Delete(e) \/ Cleaned(e)

Next ==
    \/ Env
    \/ Run
    \/ \E e \in Effects : CleanupEffect(e)
    \/ Clean
    \/ \E e \in Effects : Rollback(e)
    \/ WriteReceipt
    \/ Crash
    \/ Recover

Spec == Init /\ [][Next]_vars

\* The manager's own loop keeps running while the process is up.
LiveSpec == Spec /\ WF_vars(Clean \/ (\E e \in Effects : Rollback(e)) \/ WriteReceipt)
----------------------------------------------------------------------------
\* Properties

TypeOK ==
    /\ phase \in {"running", "failing", "rollback", "done", "down"}
    /\ ledger \in Seq(Effects)
    /\ ident \subseteq Effects
    /\ jstat \in [Effects -> Statuses]
    /\ mstat \in [Effects -> Statuses]
    /\ jreceipt \in Receipts
    /\ receipt \in Receipts
    /\ cur = {} \/ \E e \in Effects : cur = {e}
    /\ step \in {"idle", "create", "identify", "mark", "move", "delete", "settle"}
    /\ place \in [Effects -> Objects]
    /\ quar \in [Effects -> Objects]
    /\ stray \subseteq Effects
    /\ destroyed \subseteq Effects \X Objects

\* Cleanup deletes only objects this run created, whatever other processes
\* swap in between the ownership check, the rename and the delete, and never
\* the target of a plan's cleanup declaration.
DeletesOnlyOwn == \A d \in destroyed : d[2] = "own" /\ d[1] \notin Declared

\* A created object is in the journal, under a status a restart still looks
\* at, for as long as it exists anywhere; and whatever sits in a quarantine
\* directory, own or not, belongs to an effect that is not reported cleaned.
TrackedUntilGone ==
    \A e \in Effects :
        /\ (place[e] = "own" \/ quar[e] = "own") =>
              e \in Recorded /\ jstat[e] \notin {"absent", "cleaned"}
        /\ quar[e] # "none" => jstat[e] \in {"cleaning", "unknown"}

\* A completed or not_required receipt, returned or durable, means every
\* recorded effect is durably cleaned and nothing this run created is left.
HonestReceipt ==
    {receipt, jreceipt} \cap {"completed", "not_required"} # {} =>
        \A e \in Effects :
            /\ e \in Recorded => jstat[e] = "cleaned"
            /\ place[e] # "own" /\ quar[e] # "own"

\* A directory is never moved away while an object this run created is still
\* in place below it ("ancestor was preserved").
AncestorPreserved ==
    [][\A d \in Effects :
          Kind[d] = "directory" /\ quar[d] = "none" /\ quar'[d] = "own" =>
            \A x \in Effects : d \in Ancestors[x] => place[x] # "own"]_vars

ForwardStep(e) ==
    \/ jstat'[e] = jstat[e]
    \/ jstat[e] = "absent" /\ jstat'[e] = "pending"
    \/ jstat[e] = "pending" /\ jstat'[e] # "absent"
    \/ jstat[e] = "cleaning" /\ jstat'[e] \in {"cleaned", "unknown"}

\* Durable statuses only move forward, over any number of crashes and
\* recoveries: an interrupted cleanup is never attempted a second time and a
\* terminal outcome is never rewritten.
StatusForward == [][\A e \in Effects : ForwardStep(e)]_vars

\* Every rollback, first or recovered, ends in a receipt unless the process dies.
RollbackTerminates == phase = "rollback" ~> phase \in {"done", "down"}
====
