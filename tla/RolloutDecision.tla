---------------------------- MODULE RolloutDecision ----------------------------
(* The classifier and the transition plan, over every snapshot of the ledger
   that a rollout can show them: a consistent phase, rows that record their
   effect, any clock and any membership.                                      *)
EXTENDS RolloutState

CONSTANT Canary     \* the member deterministic_canary picks

ASSUME CanaryAssumption == Canary \in Members

VARIABLES
  snap,     \* the snapshot: state, rows, exact membership, clocks
  verdict   \* the plan and the terminal state reconcile takes from it

Rows == {row \in [st : TargetStates, eff : BOOLEAN] : RowOk(row)}

Snapshots ==
  {s \in [st : MutationStates \ {"absent"}, tg : [Members -> Rows],
          exact : BOOLEAN, timedOut : BOOLEAN, observed : BOOLEAN] :
     PhaseOk(s.st, s.tg, Canary)}

Undecided == [kind |-> "none", plan |-> Plan("keep", "apply_assigned", {}), fin |-> "keep"]

(* reconcile: classify_durable, then transition_plan, then the terminal match. *)
Verdict(s) ==
  LET d == Classify(s.st, s.tg, s.exact, s.timedOut, s.observed, Canary)
  IN  [kind |-> d.kind, plan |-> PlanFor(s.st, s.tg, d), fin |-> TerminalFor(s.st, d)]

DecisionInit == snap \in Snapshots /\ verdict = Undecided

Reconcile == verdict = Undecided /\ verdict' = Verdict(snap) /\ UNCHANGED snap

DecisionSpec == DecisionInit /\ [][Reconcile]_<<snap, verdict>>

-------------------------------------------------------------------------------
Decided == verdict # Undecided

(* The snapshot after apply_transition_plan. *)
AfterPlan ==
  [st |-> IF verdict.plan.next = "keep" THEN snap.st ELSE verdict.plan.next,
   tg |-> [m \in Members |-> IF m \in verdict.plan.who
                               THEN [snap.tg[m] EXCEPT !.st = verdict.plan.to] ELSE snap.tg[m]]]

(* Every plan takes a legal edge of the mutation and leaves phase and rows in
   agreement; every terminal verdict is a legal edge and is true of the rows:
   committed with all acknowledged, failed without effect, rolled back with
   every effect undone (classify, transition_plan).                           *)
VerdictSound ==
  Decided =>
    /\ verdict.plan.next # "keep" => verdict.plan.next \in MutationEdges[snap.st]
    /\ \A m \in Members : RowOk(AfterPlan.tg[m])
    /\ PhaseOk(AfterPlan.st, AfterPlan.tg, Canary)
    /\ verdict.fin # "keep" => verdict.fin \in MutationEdges[snap.st]
    /\ verdict.fin = "committed" => \A m \in Members : snap.tg[m].st = "acked"
    /\ verdict.fin = "failed" => \A m \in Members : ~snap.tg[m].eff
    /\ verdict.fin = "rolled_back" => \A m \in Members : snap.tg[m].eff => snap.tg[m].st = "rolled_back"

(* A rollback reaches every member that may have applied: after the plan each
   of them is assigned, on its way or settled (rollback_directive and the
   edges transition_plan filters by).                                         *)
RollbackReaches ==
  Decided /\ verdict.kind = "roll_back" =>
    \A m \in Members : snap.tg[m].eff =>
      AfterPlan.tg[m].st \in {"rollback_assigned", "rolling_back", "rolled_back", "rollback_failed"}

(* An expired deadline always moves an active mutation on: the verdict is never
   to wait (classify_validation, classify_rollback, the phase timeouts).      *)
DeadlineDecides ==
  Decided /\ snap.timedOut /\ snap.st \in Active =>
    verdict.fin # "keep" \/ verdict.plan.next # "keep"
===============================================================================
