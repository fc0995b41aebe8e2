----------------------------- MODULE RolloutState -----------------------------
(* The pure part of the Admin-cluster rollout: the two durable state machines
   (a mutation and one target row per member), the classifier that turns a
   durable snapshot into a directive, and the transition plan a directive
   stands for.  No variables: AdminRollout drives these operators and
   RolloutDecision checks them over every snapshot.                          *)
EXTENDS Naturals, FiniteSets

CONSTANT Members        \* the fixed Admin-cluster membership

ASSUME MembersAssumption == IsFiniteSet(Members) /\ Members # {}

-------------------------------------------------------------------------------
(* The mutation ledger's states (MutationState).  "absent" is a request id
   with no row yet.                                                          *)
Terminal == {"committed", "failed", "rolled_back", "rollback_failed", "indeterminate"}

BlocksResource == {"rollback_failed", "indeterminate"}

Active == {"claimed", "validating", "canary_applying", "canary_healthy",
           "expanding", "fully_applied", "rolling_back"}

MutationStates == {"absent"} \cup Active \cup Terminal

(* MutationState::may_transition_to, for the states an admin_cluster rollout
   uses ("applying" belongs to the single-instance mode).                    *)
MutationEdges ==
  [s \in MutationStates |->
     CASE s = "claimed"         -> {"validating", "committed", "failed", "indeterminate"}
       [] s = "validating"      -> {"canary_applying", "committed", "failed", "indeterminate"}
       [] s = "canary_applying" -> {"canary_healthy", "failed", "rolling_back", "indeterminate"}
       [] s = "canary_healthy"  -> {"expanding", "failed", "rolling_back", "indeterminate"}
       [] s = "expanding"       -> {"fully_applied", "failed", "rolling_back", "indeterminate"}
       [] s = "fully_applied"   -> {"committed", "failed", "rolling_back", "indeterminate"}
       [] s = "rolling_back"    -> {"rolled_back", "rollback_failed", "indeterminate"}
       [] OTHER                 -> {}]

-------------------------------------------------------------------------------
(* One target row per member (TargetState).                                  *)
TargetStates == {"pending", "validating", "validated", "apply_assigned", "applying",
                 "acked", "nacked", "rollback_assigned", "rolling_back",
                 "rolled_back", "rollback_failed"}

(* TargetState::may_transition_to. *)
TargetEdges ==
  [s \in TargetStates |->
     CASE s = "pending"           -> {"validating", "nacked"}
       [] s = "validating"        -> {"validated", "applying", "nacked"}
       [] s = "validated"         -> {"apply_assigned", "nacked"}
       [] s = "apply_assigned"    -> {"applying", "nacked"}
       [] s = "applying"          -> {"acked", "nacked", "rollback_assigned", "rolling_back"}
       [] s \in {"acked", "nacked"} -> {"rollback_assigned", "rolling_back"}
       [] s = "rollback_assigned" -> {"rolling_back", "rollback_failed"}
       [] s = "rolling_back"      -> {"rolled_back", "rollback_failed"}
       [] OTHER                   -> {}]

(* States from which a member may not have applied anything yet. *)
Untouched == {"pending", "validating", "validated", "apply_assigned", "nacked"}

-------------------------------------------------------------------------------
(* The classifier.  tg is the vector of target rows: tg[m].st and tg[m].eff
   (effect_started_at is set).  A directive names what to do and to whom.    *)
Directive(kind, who) == [kind |-> kind, who |-> who]

(* Faulty variant: by state alone, a nacked member's effect is forgotten. *)
RollbackByState(tg) ==
  Directive("roll_back", {m \in Members : tg[m].st \in {"applying", "acked", "rollback_assigned",
                                                        "rolling_back"}})

(* rollback_directive: everybody who may have applied. *)
RollbackDirective(tg) ==
  Directive("roll_back",
            {m \in Members : \/ tg[m].eff
                             \/ tg[m].st \in {"applying", "acked", "rollback_assigned",
                                              "rolling_back"}})

(* apply_ready_targets *)
ApplyReadyTargets(tg, except) ==
  {m \in Members \ except : tg[m].st \in {"validated", "apply_assigned", "applying"}}

(* classify_validation.  Every member of one rollout validates the same signed
   artifact, so the evidence of a validated row always matches.              *)
ClassifyValidation(tg, canary, phaseTimedOut) ==
  LET waiting == {m \in Members : tg[m].st = "pending"}
  IN  CASE phaseTimedOut \/ \E m \in Members : tg[m].st = "nacked" ->
             Directive("fail_before_apply", {})
        [] ~phaseTimedOut /\ \A m \in Members : tg[m].st \in {"validated", "applying"} ->
             Directive("apply_canary", {canary})
        [] OTHER -> IF waiting = {} THEN Directive("await_validation", {})
                                    ELSE Directive("validate", waiting)

(* rollback_complete_for_target *)
RollbackComplete(row) ==
  row.st = "rolled_back" \/ (~row.eff /\ row.st \in Untouched)

(* classify_rollback *)
ClassifyRollback(tg, rollbackTimedOut) ==
  IF \E m \in Members : tg[m].st = "rollback_failed"
    THEN Directive("finish_rollback_failed", {})
    ELSE IF \A m \in Members : RollbackComplete(tg[m])
           THEN Directive("finish_rolled_back", {})
           ELSE IF rollbackTimedOut THEN Directive("finish_indeterminate", {})
                                    ELSE RollbackDirective(tg)

(* Faulty variant: the canary's deadline is not consulted. *)
CanaryWithoutDeadline(tg, canary, phaseTimedOut) ==
  CASE tg[canary].st = "acked" -> Directive("observe_canary", {})
    [] tg[canary].st \in {"validated", "apply_assigned", "applying"} ->
         Directive("apply_canary", {canary})
    [] OTHER -> RollbackDirective(tg)

ClassifyCanaryApplying(tg, canary, phaseTimedOut) ==
  CASE tg[canary].st = "acked" -> Directive("observe_canary", {})
    [] /\ tg[canary].st \in {"validated", "apply_assigned", "applying"}
       /\ ~phaseTimedOut       -> Directive("apply_canary", {canary})
    [] OTHER                   -> RollbackDirective(tg)

(* Faulty variant: an overdue canary is observed for ever. *)
CanaryObservedLate(tg, canary, phaseTimedOut, observed) ==
  IF tg[canary].st # "acked"
    THEN RollbackDirective(tg)
    ELSE IF observed /\ ~phaseTimedOut
           THEN Directive("apply_expansion", ApplyReadyTargets(tg, {canary}))
           ELSE Directive("observe_canary", {})

ClassifyCanaryHealthy(tg, canary, phaseTimedOut, observed) ==
  IF tg[canary].st # "acked" \/ phaseTimedOut
    THEN RollbackDirective(tg)
    ELSE IF observed THEN Directive("apply_expansion", ApplyReadyTargets(tg, {canary}))
                     ELSE Directive("observe_canary", {})

(* Faulty variant: a member that is still applying counts as done. *)
ExpandedEarly(tg, phaseTimedOut) ==
  IF phaseTimedOut \/ \E m \in Members : tg[m].st = "nacked"
    THEN RollbackDirective(tg)
    ELSE IF \A m \in Members : tg[m].st \in {"acked", "applying"}
           THEN Directive("commit", {})
           ELSE Directive("apply_expansion", ApplyReadyTargets(tg, {}))

ClassifyExpanding(tg, phaseTimedOut) ==
  IF phaseTimedOut \/ \E m \in Members : tg[m].st = "nacked"
    THEN RollbackDirective(tg)
    ELSE IF \A m \in Members : tg[m].st = "acked"
           THEN Directive("commit", {})
           ELSE Directive("apply_expansion", ApplyReadyTargets(tg, {}))

(* classify when the live membership is not exact. *)
ClassifyInexact(st, tg, timedOut) ==
  CASE st \in {"claimed", "validating"} ->
         Directive(IF timedOut THEN "fail_before_apply" ELSE "await_membership", {})
    [] st = "rolling_back" /\ timedOut -> Directive("finish_indeterminate", {})
    [] OTHER -> RollbackDirective(tg)

(* classify.  One phase deadline suffices: the rollback timeout is consulted
   only while rolling back and the phase timeout only before that.           *)
Classify(st, tg, exact, timedOut, observed, canary) ==
  IF st \in Terminal THEN Directive("completed", {})
  ELSE IF ~exact THEN ClassifyInexact(st, tg, timedOut)
  ELSE CASE st = "claimed"         -> Directive("validate", Members)
         [] st = "validating"      -> ClassifyValidation(tg, canary, timedOut)
         [] st = "canary_applying" -> ClassifyCanaryApplying(tg, canary, timedOut)
         [] st = "canary_healthy"  -> ClassifyCanaryHealthy(tg, canary, timedOut, observed)
         [] st = "expanding"       -> ClassifyExpanding(tg, timedOut)
         [] st = "fully_applied"   -> Directive("commit", {})
         [] st = "rolling_back"    -> ClassifyRollback(tg, timedOut)
         [] OTHER                  -> Directive("finish_indeterminate", {})

-------------------------------------------------------------------------------
(* What a coordinator does with a directive: a transition plan (a mutation
   state, "keep" for none, and a state for some targets), or a terminal
   state, or nothing.                                                        *)
Plan(next, to, who) == [next |-> next, to |-> to, who |-> who]

(* transition_plan; the members whose row may not take the edge drop out. *)
PlanFor(st, tg, d) ==
  LET upgrade(from, next) == IF st = from THEN next ELSE "keep"
      movable(to) == {m \in d.who : to \in TargetEdges[tg[m].st]}
  IN  CASE d.kind = "validate" ->
             Plan(upgrade("claimed", "validating"), "validating", movable("validating"))
        [] d.kind = "apply_canary" ->
             Plan(upgrade("validating", "canary_applying"), "apply_assigned",
                  movable("apply_assigned"))
        [] d.kind = "observe_canary" -> Plan(upgrade("canary_applying", "canary_healthy"),
                                             "apply_assigned", {})
        [] d.kind = "apply_expansion" ->
             Plan(upgrade("canary_healthy", "expanding"), "apply_assigned",
                  movable("apply_assigned"))
        [] d.kind = "commit" -> Plan(upgrade("expanding", "fully_applied"), "apply_assigned", {})
        [] d.kind = "roll_back" ->
             Plan(IF st = "rolling_back" THEN "keep" ELSE "rolling_back",
                  "rollback_assigned", movable("rollback_assigned"))
        [] OTHER -> Plan("keep", "apply_assigned", {})

(* The terminal state reconcile falls through to, "keep" when there is none. *)
TerminalFor(st, d) ==
  CASE d.kind = "commit" /\ st # "expanding"     -> "committed"
    [] d.kind = "fail_before_apply"              -> "failed"
    [] d.kind = "finish_rolled_back"             -> "rolled_back"
    [] d.kind = "finish_rollback_failed"         -> "rollback_failed"
    [] d.kind = "finish_indeterminate"           -> "indeterminate"
    [] OTHER                                     -> "keep"

-------------------------------------------------------------------------------
(* Which rows can occur, and which vectors of rows each phase allows. *)

(* The states a row may have once its member's effect has started. *)
Effected == {"applying", "acked", "nacked", "rollback_assigned", "rolling_back",
             "rolled_back", "rollback_failed"}

RowOk(row) ==
  /\ row.eff => row.st \in Effected
  /\ row.st \in Effected \ {"nacked"} => row.eff

PhaseOk(st, tg, canary) ==
  LET all(S) == \A m \in Members : tg[m].st \in S
      rest(S) == \A m \in Members : m # canary => tg[m].st \in S
  IN  /\ st \in {"absent", "claimed"} => all({"pending"})
      /\ st = "validating" => /\ all({"pending", "validating", "validated", "nacked"})
                             /\ \A m \in Members : ~tg[m].eff
      /\ st = "canary_applying" =>
           rest({"validated"}) /\ tg[canary].st \in {"apply_assigned", "applying", "acked", "nacked"}
      /\ st = "canary_healthy" => rest({"validated"}) /\ tg[canary].st = "acked"
      /\ st = "expanding" =>
           /\ rest({"validated", "apply_assigned", "applying", "acked", "nacked"})
           /\ tg[canary].st = "acked"
      /\ st \in {"fully_applied", "committed"} => all({"acked"})
===============================================================================
