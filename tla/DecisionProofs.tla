---------------------------- MODULE DecisionProofs ----------------------------
(* Proofs about RolloutDecision for every finite membership: what the classifier
   makes of a snapshot, what its plan does to the rows, and which verdicts it
   can end with.                                                              *)
EXTENDS RolloutDecision, TLAPS

-------------------------------------------------------------------------------
(* The directive of a snapshot, one phase at a time. *)

DirectiveTable(s, d) ==
  /\ s.st \in Terminal => d.kind = "completed"
  /\ s.st = "claimed" =>
       \/ d.kind = "validate" /\ s.exact
       \/ d.kind \in {"await_membership", "fail_before_apply"} /\ ~s.exact
  /\ s.st = "validating" =>
       \/ d.kind \in {"validate", "await_validation", "await_membership", "fail_before_apply"}
       \/ /\ d.kind = "apply_canary" /\ d.who = {Canary}
          /\ \A m \in Members : s.tg[m].st \in {"validated", "applying"}
  /\ s.st = "canary_applying" =>
       \/ d.kind = "observe_canary" /\ s.tg[Canary].st = "acked"
       \/ d.kind = "apply_canary" /\ d.who = {Canary}
       \/ d = RollbackDirective(s.tg)
  /\ s.st = "canary_healthy" =>
       \/ d.kind = "observe_canary"
       \/ d.kind = "apply_expansion" /\ Canary \notin d.who
       \/ d = RollbackDirective(s.tg)
  /\ s.st = "expanding" =>
       \/ d.kind = "apply_expansion"
       \/ d.kind = "commit" /\ \A m \in Members : s.tg[m].st = "acked"
       \/ d = RollbackDirective(s.tg)
  /\ s.st = "fully_applied" => d.kind = "commit" \/ d = RollbackDirective(s.tg)
  /\ s.st = "rolling_back" =>
       \/ d.kind \in {"finish_rollback_failed", "finish_indeterminate"}
       \/ d.kind = "finish_rolled_back" /\ \A m \in Members : RollbackComplete(s.tg[m])
       \/ d = RollbackDirective(s.tg)
  /\ d.who \subseteq Members

(* With its deadline passed, a phase is never told to wait. *)
DeadlineTable(s, d) ==
  s.timedOut =>
    /\ s.st = "claimed" => d.kind \in {"validate", "fail_before_apply"}
    /\ s.st = "validating" => d.kind = "fail_before_apply"
    /\ s.st = "canary_applying" => d.kind = "observe_canary" \/ d = RollbackDirective(s.tg)
    /\ s.st \in {"canary_healthy", "expanding"} => d = RollbackDirective(s.tg)
    /\ s.st = "rolling_back" => d.kind \in {"finish_rollback_failed", "finish_indeterminate",
                                            "finish_rolled_back"}

DirectiveFor(s) == Classify(s.st, s.tg, s.exact, s.timedOut, s.observed, Canary)

LEMMA RollbackKind ==
  ASSUME NEW tg
  PROVE  /\ RollbackDirective(tg).kind = "roll_back"
         /\ RollbackDirective(tg).who \subseteq Members
         /\ \A m \in Members : m \in RollbackDirective(tg).who <=>
              tg[m].eff \/ tg[m].st \in {"applying", "acked", "rollback_assigned", "rolling_back"}
  BY DEF RollbackDirective, Directive

LEMMA Directives ==
  ASSUME NEW s \in Snapshots
  PROVE  DirectiveTable(s, DirectiveFor(s)) /\ DeadlineTable(s, DirectiveFor(s))
<1> DEFINE d == DirectiveFor(s)
<1> SUFFICES DirectiveTable(s, d) /\ DeadlineTable(s, d)
  OBVIOUS
<1> USE CanaryAssumption
<1>1. CASE s.st \in Terminal
  <2>1. d = Directive("completed", {})
    BY <1>1 DEF DirectiveFor, Classify
  <2>2. d.kind = "completed" /\ d.who = {}
    BY <2>1 DEF Directive
  <2> HIDE DEF d
  <2> QED
    BY <1>1, <2>2 DEF DirectiveTable, DeadlineTable, Terminal
<1>2. CASE s.st \in Active /\ ~s.exact
  <2>1. d = ClassifyInexact(s.st, s.tg, s.timedOut)
    BY <1>2 DEF DirectiveFor, Classify, Active, Terminal
  <2>2. CASE s.st \in {"claimed", "validating"}
    <3>1. /\ d.kind = IF s.timedOut THEN "fail_before_apply" ELSE "await_membership"
          /\ d.who = {}
      BY <2>1, <2>2 DEF ClassifyInexact, Directive
    <3> HIDE DEF d
    <3> QED
      BY <1>2, <2>2, <3>1 DEF DirectiveTable, DeadlineTable, Terminal
  <2>3. CASE s.st = "rolling_back" /\ s.timedOut
    <3>1. d.kind = "finish_indeterminate" /\ d.who = {}
      BY <2>1, <2>3 DEF ClassifyInexact, Directive
    <3> HIDE DEF d
    <3> QED
      BY <2>3, <3>1 DEF DirectiveTable, DeadlineTable, Terminal
  <2>4. CASE s.st \notin {"claimed", "validating"} /\ ~(s.st = "rolling_back" /\ s.timedOut)
    <3>1. d = RollbackDirective(s.tg)
      BY <2>1, <2>4 DEF ClassifyInexact
    <3> HIDE DEF d
    <3> QED
      BY <1>2, <2>4, <3>1, RollbackKind DEF DirectiveTable, DeadlineTable, Terminal, Active
  <2> QED
    BY <2>2, <2>3, <2>4
<1>3. CASE s.exact /\ s.st = "claimed"
  <2>1. d = Directive("validate", Members)
    BY <1>3 DEF DirectiveFor, Classify, Terminal
  <2>2. d.kind = "validate" /\ d.who = Members
    BY <2>1 DEF Directive
  <2> HIDE DEF d
  <2> QED
    BY <1>3, <2>2 DEF DirectiveTable, DeadlineTable, Terminal
<1>4. CASE s.exact /\ s.st = "validating"
  <2>1. d = ClassifyValidation(s.tg, Canary, s.timedOut)
    BY <1>4 DEF DirectiveFor, Classify, Terminal
  <2>2. CASE s.timedOut \/ \E m \in Members : s.tg[m].st = "nacked"
    <3>1. d = Directive("fail_before_apply", {})
      BY <2>1, <2>2 DEF ClassifyValidation
    <3>2. d.kind = "fail_before_apply" /\ d.who = {}
      BY <3>1 DEF Directive
    <3> HIDE DEF d
    <3> QED
      BY <1>4, <3>2 DEF DirectiveTable, DeadlineTable, Terminal
  <2>3. CASE /\ ~(s.timedOut \/ \E m \in Members : s.tg[m].st = "nacked")
             /\ \A m \in Members : s.tg[m].st \in {"validated", "applying"}
    <3>1. d = Directive("apply_canary", {Canary})
      BY <2>1, <2>3 DEF ClassifyValidation
    <3>2. d.kind = "apply_canary" /\ d.who = {Canary}
      BY <3>1 DEF Directive
    <3> HIDE DEF d
    <3> QED
      BY <1>4, <2>3, <3>2 DEF DirectiveTable, DeadlineTable, Terminal
  <2>4. CASE /\ ~(s.timedOut \/ \E m \in Members : s.tg[m].st = "nacked")
             /\ ~\A m \in Members : s.tg[m].st \in {"validated", "applying"}
    <3>1. \/ d = Directive("await_validation", {})
          \/ d = Directive("validate", {m \in Members : s.tg[m].st = "pending"})
      BY <2>1, <2>4 DEF ClassifyValidation
    <3>2. d.kind \in {"await_validation", "validate"} /\ d.who \subseteq Members
      BY <3>1 DEF Directive
    <3> HIDE DEF d
    <3> QED
      BY <1>4, <2>4, <3>2 DEF DirectiveTable, DeadlineTable, Terminal
  <2> QED
    BY <2>2, <2>3, <2>4
<1>5. CASE s.exact /\ s.st = "canary_applying"
  <2>1. d = ClassifyCanaryApplying(s.tg, Canary, s.timedOut)
    BY <1>5 DEF DirectiveFor, Classify, Terminal
  <2>2. \/ d = Directive("observe_canary", {}) /\ s.tg[Canary].st = "acked"
        \/ d = Directive("apply_canary", {Canary}) /\ ~s.timedOut
        \/ d = RollbackDirective(s.tg)
    BY <2>1 DEF ClassifyCanaryApplying
  <2>3. \/ d.kind = "observe_canary" /\ d.who = {} /\ s.tg[Canary].st = "acked"
        \/ d.kind = "apply_canary" /\ d.who = {Canary} /\ ~s.timedOut
        \/ d = RollbackDirective(s.tg)
    BY <2>2 DEF Directive
  <2> HIDE DEF d
  <2> QED
    BY <1>5, <2>3, RollbackKind DEF DirectiveTable, DeadlineTable, Terminal
<1>6. CASE s.exact /\ s.st = "canary_healthy"
  <2>1. d = ClassifyCanaryHealthy(s.tg, Canary, s.timedOut, s.observed)
    BY <1>6 DEF DirectiveFor, Classify, Terminal
  <2>2. \/ d = Directive("observe_canary", {}) /\ ~s.timedOut
        \/ d = Directive("apply_expansion", ApplyReadyTargets(s.tg, {Canary})) /\ ~s.timedOut
        \/ d = RollbackDirective(s.tg)
    BY <2>1 DEF ClassifyCanaryHealthy
  <2>3. \/ d.kind = "observe_canary" /\ d.who = {} /\ ~s.timedOut
        \/ /\ d.kind = "apply_expansion" /\ d.who \subseteq Members /\ Canary \notin d.who
           /\ ~s.timedOut
        \/ d = RollbackDirective(s.tg)
    BY <2>2 DEF Directive, ApplyReadyTargets
  <2> HIDE DEF d
  <2> QED
    BY <1>6, <2>3, RollbackKind DEF DirectiveTable, DeadlineTable, Terminal
<1>7. CASE s.exact /\ s.st = "expanding"
  <2>1. d = ClassifyExpanding(s.tg, s.timedOut)
    BY <1>7 DEF DirectiveFor, Classify, Terminal
  <2>2. \/ /\ d = Directive("commit", {}) /\ ~s.timedOut
           /\ \A m \in Members : s.tg[m].st = "acked"
        \/ d = Directive("apply_expansion", ApplyReadyTargets(s.tg, {})) /\ ~s.timedOut
        \/ d = RollbackDirective(s.tg)
    BY <2>1 DEF ClassifyExpanding
  <2>3. \/ /\ d.kind = "commit" /\ d.who = {} /\ ~s.timedOut
           /\ \A m \in Members : s.tg[m].st = "acked"
        \/ d.kind = "apply_expansion" /\ d.who \subseteq Members /\ ~s.timedOut
        \/ d = RollbackDirective(s.tg)
    BY <2>2 DEF Directive, ApplyReadyTargets
  <2> HIDE DEF d
  <2> QED
    BY <1>7, <2>3, RollbackKind DEF DirectiveTable, DeadlineTable, Terminal
<1>8. CASE s.exact /\ s.st = "fully_applied"
  <2>1. d = Directive("commit", {})
    BY <1>8 DEF DirectiveFor, Classify, Terminal
  <2>2. d.kind = "commit" /\ d.who = {}
    BY <2>1 DEF Directive
  <2> HIDE DEF d
  <2> QED
    BY <1>8, <2>2 DEF DirectiveTable, DeadlineTable, Terminal
<1>9. CASE s.exact /\ s.st = "rolling_back"
  <2>1. d = ClassifyRollback(s.tg, s.timedOut)
    BY <1>9 DEF DirectiveFor, Classify, Terminal
  <2>2. \/ d = Directive("finish_rollback_failed", {})
        \/ d = Directive("finish_rolled_back", {}) /\ \A m \in Members : RollbackComplete(s.tg[m])
        \/ d = Directive("finish_indeterminate", {})
        \/ d = RollbackDirective(s.tg) /\ ~s.timedOut
    BY <2>1 DEF ClassifyRollback
  <2>3. \/ d.kind \in {"finish_rollback_failed", "finish_indeterminate"} /\ d.who = {}
        \/ /\ d.kind = "finish_rolled_back" /\ d.who = {}
           /\ \A m \in Members : RollbackComplete(s.tg[m])
        \/ d = RollbackDirective(s.tg) /\ ~s.timedOut
    BY <2>2 DEF Directive
  <2> HIDE DEF d
  <2> QED
    BY <1>9, <2>3, RollbackKind DEF DirectiveTable, DeadlineTable, Terminal
<1>10. s.st \in Active \cup Terminal /\ s.exact \in BOOLEAN
  BY DEF Snapshots, MutationStates
<1> QED
  BY <1>1, <1>2, <1>3, <1>4, <1>5, <1>6, <1>7, <1>8, <1>9, <1>10 DEF Active

-------------------------------------------------------------------------------
(* The plan of a directive, and the rows it leaves. *)

PlanTable(s, d, p) ==
  /\ d.kind = "validate" => /\ p.next = IF s.st = "claimed" THEN "validating" ELSE "keep"
                            /\ p.to = "validating"
  /\ d.kind = "apply_canary" =>
       /\ p.next = IF s.st = "validating" THEN "canary_applying" ELSE "keep"
       /\ p.to = "apply_assigned"
  /\ d.kind = "apply_expansion" =>
       /\ p.next = IF s.st = "canary_healthy" THEN "expanding" ELSE "keep"
       /\ p.to = "apply_assigned"
  /\ d.kind = "observe_canary" =>
       /\ p.next = IF s.st = "canary_applying" THEN "canary_healthy" ELSE "keep"
       /\ p.who = {}
  /\ d.kind = "commit" => /\ p.next = IF s.st = "expanding" THEN "fully_applied" ELSE "keep"
                          /\ p.who = {}
  /\ d.kind = "roll_back" =>
       /\ p.next = IF s.st = "rolling_back" THEN "keep" ELSE "rolling_back"
       /\ p.to = "rollback_assigned"
  /\ d.kind \in {"validate", "apply_canary", "apply_expansion", "roll_back"} =>
       p.who = {m \in d.who : p.to \in TargetEdges[s.tg[m].st]}
  /\ d.kind \notin {"validate", "apply_canary", "apply_expansion", "observe_canary",
                    "commit", "roll_back"} => p.next = "keep" /\ p.who = {}

LEMMA Plans ==
  ASSUME NEW s, NEW d
  PROVE  PlanTable(s, d, PlanFor(s.st, s.tg, d))
<1> DEFINE p == PlanFor(s.st, s.tg, d)
<1>1. CASE d.kind = "validate"
  BY <1>1 DEF PlanTable, PlanFor, Plan
<1>2. CASE d.kind = "apply_canary"
  BY <1>2 DEF PlanTable, PlanFor, Plan
<1>3. CASE d.kind = "apply_expansion"
  BY <1>3 DEF PlanTable, PlanFor, Plan
<1>4. CASE d.kind = "observe_canary"
  BY <1>4 DEF PlanTable, PlanFor, Plan
<1>5. CASE d.kind = "commit"
  BY <1>5 DEF PlanTable, PlanFor, Plan
<1>6. CASE d.kind = "roll_back"
  BY <1>6 DEF PlanTable, PlanFor, Plan
<1>7. CASE d.kind \notin {"validate", "apply_canary", "apply_expansion", "observe_canary",
                          "commit", "roll_back"}
  BY <1>7 DEF PlanTable, PlanFor, Plan
<1> QED
  BY <1>1, <1>2, <1>3, <1>4, <1>5, <1>6, <1>7

(* Which rows take an edge that a plan names. *)
LEMMA RowsThatMove ==
  ASSUME NEW st \in TargetStates
  PROVE  /\ "validating" \in TargetEdges[st] <=> st = "pending"
         /\ "apply_assigned" \in TargetEdges[st] <=> st = "validated"
         /\ "rollback_assigned" \in TargetEdges[st] <=> st \in {"applying", "acked", "nacked"}
  BY DEF TargetEdges, TargetStates

LEMMA SnapshotRows ==
  ASSUME NEW s \in Snapshots, NEW m \in Members
  PROVE  /\ s.tg[m].st \in TargetStates /\ s.tg[m].eff \in BOOLEAN /\ RowOk(s.tg[m])
         /\ PhaseOk(s.st, s.tg, Canary)
<1>1. s.tg \in [Members -> Rows] /\ PhaseOk(s.st, s.tg, Canary)
  BY DEF Snapshots
<1>2. s.tg[m] \in Rows
  BY <1>1
<1> QED
  BY <1>1, <1>2 DEF Rows

(* The snapshot that a plan leaves. *)
Moved(s, p) ==
  [st |-> IF p.next = "keep" THEN s.st ELSE p.next,
   tg |-> [m \in Members |-> IF m \in p.who THEN [s.tg[m] EXCEPT !.st = p.to] ELSE s.tg[m]]]

LEMMA MovedRows ==
  ASSUME NEW s \in Snapshots, NEW p, NEW m \in Members
  PROVE  /\ Moved(s, p).tg[m].eff = s.tg[m].eff
         /\ Moved(s, p).tg[m].st = IF m \in p.who THEN p.to ELSE s.tg[m].st
         /\ Moved(s, p).st = IF p.next = "keep" THEN s.st ELSE p.next
<1>1. s.tg[m] \in [st : TargetStates, eff : BOOLEAN]
  <2>1. s.tg \in [Members -> Rows]
    BY DEF Snapshots
  <2>2. s.tg[m] \in Rows
    BY <2>1
  <2> QED
    BY <2>2 DEF Rows
<1>2. Moved(s, p).tg[m] = IF m \in p.who THEN [s.tg[m] EXCEPT !.st = p.to] ELSE s.tg[m]
  BY DEF Moved
<1> QED
  BY <1>1, <1>2 DEF Moved

(* A row keeps its record of the effect: it moves back only after it began. *)
LEMMA RowsStaySound ==
  ASSUME NEW s \in Snapshots, NEW m \in Members
  PROVE  RowOk(Moved(s, PlanFor(s.st, s.tg, DirectiveFor(s))).tg[m])
<1> DEFINE d == DirectiveFor(s)
           p == PlanFor(s.st, s.tg, d)
           row == Moved(s, p).tg[m]
<1>1. /\ DirectiveTable(s, d) /\ PlanTable(s, d, p)
      /\ row.eff = s.tg[m].eff /\ row.st = IF m \in p.who THEN p.to ELSE s.tg[m].st
      /\ s.tg[m].st \in TargetStates /\ RowOk(s.tg[m]) /\ s.tg[m].eff \in BOOLEAN
      /\ s.st \in Active \cup Terminal
  <2>1. DirectiveTable(s, d)
    BY Directives
  <2>2. PlanTable(s, d, p)
    BY Plans
  <2>3. row.eff = s.tg[m].eff /\ row.st = IF m \in p.who THEN p.to ELSE s.tg[m].st
    BY MovedRows
  <2>4. s.tg[m].st \in TargetStates /\ RowOk(s.tg[m]) /\ s.tg[m].eff \in BOOLEAN
    BY SnapshotRows
  <2>5. s.st \in Active \cup Terminal
    BY DEF Snapshots, MutationStates
  <2> QED
    BY <2>1, <2>2, <2>3, <2>4, <2>5
<1> SUFFICES RowOk(row)
  OBVIOUS
<1> HIDE DEF d, p, row
<1>2. CASE m \notin p.who
  BY <1>1, <1>2 DEF RowOk
<1>3. CASE m \in p.who
  <2>1. d.kind \in {"validate", "apply_canary", "apply_expansion", "roll_back"}
        /\ m \in d.who /\ p.to \in TargetEdges[s.tg[m].st]
    BY <1>1, <1>3 DEF PlanTable
  <2>2. CASE d.kind \in {"validate", "apply_canary", "apply_expansion"}
    <3>1. p.to \in {"validating", "apply_assigned"}
      BY <1>1, <2>2 DEF PlanTable
    <3>2. s.tg[m].st \in {"pending", "validated"}
      BY <1>1, <2>1, <3>1, RowsThatMove
    <3> QED
      BY <1>1, <1>3, <3>1, <3>2 DEF RowOk, Effected
  <2>3. CASE d.kind = "roll_back"
    <3>1. p.to = "rollback_assigned"
      BY <1>1, <2>3 DEF PlanTable
    <3>2. d = RollbackDirective(s.tg)
      BY <1>1, <2>3 DEF DirectiveTable, Active, Terminal
    <3>3. s.tg[m].eff \/ s.tg[m].st \in {"applying", "acked", "rollback_assigned", "rolling_back"}
      BY <2>1, <3>2, RollbackKind
    <3>4. s.tg[m].eff
      BY <1>1, <3>3 DEF RowOk, Effected
    <3> QED
      BY <1>1, <1>3, <3>1, <3>4 DEF RowOk, Effected
  <2> QED
    BY <2>1, <2>2, <2>3
<1> QED
  BY <1>2, <1>3

(* Phase and rows agree again after the plan. *)
LEMMA PhaseStaysSound ==
  ASSUME NEW s \in Snapshots
  PROVE  LET p == PlanFor(s.st, s.tg, DirectiveFor(s))
         IN PhaseOk(Moved(s, p).st, Moved(s, p).tg, Canary)
<1> DEFINE d == DirectiveFor(s)
           p == PlanFor(s.st, s.tg, d)
           st == Moved(s, p).st
           tg == Moved(s, p).tg
<1> USE CanaryAssumption
<1>1. DirectiveTable(s, d)
  BY Directives
<1>2. PlanTable(s, d, p)
  BY Plans
<1>3. \A m \in Members : /\ tg[m].eff = s.tg[m].eff
                         /\ tg[m].st = IF m \in p.who THEN p.to ELSE s.tg[m].st
  BY MovedRows
<1>4. st = IF p.next = "keep" THEN s.st ELSE p.next
  BY MovedRows
<1>5. \A m \in Members : /\ s.tg[m].st \in TargetStates /\ RowOk(s.tg[m])
                         /\ "validating" \in TargetEdges[s.tg[m].st] <=> s.tg[m].st = "pending"
                         /\ "apply_assigned" \in TargetEdges[s.tg[m].st] <=> s.tg[m].st = "validated"
  BY SnapshotRows, RowsThatMove
<1>6. PhaseOk(s.st, s.tg, Canary)
  BY SnapshotRows
<1>7. s.st \in Active \cup Terminal
  BY DEF Snapshots, MutationStates
<1> SUFFICES PhaseOk(st, tg, Canary)
  OBVIOUS
<1> HIDE DEF d, p, st, tg
<1>8. CASE d.kind = "roll_back" \/ s.st = "rolling_back"
  <2>1. st = "rolling_back"
    BY <1>1, <1>2, <1>4, <1>8, RollbackKind DEF DirectiveTable, PlanTable
  <2> QED
    BY <2>1 DEF PhaseOk
<1>9. CASE p.who = {} /\ p.next = "keep"
  BY <1>3, <1>4, <1>6, <1>9 DEF PhaseOk
<1>10. CASE s.st = "claimed" /\ d.kind = "validate"
  <2>1. st = "validating" /\ p.to = "validating"
    BY <1>2, <1>4, <1>10 DEF PlanTable
  <2>2. \A m \in Members : s.tg[m].st = "pending" /\ ~s.tg[m].eff
    BY <1>5, <1>6, <1>10 DEF PhaseOk, RowOk, Effected
  <2>3. \A m \in Members : tg[m].st \in {"pending", "validating"} /\ ~tg[m].eff
    BY <1>3, <2>1, <2>2
  <2> QED
    BY <2>1, <2>3 DEF PhaseOk
<1>11. CASE s.st = "validating" /\ d.kind = "validate"
  <2>1. st = "validating" /\ p.to = "validating"
    BY <1>2, <1>4, <1>11 DEF PlanTable
  <2>2. \A m \in Members : /\ s.tg[m].st \in {"pending", "validating", "validated", "nacked"}
                           /\ ~s.tg[m].eff
    BY <1>6, <1>11 DEF PhaseOk
  <2>3. \A m \in Members : /\ tg[m].st \in {"pending", "validating", "validated", "nacked"}
                           /\ ~tg[m].eff
    BY <1>3, <2>1, <2>2
  <2> QED
    BY <2>1, <2>3 DEF PhaseOk
<1>12. CASE s.st = "validating" /\ d.kind = "apply_canary"
  <2>1. /\ st = "canary_applying" /\ p.to = "apply_assigned" /\ d.who = {Canary}
        /\ p.who = {m \in d.who : p.to \in TargetEdges[s.tg[m].st]}
        /\ \A m \in Members : s.tg[m].st \in {"validated", "applying"}
    BY <1>1, <1>2, <1>4, <1>12 DEF PlanTable, DirectiveTable
  <2>2. \A m \in Members : s.tg[m].st = "validated"
    BY <1>6, <1>12, <2>1 DEF PhaseOk
  <2>3. p.who = {Canary}
    BY <1>5, <2>1, <2>2
  <2>4. tg[Canary].st = "apply_assigned" /\ \A m \in Members : m # Canary => tg[m].st = "validated"
    BY <1>3, <2>1, <2>2, <2>3
  <2> QED
    BY <2>1, <2>4 DEF PhaseOk
<1>13. CASE s.st = "canary_applying" /\ d.kind = "observe_canary"
  <2>1. st = "canary_healthy" /\ p.who = {} /\ s.tg[Canary].st = "acked"
    BY <1>1, <1>2, <1>4, <1>13, RollbackKind DEF PlanTable, DirectiveTable
  <2>2. tg[Canary].st = "acked" /\ \A m \in Members : m # Canary => tg[m].st = "validated"
    BY <1>3, <1>6, <1>13, <2>1 DEF PhaseOk
  <2> QED
    BY <2>1, <2>2 DEF PhaseOk
<1>14. CASE s.st = "canary_applying" /\ d.kind = "apply_canary"
  <2>1. /\ p.next = "keep" /\ p.to = "apply_assigned" /\ d.who = {Canary}
        /\ p.who = {m \in d.who : p.to \in TargetEdges[s.tg[m].st]}
    BY <1>1, <1>2, <1>14, RollbackKind DEF PlanTable, DirectiveTable
  <2>2. s.tg[Canary].st # "validated"
    BY <1>6, <1>14 DEF PhaseOk
  <2>3. p.who = {}
    BY <1>5, <2>1, <2>2
  <2> QED
    BY <1>9, <2>1, <2>3
<1>15. CASE s.st \in {"canary_healthy", "expanding"} /\ d.kind = "apply_expansion"
  <2>1. st = "expanding" /\ p.to = "apply_assigned"
        /\ p.who = {m \in d.who : p.to \in TargetEdges[s.tg[m].st]}
    BY <1>2, <1>4, <1>15 DEF PlanTable
  <2>2. /\ s.tg[Canary].st = "acked"
        /\ \A m \in Members : m # Canary =>
             s.tg[m].st \in {"validated", "apply_assigned", "applying", "acked", "nacked"}
    BY <1>6, <1>15 DEF PhaseOk
  <2>3. Canary \notin p.who
    BY <1>5, <2>1, <2>2
  <2>4. /\ tg[Canary].st = "acked"
        /\ \A m \in Members : m # Canary =>
             tg[m].st \in {"validated", "apply_assigned", "applying", "acked", "nacked"}
    BY <1>3, <2>1, <2>2, <2>3
  <2> QED
    BY <2>1, <2>4 DEF PhaseOk
<1>16. CASE s.st = "expanding" /\ d.kind = "commit"
  <2>1. st = "fully_applied" /\ p.who = {} /\ \A m \in Members : s.tg[m].st = "acked"
    BY <1>1, <1>2, <1>4, <1>16, RollbackKind DEF PlanTable, DirectiveTable
  <2>2. \A m \in Members : tg[m].st = "acked"
    BY <1>3, <2>1
  <2> QED
    BY <2>1, <2>2 DEF PhaseOk
<1>17. \/ d.kind = "roll_back"
       \/ s.st = "rolling_back"
       \/ p.who = {} /\ p.next = "keep"
       \/ s.st = "claimed" /\ d.kind = "validate"
       \/ s.st = "validating" /\ d.kind \in {"validate", "apply_canary"}
       \/ s.st = "canary_applying" /\ d.kind \in {"observe_canary", "apply_canary"}
       \/ s.st \in {"canary_healthy", "expanding"} /\ d.kind = "apply_expansion"
       \/ s.st = "expanding" /\ d.kind = "commit"
  <2> DEFINE idle == p.who = {} /\ p.next = "keep"
  <2>1. /\ d.kind \in {"completed", "await_membership", "await_validation",
                       "fail_before_apply"} => idle
        /\ d.kind = "observe_canary" /\ s.st # "canary_applying" => idle
        /\ d.kind = "commit" /\ s.st # "expanding" => idle
    BY <1>2 DEF PlanTable
  <2> HIDE DEF idle
  <2>2. d = RollbackDirective(s.tg) => d.kind = "roll_back"
    BY RollbackKind
  <2>3. CASE s.st \in Terminal
    BY <1>1, <2>1, <2>3 DEF DirectiveTable, idle
  <2>4. CASE s.st = "claimed"
    BY <1>1, <2>1, <2>4 DEF DirectiveTable, idle
  <2>5. CASE s.st = "validating"
    <3>1. d.kind \in {"validate", "await_validation", "await_membership", "fail_before_apply",
                      "apply_canary"}
      BY <1>1, <2>5 DEF DirectiveTable
    <3> QED
      BY <2>1, <2>5, <3>1 DEF idle
  <2>6. CASE s.st \in {"canary_applying", "canary_healthy"}
    <3>1. /\ d.kind \in {"observe_canary", "apply_canary", "apply_expansion", "roll_back"}
          /\ d.kind = "apply_canary" => s.st = "canary_applying"
          /\ d.kind = "apply_expansion" => s.st = "canary_healthy"
      BY <1>1, <2>2, <2>6 DEF DirectiveTable
    <3> QED
      BY <2>1, <2>6, <3>1 DEF idle
  <2>7. CASE s.st \in {"expanding", "fully_applied"}
    <3>1. /\ d.kind \in {"commit", "apply_expansion", "roll_back"}
          /\ d.kind = "apply_expansion" => s.st = "expanding"
      BY <1>1, <2>2, <2>7 DEF DirectiveTable
    <3> QED
      BY <2>1, <2>7, <3>1 DEF idle
  <2> QED
    BY <1>7, <2>3, <2>4, <2>5, <2>6, <2>7 DEF Active
<1> QED
  BY <1>8, <1>9, <1>10, <1>11, <1>12, <1>13, <1>14, <1>15, <1>16, <1>17

-------------------------------------------------------------------------------
(* The edges a verdict takes. *)

LEMMA EdgeTable ==
  /\ "validating" \in MutationEdges["claimed"] /\ "failed" \in MutationEdges["claimed"]
  /\ "canary_applying" \in MutationEdges["validating"] /\ "failed" \in MutationEdges["validating"]
  /\ "canary_healthy" \in MutationEdges["canary_applying"]
  /\ "expanding" \in MutationEdges["canary_healthy"]
  /\ "fully_applied" \in MutationEdges["expanding"]
  /\ "committed" \in MutationEdges["fully_applied"]
  /\ \A st \in {"canary_applying", "canary_healthy", "expanding", "fully_applied"} :
       "rolling_back" \in MutationEdges[st]
  /\ {"rolled_back", "rollback_failed", "indeterminate"} \subseteq MutationEdges["rolling_back"]
  BY DEF MutationEdges, MutationStates, Active, Terminal

TerminalTable(s, d, f) ==
  /\ f = "committed" => d.kind = "commit" /\ s.st # "expanding"
  /\ f = "failed" => d.kind = "fail_before_apply"
  /\ f = "rolled_back" => d.kind = "finish_rolled_back"
  /\ f = "rollback_failed" => d.kind = "finish_rollback_failed"
  /\ f = "indeterminate" => d.kind = "finish_indeterminate"
  /\ f \in {"committed", "failed", "rolled_back", "rollback_failed", "indeterminate", "keep"}
  /\ d.kind \in {"fail_before_apply", "finish_rolled_back", "finish_rollback_failed",
                 "finish_indeterminate"} => f # "keep"
  /\ d.kind = "commit" /\ s.st # "expanding" => f # "keep"

LEMMA Terminals ==
  ASSUME NEW s, NEW d
  PROVE  TerminalTable(s, d, TerminalFor(s.st, d))
  BY DEF TerminalTable, TerminalFor

-------------------------------------------------------------------------------
(* The verdict of a snapshot, as the properties state it. *)

VerdictHolds(s, p, f) ==
  /\ p.next # "keep" => p.next \in MutationEdges[s.st]
  /\ \A m \in Members : RowOk(Moved(s, p).tg[m])
  /\ PhaseOk(Moved(s, p).st, Moved(s, p).tg, Canary)
  /\ f # "keep" => f \in MutationEdges[s.st]
  /\ f = "committed" => \A m \in Members : s.tg[m].st = "acked"
  /\ f = "failed" => \A m \in Members : ~s.tg[m].eff
  /\ f = "rolled_back" => \A m \in Members : s.tg[m].eff => s.tg[m].st = "rolled_back"

LEMMA VerdictsHold ==
  ASSUME NEW s \in Snapshots
  PROVE  LET d == DirectiveFor(s)
         IN VerdictHolds(s, PlanFor(s.st, s.tg, d), TerminalFor(s.st, d))
<1> DEFINE d == DirectiveFor(s)
           p == PlanFor(s.st, s.tg, d)
           f == TerminalFor(s.st, d)
<1>1. DirectiveTable(s, d)
  BY Directives
<1>2. PlanTable(s, d, p)
  BY Plans
<1>3. TerminalTable(s, d, f)
  BY Terminals
<1>4. PhaseOk(Moved(s, p).st, Moved(s, p).tg, Canary)
  BY PhaseStaysSound
<1>5. \A m \in Members : RowOk(Moved(s, p).tg[m])
  BY RowsStaySound
<1>6. s.st \in Active \cup Terminal
  BY DEF Snapshots, MutationStates
<1>7. \A m \in Members : RowOk(s.tg[m])
  BY SnapshotRows
<1>8. PhaseOk(s.st, s.tg, Canary)
  BY SnapshotRows, CanaryAssumption
<1> SUFFICES VerdictHolds(s, p, f)
  OBVIOUS
<1> HIDE DEF d, p, f
<1>9. d = RollbackDirective(s.tg) => d.kind = "roll_back"
  BY RollbackKind
<1>10. CASE s.st \in Terminal
  <2>1. d.kind = "completed"
    BY <1>1, <1>10 DEF DirectiveTable
  <2>2. p.next = "keep" /\ f = "keep"
    BY <1>2, <1>3, <2>1 DEF PlanTable, TerminalTable
  <2> QED
    BY <1>4, <1>5, <2>2 DEF VerdictHolds
<1>11. CASE s.st \in {"claimed", "validating"}
  <2>1. /\ d.kind \in {"validate", "await_validation", "await_membership", "fail_before_apply",
                       "apply_canary"}
        /\ d.kind = "apply_canary" => s.st = "validating"
    BY <1>1, <1>11 DEF DirectiveTable
  <2>2. /\ p.next \in {"keep", "validating", "canary_applying"}
        /\ p.next = "validating" => s.st = "claimed"
        /\ p.next = "canary_applying" => s.st = "validating"
    BY <1>2, <2>1 DEF PlanTable
  <2>3. f \in {"keep", "failed"}
    BY <1>3, <2>1 DEF TerminalTable
  <2>4. \A m \in Members : ~s.tg[m].eff
    BY <1>7, <1>8, <1>11 DEF PhaseOk, RowOk, Effected
  <2> QED
    BY <1>4, <1>5, <1>11, <2>2, <2>3, <2>4, EdgeTable DEF VerdictHolds
<1>12. CASE s.st \in {"canary_applying", "canary_healthy", "expanding"}
  <2>1. d.kind \in {"observe_canary", "apply_canary", "apply_expansion", "roll_back", "commit"}
        /\ (d.kind = "commit" => s.st = "expanding")
    BY <1>1, <1>9, <1>12 DEF DirectiveTable
  <2>2. /\ p.next \in {"keep", "canary_healthy", "expanding", "fully_applied", "rolling_back"}
        /\ p.next = "canary_healthy" => s.st = "canary_applying"
        /\ p.next = "expanding" => s.st = "canary_healthy"
        /\ p.next = "fully_applied" => s.st = "expanding"
    BY <1>2, <1>12, <2>1 DEF PlanTable
  <2>3. f = "keep"
    BY <1>3, <2>1 DEF TerminalTable
  <2>4. p.next # "keep" => p.next \in MutationEdges[s.st]
    BY <1>12, <2>2, EdgeTable
  <2> QED
    BY <1>4, <1>5, <2>3, <2>4 DEF VerdictHolds
<1>13. CASE s.st = "fully_applied"
  <2>1. d.kind \in {"commit", "roll_back"}
    BY <1>1, <1>9, <1>13 DEF DirectiveTable
  <2>2. p.next \in {"keep", "rolling_back"}
    BY <1>2, <1>13, <2>1 DEF PlanTable
  <2>3. f \in {"keep", "committed"}
    BY <1>3, <2>1 DEF TerminalTable
  <2>4. \A m \in Members : s.tg[m].st = "acked"
    BY <1>8, <1>13 DEF PhaseOk
  <2> QED
    BY <1>4, <1>5, <1>13, <2>2, <2>3, <2>4, EdgeTable DEF VerdictHolds
<1>14. CASE s.st = "rolling_back"
  <2>1. /\ d.kind \in {"finish_rollback_failed", "finish_indeterminate", "finish_rolled_back",
                       "roll_back"}
        /\ d.kind = "finish_rolled_back" => \A m \in Members : RollbackComplete(s.tg[m])
    BY <1>1, <1>9, <1>14 DEF DirectiveTable
  <2>2. p.next = "keep"
    BY <1>2, <1>14, <2>1 DEF PlanTable
  <2>3. /\ f \in {"keep", "rolled_back", "rollback_failed", "indeterminate"}
        /\ f = "rolled_back" => d.kind = "finish_rolled_back"
    BY <1>3, <2>1 DEF TerminalTable
  <2>4. f = "rolled_back" => \A m \in Members : s.tg[m].eff => s.tg[m].st = "rolled_back"
    BY <2>1, <2>3 DEF RollbackComplete
  <2> QED
    BY <1>4, <1>5, <1>14, <2>2, <2>3, <2>4, EdgeTable DEF VerdictHolds
<1> QED
  BY <1>6, <1>10, <1>11, <1>12, <1>13, <1>14 DEF Active

LEMMA RollbacksReach ==
  ASSUME NEW s \in Snapshots, DirectiveFor(s).kind = "roll_back",
         NEW m \in Members, s.tg[m].eff
  PROVE  Moved(s, PlanFor(s.st, s.tg, DirectiveFor(s))).tg[m].st
           \in {"rollback_assigned", "rolling_back", "rolled_back", "rollback_failed"}
<1> DEFINE d == DirectiveFor(s)
           p == PlanFor(s.st, s.tg, d)
<1>1. DirectiveTable(s, d)
  BY Directives
<1>2. PlanTable(s, d, p)
  BY Plans
<1>3. Moved(s, p).tg[m].st = IF m \in p.who THEN p.to ELSE s.tg[m].st
  BY MovedRows
<1>4. s.st \in Active \cup Terminal
  BY DEF Snapshots, MutationStates
<1>5. s.tg[m].st \in TargetStates /\ RowOk(s.tg[m])
  BY SnapshotRows
<1>6. d.kind = "roll_back"
  OBVIOUS
<1> SUFFICES Moved(s, p).tg[m].st
               \in {"rollback_assigned", "rolling_back", "rolled_back", "rollback_failed"}
  OBVIOUS
<1> HIDE DEF d, p
<1>7. d = RollbackDirective(s.tg)
  BY <1>1, <1>4, <1>6 DEF DirectiveTable, Active, Terminal
<1>8. m \in d.who
  BY <1>7, RollbackKind
<1>9. /\ p.to = "rollback_assigned"
      /\ p.who = {x \in d.who : p.to \in TargetEdges[s.tg[x].st]}
  BY <1>2, <1>6 DEF PlanTable
<1>10. s.tg[m].st \in Effected
  BY <1>5 DEF RowOk
<1>11. CASE s.tg[m].st \in {"applying", "acked", "nacked"}
  BY <1>3, <1>5, <1>8, <1>9, <1>11, RowsThatMove
<1>12. CASE s.tg[m].st \notin {"applying", "acked", "nacked"}
  BY <1>3, <1>9, <1>10, <1>12 DEF Effected
<1> QED
  BY <1>11, <1>12

LEMMA DeadlinesDecide ==
  ASSUME NEW s \in Snapshots, s.timedOut, s.st \in Active
  PROVE  LET d == DirectiveFor(s)
         IN TerminalFor(s.st, d) # "keep" \/ PlanFor(s.st, s.tg, d).next # "keep"
<1> DEFINE d == DirectiveFor(s)
           p == PlanFor(s.st, s.tg, d)
           f == TerminalFor(s.st, d)
<1>1. DirectiveTable(s, d) /\ DeadlineTable(s, d)
  BY Directives
<1>2. PlanTable(s, d, p)
  BY Plans
<1>3. TerminalTable(s, d, f)
  BY Terminals
<1> SUFFICES f # "keep" \/ p.next # "keep"
  OBVIOUS
<1> HIDE DEF d, p, f
<1>4. d = RollbackDirective(s.tg) => d.kind = "roll_back"
  BY RollbackKind
<1>5. \/ d.kind \in {"fail_before_apply", "finish_rolled_back", "finish_rollback_failed",
                     "finish_indeterminate"}
      \/ d.kind = "commit" /\ s.st = "fully_applied"
      \/ d.kind = "roll_back" /\ s.st # "rolling_back"
      \/ d.kind = "observe_canary" /\ s.st = "canary_applying"
      \/ d.kind = "validate" /\ s.st = "claimed"
  BY <1>1, <1>4 DEF DirectiveTable, DeadlineTable, Active
<1>6. CASE d.kind \in {"fail_before_apply", "finish_rolled_back", "finish_rollback_failed",
                       "finish_indeterminate"}
  BY <1>3, <1>6 DEF TerminalTable
<1>7. CASE d.kind = "commit" /\ s.st = "fully_applied"
  BY <1>3, <1>7 DEF TerminalTable
<1>8. CASE \/ d.kind = "roll_back" /\ s.st # "rolling_back"
           \/ d.kind = "observe_canary" /\ s.st = "canary_applying"
           \/ d.kind = "validate" /\ s.st = "claimed"
  BY <1>2, <1>8 DEF PlanTable
<1> QED
  BY <1>5, <1>6, <1>7, <1>8

-------------------------------------------------------------------------------
(* A verdict is that of the snapshot. *)

DecisionInv == snap \in Snapshots /\ (Decided => verdict = Verdict(snap))

LEMMA DecisionInductive == DecisionSpec => []DecisionInv
<1>1. DecisionInit => DecisionInv
  BY DEF DecisionInit, DecisionInv, Decided
<1>2. DecisionInv /\ [Reconcile]_<<snap, verdict>> => DecisionInv'
  <2> SUFFICES ASSUME DecisionInv, [Reconcile]_<<snap, verdict>> PROVE DecisionInv'
    OBVIOUS
  <2>1. CASE Reconcile
    BY <2>1 DEF DecisionInv, Decided, Reconcile
  <2>2. CASE UNCHANGED <<snap, verdict>>
    BY <2>2 DEF DecisionInv, Decided
  <2> QED
    BY <2>1, <2>2
<1> QED
  BY <1>1, <1>2, PTL DEF DecisionSpec

LEMMA VerdictParts ==
  ASSUME DecisionInv, Decided
  PROVE  /\ verdict.kind = DirectiveFor(snap).kind
         /\ verdict.plan = PlanFor(snap.st, snap.tg, DirectiveFor(snap))
         /\ verdict.fin = TerminalFor(snap.st, DirectiveFor(snap))
         /\ AfterPlan = Moved(snap, verdict.plan)
<1>1. verdict = Verdict(snap)
  BY DEF DecisionInv
<1>2. /\ Verdict(snap).kind = DirectiveFor(snap).kind
      /\ Verdict(snap).plan = PlanFor(snap.st, snap.tg, DirectiveFor(snap))
      /\ Verdict(snap).fin = TerminalFor(snap.st, DirectiveFor(snap))
  BY DEF Verdict, DirectiveFor
<1>3. AfterPlan = Moved(snap, verdict.plan)
  BY DEF AfterPlan, Moved
<1> QED
  BY <1>1, <1>2, <1>3

(* Of every consistent snapshot, of a membership of any size, the plan takes a legal
   edge and leaves phase and rows in agreement, and the terminal state is a
   legal edge and true of the rows (classify, transition_plan).               *)
THEOREM VerdictsAreSound == DecisionSpec => []VerdictSound
<1>1. DecisionInv => VerdictSound
  <2> SUFFICES ASSUME DecisionInv, Decided PROVE VerdictSound
    BY DEF VerdictSound
  <2>1. VerdictHolds(snap, PlanFor(snap.st, snap.tg, DirectiveFor(snap)),
                     TerminalFor(snap.st, DirectiveFor(snap)))
    BY VerdictsHold DEF DecisionInv
  <2>2. VerdictHolds(snap, verdict.plan, verdict.fin) /\ AfterPlan = Moved(snap, verdict.plan)
    BY <2>1, VerdictParts
  <2> QED
    BY <2>2 DEF VerdictHolds, VerdictSound
<1> QED
  BY <1>1, DecisionInductive, PTL

(* A rollback reaches every member whose effect may have started, whatever state its
   row is in (rollback_directive, transition_plan).                           *)
THEOREM RollbackIsComplete == DecisionSpec => []RollbackReaches
<1>1. DecisionInv => RollbackReaches
  <2> SUFFICES ASSUME DecisionInv, Decided, verdict.kind = "roll_back",
                      NEW m \in Members, snap.tg[m].eff
               PROVE  AfterPlan.tg[m].st
                        \in {"rollback_assigned", "rolling_back", "rolled_back", "rollback_failed"}
    BY DEF RollbackReaches
  <2>1. snap \in Snapshots /\ DirectiveFor(snap).kind = "roll_back"
    BY VerdictParts DEF DecisionInv
  <2>2. Moved(snap, PlanFor(snap.st, snap.tg, DirectiveFor(snap))).tg[m].st
          \in {"rollback_assigned", "rolling_back", "rolled_back", "rollback_failed"}
    BY <2>1, RollbacksReach
  <2> QED
    BY <2>2, VerdictParts
<1> QED
  BY <1>1, DecisionInductive, PTL

(* No phase of any rollout waits beyond its deadline: the classifier then always
   advances, rolls back or finishes.                                          *)
THEOREM DeadlinesAreFinal == DecisionSpec => []DeadlineDecides
<1>1. DecisionInv => DeadlineDecides
  <2> SUFFICES ASSUME DecisionInv, Decided, snap.timedOut, snap.st \in Active
               PROVE  verdict.fin # "keep" \/ verdict.plan.next # "keep"
    BY DEF DeadlineDecides
  <2>1. \/ TerminalFor(snap.st, DirectiveFor(snap)) # "keep"
        \/ PlanFor(snap.st, snap.tg, DirectiveFor(snap)).next # "keep"
    BY DeadlinesDecide DEF DecisionInv
  <2> QED
    BY <2>1, VerdictParts
<1> QED
  BY <1>1, DecisionInductive, PTL

===============================================================================
