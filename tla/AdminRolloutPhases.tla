-------------------------- MODULE AdminRolloutPhases --------------------------
(* Proofs about the target rows of AdminRollout.  First the record of started
   effects (EffectRecorded) and the checkpoints that cover them
   (EffectCheckpointed).  Then the agreement of a mutation's phase with its rows
   (PhaseAgreement), although coordinators decide on rows they read earlier: the
   strengthening says what a worker's step and a coordinator's plan still know
   about the ledger when they are carried out.  Last, that the rows a commit
   relies on are true of the processes themselves (CommitConverged).         *)
EXTENDS AdminRolloutProofs

-------------------------------------------------------------------------------
(* The sources of every edge of a target row (TargetState::may_transition_to). *)
LEMMA EdgesInto ==
  ASSUME NEW s \in TargetStates
  PROVE  /\ "validating" \in TargetEdges[s] => s = "pending"
         /\ "validated" \in TargetEdges[s] => s = "validating"
         /\ "apply_assigned" \in TargetEdges[s] => s = "validated"
         /\ "applying" \in TargetEdges[s] => s \in {"validating", "apply_assigned"}
         /\ "acked" \in TargetEdges[s] => s = "applying"
         /\ "nacked" \in TargetEdges[s] =>
              s \in {"pending", "validating", "validated", "apply_assigned", "applying"}
         /\ "rollback_assigned" \in TargetEdges[s] => s \in {"applying", "acked", "nacked"}
         /\ "rolling_back" \in TargetEdges[s] =>
              s \in {"applying", "acked", "nacked", "rollback_assigned"}
         /\ "rolled_back" \in TargetEdges[s] => s = "rolling_back"
         /\ "rollback_failed" \in TargetEdges[s] => s \in {"rollback_assigned", "rolling_back"}
<1>1. /\ TargetEdges["pending"] = {"validating", "nacked"}
      /\ TargetEdges["validating"] = {"validated", "applying", "nacked"}
      /\ TargetEdges["validated"] = {"apply_assigned", "nacked"}
      /\ TargetEdges["apply_assigned"] = {"applying", "nacked"}
      /\ TargetEdges["applying"] = {"acked", "nacked", "rollback_assigned", "rolling_back"}
      /\ TargetEdges["acked"] = {"rollback_assigned", "rolling_back"}
      /\ TargetEdges["nacked"] = {"rollback_assigned", "rolling_back"}
      /\ TargetEdges["rollback_assigned"] = {"rolling_back", "rollback_failed"}
      /\ TargetEdges["rolling_back"] = {"rolled_back", "rollback_failed"}
      /\ TargetEdges["rolled_back"] = {}
      /\ TargetEdges["rollback_failed"] = {}
  BY DEF TargetEdges, TargetStates
<1> QED
  BY <1>1 DEF TargetStates

(* What a member may write into its own row. *)
Reports == {"validated", "nacked", "applying", "acked", "rolling_back", "rolled_back",
            "rollback_failed"}

MemberWrites(r, m, to) ==
  /\ \E row : TransitionTarget(m, r, row, to)
  /\ UNCHANGED <<committed, mut, ckpt, co>>

(* A step writes target rows in one of two ways, or not at all. *)
LEMMA TargetStep ==
  ASSUME TypeOK, [Next]_vars
  PROVE  \/ UNCHANGED tgt
         \/ \E m \in Members : CoordinatorPlans(m)
         \/ \E r \in Requests, m \in Members, to \in Reports : MemberWrites(r, m, to)
<1> DEFINE Quiet == UNCHANGED tgt
           Written == \E r \in Requests, m \in Members, to \in Reports : MemberWrites(r, m, to)
<1>1. ASSUME NEW m \in Members, NEW r \in Requests, Admit(m, r) PROVE Quiet
  BY <1>1 DEF Admit
<1>2. ASSUME NEW m \in Members, Coordinator(m), ~CoordinatorPlans(m) PROVE Quiet
  BY <1>2 DEF Coordinator, CoordinatorReads, CoordinatorAcquires, CoordinatorFinishes,
              CoordinatorFails, store
<1>3. ASSUME NEW m \in Members, MemberLoop(m) PROVE Quiet \/ Written
  <2>1. wk[m].at \in WorkSteps => wk[m].req \in Requests
    BY DEF TypeOK
  <2>2. CASE Validate(m)
    BY <2>1, <2>2 DEF Validate, MemberWrites, Reports, WorkSteps, WorkerSteps
  <2>3. CASE MarkApplying(m)
    BY <2>1, <2>3 DEF MarkApplying, MemberWrites, Reports, WorkSteps, WorkerSteps
  <2>4. CASE Report(m)
    <3>1. PICK to \in {"acked", "nacked"} : TransitionTarget(m, wk[m].req, tgt[wk[m].req][m], to)
      BY <2>4 DEF Report
    <3>2. wk[m].req \in Requests /\ UNCHANGED <<committed, mut, ckpt, co>>
      BY <2>1, <2>4 DEF Report, WorkSteps, WorkerSteps
    <3> QED BY <3>1, <3>2 DEF MemberWrites, Reports
  <2>5. CASE RecoverApplying(m)
    BY <2>1, <2>5 DEF RecoverApplying, MemberWrites, Reports, WorkSteps, WorkerSteps
  <2>6. CASE BeginRollback(m)
    BY <2>1, <2>6 DEF BeginRollback, MemberWrites, Reports, WorkSteps, WorkerSteps
  <2>7. CASE EndRollback(m)
    <3>1. wk[m].at \in Reports /\ wk[m].req \in Requests
      BY <2>1, <2>7 DEF EndRollback, Reports, WorkSteps, WorkerSteps
    <3>2. TransitionTarget(m, wk[m].req, wk[m].row, wk[m].at) /\ UNCHANGED <<committed, mut, ckpt, co>>
      BY <2>7 DEF EndRollback
    <3> QED BY <3>1, <3>2 DEF MemberWrites
  <2>8. CASE ~(Validate(m) \/ MarkApplying(m) \/ Report(m) \/ RecoverApplying(m)
               \/ BeginRollback(m) \/ EndRollback(m))
    BY <1>3, <2>8
    DEF MemberLoop, LoadWork, WriteCheckpoint, PublishUnready, ApplyCandidate, PublishApplied,
        Restore, PublishRestored, WorkerFails, ScanFails, StartPublish, StartReady, Converge,
        ConvergeApply, StartFails, store
  <2> QED BY <2>2, <2>3, <2>4, <2>5, <2>6, <2>7, <2>8
<1>4. ASSUME NEW m \in Members, Process(m) PROVE Quiet
  BY <1>4 DEF Process, Crash, Shutdown, Boot, LoseHeartbeat, Heartbeat, store
<1>5. ASSUME NEW r \in Requests, ExpireLease(r) \/ Age(r) PROVE Quiet
  BY <1>5 DEF ExpireLease, Age
<1>6. CASE UNCHANGED vars
  BY <1>6 DEF vars
<1> QED
  BY <1>1, <1>2, <1>3, <1>4, <1>5, <1>6 DEF Next

(* The row a member writes, and the row a plan writes, field by field. *)
LEMMA MemberWrite ==
  ASSUME TypeOK, NEW r \in Requests, NEW m \in Members, NEW to \in Reports,
         MemberWrites(r, m, to)
  PROVE  /\ to \in TargetEdges[tgt[r][m].st]
         /\ tgt'[r][m].st = to
         /\ tgt'[r][m].asg = tgt[r][m].asg
         /\ tgt'[r][m].eff = (tgt[r][m].eff \/ to \in {"applying", "rolling_back"})
         /\ to \in {"applying", "rolling_back"} => ckpt[r][m] # 0 /\ ckpt[r][m] = tgt[r][m].asg
         /\ \A q \in Requests, x \in Members : ~(q = r /\ x = m) => tgt'[q][x] = tgt[q][x]
         /\ UNCHANGED <<committed, mut, ckpt, co>>
<1>1. PICK row : TransitionTarget(m, r, row, to)
  BY DEF MemberWrites
<1>2. /\ tgt[r][m] \in TargetRow /\ tgt[r] \in [Members -> TargetRow]
      /\ tgt \in [Requests -> [Members -> TargetRow]]
  BY DEF TypeOK
<1>3. /\ to \in TargetEdges[tgt[r][m].st]
      /\ to \in {"applying", "rolling_back"} => ckpt[r][m] # 0 /\ ckpt[r][m] = tgt[r][m].asg
  BY <1>1 DEF TransitionTarget, TargetFence
<1>4. tgt' = [tgt EXCEPT ![r] = [tgt[r] EXCEPT ![m] = MovedTarget(m, tgt[r][m], to)]]
  BY <1>1, <1>2 DEF TransitionTarget
<1>5. LET row2 == MovedTarget(m, tgt[r][m], to)
      IN  /\ row2.st = to /\ row2.asg = tgt[r][m].asg
          /\ row2.eff = (tgt[r][m].eff \/ to \in {"applying", "rolling_back"})
  BY <1>2 DEF MovedTarget, TargetRow
<1> QED
  BY <1>2, <1>3, <1>4, <1>5 DEF MemberWrites

LEMMA PlanWrite ==
  ASSUME TypeOK, NEW m \in Members, CoordinatorPlans(m)
  PROVE  LET r == co[m].req
             plan == co[m].plan
         IN  /\ r \in Requests /\ plan.who \subseteq Members /\ plan.to \in TargetStates
             /\ \A q \in Requests, x \in Members :
                  ~(q = r /\ x \in plan.who) => tgt'[q][x] = tgt[q][x]
             /\ \A x \in plan.who :
                  /\ plan.to \in TargetEdges[tgt[r][x].st]
                  /\ tgt[r][x].st = co[m].rows[x].st
                  /\ tgt'[r][x].st = plan.to
                  /\ tgt'[r][x].eff = tgt[r][x].eff
                  /\ plan.to \notin {"validating", "apply_assigned"} =>
                       tgt'[r][x].asg = tgt[r][x].asg
             /\ UNCHANGED <<committed, ckpt>>
<1> DEFINE r == co[m].req
           plan == co[m].plan
<1>1. /\ r \in Requests /\ co[m] \in CoordinatorRecord
      /\ tgt \in [Requests -> [Members -> TargetRow]] /\ tgt[r] \in [Members -> TargetRow]
  BY DEF CoordinatorPlans, TypeOK
<1>2. plan.who \subseteq Members /\ plan.to \in TargetStates
  BY <1>1 DEF CoordinatorRecord
<1>3. tgt' = [tgt EXCEPT ![r] = [x \in Members |->
                IF x \in plan.who THEN AssignedTarget(tgt[r][x], plan.to, co[m].epoch)
                                  ELSE tgt[r][x]]]
  BY DEF CoordinatorPlans
<1>4. \A x \in plan.who : plan.to \in TargetEdges[tgt[r][x].st] /\ tgt[r][x].st = co[m].rows[x].st
  BY DEF CoordinatorPlans, PlanFence
<1>5. \A x \in Members :
        LET row == AssignedTarget(tgt[r][x], plan.to, co[m].epoch)
        IN  /\ row.st = plan.to /\ row.eff = tgt[r][x].eff
            /\ plan.to \notin {"validating", "apply_assigned"} => row.asg = tgt[r][x].asg
  BY <1>1 DEF AssignedTarget, TargetRow
<1>6. UNCHANGED <<committed, ckpt>>
  BY DEF CoordinatorPlans
<1>7. \A q \in Requests, x \in Members :
        tgt'[q][x] = IF q = r /\ x \in plan.who
                       THEN AssignedTarget(tgt[r][x], plan.to, co[m].epoch) ELSE tgt[q][x]
  BY <1>1, <1>3
<1>8. \A q \in Requests, x \in Members : ~(q = r /\ x \in plan.who) => tgt'[q][x] = tgt[q][x]
  BY <1>7
<1>9. \A x \in plan.who : tgt'[r][x] = AssignedTarget(tgt[r][x], plan.to, co[m].epoch)
  BY <1>1, <1>2, <1>7
<1> HIDE DEF r, plan
<1>10. \A x \in plan.who : /\ tgt'[r][x].st = plan.to
                           /\ tgt'[r][x].eff = tgt[r][x].eff
                           /\ plan.to \notin {"validating", "apply_assigned"} =>
                                tgt'[r][x].asg = tgt[r][x].asg
  BY <1>2, <1>5, <1>9
<1> QED
  BY <1>1, <1>2, <1>4, <1>6, <1>8, <1>10 DEF r, plan

(* A started effect is never forgotten. *)
LEMMA EffectKept ==
  ASSUME TypeOK, [Next]_vars, NEW r \in Requests, NEW m \in Members, tgt[r][m].eff
  PROVE  tgt'[r][m].eff
<1>1. CASE UNCHANGED tgt
  BY <1>1
<1>2. ASSUME NEW x \in Members, CoordinatorPlans(x) PROVE tgt'[r][m].eff
  BY <1>2, PlanWrite
<1>3. ASSUME NEW q \in Requests, NEW x \in Members, NEW to \in Reports, MemberWrites(q, x, to)
      PROVE  tgt'[r][m].eff
  <2>1. CASE q = r /\ x = m
    BY <1>3, <2>1, MemberWrite
  <2>2. CASE ~(q = r /\ x = m)
    <3>1. tgt'[r][m] = tgt[r][m]
      BY <1>3, <2>2, MemberWrite
    <3> QED BY <3>1
  <2> QED BY <2>1, <2>2
<1> QED
  BY <1>1, <1>2, <1>3, TargetStep

-------------------------------------------------------------------------------
(* The strengthening: what a coordinator's plan still knows about the rows when
   it is applied.  A rollback is only planned for a nacked row whose effect had
   started, and effects are never forgotten.                                  *)
PlanSound ==
  \A m \in Members : co[m].at # "idle" =>
    /\ co[m].plan.to \in {"validating", "apply_assigned", "rollback_assigned"}
    /\ co[m].plan.to = "rollback_assigned" =>
         \A x \in co[m].plan.who :
           co[m].rows[x].st = "nacked" => tgt[co[m].req][x].eff

(* The plan of a directive to roll back names nacked rows only with an effect. *)
LEMMA PlanForSound ==
  ASSUME NEW st, NEW tg, NEW exact, NEW timedOut, NEW observed, NEW canary \in Members
  PROVE  LET plan == PlanFor(st, tg, Classify(st, tg, exact, timedOut, observed, canary))
         IN  /\ plan.to \in {"validating", "apply_assigned", "rollback_assigned"}
             /\ plan.to = "rollback_assigned" =>
                  \A x \in plan.who : tg[x].st = "nacked" => tg[x].eff
<1> DEFINE d == Classify(st, tg, exact, timedOut, observed, canary)
<1>1. d.kind = "roll_back" => d = RollbackDirective(tg)
  <2>1. \A k, w : Directive(k, w).kind = k
    BY DEF Directive
  <2>2. LET e == ClassifyValidation(tg, canary, timedOut)
        IN  e.kind = "roll_back" => e = RollbackDirective(tg)
    BY <2>1 DEF ClassifyValidation
  <2>3. LET e == ClassifyRollback(tg, timedOut)
        IN  e.kind = "roll_back" => e = RollbackDirective(tg)
    BY <2>1 DEF ClassifyRollback
  <2>4. LET e == ClassifyCanaryApplying(tg, canary, timedOut)
        IN  e.kind = "roll_back" => e = RollbackDirective(tg)
    BY <2>1 DEF ClassifyCanaryApplying
  <2>5. LET e == ClassifyCanaryHealthy(tg, canary, timedOut, observed)
        IN  e.kind = "roll_back" => e = RollbackDirective(tg)
    BY <2>1 DEF ClassifyCanaryHealthy
  <2>6. LET e == ClassifyExpanding(tg, timedOut)
        IN  e.kind = "roll_back" => e = RollbackDirective(tg)
    BY <2>1 DEF ClassifyExpanding
  <2>7. LET e == ClassifyInexact(st, tg, timedOut)
        IN  e.kind = "roll_back" => e = RollbackDirective(tg)
    BY <2>1 DEF ClassifyInexact
  <2> QED BY <2>1, <2>2, <2>3, <2>4, <2>5, <2>6, <2>7 DEF Classify
<1>2. \A x \in RollbackDirective(tg).who : tg[x].st = "nacked" => tg[x].eff
  BY DEF RollbackDirective, Directive
<1> HIDE DEF d
<1>3. /\ PlanFor(st, tg, d).to \in {"validating", "apply_assigned", "rollback_assigned"}
      /\ PlanFor(st, tg, d).to = "rollback_assigned" =>
           d.kind = "roll_back" /\ PlanFor(st, tg, d).who \subseteq d.who
  BY DEF PlanFor, Plan
<1> QED
  BY <1>1, <1>2, <1>3 DEF d

(* How a step changes a coordinator: it reads, keeps its plan, or ends. *)
LEMMA CoordinatorStep ==
  ASSUME TypeOK, [Next]_vars, NEW m \in Members, co'[m].at # "idle"
  PROVE  \/ \E r \in Requests : CoordinatorReads(m, r)
         \/ /\ co[m].at # "idle" /\ co'[m].st = co[m].st
            /\ co'[m].req = co[m].req /\ co'[m].plan = co[m].plan /\ co'[m].rows = co[m].rows
<1> DEFINE Kept == /\ co[m].at # "idle" /\ co'[m].st = co[m].st
                   /\ co'[m].req = co[m].req /\ co'[m].plan = co[m].plan
                   /\ co'[m].rows = co[m].rows
<1>1. co \in [Members -> CoordinatorRecord] /\ IdleCoordinator.at = "idle"
  BY DEF TypeOK, IdleCoordinator
<1>2. CASE co'[m] = co[m]
  BY <1>2
<1>3. ASSUME NEW x \in Members, Coordinator(x), co'[m] # co[m]
      PROVE  Kept \/ \E r \in Requests : CoordinatorReads(m, r)
  <2>1. x = m
    BY <1>1, <1>3 DEF Coordinator, CoordinatorReads, CoordinatorAcquires, CoordinatorPlans,
                      CoordinatorFinishes, CoordinatorFails
  <2>2. CASE CoordinatorAcquires(m)
    <3> DEFINE ep == IF HoldsLease(m, co[m].req) THEN mut[co[m].req].epoch
                                                 ELSE mut[co[m].req].epoch + 1
               bs == [y \in Members |-> hb[y].boot]
    <3>1. co' = [co EXCEPT ![m] = IF IdleDecision(m) THEN IdleCoordinator
                                  ELSE [co[m] EXCEPT !.at = "fenced", !.epoch = ep,
                                                     !.ver = mut[co[m].req].ver, !.boots = bs]]
      BY <2>2 DEF CoordinatorAcquires
    <3> HIDE DEF ep, bs
    <3>2. ~IdleDecision(m) /\ co'[m] = [co[m] EXCEPT !.at = "fenced", !.epoch = ep,
                                              !.ver = mut[co[m].req].ver, !.boots = bs]
      BY <1>1, <3>1
    <3>3. co[m].at = "read"
      BY <2>2 DEF CoordinatorAcquires
    <3>4. co[m] \in CoordinatorRecord
      BY <1>1
    <3> QED BY <3>2, <3>3, <3>4 DEF CoordinatorRecord
  <2>3. CASE CoordinatorPlans(m) \/ CoordinatorFinishes(m) \/ CoordinatorFails(m)
    <3>1. co' = [co EXCEPT ![m] = IdleCoordinator]
      BY <2>3 DEF CoordinatorPlans, CoordinatorFinishes, CoordinatorFails
    <3> QED BY <1>1, <3>1
  <2> QED BY <1>3, <2>1, <2>2, <2>3 DEF Coordinator
<1>4. ASSUME NEW x \in Members, Process(x), co'[m] # co[m] PROVE FALSE
  <2>1. UNCHANGED co \/ co' = [co EXCEPT ![x] = IdleCoordinator]
    BY <1>4 DEF Process, Crash, Shutdown, Down, Boot, LoseHeartbeat, Heartbeat
  <2> QED BY <1>1, <1>4, <2>1
<1>5. ASSUME NEW x \in Members, MemberLoop(x) PROVE UNCHANGED co
  BY <1>5
  DEF MemberLoop, LoadWork, Validate, WriteCheckpoint, PublishUnready, MarkApplying,
      ApplyCandidate, PublishApplied, Report, RecoverApplying, BeginRollback, Restore,
      PublishRestored, EndRollback, WorkerFails, ScanFails, StartPublish, StartReady, Converge,
      ConvergeApply, StartFails
<1>6. ASSUME NEW x \in Members, NEW r \in Requests, Admit(x, r) PROVE UNCHANGED co
  BY <1>6 DEF Admit
<1>7. ASSUME NEW r \in Requests, ExpireLease(r) \/ Age(r) PROVE UNCHANGED co
  BY <1>7 DEF ExpireLease, Age
<1>8. CASE UNCHANGED vars
  BY <1>8 DEF vars
<1> QED
  BY <1>2, <1>3, <1>4, <1>5, <1>6, <1>7, <1>8 DEF Next

LEMMA PlanSoundInductive == TypeOK /\ PlanSound /\ [Next]_vars => PlanSound'
<1> SUFFICES ASSUME TypeOK, PlanSound, [Next]_vars, NEW m \in Members, co'[m].at # "idle"
             PROVE  /\ co'[m].plan.to \in {"validating", "apply_assigned", "rollback_assigned"}
                    /\ co'[m].plan.to = "rollback_assigned" =>
                         \A x \in co'[m].plan.who :
                           co'[m].rows[x].st = "nacked" => tgt'[co'[m].req][x].eff
  BY DEF PlanSound
<1>1. ASSUME NEW r \in Requests, CoordinatorReads(m, r)
      PROVE  /\ co'[m].plan.to \in {"validating", "apply_assigned", "rollback_assigned"}
             /\ co'[m].plan.to = "rollback_assigned" =>
                  \A x \in co'[m].plan.who :
                    co'[m].rows[x].st = "nacked" => tgt'[co'[m].req][x].eff
  <2> DEFINE d == Classify(mut[r].st, tgt[r], TRUE, mut[r].age = "expired", mut[r].age # "fresh",
                           CanaryOf[r])
             plan == PlanFor(mut[r].st, tgt[r], d)
             rows == [x \in Members |-> IF x \in plan.who THEN tgt[r][x] ELSE FreshTarget]
             fin == TerminalFor(mut[r].st, d)
  <2>1. /\ plan.to \in {"validating", "apply_assigned", "rollback_assigned"}
        /\ plan.to = "rollback_assigned" =>
             \A x \in plan.who : tgt[r][x].st = "nacked" => tgt[r][x].eff
    BY ConstantsAssumption, PlanForSound
  <2>2. plan.who \subseteq Members
    BY ConstantsAssumption, DirectiveTyped, PlanTyped
  <2>3. co' = [co EXCEPT ![m] = [IdleCoordinator EXCEPT !.at = "read", !.req = r,
                                   !.st = mut[r].st, !.plan = plan, !.fin = fin, !.rows = rows]]
    BY <1>1 DEF CoordinatorReads
  <2> HIDE DEF d, plan, fin
  <2>4. co'[m].plan = plan /\ co'[m].rows = rows /\ co'[m].req = r
    BY <2>3 DEF TypeOK, IdleCoordinator
  <2>5. UNCHANGED tgt
    BY <1>1 DEF CoordinatorReads
  <2> QED BY <2>1, <2>2, <2>4, <2>5
<1>2. ASSUME co[m].at # "idle", co'[m].req = co[m].req, co'[m].plan = co[m].plan,
             co'[m].rows = co[m].rows
      PROVE  /\ co'[m].plan.to \in {"validating", "apply_assigned", "rollback_assigned"}
             /\ co'[m].plan.to = "rollback_assigned" =>
                  \A x \in co'[m].plan.who :
                    co'[m].rows[x].st = "nacked" => tgt'[co'[m].req][x].eff
  <2>1. co[m].req \in Requests /\ co[m].plan.who \subseteq Members
    BY <1>2 DEF TypeOK, CoordinatorRecord
  <2>2. \A x \in co[m].plan.who : tgt[co[m].req][x].eff => tgt'[co[m].req][x].eff
    BY <2>1, EffectKept
  <2> QED BY <1>2, <2>2 DEF PlanSound
<1> QED
  BY <1>1, <1>2, CoordinatorStep

-------------------------------------------------------------------------------
(* A target row records a started effect exactly when it may have one. *)
LEMMA EffectInductive ==
  TypeOK /\ PlanSound /\ EffectRecorded /\ [Next]_vars => EffectRecorded'
<1> SUFFICES ASSUME TypeOK, PlanSound, EffectRecorded, [Next]_vars,
                    NEW r \in Requests, NEW m \in Members
             PROVE  RowOk(tgt'[r][m])
  BY DEF EffectRecorded, RowOk
<1>1. tgt[r][m] \in TargetRow /\ tgt[r][m].st \in TargetStates /\ RowOk(tgt[r][m])
  BY DEF TypeOK, TargetRow, EffectRecorded
<1>2. CASE tgt'[r][m] = tgt[r][m]
  BY <1>1, <1>2
<1>3. ASSUME NEW x \in Members, CoordinatorPlans(x) PROVE RowOk(tgt'[r][m])
  <2>1. CASE ~(r = co[x].req /\ m \in co[x].plan.who)
    BY <1>2, <1>3, <2>1, PlanWrite
  <2>2. CASE r = co[x].req /\ m \in co[x].plan.who
    <3>1. /\ co[x].plan.to \in TargetEdges[tgt[r][m].st]
          /\ tgt[r][m].st = co[x].rows[m].st
          /\ tgt'[r][m].st = co[x].plan.to /\ tgt'[r][m].eff = tgt[r][m].eff
      BY <1>3, <2>2, PlanWrite
    <3>2. /\ co[x].plan.to \in {"validating", "apply_assigned", "rollback_assigned"}
          /\ co[x].plan.to = "rollback_assigned" /\ tgt[r][m].st = "nacked" => tgt[r][m].eff
      BY <1>3, <2>2, <3>1 DEF PlanSound, CoordinatorPlans
    <3> QED BY <1>1, <3>1, <3>2, EdgesInto DEF RowOk, Effected
  <2> QED BY <2>1, <2>2
<1>4. ASSUME NEW q \in Requests, NEW x \in Members, NEW to \in Reports, MemberWrites(q, x, to)
      PROVE  RowOk(tgt'[r][m])
  <2>1. CASE ~(q = r /\ x = m)
    BY <1>2, <1>4, <2>1, MemberWrite
  <2>2. CASE q = r /\ x = m
    <3>1. /\ to \in TargetEdges[tgt[r][m].st] /\ tgt'[r][m].st = to
          /\ tgt'[r][m].eff = (tgt[r][m].eff \/ to \in {"applying", "rolling_back"})
      BY <1>4, <2>2, MemberWrite
    <3> QED BY <1>1, <3>1, EdgesInto DEF RowOk, Effected, Reports
  <2> QED BY <2>1, <2>2
<1> QED
  BY <1>2, <1>3, <1>4, TargetStep

LEMMA EffectInit == Init => PlanSound /\ EffectRecorded
  BY DEF Init, PlanSound, EffectRecorded, RowOk, FreshTarget, Effected, IdleCoordinator

(* For every cluster and under every fault, a target row has its effect recorded
   exactly when its member may have applied: a rollback reaches every effect and
   nobody else (transition_target_fenced, rollback_directive).                *)
THEOREM EffectsRecorded == Spec => []EffectRecorded
<1>1. TypeOK /\ PlanSound /\ EffectRecorded /\ [Next]_vars => PlanSound' /\ EffectRecorded'
  BY PlanSoundInductive, EffectInductive
<1> QED
  BY <1>1, EffectInit, TypeCorrect, PTL DEF Spec

-------------------------------------------------------------------------------
(* Checkpoints. *)
LEMMA CheckpointStep ==
  ASSUME TypeOK, [Next]_vars, ckpt' # ckpt
  PROVE  \E m \in Members : WriteCheckpoint(m)
<1>1. ASSUME NEW m \in Members, NEW r \in Requests, Admit(m, r) PROVE FALSE
  BY <1>1 DEF Admit
<1>2. ASSUME NEW m \in Members, Coordinator(m) PROVE FALSE
  BY <1>2 DEF Coordinator, CoordinatorReads, CoordinatorAcquires, CoordinatorPlans,
              CoordinatorFinishes, CoordinatorFails, store
<1>3. ASSUME NEW m \in Members, MemberLoop(m) PROVE WriteCheckpoint(m)
  BY <1>3
  DEF MemberLoop, LoadWork, Validate, PublishUnready, MarkApplying, ApplyCandidate,
      PublishApplied, Report, RecoverApplying, BeginRollback, Restore, PublishRestored,
      EndRollback, WorkerFails, ScanFails, StartPublish, StartReady, Converge, ConvergeApply,
      StartFails, store
<1>4. ASSUME NEW m \in Members, Process(m) PROVE FALSE
  BY <1>4 DEF Process, Crash, Shutdown, Boot, LoseHeartbeat, Heartbeat, store
<1>5. ASSUME NEW r \in Requests, ExpireLease(r) \/ Age(r) PROVE FALSE
  BY <1>5 DEF ExpireLease, Age
<1>6. CASE UNCHANGED vars
  BY <1>6 DEF vars
<1> QED
  BY <1>1, <1>2, <1>3, <1>4, <1>5, <1>6 DEF Next

LEMMA CheckpointInductive ==
  TypeOK /\ PlanSound /\ EffectRecorded /\ EffectCheckpointed /\ [Next]_vars
    => EffectCheckpointed'
<1> DEFINE Covered(row, c) == row.eff => c # 0 /\ c = row.asg
<1> SUFFICES ASSUME TypeOK, PlanSound, EffectRecorded, EffectCheckpointed, [Next]_vars,
                    NEW r \in Requests, NEW m \in Members
             PROVE  Covered(tgt'[r][m], ckpt'[r][m])
  BY DEF EffectCheckpointed
<1>1. Covered(tgt[r][m], ckpt[r][m])
  BY DEF EffectCheckpointed
<1>2. /\ tgt[r][m] \in TargetRow /\ tgt[r][m].st \in TargetStates /\ RowOk(tgt[r][m])
      /\ ckpt \in [Requests -> [Members -> Nat]]
  BY DEF TypeOK, TargetRow, EffectRecorded
<1>3. CASE tgt'[r][m] = tgt[r][m] /\ ckpt' = ckpt
  BY <1>1, <1>3
<1>4. ASSUME NEW x \in Members, WriteCheckpoint(x) PROVE Covered(tgt'[r][m], ckpt'[r][m])
  <2> DEFINE q == wk[x].req
  <2>1. /\ q \in Requests /\ ckpt[q][x] = 0 /\ UNCHANGED tgt
        /\ ckpt' = [ckpt EXCEPT ![q][x] = wk[x].row.asg]
    BY <1>4 DEF WriteCheckpoint, StepFence, CheckpointFence, TypeOK, WorkSteps, WorkerSteps
  <2>2. CASE q = r /\ x = m
    BY <1>1, <2>1, <2>2
  <2>3. CASE ~(q = r /\ x = m)
    <3>1. ckpt'[r][m] = ckpt[r][m]
      BY <1>2, <2>1, <2>3
    <3> QED BY <1>1, <2>1, <3>1
  <2> QED BY <2>2, <2>3
<1>5. ASSUME NEW x \in Members, CoordinatorPlans(x) PROVE Covered(tgt'[r][m], ckpt'[r][m])
  <2>1. CASE ~(r = co[x].req /\ m \in co[x].plan.who)
    BY <1>3, <1>5, <2>1, PlanWrite
  <2>2. CASE r = co[x].req /\ m \in co[x].plan.who
    <3>1. /\ co[x].plan.to \in TargetEdges[tgt[r][m].st]
          /\ tgt'[r][m].eff = tgt[r][m].eff /\ ckpt' = ckpt
          /\ co[x].plan.to \notin {"validating", "apply_assigned"} =>
               tgt'[r][m].asg = tgt[r][m].asg
      BY <1>5, <2>2, PlanWrite
    <3>2. co[x].plan.to \in {"validating", "apply_assigned"} => ~tgt[r][m].eff
      BY <1>2, <3>1, EdgesInto DEF RowOk, Effected
    <3> QED BY <1>1, <3>1, <3>2
  <2> QED BY <2>1, <2>2
<1>6. ASSUME NEW q \in Requests, NEW x \in Members, NEW to \in Reports, MemberWrites(q, x, to)
      PROVE  Covered(tgt'[r][m], ckpt'[r][m])
  <2>1. CASE ~(q = r /\ x = m)
    BY <1>3, <1>6, <2>1, MemberWrite
  <2>2. CASE q = r /\ x = m
    BY <1>1, <1>6, <2>2, MemberWrite
  <2> QED BY <2>1, <2>2
<1> QED
  BY <1>3, <1>4, <1>5, <1>6, TargetStep, CheckpointStep

(* Whenever a member's effect has started, a checkpoint of the same assignment
   is in the store, for every cluster and under every fault: a rollback after
   any crash or change of coordinator finds it (insert_checkpoint_tx).        *)
THEOREM EffectsCheckpointed == Spec => []EffectCheckpointed
<1>1. Init => EffectCheckpointed
  BY DEF Init, EffectCheckpointed, FreshTarget
<1>2. TypeOK /\ PlanSound /\ EffectRecorded /\ EffectCheckpointed /\ [Next]_vars
        => PlanSound' /\ EffectRecorded' /\ EffectCheckpointed'
  BY PlanSoundInductive, EffectInductive, CheckpointInductive
<1> QED
  BY <1>1, <1>2, EffectInit, TypeCorrect, PTL DEF Spec

-------------------------------------------------------------------------------
(* What a worker knows of its row. *)
WorkerOk(w, eff) ==
  /\ w.at = "validating" => w.row.st = "validating"
  /\ w.at \in {"apply_assigned", "head", "mark"} => w.row.st = "apply_assigned"
  /\ w.at \in {"apply", "publish", "ack", "nack"} => eff
  /\ w.at = "applying" => w.row.st = "applying"
  /\ w.at = "rollback_assigned" => w.row.st \in {"rollback_assigned", "rolling_back"}
  /\ w.at \in {"rolling_back", "restored", "rolled_back", "rollback_failed"} =>
       w.row.st = "rolling_back"

WorkerSound == \A m \in Members : WorkerOk(wk[m], tgt[wk[m].req][m].eff)

(* Phases are passed in one direction only. *)
PhaseNo ==
  [s \in MutationStates |->
     CASE s = "absent" -> 0
       [] s = "claimed" -> 1
       [] s = "validating" -> 2
       [] s = "canary_applying" -> 3
       [] s = "canary_healthy" -> 4
       [] s = "expanding" -> 5
       [] s = "fully_applied" -> 6
       [] s = "rolling_back" -> 7
       [] OTHER -> 8]

(* The shape of the plan for each phase. *)
PlanShape(st, plan, canary) ==
  /\ st \in Active
  /\ st = "claimed" => plan.next = "validating" /\ plan.to = "validating"
  /\ st = "validating" =>
       \/ plan.next = "keep" /\ (plan.to = "validating" \/ plan.who = {})
       \/ plan.next = "canary_applying" /\ plan.to = "apply_assigned" /\ plan.who = {canary}
  /\ st = "canary_applying" =>
       \/ plan.next = "keep" /\ plan.to = "apply_assigned" /\ plan.who \subseteq {canary}
       \/ plan.next = "canary_healthy" /\ plan.who = {}
       \/ plan.next = "rolling_back"
  /\ st = "canary_healthy" =>
       \/ plan.next = "keep" /\ plan.who = {}
       \/ plan.next = "expanding" /\ plan.to = "apply_assigned"
       \/ plan.next = "rolling_back"
  /\ st = "expanding" =>
       \/ plan.next = "keep" /\ plan.to = "apply_assigned"
       \/ plan.next = "fully_applied" /\ plan.who = {}
       \/ plan.next = "rolling_back"
  /\ st = "fully_applied" => plan.next = "keep" /\ plan.who = {}
  /\ st = "rolling_back" => plan.next = "keep"

(* What the plan relies on, while the mutation stays in the phase it was read in. *)
PlanBasis(next, tg, canary) ==
  /\ next = "canary_applying" => \A x \in Members : tg[x].st = "validated"
  /\ next = "canary_healthy" => tg[canary].st = "acked"
  /\ next = "fully_applied" => \A x \in Members : tg[x].st = "acked"

CoordinatorSound ==
  \A m \in Members : co[m].at # "idle" =>
    LET r == co[m].req
    IN  /\ PlanShape(co[m].st, co[m].plan, CanaryOf[r])
        /\ PhaseNo[co[m].st] <= PhaseNo[mut[r].st]
        /\ mut[r].st = co[m].st => PlanBasis(co[m].plan.next, tgt[r], CanaryOf[r])

-------------------------------------------------------------------------------
(* Facts about the operators. *)
LEMMA PhaseNumbers ==
  /\ \A s \in MutationStates : PhaseNo[s] \in Nat
  /\ \A s \in MutationStates : \A n \in MutationEdges[s] : n \in MutationStates => PhaseNo[s] < PhaseNo[n]
<1>1. /\ PhaseNo["absent"] = 0 /\ PhaseNo["claimed"] = 1 /\ PhaseNo["validating"] = 2
      /\ PhaseNo["canary_applying"] = 3 /\ PhaseNo["canary_healthy"] = 4
      /\ PhaseNo["expanding"] = 5 /\ PhaseNo["fully_applied"] = 6 /\ PhaseNo["rolling_back"] = 7
      /\ PhaseNo["committed"] = 8 /\ PhaseNo["failed"] = 8 /\ PhaseNo["rolled_back"] = 8
      /\ PhaseNo["rollback_failed"] = 8 /\ PhaseNo["indeterminate"] = 8
  BY DEF PhaseNo, MutationStates, Active, Terminal
<1>2. /\ MutationEdges["absent"] = {}
      /\ MutationEdges["claimed"] = {"validating", "committed", "failed", "indeterminate"}
      /\ MutationEdges["validating"] = {"canary_applying", "committed", "failed", "indeterminate"}
      /\ MutationEdges["canary_applying"] =
           {"canary_healthy", "failed", "rolling_back", "indeterminate"}
      /\ MutationEdges["canary_healthy"] =
           {"expanding", "failed", "rolling_back", "indeterminate"}
      /\ MutationEdges["expanding"] =
           {"fully_applied", "failed", "rolling_back", "indeterminate"}
      /\ MutationEdges["fully_applied"] =
           {"committed", "failed", "rolling_back", "indeterminate"}
      /\ MutationEdges["rolling_back"] = {"rolled_back", "rollback_failed", "indeterminate"}
      /\ \A s \in Terminal : MutationEdges[s] = {}
  BY DEF MutationEdges, MutationStates, Active, Terminal
<1> QED
  BY <1>1, <1>2 DEF MutationStates, Active, Terminal

(* transition_plan, one directive at a time. *)
PlanFacts(st, tg, d, plan) ==
  /\ d.kind = "validate" =>
       /\ plan.next = (IF st = "claimed" THEN "validating" ELSE "keep")
       /\ plan.to = "validating"
  /\ d.kind = "apply_canary" =>
       /\ plan.next = (IF st = "validating" THEN "canary_applying" ELSE "keep")
       /\ plan.to = "apply_assigned"
       /\ plan.who = {x \in d.who : "apply_assigned" \in TargetEdges[tg[x].st]}
  /\ d.kind = "observe_canary" =>
       /\ plan.next = (IF st = "canary_applying" THEN "canary_healthy" ELSE "keep")
       /\ plan.who = {}
  /\ d.kind = "apply_expansion" =>
       /\ plan.next = (IF st = "canary_healthy" THEN "expanding" ELSE "keep")
       /\ plan.to = "apply_assigned"
  /\ d.kind = "commit" =>
       /\ plan.next = (IF st = "expanding" THEN "fully_applied" ELSE "keep")
       /\ plan.who = {}
  /\ d.kind = "roll_back" =>
       plan.next = (IF st = "rolling_back" THEN "keep" ELSE "rolling_back")
  /\ d.kind \in {"fail_before_apply", "await_validation"} => plan.next = "keep" /\ plan.who = {}
  /\ st = "rolling_back" => plan.next = "keep"

LEMMA PlanOf ==
  ASSUME NEW st, NEW tg, NEW d
  PROVE  PlanFacts(st, tg, d, PlanFor(st, tg, d))
<1>1. d.kind = "validate" =>
        /\ PlanFor(st, tg, d).next = (IF st = "claimed" THEN "validating" ELSE "keep")
        /\ PlanFor(st, tg, d).to = "validating"
  BY DEF PlanFor, Plan
<1>2. d.kind = "apply_canary" =>
        /\ PlanFor(st, tg, d).next = (IF st = "validating" THEN "canary_applying" ELSE "keep")
        /\ PlanFor(st, tg, d).to = "apply_assigned"
        /\ PlanFor(st, tg, d).who = {x \in d.who : "apply_assigned" \in TargetEdges[tg[x].st]}
  BY DEF PlanFor, Plan
<1>3. d.kind = "observe_canary" =>
        /\ PlanFor(st, tg, d).next = (IF st = "canary_applying" THEN "canary_healthy" ELSE "keep")
        /\ PlanFor(st, tg, d).who = {}
  BY DEF PlanFor, Plan
<1>4. d.kind = "apply_expansion" =>
        /\ PlanFor(st, tg, d).next = (IF st = "canary_healthy" THEN "expanding" ELSE "keep")
        /\ PlanFor(st, tg, d).to = "apply_assigned"
  BY DEF PlanFor, Plan
<1>5. d.kind = "commit" =>
        /\ PlanFor(st, tg, d).next = (IF st = "expanding" THEN "fully_applied" ELSE "keep")
        /\ PlanFor(st, tg, d).who = {}
  BY DEF PlanFor, Plan
<1>6. d.kind = "roll_back" =>
        PlanFor(st, tg, d).next = (IF st = "rolling_back" THEN "keep" ELSE "rolling_back")
  BY DEF PlanFor, Plan
<1>7. d.kind \in {"fail_before_apply", "await_validation"} =>
        PlanFor(st, tg, d).next = "keep" /\ PlanFor(st, tg, d).who = {}
  BY DEF PlanFor, Plan
<1>8. st = "rolling_back" => PlanFor(st, tg, d).next = "keep"
  BY DEF PlanFor, Plan
<1> QED
  BY <1>1, <1>2, <1>3, <1>4, <1>5, <1>6, <1>7, <1>8 DEF PlanFacts

(* classify in the phases before a rollback: the directives it may give, and
   what the rows say when it moves on.                                        *)
DirectiveFacts(st, tg, canary, d) ==
  /\ st = "claimed" => d.kind = "validate"
  /\ st = "validating" =>
       \/ d.kind \in {"fail_before_apply", "await_validation", "validate"}
       \/ /\ d.kind = "apply_canary" /\ d.who = {canary}
          /\ \A x \in Members : tg[x].st \in {"validated", "applying"}
  /\ st = "canary_applying" =>
       \/ d.kind = "observe_canary" /\ tg[canary].st = "acked"
       \/ d.kind = "apply_canary" /\ d.who = {canary}
       \/ d.kind = "roll_back"
  /\ st = "canary_healthy" => d.kind \in {"observe_canary", "apply_expansion", "roll_back"}
  /\ st = "expanding" =>
       \/ d.kind = "commit" /\ \A x \in Members : tg[x].st = "acked"
       \/ d.kind \in {"apply_expansion", "roll_back"}
  /\ st = "fully_applied" => d.kind = "commit"

LEMMA DirectiveOf ==
  ASSUME NEW st \in Active, NEW tg, NEW timedOut, NEW observed, NEW canary
  PROVE  DirectiveFacts(st, tg, canary, Classify(st, tg, TRUE, timedOut, observed, canary))
<1>1. st \notin Terminal
  BY DEF Active, Terminal
<1>2. /\ st = "claimed" => Classify(st, tg, TRUE, timedOut, observed, canary).kind = "validate"
      /\ st = "fully_applied" => Classify(st, tg, TRUE, timedOut, observed, canary).kind = "commit"
  BY <1>1 DEF Classify, Directive
<1>3. LET d == ClassifyValidation(tg, canary, timedOut)
      IN  \/ d.kind \in {"fail_before_apply", "await_validation", "validate"}
          \/ /\ d.kind = "apply_canary" /\ d.who = {canary}
             /\ \A x \in Members : tg[x].st \in {"validated", "applying"}
  BY DEF ClassifyValidation, Directive
<1>4. LET d == ClassifyCanaryApplying(tg, canary, timedOut)
      IN  \/ d.kind = "observe_canary" /\ tg[canary].st = "acked"
          \/ d.kind = "apply_canary" /\ d.who = {canary}
          \/ d.kind = "roll_back"
  BY DEF ClassifyCanaryApplying, RollbackDirective, Directive
<1>5. ClassifyCanaryHealthy(tg, canary, timedOut, observed).kind
        \in {"observe_canary", "apply_expansion", "roll_back"}
  BY DEF ClassifyCanaryHealthy, RollbackDirective, Directive
<1>6. LET d == ClassifyExpanding(tg, timedOut)
      IN  \/ d.kind = "commit" /\ \A x \in Members : tg[x].st = "acked"
          \/ d.kind \in {"apply_expansion", "roll_back"}
  BY DEF ClassifyExpanding, RollbackDirective, Directive
<1>7. /\ st = "validating" => Classify(st, tg, TRUE, timedOut, observed, canary)
                                = ClassifyValidation(tg, canary, timedOut)
      /\ st = "canary_applying" => Classify(st, tg, TRUE, timedOut, observed, canary)
                                     = ClassifyCanaryApplying(tg, canary, timedOut)
      /\ st = "canary_healthy" => Classify(st, tg, TRUE, timedOut, observed, canary)
                                    = ClassifyCanaryHealthy(tg, canary, timedOut, observed)
      /\ st = "expanding" => Classify(st, tg, TRUE, timedOut, observed, canary)
                               = ClassifyExpanding(tg, timedOut)
  BY <1>1 DEF Classify
<1> QED
  BY <1>2, <1>3, <1>4, <1>5, <1>6, <1>7 DEF DirectiveFacts

(* The plan a coordinator reads off a consistent snapshot has the shape of its
   phase and a basis in the rows.                                             *)
LEMMA ReadPlan ==
  ASSUME NEW st \in Active, NEW tg, NEW timedOut, NEW observed, NEW canary \in Members,
         PhaseOk(st, tg, canary)
  PROVE  LET plan == PlanFor(st, tg, Classify(st, tg, TRUE, timedOut, observed, canary))
         IN  PlanShape(st, plan, canary) /\ PlanBasis(plan.next, tg, canary)
<1> DEFINE d == Classify(st, tg, TRUE, timedOut, observed, canary)
           plan == PlanFor(st, tg, d)
<1>1. DirectiveFacts(st, tg, canary, d)
  BY DirectiveOf
<1>2. PlanFacts(st, tg, d, plan)
  BY PlanOf
<1>3. "apply_assigned" \in TargetEdges["validated"]
  BY DEF TargetEdges, TargetStates
<1> HIDE DEF d, plan
<1>4. st = "validating" /\ d.kind = "apply_canary" =>
        /\ \A x \in Members : tg[x].st = "validated"
        /\ plan.who = {canary}
  BY <1>1, <1>2, <1>3 DEF PhaseOk, DirectiveFacts, PlanFacts
<1>5. PlanShape(st, plan, canary)
  BY <1>1, <1>2, <1>4 DEF PlanShape, DirectiveFacts, PlanFacts
<1>6. PlanBasis(plan.next, tg, canary)
  BY <1>1, <1>2, <1>4 DEF PlanBasis, Active, DirectiveFacts, PlanFacts
<1> QED
  BY <1>5, <1>6 DEF d, plan

-------------------------------------------------------------------------------
(* Workers. *)
LEMMA WorkerStep ==
  ASSUME TypeOK, [Next]_vars, NEW m \in Members
  PROVE  \/ wk'[m] = wk[m]
         \/ MemberLoop(m)
         \/ wk'[m].at \in {"off", "start"}
<1>1. wk \in [Members -> WorkerRecord] /\ \A step : IdleWorker(step).at = step
  BY DEF TypeOK, IdleWorker
<1>2. ASSUME NEW x \in Members, MemberLoop(x), x # m PROVE wk'[m] = wk[m]
  <2>1. UNCHANGED wk \/ \E w : wk' = [wk EXCEPT ![x] = w]
    BY <1>1, <1>2
    DEF MemberLoop, LoadWork, Validate, WriteCheckpoint, PublishUnready, MarkApplying,
        ApplyCandidate, PublishApplied, Report, RecoverApplying, BeginRollback, Restore,
        PublishRestored, EndRollback, WorkerFails, ScanFails, StartPublish, StartReady, Converge,
        ConvergeApply, StartFails, Worker, WorkerIs
  <2> QED BY <1>1, <1>2, <2>1
<1>3. ASSUME NEW x \in Members, Process(x) PROVE wk'[m] = wk[m] \/ wk'[m].at \in {"off", "start"}
  <2>1. \/ UNCHANGED wk
        \/ \E step \in {"off", "start"} : wk' = [wk EXCEPT ![x] = IdleWorker(step)]
    BY <1>3 DEF Process, Crash, Shutdown, Down, Boot, LoseHeartbeat, Heartbeat
  <2> QED BY <1>1, <2>1
<1>4. ASSUME NEW x \in Members, Coordinator(x) PROVE UNCHANGED wk
  BY <1>4 DEF Coordinator, CoordinatorReads, CoordinatorAcquires, CoordinatorPlans,
              CoordinatorFinishes, CoordinatorFails
<1>5. ASSUME NEW x \in Members, NEW r \in Requests, Admit(x, r) PROVE UNCHANGED wk
  BY <1>5 DEF Admit
<1>6. ASSUME NEW r \in Requests, ExpireLease(r) \/ Age(r) PROVE UNCHANGED wk
  BY <1>6 DEF ExpireLease, Age
<1>7. CASE UNCHANGED vars
  BY <1>7 DEF vars
<1> QED
  BY <1>2, <1>3, <1>4, <1>5, <1>6, <1>7 DEF Next

LEMMA WorkerSoundInductive == TypeOK /\ WorkerSound /\ [Next]_vars => WorkerSound'
<1> SUFFICES ASSUME TypeOK, WorkerSound, [Next]_vars, NEW m \in Members
             PROVE  WorkerOk(wk'[m], tgt'[wk'[m].req][m].eff)
  BY DEF WorkerSound
<1> DEFINE r == wk[m].req
           eff == tgt[r][m].eff
           To(step) == wk'[m].at = step /\ wk'[m].req = r /\ wk'[m].row = wk[m].row
           Rest == wk'[m].at \in {"off", "start", "ready", "converge", "idle"}
<1>1. /\ WorkerOk(wk[m], eff) /\ wk[m] \in WorkerRecord
      /\ wk \in [Members -> WorkerRecord]
      /\ wk[m].at \in WorkSteps => r \in Requests
  BY DEF WorkerSound, TypeOK
<1>2. r \in Requests /\ eff => tgt'[r][m].eff
  BY EffectKept
<1>3. \A step : Worker(m, step) => To(step)
  BY <1>1 DEF Worker, WorkerRecord
<1>4. \A step : WorkerIs(m, step) => wk'[m].at = step
  BY <1>1 DEF WorkerIs, IdleWorker
<1>5. Rest => WorkerOk(wk'[m], tgt'[wk'[m].req][m].eff)
  BY DEF WorkerOk
<1>6. CASE wk'[m] = wk[m]
  BY <1>1, <1>2, <1>6 DEF WorkerOk, WorkSteps, WorkerSteps
<1>7. ASSUME NEW q \in Requests, LoadWork(m, q) PROVE WorkerOk(wk'[m], tgt'[wk'[m].req][m].eff)
  <2>1. CASE "scan" \in Repairs
    <3>1. wk'[m] = [at |-> IF tgt[q][m].st = "rolling_back" THEN "rollback_assigned" ELSE tgt[q][m].st,
                    req |-> q, row |-> tgt[q][m]]
      BY <1>1, <1>7, <2>1 DEF LoadWork
    <3>2. tgt[q][m].st \in WorkStates
      BY <1>7 DEF LoadWork, HasWork
    <3>3. /\ wk'[m].row.st = tgt[q][m].st
          /\ wk'[m].at = IF tgt[q][m].st = "rolling_back" THEN "rollback_assigned"
                                                          ELSE tgt[q][m].st
      BY <3>1
    <3> QED BY <3>2, <3>3 DEF WorkerOk, WorkStates
  <2>2. CASE "scan" \notin Repairs
    <3>1. wk'[m].at = "start"
      BY <1>1, <1>7, <2>2 DEF LoadWork, IdleWorker
    <3> QED BY <1>5, <3>1
  <2> QED BY <2>1, <2>2
<1>8. CASE \/ Validate(m) \/ Report(m) \/ RecoverApplying(m) \/ EndRollback(m) \/ WorkerFails(m)
           \/ ScanFails(m) \/ StartPublish(m) \/ StartReady(m) \/ Converge(m) \/ StartFails(m)
  <2>1. Rest
    BY <1>3, <1>4, <1>8
    DEF Validate, Report, RecoverApplying, EndRollback, WorkerFails, ScanFails, StartPublish,
        StartReady, Converge, StartFails
  <2> QED BY <1>5, <2>1
<1>9. CASE ConvergeApply(m)
  BY <1>6, <1>9 DEF ConvergeApply
<1>10. CASE WriteCheckpoint(m)
  <2>1. To("head") /\ wk[m].at = "apply_assigned"
    BY <1>3, <1>10 DEF WriteCheckpoint
  <2> QED BY <1>1, <2>1 DEF WorkerOk
<1>11. CASE PublishUnready(m)
  <2>1. To("mark") /\ wk[m].at = "head"
    BY <1>3, <1>11 DEF PublishUnready
  <2> QED BY <1>1, <2>1 DEF WorkerOk
<1>12. CASE MarkApplying(m)
  <2>1. To("apply") /\ wk[m].at = "mark" /\ TransitionTarget(m, r, wk[m].row, "applying")
    BY <1>3, <1>12 DEF MarkApplying
  <2>2. r \in Requests
    BY <1>1, <2>1 DEF WorkSteps, WorkerSteps
  <2>3. tgt \in [Requests -> [Members -> TargetRow]] /\ tgt[r][m] \in TargetRow
    BY <2>2 DEF TypeOK
  <2>4. tgt'[r][m] = MovedTarget(m, tgt[r][m], "applying")
    BY <2>1, <2>2, <2>3 DEF TransitionTarget
  <2>5. MovedTarget(m, tgt[r][m], "applying").eff
    BY <2>3 DEF MovedTarget, TargetRow
  <2> QED BY <2>1, <2>4, <2>5 DEF WorkerOk
<1>13. CASE ApplyCandidate(m)
  <2>1. wk[m].at = "apply" /\ (To("publish") \/ To("nack"))
    BY <1>3, <1>13 DEF ApplyCandidate
  <2> QED BY <1>1, <1>2, <2>1 DEF WorkerOk, WorkSteps, WorkerSteps
<1>14. CASE PublishApplied(m)
  <2>1. wk[m].at = "publish" /\ To("ack")
    BY <1>3, <1>14 DEF PublishApplied
  <2> QED BY <1>1, <1>2, <2>1 DEF WorkerOk, WorkSteps, WorkerSteps
<1>15. CASE BeginRollback(m)
  <2>1. wk[m].at = "rollback_assigned"
    BY <1>15 DEF BeginRollback
  <2>2. r \in Requests /\ tgt[r][m] \in TargetRow
    BY <1>1, <2>1 DEF TypeOK, WorkSteps, WorkerSteps
  <2>3. CASE wk[m].row.st = "rollback_assigned"
    <3> DEFINE row == MovedTarget(m, tgt[r][m], "rolling_back")
    <3>1. row.st = "rolling_back"
      BY <2>2 DEF MovedTarget, TargetRow
    <3>2. wk' = [wk EXCEPT ![m] = [wk[m] EXCEPT !.at = "rolling_back", !.row = row]]
      BY <1>15, <2>3 DEF BeginRollback
    <3> HIDE DEF row
    <3>3. wk'[m].at = "rolling_back" /\ wk'[m].row = row
      BY <1>1, <3>2 DEF WorkerRecord
    <3> QED BY <3>1, <3>3 DEF WorkerOk
  <2>4. CASE wk[m].row.st # "rollback_assigned"
    <3>1. To("rolling_back")
      BY <1>3, <1>15, <2>4 DEF BeginRollback
    <3> QED BY <1>1, <2>1, <2>4, <3>1 DEF WorkerOk
  <2> QED BY <2>3, <2>4
<1>16. CASE Restore(m)
  <2>1. wk[m].at = "rolling_back" /\ (To("restored") \/ To("rollback_failed"))
    BY <1>3, <1>16 DEF Restore
  <2> QED BY <1>1, <2>1 DEF WorkerOk
<1>17. CASE PublishRestored(m)
  <2>1. wk[m].at = "restored" /\ To("rolled_back")
    BY <1>3, <1>17 DEF PublishRestored
  <2> QED BY <1>1, <2>1 DEF WorkerOk
<1>18. CASE MemberLoop(m)
  BY <1>7, <1>8, <1>9, <1>10, <1>11, <1>12, <1>13, <1>14, <1>15, <1>16, <1>17, <1>18 DEF MemberLoop
<1> QED
  BY <1>5, <1>6, <1>18, WorkerStep

(* The moves a member really makes, of all that the edges would allow. *)
MemberMove(from, to) ==
  \/ from = "validating" /\ to \in {"validated", "nacked"}
  \/ from = "apply_assigned" /\ to = "applying"
  \/ from = "applying" /\ to \in {"acked", "nacked"}
  \/ from = "rollback_assigned" /\ to = "rolling_back"
  \/ from = "rolling_back" /\ to \in {"rolled_back", "rollback_failed"}

MemberMoves ==
  \E r \in Requests, m \in Members, to \in Reports :
    MemberWrites(r, m, to) /\ MemberMove(tgt[r][m].st, to)

LEMMA MemberLoopMoves ==
  ASSUME TypeOK, WorkerSound, EffectRecorded, NEW m \in Members, MemberLoop(m)
  PROVE  UNCHANGED tgt \/ MemberMoves
<1> DEFINE r == wk[m].req
<1>1. /\ WorkerOk(wk[m], tgt[r][m].eff)
      /\ wk[m].at \in WorkSteps => r \in Requests
  BY DEF WorkerSound, TypeOK
<1>2. \A row, to : TransitionTarget(m, r, row, to) =>
        tgt[r][m].st = row.st /\ to \in TargetEdges[tgt[r][m].st]
  BY DEF TransitionTarget, TargetFence
<1>3. ASSUME NEW row, NEW to \in Reports, TransitionTarget(m, r, row, to), r \in Requests,
             UNCHANGED <<committed, mut, ckpt, co>>, MemberMove(tgt[r][m].st, to)
      PROVE  MemberMoves
  BY <1>3 DEF MemberMoves, MemberWrites
<1>4. CASE Validate(m)
  <2>1. PICK to \in {"validated", "nacked"} : TransitionTarget(m, r, wk[m].row, to)
    BY <1>4 DEF Validate
  <2>2. /\ wk[m].at = "validating" /\ r \in Requests /\ UNCHANGED <<committed, mut, ckpt, co>>
    BY <1>1, <1>4 DEF Validate, WorkSteps, WorkerSteps
  <2>3. MemberMove(tgt[r][m].st, to)
    BY <1>1, <1>2, <2>1, <2>2 DEF WorkerOk, MemberMove
  <2> QED BY <1>3, <2>1, <2>2, <2>3 DEF Reports
<1>5. CASE MarkApplying(m)
  <2>1. /\ wk[m].at = "mark" /\ r \in Requests /\ UNCHANGED <<committed, mut, ckpt, co>>
        /\ TransitionTarget(m, r, wk[m].row, "applying")
    BY <1>1, <1>5 DEF MarkApplying, WorkSteps, WorkerSteps
  <2>2. MemberMove(tgt[r][m].st, "applying")
    BY <1>1, <1>2, <2>1 DEF WorkerOk, MemberMove
  <2> QED BY <1>3, <2>1, <2>2 DEF Reports
<1>6. CASE Report(m)
  <2>1. PICK to \in {"acked", "nacked"} : TransitionTarget(m, r, tgt[r][m], to)
    BY <1>6 DEF Report
  <2>2. /\ wk[m].at \in {"ack", "nack"} /\ r \in Requests /\ UNCHANGED <<committed, mut, ckpt, co>>
    BY <1>1, <1>6 DEF Report, WorkSteps, WorkerSteps
  <2>3. tgt[r][m].eff /\ RowOk(tgt[r][m]) /\ tgt[r][m].st \in TargetStates
    BY <1>1, <2>2 DEF WorkerOk, EffectRecorded, TypeOK, TargetRow
  <2>4. tgt[r][m].st \in {"pending", "validating", "validated", "apply_assigned", "applying"}
    BY <1>2, <2>1, <2>3, EdgesInto
  <2>5. tgt[r][m].st = "applying"
    BY <2>3, <2>4 DEF RowOk, Effected
  <2>6. MemberMove(tgt[r][m].st, to)
    BY <2>1, <2>5 DEF MemberMove
  <2> QED BY <1>3, <2>1, <2>2, <2>6 DEF Reports
<1>7. CASE RecoverApplying(m)
  <2>1. /\ wk[m].at = "applying" /\ r \in Requests /\ UNCHANGED <<committed, mut, ckpt, co>>
        /\ TransitionTarget(m, r, wk[m].row, "nacked")
    BY <1>1, <1>7 DEF RecoverApplying, WorkSteps, WorkerSteps
  <2>2. MemberMove(tgt[r][m].st, "nacked")
    BY <1>1, <1>2, <2>1 DEF WorkerOk, MemberMove
  <2> QED BY <1>3, <2>1, <2>2 DEF Reports
<1>8. CASE BeginRollback(m)
  <2>1. /\ wk[m].at = "rollback_assigned" /\ r \in Requests /\ UNCHANGED <<committed, mut, ckpt, co>>
    BY <1>1, <1>8 DEF BeginRollback, WorkSteps, WorkerSteps
  <2>2. CASE wk[m].row.st = "rollback_assigned"
    <3>1. TransitionTarget(m, r, wk[m].row, "rolling_back")
      BY <1>8, <2>2 DEF BeginRollback
    <3>2. MemberMove(tgt[r][m].st, "rolling_back")
      BY <1>2, <2>2, <3>1 DEF MemberMove
    <3> QED BY <1>3, <2>1, <3>1, <3>2 DEF Reports
  <2>3. CASE wk[m].row.st # "rollback_assigned"
    BY <1>8, <2>3 DEF BeginRollback
  <2> QED BY <2>2, <2>3
<1>9. CASE EndRollback(m)
  <2>1. PICK to \in {"rolled_back", "rollback_failed"} :
          to = wk[m].at /\ TransitionTarget(m, r, wk[m].row, to)
    BY <1>9 DEF EndRollback
  <2>2. /\ r \in Requests /\ UNCHANGED <<committed, mut, ckpt, co>>
    BY <1>1, <1>9 DEF EndRollback, WorkSteps, WorkerSteps
  <2>3. MemberMove(tgt[r][m].st, to)
    BY <1>1, <1>2, <2>1 DEF WorkerOk, MemberMove
  <2> QED BY <1>3, <2>1, <2>2, <2>3 DEF Reports
<1>10. CASE ~(Validate(m) \/ MarkApplying(m) \/ Report(m) \/ RecoverApplying(m)
              \/ BeginRollback(m) \/ EndRollback(m))
  BY <1>10
  DEF MemberLoop, LoadWork, WriteCheckpoint, PublishUnready, ApplyCandidate, PublishApplied,
      Restore, PublishRestored, WorkerFails, ScanFails, StartPublish, StartReady, Converge,
      ConvergeApply, StartFails, store
<1> QED
  BY <1>4, <1>5, <1>6, <1>7, <1>8, <1>9, <1>10

(* Every step, as the phases see it. *)
LEMMA RowStep ==
  ASSUME TypeOK, WorkerSound, EffectRecorded, [Next]_vars
  PROVE  \/ UNCHANGED tgt
         \/ \E m \in Members : CoordinatorPlans(m)
         \/ MemberMoves
<1>1. ASSUME NEW m \in Members, NEW r \in Requests, Admit(m, r) PROVE UNCHANGED tgt
  BY <1>1 DEF Admit
<1>2. ASSUME NEW m \in Members, Coordinator(m), ~CoordinatorPlans(m) PROVE UNCHANGED tgt
  BY <1>2 DEF Coordinator, CoordinatorReads, CoordinatorAcquires, CoordinatorFinishes,
              CoordinatorFails, store
<1>3. ASSUME NEW m \in Members, MemberLoop(m) PROVE UNCHANGED tgt \/ MemberMoves
  BY <1>3, MemberLoopMoves
<1>4. ASSUME NEW m \in Members, Process(m) PROVE UNCHANGED tgt
  BY <1>4 DEF Process, Crash, Shutdown, Boot, LoseHeartbeat, Heartbeat, store
<1>5. ASSUME NEW r \in Requests, ExpireLease(r) \/ Age(r) PROVE UNCHANGED tgt
  BY <1>5 DEF ExpireLease, Age
<1>6. CASE UNCHANGED vars
  BY <1>6 DEF vars
<1> QED
  BY <1>1, <1>2, <1>3, <1>4, <1>5, <1>6 DEF Next

-------------------------------------------------------------------------------
(* Mutations. *)

(* What a carried out plan does to its mutation. *)
LEMMA PlanPhase ==
  ASSUME TypeOK, NEW m \in Members, CoordinatorPlans(m)
  PROVE  LET r == co[m].req
             next == co[m].plan.next
         IN  /\ r \in Requests /\ mut[r].st = co[m].st /\ co[m].at # "idle"
             /\ \A q \in Requests \ {r} : mut'[q].st = mut[q].st
             /\ next = "keep" => mut'[r].st = mut[r].st
             /\ next # "keep" => /\ mut'[r].st = next
                                 /\ next \in MutationEdges[mut[r].st] /\ next \in MutationStates
<1> DEFINE r == co[m].req
           next == co[m].plan.next
<1>1. /\ r \in Requests /\ mut[r] \in MutationRow /\ co[m] \in CoordinatorRecord
      /\ mut \in [Requests -> MutationRow]
  BY DEF CoordinatorPlans, TypeOK
<1>2. /\ mut[r].st = co[m].st /\ co[m].at # "idle"
      /\ next # "keep" => next \in MutationEdges[mut[r].st]
  BY DEF CoordinatorPlans, PlanFence
<1>3. next \in {"keep"} \cup MutationStates
  BY <1>1 DEF CoordinatorRecord, MutationStates
<1>4. mut' = IF next = "keep" THEN mut ELSE [mut EXCEPT ![r] = AdvancedMutation(mut[r], next)]
  BY DEF CoordinatorPlans
<1>5. AdvancedMutation(mut[r], next).st = next
  BY <1>1 DEF AdvancedMutation, MutationRow
<1> HIDE DEF next
<1>6. /\ \A q \in Requests \ {r} : mut'[q].st = mut[q].st
      /\ next = "keep" => mut'[r].st = mut[r].st
      /\ next # "keep" => mut'[r].st = next
  BY <1>1, <1>4, <1>5
<1> QED
  BY <1>1, <1>2, <1>3, <1>6 DEF next

(* A mutation stays in its phase or enters a later one. *)
LEMMA PhaseStep ==
  ASSUME TypeOK, [Next]_vars, NEW r \in Requests
  PROVE  mut'[r].st = mut[r].st \/ PhaseNo[mut[r].st] < PhaseNo[mut'[r].st]
<1>1. mut[r].st \in MutationStates
  BY DEF TypeOK, MutationRow
<1>2. ASSUME NEW m \in Members, NEW q \in Requests, Admit(m, q)
      PROVE  mut'[r].st = mut[r].st \/ PhaseNo[mut[r].st] < PhaseNo[mut'[r].st]
  <2>1. CASE q # r
    BY <1>2, <2>1, AdmitStep
  <2>2. CASE q = r
    <3>1. mut[r].st = "absent" /\ mut'[r].st = "claimed"
      BY <1>2, <2>2, AdmitStep
    <3>2. PhaseNo["absent"] = 0 /\ PhaseNo["claimed"] = 1
      BY DEF PhaseNo, MutationStates, Active
    <3> QED BY <3>1, <3>2
  <2> QED BY <2>1, <2>2
<1>3. ASSUME NEW m \in Members, CoordinatorPlans(m)
      PROVE  mut'[r].st = mut[r].st \/ PhaseNo[mut[r].st] < PhaseNo[mut'[r].st]
  BY <1>1, <1>3, PlanPhase, PhaseNumbers
<1>4. ASSUME NEW m \in Members, CoordinatorFinishes(m)
      PROVE  mut'[r].st = mut[r].st \/ PhaseNo[mut[r].st] < PhaseNo[mut'[r].st]
  <2>1. /\ co[m].fin \in MutationEdges[mut[co[m].req].st]
        /\ co[m].fin \in MutationStates
    BY <1>4, FinishStep DEF CoordinatorFinishes, FinishFence, MutationStates
  <2> QED BY <1>1, <1>4, <2>1, FinishStep, PhaseNumbers
<1>5. CASE \A q \in Requests : ~MutationStep(q)
  BY <1>5, LedgerQuiet
<1> QED
  BY <1>2, <1>3, <1>4, <1>5 DEF MutationStep

-------------------------------------------------------------------------------
(* Phases and rows. *)

(* A member's move stays within its phase. *)
LEMMA MovePhase ==
  ASSUME TypeOK, EffectRecorded, PhaseAgreement, MemberMoves
  PROVE  PhaseAgreement'
<1>1. PICK r \in Requests, m \in Members, to \in Reports :
        MemberWrites(r, m, to) /\ MemberMove(tgt[r][m].st, to)
  BY DEF MemberMoves
<1>2. /\ tgt'[r][m].st = to /\ mut' = mut
      /\ tgt'[r][m].eff = (tgt[r][m].eff \/ to \in {"applying", "rolling_back"})
      /\ \A q \in Requests, x \in Members : ~(q = r /\ x = m) => tgt'[q][x] = tgt[q][x]
  BY <1>1, MemberWrite
<1>3. tgt \in [Requests -> [Members -> TargetRow]] /\ tgt' \in [Requests -> [Members -> TargetRow]]
  <2>1. PICK row : TransitionTarget(m, r, row, to)
    BY <1>1 DEF MemberWrites
  <2> QED BY <2>1, TransitionTyped DEF TypeOK, Reports, TargetStates
<1>4. \A q \in Requests \ {r} : tgt'[q] = tgt[q]
  BY <1>2, <1>3
<1>5. PhaseOk(mut[r].st, tgt[r], CanaryOf[r]) /\ CanaryOf[r] \in Members
  BY ConstantsAssumption DEF PhaseAgreement
<1>6. mut[r].st # "absent"
  <2>1. tgt[r][m].st # "pending"
    BY <1>1 DEF MemberMove
  <2> QED BY <1>5, <2>1 DEF PhaseOk
<1>7. PhaseOk(mut[r].st, tgt'[r], CanaryOf[r])
  <2>1. mut[r].st \in {"absent", "claimed"} => FALSE
    BY <1>1, <1>5 DEF PhaseOk, MemberMove
  <2>2. mut[r].st = "validating" =>
          \A x \in Members : /\ tgt'[r][x].st \in {"pending", "validating", "validated", "nacked"}
                             /\ ~tgt'[r][x].eff
    BY <1>1, <1>2, <1>5 DEF PhaseOk, MemberMove
  <2>3. mut[r].st = "canary_applying" =>
          /\ \A x \in Members : x # CanaryOf[r] => tgt'[r][x].st = "validated"
          /\ tgt'[r][CanaryOf[r]].st \in {"apply_assigned", "applying", "acked", "nacked"}
    BY <1>1, <1>2, <1>5 DEF PhaseOk, MemberMove
  <2>4. mut[r].st = "canary_healthy" =>
          /\ \A x \in Members : x # CanaryOf[r] => tgt'[r][x].st = "validated"
          /\ tgt'[r][CanaryOf[r]].st = "acked"
    BY <1>1, <1>2, <1>5 DEF PhaseOk, MemberMove
  <2>5. mut[r].st = "expanding" =>
          /\ \A x \in Members : x # CanaryOf[r] =>
               tgt'[r][x].st \in {"validated", "apply_assigned", "applying", "acked", "nacked"}
          /\ tgt'[r][CanaryOf[r]].st = "acked"
    BY <1>1, <1>2, <1>5 DEF PhaseOk, MemberMove
  <2>6. mut[r].st \in {"fully_applied", "committed"} => \A x \in Members : tgt'[r][x].st = "acked"
    BY <1>1, <1>2, <1>5 DEF PhaseOk, MemberMove
  <2> QED BY <2>1, <2>2, <2>3, <2>4, <2>5, <2>6 DEF PhaseOk
<1>8. \A q \in Requests : /\ mut[q].st = "absent" => tgt'[q] = [x \in Members |-> FreshTarget]
                          /\ PhaseOk(mut[q].st, tgt'[q], CanaryOf[q])
  BY <1>4, <1>6, <1>7 DEF PhaseAgreement
<1> QED
  BY <1>2, <1>8 DEF PhaseAgreement

(* A plan that is carried out takes its mutation into a phase its rows fit. *)
LEMMA PlanKeepsPhase ==
  ASSUME TypeOK, EffectRecorded, CoordinatorSound, PhaseAgreement,
         NEW m \in Members, CoordinatorPlans(m)
  PROVE  PhaseAgreement'
<1> DEFINE r == co[m].req
           plan == co[m].plan
           canary == CanaryOf[r]
<1>1. /\ r \in Requests /\ mut[r].st = co[m].st
      /\ \A q \in Requests \ {r} : mut'[q].st = mut[q].st
      /\ plan.next = "keep" => mut'[r].st = mut[r].st
      /\ plan.next # "keep" => mut'[r].st = plan.next
  BY PlanPhase
<1>2. /\ PlanShape(mut[r].st, plan, canary) /\ PlanBasis(plan.next, tgt[r], canary)
      /\ canary \in Members /\ PhaseOk(mut[r].st, tgt[r], canary)
  BY <1>1, PlanPhase, ConstantsAssumption DEF CoordinatorSound, PhaseAgreement
<1>3. /\ plan.who \subseteq Members /\ plan.to \in TargetStates
      /\ \A x \in Members \ plan.who : tgt'[r][x] = tgt[r][x]
      /\ \A x \in plan.who : /\ plan.to \in TargetEdges[tgt[r][x].st]
                             /\ tgt'[r][x].st = plan.to
                             /\ tgt'[r][x].eff = tgt[r][x].eff
  BY PlanWrite
<1>4. \A x \in Members : tgt[r][x].st \in TargetStates /\ RowOk(tgt[r][x])
  BY <1>1 DEF TypeOK, TargetRow, EffectRecorded
<1>5. \A q \in Requests \ {r} : tgt'[q] = tgt[q]
  BY <1>1 DEF CoordinatorPlans, TypeOK
<1>6. /\ plan.to = "validating" => \A x \in plan.who : tgt[r][x].st = "pending"
      /\ plan.to = "apply_assigned" => \A x \in plan.who : tgt[r][x].st = "validated"
  BY <1>3, <1>4, EdgesInto
<1>7. mut[r].st \in Active /\ mut'[r].st # "absent"
  BY <1>1, <1>2 DEF PlanShape, Active
<1> HIDE DEF r, plan, canary
<1>8. PhaseOk(mut'[r].st, tgt'[r], canary)
  <2>1. CASE mut[r].st = "claimed"
    <3>1. mut'[r].st = "validating" /\ plan.to = "validating"
      BY <1>1, <1>2, <2>1 DEF PlanShape
    <3>2. \A x \in Members : tgt[r][x].st = "pending" /\ ~tgt[r][x].eff
      BY <1>2, <1>4, <2>1 DEF PhaseOk, RowOk, Effected
    <3>3. \A x \in Members : tgt'[r][x].st \in {"pending", "validating"} /\ ~tgt'[r][x].eff
      BY <1>3, <3>1, <3>2
    <3> QED BY <3>1, <3>3 DEF PhaseOk
  <2>2. CASE mut[r].st = "validating" /\ plan.next = "keep"
    <3>1. mut'[r].st = "validating" /\ (plan.to = "validating" \/ plan.who = {})
      BY <1>1, <1>2, <2>2 DEF PlanShape
    <3>2. \A x \in Members : /\ tgt[r][x].st \in {"pending", "validating", "validated", "nacked"}
                             /\ ~tgt[r][x].eff
      BY <1>2, <2>2 DEF PhaseOk
    <3>3. \A x \in Members : /\ tgt'[r][x].st \in {"pending", "validating", "validated", "nacked"}
                             /\ ~tgt'[r][x].eff
      BY <1>3, <3>1, <3>2
    <3> QED BY <3>1, <3>3 DEF PhaseOk
  <2>3. CASE mut[r].st = "validating" /\ plan.next # "keep"
    <3>1. /\ mut'[r].st = "canary_applying" /\ plan.to = "apply_assigned" /\ plan.who = {canary}
          /\ \A x \in Members : tgt[r][x].st = "validated"
      BY <1>1, <1>2, <2>3 DEF PlanShape, PlanBasis
    <3>2. /\ \A x \in Members : x # canary => tgt'[r][x].st = "validated"
          /\ tgt'[r][canary].st = "apply_assigned"
      BY <1>3, <3>1
    <3> QED BY <3>1, <3>2 DEF PhaseOk
  <2>4. CASE mut[r].st = "canary_applying" /\ plan.next # "rolling_back"
    <3>1. /\ \A x \in Members : x # canary => tgt[r][x].st = "validated"
          /\ tgt[r][canary].st \in {"apply_assigned", "applying", "acked", "nacked"}
      BY <1>2, <2>4 DEF PhaseOk
    <3>2. plan.who = {}
      BY <1>2, <1>6, <2>4, <3>1 DEF PlanShape
    <3>3. \A x \in Members : tgt'[r][x].st = tgt[r][x].st
      BY <1>3, <3>2
    <3>4. \/ mut'[r].st = "canary_applying"
          \/ mut'[r].st = "canary_healthy" /\ tgt[r][canary].st = "acked"
      BY <1>1, <1>2, <2>4 DEF PlanShape, PlanBasis
    <3> QED BY <1>2, <3>1, <3>3, <3>4 DEF PhaseOk
  <2>5. CASE mut[r].st = "canary_healthy" /\ plan.next # "rolling_back"
    <3>1. /\ \A x \in Members : x # canary => tgt[r][x].st = "validated"
          /\ tgt[r][canary].st = "acked"
      BY <1>2, <2>5 DEF PhaseOk
    <3>2. CASE plan.next = "keep"
      <4>1. mut'[r].st = "canary_healthy" /\ plan.who = {}
        BY <1>1, <1>2, <2>5, <3>2 DEF PlanShape
      <4>2. \A x \in Members : tgt'[r][x].st = tgt[r][x].st
        BY <1>3, <4>1
      <4> QED BY <1>2, <3>1, <4>1, <4>2 DEF PhaseOk
    <3>3. CASE plan.next # "keep"
      <4>1. mut'[r].st = "expanding" /\ plan.to = "apply_assigned"
        BY <1>1, <1>2, <2>5, <3>3 DEF PlanShape
      <4>2. canary \notin plan.who
        BY <1>6, <3>1, <4>1
      <4>3. /\ \A x \in Members : x # canary => tgt'[r][x].st \in {"validated", "apply_assigned"}
            /\ tgt'[r][canary].st = "acked"
        BY <1>2, <1>3, <3>1, <4>1, <4>2
      <4> QED BY <4>1, <4>3 DEF PhaseOk
    <3> QED BY <3>2, <3>3
  <2>6. CASE mut[r].st = "expanding" /\ plan.next # "rolling_back"
    <3>1. /\ \A x \in Members : x # canary =>
               tgt[r][x].st \in {"validated", "apply_assigned", "applying", "acked", "nacked"}
          /\ tgt[r][canary].st = "acked"
      BY <1>2, <2>6 DEF PhaseOk
    <3>2. CASE plan.next = "keep"
      <4>1. mut'[r].st = "expanding" /\ plan.to = "apply_assigned"
        BY <1>1, <1>2, <2>6, <3>2 DEF PlanShape
      <4>2. canary \notin plan.who
        BY <1>6, <3>1, <4>1
      <4>3. /\ \A x \in Members : x # canary =>
                 tgt'[r][x].st \in {"validated", "apply_assigned", "applying", "acked", "nacked"}
            /\ tgt'[r][canary].st = "acked"
        BY <1>2, <1>3, <3>1, <4>1, <4>2
      <4> QED BY <4>1, <4>3 DEF PhaseOk
    <3>3. CASE plan.next # "keep"
      <4>1. /\ mut'[r].st = "fully_applied" /\ plan.who = {}
            /\ \A x \in Members : tgt[r][x].st = "acked"
        BY <1>1, <1>2, <2>6, <3>3 DEF PlanShape, PlanBasis
      <4>2. \A x \in Members : tgt'[r][x].st = "acked"
        BY <1>3, <4>1
      <4> QED BY <4>1, <4>2 DEF PhaseOk
    <3> QED BY <3>2, <3>3
  <2>7. CASE mut[r].st = "fully_applied"
    <3>1. /\ mut'[r].st = "fully_applied" /\ plan.who = {}
          /\ \A x \in Members : tgt[r][x].st = "acked"
      BY <1>1, <1>2, <2>7 DEF PlanShape, PhaseOk
    <3>2. \A x \in Members : tgt'[r][x].st = "acked"
      BY <1>3, <3>1
    <3> QED BY <3>1, <3>2 DEF PhaseOk
  <2>8. CASE mut[r].st = "rolling_back" \/ plan.next = "rolling_back"
    <3>1. mut'[r].st = "rolling_back"
      BY <1>1, <1>2, <2>8 DEF PlanShape
    <3> QED BY <3>1 DEF PhaseOk
  <2> QED BY <1>7, <2>1, <2>2, <2>3, <2>4, <2>5, <2>6, <2>7, <2>8 DEF Active
<1>9. \A q \in Requests : /\ mut'[q].st = "absent" => tgt'[q] = [x \in Members |-> FreshTarget]
                          /\ PhaseOk(mut'[q].st, tgt'[q], CanaryOf[q])
  BY <1>1, <1>5, <1>7, <1>8 DEF PhaseAgreement, canary
<1> QED
  BY <1>9 DEF PhaseAgreement

(* PhaseAgreement is kept by every step. *)
LEMMA PhaseInductive ==
  TypeOK /\ WorkerSound /\ EffectRecorded /\ CoordinatorSound /\ PhaseAgreement /\ [Next]_vars
    => PhaseAgreement'
<1> SUFFICES ASSUME TypeOK, WorkerSound, EffectRecorded, CoordinatorSound, PhaseAgreement,
                    [Next]_vars
             PROVE  PhaseAgreement'
  OBVIOUS
<1>1. CASE MemberMoves
  BY <1>1, MovePhase
<1>2. ASSUME NEW m \in Members, CoordinatorPlans(m) PROVE PhaseAgreement'
  BY <1>2, PlanKeepsPhase
<1>3. ASSUME NEW m \in Members, NEW r \in Requests, Admit(m, r) PROVE PhaseAgreement'
  <2>1. UNCHANGED tgt
    BY <1>3 DEF Admit
  <2>2. /\ mut[r].st = "absent" /\ mut'[r].st = "claimed"
        /\ \A q \in Requests \ {r} : mut'[q].st = mut[q].st
    BY <1>3, AdmitStep
  <2>3. PhaseOk("claimed", tgt[r], CanaryOf[r])
    BY <2>2 DEF PhaseAgreement, PhaseOk
  <2> QED BY <2>1, <2>2, <2>3 DEF PhaseAgreement
<1>4. ASSUME NEW m \in Members, CoordinatorFinishes(m) PROVE PhaseAgreement'
  <2> DEFINE r == co[m].req
             fin == co[m].fin
  <2>1. UNCHANGED tgt /\ (fin = "committed" => \A x \in Members : tgt[r][x].st = "acked")
    BY <1>4 DEF CoordinatorFinishes, FinishFence, VerifyCommit
  <2>2. /\ r \in Requests /\ fin \in Terminal /\ mut'[r].st = fin
        /\ \A q \in Requests \ {r} : mut'[q].st = mut[q].st
    BY <1>4, FinishStep
  <2> HIDE DEF r, fin
  <2>3. PhaseOk(fin, tgt[r], CanaryOf[r]) /\ fin # "absent"
    BY <2>1, <2>2 DEF PhaseOk, Terminal
  <2> QED BY <2>1, <2>2, <2>3 DEF PhaseAgreement
<1>5. CASE (\A q \in Requests : ~MutationStep(q)) /\ UNCHANGED tgt
  BY <1>5, LedgerQuiet DEF PhaseAgreement
<1> QED
  BY <1>1, <1>2, <1>3, <1>4, <1>5, RowStep DEF MutationStep

-------------------------------------------------------------------------------
(* Plans. *)

(* While a mutation stays in its phase, no step takes back what a plan for that
   phase relies on.                                                           *)
LEMMA RowsStable ==
  ASSUME TypeOK, WorkerSound, EffectRecorded, CoordinatorSound, [Next]_vars,
         NEW r \in Requests, mut'[r].st = mut[r].st, NEW x \in Members
  PROVE  /\ mut[r].st = "validating" /\ tgt[r][x].st = "validated" => tgt'[r][x].st = "validated"
         /\ mut[r].st # "rolling_back" /\ tgt[r][x].st = "acked" => tgt'[r][x].st = "acked"
<1>1. CASE UNCHANGED tgt
  BY <1>1
<1>2. CASE MemberMoves
  <2>1. PICK q \in Requests, m \in Members, to \in Reports :
          MemberWrites(q, m, to) /\ MemberMove(tgt[q][m].st, to)
    BY <1>2 DEF MemberMoves
  <2>2. CASE q = r /\ m = x
    BY <2>1, <2>2 DEF MemberMove
  <2>3. CASE ~(q = r /\ m = x)
    BY <2>1, <2>3, MemberWrite
  <2> QED BY <2>2, <2>3
<1>3. ASSUME NEW m \in Members, CoordinatorPlans(m)
      PROVE  /\ mut[r].st = "validating" /\ tgt[r][x].st = "validated"
                  => tgt'[r][x].st = "validated"
             /\ mut[r].st # "rolling_back" /\ tgt[r][x].st = "acked" => tgt'[r][x].st = "acked"
  <2>1. CASE ~(co[m].req = r /\ x \in co[m].plan.who)
    BY <1>3, <2>1, PlanWrite
  <2>2. CASE co[m].req = r /\ x \in co[m].plan.who
    <3> DEFINE plan == co[m].plan
    <3>1. mut[r].st \in MutationStates /\ tgt[r][x].st \in TargetStates
      BY DEF TypeOK, MutationRow, TargetRow
    <3>2. plan.next = "keep"
      <4>1. plan.next # "keep" => /\ mut'[r].st = plan.next /\ plan.next \in MutationStates
                                  /\ plan.next \in MutationEdges[mut[r].st]
        BY <1>3, <2>2, PlanPhase
      <4> HIDE DEF plan
      <4> QED BY <3>1, <4>1, PhaseNumbers
    <3>3. PlanShape(mut[r].st, plan, CanaryOf[r])
      BY <1>3, <2>2, PlanPhase DEF CoordinatorSound
    <3>4. plan.to \in TargetEdges[tgt[r][x].st] /\ plan.who # {}
      BY <1>3, <2>2, PlanWrite
    <3> HIDE DEF plan
    <3>5. /\ plan.to = "validating" => tgt[r][x].st = "pending"
          /\ plan.to = "apply_assigned" => tgt[r][x].st = "validated"
      BY <3>1, <3>4, EdgesInto
    <3>6. /\ mut[r].st = "validating" => plan.to = "validating"
          /\ mut[r].st # "rolling_back" => plan.to \in {"validating", "apply_assigned"}
      BY <3>2, <3>3, <3>4 DEF PlanShape, Active
    <3> QED BY <3>5, <3>6
  <2> QED BY <2>1, <2>2
<1> QED
  BY <1>1, <1>2, <1>3, RowStep

LEMMA BasisKept ==
  ASSUME TypeOK, WorkerSound, EffectRecorded, CoordinatorSound, [Next]_vars,
         NEW r \in Requests, mut'[r].st = mut[r].st, NEW plan,
         PlanShape(mut[r].st, plan, CanaryOf[r]), PlanBasis(plan.next, tgt[r], CanaryOf[r])
  PROVE  PlanBasis(plan.next, tgt'[r], CanaryOf[r])
<1>1. /\ plan.next = "canary_applying" => mut[r].st = "validating"
      /\ plan.next \in {"canary_healthy", "fully_applied"} => mut[r].st # "rolling_back"
  BY DEF PlanShape, Active
<1>2. CanaryOf[r] \in Members
  BY ConstantsAssumption
<1> QED
  BY <1>1, <1>2, RowsStable DEF PlanBasis

LEMMA CoordinatorSoundInductive ==
  TypeOK /\ WorkerSound /\ EffectRecorded /\ CoordinatorSound /\ PhaseAgreement /\ [Next]_vars
    => CoordinatorSound'
<1> DEFINE Sound(m, r, st, plan) ==
             /\ PlanShape(st, plan, CanaryOf[r])
             /\ PhaseNo[st] <= PhaseNo[mut'[r].st]
             /\ mut'[r].st = st => PlanBasis(plan.next, tgt'[r], CanaryOf[r])
<1> SUFFICES ASSUME TypeOK, WorkerSound, EffectRecorded, CoordinatorSound, PhaseAgreement,
                    [Next]_vars, NEW m \in Members, co'[m].at # "idle"
             PROVE  Sound(m, co'[m].req, co'[m].st, co'[m].plan)
  BY DEF CoordinatorSound
<1>1. ASSUME NEW r \in Requests, CoordinatorReads(m, r)
      PROVE  Sound(m, co'[m].req, co'[m].st, co'[m].plan)
  <2> DEFINE d == Classify(mut[r].st, tgt[r], TRUE, mut[r].age = "expired", mut[r].age # "fresh",
                           CanaryOf[r])
             plan == PlanFor(mut[r].st, tgt[r], d)
             rows == [x \in Members |-> IF x \in plan.who THEN tgt[r][x] ELSE FreshTarget]
             fin == TerminalFor(mut[r].st, d)
  <2>1. mut[r].st \in Active /\ CanaryOf[r] \in Members /\ PhaseOk(mut[r].st, tgt[r], CanaryOf[r])
    BY <1>1, ConstantsAssumption DEF CoordinatorReads, PhaseAgreement
  <2>2. PlanShape(mut[r].st, plan, CanaryOf[r]) /\ PlanBasis(plan.next, tgt[r], CanaryOf[r])
    BY <2>1, ReadPlan
  <2>3. co' = [co EXCEPT ![m] = [IdleCoordinator EXCEPT !.at = "read", !.req = r,
                                   !.st = mut[r].st, !.plan = plan, !.fin = fin, !.rows = rows]]
    BY <1>1 DEF CoordinatorReads
  <2> HIDE DEF d, plan, fin, rows
  <2>4. co'[m].plan = plan /\ co'[m].st = mut[r].st /\ co'[m].req = r
    BY <2>3 DEF TypeOK, IdleCoordinator
  <2>5. UNCHANGED <<mut, tgt>>
    BY <1>1 DEF CoordinatorReads
  <2>6. PhaseNo[mut[r].st] \in Nat
    BY PhaseNumbers DEF TypeOK, MutationRow
  <2> QED BY <2>2, <2>4, <2>5, <2>6
<1>2. ASSUME co[m].at # "idle", co'[m].st = co[m].st, co'[m].req = co[m].req,
             co'[m].plan = co[m].plan
      PROVE  Sound(m, co'[m].req, co'[m].st, co'[m].plan)
  <2> DEFINE r == co[m].req
             st == co[m].st
             plan == co[m].plan
  <2>1. /\ r \in Requests /\ st \in MutationStates /\ mut[r].st \in MutationStates
        /\ PlanShape(st, plan, CanaryOf[r]) /\ PhaseNo[st] <= PhaseNo[mut[r].st]
        /\ mut[r].st = st => PlanBasis(plan.next, tgt[r], CanaryOf[r])
    BY <1>2 DEF TypeOK, MutationRow, CoordinatorSound, PlanShape, MutationStates
  <2>2. mut'[r].st \in MutationStates
    <3>1. TypeOK'
      BY NextTypeOK
    <3> QED BY <2>1, <3>1 DEF TypeOK, MutationRow
  <2>3. mut'[r].st = mut[r].st \/ PhaseNo[mut[r].st] < PhaseNo[mut'[r].st]
    BY <2>1, PhaseStep
  <2> HIDE DEF r, st, plan
  <2>4. PhaseNo[st] \in Nat /\ PhaseNo[mut[r].st] \in Nat /\ PhaseNo[mut'[r].st] \in Nat
    BY <2>1, <2>2, PhaseNumbers
  <2>5. PhaseNo[st] <= PhaseNo[mut'[r].st]
    BY <2>1, <2>3, <2>4
  <2>6. ASSUME mut'[r].st = st PROVE PlanBasis(plan.next, tgt'[r], CanaryOf[r])
    <3>1. mut'[r].st = mut[r].st
      BY <2>1, <2>3, <2>4, <2>6
    <3>2. mut[r].st = st
      BY <2>6, <3>1
    <3> QED BY <2>1, <3>1, <3>2, BasisKept
  <2> QED BY <1>2, <2>1, <2>5, <2>6 DEF r, st, plan
<1> QED
  BY <1>1, <1>2, CoordinatorStep

-------------------------------------------------------------------------------
LEMMA PhaseInit == Init => WorkerSound /\ CoordinatorSound /\ PhaseAgreement
<1> SUFFICES ASSUME Init PROVE WorkerSound /\ CoordinatorSound /\ PhaseAgreement
  OBVIOUS
<1>1. WorkerSound
  BY DEF Init, WorkerSound, WorkerOk, IdleWorker
<1>2. CoordinatorSound
  BY DEF Init, CoordinatorSound, IdleCoordinator
<1>3. PhaseAgreement
  BY DEF Init, PhaseAgreement, PhaseOk, FreshTarget, AbsentMutation
<1> QED
  BY <1>1, <1>2, <1>3

(* For every cluster and under every fault, the phase of a mutation and its
   target rows agree: nobody applies before all have validated, nobody but the
   canary before it acknowledged, and no mutation is fully applied or committed
   without every acknowledgement, however stale the rows a coordinator planned
   on (transition_plan, apply_transition_plan, finish_tx_inner).              *)
THEOREM PhasesAgree == Spec => []PhaseAgreement
<1> DEFINE IInv == /\ PlanSound /\ EffectRecorded
                   /\ WorkerSound /\ CoordinatorSound /\ PhaseAgreement
<1>1. Init => IInv
  BY EffectInit, PhaseInit
<1>2. TypeOK /\ IInv /\ [Next]_vars => IInv'
  BY PlanSoundInductive, EffectInductive, WorkerSoundInductive, CoordinatorSoundInductive,
     PhaseInductive
<1>3. IInv => PhaseAgreement
  OBVIOUS
<1> HIDE DEF IInv
<1> QED
  BY <1>1, <1>2, <1>3, TypeCorrect, PTL DEF Spec

-------------------------------------------------------------------------------
(* What a commit is evidence of.  An etag only grows within a boot, a request is
   pinned to the etag of the member that admitted it, and requests build on each
   other: so the etag tells a process that has gone past a revision from one that
   has not, and convergence cannot take a process back over an acknowledgement. *)

(* A process whose etag is n has gone past the revision. *)
Past(mu, rev, n) == rev \in Requests => mu[rev].st # "absent" /\ mu[rev].pre < n

(* The ledger: a request is pinned past the revision it starts from. *)
LedgerOk(mu, cm) ==
  /\ cm \in Requests => mu[cm].st = "committed"
  /\ \A r \in Requests : mu[r].st # "absent" => Past(mu, mu[r].prior, mu[r].pre)
  /\ \A r \in Requests : mu[r].st \in Active => mu[r].prior = cm

(* A process is past what it runs and past what it would restore. *)
ProcessOk(mu, p) == Past(mu, p.active, p.etag) /\ Past(mu, p.slot, p.etag)

(* ... and past the ready head it published in its present boot. *)
HeadOk(mu, p, h) ==
  /\ h.boot <= p.boot
  /\ h.boot = p.boot /\ h.ready => Past(mu, h.rev, p.etag)

(* A worker that applied is past its request, one that may restore is past the
   revision its request started from.                                        *)
WorkOk(mu, p, w) ==
  /\ w.at \in WorkSteps => mu[w.req].st # "absent"
  /\ w.at \in {"publish", "ack"} => p.active = w.req /\ mu[w.req].pre < p.etag
  /\ w.at \in {"rollback_assigned", "rolling_back"} /\ p.slot # None =>
       Past(mu, mu[w.req].prior, p.etag)
  /\ w.at = "restored" => Past(mu, mu[w.req].prior, p.etag)

(* So is every process that installed something, or works for another request. *)
SlotOk(mu, p, w) ==
  \A r \in Requests :
    /\ mu[r].st \in Active
    /\ p.slot # None \/ (w.at \in WorkSteps /\ w.req # r)
    => Past(mu, mu[r].prior, p.etag)

(* An acknowledgement of the present boot still describes the process. *)
AckOk(mu, p, w, r, row) ==
  /\ row.boot <= p.boot
  /\ row.st = "acked" /\ row.boot = p.boot /\ mu[r].st \in Active =>
       p.active = r /\ w.at \notin WorkSteps /\ mu[r].pre < p.etag

MemberOk(m) ==
  /\ hb[m].boot = proc[m].boot
  /\ ProcessOk(mut, proc[m]) /\ HeadOk(mut, proc[m], head[m])
  /\ WorkOk(mut, proc[m], wk[m]) /\ SlotOk(mut, proc[m], wk[m])
  /\ \A r \in Requests : AckOk(mut, proc[m], wk[m], r, tgt[r][m])

CommitBasis == LedgerOk(mut, committed) /\ \A m \in Members : MemberOk(m)

-------------------------------------------------------------------------------
(* A request keeps its start, its etag and its presence. *)
LEMMA MutationKept ==
  ASSUME TypeOK, [Next]_vars, NEW r \in Requests, mut[r].st # "absent"
  PROVE  /\ mut'[r].st # "absent" /\ mut'[r].pre = mut[r].pre /\ mut'[r].prior = mut[r].prior
         /\ mut'[r].st \in Active => mut[r].st \in Active
<1>1. mut \in [Requests -> MutationRow] /\ mut[r] \in MutationRow
  BY DEF TypeOK
<1>2. mut'[r].pre = mut[r].pre
  <2>1. ASSUME NEW m \in Members, NEW q \in Requests, Admit(m, q) PROVE mut'[r].pre = mut[r].pre
    BY <2>1, AdmitStep
  <2>2. ASSUME NEW m \in Members, CoordinatorPlans(m) PROVE mut'[r].pre = mut[r].pre
    <3> DEFINE q == co[m].req
               next == co[m].plan.next
    <3>1. mut' = IF next = "keep" THEN mut ELSE [mut EXCEPT ![q] = AdvancedMutation(mut[q], next)]
      BY <2>2 DEF CoordinatorPlans
    <3>2. AdvancedMutation(mut[r], next).pre = mut[r].pre
      BY <1>1 DEF AdvancedMutation, MutationRow
    <3> HIDE DEF q, next
    <3> QED BY <1>1, <3>1, <3>2
  <2>3. ASSUME NEW m \in Members, CoordinatorFinishes(m) PROVE mut'[r].pre = mut[r].pre
    <3> DEFINE q == co[m].req
               fin == co[m].fin
    <3>1. mut' = [mut EXCEPT ![q] = FinishedMutation(mut[q], fin)]
      BY <2>3 DEF CoordinatorFinishes
    <3>2. FinishedMutation(mut[r], fin).pre = mut[r].pre
      BY <1>1 DEF FinishedMutation, MutationRow
    <3> HIDE DEF q, fin
    <3> QED BY <1>1, <3>1, <3>2
  <2>4. ASSUME NEW m \in Members, CoordinatorAcquires(m) PROVE mut'[r].pre = mut[r].pre
    BY <1>1, <2>4 DEF CoordinatorAcquires, MutationRow
  <2>5. ASSUME NEW m \in Members, \/ \E q \in Requests : CoordinatorReads(m, q)
                                 \/ CoordinatorFails(m) \/ MemberLoop(m) \/ Process(m)
        PROVE  UNCHANGED mut
    BY <2>5
    DEF CoordinatorReads, CoordinatorFails, MemberLoop, LoadWork, Validate, WriteCheckpoint,
        PublishUnready, MarkApplying, ApplyCandidate, PublishApplied, Report, RecoverApplying,
        BeginRollback, Restore, PublishRestored, EndRollback, WorkerFails, ScanFails,
        StartPublish, StartReady, Converge, ConvergeApply, StartFails, store,
        Process, Crash, Shutdown, Boot, LoseHeartbeat, Heartbeat
  <2>6. ASSUME NEW q \in Requests, ExpireLease(q) \/ Age(q) PROVE mut'[r].pre = mut[r].pre
    <3>1. \/ mut' = [mut EXCEPT ![q].live = FALSE]
          \/ \E a : mut' = [mut EXCEPT ![q].age = a]
      BY <2>6 DEF ExpireLease, Age
    <3> QED BY <1>1, <3>1 DEF MutationRow
  <2>7. CASE UNCHANGED vars
    BY <2>7 DEF vars
  <2> QED BY <2>1, <2>2, <2>3, <2>4, <2>5, <2>6, <2>7 DEF Next, Coordinator
<1>3. /\ mut'[r].st # "absent" /\ mut'[r].prior = mut[r].prior
      /\ mut'[r].st \in Active => mut[r].st \in Active
  <2>1. ASSUME NEW m \in Members, NEW q \in Requests, Admit(m, q)
        PROVE  mut'[r] = mut[r]
    BY <2>1, AdmitStep
  <2>2. ASSUME NEW m \in Members, CoordinatorPlans(m)
        PROVE  /\ mut'[r].st # "absent" /\ mut'[r].prior = mut[r].prior
               /\ mut'[r].st \in Active => mut[r].st \in Active
    BY <2>2, PlanStep DEF Active
  <2>3. ASSUME NEW m \in Members, CoordinatorFinishes(m)
        PROVE  /\ mut'[r].st # "absent" /\ mut'[r].prior = mut[r].prior
               /\ mut'[r].st \in Active => mut[r].st \in Active
    BY <2>3, FinishStep DEF Terminal, Active
  <2>4. CASE \A q \in Requests : ~MutationStep(q)
    BY <2>4, LedgerQuiet
  <2> QED BY <2>1, <2>2, <2>3, <2>4 DEF MutationStep
<1> QED
  BY <1>2, <1>3

(* What was past stays past. *)
LEMMA PastKept ==
  ASSUME TypeOK, [Next]_vars
  PROVE  \A rev, n : Past(mut, rev, n) => Past(mut', rev, n)
<1> SUFFICES ASSUME NEW rev, NEW n, Past(mut, rev, n) PROVE Past(mut', rev, n)
  OBVIOUS
<1> QED
  BY MutationKept DEF Past

(* Only an admission makes a request present. *)
LEMMA AbsentKept ==
  ASSUME TypeOK, [Next]_vars, NEW r \in Requests, mut[r].st = "absent"
  PROVE  mut'[r].st = "absent" \/ \E m \in Members : Admit(m, r)
<1>1. CASE \A q \in Requests : ~MutationStep(q)
  BY <1>1, LedgerQuiet
<1>2. ASSUME NEW m \in Members, CoordinatorPlans(m) PROVE mut'[r].st = "absent"
  BY <1>2, PlanStep DEF Active
<1>3. ASSUME NEW m \in Members, CoordinatorFinishes(m) PROVE mut'[r].st = "absent"
  BY <1>3, FinishStep DEF Active
<1>4. ASSUME NEW m \in Members, NEW q \in Requests, Admit(m, q), q # r PROVE mut'[r].st = "absent"
  BY <1>4, AdmitStep
<1> QED
  BY <1>1, <1>2, <1>3, <1>4 DEF MutationStep

(* At an admission every process is past the committed revision. *)
LEMMA AdmittedPast ==
  ASSUME TypeOK, CommitBasis, NEW m \in Members, NEW r \in Requests, Admit(m, r)
  PROVE  /\ \A x \in Members : Past(mut, committed, proc[x].etag)
         /\ mut'[r].pre = proc[m].etag
<1>1. \A x \in Members : /\ head[x].boot = hb[x].boot /\ head[x].rev = committed /\ head[x].ready
                         /\ hb[x].boot = proc[x].boot /\ HeadOk(mut, proc[x], head[x])
  BY DEF Admit, ExactBaseline, HeadReadyAt, HeadIs, CommitBasis, MemberOk
<1>2. \A x \in Members : Past(mut, committed, proc[x].etag)
  BY <1>1 DEF HeadOk
<1>3. mut'[r].pre = proc[m].etag
  BY DEF Admit, TypeOK, ClaimedMutation, AbsentMutation
<1> QED
  BY <1>2, <1>3

LEMMA LedgerOkInductive ==
  ASSUME TypeOK, ReservationExact, CommitBasis, [Next]_vars
  PROVE  LedgerOk(mut', committed')
<1>1. /\ committed \in Requests => mut[committed].st = "committed"
      /\ \A r \in Requests : mut[r].st # "absent" => Past(mut, mut[r].prior, mut[r].pre)
      /\ \A r \in Requests : mut[r].st \in Active => mut[r].prior = committed
  BY DEF CommitBasis, LedgerOk
<1>2. \A r \in Requests : mut'[r].st # "absent" => Past(mut', mut'[r].prior, mut'[r].pre)
  <2> SUFFICES ASSUME NEW r \in Requests, mut'[r].st # "absent"
               PROVE  Past(mut', mut'[r].prior, mut'[r].pre)
    OBVIOUS
  <2>1. CASE mut[r].st # "absent"
    BY <1>1, <2>1, MutationKept, PastKept
  <2>2. CASE mut[r].st = "absent"
    <3>1. PICK m \in Members : Admit(m, r)
      BY <2>2, AbsentKept
    <3>2. mut'[r].prior = committed /\ mut'[r].pre = proc[m].etag
      BY <3>1, AdmitStep, AdmittedPast
    <3>3. Past(mut, committed, proc[m].etag)
      BY <3>1, AdmittedPast
    <3> QED BY <3>2, <3>3, PastKept
  <2> QED BY <2>1, <2>2
<1>3. /\ committed' \in Requests => mut'[committed'].st = "committed"
      /\ \A r \in Requests : mut'[r].st \in Active => mut'[r].prior = committed'
  <2>1. ASSUME NEW m \in Members, NEW q \in Requests, Admit(m, q)
        PROVE  /\ committed' \in Requests => mut'[committed'].st = "committed"
               /\ \A r \in Requests : mut'[r].st \in Active => mut'[r].prior = committed'
    <3>1. /\ committed' = committed /\ mut'[q].prior = committed /\ mut[q].st = "absent"
          /\ \A r \in Requests \ {q} : mut'[r] = mut[r]
      BY <2>1, AdmitStep
    <3> QED BY <1>1, <3>1
  <2>2. ASSUME NEW m \in Members, CoordinatorPlans(m)
        PROVE  /\ committed' \in Requests => mut'[committed'].st = "committed"
               /\ \A r \in Requests : mut'[r].st \in Active => mut'[r].prior = committed'
    BY <1>1, <2>2, PlanStep DEF Active
  <2>3. ASSUME NEW m \in Members, CoordinatorFinishes(m)
        PROVE  /\ committed' \in Requests => mut'[committed'].st = "committed"
               /\ \A r \in Requests : mut'[r].st \in Active => mut'[r].prior = committed'
    <3> DEFINE q == co[m].req
               fin == co[m].fin
    <3>1. /\ q \in Requests /\ fin \in Terminal /\ mut[q].st \in Active /\ mut'[q].st = fin
          /\ committed' = IF fin = "committed" THEN q ELSE committed
          /\ \A r \in Requests : mut'[r].prior = mut[r].prior
          /\ \A r \in Requests \ {q} : mut'[r].st = mut[r].st
      BY <2>3, FinishStep
    <3>2. \A r \in Requests : mut[r].st \in Active => r = q
      BY <3>1 DEF ReservationExact
    <3> HIDE DEF q, fin
    <3> QED BY <1>1, <3>1, <3>2 DEF Terminal, Active
  <2>4. CASE \A q \in Requests : ~MutationStep(q)
    BY <1>1, <2>4, LedgerQuiet
  <2> QED BY <2>1, <2>2, <2>3, <2>4 DEF MutationStep
<1> QED
  BY <1>2, <1>3 DEF LedgerOk
-------------------------------------------------------------------------------
(* A step that leaves member m's process, worker and head alone, and
   acknowledges nothing in its name.                                          *)
Quiet(m) ==
  /\ proc'[m] = proc[m] /\ wk'[m] = wk[m] /\ head'[m] = head[m] /\ hb'[m].boot = hb[m].boot
  /\ \A r \in Requests : /\ tgt'[r][m].boot = tgt[r][m].boot
                         /\ tgt'[r][m].st = "acked" => tgt[r][m].st = "acked"

LEMMA QuietKeeps ==
  ASSUME TypeOK, PhaseAgreement, CommitBasis, [Next]_vars, NEW m \in Members, Quiet(m)
  PROVE  MemberOk(m)'
<1>1. /\ hb[m].boot = proc[m].boot
      /\ ProcessOk(mut, proc[m]) /\ HeadOk(mut, proc[m], head[m])
      /\ WorkOk(mut, proc[m], wk[m]) /\ SlotOk(mut, proc[m], wk[m])
      /\ \A r \in Requests : AckOk(mut, proc[m], wk[m], r, tgt[r][m])
  BY DEF CommitBasis, MemberOk
<1>2. /\ proc'[m] = proc[m] /\ wk'[m] = wk[m] /\ head'[m] = head[m] /\ hb'[m].boot = hb[m].boot
      /\ \A r \in Requests : /\ tgt'[r][m].boot = tgt[r][m].boot
                             /\ tgt'[r][m].st = "acked" => tgt[r][m].st = "acked"
  BY DEF Quiet
<1>3. ProcessOk(mut', proc[m]) /\ HeadOk(mut', proc[m], head[m])
  BY <1>1, PastKept DEF ProcessOk, HeadOk
<1>4. WorkOk(mut', proc[m], wk[m])
  <2>1. wk[m].at \in WorkSteps =>
          /\ wk[m].req \in Requests /\ mut'[wk[m].req].st # "absent"
          /\ mut'[wk[m].req].pre = mut[wk[m].req].pre /\ mut'[wk[m].req].prior = mut[wk[m].req].prior
    BY <1>1, MutationKept DEF TypeOK, WorkOk
  <2>2. {"publish", "ack", "rollback_assigned", "rolling_back", "restored"} \subseteq WorkSteps
    BY DEF WorkSteps, WorkerSteps
  <2> QED BY <1>1, <2>1, <2>2, PastKept DEF WorkOk
<1>5. SlotOk(mut', proc[m], wk[m])
  <2> SUFFICES ASSUME NEW r \in Requests, mut'[r].st \in Active,
                      proc[m].slot # None \/ (wk[m].at \in WorkSteps /\ wk[m].req # r)
               PROVE  Past(mut', mut'[r].prior, proc[m].etag)
    BY DEF SlotOk
  <2>1. CASE mut[r].st # "absent"
    BY <1>1, <2>1, MutationKept, PastKept DEF SlotOk
  <2>2. CASE mut[r].st = "absent"
    <3>1. PICK x \in Members : Admit(x, r)
      BY <2>2, AbsentKept DEF Active
    <3>2. mut'[r].prior = committed /\ Past(mut, committed, proc[m].etag)
      BY <3>1, AdmitStep, AdmittedPast
    <3> QED BY <3>2, PastKept
  <2> QED BY <2>1, <2>2
<1>6. \A r \in Requests : AckOk(mut', proc[m], wk[m], r, tgt'[r][m])
  <2> SUFFICES ASSUME NEW r \in Requests PROVE AckOk(mut', proc[m], wk[m], r, tgt'[r][m])
    OBVIOUS
  <2>1. CASE mut[r].st # "absent"
    BY <1>1, <1>2, <2>1, MutationKept DEF AckOk
  <2>2. CASE mut[r].st = "absent"
    <3>1. tgt[r][m].st # "acked"
      BY <2>2 DEF PhaseAgreement, FreshTarget
    <3> QED BY <1>1, <1>2, <3>1 DEF AckOk
  <2> QED BY <2>1, <2>2
<1> QED
  BY <1>1, <1>2, <1>3, <1>4, <1>5, <1>6 DEF MemberOk

(* Whoever else acts, and the coordinators, leave member m alone. *)
LEMMA OthersQuiet ==
  ASSUME TypeOK, PlanSound, [Next]_vars, NEW m \in Members
  PROVE  Quiet(m) \/ MemberLoop(m) \/ Crash(m) \/ Shutdown(m) \/ Boot(m)
<1>1. /\ proc \in [Members -> ProcessRecord] /\ wk \in [Members -> WorkerRecord]
      /\ head \in [Members -> HeadRow] /\ hb \in [Members -> HeartbeatRow]
      /\ tgt \in [Requests -> [Members -> TargetRow]]
  BY DEF TypeOK
<1>2. ASSUME NEW x \in Members, NEW r \in Requests, Admit(x, r) PROVE Quiet(m)
  BY <1>2 DEF Admit, Quiet
<1>3. ASSUME NEW x \in Members, Coordinator(x), ~CoordinatorPlans(x) PROVE Quiet(m)
  BY <1>3 DEF Coordinator, CoordinatorReads, CoordinatorAcquires, CoordinatorFinishes,
              CoordinatorFails, store, Quiet
<1>4. ASSUME NEW x \in Members, CoordinatorPlans(x) PROVE Quiet(m)
  <2> DEFINE q == co[x].req
             plan == co[x].plan
  <2>1. UNCHANGED <<proc, wk, head, hb>>
    BY <1>4 DEF CoordinatorPlans
  <2>2. tgt' = [tgt EXCEPT ![q] = [y \in Members |->
                  IF y \in plan.who THEN AssignedTarget(tgt[q][y], plan.to, co[x].epoch)
                                    ELSE tgt[q][y]]]
    BY <1>4 DEF CoordinatorPlans
  <2>3. plan.to \in {"validating", "apply_assigned", "rollback_assigned"}
    BY <1>4 DEF PlanSound, CoordinatorPlans
  <2>4. q \in Requests
    BY <1>4, PlanWrite
  <2>5. LET row == AssignedTarget(tgt[q][m], plan.to, co[x].epoch)
        IN  row.boot = tgt[q][m].boot /\ row.st = plan.to
    BY <1>1, <2>4 DEF AssignedTarget, TargetRow
  <2> HIDE DEF q, plan
  <2>6. \A r \in Requests : \/ tgt'[r][m] = tgt[r][m]
                            \/ /\ r = q
                               /\ tgt'[r][m] = AssignedTarget(tgt[q][m], plan.to, co[x].epoch)
    BY <1>1, <2>2, <2>4
  <2>7. \A r \in Requests : /\ tgt'[r][m].boot = tgt[r][m].boot
                            /\ tgt'[r][m].st = "acked" => tgt[r][m].st = "acked"
    BY <2>3, <2>5, <2>6
  <2> QED BY <2>1, <2>7 DEF Quiet
<1>5. ASSUME NEW x \in Members, MemberLoop(x), x # m PROVE Quiet(m)
  <2>1. UNCHANGED wk \/ \E w : wk' = [wk EXCEPT ![x] = w]
    BY <1>1, <1>5
    DEF MemberLoop, LoadWork, Validate, WriteCheckpoint, PublishUnready, MarkApplying,
        ApplyCandidate, PublishApplied, Report, RecoverApplying, BeginRollback, Restore,
        PublishRestored, EndRollback, WorkerFails, ScanFails, StartPublish, StartReady, Converge,
        ConvergeApply, StartFails, Worker, WorkerIs
  <2>2. UNCHANGED proc \/ \E p : proc' = [proc EXCEPT ![x] = p]
    BY <1>5
    DEF MemberLoop, LoadWork, Validate, WriteCheckpoint, PublishUnready, MarkApplying,
        ApplyCandidate, PublishApplied, Report, RecoverApplying, BeginRollback, Restore,
        PublishRestored, EndRollback, WorkerFails, ScanFails, StartPublish, StartReady, Converge,
        ConvergeApply, StartFails
  <2>3. UNCHANGED head \/ \E h : head' = [head EXCEPT ![x] = h]
    BY <1>5
    DEF MemberLoop, LoadWork, Validate, WriteCheckpoint, PublishUnready, MarkApplying,
        ApplyCandidate, PublishApplied, Report, RecoverApplying, BeginRollback, Restore,
        PublishRestored, EndRollback, WorkerFails, ScanFails, StartPublish, StartReady, Converge,
        ConvergeApply, StartFails, PublishHead, store
  <2>4. UNCHANGED hb \/ hb' = [hb EXCEPT ![x].ready = TRUE, ![x].live = TRUE]
    BY <1>5
    DEF MemberLoop, LoadWork, Validate, WriteCheckpoint, PublishUnready, MarkApplying,
        ApplyCandidate, PublishApplied, Report, RecoverApplying, BeginRollback, Restore,
        PublishRestored, EndRollback, WorkerFails, ScanFails, StartPublish, StartReady, Converge,
        ConvergeApply, StartFails, store
  <2>5. UNCHANGED tgt \/ \E q, row : tgt' = [tgt EXCEPT ![q][x] = row]
    BY <1>5
    DEF MemberLoop, LoadWork, Validate, WriteCheckpoint, PublishUnready, MarkApplying,
        ApplyCandidate, PublishApplied, Report, RecoverApplying, BeginRollback, Restore,
        PublishRestored, EndRollback, WorkerFails, ScanFails, StartPublish, StartReady, Converge,
        ConvergeApply, StartFails, store, TransitionTarget
  <2>6. \A r \in Requests : tgt'[r][m] = tgt[r][m]
    BY <1>1, <1>5, <2>5
  <2>7. proc'[m] = proc[m] /\ wk'[m] = wk[m] /\ head'[m] = head[m] /\ hb'[m] = hb[m]
    BY <1>1, <1>5, <2>1, <2>2, <2>3, <2>4
  <2> QED BY <2>6, <2>7 DEF Quiet
<1>6. ASSUME NEW x \in Members, Process(x), x # m PROVE Quiet(m)
  <2>1. UNCHANGED <<tgt, head>>
    BY <1>6 DEF Process, Crash, Shutdown, Boot, LoseHeartbeat, Heartbeat, store
  <2>2. proc'[m] = proc[m] /\ wk'[m] = wk[m]
    BY <1>1, <1>6 DEF Process, Crash, Shutdown, Down, Boot, LoseHeartbeat, Heartbeat
  <2>3. hb'[m] = hb[m]
    BY <1>1, <1>6 DEF Process, Crash, Shutdown, Boot, LoseHeartbeat, Heartbeat, store
  <2> QED BY <2>1, <2>2, <2>3 DEF Quiet
<1>7. ASSUME LoseHeartbeat(m) \/ Heartbeat(m) PROVE Quiet(m)
  <2>1. hb'[m].boot = hb[m].boot
    BY <1>1, <1>7 DEF LoseHeartbeat, Heartbeat, HeartbeatRow
  <2> QED BY <1>7, <2>1 DEF LoseHeartbeat, Heartbeat, Quiet
<1>8. ASSUME NEW r \in Requests, ExpireLease(r) \/ Age(r) PROVE Quiet(m)
  BY <1>8 DEF ExpireLease, Age, Quiet
<1>9. CASE UNCHANGED vars
  BY <1>9 DEF vars, Quiet
<1> QED
  BY <1>2, <1>3, <1>4, <1>5, <1>6, <1>7, <1>8, <1>9 DEF Next, Process

-------------------------------------------------------------------------------
(* A process that stops keeps its last record; one that boots starts over under
   a boot number that no row and no head carries yet.                         *)
LEMMA StopKeeps ==
  ASSUME TypeOK, CommitBasis, NEW m \in Members, Crash(m) \/ Shutdown(m)
  PROVE  MemberOk(m)'
<1>1. /\ hb[m].boot = proc[m].boot
      /\ ProcessOk(mut, proc[m]) /\ HeadOk(mut, proc[m], head[m])
      /\ SlotOk(mut, proc[m], wk[m])
      /\ \A r \in Requests : AckOk(mut, proc[m], wk[m], r, tgt[r][m])
  BY DEF CommitBasis, MemberOk
<1>2. UNCHANGED <<mut, tgt, head>>
  BY DEF Crash, Shutdown, store
<1>3. hb'[m].boot = hb[m].boot
  <2>1. hb[m] \in HeartbeatRow /\ hb \in [Members -> HeartbeatRow]
    BY DEF TypeOK
  <2>2. \/ hb' = hb
        \/ hb' = [hb EXCEPT ![m] = [hb[m] EXCEPT !.ready = FALSE, !.live = FALSE]]
    BY <1>1 DEF Crash, Shutdown, store
  <2>3. [hb[m] EXCEPT !.ready = FALSE, !.live = FALSE].boot = hb[m].boot
    BY <2>1 DEF HeartbeatRow
  <2> QED BY <2>1, <2>2, <2>3
<1>4. proc' = [proc EXCEPT ![m].up = FALSE] /\ wk' = [wk EXCEPT ![m] = IdleWorker("off")]
  BY DEF Crash, Shutdown, Down
<1>5. /\ proc'[m].boot = proc[m].boot /\ proc'[m].active = proc[m].active
      /\ proc'[m].slot = proc[m].slot /\ proc'[m].etag = proc[m].etag
  BY <1>4 DEF TypeOK, ProcessRecord
<1>6. wk'[m].at = "off"
  BY <1>4 DEF TypeOK, IdleWorker
<1>7. ProcessOk(mut', proc'[m]) /\ HeadOk(mut', proc'[m], head'[m])
  BY <1>1, <1>2, <1>5 DEF ProcessOk, HeadOk
<1>8. WorkOk(mut', proc'[m], wk'[m]) /\ SlotOk(mut', proc'[m], wk'[m])
  BY <1>1, <1>2, <1>5, <1>6 DEF WorkOk, SlotOk, WorkSteps
<1>9. \A r \in Requests : AckOk(mut', proc'[m], wk'[m], r, tgt'[r][m])
  BY <1>1, <1>2, <1>5, <1>6 DEF AckOk, WorkSteps
<1> QED
  BY <1>1, <1>3, <1>5, <1>7, <1>8, <1>9 DEF MemberOk

LEMMA BootKeeps ==
  ASSUME TypeOK, CommitBasis, NEW m \in Members, Boot(m)
  PROVE  MemberOk(m)'
<1>1. /\ hb[m].boot = proc[m].boot /\ HeadOk(mut, proc[m], head[m])
      /\ \A r \in Requests : AckOk(mut, proc[m], wk[m], r, tgt[r][m])
  BY DEF CommitBasis, MemberOk
<1>2. /\ UNCHANGED <<mut, tgt, head>>
      /\ proc' = [proc EXCEPT ![m] = [up |-> TRUE, boot |-> hb[m].boot + 1, active |-> Base,
                                      slot |-> None, etag |-> 1]]
      /\ hb' = [hb EXCEPT ![m] = [boot |-> hb[m].boot + 1, ready |-> FALSE, live |-> TRUE]]
      /\ wk' = [wk EXCEPT ![m] = IdleWorker("start")]
  BY DEF Boot
<1>3. /\ proc'[m].boot = hb[m].boot + 1 /\ proc'[m].active = Base /\ proc'[m].slot = None
      /\ hb'[m].boot = hb[m].boot + 1 /\ wk'[m].at = "start"
  BY <1>2 DEF TypeOK, IdleWorker
<1>4. hb[m].boot \in Nat /\ head[m].boot \in Nat /\ \A r \in Requests : tgt[r][m].boot \in Nat
  BY DEF TypeOK, HeartbeatRow, HeadRow, TargetRow
<1>5. ProcessOk(mut', proc'[m])
  BY <1>3, ConstantsAssumption DEF ProcessOk, Past
<1>6. HeadOk(mut', proc'[m], head'[m])
  BY <1>1, <1>2, <1>3, <1>4 DEF HeadOk
<1>7. WorkOk(mut', proc'[m], wk'[m]) /\ SlotOk(mut', proc'[m], wk'[m])
  BY <1>3 DEF WorkOk, SlotOk, WorkSteps
<1>8. \A r \in Requests : AckOk(mut', proc'[m], wk'[m], r, tgt'[r][m])
  BY <1>1, <1>2, <1>3, <1>4 DEF AckOk
<1> QED
  BY <1>3, <1>5, <1>6, <1>7, <1>8 DEF MemberOk

-------------------------------------------------------------------------------
(* A worker that goes on with its work, or drops it, enters none of the steps
   that claim something of the process.                                       *)
Onward(v, w) ==
  /\ w.at \in WorkSteps => v.at \in WorkSteps /\ w.req = v.req
  /\ w.at \in {"publish", "ack"} => v.at \in {"publish", "ack"}
  /\ w.at \in {"rollback_assigned", "rolling_back"} => v.at \in {"rollback_assigned", "rolling_back"}
  /\ w.at # "restored"

LEMMA OnwardKeeps ==
  ASSUME NEW mu, NEW p, NEW v, NEW w, Onward(v, w),
         WorkOk(mu, p, v), SlotOk(mu, p, v)
  PROVE  /\ WorkOk(mu, p, w) /\ SlotOk(mu, p, w)
         /\ \A r, row : AckOk(mu, p, v, r, row) => AckOk(mu, p, w, r, row)
<1>1. {"publish", "ack", "rollback_assigned", "rolling_back", "restored"} \subseteq WorkSteps
  BY DEF WorkSteps, WorkerSteps
<1>2. WorkOk(mu, p, w)
  BY <1>1 DEF WorkOk, Onward
<1>3. SlotOk(mu, p, w)
  BY DEF SlotOk, Onward
<1>4. \A r, row : AckOk(mu, p, v, r, row) => AckOk(mu, p, w, r, row)
  BY DEF AckOk, Onward
<1> QED
  BY <1>2, <1>3, <1>4

(* The member's own records in one step, by what the step writes. *)
LEMMA WorkerRecords ==
  ASSUME TypeOK, NEW m \in Members
  PROVE  /\ \A step : Worker(m, step) => wk'[m].at = step /\ wk'[m].req = wk[m].req
         /\ \A step : WorkerIs(m, step) => wk'[m].at = step
<1>1. wk \in [Members -> WorkerRecord] /\ wk[m] \in WorkerRecord
  BY DEF TypeOK
<1>2. ASSUME NEW step, Worker(m, step) PROVE wk'[m].at = step /\ wk'[m].req = wk[m].req
  BY <1>1, <1>2 DEF Worker, WorkerRecord
<1>3. ASSUME NEW step, WorkerIs(m, step) PROVE wk'[m].at = step
  BY <1>1, <1>3 DEF WorkerIs, IdleWorker
<1> QED
  BY <1>2, <1>3

(* Steps that change nothing of the member but its worker. *)
LEMMA WorkerOnly ==
  ASSUME CommitBasis, NEW m \in Members, UNCHANGED <<mut, tgt, head, proc>>,
         hb'[m].boot = hb[m].boot, Onward(wk[m], wk'[m])
  PROVE  MemberOk(m)'
<1>1. /\ hb[m].boot = proc[m].boot
      /\ ProcessOk(mut, proc[m]) /\ HeadOk(mut, proc[m], head[m])
      /\ WorkOk(mut, proc[m], wk[m]) /\ SlotOk(mut, proc[m], wk[m])
      /\ \A r \in Requests : AckOk(mut, proc[m], wk[m], r, tgt[r][m])
  BY DEF CommitBasis, MemberOk
<1>2. /\ WorkOk(mut, proc[m], wk'[m]) /\ SlotOk(mut, proc[m], wk'[m])
      /\ \A r \in Requests : AckOk(mut, proc[m], wk'[m], r, tgt[r][m])
  <2>1. PICK mu, p, v, w : mu = mut /\ p = proc[m] /\ v = wk[m] /\ w = wk'[m]
    OBVIOUS
  <2>2. Onward(v, w) /\ WorkOk(mu, p, v) /\ SlotOk(mu, p, v)
    BY <1>1, <2>1
  <2>3. /\ WorkOk(mu, p, w) /\ SlotOk(mu, p, w)
        /\ \A r, row : AckOk(mu, p, v, r, row) => AckOk(mu, p, w, r, row)
    BY <2>2, OnwardKeeps
  <2> QED BY <1>1, <2>1, <2>3
<1> QED
  BY <1>1, <1>2 DEF MemberOk

LEMMA LoadKeeps ==
  ASSUME TypeOK, ReservationExact, CommitBasis, NEW m \in Members, NEW r \in Requests,
         LoadWork(m, r)
  PROVE  MemberOk(m)'
<1>1. /\ hb[m].boot = proc[m].boot
      /\ ProcessOk(mut, proc[m]) /\ HeadOk(mut, proc[m], head[m])
      /\ WorkOk(mut, proc[m], wk[m]) /\ SlotOk(mut, proc[m], wk[m])
      /\ \A q \in Requests : AckOk(mut, proc[m], wk[m], q, tgt[q][m])
  BY DEF CommitBasis, MemberOk
<1>2. UNCHANGED <<mut, tgt, head, proc, hb>>
  BY DEF LoadWork, store
<1>3. mut[r].st \in Active /\ tgt[r][m].st \in WorkStates
  BY DEF LoadWork, HasWork
<1>4. \/ wk'[m].at = "start"
      \/ /\ wk'[m].req = r
         /\ wk'[m].at = IF tgt[r][m].st = "rolling_back" THEN "rollback_assigned" ELSE tgt[r][m].st
  BY DEF LoadWork, TypeOK, IdleWorker
<1>5. CASE wk'[m].at = "start"
  <2>1. Onward(wk[m], wk'[m])
    BY <1>5 DEF Onward, WorkSteps
  <2> QED BY <1>2, <2>1, WorkerOnly
<1>6. CASE wk'[m].req = r /\ wk'[m].at \notin {"publish", "ack", "restored", "rolling_back"}
  <2>1. \A q \in Requests : mut[q].st \in Active => q = r
    BY <1>3 DEF ReservationExact
  <2>2. WorkOk(mut, proc[m], wk'[m])
    BY <1>1, <1>3, <1>6 DEF WorkOk, SlotOk, Active
  <2>3. SlotOk(mut, proc[m], wk'[m])
    BY <1>1, <1>6, <2>1 DEF SlotOk
  <2>4. \A q \in Requests : AckOk(mut, proc[m], wk'[m], q, tgt[q][m])
    BY <1>1, <1>3, <2>1 DEF AckOk, WorkStates
  <2> QED BY <1>1, <1>2, <2>2, <2>3, <2>4 DEF MemberOk
<1> QED
  BY <1>3, <1>4, <1>5, <1>6 DEF WorkStates

(* Steps that write the member's row, to anything but an acknowledgement. *)
LEMMA RowKeeps ==
  ASSUME TypeOK, CommitBasis, NEW m \in Members, NEW q \in Requests, NEW to \in Reports \ {"acked"},
         NEW row, TransitionTarget(m, q, row, to), UNCHANGED <<mut, head, proc, hb>>,
         Onward(wk[m], wk'[m])
  PROVE  MemberOk(m)'
<1>1. /\ hb[m].boot = proc[m].boot
      /\ ProcessOk(mut, proc[m]) /\ HeadOk(mut, proc[m], head[m])
      /\ WorkOk(mut, proc[m], wk[m]) /\ SlotOk(mut, proc[m], wk[m])
      /\ \A r \in Requests : AckOk(mut, proc[m], wk[m], r, tgt[r][m])
  BY DEF CommitBasis, MemberOk
<1>2. /\ WorkOk(mut, proc[m], wk'[m]) /\ SlotOk(mut, proc[m], wk'[m])
      /\ \A r \in Requests : AckOk(mut, proc[m], wk'[m], r, tgt[r][m])
  <2>1. PICK mu, p, v, w : mu = mut /\ p = proc[m] /\ v = wk[m] /\ w = wk'[m]
    OBVIOUS
  <2>2. Onward(v, w) /\ WorkOk(mu, p, v) /\ SlotOk(mu, p, v)
    BY <1>1, <2>1
  <2>3. /\ WorkOk(mu, p, w) /\ SlotOk(mu, p, w)
        /\ \A r, rw : AckOk(mu, p, v, r, rw) => AckOk(mu, p, w, r, rw)
    BY <2>2, OnwardKeeps
  <2> QED BY <1>1, <2>1, <2>3
<1>3. /\ tgt \in [Requests -> [Members -> TargetRow]] /\ tgt[q][m] \in TargetRow
      /\ proc[m].boot \in Nat
  BY DEF TypeOK, ProcessRecord
<1>4. tgt' = [tgt EXCEPT ![q][m] = MovedTarget(m, tgt[q][m], to)]
  BY DEF TransitionTarget
<1>5. /\ MovedTarget(m, tgt[q][m], to).st = to
      /\ MovedTarget(m, tgt[q][m], to).boot = proc[m].boot
  BY <1>3 DEF MovedTarget, TargetRow
<1>6. \A r \in Requests : \/ tgt'[r][m] = tgt[r][m]
                          \/ tgt'[r][m].st = to /\ tgt'[r][m].boot = proc[m].boot
  BY <1>3, <1>4, <1>5
<1>7. \A r \in Requests : AckOk(mut, proc[m], wk'[m], r, tgt'[r][m])
  BY <1>2, <1>3, <1>6 DEF AckOk
<1> QED
  BY <1>1, <1>2, <1>7 DEF MemberOk

(* The acknowledgement: the worker has just installed the candidate itself. *)
LEMMA AckKeeps ==
  ASSUME TypeOK, CommitBasis, NEW m \in Members, wk[m].at = "ack", NEW row,
         TransitionTarget(m, wk[m].req, row, "acked"), UNCHANGED <<mut, head, proc, hb>>,
         wk'[m].at = "idle"
  PROVE  MemberOk(m)'
<1> DEFINE q == wk[m].req
<1>1. /\ hb[m].boot = proc[m].boot
      /\ ProcessOk(mut, proc[m]) /\ HeadOk(mut, proc[m], head[m])
      /\ WorkOk(mut, proc[m], wk[m]) /\ SlotOk(mut, proc[m], wk[m])
      /\ \A r \in Requests : AckOk(mut, proc[m], wk[m], r, tgt[r][m])
  BY DEF CommitBasis, MemberOk
<1>2. q \in Requests
  BY DEF TypeOK, WorkSteps, WorkerSteps
<1>3. WorkOk(mut, proc[m], wk'[m]) /\ SlotOk(mut, proc[m], wk'[m])
  BY <1>1 DEF WorkOk, SlotOk, WorkSteps
<1>4. /\ tgt \in [Requests -> [Members -> TargetRow]] /\ tgt[q][m] \in TargetRow
      /\ proc[m].boot \in Nat
  BY <1>2 DEF TypeOK, ProcessRecord
<1>5. tgt' = [tgt EXCEPT ![q][m] = MovedTarget(m, tgt[q][m], "acked")]
  BY DEF TransitionTarget
<1>6. MovedTarget(m, tgt[q][m], "acked").boot = proc[m].boot
  BY <1>4 DEF MovedTarget, TargetRow
<1>7. proc[m].active = q /\ mut[q].pre < proc[m].etag
  BY <1>1 DEF WorkOk
<1> HIDE DEF q
<1>8. \A r \in Requests : \/ tgt'[r][m] = tgt[r][m]
                          \/ r = q /\ tgt'[r][m].boot = proc[m].boot
  BY <1>2, <1>4, <1>5, <1>6
<1>9. \A r \in Requests : AckOk(mut, proc[m], wk'[m], r, tgt'[r][m])
  BY <1>1, <1>4, <1>7, <1>8 DEF AckOk, WorkSteps
<1> QED
  BY <1>1, <1>3, <1>9 DEF MemberOk

(* Steps that publish a head. *)
LEMMA HeadKeeps ==
  ASSUME TypeOK, CommitBasis, NEW m \in Members, NEW rev, NEW ready \in BOOLEAN,
         PublishHead(m, rev, ready), ready => Past(mut, rev, proc[m].etag),
         UNCHANGED <<mut, tgt, hb, proc>>, Onward(wk[m], wk'[m])
  PROVE  MemberOk(m)'
<1>1. /\ hb[m].boot = proc[m].boot
      /\ ProcessOk(mut, proc[m])
      /\ WorkOk(mut, proc[m], wk[m]) /\ SlotOk(mut, proc[m], wk[m])
      /\ \A r \in Requests : AckOk(mut, proc[m], wk[m], r, tgt[r][m])
  BY DEF CommitBasis, MemberOk
<1>2. /\ WorkOk(mut, proc[m], wk'[m]) /\ SlotOk(mut, proc[m], wk'[m])
      /\ \A r \in Requests : AckOk(mut, proc[m], wk'[m], r, tgt[r][m])
  <2>1. PICK mu, p, v, w : mu = mut /\ p = proc[m] /\ v = wk[m] /\ w = wk'[m]
    OBVIOUS
  <2>2. Onward(v, w) /\ WorkOk(mu, p, v) /\ SlotOk(mu, p, v)
    BY <1>1, <2>1
  <2>3. /\ WorkOk(mu, p, w) /\ SlotOk(mu, p, w)
        /\ \A r, rw : AckOk(mu, p, v, r, rw) => AckOk(mu, p, w, r, rw)
    BY <2>2, OnwardKeeps
  <2> QED BY <1>1, <2>1, <2>3
<1>3. head'[m] = [boot |-> proc[m].boot, rev |-> rev, ready |-> ready]
  BY DEF PublishHead, TypeOK
<1>4. proc[m].boot \in Nat
  BY DEF TypeOK, ProcessRecord
<1>5. HeadOk(mut, proc[m], head'[m])
  BY <1>3, <1>4 DEF HeadOk
<1> QED
  BY <1>1, <1>2, <1>5 DEF MemberOk

(* A larger etag loses nothing. *)
LEMMA PastGrows ==
  ASSUME TypeOK
  PROVE  \A rev : \A n \in Nat : Past(mut, rev, n) => Past(mut, rev, n + 1)
<1> SUFFICES ASSUME NEW rev, NEW n \in Nat, Past(mut, rev, n) PROVE Past(mut, rev, n + 1)
  OBVIOUS
<1>1. rev \in Requests => mut[rev].pre \in Nat
  BY DEF TypeOK, MutationRow
<1> QED
  BY <1>1 DEF Past

(* executor.apply installs the candidate, pinned to the etag it found. *)
LEMMA InstallKeeps ==
  ASSUME TypeOK, ReservationExact, CommitBasis, NEW m \in Members, wk[m].at = "apply",
         proc[m].etag = mut[wk[m].req].pre,
         proc' = [proc EXCEPT ![m] = Installed(@, wk[m].req)],
         UNCHANGED <<mut, tgt, hb, head>>, wk'[m].at = "publish", wk'[m].req = wk[m].req
  PROVE  MemberOk(m)'
<1> DEFINE q == wk[m].req
           p == proc[m]
<1>1. /\ hb[m].boot = p.boot
      /\ ProcessOk(mut, p) /\ HeadOk(mut, p, head[m])
      /\ WorkOk(mut, p, wk[m]) /\ SlotOk(mut, p, wk[m])
      /\ \A r \in Requests : AckOk(mut, p, wk[m], r, tgt[r][m])
      /\ LedgerOk(mut, committed)
  BY DEF CommitBasis, MemberOk
<1>2. q \in Requests /\ {"apply", "publish"} \subseteq WorkSteps
  BY DEF TypeOK, WorkSteps, WorkerSteps
<1>3. p \in ProcessRecord /\ p.etag \in Nat
  BY DEF TypeOK, ProcessRecord
<1>4. /\ proc'[m].active = q /\ proc'[m].slot = p.active /\ proc'[m].etag = p.etag + 1
      /\ proc'[m].boot = p.boot
  BY <1>3 DEF Installed, ProcessRecord, TypeOK
<1>5. mut[q].st # "absent" /\ mut[q].pre = p.etag
  BY <1>1, <1>2 DEF WorkOk
<1> HIDE DEF q, p
<1>6. Past(mut, q, p.etag + 1)
  BY <1>3, <1>5 DEF Past
<1>7. ProcessOk(mut, proc'[m])
  BY <1>1, <1>3, <1>4, <1>6, PastGrows DEF ProcessOk
<1>8. HeadOk(mut, proc'[m], head[m])
  BY <1>1, <1>3, <1>4, PastGrows DEF HeadOk
<1>9. WorkOk(mut, proc'[m], wk'[m])
  BY <1>2, <1>3, <1>4, <1>5 DEF WorkOk, q
<1>10. SlotOk(mut, proc'[m], wk'[m])
  <2> SUFFICES ASSUME NEW r \in Requests, mut[r].st \in Active
               PROVE  Past(mut, mut[r].prior, proc'[m].etag)
    BY DEF SlotOk
  <2>1. CASE r = q
    <3>1. Past(mut, mut[q].prior, mut[q].pre)
      BY <1>1, <1>2, <1>5 DEF LedgerOk
    <3> QED BY <1>3, <1>4, <1>5, <2>1, <3>1, PastGrows
  <2>2. CASE r # q
    <3>1. Past(mut, mut[r].prior, p.etag)
      BY <1>1, <1>2, <2>2 DEF SlotOk, q
    <3> QED BY <1>3, <1>4, <3>1, PastGrows
  <2> QED BY <2>1, <2>2
<1>11. \A r \in Requests : AckOk(mut, proc'[m], wk'[m], r, tgt[r][m])
  BY <1>1, <1>2, <1>4 DEF AckOk
<1> QED
  BY <1>1, <1>4, <1>7, <1>8, <1>9, <1>10, <1>11 DEF MemberOk

(* executor.rollback swaps the slot back under a new etag. *)
LEMMA SwapKeeps ==
  ASSUME TypeOK, CommitBasis, NEW m \in Members, wk[m].at = "rolling_back", proc[m].slot # None,
         proc' = [proc EXCEPT ![m] = SwappedBack(@)],
         UNCHANGED <<mut, tgt, hb, head>>, wk'[m].at = "restored", wk'[m].req = wk[m].req
  PROVE  MemberOk(m)'
<1> DEFINE q == wk[m].req
           p == proc[m]
<1>1. /\ hb[m].boot = p.boot
      /\ ProcessOk(mut, p) /\ HeadOk(mut, p, head[m])
      /\ WorkOk(mut, p, wk[m]) /\ SlotOk(mut, p, wk[m])
      /\ \A r \in Requests : AckOk(mut, p, wk[m], r, tgt[r][m])
  BY DEF CommitBasis, MemberOk
<1>2. q \in Requests /\ {"rolling_back", "restored"} \subseteq WorkSteps
  BY DEF TypeOK, WorkSteps, WorkerSteps
<1>3. p \in ProcessRecord /\ p.etag \in Nat
  BY DEF TypeOK, ProcessRecord
<1>4. /\ proc'[m].active = p.slot /\ proc'[m].slot = p.active /\ proc'[m].etag = p.etag + 1
      /\ proc'[m].boot = p.boot
  BY <1>3 DEF SwappedBack, ProcessRecord, TypeOK
<1>5. mut[q].st # "absent" /\ Past(mut, mut[q].prior, p.etag)
  BY <1>1, <1>2 DEF WorkOk
<1> HIDE DEF q, p
<1>6. ProcessOk(mut, proc'[m])
  BY <1>1, <1>3, <1>4, PastGrows DEF ProcessOk
<1>7. HeadOk(mut, proc'[m], head[m])
  BY <1>1, <1>3, <1>4, PastGrows DEF HeadOk
<1>8. Past(mut, mut[q].prior, proc'[m].etag)
  BY <1>3, <1>4, <1>5, PastGrows
<1>9. WorkOk(mut, proc'[m], wk'[m])
  BY <1>5, <1>8 DEF WorkOk, q
<1>10. SlotOk(mut, proc'[m], wk'[m])
  <2> SUFFICES ASSUME NEW r \in Requests, mut[r].st \in Active
               PROVE  Past(mut, mut[r].prior, proc'[m].etag)
    BY DEF SlotOk
  <2>1. Past(mut, mut[r].prior, p.etag)
    BY <1>1 DEF SlotOk, p
  <2> QED BY <1>3, <1>4, <2>1, PastGrows
<1>11. \A r \in Requests : AckOk(mut, proc'[m], wk'[m], r, tgt[r][m])
  BY <1>1, <1>2, <1>4 DEF AckOk
<1> QED
  BY <1>1, <1>4, <1>6, <1>7, <1>9, <1>10, <1>11 DEF MemberOk

(* Convergence applies the committed revision only at its own etag, which no
   process is at any more that acknowledged a request built on it.            *)
LEMMA ConvergeKeeps ==
  ASSUME TypeOK, CommitBasis, NEW m \in Members, ConvergeApply(m)
  PROVE  MemberOk(m)'
<1> DEFINE p == proc[m]
<1>1. /\ hb[m].boot = p.boot
      /\ ProcessOk(mut, p) /\ HeadOk(mut, p, head[m])
      /\ \A r \in Requests : AckOk(mut, p, wk[m], r, tgt[r][m])
      /\ LedgerOk(mut, committed)
  BY DEF CommitBasis, MemberOk
<1>2. /\ committed \in Requests /\ p.etag = mut[committed].pre /\ wk[m].at = "converge"
      /\ proc' = [proc EXCEPT ![m] = Installed(p, committed)]
      /\ UNCHANGED <<mut, tgt, hb, head, wk>>
  BY DEF ConvergeApply, ConvergeFence, store
<1>3. p \in ProcessRecord /\ p.etag \in Nat
  BY DEF TypeOK, ProcessRecord
<1>4. /\ proc'[m].active = committed /\ proc'[m].slot = p.active /\ proc'[m].etag = p.etag + 1
      /\ proc'[m].boot = p.boot
  BY <1>2, <1>3 DEF Installed, ProcessRecord, TypeOK
<1> HIDE DEF p
<1>5. Past(mut, committed, p.etag + 1)
  BY <1>1, <1>2, <1>3 DEF Past, LedgerOk
<1>6. ProcessOk(mut, proc'[m])
  BY <1>1, <1>3, <1>4, <1>5, PastGrows DEF ProcessOk
<1>7. HeadOk(mut, proc'[m], head[m])
  BY <1>1, <1>3, <1>4, PastGrows DEF HeadOk
<1>8. WorkOk(mut, proc'[m], wk[m])
  BY <1>2 DEF WorkOk, WorkSteps
<1>9. SlotOk(mut, proc'[m], wk[m])
  BY <1>1, <1>4, <1>5 DEF SlotOk, LedgerOk
<1>10. \A r \in Requests : AckOk(mut, proc'[m], wk[m], r, tgt[r][m])
  <2> SUFFICES ASSUME NEW r \in Requests PROVE AckOk(mut, proc'[m], wk[m], r, tgt[r][m])
    OBVIOUS
  <2>1. mut[r].pre \in Nat /\ mut[committed].pre \in Nat
    BY <1>2 DEF TypeOK, MutationRow
  <2>2. mut[r].st \in Active => mut[committed].pre < mut[r].pre
    BY <1>1, <1>2 DEF LedgerOk, Past, Active
  <2>3. AckOk(mut, p, wk[m], r, tgt[r][m])
    BY <1>1
  <2> QED BY <1>2, <1>3, <1>4, <2>1, <2>2, <2>3 DEF AckOk
<1> QED
  BY <1>1, <1>2, <1>4, <1>6, <1>7, <1>8, <1>9, <1>10 DEF MemberOk

(* One step of the member's own worker, action by action. *)
LEMMA LoopKeeps ==
  ASSUME TypeOK, ReservationExact, CommitBasis, NEW m \in Members, MemberLoop(m)
  PROVE  MemberOk(m)'
<1>1. /\ wk[m].at \in WorkSteps => wk[m].req \in Requests
      /\ ProcessOk(mut, proc[m]) /\ WorkOk(mut, proc[m], wk[m])
  BY DEF TypeOK, CommitBasis, MemberOk
<1>2. WorkSteps = {"validating", "apply_assigned", "head", "mark", "apply", "publish", "ack",
                   "nack", "applying", "rollback_assigned", "rolling_back", "restored",
                   "rolled_back", "rollback_failed"}
  BY DEF WorkSteps, WorkerSteps
<1>3. CASE \E r \in Requests : LoadWork(m, r)
  BY <1>3, LoadKeeps
<1>4. CASE Validate(m)
  <2>1. PICK to \in {"validated", "nacked"} : TransitionTarget(m, wk[m].req, wk[m].row, to)
    BY <1>4 DEF Validate
  <2>2. wk'[m].at = "idle" /\ UNCHANGED <<mut, head, proc, hb>> /\ wk[m].req \in Requests
    BY <1>1, <1>2, <1>4, WorkerRecords DEF Validate
  <2>3. Onward(wk[m], wk'[m])
    BY <1>2, <2>2 DEF Onward
  <2> QED BY <2>1, <2>2, <2>3, RowKeeps DEF Reports
<1>5. CASE WriteCheckpoint(m)
  <2>1. /\ wk'[m].at = "head" /\ wk'[m].req = wk[m].req /\ wk[m].at = "apply_assigned"
        /\ UNCHANGED <<mut, tgt, head, proc, hb>>
    BY <1>5, WorkerRecords DEF WriteCheckpoint
  <2>2. Onward(wk[m], wk'[m])
    BY <1>2, <2>1 DEF Onward
  <2> QED BY <2>1, <2>2, WorkerOnly
<1>6. CASE PublishUnready(m)
  <2>1. /\ wk'[m].at = "mark" /\ wk'[m].req = wk[m].req /\ wk[m].at = "head"
        /\ UNCHANGED <<mut, tgt, proc, hb>>
        /\ PublishHead(m, mut[wk[m].req].prior, FALSE)
    BY <1>6, WorkerRecords DEF PublishUnready
  <2>2. Onward(wk[m], wk'[m])
    BY <1>2, <2>1 DEF Onward
  <2> QED BY <2>1, <2>2, HeadKeeps
<1>7. CASE MarkApplying(m)
  <2>1. /\ wk'[m].at = "apply" /\ wk'[m].req = wk[m].req /\ wk[m].at = "mark"
        /\ UNCHANGED <<mut, head, proc, hb>>
        /\ TransitionTarget(m, wk[m].req, wk[m].row, "applying")
    BY <1>7, WorkerRecords DEF MarkApplying
  <2>2. Onward(wk[m], wk'[m]) /\ wk[m].req \in Requests
    BY <1>1, <1>2, <2>1 DEF Onward
  <2> QED BY <2>1, <2>2, RowKeeps DEF Reports
<1>8. CASE ApplyCandidate(m)
  <2>1. wk[m].at = "apply" /\ UNCHANGED <<mut, tgt, head, hb>>
    BY <1>8 DEF ApplyCandidate, store
  <2>2. CASE /\ proc[m].etag = mut[wk[m].req].pre
             /\ proc' = [proc EXCEPT ![m] = Installed(@, wk[m].req)] /\ Worker(m, "publish")
    <3>1. wk'[m].at = "publish" /\ wk'[m].req = wk[m].req
      BY <2>2, WorkerRecords
    <3> QED BY <2>1, <2>2, <3>1, InstallKeeps
  <2>3. CASE Worker(m, "nack") /\ UNCHANGED proc
    <3>1. wk'[m].at = "nack" /\ wk'[m].req = wk[m].req
      BY <2>3, WorkerRecords
    <3>2. Onward(wk[m], wk'[m])
      BY <1>2, <2>1, <3>1 DEF Onward
    <3> QED BY <2>1, <2>3, <3>2, WorkerOnly
  <2> QED BY <1>8, <2>2, <2>3 DEF ApplyCandidate
<1>9. CASE PublishApplied(m)
  <2>1. /\ wk'[m].at = "ack" /\ wk'[m].req = wk[m].req /\ wk[m].at = "publish"
        /\ UNCHANGED <<mut, tgt, proc, hb>> /\ PublishHead(m, wk[m].req, TRUE)
    BY <1>9, WorkerRecords DEF PublishApplied
  <2>2. Onward(wk[m], wk'[m])
    BY <1>2, <2>1 DEF Onward
  <2>3. Past(mut, wk[m].req, proc[m].etag)
    BY <1>1, <1>2, <2>1 DEF WorkOk, Past
  <2> QED BY <2>1, <2>2, <2>3, HeadKeeps
<1>10. CASE Report(m)
  <2>1. /\ wk'[m].at = "idle" /\ wk[m].at \in {"ack", "nack"} /\ wk[m].req \in Requests
        /\ UNCHANGED <<mut, head, proc, hb>>
        /\ TransitionTarget(m, wk[m].req, tgt[wk[m].req][m],
                            IF wk[m].at = "ack" THEN "acked" ELSE "nacked")
    BY <1>1, <1>2, <1>10, WorkerRecords DEF Report
  <2>2. CASE wk[m].at = "ack"
    <3>1. TransitionTarget(m, wk[m].req, tgt[wk[m].req][m], "acked")
      BY <2>1, <2>2
    <3> QED BY <2>1, <2>2, <3>1, AckKeeps
  <2>3. CASE wk[m].at = "nack"
    <3>1. TransitionTarget(m, wk[m].req, tgt[wk[m].req][m], "nacked")
      BY <2>1, <2>3
    <3>2. Onward(wk[m], wk'[m])
      BY <1>2, <2>1 DEF Onward
    <3> QED BY <2>1, <3>1, <3>2, RowKeeps DEF Reports
  <2> QED BY <2>1, <2>2, <2>3
<1>11. CASE RecoverApplying(m)
  <2>1. /\ wk'[m].at = "idle" /\ wk[m].req \in Requests /\ UNCHANGED <<mut, head, proc, hb>>
        /\ TransitionTarget(m, wk[m].req, wk[m].row, "nacked")
    BY <1>1, <1>2, <1>11, WorkerRecords DEF RecoverApplying
  <2>2. Onward(wk[m], wk'[m])
    BY <1>2, <2>1 DEF Onward
  <2> QED BY <2>1, <2>2, RowKeeps DEF Reports
<1>12. CASE BeginRollback(m)
  <2>1. /\ wk[m].at = "rollback_assigned" /\ UNCHANGED <<mut, head, proc, hb>>
        /\ wk[m].req \in Requests
    BY <1>1, <1>2, <1>12 DEF BeginRollback
  <2>2. wk'[m].at = "rolling_back" /\ wk'[m].req = wk[m].req
    <3>1. wk \in [Members -> WorkerRecord] /\ wk[m] \in WorkerRecord
      BY DEF TypeOK
    <3>2. \/ \E row : wk' = [wk EXCEPT ![m] = [wk[m] EXCEPT !.at = "rolling_back", !.row = row]]
          \/ Worker(m, "rolling_back")
      BY <1>12 DEF BeginRollback
    <3>3. \A row : LET w == [wk[m] EXCEPT !.at = "rolling_back", !.row = row]
                   IN  w.at = "rolling_back" /\ w.req = wk[m].req
      BY <3>1 DEF WorkerRecord
    <3>4. CASE Worker(m, "rolling_back")
      BY <3>4, WorkerRecords
    <3>5. ASSUME NEW row,
                 wk' = [wk EXCEPT ![m] = [wk[m] EXCEPT !.at = "rolling_back", !.row = row]]
          PROVE  wk'[m].at = "rolling_back" /\ wk'[m].req = wk[m].req
      <4>1. wk'[m] = [wk[m] EXCEPT !.at = "rolling_back", !.row = row]
        BY <3>1, <3>5
      <4> QED BY <3>3, <4>1
    <3> QED BY <3>2, <3>4, <3>5
  <2>3. Onward(wk[m], wk'[m])
    BY <1>2, <2>1, <2>2 DEF Onward
  <2>4. CASE TransitionTarget(m, wk[m].req, wk[m].row, "rolling_back")
    BY <2>1, <2>3, <2>4, RowKeeps DEF Reports
  <2>5. CASE UNCHANGED tgt
    BY <2>1, <2>3, <2>5, WorkerOnly
  <2> QED BY <1>12, <2>4, <2>5 DEF BeginRollback
<1>13. CASE Restore(m)
  <2>1. wk[m].at = "rolling_back" /\ UNCHANGED <<mut, tgt, head, hb>>
    BY <1>13 DEF Restore, store
  <2>2. CASE /\ proc[m].slot # None /\ proc' = [proc EXCEPT ![m] = SwappedBack(@)]
             /\ Worker(m, "restored")
    <3>1. wk'[m].at = "restored" /\ wk'[m].req = wk[m].req
      BY <2>2, WorkerRecords
    <3> QED BY <2>1, <2>2, <3>1, SwapKeeps
  <2>3. CASE Worker(m, "rollback_failed") /\ UNCHANGED proc
    <3>1. wk'[m].at = "rollback_failed" /\ wk'[m].req = wk[m].req
      BY <2>3, WorkerRecords
    <3>2. Onward(wk[m], wk'[m])
      BY <1>2, <2>1, <3>1 DEF Onward
    <3> QED BY <2>1, <2>3, <3>2, WorkerOnly
  <2> QED BY <1>13, <2>2, <2>3 DEF Restore
<1>14. CASE PublishRestored(m)
  <2>1. /\ wk'[m].at = "rolled_back" /\ wk'[m].req = wk[m].req /\ wk[m].at = "restored"
        /\ UNCHANGED <<mut, tgt, proc, hb>> /\ PublishHead(m, mut[wk[m].req].prior, TRUE)
    BY <1>14, WorkerRecords DEF PublishRestored
  <2>2. Onward(wk[m], wk'[m])
    BY <1>2, <2>1 DEF Onward
  <2>3. Past(mut, mut[wk[m].req].prior, proc[m].etag)
    BY <1>1, <2>1 DEF WorkOk
  <2> QED BY <2>1, <2>2, <2>3, HeadKeeps
<1>15. CASE EndRollback(m)
  <2>1. /\ wk'[m].at = "idle" /\ wk[m].req \in Requests /\ UNCHANGED <<mut, head, proc, hb>>
        /\ wk[m].at \in {"rolled_back", "rollback_failed"}
        /\ TransitionTarget(m, wk[m].req, wk[m].row, wk[m].at)
    BY <1>1, <1>2, <1>15, WorkerRecords DEF EndRollback
  <2>2. Onward(wk[m], wk'[m])
    BY <1>2, <2>1 DEF Onward
  <2>3. PICK to \in {"rolled_back", "rollback_failed"} : TransitionTarget(m, wk[m].req, wk[m].row, to)
    BY <2>1
  <2> QED BY <2>1, <2>2, <2>3, RowKeeps DEF Reports
<1>16. CASE WorkerFails(m) \/ ScanFails(m) \/ StartFails(m)
  <2>1. /\ wk'[m].at \in {"idle", "start"} /\ UNCHANGED <<mut, tgt, head, proc, hb>>
    BY <1>16, WorkerRecords DEF WorkerFails, ScanFails, StartFails, store
  <2>2. Onward(wk[m], wk'[m])
    BY <1>2, <2>1 DEF Onward
  <2> QED BY <2>1, <2>2, WorkerOnly
<1>17. CASE StartPublish(m)
  <2>1. /\ wk'[m].at = "ready" /\ UNCHANGED <<mut, tgt, proc, hb>> /\ PublishHead(m, Base, FALSE)
    BY <1>17, WorkerRecords DEF StartPublish
  <2>2. Onward(wk[m], wk'[m])
    BY <1>2, <2>1 DEF Onward
  <2> QED BY <2>1, <2>2, HeadKeeps
<1>18. CASE StartReady(m)
  <2>1. wk'[m].at = "converge" /\ UNCHANGED <<mut, tgt, head, proc>>
    BY <1>18, WorkerRecords DEF StartReady
  <2>2. hb'[m].boot = hb[m].boot
    BY <1>18 DEF StartReady, TypeOK, HeartbeatRow
  <2>3. Onward(wk[m], wk'[m])
    BY <1>2, <2>1 DEF Onward
  <2> QED BY <2>1, <2>2, <2>3, WorkerOnly
<1>19. CASE Converge(m)
  <2>1. /\ wk'[m].at = "idle" /\ UNCHANGED <<mut, tgt, proc, hb>>
        /\ PublishHead(m, committed, TRUE) /\ committed \in {Base, proc[m].active}
    BY <1>19, WorkerRecords DEF Converge
  <2>2. Onward(wk[m], wk'[m])
    BY <1>2, <2>1 DEF Onward
  <2>3. Past(mut, committed, proc[m].etag)
    BY <1>1, <2>1, ConstantsAssumption DEF ProcessOk, Past
  <2> QED BY <2>1, <2>2, <2>3, HeadKeeps
<1>20. CASE ConvergeApply(m)
  BY <1>20, ConvergeKeeps
<1> QED
  BY <1>3, <1>4, <1>5, <1>6, <1>7, <1>8, <1>9, <1>10, <1>11, <1>12, <1>13, <1>14, <1>15, <1>16,
     <1>17, <1>18, <1>19, <1>20 DEF MemberLoop

LEMMA BasisInductive ==
  TypeOK /\ ReservationExact /\ PlanSound /\ PhaseAgreement /\ CommitBasis /\ [Next]_vars
    => CommitBasis'
<1> SUFFICES ASSUME TypeOK, ReservationExact, PlanSound, PhaseAgreement, CommitBasis, [Next]_vars
             PROVE  CommitBasis'
  OBVIOUS
<1>1. LedgerOk(mut', committed')
  BY LedgerOkInductive
<1>2. ASSUME NEW m \in Members PROVE MemberOk(m)'
  BY OthersQuiet, QuietKeeps, LoopKeeps, StopKeeps, BootKeeps
<1> QED
  BY <1>1, <1>2 DEF CommitBasis

LEMMA BasisInit == Init => CommitBasis
<1> SUFFICES ASSUME Init PROVE CommitBasis
  OBVIOUS
<1>1. LedgerOk(mut, committed)
  BY ConstantsAssumption DEF Init, LedgerOk, AbsentMutation, Active
<1>2. ASSUME NEW m \in Members PROVE MemberOk(m)
  <2>1. /\ hb[m].boot = 1 /\ proc[m].boot = 1 /\ proc[m].active = Base /\ proc[m].slot = None
        /\ head[m].boot = 1 /\ head[m].rev = Base /\ wk[m].at = "idle"
        /\ \A r \in Requests : tgt[r][m].boot = 0 /\ mut[r].st = "absent"
    BY DEF Init, IdleWorker, FreshTarget, AbsentMutation
  <2>2. ProcessOk(mut, proc[m]) /\ HeadOk(mut, proc[m], head[m])
    BY <2>1, ConstantsAssumption DEF ProcessOk, HeadOk, Past
  <2>3. WorkOk(mut, proc[m], wk[m]) /\ SlotOk(mut, proc[m], wk[m])
    BY <2>1 DEF WorkOk, SlotOk, WorkSteps, Active
  <2>4. \A r \in Requests : AckOk(mut, proc[m], wk[m], r, tgt[r][m])
    BY <2>1 DEF AckOk
  <2> QED BY <2>1, <2>2, <2>3, <2>4 DEF MemberOk
<1> QED
  BY <1>1, <1>2 DEF CommitBasis

(* A commit finds every process, running or not, on the candidate. *)
LEMMA CommitFindsCandidate ==
  ASSUME TypeOK, CommitBasis, [Next]_vars, NEW r \in Requests,
         mut[r].st # "committed", mut'[r].st = "committed", NEW m \in Members
  PROVE  proc[m].active = r
<1>1. PICK x \in Members : CoordinatorFinishes(x) /\ co[x].req = r
  <2>1. ASSUME NEW x \in Members, NEW q \in Requests, Admit(x, q) PROVE FALSE
    BY <2>1, AdmitStep
  <2>2. ASSUME NEW x \in Members, CoordinatorPlans(x) PROVE FALSE
    BY <2>2, PlanStep DEF Active
  <2>3. CASE \A q \in Requests : ~MutationStep(q)
    BY <2>3, LedgerQuiet
  <2>4. PICK x \in Members : CoordinatorFinishes(x)
    BY <2>1, <2>2, <2>3 DEF MutationStep
  <2>5. co[x].req = r
    BY <2>4, FinishStep
  <2> QED BY <2>4, <2>5
<1>2. co[x].fin = "committed" /\ mut[r].st \in Active
  BY <1>1, FinishStep
<1>3. tgt[r][m].st = "acked" /\ hb[m].boot = tgt[r][m].boot
  BY <1>1, <1>2 DEF CoordinatorFinishes, FinishFence, VerifyCommit
<1>4. hb[m].boot = proc[m].boot /\ AckOk(mut, proc[m], wk[m], r, tgt[r][m])
  BY DEF CommitBasis, MemberOk
<1> QED
  BY <1>2, <1>3, <1>4 DEF AckOk

(* Whatever stops, boots, lapses or fails on the way, and however many rollouts
   came before, a commit finds every running process of the cluster on the
   candidate itself: the acknowledgements verify_commit reads are true of the
   processes when it reads them (verify_commit, activate_resource_heads).     *)
THEOREM CommitsConverged == Spec => CommitConverged
<1> DEFINE IInv == /\ PlanSound /\ EffectRecorded
                   /\ WorkerSound /\ CoordinatorSound /\ PhaseAgreement /\ CommitBasis
           Found == \A r \in Requests : mut[r].st # "committed" /\ mut'[r].st = "committed" =>
                      \A m \in Members : proc[m].up => proc[m].active = r
<1>1. Init => IInv
  BY EffectInit, PhaseInit, BasisInit
<1>2. TypeOK /\ ReservationExact /\ IInv /\ [Next]_vars => IInv'
  BY PlanSoundInductive, EffectInductive, WorkerSoundInductive, CoordinatorSoundInductive,
     PhaseInductive, BasisInductive
<1>3. TypeOK /\ IInv /\ [Next]_vars => [Found]_vars
  BY CommitFindsCandidate
<1> HIDE DEF IInv, Found
<1>4. Spec => [][Found]_vars
  BY <1>1, <1>2, <1>3, TypeCorrect, Reservation, PTL DEF Spec
<1> QED
  BY <1>4 DEF Found, CommitConverged

-------------------------------------------------------------------------------
(* Behind its etag and its rows, what a member runs is known exactly as long as no
   process stops, no heartbeat lapses, no store call is lost and nothing is refused
   for once; phases may expire and coordinators may fence each other.         *)
CalmFaults == Faults \subseteq {"timeout", "lease"}

Steady(m) ==
  /\ proc[m].up /\ hb[m].live /\ hb[m].ready
  /\ hb[m].boot = proc[m].boot /\ head[m].boot = proc[m].boot

(* The revision in force: nobody else's while a request holds the resource. *)
Anchored ==
  \A r \in Requests : mut[r].st \in Active \cup BlocksResource => mut[r].prior = committed

(* What process and head are at each step of the worker. *)
StepTrue(mu, p, h, w) ==
  /\ w.at \notin {"off", "nack", "applying", "rollback_failed"}
  /\ w.at \in WorkSteps \/ w.req = None
  /\ w.at \notin {"publish", "restored"} => h.rev = p.active
  /\ w.at \in {"mark", "apply", "publish"} => ~h.ready
  /\ w.at \in {"ack", "rolled_back"} => h.ready
  /\ w.at \in {"apply_assigned", "head", "mark", "apply", "restored", "rolled_back"} =>
       p.active = mu[w.req].prior
  /\ w.at \in {"head", "mark", "apply"} => p.etag = mu[w.req].pre
  /\ w.at \in {"publish", "ack", "rollback_assigned", "rolling_back"} =>
       p.active = w.req /\ p.slot = mu[w.req].prior
  /\ w.at \in {"rollback_assigned", "rolling_back", "restored", "rolled_back"} =>
       mu[w.req].st \in {"rolling_back"} \cup BlocksResource

(* The row keeps up with the worker: only a rollback overtakes it. *)
RowFollows(w, row) ==
  /\ w.at = "validating" => row.st = "validating"
  /\ w.at \in {"apply_assigned", "head", "mark"} => row.st = "apply_assigned"
  /\ w.at \in {"apply", "publish", "ack"} => row.st \in {"applying", "rollback_assigned"}
  /\ w.at = "rollback_assigned" => row = w.row /\ row.st = "rollback_assigned"
  /\ w.at \in {"rolling_back", "restored", "rolled_back"} => row = w.row /\ row.st = "rolling_back"

Early == {"claimed", "validating"}

(* A row of the request in flight describes the process. *)
RowTrue(mu, p, w, r, row) ==
  mu[r].st \in Active =>
    /\ mu[r].st \notin Early \/ row.st \in {"validated", "nacked"} => w.req \in {None, r}
    /\ mu[r].st \notin Early /\ ~row.eff => p.active = mu[r].prior
    /\ row.st = "rolled_back" => p.active = mu[r].prior
    /\ row.eff /\ row.st # "rolled_back" /\ w.req = None =>
         /\ p.active = r /\ p.slot = mu[r].prior
         /\ row.st \notin {"applying", "rolling_back"}

(* Where the scan cannot decode its rows, the loop only restarts. *)
ScanTrue(m) ==
  IF "scan" \in Repairs
    THEN wk[m].at \in {"idle"} \cup WorkSteps
    ELSE /\ wk[m].at \notin WorkSteps /\ proc[m].active = Base /\ committed = Base
         /\ \A r \in Requests : ~tgt[r][m].eff

CalmMember(m) ==
  /\ Steady(m) /\ ScanTrue(m)
  /\ StepTrue(mut, proc[m], head[m], wk[m])
  /\ wk[m].req \in Requests => RowFollows(wk[m], tgt[wk[m].req][m])
  /\ \A r \in Requests : RowTrue(mut, proc[m], wk[m], r, tgt[r][m])

Calm == Anchored /\ \A m \in Members : CalmMember(m)

(* Everything that is known of the state under every fault. *)
Known ==
  /\ TypeOK /\ ReservationExact /\ PlanSound /\ EffectRecorded
  /\ WorkerSound /\ CoordinatorSound /\ PhaseAgreement /\ CommitBasis

LEMMA AnchoredInductive ==
  ASSUME TypeOK, ReservationExact, Anchored, [Next]_vars
  PROVE  Anchored'
<1>1. ASSUME NEW m \in Members, NEW r \in Requests, Admit(m, r) PROVE Anchored'
  <2>1. \A q \in Requests : mut[q].st \notin Active \cup BlocksResource
    BY <1>1, AdmitStep, ConstantsAssumption DEF ReservationExact
  <2> QED BY <1>1, <2>1, AdmitStep DEF Anchored
<1>2. ASSUME NEW m \in Members, CoordinatorPlans(m) PROVE Anchored'
  BY <1>2, PlanStep DEF Anchored
<1>3. ASSUME NEW m \in Members, CoordinatorFinishes(m) PROVE Anchored'
  <2>1. \A q \in Requests \ {co[m].req} : mut[q].st \notin Active \cup BlocksResource
    BY <1>3, FinishStep DEF ReservationExact
  <2>2. "committed" \notin Active \cup BlocksResource
    BY DEF Active, BlocksResource
  <2> QED BY <1>3, <2>1, <2>2, FinishStep DEF Anchored
<1>4. CASE \A q \in Requests : ~MutationStep(q)
  BY <1>4, LedgerQuiet DEF Anchored
<1> QED
  BY <1>1, <1>2, <1>3, <1>4 DEF MutationStep

(* No process stops, boots or loses its heartbeat. *)
LEMMA CalmProcesses ==
  ASSUME CalmFaults, \A m \in Members : Steady(m), NEW x \in Members
  PROVE  ~Process(x)
<1>1. "stop" \notin Faults /\ "lapse" \notin Faults
  BY DEF CalmFaults
<1>2. proc[x].up /\ hb[x].live
  BY DEF Steady
<1> QED
  BY <1>1, <1>2 DEF Process, Crash, Shutdown, Boot, LoseHeartbeat, Heartbeat

(* What a plan does to a row. *)
Planned(r, m) ==
  \E x \in Members :
    /\ CoordinatorPlans(x) /\ co[x].req = r /\ m \in co[x].plan.who
    /\ tgt'[r][m].st = co[x].plan.to /\ tgt'[r][m].eff = tgt[r][m].eff
    /\ co[x].plan.to \in TargetEdges[tgt[r][m].st]
    /\ co[x].plan.to \in {"validating", "apply_assigned", "rollback_assigned"}

(* Unless it acts itself, a member keeps its process, its worker, its head and its
   heartbeat, and only plans touch its rows.                                  *)
LEMMA CalmOthers ==
  ASSUME CalmFaults, Known, \A y \in Members : Steady(y), [Next]_vars,
         NEW m \in Members, ~MemberLoop(m)
  PROVE  /\ proc'[m] = proc[m] /\ wk'[m] = wk[m] /\ head'[m] = head[m] /\ hb'[m] = hb[m]
         /\ \A r \in Requests : tgt'[r][m] = tgt[r][m] \/ Planned(r, m)
<1>1. TypeOK /\ PlanSound /\ ~Process(m)
  BY CalmProcesses DEF Known
<1>2. proc'[m] = proc[m] /\ wk'[m] = wk[m] /\ head'[m] = head[m]
  BY <1>1, OthersQuiet DEF Quiet, Process
<1>3. /\ hb \in [Members -> HeartbeatRow] /\ tgt \in [Requests -> [Members -> TargetRow]]
  BY <1>1 DEF TypeOK
<1>4. ASSUME NEW x \in Members, MemberLoop(x)
      PROVE  hb'[m] = hb[m] /\ \A r \in Requests : tgt'[r][m] = tgt[r][m]
  <2>1. x # m
    BY <1>4
  <2>2. UNCHANGED hb \/ hb' = [hb EXCEPT ![x].ready = TRUE, ![x].live = TRUE]
    BY <1>4
    DEF MemberLoop, LoadWork, Validate, WriteCheckpoint, PublishUnready, MarkApplying,
        ApplyCandidate, PublishApplied, Report, RecoverApplying, BeginRollback, Restore,
        PublishRestored, EndRollback, WorkerFails, ScanFails, StartPublish, StartReady, Converge,
        ConvergeApply, StartFails, store
  <2>3. UNCHANGED tgt \/ \E q, row : tgt' = [tgt EXCEPT ![q][x] = row]
    BY <1>4
    DEF MemberLoop, LoadWork, Validate, WriteCheckpoint, PublishUnready, MarkApplying,
        ApplyCandidate, PublishApplied, Report, RecoverApplying, BeginRollback, Restore,
        PublishRestored, EndRollback, WorkerFails, ScanFails, StartPublish, StartReady, Converge,
        ConvergeApply, StartFails, store, TransitionTarget
  <2> QED BY <1>3, <2>1, <2>2, <2>3
<1>5. ASSUME NEW x \in Members, CoordinatorPlans(x)
      PROVE  hb'[m] = hb[m] /\ \A r \in Requests : tgt'[r][m] = tgt[r][m] \/ Planned(r, m)
  <2>1. UNCHANGED hb /\ co[x].plan.to \in {"validating", "apply_assigned", "rollback_assigned"}
    BY <1>1, <1>5 DEF CoordinatorPlans, PlanSound
  <2> QED BY <1>1, <1>5, <2>1, PlanWrite DEF Planned
<1>6. ASSUME NEW x \in Members, NEW r \in Requests, Admit(x, r) PROVE UNCHANGED <<hb, tgt>>
  BY <1>6 DEF Admit
<1>7. ASSUME NEW x \in Members, Coordinator(x), ~CoordinatorPlans(x) PROVE UNCHANGED <<hb, tgt>>
  BY <1>7 DEF Coordinator, CoordinatorReads, CoordinatorAcquires, CoordinatorFinishes,
              CoordinatorFails, store
<1>8. ASSUME NEW r \in Requests, ExpireLease(r) \/ Age(r) PROVE UNCHANGED <<hb, tgt>>
  BY <1>8 DEF ExpireLease, Age
<1>9. CASE UNCHANGED vars
  BY <1>9 DEF vars
<1>10. hb'[m] = hb[m] /\ \A r \in Requests : tgt'[r][m] = tgt[r][m] \/ Planned(r, m)
  BY <1>4, <1>5, <1>6, <1>7, <1>8, <1>9, CalmProcesses DEF Next
<1> QED
  BY <1>2, <1>10

(* A request that restores goes on to do so until its rows are restored. *)
LEMMA RestoringKept ==
  ASSUME Known, [Next]_vars, NEW r \in Requests, NEW m \in Members,
         mut[r].st \in {"rolling_back"} \cup BlocksResource,
         tgt[r][m].st \in {"rollback_assigned", "rolling_back"}
  PROVE  mut'[r].st \in {"rolling_back"} \cup BlocksResource
<1>1. TypeOK /\ tgt[r][m].eff
  BY DEF Known, EffectRecorded, RowOk, Effected
<1>2. /\ MutationEdges["rolling_back"] = {"rolled_back", "rollback_failed", "indeterminate"}
      /\ \A s \in BlocksResource : MutationEdges[s] = {}
      /\ mut[r].st # "absent"
  BY DEF MutationEdges, BlocksResource, MutationStates, Active, Terminal
<1>3. ASSUME NEW x \in Members, NEW q \in Requests, Admit(x, q) PROVE mut'[r].st = mut[r].st
  BY <1>1, <1>2, <1>3, AdmitStep
<1>4. ASSUME NEW x \in Members, CoordinatorPlans(x) PROVE mut'[r].st = mut[r].st
  <2>1. CASE co[x].req = r
    <3>1. PlanShape(mut[r].st, co[x].plan, CanaryOf[r])
      BY <1>1, <1>4, <2>1, PlanPhase DEF Known, CoordinatorSound
    <3>2. mut[r].st = "rolling_back"
      BY <3>1 DEF PlanShape, Active, BlocksResource
    <3>3. co[x].plan.next = "keep"
      BY <3>1, <3>2 DEF PlanShape
    <3> QED BY <1>1, <1>4, <2>1, <3>3, PlanPhase
  <2>2. CASE co[x].req # r
    BY <1>1, <1>4, <2>2, PlanPhase
  <2> QED BY <2>1, <2>2
<1>5. ASSUME NEW x \in Members, CoordinatorFinishes(x)
      PROVE  mut'[r].st \in {"rolling_back"} \cup BlocksResource
  <2>1. CASE co[x].req = r
    <3>1. /\ co[x].fin \in MutationEdges[mut[r].st]
          /\ co[x].fin = "rolled_back" => VerifyRestored(r)
      BY <1>5, <2>1 DEF CoordinatorFinishes, FinishFence
    <3>2. co[x].fin # "rolled_back"
      BY <1>1, <3>1 DEF VerifyRestored
    <3>3. mut'[r].st = co[x].fin
      BY <1>1, <1>5, <2>1, FinishStep
    <3> QED BY <1>2, <3>1, <3>2, <3>3 DEF BlocksResource
  <2>2. CASE co[x].req # r
    BY <1>1, <1>5, <2>2, FinishStep
  <2> QED BY <2>1, <2>2
<1>6. CASE \A q \in Requests : ~MutationStep(q)
  BY <1>1, <1>6, LedgerQuiet
<1> QED
  BY <1>3, <1>4, <1>5, <1>6 DEF MutationStep

(* The rows of a request in flight, when another actor moves. *)
LEMMA RowTrueKept ==
  ASSUME CalmFaults, Known, Calm, [Next]_vars, NEW m \in Members, ~MemberLoop(m),
         NEW r \in Requests
  PROVE  RowTrue(mut', proc[m], wk[m], r, tgt'[r][m])
<1> SUFFICES ASSUME mut'[r].st \in Active
             PROVE  RowTrue(mut', proc[m], wk[m], r, tgt'[r][m])
  BY DEF RowTrue
<1>1. /\ TypeOK /\ CoordinatorSound /\ RowOk(tgt[r][m]) /\ tgt[r][m].st \in TargetStates
      /\ mut[r].st \in MutationStates
  BY DEF Known, EffectRecorded, TypeOK, TargetRow, MutationRow
<1>2. /\ mut[r].st = "absent" => tgt[r] = [x \in Members |-> FreshTarget]
      /\ PhaseOk(mut[r].st, tgt[r], CanaryOf[r])
  BY DEF Known, PhaseAgreement
<1>3. tgt'[r][m] = tgt[r][m] \/ Planned(r, m)
  BY CalmOthers DEF Calm, CalmMember
<1>4. CASE mut[r].st = "absent"
  <2>1. PICK x \in Members : Admit(x, r)
    BY <1>1, <1>4, AbsentKept DEF Active
  <2>2. mut'[r].st = "claimed" /\ UNCHANGED tgt
    BY <1>1, <2>1, AdmitStep DEF Admit
  <2>3. tgt'[r][m].st = "pending" /\ ~tgt'[r][m].eff
    BY <1>2, <1>4, <2>2 DEF FreshTarget
  <2> QED BY <2>2, <2>3 DEF RowTrue, Early
<1>5. CASE mut[r].st # "absent"
  <2>1. mut[r].st \in Active /\ mut'[r].prior = mut[r].prior
    BY <1>1, <1>5, MutationKept
  <2>2. RowTrue(mut, proc[m], wk[m], r, tgt[r][m])
    BY DEF Calm, CalmMember
  <2>3. /\ tgt'[r][m].eff = tgt[r][m].eff
        /\ tgt'[r][m].st \in {"validated", "nacked", "rolled_back", "applying", "rolling_back"}
             => tgt'[r][m] = tgt[r][m]
        /\ tgt[r][m].st = "rolled_back" => tgt'[r][m] = tgt[r][m]
    BY <1>1, <1>3, EdgesInto DEF Planned
  <2>4. CASE mut[r].st \notin Early \/ mut'[r].st \in Early
    BY <2>1, <2>2, <2>3, <2>4 DEF RowTrue
  <2>5. CASE mut[r].st \in Early /\ mut'[r].st \notin Early
    <3>1. PICK x \in Members : CoordinatorPlans(x) /\ co[x].req = r
      <4>1. ASSUME NEW y \in Members, NEW q \in Requests, Admit(y, q) PROVE FALSE
        BY <1>1, <1>5, <2>5, <4>1, AdmitStep
      <4>2. ASSUME NEW y \in Members, CoordinatorFinishes(y) PROVE FALSE
        BY <1>1, <2>1, <2>5, <4>2, FinishStep DEF Active, Terminal
      <4>3. CASE \A q \in Requests : ~MutationStep(q)
        BY <1>1, <2>5, <4>3, LedgerQuiet
      <4>4. PICK y \in Members : CoordinatorPlans(y)
        BY <4>1, <4>2, <4>3 DEF MutationStep
      <4>5. co[y].req = r
        BY <1>1, <2>5, <4>4, PlanPhase
      <4> QED BY <4>4, <4>5
    <3>2. /\ mut[r].st = co[x].st /\ co[x].plan.next # "keep" /\ mut'[r].st = co[x].plan.next
          /\ co[x].at # "idle"
      BY <1>1, <2>5, <3>1, PlanPhase
    <3>3. /\ PlanShape(mut[r].st, co[x].plan, CanaryOf[r])
          /\ PlanBasis(co[x].plan.next, tgt[r], CanaryOf[r])
      BY <1>1, <3>1, <3>2 DEF CoordinatorSound
    <3>4. /\ mut[r].st = "validating" /\ co[x].plan.next = "canary_applying"
          /\ co[x].plan.to = "apply_assigned"
      BY <2>5, <3>2, <3>3 DEF PlanShape, Early
    <3>5. ~Compensating(x)
      BY <3>2, <3>4 DEF Compensating
    <3>6. EvidenceOk(r)
      BY <3>1, <3>5 DEF CoordinatorPlans, PlanFence, Authority
    <3>7. tgt[r][m].st = "validated" /\ ~tgt[r][m].eff
      BY <1>2, <3>3, <3>4 DEF PlanBasis, PhaseOk
    <3>8. HeadReadyAt(m, mut[r].prior)
      BY <3>6, <3>7 DEF EvidenceOk
    <3>9. wk[m].req \in {None, r}
      BY <2>1, <2>2, <3>7 DEF RowTrue
    <3>10. proc[m].active = mut[r].prior
      <4>1. StepTrue(mut, proc[m], head[m], wk[m])
        BY DEF Calm, CalmMember
      <4>2. wk[m].at # "publish"
        BY <3>8, <4>1 DEF HeadReadyAt, StepTrue
      <4>3. wk[m].at # "restored"
        <5>1. "restored" \in WorkSteps
          BY DEF WorkSteps, WorkerSteps
        <5>2. wk[m].at = "restored" => wk[m].req = r
          BY <1>1, <3>9, <5>1, ConstantsAssumption DEF TypeOK
        <5> QED BY <3>4, <4>1, <5>2 DEF StepTrue, BlocksResource
      <4> QED BY <3>8, <4>1, <4>2, <4>3 DEF HeadReadyAt, HeadIs, StepTrue
    <3>11. tgt'[r][m].st \in {"validated", "apply_assigned"} /\ ~tgt'[r][m].eff
      BY <1>1, <1>3, <2>3, <3>7, EdgesInto DEF Planned
    <3> QED BY <2>1, <3>9, <3>10, <3>11 DEF RowTrue
  <2> QED BY <2>4, <2>5
<1> QED
  BY <1>4, <1>5

(* What one member knows is not disturbed by the others. *)
LEMMA OthersCalm ==
  ASSUME CalmFaults, Known, Calm, [Next]_vars, NEW m \in Members, ~MemberLoop(m)
  PROVE  CalmMember(m)'
<1> DEFINE r == wk[m].req
<1>1. /\ TypeOK /\ CalmMember(m) /\ \A y \in Members : Steady(y)
      /\ Steady(m) /\ ScanTrue(m) /\ StepTrue(mut, proc[m], head[m], wk[m])
  BY DEF Known, Calm, CalmMember
<1>2. /\ proc'[m] = proc[m] /\ wk'[m] = wk[m] /\ head'[m] = head[m] /\ hb'[m] = hb[m]
      /\ \A q \in Requests : tgt'[q][m] = tgt[q][m] \/ Planned(q, m)
  BY <1>1, CalmOthers
<1>3. Steady(m)'
  BY <1>1, <1>2 DEF Steady
<1>4. wk[m].at \in WorkSteps => r \in Requests /\ mut[r].st # "absent"
  BY <1>1 DEF TypeOK, Known, CommitBasis, MemberOk, WorkOk
<1>5. wk[m].at \in WorkSteps => RowFollows(wk[m], tgt[r][m])
  BY <1>1, <1>4 DEF CalmMember
<1>6. StepTrue(mut', proc[m], head[m], wk[m])
  <2>1. CASE wk[m].at \notin WorkSteps
    <3>1. wk[m].at \notin {"mark", "apply", "publish", "ack", "rolled_back", "apply_assigned",
                           "head", "restored", "rollback_assigned", "rolling_back"}
      BY <2>1 DEF WorkSteps, WorkerSteps
    <3> QED BY <1>1, <3>1 DEF StepTrue
  <2>2. CASE wk[m].at \in WorkSteps
    <3>1. mut'[r].prior = mut[r].prior /\ mut'[r].pre = mut[r].pre
      BY <1>1, <1>4, <2>2, MutationKept
    <3>2. wk[m].at \in {"rollback_assigned", "rolling_back", "restored", "rolled_back"} =>
            mut'[r].st \in {"rolling_back"} \cup BlocksResource
      <4>1. SUFFICES ASSUME wk[m].at \in {"rollback_assigned", "rolling_back", "restored",
                                          "rolled_back"}
                     PROVE  mut'[r].st \in {"rolling_back"} \cup BlocksResource
        OBVIOUS
      <4>2. tgt[r][m].st \in {"rollback_assigned", "rolling_back"}
        BY <1>5, <2>2, <4>1 DEF RowFollows
      <4>3. mut[r].st \in {"rolling_back"} \cup BlocksResource
        BY <1>1, <4>1 DEF StepTrue
      <4> QED BY <1>4, <2>2, <4>2, <4>3, RestoringKept
    <3> QED BY <1>1, <2>2, <3>1, <3>2 DEF StepTrue
  <2> QED BY <2>1, <2>2
<1>7. wk[m].req \in Requests => RowFollows(wk[m], tgt'[r][m])
  <2> SUFFICES ASSUME r \in Requests PROVE RowFollows(wk[m], tgt'[r][m])
    OBVIOUS
  <2>1. RowFollows(wk[m], tgt[r][m]) /\ tgt[r][m].st \in TargetStates
    BY <1>1 DEF CalmMember, TypeOK, TargetRow
  <2>2. \/ tgt'[r][m] = tgt[r][m]
        \/ tgt[r][m].st \in {"pending", "validated", "acked", "nacked"}
        \/ tgt[r][m].st = "applying" /\ tgt'[r][m].st = "rollback_assigned"
    BY <1>2, <2>1, EdgesInto DEF Planned
  <2> QED BY <2>1, <2>2 DEF RowFollows
<1>8. ScanTrue(m)'
  <2>1. CASE "scan" \in Repairs
    BY <1>1, <1>2, <2>1 DEF ScanTrue
  <2>2. CASE "scan" \notin Repairs
    <3>1. /\ wk[m].at \notin WorkSteps /\ proc[m].active = Base /\ committed = Base
          /\ \A q \in Requests : ~tgt[q][m].eff
      BY <1>1, <2>2 DEF ScanTrue
    <3>2. \A q \in Requests : ~tgt'[q][m].eff
      BY <1>2, <3>1 DEF Planned
    <3>3. committed' = committed
      <4>1. ASSUME NEW x \in Members, CoordinatorFinishes(x) PROVE co[x].fin # "committed"
        <5>1. co[x].req \in Requests
          BY <1>1, <4>1, FinishStep
        <5>2. co[x].fin = "committed" => tgt[co[x].req][m].st = "acked"
          BY <4>1 DEF CoordinatorFinishes, FinishFence, VerifyCommit
        <5>3. RowOk(tgt[co[x].req][m]) /\ ~tgt[co[x].req][m].eff
          BY <3>1, <5>1 DEF Known, EffectRecorded
        <5> QED BY <5>2, <5>3 DEF RowOk, Effected
      <4>2. ASSUME NEW x \in Members, CoordinatorFinishes(x) PROVE committed' = committed
        BY <1>1, <4>1, <4>2, FinishStep
      <4>3. ASSUME NEW x \in Members, CoordinatorPlans(x) PROVE committed' = committed
        BY <1>1, <4>3, PlanStep
      <4>4. ASSUME NEW x \in Members, NEW q \in Requests, Admit(x, q) PROVE committed' = committed
        BY <1>1, <4>4, AdmitStep
      <4>5. CASE \A q \in Requests : ~MutationStep(q)
        BY <1>1, <4>5, LedgerQuiet
      <4> QED BY <4>2, <4>3, <4>4, <4>5 DEF MutationStep
    <3> QED BY <1>2, <2>2, <3>1, <3>2, <3>3 DEF ScanTrue
  <2> QED BY <2>1, <2>2
<1>9. \A q \in Requests : RowTrue(mut', proc[m], wk[m], q, tgt'[q][m])
  BY RowTrueKept
<1> QED
  BY <1>2, <1>3, <1>6, <1>7, <1>8, <1>9 DEF CalmMember

-------------------------------------------------------------------------------
(* The member's own steps. *)
LEMMA CalmRecords ==
  ASSUME TypeOK, NEW m \in Members
  PROVE  /\ \A step : Worker(m, step) =>
              wk'[m].at = step /\ wk'[m].req = wk[m].req /\ wk'[m].row = wk[m].row
         /\ \A step : WorkerIs(m, step) => wk'[m].at = step /\ wk'[m].req = None
<1>1. wk \in [Members -> WorkerRecord] /\ wk[m] \in WorkerRecord
  BY DEF TypeOK
<1>2. ASSUME NEW step, Worker(m, step)
      PROVE  wk'[m].at = step /\ wk'[m].req = wk[m].req /\ wk'[m].row = wk[m].row
  BY <1>1, <1>2 DEF Worker, WorkerRecord
<1>3. ASSUME NEW step, WorkerIs(m, step) PROVE wk'[m].at = step /\ wk'[m].req = None
  BY <1>1, <1>3 DEF WorkerIs, IdleWorker
<1> QED
  BY <1>2, <1>3

(* The steps of a work item. *)
LEMMA CalmSteps ==
  ASSUME Known, Calm, NEW m \in Members, wk[m].at \in WorkSteps
  PROVE  /\ "scan" \in Repairs /\ wk[m].req \in Requests
         /\ StepTrue(mut, proc[m], head[m], wk[m])
         /\ RowFollows(wk[m], tgt[wk[m].req][m])
         /\ RowTrue(mut, proc[m], wk[m], wk[m].req, tgt[wk[m].req][m])
         /\ RowOk(tgt[wk[m].req][m]) /\ WorkerOk(wk[m], tgt[wk[m].req][m].eff)
         /\ tgt[wk[m].req][m] \in TargetRow
<1>1. wk[m].req \in Requests
  BY DEF Known, TypeOK
<1>2. "scan" \in Repairs /\ StepTrue(mut, proc[m], head[m], wk[m])
  BY DEF Calm, CalmMember, ScanTrue
<1>3. /\ RowFollows(wk[m], tgt[wk[m].req][m])
      /\ RowTrue(mut, proc[m], wk[m], wk[m].req, tgt[wk[m].req][m])
  BY <1>1 DEF Calm, CalmMember
<1>4. RowOk(tgt[wk[m].req][m]) /\ WorkerOk(wk[m], tgt[wk[m].req][m].eff)
  BY <1>1 DEF Known, EffectRecorded, WorkerSound
<1>5. tgt[wk[m].req][m] \in TargetRow
  BY <1>1 DEF Known, TypeOK
<1> QED
  BY <1>1, <1>2, <1>3, <1>4, <1>5

(* A request that some other work item keeps the member from is at its start. *)
LEMMA OtherRowsTrue ==
  ASSUME Known, Calm, NEW m \in Members, wk[m].req \in Requests,
         NEW r \in Requests \ {wk[m].req}, NEW p, NEW w
  PROVE  RowTrue(mut, p, w, r, tgt[r][m])
<1> SUFFICES ASSUME mut[r].st \in Active PROVE RowTrue(mut, p, w, r, tgt[r][m])
  BY DEF RowTrue
<1>1. RowTrue(mut, proc[m], wk[m], r, tgt[r][m])
  BY DEF Calm, CalmMember
<1>2. wk[m].req \notin {None, r}
  BY ConstantsAssumption
<1>3. mut[r].st \in Early /\ tgt[r][m].st \notin {"validated", "nacked"}
  BY <1>1, <1>2 DEF RowTrue
<1>4. RowOk(tgt[r][m]) /\ PhaseOk(mut[r].st, tgt[r], CanaryOf[r])
  BY DEF Known, EffectRecorded, PhaseAgreement
<1>5. tgt[r][m].st \in {"pending", "validating"}
  BY <1>3, <1>4 DEF PhaseOk, Early
<1>6. ~tgt[r][m].eff
  BY <1>4, <1>5 DEF RowOk, Effected
<1> QED
  BY <1>3, <1>5, <1>6 DEF RowTrue

(* What a step of a work item has to keep. *)
LEMMA WorkCalm ==
  ASSUME Known, Calm, NEW m \in Members, wk[m].at \in WorkSteps,
         UNCHANGED <<committed, mut, hb>>,
         proc'[m].up, proc'[m].boot = proc[m].boot, head'[m].boot = proc[m].boot,
         \A q \in Requests \ {wk[m].req} : tgt'[q][m] = tgt[q][m],
         wk'[m].at \in {"idle"} \cup WorkSteps,
         wk'[m].req = IF wk'[m].at = "idle" THEN None ELSE wk[m].req,
         StepTrue(mut, proc'[m], head'[m], wk'[m]),
         wk'[m].at # "idle" => RowFollows(wk'[m], tgt'[wk[m].req][m]),
         RowTrue(mut, proc'[m], wk'[m], wk[m].req, tgt'[wk[m].req][m])
  PROVE  CalmMember(m)'
<1>1. "scan" \in Repairs /\ wk[m].req \in Requests /\ Steady(m)
  BY CalmSteps DEF Calm, CalmMember
<1>2. Steady(m)'
  BY <1>1 DEF Steady
<1>3. ScanTrue(m)'
  BY <1>1 DEF ScanTrue
<1>4. wk'[m].req \in Requests => RowFollows(wk'[m], tgt'[wk'[m].req][m])
  BY ConstantsAssumption
<1>5. ASSUME NEW r \in Requests PROVE RowTrue(mut', proc'[m], wk'[m], r, tgt'[r][m])
  <2>1. CASE r = wk[m].req
    BY <2>1
  <2>2. CASE r # wk[m].req
    <3>1. PICK p, w : p = proc'[m] /\ w = wk'[m]
      OBVIOUS
    <3>2. RowTrue(mut, p, w, r, tgt[r][m])
      BY <1>1, <2>2, OtherRowsTrue
    <3> QED BY <2>2, <3>1, <3>2
  <2> QED BY <2>1, <2>2
<1> QED
  BY <1>2, <1>3, <1>4, <1>5 DEF CalmMember

(* The row a step of the worker writes. *)
LEMMA CalmRow ==
  ASSUME TypeOK, NEW m \in Members, NEW r \in Requests, NEW row, NEW to,
         TransitionTarget(m, r, row, to)
  PROVE  /\ tgt'[r][m] = MovedTarget(m, tgt[r][m], to)
         /\ tgt'[r][m].st = to
         /\ to \in {"applying", "rolling_back"} => tgt'[r][m].eff
         /\ to \notin {"applying", "rolling_back"} => tgt'[r][m].eff = tgt[r][m].eff
         /\ \A q \in Requests \ {r} : tgt'[q][m] = tgt[q][m]
<1>1. tgt[r][m] \in TargetRow /\ tgt \in [Requests -> [Members -> TargetRow]]
  BY DEF TypeOK
<1>2. tgt' = [tgt EXCEPT ![r][m] = MovedTarget(m, tgt[r][m], to)]
  BY DEF TransitionTarget
<1>3. /\ MovedTarget(m, tgt[r][m], to).st = to
      /\ to \in {"applying", "rolling_back"} => MovedTarget(m, tgt[r][m], to).eff
      /\ to \notin {"applying", "rolling_back"} =>
           MovedTarget(m, tgt[r][m], to).eff = tgt[r][m].eff
  BY <1>1 DEF MovedTarget, TargetRow
<1> QED
  BY <1>1, <1>2, <1>3

LEMMA WorkStepsAre ==
  WorkSteps = {"validating", "apply_assigned", "head", "mark", "apply", "publish", "ack",
               "nack", "applying", "rollback_assigned", "rolling_back", "restored",
               "rolled_back", "rollback_failed"}
  BY DEF WorkSteps, WorkerSteps

(* Before the effect: validation, checkpoint, unready head, mark. *)
LEMMA ValidateCalm ==
  ASSUME Known, Calm, NEW m \in Members, Validate(m)
  PROVE  CalmMember(m)'
<1> DEFINE r == wk[m].req
<1>1. /\ TypeOK /\ wk[m].at = "validating" /\ wk[m].at \in WorkSteps
      /\ UNCHANGED <<committed, mut, hb, head, proc>> /\ Steady(m)
  BY WorkStepsAre DEF Validate, Known, Calm, CalmMember
<1>2. /\ r \in Requests /\ StepTrue(mut, proc[m], head[m], wk[m])
      /\ RowFollows(wk[m], tgt[r][m]) /\ RowTrue(mut, proc[m], wk[m], r, tgt[r][m])
      /\ RowOk(tgt[r][m])
  BY <1>1, CalmSteps
<1>3. PICK to \in {"validated", "nacked"} : TransitionTarget(m, r, wk[m].row, to)
  BY DEF Validate
<1>4. wk'[m].at = "idle" /\ wk'[m].req = None
  BY <1>1, CalmRecords DEF Validate
<1>5. ~tgt[r][m].eff
  BY <1>1, <1>2 DEF RowFollows, RowOk, Effected
<1>6. /\ tgt'[r][m].st \in {"validated", "nacked"} /\ ~tgt'[r][m].eff
      /\ \A q \in Requests \ {r} : tgt'[q][m] = tgt[q][m]
  BY <1>1, <1>2, <1>3, <1>5, CalmRow
<1>7. StepTrue(mut, proc[m], head[m], wk'[m])
  BY <1>1, <1>2, <1>4, WorkStepsAre DEF StepTrue
<1>8. RowTrue(mut, proc[m], wk'[m], r, tgt'[r][m])
  BY <1>2, <1>4, <1>5, <1>6 DEF RowTrue
<1> HIDE DEF r
<1> QED
  BY <1>1, <1>4, <1>6, <1>7, <1>8, WorkCalm DEF Steady, r

LEMMA CheckpointCalm ==
  ASSUME Known, Calm, NEW m \in Members, WriteCheckpoint(m)
  PROVE  CalmMember(m)'
<1> DEFINE r == wk[m].req
<1>1. /\ TypeOK /\ wk[m].at = "apply_assigned" /\ wk[m].at \in WorkSteps
      /\ UNCHANGED <<committed, mut, tgt, hb, head, proc>> /\ Steady(m)
  BY WorkStepsAre DEF WriteCheckpoint, Known, Calm, CalmMember
<1>2. /\ r \in Requests /\ StepTrue(mut, proc[m], head[m], wk[m])
      /\ RowFollows(wk[m], tgt[r][m]) /\ RowTrue(mut, proc[m], wk[m], r, tgt[r][m])
  BY <1>1, CalmSteps
<1>3. wk'[m].at = "head" /\ wk'[m].req = r
  BY <1>1, CalmRecords DEF WriteCheckpoint
<1>4. proc[m].etag = mut[r].pre
  BY <1>1 DEF WriteCheckpoint, StepFence, CheckpointFence
<1>5. StepTrue(mut, proc[m], head[m], wk'[m])
  BY <1>1, <1>2, <1>3, <1>4, WorkStepsAre DEF StepTrue
<1>6. RowFollows(wk'[m], tgt[r][m]) /\ RowTrue(mut, proc[m], wk'[m], r, tgt[r][m])
  BY <1>1, <1>2, <1>3 DEF RowFollows, RowTrue
<1> HIDE DEF r
<1> QED
  BY <1>1, <1>3, <1>5, <1>6, WorkCalm, WorkStepsAre DEF Steady, r

LEMMA UnreadyCalm ==
  ASSUME Known, Calm, NEW m \in Members, PublishUnready(m)
  PROVE  CalmMember(m)'
<1> DEFINE r == wk[m].req
<1>1. /\ TypeOK /\ wk[m].at = "head" /\ wk[m].at \in WorkSteps
      /\ UNCHANGED <<committed, mut, tgt, hb, proc>> /\ Steady(m)
  BY WorkStepsAre DEF PublishUnready, Known, Calm, CalmMember
<1>2. /\ r \in Requests /\ StepTrue(mut, proc[m], head[m], wk[m])
      /\ RowFollows(wk[m], tgt[r][m]) /\ RowTrue(mut, proc[m], wk[m], r, tgt[r][m])
  BY <1>1, CalmSteps
<1>3. wk'[m].at = "mark" /\ wk'[m].req = r
  BY <1>1, CalmRecords DEF PublishUnready
<1>4. head'[m] = [boot |-> proc[m].boot, rev |-> mut[r].prior, ready |-> FALSE]
  BY <1>1 DEF PublishUnready, PublishHead, TypeOK
<1>5. StepTrue(mut, proc[m], head'[m], wk'[m])
  BY <1>1, <1>2, <1>3, <1>4, WorkStepsAre DEF StepTrue
<1>6. RowFollows(wk'[m], tgt[r][m]) /\ RowTrue(mut, proc[m], wk'[m], r, tgt[r][m])
  BY <1>1, <1>2, <1>3 DEF RowFollows, RowTrue
<1> HIDE DEF r
<1> QED
  BY <1>1, <1>3, <1>4, <1>5, <1>6, WorkCalm, WorkStepsAre DEF Steady, r

LEMMA MarkCalm ==
  ASSUME Known, Calm, NEW m \in Members, MarkApplying(m)
  PROVE  CalmMember(m)'
<1> DEFINE r == wk[m].req
<1>1. /\ TypeOK /\ wk[m].at = "mark" /\ wk[m].at \in WorkSteps
      /\ UNCHANGED <<committed, mut, hb, head, proc>> /\ Steady(m)
      /\ TransitionTarget(m, r, wk[m].row, "applying")
  BY WorkStepsAre DEF MarkApplying, Known, Calm, CalmMember
<1>2. /\ r \in Requests /\ StepTrue(mut, proc[m], head[m], wk[m])
      /\ RowTrue(mut, proc[m], wk[m], r, tgt[r][m])
  BY <1>1, CalmSteps
<1>3. wk'[m].at = "apply" /\ wk'[m].req = r
  BY <1>1, CalmRecords DEF MarkApplying
<1>4. /\ tgt'[r][m].st = "applying" /\ tgt'[r][m].eff
      /\ \A q \in Requests \ {r} : tgt'[q][m] = tgt[q][m]
  BY <1>1, <1>2, CalmRow
<1>5. StepTrue(mut, proc[m], head[m], wk'[m])
  BY <1>1, <1>2, <1>3, WorkStepsAre DEF StepTrue
<1>6. RowFollows(wk'[m], tgt'[r][m]) /\ RowTrue(mut, proc[m], wk'[m], r, tgt'[r][m])
  BY <1>1, <1>2, <1>3, <1>4, ConstantsAssumption DEF RowFollows, RowTrue
<1> HIDE DEF r
<1> QED
  BY <1>1, <1>3, <1>4, <1>5, <1>6, WorkCalm, WorkStepsAre DEF Steady, r

(* The effect: apply, ready head, acknowledgement.  An etag that passed the
   checkpoint's fence has not moved since, so nothing is refused here.        *)
LEMMA ApplyCalm ==
  ASSUME CalmFaults, Known, Calm, NEW m \in Members, ApplyCandidate(m)
  PROVE  CalmMember(m)'
<1> DEFINE r == wk[m].req
<1>1. /\ TypeOK /\ wk[m].at = "apply" /\ wk[m].at \in WorkSteps
      /\ UNCHANGED <<committed, mut, tgt, hb, head>> /\ Steady(m)
  BY WorkStepsAre DEF ApplyCandidate, Known, Calm, CalmMember, store
<1>2. /\ r \in Requests /\ StepTrue(mut, proc[m], head[m], wk[m])
      /\ RowFollows(wk[m], tgt[r][m]) /\ RowTrue(mut, proc[m], wk[m], r, tgt[r][m])
      /\ tgt[r][m].eff
  BY <1>1, CalmSteps DEF WorkerOk
<1>3. proc[m].etag = mut[r].pre /\ "reject" \notin Faults
  BY <1>1, <1>2 DEF StepTrue, CalmFaults
<1>4. proc' = [proc EXCEPT ![m] = Installed(@, r)] /\ Worker(m, "publish")
  BY <1>3 DEF ApplyCandidate
<1>5. wk'[m].at = "publish" /\ wk'[m].req = r
  BY <1>1, <1>4, CalmRecords
<1>6. proc[m] \in ProcessRecord /\ proc \in [Members -> ProcessRecord]
  BY <1>1 DEF TypeOK
<1>7. LET p == Installed(proc[m], r)
      IN  p.active = r /\ p.slot = proc[m].active /\ p.up = proc[m].up /\ p.boot = proc[m].boot
  BY <1>6 DEF Installed, ProcessRecord
<1>8. /\ proc'[m].active = r /\ proc'[m].slot = proc[m].active
      /\ proc'[m].up = proc[m].up /\ proc'[m].boot = proc[m].boot
  BY <1>4, <1>6, <1>7
<1>9. StepTrue(mut, proc'[m], head[m], wk'[m])
  BY <1>1, <1>2, <1>5, <1>8, WorkStepsAre DEF StepTrue
<1>10. RowFollows(wk'[m], tgt[r][m]) /\ RowTrue(mut, proc'[m], wk'[m], r, tgt[r][m])
  BY <1>1, <1>2, <1>5, ConstantsAssumption DEF RowFollows, RowTrue
<1> HIDE DEF r
<1> QED
  BY <1>1, <1>5, <1>8, <1>9, <1>10, WorkCalm, WorkStepsAre DEF Steady, r

LEMMA AppliedCalm ==
  ASSUME Known, Calm, NEW m \in Members, PublishApplied(m)
  PROVE  CalmMember(m)'
<1> DEFINE r == wk[m].req
<1>1. /\ TypeOK /\ wk[m].at = "publish" /\ wk[m].at \in WorkSteps
      /\ UNCHANGED <<committed, mut, tgt, hb, proc>> /\ Steady(m)
  BY WorkStepsAre DEF PublishApplied, Known, Calm, CalmMember
<1>2. /\ r \in Requests /\ StepTrue(mut, proc[m], head[m], wk[m])
      /\ RowFollows(wk[m], tgt[r][m]) /\ RowTrue(mut, proc[m], wk[m], r, tgt[r][m])
  BY <1>1, CalmSteps
<1>3. wk'[m].at = "ack" /\ wk'[m].req = r
  BY <1>1, CalmRecords DEF PublishApplied
<1>4. head'[m] = [boot |-> proc[m].boot, rev |-> r, ready |-> TRUE]
  BY <1>1 DEF PublishApplied, PublishHead, TypeOK
<1>5. StepTrue(mut, proc[m], head'[m], wk'[m])
  BY <1>1, <1>2, <1>3, <1>4, WorkStepsAre DEF StepTrue
<1>6. RowFollows(wk'[m], tgt[r][m]) /\ RowTrue(mut, proc[m], wk'[m], r, tgt[r][m])
  BY <1>1, <1>2, <1>3 DEF RowFollows, RowTrue
<1> HIDE DEF r
<1> QED
  BY <1>1, <1>3, <1>4, <1>5, <1>6, WorkCalm, WorkStepsAre DEF Steady, r

LEMMA ReportCalm ==
  ASSUME Known, Calm, NEW m \in Members, Report(m)
  PROVE  CalmMember(m)'
<1> DEFINE r == wk[m].req
<1>1. /\ TypeOK /\ wk[m].at \in {"ack", "nack"} /\ wk[m].at \in WorkSteps
      /\ UNCHANGED <<committed, mut, hb, head, proc>> /\ Steady(m)
  BY WorkStepsAre DEF Report, Known, Calm, CalmMember
<1>2. /\ r \in Requests /\ StepTrue(mut, proc[m], head[m], wk[m])
      /\ RowTrue(mut, proc[m], wk[m], r, tgt[r][m]) /\ tgt[r][m].eff
  BY <1>1, CalmSteps DEF WorkerOk
<1>3. wk[m].at = "ack" /\ TransitionTarget(m, r, tgt[r][m], "acked")
  BY <1>1, <1>2 DEF StepTrue, Report
<1>4. wk'[m].at = "idle" /\ wk'[m].req = None
  BY <1>1, CalmRecords DEF Report
<1>5. /\ tgt'[r][m].st = "acked" /\ tgt'[r][m].eff
      /\ \A q \in Requests \ {r} : tgt'[q][m] = tgt[q][m]
  BY <1>1, <1>2, <1>3, CalmRow
<1>6. StepTrue(mut, proc[m], head[m], wk'[m])
  BY <1>2, <1>3, <1>4, WorkStepsAre DEF StepTrue
<1>7. proc[m].active = r /\ proc[m].slot = mut[r].prior
  BY <1>2, <1>3 DEF StepTrue
<1>8. RowTrue(mut, proc[m], wk'[m], r, tgt'[r][m])
  BY <1>4, <1>5, <1>7 DEF RowTrue
<1> HIDE DEF r
<1> QED
  BY <1>1, <1>4, <1>5, <1>6, <1>8, WorkCalm DEF Steady, r

(* The rollback: it begins on the candidate with the previous revision in the
   slot, and once begun nothing interrupts it before its row is written.      *)
LEMMA BeginCalm ==
  ASSUME Known, Calm, NEW m \in Members, BeginRollback(m)
  PROVE  CalmMember(m)'
<1> DEFINE r == wk[m].req
           row == MovedTarget(m, tgt[r][m], "rolling_back")
<1>1. /\ TypeOK /\ wk[m].at = "rollback_assigned" /\ wk[m].at \in WorkSteps
      /\ UNCHANGED <<committed, mut, hb, head, proc>> /\ Steady(m)
  BY WorkStepsAre DEF BeginRollback, Known, Calm, CalmMember
<1>2. /\ r \in Requests /\ StepTrue(mut, proc[m], head[m], wk[m])
      /\ RowFollows(wk[m], tgt[r][m]) /\ RowTrue(mut, proc[m], wk[m], r, tgt[r][m])
  BY <1>1, CalmSteps
<1>3. wk[m].row.st = "rollback_assigned"
  BY <1>1, <1>2 DEF RowFollows
<1>4. /\ TransitionTarget(m, r, wk[m].row, "rolling_back")
      /\ wk' = [wk EXCEPT ![m] = [wk[m] EXCEPT !.at = "rolling_back", !.row = row]]
  BY <1>3 DEF BeginRollback
<1>5. /\ tgt'[r][m] = row /\ tgt'[r][m].st = "rolling_back" /\ tgt'[r][m].eff
      /\ \A q \in Requests \ {r} : tgt'[q][m] = tgt[q][m]
  BY <1>1, <1>2, <1>4, CalmRow
<1>6. wk \in [Members -> WorkerRecord] /\ wk[m] \in WorkerRecord
  BY <1>1 DEF TypeOK
<1> HIDE DEF row
<1>7. LET w == [wk[m] EXCEPT !.at = "rolling_back", !.row = row]
      IN  w.at = "rolling_back" /\ w.req = r /\ w.row = row
  BY <1>6 DEF WorkerRecord
<1>8. wk'[m].at = "rolling_back" /\ wk'[m].req = r /\ wk'[m].row = row
  BY <1>4, <1>6, <1>7
<1>9. StepTrue(mut, proc[m], head[m], wk'[m])
  BY <1>1, <1>2, <1>8, WorkStepsAre DEF StepTrue
<1>10. RowFollows(wk'[m], tgt'[r][m]) /\ RowTrue(mut, proc[m], wk'[m], r, tgt'[r][m])
  BY <1>1, <1>2, <1>5, <1>8, ConstantsAssumption DEF RowFollows, RowTrue
<1> HIDE DEF r
<1> QED
  BY <1>1, <1>5, <1>8, <1>9, <1>10, WorkCalm, WorkStepsAre DEF Steady, r

LEMMA RestoreCalm ==
  ASSUME CalmFaults, Known, Calm, NEW m \in Members, Restore(m)
  PROVE  CalmMember(m)'
<1> DEFINE r == wk[m].req
<1>1. /\ TypeOK /\ wk[m].at = "rolling_back" /\ wk[m].at \in WorkSteps
      /\ UNCHANGED <<committed, mut, tgt, hb, head>> /\ Steady(m)
  BY WorkStepsAre DEF Restore, Known, Calm, CalmMember, store
<1>2. /\ r \in Requests /\ StepTrue(mut, proc[m], head[m], wk[m])
      /\ RowFollows(wk[m], tgt[r][m]) /\ RowTrue(mut, proc[m], wk[m], r, tgt[r][m])
      /\ RowOk(tgt[r][m])
  BY <1>1, CalmSteps
<1>3. proc[m].active = r /\ proc[m].slot = mut[r].prior /\ "reject" \notin Faults
  BY <1>1, <1>2 DEF StepTrue, CalmFaults
<1>4. proc[m].slot # None
  <2>1. mut[r].prior \in Revisions
    BY <1>1, <1>2 DEF TypeOK, MutationRow
  <2> QED BY <1>3, <2>1, ConstantsAssumption DEF Revisions
<1>5. proc' = [proc EXCEPT ![m] = SwappedBack(@)] /\ Worker(m, "restored")
  BY <1>3, <1>4 DEF Restore
<1>6. wk'[m].at = "restored" /\ wk'[m].req = r /\ wk'[m].row = wk[m].row
  BY <1>1, <1>5, CalmRecords
<1>7. proc[m] \in ProcessRecord /\ proc \in [Members -> ProcessRecord]
  BY <1>1 DEF TypeOK
<1>8. LET p == SwappedBack(proc[m])
      IN  p.active = proc[m].slot /\ p.up = proc[m].up /\ p.boot = proc[m].boot
  BY <1>7 DEF SwappedBack, ProcessRecord
<1>9. /\ proc'[m].active = mut[r].prior
      /\ proc'[m].up = proc[m].up /\ proc'[m].boot = proc[m].boot
  BY <1>3, <1>5, <1>7, <1>8
<1>10. StepTrue(mut, proc'[m], head[m], wk'[m])
  BY <1>1, <1>2, <1>6, <1>9, WorkStepsAre DEF StepTrue
<1>11. RowFollows(wk'[m], tgt[r][m])
  BY <1>1, <1>2, <1>6 DEF RowFollows
<1>12. tgt[r][m].st = "rolling_back" /\ tgt[r][m].eff
  BY <1>1, <1>2 DEF RowFollows, RowOk, Effected
<1>13. RowTrue(mut, proc'[m], wk'[m], r, tgt[r][m])
  BY <1>2, <1>6, <1>12, ConstantsAssumption DEF RowTrue
<1> HIDE DEF r
<1> QED
  BY <1>1, <1>6, <1>9, <1>10, <1>11, <1>13, WorkCalm, WorkStepsAre DEF Steady, r

LEMMA RestoredCalm ==
  ASSUME Known, Calm, NEW m \in Members, PublishRestored(m)
  PROVE  CalmMember(m)'
<1> DEFINE r == wk[m].req
<1>1. /\ TypeOK /\ wk[m].at = "restored" /\ wk[m].at \in WorkSteps
      /\ UNCHANGED <<committed, mut, tgt, hb, proc>> /\ Steady(m)
  BY WorkStepsAre DEF PublishRestored, Known, Calm, CalmMember
<1>2. /\ r \in Requests /\ StepTrue(mut, proc[m], head[m], wk[m])
      /\ RowFollows(wk[m], tgt[r][m]) /\ RowTrue(mut, proc[m], wk[m], r, tgt[r][m])
  BY <1>1, CalmSteps
<1>3. wk'[m].at = "rolled_back" /\ wk'[m].req = r /\ wk'[m].row = wk[m].row
  BY <1>1, CalmRecords DEF PublishRestored
<1>4. head'[m] = [boot |-> proc[m].boot, rev |-> mut[r].prior, ready |-> TRUE]
  BY <1>1 DEF PublishRestored, PublishHead, TypeOK
<1>5. StepTrue(mut, proc[m], head'[m], wk'[m])
  BY <1>1, <1>2, <1>3, <1>4, WorkStepsAre DEF StepTrue
<1>6. RowFollows(wk'[m], tgt[r][m]) /\ RowTrue(mut, proc[m], wk'[m], r, tgt[r][m])
  BY <1>1, <1>2, <1>3 DEF RowFollows, RowTrue
<1> HIDE DEF r
<1> QED
  BY <1>1, <1>3, <1>4, <1>5, <1>6, WorkCalm, WorkStepsAre DEF Steady, r

LEMMA EndCalm ==
  ASSUME Known, Calm, NEW m \in Members, EndRollback(m)
  PROVE  CalmMember(m)'
<1> DEFINE r == wk[m].req
<1>1. /\ TypeOK /\ wk[m].at \in {"rolled_back", "rollback_failed"} /\ wk[m].at \in WorkSteps
      /\ UNCHANGED <<committed, mut, hb, head, proc>> /\ Steady(m)
  BY WorkStepsAre DEF EndRollback, Known, Calm, CalmMember
<1>2. /\ r \in Requests /\ StepTrue(mut, proc[m], head[m], wk[m])
      /\ RowFollows(wk[m], tgt[r][m]) /\ RowOk(tgt[r][m])
  BY <1>1, CalmSteps
<1>3. wk[m].at = "rolled_back" /\ TransitionTarget(m, r, wk[m].row, "rolled_back")
  BY <1>1, <1>2 DEF StepTrue, EndRollback
<1>4. wk'[m].at = "idle" /\ wk'[m].req = None
  BY <1>1, CalmRecords DEF EndRollback
<1>5. tgt[r][m].eff
  BY <1>2, <1>3 DEF RowFollows, RowOk, Effected
<1>6. /\ tgt'[r][m].st = "rolled_back" /\ tgt'[r][m].eff = tgt[r][m].eff
      /\ \A q \in Requests \ {r} : tgt'[q][m] = tgt[q][m]
  BY <1>1, <1>2, <1>3, CalmRow
<1>7. StepTrue(mut, proc[m], head[m], wk'[m])
  BY <1>2, <1>3, <1>4, WorkStepsAre DEF StepTrue
<1>8. proc[m].active = mut[r].prior
  BY <1>2, <1>3 DEF StepTrue
<1>9. RowTrue(mut, proc[m], wk'[m], r, tgt'[r][m])
  BY <1>4, <1>5, <1>6, <1>8 DEF RowTrue
<1> HIDE DEF r
<1> QED
  BY <1>1, <1>4, <1>6, <1>7, <1>9, WorkCalm DEF Steady, r

(* A call that fails: only where nothing was changed yet, or where a rollback has
   overtaken the report.                                                      *)
LEMMA FailsCalm ==
  ASSUME CalmFaults, Known, Calm, NEW m \in Members, WorkerFails(m)
  PROVE  CalmMember(m)'
<1> DEFINE r == wk[m].req
           row == wk[m].row
<1>1. /\ TypeOK /\ wk[m].at \in WorkSteps /\ Anchored
      /\ UNCHANGED <<committed, mut, tgt, hb, head, proc>> /\ Steady(m)
  BY DEF WorkerFails, Known, Calm, CalmMember, store
<1>2. /\ r \in Requests /\ StepTrue(mut, proc[m], head[m], wk[m])
      /\ RowFollows(wk[m], tgt[r][m]) /\ RowTrue(mut, proc[m], wk[m], r, tgt[r][m])
      /\ RowOk(tgt[r][m])
  BY <1>1, CalmSteps
<1>3. \/ ~StepFence(m)
      \/ wk[m].at \in {"apply_assigned", "applying", "rollback_assigned"}
  BY DEF WorkerFails, CalmFaults
<1>4. LiveBoot(m) /\ LiveMember(m)
  BY <1>1 DEF Steady, LiveBoot, LiveMember
<1>5. wk[m].at \notin {"head", "apply", "publish", "rolling_back", "restored"}
  BY <1>3, <1>4 DEF StepFence
<1>6. ASSUME wk[m].at = "rolled_back" PROVE FALSE
  <2>1. /\ tgt[r][m] = row /\ row.st = "rolling_back"
        /\ head[m].ready /\ head[m].rev = proc[m].active /\ proc[m].active = mut[r].prior
        /\ mut[r].st \in {"rolling_back"} \cup BlocksResource
    BY <1>2, <1>6 DEF StepTrue, RowFollows
  <2>2. committed = mut[r].prior
    BY <1>1, <1>2, <2>1 DEF Anchored, Active
  <2>3. HeadReadyAt(m, mut[r].prior)
    BY <1>1, <2>1 DEF HeadReadyAt, HeadIs, Steady
  <2>4. "rolled_back" \in TargetEdges[row.st]
    BY <2>1 DEF TargetEdges, TargetStates
  <2>5. TargetFence(m, r, row, "rolled_back")
    BY <1>4, <2>1, <2>2, <2>3, <2>4 DEF TargetFence
  <2> QED BY <1>3, <1>6, <2>5 DEF StepFence
<1>7. ASSUME wk[m].at = "ack" PROVE tgt[r][m].st = "rollback_assigned"
  <2>1. tgt[r][m].st \in {"applying", "rollback_assigned"}
    BY <1>2, <1>7 DEF RowFollows
  <2>2. ASSUME tgt[r][m].st = "applying" PROVE FALSE
    <3>1. "acked" \in TargetEdges[tgt[r][m].st]
      BY <2>2 DEF TargetEdges, TargetStates
    <3>2. HeadReadyAt(m, r)
      BY <1>1, <1>2, <1>7 DEF HeadReadyAt, HeadIs, Steady, StepTrue
    <3>3. TargetFence(m, r, tgt[r][m], "acked")
      BY <1>4, <3>1, <3>2 DEF TargetFence
    <3> QED BY <1>3, <1>7, <3>3 DEF StepFence
  <2> QED BY <2>1, <2>2
<1>8. wk[m].at \in {"validating", "apply_assigned", "mark", "ack", "rollback_assigned"}
  BY <1>1, <1>2, <1>5, <1>6, WorkStepsAre DEF StepTrue
<1>9. wk'[m].at = "idle" /\ wk'[m].req = None
  BY <1>1, CalmRecords DEF WorkerFails
<1>10. StepTrue(mut, proc[m], head[m], wk'[m])
  BY <1>2, <1>8, <1>9, WorkStepsAre DEF StepTrue
<1>11. RowTrue(mut, proc[m], wk'[m], r, tgt[r][m])
  <2>1. CASE wk[m].at \in {"validating", "apply_assigned", "mark"}
    <3>1. ~tgt[r][m].eff
      BY <1>2, <2>1 DEF RowFollows, RowOk, Effected
    <3> QED BY <1>2, <1>9, <3>1 DEF RowTrue
  <2>2. CASE wk[m].at \in {"ack", "rollback_assigned"}
    <3>1. tgt[r][m].st = "rollback_assigned" /\ tgt[r][m].eff
      BY <1>2, <1>7, <2>2 DEF RowFollows, RowOk, Effected
    <3>2. proc[m].active = r /\ proc[m].slot = mut[r].prior
      BY <1>2, <2>2 DEF StepTrue
    <3> QED BY <1>9, <3>1, <3>2 DEF RowTrue
  <2> QED BY <1>8, <2>1, <2>2
<1> HIDE DEF r
<1> QED
  BY <1>1, <1>9, <1>10, <1>11, WorkCalm DEF Steady, r

(* The scan takes up a row of the request in flight, and finds the process as the
   row says.  A scan that cannot decode its rows restarts the loop.           *)
LEMMA LoadCalm ==
  ASSUME Known, Calm, NEW m \in Members, NEW r \in Requests, LoadWork(m, r)
  PROVE  CalmMember(m)'
<1>1. /\ TypeOK /\ wk[m].at = "idle" /\ HasWork(m, r) /\ CalmMember(m)
      /\ UNCHANGED <<committed, mut, tgt, hb, head, proc>>
  BY DEF LoadWork, Known, Calm, store
<1>2. /\ Steady(m) /\ ScanTrue(m) /\ StepTrue(mut, proc[m], head[m], wk[m])
      /\ \A q \in Requests : RowTrue(mut, proc[m], wk[m], q, tgt[q][m])
  BY <1>1 DEF CalmMember
<1>3. wk[m].req = None /\ head[m].rev = proc[m].active
  BY <1>1, <1>2, WorkStepsAre DEF StepTrue
<1>4. Steady(m)'
  BY <1>1, <1>2 DEF Steady
<1>5. CASE "scan" \in Repairs
  <2> DEFINE st == tgt[r][m].st
  <2>1. /\ mut[r].st \in Active /\ st \in WorkStates /\ RowOk(tgt[r][m])
        /\ PhaseOk(mut[r].st, tgt[r], CanaryOf[r])
    BY <1>1 DEF HasWork, Known, EffectRecorded, PhaseAgreement
  <2>2. RowTrue(mut, proc[m], wk[m], r, tgt[r][m])
    BY <1>2
  <2>3. st \in {"validating", "apply_assigned", "rollback_assigned"}
    BY <1>3, <2>1, <2>2 DEF RowTrue, RowOk, Effected, WorkStates
  <2>4. wk' = [wk EXCEPT ![m] = [at |-> st, req |-> r, row |-> tgt[r][m]]]
    BY <1>5, <2>3 DEF LoadWork
  <2>5. wk'[m].at = st /\ wk'[m].req = r /\ wk'[m].row = tgt[r][m]
    BY <1>1, <2>4 DEF TypeOK
  <2>6. st = "apply_assigned" => proc[m].active = mut[r].prior
    <3>1. SUFFICES ASSUME st = "apply_assigned" PROVE proc[m].active = mut[r].prior
      OBVIOUS
    <3>2. ~tgt[r][m].eff
      BY <2>1, <3>1 DEF RowOk, Effected
    <3>3. mut[r].st \notin Early
      BY <2>1, <3>1 DEF PhaseOk, Early
    <3> QED BY <2>1, <2>2, <3>2, <3>3 DEF RowTrue
  <2>7. st = "rollback_assigned" =>
          /\ proc[m].active = r /\ proc[m].slot = mut[r].prior
          /\ mut[r].st = "rolling_back"
    <3>1. SUFFICES ASSUME st = "rollback_assigned"
                   PROVE  /\ proc[m].active = r /\ proc[m].slot = mut[r].prior
                          /\ mut[r].st = "rolling_back"
      OBVIOUS
    <3>2. tgt[r][m].eff
      BY <2>1, <3>1 DEF RowOk, Effected
    <3>3. mut[r].st = "rolling_back"
      BY <1>1, <2>1, <3>1, ConstantsAssumption DEF PhaseOk, Active, TypeOK
    <3> QED BY <1>3, <2>1, <2>2, <3>1, <3>2, <3>3 DEF RowTrue
  <2>8. StepTrue(mut, proc[m], head[m], wk'[m])
    BY <1>3, <2>3, <2>5, <2>6, <2>7, WorkStepsAre DEF StepTrue
  <2>9. RowFollows(wk'[m], tgt[r][m])
    BY <2>3, <2>5 DEF RowFollows
  <2>10. ScanTrue(m)'
    BY <1>5, <2>3, <2>5, WorkStepsAre DEF ScanTrue
  <2>11. ASSUME NEW q \in Requests PROVE RowTrue(mut, proc[m], wk'[m], q, tgt[q][m])
    <3>1. CASE q = r
      <4>1. wk[m].req = None /\ wk'[m].req = r /\ r # None
        BY <1>3, <2>5, ConstantsAssumption
      <4> QED BY <2>2, <3>1, <4>1 DEF RowTrue
    <3>2. CASE q # r
      <4>1. mut[q].st \notin Active
        BY <2>1, <3>2 DEF Known, ReservationExact
      <4> QED BY <4>1 DEF RowTrue
    <3> QED BY <3>1, <3>2
  <2> HIDE DEF st
  <2> QED BY <1>1, <1>4, <2>5, <2>8, <2>9, <2>10, <2>11 DEF CalmMember
<1>6. CASE "scan" \notin Repairs
  <2>1. wk' = [wk EXCEPT ![m] = IdleWorker("start")]
    BY <1>6 DEF LoadWork
  <2>2. wk'[m].at = "start" /\ wk'[m].req = None
    BY <1>1, <2>1, CalmRecords DEF WorkerIs
  <2>3. StepTrue(mut, proc[m], head[m], wk'[m])
    BY <1>3, <2>2, WorkStepsAre DEF StepTrue
  <2>4. ScanTrue(m)'
    BY <1>1, <1>2, <1>6, <2>2, WorkStepsAre DEF ScanTrue
  <2>5. ASSUME NEW q \in Requests PROVE RowTrue(mut, proc[m], wk'[m], q, tgt[q][m])
    <3>1. RowTrue(mut, proc[m], wk[m], q, tgt[q][m])
      BY <1>2
    <3> QED BY <1>3, <2>2, <3>1 DEF RowTrue
  <2> QED BY <1>1, <1>4, <2>2, <2>3, <2>4, <2>5, ConstantsAssumption DEF CalmMember
<1> QED
  BY <1>5, <1>6

(* The restarted loop finds the base configuration it booted with. *)
LEMMA StartCalm ==
  ASSUME CalmFaults, Known, Calm, NEW m \in Members,
         \/ StartPublish(m) \/ StartReady(m) \/ Converge(m) \/ ConvergeApply(m) \/ StartFails(m)
  PROVE  CalmMember(m)'
<1>1. /\ TypeOK /\ wk[m].at \in {"start", "ready", "converge"} /\ CalmMember(m)
      /\ UNCHANGED <<committed, mut, tgt>>
  BY DEF StartPublish, StartReady, Converge, ConvergeApply, StartFails, Known, Calm, store
<1>2. /\ Steady(m) /\ ScanTrue(m) /\ StepTrue(mut, proc[m], head[m], wk[m])
      /\ \A q \in Requests : RowTrue(mut, proc[m], wk[m], q, tgt[q][m])
  BY <1>1 DEF CalmMember
<1>3. /\ "scan" \notin Repairs /\ proc[m].active = Base /\ committed = Base
      /\ wk[m].req = None /\ head[m].rev = Base
      /\ \A q \in Requests : ~tgt[q][m].eff
  BY <1>1, <1>2, WorkStepsAre DEF ScanTrue, StepTrue
<1>4. ~ConvergeApply(m)
  BY <1>3, ConstantsAssumption DEF ConvergeApply, ConvergeFence
<1>5. UNCHANGED proc
  BY <1>4 DEF StartPublish, StartReady, Converge, StartFails
<1>6. wk'[m].req = None /\ wk'[m].at \in {"start", "ready", "converge", "idle"}
  <2>1. \/ \E step \in {"ready", "converge", "idle"} : Worker(m, step)
        \/ WorkerIs(m, "start")
    BY <1>4 DEF StartPublish, StartReady, Converge, StartFails
  <2> QED BY <1>1, <1>3, <2>1, CalmRecords
<1>7. head'[m].rev = Base /\ head'[m].boot = proc[m].boot
  <2>1. head \in [Members -> HeadRow] /\ head[m].boot = proc[m].boot
    BY <1>1, <1>2 DEF TypeOK, Steady
  <2>2. CASE UNCHANGED head
    BY <1>3, <2>1, <2>2
  <2>3. CASE \E ready : PublishHead(m, Base, ready)
    BY <2>1, <2>3 DEF PublishHead
  <2> QED BY <1>3, <1>4, <2>2, <2>3 DEF StartPublish, StartReady, Converge, StartFails, store
<1>8. hb'[m].live /\ hb'[m].ready /\ hb'[m].boot = hb[m].boot
  <2>1. hb \in [Members -> HeartbeatRow] /\ hb[m].live /\ hb[m].ready
    BY <1>1, <1>2 DEF TypeOK, Steady
  <2>2. CASE UNCHANGED hb
    BY <2>1, <2>2
  <2>3. CASE hb' = [hb EXCEPT ![m].ready = TRUE, ![m].live = TRUE]
    BY <2>1, <2>3 DEF HeartbeatRow
  <2> QED BY <1>4, <2>2, <2>3 DEF StartPublish, StartReady, Converge, StartFails, store
<1>9. Steady(m)'
  BY <1>2, <1>5, <1>7, <1>8 DEF Steady
<1>10. ScanTrue(m)'
  BY <1>1, <1>3, <1>5, <1>6, WorkStepsAre DEF ScanTrue
<1>11. StepTrue(mut, proc[m], head'[m], wk'[m])
  BY <1>3, <1>6, <1>7, WorkStepsAre DEF StepTrue
<1>12. ASSUME NEW q \in Requests PROVE RowTrue(mut, proc[m], wk'[m], q, tgt[q][m])
  <2>1. RowTrue(mut, proc[m], wk[m], q, tgt[q][m])
    BY <1>2
  <2> QED BY <1>3, <1>6, <2>1 DEF RowTrue
<1> QED
  BY <1>1, <1>5, <1>6, <1>9, <1>10, <1>11, <1>12, ConstantsAssumption DEF CalmMember

LEMMA LoopCalm ==
  ASSUME CalmFaults, Known, Calm, NEW m \in Members, MemberLoop(m)
  PROVE  CalmMember(m)'
<1>1. ~ScanFails(m)
  BY DEF ScanFails, CalmFaults
<1>2. ~RecoverApplying(m)
  <2>1. StepTrue(mut, proc[m], head[m], wk[m])
    BY DEF Calm, CalmMember
  <2> QED BY <2>1 DEF RecoverApplying, StepTrue
<1> QED
  BY <1>1, <1>2, LoadCalm, ValidateCalm, CheckpointCalm, UnreadyCalm, MarkCalm, ApplyCalm,
     AppliedCalm, ReportCalm, BeginCalm, RestoreCalm, RestoredCalm, EndCalm, FailsCalm,
     StartCalm
  DEF MemberLoop

LEMMA CalmInductive ==
  ASSUME CalmFaults, Known, Calm, [Next]_vars
  PROVE  Calm'
<1>1. Anchored'
  BY AnchoredInductive DEF Known, Calm
<1>2. ASSUME NEW m \in Members PROVE CalmMember(m)'
  BY LoopCalm, OthersCalm
<1> QED
  BY <1>1, <1>2 DEF Calm

LEMMA CalmInit ==
  ASSUME Init
  PROVE  Calm
<1>1. Anchored
  BY DEF Anchored, Init, AbsentMutation, Active, BlocksResource
<1>2. ASSUME NEW m \in Members PROVE CalmMember(m)
  <2>1. /\ proc[m] = [up |-> TRUE, boot |-> 1, active |-> Base, slot |-> None, etag |-> 1]
        /\ hb[m] = [boot |-> 1, ready |-> TRUE, live |-> TRUE]
        /\ head[m] = [boot |-> 1, rev |-> Base, ready |-> TRUE]
        /\ wk[m] = IdleWorker("idle") /\ committed = Base
    BY DEF Init
  <2>2. wk[m].at = "idle" /\ wk[m].req = None
    BY <2>1 DEF IdleWorker
  <2>3. \A r \in Requests : mut[r].st = "absent" /\ tgt[r][m] = FreshTarget
    BY DEF Init, AbsentMutation
  <2>4. Steady(m)
    BY <2>1 DEF Steady
  <2>5. ScanTrue(m)
    BY <2>1, <2>2, <2>3, WorkStepsAre DEF ScanTrue, FreshTarget
  <2>6. StepTrue(mut, proc[m], head[m], wk[m])
    BY <2>1, <2>2, WorkStepsAre DEF StepTrue
  <2>7. \A r \in Requests : RowTrue(mut, proc[m], wk[m], r, tgt[r][m])
    BY <2>3 DEF RowTrue, Active
  <2> QED BY <2>2, <2>4, <2>5, <2>6, <2>7, ConstantsAssumption DEF CalmMember
<1> QED
  BY <1>1, <1>2 DEF Calm

-------------------------------------------------------------------------------
(* The results. *)
LEMMA KnownInit ==
  ASSUME Init
  PROVE  PlanSound /\ EffectRecorded /\ WorkerSound /\ CoordinatorSound /\ PhaseAgreement
         /\ CommitBasis /\ Calm
  BY EffectInit, PhaseInit, BasisInit, CalmInit

LEMMA KnownInductive ==
  ASSUME CalmFaults, Known, Calm, [Next]_vars
  PROVE  PlanSound' /\ EffectRecorded' /\ WorkerSound' /\ CoordinatorSound' /\ PhaseAgreement'
         /\ CommitBasis' /\ Calm'
<1>1. /\ TypeOK /\ ReservationExact /\ PlanSound /\ EffectRecorded
      /\ WorkerSound /\ CoordinatorSound /\ PhaseAgreement /\ CommitBasis
  BY DEF Known
<1> QED
  BY <1>1, PlanSoundInductive, EffectInductive, WorkerSoundInductive, CoordinatorSoundInductive,
     PhaseInductive, BasisInductive, CalmInductive

(* What is known of a calm cluster holds in all its reachable states. *)
LEMMA CalmAlways ==
  ASSUME CalmFaults
  PROVE  Spec => [](Known /\ Calm)
<1> DEFINE Rest == PlanSound /\ EffectRecorded /\ WorkerSound /\ CoordinatorSound
                   /\ PhaseAgreement /\ CommitBasis /\ Calm
<1>1. Init => Rest
  BY KnownInit
<1>2. TypeOK /\ ReservationExact /\ Rest => Known /\ Calm
  BY DEF Known
<1>3. Known /\ Calm /\ [Next]_vars => Rest'
  BY KnownInductive
<1> HIDE DEF Rest
<1> QED
  BY <1>1, <1>2, <1>3, TypeCorrect, Reservation, PTL DEF Spec

(* As long as only phases expire and leases lapse, a ready head of a member with
   nothing left to do names the configuration its process runs
   (publish_resource_head).                                                   *)
THEOREM HeadsAreTruthful ==
  ASSUME CalmFaults
  PROVE  Spec => []SettledHeadTruthful
<1>1. Calm => SettledHeadTruthful
  <2> SUFFICES ASSUME Calm, NEW m \in Members, wk[m].at = "idle"
               PROVE  proc[m].active = head[m].rev
    BY DEF SettledHeadTruthful, HeadTruthful
  <2>1. StepTrue(mut, proc[m], head[m], wk[m])
    BY DEF Calm, CalmMember
  <2> QED BY <2>1 DEF StepTrue
<1> QED
  BY <1>1, CalmAlways, PTL

(* An admission finds the processes on the revision of their ready heads. *)
LEMMA AdmitFindsCommitted ==
  ASSUME Known, Calm, [Next]_vars, NEW r \in Requests,
         mut[r].st = "absent", mut'[r].st = "claimed", NEW m \in Members
  PROVE  proc[m].active = committed
<1>1. TypeOK /\ ReservationExact
  BY DEF Known
<1>2. PICK x \in Members : Admit(x, r)
  BY <1>1, AbsentKept
<1>3. pending = None /\ ExactBaseline
  BY <1>2 DEF Admit
<1>4. head[m].ready /\ head[m].rev = committed
  BY <1>3 DEF ExactBaseline, HeadReadyAt, HeadIs
<1>5. StepTrue(mut, proc[m], head[m], wk[m])
  BY DEF Calm, CalmMember
<1>6. wk[m].at # "publish"
  BY <1>4, <1>5 DEF StepTrue
<1>7. wk[m].at # "restored"
  <2>1. wk[m].at = "restored" => wk[m].req \in Requests
    BY <1>1, WorkStepsAre DEF TypeOK
  <2>2. wk[m].at = "restored" => mut[wk[m].req].st \in Active \cup BlocksResource
    BY <1>5 DEF StepTrue, Active
  <2> QED BY <1>1, <1>3, <2>1, <2>2, ConstantsAssumption DEF ReservationExact
<1> QED
  BY <1>4, <1>5, <1>6, <1>7 DEF StepTrue

(* ... every request is admitted to a cluster whose processes all run the committed
   revision, whatever the rollouts before it went through
   (prove_exact_resource_membership, lock_resource_baseline).                 *)
THEOREM AdmissionsConverge ==
  ASSUME CalmFaults
  PROVE  Spec => AdmissionConverged
<1> DEFINE Found == \A r \in Requests : mut[r].st = "absent" /\ mut'[r].st = "claimed" =>
                      \A m \in Members : proc[m].up => proc[m].active = committed
<1>1. Known /\ Calm /\ [Next]_vars => [Found]_vars
  BY AdmitFindsCommitted
<1> HIDE DEF Found
<1>2. Spec => [][Found]_vars
  BY <1>1, CalmAlways, PTL DEF Spec
<1> QED
  BY <1>2 DEF Found, AdmissionConverged

(* A rollback that verify_restored lets finish left nobody behind. *)
LEMMA RollbackFindsPrior ==
  ASSUME Known, Calm, [Next]_vars, NEW r \in Requests,
         mut[r].st # "rolled_back", mut'[r].st = "rolled_back", NEW m \in Members
  PROVE  proc[m].active = mut[r].prior
<1>1. TypeOK /\ mut[r].st \in MutationStates
  BY DEF Known, TypeOK, MutationRow
<1>2. PICK x \in Members : CoordinatorFinishes(x) /\ co[x].req = r
  <2>1. ASSUME NEW y \in Members, NEW q \in Requests, Admit(y, q) PROVE FALSE
    BY <1>1, <2>1, AdmitStep
  <2>2. ASSUME NEW y \in Members, CoordinatorPlans(y) PROVE FALSE
    <3>1. co[y].req = r
      BY <1>1, <2>2, PlanPhase
    <3>2. mut'[r].st = co[y].plan.next
      BY <1>1, <2>2, <3>1, PlanPhase
    <3>3. co[y].plan.next \in {"keep"} \cup Active
      BY <1>1 DEF TypeOK, CoordinatorRecord
    <3> QED BY <3>2, <3>3 DEF Active
  <2>3. CASE \A q \in Requests : ~MutationStep(q)
    BY <1>1, <2>3, LedgerQuiet
  <2>4. PICK y \in Members : CoordinatorFinishes(y)
    BY <2>1, <2>2, <2>3 DEF MutationStep
  <2>5. co[y].req = r
    BY <1>1, <2>4, FinishStep
  <2> QED BY <2>4, <2>5
<1>3. co[x].fin = "rolled_back"
  BY <1>1, <1>2, FinishStep
<1>4. "rolled_back" \in MutationEdges[mut[r].st] /\ VerifyRestored(r)
  BY <1>2, <1>3 DEF CoordinatorFinishes, FinishFence
<1>5. mut[r].st = "rolling_back"
  BY <1>1, <1>4 DEF MutationEdges
<1>6. RowTrue(mut, proc[m], wk[m], r, tgt[r][m])
  BY DEF Calm, CalmMember
<1>7. tgt[r][m].eff => tgt[r][m].st = "rolled_back"
  BY <1>4 DEF VerifyRestored
<1> QED
  BY <1>5, <1>6, <1>7 DEF RowTrue, Active, Early

(* ... and a rollout that is reported as rolled back, after a refusal or a timeout in
   any phase, finds every process on the configuration it started from, also the
   processes whose rows record no effect (verify_restored, apply_config_rollback). *)
THEOREM RollbacksRestore ==
  ASSUME CalmFaults
  PROVE  Spec => RollbackRestores
<1> DEFINE Found == \A r \in Requests : mut[r].st # "rolled_back" /\ mut'[r].st = "rolled_back" =>
                      \A m \in Members : proc[m].up => proc[m].active = mut[r].prior
<1>1. Known /\ Calm /\ [Next]_vars => [Found]_vars
  BY RollbackFindsPrior
<1> HIDE DEF Found
<1>2. Spec => [][Found]_vars
  BY <1>1, CalmAlways, PTL DEF Spec
<1> QED
  BY <1>2 DEF Found, RollbackRestores

===============================================================================
