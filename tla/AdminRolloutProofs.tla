-------------------------- MODULE AdminRolloutProofs --------------------------
(* Proofs about AdminRollout for every membership, every set of requests, every
   combination of faults and repairs and every bound.                        *)
EXTENDS AdminRollout, TLAPS

-------------------------------------------------------------------------------
(* Type correctness: one lemma per group of actions. *)

LEMMA InitTypeOK == Init => TypeOK
  BY ConstantsAssumption, MembersAssumption
  DEF Init, TypeOK, Revisions, MutationRow, AbsentMutation, MutationStates, Active, Terminal,
      TargetRow, FreshTarget, TargetStates, HeartbeatRow, HeadRow, ProcessRecord, WorkerRecord,
      IdleWorker, WorkerSteps, WorkSteps, CoordinatorRecord, IdleCoordinator, Plan

(* An idle worker and an idle coordinator have their types. *)
LEMMA FreshTargetTyped == FreshTarget \in TargetRow
  BY DEF FreshTarget, TargetRow, TargetStates

LEMMA IdleWorkerTyped ==
  ASSUME NEW step \in WorkerSteps
  PROVE  IdleWorker(step) \in WorkerRecord
  BY FreshTargetTyped DEF IdleWorker, WorkerRecord

LEMMA IdleCoordinatorTyped == IdleCoordinator \in CoordinatorRecord
  BY FreshTargetTyped DEF IdleCoordinator, CoordinatorRecord, Plan, MutationStates, TargetStates

(* What transition_plan yields is a plan: it stays among the active states. *)
LEMMA PlanTyped ==
  ASSUME NEW st, NEW tg, NEW d, d.who \in SUBSET Members
  PROVE  PlanFor(st, tg, d) \in [next : {"keep"} \cup Active, to : TargetStates,
                                 who : SUBSET Members]
  BY DEF PlanFor, Plan, Active, TargetStates

LEMMA TerminalTyped ==
  ASSUME NEW st, NEW d
  PROVE  TerminalFor(st, d) \in {"keep"} \cup Terminal
  BY DEF TerminalFor, Terminal

(* A directive only names members. *)
LEMMA DirectiveTyped ==
  ASSUME NEW st, NEW tg, NEW exact, NEW timedOut, NEW observed, NEW canary \in Members
  PROVE  Classify(st, tg, exact, timedOut, observed, canary).who \in SUBSET Members
<1>1. /\ RollbackDirective(tg).who \in SUBSET Members
      /\ \A S \in SUBSET Members : ApplyReadyTargets(tg, S) \in SUBSET Members
  BY DEF RollbackDirective, ApplyReadyTargets, Directive
<1>2. ClassifyValidation(tg, canary, timedOut).who \in SUBSET Members
  BY <1>1 DEF ClassifyValidation, Directive
<1>3. ClassifyRollback(tg, timedOut).who \in SUBSET Members
  BY <1>1 DEF ClassifyRollback, Directive
<1>4. ClassifyCanaryApplying(tg, canary, timedOut).who \in SUBSET Members
  BY <1>1 DEF ClassifyCanaryApplying, Directive
<1>5. ClassifyCanaryHealthy(tg, canary, timedOut, observed).who \in SUBSET Members
  BY <1>1 DEF ClassifyCanaryHealthy, Directive
<1>6. ClassifyExpanding(tg, timedOut).who \in SUBSET Members
  BY <1>1 DEF ClassifyExpanding, Directive
<1>7. ClassifyInexact(st, tg, timedOut).who \in SUBSET Members
  BY <1>1 DEF ClassifyInexact, Directive
<1> QED
  BY <1>2, <1>3, <1>4, <1>5, <1>6, <1>7 DEF Classify, Directive

LEMMA AdmitTypeOK ==
  ASSUME TypeOK, NEW m \in Members, NEW r \in Requests, Admit(m, r)
  PROVE  TypeOK'
  BY ConstantsAssumption
  DEF Admit, TypeOK, ProcessRecord, ClaimedMutation, AbsentMutation, MutationRow, Revisions,
      MutationStates, Active

LEMMA ReadsTypeOK ==
  ASSUME TypeOK, NEW m \in Members, NEW r \in Requests, CoordinatorReads(m, r)
  PROVE  TypeOK'
<1> DEFINE d == Classify(mut[r].st, tgt[r], TRUE, mut[r].age = "expired", mut[r].age # "fresh",
                         CanaryOf[r])
           plan == PlanFor(mut[r].st, tgt[r], d)
           rows == [x \in Members |-> IF x \in plan.who THEN tgt[r][x] ELSE FreshTarget]
           rec == [IdleCoordinator EXCEPT
                     !.at = "read", !.req = r, !.st = mut[r].st, !.plan = plan,
                     !.fin = TerminalFor(mut[r].st, d), !.rows = rows]
<1>1. d.who \in SUBSET Members
  BY ConstantsAssumption, DirectiveTyped
<1>2. plan \in [next : {"keep"} \cup Active, to : TargetStates, who : SUBSET Members]
  BY <1>1, PlanTyped
<1>3. TerminalFor(mut[r].st, d) \in {"keep"} \cup Terminal
  BY TerminalTyped
<1> HIDE DEF d, plan
<1>4. rows \in [Members -> TargetRow]
  BY FreshTargetTyped DEF TypeOK
<1>5. mut[r].st \in MutationStates
  BY DEF TypeOK, MutationRow
<1> HIDE DEF rows
<1>6. rec \in CoordinatorRecord /\ rec.at = "read" /\ rec.req = r
  BY <1>2, <1>3, <1>4, <1>5, IdleCoordinatorTyped DEF CoordinatorRecord, IdleCoordinator
<1>7. co' = [co EXCEPT ![m] = rec]
  BY DEF CoordinatorReads, d, plan, rows
<1> HIDE DEF rec
<1> QED
  BY <1>6, <1>7 DEF CoordinatorReads, TypeOK

LEMMA AcquireTypeOK ==
  ASSUME TypeOK, NEW m \in Members, CoordinatorAcquires(m)
  PROVE  TypeOK'
<1> DEFINE r == co[m].req
           epoch == IF HoldsLease(m, r) THEN mut[r].epoch ELSE mut[r].epoch + 1
           row == [mut[r] EXCEPT !.owner = m, !.boot = proc[m].boot, !.epoch = epoch,
                                 !.live = TRUE]
           boots == [x \in Members |-> hb[x].boot]
           rec == [co[m] EXCEPT !.at = "fenced", !.epoch = epoch, !.ver = mut[r].ver,
                                !.boots = boots]
<1>1. r \in Requests /\ mut[r] \in MutationRow /\ proc[m] \in ProcessRecord
      /\ co[m] \in CoordinatorRecord
  BY DEF CoordinatorAcquires, TypeOK
<1>2. epoch \in Nat
  BY <1>1 DEF MutationRow
<1>3. boots \in [Members -> Nat]
  BY DEF TypeOK, HeartbeatRow
<1> HIDE DEF epoch, boots
<1>4. row \in MutationRow
  BY <1>1, <1>2 DEF MutationRow, ProcessRecord
<1>5. rec \in CoordinatorRecord /\ rec.req = r
  BY <1>1, <1>2, <1>3 DEF CoordinatorRecord, MutationRow
<1>6. /\ mut' = [mut EXCEPT ![r] = row]
      /\ co' = [co EXCEPT ![m] = IF IdleDecision(m) THEN IdleCoordinator ELSE rec]
  BY DEF CoordinatorAcquires, epoch, boots
<1>7. IdleCoordinator \in CoordinatorRecord /\ IdleCoordinator.at = "idle"
  BY IdleCoordinatorTyped DEF IdleCoordinator
<1> HIDE DEF row, rec
<1>8. mut' \in [Requests -> MutationRow]
  BY <1>1, <1>4, <1>6 DEF TypeOK
<1>9. co' \in [Members -> CoordinatorRecord] /\ \A x \in Members : co'[x].at # "idle" => co'[x].req \in Requests
  BY <1>1, <1>5, <1>6, <1>7 DEF TypeOK
<1> QED
  BY <1>8, <1>9 DEF CoordinatorAcquires, TypeOK

(* Row updates keep the shape of a row. *)
LEMMA AdvancedTyped ==
  ASSUME NEW row \in MutationRow, NEW next \in Active
  PROVE  AdvancedMutation(row, next) \in MutationRow
<1>1. row.ver + 1 \in Nat
  BY DEF MutationRow
<1>2. ASSUME NEW v \in Nat
      PROVE  [row EXCEPT !.st = next, !.ver = v, !.age = "fresh"] \in MutationRow
  BY DEF MutationRow, MutationStates
<1> QED
  BY <1>1, <1>2 DEF AdvancedMutation

LEMMA FinishedTyped ==
  ASSUME NEW row \in MutationRow, NEW fin \in Terminal
  PROVE  FinishedMutation(row, fin) \in MutationRow
<1>1. row.ver + 1 \in Nat
  BY DEF MutationRow
<1>2. ASSUME NEW v \in Nat
      PROVE  [row EXCEPT !.st = fin, !.ver = v, !.owner = None, !.boot = 0, !.live = FALSE,
                         !.age = "fresh"] \in MutationRow
  BY DEF MutationRow, MutationStates
<1> QED
  BY <1>1, <1>2 DEF FinishedMutation

LEMMA AssignedTyped ==
  ASSUME NEW row \in TargetRow, NEW to \in TargetStates, NEW epoch \in Nat
  PROVE  AssignedTarget(row, to, epoch) \in TargetRow
<1>1. row.ver + 1 \in Nat
  BY DEF TargetRow
<1>2. ASSUME NEW v \in Nat, NEW a \in Nat
      PROVE  [row EXCEPT !.st = to, !.ver = v, !.asg = a] \in TargetRow
  BY DEF TargetRow
<1>3. row.asg \in Nat
  BY DEF TargetRow
<1> QED
  BY <1>1, <1>2, <1>3 DEF AssignedTarget

LEMMA MovedTyped ==
  ASSUME NEW m \in Members, proc[m].boot \in Nat, NEW row \in TargetRow,
         NEW to \in TargetStates
  PROVE  MovedTarget(m, row, to) \in TargetRow
<1>1. row.ver + 1 \in Nat
  BY DEF TargetRow
<1>2. ASSUME NEW v \in Nat, NEW b \in Nat, NEW e \in BOOLEAN
      PROVE  [row EXCEPT !.st = to, !.ver = v, !.boot = b, !.eff = e] \in TargetRow
  BY DEF TargetRow
<1>3. (row.eff \/ to \in {"applying", "rolling_back"}) \in BOOLEAN
  OBVIOUS
<1> QED
  BY <1>1, <1>2, <1>3 DEF MovedTarget

LEMMA PlansTypeOK ==
  ASSUME TypeOK, NEW m \in Members, CoordinatorPlans(m)
  PROVE  TypeOK'
<1> DEFINE r == co[m].req
           plan == co[m].plan
           rows == [x \in Members |-> IF x \in plan.who
                                        THEN AssignedTarget(tgt[r][x], plan.to, co[m].epoch)
                                        ELSE tgt[r][x]]
<1>1. /\ r \in Requests /\ mut[r] \in MutationRow
      /\ tgt[r] \in [Members -> TargetRow]
      /\ co[m] \in CoordinatorRecord
  BY DEF CoordinatorPlans, TypeOK
<1>2. plan.to \in TargetStates /\ plan.next \in {"keep"} \cup Active /\ co[m].epoch \in Nat
  BY <1>1 DEF CoordinatorRecord
<1>3. \A x \in Members : AssignedTarget(tgt[r][x], plan.to, co[m].epoch) \in TargetRow
  BY <1>1, <1>2, AssignedTyped
<1>4. rows \in [Members -> TargetRow]
  BY <1>1, <1>3
<1>5. plan.next # "keep" =>
        AdvancedMutation(mut[r], plan.next) \in MutationRow
  BY <1>1, <1>2, AdvancedTyped
<1>6. tgt' = [tgt EXCEPT ![r] = rows]
  BY DEF CoordinatorPlans
<1>7. mut' = IF plan.next = "keep" THEN mut
             ELSE [mut EXCEPT ![r] = AdvancedMutation(mut[r], plan.next)]
  BY DEF CoordinatorPlans
<1>8. co' = [co EXCEPT ![m] = IdleCoordinator]
  BY DEF CoordinatorPlans
<1>9. IdleCoordinator \in CoordinatorRecord /\ IdleCoordinator.at = "idle"
  BY IdleCoordinatorTyped DEF IdleCoordinator
<1> HIDE DEF rows
<1>10. tgt' \in [Requests -> [Members -> TargetRow]]
  BY <1>1, <1>4, <1>6 DEF TypeOK
<1>11. mut' \in [Requests -> MutationRow]
  BY <1>1, <1>5, <1>7 DEF TypeOK
<1>12. /\ co' \in [Members -> CoordinatorRecord]
       /\ \A x \in Members : co'[x].at # "idle" => co'[x].req \in Requests
  BY <1>8, <1>9 DEF TypeOK
<1> QED
  BY <1>10, <1>11, <1>12 DEF CoordinatorPlans, TypeOK

LEMMA FinishesTypeOK ==
  ASSUME TypeOK, NEW m \in Members, CoordinatorFinishes(m)
  PROVE  TypeOK'
<1> DEFINE r == co[m].req
           fin == co[m].fin
           row == FinishedMutation(mut[r], fin)
<1>1. r \in Requests /\ mut[r] \in MutationRow /\ co[m] \in CoordinatorRecord
  BY DEF CoordinatorFinishes, TypeOK
<1>2. fin \in Terminal
  BY <1>1 DEF CoordinatorFinishes, CoordinatorRecord
<1>3. row \in MutationRow
  BY <1>1, <1>2, FinishedTyped
<1>4. mut' = [mut EXCEPT ![r] = row] /\ co' = [co EXCEPT ![m] = IdleCoordinator]
  BY DEF CoordinatorFinishes
<1>5. IdleCoordinator \in CoordinatorRecord /\ IdleCoordinator.at = "idle"
  BY IdleCoordinatorTyped DEF IdleCoordinator
<1> HIDE DEF row
<1>6. mut' \in [Requests -> MutationRow]
  BY <1>1, <1>3, <1>4 DEF TypeOK
<1>7. /\ co' \in [Members -> CoordinatorRecord]
      /\ \A x \in Members : co'[x].at # "idle" => co'[x].req \in Requests
  BY <1>4, <1>5 DEF TypeOK
<1>8. committed' \in Revisions /\ pending' \in Requests \cup {None}
  BY <1>1 DEF CoordinatorFinishes, TypeOK, Revisions
<1> QED
  BY <1>6, <1>7, <1>8 DEF CoordinatorFinishes, TypeOK

LEMMA CoordinatorFailsTypeOK ==
  ASSUME TypeOK, NEW m \in Members, CoordinatorFails(m)
  PROVE  TypeOK'
<1>1. IdleCoordinator \in CoordinatorRecord /\ IdleCoordinator.at = "idle"
  BY IdleCoordinatorTyped DEF IdleCoordinator
<1>2. co' = [co EXCEPT ![m] = IdleCoordinator]
  BY DEF CoordinatorFails
<1> QED
  BY <1>1, <1>2 DEF CoordinatorFails, TypeOK, store

(* The building blocks of the member worker's actions. *)
WorkersTyped ==
  /\ wk \in [Members -> WorkerRecord]
  /\ \A m \in Members : wk[m].at \in WorkSteps => wk[m].req \in Requests

LEMMA WorkerTyped ==
  ASSUME TypeOK, NEW m \in Members, NEW step \in WorkerSteps, Worker(m, step),
         wk[m].at \in WorkSteps \/ step \notin WorkSteps
  PROVE  WorkersTyped'
<1>1. wk[m] \in WorkerRecord
  BY DEF TypeOK
<1>2. [wk[m] EXCEPT !.at = step] \in WorkerRecord
  BY <1>1 DEF WorkerRecord
<1>3. wk' = [wk EXCEPT ![m] = [wk[m] EXCEPT !.at = step]]
  BY <1>1 DEF Worker, TypeOK
<1> QED
  BY <1>1, <1>2, <1>3 DEF TypeOK, WorkersTyped, WorkerRecord

LEMMA WorkerIsTyped ==
  ASSUME TypeOK, NEW m \in Members, NEW step \in WorkerSteps \ WorkSteps, WorkerIs(m, step)
  PROVE  WorkersTyped'
<1>1. IdleWorker(step) \in WorkerRecord /\ IdleWorker(step).at = step
  BY IdleWorkerTyped DEF IdleWorker
<1>2. wk' = [wk EXCEPT ![m] = IdleWorker(step)]
  BY DEF WorkerIs
<1> QED
  BY <1>1, <1>2 DEF TypeOK, WorkersTyped

LEMMA TransitionTyped ==
  ASSUME TypeOK, NEW m \in Members, NEW r \in Requests, NEW row, NEW to \in TargetStates,
         TransitionTarget(m, r, row, to)
  PROVE  /\ tgt' \in [Requests -> [Members -> TargetRow]]
         /\ MovedTarget(m, tgt[r][m], to) \in TargetRow
<1>1. tgt[r] \in [Members -> TargetRow] /\ tgt[r][m] \in TargetRow /\ proc[m] \in ProcessRecord
  BY DEF TypeOK
<1>2. MovedTarget(m, tgt[r][m], to) \in TargetRow
  BY <1>1, MovedTyped DEF ProcessRecord
<1>3. tgt' = [tgt EXCEPT ![r] = [tgt[r] EXCEPT ![m] = MovedTarget(m, tgt[r][m], to)]]
  BY <1>1 DEF TransitionTarget, TypeOK
<1> QED
  BY <1>1, <1>2, <1>3 DEF TypeOK

LEMMA HeadTyped ==
  ASSUME TypeOK, NEW m \in Members, NEW rev \in Revisions, NEW ready \in BOOLEAN,
         PublishHead(m, rev, ready)
  PROVE  head' \in [Members -> HeadRow]
<1>1. [boot |-> proc[m].boot, rev |-> rev, ready |-> ready] \in HeadRow
  BY DEF TypeOK, ProcessRecord, HeadRow
<1> QED
  BY <1>1 DEF PublishHead, TypeOK

LEMMA InstalledTyped ==
  ASSUME NEW p \in ProcessRecord, NEW rev \in Revisions
  PROVE  Installed(p, rev) \in ProcessRecord
<1>1. p.etag + 1 \in Nat
  BY DEF ProcessRecord
<1>2. ASSUME NEW v \in Nat
      PROVE  [p EXCEPT !.active = rev, !.slot = p.active, !.etag = v] \in ProcessRecord
  BY DEF ProcessRecord
<1> QED
  BY <1>1, <1>2 DEF Installed

LEMMA SwappedTyped ==
  ASSUME NEW p \in ProcessRecord, p.slot # None
  PROVE  SwappedBack(p) \in ProcessRecord
<1>1. p.etag + 1 \in Nat
  BY DEF ProcessRecord
<1>2. ASSUME NEW v \in Nat
      PROVE  [p EXCEPT !.active = p.slot, !.slot = p.active, !.etag = v] \in ProcessRecord
  BY DEF ProcessRecord
<1> QED
  BY <1>1, <1>2 DEF SwappedBack

(* Every action of the member worker. *)
LEMMA MemberLoopTypeOK ==
  ASSUME TypeOK, NEW m \in Members, MemberLoop(m)
  PROVE  TypeOK'
<1> DEFINE r == wk[m].req
<1>1. /\ wk[m] \in WorkerRecord /\ proc[m] \in ProcessRecord
      /\ wk[m].at \in WorkSteps => r \in Requests
  BY DEF TypeOK
<1>2. ASSUME NEW q \in Requests, LoadWork(m, q) PROVE TypeOK'
  <2> DEFINE rec == [at |-> IF tgt[q][m].st = "rolling_back" THEN "rollback_assigned"
                                                             ELSE tgt[q][m].st,
                     req |-> q, row |-> tgt[q][m]]
             rec2 == IF "scan" \in Repairs THEN rec ELSE IdleWorker("start")
  <2>1. tgt[q][m] \in TargetRow /\ tgt[q][m].st \in WorkStates
    BY <1>2 DEF LoadWork, HasWork, TypeOK
  <2>2. rec \in WorkerRecord /\ rec.req \in Requests
    BY <2>1 DEF WorkStates, WorkerRecord, WorkerSteps
  <2>3. IdleWorker("start") \in WorkerRecord /\ IdleWorker("start").at \notin WorkSteps
    BY IdleWorkerTyped DEF IdleWorker, WorkerSteps, WorkSteps
  <2> HIDE DEF rec
  <2>4. rec2 \in WorkerRecord /\ (rec2.at \in WorkSteps => rec2.req \in Requests)
    BY <2>2, <2>3
  <2>5. wk' = [wk EXCEPT ![m] = rec2]
    BY <1>2 DEF LoadWork, rec
  <2> HIDE DEF rec2
  <2>6. WorkersTyped'
    BY <2>4, <2>5 DEF TypeOK, WorkersTyped
  <2> QED BY <1>2, <2>6 DEF LoadWork, TypeOK, WorkersTyped, store
<1>3. CASE Validate(m)
  <2>1. r \in Requests
    BY <1>1, <1>3 DEF Validate, WorkSteps, WorkerSteps
  <2>2. tgt' \in [Requests -> [Members -> TargetRow]]
    BY <1>3, <2>1, TransitionTyped DEF Validate, TargetStates
  <2>3. WorkersTyped'
    BY <1>3, WorkerIsTyped DEF Validate, WorkerSteps, WorkSteps
  <2> QED BY <1>3, <2>2, <2>3 DEF Validate, TypeOK, WorkersTyped
<1>4. CASE WriteCheckpoint(m)
  <2>1. r \in Requests /\ ckpt[r] \in [Members -> Nat] /\ wk[m].row.asg \in Nat
    BY <1>1, <1>4 DEF WriteCheckpoint, WorkSteps, WorkerSteps, TypeOK, WorkerRecord, TargetRow
  <2>2. ckpt' = [ckpt EXCEPT ![r] = [ckpt[r] EXCEPT ![m] = wk[m].row.asg]]
    BY <1>4, <2>1 DEF WriteCheckpoint, TypeOK
  <2>3. ckpt' \in [Requests -> [Members -> Nat]]
    BY <2>1, <2>2 DEF TypeOK
  <2>4. WorkersTyped'
    BY <1>4, WorkerTyped DEF WriteCheckpoint, WorkerSteps, WorkSteps
  <2> QED BY <1>4, <2>3, <2>4 DEF WriteCheckpoint, TypeOK, WorkersTyped
<1>5. CASE PublishUnready(m)
  <2>1. r \in Requests
    BY <1>1, <1>5 DEF PublishUnready, WorkSteps, WorkerSteps
  <2>2. head' \in [Members -> HeadRow]
    BY <1>5, <2>1, HeadTyped DEF PublishUnready, TypeOK, MutationRow
  <2>3. WorkersTyped'
    BY <1>5, WorkerTyped DEF PublishUnready, WorkerSteps, WorkSteps
  <2> QED BY <1>5, <2>2, <2>3 DEF PublishUnready, TypeOK, WorkersTyped
<1>6. CASE MarkApplying(m)
  <2>1. r \in Requests
    BY <1>1, <1>6 DEF MarkApplying, WorkSteps, WorkerSteps
  <2>2. tgt' \in [Requests -> [Members -> TargetRow]]
    BY <1>6, <2>1, TransitionTyped DEF MarkApplying, TargetStates
  <2>3. WorkersTyped'
    BY <1>6, WorkerTyped DEF MarkApplying, WorkerSteps, WorkSteps
  <2> QED BY <1>6, <2>2, <2>3 DEF MarkApplying, TypeOK, WorkersTyped
<1>7. CASE ApplyCandidate(m)
  <2>1. r \in Requests
    BY <1>1, <1>7 DEF ApplyCandidate, WorkSteps, WorkerSteps
  <2>2. Installed(proc[m], r) \in ProcessRecord
    BY <1>1, <2>1, InstalledTyped DEF Revisions
  <2>3. proc' \in [Members -> ProcessRecord]
    BY <1>7, <2>2 DEF ApplyCandidate, TypeOK
  <2>4. WorkersTyped'
    BY <1>7, WorkerTyped DEF ApplyCandidate, WorkerSteps, WorkSteps
  <2> QED BY <1>7, <2>3, <2>4 DEF ApplyCandidate, TypeOK, WorkersTyped, store
<1>8. CASE PublishApplied(m)
  <2>1. r \in Revisions
    BY <1>1, <1>8 DEF PublishApplied, WorkSteps, WorkerSteps, Revisions
  <2>2. head' \in [Members -> HeadRow]
    BY <1>8, <2>1, HeadTyped DEF PublishApplied
  <2>3. WorkersTyped'
    BY <1>8, WorkerTyped DEF PublishApplied, WorkerSteps, WorkSteps
  <2> QED BY <1>8, <2>2, <2>3 DEF PublishApplied, TypeOK, WorkersTyped
<1>9. CASE Report(m)
  <2>1. r \in Requests
    BY <1>1, <1>9 DEF Report, WorkSteps, WorkerSteps
  <2>2. tgt' \in [Requests -> [Members -> TargetRow]]
    BY <1>9, <2>1, TransitionTyped DEF Report, TargetStates
  <2>3. WorkersTyped'
    BY <1>9, WorkerIsTyped DEF Report, WorkerSteps, WorkSteps
  <2> QED BY <1>9, <2>2, <2>3 DEF Report, TypeOK, WorkersTyped
<1>10. CASE RecoverApplying(m)
  <2>1. r \in Requests
    BY <1>1, <1>10 DEF RecoverApplying, WorkSteps, WorkerSteps
  <2>2. tgt' \in [Requests -> [Members -> TargetRow]]
    BY <1>10, <2>1, TransitionTyped DEF RecoverApplying, TargetStates
  <2>3. WorkersTyped'
    BY <1>10, WorkerIsTyped DEF RecoverApplying, WorkerSteps, WorkSteps
  <2> QED BY <1>10, <2>2, <2>3 DEF RecoverApplying, TypeOK, WorkersTyped
<1>11. CASE BeginRollback(m)
  <2>1. r \in Requests /\ wk[m].at \in WorkSteps
    BY <1>1, <1>11 DEF BeginRollback, WorkSteps, WorkerSteps
  <2>2. CASE wk[m].row.st = "rollback_assigned"
    <3> DEFINE row == MovedTarget(m, tgt[r][m], "rolling_back")
    <3>1. /\ tgt' \in [Requests -> [Members -> TargetRow]]
          /\ row \in TargetRow
      BY <1>11, <2>1, <2>2, TransitionTyped DEF BeginRollback, TargetStates
    <3>2. wk' = [wk EXCEPT ![m] = [wk[m] EXCEPT !.at = "rolling_back", !.row = row]]
      BY <1>11, <2>2 DEF BeginRollback
    <3> HIDE DEF row
    <3>3. [wk[m] EXCEPT !.at = "rolling_back", !.row = row] \in WorkerRecord
      BY <1>1, <3>1 DEF WorkerRecord, WorkerSteps
    <3>4. WorkersTyped'
      BY <1>1, <2>1, <3>2, <3>3 DEF WorkersTyped, TypeOK, WorkerRecord
    <3> QED BY <1>11, <3>1, <3>4 DEF BeginRollback, TypeOK, WorkersTyped
  <2>3. CASE wk[m].row.st # "rollback_assigned"
    <3>1. WorkersTyped' /\ UNCHANGED tgt
      BY <1>11, <2>1, <2>3, WorkerTyped DEF BeginRollback, WorkerSteps
    <3> QED BY <1>11, <3>1 DEF BeginRollback, TypeOK, WorkersTyped
  <2> QED BY <2>2, <2>3
<1>12. CASE Restore(m)
  <2>1. proc[m].slot # None => SwappedBack(proc[m]) \in ProcessRecord
    BY <1>1, SwappedTyped DEF ProcessRecord
  <2>2. proc' \in [Members -> ProcessRecord]
    BY <1>12, <2>1 DEF Restore, TypeOK
  <2>3. WorkersTyped'
    BY <1>12, WorkerTyped DEF Restore, WorkerSteps, WorkSteps
  <2> QED BY <1>12, <2>2, <2>3 DEF Restore, TypeOK, WorkersTyped, store
<1>13. CASE PublishRestored(m)
  <2>1. r \in Requests
    BY <1>1, <1>13 DEF PublishRestored, WorkSteps, WorkerSteps
  <2>2. head' \in [Members -> HeadRow]
    BY <1>13, <2>1, HeadTyped DEF PublishRestored, TypeOK, MutationRow
  <2>3. WorkersTyped'
    BY <1>13, WorkerTyped DEF PublishRestored, WorkerSteps, WorkSteps
  <2> QED BY <1>13, <2>2, <2>3 DEF PublishRestored, TypeOK, WorkersTyped
<1>14. CASE EndRollback(m)
  <2>1. r \in Requests /\ wk[m].at \in TargetStates
    BY <1>1, <1>14 DEF EndRollback, WorkSteps, WorkerSteps, TargetStates
  <2>2. tgt' \in [Requests -> [Members -> TargetRow]]
    BY <1>14, <2>1, TransitionTyped DEF EndRollback
  <2>3. WorkersTyped'
    BY <1>14, WorkerIsTyped DEF EndRollback, WorkerSteps, WorkSteps
  <2> QED BY <1>14, <2>2, <2>3 DEF EndRollback, TypeOK, WorkersTyped
<1>15. CASE WorkerFails(m) \/ ScanFails(m) \/ StartFails(m)
  <2>1. WorkersTyped'
    BY <1>15, WorkerIsTyped DEF WorkerFails, ScanFails, StartFails, WorkerSteps, WorkSteps
  <2> QED BY <1>15, <2>1 DEF WorkerFails, ScanFails, StartFails, TypeOK, WorkersTyped, store
<1>16. CASE StartPublish(m)
  <2>1. head' \in [Members -> HeadRow]
    BY <1>16, HeadTyped DEF StartPublish, Revisions
  <2>2. WorkersTyped'
    BY <1>16, WorkerTyped DEF StartPublish, WorkerSteps, WorkSteps
  <2> QED BY <1>16, <2>1, <2>2 DEF StartPublish, TypeOK, WorkersTyped
<1>17. CASE StartReady(m)
  <2>1. hb' \in [Members -> HeartbeatRow]
    BY <1>17 DEF StartReady, TypeOK, HeartbeatRow
  <2>2. WorkersTyped'
    BY <1>17, WorkerTyped DEF StartReady, WorkerSteps, WorkSteps
  <2> QED BY <1>17, <2>1, <2>2 DEF StartReady, TypeOK, WorkersTyped
<1>18. CASE Converge(m)
  <2>1. head' \in [Members -> HeadRow]
    BY <1>18, HeadTyped DEF Converge, TypeOK
  <2>2. WorkersTyped'
    BY <1>18, WorkerTyped DEF Converge, WorkerSteps, WorkSteps
  <2> QED BY <1>18, <2>1, <2>2 DEF Converge, TypeOK, WorkersTyped
<1>19. CASE ConvergeApply(m)
  <2>1. Installed(proc[m], committed) \in ProcessRecord
    BY <1>1, InstalledTyped DEF TypeOK
  <2>2. proc' \in [Members -> ProcessRecord]
    BY <1>19, <2>1 DEF ConvergeApply, TypeOK
  <2> QED BY <1>19, <2>2 DEF ConvergeApply, TypeOK, store
<1> QED
  BY <1>2, <1>3, <1>4, <1>5, <1>6, <1>7, <1>8, <1>9, <1>10, <1>11, <1>12, <1>13, <1>14, <1>15,
     <1>16, <1>17, <1>18, <1>19 DEF MemberLoop

LEMMA ProcessTypeOK ==
  ASSUME TypeOK, NEW m \in Members, Process(m)
  PROVE  TypeOK'
<1>1. hb[m] \in HeartbeatRow /\ proc[m] \in ProcessRecord
  BY DEF TypeOK
<1>2. ASSUME Down(m)
      PROVE  /\ proc' \in [Members -> ProcessRecord] /\ WorkersTyped'
             /\ co' \in [Members -> CoordinatorRecord]
             /\ \A x \in Members : co'[x].at # "idle" => co'[x].req \in Requests
  <2>1. proc' \in [Members -> ProcessRecord]
    BY <1>2 DEF Down, TypeOK, ProcessRecord
  <2>2. WorkersTyped'
    BY <1>2, WorkerIsTyped DEF Down, WorkerIs, WorkerSteps, WorkSteps
  <2>3. IdleCoordinator \in CoordinatorRecord /\ IdleCoordinator.at = "idle"
    BY IdleCoordinatorTyped DEF IdleCoordinator
  <2>4. co' = [co EXCEPT ![m] = IdleCoordinator]
    BY <1>2 DEF Down
  <2> QED BY <2>1, <2>2, <2>3, <2>4 DEF TypeOK
<1>3. CASE Crash(m)
  BY <1>2, <1>3 DEF Crash, TypeOK, WorkersTyped, store
<1>4. CASE Shutdown(m)
  <2>1. hb' \in [Members -> HeartbeatRow]
    BY <1>4 DEF Shutdown, TypeOK, HeartbeatRow
  <2> QED BY <1>2, <1>4, <2>1 DEF Shutdown, TypeOK, WorkersTyped
<1>5. CASE Boot(m)
  <2>1. hb[m].boot + 1 \in Nat
    BY <1>1 DEF HeartbeatRow
  <2>2. ASSUME NEW b \in Nat
        PROVE  /\ [boot |-> b, ready |-> FALSE, live |-> TRUE] \in HeartbeatRow
               /\ [up |-> TRUE, boot |-> b, active |-> Base, slot |-> None, etag |-> 1]
                    \in ProcessRecord
    BY DEF HeartbeatRow, ProcessRecord, Revisions
  <2>3. /\ hb' = [hb EXCEPT ![m] = [boot |-> hb[m].boot + 1, ready |-> FALSE, live |-> TRUE]]
        /\ proc' = [proc EXCEPT ![m] = [up |-> TRUE, boot |-> hb[m].boot + 1, active |-> Base,
                                        slot |-> None, etag |-> 1]]
    BY <1>5 DEF Boot
  <2>4. hb' \in [Members -> HeartbeatRow] /\ proc' \in [Members -> ProcessRecord]
    BY <2>1, <2>2, <2>3 DEF TypeOK
  <2>5. WorkersTyped'
    BY <1>5, WorkerIsTyped DEF Boot, WorkerIs, WorkerSteps, WorkSteps
  <2> QED BY <1>5, <2>4, <2>5 DEF Boot, TypeOK, WorkersTyped
<1>6. CASE LoseHeartbeat(m)
  BY <1>6 DEF LoseHeartbeat, TypeOK, HeartbeatRow
<1>7. CASE Heartbeat(m)
  BY <1>7 DEF Heartbeat, TypeOK, HeartbeatRow
<1> QED
  BY <1>3, <1>4, <1>5, <1>6, <1>7 DEF Process

(* A clock changes the lease or the age of one row. *)
LEMMA ClockStep ==
  ASSUME TypeOK, NEW r \in Requests, ExpireLease(r) \/ Age(r)
  PROVE  \E row \in MutationRow :
           /\ mut' = [mut EXCEPT ![r] = row]
           /\ row.st = mut[r].st /\ row.prior = mut[r].prior
<1>1. mut[r] \in MutationRow
  BY DEF TypeOK
<1>2. /\ [mut[r] EXCEPT !.live = FALSE] \in MutationRow
      /\ \A a \in {"observed", "expired"} : [mut[r] EXCEPT !.age = a] \in MutationRow
  BY <1>1 DEF MutationRow
<1>3. CASE ExpireLease(r)
  <2>1. mut' = [mut EXCEPT ![r] = [mut[r] EXCEPT !.live = FALSE]]
    BY <1>3 DEF ExpireLease, TypeOK
  <2> QED BY <1>1, <1>2, <2>1 DEF MutationRow
<1>4. CASE Age(r)
  <2>1. PICK a \in {"observed", "expired"} : mut' = [mut EXCEPT ![r] = [mut[r] EXCEPT !.age = a]]
    BY <1>4 DEF Age, TypeOK
  <2> QED BY <1>1, <1>2, <2>1 DEF MutationRow
<1> QED
  BY <1>3, <1>4

LEMMA ClockTypeOK ==
  ASSUME TypeOK, NEW r \in Requests, ExpireLease(r) \/ Age(r)
  PROVE  TypeOK'
<1>1. mut' \in [Requests -> MutationRow]
  BY ClockStep DEF TypeOK
<1> QED
  BY <1>1 DEF ExpireLease, Age, TypeOK

LEMMA NextTypeOK == TypeOK /\ [Next]_vars => TypeOK'
<1> SUFFICES ASSUME TypeOK, [Next]_vars PROVE TypeOK'
  OBVIOUS
<1>1. ASSUME NEW m \in Members, NEW r \in Requests, Admit(m, r) PROVE TypeOK'
  BY <1>1, AdmitTypeOK
<1>2. ASSUME NEW m \in Members, Coordinator(m) PROVE TypeOK'
  BY <1>2, ReadsTypeOK, AcquireTypeOK, PlansTypeOK, FinishesTypeOK, CoordinatorFailsTypeOK
  DEF Coordinator
<1>3. ASSUME NEW m \in Members, MemberLoop(m) PROVE TypeOK'
  BY <1>3, MemberLoopTypeOK
<1>4. ASSUME NEW m \in Members, Process(m) PROVE TypeOK'
  BY <1>4, ProcessTypeOK
<1>5. ASSUME NEW r \in Requests, ExpireLease(r) \/ Age(r) PROVE TypeOK'
  BY <1>5, ClockTypeOK
<1>6. CASE UNCHANGED vars
  BY <1>6 DEF vars, TypeOK
<1> QED
  BY <1>1, <1>2, <1>3, <1>4, <1>5, <1>6 DEF Next

(* The type invariant holds for every membership and every bound: in particular
   no process ever runs "no snapshot", whatever rollbacks are attempted, and a
   busy worker or coordinator always has the request it is working on
   (apply_config_rollback, process_member_work, reconcile).                  *)
THEOREM TypeCorrect == Spec => []TypeOK
<1> QED
  BY InitTypeOK, NextTypeOK, PTL DEF Spec

-------------------------------------------------------------------------------
(* The reservation.  Only admission, plans and finishing move a mutation between
   states; everything else leaves state and previous revision alone.         *)

MutationStep(r) ==
  \/ \E m \in Members : Admit(m, r)
  \/ \E m \in Members : co[m].req = r /\ (CoordinatorPlans(m) \/ CoordinatorFinishes(m))

LEMMA LedgerQuiet ==
  ASSUME TypeOK, [Next]_vars, \A q \in Requests : ~MutationStep(q)
  PROVE  /\ committed' = committed /\ pending' = pending
         /\ \A q \in Requests : mut'[q].st = mut[q].st /\ mut'[q].prior = mut[q].prior
<1>1. ASSUME NEW m \in Members, NEW r \in Requests, Admit(m, r) PROVE FALSE
  BY <1>1 DEF MutationStep
<1>2. ASSUME NEW m \in Members, NEW r \in Requests, CoordinatorReads(m, r)
      PROVE  UNCHANGED <<committed, pending, mut>>
  BY <1>2 DEF CoordinatorReads
<1>3. ASSUME NEW m \in Members, CoordinatorAcquires(m)
      PROVE  /\ UNCHANGED <<committed, pending>>
             /\ \A q \in Requests : mut'[q].st = mut[q].st /\ mut'[q].prior = mut[q].prior
  BY <1>3 DEF CoordinatorAcquires, TypeOK, MutationRow
<1>4. ASSUME NEW m \in Members, CoordinatorPlans(m) \/ CoordinatorFinishes(m) PROVE FALSE
  BY <1>4 DEF MutationStep, CoordinatorPlans, CoordinatorFinishes, TypeOK
<1>5. ASSUME NEW m \in Members, CoordinatorFails(m)
      PROVE  UNCHANGED <<committed, pending, mut>>
  BY <1>5 DEF CoordinatorFails, store
<1>6. ASSUME NEW m \in Members, MemberLoop(m) PROVE UNCHANGED <<committed, pending, mut>>
  BY <1>6
  DEF MemberLoop, LoadWork, Validate, WriteCheckpoint, PublishUnready, MarkApplying,
      ApplyCandidate, PublishApplied, Report, RecoverApplying, BeginRollback, Restore,
      PublishRestored, EndRollback, WorkerFails, ScanFails, StartPublish, StartReady, Converge,
      ConvergeApply, StartFails, store
<1>7. ASSUME NEW m \in Members, Process(m) PROVE UNCHANGED <<committed, pending, mut>>
  BY <1>7 DEF Process, Crash, Shutdown, Boot, LoseHeartbeat, Heartbeat, store
<1>8. ASSUME NEW r \in Requests, ExpireLease(r) \/ Age(r)
      PROVE  /\ UNCHANGED <<committed, pending>>
             /\ \A q \in Requests : mut'[q].st = mut[q].st /\ mut'[q].prior = mut[q].prior
  BY <1>8, ClockStep DEF ExpireLease, Age, TypeOK
<1>9. CASE UNCHANGED vars
  BY <1>9 DEF vars
<1> QED
  BY <1>1, <1>2, <1>3, <1>4, <1>5, <1>6, <1>7, <1>8, <1>9 DEF Next, Coordinator

(* Only active mutations may move (may_transition_to). *)
LEMMA EdgesFromActive ==
  ASSUME NEW s \in MutationStates, NEW next \in MutationEdges[s]
  PROVE  s \in Active
<1>1. s \in {"absent"} \cup Terminal => MutationEdges[s] = {}
  BY DEF MutationEdges, Terminal
<1> QED
  BY <1>1 DEF MutationStates

LEMMA PlanStep ==
  ASSUME TypeOK, NEW m \in Members, CoordinatorPlans(m)
  PROVE  LET r == co[m].req
         IN  /\ r \in Requests
             /\ committed' = committed /\ pending' = pending
             /\ \A q \in Requests : mut'[q].prior = mut[q].prior
             /\ \A q \in Requests \ {r} : mut'[q].st = mut[q].st
             /\ \/ mut'[r].st = mut[r].st
                \/ mut[r].st \in Active /\ mut'[r].st \in Active
<1> DEFINE r == co[m].req
           next == co[m].plan.next
<1>1. /\ r \in Requests /\ mut[r] \in MutationRow /\ co[m] \in CoordinatorRecord
      /\ mut \in [Requests -> MutationRow]
  BY DEF CoordinatorPlans, TypeOK
<1>2. next \in {"keep"} \cup Active
  BY <1>1 DEF CoordinatorRecord
<1>3. next # "keep" => mut[r].st \in Active
  BY <1>1, EdgesFromActive DEF CoordinatorPlans, PlanFence, MutationRow
<1>4. mut' = IF next = "keep" THEN mut ELSE [mut EXCEPT ![r] = AdvancedMutation(mut[r], next)]
  BY DEF CoordinatorPlans
<1>5. AdvancedMutation(mut[r], next).prior = mut[r].prior /\ AdvancedMutation(mut[r], next).st = next
  BY <1>1 DEF AdvancedMutation, MutationRow
<1> HIDE DEF next
<1>6. \A q \in Requests : mut'[q].prior = mut[q].prior
  BY <1>1, <1>4, <1>5
<1>7. \A q \in Requests \ {r} : mut'[q].st = mut[q].st
  BY <1>1, <1>4
<1>8. mut'[r].st = mut[r].st \/ (mut[r].st \in Active /\ mut'[r].st \in Active)
  BY <1>1, <1>2, <1>3, <1>4, <1>5
<1>9. committed' = committed /\ pending' = pending
  BY DEF CoordinatorPlans
<1> QED
  BY <1>1, <1>6, <1>7, <1>8, <1>9

LEMMA FinishStep ==
  ASSUME TypeOK, NEW m \in Members, CoordinatorFinishes(m)
  PROVE  LET r == co[m].req
             fin == co[m].fin
         IN  /\ r \in Requests /\ fin \in Terminal
             /\ committed' = IF fin = "committed" THEN r ELSE committed
             /\ pending' = IF fin \in BlocksResource THEN pending ELSE None
             /\ fin = "committed" => committed = mut[r].prior
             /\ \A q \in Requests : mut'[q].prior = mut[q].prior
             /\ \A q \in Requests \ {r} : mut'[q].st = mut[q].st
             /\ mut[r].st \in Active /\ mut'[r].st = fin
<1> DEFINE r == co[m].req
           fin == co[m].fin
<1>1. /\ r \in Requests /\ mut[r] \in MutationRow /\ co[m] \in CoordinatorRecord
      /\ mut \in [Requests -> MutationRow]
  BY DEF CoordinatorFinishes, TypeOK
<1>2. fin \in Terminal
  BY <1>1 DEF CoordinatorFinishes, CoordinatorRecord
<1>3. mut[r].st \in Active
  BY <1>1, EdgesFromActive DEF CoordinatorFinishes, FinishFence, MutationRow
<1>4. mut' = [mut EXCEPT ![r] = FinishedMutation(mut[r], fin)]
  BY DEF CoordinatorFinishes
<1>5. FinishedMutation(mut[r], fin).prior = mut[r].prior /\ FinishedMutation(mut[r], fin).st = fin
  BY <1>1 DEF FinishedMutation, MutationRow
<1>6. /\ committed' = IF fin = "committed" THEN r ELSE committed
      /\ pending' = IF fin \in BlocksResource THEN pending ELSE None
      /\ fin = "committed" => committed = mut[r].prior
  BY DEF CoordinatorFinishes, FinishFence
<1> HIDE DEF fin
<1>7. /\ \A q \in Requests : mut'[q].prior = mut[q].prior
      /\ \A q \in Requests \ {r} : mut'[q].st = mut[q].st
      /\ mut'[r].st = fin
  BY <1>1, <1>4, <1>5
<1> QED
  BY <1>1, <1>2, <1>3, <1>6, <1>7 DEF fin

LEMMA AdmitStep ==
  ASSUME TypeOK, NEW m \in Members, NEW r \in Requests, Admit(m, r)
  PROVE  /\ mut[r].st = "absent" /\ pending = None
         /\ committed' = committed /\ pending' = r
         /\ \A q \in Requests \ {r} : mut'[q] = mut[q]
         /\ mut'[r].st = "claimed" /\ mut'[r].prior = committed
  BY DEF Admit, TypeOK, ClaimedMutation, AbsentMutation

LEMMA ReservationInductive == TypeOK /\ ReservationExact /\ [Next]_vars => ReservationExact'
<1> SUFFICES ASSUME TypeOK, ReservationExact, [Next]_vars PROVE ReservationExact'
  OBVIOUS
<1> USE ConstantsAssumption DEF ReservationExact
<1>1. ASSUME NEW m \in Members, NEW r \in Requests, Admit(m, r) PROVE ReservationExact'
  BY <1>1, AdmitStep DEF Active, BlocksResource
<1>2. ASSUME NEW m \in Members, CoordinatorPlans(m) PROVE ReservationExact'
  BY <1>2, PlanStep
<1>3. ASSUME NEW m \in Members, CoordinatorFinishes(m) PROVE ReservationExact'
  <2>1. co[m].fin \notin Active
    BY <1>3, FinishStep DEF Terminal, Active
  <2>2. pending = co[m].req
    BY <1>3, FinishStep
  <2> QED BY <1>3, <2>1, <2>2, FinishStep
<1>4. CASE \A q \in Requests : ~MutationStep(q)
  BY <1>4, LedgerQuiet
<1> QED
  BY <1>1, <1>2, <1>3, <1>4 DEF MutationStep

(* For every cluster and under every fault: the resource's reservation names
   exactly the request in flight or the one that blocks it, so claims exclude
   each other (claim_tx_with_mode, finish_tx_inner).                         *)
THEOREM Reservation == Spec => []ReservationExact
<1>1. Init => ReservationExact
  BY ConstantsAssumption DEF Init, ReservationExact, AbsentMutation, Active, BlocksResource
<1> QED
  BY <1>1, ReservationInductive, TypeCorrect, PTL DEF Spec

-------------------------------------------------------------------------------
(* Refinement of the logical revision. *)

LEMMA OutcomeIs ==
  /\ Outcome("absent") = "absent"
  /\ \A st \in Active : Outcome(st) = "open"
  /\ Outcome("committed") = "committed"
  /\ \A st \in BlocksResource : Outcome(st) = "blocked"
  /\ \A st \in {"failed", "rolled_back"} : Outcome(st) = "released"
  BY DEF Outcome, Active, BlocksResource

LEMMA LedgerInit == Init => Ledger!RevisionInit
  BY OutcomeIs DEF Init, Ledger!RevisionInit, AbsentMutation

LEMMA LedgerNext ==
  TypeOK /\ ReservationExact /\ [Next]_vars => [Ledger!RevisionNext]_(Ledger!revisionVars)
<1> SUFFICES ASSUME TypeOK, ReservationExact, [Next]_vars
             PROVE  [Ledger!RevisionNext]_(Ledger!revisionVars)
  OBVIOUS
<1> DEFINE out == [q \in Requests |-> Outcome(mut[q].st)]
           pri == [q \in Requests |-> mut[q].prior]
<1>1. ASSUME NEW m \in Members, NEW r \in Requests, Admit(m, r) PROVE Ledger!Claim(r)
  <2>1. out[r] = "absent" /\ pending = None /\ pending' = r /\ committed' = committed
    BY <1>1, AdmitStep, OutcomeIs
  <2>2. out' = [out EXCEPT ![r] = "open"]
    BY <1>1, AdmitStep, OutcomeIs DEF Active
  <2>3. pri' = [pri EXCEPT ![r] = committed]
    BY <1>1, AdmitStep
  <2> QED BY <2>1, <2>2, <2>3 DEF Ledger!Claim
<1>2. ASSUME NEW m \in Members, CoordinatorPlans(m) PROVE UNCHANGED Ledger!revisionVars
  <2>1. out' = out /\ pri' = pri
    BY <1>2, PlanStep, OutcomeIs
  <2> QED BY <1>2, <2>1, PlanStep DEF Ledger!revisionVars
<1>3. ASSUME NEW m \in Members, CoordinatorFinishes(m) PROVE Ledger!RevisionNext
  <2> DEFINE r == co[m].req
             fin == co[m].fin
  <2>1. r \in Requests /\ out[r] = "open" /\ pri' = pri /\ pending = r
    BY <1>3, FinishStep, OutcomeIs DEF ReservationExact
  <2>2. out' = [out EXCEPT ![r] = Outcome(fin)]
    BY <1>3, FinishStep
  <2>3. CASE fin = "committed"
    <3>1. /\ committed' = r /\ pending' = None /\ pri[r] = committed
          /\ out' = [out EXCEPT ![r] = "committed"]
      BY <1>3, <2>1, <2>2, <2>3, FinishStep, OutcomeIs DEF BlocksResource
    <3>2. Ledger!Commit(r)
      BY <2>1, <3>1 DEF Ledger!Commit
    <3> QED BY <2>1, <3>2 DEF Ledger!RevisionNext
  <2>4. CASE fin \in {"failed", "rolled_back"}
    <3>1. /\ committed' = committed /\ pending' = None
          /\ out' = [out EXCEPT ![r] = "released"]
      BY <1>3, <2>2, <2>4, FinishStep, OutcomeIs DEF BlocksResource
    <3>2. Ledger!Release(r)
      BY <2>1, <3>1 DEF Ledger!Release
    <3> QED BY <2>1, <3>2 DEF Ledger!RevisionNext
  <2>5. CASE fin \in BlocksResource
    <3>1. /\ committed' = committed /\ pending' = pending
          /\ out' = [out EXCEPT ![r] = "blocked"]
      BY <1>3, <2>2, <2>5, FinishStep, OutcomeIs DEF BlocksResource
    <3>2. Ledger!Block(r)
      BY <2>1, <3>1 DEF Ledger!Block
    <3> QED BY <2>1, <3>2 DEF Ledger!RevisionNext
  <2> QED BY <1>3, <2>3, <2>4, <2>5, FinishStep DEF Terminal, BlocksResource
<1>4. CASE \A q \in Requests : ~MutationStep(q)
  <2>1. out' = out /\ pri' = pri
    BY <1>4, LedgerQuiet
  <2> QED BY <1>4, <2>1, LedgerQuiet DEF Ledger!revisionVars
<1> QED
  BY <1>1, <1>2, <1>3, <1>4 DEF MutationStep, Ledger!RevisionNext

(* The rollout implements the abstract ledger: with any number of members,
   coordinators, leases and faults, the resource's revision advances along a
   chain of claims, each ended at most once by a commit on the revision it was
   admitted against, by a release or by a block (LogicalRevision).           *)
THEOREM LedgerRefined == Spec => LedgerSpec
<1> QED
  BY LedgerInit, LedgerNext, TypeCorrect, Reservation, PTL
  DEF Spec, LedgerSpec, Ledger!RevisionSpec

===============================================================================
