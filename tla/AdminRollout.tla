----------------------------- MODULE AdminRollout -----------------------------
(* The Admin-cluster rollout of one logical resource ("config"): the durable
   PostgreSQL ledger, the members' workers and coordinators, and the
   configuration each member process really runs.  Every action is one
   transaction of the store or one local effect of a process, so all
   interleavings of the workers and coordinators are behaviours.            *)
EXTENDS RolloutState

CONSTANTS
  Requests,     \* signed mutation requests; a request's id stands for its new revision
  Base,         \* the revision of the configuration every process boots with
  None,
  CanaryOf,     \* deterministic_canary: a hash picks one member per request
  Rejects,      \* the members whose local validation always refuses the candidate
  Faults,       \* the faults this instance lets happen, a subset of FaultKinds
  Repairs,      \* queries taken as repaired, a subset of RepairKinds; {} is the code as it is
  MaxBoots,     \* bound: boots per member
  MaxEpoch,     \* bound: coordinator epochs per mutation
  MaxEtag       \* bound: local configuration installs per process

FaultKinds == {"reject",   \* validation, apply or restore is refused locally
               "timeout",  \* a phase outlives its deadline
               "lease",    \* a coordinator lease expires under its holder
               "lapse",    \* a running member misses its heartbeats
               "stop",     \* a process stops, cleanly or not, and boots again
               "store"}    \* a store call fails, or its answer is lost

(* Two queries of the store stop every rollout short.  The committed code is
   Repairs = {}; the other instances look at what lies behind them.          *)
RepairKinds == {"scan",      \* load_member_work selects every column its decoder reads
                "pending",   \* fetch_for_member also serves a pending target
                "settled"}   \* ... and a target that is rolled back or failed to

ASSUME ConstantsAssumption ==
  /\ None \notin Members \cup Requests \cup {Base}
  /\ Base \notin Requests
  /\ CanaryOf \in [Requests -> Members]
  /\ Rejects \in [Requests -> SUBSET Members]
  /\ Faults \subseteq FaultKinds
  /\ Repairs \subseteq RepairKinds
  /\ MaxBoots \in Nat /\ MaxEpoch \in Nat /\ MaxEtag \in Nat

Revisions == Requests \cup {Base}

VARIABLES
  committed,  \* oxibelt_admin_mutation_revisions.committed_revision
  pending,    \* ... .pending_request_id
  mut,        \* oxibelt_admin_mutations, one row per request
  tgt,        \* oxibelt_admin_mutation_targets, one row per request and member
  ckpt,       \* oxibelt_admin_mutation_checkpoints: its assignment epoch, 0 if absent
  hb,         \* oxibelt_admin_instance_heartbeats
  head,       \* oxibelt_admin_instance_resource_heads
  proc,       \* each process: its boot, active snapshot, rollback slot and etag
  wk,         \* each process's member worker
  co          \* each process's coordinator

store == <<committed, pending, mut, tgt, ckpt, hb, head>>
vars == <<committed, pending, mut, tgt, ckpt, hb, head, proc, wk, co>>

-------------------------------------------------------------------------------
(* Rows and local records.  A boot number stands for a boot id together with
   the instance epoch allocated for it.                                      *)
TargetRow == [st : TargetStates, ver : Nat, asg : Nat, boot : Nat, eff : BOOLEAN]

FreshTarget == [st |-> "pending", ver |-> 0, asg |-> 0, boot |-> 0, eff |-> FALSE]

MutationRow == [st : MutationStates, ver : Nat, prior : Revisions, pre : Nat,
                owner : Members \cup {None}, boot : Nat, epoch : Nat, live : BOOLEAN,
                age : {"fresh", "observed", "expired"}]

AbsentMutation == [st |-> "absent", ver |-> 0, prior |-> Base, pre |-> 0, owner |-> None,
                   boot |-> 0, epoch |-> 0, live |-> FALSE, age |-> "fresh"]

HeartbeatRow == [boot : Nat, ready : BOOLEAN, live : BOOLEAN]

HeadRow == [boot : Nat, rev : Revisions, ready : BOOLEAN]

ProcessRecord == [up : BOOLEAN, boot : Nat, active : Revisions,
                  slot : Revisions \cup {None}, etag : Nat]

WorkerSteps == {"off", "start", "ready", "converge", "idle",
                "validating", "apply_assigned", "head", "mark", "apply", "publish", "ack",
                "nack", "applying", "rollback_assigned", "rolling_back", "restored",
                "rolled_back", "rollback_failed"}

WorkerRecord == [at : WorkerSteps, req : Requests \cup {None}, row : TargetRow]

IdleWorker(step) == [at |-> step, req |-> None, row |-> FreshTarget]

CoordinatorRecord ==
  [at : {"idle", "read", "fenced"}, req : Requests \cup {None}, st : MutationStates,
   plan : [next : {"keep"} \cup Active, to : TargetStates, who : SUBSET Members],
   fin : {"keep"} \cup Terminal, rows : [Members -> TargetRow],
   epoch : Nat, ver : Nat, boots : [Members -> Nat]]

IdleCoordinator == [at |-> "idle", req |-> None, st |-> "absent",
                    plan |-> Plan("keep", "apply_assigned", {}), fin |-> "keep",
                    rows |-> [m \in Members |-> FreshTarget],
                    epoch |-> 0, ver |-> 0, boots |-> [m \in Members |-> 0]]

(* A settled cluster: every member has booted the base configuration and
   activated its resource head.                                              *)
Init ==
  /\ committed = Base
  /\ pending = None
  /\ mut = [r \in Requests |-> AbsentMutation]
  /\ tgt = [r \in Requests |-> [m \in Members |-> FreshTarget]]
  /\ ckpt = [r \in Requests |-> [m \in Members |-> 0]]
  /\ hb = [m \in Members |-> [boot |-> 1, ready |-> TRUE, live |-> TRUE]]
  /\ head = [m \in Members |-> [boot |-> 1, rev |-> Base, ready |-> TRUE]]
  /\ proc = [m \in Members |-> [up |-> TRUE, boot |-> 1, active |-> Base,
                                slot |-> None, etag |-> 1]]
  /\ wk = [m \in Members |-> IdleWorker("idle")]
  /\ co = [m \in Members |-> IdleCoordinator]

-------------------------------------------------------------------------------
(* Fences the store's transactions check. *)

(* require_current_member_boot: the exact live boot, ready or not. *)
LiveBoot(m) == hb[m].live /\ hb[m].boot = proc[m].boot

(* require_live_member *)
LiveMember(m) == LiveBoot(m) /\ hb[m].ready

(* The resource head of the boot the heartbeat row names. *)
HeadIs(m, rev) == head[m].boot = hb[m].boot /\ head[m].rev = rev

HeadReadyAt(m, rev) == HeadIs(m, rev) /\ head[m].ready

(* lock_exact_membership: every member live and ready under the given boots. *)
ExactMembership(boots) ==
  \A m \in Members : hb[m].live /\ hb[m].ready /\ hb[m].boot = boots[m]

(* The target states in which fetch_for_member serves the encrypted command. *)
ArtifactStates ==
  {"validating", "validated", "apply_assigned", "applying", "acked", "nacked",
   "rollback_assigned", "rolling_back"}
  \cup (IF "pending" \in Repairs THEN {"pending"} ELSE {})
  \cup (IF "settled" \in Repairs THEN {"rolled_back", "rollback_failed"} ELSE {})

(* fetch_for_member *)
ArtifactServed(m, r) ==
  LiveBoot(m) /\ mut[r].st \in Active /\ tgt[r][m].st \in ArtifactStates

(* validate_active_member_evidence.  A missing head row makes the last case
   NULL in SQL, and a NULL is not counted as invalid.                        *)
EvidenceOk(r) ==
  \A m \in Members :
    LET s == tgt[r][m].st
    IN  CASE s \in {"pending", "validating", "validated", "apply_assigned", "rolled_back"} ->
               HeadReadyAt(m, mut[r].prior)
          [] s = "acked" -> HeadReadyAt(m, r)
          [] OTHER -> \/ head[m].boot # hb[m].boot
                      \/ HeadIs(m, mut[r].prior)
                      \/ HeadIs(m, r)

(* The guards of transition_target_fenced for a row read earlier. *)
TargetFence(m, r, row, to) ==
  /\ to \in TargetEdges[row.st]
  /\ LiveMember(m)
  /\ tgt[r][m].st = row.st /\ tgt[r][m].ver = row.ver /\ tgt[r][m].asg = row.asg
  /\ to \in {"applying", "rolling_back"} =>
       ckpt[r][m] # 0 /\ ckpt[r][m] = row.asg /\ committed = mut[r].prior
  /\ to = "acked" => HeadReadyAt(m, r)
  /\ to = "rolled_back" => HeadReadyAt(m, mut[r].prior) /\ committed = mut[r].prior

(* Faulty variant: the start of an apply is not recorded. *)
MovedUnrecorded(m, row, to) ==
  [row EXCEPT !.st = to, !.ver = row.ver + 1, !.boot = proc[m].boot,
              !.eff = row.eff \/ to = "rolling_back"]

(* The row transition_target_fenced writes. *)
MovedTarget(m, row, to) ==
  [row EXCEPT !.st = to, !.ver = row.ver + 1, !.boot = proc[m].boot,
              !.eff = row.eff \/ to \in {"applying", "rolling_back"}]

(* transition_target_fenced *)
TransitionTarget(m, r, row, to) ==
  /\ TargetFence(m, r, row, to)
  /\ tgt' = [tgt EXCEPT ![r][m] = MovedTarget(m, tgt[r][m], to)]

(* publish_resource_head by the process that runs member m. *)
PublishHead(m, rev, ready) ==
  /\ LiveBoot(m)
  /\ head' = [head EXCEPT ![m] = [boot |-> proc[m].boot, rev |-> rev, ready |-> ready]]

(* install_snapshot: the active snapshot becomes the rollback slot. *)
Installed(p, rev) == [p EXCEPT !.active = rev, !.slot = p.active, !.etag = p.etag + 1]

(* apply_config_rollback swaps the active snapshot and the slot, whatever the
   slot holds.                                                               *)
SwappedBack(p) == [p EXCEPT !.active = p.slot, !.slot = p.active, !.etag = p.etag + 1]

-------------------------------------------------------------------------------
(* Admission *)

(* Faulty variant: live members, but nobody asks what they run. *)
LiveBaseline == \A x \in Members : hb[x].live /\ hb[x].ready

(* prove_exact_resource_membership and lock_resource_baseline: every member is
   live and ready on the committed revision.                                 *)
ExactBaseline == \A x \in Members : hb[x].live /\ hb[x].ready /\ HeadReadyAt(x, committed)

(* The row claim_tx_with_mode inserts; precondition_revision is the etag. *)
ClaimedMutation(etag) ==
  [AbsentMutation EXCEPT !.st = "claimed", !.prior = committed, !.pre = etag]

(* admit_cluster and cluster_admit_tx on member m.  The command is pinned to
   the local etag of the member that admits it; the candidate itself is not
   validated here.                                                           *)
Admit(m, r) ==
  /\ proc[m].up /\ hb[m].boot = proc[m].boot
  /\ mut[r].st = "absent" /\ pending = None
  /\ ExactBaseline
  /\ pending' = r
  /\ mut' = [mut EXCEPT ![r] = ClaimedMutation(proc[m].etag)]
  /\ UNCHANGED <<committed, tgt, ckpt, hb, head, proc, wk, co>>

-------------------------------------------------------------------------------
(* The coordinator: reconcile reads a snapshot, decides, takes the fence and
   then acts on the decision it took before.                                 *)

(* load_mutation, cluster_targets and classify_durable, then the command is
   fetched and validated locally: a coordinator that is not served, or that
   rejects the candidate, reconciles nothing.  phase_clock refuses a mutation
   that changed since it was loaded, so the reads are one.                   *)
CoordinatorReads(m, r) ==
  LET d == Classify(mut[r].st, tgt[r], TRUE, mut[r].age = "expired", mut[r].age # "fresh",
                    CanaryOf[r])
      plan == PlanFor(mut[r].st, tgt[r], d)
  IN  /\ proc[m].up /\ co[m].at = "idle"
      /\ mut[r].st \in Active /\ ArtifactServed(m, r) /\ m \notin Rejects[r]
      /\ co' = [co EXCEPT ![m] =
                  [IdleCoordinator EXCEPT
                     !.at = "read", !.req = r, !.st = mut[r].st, !.plan = plan,
                     !.fin = TerminalFor(mut[r].st, d),
                     !.rows = [x \in Members |-> IF x \in plan.who THEN tgt[r][x]
                                                                   ELSE FreshTarget]]]
      /\ UNCHANGED <<committed, pending, mut, tgt, ckpt, hb, head, proc, wk>>

(* The caller already holds a live lease under its present boot. *)
HoldsLease(m, r) == mut[r].owner = m /\ mut[r].boot = proc[m].boot /\ mut[r].live

(* The refusals of acquire_coordinator_fence. *)
AcquireFence(m) ==
  LET r == co[m].req
  IN  /\ hb[m].boot = proc[m].boot
      /\ \A x \in Members : hb[x].live /\ hb[x].ready
      /\ mut[r].st \in Active
      /\ EvidenceOk(r)
      /\ ~mut[r].live \/ HoldsLease(m, r)

IdleDecision(m) == co[m].fin = "keep" /\ co[m].plan.next = "keep" /\ co[m].plan.who = {}

(* acquire_coordinator_fence.  A lease that lapsed is a new epoch, even for
   the same holder; the fence remembers the version of the mutation it saw. *)
CoordinatorAcquires(m) ==
  LET r == co[m].req
      epoch == IF HoldsLease(m, r) THEN mut[r].epoch ELSE mut[r].epoch + 1
  IN  /\ co[m].at = "read" /\ AcquireFence(m)
      /\ mut' = [mut EXCEPT ![r] = [@ EXCEPT !.owner = m, !.boot = proc[m].boot,
                                             !.epoch = epoch, !.live = TRUE]]
      /\ co' = [co EXCEPT ![m] = IF IdleDecision(m) THEN IdleCoordinator
                                 ELSE [@ EXCEPT !.at = "fenced", !.epoch = epoch,
                                                !.ver = mut[r].ver,
                                                !.boots = [x \in Members |-> hb[x].boot]]]
      /\ UNCHANGED <<committed, pending, tgt, ckpt, hb, head, proc, wk>>

(* lock_coordinator: the lease, the epoch and the version are still ours. *)
Authority(m, exact) ==
  LET r == co[m].req
  IN  /\ HoldsLease(m, r)
      /\ mut[r].epoch = co[m].epoch /\ mut[r].ver = co[m].ver
      /\ exact => ExactMembership(co[m].boots) /\ EvidenceOk(r)

(* A compensating plan may run without the exact live membership. *)
Compensating(m) ==
  \/ co[m].plan.next = "rolling_back"
  \/ co[m].st = "rolling_back"
  \/ co[m].plan.who # {} /\ co[m].plan.to = "rollback_assigned"

(* Faulty variant: the state the plan was made for is not expected. *)
PlanUnexpected(m) ==
  LET r == co[m].req
  IN  /\ Authority(m, ~Compensating(m))
      /\ \A x \in co[m].plan.who :
           /\ tgt[r][x].st = co[m].rows[x].st /\ tgt[r][x].ver = co[m].rows[x].ver
           /\ co[m].plan.to \in TargetEdges[tgt[r][x].st]

PlanFence(m) ==
  LET r == co[m].req
  IN  /\ Authority(m, ~Compensating(m))
      /\ mut[r].st = co[m].st
      /\ co[m].plan.next # "keep" => co[m].plan.next \in MutationEdges[co[m].st]
      /\ \A x \in co[m].plan.who :
           /\ tgt[r][x].st = co[m].rows[x].st /\ tgt[r][x].ver = co[m].rows[x].ver
           /\ co[m].plan.to \in TargetEdges[tgt[r][x].st]

(* Faulty variant: every assignment is stamped with the present epoch. *)
Restamped(row, to, epoch) == [row EXCEPT !.st = to, !.ver = @ + 1, !.asg = epoch]

AssignedTarget(row, to, epoch) ==
  [row EXCEPT !.st = to, !.ver = @ + 1,
              !.asg = IF to \in {"validating", "apply_assigned"} THEN epoch ELSE @]

AdvancedMutation(row, next) == [row EXCEPT !.st = next, !.ver = @ + 1, !.age = "fresh"]

(* apply_transition_plan: all the plan's rows in one transaction. *)
CoordinatorPlans(m) ==
  LET r == co[m].req
      plan == co[m].plan
  IN  /\ co[m].at = "fenced" /\ co[m].fin = "keep" /\ PlanFence(m)
      /\ tgt' = [tgt EXCEPT ![r] =
                   [x \in Members |-> IF x \in plan.who
                                        THEN AssignedTarget(tgt[r][x], plan.to, co[m].epoch)
                                        ELSE tgt[r][x]]]
      /\ mut' = IF plan.next = "keep" THEN mut
                ELSE [mut EXCEPT ![r] = AdvancedMutation(@, plan.next)]
      /\ co' = [co EXCEPT ![m] = IdleCoordinator]
      /\ UNCHANGED <<committed, pending, ckpt, hb, head, proc, wk>>

(* verify_commit *)
VerifyCommit(r) ==
  /\ mut[r].st = "fully_applied"
  /\ \A x \in Members : /\ tgt[r][x].st = "acked"
                        /\ hb[x].boot = tgt[r][x].boot
                        /\ hb[x].ready /\ hb[x].live
                        /\ HeadReadyAt(x, r)

(* verify_not_applied *)
VerifyNotApplied(r) == \A x \in Members : ~tgt[r][x].eff

(* verify_restored, against the head of the boot that wrote the target row. *)
VerifyRestored(r) ==
  \A x \in Members : tgt[r][x].eff =>
    /\ tgt[r][x].st = "rolled_back"
    /\ head[x] = [boot |-> tgt[r][x].boot, rev |-> mut[r].prior, ready |-> TRUE]

(* finish_cluster_rollout fetches the command once more; then
   guarded_cluster_finish_tx and the compare-and-set of finish_tx_inner.  No
   expected state is checked here: only the version the fence saw.           *)
FinishFence(m) ==
  LET r == co[m].req
      fin == co[m].fin
  IN  /\ ArtifactServed(m, r)
      /\ Authority(m, fin = "committed")
      /\ fin \in MutationEdges[mut[r].st]
      /\ fin = "committed" => VerifyCommit(r) /\ committed = mut[r].prior
      /\ fin = "failed" => VerifyNotApplied(r)
      /\ fin = "rolled_back" => VerifyRestored(r)
      /\ fin \notin BlocksResource => pending = r

(* The row finish_tx_inner writes: no coordinator owns it any more. *)
FinishedMutation(row, fin) ==
  [row EXCEPT !.st = fin, !.ver = @ + 1, !.owner = None, !.boot = 0, !.live = FALSE,
              !.age = "fresh"]

(* Faulty variant: every terminal state releases the reservation. *)
FinishReleases(m) ==
  LET r == co[m].req
      fin == co[m].fin
  IN  /\ co[m].at = "fenced" /\ fin # "keep" /\ FinishFence(m)
      /\ committed' = IF fin = "committed" THEN r ELSE committed
      /\ pending' = None
      /\ mut' = [mut EXCEPT ![r] = FinishedMutation(@, fin)]
      /\ co' = [co EXCEPT ![m] = IdleCoordinator]
      /\ UNCHANGED <<tgt, ckpt, hb, head, proc, wk>>

(* finish_cluster_rollout *)
CoordinatorFinishes(m) ==
  LET r == co[m].req
      fin == co[m].fin
  IN  /\ co[m].at = "fenced" /\ fin # "keep" /\ FinishFence(m)
      /\ committed' = IF fin = "committed" THEN r ELSE committed
      /\ pending' = IF fin \in BlocksResource THEN pending ELSE None
      /\ mut' = [mut EXCEPT ![r] = FinishedMutation(@, fin)]
      /\ co' = [co EXCEPT ![m] = IdleCoordinator]
      /\ UNCHANGED <<tgt, ckpt, hb, head, proc, wk>>

(* reconcile returned an error, or found another live holder; the loop warns
   and tries again on its next tick.                                         *)
CoordinatorFails(m) ==
  /\ \/ co[m].at = "read" /\ ~AcquireFence(m)
     \/ co[m].at = "fenced" /\ co[m].fin = "keep" /\ ~PlanFence(m)
     \/ co[m].at = "fenced" /\ co[m].fin # "keep" /\ ~FinishFence(m)
     \/ co[m].at # "idle" /\ "store" \in Faults
  /\ co' = [co EXCEPT ![m] = IdleCoordinator]
  /\ UNCHANGED <<store, proc, wk>>

-------------------------------------------------------------------------------
(* The member worker.  wk[m].row is the target row its scan returned; every
   later step of the same work item is fenced by that row.                   *)

(* load_member_work returns the rows of non-terminal mutations in these
   states; process_member_work dispatches on the state.                      *)
WorkStates == {"validating", "apply_assigned", "applying", "rollback_assigned", "rolling_back"}

HasWork(m, r) == mut[r].st \in Active /\ tgt[r][m].st \in WorkStates

Worker(m, step) == wk' = [wk EXCEPT ![m].at = step]

WorkerIs(m, step) == wk' = [wk EXCEPT ![m] = IdleWorker(step)]

(* A row the scan cannot decode ends the member loop; its supervisor runs it
   again from activate_resource_heads.  Otherwise process_member_work first
   fetches the command.                                                      *)
LoadWork(m, r) ==
  /\ wk[m].at = "idle" /\ HasWork(m, r)
  /\ "scan" \in Repairs => ArtifactServed(m, r)
  /\ wk' = [wk EXCEPT ![m] =
       IF "scan" \in Repairs
         THEN [at |-> IF tgt[r][m].st = "rolling_back" THEN "rollback_assigned" ELSE tgt[r][m].st,
               req |-> r, row |-> tgt[r][m]]
         ELSE IdleWorker("start")]
  /\ UNCHANGED <<store, proc, co>>

(* The scan itself fails: the same restart of the loop. *)
ScanFails(m) ==
  /\ wk[m].at = "idle" /\ "store" \in Faults
  /\ WorkerIs(m, "start")
  /\ UNCHANGED <<store, proc, co>>

(* executor.validate refuses the candidate: always, or for once. *)
MayReject(m, r) == m \in Rejects[r] \/ "reject" \in Faults

(* publish_cluster_checkpoint.  Re-publication draws a fresh nonce, so an
   existing checkpoint is a binding conflict and never "already there".      *)
CheckpointFence(m, r, row) ==
  /\ m \notin Rejects[r]
  /\ proc[m].etag = mut[r].pre
  /\ LiveMember(m)
  /\ tgt[r][m].asg = row.asg /\ tgt[r][m].st \in {"apply_assigned", "applying"}
  /\ committed = mut[r].prior
  /\ ckpt[r][m] = 0

(* fetch_cluster_checkpoint, after validate_recovery. *)
FetchFence(m, r, row) ==
  m \notin Rejects[r] /\ LiveMember(m) /\ ckpt[r][m] # 0 /\ ckpt[r][m] = row.asg

(* What the store demands of the worker's next call. *)
StepFence(m) ==
  LET r == wk[m].req
      row == wk[m].row
      at == wk[m].at
  IN  CASE at = "validating"     -> TargetFence(m, r, row, "validated")
        [] at = "apply_assigned" -> CheckpointFence(m, r, row)
        [] at \in {"head", "publish", "restored"} -> LiveBoot(m)
        [] at = "mark"           -> TargetFence(m, r, row, "applying")
        [] at = "ack"            -> TargetFence(m, r, tgt[r][m], "acked")
        [] at = "nack"           -> TargetFence(m, r, tgt[r][m], "nacked")
        [] at = "applying"       -> FetchFence(m, r, row) /\ TargetFence(m, r, row, "nacked")
        [] at = "rollback_assigned" ->
             /\ FetchFence(m, r, row)
             /\ row.st = "rollback_assigned" => TargetFence(m, r, row, "rolling_back")
        [] at = "rolled_back"     -> TargetFence(m, r, row, "rolled_back")
        [] at = "rollback_failed" -> TargetFence(m, r, row, "rollback_failed")
        [] OTHER -> TRUE

WorkSteps == WorkerSteps \ {"off", "start", "ready", "converge", "idle"}

(* The call failed: process_member_work returns the error, the loop warns and
   scans again on its next tick.  Nothing is undone.                         *)
WorkerFails(m) ==
  /\ wk[m].at \in WorkSteps
  /\ \/ ~StepFence(m)
     \/ "store" \in Faults
     \/ wk[m].at \in {"apply_assigned", "applying", "rollback_assigned"} /\ MayReject(m, wk[m].req)
  /\ WorkerIs(m, "idle")
  /\ UNCHANGED <<store, proc, co>>

(* process_member_work in Validating: ACK or NACK of the local validation. *)
Validate(m) ==
  /\ wk[m].at = "validating" /\ StepFence(m)
  /\ \/ /\ m \notin Rejects[wk[m].req]
        /\ TransitionTarget(m, wk[m].req, wk[m].row, "validated")
     \/ /\ MayReject(m, wk[m].req)
        /\ TransitionTarget(m, wk[m].req, wk[m].row, "nacked")
  /\ WorkerIs(m, "idle")
  /\ UNCHANGED <<committed, pending, mut, ckpt, hb, head, proc, co>>

(* apply_assigned, one step per store call or local effect. *)
WriteCheckpoint(m) ==
  /\ wk[m].at = "apply_assigned" /\ StepFence(m)
  /\ ckpt' = [ckpt EXCEPT ![wk[m].req][m] = wk[m].row.asg]
  /\ Worker(m, "head")
  /\ UNCHANGED <<committed, pending, mut, tgt, hb, head, proc, co>>

PublishUnready(m) ==
  /\ wk[m].at = "head"
  /\ PublishHead(m, mut[wk[m].req].prior, FALSE)
  /\ Worker(m, "mark")
  /\ UNCHANGED <<committed, pending, mut, tgt, ckpt, hb, proc, co>>

MarkApplying(m) ==
  /\ wk[m].at = "mark"
  /\ TransitionTarget(m, wk[m].req, wk[m].row, "applying")
  /\ Worker(m, "apply")
  /\ UNCHANGED <<committed, pending, mut, ckpt, hb, head, proc, co>>

(* executor.apply: require_revision, then load_config. *)
ApplyCandidate(m) ==
  LET r == wk[m].req
  IN  /\ wk[m].at = "apply"
      /\ \/ /\ proc[m].etag = mut[r].pre /\ proc[m].etag < MaxEtag
            /\ proc' = [proc EXCEPT ![m] = Installed(@, r)]
            /\ Worker(m, "publish")
         \/ /\ proc[m].etag # mut[r].pre \/ "reject" \in Faults
            /\ Worker(m, "nack")
            /\ UNCHANGED proc
      /\ UNCHANGED <<store, co>>

PublishApplied(m) ==
  /\ wk[m].at = "publish"
  /\ PublishHead(m, wk[m].req, TRUE)
  /\ Worker(m, "ack")
  /\ UNCHANGED <<committed, pending, mut, tgt, ckpt, hb, proc, co>>

(* Faulty variant: the report is fenced by the row of the scan. *)
ReportStale(m) ==
  /\ wk[m].at \in {"ack", "nack"}
  /\ TransitionTarget(m, wk[m].req, wk[m].row, IF wk[m].at = "ack" THEN "acked" ELSE "nacked")
  /\ WorkerIs(m, "idle")
  /\ UNCHANGED <<committed, pending, mut, ckpt, hb, head, proc, co>>

(* current_target re-reads the row, so the row before the step is the fence. *)
Report(m) ==
  LET r == wk[m].req
  IN  /\ wk[m].at \in {"ack", "nack"}
      /\ TransitionTarget(m, r, tgt[r][m], IF wk[m].at = "ack" THEN "acked" ELSE "nacked")
      /\ WorkerIs(m, "idle")
      /\ UNCHANGED <<committed, pending, mut, ckpt, hb, head, proc, co>>

(* Faulty variant: an interrupted apply is taken for a finished one. *)
RecoverAsApplied(m) ==
  /\ wk[m].at = "applying" /\ StepFence(m)
  /\ Worker(m, "publish")
  /\ UNCHANGED <<store, proc, co>>

(* recover_applying: a decoded checkpoint carries no snapshot, so recovery of
   a configuration load is always indeterminate.                             *)
RecoverApplying(m) ==
  /\ wk[m].at = "applying" /\ StepFence(m)
  /\ TransitionTarget(m, wk[m].req, wk[m].row, "nacked")
  /\ WorkerIs(m, "idle")
  /\ UNCHANGED <<committed, pending, mut, ckpt, hb, head, proc, co>>

(* rollback_assigned.  The branch for a row without a started effect is left
   out: EffectRecorded shows that no such row is ever assigned.              *)
BeginRollback(m) ==
  LET r == wk[m].req
      row == wk[m].row
  IN  /\ wk[m].at = "rollback_assigned" /\ StepFence(m)
      /\ IF row.st = "rollback_assigned"
           THEN /\ TransitionTarget(m, r, row, "rolling_back")
                /\ wk' = [wk EXCEPT ![m] = [@ EXCEPT !.at = "rolling_back",
                                            !.row = MovedTarget(m, tgt[r][m], "rolling_back")]]
           ELSE Worker(m, "rolling_back") /\ UNCHANGED tgt
      /\ UNCHANGED <<committed, pending, mut, ckpt, hb, head, proc, co>>

(* Faulty variants: a rollback that restores nothing, and one that does not ask
   whether there is a snapshot to restore.                                    *)
RestoreNothing(m) ==
  /\ wk[m].at = "rolling_back"
  /\ Worker(m, "restored")
  /\ UNCHANGED <<store, proc, co>>

RestoreBlindly(m) ==
  /\ wk[m].at = "rolling_back" /\ proc[m].etag < MaxEtag
  /\ proc' = [proc EXCEPT ![m] = SwappedBack(@)]
  /\ Worker(m, "restored")
  /\ UNCHANGED <<store, co>>

(* executor.rollback: the process's own rollback slot, not the checkpoint. *)
Restore(m) ==
  /\ wk[m].at = "rolling_back"
  /\ \/ /\ proc[m].slot # None /\ proc[m].etag < MaxEtag
        /\ proc' = [proc EXCEPT ![m] = SwappedBack(@)]
        /\ Worker(m, "restored")
     \/ /\ proc[m].slot = None \/ "reject" \in Faults
        /\ Worker(m, "rollback_failed")
        /\ UNCHANGED proc
  /\ UNCHANGED <<store, co>>

PublishRestored(m) ==
  /\ wk[m].at = "restored"
  /\ PublishHead(m, mut[wk[m].req].prior, TRUE)
  /\ Worker(m, "rolled_back")
  /\ UNCHANGED <<committed, pending, mut, tgt, ckpt, hb, proc, co>>

EndRollback(m) ==
  /\ wk[m].at \in {"rolled_back", "rollback_failed"}
  /\ TransitionTarget(m, wk[m].req, wk[m].row, wk[m].at)
  /\ WorkerIs(m, "idle")
  /\ UNCHANGED <<committed, pending, mut, ckpt, hb, head, proc, co>>

-------------------------------------------------------------------------------
(* activate_resource_heads, run at boot and again whenever the member loop is
   restarted in the same process: the observed head is the one of the boot.  *)
StartPublish(m) ==
  /\ wk[m].at = "start"
  /\ PublishHead(m, Base, FALSE)
  /\ Worker(m, "ready")
  /\ UNCHANGED <<committed, pending, mut, tgt, ckpt, hb, proc, co>>

(* cluster_set_worker_ready ends in a heartbeat of the present boot. *)
StartReady(m) ==
  /\ wk[m].at = "ready"
  /\ hb' = [hb EXCEPT ![m].ready = TRUE, ![m].live = TRUE]
  /\ Worker(m, "converge")
  /\ UNCHANGED <<committed, pending, mut, tgt, ckpt, head, proc, co>>

(* Faulty variant: the committed head is published before it is applied. *)
ConvergeEarly(m) ==
  /\ wk[m].at = "converge"
  /\ PublishHead(m, committed, TRUE)
  /\ Worker(m, "idle")
  /\ UNCHANGED <<committed, pending, mut, tgt, ckpt, hb, proc, co>>

(* The process already runs the committed revision, or the committed revision
   is the one it booted with.                                                *)
Converge(m) ==
  /\ wk[m].at = "converge"
  /\ committed \in {Base, proc[m].active}
  /\ PublishHead(m, committed, TRUE)
  /\ Worker(m, "idle")
  /\ UNCHANGED <<committed, pending, mut, tgt, ckpt, hb, proc, co>>

(* fetch_committed_cluster_command, checkpoint and apply: the retained command
   starts from its own previous revision and its own etag.                   *)
ConvergeFence(m) ==
  /\ LiveMember(m)
  /\ committed \in Requests \ {proc[m].active}
  /\ m \notin Rejects[committed]
  /\ mut[committed].prior = Base
  /\ proc[m].etag = mut[committed].pre

ConvergeApply(m) ==
  /\ wk[m].at = "converge" /\ ConvergeFence(m)
  /\ proc[m].etag < MaxEtag
  /\ proc' = [proc EXCEPT ![m] = Installed(@, committed)]
  /\ UNCHANGED <<store, wk, co>>

StartFails(m) ==
  /\ wk[m].at \in {"start", "ready", "converge"}
  /\ \/ wk[m].at = "start" /\ ~LiveBoot(m)
     \/ /\ wk[m].at = "converge"
        /\ IF committed \in {Base, proc[m].active} THEN ~LiveBoot(m) ELSE ~ConvergeFence(m)
     \/ {"store", "reject"} \cap Faults # {}
  /\ WorkerIs(m, "start")
  /\ UNCHANGED <<store, proc, co>>

-------------------------------------------------------------------------------
(* Processes, leases and clocks. *)

Down(m) ==
  /\ proc' = [proc EXCEPT ![m].up = FALSE]
  /\ wk' = [wk EXCEPT ![m] = IdleWorker("off")]
  /\ co' = [co EXCEPT ![m] = IdleCoordinator]

Crash(m) ==
  /\ "stop" \in Faults /\ proc[m].up /\ proc[m].boot < MaxBoots
  /\ Down(m)
  /\ UNCHANGED store

(* A clean stop releases the member fence (release_member_fence). *)
Shutdown(m) ==
  /\ "stop" \in Faults /\ proc[m].up /\ proc[m].boot < MaxBoots
  /\ Down(m)
  /\ hb' = [hb EXCEPT ![m] = IF @.boot = proc[m].boot
                               THEN [@ EXCEPT !.ready = FALSE, !.live = FALSE] ELSE @]
  /\ UNCHANGED <<committed, pending, mut, tgt, ckpt, head>>

(* start_cluster_heartbeat: a fresh boot identity, refused while the previous
   boot is live.  The snapshot of the process is the configuration on disk.  *)
Boot(m) ==
  /\ ~proc[m].up /\ ~hb[m].live
  /\ hb' = [hb EXCEPT ![m] = [boot |-> @.boot + 1, ready |-> FALSE, live |-> TRUE]]
  /\ proc' = [proc EXCEPT ![m] = [up |-> TRUE, boot |-> hb[m].boot + 1, active |-> Base,
                                  slot |-> None, etag |-> 1]]
  /\ wk' = [wk EXCEPT ![m] = IdleWorker("start")]
  /\ UNCHANGED <<committed, pending, mut, tgt, ckpt, head, co>>

(* The heartbeat lease of a member runs out. *)
LoseHeartbeat(m) ==
  /\ hb[m].live /\ (~proc[m].up \/ "lapse" \in Faults)
  /\ hb' = [hb EXCEPT ![m].live = FALSE]
  /\ UNCHANGED <<committed, pending, mut, tgt, ckpt, head, proc, wk, co>>

(* heartbeat_fenced by the boot the row names. *)
Heartbeat(m) ==
  /\ proc[m].up /\ hb[m].boot = proc[m].boot /\ ~hb[m].live
  /\ hb' = [hb EXCEPT ![m].live = TRUE]
  /\ UNCHANGED <<committed, pending, mut, tgt, ckpt, head, proc, wk, co>>

(* The coordinator lease runs out: of a holder that is gone, or by a fault. *)
ExpireLease(r) ==
  /\ mut[r].live /\ mut[r].epoch < MaxEpoch
  /\ LET o == mut[r].owner
     IN  "lease" \in Faults \/ ~proc[o].up \/ proc[o].boot # mut[r].boot
  /\ mut' = [mut EXCEPT ![r].live = FALSE]
  /\ UNCHANGED <<committed, pending, tgt, ckpt, hb, head, proc, wk, co>>

(* The phase clock: the observation interval passes first, the phase or the
   rollback timeout after it (RolloutSettings::validate).                    *)
Age(r) ==
  /\ mut[r].st \in Active
  /\ \/ mut[r].age = "fresh" /\ mut' = [mut EXCEPT ![r].age = "observed"]
     \/ /\ mut[r].age = "observed" /\ "timeout" \in Faults
        /\ mut' = [mut EXCEPT ![r].age = "expired"]
  /\ UNCHANGED <<committed, pending, tgt, ckpt, hb, head, proc, wk, co>>

-------------------------------------------------------------------------------
Coordinator(m) ==
  \/ \E r \in Requests : CoordinatorReads(m, r)
  \/ CoordinatorAcquires(m) \/ CoordinatorPlans(m) \/ CoordinatorFinishes(m)
  \/ CoordinatorFails(m)

MemberLoop(m) ==
  \/ \E r \in Requests : LoadWork(m, r)
  \/ Validate(m) \/ WriteCheckpoint(m) \/ PublishUnready(m) \/ MarkApplying(m)
  \/ ApplyCandidate(m) \/ PublishApplied(m) \/ Report(m) \/ RecoverApplying(m)
  \/ BeginRollback(m) \/ Restore(m) \/ PublishRestored(m) \/ EndRollback(m)
  \/ WorkerFails(m) \/ ScanFails(m)
  \/ StartPublish(m) \/ StartReady(m) \/ Converge(m) \/ ConvergeApply(m) \/ StartFails(m)

Process(m) == Crash(m) \/ Shutdown(m) \/ Boot(m) \/ LoseHeartbeat(m) \/ Heartbeat(m)

Next ==
  \/ \E m \in Members, r \in Requests : Admit(m, r)
  \/ \E m \in Members : Coordinator(m) \/ MemberLoop(m) \/ Process(m)
  \/ \E r \in Requests : ExpireLease(r) \/ Age(r)

Spec == Init /\ [][Next]_vars

(* The member loop and the coordinator are polled by tickers under a restarting
   supervisor, stopped processes are started again, leases of the dead run out
   and clocks advance.  Requests need never arrive and faults need never happen. *)
Fairness ==
  /\ \A m \in Members : /\ WF_vars(Coordinator(m))
                        /\ WF_vars(MemberLoop(m))
                        /\ WF_vars(Boot(m))
                        /\ WF_vars(~proc[m].up /\ LoseHeartbeat(m))
                        /\ WF_vars(Heartbeat(m))
  /\ \A r \in Requests : WF_vars(ExpireLease(r)) /\ WF_vars(Age(r))

FairSpec == Spec /\ Fairness

-------------------------------------------------------------------------------
(* Properties *)

(* The type invariant: the shape of the ledger's rows and of the workers' and
   coordinators' local variables, each busy one with the request it works on. *)
TypeOK ==
  /\ committed \in Revisions /\ pending \in Requests \cup {None}
  /\ mut \in [Requests -> MutationRow]
  /\ tgt \in [Requests -> [Members -> TargetRow]]
  /\ ckpt \in [Requests -> [Members -> Nat]]
  /\ hb \in [Members -> HeartbeatRow]
  /\ head \in [Members -> HeadRow]
  /\ proc \in [Members -> ProcessRecord]
  /\ wk \in [Members -> WorkerRecord]
  /\ co \in [Members -> CoordinatorRecord]
  /\ \A m \in Members : /\ wk[m].at \in WorkSteps => wk[m].req \in Requests
                        /\ co[m].at # "idle" => co[m].req \in Requests

(* The reservation of the resource names exactly the mutation that is in flight
   or that ended in a state that blocks the resource (claim_tx_with_mode,
   finish_tx_inner): two rollouts never overlap and none is forgotten.       *)
ReservationExact ==
  \A r \in Requests : (pending = r) <=> (mut[r].st \in Active \cup BlocksResource)

(* A started effect is covered by a checkpoint of its own assignment, so a
   rollback finds it after any restart (insert_checkpoint_tx, MarkApplying). *)
EffectCheckpointed ==
  \A r \in Requests, m \in Members :
    tgt[r][m].eff => ckpt[r][m] # 0 /\ ckpt[r][m] = tgt[r][m].asg

(* The mutation's phase and its target rows agree, although coordinators decide
   on rows they read before they took the fence: nobody applies before all
   validated, nobody but the canary before it acknowledged, and a mutation is
   fully applied or committed only with every member's acknowledgement.      *)
PhaseAgreement ==
  \A r \in Requests : /\ mut[r].st = "absent" => tgt[r] = [m \in Members |-> FreshTarget]
                      /\ PhaseOk(mut[r].st, tgt[r], CanaryOf[r])

(* A target row records a started effect exactly when its member may have
   applied, so a rollback misses nobody and is assigned to nobody else; the
   branch of rollback_assigned for a row without effect never runs.          *)
EffectRecorded == \A r \in Requests, m \in Members : RowOk(tgt[r][m])

(* A commit finds every running member process on the candidate itself, not
   only a ledger that says so (verify_commit).                               *)
CommitConverged ==
  [][\A r \in Requests : mut[r].st # "committed" /\ mut'[r].st = "committed" =>
       \A m \in Members : proc[m].up => proc[m].active = r]_vars

(* A rollout reported as rolled back finds every running member process on the
   configuration the rollout started from (verify_restored).                 *)
RollbackRestores ==
  [][\A r \in Requests : mut[r].st # "rolled_back" /\ mut'[r].st = "rolled_back" =>
       \A m \in Members : proc[m].up => proc[m].active = mut[r].prior]_vars

(* A mutation that ended without effect has none, and gets none later: no row
   of it is applied and no process runs it (verify_not_applied).             *)
ReleasedNotApplied ==
  \A r \in Requests : mut[r].st \in {"failed", "rolled_back"} =>
    \A m \in Members : /\ tgt[r][m].eff => tgt[r][m].st = "rolled_back"
                        /\ proc[m].active # r

(* A rollout starts from a cluster that has converged: every running process is
   on the committed revision when a request is admitted, whatever the rollouts
   before it left behind (prove_exact_resource_membership).                  *)
AdmissionConverged ==
  [][\A r \in Requests : mut[r].st = "absent" /\ mut'[r].st = "claimed" =>
       \A m \in Members : proc[m].up => proc[m].active = committed]_vars

HeadTruthful(m) ==
  /\ proc[m].up /\ head[m].boot = proc[m].boot /\ head[m].ready
  /\ wk[m].at = "idle" /\ \A r \in Requests : ~HasWork(m, r)
  => proc[m].active = head[m].rev

(* A ready head of the present boot names the configuration the process runs
   once its worker has nothing left to do (publish_resource_head).           *)
SettledHeadTruthful == \A m \in Members : HeadTruthful(m)

(* Every rollout reaches a terminal receipt. *)
RolloutTerminates ==
  \A r \in Requests : mut[r].st \in Active ~> mut[r].st \in Terminal

(* An admitted mutation is validated by all, applied by the canary, then by the
   rest, and commits, unless a member refuses it or a phase outlives its
   deadline: nothing else keeps a rollout from its commit.                   *)
CommitsUnlessRefused ==
  \A r \in Requests :
    mut[r].st = "claimed" ~>
      \/ mut[r].st = "committed" \/ mut[r].age = "expired"
      \/ \E m \in Members : tgt[r][m].st = "nacked"

-------------------------------------------------------------------------------
(* The abstract specification of the ledger. *)
Outcome(st) ==
  CASE st = "absent" -> "absent"
    [] st \in Active -> "open"
    [] st = "committed" -> "committed"
    [] st \in BlocksResource -> "blocked"
    [] OTHER -> "released"

Ledger == INSTANCE LogicalRevision
            WITH outcome <- [r \in Requests |-> Outcome(mut[r].st)],
                 prior <- [r \in Requests |-> mut[r].prior]

(* The rollout implements the logical revision: every step of every worker and
   coordinator is a claim, a commit, a release, a block or invisible.        *)
LedgerSpec == Ledger!RevisionSpec

===============================================================================
