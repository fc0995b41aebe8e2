--------------------------- MODULE GatewayController ---------------------------
(* The Gateway API controller: replicas elect a writer over a Kubernetes Lease
   (leader_election.rs), and the writer rolls the configuration rendered from the
   sources out over one workload, whose annotations hold all rollout state
   (rollout_client.rs, rollout_decision.rs), and reports it (watch.rs).

   Resource versions are only ever compared for equality with the one that was
   read, so a reader keeps whether what it read is still current.  Time is left
   open: authority may lapse, and an unrenewed Lease expire, at any moment.
   Kubernetes itself (the pods) is external.                                  *)
EXTENDS Integers

CONSTANTS
  Replicas,    \* processes of the controller
  Pods,        \* replicas of the target workload
  Revisions,   \* what the sources may render to: immutable ConfigMaps
  NoneYet,     \* no revision, or nobody
  MaxTerms,    \* bound: leadership terms
  MaxEdits     \* bound: edits of the sources

ASSUME GatewayAssumption ==
  /\ MaxTerms \in Nat /\ MaxEdits \in Nat /\ Pods # {}
  /\ NoneYet \notin Replicas \cup Revisions

VARIABLES
  lease,       \* the Lease: holder (NoneYet: no running process) and epoch
  term,        \* term[i]: the epoch of i's confirmed authority; 0: no write permit
  edits,       \* how often the sources were edited, up to MaxEdits
  source,      \* the revision the sources render to now
  programmed,  \* the revision the Programmed condition vouches for
  workload,    \* the annotations of the target workload
  overdue,     \* the rollout timeout has passed since the attempt started
  pod,         \* pod[p]: the revision it was started with and its state
  rec,         \* rec[i]: where the reconciliation of i is, and what it has read
  served       \* history: revisions that were Ready on every pod at once

gatewayVars ==
  <<lease, term, source, edits, programmed, workload, overdue, pod, rec, served>>

(* The annotations of a workload no rollout has touched: RolloutState with the
   term that wrote it.                                                        *)
FirstState ==
  [phase |-> "Generated", desired |-> NoneYet, committed |-> NoneYet,
   failed |-> NoneYet, epoch |-> 0, holder |-> NoneYet]

(* st: the workload as it will be written, then as it is reported. *)
Resting == [pc |-> "idle", cand |-> NoneYet, st |-> FirstState, current |-> FALSE]

GatewayInit ==
  /\ lease = [holder |-> NoneYet, epoch |-> 0]
  /\ term = [i \in Replicas |-> 0]
  /\ source \in Revisions /\ edits = 0 /\ programmed = NoneYet
  /\ workload = FirstState /\ overdue = FALSE
  /\ pod = [p \in Pods |-> [rev |-> NoneYet, st |-> "ready"]]
  /\ rec = [i \in Replicas |-> Resting]
  /\ served = {}

electionVars == <<lease, term>>
clusterVars == <<workload, overdue, pod, served>>

-----------------------------------------------------------------------------
(* Leader election. *)

(* election_step: the holder renews; or the Lease is free, or was left unrenewed
   for the whole lease duration, and is taken under the next epoch.  The patch
   tests what was read, and an observation that ages is one step here: whatever
   changed the Lease in between would start it again.  A confirmation that
   arrives late is a term that is superseded at once.                         *)
Elect(i) ==
  /\ IF lease.holder = i THEN UNCHANGED lease
     ELSE lease.epoch < MaxTerms /\ lease' = [holder |-> i, epoch |-> lease.epoch + 1]
  /\ term' = [term EXCEPT ![i] = lease'.epoch]
  /\ UNCHANGED <<source, edits, programmed, clusterVars, rec>>

(* An election step fails, finds another holder, or the renew deadline passes;
   the answer to a patch that succeeded is lost.                              *)
LoseAuthority(i) ==
  /\ term[i] # 0 /\ term' = [term EXCEPT ![i] = 0]
  /\ UNCHANGED <<lease, source, edits, programmed, clusterVars, rec>>

(* The process ends and another with a fresh identity starts: either it shut down
   in order, reconciliation first and then the release of its Lease, or it was
   killed, and the Lease names an identity that no process has.               *)
Replace(i) ==
  /\ lease.holder = i
  /\ lease' = [lease EXCEPT !.holder = NoneYet]
  /\ term' = [term EXCEPT ![i] = 0]
  /\ rec' = [rec EXCEPT ![i] = Resting]
  /\ UNCHANGED <<source, edits, programmed, clusterVars>>

(* authorize_write: a current write permit and a fresh GET of the Lease. *)
Authorized(i) ==
  /\ term[i] # 0
  /\ lease = [holder |-> i, epoch |-> term[i]]

(* validate_write_permit finds that the Lease proves another term: revoked. *)
Refused(i) ==
  /\ rec[i].pc \in {"idle", "rollout", "plan", "status"} /\ term[i] # 0 /\ ~Authorized(i)
  /\ term' = [term EXCEPT ![i] = 0]
  /\ rec' = [rec EXCEPT ![i] = Resting]
  /\ UNCHANGED <<lease, source, edits, programmed, clusterVars>>

-----------------------------------------------------------------------------
(* One reconciliation.  A write is authorized in one step and lands in the next. *)

(* Resource versions: what others read of the sources, or of the workload, is
   no longer current, and what they made of it will never be written.        *)
Outdated(r, pcs) ==
  [j \in Replicas |-> IF r[j].pc \in pcs THEN [r[j] EXCEPT !.st = FirstState, !.current = FALSE]
                      ELSE r[j]]

SourcesTouched(r) == Outdated(r, {"pending", "final"})

(* Faulty variant: the patch does not test the resource version. *)
WorkloadUntested(r) == r

WorkloadTouched(r) == Outdated(r, {"plan", "apply"})

Move(i, pc, st, current) ==
  [rec EXCEPT ![i] = [pc |-> pc, cand |-> rec[i].cand, st |-> st, current |-> current]]

(* The sources change: objects are edited. *)
EditSources ==
  /\ edits < MaxEdits /\ edits' = edits + 1
  /\ source' \in Revisions \ {source}
  /\ rec' = SourcesTouched(rec)
  /\ UNCHANGED <<electionVars, programmed, clusterVars>>

(* reconcile_once reads and renders the sources, and is authorized to report. *)
ReadSources(i) ==
  /\ rec[i].pc = "idle" /\ Authorized(i)
  /\ rec' = [rec EXCEPT ![i] = [pc |-> "pending", cand |-> source, st |-> FirstState,
                                current |-> TRUE]]
  /\ UNCHANGED <<electionVars, source, edits, programmed, clusterVars>>

(* apply_status_patches: guarded by the resource version of the source. *)
WriteStatus(i, rev, then) ==
  /\ IF rec[i].current
       THEN programmed' = rev /\ rec' = SourcesTouched(then)
       ELSE programmed' = programmed /\ rec' = [rec EXCEPT ![i] = Resting]
  /\ UNCHANGED <<electionVars, source, edits, clusterVars>>

ReportPending(i) ==
  /\ rec[i].pc = "pending"
  /\ WriteStatus(i, NoneYet, Move(i, "rollout", FirstState, FALSE))

(* A write the reconciliation decided on. *)
PlanWrite(i, st) == rec' = Move(i, "plan", st, TRUE)

(* reconcile_immutable_rollout_for returns: of the RolloutStatus only a committed
   one is reported as Programmed, so the other phases are all one.            *)
Return(i, phase, desired) ==
  IF phase = "Committed"
    THEN Move(i, "status", [FirstState EXCEPT !.phase = phase, !.desired = desired], FALSE)
    ELSE [rec EXCEPT ![i] = [Resting EXCEPT !.pc = "status"]]

(* Nothing is written. *)
Settle(i, phase) == rec' = Return(i, phase, workload.desired)

Ready(p, rev) == pod[p] = [rev |-> rev, st |-> "ready"]

(* Faulty variant: the canary alone counts as convergence. *)
CanaryConverged(rev, lag) == ~lag /\ \E p \in Pods : Ready(p, rev)

(* evaluate_convergence: the workload's own status may lag behind the pods. *)
Converged(rev, lag) == ~lag /\ \A p \in Pods : Ready(p, rev)

(* fail_or_rollback and request_rollback *)
RollbackTo(st) == [st EXCEPT !.phase = "RollbackRequested", !.desired = st.committed]

FailOrRollback(st, active) ==
  LET failed == [st EXCEPT !.failed = active]
  IN IF st.committed \notin {NoneYet, active} THEN RollbackTo(failed)
     ELSE [failed EXCEPT !.phase = "Failed"]

(* convergence_transition with advance_converged_state *)
Advanced(st, active, rollingBack) ==
  IF rollingBack THEN [st EXCEPT !.phase = "RolledBack"]
  ELSE IF st.phase = "FullyApplied" THEN [st EXCEPT !.phase = "Committed", !.committed = active]
  ELSE [st EXCEPT !.phase = "FullyApplied"]

(* rejected_pod_reason *)
Rejected(active) == \E p \in Pods : pod[p] = [rev |-> active, st |-> "crashed"]

(* decide_observation: the attempt has neither failed nor converged. *)
AdvanceOrWait(i, active) ==
  LET st == workload
  IN IF st.phase = "CanaryApplying" /\ \E p \in Pods : Ready(p, active)
       THEN PlanWrite(i, [st EXCEPT !.phase = "CanaryHealthy"])
     ELSE IF st.phase = "CanaryHealthy" THEN PlanWrite(i, [st EXCEPT !.phase = "Expanding"])
     ELSE Settle(i, st.phase)

(* reconcile_active_revision, in the order of decide_observation. *)
Observe(i, active, rollingBack) ==
  LET st == workload
  IN \E lag \in BOOLEAN :
       IF Rejected(active) THEN PlanWrite(i, FailOrRollback(st, active))
       ELSE IF Converged(active, lag)
         THEN IF st.phase = "Committed" THEN Settle(i, "Committed")
              ELSE PlanWrite(i, Advanced(st, active, rollingBack))
       ELSE IF st.phase = "Committed" THEN Settle(i, "Generated")
       ELSE IF overdue THEN PlanWrite(i, FailOrRollback(st, active))
       ELSE AdvanceOrWait(i, active)

(* RolloutState::new_attempt *)
NewAttempt(st, cand) ==
  [st EXCEPT !.phase = "CanaryApplying", !.desired = cand, !.failed = NoneYet]

(* reconcile_immutable_rollout_for reads workload, pods and Lease.  They are one
   step: a workload that changes in between fails the patch, or the proof.    *)
Decide(i) ==
  LET st == workload
      cand == rec[i].cand
      adopted == st.desired = NoneYet \/ (st.epoch = term[i] /\ st.holder = i)
      blocked == st.phase = "Failed" /\ st.failed = cand
      undone == st.phase = "RolledBack" /\ st.failed = cand
      ordinary == adopted /\ ~blocked /\ ~undone
  IN /\ rec[i].pc = "rollout" /\ Authorized(i)
     /\ \/ ~adopted /\ PlanWrite(i, st)
        \/ adopted /\ undone /\ PlanWrite(i, [st EXCEPT !.phase = "Failed"])
        \/ adopted /\ blocked /\ Settle(i, "Failed")
        \/ ordinary /\ st.desired = cand /\ Observe(i, cand, FALSE)
        \/ ordinary /\ st.desired # cand /\ st.phase = "RollbackRequested"
           /\ Observe(i, st.desired, TRUE)
        \/ LET superseded == st.phase # "Committed" /\ NoneYet \notin {st.desired, st.committed}
                              /\ st.desired # st.committed
           IN /\ ordinary /\ st.desired # cand /\ st.phase # "RollbackRequested"
              /\ PlanWrite(i, IF superseded THEN RollbackTo(st) ELSE NewAttempt(st, cand))
     /\ UNCHANGED <<electionVars, source, edits, programmed, clusterVars>>

(* apply_state authorizes the write anew, perhaps under a later term than the one
   it was decided in, and add_leadership_fence stamps it.                     *)
Stamp(i) ==
  /\ rec[i].pc = "plan" /\ Authorized(i)
  /\ workload.epoch < term[i] \/ (workload.epoch = term[i] /\ workload.holder = i)
  /\ rec' = Move(i, "apply", [rec[i].st EXCEPT !.epoch = term[i], !.holder = i], rec[i].current)
  /\ UNCHANGED <<electionVars, source, edits, programmed, clusterVars>>

(* apply_state: a JSON patch that tests the resource version it was built from.
   Only a new attempt starts the clock of the rollout again.                  *)
Apply(i) ==
  LET st == rec[i].st
      started == st.phase = "CanaryApplying" /\ st.desired # workload.desired
  IN /\ rec[i].pc = "apply"
     /\ IF rec[i].current
          THEN /\ workload' = st /\ overdue' = (overdue /\ ~started)
               /\ rec' = WorkloadTouched(Return(i, st.phase, st.desired))
          ELSE /\ UNCHANGED <<workload, overdue>>
               /\ rec' = Return(i, "Failed", NoneYet)
     /\ UNCHANGED <<electionVars, source, edits, programmed, pod, served>>

(* The end of reconcile_once: a committed status needs the sources unchanged and
   prove_committed_rollout_for, a fresh reading of workload, pods and Lease.   *)
Prove(i) ==
  LET st == rec[i].st
  IN /\ rec[i].pc = "status" /\ Authorized(i)
     /\ st.phase = "Committed" =>
          /\ source = rec[i].cand
          /\ workload = [workload EXCEPT !.phase = "Committed", !.desired = st.desired,
                                         !.committed = st.desired, !.epoch = term[i], !.holder = i]
          /\ Converged(st.desired, FALSE)
     /\ rec' = [rec EXCEPT ![i] = [Resting EXCEPT !.pc = "final", !.st = st, !.current = TRUE]]
     /\ UNCHANGED <<electionVars, source, edits, programmed, clusterVars>>

ReportFinal(i) ==
  LET st == rec[i].st
  IN /\ rec[i].pc = "final"
     /\ WriteStatus(i, IF st.phase = "Committed" THEN st.desired ELSE NoneYet,
                    [rec EXCEPT ![i] = Resting])

(* A request of the rollout fails, or the answer to its patch is lost: the
   failure is reported.                                                       *)
RolloutFails(i) ==
  /\ rec[i].pc \in {"rollout", "plan", "status"}
  /\ rec' = Return(i, "Failed", NoneYet)
  /\ UNCHANGED <<electionVars, source, edits, programmed, clusterVars>>

(* Any other request fails, or a reading refuses to go on: the reconciliation ends. *)
ReconcileFails(i) ==
  /\ rec[i].pc # "idle"
  /\ rec' = [rec EXCEPT ![i] = Resting]
  /\ UNCHANGED <<electionVars, source, edits, programmed, clusterVars>>

RolloutTimesOut ==
  /\ workload.desired # NoneYet /\ ~overdue /\ overdue' = TRUE
  /\ UNCHANGED <<electionVars, source, edits, programmed, workload, pod, rec, served>>

-----------------------------------------------------------------------------
(* Kubernetes, external: a pod of another revision is replaced, a pod crashes or
   recovers.  A pod that is not Ready yet counts as little as the one it
   replaces.                                                                  *)
PodChanges(p) ==
  /\ \/ /\ workload.desired \notin {NoneYet, pod[p].rev}
        /\ \E st \in {"ready", "crashed"} :
             pod' = [pod EXCEPT ![p] = [rev |-> workload.desired, st |-> st]]
     \/ pod[p].st = "ready" /\ pod' = [pod EXCEPT ![p].st = "crashed"]
     \/ pod[p].st = "crashed" /\ pod' = [pod EXCEPT ![p].st = "ready"]
  /\ served' = served \cup {v \in Revisions : \A q \in Pods : pod'[q] = [rev |-> v, st |-> "ready"]}
  /\ UNCHANGED <<electionVars, source, edits, programmed, workload, overdue, rec>>

ReplicaStep(i) ==
  \/ Elect(i) \/ LoseAuthority(i) \/ Replace(i)
  \/ Refused(i) \/ ReadSources(i) \/ ReportPending(i) \/ Decide(i) \/ Stamp(i) \/ Apply(i)
  \/ Prove(i) \/ ReportFinal(i) \/ RolloutFails(i) \/ ReconcileFails(i)

GatewayNext ==
  \/ \E i \in Replicas : ReplicaStep(i)
  \/ \E p \in Pods : PodChanges(p)
  \/ EditSources \/ RolloutTimesOut

GatewaySpec == GatewayInit /\ [][GatewayNext]_gatewayVars

-----------------------------------------------------------------------------
(* Whatever replica wrote it, and on however old a reading: the revision recorded
   as committed, which a rollback returns to, and the one reported as
   Programmed were once Ready on every pod.                                   *)
CommittedServed == {workload.committed, programmed} \ {NoneYet} \subseteq served

(* A replica whose term was superseded never overwrites the workload once a newer
   term has written it, and no two replicas write under one epoch
   (add_leadership_fence, apply_state, election_step).                        *)
TermsFenced ==
  [][workload' # workload =>
       /\ workload'.epoch >= workload.epoch
       /\ workload'.epoch = workload.epoch => workload'.holder = workload.holder]_gatewayVars

(* "conditions become true only after the desired digest is committed across all
   Ready selected replicas" (docs/GatewayAPI.md): Programmed is set only for
   the revision the sources render to.                                        *)
ProgrammedMatchesSource ==
  [][programmed' \notin {programmed, NoneYet} => programmed' = source]_gatewayVars
================================================================================
