----------------------------- MODULE GatewayProofs -----------------------------
(* Proofs about GatewayController for every set of replicas, pods and revisions
   and every bound: what is recorded as committed or reported as Programmed was
   served by every pod, and a superseded term never overwrites a newer one.    *)
EXTENDS GatewayController, TLAPS

-------------------------------------------------------------------------------
(* The types of the state. *)

RevisionOrNone == Revisions \cup {NoneYet}
ReplicaOrNone == Replicas \cup {NoneYet}

Phases ==
  {"Generated", "CanaryApplying", "CanaryHealthy", "Expanding", "FullyApplied",
   "Committed", "RollbackRequested", "RolledBack", "Failed"}

Annotations ==
  [phase : Phases, desired : RevisionOrNone, committed : RevisionOrNone,
   failed : RevisionOrNone, epoch : Nat, holder : ReplicaOrNone]

Reconciliation ==
  [pc : {"idle", "pending", "rollout", "plan", "apply", "status", "final"},
   cand : RevisionOrNone, st : Annotations, current : BOOLEAN]

GatewayTypeOK ==
  /\ lease \in [holder : ReplicaOrNone, epoch : Nat]
  /\ term \in [Replicas -> Nat]
  /\ source \in Revisions
  /\ programmed \in RevisionOrNone
  /\ workload \in Annotations
  /\ overdue \in BOOLEAN
  /\ pod \in [Pods -> [rev : RevisionOrNone, st : {"ready", "crashed"}]]
  /\ rec \in [Replicas -> Reconciliation]
  /\ served \subseteq Revisions

(* What a committed revision may be. *)
Vouched == served \cup {NoneYet}

(* The history misses no revision that every pod serves now. *)
ServedNow == \A v \in Revisions : (\A p \in Pods : Ready(p, v)) => v \in served

(* What a reconciliation has read, and may write however much later, vouches for
   nothing that was not served.                                               *)
DecisionVouched(i) ==
  /\ rec[i].pc \in {"plan", "apply"} => rec[i].st.committed \in Vouched
  /\ rec[i].pc = "final" /\ rec[i].st.phase = "Committed" => rec[i].st.desired \in Vouched

(* A stamped write that would still land is not older than the workload. *)
StampFenced(i) ==
  rec[i].pc = "apply" /\ rec[i].current =>
    \/ workload.epoch < rec[i].st.epoch
    \/ workload.epoch = rec[i].st.epoch /\ workload.holder = rec[i].st.holder

GatewayInv ==
  /\ GatewayTypeOK
  /\ ServedNow
  /\ {workload.committed, programmed} \subseteq Vouched
  /\ \A i \in Replicas : DecisionVouched(i) /\ StampFenced(i)

-------------------------------------------------------------------------------
(* Operators. *)

LEMMA FirstStateTyped == FirstState \in Annotations
  BY DEF FirstState, Annotations, Phases, RevisionOrNone, ReplicaOrNone

LEMMA RestingTyped == Resting \in Reconciliation /\ Resting.pc = "idle"
  BY FirstStateTyped DEF Resting, Reconciliation, RevisionOrNone

(* A record EXCEPTed at one field of an annotation. *)
LEMMA MoveTyped ==
  ASSUME GatewayTypeOK, NEW i \in Replicas, NEW st \in Annotations, NEW current \in BOOLEAN,
         NEW pc \in {"rollout", "plan", "apply", "status"}
  PROVE  Move(i, pc, st, current) \in [Replicas -> Reconciliation]
  BY DEF GatewayTypeOK, Move, Reconciliation

LEMMA ReturnTyped ==
  ASSUME GatewayTypeOK, NEW i \in Replicas, NEW phase \in Phases, NEW desired \in RevisionOrNone
  PROVE  /\ Return(i, phase, desired) \in [Replicas -> Reconciliation]
         /\ Return(i, phase, desired)[i].pc = "status"
         /\ \A j \in Replicas \ {i} : Return(i, phase, desired)[j] = rec[j]
<1> DEFINE st == [FirstState EXCEPT !.phase = phase, !.desired = desired]
<1>1. st \in Annotations
  BY FirstStateTyped DEF Annotations
<1>2. Move(i, "status", st, FALSE) \in [Replicas -> Reconciliation]
  BY <1>1, MoveTyped
<1>3. [Resting EXCEPT !.pc = "status"] \in Reconciliation
      /\ [Resting EXCEPT !.pc = "status"].pc = "status"
  BY RestingTyped DEF Reconciliation
<1>4. [rec EXCEPT ![i] = [Resting EXCEPT !.pc = "status"]] \in [Replicas -> Reconciliation]
  BY <1>3 DEF GatewayTypeOK
<1> QED
  BY <1>2, <1>3, <1>4 DEF Return, Move, GatewayTypeOK

(* What is out of date keeps its place, and can neither land nor vouch. *)
LEMMA OutdatedTyped ==
  ASSUME NEW r \in [Replicas -> Reconciliation], NEW pcs
  PROVE  /\ Outdated(r, pcs) \in [Replicas -> Reconciliation]
         /\ \A j \in Replicas :
              /\ Outdated(r, pcs)[j].pc = r[j].pc
              /\ r[j].pc \in pcs => /\ Outdated(r, pcs)[j].st = FirstState
                                    /\ Outdated(r, pcs)[j].current = FALSE
              /\ r[j].pc \notin pcs => Outdated(r, pcs)[j] = r[j]
<1>1. \A j \in Replicas : [r[j] EXCEPT !.st = FirstState, !.current = FALSE] \in Reconciliation
  BY FirstStateTyped DEF Reconciliation
<1> QED
  BY <1>1 DEF Outdated, Reconciliation

(* One reconciliation moves, the workload and the history stay: the invariant
   is in question only there.                                                 *)
LEMMA OneMoves ==
  ASSUME GatewayInv, NEW i \in Replicas, NEW r \in Reconciliation,
         rec' = [rec EXCEPT ![i] = r],
         UNCHANGED <<lease, term, source, programmed, clusterVars>>,
         r.pc \in {"plan", "apply"} => r.st.committed \in Vouched,
         r.pc = "final" /\ r.st.phase = "Committed" => r.st.desired \in Vouched,
         r.pc = "apply" /\ r.current =>
           \/ workload.epoch < r.st.epoch
           \/ workload.epoch = r.st.epoch /\ workload.holder = r.st.holder
  PROVE  GatewayInv'
<1>1. GatewayTypeOK'
  BY DEF GatewayInv, GatewayTypeOK, clusterVars
<1>2. ServedNow'
  BY DEF GatewayInv, ServedNow, Ready, clusterVars
<1>3. {workload.committed, programmed}' \subseteq Vouched'
  BY DEF GatewayInv, Vouched, clusterVars
<1>4. ASSUME NEW j \in Replicas PROVE DecisionVouched(j)' /\ StampFenced(j)'
  <2>1. rec'[j] = IF j = i THEN r ELSE rec[j]
    BY DEF GatewayInv, GatewayTypeOK
  <2>2. Vouched' = Vouched /\ workload' = workload
    BY DEF Vouched, clusterVars
  <2> QED
    BY <2>1, <2>2 DEF GatewayInv, DecisionVouched, StampFenced
<1> QED
  BY <1>1, <1>2, <1>3, <1>4 DEF GatewayInv

(* The sources are touched: readers of them fall back, nobody else moves. *)
LEMMA TouchedSources ==
  ASSUME GatewayInv, NEW i \in Replicas, NEW r \in Reconciliation, NEW rev \in Vouched,
         r.pc \in {"idle", "rollout"},
         rec' = SourcesTouched([rec EXCEPT ![i] = r]), programmed' = rev,
         UNCHANGED <<lease, term, source, clusterVars>>
  PROVE  GatewayInv'
<1> DEFINE moved == [rec EXCEPT ![i] = r]
           readers == {"pending", "final"}
<1>1. moved \in [Replicas -> Reconciliation]
  BY DEF GatewayInv, GatewayTypeOK
<1>2. rec' = Outdated(moved, readers)
  BY DEF SourcesTouched
<1>3. \A j \in Replicas : moved[j] = IF j = i THEN r ELSE rec[j]
  BY DEF GatewayInv, GatewayTypeOK
<1> HIDE DEF moved, readers
<1>4. /\ rec' \in [Replicas -> Reconciliation]
      /\ \A j \in Replicas :
           /\ rec'[j].pc = moved[j].pc
           /\ moved[j].pc \in readers => rec'[j].st = FirstState
           /\ moved[j].pc \notin readers => rec'[j] = moved[j]
  <2>1. /\ Outdated(moved, readers) \in [Replicas -> Reconciliation]
        /\ \A j \in Replicas :
             /\ Outdated(moved, readers)[j].pc = moved[j].pc
             /\ moved[j].pc \in readers => Outdated(moved, readers)[j].st = FirstState
             /\ moved[j].pc \notin readers => Outdated(moved, readers)[j] = moved[j]
    BY <1>1, OutdatedTyped
  <2> QED
    BY <1>2, <2>1, Zenon
<1>5. GatewayTypeOK'
  BY <1>4 DEF GatewayInv, GatewayTypeOK, clusterVars, Vouched, RevisionOrNone
<1>6. ServedNow'
  BY DEF GatewayInv, ServedNow, Ready, clusterVars
<1>7. {workload.committed, programmed}' \subseteq Vouched'
  BY DEF GatewayInv, Vouched, clusterVars
<1>8. ASSUME NEW j \in Replicas PROVE DecisionVouched(j)' /\ StampFenced(j)'
  <2>1. Vouched' = Vouched /\ workload' = workload
    BY DEF Vouched, clusterVars
  <2>2. CASE moved[j].pc \in readers
    <3>1. rec'[j].pc \in {"pending", "final"} /\ rec'[j].st = FirstState
      BY <1>4, <2>2, Zenon DEF readers
    <3>2. FirstState.phase = "Generated"
      BY DEF FirstState
    <3> QED
      BY <3>1, <3>2 DEF DecisionVouched, StampFenced
  <2>3. CASE moved[j].pc \notin readers
    <3>1. CASE j = i
      BY <1>3, <1>4, <2>3, <3>1 DEF DecisionVouched, StampFenced
    <3>2. CASE j # i
      <4>1. rec'[j] = rec[j]
        BY <1>3, <1>4, <2>3, <3>2
      <4> QED
        BY <2>1, <4>1 DEF GatewayInv, DecisionVouched, StampFenced
    <3> QED
      BY <3>1, <3>2
  <2> QED
    BY <2>2, <2>3
<1> QED
  BY <1>5, <1>6, <1>7, <1>8 DEF GatewayInv

(* A write of the Programmed condition: under a resource version that is not
   current it is refused, and the reconciliation ends.                        *)
LEMMA StatusWritten ==
  ASSUME GatewayInv, NEW i \in Replicas, NEW r \in Reconciliation,
         NEW rev, rec[i].current => (rev \in Vouched),
         r.pc \in {"idle", "rollout"}, WriteStatus(i, rev, [rec EXCEPT ![i] = r])
  PROVE  GatewayInv'
<1>1. rec[i].current \in BOOLEAN
  BY DEF GatewayInv, GatewayTypeOK, Reconciliation
<1>2. CASE rec[i].current
  BY <1>2, TouchedSources DEF WriteStatus, electionVars
<1>3. CASE ~rec[i].current
  BY <1>3, OneMoves, RestingTyped DEF WriteStatus, electionVars
<1> QED
  BY <1>1, <1>2, <1>3

(* What every pod serves vouches for itself. *)
LEMMA ConvergedServed ==
  ASSUME GatewayInv, NEW rev \in RevisionOrNone, NEW lag, Converged(rev, lag)
  PROVE  rev \in Vouched
  BY DEF GatewayInv, ServedNow, Converged, Vouched, RevisionOrNone

-------------------------------------------------------------------------------
(* decide_observation and what it is called from: the write that is decided on
   records as committed what was so before, or what every pod serves.        *)

Writable(st) == st \in Annotations /\ st.committed \in Vouched

LEMMA FailOrRollbackWritable ==
  ASSUME GatewayInv, NEW active \in RevisionOrNone
  PROVE  Writable(FailOrRollback(workload, active)) /\ Writable(RollbackTo(workload))
<1>1. workload \in Annotations /\ workload.committed \in Vouched
  BY DEF GatewayInv, GatewayTypeOK
<1> QED
  BY <1>1 DEF Writable, FailOrRollback, RollbackTo, Annotations, Phases

LEMMA AdvancedWritable ==
  ASSUME GatewayInv, NEW active \in Vouched, NEW rollingBack \in BOOLEAN
  PROVE  Writable(Advanced(workload, active, rollingBack))
<1>1. workload \in Annotations /\ workload.committed \in Vouched /\ active \in RevisionOrNone
  BY DEF GatewayInv, GatewayTypeOK, Vouched, RevisionOrNone
<1> QED
  BY <1>1 DEF Writable, Advanced, Annotations, Phases

LEMMA PhaseWritable ==
  ASSUME GatewayInv, NEW phase \in Phases, NEW cand \in RevisionOrNone
  PROVE  /\ Writable(workload) /\ Writable([workload EXCEPT !.phase = phase])
         /\ Writable(NewAttempt(workload, cand))
         /\ workload.phase \in Phases /\ workload.desired \in RevisionOrNone
<1>1. workload \in Annotations /\ workload.committed \in Vouched
  BY DEF GatewayInv, GatewayTypeOK
<1> QED
  BY <1>1 DEF Writable, NewAttempt, Annotations, Phases, RevisionOrNone

(* A decision is a write of this kind, or the status of the workload as it is. *)
Decided(i) ==
  \/ \E st \in Annotations : Writable(st) /\ PlanWrite(i, st)
  \/ \E phase \in Phases : Settle(i, phase)

LEMMA ObserveDecided ==
  ASSUME GatewayInv, NEW i \in Replicas, NEW active \in RevisionOrNone,
         NEW rollingBack \in BOOLEAN, Observe(i, active, rollingBack)
  PROVE  Decided(i)
<1>1. PICK lag \in BOOLEAN :
        IF Rejected(active) THEN PlanWrite(i, FailOrRollback(workload, active))
        ELSE IF Converged(active, lag)
          THEN IF workload.phase = "Committed" THEN Settle(i, "Committed")
               ELSE PlanWrite(i, Advanced(workload, active, rollingBack))
        ELSE IF workload.phase = "Committed" THEN Settle(i, "Generated")
        ELSE IF overdue THEN PlanWrite(i, FailOrRollback(workload, active))
        ELSE AdvanceOrWait(i, active)
  BY DEF Observe
<1>2. Writable(FailOrRollback(workload, active))
  BY FailOrRollbackWritable
<1>3. Converged(active, lag) => Writable(Advanced(workload, active, rollingBack))
  BY ConvergedServed, AdvancedWritable
<1>4. {"Committed", "Generated", "CanaryHealthy", "Expanding"} \subseteq Phases
  BY DEF Phases
<1>5. AdvanceOrWait(i, active) => Decided(i)
  BY <1>4, PhaseWritable DEF AdvanceOrWait, Decided, Writable
<1> QED
  BY <1>1, <1>2, <1>3, <1>4, <1>5 DEF Decided, Writable

LEMMA DecideDecided ==
  ASSUME GatewayInv, NEW i \in Replicas, Decide(i)
  PROVE  Decided(i)
<1> DEFINE cand == rec[i].cand
<1>1. cand \in RevisionOrNone /\ workload.desired \in RevisionOrNone
  BY DEF GatewayInv, GatewayTypeOK, Reconciliation, Annotations
<1> HIDE DEF cand
<1>2. \/ PlanWrite(i, workload)
      \/ PlanWrite(i, [workload EXCEPT !.phase = "Failed"])
      \/ Settle(i, "Failed")
      \/ Observe(i, cand, FALSE)
      \/ Observe(i, workload.desired, TRUE)
      \/ PlanWrite(i, RollbackTo(workload))
      \/ PlanWrite(i, NewAttempt(workload, cand))
  BY DEF Decide, cand
<1>3. "Failed" \in Phases
  BY DEF Phases
<1>4. Writable(RollbackTo(workload))
  BY <1>1, FailOrRollbackWritable
<1> QED
  BY <1>1, <1>2, <1>3, <1>4, PhaseWritable, ObserveDecided DEF Decided, Writable

-------------------------------------------------------------------------------
(* One lemma per action, or group of actions that leave the same things alone. *)

LEMMA InitGateway == GatewayInit => GatewayInv
<1> SUFFICES ASSUME GatewayInit PROVE GatewayInv
  OBVIOUS
<1>1. GatewayTypeOK
  BY FirstStateTyped, RestingTyped
  DEF GatewayInit, GatewayTypeOK, RevisionOrNone, ReplicaOrNone
<1>2. ServedNow
  BY GatewayAssumption DEF GatewayInit, ServedNow, Ready
<1>3. {workload.committed, programmed} \subseteq Vouched
  BY DEF GatewayInit, Vouched, FirstState
<1>4. \A i \in Replicas : DecisionVouched(i) /\ StampFenced(i)
  BY DEF GatewayInit, Resting, DecisionVouched, StampFenced
<1> QED
  BY <1>1, <1>2, <1>3, <1>4 DEF GatewayInv

(* The election touches neither the workload nor, but for a process that ends or
   is refused, a reconciliation.                                              *)
LEMMA ElectionGateway ==
  ASSUME GatewayInv, NEW i \in Replicas,
         Elect(i) \/ LoseAuthority(i) \/ Replace(i) \/ Refused(i)
  PROVE  GatewayInv'
<1>1. /\ lease' \in [holder : ReplicaOrNone, epoch : Nat]
      /\ term' \in [Replicas -> Nat]
  BY DEF GatewayInv, GatewayTypeOK, Elect, LoseAuthority, Replace, Refused, ReplicaOrNone
<1>2. UNCHANGED <<source, programmed, workload, overdue, pod, served>>
  BY DEF Elect, LoseAuthority, Replace, Refused, clusterVars
<1>3. rec' = rec \/ rec' = [rec EXCEPT ![i] = Resting]
  BY DEF Elect, LoseAuthority, Replace, Refused
<1>4. \A j \in Replicas : rec'[j] = rec[j] \/ rec'[j] = Resting
  BY <1>3 DEF GatewayInv, GatewayTypeOK
<1>5. rec' \in [Replicas -> Reconciliation]
  BY <1>3, RestingTyped DEF GatewayInv, GatewayTypeOK
<1>6. GatewayTypeOK'
  BY <1>1, <1>2, <1>5 DEF GatewayInv, GatewayTypeOK
<1>7. ServedNow' /\ {workload.committed, programmed}' \subseteq Vouched'
  BY <1>2 DEF GatewayInv, ServedNow, Ready, Vouched
<1>8. ASSUME NEW j \in Replicas PROVE DecisionVouched(j)' /\ StampFenced(j)'
  <2>1. CASE rec'[j] = rec[j]
    BY <1>2, <2>1 DEF GatewayInv, DecisionVouched, StampFenced, Vouched
  <2>2. CASE rec'[j] = Resting
    BY <2>2, RestingTyped DEF DecisionVouched, StampFenced
  <2> QED
    BY <1>4, <2>1, <2>2
<1> QED
  BY <1>6, <1>7, <1>8 DEF GatewayInv

LEMMA EditGateway ==
  ASSUME GatewayInv, EditSources
  PROVE  GatewayInv'
<1> DEFINE readers == {"pending", "final"}
<1>1. rec \in [Replicas -> Reconciliation]
  BY DEF GatewayInv, GatewayTypeOK
<1>2. rec' = Outdated(rec, readers)
  BY DEF EditSources, SourcesTouched
<1>3. UNCHANGED <<lease, term, programmed, workload, overdue, pod, served>> /\ source' \in Revisions
  BY DEF EditSources, electionVars, clusterVars
<1> HIDE DEF readers
<1>4. /\ rec' \in [Replicas -> Reconciliation]
      /\ \A j \in Replicas :
           /\ rec'[j].pc = rec[j].pc
           /\ rec[j].pc \in readers => rec'[j].st = FirstState
           /\ rec[j].pc \notin readers => rec'[j] = rec[j]
  <2>1. /\ Outdated(rec, readers) \in [Replicas -> Reconciliation]
        /\ \A j \in Replicas :
             /\ Outdated(rec, readers)[j].pc = rec[j].pc
             /\ rec[j].pc \in readers => Outdated(rec, readers)[j].st = FirstState
             /\ rec[j].pc \notin readers => Outdated(rec, readers)[j] = rec[j]
    BY <1>1, OutdatedTyped
  <2> QED
    BY <1>2, <2>1, Zenon
<1>5. GatewayTypeOK'
  BY <1>3, <1>4 DEF GatewayInv, GatewayTypeOK
<1>6. ServedNow' /\ {workload.committed, programmed}' \subseteq Vouched'
  BY <1>3 DEF GatewayInv, ServedNow, Ready, Vouched
<1>7. ASSUME NEW j \in Replicas PROVE DecisionVouched(j)' /\ StampFenced(j)'
  <2>1. CASE rec[j].pc \in readers
    <3>1. rec'[j].pc \in {"pending", "final"} /\ rec'[j].st = FirstState
      BY <1>4, <2>1, Zenon DEF readers
    <3>2. FirstState.phase = "Generated"
      BY DEF FirstState
    <3> QED
      BY <3>1, <3>2 DEF DecisionVouched, StampFenced
  <2>2. CASE rec[j].pc \notin readers
    <3>1. rec'[j] = rec[j]
      BY <1>4, <2>2, Zenon
    <3> QED
      BY <1>3, <3>1 DEF GatewayInv, DecisionVouched, StampFenced, Vouched
  <2> QED
    BY <2>1, <2>2
<1> QED
  BY <1>5, <1>6, <1>7 DEF GatewayInv

LEMMA ReadGateway ==
  ASSUME GatewayInv, NEW i \in Replicas, ReadSources(i)
  PROVE  GatewayInv'
<1> DEFINE r == [pc |-> "pending", cand |-> source, st |-> FirstState, current |-> TRUE]
<1>1. r \in Reconciliation
  BY FirstStateTyped DEF GatewayInv, GatewayTypeOK, Reconciliation, RevisionOrNone
<1>2. rec' = [rec EXCEPT ![i] = r] /\ UNCHANGED <<lease, term, source, programmed, clusterVars>>
  BY DEF ReadSources, electionVars
<1>3. r.pc = "pending"
  OBVIOUS
<1> HIDE DEF r
<1> QED
  BY <1>1, <1>2, <1>3, OneMoves

LEMMA PendingGateway ==
  ASSUME GatewayInv, NEW i \in Replicas, ReportPending(i)
  PROVE  GatewayInv'
<1> DEFINE r == [pc |-> "rollout", cand |-> rec[i].cand, st |-> FirstState, current |-> FALSE]
<1>1. r \in Reconciliation
  BY FirstStateTyped DEF GatewayInv, GatewayTypeOK, Reconciliation
<1>2. WriteStatus(i, NoneYet, [rec EXCEPT ![i] = r])
  BY DEF ReportPending, Move
<1>3. r.pc = "rollout" /\ NoneYet \in Vouched
  BY DEF Vouched
<1> HIDE DEF r
<1> QED
  BY <1>1, <1>2, <1>3, StatusWritten

(* A reconciliation that returns, or ends. *)
LEMMA ReturnGateway ==
  ASSUME GatewayInv, NEW i \in Replicas, NEW phase \in Phases, NEW desired \in RevisionOrNone,
         rec' = Return(i, phase, desired),
         UNCHANGED <<lease, term, source, programmed, clusterVars>>
  PROVE  GatewayInv'
<1> DEFINE r == Return(i, phase, desired)[i]
<1>1. /\ Return(i, phase, desired) \in [Replicas -> Reconciliation]
      /\ r.pc = "status"
      /\ \A j \in Replicas \ {i} : Return(i, phase, desired)[j] = rec[j]
  BY ReturnTyped DEF GatewayInv
<1>2. r \in Reconciliation
  BY <1>1
<1>3. rec' = [rec EXCEPT ![i] = r]
  BY <1>1 DEF GatewayInv, GatewayTypeOK
<1> HIDE DEF r
<1> QED
  BY <1>1, <1>2, <1>3, OneMoves

LEMMA FailsGateway ==
  ASSUME GatewayInv, NEW i \in Replicas, RolloutFails(i) \/ ReconcileFails(i)
  PROVE  GatewayInv'
<1>1. UNCHANGED <<lease, term, source, programmed, clusterVars>>
  BY DEF RolloutFails, ReconcileFails, electionVars
<1>2. "Failed" \in Phases /\ NoneYet \in RevisionOrNone
  BY DEF Phases, RevisionOrNone
<1>3. CASE RolloutFails(i)
  BY <1>1, <1>2, <1>3, ReturnGateway DEF RolloutFails
<1>4. CASE ReconcileFails(i)
  BY <1>1, <1>4, RestingTyped, OneMoves DEF ReconcileFails
<1> QED
  BY <1>3, <1>4

LEMMA DecideGateway ==
  ASSUME GatewayInv, NEW i \in Replicas, Decide(i)
  PROVE  GatewayInv'
<1>1. UNCHANGED <<lease, term, source, programmed, clusterVars>>
  BY DEF Decide, electionVars
<1>2. Decided(i)
  BY DecideDecided
<1>3. ASSUME NEW phase \in Phases, Settle(i, phase) PROVE GatewayInv'
  <2>1. workload.desired \in RevisionOrNone
    BY DEF GatewayInv, GatewayTypeOK, Annotations
  <2> QED
    BY <1>1, <1>3, <2>1, ReturnGateway DEF Settle
<1>4. ASSUME NEW st \in Annotations, Writable(st), PlanWrite(i, st) PROVE GatewayInv'
  <2> DEFINE r == [pc |-> "plan", cand |-> rec[i].cand, st |-> st, current |-> TRUE]
  <2>1. r \in Reconciliation
    BY DEF GatewayInv, GatewayTypeOK, Reconciliation
  <2>2. rec' = [rec EXCEPT ![i] = r]
    BY <1>4 DEF PlanWrite, Move
  <2>3. r.pc = "plan" /\ r.st.committed \in Vouched
    BY <1>4 DEF Writable
  <2> HIDE DEF r
  <2> QED
    BY <1>1, <2>1, <2>2, <2>3, OneMoves
<1> QED
  BY <1>2, <1>3, <1>4 DEF Decided

(* add_leadership_fence: the stamp is that of a term not older than the one the
   workload carries.                                                          *)
LEMMA StampGateway ==
  ASSUME GatewayInv, NEW i \in Replicas, Stamp(i)
  PROVE  GatewayInv'
<1> DEFINE st == [rec[i].st EXCEPT !.epoch = term[i], !.holder = i]
           r == [pc |-> "apply", cand |-> rec[i].cand, st |-> st, current |-> rec[i].current]
<1>1. rec[i] \in Reconciliation /\ rec[i].st \in Annotations /\ term[i] \in Nat
  BY DEF GatewayInv, GatewayTypeOK, Reconciliation
<1>2. /\ st \in Annotations /\ st.committed = rec[i].st.committed
      /\ st.epoch = term[i] /\ st.holder = i
  BY <1>1 DEF Annotations, ReplicaOrNone
<1>3. st.committed \in Vouched
  BY <1>2 DEF GatewayInv, DecisionVouched, Stamp
<1>4. workload.epoch < st.epoch \/ (workload.epoch = st.epoch /\ workload.holder = st.holder)
  BY <1>2 DEF Stamp
<1> HIDE DEF st
<1>5. r \in Reconciliation /\ r.pc = "apply" /\ r.st = st
  BY <1>1, <1>2 DEF Reconciliation
<1>6. rec' = [rec EXCEPT ![i] = r] /\ UNCHANGED <<lease, term, source, programmed, clusterVars>>
  BY DEF Stamp, Move, electionVars, st
<1> HIDE DEF r
<1> QED
  BY <1>3, <1>4, <1>5, <1>6, OneMoves

(* apply_state: what lands was served, and everybody else who has read the
   workload will fail the test of the resource version.                       *)
LEMMA ApplyGateway ==
  ASSUME GatewayInv, NEW i \in Replicas, Apply(i)
  PROVE  GatewayInv'
<1> DEFINE st == rec[i].st
<1>1. rec[i].current \in BOOLEAN /\ st \in Annotations
  BY DEF GatewayInv, GatewayTypeOK, Reconciliation
<1>2. CASE ~rec[i].current
  <2>1. UNCHANGED <<lease, term, source, programmed, clusterVars>> /\ rec' = Return(i, "Failed", NoneYet)
    BY <1>2 DEF Apply, electionVars, clusterVars
  <2>2. "Failed" \in Phases /\ NoneYet \in RevisionOrNone
    BY DEF Phases, RevisionOrNone
  <2> QED
    BY <2>1, <2>2, ReturnGateway
<1>3. CASE rec[i].current
  <2> DEFINE back == Return(i, st.phase, st.desired)
             readers == {"plan", "apply"}
  <2>1. /\ workload' = st /\ overdue' \in BOOLEAN
        /\ rec' = Outdated(back, readers)
        /\ UNCHANGED <<lease, term, source, programmed, pod, served>>
    BY <1>3 DEF Apply, WorkloadTouched, electionVars, GatewayInv, GatewayTypeOK
  <2>2. st.committed \in Vouched
    BY DEF GatewayInv, DecisionVouched, Apply
  <2>3. st.phase \in Phases /\ st.desired \in RevisionOrNone
    BY <1>1 DEF Annotations
  <2>4. /\ back \in [Replicas -> Reconciliation]
        /\ back[i].pc = "status"
        /\ \A j \in Replicas \ {i} : back[j] = rec[j]
    BY <2>3, ReturnTyped DEF GatewayInv
  <2> HIDE DEF back, readers
  <2>5. /\ rec' \in [Replicas -> Reconciliation]
        /\ \A j \in Replicas :
             /\ rec'[j].pc = back[j].pc
             /\ back[j].pc \in readers => /\ rec'[j].st = FirstState
                                          /\ rec'[j].current = FALSE
             /\ back[j].pc \notin readers => rec'[j] = back[j]
    <3>1. /\ Outdated(back, readers) \in [Replicas -> Reconciliation]
          /\ \A j \in Replicas :
               /\ Outdated(back, readers)[j].pc = back[j].pc
               /\ back[j].pc \in readers => /\ Outdated(back, readers)[j].st = FirstState
                                            /\ Outdated(back, readers)[j].current = FALSE
               /\ back[j].pc \notin readers => Outdated(back, readers)[j] = back[j]
      BY <2>4, OutdatedTyped
    <3> QED
      BY <2>1, <3>1, Zenon
  <2>6. GatewayTypeOK'
    BY <1>1, <2>1, <2>5 DEF GatewayInv, GatewayTypeOK
  <2>7. ServedNow'
    BY <2>1 DEF GatewayInv, ServedNow, Ready
  <2>8. {workload.committed, programmed}' \subseteq Vouched'
    BY <2>1, <2>2 DEF GatewayInv, Vouched
  <2>9. ASSUME NEW j \in Replicas PROVE DecisionVouched(j)' /\ StampFenced(j)'
    <3>1. CASE back[j].pc \in readers
      <4>1. rec'[j].pc \in {"plan", "apply"} /\ rec'[j].st = FirstState /\ rec'[j].current = FALSE
        BY <2>5, <3>1, Zenon DEF readers
      <4>2. FirstState.committed \in Vouched'
        BY DEF FirstState, Vouched
      <4> QED
        BY <4>1, <4>2 DEF DecisionVouched, StampFenced
    <3>2. CASE back[j].pc \notin readers
      <4>1. rec'[j] = back[j] /\ rec'[j].pc \notin {"plan", "apply"}
        BY <2>5, <3>2, Zenon DEF readers
      <4>2. CASE j = i
        BY <2>4, <4>1, <4>2 DEF DecisionVouched, StampFenced
      <4>3. CASE j # i
        <5>1. rec'[j] = rec[j] /\ Vouched' = Vouched
          BY <2>1, <2>4, <4>1, <4>3 DEF Vouched
        <5> QED
          BY <4>1, <5>1 DEF GatewayInv, DecisionVouched, StampFenced
      <4> QED
        BY <4>2, <4>3
    <3> QED
      BY <3>1, <3>2
  <2> QED
    BY <2>6, <2>7, <2>8, <2>9 DEF GatewayInv
<1> QED
  BY <1>1, <1>2, <1>3

(* prove_committed_rollout_for: only what every pod serves is proved. *)
LEMMA ProveGateway ==
  ASSUME GatewayInv, NEW i \in Replicas, Prove(i)
  PROVE  GatewayInv'
<1> DEFINE st == rec[i].st
           r == [Resting EXCEPT !.pc = "final", !.st = st, !.current = TRUE]
<1>1. st \in Annotations
  BY DEF GatewayInv, GatewayTypeOK, Reconciliation
<1>2. st.desired \in RevisionOrNone
  BY <1>1 DEF Annotations
<1>3. st.phase = "Committed" => st.desired \in Vouched
  BY <1>2, ConvergedServed DEF Prove
<1>4. rec' = [rec EXCEPT ![i] = r] /\ UNCHANGED <<lease, term, source, programmed, clusterVars>>
  BY DEF Prove, electionVars
<1> HIDE DEF st
<1>5. r \in Reconciliation /\ r.pc = "final" /\ r.st = st
  BY <1>1, RestingTyped DEF Reconciliation
<1> HIDE DEF r
<1> QED
  BY <1>3, <1>4, <1>5, OneMoves

LEMMA FinalGateway ==
  ASSUME GatewayInv, NEW i \in Replicas, ReportFinal(i)
  PROVE  GatewayInv'
<1> DEFINE rev == IF rec[i].st.phase = "Committed" THEN rec[i].st.desired ELSE NoneYet
<1>1. rev \in Vouched
  BY DEF ReportFinal, GatewayInv, DecisionVouched, Vouched
<1>2. WriteStatus(i, rev, [rec EXCEPT ![i] = Resting])
  BY DEF ReportFinal
<1> HIDE DEF rev
<1> QED
  BY <1>1, <1>2, RestingTyped, StatusWritten

(* A pod changes: the history takes note of what is served everywhere now. *)
LEMMA PodGateway ==
  ASSUME GatewayInv, NEW p \in Pods, PodChanges(p)
  PROVE  GatewayInv'
<1>1. UNCHANGED <<lease, term, source, programmed, workload, overdue, rec>>
  BY DEF PodChanges, electionVars
<1>2. workload.desired \in RevisionOrNone
  BY DEF GatewayInv, GatewayTypeOK, Annotations
<1>3. pod' \in [Pods -> [rev : RevisionOrNone, st : {"ready", "crashed"}]]
  BY <1>2 DEF PodChanges, GatewayInv, GatewayTypeOK
<1>4. served \subseteq served' /\ served' \subseteq Revisions
  BY DEF PodChanges, GatewayInv, GatewayTypeOK
<1>5. GatewayTypeOK'
  BY <1>1, <1>3, <1>4 DEF GatewayInv, GatewayTypeOK
<1>6. ServedNow'
  BY DEF PodChanges, ServedNow, Ready
<1>7. Vouched \subseteq Vouched'
  BY <1>4 DEF Vouched
<1>8. {workload.committed, programmed}' \subseteq Vouched'
  BY <1>1, <1>7 DEF GatewayInv
<1>9. \A j \in Replicas : DecisionVouched(j)' /\ StampFenced(j)'
  BY <1>1, <1>7 DEF GatewayInv, DecisionVouched, StampFenced
<1> QED
  BY <1>5, <1>6, <1>8, <1>9 DEF GatewayInv

(* Nothing the invariant reads changes but, perhaps, the clock. *)
LEMMA StutterGateway ==
  ASSUME GatewayInv, overdue' \in BOOLEAN,
         UNCHANGED <<lease, term, source, programmed, workload, pod, rec, served>>
  PROVE  GatewayInv'
<1>1. GatewayTypeOK'
  BY DEF GatewayInv, GatewayTypeOK
<1>2. ServedNow' /\ {workload.committed, programmed}' \subseteq Vouched'
  BY DEF GatewayInv, ServedNow, Ready, Vouched
<1>3. \A j \in Replicas : DecisionVouched(j)' /\ StampFenced(j)'
  BY DEF GatewayInv, DecisionVouched, StampFenced, Vouched
<1> QED
  BY <1>1, <1>2, <1>3 DEF GatewayInv

LEMMA NextGateway ==
  ASSUME GatewayInv, [GatewayNext]_gatewayVars
  PROVE  GatewayInv'
<1>1. ASSUME NEW i \in Replicas, ReplicaStep(i) PROVE GatewayInv'
  BY <1>1, ElectionGateway, ReadGateway, PendingGateway, DecideGateway, StampGateway,
     ApplyGateway, ProveGateway, FinalGateway, FailsGateway
  DEF ReplicaStep
<1>2. ASSUME NEW p \in Pods, PodChanges(p) PROVE GatewayInv'
  BY <1>2, PodGateway
<1>3. CASE EditSources
  BY <1>3, EditGateway
<1>4. CASE RolloutTimesOut
  BY <1>4, StutterGateway DEF RolloutTimesOut, electionVars
<1>5. CASE UNCHANGED gatewayVars
  BY <1>5, StutterGateway DEF gatewayVars, GatewayInv, GatewayTypeOK
<1> QED
  BY <1>1, <1>2, <1>3, <1>4, <1>5 DEF GatewayNext

(* The only action that writes the workload is apply_state, of a stamp that is
   not older than what the workload carries.                                  *)
LEMMA WriteFenced ==
  ASSUME GatewayInv, [GatewayNext]_gatewayVars, workload' # workload
  PROVE  /\ workload'.epoch >= workload.epoch
         /\ workload'.epoch = workload.epoch => workload'.holder = workload.holder
<1>1. ASSUME NEW i \in Replicas, Apply(i)
      PROVE  /\ workload'.epoch >= workload.epoch
             /\ workload'.epoch = workload.epoch => workload'.holder = workload.holder
  <2>1. rec[i].pc = "apply" /\ rec[i].current /\ workload' = rec[i].st
    BY <1>1 DEF Apply
  <2>2. rec[i].st \in Annotations /\ workload \in Annotations
    BY DEF GatewayInv, GatewayTypeOK, Reconciliation
  <2>3. rec[i].st.epoch \in Nat /\ workload.epoch \in Nat
    BY <2>2 DEF Annotations
  <2> QED
    BY <2>1, <2>3 DEF GatewayInv, StampFenced
<1>2. ASSUME NEW i \in Replicas, ReplicaStep(i), ~Apply(i) PROVE FALSE
  BY <1>2
  DEF ReplicaStep, Elect, LoseAuthority, Replace, Refused, ReadSources, ReportPending, WriteStatus,
      Decide, Stamp, Prove, ReportFinal, RolloutFails, ReconcileFails, clusterVars
<1>3. ~(\E p \in Pods : PodChanges(p)) /\ ~EditSources /\ ~RolloutTimesOut /\ ~UNCHANGED gatewayVars
  BY DEF PodChanges, EditSources, RolloutTimesOut, gatewayVars, clusterVars
<1> QED
  BY <1>1, <1>2, <1>3 DEF GatewayNext

-------------------------------------------------------------------------------
(* Whatever replicas take the Lease, lose it, crash or write on an old reading,
   the revision the workload records as committed, which a rollback returns to,
   and the one reported as Programmed were once Ready on every pod
   (reconcile_active_revision, prove_committed_rollout_for).                  *)
THEOREM RecordedWasServed == GatewaySpec => []CommittedServed
<1>1. GatewayInv => CommittedServed
  BY DEF GatewayInv, CommittedServed, Vouched
<1>2. GatewayInv /\ [GatewayNext]_gatewayVars => GatewayInv'
  BY NextGateway
<1> QED
  BY <1>1, <1>2, InitGateway, PTL DEF GatewaySpec

(* The epoch that the workload carries never falls, and two writes under one epoch
   are of one holder: add_leadership_fence checked it when the write was
   authorized, and the resource version of the patch carries that check to the
   moment the write lands.                                                    *)
THEOREM SupersededNeverWrites == GatewaySpec => TermsFenced
<1>1. GatewayInv /\ [GatewayNext]_gatewayVars => GatewayInv'
  BY NextGateway
<1>2. GatewayInv /\ [GatewayNext]_gatewayVars
      => [workload' # workload =>
            /\ workload'.epoch >= workload.epoch
            /\ workload'.epoch = workload.epoch => workload'.holder = workload.holder]_gatewayVars
  BY WriteFenced
<1> QED
  BY <1>1, <1>2, InitGateway, PTL DEF GatewaySpec, TermsFenced
===============================================================================
