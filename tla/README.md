# A verification of OxiBelt's control plane

OxiBelt is a reverse proxy and edge server. Most of its source moves bytes; what
can go wrong in an order nobody tested lies in its control plane: a signed
configuration change that is rolled out over a cluster through PostgreSQL, the
membership of that cluster, durable administrative operations, a journal of
uploads that survives crashes, admission queues, and a Kubernetes controller.
This directory models these in TLA+, checks them with TLC on small instances and
proves their safety for every size of the system with TLAPS.

## 1. The system and its parts

Paths are below `src/source/`; `core` is
`crates/oxibelt-admin-mutation-core/src/admin_mutation`, `gw` is
`apps/oxibelt-gateway-controller/src`.

| Part | State it keeps | Operations | Code |
| --- | --- | --- | --- |
| Mutation ledger | one row per request: state, version, previous revision, coordinator lease, phase clock; per resource the committed revision and the reservation | claim, finish | `core/store.rs`, `core/ledger.rs`, `core/store_schema.rs` |
| Rollout store | one target row per request and member, checkpoints, encrypted command, heartbeats, resource heads | admit, take the coordinator fence, apply a transition plan, guarded finish, transition a target, publish a head, insert and fetch a checkpoint, fetch the command | `core/rollout_store*.rs`, `core/artifact_store.rs` |
| Rollout decision | none | `classify`, `transition_plan` | `core/rollout_state.rs`, `src/server/admin_cluster_runtime/coordinator.rs` |
| Coordinator | what one reconciliation has read | `reconcile`, on every member, on a ticker | `.../coordinator.rs`, `src/admin_mutation/runtime/terminal.rs` |
| Member worker | the row its scan returned | validate, apply, recover, roll back; activate the heads at start | `src/server/admin_cluster_runtime.rs`, `.../startup.rs`, `.../support.rs` |
| Executor | the process's active snapshot, its one rollback slot, its etag | validate, checkpoint, apply, rollback | `src/server/admin_cluster_executor.rs` |
| Heartbeat | the boot identity of the process | start, beat, release | `src/admin_mutation/runtime/cluster_heartbeat.rs` |
| Staged membership | head, epochs, transitions, key proofs, readiness receipts | claim barrier, propose, prove, authorize, cancel, restore, finalize | `core/membership_store.rs`, `core/rollout_store_payload.rs`, `src/admin_mutation/runtime/membership_reconciliation.rs` |
| Admin operations | a journal row per operation with a lease; local runs | submit, claim, start, progress, checkpoint, renew, finish, cancel, sweep, prune | `src/server/admin_operations/*`, `src/server/admin/cache/warm.rs` |
| Upload store | sessions in memory, the journal on disk, chunk and object files | create, look up, append, complete, publish, dispatch, delete, collect, reopen | `crates/oxibelt-upload-storage/src/local.rs` |
| Admission | counters per slot, FIFO lanes, class shares, failure circuits | admit, queue, release, cancel, configure | `src/circuit_breakers/*` |
| Gateway controller | a Kubernetes Lease; annotations of the target workload; status conditions | elect, authorize, reconcile, roll out, roll back, report | `gw/leader_election.rs`, `gw/rollout*.rs`, `gw/watch.rs` |

*How they interact, and what is hard.* The first seven meet only in the database:
every member runs a coordinator and a worker, neither waits for the other, and
every step of either is one transaction or one local effect. Hard are two
coordinators in turn under expiring leases, decisions on rows read before the
fence, a process that stops or a store call that fails between two steps,
heartbeats that lapse under a live process, and phase deadlines that race a late
worker. Membership mutations pass through the same ledger and publication, and a
cutover must not happen while another mutation is in flight. Operations are run
by leases that a paused process outlives; their recovery sweep runs beside them
on every instance. The upload store has one journal, written whole, and files
beside it: every order of the two must survive a crash, a failed sync and a
dropped request. Admission is one mutex and one `Notify`, held twice per request,
with reconfiguration in between. The Gateway controller reads and writes an API
server: between any two requests it may have lost its Lease.

*What makes them correct.* Rollout: the reservation and the chain of committed
revisions are exact; nobody applies before everybody validated, nobody but the
canary before the canary acknowledged; a commit means that everybody runs the
candidate; a member that may have applied is recorded, covered by a checkpoint
and reached by a rollback; a rollback restores what was there; every rollout ends
in a receipt. Membership: one chain of epochs, no mutation across a cutover, no
member without proof, verdicts that are true of the transition, and an end for
every authorised activation. Operations: one verdict, never a synthesised
success, and an end. Uploads: what the journal names exists, the parts tile the
bytes, the budget holds, what a client was told stays true, and at most one
dispatch. Admission: exact counters, kept reservations, no forgotten waiter, no
leaked probe. Gateway: terms fence writers, and what is recorded as committed, or
reported as programmed, was really served by every pod.

`PROJECT.json`, "components", lists these and every other part of the program with
its status; section 7 says what is left out and why.

## 2. Modules

| Module | What it is |
| --- | --- |
| `RolloutState` | The two durable state machines, `classify` with its parts, `transition_plan`: operators, no variables. `RowOk` and `PhaseOk` say which rows and which vectors of rows a phase allows. |
| `RolloutDecision` | One reconciliation over *every* snapshot that satisfies `RowOk` and `PhaseOk`, any clock, any membership. |
| `AdminRollout` | The rollout protocol: ledger, workers, coordinators, processes. |
| `LogicalRevision` | The abstract specification: what the ledger promises about one logical resource. `AdminRollout!LedgerSpec` is the refinement. |
| `StagedMembership` | Membership mutations, transitions and the cutover. |
| `AdminOperations` | Durable operations with their runs, cancellations and sweeps. |
| `UploadStore` | The local upload store, with its file system. |
| `Admission` | Composite and prioritised admission. |
| `GatewayController` | Lease election, rollout and status of the controller. |
| `AdminRolloutProofs`, `AdminRolloutPhases` | Proofs about `AdminRollout` (section 4). |
| `DecisionProofs`, `MembershipProofs`, `OperationProofs`, `UploadProofs`, `AdmissionProofs`, `GatewayProofs` | Proofs about `RolloutDecision`, `StagedMembership`, `AdminOperations`, `UploadStore`, `Admission` and `GatewayController`. |
| `MCRolloutFaults`, `MCRolloutProgress`, `MCAdminRollout`, `MCAdmission`, `MCComponentSafety`, `MCComponentProgress` | Instances for TLC (section 3). |

### How `AdminRollout` corresponds to the code

* `committed`, `pending`: the row of `oxibelt_admin_mutation_revisions` of the
  resource "config". `mut[r]`, `tgt[r][m]`, `ckpt[r][m]`, `hb[m]`, `head[m]`: the
  tables for mutations, targets, checkpoints, heartbeats and resource heads. A
  revision is the request that creates it (or `Base`); a digest always goes with
  its revision, so it is not a separate value. A boot number stands for a boot
  id and its instance epoch. `mut[r].age` is the phase clock: fresh, past the
  observation interval, past the deadline of the phase.
* `proc[m]`: the process: its active snapshot, the rollback slot
  `install_snapshot` fills, its etag (a counter of local installs). A boot starts
  from the configuration on disk (`Base`), because a rollout never writes it.
* `wk[m]`: where the member worker is inside `process_member_work` and the row
  its scan returned. `co[m]`: a reconciliation that has read (`read`) or holds
  the fence (`fenced`), with the plan or terminal state it decided on.
* A store call that fails leaves the store as it was and sends the worker back to
  its scan, the coordinator back to its ticker (`WorkerFails`, `CoordinatorFails`);
  a scan that fails ends the member loop, whose supervisor starts it again at
  `activate_resource_heads` (`ScanFails`, `StartFails`).
* `Faults` selects what may go wrong in an instance; `Rejects` the members whose
  validation always refuses a candidate.
* `Repairs`. Two queries of the code stop every rollout early (section 5).
  `Repairs = {}` is the code as it is. The other instances take those queries as
  repaired, because otherwise nothing behind them would ever run: `"scan"` lets
  `load_member_work` decode its rows, `"pending"` and `"settled"` let
  `fetch_for_member` serve a target that is pending, respectively rolled back or
  failed to roll back. The theorems hold for every value of `Repairs`.
* Left out of `rollback_assigned` is its branch for a row without a started
  effect: theorem `EffectsRecorded` says that no such row is ever assigned.
* Transactions are atomic: they lock the rows they depend on (`FOR UPDATE`), and
  where they do not, the model reads them at the time of the write, as the SQL
  does.

### How the other modules correspond to the code

* `UploadStore`. A request is a task. `Enter` is the health check; every later
  step of the task is one transaction under the state lock or one piece of file
  work between two of them. `journal` is what memory holds, `durable` what a
  reopened process would read: `Persist` is the write, rename and directory sync
  of the journal, which may fail before the rename (nothing happened) or after it
  (the store is poisoned, and either version may survive a crash). A random token
  or file key is the number of a draw. Sizes are small numbers that are added and
  compared with the limits as in the code. `client` is history: the offsets
  clients were told and the number of dispatches.
* `StagedMembership`. A request number identifies a mutation, and the epoch and
  the transition that a proposal creates. `Claim...` is the barrier of
  `lock_membership_claim_barrier`; `Publish`, `Published` and `Restore` are the
  shared publication as far as membership needs it; `FinishMutation` is the
  coordinator's verdict, which restores what it must first. Evidence is valid,
  missing or `stale`; a rejoin behaves as a join, maintenance as a removal.
* `AdminOperations`. `row` is the journal, `run[w][o]` where instance w is with
  operation o. A fence is the owner, the lease epoch and the revision, which every
  update of the row compares and increments. Time is two flags of a row: its
  lease has expired, its lifetime has. A cache warm has items and checkpoints,
  the other kinds one item.
* `Admission`. `CheckWait`, `AdmitComposite`, `AdmitPriority` and the rejections
  are what the first critical section may decide, `Enqueue` and `RejectFull` the
  second; `woken` is a permit of the `Notify` the caller has not consumed.
  `StoreFlag` and `Configure` are the two steps of a reload. Whether a sample
  window trips a circuit is left open.
* `GatewayController`. Resource versions are compared for equality only, so a
  reader keeps a flag that says whether what it read is still current; a reading
  that became stale keeps nothing else, since nothing made of it is ever written.
  Authority may lapse, and an unrenewed Lease expire, at any moment. `ReadSources`
  to `ReportFinal` are the stages of `reconcile_once`; a write is authorized in
  one step (`Decide`, `Stamp`, `Prove`) and lands in another (`Apply`,
  `ReportFinal`). Workload, pods and Lease, which the code reads one after the
  other, are read in one step: what is decided on them is written only if the
  workload's resource version is still the one that was read. Pods, and edits of
  the sources, are external.

## 3. What TLC checks

Deadlock is not checked except in `PriorityStranded`: once every request has a
receipt, every bound is used up or every caller is served, the systems may stop.

| Run | Instance | Properties | Shows |
| --- | --- | --- | --- |
| `RolloutFaults` | 2 members, 2 requests, five scenarios of faults | `TypeOK`, `ReservationExact`, `EffectCheckpointed`, `PhaseAgreement`, `EffectRecorded`, `SettledUnlessTwice`, `LedgerSpec`, `AdmissionConverged`, `CommitConverged`, `RestoredUnlessTwice` | ledger, rows, checkpoints and processes agree under each scenario; rollbacks restore, except where one is done twice; refinement of `LogicalRevision` |
| `RolloutProgress` | 2 members, 1 request; hurried or unhurried | `RolloutTerminates`, `CommitsUnlessRefused` | every rollout ends in a receipt under refusals and timeouts, and commits when nobody refuses and no deadline passes |
| `ComponentSafety` | four components side by side | `VerdictSound`, `RollbackReaches`, `DeadlineDecides`; `UploadTypeOK`, `ReferencesExist`, `StorageBounded`, `PartsTile`, `CommittedKept`, `LookupFences`, `SentOnce`; `MembershipTypeOK`, `AuthorityChain`, `NoneAcrossCutover`, `VerdictsKept`, `MembersProved`; `CommittedServed`, `TermsFenced` | the safety of the classifier, the upload store, membership and the Gateway controller |
| `Admission` | 3 callers, 3 slots, 2 classes, 3 configurations | `AdmissionTypeOK`, `ActiveExact`, `LanesServed`, `ProbesHeld`, `ReservationsKept` | the safety of admission, reloads included |
| `ComponentProgress` | operations under three scenarios; the first epoch of a cluster | `OperationTypeOK`, `SuccessProved`, `VerdictFinal`, `DispatchFenced`, `OperationsSettle`, `ActivationResolves` | operations end with one truthful verdict, activations that are decided in time are cut over |
| `CommandUnserved`, `LateApply`, `AckedRestart`, `PriorityStranded`, `MembershipStale`, `OpsCheckpoint`, `AdoptedProgrammed` | see section 5 | one each | what the code does against what is written about it |

*How instances are put together.* The components of `MCComponentSafety` share no
state, so the composition is a sum and not a product: a behaviour picks its
`part` at the start and the variables of the other parts keep their initial
values. `MCRolloutFaults` and `MCComponentProgress` pick a scenario in the same
way: the specification is instantiated with the scenario's own faults and bounds
(`Under(s)`), so that faults that have nothing to do with each other are not
multiplied. In `MCRolloutProgress` a behaviour is hurried (refusals and
deadlines) or unhurried (coordinators fence each other, no deadline passes).
Callers, tasks, replicas, pods and revisions are interchangeable in the runs that
check safety only; liveness is checked without symmetry.

*Bounds.*

* Rollout: two members are a canary and one other, which is every role; the
  decisions are checked with three, two non-canaries that differ. The second
  request is followed up to its admission and shows what a rollout leaves to the
  next. `MaxBoots` 2 is one restart per member, `MaxEpoch` as many takeovers as
  the scenario can provoke, `MaxEtag` 4 is an apply, its rollback, and
  that rollback once more. Only missed heartbeats and store errors make a worker
  restore again: the scenario with missed heartbeats follows it to the second swap,
  the one with store errors, by far the largest, ends before it, and in the others
  the bound is never met. The run passes with four etags under store errors too; it
  then has 1.3 instead of 1.0 million states.
* Uploads: one session, two concurrent tasks, two bytes within a budget of three
  (so that a second copy of the object does not fit), two random draws, one stop.
  Two tasks are every pair of operations that can meet; one stop leaves each
  intermediate state behind once.
* Membership: three instances of which two are configured, five mutations: a
  proposal, its activation or cancellation, one ordinary mutation and a second
  transition. Operations: two instances, one operation of two items, up to three
  boots and two claims.
* Admission: three callers, which is one holder and two waiters, or a lane of
  three; a request slot of two with one slot reserved for the high class; an
  upstream slot that two routes share; a configuration with less, and one with
  more room.
* Gateway: two replicas, two pods, two revisions, two terms and one edit: a
  takeover in every step of a reconciliation, before and after the edit.

Each property is violated in its run by at least one small change to the code's
logic (`PROJECT.json`, "mutants"; the changed definitions stand before the real
ones, marked "Faulty variant").

*Where a property is not claimed.* A rollback swaps the two snapshots of its
process. When the heartbeat has lapsed or the store fails just after it, the head
cannot be published, the worker finds its row still rolling back and swaps again:
the process runs the candidate, its head names the prior revision, and the rollout
is reported as rolled back. One request and either fault alone are enough, so
`RollbackRestores` and `SettledHeadTruthful` do not hold of the code under these
faults (section 5). The run states what does: a process that restored at most once
is on the prior revision (`RestoredUnlessTwice`), and its settled head is true
(`SettledUnlessTwice`); `Twice` names the exception by the etag, and both properties
are without exception in the scenarios with refusals, timeouts, takeovers and stops.
With store errors the settled head is not claimed at all (section 5).
`AdmissionConverged` says something about a second request in the scenario with
timeouts only; the others end with the first. With more requests all three hold
under timeouts and lapsing coordinator leases, where they are proved (section 4);
section 5 says what happens under the other faults.
`PrioritiesServed`, `RecordedNotRepeated`, `ReleasedNotApplied` and
`ProgrammedMatchesSource` are the violated ones.

*Fairness.*

* `FairSpec` of `AdminRollout` asks for weak fairness of each member's worker and
  of its coordinator (both are polled by tickers, under a supervisor that
  restarts them), of the boot of a stopped process, of a live process's
  heartbeat, of the expiry of dead leases and of clocks. `ProgressFairness` is
  the part of it that an instance without stops needs. Nothing is asked of
  requests and faults. One coordinator's action is one conjunct, so an unlucky
  choice among its reconciliations is not excluded, only that it never runs.
* `MembershipFairness`: a member that heartbeats tries to finalise; nothing is
  asked of proofs, readiness or operators.
* `OperationFairness`: a stopped instance is started again, every instance sweeps
  (it does so on an interval), and lifetimes end. Nothing is asked of the runs:
  a paused run is what the sweep is for.

## 4. What is proved

Every theorem holds for every value of the constants that satisfies the named
assumptions: any number of members, requests, instances, operations, uploads,
callers, replicas or pods, all faults, all repairs and all bounds. The three
theorems with `CalmFaults` say what they need of the faults.

| Module | Theorem | Statement |
| --- | --- | --- |
| `AdminRolloutProofs` | `TypeCorrect` | `Spec => []TypeOK` |
| | `Reservation` | `Spec => []ReservationExact` |
| | `LedgerRefined` | `Spec => LedgerSpec` |
| `AdminRolloutPhases` | `EffectsRecorded` | `Spec => []EffectRecorded` |
| | `EffectsCheckpointed` | `Spec => []EffectCheckpointed` |
| | `PhasesAgree` | `Spec => []PhaseAgreement` |
| | `CommitsConverged` | `Spec => CommitConverged` |
| | `RollbacksRestore` | `CalmFaults` gives `Spec => RollbackRestores` |
| | `AdmissionsConverge` | `CalmFaults` gives `Spec => AdmissionConverged` |
| | `HeadsAreTruthful` | `CalmFaults` gives `Spec => []SettledHeadTruthful` |
| `DecisionProofs` | `VerdictsAreSound` | `DecisionSpec => []VerdictSound` |
| | `RollbackIsComplete` | `DecisionSpec => []RollbackReaches` |
| | `DeadlinesAreFinal` | `DecisionSpec => []DeadlineDecides` |
| `MembershipProofs` | `MembershipTyped` | `MembershipSpec => []MembershipTypeOK` |
| | `OneAuthority` | `MembershipSpec => []AuthorityChain` |
| | `CutoverIsQuiet` | `MembershipSpec => []NoneAcrossCutover` |
| | `VerdictsAreKept` | `MembershipSpec => []VerdictsKept` |
| | `MembersAreProved` | `MembershipSpec => []MembersProved` |
| `OperationProofs` | `OperationsTyped` | `OperationSpec => []OperationTypeOK` |
| | `SuccessIsProved` | `OperationSpec => []SuccessProved` |
| | `VerdictsAreFinal` | `OperationSpec => VerdictFinal` |
| | `VerdictStopsDispatch` | `OperationSpec => DispatchFenced` |
| `UploadProofs` | `UploadsTyped` | `UploadSpec => []UploadTypeOK` |
| | `ReferencesAreKept` | `UploadSpec => []ReferencesExist` |
| | `PartsAreTiled` | `UploadSpec => []PartsTile` |
| | `CommitsAreKept` | `UploadSpec => []CommittedKept` |
| | `LookupsFence` | `UploadSpec => []LookupFences` |
| | `DispatchedOnce` | `UploadSpec => []SentOnce` |
| | `StorageStaysBounded` | `UploadSpec => []StorageBounded` |
| `AdmissionProofs` | `AdmissionTyped` | `AdmissionSpec => []AdmissionTypeOK` |
| | `CountersExact` | `AdmissionSpec => []ActiveExact` |
| | `ProbesAreHeld` | `AdmissionSpec => []ProbesHeld` |
| | `LanesAreServed` | `AdmissionSpec => []LanesServed` |
| | `ReservationsStayCovered` | `AdmissionSpec => ReservationsKept` |
| `GatewayProofs` | `RecordedWasServed` | `GatewaySpec => []CommittedServed` |
| | `SupersededNeverWrites` | `GatewaySpec => TermsFenced` |

*Assumptions.* Constants have their types (`ConstantsAssumption`,
`MembershipAssumption`, `OperationAssumption`, `UploadAssumption`,
`AdmissionAssumption`, `GatewayAssumption`); a membership is finite and not empty
and the canary is a member (`MembersAssumption`, `CanaryAssumption`); uploads and
priority classes, over which sums are taken, are finite; the value
that stands for "absent" is none of the values it is told from (`NoneAssumption`,
`NilAssumption`, parts of the others). Two of them say something about the code:
`AdmissionAssumption` takes `half_open_max_probes` and `half_open_successes` as
positive, which the validation of the configuration enforces, and `RequestsApart`
says that no composite demand holds the global request slot together with another
slot, which is how the proxy calls the runtime (section 5 has what happens
otherwise). TLC evaluates all of them in the runs.

*Method.* An invariant of a run is seldom inductive. Each proof module names the
inductive one, TLC checked it on the run's instance before the proof, and one
lemma per action shows that it is kept. The arguments:

* **Ledger and refinement.** Every step either leaves committed revision,
  reservation and the outcome of each mutation alone (`LedgerQuiet`), or is an
  admission, a plan or a terminal write; a plan moves along an edge between active
  states (`PlanStep`), a terminal write along an edge into a terminal one, and it
  can only release its own reservation.
* **Effects.** `EffectRecorded` is not inductive: a coordinator writes a plan it
  made from older rows. `PlanSound` says of every plan that is still pending: the
  rows it was made from had the effect bit their state requires, so that the
  compare-and-set on state and version in `PlanFence` carries this over to the rows
  it writes. `EffectCheckpointed` adds that a checkpoint's epoch is never
  overwritten and that a row with an effect is never stamped again.
* **Phases.** `PhaseAgreement` needs three more parts. `WorkerSound`: at every step
  of its work item a worker knows the state its row had when it was scanned, and
  from "applying" on that its effect is recorded, so that of all edges the state
  machine allows it takes only the moves of its own phase (`MemberMove`).
  `CoordinatorSound`: the plan of a coordinator, however old, has the shape that
  `classify` and `transition_plan` give to the phase it was read in (`PlanShape`),
  phases are numbered and only grow (`PhaseNo`, `PhaseStep`), and while the
  mutation is still in that phase the rows still say what the plan relies on
  (`PlanBasis`): nothing takes back a validation in "validating" or an
  acknowledgement before a rollback (`RowsStable`). The compare-and-set on the
  phase then makes the stale plan as good as a fresh one (`PlanKeepsPhase`).
* **Commit evidence.** `verify_commit` reads rows, `CommitConverged` is about
  processes. `CommitBasis` ties them: an acknowledgement written by the present boot
  is true of the process as long as the mutation is active (`AckOk`). What could
  make it false is the process's own loop: a restarted loop converges to the
  committed revision, which is the one the request started from, and a worker that
  was left behind by an earlier rollout could still apply or restore. Both are
  excluded by the etag. It only grows within a boot, every command is pinned to the
  etag of the member that admitted it, and a request is pinned later than the
  revision it starts from (`LedgerOk`), because admission asks every member for a
  ready head, which a process publishes only when it is past that revision
  (`HeadOk`, `ProcessOk`, `SlotOk`). So an etag that has passed the request has
  passed the committed revision, and convergence does not apply it again
  (`ConvergeKeeps`); and while the row is acknowledged there is no work item to
  load for the one request that is in flight (`LoadKeeps`). A new boot starts with
  a boot number that no row carries (`BootKeeps`).
* **Calm clusters.** `CalmFaults` is `Faults \subseteq {"timeout", "lease"}`: any
  phase may expire and coordinators may fence each other at any point, members may
  refuse every candidate (`Rejects`), but no process stops, no heartbeat lapses, no
  store call is lost and nothing is refused for once. Each of these four, alone,
  breaks the three properties: TLC finds the counterexamples, under `"lapse"`
  and `"store"` with one request (two for `AdmissionConverged`), under `"reject"` and
  `"stop"` with two (three for `AdmissionConverged`), so no other fault can be added
  to the hypothesis. The invariant `Calm` says
  exactly what each process runs. Beside the step of its worker (`StepTrue`) there
  are its rows: in a request in flight past validation, a row without an effect
  means the revision the request started from, and one with an effect that nobody
  works on means the candidate with that revision in the rollback slot (`RowTrue`);
  a worker in the middle of a rollback still finds the row it read (`RowFollows`),
  since plans do not touch a row that is being rolled back. The difficult case is a
  worker that is left with the work item of a rollout that has ended while the next
  one is admitted (finding 2 of section 5). It may apply late, so nothing is
  claimed of the process while the new request is validated; it is claimed when the
  validation ends, because the fence of that plan asks for a ready head at the
  committed revision (`EvidenceOk`), which such a worker has not published
  (`RowTrueKept`), and because the member validated the new request only after it
  had dropped the old work item. `Anchored` adds that the revision a request
  started from stays the committed one until it ends. The proof goes member by
  member: `OthersCalm` for the steps of everybody else, one lemma for each step of
  the worker, `WorkCalm` for what they share.
* **Decisions.** `classify` is a function of the snapshot. Tables of what each
  phase can decide (`DirectiveTable`, `DeadlineTable`, `PlanTable`,
  `TerminalTable`) are proved once; soundness follows phase by phase.
* **Membership.** `Chain` and `OneWaiting` describe the epochs and the one
  transition that may wait; `TransitionPlaced` and `EpochLinked` tie a transition
  to its epoch; `InFlightPlaced` says under which head a mutation was claimed and
  what it may still publish. The key lemma is `NoneInFlight`: when the guard of the
  finalization holds, nothing is in flight, so the new head has no mutation of the
  old one to meet. `VerdictsKept` and `MembersProved` are inductive beside these.
* **Operations.** `RowSound` is about the journal (a success has executed
  everything, a checkpoint covers executed items only, a verdict has no owner),
  `RunSound` about a run whoever owns the row by now: it has executed every item
  before its next. A run that lost its lease writes nothing since every update
  compares owner, epoch and revision. The two action properties follow from the
  invariant step by step.
* **Uploads.** `SessionsSound` says the same of memory and of disk (own drawn keys,
  no object before there is one, tiled parts, a reservation at the offset, files of
  what is not deleted exist) and how the two are related (`Carried`); `ClientsSound`
  relates the history to both (what was promised has no reservation, what was sent
  is beyond `Ready` in memory and on disk); `TasksSound` is what a request between
  two transactions relies on: its file exists, its key is fresh and named by no
  journal, what it tombstoned is gone in both, what it claimed for dispatch is not
  yet sent, and no two tasks share a draw or a claimed dispatch. Most steps change
  a session only in ways that none of this looks at (`Quiet`).
* **Storage budget.** The usage of a profile is the number of elements of a
  disjoint union, one element per accounted byte, and so is every sum of the
  project that a theorem is about: what a fold computes needs induction over data,
  a cardinality has lemmas (`UsageShrinks`, `UsageGrows`). `StorageBounded` is not
  inductive, since a task records its result in another transaction than the one
  that looked at the budget. `Budgeted` says what it relies on in between: the part
  it wrote fits the reservation of the session, what it builds is no more than its
  session accounts for as long as the session's epoch is the task's, and the journal
  on disk, which a crash puts in memory, is within the limit too.
* **Admission.** Counters: a step moves one caller (`Move`), so each of the sets
  behind the counters gains or loses that caller or stays as it is (`CountMoves`);
  the saturating decrements never saturate, because the caller that gives back is
  counted. Wake-ups: the queue is looked at through two relations, who is in line
  and who came before whom, and `CompositeAdmissible` is restated with them
  (`Entitled`). `WaitersSound` says that a composite caller that listens without a
  permit is `Settled`: it is not entitled, and if it is its turn, none of its
  circuits waits for a timeout, because the passing of time notifies nobody. Each
  action that makes room notifies; each that does not (`QuietLeave`,
  `QuietPriority`, `QuietComposite`, `QuietCheck`, `QuietEntry`, `QuietTimeout`)
  leaves every settled caller settled. The hardest is an admission that notifies
  nobody: it takes room from others, but it could also take the room of a waiter
  that stood in the way of another one; for a composite admission the waiter in the
  way would have forbidden it, for one of a priority class `RequestsApart` does.
* **Reservations.** A class never holds more reserved slots than it has reserved
  (`WithinReservations`). With `CountersExact` the global counter is the sum of
  untracked, shared and reserved leases, so that the check of the shared capacity in
  `can_admit` is the statement that the unfilled reservations still fit
  (`AdmissionCovers`); a reserved lease moves one unit from one side to the other.
* **Gateway.** `ServedNow`: a revision whose pods are all ready is in the history;
  `DecisionVouched`: a commit that was decided, and may land later, is about a
  revision that was served; `StampFenced`: a stamped write whose resource version
  is still current is not older than the workload it would replace.

*Only model-checked.* Liveness (`RolloutTerminates`, `CommitsUnlessRefused`,
`OperationsSettle`, `ActivationResolves`): fairness is out of the prover's reach.
`AdmissionConverged`, `RestoredUnlessTwice` and `SettledUnlessTwice` with the faults
that `CalmFaults` excludes: there they hold only for the one request of a scenario
of section 3, with the exception `Twice` where heartbeats lapse or store calls fail.

## 5. Where the code disagrees with what is written about it

Each is a run whose property TLC violates; `PROJECT.json`, "findings", has the
lines and the quotations.

1. `CommandUnserved` (the code as it is). A coordinator fetches the encrypted
   command before it takes the fence, but the query serves no target that is
   still `pending`, and only the coordinator's first plan moves targets out of
   `pending`. A claimed mutation stays claimed, and its resource reserved.
2. `LateApply` (all queries taken as repaired, as in the next). A worker between
   two steps of its assignment applies after the rollout has been rolled back and
   released.
3. `AckedRestart`. A member that acknowledged and restarts makes the evidence
   check of the coordinator fence fail for good: no receipt is ever written.
4. `PriorityStranded`. A waiter of a priority class that found another one
   selected goes back to sleep, and the admission of the other one wakes nobody:
   it sleeps beside a free slot until another release or its timeout. Composite
   admission notifies in the same place, and `LanesServed` holds there.
5. `MembershipStale`. The finalization of a committed activation checks the
   freshness of its evidence again. One that commits too late is refused at every
   heartbeat, cannot be cancelled because it is authorised, and keeps every other
   membership mutation out.
6. `OpsCheckpoint`. The progress report of a cache warm clears the checkpoint the
   item before it committed, so a crash inside an item repeats recorded items.
7. `AdoptedProgrammed`. A replica that takes over a committed workload after the
   sources changed returns the state it adopted as the outcome of this
   reconciliation; the proof it then makes is about the old revision, and
   `Programmed` is reported for sources that render to another one, until the
   next reconciliation.

Further disagreements the models show when an instance is changed, without a run
of their own:

* `Repairs` without `"scan"`: the scan for member work does not select two
  columns its decoder reads, so the member loop fails on its first work item and
  is restarted without end. Without `"settled"`, in a run with timeouts, a
  completed rollback never gets its receipt, because the query of finding 1 does
  not serve a rolled back target either.
* `Rejects` naming every member: a candidate that every member refuses is never
  failed, since the coordinator's own validation comes before its fence and it
  cannot even act on the timeout.
* `"lapse"` alone or `"store"` alone, one request and `MaxEtag` 4: `RollbackRestores`
  and `SettledHeadTruthful` fail. The apply succeeds and the publication of its head
  does not, so the row is nacked and rolled back. `executor.rollback` restores the
  prior snapshot, the publication after it (`admin_cluster_runtime.rs:585`) fails,
  and the next scan finds the row still rolling back: the second restore swaps the
  process back to the candidate, the prior head is published as ready and the row
  reported as rolled back. `docs/AdminAPI.md:697` says that a receipt "becomes
  `indeterminate`" if "neither convergence nor restoration can be proved"; here the
  restoration is taken as proved. With a second request `AdmissionConverged` fails.
* `"reject"` alone and two requests: `RollbackRestores` and `SettledHeadTruthful`
  fail. An apply that is refused has changed nothing, but its row records a started
  effect, so the rollback swaps the process back to the snapshot before the one it
  should keep; with a third request `AdmissionConverged` fails too. The same with
  `"stop"` alone: a process that stops in the middle of an apply converges to the
  committed revision when it boots, and the rollback of the interrupted apply then
  swaps it back to the configuration on disk.
* `"store"`: `SettledHeadTruthful` fails in two more ways. A restarted member loop
  publishes the head observed at boot (`startup.rs:24`), and a member that restored
  but could not publish is left with its old head when another member's failed
  rollback blocks the mutation.
* `"store"` or `"lapse"`: a checkpoint that was written before a failed step cannot
  be written again, because its nonce is fresh (`rollout_store_payload.rs:390`), so
  the assignment waits for its deadline. `CheckpointFence` has this step and the
  scenarios reach it; that the rollout then ends is not checked, since fairness says
  nothing of a store that may always fail.
* A command is pinned to the local etag of the member that admitted it; members
  that restarted or rolled back have another etag for the same configuration and
  refuse (a NACK and a rollback in the model).
* Admission: `RequestsApart` is true of the proxy, not of the runtime's interface.
  `admit_route_request`, which only tests call, asks for the global request slot
  and the route's together. With such demands (`SlotSets` of {global, route} and
  {route}) `LanesServed` fails: the admission of a prioritised request takes the
  global slot from a waiter that stood in the way of another one, and notifies
  nobody.
* Gateway: a rollback keeps the start time of the attempt that timed out, so it
  is overdue at its first look and is marked `Failed`, with the committed
  revision as the failed one. The candidate that timed out is then not blocked
  but tried again, while `docs/GatewayAPI.md:617` says that the controller
  "verifies rollback before reporting failure" (`FailOrRollback`, `Decide`).

## 6. Plan

1. Done: the modules of section 2, the runs of section 3, the proofs of section 4.
2. Modules: the PostgreSQL and S3 upload store with `UploadStore`'s promises as
   the abstract specification; shared publication with the members' observations;
   single-flight cache fill; lifecycle and drain; reload.

## 7. Not modelled

The repository has more than 400,000 lines. Most of them are the data plane
(HTTP, QUIC, WebTransport, streams, TURN), parsers and validators of
configuration, rule evaluation, TLS and other cryptography, metrics, and test
support: code whose behaviour is a function of one request or one file, or that
belongs to a library. A model of it would be a transliteration with nothing
concurrent to check, so the mapped share of the implementation stays low; the
modelled components are those with durable or shared state and failures. Within
them, left out are:

* Rollout: file, TLS, key and secret-reference operations of the executor; the
  single-instance mode of the ledger, idempotent replay and receipt retention;
  the effects of IPM and break-glass publications; the audit chain.
* Membership: the contents of evidence and of the catch-up manifest, the
  invalidation of heartbeats and the binding of logical revisions at a cutover,
  the re-keying of artifacts, the text of blocking reasons, version 1 epochs.
* Operations: the compensatable class (no operation has it), ephemeral
  operations, event streams, the shutdown flag, pruning of local records, sealing
  of artifacts, repeated authorization checks.
* Uploads: `postgres_s3.rs`; reads; the durability of the directory entries of
  chunks; the limit of a pass that removes orphans; the second attempt of a
  failed `finish_dispatch` when its guard is dropped.
* Admission: the dynamic limit of the retry budget, the sample window of a circuit
  (it may trip whenever a request failed), the growth of open timeouts, a poisoned
  mutex, the automatic sizing of limits.
* Gateway: translation, creation of ConfigMaps and Secrets and the cleanup of
  retired ones, replicated target sets, dry runs, conditions of single objects,
  the durations of leases (a Lease may be taken at any time).
