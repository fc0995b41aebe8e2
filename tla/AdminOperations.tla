--------------------------- MODULE AdminOperations ---------------------------
(* Durable Admin operations (server/admin_operations): a journal row per
   operation in PostgreSQL, and on every instance the runs that execute, renew,
   checkpoint and finish it, the cancellation requests, and the recovery sweep
   that requeues or terminalizes what lost its owner.

   An owner is an instance and its boot; its fence is the lease epoch and the
   revision, which every change of the row increments.                       *)
EXTENDS Integers, FiniteSets

CONSTANTS Workers,          \* instances
          Ops,              \* operation identifiers
          OpKinds,          \* subset of {"warm", "restartable", "nonresumable"}
          WarmItems,        \* items of a cache warm; other operations have one
          MaxQueued, MaxStored, MaxRunning,
          Absent,
          OpFaults,         \* subset of {"stop", "pause", "fail", "replay", "anchor"}
          MaxOpBoots,       \* bound: boots of an instance
          MaxLeases,        \* bound: claims of an operation
          MaxCancels        \* bound: cancellation requests for an operation

ASSUME OperationAssumption ==
  /\ OpKinds \subseteq {"warm", "restartable", "nonresumable"}
  /\ WarmItems \in Nat \ {0} /\ MaxOpBoots \in Nat \ {0} /\ MaxLeases \in Nat
  /\ MaxCancels \in Nat

VARIABLES row,      \* the journal
          boot,     \* the boot of each instance
          up,       \* the instances that run
          run,      \* what an instance's local record of an operation is doing
          pending,  \* operations an instance accepted and has not queued yet
          request,  \* the lease a cancellation found, until it has acted on it
          sweep,    \* what a recovery sweep still has to reconcile
          effects   \* history: the items executed, recorded, and executed again

opVars == <<row, boot, up, run, pending, request, sweep, effects>>

LiveStates == {"accepted", "queued", "claimed", "running", "cancellation_requested"}

TerminalStates == {"succeeded", "failed", "cancelled", "indeterminate"}

Owner == [worker : Workers, boot : 1..MaxOpBoots]

Lease == [owner : Owner \cup {Absent}, epoch : Nat, revision : Nat]

HeldLease == [owner : Owner, epoch : Nat, revision : Nat]

Row == [kind : OpKinds, state : LiveStates \cup TerminalStates,
        owner : Owner \cup {Absent}, epoch : Nat, revision : Nat,
        live : BOOLEAN,                        \* the lease has not expired
        old : BOOLEAN,                         \* the lifetime has expired
        checkpoint : 0..WarmItems \cup {Absent}, submitter : Owner,
        confirmed : BOOLEAN]

RunStates == {"none", "ready", "claimed", "item", "executing", "record", "working", "done", "ended"}

Run == [pc : RunStates, lease : HeldLease \cup {Absent}, next : Nat,
        cancel : BOOLEAN, lost : BOOLEAN, result : {"ok", "error", "cancelled"}]

NoRun == [pc |-> "none", lease |-> Absent, next |-> 1, cancel |-> FALSE, lost |-> FALSE,
          result |-> "ok"]

ItemsOf(kind) == IF kind = "warm" THEN WarmItems ELSE 1

Me(w) == [worker |-> w, boot |-> boot[w]]

LeaseOf(r) == [owner |-> r.owner, epoch |-> r.epoch, revision |-> r.revision]

IsTerminal(o) == row[o] # Absent /\ row[o].state \in TerminalStates

IsLive(o) == row[o] # Absent /\ row[o].state \in LiveStates

OperationInit ==
  /\ row = [o \in Ops |-> Absent]
  /\ boot = [w \in Workers |-> 1] /\ up = Workers
  /\ run = [w \in Workers |-> [o \in Ops |-> NoRun]]
  /\ pending = [w \in Workers |-> {}]
  /\ request = [w \in Workers |-> [o \in Ops |-> Absent]]
  /\ sweep = [w \in Workers |-> [o \in Ops |-> "none"]]
  /\ effects = [o \in Ops |-> [submitted |-> FALSE, cancels |-> 0, executed |-> {}, recorded |-> {},
                               again |-> FALSE]]

--------------------------------------------------------------------------------
(* The journal *)

\* every update increments the revision
Update(o, r) == row' = [row EXCEPT ![o] = [r EXCEPT !.revision = row[o].revision + 1]]

Released(r) == [r EXCEPT !.owner = Absent, !.live = FALSE]

(* Faulty variant: who owns the row is not compared. *)
SameEpoch(o, lease) == row[o] # Absent /\ row[o].epoch = lease.epoch

SameLease(o, lease) ==
  /\ row[o] # Absent /\ row[o].owner # Absent
  /\ row[o].owner = lease.owner /\ row[o].epoch = lease.epoch

Fenced(o, lease) == SameLease(o, lease) /\ row[o].revision = lease.revision /\ row[o].live

\* the terminal row keeps no owner; its audit is confirmed at once unless it is anchored
Terminated(r, state) == [Released(r) EXCEPT !.state = state, !.confirmed = "anchor" \notin OpFaults]

(* A row that was not running passes through cancellation_requested. *)
Terminalize(o, state) ==
  LET steps == IF row[o].state \in {"accepted", "queued", "claimed"} THEN 2 ELSE 1
  IN row' = [row EXCEPT ![o] = [Terminated(row[o], state) EXCEPT !.revision = @ + steps]]

SetRun(w, o, r) == run' = [run EXCEPT ![w][o] = r]

\* a local record is made once in the life of a process
Spawn(w, o, next) ==
  IF run[w][o].pc = "none" THEN SetRun(w, o, [NoRun EXCEPT !.pc = "ready", !.next = next])
                           ELSE UNCHANGED run

--------------------------------------------------------------------------------
(* Submission *)

Waiting == {o \in Ops : row[o] # Absent /\
                        row[o].state \in {"accepted", "queued", "cancellation_requested"}}

NewRow(w, kind, state, revision) ==
  [kind |-> kind, state |-> state, owner |-> Absent, epoch |-> 0, revision |-> revision,
   live |-> FALSE, old |-> FALSE, checkpoint |-> Absent, submitter |-> Me(w),
   confirmed |-> FALSE]

(* Accepted and queued in one transaction; with anchoring the audit event of the
   acceptance is published in between.                                       *)
Submit(w, o, kind) ==
  /\ w \in up /\ ~effects[o].submitted
  /\ Cardinality(Waiting) < MaxQueued
  /\ Cardinality({p \in Ops : row[p] # Absent}) < MaxStored
  /\ effects' = [effects EXCEPT ![o].submitted = TRUE]
  /\ IF "anchor" \in OpFaults
     THEN /\ row' = [row EXCEPT ![o] = NewRow(w, kind, "accepted", 1)]
          /\ pending' = [pending EXCEPT ![w] = @ \cup {o}]
          /\ UNCHANGED run
     ELSE /\ row' = [row EXCEPT ![o] = NewRow(w, kind, "queued", 2)]
          /\ Spawn(w, o, 1)
          /\ UNCHANGED pending
  /\ UNCHANGED <<boot, up, request, sweep>>

Queue(w, o) ==
  /\ w \in up /\ o \in pending[w]
  /\ pending' = [pending EXCEPT ![w] = @ \ {o}]
  /\ IF row[o] # Absent /\ row[o].state = "accepted"
     THEN Update(o, [row[o] EXCEPT !.state = "queued"]) /\ Spawn(w, o, 1)
     ELSE UNCHANGED <<row, run>>
  /\ UNCHANGED <<boot, up, request, sweep, effects>>

(* The same request again, with its idempotency key, to any instance. *)
Replay(w, o) ==
  /\ "replay" \in OpFaults /\ w \in up /\ o \notin pending[w]
  /\ row[o] # Absent /\ row[o].state \in {"accepted", "queued"}
  /\ IF row[o].state = "accepted" THEN Update(o, [row[o] EXCEPT !.state = "queued"])
                                  ELSE UNCHANGED row
  /\ Spawn(w, o, 1)
  /\ UNCHANGED <<boot, up, pending, request, sweep, effects>>

--------------------------------------------------------------------------------
(* One run of an operation *)

Holding == {"claimed", "item", "executing", "record", "working", "done"}

Claim(w, o) ==
  /\ w \in up /\ run[w][o].pc = "ready"
  /\ Cardinality({p \in Ops : run[w][p].pc \in Holding}) < MaxRunning
  /\ IF row[o] # Absent /\ row[o].state = "queued" /\ row[o].owner = Absent /\ ~row[o].old
     THEN /\ row[o].epoch < MaxLeases
          /\ Update(o, [row[o] EXCEPT !.state = "claimed", !.owner = Me(w),
                                      !.epoch = @ + 1, !.live = TRUE])
          /\ SetRun(w, o, [run[w][o] EXCEPT !.pc = "claimed", !.lease = LeaseOf(row'[o])])
     ELSE SetRun(w, o, [run[w][o] EXCEPT !.pc = "ended"]) /\ UNCHANGED row
  /\ UNCHANGED <<boot, up, pending, request, sweep, effects>>

Finishable(o, state) ==
  row[o].state \in (IF state = "cancelled" THEN {"cancellation_requested"}
                    ELSE {"running", "cancellation_requested"})

(* Faulty variant: a finish does not look at the lease. *)
FinishUnfenced(o, lease, state) ==
  IF row[o] # Absent THEN Update(o, Terminated(row[o], state)) ELSE UNCHANGED row

(* A finish reloads the row, and commits if the owner and the epoch are those of
   the lease it was given and the lease has not expired.                     *)
FinishWithAudit(o, lease, state) ==
  IF SameLease(o, lease) /\ row[o].live /\ Finishable(o, state)
  THEN Update(o, Terminated(row[o], state))
  ELSE UNCHANGED row

(* A run that cannot start finishes a cancelled operation with the lease it
   finds in the row.                                                         *)
Start(w, o) ==
  LET r == run[w][o]
  IN /\ w \in up /\ r.pc = "claimed"
     /\ IF Fenced(o, r.lease) /\ row[o].state = "claimed"
        THEN /\ Update(o, [row[o] EXCEPT !.state = "running"])
             /\ SetRun(w, o, [r EXCEPT !.lease = LeaseOf(row'[o]),
                                !.pc = IF row[o].kind = "warm" THEN "item" ELSE "working"])
        ELSE /\ SetRun(w, o, [r EXCEPT !.pc = "ended"])
             /\ IF row[o] # Absent /\ row[o].state = "cancellation_requested"
                THEN FinishWithAudit(o, LeaseOf(row[o]), "cancelled")
                ELSE UNCHANGED row
     /\ UNCHANGED <<boot, up, pending, request, sweep, effects>>

\* the lease as the row has it now, if it is still this one
Refreshed(o, r) ==
  [r EXCEPT !.lease = LeaseOf(row[o]),
            !.cancel = @ \/ row[o].state = "cancellation_requested"]

Stopped(r, result) == [r EXCEPT !.pc = "done", !.result = result]

UpdateProgress(o, checkpoint) == Update(o, [row[o] EXCEPT !.checkpoint = checkpoint])

Writable(o, r) == Fenced(o, r.lease) /\ row[o].state = "running"

(* Before an item: check for cancellation, report progress, check again. *)
Progress(w, o) ==
  LET r == run[w][o]
      onward(s) == IF s.cancel /\ s.next <= WarmItems THEN Stopped(s, "cancelled")
                   ELSE IF s.next > WarmItems THEN Stopped(s, "ok")
                   ELSE [s EXCEPT !.pc = "executing"]
  IN /\ w \in up /\ r.pc = "item"
     /\ IF r.cancel /\ r.next <= WarmItems
        THEN SetRun(w, o, Stopped(r, "cancelled")) /\ UNCHANGED row
        ELSE IF Writable(o, r)
             THEN /\ UpdateProgress(o, Absent)
                  /\ SetRun(w, o, onward([r EXCEPT !.lease = LeaseOf(row'[o])]))
             ELSE /\ SetRun(w, o, onward(IF SameLease(o, r.lease) THEN Refreshed(o, r)
                                         ELSE [r EXCEPT !.cancel = TRUE]))
                  /\ UNCHANGED row
     /\ UNCHANGED <<boot, up, pending, request, sweep, effects>>

(* An item of a cache warm, or the whole of another operation. *)
Execute(w, o) ==
  LET r == run[w][o]
  IN /\ w \in up /\ r.pc \in {"executing", "working"}
     /\ \/ /\ SetRun(w, o, IF r.pc = "working" THEN Stopped(r, "ok")
                            ELSE [r EXCEPT !.pc = "record"])
           /\ effects' = [effects EXCEPT ![o].executed = @ \cup {r.next},
                                         ![o].again = @ \/ r.next \in effects[o].recorded]
        \/ "fail" \in OpFaults /\ SetRun(w, o, Stopped(r, "error")) /\ UNCHANGED effects
     /\ UNCHANGED <<row, boot, up, pending, request, sweep>>

Checkpoint(w, o) ==
  LET r == run[w][o]
      kept == [r EXCEPT !.lease = LeaseOf(row'[o]), !.next = @ + 1]
  IN /\ w \in up /\ r.pc = "record"
     /\ IF Writable(o, r)
        THEN /\ UpdateProgress(o, r.next)
             /\ SetRun(w, o, IF r.cancel THEN Stopped(kept, "cancelled")
                             ELSE [kept EXCEPT !.pc = "item"])
             /\ effects' = [effects EXCEPT ![o].recorded = @ \cup {r.next}]
        ELSE /\ SetRun(w, o, Stopped([r EXCEPT !.cancel = TRUE], "cancelled"))
             /\ UNCHANGED <<row, effects>>
     /\ UNCHANGED <<boot, up, pending, request, sweep>>

(* The renewal task: an unfenced lease is reread, or its authority is lost. *)
RenewLease(w, o) ==
  LET r == run[w][o]
  IN /\ w \in up /\ r.pc \in {"item", "executing", "record", "working"} /\ ~Fenced(o, r.lease) /\ ~r.lost
     /\ SetRun(w, o, IF SameLease(o, r.lease) THEN Refreshed(o, r)
                     ELSE [r EXCEPT !.cancel = TRUE, !.lost = TRUE])
     /\ UNCHANGED <<row, boot, up, pending, request, sweep, effects>>

Outcome(r) == CASE r.result = "ok" -> "succeeded"
                [] r.result = "error" -> "failed"
                [] r.result = "cancelled" -> "cancelled"

Finish(w, o) ==
  LET r == run[w][o]
  IN /\ w \in up /\ r.pc = "done"
     /\ SetRun(w, o, [r EXCEPT !.pc = "ended"])
     /\ IF r.lost THEN UNCHANGED row
                  ELSE FinishWithAudit(o, r.lease, Outcome(r))
     /\ UNCHANGED <<boot, up, pending, request, sweep, effects>>

--------------------------------------------------------------------------------
(* Cancellation: the request is committed, then acted on *)

RequestCancel(w, o) ==
  /\ w \in up /\ IsLive(o) /\ request[w][o] = Absent /\ effects[o].cancels < MaxCancels
  /\ IF row[o].state = "cancellation_requested" THEN UNCHANGED row
     ELSE Update(o, [row[o] EXCEPT !.state = "cancellation_requested"])
  /\ request' = [request EXCEPT ![w][o] = LeaseOf(row'[o])]
  /\ effects' = [effects EXCEPT ![o].cancels = @ + 1]
  /\ UNCHANGED <<boot, up, run, pending, sweep>>

\* the lease of a run is replaced by the one the request found, if there was one
Adopted(held, lease) == IF held # Absent /\ lease.owner # Absent THEN lease ELSE held

(* The run on this instance is told, with the lease that the request found; an
   operation that nobody owned is cancelled, unless it has changed since.    *)
ActOnCancel(w, o) ==
  LET lease == request[w][o]
      r == run[w][o]
  IN /\ w \in up /\ lease # Absent
     /\ request' = [request EXCEPT ![w][o] = Absent]
     /\ IF r.pc = "none" THEN UNCHANGED run
        ELSE SetRun(w, o, [r EXCEPT !.cancel = TRUE, !.lease = Adopted(@, lease)])
     /\ IF lease.owner = Absent /\ IsLive(o) /\ row[o].revision = lease.revision
        THEN Terminalize(o, "cancelled")
        ELSE UNCHANGED row
     /\ UNCHANGED <<boot, up, pending, sweep, effects>>

--------------------------------------------------------------------------------
(* The recovery sweep *)

Expired(o) == row[o].owner # Absent /\ ~row[o].live

Recoverable(r) ==
  ~r.old /\ (r.state \in {"accepted", "queued", "claimed"} \/ r.kind # "nonresumable")

RecoveredState(r) ==
  IF r.state = "cancellation_requested" THEN r.state ELSE "queued"

(* Faulty variant: the lifetime of an operation is not looked at. *)
RecoverLapsed(w, o) ==
  /\ w \in up /\ sweep[w][o] = "none" /\ IsLive(o) /\ Expired(o)
  /\ IF Recoverable(row[o])
     THEN /\ Update(o, [Released(row[o]) EXCEPT !.state = RecoveredState(row[o])])
          /\ sweep' = [sweep EXCEPT ![w][o] = "recovered"]
     ELSE sweep' = [sweep EXCEPT ![w][o] = "terminalize"] /\ UNCHANGED row
  /\ UNCHANGED <<boot, up, run, pending, request, effects>>

(* An expired lease is taken away in the transaction that selects it; what
   cannot be recovered is left for the sweep to terminalize.                 *)
RecoverExpired(w, o) ==
  /\ w \in up /\ sweep[w][o] = "none" /\ IsLive(o) /\ (Expired(o) \/ row[o].old)
  /\ IF Recoverable(row[o])
     THEN /\ Update(o, [Released(row[o]) EXCEPT !.state = RecoveredState(row[o])])
          /\ sweep' = [sweep EXCEPT ![w][o] = "recovered"]
     ELSE /\ sweep' = [sweep EXCEPT ![w][o] = "terminalize"]
          /\ UNCHANGED row
  /\ UNCHANGED <<boot, up, run, pending, request, effects>>

Orphaned(w, o) ==
  \/ row[o].owner # Absent /\ row[o].owner.worker = w /\ row[o].owner.boot # boot[w]
  \/ row[o].owner = Absent /\ row[o].submitter.worker = w /\ row[o].submitter.boot # boot[w]

\* selected after the expired ones of the same sweep
RecoverOrphaned(w, o) ==
  /\ w \in up /\ sweep[w][o] = "none" /\ IsLive(o) /\ ~(Expired(o) \/ row[o].old)
  /\ Orphaned(w, o)
  /\ sweep' = [sweep EXCEPT ![w][o] = "recovered"]
  /\ UNCHANGED <<row, boot, up, run, pending, request, effects>>

(* Faulty variant: the item after the checkpoint is taken as done. *)
ResumeAfter(o) == IF row[o].checkpoint = Absent THEN 1 ELSE row[o].checkpoint + 2

ResumeFrom(o) == IF row[o].checkpoint = Absent THEN 1 ELSE row[o].checkpoint + 1

(* Only a cache warm is resumed, from its checkpoint, and only a queued one; a
   cancelled one without an owner is ended, a leased one left until its lease
   expires.  Every other operation becomes indeterminate.                    *)
Reconcile(w, o) ==
  /\ w \in up /\ sweep[w][o] # "none"
  /\ sweep' = [sweep EXCEPT ![w][o] = "none"]
  /\ \/ ~IsLive(o) /\ UNCHANGED <<row, run>>
     \/ /\ IsLive(o) /\ sweep[w][o] = "recovered" /\ row[o].kind = "warm"
        /\ \/ row[o].state = "queued" /\ Spawn(w, o, ResumeFrom(o)) /\ UNCHANGED row
           \/ /\ row[o].state = "cancellation_requested"
              /\ IF row[o].owner = Absent THEN Terminalize(o, "cancelled") ELSE UNCHANGED row
              /\ UNCHANGED run
           \/ row[o].state \in {"claimed", "running"} /\ UNCHANGED <<row, run>>
           \/ row[o].state = "accepted" /\ Terminalize(o, "indeterminate") /\ UNCHANGED run
     \/ /\ IsLive(o) /\ (sweep[w][o] = "terminalize" \/ row[o].kind # "warm")
        /\ Terminalize(o, "indeterminate") /\ UNCHANGED run
  /\ UNCHANGED <<boot, up, pending, request, effects>>

--------------------------------------------------------------------------------
(* Time, the audit anchor, and instances that stop and start *)

Renewed(o) ==
  LET own == row[o].owner
  IN /\ own.worker \in up /\ boot[own.worker] = own.boot
     /\ run[own.worker][o].pc \in Holding
     /\ SameLease(o, run[own.worker][o].lease) /\ ~run[own.worker][o].lost

\* a lease that is renewed in time expires only if its instance is paused
LeaseExpires(o) ==
  /\ row[o] # Absent /\ row[o].owner # Absent /\ row[o].live
  /\ "pause" \in OpFaults \/ ~Renewed(o)
  /\ row' = [row EXCEPT ![o].live = FALSE]
  /\ UNCHANGED <<boot, up, run, pending, request, sweep, effects>>

LifetimeExpires(o) ==
  /\ IsLive(o) /\ ~row[o].old
  /\ row' = [row EXCEPT ![o].old = TRUE]
  /\ UNCHANGED <<boot, up, run, pending, request, sweep, effects>>

\* by the instance that finished it, or by any that submits the checkpoint later
AnchorConfirms(o) ==
  /\ IsTerminal(o) /\ ~row[o].confirmed
  /\ row' = [row EXCEPT ![o].confirmed = TRUE]
  /\ UNCHANGED <<boot, up, run, pending, request, sweep, effects>>

StopWorker(w) ==
  /\ "stop" \in OpFaults /\ w \in up /\ boot[w] < MaxOpBoots
  /\ up' = up \ {w}
  /\ run' = [run EXCEPT ![w] = [o \in Ops |-> NoRun]]
  /\ pending' = [pending EXCEPT ![w] = {}]
  /\ request' = [request EXCEPT ![w] = [o \in Ops |-> Absent]]
  /\ sweep' = [sweep EXCEPT ![w] = [o \in Ops |-> "none"]]
  /\ UNCHANGED <<row, boot, effects>>

(* Starting prunes terminal rows whose retention is over and whose audit is
   confirmed.                                                                *)
StartWorker(w) ==
  /\ w \notin up
  /\ up' = up \cup {w} /\ boot' = [boot EXCEPT ![w] = @ + 1]
  /\ \E gone \in SUBSET {o \in Ops : IsTerminal(o) /\ row[o].confirmed} :
       row' = [o \in Ops |-> IF o \in gone THEN Absent ELSE row[o]]
  /\ UNCHANGED <<run, pending, request, sweep, effects>>

--------------------------------------------------------------------------------

RunStep(w, o) ==
  \/ Queue(w, o) \/ Claim(w, o) \/ Start(w, o) \/ Progress(w, o) \/ Execute(w, o)
  \/ Checkpoint(w, o) \/ RenewLease(w, o) \/ Finish(w, o)

SweepStep(w, o) == RecoverExpired(w, o) \/ RecoverOrphaned(w, o) \/ Reconcile(w, o)

OperationNext ==
  \/ \E w \in Workers, o \in Ops :
       \/ RunStep(w, o) \/ SweepStep(w, o)
       \/ Replay(w, o) \/ RequestCancel(w, o) \/ ActOnCancel(w, o)
       \/ \E kind \in OpKinds : Submit(w, o, kind)
  \/ \E w \in Workers : StopWorker(w) \/ StartWorker(w)
  \/ \E o \in Ops : LeaseExpires(o) \/ LifetimeExpires(o) \/ AnchorConfirms(o)

(* Time passes, an instance that stopped is started again, and one that runs
   goes on sweeping.                                                         *)
OperationFairness ==
  /\ \A w \in Workers : WF_opVars(StartWorker(w))
  /\ \A w \in Workers, o \in Ops : WF_opVars(SweepStep(w, o))
  /\ \A o \in Ops : WF_opVars(LifetimeExpires(o))

OperationSpec == OperationInit /\ [][OperationNext]_opVars /\ OperationFairness

--------------------------------------------------------------------------------
(* Type invariant *)
OperationTypeOK ==
  /\ row \in [Ops -> Row \cup {Absent}]
  /\ boot \in [Workers -> 1..MaxOpBoots] /\ up \subseteq Workers
  /\ run \in [Workers -> [Ops -> Run]]
  /\ pending \in [Workers -> SUBSET Ops]
  /\ request \in [Workers -> [Ops -> Lease \cup {Absent}]]
  /\ sweep \in [Workers -> [Ops -> {"none", "recovered", "terminalize"}]]

(* "It is never synthesized as success": an operation recorded as succeeded has
   executed every item, and a checkpoint covers executed items only, whichever
   instances and boots ran it and wherever they were interrupted.            *)
SuccessProved ==
  \A o \in Ops : row[o] # Absent =>
    /\ row[o].state = "succeeded" => 1..ItemsOf(row[o].kind) \subseteq effects[o].executed
    /\ row[o].checkpoint # Absent => 1..row[o].checkpoint \subseteq effects[o].executed

(* A terminal row is immutable but for the confirmation of its audit: no late
   finish, cancellation or sweep, of whatever boot, replaces a verdict.      *)
VerdictFinal ==
  [][\A o \in Ops : IsTerminal(o) =>
       row'[o] = Absent \/ row'[o] = [row[o] EXCEPT !.confirmed = row'[o].confirmed]]_opVars

(* No run sets out on another item once its operation has a verdict ("never
   dispatch another item"): only an item already begun can still complete.   *)
DispatchFenced ==
  [][\A w \in Workers, o \in Ops :
       run[w][o].pc # "executing" /\ run'[w][o].pc = "executing" => ~IsTerminal(o)]_opVars

(* Every operation ends with a verdict, in whatever step its submitter, its
   owner or a sweep stopped.                                                 *)
OperationsSettle == \A o \in Ops : IsLive(o) ~> ~IsLive(o)

(* "A crash can therefore repeat at most the in-flight item": an item whose
   checkpoint was committed is not executed again.                           *)
RecordedNotRepeated == \A o \in Ops : ~effects[o].again
===============================================================================
