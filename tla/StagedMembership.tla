--------------------------- MODULE StagedMembership ---------------------------
(* Staged membership of the admin cluster (admin_mutation/membership_store.rs,
   the claim barrier of rollout_store_payload.rs and the members' reconciliation
   in runtime/membership_reconciliation.rs).

   A proposal stages an epoch and a transition towards it; the members of the
   target epoch prove that they hold its key, a joining member that it has caught
   up; a second mutation authorizes the activation; once that one is committed,
   whichever member next heartbeats cuts the head over.  Every operation is one
   transaction.  A proposal, its epoch and its transition share an identifier. *)
EXTENDS Integers, FiniteSets

CONSTANTS Instances, Bootstrap,   \* instances, and those the configuration lists
          Established,          \* whether the first epoch is active from the start
          MaxRequests,          \* bound: mutations claimed
          MaxOrdinary,          \* bound: those that are not about membership
          MaxVersion,           \* bound: state_version up to which a reason is recorded
          MaxMembershipEpochs,  \* epochs retained before a proposal is refused
          None,
          MembershipFaults      \* subset of {"aging", "blocking", "indeterminate"}

Requests == 1..MaxRequests

ASSUME MembershipAssumption ==
  /\ MaxRequests \in Nat /\ MaxOrdinary \in Nat /\ MaxVersion \in Nat /\ MaxMembershipEpochs \in Nat
  /\ Bootstrap \subseteq Instances /\ IsFiniteSet(Instances)
  /\ None \notin Requests
  /\ Established \in BOOLEAN /\ (Established => MaxRequests > 1)

VARIABLES head,     \* the active epoch, or None
          epochs,   \* the staged and adopted epochs
          trans,    \* the transitions
          proofs,   \* the members that proved the key of a transition's epoch
          receipts, \* the readiness receipts of a transition
          stale,    \* the transitions with evidence older than its freshness window
          ledger    \* the protected mutations of the cluster

memberVars == <<head, epochs, trans, proofs, receipts, stale, ledger>>

EpochStates == {"staged", "active", "superseded", "cancelled", "indeterminate"}

TransitionStates == {"catching_up", "ready", "activation_authorized",
                     "active", "cancelled", "indeterminate"}

Kinds == {"initialize", "join", "remove"}   \* rejoin is as join, maintenance as remove

Capabilities == {"not_required", "pending", "compatible", "incompatible"}

LedgerStates == {"open", "committed", "rolled_back", "indeterminate"}

Actions == {"membership.propose", "membership.activate", "membership.cancel", "config.apply"}

Epoch == [state : EpochStates, sequence : Nat, predecessor : Requests \cup {None},
          members : SUBSET Instances]

Transition == [kind : Kinds, state : TransitionStates, version : Nat,
               source : Requests \cup {None}, member : Instances \cup {None},
               activation : Requests \cup {None}, capability : Capabilities]

Mutation == [action : Actions, target : Requests \cup {None}, revision : Requests \cup {None},
             state : LedgerStates, published : {"none", "applied", "restored"},
             priorState : TransitionStates \cup {None}, priorVersion : Nat]

ASSUME NoneAssumption == None \notin Epoch /\ None \notin Transition /\ None \notin Mutation

(* A cluster whose members were never recorded, or one whose first epoch is
   active: proposed by request 1 and activated by request 2.                 *)
FreshInit ==
  /\ head = None
  /\ epochs = [r \in Requests |-> None]
  /\ trans = [r \in Requests |-> None]
  /\ proofs = [r \in Requests |-> {}]
  /\ ledger = [r \in Requests |-> None]

Published(action, target, prior, version) ==
  [action |-> action, target |-> target, revision |-> None, state |-> "committed",
   published |-> "applied", priorState |-> prior, priorVersion |-> version]

EstablishedInit ==
  LET n == Cardinality(Bootstrap)
  IN /\ head = 1
     /\ epochs = [r \in Requests |-> IF r # 1 THEN None ELSE
          [state |-> "active", sequence |-> 0, predecessor |-> None, members |-> Bootstrap]]
     /\ trans = [r \in Requests |-> IF r # 1 THEN None ELSE
          [kind |-> "initialize", state |-> "active", version |-> n + 4, source |-> None,
           member |-> None, activation |-> 2, capability |-> "not_required"]]
     /\ proofs = [r \in Requests |-> IF r = 1 THEN Bootstrap ELSE {}]
     /\ ledger = [r \in Requests |->
          CASE r = 1 -> Published("membership.propose", None, None, 0)
            [] r = 2 -> Published("membership.activate", 1, "ready", n + 1)
            [] OTHER -> None]

MembershipInit ==
  /\ IF Established THEN EstablishedInit ELSE FreshInit
  /\ receipts = [r \in Requests |-> 0]
  /\ stale = {}

--------------------------------------------------------------------------------
(* Admission *)

Resolved(t) == trans[t].state \in {"active", "cancelled", "indeterminate"}

Pending == {t \in Requests : trans[t] # None /\ ~Resolved(t)}

InFlight == {r \in Requests : ledger[r] # None /\ ledger[r].state = "open"}

IsMembership(a) == a # "config.apply"

\* the resource `membership` stays reserved by a mutation that became indeterminate
MembershipReserved ==
  \E r \in Requests : /\ ledger[r] # None /\ IsMembership(ledger[r].action)
                      /\ ledger[r].state \in {"open", "indeterminate"}

NextRequest(r) == ledger[r] = None /\ \A q \in Requests : q < r => ledger[q] # None

Claimed(action, target) ==
  [action |-> action, target |-> target, revision |-> head,
   state |-> "open", published |-> "none", priorState |-> None, priorVersion |-> 0]

Insert(r, m) ==
  /\ NextRequest(r)
  /\ ledger' = [ledger EXCEPT ![r] = m]
  /\ UNCHANGED <<head, epochs, trans, proofs, receipts, stale>>

(* Every claim locks the head first, and is made under the active epoch.  *)
ClaimProposal(r) ==
  /\ ~MembershipReserved /\ Pending = {} /\ InFlight = {}
  /\ Insert(r, Claimed("membership.propose", None))

ClaimAction(r, action, t) ==
  /\ action \in {"membership.activate", "membership.cancel"}
  /\ ~MembershipReserved /\ InFlight = {}
  /\ t \in Pending /\ trans[t].activation = None
  /\ Insert(r, Claimed(action, t))

(* Faulty variant: a pending transition does not hold other mutations back. *)
ClaimUnbarred(r) ==
  /\ \A q \in InFlight : ~IsMembership(ledger[q].action)
  /\ Insert(r, Claimed("config.apply", None))

ClaimOrdinary(r) ==
  /\ Pending = {} /\ \A q \in InFlight : ~IsMembership(ledger[q].action)
  /\ Cardinality({q \in Requests : ledger[q] # None /\ ~IsMembership(ledger[q].action)})
       < MaxOrdinary
  /\ Insert(r, Claimed("config.apply", None))

--------------------------------------------------------------------------------
(* Publication of a membership mutation, once, by its coordinator *)

ActiveMembers == IF head = None THEN {} ELSE epochs[head].members

TargetMembers(kind, member) ==
  CASE kind = "initialize" -> Bootstrap
    [] kind = "join" -> ActiveMembers \cup {member}
    [] kind = "remove" -> ActiveMembers \ {member}

Proposable(kind, member) ==
  /\ kind = "initialize" => head = None /\ member = None
  /\ kind = "join" => head # None /\ member \in Instances \ ActiveMembers
  /\ kind = "remove" => member \in ActiveMembers
  /\ Cardinality(TargetMembers(kind, member)) >= 2

Publishes(r) ==
  /\ ledger[r] # None /\ ledger[r].state = "open" /\ ledger[r].published = "none"
  /\ InFlight = {r}

\* what a proposal asks for matters to no one before it is published
ApplyProposal(r, kind, member) ==
  /\ Publishes(r) /\ ledger[r].action = "membership.propose"
  /\ Cardinality({e \in Requests : epochs[e] # None}) < MaxMembershipEpochs
  /\ ledger[r].revision = head /\ Pending = {} /\ Proposable(kind, member)
  /\ epochs' = [epochs EXCEPT ![r] =
       [state |-> "staged", predecessor |-> head,
        sequence |-> IF head = None THEN 0 ELSE epochs[head].sequence + 1,
        members |-> TargetMembers(kind, member)]]
  /\ trans' = [trans EXCEPT ![r] =
       [kind |-> kind, source |-> head, member |-> member, activation |-> None,
        state |-> IF kind = "join" THEN "catching_up" ELSE "ready",
        version |-> IF kind = "join" THEN 2 ELSE 1,
        capability |-> IF kind = "join" THEN "pending" ELSE "not_required"]]
  /\ ledger' = [ledger EXCEPT ![r].published = "applied"]
  /\ UNCHANGED <<head, proofs, receipts, stale>>

(* Faulty variant: any proof of the key will do. *)
EvidencePartial(t) == proofs[t] # {} /\ t \notin stale

EvidenceValid(t) ==
  /\ proofs[t] = epochs[t].members
  /\ trans[t].kind = "join" => receipts[t] = 1
  /\ t \notin stale

AuthorizeActivation(r) ==
  LET t == ledger[r].target
  IN /\ Publishes(r) /\ ledger[r].action = "membership.activate"
     /\ trans[t].state = "ready" /\ epochs[t].state = "staged"
     /\ trans[t].kind = "join" => trans[t].capability = "compatible"
     /\ EvidenceValid(t)
     /\ trans' = [trans EXCEPT ![t].state = "activation_authorized",
                               ![t].version = @ + 1, ![t].activation = r]
     /\ ledger' = [ledger EXCEPT ![r].published = "applied",
                                 ![r].priorState = "ready",
                                 ![r].priorVersion = trans[t].version]
     /\ UNCHANGED <<head, epochs, proofs, receipts, stale>>

(* Faulty variant: a cancellation does not record what it cancels. *)
CancelUnrecorded(r) ==
  LET t == ledger[r].target
  IN /\ Publishes(r) /\ ledger[r].action = "membership.cancel"
     /\ trans[t].state \in {"catching_up", "ready"} /\ epochs[t].state = "staged"
     /\ epochs' = [epochs EXCEPT ![t].state = "cancelled"]
     /\ trans' = [trans EXCEPT ![t].state = "cancelled", ![t].version = @ + 1]
     /\ ledger' = [ledger EXCEPT ![r].published = "applied", ![r].priorVersion = trans[t].version]
     /\ UNCHANGED <<head, proofs, receipts, stale>>

CancelTransition(r) ==
  LET t == ledger[r].target
  IN /\ Publishes(r) /\ ledger[r].action = "membership.cancel"
     /\ trans[t].state \in {"catching_up", "ready"} /\ epochs[t].state = "staged"
     /\ epochs' = [epochs EXCEPT ![t].state = "cancelled"]
     /\ trans' = [trans EXCEPT ![t].state = "cancelled", ![t].version = @ + 1]
     /\ ledger' = [ledger EXCEPT ![r].published = "applied",
                                 ![r].priorState = trans[t].state,
                                 ![r].priorVersion = trans[t].version]
     /\ UNCHANGED <<head, proofs, receipts, stale>>

--------------------------------------------------------------------------------
(* The rollback of a published mutation *)

RestoreProposal(r) ==
  /\ trans[r].state \in {"catching_up", "ready"} /\ epochs[r].state = "staged"
  /\ trans' = [trans EXCEPT ![r].state = "cancelled", ![r].version = @ + 1]
  /\ epochs' = [epochs EXCEPT ![r].state = "indeterminate"]

RestoreActivation(r, t) ==
  /\ trans[t].activation = r /\ trans[t].state = "activation_authorized"
  /\ trans[t].version = ledger[r].priorVersion + 1
  /\ trans' = [trans EXCEPT ![t].state = "ready", ![t].version = @ + 1,
                            ![t].activation = None]
  /\ UNCHANGED epochs

RestoreCancellation(r, t) ==
  /\ trans[t].state = "cancelled" /\ trans[t].version = ledger[r].priorVersion + 1
  /\ epochs[t].state = "cancelled"
  /\ epochs' = [epochs EXCEPT ![t].state = "staged"]
  /\ trans' = [trans EXCEPT ![t].state = ledger[r].priorState, ![t].version = @ + 1]

Restore(r) ==
  LET m == ledger[r]
  IN /\ m # None /\ m.state = "open" /\ m.published = "applied"
     /\ \/ m.action = "membership.propose" /\ RestoreProposal(r)
        \/ m.action = "membership.activate" /\ RestoreActivation(r, m.target)
        \/ m.action = "membership.cancel" /\ RestoreCancellation(r, m.target)
     /\ ledger' = [ledger EXCEPT ![r].published = "restored"]
     /\ UNCHANGED <<head, proofs, receipts, stale>>

(* Faulty variant: a rollback does not wait for the restoration. *)
FinishUnrestored(r, verdict) ==
  LET m == ledger[r]
  IN /\ m # None /\ m.state = "open"
     /\ verdict = "committed" => m.published = "applied" \/ m.action = "config.apply"
     /\ verdict # "indeterminate"
     /\ ledger' = [ledger EXCEPT ![r].state = verdict]
     /\ UNCHANGED <<head, epochs, trans, proofs, receipts, stale>>

(* The rollout's verdict: a commit needs every member to have observed the
   publication, a rollback that nothing of it is left.                       *)
FinishMutation(r, verdict) ==
  LET m == ledger[r]
  IN /\ m # None /\ m.state = "open"
     /\ verdict = "committed" => m.published = "applied" \/ m.action = "config.apply"
     /\ verdict = "rolled_back" => m.published # "applied"
     /\ verdict = "indeterminate" => "indeterminate" \in MembershipFaults
     /\ ledger' = [ledger EXCEPT ![r].state = verdict]
     /\ UNCHANGED <<head, epochs, trans, proofs, receipts, stale>>

--------------------------------------------------------------------------------
(* What the members of the target epoch do on their heartbeats *)

SubmitKeyProof(t, m) ==
  /\ t \in Pending /\ epochs[t].state = "staged"
  /\ m \in epochs[t].members \ proofs[t]
  /\ proofs' = [proofs EXCEPT ![t] = @ \cup {m}]
  /\ trans' = [trans EXCEPT ![t].version = @ + 1]
  /\ UNCHANGED <<head, epochs, receipts, stale, ledger>>

SubmitReadiness(t) ==
  /\ trans[t] # None /\ trans[t].state = "catching_up"
  /\ trans[t].member \in proofs[t]
  /\ receipts' = [receipts EXCEPT ![t] = @ + 1]
  /\ trans' = [trans EXCEPT ![t].state = "ready", ![t].version = @ + 1,
                            ![t].capability = "compatible"]
  /\ UNCHANGED <<head, epochs, proofs, stale, ledger>>

(* A member that cannot prove, verify or match records why it blocks. *)
SetBlockingReason(t, capability) ==
  /\ "blocking" \in MembershipFaults
  /\ t \in Pending /\ trans[t].version < MaxVersion
  /\ trans' = [trans EXCEPT ![t].version = @ + 1, ![t].capability = capability]
  /\ UNCHANGED <<head, epochs, proofs, receipts, stale, ledger>>

EvidenceAges(t) ==
  /\ "aging" \in MembershipFaults
  /\ t \in Pending \ stale /\ proofs[t] # {}
  /\ stale' = stale \cup {t}
  /\ UNCHANGED <<head, epochs, trans, proofs, receipts, ledger>>

(* Every heartbeat first settles an indeterminate activation, then cuts over to
   the epoch of a committed one: fenced, superseded and activated at once.   *)
ReconcileIndeterminate(t) ==
  /\ trans[t] # None /\ trans[t].state = "activation_authorized"
  /\ ledger[trans[t].activation].state = "indeterminate"
  /\ trans' = [trans EXCEPT ![t].state = "indeterminate", ![t].version = @ + 1]
  /\ epochs' = [epochs EXCEPT ![t].state = "indeterminate"]
  /\ UNCHANGED <<head, proofs, receipts, stale, ledger>>

(* Faulty variant: the epoch that is left stays active. *)
FinalizeBeside(t) ==
  /\ trans[t] # None /\ trans[t].state = "activation_authorized"
  /\ ledger[trans[t].activation].state = "committed"
  /\ epochs[t].state = "staged" /\ EvidenceValid(t) /\ head = trans[t].source
  /\ epochs' = [epochs EXCEPT ![t].state = "active"]
  /\ head' = t
  /\ trans' = [trans EXCEPT ![t].state = "active", ![t].version = @ + 2]
  /\ UNCHANGED <<proofs, receipts, stale, ledger>>

FinalizeActivation(t) ==
  LET source == trans[t].source
  IN /\ trans[t] # None /\ trans[t].state = "activation_authorized"
     /\ ledger[trans[t].activation].state = "committed"
     /\ epochs[t].state = "staged" /\ EvidenceValid(t)
     /\ head = source /\ (source # None => epochs[source].state = "active")
     /\ epochs' = [e \in Requests |->
          CASE e = t -> [epochs[e] EXCEPT !.state = "active"]
            [] e = source -> [epochs[e] EXCEPT !.state = "superseded"]
            [] OTHER -> epochs[e]]
     /\ head' = t
     /\ trans' = [trans EXCEPT ![t].state = "active", ![t].version = @ + 2]
     /\ UNCHANGED <<proofs, receipts, stale, ledger>>

--------------------------------------------------------------------------------

ClaimMutation(r) ==
  \/ ClaimProposal(r) \/ ClaimOrdinary(r)
  \/ \E t \in Requests, a \in Actions : ClaimAction(r, a, t)

Publish(r) ==
  \/ AuthorizeActivation(r) \/ CancelTransition(r)
  \/ \E kind \in Kinds, member \in Instances \cup {None} : ApplyProposal(r, kind, member)

(* Faulty variant: an indeterminate activation is left as it is. *)
FinalizeCommitted(t) == FinalizeActivation(t)

Finalize(t) == ReconcileIndeterminate(t) \/ FinalizeActivation(t)

MembershipNext ==
  \E r \in Requests :
    \/ ClaimMutation(r) \/ Publish(r) \/ Restore(r)
    \/ \E v \in LedgerStates \ {"open"} : FinishMutation(r, v)
    \/ \E m \in Instances : SubmitKeyProof(r, m)
    \/ SubmitReadiness(r) \/ EvidenceAges(r) \/ Finalize(r)
    \/ \E c \in {"pending", "incompatible"} : SetBlockingReason(r, c)

\* every member heartbeats for as long as it runs
MembershipFairness == \A t \in Requests : WF_memberVars(Finalize(t))

MembershipSpec == MembershipInit /\ [][MembershipNext]_memberVars /\ MembershipFairness

--------------------------------------------------------------------------------
(* Type invariant *)
MembershipTypeOK ==
  /\ head \in Requests \cup {None}
  /\ epochs \in [Requests -> Epoch \cup {None}]
  /\ trans \in [Requests -> Transition \cup {None}]
  /\ proofs \in [Requests -> SUBSET Instances]
  /\ receipts \in [Requests -> Nat]
  /\ stale \subseteq Requests
  /\ ledger \in [Requests -> Mutation \cup {None}]

(* The adopted epochs form one chain that ends at the head: exactly the head is
   active, each adopted epoch follows a superseded one, no two adopted epochs
   have the same sequence, and a transition still pending starts from the head. *)
AuthorityChain ==
  LET adopted == {e \in Requests : epochs[e] # None /\ epochs[e].state \in {"active", "superseded"}}
  IN /\ \A e \in adopted :
          /\ epochs[e].state = "active" <=> e = head
          /\ epochs[e].predecessor # None =>
               /\ epochs[e].predecessor \in adopted \ {head}
               /\ epochs[e].sequence = epochs[epochs[e].predecessor].sequence + 1
          /\ \A f \in adopted : epochs[e].sequence = epochs[f].sequence => e = f
     /\ head # None => head \in adopted
     /\ Cardinality(Pending) <= 1
     /\ \A t \in Pending : trans[t].source = head

(* No protected mutation is in flight across a cutover: every mutation that has
   not finished was claimed under the epoch that is active, so its rollout
   never meets members, or an artifact key, of another epoch.                *)
NoneAcrossCutover == \A r \in InFlight : ledger[r].revision = head

(* What a finished membership mutation reports is what became of its transition:
   a committed activation was cut over or still waits to be, a committed
   cancellation cancelled, a rolled back proposal can never be adopted and a
   rolled back activation does not authorize.                                *)
VerdictsKept ==
  \A r \in Requests : ledger[r] # None =>
    LET m == ledger[r]
    IN /\ m.state = "committed" /\ m.action = "membership.propose" =>
            trans[r] # None /\ epochs[r] # None
       /\ m.state = "committed" /\ m.action = "membership.activate" =>
            /\ trans[m.target].activation = r
            /\ trans[m.target].state \in {"activation_authorized", "active"}
       /\ m.state = "committed" /\ m.action = "membership.cancel" =>
            trans[m.target].state = "cancelled"
       /\ m.state = "rolled_back" /\ m.action = "membership.propose" =>
            epochs[r] = None \/ (epochs[r].state = "indeterminate" /\ trans[r].state = "cancelled")
       /\ m.state = "rolled_back" /\ m.action = "membership.activate" =>
            trans[m.target].activation # r

(* No instance is a member of the active epoch unless it proved that it holds the
   epoch's key, and an instance that the previous epoch did not have unless it
   also proved that it had caught up, through any cancellation that was itself
   rolled back.                                                              *)
MembersProved ==
  head # None =>
    /\ epochs[head].members \subseteq proofs[head]
    /\ LET before == epochs[head].predecessor
       IN before # None /\ epochs[head].members \ epochs[before].members # {} =>
            receipts[head] = 1

(* "Once the separate activation mutation is authorized, it must finish or enter
   explicit indeterminate recovery": an activation whose mutation has been
   decided does not stay authorized for ever.                                *)
ActivationResolves ==
  \A t \in Requests :
    (/\ trans[t] # None /\ trans[t].state = "activation_authorized"
     /\ ledger[trans[t].activation].state \in {"committed", "indeterminate"})
      ~> (trans[t] # None /\ Resolved(t))
================================================================================
