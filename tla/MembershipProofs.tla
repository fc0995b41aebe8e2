--------------------------- MODULE MembershipProofs ---------------------------
(* Proofs about StagedMembership for every finite set of instances, every number
   of mutations and every combination of faults: the types, one chain of
   authority, no mutation in flight across a cutover, verdicts that are kept and
   members that proved themselves.                                            *)
EXTENDS StagedMembership, FiniteSetTheorems, TLAPS

-------------------------------------------------------------------------------
(* The inductive invariant. *)

Adopted(e) == epochs[e] # None /\ epochs[e].state \in {"active", "superseded"}

Open(r) == ledger[r] # None /\ ledger[r].state = "open"

(* A transition that is not resolved. *)
Waiting(t) == trans[t] # None /\ trans[t].state \in {"catching_up", "ready", "activation_authorized"}

(* A transition, its epoch and the proposal they come from; an epoch extends the
   one it was proposed under, which was adopted and stays so.                 *)
EpochLinked(t) ==
  /\ epochs[t] # None <=> trans[t] # None
  /\ trans[t] # None =>
       /\ ledger[t] # None /\ ledger[t].action = "membership.propose"
       /\ ledger[t].published # "none"
       /\ epochs[t].predecessor = trans[t].source
       /\ trans[t].source # None => /\ Adopted(trans[t].source)
                                    /\ epochs[t].sequence = epochs[trans[t].source].sequence + 1
       /\ trans[t].kind = "initialize" => trans[t].source = None
       /\ trans[t].kind = "remove" => /\ trans[t].source # None
                                      /\ epochs[t].members \subseteq epochs[trans[t].source].members

(* Where a transition stands: who authorized it, and under which epoch. *)
TransitionPlaced(t) ==
  trans[t] # None =>
    /\ trans[t].state \in {"catching_up", "ready", "cancelled"} => trans[t].activation = None
    /\ trans[t].state = "activation_authorized" => trans[t].activation # None
    /\ Waiting(t) => epochs[t].state = "staged" /\ trans[t].source = head

(* The adopted epochs are numbered upwards to the head. *)
Chain ==
  /\ head # None => Adopted(head)
  /\ \A e \in Requests : Adopted(e) =>
       /\ head # None
       /\ epochs[e].state = "active" <=> e = head
       /\ epochs[e].sequence <= epochs[head].sequence
       /\ epochs[e].predecessor # head
       /\ \A f \in Requests : Adopted(f) /\ epochs[e].sequence = epochs[f].sequence => e = f

OneWaiting == \A t, u \in Requests : Waiting(t) /\ Waiting(u) => t = u

OnlyWaiting(t) == \A u \in Requests : Waiting(u) <=> u = t

NoneWaiting == \A u \in Requests : ~Waiting(u)

(* Membership mutations refer to a transition that exists. *)
Targeted(r) ==
  ledger[r] # None /\ ledger[r].action \in {"membership.activate", "membership.cancel"} =>
    ledger[r].target \in Requests /\ trans[ledger[r].target] # None

(* What an unfinished proposal, activation or cancellation finds, by how far its
   publication is.                                                            *)
ProposalInFlight(r) ==
  /\ ledger[r].published = "none" => NoneWaiting /\ trans[r] = None
  /\ ledger[r].published = "applied" => OnlyWaiting(r) /\ trans[r].activation = None
  /\ ledger[r].published = "restored" =>
       /\ NoneWaiting /\ trans[r] # None
       /\ trans[r].state = "cancelled" /\ epochs[r].state = "indeterminate"

ActivationInFlight(r, t) ==
  /\ OnlyWaiting(t)
  /\ ledger[r].published # "applied" => trans[t].activation = None
  /\ ledger[r].published = "applied" => /\ trans[t].activation = r
                                        /\ trans[t].state = "activation_authorized"

CancellationInFlight(r, t) ==
  /\ ledger[r].published # "applied" => OnlyWaiting(t) /\ trans[t].activation = None
  /\ ledger[r].published = "applied" =>
       /\ NoneWaiting /\ trans[t].state = "cancelled" /\ trans[t].source = head
       /\ ledger[r].priorState \in {"catching_up", "ready"}
       /\ \A q \in Requests : ledger[q] # None /\ ledger[q].state = "committed"
                              /\ ledger[q].action = "membership.cancel" => ledger[q].target # t

InFlightPlaced(r) ==
  Open(r) =>
    /\ ledger[r].revision = head
    /\ ledger[r].action = "config.apply" => NoneWaiting
    /\ ledger[r].action # "config.apply" => \A q \in Requests : Open(q) => q = r
    /\ ledger[r].action = "membership.propose" => ProposalInFlight(r)
    /\ ledger[r].action = "membership.activate" => ActivationInFlight(r, ledger[r].target)
    /\ ledger[r].action = "membership.cancel" => CancellationInFlight(r, ledger[r].target)

(* What VerdictsKept says of one mutation. *)
VerdictKept(r) ==
  ledger[r] # None =>
    /\ ledger[r].state = "committed" /\ ledger[r].action = "membership.propose" =>
         trans[r] # None /\ epochs[r] # None
    /\ ledger[r].state = "committed" /\ ledger[r].action = "membership.activate" =>
         /\ trans[ledger[r].target].activation = r
         /\ trans[ledger[r].target].state \in {"activation_authorized", "active"}
    /\ ledger[r].state = "committed" /\ ledger[r].action = "membership.cancel" =>
         trans[ledger[r].target].state = "cancelled"
    /\ ledger[r].state = "rolled_back" /\ ledger[r].action = "membership.propose" =>
         \/ epochs[r] = None
         \/ epochs[r].state = "indeterminate" /\ trans[r].state = "cancelled"
    /\ ledger[r].state = "rolled_back" /\ ledger[r].action = "membership.activate" =>
         trans[ledger[r].target].activation # r

MembershipInv ==
  /\ MembershipTypeOK
  /\ \A t \in Requests : EpochLinked(t)
  /\ \A t \in Requests : TransitionPlaced(t)
  /\ Chain
  /\ OneWaiting
  /\ \A r \in Requests : Targeted(r)
  /\ \A r \in Requests : InFlightPlaced(r)
  /\ VerdictsKept
  /\ MembersProved

-------------------------------------------------------------------------------
(* Facts that every step uses. *)

LEMMA TypedParts ==
  ASSUME MembershipInv, NEW t \in Requests
  PROVE  /\ epochs[t] \in Epoch \cup {None} /\ trans[t] \in Transition \cup {None}
         /\ ledger[t] \in Mutation \cup {None} /\ proofs[t] \subseteq Instances
         /\ receipts[t] \in Nat /\ None \notin Requests
         /\ EpochLinked(t) /\ TransitionPlaced(t) /\ Targeted(t) /\ InFlightPlaced(t)
  BY MembershipAssumption DEF MembershipInv, MembershipTypeOK

(* What is pending, and what is in flight, one request at a time. *)
LEMMA PendingWaiting ==
  ASSUME MembershipInv, NEW t \in Requests
  PROVE  t \in Pending <=> Waiting(t)
<1>1. trans[t] # None => trans[t].state \in TransitionStates
  BY TypedParts DEF Transition
<1> QED
  BY <1>1 DEF Pending, Waiting, Resolved, TransitionStates

LEMMA InFlightOpen ==
  ASSUME NEW r \in Requests
  PROVE  r \in InFlight <=> Open(r)
  BY DEF InFlight, Open

LEMMA VerdictsPointwise ==
  ASSUME MembershipInv, NEW r \in Requests
  PROVE  VerdictKept(r)
  BY DEF MembershipInv, VerdictsKept, VerdictKept

(* Evidence arrives or ages: transitions keep their kind, their epochs and their
   authorization, and whether they wait; the evidence of an adopted epoch stays. *)
LEMMA EvidenceKeeps ==
  ASSUME MembershipInv, MembershipTypeOK', UNCHANGED <<head, epochs, ledger>>,
         \A t \in Requests :
           /\ trans'[t] # None <=> trans[t] # None
           /\ trans[t] # None =>
                /\ trans'[t].kind = trans[t].kind /\ trans'[t].source = trans[t].source
                /\ trans'[t].activation = trans[t].activation
                /\ \/ trans'[t].state = trans[t].state
                   \/ trans[t].state = "catching_up" /\ trans'[t].state = "ready"
           /\ proofs[t] \subseteq proofs'[t]
           /\ receipts'[t] = receipts[t] \/ Waiting(t)
  PROVE  MembershipInv'
<1>1. \A t \in Requests : Waiting(t)' <=> Waiting(t)
  BY DEF Waiting
<1>2. \A e \in Requests : Adopted(e)' <=> Adopted(e)
  BY DEF Adopted
<1>3. \A r \in Requests : Open(r)' <=> Open(r)
  BY DEF Open
<1>4. NoneWaiting' <=> NoneWaiting
  BY <1>1 DEF NoneWaiting
<1>5. \A t \in Requests : OnlyWaiting(t)' <=> OnlyWaiting(t)
  BY <1>1 DEF OnlyWaiting
<1>6. ASSUME NEW t \in Requests PROVE EpochLinked(t)'
  <2>1. EpochLinked(t)
    BY TypedParts
  <2>2. trans[t] # None /\ trans[t].source # None => Adopted(trans[t].source)'
    BY <2>1 DEF EpochLinked, Adopted
  <2> QED
    BY <2>1, <2>2 DEF EpochLinked
<1>7. ASSUME NEW t \in Requests PROVE TransitionPlaced(t)'
  <2>1. TransitionPlaced(t)
    BY TypedParts
  <2> QED
    BY <1>1, <2>1 DEF TransitionPlaced, Waiting
<1>8. Chain'
  <2>1. head # None => head \in Requests
    BY DEF MembershipInv, MembershipTypeOK
  <2> QED
    BY <1>2, <2>1 DEF MembershipInv, Chain
<1>9. OneWaiting'
  BY <1>1 DEF MembershipInv, OneWaiting
<1>10. ASSUME NEW r \in Requests PROVE Targeted(r)'
  BY TypedParts DEF Targeted
<1>11. ASSUME NEW r \in Requests PROVE InFlightPlaced(r)'
  <2>1. InFlightPlaced(r) /\ Targeted(r)
    BY TypedParts
  <2>2. CASE ~Open(r)
    BY <1>3, <2>2 DEF InFlightPlaced
  <2>3. CASE Open(r) /\ ledger[r].action = "membership.propose"
    <3>1. ProposalInFlight(r)'
      <4>1. ProposalInFlight(r)
        BY <2>1, <2>3 DEF InFlightPlaced
      <4>2. OnlyWaiting(r) => trans[r] # None
        BY DEF OnlyWaiting, Waiting
      <4> QED
        BY <1>4, <1>5, <4>1, <4>2 DEF ProposalInFlight
    <3> QED
      BY <1>3, <2>1, <2>3, <3>1 DEF InFlightPlaced
  <2>4. CASE Open(r) /\ ledger[r].action = "membership.activate"
    <3>1. PICK t \in Requests : t = ledger[r].target /\ trans[t] # None /\ ActivationInFlight(r, t)
      BY <2>1, <2>4 DEF InFlightPlaced, Targeted, Open
    <3>2. OnlyWaiting(t)' /\ trans'[t].activation = trans[t].activation
      BY <1>5, <3>1 DEF ActivationInFlight
    <3>3. trans[t].state = "activation_authorized" => trans'[t].state = trans[t].state
      BY <3>1
    <3>4. ActivationInFlight(r, t)'
      BY <3>1, <3>2, <3>3 DEF ActivationInFlight
    <3> QED
      BY <1>3, <2>1, <2>4, <3>1, <3>4 DEF InFlightPlaced
  <2>5. CASE Open(r) /\ ledger[r].action = "membership.cancel"
    <3>1. PICK t \in Requests : t = ledger[r].target /\ trans[t] # None /\ CancellationInFlight(r, t)
      BY <2>1, <2>5 DEF InFlightPlaced, Targeted, Open
    <3>2. /\ OnlyWaiting(t)' <=> OnlyWaiting(t)
          /\ trans'[t].activation = trans[t].activation /\ trans'[t].source = trans[t].source
          /\ trans[t].state = "cancelled" => trans'[t].state = trans[t].state
      BY <1>5, <3>1
    <3>3. CancellationInFlight(r, t)'
      BY <1>4, <3>1, <3>2 DEF CancellationInFlight
    <3> QED
      BY <1>3, <2>1, <2>5, <3>1, <3>3 DEF InFlightPlaced
  <2>6. CASE Open(r) /\ ledger[r].action = "config.apply"
    BY <1>3, <1>4, <2>1, <2>6 DEF InFlightPlaced
  <2>7. Open(r) => ledger[r].action \in Actions
    BY TypedParts DEF Open, Mutation
  <2> QED
    BY <2>2, <2>3, <2>4, <2>5, <2>6, <2>7 DEF Actions
<1>12. VerdictsKept'
  <2> SUFFICES ASSUME NEW r \in Requests PROVE VerdictKept(r)'
    BY DEF VerdictsKept, VerdictKept
  <2>1. VerdictKept(r) /\ EpochLinked(r) /\ Targeted(r)
    BY TypedParts, VerdictsPointwise
  <2> QED
    BY <2>1 DEF VerdictKept, EpochLinked, Targeted
<1>13. MembersProved'
  <2>1. head # None => head \in Requests /\ Adopted(head)
    BY DEF MembershipInv, MembershipTypeOK, Chain
  <2>2. head # None => ~Waiting(head)
    BY <2>1, TypedParts DEF TransitionPlaced, Adopted, Waiting
  <2> QED
    BY <2>1, <2>2 DEF MembershipInv, MembersProved
<1> QED
  BY <1>6, <1>7, <1>8, <1>9, <1>10, <1>11, <1>12, <1>13 DEF MembershipInv

-------------------------------------------------------------------------------
(* Types. *)

(* A record whose fields are replaced as the actions replace them. *)
LEMMA TransitionFields ==
  ASSUME NEW x \in Transition, NEW s \in TransitionStates, NEW n \in Nat,
         NEW a \in Requests \cup {None}, NEW c \in Capabilities
  PROVE  /\ [x EXCEPT !.state = s, !.version = n, !.activation = a] \in Transition
         /\ [x EXCEPT !.state = s, !.version = n] \in Transition
         /\ [x EXCEPT !.state = s, !.version = n, !.capability = c] \in Transition
         /\ [x EXCEPT !.version = n, !.capability = c] \in Transition
         /\ [x EXCEPT !.version = n] \in Transition
  BY DEF Transition

LEMMA MutationFields ==
  ASSUME NEW x \in Mutation, NEW p \in {"none", "applied", "restored"},
         NEW s \in TransitionStates, NEW n \in Nat
  PROVE  /\ [x EXCEPT !.published = p, !.priorState = s, !.priorVersion = n] \in Mutation
         /\ [x EXCEPT !.published = p] \in Mutation
  BY DEF Mutation

-------------------------------------------------------------------------------
(* Steps that change the ledger alone. *)

LEMMA LedgerKeeps ==
  ASSUME MembershipInv, NEW r \in Requests, ledger'[r] \in Mutation,
         ledger' = [ledger EXCEPT ![r] = ledger'[r]],
         UNCHANGED <<head, epochs, trans, proofs, receipts, stale>>,
         trans[r] # None => /\ ledger'[r].action = "membership.propose"
                            /\ ledger'[r].published # "none",
         Targeted(r)', \A q \in Requests : InFlightPlaced(q)', \A q \in Requests : VerdictKept(q)'
  PROVE  MembershipInv'
<1>1. MembershipTypeOK'
  BY DEF MembershipInv, MembershipTypeOK
<1>2. ledger'[r] # None
  BY NoneAssumption
<1>3. \A q \in Requests : q # r => ledger'[q] = ledger[q]
  BY DEF MembershipInv, MembershipTypeOK
<1>4. ASSUME NEW t \in Requests PROVE EpochLinked(t)'
  BY <1>2, <1>3, TypedParts DEF EpochLinked, Adopted
<1>5. ASSUME NEW t \in Requests PROVE TransitionPlaced(t)'
  BY TypedParts DEF TransitionPlaced, Waiting
<1>6. Chain' /\ OneWaiting' /\ MembersProved'
  BY DEF MembershipInv, Chain, Adopted, OneWaiting, Waiting, MembersProved
<1>7. ASSUME NEW q \in Requests PROVE Targeted(q)'
  BY <1>3, TypedParts DEF Targeted
<1>8. VerdictsKept'
  BY DEF VerdictsKept, VerdictKept
<1> QED
  BY <1>1, <1>4, <1>5, <1>6, <1>7, <1>8 DEF MembershipInv

LEMMA InsertKeeps ==
  ASSUME MembershipInv, NEW r \in Requests, NEW action \in Actions,
         NEW target \in Requests \cup {None}, Insert(r, Claimed(action, target)),
         Targeted(r)', \A q \in Requests : InFlightPlaced(q)'
  PROVE  MembershipInv'
<1>1. Claimed(action, target) \in Mutation
  BY DEF MembershipInv, MembershipTypeOK, Claimed, Mutation, LedgerStates
<1>2. /\ ledger'[r] = Claimed(action, target)
      /\ ledger' = [ledger EXCEPT ![r] = ledger'[r]]
      /\ \A q \in Requests : q # r => ledger'[q] = ledger[q]
      /\ UNCHANGED <<head, epochs, trans, proofs, receipts, stale>>
  BY DEF Insert, MembershipInv, MembershipTypeOK
<1>3. trans[r] = None
  BY TypedParts DEF Insert, NextRequest, EpochLinked
<1>4. ASSUME NEW q \in Requests PROVE VerdictKept(q)'
  BY <1>2, VerdictsPointwise DEF VerdictKept, Claimed
<1> QED
  BY <1>1, <1>2, <1>3, <1>4, LedgerKeeps

LEMMA ClaimProposalKeeps ==
  ASSUME MembershipInv, NEW r \in Requests, ClaimProposal(r)
  PROVE  MembershipInv'
<1>1. Insert(r, Claimed("membership.propose", None))
  BY DEF ClaimProposal
<1>2. /\ ledger'[r] = Claimed("membership.propose", None)
      /\ \A q \in Requests : q # r => ledger'[q] = ledger[q]
      /\ UNCHANGED <<head, epochs, trans, proofs, receipts, stale>>
  BY <1>1 DEF Insert, MembershipInv, MembershipTypeOK
<1>3. trans[r] = None
  BY <1>1, TypedParts DEF Insert, NextRequest, EpochLinked
<1>4. NoneWaiting /\ \A q \in Requests : ~Open(q)
  BY PendingWaiting, InFlightOpen DEF ClaimProposal, NoneWaiting
<1>5. NoneWaiting'
  BY <1>2, <1>4 DEF NoneWaiting, Waiting
<1>6. ASSUME NEW q \in Requests PROVE InFlightPlaced(q)'
  <2>1. Open(q)' => q = r
    BY <1>2, <1>4 DEF Open
  <2>2. ProposalInFlight(r)'
    BY <1>2, <1>3, <1>5 DEF ProposalInFlight, Claimed
  <2>3. \A p \in Requests : Open(p)' => p = r
    BY <1>2, <1>4 DEF Open
  <2> QED
    BY <1>2, <2>1, <2>2, <2>3 DEF InFlightPlaced, Claimed
<1>7. Targeted(r)'
  BY <1>2 DEF Targeted, Claimed
<1> QED
  BY <1>1, <1>6, <1>7, InsertKeeps DEF Actions

LEMMA ClaimActionKeeps ==
  ASSUME MembershipInv, NEW r \in Requests, NEW a \in Actions, NEW t \in Requests,
         ClaimAction(r, a, t)
  PROVE  MembershipInv'
<1>1. Insert(r, Claimed(a, t))
  BY DEF ClaimAction
<1>2. /\ ledger'[r] = Claimed(a, t)
      /\ \A q \in Requests : q # r => ledger'[q] = ledger[q]
      /\ UNCHANGED <<head, epochs, trans, proofs, receipts, stale>>
  BY <1>1 DEF Insert, MembershipInv, MembershipTypeOK
<1>3. Waiting(t) /\ trans[t].activation = None /\ \A q \in Requests : ~Open(q)
  BY PendingWaiting, InFlightOpen DEF ClaimAction
<1>4. OnlyWaiting(t)
  BY <1>3 DEF OnlyWaiting, MembershipInv, OneWaiting
<1>5. OnlyWaiting(t)'
  BY <1>2, <1>4 DEF OnlyWaiting, Waiting
<1>6. ASSUME NEW q \in Requests PROVE InFlightPlaced(q)'
  <2>1. \A p \in Requests : Open(p)' => p = r
    BY <1>2, <1>3 DEF Open
  <2>2. ActivationInFlight(r, t)' /\ CancellationInFlight(r, t)'
    BY <1>2, <1>3, <1>5 DEF ActivationInFlight, CancellationInFlight, Claimed
  <2> QED
    BY <1>2, <2>1, <2>2 DEF InFlightPlaced, Claimed, ClaimAction
<1>7. Targeted(r)'
  BY <1>2, <1>3 DEF Targeted, Claimed, Waiting
<1> QED
  BY <1>1, <1>6, <1>7, InsertKeeps DEF Actions

LEMMA ClaimOrdinaryKeeps ==
  ASSUME MembershipInv, NEW r \in Requests, ClaimOrdinary(r)
  PROVE  MembershipInv'
<1>1. Insert(r, Claimed("config.apply", None))
  BY DEF ClaimOrdinary
<1>2. /\ ledger'[r] = Claimed("config.apply", None)
      /\ \A q \in Requests : q # r => ledger'[q] = ledger[q]
      /\ UNCHANGED <<head, epochs, trans, proofs, receipts, stale>>
  BY <1>1 DEF Insert, MembershipInv, MembershipTypeOK
<1>3. /\ NoneWaiting
      /\ \A q \in Requests : Open(q) => ledger[q].action = "config.apply"
  BY PendingWaiting, InFlightOpen DEF ClaimOrdinary, NoneWaiting, IsMembership
<1>4. NoneWaiting'
  BY <1>2, <1>3 DEF NoneWaiting, Waiting
<1>5. ASSUME NEW q \in Requests PROVE InFlightPlaced(q)'
  <2>1. CASE q = r
    BY <1>2, <1>4, <2>1 DEF InFlightPlaced, Claimed
  <2>2. CASE q # r
    BY <1>2, <1>3, <1>4, <2>2, TypedParts DEF InFlightPlaced, Open
  <2> QED
    BY <2>1, <2>2
<1>6. Targeted(r)'
  BY <1>2 DEF Targeted, Claimed
<1> QED
  BY <1>1, <1>5, <1>6, InsertKeeps DEF Actions

(* A verdict ends what was in flight: what it reports holds, and nothing else
   was in flight beside a mutation of the membership.                         *)
LEMMA FinishKeeps ==
  ASSUME MembershipInv, NEW r \in Requests, NEW v \in LedgerStates \ {"open"},
         FinishMutation(r, v)
  PROVE  MembershipInv'
<1>1. Open(r)
  BY DEF FinishMutation, Open
<1>2. ledger' = [ledger EXCEPT ![r].state = v]
      /\ UNCHANGED <<head, epochs, trans, proofs, receipts, stale>>
  BY DEF FinishMutation
<1>3. /\ ledger'[r] = [ledger[r] EXCEPT !.state = v]
      /\ \A q \in Requests : q # r => ledger'[q] = ledger[q]
  BY <1>2 DEF MembershipInv, MembershipTypeOK
<1>4. ledger' = [ledger EXCEPT ![r] = ledger'[r]]
  BY <1>2, <1>3 DEF MembershipInv, MembershipTypeOK
<1>5. ledger[r] \in Mutation /\ ledger'[r] \in Mutation
  <2>1. ledger[r] \in Mutation
    BY <1>1, TypedParts DEF Open
  <2> QED
    BY <1>3, <2>1 DEF Mutation
<1>6. /\ ledger'[r].state = v /\ ledger'[r].action = ledger[r].action
      /\ ledger'[r].target = ledger[r].target /\ ledger'[r].published = ledger[r].published
  BY <1>3, <1>5 DEF Mutation
<1>7. /\ InFlightPlaced(r) /\ EpochLinked(r) /\ Targeted(r)
      /\ ledger[r].action \in Actions
  BY <1>5, TypedParts DEF Mutation
<1>8. Targeted(r)'
  BY <1>1, <1>2, <1>6, <1>7 DEF Targeted, Open
<1>9. ~Open(r)'
  BY <1>6 DEF Open
<1>10. ASSUME NEW q \in Requests PROVE InFlightPlaced(q)'
  <2>1. CASE ~Open(q)'
    BY <2>1 DEF InFlightPlaced
  <2>2. CASE Open(q)'
    <3>1. q # r /\ Open(q)
      BY <1>3, <1>9, <2>2 DEF Open
    <3>2. ledger[r].action = "config.apply" /\ ledger[q].action = "config.apply"
      BY <1>1, <1>7, <3>1, TypedParts DEF InFlightPlaced
    <3>3. ledger[q].revision = head /\ NoneWaiting
      BY <3>1, <3>2, TypedParts DEF InFlightPlaced
    <3> QED
      BY <1>2, <1>3, <3>1, <3>2, <3>3 DEF InFlightPlaced, NoneWaiting, Waiting
  <2> QED
    BY <2>1, <2>2
<1>11. ASSUME NEW q \in Requests PROVE VerdictKept(q)'
  <2>1. CASE q # r
    BY <1>2, <1>3, <2>1, VerdictsPointwise DEF VerdictKept
  <2>2. VerdictKept(r)'
    <3>1. CASE ledger[r].action = "membership.propose"
      <4>1. ProposalInFlight(r)
        BY <1>1, <1>7, <3>1 DEF InFlightPlaced
      <4>2. v = "committed" => trans[r] # None /\ epochs[r] # None
        BY <1>7, <3>1, <4>1 DEF FinishMutation, ProposalInFlight, OnlyWaiting, Waiting, EpochLinked
      <4>3. v = "rolled_back" => ledger[r].published \in {"none", "restored"}
        BY <1>5 DEF FinishMutation, Mutation
      <4>4. v = "rolled_back" => \/ epochs[r] = None
                                 \/ epochs[r].state = "indeterminate" /\ trans[r].state = "cancelled"
        BY <1>7, <4>1, <4>3 DEF ProposalInFlight, EpochLinked
      <4> QED
        BY <1>2, <1>6, <3>1, <4>2, <4>4 DEF VerdictKept
    <3>2. CASE ledger[r].action = "membership.activate"
      <4>1. PICK t \in Requests : t = ledger[r].target /\ ActivationInFlight(r, t)
        BY <1>1, <1>7, <3>2 DEF InFlightPlaced, Targeted, Open
      <4>2. v = "committed" => trans[t].activation = r /\ trans[t].state = "activation_authorized"
        BY <3>2, <4>1 DEF FinishMutation, ActivationInFlight
      <4>3. v = "rolled_back" => trans[t].activation # r
        BY <4>1, MembershipAssumption DEF FinishMutation, ActivationInFlight
      <4> QED
        BY <1>2, <1>6, <3>2, <4>1, <4>2, <4>3 DEF VerdictKept
    <3>3. CASE ledger[r].action = "membership.cancel"
      <4>1. CancellationInFlight(r, ledger[r].target)
        BY <1>1, <1>7, <3>3 DEF InFlightPlaced
      <4>2. v = "committed" => trans[ledger[r].target].state = "cancelled"
        BY <3>3, <4>1 DEF FinishMutation, CancellationInFlight
      <4> QED
        BY <1>2, <1>6, <3>3, <4>2 DEF VerdictKept
    <3>4. CASE ledger[r].action = "config.apply"
      BY <1>6, <3>4 DEF VerdictKept
    <3> QED
      BY <1>7, <3>1, <3>2, <3>3, <3>4 DEF Actions
  <2> QED
    BY <2>1, <2>2
<1> QED
  BY <1>2, <1>4, <1>5, <1>6, <1>7, <1>8, <1>10, <1>11, LedgerKeeps DEF EpochLinked

-------------------------------------------------------------------------------
(* Steps that move one transition, and the state of its epoch, without adopting it. *)

LEMMA TransitionMovesKeeps ==
  ASSUME MembershipInv, NEW t \in Requests, trans[t] # None,
         trans'[t] \in Transition, trans' = [trans EXCEPT ![t] = trans'[t]],
         trans'[t].kind = trans[t].kind, trans'[t].source = trans[t].source,
         epochs'[t] \in Epoch, epochs' = [epochs EXCEPT ![t] = epochs'[t]],
         epochs'[t].predecessor = epochs[t].predecessor,
         epochs'[t].sequence = epochs[t].sequence, epochs'[t].members = epochs[t].members,
         epochs[t].state \in {"staged", "cancelled"},
         epochs'[t].state \notin {"active", "superseded"},
         ledger' \in [Requests -> Mutation \cup {None}],
         \A q \in Requests :
           /\ ledger'[q] # None <=> ledger[q] # None
           /\ ledger[q] # None =>
                /\ ledger'[q].action = ledger[q].action /\ ledger'[q].target = ledger[q].target
                /\ ledger'[q].state = ledger[q].state
                /\ ledger[q].published # "none" => ledger'[q].published # "none",
         UNCHANGED <<head, proofs, receipts, stale>>,
         TransitionPlaced(t)',
         Waiting(t)' => \A u \in Requests : u # t => ~Waiting(u),
         \A q \in Requests : Open(q) => InFlightPlaced(q)',
         \A q \in Requests : ledger[q] # None /\ ledger[q].target = t => VerdictKept(q)'
  PROVE  MembershipInv'
<1>1. MembershipTypeOK'
  BY DEF MembershipInv, MembershipTypeOK
<1>2. /\ \A u \in Requests : u # t => trans'[u] = trans[u] /\ epochs'[u] = epochs[u]
      /\ trans'[t] # None /\ epochs'[t] # None
  BY NoneAssumption DEF MembershipInv, MembershipTypeOK
<1>3. \A e \in Requests : Adopted(e)' <=> Adopted(e)
  BY <1>2 DEF Adopted
<1>4. \A u \in Requests : u # t => (Waiting(u)' <=> Waiting(u))
  BY <1>2 DEF Waiting
<1>5. ~Adopted(t) /\ epochs[t] # None
  BY TypedParts DEF Adopted, EpochLinked
<1>6. ASSUME NEW u \in Requests PROVE EpochLinked(u)'
  <2>1. EpochLinked(u) /\ (trans[u] # None => trans[u].source \in Requests \cup {None})
    BY TypedParts DEF Transition
  <2>2. /\ epochs'[u] # None <=> epochs[u] # None
        /\ trans'[u] # None <=> trans[u] # None
        /\ trans[u] # None => /\ trans'[u].kind = trans[u].kind
                              /\ trans'[u].source = trans[u].source
                              /\ epochs'[u].predecessor = epochs[u].predecessor
                              /\ epochs'[u].sequence = epochs[u].sequence
                              /\ epochs'[u].members = epochs[u].members
    BY <1>2, <1>5
  <2>3. trans[u] # None /\ trans[u].source # None =>
          Adopted(trans[u].source)' /\ epochs'[trans[u].source] = epochs[trans[u].source]
    BY <1>2, <1>3, <1>5, <2>1 DEF EpochLinked
  <2> QED
    BY <2>1, <2>2, <2>3 DEF EpochLinked
<1>7. ASSUME NEW u \in Requests PROVE TransitionPlaced(u)'
  BY <1>2, <1>4, TypedParts DEF TransitionPlaced
<1>8. Chain'
  <2>1. head \in Requests \cup {None}
    BY DEF MembershipInv, MembershipTypeOK
  <2>2. \A e \in Requests : Adopted(e) => epochs'[e] = epochs[e]
    BY <1>2, <1>5
  <2> QED
    BY <1>3, <2>1, <2>2 DEF MembershipInv, Chain
<1>9. OneWaiting'
  BY <1>4 DEF MembershipInv, OneWaiting
<1>10. ASSUME NEW q \in Requests PROVE Targeted(q)'
  BY <1>2, TypedParts DEF Targeted
<1>11. ASSUME NEW q \in Requests PROVE InFlightPlaced(q)'
  BY DEF InFlightPlaced, Open
<1>12. VerdictsKept'
  <2> SUFFICES ASSUME NEW q \in Requests PROVE VerdictKept(q)'
    BY DEF VerdictsKept, VerdictKept
  <2>1. VerdictKept(q) /\ Targeted(q) /\ EpochLinked(q)
    BY TypedParts, VerdictsPointwise
  <2>2. CASE ledger[q] = None
    BY <2>2 DEF VerdictKept
  <2>3. CASE ledger[q] # None /\ ledger[q].target = t
    BY <2>3
  <2>4. CASE ledger[q] # None /\ ledger[q].target # t /\ q # t
    BY <1>2, <2>1, <2>4 DEF VerdictKept, Targeted
  <2>5. CASE ledger[q] # None /\ ledger[q].target # t /\ q = t
    BY <1>2, <1>5, <2>1, <2>5 DEF VerdictKept, EpochLinked
  <2> QED
    BY <2>2, <2>3, <2>4, <2>5
<1>13. MembersProved'
  <2>1. head # None => /\ head \in Requests /\ head # t /\ Adopted(head)
                       /\ epochs'[head] = epochs[head]
    BY <1>2, <1>5 DEF MembershipInv, MembershipTypeOK, Chain
  <2>2. head # None => epochs[head].predecessor \in Requests \cup {None}
    BY <2>1, TypedParts DEF Epoch, Adopted
  <2>3. head # None /\ epochs[head].predecessor # None =>
          epochs'[epochs[head].predecessor].members = epochs[epochs[head].predecessor].members
    BY <1>2, <2>1, <2>2
  <2> QED
    BY <2>1, <2>3 DEF MembershipInv, MembersProved
<1> QED
  BY <1>1, <1>6, <1>7, <1>8, <1>9, <1>10, <1>11, <1>12, <1>13 DEF MembershipInv

(* An unfinished mutation of the membership is the only one in flight. *)
LEMMA AloneInFlight ==
  ASSUME MembershipInv, NEW r \in Requests, Open(r), ledger[r].action # "config.apply"
  PROVE  \A q \in Requests : Open(q) => q = r
  BY TypedParts DEF InFlightPlaced

(* A publication or a restoration touches the entry of its own mutation only. *)
LEMMA PublicationEntry ==
  ASSUME MembershipInv, NEW r \in Requests, Open(r), NEW x \in Mutation,
         ledger' = [ledger EXCEPT ![r] = x],
         x.action = ledger[r].action, x.target = ledger[r].target, x.state = ledger[r].state,
         x.revision = ledger[r].revision, x.published # "none"
  PROVE  /\ ledger' \in [Requests -> Mutation \cup {None}] /\ ledger'[r] = x /\ Open(r)'
         /\ \A q \in Requests :
              /\ q # r => ledger'[q] = ledger[q]
              /\ ledger'[q] # None <=> ledger[q] # None
              /\ ledger[q] # None =>
                   /\ ledger'[q].action = ledger[q].action /\ ledger'[q].target = ledger[q].target
                   /\ ledger'[q].state = ledger[q].state
                   /\ ledger[q].published # "none" => ledger'[q].published # "none"
  BY NoneAssumption DEF MembershipInv, MembershipTypeOK, Open

(* A publication or a restoration of the mutation r, which moves t: what is left to
   show of it is where it places t and r.                                      *)
LEMMA PublicationKeeps ==
  ASSUME MembershipInv, NEW r \in Requests, NEW t \in Requests, Open(r),
         ledger[r].action # "config.apply", trans[t] # None,
         NEW y \in Transition, trans' = [trans EXCEPT ![t] = y],
         y.kind = trans[t].kind, y.source = trans[t].source,
         NEW w \in Epoch, epochs' = [epochs EXCEPT ![t] = w],
         w.predecessor = epochs[t].predecessor, w.sequence = epochs[t].sequence,
         w.members = epochs[t].members, epochs[t].state \in {"staged", "cancelled"},
         w.state \notin {"active", "superseded"},
         NEW x \in Mutation, ledger' = [ledger EXCEPT ![r] = x],
         x.action = ledger[r].action, x.target = ledger[r].target, x.state = ledger[r].state,
         x.revision = ledger[r].revision, x.published # "none",
         UNCHANGED <<head, proofs, receipts, stale>>,
         trans[t].activation \in {None, r}, y.activation \in {None, r},
         trans[t].state = "cancelled" =>
           \A q \in Requests : ledger[q] # None /\ ledger[q].state = "committed"
                               /\ ledger[q].action = "membership.cancel" => ledger[q].target # t,
         TransitionPlaced(t)',
         Waiting(t)' => \A u \in Requests : u # t => ~Waiting(u),
         x.action = "membership.propose" => ProposalInFlight(r)',
         x.action = "membership.activate" => ActivationInFlight(r, x.target)',
         x.action = "membership.cancel" => CancellationInFlight(r, x.target)'
  PROVE  MembershipInv'
<1>1. /\ trans'[t] = y /\ trans' = [trans EXCEPT ![t] = trans'[t]]
      /\ epochs'[t] = w /\ epochs' = [epochs EXCEPT ![t] = epochs'[t]]
      /\ \A u \in Requests : u # t => trans'[u] = trans[u] /\ epochs'[u] = epochs[u]
  BY DEF MembershipInv, MembershipTypeOK
<1>2. /\ ledger' \in [Requests -> Mutation \cup {None}] /\ ledger'[r] = x /\ Open(r)'
      /\ \A q \in Requests :
           /\ q # r => ledger'[q] = ledger[q]
           /\ ledger'[q] # None <=> ledger[q] # None
           /\ ledger[q] # None =>
                /\ ledger'[q].action = ledger[q].action /\ ledger'[q].target = ledger[q].target
                /\ ledger'[q].state = ledger[q].state
                /\ ledger[q].published # "none" => ledger'[q].published # "none"
  BY PublicationEntry
<1>3. ASSUME NEW q \in Requests, Open(q) PROVE InFlightPlaced(q)'
  <2>1. q = r
    BY <1>3, AloneInFlight
  <2>2. \A p \in Requests : Open(p)' => p = r
    BY <1>2, AloneInFlight DEF Open
  <2>3. ledger[r].revision = head
    BY TypedParts DEF InFlightPlaced
  <2> QED
    BY <1>2, <2>1, <2>2, <2>3 DEF InFlightPlaced
<1>4. ASSUME NEW q \in Requests, ledger[q] # None, ledger[q].target = t PROVE VerdictKept(q)'
  <2>1. CASE q = r
    BY <1>2, <2>1 DEF VerdictKept, Open
  <2>2. CASE q # r
    <3>1. VerdictKept(q)
      BY VerdictsPointwise
    <3>2. /\ ledger'[q] = ledger[q] /\ trans'[t].activation # q /\ trans[t].activation # q
      BY <1>1, <1>2, <2>2, MembershipAssumption
    <3>3. trans'[q] # None <=> trans[q] # None
      BY <1>1, NoneAssumption
    <3>4. epochs'[q] # None <=> epochs[q] # None
      BY <1>1, NoneAssumption, TypedParts DEF EpochLinked
    <3>5. q = t => epochs[q].state # "indeterminate" /\ epochs[q] # None
      BY TypedParts DEF EpochLinked
    <3> QED
      BY <1>1, <1>4, <3>1, <3>2, <3>3, <3>4, <3>5 DEF VerdictKept
  <2> QED
    BY <2>1, <2>2
<1>5. /\ trans'[t] \in Transition /\ trans'[t].kind = trans[t].kind
      /\ trans'[t].source = trans[t].source
  BY <1>1
<1>6. /\ epochs'[t] \in Epoch /\ epochs'[t].predecessor = epochs[t].predecessor
      /\ epochs'[t].sequence = epochs[t].sequence /\ epochs'[t].members = epochs[t].members
      /\ epochs'[t].state \notin {"active", "superseded"}
  BY <1>1
<1>7. /\ trans' = [trans EXCEPT ![t] = trans'[t]] /\ epochs' = [epochs EXCEPT ![t] = epochs'[t]]
  BY <1>1
<1>8. /\ ledger' \in [Requests -> Mutation \cup {None}]
      /\ \A q \in Requests :
           /\ ledger'[q] # None <=> ledger[q] # None
           /\ ledger[q] # None =>
                /\ ledger'[q].action = ledger[q].action /\ ledger'[q].target = ledger[q].target
                /\ ledger'[q].state = ledger[q].state
                /\ ledger[q].published # "none" => ledger'[q].published # "none"
  BY <1>2
<1>9. \A q \in Requests : Open(q) => InFlightPlaced(q)'
  BY <1>3
<1>10. \A q \in Requests : ledger[q] # None /\ ledger[q].target = t => VerdictKept(q)'
  BY <1>4
<1> QED
  BY <1>5, <1>6, <1>7, <1>8, <1>9, <1>10, TransitionMovesKeeps, ZenonT(30)

LEMMA AuthorizeKeeps ==
  ASSUME MembershipInv, NEW r \in Requests, AuthorizeActivation(r)
  PROVE  MembershipInv'
<1>1. /\ Open(r) /\ ledger[r].action = "membership.activate" /\ ledger[r].published = "none"
      /\ InFlightPlaced(r) /\ Targeted(r) /\ ledger[r] \in Mutation
  BY TypedParts DEF AuthorizeActivation, Publishes, Open
<1>2. PICK t \in Requests : t = ledger[r].target /\ trans[t] # None /\ ActivationInFlight(r, t)
  BY <1>1 DEF InFlightPlaced, Targeted, Open
<1>3. /\ trans[t].state = "ready" /\ epochs[t].state = "staged"
      /\ trans' = [trans EXCEPT ![t].state = "activation_authorized",
                                ![t].version = @ + 1, ![t].activation = r]
      /\ ledger' = [ledger EXCEPT ![r].published = "applied", ![r].priorState = "ready",
                                  ![r].priorVersion = trans[t].version]
      /\ UNCHANGED <<head, epochs, proofs, receipts, stale>>
  BY <1>2 DEF AuthorizeActivation
<1>4. trans[t] \in Transition /\ epochs[t] \in Epoch
  BY <1>2, TypedParts DEF EpochLinked
<1>5. trans[t].version \in Nat /\ trans[t].version + 1 \in Nat
  BY <1>4 DEF Transition
<1>6. PICK y : y = [trans[t] EXCEPT !.state = "activation_authorized",
                                    !.version = trans[t].version + 1, !.activation = r]
  OBVIOUS
<1>7. PICK x : x = [ledger[r] EXCEPT !.published = "applied", !.priorState = "ready",
                                     !.priorVersion = trans[t].version]
  OBVIOUS
<1>8. /\ trans' = [trans EXCEPT ![t] = y] /\ ledger' = [ledger EXCEPT ![r] = x]
      /\ epochs' = [epochs EXCEPT ![t] = epochs[t]]
  BY <1>3, <1>6, <1>7 DEF MembershipInv, MembershipTypeOK
<1>9. /\ y \in Transition /\ y.state = "activation_authorized" /\ y.activation = r
      /\ y.kind = trans[t].kind /\ y.source = trans[t].source
  <2>1. [trans[t] EXCEPT !.state = "activation_authorized",
                         !.version = trans[t].version + 1, !.activation = r] \in Transition
    BY <1>4, <1>5, TransitionFields DEF TransitionStates, Capabilities
  <2> QED
    BY <1>4, <1>6, <2>1 DEF Transition
<1>10. /\ x \in Mutation /\ x.action = ledger[r].action /\ x.target = t
       /\ x.state = ledger[r].state /\ x.revision = ledger[r].revision /\ x.published = "applied"
  <2>1. [ledger[r] EXCEPT !.published = "applied", !.priorState = "ready",
                          !.priorVersion = trans[t].version] \in Mutation
    BY <1>1, <1>5, MutationFields DEF TransitionStates
  <2> QED
    BY <1>1, <1>2, <1>7, <2>1 DEF Mutation
<1>11. /\ trans'[t] = y /\ trans'[t] # None /\ ledger'[r] = x
       /\ \A u \in Requests : u # t => trans'[u] = trans[u]
  BY <1>8, <1>9, NoneAssumption DEF MembershipInv, MembershipTypeOK
<1>12. OnlyWaiting(t) /\ Waiting(t) /\ trans[t].source = head /\ trans[t].activation = None
  BY <1>1, <1>2, TypedParts DEF ActivationInFlight, OnlyWaiting, TransitionPlaced
<1>13. OnlyWaiting(t)'
  BY <1>9, <1>11, <1>12 DEF OnlyWaiting, Waiting
<1>14. TransitionPlaced(t)'
  BY <1>3, <1>9, <1>11, <1>12, MembershipAssumption DEF TransitionPlaced
<1>15. ActivationInFlight(r, t)'
  BY <1>9, <1>10, <1>11, <1>13 DEF ActivationInFlight
<1>16. \A u \in Requests : u # t => ~Waiting(u)
  BY <1>12 DEF OnlyWaiting
<1>17. /\ ledger[r].action # "config.apply" /\ UNCHANGED <<head, proofs, receipts, stale>>
       /\ epochs[t].state \in {"staged", "cancelled"}
       /\ epochs[t].state \notin {"active", "superseded"}
       /\ trans[t].activation \in {None, r} /\ y.activation \in {None, r}
       /\ trans[t].state # "cancelled" /\ x.target = ledger[r].target /\ x.published # "none"
       /\ x.action = "membership.activate"
  BY <1>1, <1>2, <1>3, <1>9, <1>10, <1>12
<1>18. ActivationInFlight(r, x.target)'
  BY <1>10, <1>15
<1> QED
  BY <1>1, <1>2, <1>4, <1>8, <1>9, <1>10, <1>14, <1>16, <1>17, <1>18, PublicationKeeps

LEMMA CancelKeeps ==
  ASSUME MembershipInv, NEW r \in Requests, CancelTransition(r)
  PROVE  MembershipInv'
<1>1. /\ Open(r) /\ ledger[r].action = "membership.cancel" /\ ledger[r].published = "none"
      /\ InFlightPlaced(r) /\ Targeted(r) /\ ledger[r] \in Mutation
  BY TypedParts DEF CancelTransition, Publishes, Open
<1>2. PICK t \in Requests : t = ledger[r].target /\ trans[t] # None /\ CancellationInFlight(r, t)
  BY <1>1 DEF InFlightPlaced, Targeted, Open
<1>3. /\ trans[t].state \in {"catching_up", "ready"} /\ epochs[t].state = "staged"
      /\ epochs' = [epochs EXCEPT ![t].state = "cancelled"]
      /\ trans' = [trans EXCEPT ![t].state = "cancelled", ![t].version = @ + 1]
      /\ ledger' = [ledger EXCEPT ![r].published = "applied", ![r].priorState = trans[t].state,
                                  ![r].priorVersion = trans[t].version]
      /\ UNCHANGED <<head, proofs, receipts, stale>>
  BY <1>2 DEF CancelTransition
<1>4. trans[t] \in Transition /\ epochs[t] \in Epoch
  BY <1>2, TypedParts DEF EpochLinked
<1>5. trans[t].version \in Nat /\ trans[t].version + 1 \in Nat /\ trans[t].state \in TransitionStates
  BY <1>4 DEF Transition
<1>6. PICK y : y = [trans[t] EXCEPT !.state = "cancelled", !.version = trans[t].version + 1]
  OBVIOUS
<1>7. PICK x : x = [ledger[r] EXCEPT !.published = "applied", !.priorState = trans[t].state,
                                     !.priorVersion = trans[t].version]
  OBVIOUS
<1>8. PICK w : w = [epochs[t] EXCEPT !.state = "cancelled"]
  OBVIOUS
<1>9. /\ trans' = [trans EXCEPT ![t] = y] /\ ledger' = [ledger EXCEPT ![r] = x]
      /\ epochs' = [epochs EXCEPT ![t] = w]
  BY <1>3, <1>6, <1>7, <1>8 DEF MembershipInv, MembershipTypeOK
<1>10. /\ y \in Transition /\ y.state = "cancelled" /\ y.activation = trans[t].activation
       /\ y.kind = trans[t].kind /\ y.source = trans[t].source
  <2>1. [trans[t] EXCEPT !.state = "cancelled", !.version = trans[t].version + 1] \in Transition
    BY <1>4, <1>5, TransitionFields DEF TransitionStates, Capabilities
  <2> QED
    BY <1>4, <1>6, <2>1 DEF Transition
<1>11. /\ x \in Mutation /\ x.action = ledger[r].action /\ x.target = t
       /\ x.state = ledger[r].state /\ x.revision = ledger[r].revision
       /\ x.published = "applied" /\ x.priorState = trans[t].state
  <2>1. [ledger[r] EXCEPT !.published = "applied", !.priorState = trans[t].state,
                          !.priorVersion = trans[t].version] \in Mutation
    BY <1>1, <1>5, MutationFields
  <2> QED
    BY <1>1, <1>2, <1>7, <2>1 DEF Mutation
<1>12. /\ w \in Epoch /\ w.state = "cancelled" /\ w.predecessor = epochs[t].predecessor
       /\ w.sequence = epochs[t].sequence /\ w.members = epochs[t].members
  BY <1>4, <1>8 DEF Epoch, EpochStates
<1>13. /\ trans'[t] = y /\ trans'[t] # None /\ ledger'[r] = x /\ epochs'[t] = w
       /\ \A u \in Requests : u # t => trans'[u] = trans[u]
       /\ \A q \in Requests : q # r => ledger'[q] = ledger[q]
  BY <1>9, <1>10, NoneAssumption DEF MembershipInv, MembershipTypeOK
<1>14. OnlyWaiting(t) /\ Waiting(t) /\ trans[t].source = head /\ trans[t].activation = None
  BY <1>1, <1>2, TypedParts DEF CancellationInFlight, OnlyWaiting, TransitionPlaced
<1>15. NoneWaiting'
  BY <1>10, <1>13, <1>14 DEF OnlyWaiting, NoneWaiting, Waiting
<1>16. TransitionPlaced(t)'
  BY <1>10, <1>13, <1>14, <1>15 DEF TransitionPlaced, NoneWaiting
<1>17. ASSUME NEW q \in Requests, ledger'[q] # None, ledger'[q].state = "committed",
              ledger'[q].action = "membership.cancel"
       PROVE  ledger'[q].target # t
  <2>1. q # r
    BY <1>1, <1>11, <1>13, <1>17 DEF Open
  <2>2. ledger'[q] = ledger[q] /\ VerdictKept(q)
    BY <1>13, <2>1, VerdictsPointwise
  <2>3. trans[ledger[q].target].state = "cancelled"
    BY <1>17, <2>2 DEF VerdictKept
  <2> QED
    BY <1>3, <2>2, <2>3
<1>18. CancellationInFlight(r, t)'
  BY <1>3, <1>10, <1>11, <1>13, <1>14, <1>15, <1>17 DEF CancellationInFlight
<1>19. /\ ledger[r].action # "config.apply"
       /\ epochs[t].state \in {"staged", "cancelled"} /\ w.state \notin {"active", "superseded"}
       /\ trans[t].activation \in {None, r} /\ y.activation \in {None, r}
       /\ trans[t].state # "cancelled" /\ x.target = ledger[r].target /\ x.published # "none"
       /\ x.action = "membership.cancel" /\ ~Waiting(t)'
  BY <1>1, <1>2, <1>3, <1>10, <1>11, <1>12, <1>14, <1>15 DEF NoneWaiting
<1>20. CancellationInFlight(r, x.target)'
  BY <1>11, <1>18
<1> QED
  BY <1>1, <1>2, <1>3, <1>9, <1>10, <1>11, <1>12, <1>16, <1>19, <1>20, PublicationKeeps

LEMMA RestoreProposalKeeps ==
  ASSUME MembershipInv, NEW r \in Requests, Open(r), ledger[r].published = "applied",
         ledger[r].action = "membership.propose", RestoreProposal(r),
         ledger' = [ledger EXCEPT ![r].published = "restored"],
         UNCHANGED <<head, proofs, receipts, stale>>
  PROVE  MembershipInv'
<1>1. InFlightPlaced(r) /\ ledger[r] \in Mutation
  BY TypedParts DEF Open
<1>2. OnlyWaiting(r) /\ Waiting(r) /\ trans[r] # None /\ trans[r].activation = None
  BY <1>1 DEF InFlightPlaced, ProposalInFlight, OnlyWaiting, Waiting
<1>3. /\ epochs[r].state = "staged"
      /\ trans[r].state # "cancelled"
      /\ epochs' = [epochs EXCEPT ![r].state = "indeterminate"]
      /\ trans' = [trans EXCEPT ![r].state = "cancelled", ![r].version = @ + 1]
  BY DEF RestoreProposal
<1>4. trans[r] \in Transition /\ epochs[r] \in Epoch
  BY <1>2, TypedParts DEF EpochLinked
<1>5. trans[r].version + 1 \in Nat
  BY <1>4 DEF Transition
<1>6. PICK y : y = [trans[r] EXCEPT !.state = "cancelled", !.version = trans[r].version + 1]
  OBVIOUS
<1>7. PICK x : x = [ledger[r] EXCEPT !.published = "restored"]
  OBVIOUS
<1>8. PICK w : w = [epochs[r] EXCEPT !.state = "indeterminate"]
  OBVIOUS
<1>9. /\ trans' = [trans EXCEPT ![r] = y] /\ ledger' = [ledger EXCEPT ![r] = x]
      /\ epochs' = [epochs EXCEPT ![r] = w]
  BY <1>3, <1>6, <1>7, <1>8 DEF MembershipInv, MembershipTypeOK
<1>10. /\ y \in Transition /\ y.state = "cancelled" /\ y.activation = None
       /\ y.kind = trans[r].kind /\ y.source = trans[r].source
  <2>1. [trans[r] EXCEPT !.state = "cancelled", !.version = trans[r].version + 1] \in Transition
    BY <1>4, <1>5, TransitionFields DEF TransitionStates, Capabilities
  <2> QED
    BY <1>2, <1>4, <1>6, <2>1 DEF Transition
<1>11. /\ x \in Mutation /\ x.action = "membership.propose" /\ x.target = ledger[r].target
       /\ x.state = ledger[r].state /\ x.revision = ledger[r].revision
       /\ x.published = "restored"
  BY <1>1, <1>7 DEF Mutation
<1>12. /\ w \in Epoch /\ w.state = "indeterminate" /\ w.predecessor = epochs[r].predecessor
       /\ w.sequence = epochs[r].sequence /\ w.members = epochs[r].members
  BY <1>4, <1>8 DEF Epoch, EpochStates
<1>13. /\ trans'[r] = y /\ trans'[r] # None /\ ledger'[r] = x /\ epochs'[r] = w
       /\ \A u \in Requests : u # r => trans'[u] = trans[u]
  BY <1>9, <1>10, NoneAssumption DEF MembershipInv, MembershipTypeOK
<1>14. NoneWaiting'
  BY <1>2, <1>10, <1>13 DEF OnlyWaiting, NoneWaiting, Waiting
<1>15. TransitionPlaced(r)'
  BY <1>10, <1>13, <1>14 DEF TransitionPlaced, NoneWaiting
<1>16. ProposalInFlight(r)'
  BY <1>10, <1>11, <1>12, <1>13, <1>14 DEF ProposalInFlight
<1>17. /\ epochs[r].state \in {"staged", "cancelled"} /\ w.state \notin {"active", "superseded"}
       /\ trans[r].activation \in {None, r} /\ y.activation \in {None, r}
       /\ x.published # "none" /\ ledger[r].action # "config.apply" /\ ~Waiting(r)'
  BY <1>2, <1>3, <1>10, <1>11, <1>12, <1>14 DEF NoneWaiting
<1> QED
  BY <1>2, <1>3, <1>9, <1>10, <1>11, <1>12, <1>15, <1>16, <1>17, PublicationKeeps

LEMMA RestoreActivationKeeps ==
  ASSUME MembershipInv, NEW r \in Requests, Open(r), ledger[r].published = "applied",
         ledger[r].action = "membership.activate", RestoreActivation(r, ledger[r].target),
         ledger' = [ledger EXCEPT ![r].published = "restored"],
         UNCHANGED <<head, proofs, receipts, stale>>
  PROVE  MembershipInv'
<1>1. InFlightPlaced(r) /\ Targeted(r) /\ ledger[r] \in Mutation
  BY TypedParts DEF Open
<1>2. PICK t \in Requests : t = ledger[r].target /\ trans[t] # None /\ ActivationInFlight(r, t)
  BY <1>1 DEF InFlightPlaced, Targeted, Open
<1>3. /\ trans[t].activation = r /\ trans[t].state = "activation_authorized"
      /\ trans' = [trans EXCEPT ![t].state = "ready", ![t].version = @ + 1,
                                ![t].activation = None]
      /\ UNCHANGED epochs
  BY <1>2 DEF RestoreActivation
<1>4. /\ OnlyWaiting(t) /\ Waiting(t) /\ epochs[t].state = "staged" /\ trans[t].source = head
      /\ trans[t] \in Transition /\ epochs[t] \in Epoch
  BY <1>2, TypedParts DEF ActivationInFlight, OnlyWaiting, TransitionPlaced, EpochLinked
<1>5. trans[t].version + 1 \in Nat
  BY <1>4 DEF Transition
<1>6. PICK y : y = [trans[t] EXCEPT !.state = "ready", !.version = trans[t].version + 1,
                                    !.activation = None]
  OBVIOUS
<1>7. PICK x : x = [ledger[r] EXCEPT !.published = "restored"]
  OBVIOUS
<1>8. /\ trans' = [trans EXCEPT ![t] = y] /\ ledger' = [ledger EXCEPT ![r] = x]
      /\ epochs' = [epochs EXCEPT ![t] = epochs[t]]
  BY <1>3, <1>6, <1>7 DEF MembershipInv, MembershipTypeOK
<1>9. /\ y \in Transition /\ y.state = "ready" /\ y.activation = None
      /\ y.kind = trans[t].kind /\ y.source = trans[t].source
  <2>1. [trans[t] EXCEPT !.state = "ready", !.version = trans[t].version + 1,
                         !.activation = None] \in Transition
    BY <1>4, <1>5, TransitionFields DEF TransitionStates, Capabilities
  <2> QED
    BY <1>4, <1>6, <2>1 DEF Transition
<1>10. /\ x \in Mutation /\ x.action = "membership.activate" /\ x.target = t
       /\ x.state = ledger[r].state /\ x.revision = ledger[r].revision
       /\ x.published = "restored"
  BY <1>1, <1>2, <1>7 DEF Mutation
<1>11. /\ trans'[t] = y /\ trans'[t] # None /\ ledger'[r] = x
       /\ \A u \in Requests : u # t => trans'[u] = trans[u]
  BY <1>8, <1>9, NoneAssumption DEF MembershipInv, MembershipTypeOK
<1>12. OnlyWaiting(t)'
  BY <1>4, <1>9, <1>11 DEF OnlyWaiting, Waiting
<1>13. TransitionPlaced(t)'
  BY <1>3, <1>4, <1>9, <1>11 DEF TransitionPlaced
<1>14. ActivationInFlight(r, t)'
  BY <1>9, <1>10, <1>11, <1>12 DEF ActivationInFlight
<1>15. /\ ledger[r].action # "config.apply"
       /\ epochs[t].state \in {"staged", "cancelled"}
       /\ epochs[t].state \notin {"active", "superseded"}
       /\ trans[t].activation \in {None, r} /\ y.activation \in {None, r}
       /\ trans[t].state # "cancelled" /\ x.target = ledger[r].target /\ x.published # "none"
       /\ \A u \in Requests : u # t => ~Waiting(u)
  BY <1>2, <1>3, <1>4, <1>9, <1>10 DEF OnlyWaiting
<1>16. ActivationInFlight(r, x.target)'
  BY <1>10, <1>14
<1> QED
  BY <1>2, <1>4, <1>8, <1>9, <1>10, <1>13, <1>15, <1>16, PublicationKeeps

LEMMA RestoreCancellationKeeps ==
  ASSUME MembershipInv, NEW r \in Requests, Open(r), ledger[r].published = "applied",
         ledger[r].action = "membership.cancel", RestoreCancellation(r, ledger[r].target),
         ledger' = [ledger EXCEPT ![r].published = "restored"],
         UNCHANGED <<head, proofs, receipts, stale>>
  PROVE  MembershipInv'
<1>1. InFlightPlaced(r) /\ Targeted(r) /\ ledger[r] \in Mutation
  BY TypedParts DEF Open
<1>2. PICK t \in Requests : t = ledger[r].target /\ trans[t] # None /\ CancellationInFlight(r, t)
  BY <1>1 DEF InFlightPlaced, Targeted, Open
<1>3. PICK s : s = ledger[r].priorState
  OBVIOUS
<1>4. /\ trans[t].state = "cancelled" /\ epochs[t].state = "cancelled"
      /\ epochs' = [epochs EXCEPT ![t].state = "staged"]
      /\ trans' = [trans EXCEPT ![t].state = s, ![t].version = @ + 1]
  BY <1>2, <1>3 DEF RestoreCancellation
<1>5. /\ NoneWaiting /\ trans[t].source = head /\ trans[t].activation = None
      /\ s \in {"catching_up", "ready"}
      /\ trans[t] \in Transition /\ epochs[t] \in Epoch
  BY <1>2, <1>3, <1>4, TypedParts DEF CancellationInFlight, TransitionPlaced, EpochLinked
<1>6. trans[t].version + 1 \in Nat
  BY <1>5 DEF Transition
<1>7. PICK y : y = [trans[t] EXCEPT !.state = s, !.version = trans[t].version + 1]
  OBVIOUS
<1>8. PICK x : x = [ledger[r] EXCEPT !.published = "restored"]
  OBVIOUS
<1>9. PICK w : w = [epochs[t] EXCEPT !.state = "staged"]
  OBVIOUS
<1>10. /\ trans' = [trans EXCEPT ![t] = y] /\ ledger' = [ledger EXCEPT ![r] = x]
       /\ epochs' = [epochs EXCEPT ![t] = w]
  BY <1>4, <1>7, <1>8, <1>9 DEF MembershipInv, MembershipTypeOK
<1>11. /\ y \in Transition /\ y.state = s /\ y.activation = None
       /\ y.kind = trans[t].kind /\ y.source = trans[t].source
  <2>1. [trans[t] EXCEPT !.state = s, !.version = trans[t].version + 1] \in Transition
    BY <1>5, <1>6, TransitionFields DEF TransitionStates, Capabilities
  <2> QED
    BY <1>5, <1>7, <2>1 DEF Transition
<1>12. /\ x \in Mutation /\ x.action = "membership.cancel" /\ x.target = t
       /\ x.state = ledger[r].state /\ x.revision = ledger[r].revision
       /\ x.published = "restored"
  BY <1>1, <1>2, <1>8 DEF Mutation
<1>13. /\ w \in Epoch /\ w.state = "staged" /\ w.predecessor = epochs[t].predecessor
       /\ w.sequence = epochs[t].sequence /\ w.members = epochs[t].members
  BY <1>5, <1>9 DEF Epoch, EpochStates
<1>14. /\ trans'[t] = y /\ trans'[t] # None /\ ledger'[r] = x /\ epochs'[t] = w
       /\ \A u \in Requests : u # t => trans'[u] = trans[u]
  BY <1>10, <1>11, NoneAssumption DEF MembershipInv, MembershipTypeOK
<1>15. OnlyWaiting(t)'
  BY <1>5, <1>11, <1>14 DEF OnlyWaiting, NoneWaiting, Waiting
<1>16. TransitionPlaced(t)'
  BY <1>5, <1>11, <1>13, <1>14 DEF TransitionPlaced
<1>17. CancellationInFlight(r, t)'
  BY <1>11, <1>12, <1>14, <1>15 DEF CancellationInFlight
<1>18. \A q \in Requests : ledger[q] # None /\ ledger[q].state = "committed"
                           /\ ledger[q].action = "membership.cancel" => ledger[q].target # t
  BY <1>2 DEF CancellationInFlight
<1>19. /\ ledger[r].action # "config.apply"
       /\ epochs[t].state \in {"staged", "cancelled"} /\ w.state \notin {"active", "superseded"}
       /\ trans[t].activation \in {None, r} /\ y.activation \in {None, r}
       /\ x.target = ledger[r].target /\ x.published # "none"
       /\ \A u \in Requests : u # t => ~Waiting(u)
  BY <1>2, <1>4, <1>5, <1>11, <1>12, <1>13 DEF NoneWaiting
<1>20. CancellationInFlight(r, x.target)'
  BY <1>12, <1>17
<1> QED
  BY <1>2, <1>10, <1>11, <1>12, <1>13, <1>16, <1>18, <1>19, <1>20, PublicationKeeps

LEMMA RestoreKeeps ==
  ASSUME MembershipInv, NEW r \in Requests, Restore(r)
  PROVE  MembershipInv'
<1>1. /\ Open(r) /\ ledger[r].published = "applied"
      /\ ledger' = [ledger EXCEPT ![r].published = "restored"]
      /\ UNCHANGED <<head, proofs, receipts, stale>>
  BY DEF Restore, Open
<1>2. \/ ledger[r].action = "membership.propose" /\ RestoreProposal(r)
      \/ ledger[r].action = "membership.activate" /\ RestoreActivation(r, ledger[r].target)
      \/ ledger[r].action = "membership.cancel" /\ RestoreCancellation(r, ledger[r].target)
  BY DEF Restore
<1> QED
  BY <1>1, <1>2, RestoreProposalKeeps, RestoreActivationKeeps, RestoreCancellationKeeps

-------------------------------------------------------------------------------
(* The first publication of a proposal, and the evidence for it. *)

LEMMA ProposalTyped ==
  ASSUME MembershipInv, NEW kind \in Kinds, NEW member \in Instances \cup {None},
         Proposable(kind, member)
  PROVE  /\ TargetMembers(kind, member) \subseteq Instances
         /\ kind = "initialize" => head = None
         /\ kind = "remove" => /\ head # None
                               /\ TargetMembers(kind, member) \subseteq epochs[head].members
         /\ head # None => /\ head \in Requests /\ Adopted(head)
                           /\ epochs[head].sequence \in Nat
<1>1. head # None => head \in Requests /\ Adopted(head) /\ epochs[head] \in Epoch
  BY TypedParts DEF MembershipInv, MembershipTypeOK, Chain, Adopted
<1>2. head # None => epochs[head].members \subseteq Instances /\ epochs[head].sequence \in Nat
  BY <1>1 DEF Epoch
<1>3. ActiveMembers \subseteq Instances
  BY <1>2 DEF ActiveMembers
<1>4. CASE kind = "initialize"
  BY <1>1, <1>2, <1>4, MembershipAssumption DEF TargetMembers, Proposable
<1>5. CASE kind = "join"
  BY <1>1, <1>2, <1>3, <1>5 DEF TargetMembers, Proposable
<1>6. CASE kind = "remove"
  BY <1>1, <1>2, <1>3, <1>6 DEF TargetMembers, Proposable, ActiveMembers
<1> QED
  BY <1>4, <1>5, <1>6 DEF Kinds

LEMMA ApplyProposalKeeps ==
  ASSUME MembershipInv, NEW r \in Requests, NEW kind \in Kinds,
         NEW member \in Instances \cup {None}, ApplyProposal(r, kind, member)
  PROVE  MembershipInv'
<1>1. /\ Open(r) /\ ledger[r].action = "membership.propose" /\ ledger[r].published = "none"
      /\ InFlightPlaced(r) /\ ledger[r] \in Mutation
  BY TypedParts DEF ApplyProposal, Publishes, Open
<1>2. NoneWaiting /\ trans[r] = None /\ epochs[r] = None /\ ~Adopted(r)
  BY <1>1, TypedParts DEF InFlightPlaced, ProposalInFlight, EpochLinked, Adopted
<1>3. PICK w : w = [state |-> "staged", predecessor |-> head,
                    sequence |-> IF head = None THEN 0 ELSE epochs[head].sequence + 1,
                    members |-> TargetMembers(kind, member)]
  OBVIOUS
<1>4. PICK y : y = [kind |-> kind, source |-> head, member |-> member, activation |-> None,
                    state |-> IF kind = "join" THEN "catching_up" ELSE "ready",
                    version |-> IF kind = "join" THEN 2 ELSE 1,
                    capability |-> IF kind = "join" THEN "pending" ELSE "not_required"]
  OBVIOUS
<1>5. PICK x : x = [ledger[r] EXCEPT !.published = "applied"]
  OBVIOUS
<1>6. /\ epochs' = [epochs EXCEPT ![r] = w] /\ trans' = [trans EXCEPT ![r] = y]
      /\ ledger' = [ledger EXCEPT ![r] = x] /\ UNCHANGED <<head, proofs, receipts, stale>>
      /\ Proposable(kind, member)
  BY <1>3, <1>4, <1>5 DEF ApplyProposal, MembershipInv, MembershipTypeOK
<1>7. /\ TargetMembers(kind, member) \subseteq Instances
      /\ kind = "initialize" => head = None
      /\ kind = "remove" => /\ head # None
                            /\ TargetMembers(kind, member) \subseteq epochs[head].members
      /\ head # None => /\ head \in Requests /\ Adopted(head)
                        /\ epochs[head].sequence \in Nat
  BY <1>6, ProposalTyped
<1>8. head \in Requests \cup {None}
  BY DEF MembershipInv, MembershipTypeOK
<1>9. /\ w \in Epoch /\ w.state = "staged" /\ w.predecessor = head
      /\ w.members = TargetMembers(kind, member)
      /\ head # None => w.sequence = epochs[head].sequence + 1
  BY <1>3, <1>7, <1>8 DEF Epoch, EpochStates
<1>10. /\ y \in Transition /\ y.kind = kind /\ y.source = head /\ y.activation = None
       /\ y.state \in {"catching_up", "ready"}
  BY <1>4, <1>8 DEF Transition, TransitionStates, Capabilities
<1>11. /\ x \in Mutation /\ x.action = "membership.propose" /\ x.target = ledger[r].target
       /\ x.state = "open" /\ x.revision = ledger[r].revision /\ x.published = "applied"
  BY <1>1, <1>5 DEF Mutation, Open
<1>12. /\ epochs'[r] = w /\ trans'[r] = y /\ ledger'[r] = x
       /\ w # None /\ y # None /\ x # None
       /\ \A u \in Requests : u # r => /\ epochs'[u] = epochs[u] /\ trans'[u] = trans[u]
                                       /\ ledger'[u] = ledger[u]
  BY <1>6, <1>9, <1>10, <1>11, NoneAssumption DEF MembershipInv, MembershipTypeOK
<1>13. MembershipTypeOK'
  BY <1>6, <1>9, <1>10, <1>11 DEF MembershipInv, MembershipTypeOK
<1>14. \A e \in Requests : Adopted(e)' <=> Adopted(e)
  BY <1>2, <1>9, <1>12 DEF Adopted
<1>15. \A u \in Requests : Waiting(u)' <=> u = r
  BY <1>2, <1>10, <1>12 DEF Waiting, NoneWaiting
<1>16. \A e \in Requests : Adopted(e) => e # r /\ epochs'[e] = epochs[e]
  BY <1>2, <1>12
<1>17. ASSUME NEW u \in Requests PROVE EpochLinked(u)'
  <2>1. CASE u = r
    BY <1>6, <1>7, <1>9, <1>10, <1>11, <1>12, <1>14, <1>16, <2>1 DEF EpochLinked
  <2>2. CASE u # r
    <3>1. EpochLinked(u) /\ (trans[u] # None => trans[u].source \in Requests \cup {None})
      BY TypedParts DEF Transition
    <3>2. epochs'[u] = epochs[u] /\ trans'[u] = trans[u] /\ ledger'[u] = ledger[u]
      BY <1>12, <2>2
    <3>3. trans[u] # None /\ trans[u].source # None =>
            Adopted(trans[u].source)' /\ epochs'[trans[u].source] = epochs[trans[u].source]
      BY <1>14, <1>16, <3>1, <3>2 DEF EpochLinked
    <3> QED
      BY <3>1, <3>2, <3>3 DEF EpochLinked
  <2> QED
    BY <2>1, <2>2
<1>18. ASSUME NEW u \in Requests PROVE TransitionPlaced(u)'
  BY <1>6, <1>9, <1>10, <1>12, <1>15, TypedParts DEF TransitionPlaced
<1>19. Chain'
  BY <1>6, <1>7, <1>14, <1>16 DEF MembershipInv, Chain
<1>20. OneWaiting'
  BY <1>15 DEF OneWaiting
<1>21. ASSUME NEW q \in Requests PROVE Targeted(q)'
  BY <1>11, <1>12, TypedParts DEF Targeted
<1>22. ASSUME NEW q \in Requests PROVE InFlightPlaced(q)'
  <2>1. \A p \in Requests : Open(p)' => p = r
    BY <1>1, <1>12, AloneInFlight DEF Open
  <2>2. ProposalInFlight(r)'
    BY <1>10, <1>11, <1>12, <1>15 DEF ProposalInFlight, OnlyWaiting
  <2>3. ledger[r].revision = head
    BY <1>1 DEF InFlightPlaced
  <2> QED
    BY <1>6, <1>11, <1>12, <2>1, <2>2, <2>3 DEF InFlightPlaced
<1>23. VerdictsKept'
  <2> SUFFICES ASSUME NEW q \in Requests PROVE VerdictKept(q)'
    BY DEF VerdictsKept, VerdictKept
  <2>1. CASE q = r
    BY <1>11, <1>12, <2>1 DEF VerdictKept
  <2>2. CASE q # r
    BY <1>2, <1>12, <2>2, TypedParts, VerdictsPointwise DEF VerdictKept, Targeted
  <2> QED
    BY <2>1, <2>2
<1>24. MembersProved'
  <2>1. head # None => /\ epochs'[head] = epochs[head] /\ EpochLinked(head)
                       /\ epochs[head] # None
    BY <1>7, <1>16, TypedParts DEF Adopted
  <2>2. head # None /\ epochs[head].predecessor # None =>
          Adopted(epochs[head].predecessor) /\ epochs[head].predecessor \in Requests
    BY <1>7, <2>1, TypedParts DEF EpochLinked, Epoch
  <2>3. head # None /\ epochs[head].predecessor # None =>
          epochs'[epochs[head].predecessor] = epochs[epochs[head].predecessor]
    BY <1>16, <2>2
  <2> QED
    BY <1>6, <2>1, <2>3 DEF MembershipInv, MembersProved
<1> QED
  BY <1>13, <1>17, <1>18, <1>19, <1>20, <1>21, <1>22, <1>23, <1>24 DEF MembershipInv

LEMMA KeyProofKeeps ==
  ASSUME MembershipInv, NEW t \in Requests, NEW m \in Instances, SubmitKeyProof(t, m)
  PROVE  MembershipInv'
<1>1. Waiting(t) /\ trans[t] # None /\ trans[t] \in Transition
  BY PendingWaiting, TypedParts DEF SubmitKeyProof, Waiting
<1>2. trans[t].version + 1 \in Nat
  BY <1>1 DEF Transition
<1>3. PICK y : y = [trans[t] EXCEPT !.version = trans[t].version + 1]
  OBVIOUS
<1>4. /\ y \in Transition /\ y.kind = trans[t].kind /\ y.source = trans[t].source
      /\ y.activation = trans[t].activation /\ y.state = trans[t].state
  BY <1>1, <1>2, <1>3 DEF Transition
<1>5. /\ trans' = [trans EXCEPT ![t] = y] /\ proofs' = [proofs EXCEPT ![t] = @ \cup {m}]
      /\ UNCHANGED <<head, epochs, receipts, stale, ledger>>
  BY <1>3 DEF SubmitKeyProof, MembershipInv, MembershipTypeOK
<1>6. MembershipTypeOK'
  BY <1>4, <1>5 DEF MembershipInv, MembershipTypeOK
<1>7. /\ trans'[t] = y /\ trans'[t] # None
      /\ \A u \in Requests : u # t => trans'[u] = trans[u]
      /\ \A u \in Requests : proofs[u] \subseteq proofs'[u]
  BY <1>4, <1>5, NoneAssumption DEF MembershipInv, MembershipTypeOK
<1> QED
  BY <1>1, <1>4, <1>5, <1>6, <1>7, EvidenceKeeps

LEMMA ReadinessKeeps ==
  ASSUME MembershipInv, NEW t \in Requests, SubmitReadiness(t)
  PROVE  MembershipInv'
<1>1. /\ Waiting(t) /\ trans[t] # None /\ trans[t] \in Transition
      /\ trans[t].state = "catching_up"
  BY TypedParts DEF SubmitReadiness, Waiting
<1>2. trans[t].version + 1 \in Nat
  BY <1>1 DEF Transition
<1>3. PICK y : y = [trans[t] EXCEPT !.state = "ready", !.version = trans[t].version + 1,
                                    !.capability = "compatible"]
  OBVIOUS
<1>4. /\ y \in Transition /\ y.kind = trans[t].kind /\ y.source = trans[t].source
      /\ y.activation = trans[t].activation /\ y.state = "ready"
  <2>1. [trans[t] EXCEPT !.state = "ready", !.version = trans[t].version + 1,
                         !.capability = "compatible"] \in Transition
    BY <1>1, <1>2, TransitionFields DEF TransitionStates, Capabilities
  <2> QED
    BY <1>1, <1>3, <2>1 DEF Transition
<1>5. /\ trans' = [trans EXCEPT ![t] = y] /\ receipts' = [receipts EXCEPT ![t] = @ + 1]
      /\ UNCHANGED <<head, epochs, proofs, stale, ledger>>
  BY <1>3 DEF SubmitReadiness, MembershipInv, MembershipTypeOK
<1>6. MembershipTypeOK'
  BY <1>4, <1>5 DEF MembershipInv, MembershipTypeOK
<1>7. /\ trans'[t] = y /\ trans'[t] # None
      /\ \A u \in Requests : u # t => trans'[u] = trans[u] /\ receipts'[u] = receipts[u]
  BY <1>4, <1>5, NoneAssumption DEF MembershipInv, MembershipTypeOK
<1> QED
  BY <1>1, <1>4, <1>5, <1>6, <1>7, EvidenceKeeps

LEMMA BlockingKeeps ==
  ASSUME MembershipInv, NEW t \in Requests, NEW c \in {"pending", "incompatible"},
         SetBlockingReason(t, c)
  PROVE  MembershipInv'
<1>1. Waiting(t) /\ trans[t] # None /\ trans[t] \in Transition
  BY PendingWaiting, TypedParts DEF SetBlockingReason, Waiting
<1>2. trans[t].version + 1 \in Nat
  BY <1>1 DEF Transition
<1>3. PICK y : y = [trans[t] EXCEPT !.version = trans[t].version + 1, !.capability = c]
  OBVIOUS
<1>4. /\ y \in Transition /\ y.kind = trans[t].kind /\ y.source = trans[t].source
      /\ y.activation = trans[t].activation /\ y.state = trans[t].state
  BY <1>1, <1>2, <1>3 DEF Transition, Capabilities
<1>5. /\ trans' = [trans EXCEPT ![t] = y]
      /\ UNCHANGED <<head, epochs, proofs, receipts, stale, ledger>>
  BY <1>3 DEF SetBlockingReason, MembershipInv, MembershipTypeOK
<1>6. MembershipTypeOK'
  BY <1>4, <1>5 DEF MembershipInv, MembershipTypeOK
<1>7. /\ trans'[t] = y /\ trans'[t] # None
      /\ \A u \in Requests : u # t => trans'[u] = trans[u]
  BY <1>4, <1>5, NoneAssumption DEF MembershipInv, MembershipTypeOK
<1> QED
  BY <1>1, <1>4, <1>5, <1>6, <1>7, EvidenceKeeps

LEMMA AgingKeeps ==
  ASSUME MembershipInv, NEW t \in Requests, EvidenceAges(t)
  PROVE  MembershipInv'
<1>1. MembershipTypeOK'
  BY DEF EvidenceAges, MembershipInv, MembershipTypeOK
<1>2. UNCHANGED <<head, epochs, ledger, trans, proofs, receipts>>
  BY DEF EvidenceAges
<1> QED
  BY <1>1, <1>2, EvidenceKeeps

-------------------------------------------------------------------------------
(* Heartbeats: no mutation is in flight when the activation of the one transition
   that waits has been decided.                                                *)

LEMMA NoneInFlight ==
  ASSUME MembershipInv, NEW t \in Requests, trans[t] # None,
         trans[t].state = "activation_authorized",
         ledger[trans[t].activation].state # "open"
  PROVE  \A q \in Requests : ~Open(q)
<1> SUFFICES ASSUME NEW q \in Requests, Open(q) PROVE FALSE
  OBVIOUS
<1>1. /\ Waiting(t) /\ trans[t].activation # None
      /\ InFlightPlaced(q) /\ Targeted(q) /\ ledger[q].action \in Actions
      /\ ledger[q].published \in {"none", "applied", "restored"}
  BY TypedParts DEF Waiting, TransitionPlaced, Open, Mutation
<1>2. CASE ledger[q].action = "config.apply"
  BY <1>1, <1>2 DEF InFlightPlaced, NoneWaiting
<1>3. CASE ledger[q].action = "membership.propose"
  BY <1>1, <1>3 DEF InFlightPlaced, ProposalInFlight, NoneWaiting, OnlyWaiting
<1>4. CASE ledger[q].action = "membership.activate"
  BY <1>1, <1>4 DEF InFlightPlaced, ActivationInFlight, OnlyWaiting, Targeted, Open
<1>5. CASE ledger[q].action = "membership.cancel"
  BY <1>1, <1>5 DEF InFlightPlaced, CancellationInFlight, NoneWaiting, OnlyWaiting, Targeted, Open
<1> QED
  BY <1>1, <1>2, <1>3, <1>4, <1>5 DEF Actions

LEMMA ReconcileKeeps ==
  ASSUME MembershipInv, NEW t \in Requests, ReconcileIndeterminate(t)
  PROVE  MembershipInv'
<1>1. /\ trans[t] # None /\ trans[t].state = "activation_authorized"
      /\ ledger[trans[t].activation].state = "indeterminate"
      /\ trans' = [trans EXCEPT ![t].state = "indeterminate", ![t].version = @ + 1]
      /\ epochs' = [epochs EXCEPT ![t].state = "indeterminate"]
      /\ UNCHANGED <<head, proofs, receipts, stale, ledger>>
  BY DEF ReconcileIndeterminate
<1>2. /\ trans[t] \in Transition /\ epochs[t] \in Epoch /\ epochs[t] # None
      /\ epochs[t].state = "staged" /\ Waiting(t)
  BY <1>1, TypedParts DEF EpochLinked, TransitionPlaced, Waiting
<1>3. \A q \in Requests : ~Open(q)
  BY <1>1, NoneInFlight
<1>4. trans[t].version + 1 \in Nat
  BY <1>2 DEF Transition
<1>5. PICK y : y = [trans[t] EXCEPT !.state = "indeterminate", !.version = trans[t].version + 1]
  OBVIOUS
<1>6. PICK w : w = [epochs[t] EXCEPT !.state = "indeterminate"]
  OBVIOUS
<1>7. /\ y \in Transition /\ y.state = "indeterminate" /\ y.activation = trans[t].activation
      /\ y.kind = trans[t].kind /\ y.source = trans[t].source
  <2>1. [trans[t] EXCEPT !.state = "indeterminate", !.version = trans[t].version + 1] \in Transition
    BY <1>2, <1>4, TransitionFields DEF TransitionStates, Capabilities
  <2> QED
    BY <1>2, <1>5, <2>1 DEF Transition
<1>8. /\ w \in Epoch /\ w.state = "indeterminate" /\ w.predecessor = epochs[t].predecessor
      /\ w.sequence = epochs[t].sequence /\ w.members = epochs[t].members
  BY <1>2, <1>6 DEF Epoch, EpochStates
<1>9. trans' = [trans EXCEPT ![t] = y] /\ epochs' = [epochs EXCEPT ![t] = w]
  BY <1>1, <1>5, <1>6 DEF MembershipInv, MembershipTypeOK
<1>10. /\ trans'[t] = y /\ trans' = [trans EXCEPT ![t] = trans'[t]] /\ y # None
       /\ epochs'[t] = w /\ epochs' = [epochs EXCEPT ![t] = epochs'[t]] /\ w # None
       /\ \A u \in Requests : u # t => trans'[u] = trans[u] /\ epochs'[u] = epochs[u]
  BY <1>7, <1>8, <1>9, NoneAssumption DEF MembershipInv, MembershipTypeOK
<1>11. ~Waiting(t)' /\ TransitionPlaced(t)'
  BY <1>7, <1>10 DEF Waiting, TransitionPlaced
<1>12. ASSUME NEW q \in Requests, ledger[q] # None, ledger[q].target = t PROVE VerdictKept(q)'
  <2>1. VerdictKept(q) /\ ledger'[q] = ledger[q]
    BY <1>1, VerdictsPointwise
  <2>2. trans'[q] # None <=> trans[q] # None
    BY <1>1, <1>10
  <2>3. epochs'[q] # None <=> epochs[q] # None
    BY <1>2, <1>10
  <2>4. q = t => epochs[q].state # "indeterminate" /\ epochs[q] # None
    BY <1>2
  <2>5. CASE ledger[q].action = "membership.propose"
    BY <1>10, <2>1, <2>2, <2>3, <2>4, <2>5 DEF VerdictKept
  <2>6. CASE ledger[q].action # "membership.propose"
    <3>1. trans'[t].activation = trans[t].activation
      BY <1>7, <1>10
    <3> QED
      BY <1>1, <1>12, <2>1, <2>6, <3>1 DEF VerdictKept
  <2> QED
    BY <2>5, <2>6
<1>13. ledger' \in [Requests -> Mutation \cup {None}]
  BY <1>1 DEF MembershipInv, MembershipTypeOK
<1> QED
  BY <1>1, <1>2, <1>3, <1>7, <1>8, <1>10, <1>11, <1>12, <1>13, TransitionMovesKeeps

LEMMA FinalizeKeeps ==
  ASSUME MembershipInv, NEW t \in Requests, FinalizeActivation(t)
  PROVE  MembershipInv'
<1>1. /\ trans[t] # None /\ trans[t].state = "activation_authorized"
      /\ ledger[trans[t].activation].state = "committed"
      /\ epochs[t].state = "staged" /\ EvidenceValid(t) /\ trans[t].source = head
      /\ epochs' = [e \in Requests |->
           CASE e = t -> [epochs[e] EXCEPT !.state = "active"]
             [] e = head -> [epochs[e] EXCEPT !.state = "superseded"]
             [] OTHER -> epochs[e]]
      /\ head' = t
      /\ trans' = [trans EXCEPT ![t].state = "active", ![t].version = @ + 2]
      /\ UNCHANGED <<proofs, receipts, stale, ledger>>
  BY DEF FinalizeActivation
<1>2. /\ trans[t] \in Transition /\ epochs[t] \in Epoch /\ epochs[t] # None
      /\ Waiting(t) /\ EpochLinked(t) /\ ~Adopted(t) /\ None \notin Requests
  BY <1>1, TypedParts DEF EpochLinked, Waiting, Adopted
<1>3. \A q \in Requests : ~Open(q)
  BY <1>1, NoneInFlight
<1>4. head # None => head \in Requests /\ head # t /\ Adopted(head) /\ epochs[head] \in Epoch
  BY <1>2, TypedParts DEF MembershipInv, MembershipTypeOK, Chain, Adopted
<1>5. trans[t].version + 2 \in Nat
  BY <1>2 DEF Transition
<1>6. PICK y : y = [trans[t] EXCEPT !.state = "active", !.version = trans[t].version + 2]
  OBVIOUS
<1>7. /\ y \in Transition /\ y.state = "active" /\ y.activation = trans[t].activation
      /\ y.kind = trans[t].kind /\ y.source = trans[t].source
  <2>1. [trans[t] EXCEPT !.state = "active", !.version = trans[t].version + 2] \in Transition
    BY <1>2, <1>5, TransitionFields DEF TransitionStates, Capabilities
  <2> QED
    BY <1>2, <1>6, <2>1 DEF Transition
<1>8. trans' = [trans EXCEPT ![t] = y]
  BY <1>1, <1>6 DEF MembershipInv, MembershipTypeOK
<1>9. /\ trans'[t] = y /\ y # None
      /\ \A u \in Requests : u # t => trans'[u] = trans[u]
  BY <1>7, <1>8, NoneAssumption DEF MembershipInv, MembershipTypeOK
<1>10. /\ epochs'[t] = [epochs[t] EXCEPT !.state = "active"]
       /\ head # None => epochs'[head] = [epochs[head] EXCEPT !.state = "superseded"]
       /\ \A e \in Requests : e # t /\ e # head => epochs'[e] = epochs[e]
  <2>1. epochs'[t] = [epochs[t] EXCEPT !.state = "active"]
    BY <1>1, <1>2, <1>4
  <2>2. ASSUME NEW e \in Requests, e # t, e = head
        PROVE  epochs'[e] = [epochs[e] EXCEPT !.state = "superseded"]
    BY <1>1, <2>2
  <2>3. ASSUME NEW e \in Requests, e # t, e # head PROVE epochs'[e] = epochs[e]
    BY <1>1, <2>3
  <2> QED
    BY <1>4, <2>1, <2>2, <2>3
<1>11. ASSUME NEW e \in Requests, epochs[e] # None
       PROVE  /\ epochs'[e] \in Epoch /\ epochs'[e].predecessor = epochs[e].predecessor
              /\ epochs'[e].sequence = epochs[e].sequence
              /\ epochs'[e].members = epochs[e].members
              /\ epochs'[e].state = IF e = t THEN "active" ELSE
                                    IF e = head THEN "superseded" ELSE epochs[e].state
  <2>1. epochs[e] \in Epoch
    BY <1>11, TypedParts
  <2>2. CASE e = t
    BY <1>10, <2>1, <2>2 DEF Epoch, EpochStates
  <2>3. CASE e # t /\ e = head
    BY <1>2, <1>10, <2>1, <2>3 DEF Epoch, EpochStates
  <2>4. CASE e # t /\ e # head
    BY <1>10, <2>1, <2>4
  <2> QED
    BY <2>2, <2>3, <2>4
<1>12. \A e \in Requests : epochs'[e] # None <=> epochs[e] # None
  <2> SUFFICES ASSUME NEW e \in Requests PROVE epochs'[e] # None <=> epochs[e] # None
    OBVIOUS
  <2>1. CASE epochs[e] = None
    BY <1>2, <1>4, <1>10, <2>1 DEF Adopted
  <2>2. CASE epochs[e] # None
    BY <1>11, <2>2, NoneAssumption
  <2> QED
    BY <2>1, <2>2
<1>13. \A e \in Requests : Adopted(e)' <=> Adopted(e) \/ e = t
  BY <1>2, <1>4, <1>11, <1>12 DEF Adopted
<1>14. MembershipTypeOK'
  <2>1. epochs' \in [Requests -> Epoch \cup {None}]
    <3>1. \A e \in Requests : epochs'[e] \in Epoch \cup {None}
      BY <1>11, <1>12
    <3> QED
      BY <1>1, <3>1
  <2>2. trans' \in [Requests -> Transition \cup {None}] /\ head' \in Requests
    BY <1>1, <1>7, <1>8 DEF MembershipInv, MembershipTypeOK
  <2>3. UNCHANGED <<proofs, receipts, stale, ledger>>
    BY <1>1
  <2> QED
    BY <2>1, <2>2, <2>3 DEF MembershipInv, MembershipTypeOK
<1>15. \A u \in Requests : ~Waiting(u)'
  BY <1>2, <1>7, <1>9 DEF MembershipInv, OneWaiting, Waiting
<1>16. ASSUME NEW u \in Requests PROVE EpochLinked(u)'
  <2>1. EpochLinked(u) /\ (trans[u] # None => trans[u].source \in Requests \cup {None})
    BY TypedParts DEF Transition
  <2>2. /\ trans'[u] # None <=> trans[u] # None
        /\ trans[u] # None => trans'[u].kind = trans[u].kind /\ trans'[u].source = trans[u].source
    BY <1>1, <1>7, <1>9
  <2>3. trans[u] # None => /\ epochs'[u].predecessor = epochs[u].predecessor
                           /\ epochs'[u].sequence = epochs[u].sequence
                           /\ epochs'[u].members = epochs[u].members
    BY <1>11, <2>1 DEF EpochLinked
  <2>4. trans[u] # None /\ trans[u].source # None =>
          /\ Adopted(trans[u].source)'
          /\ epochs'[trans[u].source].sequence = epochs[trans[u].source].sequence
          /\ epochs'[trans[u].source].members = epochs[trans[u].source].members
    BY <1>11, <1>13, <2>1, <2>2 DEF EpochLinked, Adopted
  <2> QED
    BY <1>1, <1>12, <2>1, <2>2, <2>3, <2>4 DEF EpochLinked
<1>17. ASSUME NEW u \in Requests PROVE TransitionPlaced(u)'
  BY <1>7, <1>9, <1>15, TypedParts DEF TransitionPlaced
<1>18. Chain'
  <2>1. ASSUME NEW e \in Requests, Adopted(e)
        PROVE  /\ head # None /\ e # t /\ epochs[e].sequence \in Nat
               /\ epochs[e].sequence <= epochs[head].sequence
               /\ epochs[e].predecessor # t
               /\ epochs'[e].state = "superseded"
    <3>1. epochs[e] \in Epoch /\ EpochLinked(e) /\ epochs[e] # None
      BY <2>1, TypedParts DEF Adopted
    <3>2. epochs[e].predecessor \in Requests \cup {None} /\ epochs[e].sequence \in Nat
      BY <3>1 DEF Epoch
    <3>3. epochs[e].predecessor # t
      BY <1>2, <3>1 DEF EpochLinked
    <3>4. /\ head # None /\ epochs[e].sequence <= epochs[head].sequence
          /\ epochs[e].state = "active" <=> e = head
      BY <2>1 DEF MembershipInv, Chain
    <3>5. e # t
      BY <1>2, <2>1
    <3> QED
      BY <1>11, <2>1, <3>1, <3>2, <3>3, <3>4, <3>5 DEF Adopted
  <2>2. /\ epochs'[t].state = "active" /\ epochs'[t].predecessor # t
        /\ head # None => epochs[t].sequence = epochs[head].sequence + 1
        /\ epochs[t].sequence \in Nat
    BY <1>1, <1>2, <1>4, <1>11 DEF EpochLinked, Epoch
  <2>3. head # None => epochs[head].sequence \in Nat
    BY <1>4 DEF Epoch
  <2>4. ASSUME NEW e \in Requests, Adopted(e)'
        PROVE  /\ epochs'[e].state = "active" <=> e = t
               /\ epochs'[e].sequence <= epochs'[t].sequence
               /\ epochs'[e].predecessor # t
    <3>1. epochs[e] # None
      BY <1>2, <1>13, <2>4 DEF Adopted
    <3>2. CASE e = t
      BY <1>2, <1>11, <2>2, <3>1, <3>2
    <3>3. CASE e # t
      BY <1>2, <1>11, <1>13, <2>1, <2>2, <2>3, <2>4, <3>1, <3>3
    <3> QED
      BY <3>2, <3>3
  <2>5. ASSUME NEW e \in Requests, NEW f \in Requests, Adopted(e)', Adopted(f)',
               epochs'[e].sequence = epochs'[f].sequence
        PROVE  e = f
    <3>1. epochs[e].sequence = epochs[f].sequence
      BY <1>2, <1>11, <1>13, <2>5 DEF Adopted
    <3>2. CASE e # t /\ f # t
      BY <1>13, <2>5, <3>1, <3>2 DEF MembershipInv, Chain
    <3>3. CASE e = t /\ f # t
      BY <1>13, <2>1, <2>2, <2>3, <2>5, <3>1, <3>3
    <3>4. CASE e # t /\ f = t
      BY <1>13, <2>1, <2>2, <2>3, <2>5, <3>1, <3>4
    <3> QED
      BY <3>2, <3>3, <3>4
  <2> QED
    BY <1>1, <1>2, <1>13, <2>4, <2>5 DEF Chain
<1>19. OneWaiting'
  BY <1>15 DEF OneWaiting
<1>20. ASSUME NEW q \in Requests PROVE Targeted(q)'
  BY <1>1, <1>9, TypedParts DEF Targeted
<1>21. ASSUME NEW q \in Requests PROVE InFlightPlaced(q)'
  BY <1>1, <1>3 DEF InFlightPlaced, Open
<1>22. VerdictsKept'
  <2> SUFFICES ASSUME NEW q \in Requests PROVE VerdictKept(q)'
    BY DEF VerdictsKept, VerdictKept
  <2>1. VerdictKept(q) /\ ledger'[q] = ledger[q] /\ Targeted(q)
    BY <1>1, TypedParts, VerdictsPointwise
  <2>2. trans'[q] # None <=> trans[q] # None
    BY <1>1, <1>9
  <2>3. epochs[q] # None /\ epochs[q].state = "indeterminate" /\ trans[q].state = "cancelled" =>
          epochs'[q].state = "indeterminate" /\ trans'[q].state = "cancelled"
    <3>1. epochs[q] # None /\ epochs[q].state = "indeterminate" => q # t /\ q # head
      BY <1>1, <1>2, <1>4 DEF Adopted
    <3> QED
      BY <1>9, <1>10, <3>1
  <2>4. CASE ledger[q] # None /\ ledger[q].action = "membership.propose"
    BY <1>12, <2>1, <2>2, <2>3, <2>4 DEF VerdictKept
  <2>5. CASE ledger[q] # None /\ ledger[q].action \in {"membership.activate", "membership.cancel"}
    <3>1. PICK u \in Requests : u = ledger[q].target
      BY <2>1, <2>5 DEF Targeted
    <3>2. /\ trans'[u].activation = trans[u].activation
          /\ trans[u].state = "cancelled" => trans'[u].state = "cancelled"
          /\ trans[u].state \in {"activation_authorized", "active"} =>
               trans'[u].state \in {"activation_authorized", "active"}
      BY <1>1, <1>7, <1>9
    <3> QED
      BY <2>1, <2>5, <3>1, <3>2 DEF VerdictKept
  <2> QED
    BY <2>1, <2>4, <2>5 DEF VerdictKept
<1>23. MembersProved'
  <2>1. /\ epochs'[t].members = epochs[t].members
        /\ epochs'[t].predecessor = head
        /\ proofs'[t] = proofs[t] /\ receipts'[t] = receipts[t] /\ head' = t
        /\ proofs[t] = epochs[t].members
        /\ trans[t].kind = "join" => receipts[t] = 1
    BY <1>1, <1>2, <1>11 DEF EpochLinked, EvidenceValid
  <2>2. head # None => epochs'[head].members = epochs[head].members
    BY <1>4, <1>11 DEF Adopted
  <2>3. trans[t].kind \in Kinds
    BY <1>2 DEF Transition
  <2>4. head # None /\ epochs[t].members \ epochs[head].members # {} => trans[t].kind = "join"
    BY <1>1, <1>2, <2>3 DEF EpochLinked, Kinds
  <2> QED
    BY <2>1, <2>2, <2>4 DEF MembersProved
<1> QED
  BY <1>14, <1>16, <1>17, <1>18, <1>19, <1>20, <1>21, <1>22, <1>23 DEF MembershipInv

-------------------------------------------------------------------------------
(* The first states, and any step. *)

LEMMA FreshHolds ==
  ASSUME MembershipInit, ~Established
  PROVE  MembershipInv
<1>1. /\ head = None /\ \A r \in Requests : epochs[r] = None /\ trans[r] = None /\ ledger[r] = None
  BY DEF MembershipInit, FreshInit
<1>2. MembershipTypeOK
  BY DEF MembershipInit, FreshInit, MembershipTypeOK
<1>3. \A r \in Requests : ~Adopted(r) /\ ~Open(r) /\ ~Waiting(r)
  BY <1>1 DEF Adopted, Open, Waiting
<1>4. \A r \in Requests : EpochLinked(r) /\ TransitionPlaced(r) /\ Targeted(r) /\ InFlightPlaced(r)
  BY <1>1, <1>3 DEF EpochLinked, TransitionPlaced, Targeted, InFlightPlaced
<1>5. Chain /\ OneWaiting /\ VerdictsKept /\ MembersProved
  BY <1>1, <1>3 DEF Chain, OneWaiting, VerdictsKept, MembersProved
<1> QED
  BY <1>2, <1>4, <1>5 DEF MembershipInv

LEMMA EstablishedHolds ==
  ASSUME MembershipInit, Established
  PROVE  MembershipInv
<1>1. Cardinality(Bootstrap) \in Nat
  BY MembershipAssumption, FS_Subset, FS_CardinalityType
<1>2. PICK n \in Nat : n = Cardinality(Bootstrap)
  BY <1>1
<1>3. 1 \in Requests /\ 2 \in Requests /\ None \notin Requests
  BY MembershipAssumption DEF Requests
<1>4. PICK w : w = [state |-> "active", sequence |-> 0, predecessor |-> None, members |-> Bootstrap]
  OBVIOUS
<1>5. PICK y : y = [kind |-> "initialize", state |-> "active", version |-> n + 4, source |-> None,
                    member |-> None, activation |-> 2, capability |-> "not_required"]
  OBVIOUS
<1>6. PICK p, a : /\ p = Published("membership.propose", None, None, 0)
                  /\ a = Published("membership.activate", 1, "ready", n + 1)
  OBVIOUS
<1>7. /\ head = 1 /\ receipts = [r \in Requests |-> 0] /\ stale = {}
      /\ epochs = [r \in Requests |-> IF r # 1 THEN None ELSE w]
      /\ trans = [r \in Requests |-> IF r # 1 THEN None ELSE y]
      /\ proofs = [r \in Requests |-> IF r = 1 THEN Bootstrap ELSE {}]
      /\ ledger = [r \in Requests |-> CASE r = 1 -> p [] r = 2 -> a [] OTHER -> None]
  BY <1>2, <1>4, <1>5, <1>6 DEF MembershipInit, EstablishedInit
<1>8. w \in Epoch /\ w.state = "active" /\ w.predecessor = None /\ w.members = Bootstrap
      /\ w.sequence = 0
  BY <1>4, MembershipAssumption DEF Epoch, EpochStates
<1>9. y \in Transition /\ y.state = "active" /\ y.kind = "initialize" /\ y.source = None
      /\ y.activation = 2
  BY <1>2, <1>3, <1>5 DEF Transition, TransitionStates, Kinds, Capabilities
<1>10. /\ p \in Mutation /\ p.state = "committed" /\ p.action = "membership.propose"
       /\ p.published = "applied"
  BY <1>6 DEF Mutation, Published, Actions, LedgerStates
<1>11. /\ a \in Mutation /\ a.state = "committed" /\ a.action = "membership.activate"
       /\ a.target = 1
  BY <1>2, <1>3, <1>6 DEF Mutation, Published, Actions, LedgerStates, TransitionStates
<1>12. /\ epochs[1] = w /\ trans[1] = y /\ ledger[1] = p /\ ledger[2] = a /\ proofs[1] = Bootstrap
       /\ w # None /\ y # None /\ p # None /\ a # None
       /\ \A r \in Requests : r # 1 => epochs[r] = None /\ trans[r] = None
       /\ \A r \in Requests : r # 1 /\ r # 2 => ledger[r] = None
  BY <1>3, <1>7, <1>8, <1>9, <1>10, <1>11, NoneAssumption
<1>13. MembershipTypeOK
  <2>1. epochs \in [Requests -> Epoch \cup {None}] /\ trans \in [Requests -> Transition \cup {None}]
    BY <1>7, <1>8, <1>9
  <2>2. ledger \in [Requests -> Mutation \cup {None}]
    <3>1. \A r \in Requests : ledger[r] \in Mutation \cup {None}
      BY <1>10, <1>11, <1>12
    <3> QED
      BY <1>7, <3>1
  <2>3. proofs \in [Requests -> SUBSET Instances] /\ receipts \in [Requests -> Nat]
    BY <1>7, MembershipAssumption
  <2> QED
    BY <1>3, <1>7, <2>1, <2>2, <2>3 DEF MembershipTypeOK
<1>14. \A r \in Requests : /\ ~Open(r) /\ ~Waiting(r) /\ (Adopted(r) <=> r = 1)
  BY <1>8, <1>9, <1>10, <1>11, <1>12 DEF Open, Waiting, Adopted
<1>15. \A r \in Requests : EpochLinked(r)
  BY <1>8, <1>9, <1>10, <1>12 DEF EpochLinked
<1>16. \A r \in Requests : TransitionPlaced(r) /\ Targeted(r) /\ InFlightPlaced(r)
  BY <1>3, <1>9, <1>10, <1>11, <1>12, <1>14 DEF TransitionPlaced, Targeted, InFlightPlaced
<1>17. Chain /\ OneWaiting
  BY <1>3, <1>7, <1>8, <1>12, <1>14 DEF Chain, OneWaiting
<1>18. VerdictsKept
  BY <1>9, <1>10, <1>11, <1>12 DEF VerdictsKept
<1>19. MembersProved
  <2>1. head = 1 /\ epochs[head].members = proofs[head] /\ epochs[head].predecessor = None
    BY <1>7, <1>8, <1>12
  <2> QED
    BY <2>1 DEF MembersProved
<1> QED
  BY <1>13, <1>15, <1>16, <1>17, <1>18, <1>19 DEF MembershipInv

LEMMA MembershipStep ==
  ASSUME MembershipInv, [MembershipNext]_memberVars
  PROVE  MembershipInv'
<1>1. CASE UNCHANGED memberVars
  <2>1. MembershipTypeOK'
    BY <1>1 DEF memberVars, MembershipInv, MembershipTypeOK
  <2>2. UNCHANGED <<head, epochs, ledger, trans, proofs, receipts>>
    BY <1>1 DEF memberVars
  <2> QED
    BY <2>1, <2>2, EvidenceKeeps
<1>2. CASE MembershipNext
  <2>1. PICK r \in Requests :
          \/ ClaimMutation(r) \/ Publish(r) \/ Restore(r)
          \/ \E v \in LedgerStates \ {"open"} : FinishMutation(r, v)
          \/ \E m \in Instances : SubmitKeyProof(r, m)
          \/ SubmitReadiness(r) \/ EvidenceAges(r) \/ Finalize(r)
          \/ \E c \in {"pending", "incompatible"} : SetBlockingReason(r, c)
    BY <1>2 DEF MembershipNext
  <2>2. CASE ClaimMutation(r)
    BY <2>2, ClaimProposalKeeps, ClaimOrdinaryKeeps, ClaimActionKeeps DEF ClaimMutation
  <2>3. CASE Publish(r)
    BY <2>3, AuthorizeKeeps, CancelKeeps, ApplyProposalKeeps DEF Publish
  <2>4. CASE Restore(r)
    BY <2>4, RestoreKeeps
  <2>5. CASE \E v \in LedgerStates \ {"open"} : FinishMutation(r, v)
    BY <2>5, FinishKeeps
  <2>6. CASE \E m \in Instances : SubmitKeyProof(r, m)
    BY <2>6, KeyProofKeeps
  <2>7. CASE SubmitReadiness(r) \/ EvidenceAges(r)
    BY <2>7, ReadinessKeeps, AgingKeeps
  <2>8. CASE Finalize(r)
    BY <2>8, ReconcileKeeps, FinalizeKeeps DEF Finalize
  <2>9. CASE \E c \in {"pending", "incompatible"} : SetBlockingReason(r, c)
    BY <2>9, BlockingKeeps
  <2> QED
    BY <2>1, <2>2, <2>3, <2>4, <2>5, <2>6, <2>7, <2>8, <2>9
<1> QED
  BY <1>1, <1>2

LEMMA MembershipInductive == MembershipSpec => []MembershipInv
<1>1. MembershipInit => MembershipInv
  BY FreshHolds, EstablishedHolds
<1>2. MembershipInv /\ [MembershipNext]_memberVars => MembershipInv'
  BY MembershipStep
<1> QED
  BY <1>1, <1>2, PTL DEF MembershipSpec

-------------------------------------------------------------------------------
(* What the invariant says. *)

LEMMA ChainHolds ==
  ASSUME MembershipInv
  PROVE  AuthorityChain
<1>1. \A t \in Requests : t \in Pending <=> Waiting(t)
  BY PendingWaiting
<1>2. Cardinality(Pending) <= 1
  <2>1. CASE Pending = {}
    BY <2>1, FS_EmptySet
  <2>2. CASE Pending # {}
    <3>1. PICK t \in Requests : t \in Pending
      BY <2>2 DEF Pending
    <3>2. \A u \in Pending : u \in Requests
      BY DEF Pending
    <3>3. Pending = {t}
      BY <1>1, <3>1, <3>2 DEF MembershipInv, OneWaiting
    <3> QED
      BY <3>3, FS_Singleton
  <2> QED
    BY <2>1, <2>2
<1>3. \A t \in Pending : trans[t].source = head
  BY <1>1, TypedParts DEF Pending, TransitionPlaced
<1>4. ASSUME NEW e \in Requests, Adopted(e), epochs[e].predecessor # None
      PROVE  /\ epochs[e].predecessor \in Requests /\ Adopted(epochs[e].predecessor)
             /\ epochs[e].predecessor # head
             /\ epochs[e].sequence = epochs[epochs[e].predecessor].sequence + 1
  <2>1. epochs[e] \in Epoch /\ EpochLinked(e) /\ epochs[e] # None
    BY <1>4, TypedParts DEF Adopted
  <2>2. epochs[e].predecessor \in Requests
    BY <1>4, <2>1 DEF Epoch
  <2>3. epochs[e].predecessor # head
    BY <1>4 DEF MembershipInv, Chain
  <2> QED
    BY <1>4, <2>1, <2>2, <2>3 DEF EpochLinked
<1> DEFINE adopted == {e \in Requests : epochs[e] # None /\ epochs[e].state \in {"active", "superseded"}}
<1>5. \A e \in Requests : e \in adopted <=> Adopted(e)
  BY DEF Adopted
<1>6. head # None => head \in Requests /\ Adopted(head)
  BY DEF MembershipInv, MembershipTypeOK, Chain
<1>7. /\ \A e \in adopted :
           /\ epochs[e].state = "active" <=> e = head
           /\ epochs[e].predecessor # None =>
                /\ epochs[e].predecessor \in adopted \ {head}
                /\ epochs[e].sequence = epochs[epochs[e].predecessor].sequence + 1
           /\ \A f \in adopted : epochs[e].sequence = epochs[f].sequence => e = f
      /\ head # None => head \in adopted
  <2> SUFFICES ASSUME NEW e \in Requests, Adopted(e)
               PROVE  /\ epochs[e].state = "active" <=> e = head
                      /\ epochs[e].predecessor # None =>
                           /\ epochs[e].predecessor \in adopted \ {head}
                           /\ epochs[e].sequence = epochs[epochs[e].predecessor].sequence + 1
                      /\ \A f \in adopted : epochs[e].sequence = epochs[f].sequence => e = f
    BY <1>5, <1>6
  <2> QED
    BY <1>4, <1>5 DEF MembershipInv, Chain
<1> QED
  BY <1>2, <1>3, <1>7 DEF AuthorityChain

(* Heads, epochs, transitions, evidence and ledger keep their types, whatever is
   claimed, published, restored, decided or cut over.                         *)
THEOREM MembershipTyped == MembershipSpec => []MembershipTypeOK
<1>1. MembershipInv => MembershipTypeOK
  BY DEF MembershipInv
<1> QED
  BY <1>1, MembershipInductive, PTL

(* The epochs that were ever adopted form one chain up to the head, which alone is
   active, and at most one transition waits, from that head.                  *)
THEOREM OneAuthority == MembershipSpec => []AuthorityChain
<1>1. MembershipInv => AuthorityChain
  BY ChainHolds
<1> QED
  BY <1>1, MembershipInductive, PTL

(* Every mutation that has not finished was claimed under the epoch that is active:
   the head moves only when nothing is in flight.                             *)
THEOREM CutoverIsQuiet == MembershipSpec => []NoneAcrossCutover
<1>1. MembershipInv => NoneAcrossCutover
  <2> SUFFICES ASSUME MembershipInv, NEW r \in InFlight PROVE ledger[r].revision = head
    BY DEF NoneAcrossCutover
  <2>1. r \in Requests /\ Open(r)
    BY DEF InFlight, Open
  <2> QED
    BY <2>1, TypedParts DEF InFlightPlaced
<1> QED
  BY <1>1, MembershipInductive, PTL

(* What a finished proposal, activation or cancellation reports stays what became
   of its transition.                                                         *)
THEOREM VerdictsAreKept == MembershipSpec => []VerdictsKept
<1>1. MembershipInv => VerdictsKept
  BY DEF MembershipInv
<1> QED
  BY <1>1, MembershipInductive, PTL

(* Every member of the active epoch proved its key, and one that the previous epoch
   did not have proved that it had caught up.                                 *)
THEOREM MembersAreProved == MembershipSpec => []MembersProved
<1>1. MembershipInv => MembersProved
  BY DEF MembershipInv
<1> QED
  BY <1>1, MembershipInductive, PTL

===============================================================================
