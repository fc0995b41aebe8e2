---------------------------- MODULE AdmissionProofs ----------------------------
(* Proofs about Admission: every counter is exact, the probes of a half-open
   circuit are held, no composite waiter sleeps through its turn, and no admission
   takes what another class has reserved, for every number of callers, slots,
   classes and configurations.

   The queue is looked at through two relations, who is in line and who came
   before whom; what the lanes promise is restated with them (Entitled).      *)
EXTENDS Admission, FiniteSetTheorems, SequenceTheorems, WellFoundedInduction, TLAPS

--------------------------------------------------------------------------------
(* The inductive invariant *)

\* a composite demand has the global slot alone or not at all, a class has it alone
DemandOk(d) ==
  /\ d \in Demand
  /\ GlobalSlot \in d.slots => d.slots = {GlobalSlot}
  /\ d.class # Void => d.slots = {GlobalSlot}
  /\ d.class = Void => d.eligible = FALSE

Engaged == {"arrived", "unqueued", "asleep", "held"}

CallerOk(r) ==
  /\ r.pc \in Engaged => DemandOk(r.demand)
  /\ r.pc # "held" => r.kind = Void /\ r.probes = {}
  /\ r.pc = "held" => /\ (r.kind = Void) <=> (r.demand.class = Void)
                      /\ r.probes \subseteq r.demand.slots

CallersSound == \A c \in Callers : CallerOk(caller[c])

InLine(c) == \E i \in DOMAIN queue : queue[i] = c

Before(b, c) == \E i, j \in DOMAIN queue : i < j /\ queue[i] = b /\ queue[j] = c

QueueSound ==
  /\ \A i, j \in DOMAIN queue : queue[i] = queue[j] => i = j
  /\ \A c \in Callers : Ticket(c) <=> InLine(c)

\* without failure circuits in the configuration all of them are closed
CircuitsSound ==
  ~config.failure => \A s \in Guarded : circuit[s].state = "closed"

\* an open circuit whose timeout has yet to pass
Cooling(s) == circuit[s].state = "open" /\ ~circuit[s].due

\* what a composite caller that sleeps, or is about to queue, found out
Settled(c) ==
  /\ ~CompositeAdmissible(c)
  /\ InTurn(c) => \A s \in GuardedSlots(caller[c].demand) : ~Cooling(s)

Unwoken(c) == Listening(caller[c]) /\ ~caller[c].woken

WaitersSound ==
  /\ enabled => \A c \in Callers : Unwoken(c) /\ ~IsPriority(c) => Settled(c)
  /\ (~enabled /\ installing = Void) => \A c \in Callers : ~Unwoken(c)

AdmissionInv ==
  /\ AdmissionTypeOK /\ CallersSound /\ QueueSound /\ CircuitsSound
  /\ ActiveExact /\ ProbesHeld /\ WaitersSound

--------------------------------------------------------------------------------
(* What a critical section does to the callers' records *)

SameCaller(r, t) == r.pc = t.pc /\ r.demand = t.demand /\ r.kind = t.kind /\ r.probes = t.probes

Passes(c, r, wake) ==
  /\ caller' \in [Callers -> CallerState]
  /\ SameCaller(caller'[c], r)
  /\ \A x \in Callers \ {c} : SameCaller(caller'[x], caller[x])
  /\ \A x \in Callers : wake => ~Unwoken(x)'
  /\ ~wake => /\ caller'[c].woken = r.woken
              /\ \A x \in Callers \ {c} : caller'[x].woken = caller[x].woken

LEMMA WakingTyped ==
  ASSUME NEW r \in CallerState
  PROVE  /\ [r EXCEPT !.woken = TRUE] \in CallerState
         /\ SameCaller([r EXCEPT !.woken = TRUE], r)
         /\ [r EXCEPT !.woken = TRUE].woken = TRUE
BY DEF CallerState, SameCaller

LEMMA Notifying ==
  ASSUME NEW f \in [Callers -> CallerState]
  PROVE  /\ NotifyWaiters(f) \in [Callers -> CallerState]
         /\ \A x \in Callers : /\ SameCaller(NotifyWaiters(f)[x], f[x])
                               /\ Listening(NotifyWaiters(f)[x]) => NotifyWaiters(f)[x].woken
<1>1. ASSUME NEW x \in Callers
      PROVE  /\ NotifyWaiters(f)[x] \in CallerState
             /\ SameCaller(NotifyWaiters(f)[x], f[x])
             /\ Listening(NotifyWaiters(f)[x]) => NotifyWaiters(f)[x].woken
  <2>1. NotifyWaiters(f)[x] = IF Listening(f[x]) THEN [f[x] EXCEPT !.woken = TRUE] ELSE f[x]
    BY DEF NotifyWaiters
  <2>2. f[x] \in CallerState
    OBVIOUS
  <2>3. CASE Listening(f[x])
    BY <2>1, <2>2, <2>3, WakingTyped
  <2>4. CASE ~Listening(f[x])
    BY <2>1, <2>2, <2>4 DEF SameCaller
  <2> QED
    BY <2>3, <2>4
<1>2. NotifyWaiters(f) \in [Callers -> CallerState]
  BY <1>1 DEF NotifyWaiters
<1> QED
  BY <1>1, <1>2

LEMMA Becoming ==
  ASSUME AdmissionTypeOK, NEW c \in Callers, NEW r \in CallerState, NEW wake \in BOOLEAN,
         Becomes(c, r, wake)
  PROVE  Passes(c, r, wake)
<1> PICK f : f = [caller EXCEPT ![c] = r]
  OBVIOUS
<1>1. caller \in [Callers -> CallerState]
  BY DEF AdmissionTypeOK
<1>2. f \in [Callers -> CallerState] /\ f[c] = r /\ \A x \in Callers \ {c} : f[x] = caller[x]
  BY <1>1
<1>3. CASE wake
  <2>1. caller' = NotifyWaiters(f)
    BY <1>3 DEF Becomes
  <2>2. /\ NotifyWaiters(f) \in [Callers -> CallerState]
        /\ \A x \in Callers : /\ SameCaller(NotifyWaiters(f)[x], f[x])
                              /\ Listening(NotifyWaiters(f)[x]) => NotifyWaiters(f)[x].woken
    BY <1>2, Notifying
  <2>3. \A x \in Callers : ~Unwoken(x)'
    BY <2>1, <2>2 DEF Unwoken
  <2> QED
    BY <1>2, <1>3, <2>1, <2>2, <2>3 DEF Passes
<1>4. CASE ~wake
  <2>1. caller' = f
    BY <1>4 DEF Becomes
  <2> QED
    BY <1>1, <1>2, <1>4, <2>1 DEF Passes, SameCaller
<1> QED
  BY <1>3, <1>4

\* the records that callers are left with
LEMMA OutsideTyped ==
  /\ Outside \in CallerState /\ CallerOk(Outside)
  /\ [Outside EXCEPT !.pc = "bypass"] \in CallerState
  /\ CallerOk([Outside EXCEPT !.pc = "bypass"])
BY DEF Outside, CallerState, CallerOk, Engaged

LEMMA CallersPass ==
  ASSUME AdmissionTypeOK, CallersSound, NEW c \in Callers, NEW r, NEW wake,
         Passes(c, r, wake), CallerOk(r)
  PROVE  caller' \in [Callers -> CallerState] /\ CallersSound'
<1>1. ASSUME NEW t, NEW u, SameCaller(t, u), CallerOk(u) PROVE CallerOk(t)
  BY <1>1 DEF SameCaller, CallerOk
<1>2. ASSUME NEW x \in Callers PROVE CallerOk(caller'[x])
  BY <1>1 DEF Passes, CallersSound
<1> QED
  BY <1>2 DEF Passes, CallersSound

LEMMA CompositeOk ==
  ASSUME NEW S \in SlotSets \cup {{GlobalSlot}} PROVE DemandOk(Composite(S))
BY AdmissionAssumption, RequestsApart DEF DemandOk, Composite, Demand

LEMMA PrioritisedOk ==
  ASSUME NEW k \in Classes, NEW e \in BOOLEAN PROVE DemandOk(Prioritised(k, e))
BY AdmissionAssumption DEF DemandOk, Prioritised, Demand

LEMMA ArrivalTyped ==
  ASSUME NEW d, DemandOk(d)
  PROVE  /\ Arrived(d) \in CallerState /\ CallerOk(Arrived(d))
         /\ Arrived(d).pc = "arrived" /\ Arrived(d).probes = {}
BY DEF Arrived, Outside, CallerState, CallerOk, Engaged, DemandOk

LEMMA LeaseTyped ==
  ASSUME NEW d, DemandOk(d), NEW kind \in {"reserved", "shared", Void}, NEW probes \in SUBSET Guarded,
         (kind = Void) <=> (d.class = Void), probes \subseteq d.slots
  PROVE  /\ Leased(d, kind, probes) \in CallerState /\ CallerOk(Leased(d, kind, probes))
         /\ Leased(d, kind, probes).pc = "held" /\ Leased(d, kind, probes).demand = d
         /\ Leased(d, kind, probes).kind = kind /\ Leased(d, kind, probes).probes = probes
BY DEF Leased, Outside, CallerState, CallerOk, Engaged, DemandOk

LEMMA WaitTyped ==
  ASSUME NEW t \in CallerState, CallerOk(t), t.pc \in {"arrived", "unqueued", "asleep"},
         NEW p \in {"unqueued", "asleep"}, NEW w \in BOOLEAN
  PROVE  /\ [t EXCEPT !.pc = p, !.woken = w] \in CallerState
         /\ CallerOk([t EXCEPT !.pc = p, !.woken = w])
BY DEF CallerState, CallerOk, Engaged

--------------------------------------------------------------------------------
(* What every action makes of its caller.  A section that wakes leaves nobody
   asleep unwoken; one that does not leaves the others' flags as they were.   *)

Move(c, pc) ==
  /\ caller' \in [Callers -> CallerState] /\ CallersSound'
  /\ caller'[c].pc = pc
  /\ \A x \in Callers \ {c} : SameCaller(caller'[x], caller[x])

Silent(c) == \A x \in Callers \ {c} : caller'[x].woken = caller[x].woken

Waking == \A x \in Callers : ~Unwoken(x)'

LEMMA Leaving ==
  ASSUME AdmissionTypeOK, CallersSound, NEW c \in Callers, NEW wake \in BOOLEAN,
         Becomes(c, Outside, wake)
  PROVE  Move(c, "out") /\ (~wake => Silent(c)) /\ (wake => Waking) /\ caller'[c].probes = {}
<1>1. Passes(c, Outside, wake)
  BY Becoming, OutsideTyped
<1>2. caller' \in [Callers -> CallerState] /\ CallersSound'
  BY <1>1, CallersPass, OutsideTyped
<1>3. Outside.pc = "out" /\ Outside.probes = {}
  BY DEF Outside
<1> QED
  BY <1>1, <1>2, <1>3 DEF Passes, SameCaller, Move, Silent, Waking

LEMMA Bypassing ==
  ASSUME AdmissionTypeOK, CallersSound, NEW c \in Callers,
         Becomes(c, [Outside EXCEPT !.pc = "bypass"], FALSE)
  PROVE  Move(c, "bypass") /\ Silent(c) /\ caller'[c].probes = {}
<1>0. PICK r : r = [Outside EXCEPT !.pc = "bypass"]
  OBVIOUS
<1>a. Becomes(c, r, FALSE) /\ r \in CallerState /\ CallerOk(r)
  BY <1>0, OutsideTyped
<1>1. Passes(c, r, FALSE)
  BY <1>a, Becoming
<1>2. caller' \in [Callers -> CallerState] /\ CallersSound'
  BY <1>a, <1>1, CallersPass
<1>3. r.pc = "bypass" /\ r.probes = {}
  BY <1>0 DEF Outside
<1> QED
  BY <1>1, <1>2, <1>3 DEF Passes, SameCaller, Move, Silent

LEMMA Arriving ==
  ASSUME AdmissionTypeOK, CallersSound, NEW c \in Callers, NEW d, DemandOk(d),
         Becomes(c, Arrived(d), FALSE)
  PROVE  Move(c, "arrived") /\ Silent(c) /\ caller'[c].probes = {}
<1>0. PICK r : r = Arrived(d)
  OBVIOUS
<1>a. Becomes(c, r, FALSE) /\ r \in CallerState /\ CallerOk(r)
  BY <1>0, ArrivalTyped
<1>1. Passes(c, r, FALSE)
  BY <1>a, Becoming
<1>2. caller' \in [Callers -> CallerState] /\ CallersSound'
  BY <1>a, <1>1, CallersPass
<1>3. r.pc = "arrived" /\ r.probes = {}
  BY <1>0, ArrivalTyped
<1> QED
  BY <1>1, <1>2, <1>3 DEF Passes, SameCaller, Move, Silent

LEMMA Leasing ==
  ASSUME AdmissionTypeOK, CallersSound, NEW c \in Callers, NEW d, DemandOk(d),
         NEW kind \in {"reserved", "shared", Void}, NEW probes \in SUBSET Guarded,
         NEW wake \in BOOLEAN, (kind = Void) <=> (d.class = Void), probes \subseteq d.slots,
         Becomes(c, Leased(d, kind, probes), wake)
  PROVE  /\ Move(c, "held") /\ (~wake => Silent(c)) /\ (wake => Waking)
         /\ caller'[c].demand = d /\ caller'[c].kind = kind /\ caller'[c].probes = probes
<1>0. PICK r : r = Leased(d, kind, probes)
  OBVIOUS
<1>a. Becomes(c, r, wake) /\ r \in CallerState /\ CallerOk(r)
  BY <1>0, LeaseTyped
<1>1. Passes(c, r, wake)
  BY <1>a, Becoming
<1>2. caller' \in [Callers -> CallerState] /\ CallersSound'
  BY <1>a, <1>1, CallersPass
<1>3. r.pc = "held" /\ r.demand = d /\ r.kind = kind /\ r.probes = probes
  BY <1>0, LeaseTyped
<1> QED
  BY <1>3, <1>1, <1>2 DEF Passes, SameCaller, Move, Silent, Waking

LEMMA Waiting ==
  ASSUME AdmissionTypeOK, CallersSound, NEW c \in Callers,
         caller[c].pc \in {"arrived", "unqueued", "asleep"},
         NEW p \in {"unqueued", "asleep"}, NEW w \in BOOLEAN,
         Becomes(c, [caller[c] EXCEPT !.pc = p, !.woken = w], FALSE)
  PROVE  /\ Move(c, p) /\ Silent(c)
         /\ caller'[c].demand = caller[c].demand /\ caller'[c].probes = {}
         /\ caller'[c].woken = w
<1>t. PICK t : t = caller[c]
  OBVIOUS
<1>0. PICK r : r = [t EXCEPT !.pc = p, !.woken = w]
  OBVIOUS
<1>b. t \in CallerState /\ CallerOk(t)
  BY <1>t DEF AdmissionTypeOK, CallersSound
<1>a. r \in CallerState /\ CallerOk(r)
  BY <1>0, <1>b, <1>t, WaitTyped
<1>c. Becomes(c, r, FALSE)
  BY <1>0, <1>t DEF Becomes
<1>1. Passes(c, r, FALSE)
  BY <1>a, <1>c, Becoming
<1>2. caller' \in [Callers -> CallerState] /\ CallersSound'
  BY <1>a, <1>1, CallersPass
<1>3. r.pc = p /\ r.woken = w /\ r.demand = caller[c].demand /\ r.probes = {}
  BY <1>0, <1>b, <1>t DEF CallerState, CallerOk
<1> QED
  BY <1>1, <1>2, <1>3 DEF Passes, SameCaller, Move, Silent

--------------------------------------------------------------------------------
(* Counting.  A step moves one caller, so each of the sets that the counters
   stand for gains or loses that caller or stays as it is.                     *)

LEMMA CountMoves ==
  ASSUME NEW S \in SUBSET Callers, NEW T \in SUBSET Callers, NEW c, S \ {c} = T \ {c}
  PROVE  /\ IsFiniteSet(S) /\ IsFiniteSet(T)
         /\ Cardinality(S) \in Nat /\ Cardinality(T) \in Nat
         /\ (c \in S <=> c \in T) => Cardinality(T) = Cardinality(S)
         /\ (c \in S /\ c \notin T) => Cardinality(T) + 1 = Cardinality(S)
         /\ (c \notin S /\ c \in T) => Cardinality(T) = Cardinality(S) + 1
<1>1. IsFiniteSet(S) /\ IsFiniteSet(T)
  BY AdmissionAssumption, FS_Subset
<1>2. Cardinality(S) \in Nat /\ Cardinality(T) \in Nat
  BY <1>1, FS_CardinalityType
<1>3. ASSUME c \in S <=> c \in T PROVE S = T
  BY <1>3
<1>4. ASSUME c \in S, c \notin T PROVE Cardinality(T) + 1 = Cardinality(S)
  <2>1. S = T \cup {c}
    BY <1>4
  <2> QED
    BY <1>1, <1>4, <2>1, FS_AddElement
<1>5. ASSUME c \notin S, c \in T PROVE Cardinality(T) = Cardinality(S) + 1
  <2>1. T = S \cup {c}
    BY <1>5
  <2> QED
    BY <1>1, <1>5, <2>1, FS_AddElement
<1> QED
  BY <1>1, <1>2, <1>3, <1>4, <1>5

Asks(pc, c, s) == caller[c].pc = pc /\ s \in caller[c].demand.slots

HasLease(c, k, kind) == caller[c].pc = "held" /\ caller[c].kind = kind /\ caller[c].demand.class = k

Probers(s) == {c \in Callers : s \in caller[c].probes}

LEMMA UsingMoves ==
  ASSUME NEW c \in Callers, NEW to, Move(c, to), NEW pc, NEW s
  PROVE  /\ Cardinality(Using(pc, s)) \in Nat /\ Cardinality(Using(pc, s)') \in Nat
         /\ (Asks(pc, c, s) <=> Asks(pc, c, s)') => Cardinality(Using(pc, s)') = Cardinality(Using(pc, s))
         /\ (Asks(pc, c, s) /\ ~Asks(pc, c, s)') =>
              Cardinality(Using(pc, s)') + 1 = Cardinality(Using(pc, s))
         /\ (~Asks(pc, c, s) /\ Asks(pc, c, s)') =>
              Cardinality(Using(pc, s)') = Cardinality(Using(pc, s)) + 1
<1>1. PICK S : S = Using(pc, s)
  OBVIOUS
<1>2. PICK T : T = Using(pc, s)'
  OBVIOUS
<1>3. S \in SUBSET Callers /\ T \in SUBSET Callers
  BY <1>1, <1>2 DEF Using
<1>4. (c \in S <=> Asks(pc, c, s)) /\ (c \in T <=> Asks(pc, c, s)')
  BY <1>1, <1>2 DEF Using, Asks
<1>5. ASSUME NEW x \in Callers \ {c} PROVE x \in S <=> x \in T
  BY <1>1, <1>2, <1>5 DEF Using, Move, SameCaller
<1>6. S \ {c} = T \ {c}
  BY <1>3, <1>5
<1> QED
  BY <1>1, <1>2, <1>3, <1>4, <1>6, CountMoves

LEMMA LeasesMove ==
  ASSUME NEW c \in Callers, NEW to, Move(c, to), NEW k, NEW kind
  PROVE  /\ Cardinality(Leases(k, kind)) \in Nat /\ Cardinality(Leases(k, kind)') \in Nat
         /\ (HasLease(c, k, kind) <=> HasLease(c, k, kind)') =>
              Cardinality(Leases(k, kind)') = Cardinality(Leases(k, kind))
         /\ (HasLease(c, k, kind) /\ ~HasLease(c, k, kind)') =>
              Cardinality(Leases(k, kind)') + 1 = Cardinality(Leases(k, kind))
         /\ (~HasLease(c, k, kind) /\ HasLease(c, k, kind)') =>
              Cardinality(Leases(k, kind)') = Cardinality(Leases(k, kind)) + 1
<1>1. PICK S : S = Leases(k, kind)
  OBVIOUS
<1>2. PICK T : T = Leases(k, kind)'
  OBVIOUS
<1>3. S \in SUBSET Callers /\ T \in SUBSET Callers
  BY <1>1, <1>2 DEF Leases
<1>4. (c \in S <=> HasLease(c, k, kind)) /\ (c \in T <=> HasLease(c, k, kind)')
  BY <1>1, <1>2 DEF Leases, HasLease
<1>5. ASSUME NEW x \in Callers \ {c} PROVE x \in S <=> x \in T
  BY <1>1, <1>2, <1>5 DEF Leases, Move, SameCaller
<1>6. S \ {c} = T \ {c}
  BY <1>3, <1>5
<1> QED
  BY <1>1, <1>2, <1>3, <1>4, <1>6, CountMoves

LEMMA ProbersMove ==
  ASSUME NEW c \in Callers, NEW to, Move(c, to), NEW s
  PROVE  /\ Cardinality(Probers(s)) \in Nat /\ Cardinality(Probers(s)') \in Nat
         /\ (s \in caller[c].probes <=> s \in caller'[c].probes) =>
              Cardinality(Probers(s)') = Cardinality(Probers(s))
         /\ (s \in caller[c].probes /\ s \notin caller'[c].probes) =>
              Cardinality(Probers(s)') + 1 = Cardinality(Probers(s))
         /\ (s \notin caller[c].probes /\ s \in caller'[c].probes) =>
              Cardinality(Probers(s)') = Cardinality(Probers(s)) + 1
<1>1. PICK S : S = Probers(s)
  OBVIOUS
<1>2. PICK T : T = Probers(s)'
  OBVIOUS
<1>3. S \in SUBSET Callers /\ T \in SUBSET Callers
  BY <1>1, <1>2 DEF Probers
<1>4. (c \in S <=> s \in caller[c].probes) /\ (c \in T <=> s \in caller'[c].probes)
  BY <1>1, <1>2 DEF Probers
<1>5. ASSUME NEW x \in Callers \ {c} PROVE x \in S <=> x \in T
  BY <1>1, <1>2, <1>5 DEF Probers, Move, SameCaller
<1>6. S \ {c} = T \ {c}
  BY <1>3, <1>5
<1> QED
  BY <1>1, <1>2, <1>3, <1>4, <1>6, CountMoves

HeldExact ==
  /\ \A s \in Slots : active[s] = Cardinality(Using("held", s))
  /\ \A k \in Classes : /\ shares[k].reserved = Cardinality(Leases(k, "reserved"))
                        /\ shares[k].shared = Cardinality(Leases(k, "shared"))

QueuedExact == \A s \in Slots : queued[s] = Cardinality(Using("asleep", s))

LEMMA ExactParts == ActiveExact <=> HeldExact /\ QueuedExact
BY DEF ActiveExact, HeldExact, QueuedExact

LEMMA HeldKept ==
  ASSUME HeldExact, NEW c \in Callers, NEW to, Move(c, to), caller[c].pc # "held", to # "held",
         UNCHANGED <<active, shares>>
  PROVE  HeldExact'
<1>1. \A s : ~Asks("held", c, s) /\ ~Asks("held", c, s)'
  BY DEF Asks, Move
<1>2. \A k, kind : ~HasLease(c, k, kind) /\ ~HasLease(c, k, kind)'
  BY DEF HasLease, Move
<1>3. ASSUME NEW s \in Slots PROVE Cardinality(Using("held", s)') = Cardinality(Using("held", s))
  BY <1>1, UsingMoves
<1>4. ASSUME NEW k \in Classes, NEW kind
      PROVE  Cardinality(Leases(k, kind)') = Cardinality(Leases(k, kind))
  BY <1>2, LeasesMove
<1>5. ASSUME NEW s \in Slots PROVE active'[s] = Cardinality(Using("held", s)')
  BY <1>3 DEF HeldExact
<1>6. ASSUME NEW k \in Classes
      PROVE  /\ shares'[k].reserved = Cardinality(Leases(k, "reserved")')
             /\ shares'[k].shared = Cardinality(Leases(k, "shared")')
  BY <1>4 DEF HeldExact
<1> QED
  BY <1>5, <1>6 DEF HeldExact

LEMMA QueueKept ==
  ASSUME QueuedExact, NEW c \in Callers, NEW to, Move(c, to), UNCHANGED queued,
         caller[c].pc = "asleep" <=> to = "asleep",
         to = "asleep" => caller'[c].demand = caller[c].demand
  PROVE  QueuedExact'
<1>1. \A s : Asks("asleep", c, s) <=> Asks("asleep", c, s)'
  BY DEF Asks, Move
<1>2. ASSUME NEW s \in Slots PROVE Cardinality(Using("asleep", s)') = Cardinality(Using("asleep", s))
  BY <1>1, UsingMoves
<1> QED
  BY <1>2 DEF QueuedExact

LEMMA QueueLeft ==
  ASSUME AdmissionTypeOK, QueuedExact, NEW c \in Callers, NEW to, Move(c, to), to # "asleep",
         RemoveWaiter(c)
  PROVE  queued' \in [Slots -> Nat] /\ QueuedExact'
<1>1. ASSUME NEW s \in Slots
      PROVE  queued'[s] \in Nat /\ queued'[s] = Cardinality(Using("asleep", s)')
  <2>1. ~Asks("asleep", c, s)'
    BY DEF Asks, Move
  <2>2. queued[s] \in Nat /\ queued[s] = Cardinality(Using("asleep", s))
    BY DEF AdmissionTypeOK, QueuedExact
  <2>3. queued'[s] = IF Asks("asleep", c, s) THEN Decremented(queued[s]) ELSE queued[s]
    BY DEF RemoveWaiter, Ticket, Asks
  <2>4. CASE Asks("asleep", c, s)
    <3>1. Cardinality(Using("asleep", s)') \in Nat
          /\ Cardinality(Using("asleep", s)') + 1 = Cardinality(Using("asleep", s))
      BY <2>1, <2>4, UsingMoves
    <3>2. queued'[s] = queued[s] - 1
      BY <2>2, <2>3, <2>4, <3>1 DEF Decremented
    <3> QED
      BY <2>2, <3>1, <3>2
  <2>5. CASE ~Asks("asleep", c, s)
    <3>1. Cardinality(Using("asleep", s)') = Cardinality(Using("asleep", s))
      BY <2>1, <2>5, UsingMoves
    <3> QED
      BY <2>2, <2>3, <2>5, <3>1
  <2> QED
    BY <2>4, <2>5
<1>2. queued' \in [Slots -> Nat]
  BY <1>1 DEF RemoveWaiter
<1> QED
  BY <1>1, <1>2 DEF QueuedExact

LEMMA QueueEntered ==
  ASSUME AdmissionTypeOK, QueuedExact, NEW c \in Callers, Move(c, "asleep"), ~Ticket(c),
         caller'[c].demand = caller[c].demand,
         queued' = [s \in Slots |-> IF s \in caller[c].demand.slots THEN queued[s] + 1 ELSE queued[s]]
  PROVE  queued' \in [Slots -> Nat] /\ QueuedExact'
<1>1. ASSUME NEW s \in Slots
      PROVE  queued'[s] \in Nat /\ queued'[s] = Cardinality(Using("asleep", s)')
  <2>1. ~Asks("asleep", c, s) /\ (Asks("asleep", c, s)' <=> s \in caller[c].demand.slots)
    BY DEF Asks, Move, Ticket
  <2>2. queued[s] \in Nat /\ queued[s] = Cardinality(Using("asleep", s))
    BY DEF AdmissionTypeOK, QueuedExact
  <2>3. queued'[s] = IF s \in caller[c].demand.slots THEN queued[s] + 1 ELSE queued[s]
    OBVIOUS
  <2>4. Cardinality(Using("asleep", s)') = IF s \in caller[c].demand.slots
          THEN Cardinality(Using("asleep", s)) + 1 ELSE Cardinality(Using("asleep", s))
    BY <2>1, UsingMoves
  <2> QED
    BY <2>2, <2>3, <2>4
<1>2. queued' \in [Slots -> Nat]
  BY <1>1
<1> QED
  BY <1>1, <1>2 DEF QueuedExact

LEMMA SlotsTaken ==
  ASSUME AdmissionTypeOK, HeldExact, NEW c \in Callers, Move(c, "held"), caller[c].pc # "held",
         caller'[c].demand = caller[c].demand, IncrementActive(caller[c].demand)
  PROVE  /\ active' \in [Slots -> Nat]
         /\ \A s \in Slots : active'[s] = Cardinality(Using("held", s)')
<1>1. ASSUME NEW s \in Slots
      PROVE  active'[s] \in Nat /\ active'[s] = Cardinality(Using("held", s)')
  <2>1. ~Asks("held", c, s) /\ (Asks("held", c, s)' <=> s \in caller[c].demand.slots)
    BY DEF Asks, Move
  <2>2. active[s] \in Nat /\ active[s] = Cardinality(Using("held", s))
    BY DEF AdmissionTypeOK, HeldExact
  <2>3. active'[s] = IF s \in caller[c].demand.slots THEN active[s] + 1 ELSE active[s]
    BY DEF IncrementActive
  <2>4. Cardinality(Using("held", s)') = IF s \in caller[c].demand.slots
          THEN Cardinality(Using("held", s)) + 1 ELSE Cardinality(Using("held", s))
    BY <2>1, UsingMoves
  <2> QED
    BY <2>2, <2>3, <2>4
<1>2. active' \in [Slots -> Nat]
  BY <1>1 DEF IncrementActive
<1> QED
  BY <1>1, <1>2

LEMMA SlotsGivenBack ==
  ASSUME AdmissionTypeOK, HeldExact, NEW c \in Callers, Move(c, "out"), caller[c].pc = "held",
         active' = [s \in Slots |-> IF s \in caller[c].demand.slots THEN Decremented(active[s]) ELSE active[s]]
  PROVE  /\ active' \in [Slots -> Nat]
         /\ \A s \in Slots : active'[s] = Cardinality(Using("held", s)')
<1>1. ASSUME NEW s \in Slots
      PROVE  active'[s] \in Nat /\ active'[s] = Cardinality(Using("held", s)')
  <2>1. ~Asks("held", c, s)' /\ (Asks("held", c, s) <=> s \in caller[c].demand.slots)
    BY DEF Asks, Move
  <2>2. active[s] \in Nat /\ active[s] = Cardinality(Using("held", s))
    BY DEF AdmissionTypeOK, HeldExact
  <2>3. active'[s] = IF s \in caller[c].demand.slots THEN Decremented(active[s]) ELSE active[s]
    OBVIOUS
  <2>4. Cardinality(Using("held", s)') \in Nat
        /\ Cardinality(Using("held", s)) = IF s \in caller[c].demand.slots
             THEN Cardinality(Using("held", s)') + 1 ELSE Cardinality(Using("held", s)')
    BY <2>1, UsingMoves
  <2> QED
    BY <2>2, <2>3, <2>4 DEF Decremented
<1>2. active' \in [Slots -> Nat]
  BY <1>1
<1> QED
  BY <1>1, <1>2

\* one lease of a class is taken or given back, and its count follows
LeaseMoves(c, k, kind, delta) ==
  \A j \in Classes, kd \in {"reserved", "shared"} :
    /\ HasLease(c, j, kd) <=> (delta = -1 /\ j = k /\ kd = kind)
    /\ HasLease(c, j, kd)' <=> (delta = 1 /\ j = k /\ kd = kind)

SharesMove(k, kind, delta) ==
  shares' = IF kind = "reserved"
            THEN [shares EXCEPT ![k].reserved = IF delta = 1 THEN @ + 1 ELSE Decremented(@)]
            ELSE [shares EXCEPT ![k].shared = IF delta = 1 THEN @ + 1 ELSE Decremented(@)]

LEMMA SharesFollow ==
  ASSUME AdmissionTypeOK, HeldExact, NEW c \in Callers, NEW to, Move(c, to), NEW k \in Classes,
         NEW kind \in {"reserved", "shared"}, NEW delta \in {-1, 1},
         LeaseMoves(c, k, kind, delta), SharesMove(k, kind, delta)
  PROVE  /\ shares' \in [Classes -> [reserved : Nat, shared : Nat]]
         /\ \A j \in Classes : /\ shares'[j].reserved = Cardinality(Leases(j, "reserved")')
                               /\ shares'[j].shared = Cardinality(Leases(j, "shared")')
<1>0. PICK f : f = shares
  OBVIOUS
<1>1. f \in [Classes -> [reserved : Nat, shared : Nat]]
  BY <1>0 DEF AdmissionTypeOK
<1>2. \A j \in Classes : /\ f[j].reserved = Cardinality(Leases(j, "reserved"))
                         /\ f[j].shared = Cardinality(Leases(j, "shared"))
  BY <1>0 DEF HeldExact
<1>3. \A j \in Classes, kd \in {"reserved", "shared"} :
        /\ Cardinality(Leases(j, kd)) \in Nat /\ Cardinality(Leases(j, kd)') \in Nat
        /\ (j = k /\ kd = kind) => Cardinality(Leases(j, kd)') = Cardinality(Leases(j, kd)) + delta
        /\ (j # k \/ kd # kind) => Cardinality(Leases(j, kd)') = Cardinality(Leases(j, kd))
  <2> SUFFICES ASSUME NEW j \in Classes, NEW kd \in {"reserved", "shared"}
               PROVE  /\ Cardinality(Leases(j, kd)) \in Nat /\ Cardinality(Leases(j, kd)') \in Nat
                      /\ (j = k /\ kd = kind) =>
                           Cardinality(Leases(j, kd)') = Cardinality(Leases(j, kd)) + delta
                      /\ (j # k \/ kd # kind) =>
                           Cardinality(Leases(j, kd)') = Cardinality(Leases(j, kd))
    OBVIOUS
  <2>1. /\ HasLease(c, j, kd) <=> (delta = -1 /\ j = k /\ kd = kind)
        /\ HasLease(c, j, kd)' <=> (delta = 1 /\ j = k /\ kd = kind)
    BY DEF LeaseMoves
  <2> QED
    BY <2>1, LeasesMove
<1>4. CASE kind = "reserved"
  <2>1. PICK n : n = IF delta = 1 THEN f[k].reserved + 1 ELSE Decremented(f[k].reserved)
    OBVIOUS
  <2>2. n = f[k].reserved + delta /\ n \in Nat
    BY <1>1, <1>2, <1>3, <1>4, <2>1 DEF Decremented
  <2>3. shares' = [f EXCEPT ![k].reserved = n]
    BY <1>0, <1>4, <2>1 DEF SharesMove
  <2>a. PICK g : g = [f EXCEPT ![k].reserved = n]
    OBVIOUS
  <2>b. /\ g \in [Classes -> [reserved : Nat, shared : Nat]]
        /\ \A j \in Classes : /\ g[j].reserved = IF j = k THEN n ELSE f[j].reserved
                              /\ g[j].shared = f[j].shared
    BY <1>1, <2>2, <2>a
  <2>4. /\ shares' \in [Classes -> [reserved : Nat, shared : Nat]]
        /\ \A j \in Classes : /\ shares'[j].reserved = IF j = k THEN n ELSE f[j].reserved
                              /\ shares'[j].shared = f[j].shared
    <3>1. shares' = g
      BY <2>3, <2>a
    <3> QED
      BY <2>b, <3>1
  <2> QED
    BY <1>2, <1>3, <1>4, <2>2, <2>4
<1>5. CASE kind = "shared"
  <2>1. PICK n : n = IF delta = 1 THEN f[k].shared + 1 ELSE Decremented(f[k].shared)
    OBVIOUS
  <2>2. n = f[k].shared + delta /\ n \in Nat
    BY <1>1, <1>2, <1>3, <1>5, <2>1 DEF Decremented
  <2>3. shares' = [f EXCEPT ![k].shared = n]
    BY <1>0, <1>5, <2>1 DEF SharesMove
  <2>a. PICK g : g = [f EXCEPT ![k].shared = n]
    OBVIOUS
  <2>b. /\ g \in [Classes -> [reserved : Nat, shared : Nat]]
        /\ \A j \in Classes : /\ g[j].shared = IF j = k THEN n ELSE f[j].shared
                              /\ g[j].reserved = f[j].reserved
    BY <1>1, <2>2, <2>a
  <2>4. /\ shares' \in [Classes -> [reserved : Nat, shared : Nat]]
        /\ \A j \in Classes : /\ shares'[j].shared = IF j = k THEN n ELSE f[j].shared
                              /\ shares'[j].reserved = f[j].reserved
    <3>1. shares' = g
      BY <2>3, <2>a
    <3> QED
      BY <2>b, <3>1
  <2> QED
    BY <1>2, <1>3, <1>5, <2>2, <2>4
<1> QED
  BY <1>4, <1>5

LEMMA SharesKept ==
  ASSUME AdmissionTypeOK, HeldExact, NEW c \in Callers, NEW to, Move(c, to), UNCHANGED shares,
         \A j \in Classes, kd \in {"reserved", "shared"} : ~HasLease(c, j, kd) /\ ~HasLease(c, j, kd)'
  PROVE  /\ shares' \in [Classes -> [reserved : Nat, shared : Nat]]
         /\ \A j \in Classes : /\ shares'[j].reserved = Cardinality(Leases(j, "reserved")')
                               /\ shares'[j].shared = Cardinality(Leases(j, "shared")')
<1>1. ASSUME NEW j \in Classes, NEW kd \in {"reserved", "shared"}
      PROVE  Cardinality(Leases(j, kd)') = Cardinality(Leases(j, kd))
  BY LeasesMove
<1> QED
  BY <1>1 DEF AdmissionTypeOK, HeldExact

--------------------------------------------------------------------------------
(* Circuits *)

CircuitOk(k) == k \in Circuit /\ k.probes <= MaxProbes

Ready(k) ==
  \/ k.state = "closed"
  \/ k.state = "open" /\ k.due
  \/ k.state = "halfOpen" /\ k.probes < MaxProbes

LEMMA ClosedOk == CircuitOk(Closed) /\ Closed.state = "closed"
BY AdmissionAssumption DEF Closed, CircuitOk, Circuit

LEMMA CircuitChanged ==
  ASSUME NEW k \in Circuit, NEW state \in {"open", "halfOpen"}
  PROVE  /\ [k EXCEPT !.state = state] \in Circuit
         /\ [k EXCEPT !.state = state].state = state
         /\ [k EXCEPT !.state = state].probes = k.probes
BY DEF Circuit

LEMMA ProbeBegun ==
  ASSUME NEW k, CircuitOk(k), Ready(k)
  PROVE  /\ CircuitOk(BeginProbe(k))
         /\ k.state = "closed" => BeginProbe(k) = k
         /\ k.state # "closed" =>
              /\ BeginProbe(k).state = "halfOpen"
              /\ BeginProbe(k).probes = IF k.state = "open" THEN 1 ELSE k.probes + 1
<1>0. MaxProbes \in Nat \ {0}
  BY AdmissionAssumption
<1>1. k.state \in {"closed", "open", "halfOpen"} /\ k.probes \in Nat
  BY DEF CircuitOk, Circuit
<1>2. CASE k.state = "closed"
  BY <1>2 DEF BeginProbe
<1>3. CASE k.state = "open"
  <2>1. BeginProbe(k) = [Closed EXCEPT !.state = "halfOpen", !.probes = 1]
    BY <1>3 DEF BeginProbe
  <2>2. Closed \in Circuit
    BY ClosedOk DEF CircuitOk
  <2>3. /\ BeginProbe(k) \in Circuit /\ BeginProbe(k).state = "halfOpen"
        /\ BeginProbe(k).probes = 1
    <3>1. PICK z : z = Closed
      OBVIOUS
    <3>2. PICK h, n : h = "halfOpen" /\ n = 1
      OBVIOUS
    <3>3. BeginProbe(k) = [z EXCEPT !.state = h, !.probes = n] /\ z \in Circuit
      BY <2>1, <2>2, <3>1, <3>2
    <3>4. h \in {"open", "halfOpen"} /\ n \in Nat
      BY <3>2
    <3> QED
      BY <3>2, <3>3, <3>4 DEF Circuit
  <2> QED
    BY <1>0, <1>3, <2>3 DEF CircuitOk
<1>4. CASE k.state = "halfOpen"
  <2>1. BeginProbe(k) = [k EXCEPT !.probes = @ + 1]
    BY <1>4 DEF BeginProbe
  <2> QED
    BY <1>0, <1>1, <1>4, <2>1 DEF CircuitOk, Circuit, Ready
<1> QED
  BY <1>1, <1>2, <1>3, <1>4

LEMMA ProbeAbandoned ==
  ASSUME NEW k, CircuitOk(k)
  PROVE  /\ CircuitOk(AbandonProbe(k))
         /\ AbandonProbe(k).state = k.state
         /\ k.state # "halfOpen" => AbandonProbe(k) = k
         /\ k.state = "halfOpen" => AbandonProbe(k).probes = Decremented(k.probes)
         /\ AbandonProbe(k).successes = k.successes
<1>0. MaxProbes \in Nat
  BY AdmissionAssumption
<1>1. k.probes \in Nat /\ Decremented(k.probes) \in Nat /\ Decremented(k.probes) <= k.probes
  BY DEF CircuitOk, Circuit, Decremented
<1>2. CASE k.state = "halfOpen"
  <2>1. PICK n \in Nat : n = Decremented(k.probes) /\ n <= k.probes
    BY <1>1
  <2>2. AbandonProbe(k) = [k EXCEPT !.probes = n]
    BY <1>2, <2>1 DEF AbandonProbe
  <2>3. /\ [k EXCEPT !.probes = n] \in Circuit
        /\ [k EXCEPT !.probes = n].probes = n
        /\ [k EXCEPT !.probes = n].state = k.state
        /\ [k EXCEPT !.probes = n].successes = k.successes
    BY <2>1 DEF CircuitOk, Circuit
  <2> QED
    BY <1>0, <1>1, <1>2, <2>1, <2>2, <2>3 DEF CircuitOk
<1>3. CASE k.state # "halfOpen"
  BY <1>3 DEF AbandonProbe
<1> QED
  BY <1>2, <1>3

LEMMA ProbeFinished ==
  ASSUME NEW k, CircuitOk(k), NEW probe \in BOOLEAN, NEW failed \in BOOLEAN, NEW trips \in BOOLEAN
  PROVE  /\ CircuitOk(Finish(k, probe, failed, trips))
         /\ Finish(k, probe, failed, trips).state = "halfOpen" =>
              /\ k.state = "halfOpen"
              /\ Finish(k, probe, failed, trips).probes = IF probe THEN Decremented(k.probes) ELSE k.probes
<1> DEFINE F == Finish(k, probe, failed, trips)
<1>1. PICK open : open = [Closed EXCEPT !.state = "open"]
  OBVIOUS
<1>2. PICK left : left = IF probe THEN AbandonProbe(k) ELSE k
  OBVIOUS
<1>3. k.state \in {"closed", "open", "halfOpen"} /\ k.successes \in Nat
  BY DEF CircuitOk, Circuit
<1>4. CircuitOk(open) /\ open.state = "open"
  <2>1. Closed \in Circuit /\ Closed.probes <= MaxProbes
    BY ClosedOk DEF CircuitOk
  <2>2. open \in Circuit /\ open.state = "open" /\ open.probes = Closed.probes
    BY <1>1, <2>1, CircuitChanged
  <2> QED
    BY <2>1, <2>2 DEF CircuitOk
<1>5. /\ CircuitOk(left) /\ left.state = k.state /\ left.successes \in Nat
      /\ k.state = "halfOpen" => left.probes = IF probe THEN Decremented(k.probes) ELSE k.probes
  BY <1>2, <1>3, ProbeAbandoned
<1>6. F = CASE k.state = "closed" -> IF failed /\ trips THEN open ELSE k
            [] k.state = "open" -> k
            [] k.state = "halfOpen" ->
                 IF failed THEN open
                 ELSE IF k.successes + 1 >= HalfOpenSuccesses THEN Closed
                 ELSE [left EXCEPT !.successes = @ + 1]
  BY <1>1, <1>2 DEF Finish
<1>7. PICK more : more = [left EXCEPT !.successes = @ + 1]
  OBVIOUS
<1>8. CircuitOk(more) /\ more.state = left.state /\ more.probes = left.probes
  BY <1>5, <1>7 DEF CircuitOk, Circuit
<1>9. CASE k.state = "closed"
  BY <1>4, <1>6, <1>9
<1>10. CASE k.state = "open"
  BY <1>6, <1>10
<1>11. CASE k.state = "halfOpen"
  <2>1. F \in {open, Closed, more}
    BY <1>6, <1>7, <1>11
  <2> QED
    BY <1>4, <1>5, <1>8, <1>11, <2>1, ClosedOk
<1> QED
  BY <1>3, <1>9, <1>10, <1>11

CircuitsTyped == circuit \in [Guarded -> Circuit] /\ \A s \in Guarded : circuit[s].probes <= MaxProbes

LEMMA CircuitsKept ==
  ASSUME AdmissionTypeOK, CircuitsSound, ProbesHeld, NEW c \in Callers, NEW to, Move(c, to),
         caller[c].probes = {}, caller'[c].probes = {}, UNCHANGED <<circuit, config>>
  PROVE  CircuitsTyped' /\ CircuitsSound' /\ ProbesHeld'
<1>1. CircuitsTyped'
  BY DEF AdmissionTypeOK, CircuitsTyped
<1>2. CircuitsSound'
  BY DEF CircuitsSound
<1>3. ASSUME NEW s \in Guarded PROVE Cardinality(Probers(s)') = Cardinality(Probers(s))
  BY ProbersMove
<1>4. ProbesHeld'
  BY <1>3 DEF ProbesHeld, Probers
<1> QED
  BY <1>1, <1>2, <1>4

LEMMA ProbesTaken ==
  ASSUME AdmissionTypeOK, CircuitsSound, ProbesHeld, NEW c \in Callers, Move(c, "held"),
         NEW g \in SUBSET Guarded, \A s \in g : Available(s), ~config.failure => g = {},
         circuit' = [s \in Guarded |-> IF s \in g THEN BeginProbe(circuit[s]) ELSE circuit[s]],
         caller[c].probes = {}, caller'[c].probes = {s \in g : circuit[s].state # "closed"},
         UNCHANGED config
  PROVE  CircuitsTyped' /\ CircuitsSound' /\ ProbesHeld'
<1>1. ASSUME NEW s \in Guarded
      PROVE  /\ CircuitOk(circuit'[s])
             /\ ~config.failure => circuit'[s].state = "closed"
             /\ circuit'[s].state = "halfOpen" => circuit'[s].probes <= Cardinality(Probers(s)')
  <2>1. PICK k : k = circuit[s]
    OBVIOUS
  <2>2. CircuitOk(k)
    BY <2>1 DEF AdmissionTypeOK, CircuitOk
  <2>3. k.probes \in Nat /\ (k.state = "halfOpen" => k.probes <= Cardinality(Probers(s)))
    BY <2>1, <2>2 DEF CircuitOk, Circuit, ProbesHeld, Probers
  <2>4. CASE s \in g /\ k.state # "closed"
    <3>1. circuit'[s] = BeginProbe(k)
      BY <2>1, <2>4
    <3>2. Ready(k)
      BY <2>1, <2>4 DEF Available, Ready
    <3>3. /\ Cardinality(Probers(s)) \in Nat
          /\ Cardinality(Probers(s)') = Cardinality(Probers(s)) + 1
      BY <2>1, <2>4, ProbersMove
    <3>4. k.state \in {"open", "halfOpen"}
      BY <2>2, <2>4 DEF CircuitOk, Circuit
    <3>5. /\ CircuitOk(circuit'[s])
          /\ circuit'[s].probes = IF k.state = "open" THEN 1 ELSE k.probes + 1
      BY <2>2, <2>4, <3>1, <3>2, ProbeBegun
    <3>6. config.failure
      BY <2>4
    <3> QED
      BY <2>3, <3>3, <3>4, <3>5, <3>6
  <2>5. CASE s \notin g \/ k.state = "closed"
    <3>1. circuit'[s] = k
      BY <2>1, <2>2, <2>5, ProbeBegun DEF Ready
    <3>2. Cardinality(Probers(s)') = Cardinality(Probers(s))
      BY <2>1, <2>5, ProbersMove
    <3>3. ~config.failure => k.state = "closed"
      BY <2>1 DEF CircuitsSound
    <3> QED
      BY <2>2, <2>3, <3>1, <3>2, <3>3
  <2> QED
    BY <2>4, <2>5
<1>2. CircuitsTyped'
  BY <1>1 DEF CircuitsTyped, CircuitOk
<1> QED
  BY <1>1, <1>2 DEF CircuitsSound, ProbesHeld, Probers

LEMMA ProbesGivenBack ==
  ASSUME AdmissionTypeOK, CallersSound, CircuitsSound, ProbesHeld, NEW c \in Callers,
         Move(c, "out"), caller'[c].probes = {}, NEW outcome, ReleaseLease(c, outcome)
  PROVE  CircuitsTyped' /\ CircuitsSound' /\ ProbesHeld'
<1> DEFINE mine == caller[c].probes
           Given(s) ==
             \/ circuit'[s] = circuit[s] /\ (s \in mine => circuit[s].state = "closed")
             \/ s \in mine /\ circuit'[s] = AbandonProbe(circuit[s])
             \/ /\ config.failure
                /\ \E failed, trips \in BOOLEAN :
                     circuit'[s] = Finish(circuit[s], s \in mine, failed, trips)
<1>1. UNCHANGED config /\ caller[c].pc = "held"
  BY DEF ReleaseLease
<1>2. mine \subseteq caller[c].demand.slots
  BY <1>1 DEF CallersSound, CallerOk
<1>3. /\ circuit' = [s \in Guarded |-> circuit'[s]]
      /\ \A s \in Guarded : Given(s)
  <2>1. CASE outcome = "neutral"
    BY <2>1 DEF ReleaseLease
  <2>2. CASE outcome # "neutral"
    <3>1. PICK trips \in SUBSET Guarded :
            circuit' = [s \in Guarded |-> IF s \notin GuardedSlots(caller[c].demand) THEN circuit[s] ELSE
              Finish(circuit[s], s \in caller[c].probes, outcome = "failure", s \in trips)]
      BY <2>2 DEF ReleaseLease
    <3>2. ASSUME NEW s \in Guarded PROVE Given(s)
      <4>1. CASE s \in GuardedSlots(caller[c].demand)
        <5>1. config.failure
          BY <4>1 DEF GuardedSlots
        <5>a. PICK f \in BOOLEAN : f <=> outcome = "failure"
          OBVIOUS
        <5>b. PICK t \in BOOLEAN : t <=> s \in trips
          OBVIOUS
        <5>2. circuit'[s] = Finish(circuit[s], s \in mine, f, t)
          BY <3>1, <4>1, <5>a, <5>b
        <5> QED
          BY <5>1, <5>2
      <4>2. CASE s \notin GuardedSlots(caller[c].demand)
        <5>1. circuit'[s] = circuit[s]
          BY <3>1, <4>2
        <5>2. s \in mine => circuit[s].state = "closed"
          BY <1>2, <4>2 DEF GuardedSlots, CircuitsSound
        <5> QED
          BY <5>1, <5>2
      <4> QED
        BY <4>1, <4>2
    <3> QED
      BY <3>1, <3>2
  <2> QED
    BY <2>1, <2>2
<1>4. ASSUME NEW s \in Guarded
      PROVE  /\ CircuitOk(circuit'[s])
             /\ ~config.failure => circuit'[s].state = "closed"
             /\ circuit'[s].state = "halfOpen" => circuit'[s].probes <= Cardinality(Probers(s)')
  <2>1. PICK k : k = circuit[s]
    OBVIOUS
  <2>2. CircuitOk(k) /\ (~config.failure => k.state = "closed")
    BY <2>1 DEF AdmissionTypeOK, CircuitOk, CircuitsSound
  <2>3. k.probes \in Nat /\ (k.state = "halfOpen" => k.probes <= Cardinality(Probers(s)))
    BY <2>1, <2>2 DEF CircuitOk, Circuit, ProbesHeld, Probers
  <2>4. /\ Cardinality(Probers(s)) \in Nat /\ Cardinality(Probers(s)') \in Nat
        /\ s \in mine => Cardinality(Probers(s)') + 1 = Cardinality(Probers(s))
        /\ s \notin mine => Cardinality(Probers(s)') = Cardinality(Probers(s))
    BY ProbersMove
  <2>5. Decremented(k.probes) \in Nat /\ (k.probes > 0 => Decremented(k.probes) + 1 = k.probes)
    BY <2>3 DEF Decremented
  <2>a. k.probes = 0 => Decremented(k.probes) = 0
    BY DEF Decremented
  <2>6. CASE circuit'[s] = circuit[s] /\ (s \in mine => circuit[s].state = "closed")
    BY <2>1, <2>2, <2>3, <2>4, <2>6
  <2>7. CASE s \in mine /\ circuit'[s] = AbandonProbe(circuit[s])
    <3>1. /\ CircuitOk(circuit'[s]) /\ circuit'[s].state = k.state
          /\ k.state = "halfOpen" => circuit'[s].probes = Decremented(k.probes)
      BY <2>1, <2>2, <2>7, ProbeAbandoned
    <3> QED
      BY <2>2, <2>3, <2>4, <2>5, <2>a, <2>7, <3>1
  <2>8. CASE /\ config.failure
             /\ \E failed, trips \in BOOLEAN :
                  circuit'[s] = Finish(circuit[s], s \in mine, failed, trips)
    <3>1. PICK failed, trips \in BOOLEAN : circuit'[s] = Finish(circuit[s], s \in mine, failed, trips)
      BY <2>8
    <3>2. PICK probe \in BOOLEAN : probe <=> s \in mine
      OBVIOUS
    <3>3. circuit'[s] = Finish(k, probe, failed, trips)
      BY <2>1, <3>1, <3>2
    <3>4. /\ CircuitOk(circuit'[s])
          /\ circuit'[s].state = "halfOpen" =>
               /\ k.state = "halfOpen"
               /\ circuit'[s].probes = IF probe THEN Decremented(k.probes) ELSE k.probes
      BY <2>2, <3>3, ProbeFinished
    <3> QED
      BY <2>3, <2>4, <2>5, <2>a, <2>8, <3>2, <3>4
  <2> QED
    BY <1>3, <2>6, <2>7, <2>8
<1>5. CircuitsTyped'
  BY <1>3, <1>4 DEF CircuitsTyped, CircuitOk
<1> QED
  BY <1>1, <1>4, <1>5 DEF CircuitsSound, ProbesHeld, Probers

--------------------------------------------------------------------------------
(* The line *)

LEMMA LeastExists ==
  ASSUME NEW P \in SUBSET Nat, P # {}
  PROVE  \E i \in P : \A j \in P : i <= j
<1>1. PICK i \in P : \A j \in P : ~(<<j, i>> \in OpToRel(<, Nat))
  BY NatLessThanWellFounded, WFMin
<1>2. ASSUME NEW j \in P PROVE i <= j
  <2>1. i \in Nat /\ j \in Nat
    OBVIOUS
  <2>2. ~(<<j, i>> \in {ss \in Nat \X Nat : ss[1] < ss[2]})
    BY <1>1 DEF OpToRel
  <2>3. ~(j < i)
    BY <2>1, <2>2
  <2> QED
    BY <2>1, <2>3
<1> QED
  BY <1>2

LEMMA OldestIsIn ==
  ASSUME AdmissionTypeOK, NEW P \in SUBSET (DOMAIN queue)
  PROVE  /\ P = {} => Oldest(P) = Void
         /\ P # {} => \E i \in P : Oldest(P) = queue[i] /\ \A j \in P : i <= j
<1>1. P \in SUBSET Nat
  BY DEF AdmissionTypeOK
<1>2. ASSUME P # {} PROVE \E i \in P : Oldest(P) = queue[i] /\ \A j \in P : i <= j
  <2>1. \E i \in P : \A j \in P : i <= j
    BY <1>1, <1>2, LeastExists
  <2>2. PICK i : i = CHOOSE k \in P : \A j \in P : k <= j
    OBVIOUS
  <2>3. i \in P /\ \A j \in P : i <= j
    BY <2>1, <2>2
  <2>4. Oldest(P) = queue[i]
    BY <1>2, <2>2 DEF Oldest
  <2> QED
    BY <2>3, <2>4
<1> QED
  BY <1>2 DEF Oldest

Leading(c) == InLine(c) /\ \A b \in Callers : Before(b, c) => caller[b].demand # caller[c].demand

Room(d) == CircuitAvailable(d) /\ CanAdmit(d)

Overlap(c, d) == caller[c].demand.slots \cap d.slots # {}

Eligible(c, d) == Leading(c) /\ ~IsPriority(c) /\ Overlap(c, d) /\ Room(caller[c].demand)

LaneFree(d) == \A b \in Callers : InLine(b) => caller[b].demand # d

\* CompositeAdmissible without positions
Entitled(c) ==
  LET d == caller[c].demand
  IN /\ Room(d)
     /\ Ticket(c) => /\ Leading(c) /\ d.slots # {}
                     /\ \A b \in Callers : Eligible(b, d) => ~Before(b, c)
     /\ ~Ticket(c) => /\ LaneFree(d)
                      /\ \A b \in Callers : ~Eligible(b, d)

LEMMA LineFacts ==
  (AdmissionTypeOK /\ QueueSound) =>
    /\ \A c : InLine(c) => c \in Callers
    /\ \A b, c \in Callers : Before(b, c) => InLine(b) /\ InLine(c) /\ b # c /\ ~Before(c, b)
    /\ \A b, c \in Callers : InLine(b) /\ InLine(c) /\ b # c => Before(b, c) \/ Before(c, b)
<1> SUFFICES ASSUME AdmissionTypeOK, QueueSound
             PROVE  /\ \A c : InLine(c) => c \in Callers
                    /\ \A b, c \in Callers : Before(b, c) => InLine(b) /\ InLine(c) /\ b # c /\ ~Before(c, b)
                    /\ \A b, c \in Callers : InLine(b) /\ InLine(c) /\ b # c => Before(b, c) \/ Before(c, b)
  OBVIOUS
<1>1. queue \in Seq(Callers) /\ \A i, j \in DOMAIN queue : queue[i] = queue[j] => i = j
  BY DEF AdmissionTypeOK, QueueSound
<1>2. \A i \in DOMAIN queue : i \in Int /\ queue[i] \in Callers
  BY <1>1
<1>3. \A c : InLine(c) => c \in Callers
  BY <1>2 DEF InLine
<1>4. ASSUME NEW b \in Callers, NEW c \in Callers, Before(b, c)
      PROVE  InLine(b) /\ InLine(c) /\ b # c /\ ~Before(c, b)
  <2>1. PICK i, j \in DOMAIN queue : i < j /\ queue[i] = b /\ queue[j] = c
    BY <1>4 DEF Before
  <2> QED
    BY <1>1, <1>2, <2>1 DEF InLine, Before
<1>5. ASSUME NEW b \in Callers, NEW c \in Callers, InLine(b), InLine(c), b # c
      PROVE  Before(b, c) \/ Before(c, b)
  BY <1>2, <1>5 DEF InLine, Before
<1> QED
  BY <1>3, <1>4, <1>5

\* positions and callers say the same of the heads
LEMMA HeadsLead ==
  ASSUME AdmissionTypeOK, QueueSound
  PROVE  /\ \A i \in DOMAIN queue : IsHead(i) <=> Leading(queue[i])
         /\ \A c \in Callers : c \in HeadCallers <=> Leading(c)
         /\ \A d : LaneEmpty(d) <=> LaneFree(d)
<1>1. queue \in Seq(Callers) /\ \A i, j \in DOMAIN queue : queue[i] = queue[j] => i = j
  BY DEF AdmissionTypeOK, QueueSound
<1>2. /\ \A i \in DOMAIN queue : i \in Nat /\ queue[i] \in Callers
      /\ \A i \in DOMAIN queue, j \in Nat : 1 <= j /\ j <= i => j \in DOMAIN queue
      /\ \A i \in DOMAIN queue : 1 <= i
  BY <1>1
<1>3. ASSUME NEW i \in DOMAIN queue PROVE IsHead(i) <=> Leading(queue[i])
  <2>1. ASSUME IsHead(i), NEW b \in Callers, Before(b, queue[i])
        PROVE  caller[b].demand # caller[queue[i]].demand
    <3>1. PICK j, k \in DOMAIN queue : j < k /\ queue[j] = b /\ queue[k] = queue[i]
      BY <2>1 DEF Before
    <3>2. j \in 1..(i - 1)
      BY <1>1, <1>2, <3>1
    <3> QED
      BY <2>1, <3>1, <3>2 DEF IsHead, WaiterDemand
  <2>2. ASSUME Leading(queue[i]), NEW j \in 1..(i - 1) PROVE WaiterDemand(j) # WaiterDemand(i)
    <3>1. j \in DOMAIN queue /\ j < i /\ queue[j] \in Callers
      BY <1>2
    <3>2. Before(queue[j], queue[i])
      BY <3>1 DEF Before
    <3> QED
      BY <2>2, <3>1, <3>2 DEF Leading, WaiterDemand
  <2>3. InLine(queue[i])
    BY DEF InLine
  <2> QED
    BY <2>1, <2>2, <2>3 DEF IsHead, Leading
<1>4. \A c \in Callers : c \in HeadCallers <=> Leading(c)
  BY <1>3 DEF HeadCallers, Leading, InLine
<1>5. \A d : LaneEmpty(d) <=> LaneFree(d)
  BY <1>2 DEF LaneEmpty, LaneFree, WaiterDemand, InLine
<1> QED
  BY <1>3, <1>4, <1>5

LEMMA SelectedIsOldest ==
  ASSUME AdmissionTypeOK, QueueSound, NEW d
  PROVE  /\ CompositeSelected(d) = Void <=> \A b \in Callers : ~Eligible(b, d)
         /\ \A c \in Callers : CompositeSelected(d) = c <=>
              Eligible(c, d) /\ \A b \in Callers : Eligible(b, d) => ~Before(b, c)
<1>1. PICK P : P = {i \in DOMAIN queue : /\ IsHead(i) /\ WaiterDemand(i).class = Void
                                         /\ WaiterDemand(i).slots \cap d.slots # {}
                                         /\ CircuitAvailable(WaiterDemand(i)) /\ CanAdmit(WaiterDemand(i))}
  OBVIOUS
<1>2. CompositeSelected(d) = Oldest(P)
  BY <1>1 DEF CompositeSelected
<1>3. /\ queue \in Seq(Callers) /\ \A i, j \in DOMAIN queue : queue[i] = queue[j] => i = j
      /\ \A i \in DOMAIN queue : i \in Nat /\ queue[i] \in Callers
  BY DEF AdmissionTypeOK, QueueSound
<1>4. P \in SUBSET (DOMAIN queue)
  BY <1>1
<1>5. \A i \in DOMAIN queue : i \in P <=> Eligible(queue[i], d)
  BY <1>1, HeadsLead DEF Eligible, Room, Overlap, IsPriority, WaiterDemand
<1>6. \A b \in Callers : Eligible(b, d) => \E i \in P : queue[i] = b
  BY <1>5 DEF Eligible, Leading, InLine
<1>7. Void \notin Callers
  BY AdmissionAssumption
<1>8. CASE P = {}
  <2>1. Oldest(P) = Void
    BY <1>4, <1>8, OldestIsIn
  <2>2. \A b \in Callers : ~Eligible(b, d)
    BY <1>6, <1>8
  <2> QED
    BY <1>2, <1>7, <2>1, <2>2
<1>9. CASE P # {}
  <2>1. PICK i \in P : Oldest(P) = queue[i] /\ \A j \in P : i <= j
    BY <1>4, <1>9, OldestIsIn
  <2>2. queue[i] \in Callers /\ Eligible(queue[i], d)
    BY <1>3, <1>4, <1>5, <2>1
  <2>3. ASSUME NEW b \in Callers, Eligible(b, d) PROVE ~Before(b, queue[i])
    <3>1. PICK j \in P : queue[j] = b
      BY <1>6, <2>3
    <3>2. i <= j
      BY <2>1, <3>1
    <3> QED
      BY <1>3, <1>4, <2>1, <3>1, <3>2 DEF Before
  <2>4. ASSUME NEW c \in Callers, Eligible(c, d), c # queue[i] PROVE Before(queue[i], c)
    <3>1. PICK j \in P : queue[j] = c
      BY <1>6, <2>4
    <3>2. i <= j /\ i # j
      BY <2>1, <2>4, <3>1
    <3>3. i < j
      BY <1>3, <1>4, <2>1, <3>1, <3>2
    <3> QED
      BY <1>4, <2>1, <3>1, <3>3 DEF Before
  <2> QED
    BY <1>2, <1>7, <2>1, <2>2, <2>3, <2>4
<1> QED
  BY <1>8, <1>9

AdmissionRestated ==
  \A c \in Callers : ~IsPriority(c) => (CompositeAdmissible(c) <=> Entitled(c))

TurnsRestated ==
  \A c \in Callers : InTurn(c) <=> IF Ticket(c) THEN Leading(c) ELSE LaneFree(caller[c].demand)

LEMMA EntitledAdmissible == (AdmissionTypeOK /\ QueueSound) => AdmissionRestated
<1> SUFFICES ASSUME AdmissionTypeOK, QueueSound, NEW c \in Callers, ~IsPriority(c)
             PROVE  CompositeAdmissible(c) <=> Entitled(c)
  BY DEF AdmissionRestated
<1>1. PICK d : d = caller[c].demand
  OBVIOUS
<1>2. CompositeAdmissible(c) <=> /\ InTurn(c) /\ CircuitAvailable(d) /\ CanAdmit(d)
                                 /\ CompositeSelected(d) = IF Ticket(c) THEN c ELSE Void
  BY <1>1 DEF CompositeAdmissible
<1>3. CASE Ticket(c)
  <2>1. InTurn(c) <=> Leading(c)
    BY <1>3, HeadsLead DEF InTurn
  <2>2. CompositeSelected(d) = c <=>
          Eligible(c, d) /\ \A b \in Callers : Eligible(b, d) => ~Before(b, c)
    BY SelectedIsOldest
  <2>3. Eligible(c, d) <=> Leading(c) /\ d.slots # {} /\ Room(d)
    BY <1>1 DEF Eligible, Overlap
  <2> QED
    BY <1>1, <1>2, <1>3, <2>1, <2>2, <2>3 DEF Entitled, Room
<1>4. CASE ~Ticket(c)
  <2>1. InTurn(c) <=> LaneFree(d)
    BY <1>1, <1>4, HeadsLead DEF InTurn
  <2>2. CompositeSelected(d) = Void <=> \A b \in Callers : ~Eligible(b, d)
    BY SelectedIsOldest
  <2> QED
    BY <1>1, <1>2, <1>4, <2>1, <2>2 DEF Entitled, Room
<1> QED
  BY <1>3, <1>4

LEMMA TurnRestated == (AdmissionTypeOK /\ QueueSound) => TurnsRestated
BY HeadsLead DEF InTurn, TurnsRestated

LEMMA RemovedAt ==
  ASSUME NEW q \in Seq(Callers), \A i, j \in DOMAIN q : q[i] = q[j] => i = j, NEW p \in DOMAIN q
  PROVE  /\ RemoveFirst(q, q[p]) \in Seq(Callers)
         /\ Len(RemoveFirst(q, q[p])) = Len(q) - 1
         /\ \A i \in 1..(Len(q) - 1) : RemoveFirst(q, q[p])[i] = IF i < p THEN q[i] ELSE q[i + 1]
<1>1. p \in Nat /\ 1 <= p /\ p <= Len(q) /\ Len(q) \in Nat
  OBVIOUS
<1>2. {i \in 1..Len(q) : q[i] = q[p]} = {p}
  OBVIOUS
<1>3. Min({p}) = p
  BY <1>1 DEF Min
<1>4. SelectInSeq(q, LAMBDA v : v = q[p]) = p
  BY <1>2, <1>3 DEF SelectInSeq
<1>5. RemoveFirst(q, q[p]) = RemoveAt(q, p)
  BY <1>1, <1>4 DEF RemoveFirst
<1>6. RemoveFirst(q, q[p]) = SubSeq(q, 1, p - 1) \o SubSeq(q, p + 1, Len(q))
  BY <1>5 DEF RemoveAt
<1>7. PICK left, right : left = SubSeq(q, 1, p - 1) /\ right = SubSeq(q, p + 1, Len(q))
  OBVIOUS
<1>8. /\ left \in Seq(Callers) /\ Len(left) = p - 1
      /\ \A i \in 1..(p - 1) : left[i] = q[i]
  BY <1>1, <1>7
<1>9. /\ right \in Seq(Callers) /\ Len(right) = Len(q) - p
      /\ \A i \in 1..(Len(q) - p) : right[i] = q[p + i]
  BY <1>1, <1>7
<1>10. /\ left \o right \in Seq(Callers) /\ Len(left \o right) = Len(q) - 1
       /\ \A i \in 1..(Len(q) - 1) : (left \o right)[i] = IF i < p THEN left[i] ELSE right[i - (p - 1)]
  <2>1. /\ left \o right \in Seq(Callers) /\ Len(left \o right) = Len(left) + Len(right)
        /\ \A i \in 1..(Len(left) + Len(right)) :
             (left \o right)[i] = IF i <= Len(left) THEN left[i] ELSE right[i - Len(left)]
    BY <1>8, <1>9, ConcatProperties
  <2>2. Len(left) + Len(right) = Len(q) - 1
    BY <1>1, <1>8, <1>9
  <2> QED
    BY <1>1, <1>8, <2>1, <2>2
<1>11. ASSUME NEW i \in 1..(Len(q) - 1)
       PROVE  (left \o right)[i] = IF i < p THEN q[i] ELSE q[i + 1]
  <2>1. CASE i < p
    BY <1>1, <1>8, <1>10, <2>1
  <2>2. CASE ~(i < p)
    <3>1. PICK j : j = i - (p - 1)
      OBVIOUS
    <3>2. j \in 1..(Len(q) - p) /\ p + j = i + 1
      BY <1>1, <2>2, <3>1
    <3> QED
      BY <1>9, <1>10, <2>2, <3>1, <3>2
  <2> QED
    BY <2>1, <2>2
<1> QED
  BY <1>6, <1>7, <1>10, <1>11

LEMMA LineLeft ==
  ASSUME AdmissionTypeOK, QueueSound, NEW c \in Callers, queue' = Removed(c)
  PROVE  /\ queue' \in Seq(Callers)
         /\ \A i, j \in DOMAIN queue' : queue'[i] = queue'[j] => i = j
         /\ \A b : InLine(b)' <=> InLine(b) /\ b # c
         /\ \A a, b : Before(a, b)' <=> Before(a, b) /\ a # c /\ b # c
         /\ ~InLine(c) => queue' = queue
<1>0. PICK q : q = queue
  OBVIOUS
<1>1. q \in Seq(Callers) /\ \A i, j \in DOMAIN q : q[i] = q[j] => i = j
  BY <1>0 DEF AdmissionTypeOK, QueueSound
<1>2. PICK r : r = queue'
  OBVIOUS
<1>3. r = RemoveFirst(q, c)
  BY <1>0, <1>2 DEF Removed
<1>4. ASSUME ~InLine(c)
      PROVE  r = q
  <2>1. ~\E i \in 1..Len(q) : q[i] = c
    BY <1>0, <1>1, <1>4 DEF InLine
  <2> QED
    BY <1>3, <2>1 DEF RemoveFirst
<1>5. ASSUME ~InLine(c)
      PROVE  \A a, b : Before(a, b) => a # c /\ b # c
  BY <1>5 DEF Before, InLine
<1>6. CASE ~InLine(c)
  <2>1. queue' = queue
    BY <1>0, <1>2, <1>4, <1>6
  <2> QED
    BY <1>0, <1>1, <1>5, <1>6, <2>1 DEF InLine, Before
<1>7. CASE InLine(c)
  <2>1. PICK p \in DOMAIN q : q[p] = c
    BY <1>0, <1>7 DEF InLine
  <2>2. /\ r \in Seq(Callers) /\ Len(r) = Len(q) - 1
        /\ \A i \in 1..(Len(q) - 1) : r[i] = IF i < p THEN q[i] ELSE q[i + 1]
    BY <1>1, <1>3, <2>1, RemovedAt
  <2>3. /\ Len(q) \in Nat /\ p \in 1..Len(q) /\ DOMAIN q = 1..Len(q)
        /\ DOMAIN r = 1..(Len(q) - 1)
    BY <1>1, <2>1, <2>2
  <2> DEFINE up(i) == IF i < p THEN i ELSE i + 1
             down(i) == IF i < p THEN i ELSE i - 1
  <2>4. \A i \in DOMAIN r : up(i) \in DOMAIN q /\ up(i) # p /\ r[i] = q[up(i)]
    BY <2>2, <2>3
  <2>5. \A i \in DOMAIN q : i # p => down(i) \in DOMAIN r /\ r[down(i)] = q[i]
    <3> SUFFICES ASSUME NEW i \in DOMAIN q, i # p PROVE down(i) \in DOMAIN r /\ r[down(i)] = q[i]
      OBVIOUS
    <3>1. CASE i < p
      BY <2>2, <2>3, <3>1
    <3>2. CASE i > p
      <4>1. PICK k : k = i - 1
        OBVIOUS
      <4>2. k \in DOMAIN r /\ ~(k < p) /\ k + 1 = i /\ down(i) = k
        BY <2>3, <3>2, <4>1
      <4> QED
        BY <2>2, <2>3, <4>2
    <3> QED
      BY <2>3, <3>1, <3>2
  <2>6. /\ \A i, j \in DOMAIN r : (up(i) = up(j) => i = j) /\ (i < j => up(i) < up(j))
        /\ \A i, j \in DOMAIN q : i # p /\ j # p /\ i < j => down(i) < down(j)
    BY <2>3
  <2> HIDE DEF up, down
  <2>7. \A i, j \in DOMAIN r : r[i] = r[j] => i = j
    BY <1>1, <2>4, <2>6
  <2>8. \A i \in DOMAIN q : q[i] = c <=> i = p
    BY <1>1, <2>1
  <2>9. ASSUME NEW b PROVE (\E i \in DOMAIN r : r[i] = b) <=> (\E i \in DOMAIN q : q[i] = b) /\ b # c
    BY <2>4, <2>5, <2>8
  <2>10. ASSUME NEW a, NEW b
         PROVE  (\E i, j \in DOMAIN r : i < j /\ r[i] = a /\ r[j] = b) <=>
                  (\E i, j \in DOMAIN q : i < j /\ q[i] = a /\ q[j] = b) /\ a # c /\ b # c
    <3>1. ASSUME NEW i \in DOMAIN r, NEW j \in DOMAIN r, i < j, r[i] = a, r[j] = b
          PROVE  (\E k, l \in DOMAIN q : k < l /\ q[k] = a /\ q[l] = b) /\ a # c /\ b # c
      BY <2>4, <2>6, <2>8, <3>1
    <3>2. ASSUME NEW i \in DOMAIN q, NEW j \in DOMAIN q, i < j, q[i] = a, q[j] = b, a # c, b # c
          PROVE  \E k, l \in DOMAIN r : k < l /\ r[k] = a /\ r[l] = b
      BY <2>5, <2>6, <2>8, <3>2
    <3> QED
      BY <3>1, <3>2
  <2> QED
    BY <1>0, <1>2, <1>7, <2>2, <2>7, <2>9, <2>10 DEF InLine, Before
<1> QED
  BY <1>6, <1>7

LEMMA LineEntered ==
  ASSUME AdmissionTypeOK, QueueSound, NEW c \in Callers, ~InLine(c), queue' = Append(queue, c)
  PROVE  /\ queue' \in Seq(Callers)
         /\ \A i, j \in DOMAIN queue' : queue'[i] = queue'[j] => i = j
         /\ \A b : InLine(b)' <=> InLine(b) \/ b = c
         /\ \A a, b : Before(a, b)' <=> Before(a, b) \/ (b = c /\ InLine(a))
<1>0. PICK q : q = queue
  OBVIOUS
<1>1. q \in Seq(Callers) /\ \A i, j \in DOMAIN q : q[i] = q[j] => i = j
  BY <1>0 DEF AdmissionTypeOK, QueueSound
<1>2. PICK r : r = Append(q, c)
  OBVIOUS
<1>3. /\ r \in Seq(Callers) /\ Len(q) \in Nat /\ DOMAIN q = 1..Len(q) /\ DOMAIN r = 1..(Len(q) + 1)
      /\ \A i \in DOMAIN q : r[i] = q[i]
      /\ r[Len(q) + 1] = c
  BY <1>1, <1>2
<1>4. \A i \in DOMAIN q : q[i] # c
  BY <1>0 DEF InLine
<1>5. PICK n : n = Len(q) + 1
  OBVIOUS
<1>6. /\ \A i : i \in DOMAIN r <=> i \in DOMAIN q \/ i = n
      /\ n \notin DOMAIN q /\ \A i \in DOMAIN q : i < n /\ ~(n < i)
      /\ r[n] = c /\ ~(n < n)
  BY <1>3, <1>5
<1>7. \A i, j \in DOMAIN r : r[i] = r[j] => i = j
  BY <1>1, <1>3, <1>4, <1>6
<1>8. ASSUME NEW b PROVE (\E i \in DOMAIN r : r[i] = b) <=> (\E i \in DOMAIN q : q[i] = b) \/ b = c
  BY <1>3, <1>6
<1>9. ASSUME NEW a, NEW b
      PROVE  (\E i, j \in DOMAIN r : i < j /\ r[i] = a /\ r[j] = b) <=>
               \/ \E i, j \in DOMAIN q : i < j /\ q[i] = a /\ q[j] = b
               \/ b = c /\ \E i \in DOMAIN q : q[i] = a
  BY <1>3, <1>6
<1>10. queue' = r
  BY <1>0, <1>2
<1> QED
  BY <1>0, <1>3, <1>7, <1>8, <1>9, <1>10 DEF InLine, Before

\* the line after a step without a caller that may have stood in it
LineWithout(c) ==
  /\ queue' \in Seq(Callers)
  /\ \A i, j \in DOMAIN queue' : queue'[i] = queue'[j] => i = j
  /\ \A b \in Callers : InLine(b)' <=> InLine(b) /\ b # c
  /\ \A a, b \in Callers : Before(a, b)' <=> Before(a, b) /\ a # c /\ b # c

LEMMA RemovedFromLine ==
  ASSUME AdmissionTypeOK, QueueSound, NEW c \in Callers, RemoveWaiter(c)
  PROVE  LineWithout(c)
BY LineLeft DEF LineWithout, RemoveWaiter

LEMMA NeverInLine ==
  ASSUME AdmissionTypeOK, QueueSound, NEW c \in Callers, ~Ticket(c), UNCHANGED queue
  PROVE  LineWithout(c)
<1>1. ~InLine(c)
  BY DEF QueueSound
<1>2. \A b \in Callers : InLine(b)' <=> InLine(b)
  BY DEF InLine
<1>3. \A a, b \in Callers : Before(a, b)' <=> Before(a, b)
  BY DEF Before
<1>4. \A a, b \in Callers : Before(a, b) => a # c /\ b # c
  BY <1>1, LineFacts
<1> QED
  BY <1>1, <1>2, <1>3, <1>4 DEF LineWithout, AdmissionTypeOK, QueueSound

LEMMA QueueSoundWithout ==
  ASSUME QueueSound, NEW c \in Callers, NEW to, Move(c, to), to # "asleep", LineWithout(c)
  PROVE  QueueSound'
<1>1. ASSUME NEW x \in Callers PROVE Ticket(x)' <=> InLine(x)'
  <2>1. CASE x = c
    BY <2>1 DEF Move, Ticket, LineWithout
  <2>2. CASE x # c
    BY <2>2 DEF Move, SameCaller, Ticket, LineWithout, QueueSound
  <2> QED
    BY <2>1, <2>2
<1> QED
  BY <1>1 DEF QueueSound, LineWithout

LEMMA QueueSoundWith ==
  ASSUME AdmissionTypeOK, QueueSound, NEW c \in Callers, Move(c, "asleep"), ~Ticket(c),
         queue' = Append(queue, c)
  PROVE  queue' \in Seq(Callers) /\ QueueSound'
<1>1. ~InLine(c)
  BY DEF QueueSound
<1>2. /\ queue' \in Seq(Callers)
      /\ \A i, j \in DOMAIN queue' : queue'[i] = queue'[j] => i = j
      /\ \A b : InLine(b)' <=> InLine(b) \/ b = c
  BY <1>1, LineEntered
<1>3. ASSUME NEW x \in Callers PROVE Ticket(x)' <=> InLine(x)'
  <2>1. CASE x = c
    BY <1>2, <2>1 DEF Move, Ticket
  <2>2. CASE x # c
    BY <1>2, <2>2 DEF Move, SameCaller, Ticket, QueueSound
  <2> QED
    BY <2>1, <2>2
<1> QED
  BY <1>2, <1>3 DEF QueueSound

LEMMA QueueSoundSame ==
  ASSUME QueueSound, NEW c \in Callers, NEW to, Move(c, to), Ticket(c) <=> to = "asleep",
         UNCHANGED queue
  PROVE  QueueSound'
<1>1. ASSUME NEW x \in Callers PROVE Ticket(x)' <=> Ticket(x)
  BY DEF Move, SameCaller, Ticket
<1>2. ASSUME NEW x \in Callers PROVE InLine(x)' <=> InLine(x)
  BY DEF InLine
<1> QED
  BY <1>1, <1>2 DEF QueueSound

--------------------------------------------------------------------------------
(* Waiters.  A step that wakes nobody must not entitle a waiter that was not:
   what it may take away is room, what it may not is a waiter in the way.     *)

\* a caller with the same demand, in the queue when it was
Alike(x) == caller'[x].demand = caller[x].demand /\ (Ticket(x)' <=> Ticket(x))

LEMMA StaysUnentitled ==
  ASSUME AdmissionTypeOK, QueueSound, NEW x \in Callers, NEW d, d = caller[x].demand,
         Alike(x), Entitled(x)',
         Room(d)' => Room(d),
         Ticket(x) => (Leading(x)' => Leading(x)),
         ~Ticket(x) => (LaneFree(d)' => LaneFree(d)),
         \A b \in Callers \ {x} : Eligible(b, d) => Eligible(b, d)' /\ (Before(b, x) => Before(b, x)')
  PROVE  Entitled(x)
<1>1. caller'[x].demand = d /\ (Ticket(x)' <=> Ticket(x))
  BY DEF Alike
<1>2. /\ Room(d)'
      /\ Ticket(x) => /\ Leading(x)' /\ d.slots # {}
                      /\ \A b \in Callers : Eligible(b, d)' => ~Before(b, x)'
      /\ ~Ticket(x) => LaneFree(d)' /\ \A b \in Callers : ~Eligible(b, d)'
  BY <1>1 DEF Entitled
<1>3. ~Before(x, x)
  BY LineFacts
<1>4. Room(d)
  BY <1>2
<1>5. CASE Ticket(x)
  <2>1. \A b \in Callers : Eligible(b, d) => ~Before(b, x)
    BY <1>2, <1>3, <1>5
  <2> QED
    BY <1>2, <1>4, <1>5, <2>1 DEF Entitled
<1>6. CASE ~Ticket(x)
  <2>1. ~InLine(x)
    BY <1>6 DEF QueueSound
  <2>2. ~Eligible(x, d)
    BY <2>1 DEF Eligible, Leading
  <2>3. \A b \in Callers : ~Eligible(b, d)
    BY <1>2, <1>6, <2>2
  <2> QED
    BY <1>2, <1>4, <1>6, <2>3 DEF Entitled
<1> QED
  BY <1>5, <1>6

LEMMA StaysSettledAlike ==
  ASSUME AdmissionTypeOK, QueueSound, AdmissionTypeOK', QueueSound', NEW x \in Callers,
         ~IsPriority(x), Alike(x), Settled(x), UNCHANGED config,
         NEW d, d = caller[x].demand,
         (InTurn(x) /\ Room(d)') => Room(d),
         Ticket(x) => (Leading(x)' => Leading(x)),
         ~Ticket(x) => (LaneFree(d)' => LaneFree(d)),
         Entitled(x)' => \A b \in Callers \ {x} :
           Eligible(b, d) => Eligible(b, d)' /\ (Before(b, x) => Before(b, x)'),
         \A s \in Guarded : Cooling(s)' => Cooling(s)
  PROVE  Settled(x)'
<1>1. caller'[x].demand = d /\ (Ticket(x)' <=> Ticket(x)) /\ ~IsPriority(x)'
  BY DEF Alike, IsPriority
<1>2. InTurn(x) <=> IF Ticket(x) THEN Leading(x) ELSE LaneFree(d)
  BY TurnRestated DEF TurnsRestated
<1>3. InTurn(x)' <=> IF Ticket(x)' THEN Leading(x)' ELSE LaneFree(d)'
  <2>1. TurnsRestated'
    BY TurnRestated, PTL
  <2> QED
    BY <1>1, <2>1 DEF TurnsRestated, LaneFree
<1>4. InTurn(x)' => InTurn(x)
  BY <1>1, <1>2, <1>3
<1>5. CompositeAdmissible(x) <=> Entitled(x)
  BY EntitledAdmissible DEF AdmissionRestated
<1>6. CompositeAdmissible(x)' <=> Entitled(x)'
  <2>1. AdmissionRestated'
    BY EntitledAdmissible, PTL
  <2> QED
    BY <1>1, <2>1 DEF AdmissionRestated
<1>7. ASSUME Entitled(x)' PROVE FALSE
  <2>1. InTurn(x)' /\ Room(d)'
    BY <1>1, <1>3, <1>7 DEF Entitled
  <2>2. Room(d)
    BY <1>4, <2>1
  <2>3. Entitled(x)
    BY <1>7, <2>2, StaysUnentitled
  <2> QED
    BY <1>5, <2>3 DEF Settled
<1>8. GuardedSlots(caller[x].demand)' = GuardedSlots(d) /\ GuardedSlots(d) \subseteq Guarded
  BY <1>1 DEF GuardedSlots
<1>9. InTurn(x)' => \A s \in GuardedSlots(d) : ~Cooling(s)'
  BY <1>4, <1>8 DEF Settled
<1> QED
  BY <1>6, <1>7, <1>8, <1>9 DEF Settled

LEMMA StaysSettled ==
  ASSUME AdmissionTypeOK, QueueSound, AdmissionTypeOK', QueueSound', NEW x \in Callers,
         ~IsPriority(x), SameCaller(caller'[x], caller[x]), Settled(x), UNCHANGED config,
         NEW d, d = caller[x].demand,
         (InTurn(x) /\ Room(d)') => Room(d),
         Ticket(x) => (Leading(x)' => Leading(x)),
         ~Ticket(x) => (LaneFree(d)' => LaneFree(d)),
         Entitled(x)' => \A b \in Callers \ {x} :
           Eligible(b, d) => Eligible(b, d)' /\ (Before(b, x) => Before(b, x)'),
         \A s \in Guarded : Cooling(s)' => Cooling(s)
  PROVE  Settled(x)'
BY StaysSettledAlike DEF SameCaller, Alike, Ticket

LEMMA RoomSame ==
  ASSUME UNCHANGED <<active, circuit, config>>, NEW d
  PROVE  Room(d)' <=> Room(d)
<1>1. \A s : Available(s)' <=> Available(s)
  BY DEF Available
<1>2. GuardedSlots(d)' = GuardedSlots(d)
  BY DEF GuardedSlots
<1> QED
  BY <1>1, <1>2 DEF Room, CircuitAvailable, CanAdmit

\* a caller that leaves without a word was of a class, or not in line
LEMMA LeadingWithout ==
  ASSUME AdmissionTypeOK, QueueSound, NEW c \in Callers, NEW to, Move(c, to), LineWithout(c),
         Ticket(c) => IsPriority(c), NEW b \in Callers \ {c}, ~IsPriority(b)
  PROVE  Leading(b)' <=> Leading(b)
<1>1. (InLine(b)' <=> InLine(b)) /\ caller'[b].demand = caller[b].demand
  BY DEF LineWithout, Move, SameCaller
<1>2. ASSUME NEW a \in Callers \ {c}
      PROVE  (Before(a, b)' <=> Before(a, b)) /\ caller'[a].demand = caller[a].demand
  BY DEF LineWithout, Move, SameCaller
<1>3. ~Before(c, b)'
  BY DEF LineWithout
<1>4. Before(c, b) => caller[c].demand # caller[b].demand
  <2>1. Before(c, b) => InLine(c)
    BY LineFacts
  <2>2. InLine(c) => IsPriority(c)
    BY DEF QueueSound
  <2> QED
    BY <2>1, <2>2 DEF IsPriority
<1> QED
  BY <1>1, <1>2, <1>3, <1>4 DEF Leading

LEMMA LaneFreeWithout ==
  ASSUME AdmissionTypeOK, QueueSound, NEW c \in Callers, NEW to, Move(c, to), LineWithout(c),
         Ticket(c) => IsPriority(c), NEW d, d.class = Void
  PROVE  LaneFree(d)' <=> LaneFree(d)
<1>1. ASSUME NEW a \in Callers \ {c}
      PROVE  (InLine(a)' <=> InLine(a)) /\ caller'[a].demand = caller[a].demand
  BY DEF LineWithout, Move, SameCaller
<1>2. ~InLine(c)'
  BY DEF LineWithout
<1>3. InLine(c) => caller[c].demand # d
  BY DEF QueueSound, IsPriority
<1> QED
  BY <1>1, <1>2, <1>3 DEF LaneFree

\* such a leave, when nothing takes room, or only from demands that are not in the way
LEMMA SettledWithout ==
  ASSUME AdmissionTypeOK, QueueSound, AdmissionTypeOK', QueueSound', NEW c \in Callers, NEW to,
         Move(c, to), LineWithout(c), Ticket(c) => IsPriority(c), UNCHANGED config,
         NEW x \in Callers \ {c}, ~IsPriority(x), Settled(x),
         Room(caller[x].demand)' => Room(caller[x].demand),
         Entitled(x)' => \A b \in Callers \ {x} :
           Eligible(b, caller[x].demand) => Room(caller[b].demand)',
         \A s \in Guarded : Cooling(s)' => Cooling(s)
  PROVE  Settled(x)'
<1>1. PICK d : d = caller[x].demand
  OBVIOUS
<1>2. SameCaller(caller'[x], caller[x]) /\ caller'[x].demand = d
  BY <1>1 DEF Move, SameCaller
<1>3. d.class = Void
  BY <1>1 DEF IsPriority
<1>4. Leading(x)' <=> Leading(x)
  BY LeadingWithout
<1>5. LaneFree(d)' <=> LaneFree(d)
  BY <1>3, LaneFreeWithout
<1>6. ASSUME Entitled(x)', NEW b \in Callers \ {x}, Eligible(b, d)
      PROVE  Eligible(b, d)' /\ (Before(b, x) => Before(b, x)')
  <2>1. Leading(b) /\ ~IsPriority(b) /\ Overlap(b, d) /\ InLine(b)
    BY <1>6 DEF Eligible, Leading
  <2>2. b # c
    BY <2>1 DEF QueueSound
  <2>3. SameCaller(caller'[b], caller[b])
    BY <2>2 DEF Move
  <2>4. Leading(b)'
    BY <2>1, <2>2, LeadingWithout
  <2>5. Room(caller[b].demand)'
    BY <1>1, <1>6
  <2>6. caller'[b].demand = caller[b].demand
    BY <2>3 DEF SameCaller
  <2>a. PICK e : e = caller[b].demand
    OBVIOUS
  <2>7. /\ Room(e)' /\ caller'[b].demand = e
    <3>1. caller'[b].demand = e
      BY <2>6, <2>a
    <3> QED
      BY <2>5, <3>1
  <2>8. Eligible(b, d)'
    BY <2>1, <2>3, <2>4, <2>5, <2>7 DEF Eligible, Overlap, IsPriority, SameCaller
  <2>9. Before(b, x) => Before(b, x)'
    BY <2>2 DEF LineWithout
  <2> QED
    BY <2>8, <2>9
<1>7. Room(d)' => Room(d)
  BY <1>1, <1>2
<1> QED
  BY <1>1, <1>2, <1>4, <1>5, <1>6, <1>7, StaysSettled

\* what a step that wakes nobody leaves of the others' settlements
OthersSettled(c) ==
  \A x \in Callers \ {c} : Listening(caller[x]) /\ ~IsPriority(x) /\ Settled(x) => Settled(x)'

LEMMA QuietLeave ==
  ASSUME AdmissionTypeOK, QueueSound, AdmissionTypeOK', QueueSound', NEW c \in Callers, NEW to,
         Move(c, to), LineWithout(c), Ticket(c) => IsPriority(c), UNCHANGED <<active, circuit, config>>
  PROVE  OthersSettled(c)
<1> SUFFICES ASSUME NEW x \in Callers \ {c}, Listening(caller[x]), ~IsPriority(x), Settled(x)
             PROVE  Settled(x)'
  BY DEF OthersSettled
<1>1. caller'[x].demand = caller[x].demand
  BY DEF Move, SameCaller
<1>2. Room(caller[x].demand)' => Room(caller[x].demand)
  <2>1. PICK d : d = caller[x].demand
    OBVIOUS
  <2>2. Room(d)' <=> Room(d)
    BY RoomSame
  <2> QED
    BY <1>1, <2>1, <2>2
<1>3. ASSUME NEW b \in Callers \ {x}, Eligible(b, caller[x].demand) PROVE Room(caller[b].demand)'
  <2>1. InLine(b) /\ ~IsPriority(b) /\ Room(caller[b].demand)
    BY <1>3 DEF Eligible, Leading
  <2>2. b # c
    BY <2>1 DEF QueueSound
  <2>3. PICK e : e = caller[b].demand
    OBVIOUS
  <2>4. caller'[b].demand = e
    BY <2>2, <2>3 DEF Move, SameCaller
  <2>5. Room(e)' <=> Room(e)
    BY RoomSame
  <2> QED
    BY <2>1, <2>3, <2>4, <2>5
<1>4. \A s \in Guarded : Cooling(s)' => Cooling(s)
  BY DEF Cooling
<1> QED
  BY <1>2, <1>3, <1>4, SettledWithout

LEMMA Incremented ==
  ASSUME AdmissionTypeOK, NEW d, IncrementActive(d), UNCHANGED config, NEW e, e \in Demand
  PROVE  /\ CanAdmit(e)' => CanAdmit(e)
         /\ (e.slots \cap d.slots = {} /\ CanAdmit(e)) => CanAdmit(e)'
<1>1. config.limit \in [Slots -> Nat] /\ active \in [Slots -> Nat] /\ e.slots \subseteq Slots
  BY AdmissionAssumption DEF AdmissionTypeOK, Configuration, Demand
<1>2. \A s \in Slots : active'[s] = IF s \in d.slots THEN active[s] + 1 ELSE active[s]
  BY DEF IncrementActive
<1>3. ASSUME NEW s \in Slots, active'[s] < config.limit[s] PROVE active[s] < config.limit[s]
  BY <1>1, <1>2, <1>3
<1>4. CanAdmit(e)' <=> \A s \in e.slots : active'[s] < config.limit[s]
  BY DEF CanAdmit
<1>5. CanAdmit(e) <=> \A s \in e.slots : active[s] < config.limit[s]
  BY DEF CanAdmit
<1>6. ASSUME NEW s \in e.slots, e.slots \cap d.slots = {} PROVE active'[s] = active[s]
  BY <1>1, <1>2, <1>6
<1> QED
  BY <1>1, <1>3, <1>4, <1>5, <1>6

\* the demand of a class takes the global slot, which a composite demand has alone
LEMMA QuietPriority ==
  ASSUME AdmissionTypeOK, CallersSound, QueueSound, AdmissionTypeOK', QueueSound', NEW c \in Callers,
         Move(c, "held"), LineWithout(c), IsPriority(c), caller[c].pc \in Engaged,
         IncrementActive(caller[c].demand), UNCHANGED <<circuit, config>>
  PROVE  OthersSettled(c)
<1> SUFFICES ASSUME NEW x \in Callers \ {c}, Listening(caller[x]), ~IsPriority(x), Settled(x)
             PROVE  Settled(x)'
  BY DEF OthersSettled
<1>1. PICK d : d = caller[c].demand
  OBVIOUS
<1>2. d.slots = {GlobalSlot}
  BY <1>1 DEF CallersSound, CallerOk, DemandOk, IsPriority
<1>3. IncrementActive(d)
  BY <1>1 DEF IncrementActive
<1>4. ASSUME NEW e PROVE CircuitAvailable(e)' <=> CircuitAvailable(e)
  BY DEF CircuitAvailable, Available, GuardedSlots
<1>5. ASSUME NEW b \in Callers, Listening(caller[b])
      PROVE  DemandOk(caller[b].demand) /\ caller[b].demand \in Demand
  BY <1>5 DEF CallersSound, CallerOk, Engaged, DemandOk, Listening
<1>6. PICK dx : dx = caller[x].demand
  OBVIOUS
<1>7. caller'[x].demand = dx /\ DemandOk(dx) /\ dx \in Demand /\ dx.class = Void
  BY <1>5, <1>6 DEF Move, SameCaller, IsPriority
<1>8. Room(caller[x].demand)' => Room(caller[x].demand)
  <2>1. CanAdmit(dx)' => CanAdmit(dx)
    BY <1>3, <1>7, Incremented
  <2>2. Room(dx)' => Room(dx)
    BY <1>4, <2>1 DEF Room
  <2> QED
    BY <1>6, <1>7, <2>2
<1>9. ASSUME Entitled(x)', NEW b \in Callers \ {x}, Eligible(b, caller[x].demand)
      PROVE  Room(caller[b].demand)'
  <2>1. /\ Leading(b) /\ InLine(b) /\ ~IsPriority(b) /\ Room(caller[b].demand)
        /\ caller[b].demand.slots \cap dx.slots # {}
    BY <1>6, <1>9 DEF Eligible, Leading, Overlap
  <2>2. b # c /\ Listening(caller[b])
    BY <2>1 DEF QueueSound, Ticket, Listening
  <2>3. PICK e : e = caller[b].demand
    OBVIOUS
  <2>4. caller'[b].demand = e /\ DemandOk(e) /\ e \in Demand /\ e.class = Void
    BY <1>5, <2>1, <2>2, <2>3 DEF Move, SameCaller, IsPriority
  <2>5. ASSUME GlobalSlot \in e.slots PROVE FALSE
    <3>1. e.slots = dx.slots
      BY <1>7, <2>1, <2>3, <2>4, <2>5 DEF DemandOk
    <3>2. e = dx
      BY <1>7, <2>4, <3>1 DEF DemandOk, Demand
    <3>3. CASE Ticket(x)
      <4>1. Ticket(x)'
        BY <3>3 DEF Move, SameCaller, Ticket
      <4>2. Leading(x)'
        BY <1>9, <4>1 DEF Entitled
      <4>3. Leading(x)
        BY <4>2, LeadingWithout
      <4>4. Before(b, x) \/ Before(x, b)
        BY <2>1, <4>3, LineFacts DEF Leading
      <4> QED
        BY <1>6, <2>1, <2>3, <3>2, <4>3, <4>4 DEF Leading
    <3>4. CASE ~Ticket(x)
      <4>1. ~Ticket(x)'
        BY <3>4 DEF Move, SameCaller, Ticket
      <4>2. LaneFree(dx)'
        BY <1>7, <1>9, <4>1 DEF Entitled, LaneFree
      <4>3. LaneFree(dx)
        BY <1>7, <4>2, LaneFreeWithout
      <4> QED
        BY <2>1, <2>3, <3>2, <4>3 DEF LaneFree
    <3> QED
      BY <3>3, <3>4
  <2>6. e.slots \cap d.slots = {}
    BY <1>2, <2>5
  <2>7. CanAdmit(e)'
    BY <1>3, <2>1, <2>3, <2>4, <2>6, Incremented DEF Room
  <2>8. Room(e)'
    BY <1>4, <2>1, <2>3, <2>7 DEF Room
  <2> QED
    BY <2>4, <2>8
<1>10. \A s \in Guarded : Cooling(s)' => Cooling(s)
  BY DEF Cooling
<1> QED
  BY <1>8, <1>9, <1>10, SettledWithout

\* a newcomer is admitted only when nobody in line that overlaps could be
LEMMA QuietComposite ==
  ASSUME AdmissionTypeOK, CallersSound, QueueSound, AdmissionTypeOK', QueueSound', NEW c \in Callers,
         Move(c, "held"), LineWithout(c), ~IsPriority(c), ~Ticket(c), CompositeAdmissible(c),
         IncrementActive(caller[c].demand), UNCHANGED config,
         circuit' = [s \in Guarded |-> IF s \in GuardedSlots(caller[c].demand)
                                       THEN BeginProbe(circuit[s]) ELSE circuit[s]]
  PROVE  OthersSettled(c)
<1> SUFFICES ASSUME NEW x \in Callers \ {c}, Listening(caller[x]), ~IsPriority(x), Settled(x)
             PROVE  Settled(x)'
  BY DEF OthersSettled
<1>1. PICK d : d = caller[c].demand
  OBVIOUS
<1>2. PICK g : g = GuardedSlots(d)
  OBVIOUS
<1>3. IncrementActive(d)
  BY <1>1 DEF IncrementActive
<1>4. /\ Room(d) /\ \A b \in Callers : ~Eligible(b, d)
  BY <1>1, EntitledAdmissible DEF Entitled, AdmissionRestated
<1>5. g \subseteq Guarded /\ g \subseteq d.slots /\ \A s \in g : Available(s)
  BY <1>2, <1>4 DEF GuardedSlots, Room, CircuitAvailable
<1>6. circuit' = [s \in Guarded |-> IF s \in g THEN BeginProbe(circuit[s]) ELSE circuit[s]]
  BY <1>1, <1>2
<1>7. \A s \in Guarded : s \notin g => circuit'[s] = circuit[s]
  BY <1>6
<1>8. \A s \in Guarded : Available(s)' => Available(s)
  BY <1>5, <1>7 DEF Available
<1>9. ASSUME NEW e
      PROVE  /\ GuardedSlots(e)' = GuardedSlots(e)
             /\ GuardedSlots(e) \subseteq Guarded /\ GuardedSlots(e) \subseteq e.slots
  BY DEF GuardedSlots
<1>10. ASSUME NEW e PROVE CircuitAvailable(e)' => CircuitAvailable(e)
  BY <1>8, <1>9 DEF CircuitAvailable
<1>11. ASSUME NEW e, e.slots \cap d.slots = {}, CircuitAvailable(e) PROVE CircuitAvailable(e)'
  <2>1. \A s \in GuardedSlots(e) : circuit'[s] = circuit[s]
    BY <1>5, <1>7, <1>9, <1>11
  <2> QED
    BY <1>9, <1>11, <2>1 DEF CircuitAvailable, Available
<1>12. ASSUME NEW s \in Guarded PROVE Cooling(s)' => Cooling(s)
  <2>1. CASE s \in g
    <3>1. PICK k : k = circuit[s]
      OBVIOUS
    <3>2. CircuitOk(k) /\ Ready(k)
      BY <1>5, <2>1, <3>1 DEF AdmissionTypeOK, CircuitOk, Available, Ready
    <3>3. circuit'[s] = BeginProbe(k)
      BY <1>6, <2>1, <3>1
    <3>4. circuit'[s].state # "open"
      BY <3>2, <3>3, ProbeBegun
    <3> QED
      BY <3>4 DEF Cooling
  <2>2. CASE s \notin g
    BY <1>7, <2>2 DEF Cooling
  <2> QED
    BY <2>1, <2>2
<1>13. ASSUME NEW b \in Callers, Listening(caller[b])
       PROVE  DemandOk(caller[b].demand) /\ caller[b].demand \in Demand
  BY <1>13 DEF CallersSound, CallerOk, Engaged, DemandOk, Listening
<1>14. Room(caller[x].demand)' => Room(caller[x].demand)
  <2>1. PICK e : e = caller[x].demand
    OBVIOUS
  <2>2. caller'[x].demand = e /\ e \in Demand
    BY <1>13, <2>1 DEF Move, SameCaller
  <2>3. CanAdmit(e)' => CanAdmit(e)
    BY <1>3, <2>2, Incremented
  <2>4. Room(e)' => Room(e)
    BY <1>10, <2>3 DEF Room
  <2> QED
    BY <2>1, <2>2, <2>4
<1>15. ASSUME NEW b \in Callers \ {x}, Eligible(b, caller[x].demand) PROVE Room(caller[b].demand)'
  <2>1. Leading(b) /\ InLine(b) /\ ~IsPriority(b) /\ Room(caller[b].demand)
    BY <1>15 DEF Eligible, Leading
  <2>2. b # c /\ Listening(caller[b])
    BY <2>1 DEF QueueSound, Ticket, Listening
  <2>3. PICK e : e = caller[b].demand
    OBVIOUS
  <2>4. caller'[b].demand = e /\ e \in Demand
    BY <1>13, <2>2, <2>3 DEF Move, SameCaller
  <2>5. e.slots \cap d.slots = {}
    BY <1>4, <2>1, <2>3 DEF Eligible, Overlap
  <2>6. CanAdmit(e)' /\ CircuitAvailable(e)'
    BY <1>3, <1>11, <2>1, <2>3, <2>4, <2>5, Incremented DEF Room
  <2>7. Room(e)'
    BY <2>6 DEF Room
  <2> QED
    BY <2>4, <2>7
<1> QED
  BY <1>12, <1>14, <1>15, SettledWithout

LEMMA SameLine ==
  ASSUME UNCHANGED queue, \A x \in Callers : caller'[x].demand = caller[x].demand
  PROVE  /\ \A x \in Callers : Leading(x)' <=> Leading(x)
         /\ \A d : LaneFree(d)' <=> LaneFree(d)
         /\ \A a, b \in Callers : Before(a, b)' <=> Before(a, b)
         /\ \A x \in Callers : \A d : Overlap(x, d)' <=> Overlap(x, d)
         /\ \A x \in Callers : IsPriority(x)' <=> IsPriority(x)
<1>1. \A a, b \in Callers : Before(a, b)' <=> Before(a, b)
  BY DEF Before
<1>2. \A a \in Callers : InLine(a)' <=> InLine(a)
  BY DEF InLine
<1> QED
  BY <1>1, <1>2 DEF Leading, LaneFree, Overlap, IsPriority

\* a caller that looks again, or goes on to queue, is in nobody's way more or less
LEMMA QuietCheck ==
  ASSUME AdmissionTypeOK, QueueSound, AdmissionTypeOK', QueueSound', NEW c \in Callers, NEW to,
         Move(c, to), caller'[c].demand = caller[c].demand, Ticket(c) <=> to = "asleep",
         UNCHANGED <<queue, active, circuit, config>>, NEW x \in Callers, ~IsPriority(x), Settled(x)
  PROVE  Settled(x)'
<1>1. \A y \in Callers : caller'[y].demand = caller[y].demand
  BY DEF Move, SameCaller
<1>2. Alike(x)
  BY DEF Move, SameCaller, Alike, Ticket
<1>3. PICK d : d = caller[x].demand
  OBVIOUS
<1>4. Room(d)' <=> Room(d)
  BY RoomSame
<1>5. ASSUME NEW b \in Callers, Eligible(b, d) PROVE Eligible(b, d)'
  <2>1. PICK e : e = caller[b].demand
    OBVIOUS
  <2>2. Room(e)' <=> Room(e)
    BY RoomSame
  <2>3. caller'[b].demand = e
    BY <1>1, <2>1
  <2>4. Room(caller[b].demand)'
    BY <1>5, <2>1, <2>2, <2>3 DEF Eligible
  <2> QED
    BY <1>1, <1>5, <2>4, SameLine DEF Eligible
<1>6. \A s \in Guarded : Cooling(s)' => Cooling(s)
  BY DEF Cooling
<1>7. (Leading(x)' => Leading(x)) /\ (LaneFree(d)' => LaneFree(d))
  BY <1>1, SameLine
<1>8. \A b \in Callers \ {x} : Eligible(b, d) => Eligible(b, d)' /\ (Before(b, x) => Before(b, x)')
  BY <1>1, <1>5, SameLine
<1> QED
  BY <1>2, <1>3, <1>4, <1>6, <1>7, <1>8, StaysSettledAlike

LEMMA QuietEntry ==
  ASSUME AdmissionTypeOK, CallersSound, QueueSound, AdmissionTypeOK', QueueSound', NEW c \in Callers,
         Move(c, "asleep"), caller[c].pc = "unqueued", caller'[c].demand = caller[c].demand,
         queue' = Append(queue, c), UNCHANGED <<active, circuit, config>>
  PROVE  /\ OthersSettled(c)
         /\ (~IsPriority(c) /\ Settled(c)) => Settled(c)'
<1>1. ~Ticket(c) /\ ~InLine(c)
  BY DEF Ticket, QueueSound
<1>2. /\ \A b \in Callers : InLine(b)' <=> InLine(b) \/ b = c
      /\ \A a, b \in Callers : Before(a, b)' <=> Before(a, b) \/ (b = c /\ InLine(a))
  BY <1>1, LineEntered
<1>3. \A y \in Callers : caller'[y].demand = caller[y].demand
  BY DEF Move, SameCaller
<1>4. \A y \in Callers \ {c} : Leading(y)' <=> Leading(y)
  BY <1>2, <1>3 DEF Leading
<1>5. \A d : LaneFree(d)' => LaneFree(d)
  BY <1>2, <1>3 DEF LaneFree
<1>6. ASSUME NEW b \in Callers, NEW d, Eligible(b, d) PROVE Eligible(b, d)' /\ InLine(b) /\ b # c
  <2>1. InLine(b) /\ b # c /\ Leading(b)'
    BY <1>1, <1>4, <1>6 DEF Eligible, Leading
  <2>2. PICK e : e = caller[b].demand
    OBVIOUS
  <2>3. Room(e)' <=> Room(e)
    BY RoomSame
  <2>4. caller'[b].demand = e
    BY <1>3, <2>2
  <2>5. Room(caller[b].demand)'
    BY <1>6, <2>2, <2>3, <2>4 DEF Eligible
  <2> QED
    BY <1>3, <1>6, <2>1, <2>5 DEF Eligible, Overlap, IsPriority
<1>7. \A s \in Guarded : Cooling(s)' <=> Cooling(s)
  BY DEF Cooling
<1>8. ASSUME NEW x \in Callers \ {c}, Listening(caller[x]), ~IsPriority(x), Settled(x)
      PROVE  Settled(x)'
  <2>1. PICK d : d = caller[x].demand
    OBVIOUS
  <2>2. SameCaller(caller'[x], caller[x])
    BY DEF Move
  <2>3. Room(d)' <=> Room(d)
    BY RoomSame
  <2>4. \A b \in Callers \ {x} : Eligible(b, d) => Eligible(b, d)' /\ (Before(b, x) => Before(b, x)')
    BY <1>2, <1>6
  <2>5. (Leading(x)' => Leading(x)) /\ (LaneFree(d)' => LaneFree(d))
    BY <1>4, <1>5
  <2> QED
    BY <1>7, <1>8, <2>1, <2>2, <2>3, <2>4, <2>5, StaysSettled
<1>9. ASSUME ~IsPriority(c), Settled(c) PROVE Settled(c)'
  <2>1. PICK d : d = caller[c].demand
    OBVIOUS
  <2>2. caller'[c].demand = d /\ Ticket(c)' /\ ~IsPriority(c)'
    BY <1>9, <2>1 DEF Move, Ticket, IsPriority
  <2>3. Leading(c)' => LaneFree(d)
    BY <1>2, <1>3, <2>1, LineFacts DEF Leading, LaneFree
  <2>4. InTurn(c)' => Leading(c)'
    <3>1. TurnsRestated'
      BY TurnRestated, PTL
    <3> QED
      BY <2>2, <3>1 DEF TurnsRestated
  <2>5. LaneFree(d) => InTurn(c)
    BY <1>1, <2>1, TurnRestated DEF TurnsRestated
  <2>6. ASSUME Entitled(c)' PROVE Entitled(c)
    <3>1. /\ Room(d)' /\ Leading(c)'
          /\ \A b \in Callers : Eligible(b, d)' => ~Before(b, c)'
      BY <2>2, <2>6 DEF Entitled
    <3>2. Room(d)
      BY <3>1, RoomSame
    <3>3. \A b \in Callers : ~Eligible(b, d)
      BY <1>2, <1>6, <3>1
    <3> QED
      BY <1>1, <2>1, <2>3, <3>1, <3>2, <3>3 DEF Entitled
  <2>7. CompositeAdmissible(c)' => Entitled(c)'
    <3>1. AdmissionRestated'
      BY EntitledAdmissible, PTL
    <3> QED
      BY <2>2, <3>1 DEF AdmissionRestated
  <2>8. ~CompositeAdmissible(c)'
    BY <1>9, <2>6, <2>7, EntitledAdmissible DEF Settled, AdmissionRestated
  <2>9. GuardedSlots(caller[c].demand)' = GuardedSlots(d) /\ GuardedSlots(d) \subseteq Guarded
    BY <2>2 DEF GuardedSlots
  <2>10. InTurn(c)' => \A s \in GuardedSlots(d) : ~Cooling(s)'
    BY <1>7, <1>9, <2>1, <2>3, <2>4, <2>5, <2>9 DEF Settled
  <2> QED
    BY <2>8, <2>9, <2>10 DEF Settled
<1> QED
  BY <1>8, <1>9 DEF OthersSettled

\* a waiter whose turn it is does not wait for a circuit to cool down
LEMMA QuietTimeout ==
  ASSUME AdmissionTypeOK, QueueSound, AdmissionTypeOK', QueueSound', NEW s \in Guarded, OpenTimeout(s),
         NEW x \in Callers, ~IsPriority(x), Settled(x)
  PROVE  Settled(x)'
<1>1. /\ UNCHANGED <<active, queue, caller, config>>
      /\ Cooling(s) /\ circuit' = [circuit EXCEPT ![s].due = TRUE]
  BY DEF OpenTimeout, Cooling
<1>2. /\ circuit'[s].state = circuit[s].state /\ circuit'[s].due
      /\ \A t \in Guarded \ {s} : circuit'[t] = circuit[t]
  BY <1>1 DEF AdmissionTypeOK, Circuit
<1>3. ~Available(s) /\ Available(s)'
  BY <1>1, <1>2 DEF Cooling, Available
<1>4. \A t \in Guarded : /\ Available(t) => Available(t)'
                         /\ t # s => (Available(t)' <=> Available(t))
                         /\ Cooling(t)' => Cooling(t)
  BY <1>2, <1>3 DEF Available, Cooling
<1>5. PICK d : d = caller[x].demand
  OBVIOUS
<1>6. ASSUME NEW e
      PROVE  /\ GuardedSlots(e)' = GuardedSlots(e) /\ GuardedSlots(e) \subseteq Guarded
             /\ CanAdmit(e)' <=> CanAdmit(e)
             /\ CircuitAvailable(e) => CircuitAvailable(e)'
             /\ s \notin GuardedSlots(e) => (CircuitAvailable(e)' => CircuitAvailable(e))
  <2>1. GuardedSlots(e)' = GuardedSlots(e) /\ GuardedSlots(e) \subseteq Guarded
    BY <1>1 DEF GuardedSlots
  <2>2. CanAdmit(e)' <=> CanAdmit(e)
    BY <1>1 DEF CanAdmit
  <2> QED
    BY <1>4, <2>1, <2>2 DEF CircuitAvailable
<1>7. (InTurn(x) /\ Room(d)') => Room(d)
  <2>1. InTurn(x) => s \notin GuardedSlots(d)
    BY <1>1, <1>5 DEF Settled
  <2> QED
    BY <1>6, <2>1 DEF Room
<1>8. \A y \in Callers : caller'[y].demand = caller[y].demand
  BY <1>1
<1>9. ASSUME NEW b \in Callers, Eligible(b, d) PROVE Eligible(b, d)'
  <2>1. PICK e : e = caller[b].demand
    OBVIOUS
  <2>2. Room(e) => Room(e)'
    BY <1>6 DEF Room
  <2>3. caller'[b].demand = e
    BY <1>1, <2>1
  <2>4. Room(caller[b].demand)'
    BY <1>9, <2>1, <2>2, <2>3 DEF Eligible
  <2> QED
    BY <1>1, <1>8, <1>9, <2>4, SameLine DEF Eligible
<1>10. /\ (Leading(x)' => Leading(x)) /\ (LaneFree(d)' => LaneFree(d))
       /\ \A b \in Callers : Before(b, x) => Before(b, x)'
  BY <1>1, <1>8, SameLine
<1>11. SameCaller(caller'[x], caller[x]) /\ UNCHANGED config
  BY <1>1 DEF SameCaller
<1>12. \A b \in Callers \ {x} : Eligible(b, d) => Eligible(b, d)' /\ (Before(b, x) => Before(b, x)')
  BY <1>9, <1>10
<1> QED
  BY <1>4, <1>5, <1>7, <1>10, <1>11, <1>12, StaysSettled

--------------------------------------------------------------------------------
(* The invariant is inductive: first all of it but the waiters, by the shape of
   the step, then the waiters, action by action.                              *)

AdmissionCore ==
  /\ AdmissionTypeOK /\ CallersSound /\ QueueSound /\ CircuitsSound
  /\ ActiveExact /\ ProbesHeld

LEMMA WaitersKept ==
  ASSUME WaitersSound, NEW c \in Callers, NEW to, Move(c, to), Silent(c),
         UNCHANGED <<enabled, installing>>, enabled => OthersSettled(c),
         (Unwoken(c)' /\ ~enabled) => Unwoken(c),
         (Unwoken(c)' /\ enabled /\ ~IsPriority(c)') => Settled(c)'
  PROVE  WaitersSound'
<1>1. ASSUME NEW x \in Callers \ {c}
      PROVE  (Unwoken(x)' <=> Unwoken(x)) /\ (IsPriority(x)' <=> IsPriority(x))
  BY DEF Move, SameCaller, Silent, Unwoken, Listening, IsPriority
<1>2. ASSUME enabled, NEW x \in Callers, Unwoken(x)', ~IsPriority(x)' PROVE Settled(x)'
  <2>1. CASE x = c
    BY <1>2, <2>1
  <2>2. CASE x # c
    <3>1. Unwoken(x) /\ ~IsPriority(x)
      BY <1>1, <1>2, <2>2
    <3>2. Settled(x) /\ Listening(caller[x])
      BY <1>2, <3>1 DEF WaitersSound, Unwoken
    <3> QED
      BY <1>2, <2>2, <3>1, <3>2 DEF OthersSettled
  <2> QED
    BY <2>1, <2>2
<1>3. ASSUME ~enabled, installing = Void, NEW x \in Callers PROVE ~Unwoken(x)'
  BY <1>1, <1>3 DEF WaitersSound
<1> QED
  BY <1>2, <1>3 DEF WaitersSound

LEMMA WaitersWoken == ASSUME Waking PROVE WaitersSound'
BY DEF Waking, WaitersSound

LEMMA PassingStep ==
  ASSUME AdmissionCore, NEW c \in Callers, NEW to, Move(c, to), caller[c].pc # "held", to # "held",
         caller'[c].probes = {}, UNCHANGED <<active, shares, circuit, enabled, config, installing>>,
         queued' \in [Slots -> Nat], QueuedExact', queue' \in Seq(Callers), QueueSound'
  PROVE  AdmissionCore'
<1>1. caller[c].probes = {}
  BY DEF AdmissionCore, CallersSound, CallerOk
<1>2. CircuitsTyped' /\ CircuitsSound' /\ ProbesHeld'
  BY <1>1, CircuitsKept DEF AdmissionCore
<1>3. HeldExact'
  BY HeldKept, ExactParts DEF AdmissionCore
<1>4. ActiveExact'
  BY <1>3 DEF ActiveExact, HeldExact, QueuedExact
<1>5. AdmissionTypeOK'
  BY <1>2 DEF AdmissionCore, AdmissionTypeOK, CircuitsTyped, Move
<1> QED
  BY <1>2, <1>4, <1>5 DEF AdmissionCore, Move

LEMMA LeavingStep ==
  ASSUME AdmissionCore, NEW c \in Callers, NEW to, Move(c, to), caller[c].pc # "held",
         to \notin {"asleep", "held"}, caller'[c].probes = {}, RemoveWaiter(c),
         UNCHANGED <<active, shares, circuit, enabled, config, installing>>
  PROVE  AdmissionCore' /\ LineWithout(c)
<1>1. LineWithout(c)
  BY RemovedFromLine DEF AdmissionCore
<1>2. queued' \in [Slots -> Nat] /\ QueuedExact'
  BY QueueLeft, ExactParts DEF AdmissionCore
<1>3. QueueSound' /\ queue' \in Seq(Callers)
  BY <1>1, QueueSoundWithout DEF AdmissionCore, LineWithout
<1> QED
  BY <1>1, <1>2, <1>3, PassingStep

LEMMA StayingStep ==
  ASSUME AdmissionCore, NEW c \in Callers, NEW to, Move(c, to), caller[c].pc # "held", to # "held",
         caller'[c].probes = {}, Ticket(c) <=> to = "asleep",
         to = "asleep" => caller'[c].demand = caller[c].demand,
         UNCHANGED <<active, queued, shares, queue, circuit, enabled, config, installing>>
  PROVE  AdmissionCore'
<1>1. QueuedExact'
  BY QueueKept, ExactParts DEF AdmissionCore, Ticket
<1>2. QueueSound'
  BY QueueSoundSame DEF AdmissionCore
<1>3. queued' \in [Slots -> Nat] /\ queue' \in Seq(Callers)
  BY DEF AdmissionCore, AdmissionTypeOK
<1> QED
  BY <1>1, <1>2, <1>3, PassingStep

LEMMA NotListening ==
  ASSUME NEW c \in Callers, NEW to, Move(c, to), to \notin {"unqueued", "asleep"}
  PROVE  ~Unwoken(c)'
BY DEF Move, Unwoken, Listening

LEMMA ArriveKeeps ==
  ASSUME AdmissionInv, NEW c \in Callers, Arrive(c) PROVE AdmissionInv'
<1>1. AdmissionCore /\ WaitersSound /\ AdmissionTypeOK /\ CallersSound /\ QueueSound
  BY DEF AdmissionInv, AdmissionCore
<1>2. PICK d : DemandOk(d) /\ Becomes(c, Arrived(d), FALSE)
  BY CompositeOk, PrioritisedOk DEF Arrive
<1>4. Move(c, "arrived") /\ Silent(c) /\ caller'[c].probes = {}
  BY <1>1, <1>2, Arriving
<1>5. /\ caller[c].pc = "out" /\ ~Ticket(c)
      /\ UNCHANGED <<active, queued, shares, queue, circuit, enabled, config, installing>>
  BY DEF Arrive, Ticket
<1>6. AdmissionCore'
  BY <1>1, <1>4, <1>5, StayingStep
<1>7. LineWithout(c)
  BY <1>1, <1>5, NeverInLine
<1>8. OthersSettled(c)
  BY <1>1, <1>4, <1>5, <1>6, <1>7, QuietLeave DEF AdmissionCore
<1>9. WaitersSound'
  BY <1>1, <1>4, <1>5, <1>8, NotListening, WaitersKept
<1> QED
  BY <1>6, <1>9 DEF AdmissionInv, AdmissionCore

LEMMA CheckDisabledKeeps ==
  ASSUME AdmissionInv, NEW c \in Callers, CheckDisabled(c) PROVE AdmissionInv'
<1>1. AdmissionCore /\ WaitersSound /\ AdmissionTypeOK /\ CallersSound /\ QueueSound
  BY DEF AdmissionInv, AdmissionCore
<1>2. /\ caller[c].pc # "held" /\ ~enabled /\ RemoveWaiter(c)
      /\ Becomes(c, [Outside EXCEPT !.pc = "bypass"], FALSE)
      /\ UNCHANGED <<active, shares, circuit, enabled, config, installing>>
  BY DEF CheckDisabled, Checking
<1>3. Move(c, "bypass") /\ Silent(c) /\ caller'[c].probes = {}
  BY <1>1, <1>2, Bypassing
<1>4. AdmissionCore'
  BY <1>1, <1>2, <1>3, LeavingStep
<1>5. WaitersSound'
  BY <1>1, <1>2, <1>3, NotListening, WaitersKept
<1> QED
  BY <1>4, <1>5 DEF AdmissionInv, AdmissionCore

LEMMA CheckCircuitOpenKeeps ==
  ASSUME AdmissionInv, NEW c \in Callers, CheckCircuitOpen(c) PROVE AdmissionInv'
<1>1. AdmissionCore /\ WaitersSound /\ AdmissionTypeOK /\ CallersSound /\ QueueSound
  BY DEF AdmissionInv, AdmissionCore
<1>2. PICK wake \in BOOLEAN : wake <=> Ticket(c)
  OBVIOUS
<1>3. /\ caller[c].pc # "held" /\ RemoveWaiter(c)
      /\ Becomes(c, Outside, wake)
      /\ UNCHANGED <<active, shares, circuit, enabled, config, installing>>
  BY <1>2 DEF CheckCircuitOpen, Checking, Becomes
<1>4. Move(c, "out") /\ (~wake => Silent(c)) /\ (wake => Waking) /\ caller'[c].probes = {}
  BY <1>1, <1>3, Leaving
<1>5. AdmissionCore' /\ LineWithout(c)
  BY <1>1, <1>3, <1>4, LeavingStep
<1>6. CASE wake
  BY <1>4, <1>5, <1>6, WaitersWoken DEF AdmissionInv, AdmissionCore
<1>7. CASE ~wake
  <2>1. OthersSettled(c)
    BY <1>1, <1>2, <1>3, <1>4, <1>5, <1>7, QuietLeave DEF AdmissionCore
  <2>2. WaitersSound'
    BY <1>1, <1>3, <1>4, <1>7, <2>1, NotListening, WaitersKept
  <2> QED
    BY <1>5, <2>2 DEF AdmissionInv, AdmissionCore
<1> QED
  BY <1>6, <1>7

LEMMA FallbackStep ==
  ASSUME AdmissionInv, NEW c \in Callers, FallbackEffect(c), caller[c].pc # "held", IsPriority(c)
  PROVE  AdmissionInv'
<1>1. AdmissionCore /\ WaitersSound /\ AdmissionTypeOK /\ CallersSound /\ QueueSound
  BY DEF AdmissionInv, AdmissionCore
<1>2. PICK d : d = Composite({GlobalSlot})
  OBVIOUS
<1>3. /\ DemandOk(d) /\ RemoveWaiter(c) /\ Becomes(c, Arrived(d), FALSE)
      /\ UNCHANGED <<active, shares, circuit, enabled, config, installing>>
  BY <1>2, CompositeOk DEF FallbackEffect
<1>4. Move(c, "arrived") /\ Silent(c) /\ caller'[c].probes = {}
  BY <1>1, <1>3, Arriving
<1>5. AdmissionCore' /\ LineWithout(c)
  BY <1>1, <1>3, <1>4, LeavingStep
<1>6. OthersSettled(c)
  BY <1>1, <1>3, <1>4, <1>5, QuietLeave DEF AdmissionCore
<1>7. WaitersSound'
  BY <1>1, <1>3, <1>4, <1>6, NotListening, WaitersKept
<1> QED
  BY <1>5, <1>7 DEF AdmissionInv, AdmissionCore

LEMMA RejectFullKeeps ==
  ASSUME AdmissionInv, NEW c \in Callers, RejectFull(c) PROVE AdmissionInv'
<1>1. AdmissionCore /\ WaitersSound /\ AdmissionTypeOK /\ CallersSound /\ QueueSound
  BY DEF AdmissionInv, AdmissionCore
<1>2. /\ caller[c].pc = "unqueued" /\ ~Ticket(c) /\ Becomes(c, Outside, FALSE)
      /\ UNCHANGED <<active, queued, shares, queue, circuit, enabled, config, installing>>
  BY DEF RejectFull, Queueing, Ticket
<1>3. Move(c, "out") /\ Silent(c) /\ caller'[c].probes = {}
  BY <1>1, <1>2, Leaving
<1>4. AdmissionCore'
  BY <1>1, <1>2, <1>3, StayingStep
<1>5. LineWithout(c)
  BY <1>1, <1>2, NeverInLine
<1>6. OthersSettled(c)
  BY <1>1, <1>2, <1>3, <1>4, <1>5, QuietLeave DEF AdmissionCore
<1>7. WaitersSound'
  BY <1>1, <1>2, <1>3, <1>6, NotListening, WaitersKept
<1> QED
  BY <1>4, <1>7 DEF AdmissionInv, AdmissionCore

LEMMA ReleaseDisabledKeeps ==
  ASSUME AdmissionInv, NEW c \in Callers, ReleaseDisabled(c) PROVE AdmissionInv'
<1>1. AdmissionCore /\ WaitersSound /\ AdmissionTypeOK /\ CallersSound /\ QueueSound
  BY DEF AdmissionInv, AdmissionCore
<1>2. /\ caller[c].pc = "bypass" /\ ~Ticket(c) /\ Becomes(c, Outside, FALSE)
      /\ UNCHANGED <<active, queued, shares, queue, circuit, enabled, config, installing>>
  BY DEF ReleaseDisabled, Ticket
<1>3. Move(c, "out") /\ Silent(c) /\ caller'[c].probes = {}
  BY <1>1, <1>2, Leaving
<1>4. AdmissionCore'
  BY <1>1, <1>2, <1>3, StayingStep
<1>5. LineWithout(c)
  BY <1>1, <1>2, NeverInLine
<1>6. OthersSettled(c)
  BY <1>1, <1>2, <1>3, <1>4, <1>5, QuietLeave DEF AdmissionCore
<1>7. WaitersSound'
  BY <1>1, <1>2, <1>3, <1>6, NotListening, WaitersKept
<1> QED
  BY <1>4, <1>7 DEF AdmissionInv, AdmissionCore

LEMMA LeaveQueueKeeps ==
  ASSUME AdmissionInv, NEW c \in Callers, LeaveQueue(c) PROVE AdmissionInv'
<1>1. AdmissionCore /\ AdmissionTypeOK /\ CallersSound
  BY DEF AdmissionInv, AdmissionCore
<1>2. /\ caller[c].pc # "held" /\ RemoveWaiter(c) /\ Becomes(c, Outside, TRUE)
      /\ UNCHANGED <<active, shares, circuit, enabled, config, installing>>
  BY DEF LeaveQueue, Ticket
<1>3. Move(c, "out") /\ Waking /\ caller'[c].probes = {}
  BY <1>1, <1>2, Leaving
<1>4. AdmissionCore'
  BY <1>1, <1>2, <1>3, LeavingStep
<1> QED
  BY <1>3, <1>4, WaitersWoken DEF AdmissionInv, AdmissionCore

LEMMA CheckWaitKeeps ==
  ASSUME AdmissionInv, NEW c \in Callers, CheckWait(c) PROVE AdmissionInv'
<1>1. AdmissionCore /\ WaitersSound /\ AdmissionTypeOK /\ CallersSound /\ QueueSound
  BY DEF AdmissionInv, AdmissionCore
<1>2. PICK p \in {"unqueued", "asleep"} : p = IF Ticket(c) THEN "asleep" ELSE "unqueued"
  OBVIOUS
<1>3. /\ caller[c].pc \in {"arrived", "unqueued", "asleep"} /\ enabled /\ MustWait(c)
      /\ Becomes(c, [caller[c] EXCEPT !.pc = p, !.woken = FALSE], FALSE)
      /\ UNCHANGED <<active, queued, shares, queue, circuit, enabled, config, installing>>
  BY <1>2 DEF CheckWait, Checking
<1>4. /\ Move(c, p) /\ Silent(c)
      /\ caller'[c].demand = caller[c].demand /\ caller'[c].probes = {}
  BY <1>1, <1>3, Waiting
<1>5. Ticket(c) <=> p = "asleep"
  BY <1>2
<1>6. AdmissionCore'
  BY <1>1, <1>3, <1>4, <1>5, StayingStep
<1>a. ASSUME NEW x \in Callers, ~IsPriority(x), Settled(x) PROVE Settled(x)'
  BY <1>1, <1>3, <1>4, <1>5, <1>6, <1>a, QuietCheck DEF AdmissionCore
<1>7. OthersSettled(c)
  BY <1>a DEF OthersSettled
<1>8. ASSUME ~IsPriority(c)' PROVE Settled(c)'
  <2>1. ~IsPriority(c)
    BY <1>4, <1>8 DEF IsPriority
  <2>2. ~CompositeAdmissible(c) /\ (InTurn(c) => CircuitAvailable(caller[c].demand))
    BY <1>3, <2>1 DEF MustWait
  <2>3. \A s : Available(s) => ~Cooling(s)
    BY DEF Available, Cooling
  <2>4. Settled(c)
    BY <2>2, <2>3 DEF Settled, CircuitAvailable
  <2> QED
    BY <1>a, <2>1, <2>4
<1>9. WaitersSound'
  BY <1>1, <1>3, <1>4, <1>7, <1>8, WaitersKept
<1> QED
  BY <1>6, <1>9 DEF AdmissionInv, AdmissionCore

LEMMA EnqueueKeeps ==
  ASSUME AdmissionInv, NEW c \in Callers, Enqueue(c) PROVE AdmissionInv'
<1>1. AdmissionCore /\ WaitersSound /\ AdmissionTypeOK /\ CallersSound /\ QueueSound
  BY DEF AdmissionInv, AdmissionCore
<1>2. PICK t \in CallerState : t = caller[c]
  BY DEF AdmissionInv, AdmissionTypeOK
<1>3. PICK w \in BOOLEAN : w = t.woken
  BY DEF CallerState
<1>4. [t EXCEPT !.pc = "asleep"] = [t EXCEPT !.pc = "asleep", !.woken = w]
  BY <1>3 DEF CallerState
<1>5. /\ caller[c].pc = "unqueued" /\ ~Ticket(c)
      /\ queue' = Append(queue, c)
      /\ queued' = [s \in Slots |-> IF s \in caller[c].demand.slots THEN queued[s] + 1 ELSE queued[s]]
      /\ Becomes(c, [caller[c] EXCEPT !.pc = "asleep", !.woken = w], FALSE)
      /\ UNCHANGED <<active, shares, circuit, enabled, config, installing>>
  BY <1>2, <1>4 DEF Enqueue, Queueing, Ticket
<1>6. /\ Move(c, "asleep") /\ Silent(c)
      /\ caller'[c].demand = caller[c].demand /\ caller'[c].probes = {}
      /\ caller'[c].woken = w
  BY <1>1, <1>5, Waiting
<1>7. queued' \in [Slots -> Nat] /\ QueuedExact'
  BY <1>1, <1>5, <1>6, QueueEntered, ExactParts DEF AdmissionCore
<1>8. queue' \in Seq(Callers) /\ QueueSound'
  BY <1>1, <1>5, <1>6, QueueSoundWith
<1>9. AdmissionCore'
  BY <1>1, <1>5, <1>6, <1>7, <1>8, PassingStep
<1>10. OthersSettled(c) /\ ((~IsPriority(c) /\ Settled(c)) => Settled(c)')
  BY <1>1, <1>5, <1>6, <1>9, QuietEntry DEF AdmissionCore
<1>11. (Unwoken(c)' => Unwoken(c)) /\ (IsPriority(c)' <=> IsPriority(c))
  BY <1>2, <1>3, <1>5, <1>6 DEF Unwoken, Listening, IsPriority
<1>12. WaitersSound'
  BY <1>1, <1>5, <1>6, <1>10, <1>11, WaitersKept DEF WaitersSound
<1> QED
  BY <1>9, <1>12 DEF AdmissionInv, AdmissionCore

LEMMA HoldingStep ==
  ASSUME AdmissionCore, NEW c \in Callers, NEW to, Move(c, to),
         active' \in [Slots -> Nat], \A s \in Slots : active'[s] = Cardinality(Using("held", s)'),
         shares' \in [Classes -> [reserved : Nat, shared : Nat]],
         \A j \in Classes : /\ shares'[j].reserved = Cardinality(Leases(j, "reserved")')
                            /\ shares'[j].shared = Cardinality(Leases(j, "shared")'),
         CircuitsTyped', CircuitsSound', ProbesHeld', UNCHANGED <<enabled, config, installing>>,
         queued' \in [Slots -> Nat], QueuedExact', queue' \in Seq(Callers), QueueSound'
  PROVE  AdmissionCore'
<1>1. HeldExact'
  BY DEF HeldExact
<1>2. ActiveExact'
  BY <1>1 DEF ActiveExact, HeldExact, QueuedExact
<1>3. AdmissionTypeOK'
  BY DEF AdmissionCore, AdmissionTypeOK, CircuitsTyped, Move
<1> QED
  BY <1>2, <1>3 DEF AdmissionCore, Move

LEMMA AdmitCompositeKeeps ==
  ASSUME AdmissionInv, NEW c \in Callers, AdmitComposite(c) PROVE AdmissionInv'
<1>1. /\ AdmissionCore /\ WaitersSound /\ AdmissionTypeOK /\ CallersSound /\ QueueSound
      /\ CircuitsSound /\ ProbesHeld /\ HeldExact /\ QueuedExact
  BY ExactParts DEF AdmissionInv, AdmissionCore
<1>2. PICK wake \in BOOLEAN : wake <=> Ticket(c)
  OBVIOUS
<1>3. PICK d : d = caller[c].demand
  OBVIOUS
<1>4. PICK g \in SUBSET Guarded : g = GuardedSlots(d)
  BY DEF GuardedSlots
<1>5. PICK P \in SUBSET Guarded : P = {s \in g : circuit[s].state # "closed"}
  OBVIOUS
<1>6. /\ caller[c].pc \in {"arrived", "asleep"} /\ ~IsPriority(c) /\ CompositeAdmissible(c)
      /\ RemoveWaiter(c) /\ IncrementActive(caller[c].demand)
      /\ UNCHANGED <<shares, enabled, config, installing>>
  BY DEF AdmitComposite, Checking
<1>7. circuit' = [s \in Guarded |-> IF s \in g THEN BeginProbe(circuit[s]) ELSE circuit[s]]
  BY <1>3, <1>4 DEF AdmitComposite
<1>8. Becomes(c, Leased(d, Void, P), wake)
  BY <1>2, <1>3, <1>4, <1>5 DEF AdmitComposite, Becomes
<1>9. DemandOk(d) /\ d.class = Void /\ caller[c].kind = Void /\ caller[c].probes = {}
  BY <1>1, <1>3, <1>6 DEF CallersSound, CallerOk, Engaged, IsPriority
<1>10. P \subseteq d.slots
  BY <1>4, <1>5 DEF GuardedSlots
<1>11. /\ Move(c, "held") /\ (~wake => Silent(c)) /\ (wake => Waking)
       /\ caller'[c].demand = d /\ caller'[c].kind = Void /\ caller'[c].probes = P
  BY <1>1, <1>8, <1>9, <1>10, Leasing
<1>12. LineWithout(c)
  BY <1>1, <1>6, RemovedFromLine
<1>13. QueueSound' /\ queue' \in Seq(Callers)
  BY <1>1, <1>11, <1>12, QueueSoundWithout DEF LineWithout
<1>14. queued' \in [Slots -> Nat] /\ QueuedExact'
  BY <1>1, <1>6, <1>11, QueueLeft
<1>15. /\ active' \in [Slots -> Nat]
       /\ \A s \in Slots : active'[s] = Cardinality(Using("held", s)')
  BY <1>1, <1>3, <1>6, <1>11, SlotsTaken
<1>16. \A j \in Classes, kd \in {"reserved", "shared"} : ~HasLease(c, j, kd) /\ ~HasLease(c, j, kd)'
  BY <1>9, <1>11, AdmissionAssumption DEF HasLease
<1>17. /\ shares' \in [Classes -> [reserved : Nat, shared : Nat]]
       /\ \A j \in Classes : /\ shares'[j].reserved = Cardinality(Leases(j, "reserved")')
                             /\ shares'[j].shared = Cardinality(Leases(j, "shared")')
  BY <1>1, <1>6, <1>11, <1>16, SharesKept
<1>18. (\A s \in g : Available(s)) /\ (~config.failure => g = {})
  BY <1>3, <1>4, <1>6 DEF CompositeAdmissible, CircuitAvailable, GuardedSlots
<1>19. CircuitsTyped' /\ CircuitsSound' /\ ProbesHeld'
  BY <1>1, <1>5, <1>6, <1>7, <1>9, <1>11, <1>18, ProbesTaken
<1>20. AdmissionCore'
  BY <1>1, <1>6, <1>11, <1>13, <1>14, <1>15, <1>17, <1>19, HoldingStep
<1>21. CASE wake
  BY <1>11, <1>20, <1>21, WaitersWoken DEF AdmissionInv, AdmissionCore
<1>22. CASE ~wake
  <2>1. circuit' = [s \in Guarded |-> IF s \in GuardedSlots(caller[c].demand)
                                      THEN BeginProbe(circuit[s]) ELSE circuit[s]]
    BY <1>3, <1>4, <1>7
  <2>2. OthersSettled(c)
    BY <1>1, <1>2, <1>6, <1>11, <1>12, <1>20, <1>22, <2>1, QuietComposite DEF AdmissionCore
  <2>3. WaitersSound'
    BY <1>1, <1>6, <1>11, <1>22, <2>2, NotListening, WaitersKept
  <2> QED
    BY <1>20, <2>3 DEF AdmissionInv, AdmissionCore
<1> QED
  BY <1>21, <1>22

LEMMA AdmitPriorityKeeps ==
  ASSUME AdmissionInv, NEW c \in Callers, AdmitPriority(c) PROVE AdmissionInv'
<1>1. /\ AdmissionCore /\ WaitersSound /\ AdmissionTypeOK /\ CallersSound /\ QueueSound
      /\ CircuitsSound /\ ProbesHeld /\ HeldExact /\ QueuedExact
  BY ExactParts DEF AdmissionInv, AdmissionCore
<1>2. PICK d : d = caller[c].demand
  OBVIOUS
<1>3. PICK kind \in {"reserved", "shared"} : kind = CallerKind(c)
  BY DEF AdmitPriority, PriorityAdmissible, CallerKind, LeaseKind
<1>4. /\ caller[c].pc \in {"arrived", "asleep"} /\ IsPriority(c)
      /\ RemoveWaiter(c) /\ IncrementActive(caller[c].demand)
      /\ UNCHANGED <<circuit, enabled, config, installing>>
  BY DEF AdmitPriority, Checking
<1>5. PICK k : k = d.class
  OBVIOUS
<1>6. /\ DemandOk(d) /\ k # Void /\ k \in Classes /\ caller[c].kind = Void /\ caller[c].probes = {}
      /\ caller[c].pc \in Engaged
  BY <1>1, <1>2, <1>4, <1>5 DEF CallersSound, CallerOk, Engaged, IsPriority, DemandOk, Demand
<1>7. shares' = IF kind = "reserved" THEN [shares EXCEPT ![k].reserved = @ + 1]
                ELSE [shares EXCEPT ![k].shared = @ + 1]
  BY <1>2, <1>3, <1>5 DEF AdmitPriority
<1>8. Becomes(c, Leased(d, kind, {}), FALSE)
  BY <1>2, <1>3 DEF AdmitPriority, Becomes
<1>9. /\ Move(c, "held") /\ Silent(c)
      /\ caller'[c].demand = d /\ caller'[c].kind = kind /\ caller'[c].probes = {}
  BY <1>1, <1>5, <1>6, <1>8, AdmissionAssumption, Leasing
<1>10. LineWithout(c)
  BY <1>1, <1>4, RemovedFromLine
<1>11. QueueSound' /\ queue' \in Seq(Callers)
  BY <1>1, <1>9, <1>10, QueueSoundWithout DEF LineWithout
<1>12. queued' \in [Slots -> Nat] /\ QueuedExact'
  BY <1>1, <1>4, <1>9, QueueLeft
<1>13. /\ active' \in [Slots -> Nat]
       /\ \A s \in Slots : active'[s] = Cardinality(Using("held", s)')
  BY <1>1, <1>2, <1>4, <1>9, SlotsTaken
<1>14. PICK delta \in {-1, 1} : delta = 1
  OBVIOUS
<1>15. LeaseMoves(c, k, kind, delta)
  BY <1>4, <1>5, <1>9, <1>14 DEF LeaseMoves, HasLease, Move
<1>16. SharesMove(k, kind, delta)
  BY <1>7, <1>14 DEF SharesMove
<1>17. /\ shares' \in [Classes -> [reserved : Nat, shared : Nat]]
       /\ \A j \in Classes : /\ shares'[j].reserved = Cardinality(Leases(j, "reserved")')
                             /\ shares'[j].shared = Cardinality(Leases(j, "shared")')
  BY <1>1, <1>6, <1>9, <1>15, <1>16, SharesFollow
<1>18. CircuitsTyped' /\ CircuitsSound' /\ ProbesHeld'
  BY <1>1, <1>4, <1>6, <1>9, CircuitsKept
<1>19. AdmissionCore'
  BY <1>1, <1>4, <1>9, <1>11, <1>12, <1>13, <1>17, <1>18, HoldingStep
<1>20. OthersSettled(c)
  BY <1>1, <1>4, <1>6, <1>9, <1>10, <1>19, QuietPriority DEF AdmissionCore
<1>21. WaitersSound'
  BY <1>1, <1>4, <1>9, <1>20, NotListening, WaitersKept
<1> QED
  BY <1>19, <1>21 DEF AdmissionInv, AdmissionCore

LEMMA ReleaseLeaseKeeps ==
  ASSUME AdmissionInv, NEW c \in Callers, NEW outcome, ReleaseLease(c, outcome) PROVE AdmissionInv'
<1>1. /\ AdmissionCore /\ WaitersSound /\ AdmissionTypeOK /\ CallersSound /\ QueueSound
      /\ CircuitsSound /\ ProbesHeld /\ HeldExact /\ QueuedExact
  BY ExactParts DEF AdmissionInv, AdmissionCore
<1>2. /\ caller[c].pc = "held" /\ ~Ticket(c) /\ Becomes(c, Outside, TRUE)
      /\ active' = [s \in Slots |-> IF s \in caller[c].demand.slots THEN Decremented(active[s]) ELSE active[s]]
      /\ UNCHANGED <<queued, queue, enabled, config, installing>>
  BY DEF ReleaseLease, Ticket
<1>3. Move(c, "out") /\ Waking /\ caller'[c].probes = {}
  BY <1>1, <1>2, Leaving
<1>4. PICK d : d = caller[c].demand
  OBVIOUS
<1>5. PICK kind \in {"reserved", "shared", Void} : kind = caller[c].kind
  BY <1>1 DEF AdmissionTypeOK, CallerState
<1>6. DemandOk(d) /\ ((kind = Void) <=> (d.class = Void))
  BY <1>1, <1>2, <1>4, <1>5 DEF CallersSound, CallerOk, Engaged
<1>7. /\ active' \in [Slots -> Nat]
      /\ \A s \in Slots : active'[s] = Cardinality(Using("held", s)')
  BY <1>1, <1>2, <1>3, SlotsGivenBack
<1>8. \A j \in Classes, kd \in {"reserved", "shared"} :
        ~HasLease(c, j, kd)' /\ (HasLease(c, j, kd) <=> j = d.class /\ kd = kind)
  BY <1>2, <1>3, <1>4, <1>5 DEF HasLease, Move
<1>9. /\ shares' \in [Classes -> [reserved : Nat, shared : Nat]]
      /\ \A j \in Classes : /\ shares'[j].reserved = Cardinality(Leases(j, "reserved")')
                            /\ shares'[j].shared = Cardinality(Leases(j, "shared")')
  <2>1. CASE kind = Void
    <3>1. UNCHANGED shares
      BY <1>5, <2>1, AdmissionAssumption DEF ReleaseLease
    <3>2. \A j \in Classes, kd \in {"reserved", "shared"} : ~HasLease(c, j, kd) /\ ~HasLease(c, j, kd)'
      BY <1>8, <2>1, AdmissionAssumption
    <3> QED
      BY <1>1, <1>3, <3>1, <3>2, SharesKept
  <2>2. CASE kind # Void
    <3>1. PICK k \in Classes : k = d.class
      BY <1>6, <2>2 DEF DemandOk, Demand
    <3>2. PICK delta \in {-1, 1} : delta = -1
      OBVIOUS
    <3>3. LeaseMoves(c, k, kind, delta)
      BY <1>8, <3>1, <3>2 DEF LeaseMoves
    <3>4. shares' = IF kind = "reserved" THEN [shares EXCEPT ![k].reserved = Decremented(@)]
                    ELSE [shares EXCEPT ![k].shared = Decremented(@)]
      BY <1>4, <1>5, <2>2, <3>1 DEF ReleaseLease
    <3>5. SharesMove(k, kind, delta)
      BY <3>2, <3>4 DEF SharesMove
    <3>6. kind \in {"reserved", "shared"}
      BY <2>2
    <3> QED
      BY <1>1, <1>3, <3>3, <3>5, <3>6, SharesFollow
  <2> QED
    BY <2>1, <2>2
<1>10. CircuitsTyped' /\ CircuitsSound' /\ ProbesHeld'
  BY <1>1, <1>3, ProbesGivenBack
<1>11. queued' \in [Slots -> Nat] /\ QueuedExact'
  BY <1>1, <1>2, <1>3, QueueKept DEF AdmissionTypeOK
<1>12. queue' \in Seq(Callers) /\ QueueSound'
  BY <1>1, <1>2, <1>3, QueueSoundSame DEF AdmissionTypeOK
<1>13. AdmissionCore'
  BY <1>1, <1>2, <1>3, <1>7, <1>9, <1>10, <1>11, <1>12, HoldingStep
<1> QED
  BY <1>3, <1>13, WaitersWoken DEF AdmissionInv, AdmissionCore

\* a step that moves no caller keeps what the callers are counted by
LEMMA NobodyMoves ==
  ASSUME AdmissionCore, caller' \in [Callers -> CallerState],
         \A x \in Callers : SameCaller(caller'[x], caller[x]),
         UNCHANGED <<active, queued, shares, queue>>
  PROVE  /\ CallersSound' /\ QueueSound' /\ ActiveExact'
         /\ \A s \in Guarded : Probers(s)' = Probers(s)
<1>1. CallersSound'
  BY DEF AdmissionCore, CallersSound, CallerOk, SameCaller
<1>2. \A x \in Callers : Ticket(x)' <=> Ticket(x)
  BY DEF Ticket, SameCaller
<1>3. \A x \in Callers : InLine(x)' <=> InLine(x)
  BY DEF InLine
<1>4. QueueSound'
  BY <1>2, <1>3 DEF AdmissionCore, QueueSound
<1>5. \A pc : \A s \in Slots : Using(pc, s)' = Using(pc, s)
  BY DEF Using, SameCaller
<1>6. \A k \in Classes : \A kind : Leases(k, kind)' = Leases(k, kind)
  BY DEF Leases, SameCaller
<1>7. ActiveExact'
  BY <1>5, <1>6 DEF AdmissionCore, ActiveExact
<1>8. \A s \in Guarded : Probers(s)' = Probers(s)
  BY DEF Probers, SameCaller
<1> QED
  BY <1>1, <1>4, <1>7, <1>8

LEMMA OpenTimeoutKeeps ==
  ASSUME AdmissionInv, NEW s \in Guarded, OpenTimeout(s) PROVE AdmissionInv'
<1>1. AdmissionCore /\ WaitersSound /\ AdmissionTypeOK /\ QueueSound /\ CircuitsSound /\ ProbesHeld
  BY DEF AdmissionInv, AdmissionCore
<1>2. /\ circuit[s].state = "open" /\ ~circuit[s].due
      /\ circuit' = [circuit EXCEPT ![s].due = TRUE]
      /\ UNCHANGED <<active, queued, shares, queue, caller, enabled, config, installing>>
  BY DEF OpenTimeout
<1>3. caller' \in [Callers -> CallerState] /\ \A x \in Callers : SameCaller(caller'[x], caller[x])
  BY <1>1, <1>2 DEF AdmissionTypeOK, SameCaller
<1>4. CallersSound' /\ QueueSound' /\ ActiveExact' /\ \A r \in Guarded : Probers(r)' = Probers(r)
  BY <1>1, <1>2, <1>3, NobodyMoves
<1>5. PICK k \in Circuit : k = circuit[s]
  BY <1>1 DEF AdmissionTypeOK
<1>6. PICK j : j = [k EXCEPT !.due = TRUE]
  OBVIOUS
<1>7. j \in Circuit /\ j.state = k.state /\ j.probes = k.probes
  BY <1>6 DEF Circuit
<1>8. circuit' = [circuit EXCEPT ![s] = j]
  BY <1>2, <1>5, <1>6
<1>9. /\ circuit' \in [Guarded -> Circuit]
      /\ \A r \in Guarded : circuit'[r].state = circuit[r].state /\ circuit'[r].probes = circuit[r].probes
  BY <1>1, <1>5, <1>7, <1>8 DEF AdmissionTypeOK
<1>10. AdmissionTypeOK'
  BY <1>1, <1>2, <1>9 DEF AdmissionTypeOK
<1>11. CircuitsSound'
  BY <1>1, <1>2, <1>9 DEF CircuitsSound
<1>12. ProbesHeld'
  BY <1>1, <1>4, <1>9 DEF ProbesHeld, Probers
<1>13. ASSUME NEW x \in Callers, ~IsPriority(x), Settled(x) PROVE Settled(x)'
  BY <1>1, <1>4, <1>10, <1>13, QuietTimeout
<1>14. \A x \in Callers : (Unwoken(x)' <=> Unwoken(x)) /\ (IsPriority(x)' <=> IsPriority(x))
  BY <1>2 DEF Unwoken, IsPriority
<1>15. WaitersSound'
  BY <1>1, <1>2, <1>13, <1>14 DEF WaitersSound
<1> QED
  BY <1>4, <1>10, <1>11, <1>12, <1>15 DEF AdmissionInv

LEMMA QuietFlag ==
  ASSUME AdmissionInv, UNCHANGED <<active, queued, shares, queue, caller, circuit, config>>,
         enabled' \in BOOLEAN, installing' \in Configs \cup {Void}
  PROVE  /\ AdmissionCore'
         /\ \A x \in Callers : /\ (~IsPriority(x) /\ Settled(x)) => Settled(x)'
                               /\ (Unwoken(x)' <=> Unwoken(x)) /\ (IsPriority(x)' <=> IsPriority(x))
<1>1. AdmissionCore /\ AdmissionTypeOK /\ QueueSound /\ CircuitsSound /\ ProbesHeld
  BY DEF AdmissionInv, AdmissionCore
<1>2. caller' \in [Callers -> CallerState] /\ \A x \in Callers : SameCaller(caller'[x], caller[x])
  BY <1>1 DEF AdmissionTypeOK, SameCaller
<1>3. CallersSound' /\ QueueSound' /\ ActiveExact' /\ \A r \in Guarded : Probers(r)' = Probers(r)
  BY <1>1, <1>2, NobodyMoves
<1>4. AdmissionTypeOK'
  BY <1>1 DEF AdmissionTypeOK
<1>5. CircuitsSound'
  BY <1>1 DEF CircuitsSound
<1>6. ProbesHeld'
  BY <1>1, <1>3 DEF ProbesHeld, Probers
<1>7. ASSUME NEW x \in Callers, ~IsPriority(x), Settled(x) PROVE Settled(x)'
  <2>1. PICK to : to = caller[x].pc
    OBVIOUS
  <2>2. Move(x, to) /\ (Ticket(x) <=> to = "asleep") /\ caller'[x].demand = caller[x].demand
    BY <1>2, <1>3, <2>1 DEF Move, Ticket
  <2> QED
    BY <1>1, <1>3, <1>4, <1>7, <2>2, QuietCheck
<1>8. \A x \in Callers : (Unwoken(x)' <=> Unwoken(x)) /\ (IsPriority(x)' <=> IsPriority(x))
  BY DEF Unwoken, IsPriority
<1> QED
  BY <1>3, <1>4, <1>5, <1>6, <1>7, <1>8 DEF AdmissionCore

LEMMA StoreFlagKeeps ==
  ASSUME AdmissionInv, StoreFlag PROVE AdmissionInv'
<1>1. /\ installing = Void /\ installing' \in Configs /\ enabled' = installing'.enabled
      /\ UNCHANGED <<active, queued, shares, queue, caller, circuit, config>>
  BY DEF StoreFlag
<1>2. installing' # Void /\ enabled' \in BOOLEAN
  BY <1>1, AdmissionAssumption DEF Configuration
<1>3. /\ AdmissionCore'
      /\ \A x \in Callers : /\ (~IsPriority(x) /\ Settled(x)) => Settled(x)'
                            /\ (Unwoken(x)' <=> Unwoken(x)) /\ (IsPriority(x)' <=> IsPriority(x))
  BY <1>1, <1>2, QuietFlag
<1>4. WaitersSound'
  BY <1>1, <1>2, <1>3 DEF AdmissionInv, WaitersSound
<1> QED
  BY <1>3, <1>4 DEF AdmissionInv, AdmissionCore

LEMMA StutterKeeps ==
  ASSUME AdmissionInv, UNCHANGED admissionVars PROVE AdmissionInv'
<1>1. /\ UNCHANGED <<active, queued, shares, queue, caller, circuit, config>>
      /\ enabled' = enabled /\ installing' = installing
  BY DEF admissionVars
<1>2. enabled' \in BOOLEAN /\ installing' \in Configs \cup {Void}
  BY <1>1 DEF AdmissionInv, AdmissionTypeOK
<1>3. /\ AdmissionCore'
      /\ \A x \in Callers : /\ (~IsPriority(x) /\ Settled(x)) => Settled(x)'
                            /\ (Unwoken(x)' <=> Unwoken(x)) /\ (IsPriority(x)' <=> IsPriority(x))
  BY <1>1, <1>2, QuietFlag
<1>4. WaitersSound'
  BY <1>1, <1>3 DEF AdmissionInv, WaitersSound
<1> QED
  BY <1>3, <1>4 DEF AdmissionInv, AdmissionCore

LEMMA ConfigureKeeps ==
  ASSUME AdmissionInv, Configure PROVE AdmissionInv'
<1>1. AdmissionCore /\ AdmissionTypeOK /\ CircuitsSound /\ ProbesHeld
  BY DEF AdmissionInv, AdmissionCore
<1>2. /\ installing # Void /\ config' = installing /\ installing' = Void
      /\ circuit' = IF installing.enabled /\ installing.failure THEN circuit
                    ELSE [s \in Guarded |-> Closed]
      /\ caller' = NotifyWaiters(caller)
      /\ UNCHANGED <<active, queued, shares, queue, enabled>>
  BY DEF Configure
<1>3. PICK f \in [Callers -> CallerState] : f = caller
  BY <1>1 DEF AdmissionTypeOK
<1>4. /\ caller' \in [Callers -> CallerState]
      /\ \A x \in Callers : /\ SameCaller(caller'[x], caller[x])
                            /\ Listening(caller'[x]) => caller'[x].woken
  BY <1>2, <1>3, Notifying
<1>5. CallersSound' /\ QueueSound' /\ ActiveExact' /\ \A r \in Guarded : Probers(r)' = Probers(r)
  BY <1>1, <1>2, <1>4, NobodyMoves
<1>6. CircuitsTyped' /\ CircuitsSound' /\ ProbesHeld'
  <2>1. CASE installing.enabled /\ installing.failure
    <3>1. circuit' = circuit /\ config'.failure
      BY <1>2, <2>1
    <3> QED
      BY <1>1, <1>5, <3>1 DEF AdmissionTypeOK, CircuitsTyped, CircuitsSound, ProbesHeld, Probers
  <2>2. CASE ~(installing.enabled /\ installing.failure)
    <3>1. circuit' = [s \in Guarded |-> Closed]
      BY <1>2, <2>2
    <3> QED
      BY <3>1, ClosedOk DEF CircuitOk, CircuitsTyped, CircuitsSound, ProbesHeld
  <2> QED
    BY <2>1, <2>2
<1>7. config' \in Configs /\ installing' \in Configs \cup {Void}
  BY <1>1, <1>2 DEF AdmissionTypeOK
<1>8. AdmissionTypeOK'
  BY <1>1, <1>2, <1>4, <1>6, <1>7 DEF AdmissionTypeOK, CircuitsTyped
<1>9. WaitersSound'
  BY <1>4 DEF WaitersSound, Unwoken
<1> QED
  BY <1>5, <1>6, <1>8, <1>9 DEF AdmissionInv

LEMMA AdmissionStarts == AdmissionInit => AdmissionInv
<1> SUFFICES ASSUME AdmissionInit PROVE AdmissionInv
  OBVIOUS
<1>1. Outside \in CallerState /\ CallerOk(Outside) /\ Outside.pc = "out" /\ Outside.probes = {}
  BY OutsideTyped DEF Outside
<1>2. \A c \in Callers : caller[c] = Outside
  BY DEF AdmissionInit
<1>3. queue = <<>> /\ queue \in Seq(Callers)
  BY DEF AdmissionInit
<1>4. CallersSound
  BY <1>1, <1>2 DEF CallersSound
<1>5. QueueSound
  BY <1>1, <1>2, <1>3 DEF QueueSound, Ticket, InLine
<1>6. \A s \in Guarded : circuit[s] = Closed
  BY DEF AdmissionInit
<1>7. CircuitsSound /\ ProbesHeld /\ CircuitsTyped
  BY <1>6, ClosedOk DEF CircuitOk, CircuitsSound, ProbesHeld, CircuitsTyped, AdmissionInit
<1>8. \A s \in Slots : Using("held", s) = {} /\ Using("asleep", s) = {}
  BY <1>1, <1>2 DEF Using
<1>9. \A k \in Classes : Leases(k, "reserved") = {} /\ Leases(k, "shared") = {}
  BY <1>1, <1>2 DEF Leases
<1>10. Cardinality({}) = 0
  BY FS_EmptySet
<1>11. ActiveExact
  BY <1>8, <1>9, <1>10 DEF ActiveExact, AdmissionInit
<1>12. \A c \in Callers : ~Unwoken(c)
  BY <1>1, <1>2 DEF Unwoken, Listening
<1>13. WaitersSound
  BY <1>12 DEF WaitersSound
<1>14. AdmissionTypeOK
  <2>1. caller \in [Callers -> CallerState]
    BY <1>1 DEF AdmissionInit
  <2>2. config \in Configs /\ enabled \in BOOLEAN /\ installing \in Configs \cup {Void}
    BY AdmissionAssumption DEF AdmissionInit, Configuration
  <2>3. /\ active \in [Slots -> Nat] /\ queued \in [Slots -> Nat]
        /\ shares \in [Classes -> [reserved : Nat, shared : Nat]]
    BY DEF AdmissionInit
  <2> QED
    BY <1>3, <1>7, <2>1, <2>2, <2>3 DEF AdmissionTypeOK, CircuitsTyped
<1> QED
  BY <1>4, <1>5, <1>7, <1>11, <1>13, <1>14 DEF AdmissionInv

LEMMA AdmissionSteps == AdmissionInv /\ [AdmissionNext]_admissionVars => AdmissionInv'
<1> SUFFICES ASSUME AdmissionInv, [AdmissionNext]_admissionVars PROVE AdmissionInv'
  OBVIOUS
<1>1. ASSUME NEW c \in Callers, Fallback(c) \/ FallbackUnqueued(c) PROVE AdmissionInv'
  <2>1. FallbackEffect(c) /\ caller[c].pc # "held" /\ IsPriority(c)
    BY <1>1 DEF Fallback, FallbackUnqueued, Checking
  <2> QED
    BY <2>1, FallbackStep
<1>2. ASSUME NEW c \in Callers, NEW outcome, ReleaseLease(c, outcome) PROVE AdmissionInv'
  BY <1>2, ReleaseLeaseKeeps
<1>3. CASE UNCHANGED admissionVars
  BY <1>3, StutterKeeps
<1> QED
  BY <1>1, <1>2, <1>3, ArriveKeeps, CheckDisabledKeeps, CheckCircuitOpenKeeps, AdmitCompositeKeeps,
     AdmitPriorityKeeps, CheckWaitKeeps, RejectFullKeeps, EnqueueKeeps, LeaveQueueKeeps,
     ReleaseDisabledKeeps, OpenTimeoutKeeps, StoreFlagKeeps, ConfigureKeeps
  DEF AdmissionNext

LEMMA AdmissionInvariant == AdmissionSpec => []AdmissionInv
BY AdmissionStarts, AdmissionSteps, PTL DEF AdmissionSpec

--------------------------------------------------------------------------------
(* What follows *)

\* The counters of the runtime stay natural numbers, a half-open circuit never
\* counts more than half_open_max_probes, and the queue holds callers only.
THEOREM AdmissionTyped == AdmissionSpec => []AdmissionTypeOK
<1>1. AdmissionInv => AdmissionTypeOK
  BY DEF AdmissionInv
<1> QED
  BY <1>1, AdmissionInvariant, PTL

\* However many callers arrive, are cancelled, time out, release or live through
\* a configure, every counter of the state equals the leases and the waiters that
\* exist: try_increment, remove_waiter and release_active lose and invent none.
THEOREM CountersExact == AdmissionSpec => []ActiveExact
<1>1. AdmissionInv => ActiveExact
  BY DEF AdmissionInv
<1> QED
  BY <1>1, AdmissionInvariant, PTL

\* Every probe that a half-open circuit counts belongs to a lease that has yet to
\* be released, so finish or abandon_probe will give it back.
THEOREM ProbesAreHeld == AdmissionSpec => []ProbesHeld
<1>1. AdmissionInv => ProbesHeld
  BY DEF AdmissionInv
<1> QED
  BY <1>1, AdmissionInvariant, PTL

\* A queued composite request that the check of its lane, of its circuits and of
\* its slots would admit has a notification pending: whatever frees its way also
\* calls notify_waiters after it began to listen.
THEOREM LanesAreServed == AdmissionSpec => []LanesServed
<1>1. AdmissionInv => LanesServed
  <2> SUFFICES ASSUME AdmissionInv, NEW c \in Callers, enabled, Ticket(c), ~IsPriority(c),
                      CompositeAdmissible(c), ~caller[c].woken
               PROVE  FALSE
    BY DEF LanesServed
  <2>1. Unwoken(c)
    BY DEF Ticket, Unwoken, Listening
  <2>2. Settled(c)
    BY <2>1 DEF AdmissionInv, WaitersSound
  <2> QED
    BY <2>2 DEF Settled
<1> QED
  BY <1>1, AdmissionInvariant, PTL

--------------------------------------------------------------------------------
(* Sums over the priority classes, and the reservations that admissions keep *)

Units(f) == UNION {{k} \X (1..f[k]) : k \in DOMAIN f}

LEMMA UnitsAre ==
  ASSUME NEW K, NEW f \in [K -> Nat]
  PROVE  /\ \A b : b \in Units(f) <=> \E k \in K : \E i \in 1..f[k] : b = <<k, i>>
         /\ Total(f) = Cardinality(Units(f))
<1>1. Total(f) = Cardinality(Units(f))
  BY DEF Total, Units
<1>2. DOMAIN f = K
  OBVIOUS
<1> QED
  BY <1>1, <1>2 DEF Units

LEMMA UnitsFinite ==
  ASSUME NEW K, IsFiniteSet(K), NEW f \in [K -> Nat]
  PROVE  IsFiniteSet(Units(f)) /\ Total(f) \in Nat
<1>1. PICK F : F = [k \in K |-> {k} \X (1..f[k])]
  OBVIOUS
<1>2. PICK R : R = {F[k] : k \in K}
  OBVIOUS
<1>3. F \in Surjection(K, R)
  BY <1>1, <1>2 DEF Surjection
<1>4. IsFiniteSet(R)
  BY <1>3, FS_Surjection
<1>5. ASSUME NEW k \in K PROVE IsFiniteSet(F[k])
  <2>1. IsFiniteSet(1..f[k])
    BY FS_Interval
  <2>2. IsFiniteSet({k})
    BY FS_Singleton
  <2>3. IsFiniteSet({k} \X (1..f[k]))
    BY <2>1, <2>2, FS_Product
  <2> QED
    BY <1>1, <2>3
<1>6. \A S \in R : IsFiniteSet(S)
  BY <1>2, <1>5
<1>7. IsFiniteSet(UNION R)
  BY <1>4, <1>6, FS_UNION
<1>8. Units(f) \subseteq UNION R
  <2>1. ASSUME NEW b \in Units(f) PROVE b \in UNION R
    <3>1. PICK k \in K : \E i \in 1..f[k] : b = <<k, i>>
      BY UnitsAre
    <3>2. b \in F[k]
      BY <1>1, <3>1
    <3> QED
      BY <1>2, <3>2
  <2> QED
    BY <2>1
<1>9. IsFiniteSet(Units(f))
  BY <1>7, <1>8, FS_Subset
<1> QED
  BY <1>9, UnitsAre, FS_CardinalityType

\* the sum of a sum of functions
LEMMA TotalAdds ==
  ASSUME NEW K, IsFiniteSet(K), NEW f \in [K -> Nat], NEW g \in [K -> Nat], NEW h \in [K -> Nat],
         \A k \in K : h[k] = f[k] + g[k]
  PROVE  Total(h) = Total(f) + Total(g)
<1>1. PICK S : S = Units(f)
  OBVIOUS
<1>2. PICK T : T = {b \in Units(h) : b \notin S}
  OBVIOUS
<1>3. IsFiniteSet(S) /\ IsFiniteSet(Units(g)) /\ IsFiniteSet(Units(h))
  BY <1>1, UnitsFinite
<1>4. Units(h) = S \cup T /\ S \cap T = {}
  <2>1. S \subseteq Units(h)
    <3>1. ASSUME NEW b \in S PROVE b \in Units(h)
      <4>1. PICK k, i : k \in K /\ i \in 1..f[k] /\ b = <<k, i>>
        BY <1>1, UnitsAre
      <4>2. i \in 1..h[k]
        BY <4>1
      <4> QED
        BY <4>1, <4>2, UnitsAre
    <3> QED
      BY <3>1
  <2> QED
    BY <1>2, <2>1
<1>5. IsFiniteSet(T)
  BY <1>2, <1>3, FS_Subset
<1>6. PICK move : move = [b \in Units(g) |-> <<b[1], b[2] + f[b[1]]>>]
  OBVIOUS
<1>7. \A b \in T : \E k \in K : \E i \in 1..g[k] : b = <<k, i + f[k]>>
  <2>1. ASSUME NEW b \in T PROVE \E k \in K : \E i \in 1..g[k] : b = <<k, i + f[k]>>
    <3>1. PICK k, n : k \in K /\ n \in 1..h[k] /\ b = <<k, n>>
      BY <1>2, UnitsAre
    <3>2. n \notin 1..f[k]
      BY <1>1, <1>2, <3>1, UnitsAre
    <3>3. n - f[k] \in 1..g[k] /\ n = (n - f[k]) + f[k]
      BY <3>1, <3>2
    <3> QED
      BY <3>1, <3>3
  <2> QED
    BY <2>1
<1>8. ASSUME NEW k \in K, NEW i \in 1..g[k]
      PROVE  /\ <<k, i>> \in Units(g) /\ move[<<k, i>>] = <<k, i + f[k]>>
             /\ <<k, i + f[k]>> \in T
  <2>1. <<k, i>> \in Units(g)
    BY UnitsAre
  <2>2. i + f[k] \in 1..h[k] /\ i + f[k] \notin 1..f[k]
    OBVIOUS
  <2>3. <<k, i + f[k]>> \in Units(h)
    BY <2>2, UnitsAre
  <2>4. <<k, i + f[k]>> \notin S
    <3>1. ASSUME <<k, i + f[k]>> \in S PROVE FALSE
      <4>1. PICK x, n : x \in K /\ n \in 1..f[x] /\ <<k, i + f[k]>> = <<x, n>>
        BY <1>1, <3>1, UnitsAre
      <4> QED
        BY <2>2, <4>1
    <3> QED
      BY <3>1
  <2> QED
    BY <1>2, <1>6, <2>1, <2>3, <2>4
<1>9. move \in [Units(g) -> T]
  <2>1. ASSUME NEW b \in Units(g) PROVE move[b] \in T
    <3>1. PICK k, i : k \in K /\ i \in 1..g[k] /\ b = <<k, i>>
      BY UnitsAre
    <3> QED
      BY <1>8, <3>1
  <2> QED
    BY <1>6, <2>1
<1>10. \A b, e \in Units(g) : move[b] = move[e] => b = e
  <2>1. ASSUME NEW b \in Units(g), NEW e \in Units(g), move[b] = move[e] PROVE b = e
    <3>1. PICK k, i : k \in K /\ i \in 1..g[k] /\ b = <<k, i>>
      BY UnitsAre
    <3>2. PICK x, n : x \in K /\ n \in 1..g[x] /\ e = <<x, n>>
      BY UnitsAre
    <3>3. <<k, i + f[k]>> = <<x, n + f[x]>>
      BY <1>8, <2>1, <3>1, <3>2
    <3>4. k = x /\ i + f[k] = n + f[k]
      BY <3>3
    <3>5. f[k] \in Nat /\ i \in Int /\ n \in Int
      BY <3>1, <3>2
    <3> QED
      BY <3>1, <3>2, <3>4, <3>5
  <2> QED
    BY <2>1
<1>11. \A b \in T : \E e \in Units(g) : move[e] = b
  <2>1. ASSUME NEW b \in T PROVE \E e \in Units(g) : move[e] = b
    <3>1. PICK k, i : k \in K /\ i \in 1..g[k] /\ b = <<k, i + f[k]>>
      BY <1>7
    <3>2. <<k, i>> \in Units(g) /\ move[<<k, i>>] = b
      BY <1>8, <3>1
    <3> QED
      BY <3>2
  <2> QED
    BY <2>1
<1>12. move \in Bijection(Units(g), T)
  <2>1. move \in Injection(Units(g), T)
    BY <1>9, <1>10 DEF Injection, IsInjective
  <2>2. move \in Surjection(Units(g), T)
    BY <1>9, <1>11 DEF Surjection
  <2> QED
    BY <2>1, <2>2 DEF Bijection
<1>13. Cardinality(T) = Cardinality(Units(g))
  BY <1>3, <1>12, FS_Bijection DEF ExistsBijection
<1>14. Cardinality(S \cup T) = Cardinality(S) + Cardinality(T) - Cardinality(S \cap T)
  BY <1>3, <1>5, FS_Union
<1>15. Cardinality(S \cap T) = 0
  BY <1>4, FS_EmptySet
<1>16. Cardinality(S) \in Nat /\ Cardinality(T) \in Nat
  BY <1>3, <1>5, FS_CardinalityType
<1>17. Cardinality(Units(h)) = Cardinality(S) + Cardinality(Units(g))
  BY <1>4, <1>13, <1>14, <1>15, <1>16
<1> QED
  BY <1>1, <1>17, UnitsAre

LEMMA TotalOfOne ==
  ASSUME NEW K, NEW k \in K, NEW f, f = [x \in K |-> IF x = k THEN 1 ELSE 0]
  PROVE  f \in [K -> Nat] /\ Total(f) = 1
<1>1. f \in [K -> Nat]
  OBVIOUS
<1>2. Units(f) = {<<k, 1>>}
  <2>1. 1..1 = {1} /\ 1..0 = {}
    OBVIOUS
  <2>2. \A x \in K : 1..f[x] = IF x = k THEN {1} ELSE {}
    BY <2>1
  <2> QED
    BY <1>1, <2>2, UnitsAre
<1> QED
  BY <1>1, <1>2, UnitsAre, FS_Singleton

\* no class holds more reserved slots than it has
WithinReservations == \A k \in Classes : shares[k].reserved <= ReservedRequests[k]

LEMMA WithinStarts == AdmissionInit => WithinReservations
BY AdmissionAssumption DEF AdmissionInit, WithinReservations

LEMMA WithinKept ==
  ASSUME AdmissionInv, WithinReservations, [AdmissionNext]_admissionVars
  PROVE  WithinReservations'
<1>0. /\ shares \in [Classes -> [reserved : Nat, shared : Nat]]
      /\ ReservedRequests \in [Classes -> Nat]
  BY AdmissionAssumption DEF AdmissionInv, AdmissionTypeOK
<1>1. CASE UNCHANGED shares
  BY <1>1 DEF WithinReservations
<1>2. ASSUME NEW c \in Callers, AdmitPriority(c) PROVE WithinReservations'
  <2>1. PICK k : k = caller[c].demand.class
    OBVIOUS
  <2>2. CASE CallerKind(c) = "reserved"
    <3>1. shares' = [shares EXCEPT ![k].reserved = @ + 1]
      BY <1>2, <2>1, <2>2 DEF AdmitPriority
    <3>2. shares[k].reserved < ReservedRequests[k]
      BY <2>1, <2>2, AdmissionAssumption DEF CallerKind, LeaseKind
    <3>3. ASSUME NEW j \in Classes PROVE shares'[j].reserved <= ReservedRequests[j]
      <4>1. CASE j = k
        BY <1>0, <3>1, <3>2, <4>1
      <4>2. CASE j # k
        BY <1>0, <3>1, <4>2 DEF WithinReservations
      <4> QED
        BY <4>1, <4>2
    <3> QED
      BY <3>3 DEF WithinReservations
  <2>3. CASE CallerKind(c) # "reserved"
    <3>1. shares' = [shares EXCEPT ![k].shared = @ + 1]
      BY <1>2, <2>1, <2>3 DEF AdmitPriority
    <3>2. \A j \in Classes : shares'[j].reserved = shares[j].reserved
      BY <1>0, <3>1
    <3> QED
      BY <3>2 DEF WithinReservations
  <2> QED
    BY <2>2, <2>3
<1>3. ASSUME NEW c \in Callers, NEW outcome, ReleaseLease(c, outcome) PROVE WithinReservations'
  <2>1. PICK k : k = caller[c].demand.class
    OBVIOUS
  <2>2. caller[c].kind \in {Void, "reserved", "shared"}
    BY DEF AdmissionInv, AdmissionTypeOK, CallerState
  <2>3. \/ shares' = shares
        \/ shares' = [shares EXCEPT ![k].reserved = Decremented(@)]
        \/ shares' = [shares EXCEPT ![k].shared = Decremented(@)]
    BY <1>3, <2>1, <2>2, AdmissionAssumption DEF ReleaseLease
  <2>4. ASSUME NEW j \in Classes PROVE shares'[j].reserved <= ReservedRequests[j]
    <3>1. shares[j].reserved \in Nat /\ ReservedRequests[j] \in Nat
          /\ shares[j].reserved <= ReservedRequests[j]
      BY <1>0 DEF WithinReservations
    <3>2. Decremented(shares[j].reserved) <= shares[j].reserved
      BY <3>1 DEF Decremented
    <3>3. shares'[j].reserved \in {shares[j].reserved, Decremented(shares[j].reserved)}
      BY <1>0, <2>3
    <3>4. Decremented(shares[j].reserved) \in Nat
      BY <3>1 DEF Decremented
    <3> QED
      BY <3>1, <3>2, <3>3, <3>4
  <2> QED
    BY <2>4 DEF WithinReservations
<1> QED
  BY <1>1, <1>2, <1>3
  DEF AdmissionNext, admissionVars, Arrive, CheckDisabled, CheckCircuitOpen, AdmitComposite, Fallback,
      FallbackEffect, CheckWait, FallbackUnqueued, RejectFull, Enqueue, LeaveQueue, ReleaseDisabled,
      OpenTimeout, StoreFlag, Configure

\* An admission in a class takes a slot of its own reservation, or one that is left
\* when every unfilled reservation is set aside.
LEMMA AdmissionCovers ==
  ASSUME AdmissionInv, WithinReservations, NEW c \in Callers, AdmitPriority(c), Covered
  PROVE  Covered'
<1>1. PICK r : r = [k \in Classes |-> shares[k].reserved]
  OBVIOUS
<1>2. PICK s : s = [k \in Classes |-> shares[k].shared]
  OBVIOUS
<1>3. PICK rs : rs = [k \in Classes |-> TotalActive(k)]
  OBVIOUS
<1>4. PICK u : u = [k \in Classes |-> ReservedRequests[k] - shares[k].reserved]
  OBVIOUS
<1>5. /\ shares \in [Classes -> [reserved : Nat, shared : Nat]]
      /\ ReservedRequests \in [Classes -> Nat] /\ IsFiniteSet(Classes) /\ GlobalSlot \in Slots
      /\ active \in [Slots -> Nat] /\ config \in Configuration
  BY AdmissionAssumption DEF AdmissionInv, AdmissionTypeOK
<1>6. PICK a, l : a = active[GlobalSlot] /\ l = config.limit[GlobalSlot]
  OBVIOUS
<1>7. a \in Nat /\ l \in Nat
  BY <1>5, <1>6 DEF Configuration
<1>8. r \in [Classes -> Nat] /\ s \in [Classes -> Nat] /\ rs \in [Classes -> Nat] /\ u \in [Classes -> Nat]
  <2>1. ASSUME NEW k \in Classes
        PROVE  /\ shares[k].reserved \in Nat /\ shares[k].shared \in Nat
               /\ TotalActive(k) \in Nat /\ ReservedRequests[k] - shares[k].reserved \in Nat
    BY <1>5 DEF WithinReservations, TotalActive
  <2> QED
    BY <1>1, <1>2, <1>3, <1>4, <2>1
<1>9. Total(rs) = Total(r) + Total(s)
  <2>1. \A k \in Classes : rs[k] = r[k] + s[k]
    BY <1>1, <1>2, <1>3 DEF TotalActive
  <2> QED
    BY <1>5, <1>8, <2>1, TotalAdds
<1>10. Total(ReservedRequests) = Total(r) + Total(u)
  <2>1. \A k \in Classes : ReservedRequests[k] = r[k] + u[k]
    BY <1>1, <1>4, <1>5
  <2> QED
    BY <1>5, <1>8, <2>1, TotalAdds
<1>11. /\ Total(r) \in Nat /\ Total(s) \in Nat /\ Total(u) \in Nat
  BY <1>5, <1>8, UnitsFinite
<1>12. PICK k : k = caller[c].demand.class
  OBVIOUS
<1>13. k \in Classes /\ caller[c].demand.slots = {GlobalSlot}
  BY <1>12 DEF AdmissionInv, CallersSound, CallerOk, DemandOk, Demand, AdmitPriority, Checking,
     IsPriority, Engaged
<1>14. active'[GlobalSlot] = a + 1 /\ config' = config
  BY <1>5, <1>6, <1>13 DEF AdmitPriority, IncrementActive
<1>15. CASE CallerKind(c) = "reserved"
  <2>1. shares' = [shares EXCEPT ![k].reserved = @ + 1]
    BY <1>12, <1>15 DEF AdmitPriority
  <2>2. PICK v : v = [j \in Classes |-> ReservedRequests[j] - shares'[j].reserved]
    OBVIOUS
  <2>3. PICK one : one = [j \in Classes |-> IF j = k THEN 1 ELSE 0]
    OBVIOUS
  <2>4. shares[k].reserved < ReservedRequests[k]
    BY <1>12, <1>15, AdmissionAssumption DEF CallerKind, LeaseKind
  <2>5. ASSUME NEW j \in Classes PROVE v[j] \in Nat /\ u[j] = v[j] + one[j]
    <3>1. shares[j].reserved \in Nat /\ ReservedRequests[j] \in Nat /\ u[j] \in Nat
      BY <1>5, <1>8
    <3>2. shares'[j].reserved = IF j = k THEN shares[j].reserved + 1 ELSE shares[j].reserved
      BY <1>5, <2>1
    <3> QED
      BY <1>4, <2>2, <2>3, <2>4, <3>1, <3>2
  <2>6. v \in [Classes -> Nat]
    BY <2>2, <2>5
  <2>7. one \in [Classes -> Nat] /\ Total(one) = 1
    BY <1>13, <2>3, TotalOfOne
  <2>8. Total(u) = Total(v) + Total(one)
    BY <1>5, <1>8, <2>5, <2>6, <2>7, TotalAdds
  <2>9. Total(v) \in Nat
    BY <1>5, <2>6, UnitsFinite
  <2>10. Unfilled = Total(u) /\ Unfilled' = Total(v)
    BY <1>4, <2>2 DEF Unfilled
  <2> QED
    BY <1>6, <1>7, <1>11, <1>14, <2>7, <2>8, <2>9, <2>10 DEF Covered
<1>16. CASE CallerKind(c) # "reserved"
  <2>1. shares' = [shares EXCEPT ![k].shared = @ + 1]
    BY <1>12, <1>16 DEF AdmitPriority
  <2>2. \A j \in Classes : shares'[j].reserved = shares[j].reserved
    BY <1>5, <2>1
  <2>3. Unfilled = Total(u) /\ Unfilled' = Total(u)
    BY <1>4, <2>2 DEF Unfilled
  <2>4. CallerKind(c) = "shared"
    BY <1>16 DEF AdmitPriority, PriorityAdmissible, CallerKind, LeaseKind
  <2>5. SharedActive + UntrackedActive < SharedCapacity
    BY <2>4, AdmissionAssumption DEF CallerKind, LeaseKind
  <2>6. Total(s) + (a - Total(rs)) < l - Total(ReservedRequests)
    BY <1>2, <1>3, <1>6, <2>5 DEF SharedActive, UntrackedActive, SharedCapacity
  <2>7. Total(u) <= l - (a + 1)
    BY <1>7, <1>9, <1>10, <1>11, <2>6
  <2> QED
    BY <1>6, <1>14, <2>3, <2>7 DEF Covered
<1> QED
  BY <1>15, <1>16

\* Whatever is admitted in whichever order, a request of a priority class never
\* takes a slot that another class still has reserved: when the free slots cover
\* the unfilled reservations, they still do after an admission (lease_kind).
THEOREM ReservationsStayCovered == AdmissionSpec => ReservationsKept
<1>1. (AdmissionInv /\ WithinReservations /\ [AdmissionNext]_admissionVars) => WithinReservations'
  BY WithinKept
<1>2. AdmissionSpec => []WithinReservations
  BY <1>1, WithinStarts, AdmissionInvariant, PTL DEF AdmissionSpec
<1>3. (AdmissionInv /\ WithinReservations)
        => [(\E c \in Callers : AdmitPriority(c)) /\ Covered => Covered']_admissionVars
  BY AdmissionCovers
<1> QED
  BY <1>2, <1>3, AdmissionInvariant, PTL DEF ReservationsKept

===============================================================================
