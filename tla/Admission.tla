------------------------------- MODULE Admission -------------------------------
(* Composite and prioritised admission (src/circuit_breakers): active and queued
   counters per scope and resource, FIFO lanes of equal demands, one Notify that
   every waiter listens to, failure circuits with half-open probes, and the
   priority classes of the global request slot.

   A caller holds the state mutex twice: to check its demand, and, when that
   neither admits nor rejects it, to queue.  It listens to the Notify from before
   the first of them, so a wake-up between the two is not lost.  *)
EXTENDS Integers, Sequences, FiniteSets, SequencesExt

CONSTANTS Callers,
          Slots,        \* scope and resource pairs
          GlobalSlot,   \* the request slot of the global scope
          Guarded,      \* the upstream slots of routes and pools, which have a circuit
          SlotSets,     \* the slots that composite demands ask for together
          Classes,      \* priority classes
          ReservedRequests,     \* reserved_requests of a class
          MaxShare,     \* max_share of a class, in percent
          MaxPending,   \* pending requests of a class; 0 when its policy is to reject
          QueueLimit,   \* pending requests of a slot
          MaxProbes,    \* half_open_max_probes
          HalfOpenSuccesses,
          Configs,      \* the configurations that are installed
          Void

Demand == [slots : SUBSET Slots, class : Classes \cup {Void}, eligible : BOOLEAN]

Configuration == [enabled : BOOLEAN, failure : BOOLEAN, priority : BOOLEAN, limit : [Slots -> Nat]]

ASSUME AdmissionAssumption ==
  /\ IsFiniteSet(Callers) /\ IsFiniteSet(Classes)
  /\ GlobalSlot \in Slots /\ Guarded \subseteq Slots /\ GlobalSlot \notin Guarded
  /\ SlotSets \subseteq SUBSET Slots
  /\ Void \notin Classes /\ Void \notin Callers /\ Void \notin {"reserved", "shared"}
  /\ ReservedRequests \in [Classes -> Nat] /\ MaxShare \in [Classes -> Nat] /\ MaxPending \in [Classes -> Nat]
  /\ QueueLimit \in [Slots -> Nat]
  /\ MaxProbes \in Nat \ {0} /\ HalfOpenSuccesses \in Nat \ {0}   \* the configuration refuses 0
  /\ Configs \subseteq Configuration /\ Void \notin Configs

(* A request takes the global slot in its class and the request slot of its route
   on its own (proxy/http.rs, h1_fast_proxy/admission.rs): no demand has both.   *)
ASSUME RequestsApart == \A S \in SlotSets : GlobalSlot \in S => S = {GlobalSlot}

VARIABLES active,     \* admitted demands per slot
          queued,     \* queued demands per slot
          shares,     \* reserved and shared admissions per class
          queue,      \* the waiters of every lane, oldest first
          caller,
          circuit,
          enabled,    \* the flag read without the mutex held
          config,     \* what the last configure left in the state
          installing  \* the configuration whose flag is stored and state not yet

admissionVars == <<active, queued, shares, queue, caller, circuit, enabled, config, installing>>

Outside == [pc |-> "out", demand |-> Void, woken |-> FALSE, kind |-> Void, probes |-> {}]

\* a caller with its demand, and the holder of a lease
Arrived(d) == [Outside EXCEPT !.pc = "arrived", !.demand = d]

Leased(d, kind, probes) ==
  [Outside EXCEPT !.pc = "held", !.demand = d, !.kind = kind, !.probes = probes]

Closed == [state |-> "closed", due |-> FALSE, probes |-> 0, successes |-> 0]

AdmissionInit ==
  /\ active = [s \in Slots |-> 0]
  /\ queued = [s \in Slots |-> 0]
  /\ shares = [k \in Classes |-> [reserved |-> 0, shared |-> 0]]
  /\ queue = <<>>
  /\ caller = [c \in Callers |-> Outside]
  /\ circuit = [s \in Guarded |-> Closed]
  /\ config \in Configs
  /\ enabled = config.enabled
  /\ installing = Void

--------------------------------------------------------------------------------
(* Lanes *)

Composite(slots) == [slots |-> slots, class |-> Void, eligible |-> FALSE]

Prioritised(k, eligible) == [slots |-> {GlobalSlot}, class |-> k, eligible |-> eligible]

Ticket(c) == caller[c].pc = "asleep"

WaiterDemand(i) == caller[queue[i]].demand

LaneEmpty(d) == \A i \in DOMAIN queue : WaiterDemand(i) # d

IsHead(i) == \A j \in 1..(i - 1) : WaiterDemand(j) # WaiterDemand(i)

HeadCallers == {queue[i] : i \in {j \in DOMAIN queue : IsHead(j)}}

\* the oldest of a set of queue positions
Oldest(P) == IF P = {} THEN Void ELSE queue[CHOOSE i \in P : \A j \in P : i <= j]

Removed(c) == RemoveFirst(queue, c)

--------------------------------------------------------------------------------
(* Capacity, circuits and priority classes *)

CanAdmit(d) == \A s \in d.slots : active[s] < config.limit[s]

CanQueue(d) == \A s \in d.slots : queued[s] < QueueLimit[s]

\* FailureCircuit::available
Available(s) ==
  \/ circuit[s].state = "closed"
  \/ circuit[s].state = "open" /\ circuit[s].due
  \/ circuit[s].state = "halfOpen" /\ circuit[s].probes < MaxProbes

GuardedSlots(d) == IF config.failure THEN d.slots \cap Guarded ELSE {}

CircuitAvailable(d) == \A s \in GuardedSlots(d) : Available(s)

CompositeSelected(d) ==
  Oldest({i \in DOMAIN queue : /\ IsHead(i) /\ WaiterDemand(i).class = Void
                               /\ WaiterDemand(i).slots \cap d.slots # {}
                               /\ CircuitAvailable(WaiterDemand(i)) /\ CanAdmit(WaiterDemand(i))})

Decremented(n) == IF n = 0 THEN 0 ELSE n - 1   \* saturating_sub(1)

TotalActive(k) == shares[k].reserved + shares[k].shared

MaxClassRequests(k) == (config.limit[GlobalSlot] * MaxShare[k]) \div 100

\* the sum of the counts of a function, as the size of a disjoint union
Total(f) == Cardinality(UNION {{k} \X (1..f[k]) : k \in DOMAIN f})

SharedActive == Total([k \in Classes |-> shares[k].shared])

\* the requests that occupy the global slot without a class
UntrackedActive == active[GlobalSlot] - Total([k \in Classes |-> TotalActive(k)])

(* Faulty variant: reserved requests are not taken out of the shared pool. *)
WholeCapacity == config.limit[GlobalSlot]

SharedCapacity == config.limit[GlobalSlot] - Total(ReservedRequests)

(* The portion of the global slot that a request of the class may take now.  The
   subtractions above and here saturate in the code; a comparison with a count
   does not tell a negative number from 0.                                      *)
LeaseKind(k, eligible) ==
  CASE active[GlobalSlot] >= config.limit[GlobalSlot] \/ TotalActive(k) >= MaxClassRequests(k) -> Void
    [] OTHER ->
       IF eligible /\ shares[k].reserved < ReservedRequests[k] THEN "reserved"
       ELSE IF /\ shares[k].shared < MaxClassRequests(k) - ReservedRequests[k]
               /\ SharedActive + UntrackedActive < SharedCapacity THEN "shared"
       ELSE Void

PriorityHeads == {i \in DOMAIN queue : IsHead(i) /\ WaiterDemand(i).class # Void}

WaiterKind(i) == LeaseKind(WaiterDemand(i).class, WaiterDemand(i).eligible)

PrioritySelected ==
  LET reserved == {i \in PriorityHeads : WaiterDemand(i).eligible /\ WaiterKind(i) = "reserved"}
  IN Oldest(IF reserved # {} THEN reserved ELSE {i \in PriorityHeads : WaiterKind(i) # Void})

ClassQueued(k) == Cardinality({i \in DOMAIN queue : WaiterDemand(i).class = k})

--------------------------------------------------------------------------------
(* What a critical section leaves behind.  The waiters are notified right after
   the mutex is dropped, here in the same step.                                *)

Listening(r) == r.pc \in {"unqueued", "asleep"}

(* Faulty variant: a release wakes the oldest waiter only. *)
NotifyOldest(f) ==
  [c \in Callers |-> IF queue # <<>> /\ c = Head(queue) /\ Listening(f[c])
                     THEN [f[c] EXCEPT !.woken = TRUE] ELSE f[c]]

NotifyWaiters(f) ==
  [c \in Callers |-> IF Listening(f[c]) THEN [f[c] EXCEPT !.woken = TRUE] ELSE f[c]]

Becomes(c, r, wake) ==
  LET f == [caller EXCEPT ![c] = r] IN caller' = IF wake THEN NotifyWaiters(f) ELSE f

(* Faulty variant: a waiter that leaves stays counted. *)
RemoveUncounted(c) == queue' = Removed(c) /\ UNCHANGED queued

\* remove_waiter, of a caller that may have no ticket
RemoveWaiter(c) ==
  /\ queue' = Removed(c)
  /\ queued' = [s \in Slots |-> IF Ticket(c) /\ s \in caller[c].demand.slots
                                THEN Decremented(queued[s]) ELSE queued[s]]

IncrementActive(d) ==
  active' = [s \in Slots |-> IF s \in d.slots THEN active[s] + 1 ELSE active[s]]

\* FailureCircuit::begin_probe, of a circuit that is available
BeginProbe(k) ==
  CASE k.state = "closed" -> k
    [] k.state = "open" -> [Closed EXCEPT !.state = "halfOpen", !.probes = 1]
    [] k.state = "halfOpen" -> [k EXCEPT !.probes = @ + 1]

(* Faulty variants: a cancelled probe is never given back; its count is
   decremented without a look at what is left.                              *)
AbandonNothing(k) == k

AbandonUnchecked(k) == IF k.state = "halfOpen" THEN [k EXCEPT !.probes = @ - 1] ELSE k

AbandonProbe(k) == IF k.state = "halfOpen" THEN [k EXCEPT !.probes = Decremented(@)] ELSE k

\* a closed circuit opens on a failure when its sample window says so
Finish(k, probe, failed, trips) ==
  LET open == [Closed EXCEPT !.state = "open"]
      left == IF probe THEN AbandonProbe(k) ELSE k
  IN CASE k.state = "closed" -> IF failed /\ trips THEN open ELSE k
       [] k.state = "open" -> k
       [] k.state = "halfOpen" ->
            IF failed THEN open
            ELSE IF k.successes + 1 >= HalfOpenSuccesses THEN Closed
            ELSE [left EXCEPT !.successes = @ + 1]

--------------------------------------------------------------------------------
(* The first critical section: check the demand *)

Arrive(c) ==
  /\ caller[c].pc = "out"
  /\ \/ \E S \in SlotSets : Becomes(c, Arrived(Composite(S)), FALSE)
     \/ \E k \in Classes, e \in BOOLEAN : Becomes(c, Arrived(Prioritised(k, e)), FALSE)
  /\ UNCHANGED <<active, queued, shares, queue, circuit, enabled, config, installing>>

Checking(c) == caller[c].pc = "arrived" \/ (caller[c].pc = "asleep" /\ caller[c].woken)

IsPriority(c) == caller[c].demand.class # Void

CheckDisabled(c) ==
  /\ Checking(c) /\ ~enabled
  /\ RemoveWaiter(c)
  /\ Becomes(c, [Outside EXCEPT !.pc = "bypass"], FALSE)
  /\ UNCHANGED <<active, shares, circuit, enabled, config, installing>>

\* a caller queues again behind those of its lane that came first
InTurn(c) == IF Ticket(c) THEN c \in HeadCallers ELSE LaneEmpty(caller[c].demand)

CheckCircuitOpen(c) ==
  /\ Checking(c) /\ enabled /\ ~IsPriority(c)
  /\ InTurn(c) /\ ~CircuitAvailable(caller[c].demand)
  /\ RemoveWaiter(c)
  /\ Becomes(c, Outside, Ticket(c))
  /\ UNCHANGED <<active, shares, circuit, enabled, config, installing>>

CompositeAdmissible(c) ==
  LET d == caller[c].demand
  IN /\ InTurn(c) /\ CircuitAvailable(d) /\ CanAdmit(d)
     /\ CompositeSelected(d) = IF Ticket(c) THEN c ELSE Void

AdmitComposite(c) ==
  LET d == caller[c].demand
      g == GuardedSlots(d)
  IN /\ Checking(c) /\ enabled /\ ~IsPriority(c) /\ CompositeAdmissible(c)
     /\ RemoveWaiter(c)
     /\ IncrementActive(d)
     /\ circuit' = [s \in Guarded |-> IF s \in g THEN BeginProbe(circuit[s]) ELSE circuit[s]]
     /\ Becomes(c, Leased(d, Void, {s \in g : circuit[s].state # "closed"}), Ticket(c))
     /\ UNCHANGED <<shares, enabled, config, installing>>

\* the priority classes are off: the caller tries again as a composite demand
FallbackEffect(c) ==
  /\ RemoveWaiter(c)
  /\ Becomes(c, Arrived(Composite({GlobalSlot})), FALSE)
  /\ UNCHANGED <<active, shares, circuit, enabled, config, installing>>

Fallback(c) == Checking(c) /\ enabled /\ IsPriority(c) /\ ~config.priority /\ FallbackEffect(c)

CallerKind(c) == LeaseKind(caller[c].demand.class, caller[c].demand.eligible)

PriorityAdmissible(c) ==
  /\ CallerKind(c) # Void
  /\ IF Ticket(c) THEN PrioritySelected = c
     ELSE LaneEmpty(caller[c].demand) /\ (PrioritySelected = Void \/ CallerKind(c) = "reserved")

\* unlike AdmitComposite, this one notifies nobody when it leaves the queue
AdmitPriority(c) ==
  LET d == caller[c].demand
  IN /\ Checking(c) /\ enabled /\ IsPriority(c) /\ config.priority /\ PriorityAdmissible(c)
     /\ RemoveWaiter(c)
     /\ IncrementActive(d)
     /\ shares' = IF CallerKind(c) = "reserved"
                  THEN [shares EXCEPT ![d.class].reserved = @ + 1]
                  ELSE [shares EXCEPT ![d.class].shared = @ + 1]
     /\ Becomes(c, Leased(d, CallerKind(c), {}), FALSE)
     /\ UNCHANGED <<circuit, enabled, config, installing>>

MustWait(c) ==
  IF IsPriority(c) THEN config.priority /\ ~PriorityAdmissible(c)
  ELSE /\ ~CompositeAdmissible(c)
       /\ InTurn(c) => CircuitAvailable(caller[c].demand)

\* a queued caller listens again, another goes on to queue
CheckWait(c) ==
  /\ Checking(c) /\ enabled /\ MustWait(c)
  /\ Becomes(c, [caller[c] EXCEPT !.pc = IF Ticket(c) THEN "asleep" ELSE "unqueued",
                                  !.woken = FALSE], FALSE)
  /\ UNCHANGED <<active, queued, shares, queue, circuit, enabled, config, installing>>

--------------------------------------------------------------------------------
(* The second critical section, the end of a wait and of a lease *)

FallbackUnqueued(c) ==
  /\ caller[c].pc = "unqueued" /\ IsPriority(c) /\ ~config.priority
  /\ FallbackEffect(c)

MayQueue(c) ==
  LET d == caller[c].demand
  IN CanQueue(d) /\ (IsPriority(c) => ClassQueued(d.class) < MaxPending[d.class])

Queueing(c) == caller[c].pc = "unqueued" /\ (IsPriority(c) => config.priority)

RejectFull(c) ==
  /\ Queueing(c) /\ ~MayQueue(c)
  /\ Becomes(c, Outside, FALSE)
  /\ UNCHANGED <<active, queued, shares, queue, circuit, enabled, config, installing>>

Enqueue(c) ==
  /\ Queueing(c) /\ MayQueue(c)
  /\ queue' = Append(queue, c)
  /\ queued' = [s \in Slots |-> IF s \in caller[c].demand.slots THEN queued[s] + 1 ELSE queued[s]]
  /\ Becomes(c, [caller[c] EXCEPT !.pc = "asleep"], FALSE)
  /\ UNCHANGED <<active, shares, circuit, enabled, config, installing>>

\* the wait times out, or the request is cancelled and drops its QueuedWaiter
LeaveQueue(c) ==
  /\ Ticket(c)
  /\ RemoveWaiter(c)
  /\ Becomes(c, Outside, TRUE)
  /\ UNCHANGED <<active, shares, circuit, enabled, config, installing>>

ReleaseLease(c, outcome) ==
  LET d == caller[c].demand
  IN /\ caller[c].pc = "held"
     /\ active' = [s \in Slots |-> IF s \in d.slots THEN Decremented(active[s]) ELSE active[s]]
     /\ shares' = CASE caller[c].kind = Void -> shares
                    [] caller[c].kind = "reserved" -> [shares EXCEPT ![d.class].reserved = Decremented(@)]
                    [] caller[c].kind = "shared" -> [shares EXCEPT ![d.class].shared = Decremented(@)]
     /\ IF outcome = "neutral"
        THEN circuit' = [s \in Guarded |-> IF s \in caller[c].probes THEN AbandonProbe(circuit[s])
                                           ELSE circuit[s]]
        ELSE \E trips \in SUBSET Guarded :
               circuit' = [s \in Guarded |-> IF s \notin GuardedSlots(d) THEN circuit[s] ELSE
                 Finish(circuit[s], s \in caller[c].probes, outcome = "failure", s \in trips)]
     /\ Becomes(c, Outside, TRUE)
     /\ UNCHANGED <<queued, queue, enabled, config, installing>>

ReleaseDisabled(c) ==
  /\ caller[c].pc = "bypass"
  /\ Becomes(c, Outside, FALSE)
  /\ UNCHANGED <<active, queued, shares, queue, circuit, enabled, config, installing>>

OpenTimeout(s) ==
  /\ circuit[s].state = "open" /\ ~circuit[s].due
  /\ circuit' = [circuit EXCEPT ![s].due = TRUE]
  /\ UNCHANGED <<active, queued, shares, queue, caller, enabled, config, installing>>

--------------------------------------------------------------------------------
(* configure: the flag is stored before the mutex is taken *)

StoreFlag ==
  /\ installing = Void
  /\ \E k \in Configs \ {config} : installing' = k /\ enabled' = k.enabled
  /\ UNCHANGED <<active, queued, shares, queue, caller, circuit, config>>

Configure ==
  /\ installing # Void
  /\ config' = installing /\ installing' = Void
  /\ circuit' = IF installing.enabled /\ installing.failure THEN circuit
                ELSE [s \in Guarded |-> Closed]
  /\ caller' = NotifyWaiters(caller)
  /\ UNCHANGED <<active, queued, shares, queue, enabled>>

AdmissionNext ==
  \/ \E c \in Callers :
       \/ Arrive(c) \/ CheckDisabled(c) \/ CheckCircuitOpen(c) \/ AdmitComposite(c)
       \/ Fallback(c) \/ AdmitPriority(c) \/ CheckWait(c)
       \/ FallbackUnqueued(c) \/ RejectFull(c) \/ Enqueue(c) \/ LeaveQueue(c)
       \/ (\E outcome \in {"neutral", "success", "failure"} : ReleaseLease(c, outcome))
       \/ ReleaseDisabled(c)
  \/ \E s \in Guarded : OpenTimeout(s)
  \/ StoreFlag
  \/ Configure

AdmissionSpec == AdmissionInit /\ [][AdmissionNext]_admissionVars

--------------------------------------------------------------------------------
(* Properties *)

CallerState == [pc : {"out", "arrived", "unqueued", "asleep", "held", "bypass"},
                demand : Demand \cup {Void}, woken : BOOLEAN,
                kind : {"reserved", "shared", Void}, probes : SUBSET Guarded]

Circuit == [state : {"closed", "open", "halfOpen"}, due : BOOLEAN, probes : Nat, successes : Nat]

\* Counters are never negative and a half-open circuit counts at most MaxProbes:
\* the bounds that the saturating arithmetic of the runtime is meant to keep.
AdmissionTypeOK ==
  /\ active \in [Slots -> Nat] /\ queued \in [Slots -> Nat]
  /\ shares \in [Classes -> [reserved : Nat, shared : Nat]]
  /\ queue \in Seq(Callers)
  /\ caller \in [Callers -> CallerState]
  /\ circuit \in [Guarded -> Circuit]
  /\ \A s \in Guarded : circuit[s].probes <= MaxProbes
  /\ enabled \in BOOLEAN /\ config \in Configs /\ installing \in Configs \cup {Void}

Using(pc, s) == {c \in Callers : caller[c].pc = pc /\ s \in caller[c].demand.slots}

Leases(k, kind) ==
  {c \in Callers : caller[c].pc = "held" /\ caller[c].kind = kind /\ caller[c].demand.class = k}

\* Whatever is cancelled, rejected, timed out, disabled or reconfigured meanwhile,
\* every counter of the runtime equals the leases and the waiters that exist, so
\* no slot is leaked and none is given away twice.
ActiveExact ==
  /\ \A s \in Slots : /\ active[s] = Cardinality(Using("held", s))
                      /\ queued[s] = Cardinality(Using("asleep", s))
  /\ \A k \in Classes : /\ shares[k].reserved = Cardinality(Leases(k, "reserved"))
                        /\ shares[k].shared = Cardinality(Leases(k, "shared"))

\* No composite waiter sleeps through its turn: one whose demand would be admitted
\* if it looked has a notification pending.
LanesServed ==
  \A c \in Callers : /\ enabled /\ Ticket(c) /\ ~IsPriority(c) /\ CompositeAdmissible(c)
                     => caller[c].woken

\* The same of the waiters of the priority classes.
PrioritiesServed ==
  \A c \in Callers : /\ enabled /\ config.priority /\ Ticket(c) /\ IsPriority(c) /\ PriorityAdmissible(c)
                     => caller[c].woken

\* A probe that a half-open circuit counts is held by a request that has yet to
\* finish, so that a circuit whose probes are all spent is never stuck there.
ProbesHeld ==
  \A s \in Guarded : circuit[s].state = "halfOpen" =>
    circuit[s].probes <= Cardinality({c \in Callers : s \in caller[c].probes})

Unfilled == Total([k \in Classes |-> ReservedRequests[k] - shares[k].reserved])

Covered == Unfilled <= config.limit[GlobalSlot] - active[GlobalSlot]

\* A request admitted in a class never takes a slot that another class still has
\* reserved: when the free slots cover the unfilled reservations, they still do.
ReservationsKept == [][(\E c \in Callers : AdmitPriority(c)) /\ Covered => Covered']_admissionVars

================================================================================
