---------------------------- MODULE OperationProofs ----------------------------
(* Proofs about AdminOperations for every set of instances, operations and kinds,
   every combination of faults and every bound: the types, that success is never
   synthesized, that a verdict is final, and that it stops a run.             *)
EXTENDS AdminOperations, TLAPS

-------------------------------------------------------------------------------
(* The inductive invariant. *)

EffectRecord ==
  [submitted : BOOLEAN, cancels : Nat, executed : SUBSET Nat, recorded : SUBSET Nat,
   again : BOOLEAN]

(* What the journal says of an operation, given the items that were executed. *)
RowSound(r, executed) ==
  r # Absent =>
    /\ r.state = "succeeded" => 1..ItemsOf(r.kind) \subseteq executed
    /\ r.checkpoint # Absent => 1..r.checkpoint \subseteq executed
    /\ r.state \in TerminalStates => r.owner = Absent

(* What a run has done, whoever owns the row by now: it has executed all the items
   before its next one, and one that ended well the whole operation.          *)
RunSound(s, r, executed) ==
  /\ s.next # 0
  /\ 1..(s.next - 1) \subseteq executed
  /\ s.pc \in {"executing", "record"} => s.next <= WarmItems
  /\ s.pc = "record" => s.next \in executed
  /\ s.pc = "working" /\ r # Absent => r.kind # "warm"
  /\ s.pc = "done" /\ s.result = "ok" /\ r # Absent => 1..ItemsOf(r.kind) \subseteq executed

(* Nothing knows of an operation that was not submitted, and a pruned one is not
   submitted again.                                                           *)
Unknown(o) == row[o] = Absent /\ \A w \in Workers : run[w][o].pc = "none"

OperationInv ==
  /\ OperationTypeOK
  /\ effects \in [Ops -> EffectRecord]
  /\ \A w \in Workers \ up : boot[w] < MaxOpBoots
  /\ \A o \in Ops : ~effects[o].submitted => Unknown(o)
  /\ \A o \in Ops : RowSound(row[o], effects[o].executed)
  /\ \A w \in Workers, o \in Ops : RunSound(run[w][o], row[o], effects[o].executed)

-------------------------------------------------------------------------------
(* Executing more items, and a row that changes or is pruned, leave a run sound. *)
LEMMA RunSoundKept ==
  ASSUME NEW s, NEW r1, NEW r2, NEW ex1, NEW ex2, RunSound(s, r1, ex1), ex1 \subseteq ex2,
         \/ r2 = Absent
         \/ r1 # Absent /\ r2.kind = r1.kind
         \/ s.pc = "none"
  PROVE  RunSound(s, r2, ex2)
  BY DEF RunSound

(* One operation changes, on the word of one instance. *)
LEMMA OneOperation ==
  ASSUME OperationInv, NEW w \in Workers, NEW o \in Ops,
         NEW r \in Row \cup {Absent}, NEW s \in Run, NEW e \in EffectRecord,
         row' = [row EXCEPT ![o] = r], run' = [run EXCEPT ![w][o] = s],
         effects' = [effects EXCEPT ![o] = e],
         UNCHANGED <<boot, up>>,
         pending' \in [Workers -> SUBSET Ops],
         request' \in [Workers -> [Ops -> Lease \cup {Absent}]],
         sweep' \in [Workers -> [Ops -> {"none", "recovered", "terminalize"}]],
         effects[o].executed \subseteq e.executed,
         e.submitted,
         \/ r = Absent
         \/ row[o] # Absent /\ r.kind = row[o].kind
         \/ Unknown(o),
         RowSound(r, e.executed), RunSound(s, r, e.executed)
  PROVE  OperationInv'
<1>1. /\ row \in [Ops -> Row \cup {Absent}] /\ run \in [Workers -> [Ops -> Run]]
      /\ effects \in [Ops -> EffectRecord]
  BY DEF OperationInv, OperationTypeOK
<1>2. /\ row' \in [Ops -> Row \cup {Absent}] /\ run' \in [Workers -> [Ops -> Run]]
      /\ effects' \in [Ops -> EffectRecord]
  BY <1>1
<1>3. /\ row'[o] = r /\ effects'[o] = e
      /\ \A p \in Ops \ {o} : row'[p] = row[p] /\ effects'[p] = effects[p]
  BY <1>1
<1>4. \A x \in Workers, p \in Ops : run'[x][p] = IF x = w /\ p = o THEN s ELSE run[x][p]
  BY <1>1
<1>5. OperationTypeOK'
  BY <1>2 DEF OperationInv, OperationTypeOK
<1>6. \A x \in Workers \ up' : boot'[x] < MaxOpBoots
  BY DEF OperationInv
<1>7. ASSUME NEW p \in Ops, ~effects'[p].submitted PROVE Unknown(p)'
  BY <1>3, <1>4, <1>7 DEF OperationInv, Unknown
<1>8. ASSUME NEW p \in Ops PROVE RowSound(row'[p], effects'[p].executed)
  BY <1>3 DEF OperationInv
<1>9. ASSUME NEW x \in Workers, NEW p \in Ops
      PROVE  RunSound(run'[x][p], row'[p], effects'[p].executed)
  <2>1. CASE p # o
    BY <1>3, <1>4, <2>1 DEF OperationInv
  <2>2. CASE p = o /\ x = w
    BY <1>3, <1>4, <2>2
  <2>3. CASE p = o /\ x # w
    <3>1. RunSound(run[x][o], row[o], effects[o].executed)
      BY DEF OperationInv
    <3>2. RunSound(run[x][o], r, e.executed)
      BY <3>1, RunSoundKept DEF Unknown
    <3> QED
      BY <1>3, <1>4, <2>3, <3>2
  <2> QED
    BY <2>1, <2>2, <2>3
<1> QED
  BY <1>2, <1>5, <1>6, <1>7, <1>8, <1>9 DEF OperationInv

(* What is known of one operation on one instance. *)
LEMMA Known ==
  ASSUME OperationInv, NEW w \in Workers, NEW o \in Ops
  PROVE  /\ row[o] \in Row \cup {Absent} /\ run[w][o] \in Run /\ effects[o] \in EffectRecord
         /\ row = [row EXCEPT ![o] = row[o]] /\ run = [run EXCEPT ![w][o] = run[w][o]]
         /\ effects = [effects EXCEPT ![o] = effects[o]]
         /\ RowSound(row[o], effects[o].executed)
         /\ RunSound(run[w][o], row[o], effects[o].executed)
         /\ row[o] # Absent \/ run[w][o].pc # "none" => effects[o].submitted
         /\ Me(w) \in Owner
         /\ \A r \in Row \cup {Absent} : row' = [row EXCEPT ![o] = r] => row'[o] = r
<1>1. /\ row \in [Ops -> Row \cup {Absent}] /\ run \in [Workers -> [Ops -> Run]]
      /\ effects \in [Ops -> EffectRecord] /\ boot \in [Workers -> 1..MaxOpBoots]
  BY DEF OperationInv, OperationTypeOK
<1>2. /\ row[o] \in Row \cup {Absent} /\ run[w][o] \in Run /\ effects[o] \in EffectRecord
      /\ row = [row EXCEPT ![o] = row[o]] /\ run = [run EXCEPT ![w][o] = run[w][o]]
      /\ effects = [effects EXCEPT ![o] = effects[o]]
      /\ \A r \in Row \cup {Absent} : row' = [row EXCEPT ![o] = r] => row'[o] = r
  BY <1>1
<1>3. /\ RowSound(row[o], effects[o].executed)
      /\ RunSound(run[w][o], row[o], effects[o].executed)
  BY DEF OperationInv
<1>4. row[o] # Absent \/ run[w][o].pc # "none" => effects[o].submitted
  BY DEF OperationInv, Unknown
<1>5. Me(w) \in Owner
  BY <1>1 DEF Me, Owner
<1> QED
  BY <1>2, <1>3, <1>4, <1>5

-------------------------------------------------------------------------------
(* What the journal's operators do to a row. *)

(* A row that is updated in a live state, or given up by its owner. *)
Follows(n, r) ==
  /\ n \in Row /\ r \in Row
  /\ n.kind = r.kind /\ n.checkpoint = r.checkpoint
  /\ n.state \in TerminalStates => n.owner = Absent

LEMMA FollowsSound ==
  ASSUME NEW n, NEW r, NEW executed, Follows(n, r), r # Absent, RowSound(r, executed),
         n.state = "succeeded" => r.state = "succeeded" \/ 1..ItemsOf(n.kind) \subseteq executed
  PROVE  RowSound(n, executed)
  BY DEF Follows, RowSound

LEMMA UpdatedRow ==
  ASSUME OperationInv, NEW o \in Ops, row[o] # Absent, NEW r \in Row, Update(o, r)
  PROVE  /\ row' = [row EXCEPT ![o] = row'[o]] /\ row'[o] \in Row
         /\ row'[o].kind = r.kind /\ row'[o].state = r.state /\ row'[o].owner = r.owner
         /\ row'[o].checkpoint = r.checkpoint /\ row'[o].epoch = r.epoch
<1> DEFINE n == [r EXCEPT !.revision = row[o].revision + 1]
<1>1. row \in [Ops -> Row \cup {Absent}]
  BY DEF OperationInv, OperationTypeOK
<1>2. row[o] \in Row
  BY <1>1
<1>3. /\ n \in Row /\ n.kind = r.kind /\ n.state = r.state /\ n.owner = r.owner
      /\ n.checkpoint = r.checkpoint /\ n.epoch = r.epoch
  BY <1>2 DEF Row
<1>4. row' = [row EXCEPT ![o] = n]
  BY DEF Update
<1> HIDE DEF n
<1>5. row'[o] = n
  BY <1>1, <1>4
<1> QED
  BY <1>3, <1>4, <1>5

LEMMA TerminatedRow ==
  ASSUME NEW r \in Row, NEW state \in TerminalStates
  PROVE  /\ Terminated(r, state) \in Row /\ Terminated(r, state).kind = r.kind
         /\ Terminated(r, state).state = state /\ Terminated(r, state).owner = Absent
         /\ Terminated(r, state).checkpoint = r.checkpoint
         /\ Terminated(r, state).revision = r.revision
  BY DEF Terminated, Released, Row, TerminalStates

(* terminalize: the row loses its owner and keeps its checkpoint. *)
LEMMA TerminalizedRow ==
  ASSUME OperationInv, NEW o \in Ops, row[o] # Absent,
         NEW state \in TerminalStates \ {"succeeded"}, Terminalize(o, state)
  PROVE  /\ row' = [row EXCEPT ![o] = row'[o]] /\ row'[o] \in Row
         /\ Follows(row'[o], row[o]) /\ row'[o].state = state
<1> DEFINE steps == IF row[o].state \in {"accepted", "queued", "claimed"} THEN 2 ELSE 1
           t == Terminated(row[o], state)
           n == [t EXCEPT !.revision = t.revision + steps]
<1>1. row \in [Ops -> Row \cup {Absent}]
  BY DEF OperationInv, OperationTypeOK
<1>2. row[o] \in Row
  BY <1>1
<1>3. steps \in Nat
  OBVIOUS
<1>4. /\ t \in Row /\ t.kind = row[o].kind /\ t.state = state /\ t.owner = Absent
      /\ t.checkpoint = row[o].checkpoint
  BY <1>2, TerminatedRow
<1>5. row' = [row EXCEPT ![o] = n]
  BY DEF Terminalize
<1> HIDE DEF t, steps
<1>6. /\ n \in Row /\ n.kind = row[o].kind /\ n.state = state /\ n.owner = Absent
      /\ n.checkpoint = row[o].checkpoint
  BY <1>3, <1>4 DEF Row
<1> HIDE DEF n
<1>7. row'[o] = n
  BY <1>1, <1>5
<1> QED
  BY <1>2, <1>5, <1>6, <1>7 DEF Follows

(* finish: nothing, or a row of this lease that ends with the given verdict. *)
LEMMA FinishedRow ==
  ASSUME OperationInv, NEW o \in Ops, NEW lease, NEW state \in TerminalStates,
         FinishWithAudit(o, lease, state)
  PROVE  /\ row' = [row EXCEPT ![o] = row'[o]]
         /\ \/ row'[o] = row[o]
            \/ row[o] # Absent /\ Follows(row'[o], row[o]) /\ row'[o].state = state
<1>1. row \in [Ops -> Row \cup {Absent}]
  BY DEF OperationInv, OperationTypeOK
<1>2. CASE row' = row
  BY <1>1, <1>2
<1>3. CASE SameLease(o, lease) /\ Update(o, Terminated(row[o], state))
  <2>1. row[o] # Absent /\ row[o] \in Row
    BY <1>1, <1>3 DEF SameLease
  <2> DEFINE t == Terminated(row[o], state)
  <2>2. /\ t \in Row /\ t.kind = row[o].kind /\ t.state = state /\ t.owner = Absent
        /\ t.checkpoint = row[o].checkpoint
    BY <2>1, TerminatedRow
  <2>3. Update(o, t)
    BY <1>3
  <2> HIDE DEF t
  <2>4. /\ row' = [row EXCEPT ![o] = row'[o]] /\ row'[o] \in Row
        /\ row'[o].kind = t.kind /\ row'[o].state = t.state /\ row'[o].owner = t.owner
        /\ row'[o].checkpoint = t.checkpoint
    BY <2>1, <2>2, <2>3, UpdatedRow
  <2> QED
    BY <2>1, <2>2, <2>4 DEF Follows
<1> QED
  BY <1>2, <1>3 DEF FinishWithAudit

(* A local record that is made, or was there. *)
LEMMA SpawnedRun ==
  ASSUME OperationInv, NEW w \in Workers, NEW o \in Ops, NEW r, NEW next \in Nat \ {0},
         Spawn(w, o, next), 1..(next - 1) \subseteq effects[o].executed,
         (row[o] # Absent /\ r.kind = row[o].kind) \/ Unknown(o)
  PROVE  /\ run' = [run EXCEPT ![w][o] = run'[w][o]] /\ run'[w][o] \in Run
         /\ RunSound(run'[w][o], r, effects[o].executed)
<1>1. run \in [Workers -> [Ops -> Run]]
  BY DEF OperationInv, OperationTypeOK
<1>2. CASE run[w][o].pc = "none"
  <2> DEFINE n == [NoRun EXCEPT !.pc = "ready", !.next = next]
  <2>1. n \in Run /\ n.pc = "ready" /\ n.next = next
    BY DEF NoRun, Run, RunStates
  <2>2. run' = [run EXCEPT ![w][o] = n]
    BY <1>2 DEF Spawn, SetRun
  <2> HIDE DEF n
  <2>3. run'[w][o] = n
    BY <1>1, <2>2
  <2>4. RunSound(n, r, effects[o].executed)
    BY <2>1 DEF RunSound
  <2> QED
    BY <2>1, <2>2, <2>3, <2>4
<1>3. CASE run[w][o].pc # "none"
  <2>1. run' = run
    BY <1>3 DEF Spawn
  <2>2. RunSound(run[w][o], r, effects[o].executed)
    <3>1. RunSound(run[w][o], row[o], effects[o].executed)
      BY DEF OperationInv
    <3> QED
      BY <3>1, RunSoundKept, <1>3 DEF Unknown
  <2> QED
    BY <1>1, <2>1, <2>2
<1> QED
  BY <1>2, <1>3

LEMMA SpawnedFresh ==
  ASSUME OperationInv, NEW w \in Workers, NEW o \in Ops, NEW r, Spawn(w, o, 1),
         (row[o] # Absent /\ r.kind = row[o].kind) \/ Unknown(o)
  PROVE  /\ run' = [run EXCEPT ![w][o] = run'[w][o]] /\ run'[w][o] \in Run
         /\ RunSound(run'[w][o], r, effects[o].executed)
<1> DEFINE next == 1
<1>1. next \in Nat \ {0} /\ Spawn(w, o, next) /\ 1..(next - 1) \subseteq effects[o].executed
  OBVIOUS
<1> HIDE DEF next
<1> QED
  BY <1>1, SpawnedRun

LEMMA NewRun ==
  ASSUME OperationInv, NEW w \in Workers, NEW o \in Ops, NEW n \in Run, SetRun(w, o, n)
  PROVE  run' = [run EXCEPT ![w][o] = run'[w][o]] /\ run'[w][o] = n
<1>1. run \in [Workers -> [Ops -> Run]]
  BY DEF OperationInv, OperationTypeOK
<1>2. run' = [run EXCEPT ![w][o] = n]
  BY DEF SetRun
<1>3. run'[w][o] = n
  BY <1>1, <1>2
<1> QED
  BY <1>2, <1>3

-------------------------------------------------------------------------------
(* One lemma per action. *)

LEMMA InitOperation == OperationInit => OperationInv
<1> SUFFICES ASSUME OperationInit PROVE OperationInv
  OBVIOUS
<1>1. NoRun \in Run /\ NoRun.pc = "none" /\ NoRun.next = 1
  BY DEF NoRun, Run, RunStates
<1>2. boot \in [Workers -> 1..MaxOpBoots]
  BY OperationAssumption DEF OperationInit
<1>3. OperationTypeOK
  BY <1>1, <1>2 DEF OperationInit, OperationTypeOK
<1>4. effects \in [Ops -> EffectRecord]
  BY DEF OperationInit, EffectRecord
<1>5. \A o \in Ops : Unknown(o)
  BY <1>1 DEF OperationInit, Unknown
<1>6. \A o \in Ops : RowSound(row[o], effects[o].executed)
  BY DEF OperationInit, RowSound
<1>7. \A w \in Workers, o \in Ops : RunSound(run[w][o], row[o], effects[o].executed)
  BY <1>1 DEF OperationInit, RunSound
<1> QED
  BY <1>3, <1>4, <1>5, <1>6, <1>7 DEF OperationInv, OperationInit

LEMMA SubmitOperation ==
  ASSUME OperationInv, NEW w \in Workers, NEW o \in Ops, NEW kind \in OpKinds, Submit(w, o, kind)
  PROVE  OperationInv'
<1> DEFINE e == [effects[o] EXCEPT !.submitted = TRUE]
           r(state, n) == NewRow(w, kind, state, n)
<1>1. Unknown(o) /\ effects[o] \in EffectRecord /\ Me(w) \in Owner
  BY Known DEF Submit, OperationInv
<1>2. /\ e \in EffectRecord /\ e.submitted /\ e.executed = effects[o].executed
      /\ effects' = [effects EXCEPT ![o] = e]
  BY <1>1 DEF Submit, EffectRecord
<1> HIDE DEF e
<1>3. ASSUME NEW state \in {"accepted", "queued"}, NEW n \in Nat
      PROVE  /\ r(state, n) \in Row /\ RowSound(r(state, n), e.executed)
  BY <1>1 DEF NewRow, Row, LiveStates, TerminalStates, RowSound
<1>4. UNCHANGED <<boot, up, request, sweep>>
  BY DEF Submit
<1>5. CASE "anchor" \in OpFaults
  <2>1. /\ row' = [row EXCEPT ![o] = r("accepted", 1)]
        /\ pending' = [pending EXCEPT ![w] = @ \cup {o}] /\ run' = run
    BY <1>5 DEF Submit
  <2>2. pending' \in [Workers -> SUBSET Ops]
    BY <2>1 DEF OperationInv, OperationTypeOK
  <2>3. /\ run' = [run EXCEPT ![w][o] = run[w][o]] /\ run[w][o] \in Run
        /\ RunSound(run[w][o], row[o], effects[o].executed)
    BY <2>1, Known
  <2>4. RunSound(run[w][o], r("accepted", 1), e.executed)
    BY <1>1, <1>2, <2>3, RunSoundKept DEF Unknown
  <2>5. r("accepted", 1) \in Row /\ RowSound(r("accepted", 1), e.executed)
    BY <1>3
  <2> HIDE DEF r
  <2>6. /\ request' \in [Workers -> [Ops -> Lease \cup {Absent}]]
        /\ sweep' \in [Workers -> [Ops -> {"none", "recovered", "terminalize"}]]
    BY <1>4 DEF OperationInv, OperationTypeOK
  <2> QED
    BY <1>1, <1>2, <1>4, <2>1, <2>2, <2>3, <2>4, <2>5, <2>6, OneOperation
<1>6. CASE "anchor" \notin OpFaults
  <2>1. /\ row' = [row EXCEPT ![o] = r("queued", 2)] /\ Spawn(w, o, 1) /\ pending' = pending
    BY <1>6 DEF Submit
  <2>2. r("queued", 2) \in Row /\ RowSound(r("queued", 2), e.executed)
    BY <1>3
  <2> HIDE DEF r
  <2>3. /\ run' = [run EXCEPT ![w][o] = run'[w][o]] /\ run'[w][o] \in Run
        /\ RunSound(run'[w][o], r("queued", 2), effects[o].executed)
    BY <1>1, <2>1, SpawnedFresh
  <2>4. /\ request' \in [Workers -> [Ops -> Lease \cup {Absent}]]
        /\ sweep' \in [Workers -> [Ops -> {"none", "recovered", "terminalize"}]]
        /\ pending' \in [Workers -> SUBSET Ops]
    BY <1>4, <2>1 DEF OperationInv, OperationTypeOK
  <2> QED
    BY <1>1, <1>2, <1>4, <2>1, <2>2, <2>3, <2>4, OneOperation
<1> QED
  BY <1>5, <1>6

-------------------------------------------------------------------------------
(* Steps that execute nothing. *)

OthersTyped ==
  /\ pending \in [Workers -> SUBSET Ops]
  /\ request \in [Workers -> [Ops -> Lease \cup {Absent}]]
  /\ sweep \in [Workers -> [Ops -> {"none", "recovered", "terminalize"}]]

(* Neither the journal nor a run changes. *)
LEMMA QuietStep ==
  ASSUME OperationInv, UNCHANGED <<row, boot, up, run, effects>>, OthersTyped'
  PROVE  OperationInv'
<1>1. OperationTypeOK'
  BY DEF OperationInv, OperationTypeOK, OthersTyped
<1> QED
  BY <1>1 DEF OperationInv, Unknown

(* A row changes, or a run, or both. *)
LEMMA LocalStep ==
  ASSUME OperationInv, NEW w \in Workers, NEW o \in Ops,
         row' = [row EXCEPT ![o] = row'[o]], run' = [run EXCEPT ![w][o] = run'[w][o]],
         run'[w][o] \in Run, UNCHANGED <<boot, up, effects>>, OthersTyped',
         \/ row'[o] = row[o]
         \/ row[o] # Absent /\ row'[o] \in Row /\ row'[o].kind = row[o].kind,
         RowSound(row'[o], effects[o].executed),
         RunSound(run'[w][o], row[o], effects[o].executed),
         \/ row[o] # Absent \/ run[w][o].pc # "none"
         \/ row'[o] = row[o] /\ run'[w][o] = run[w][o]
  PROVE  OperationInv'
<1> DEFINE r == row'[o]
           s == run'[w][o]
<1>1. /\ row[o] \in Row \cup {Absent} /\ effects[o] \in EffectRecord
      /\ row = [row EXCEPT ![o] = row[o]] /\ run = [run EXCEPT ![w][o] = run[w][o]]
      /\ effects = [effects EXCEPT ![o] = effects[o]]
      /\ row[o] # Absent \/ run[w][o].pc # "none" => effects[o].submitted
  BY Known
<1>2. CASE effects[o].submitted
  <2>1. r \in Row \cup {Absent} /\ s \in Run
    BY <1>1
  <2>2. r = Absent \/ (row[o] # Absent /\ r.kind = row[o].kind)
    BY <1>1
  <2>3. /\ row' = [row EXCEPT ![o] = r] /\ run' = [run EXCEPT ![w][o] = s]
        /\ RowSound(r, effects[o].executed) /\ RunSound(s, row[o], effects[o].executed)
    OBVIOUS
  <2>4. effects' = [effects EXCEPT ![o] = effects[o]]
    BY <1>1
  <2> HIDE DEF r, s
  <2>5. RunSound(s, r, effects[o].executed)
    BY <2>2, <2>3, RunSoundKept
  <2> QED
    BY <1>1, <1>2, <2>1, <2>2, <2>3, <2>4, <2>5, OneOperation DEF OthersTyped
<1>3. CASE ~effects[o].submitted
  <2>1. row'[o] = row[o] /\ run'[w][o] = run[w][o]
    BY <1>1, <1>3
  <2>2. UNCHANGED <<row, run>>
    BY <1>1, <2>1
  <2> QED
    BY <2>2, QuietStep
<1> QED
  BY <1>2, <1>3

(* A row changes, whoever does it. *)
LEMMA RowStep ==
  ASSUME OperationInv, NEW o \in Ops, NEW r \in Row, row' = [row EXCEPT ![o] = r],
         row[o] # Absent, r.kind = row[o].kind, RowSound(r, effects[o].executed),
         UNCHANGED <<boot, up, run, pending, request, sweep, effects>>
  PROVE  OperationInv'
<1>1. row \in [Ops -> Row \cup {Absent}]
  BY DEF OperationInv, OperationTypeOK
<1>2. /\ row' \in [Ops -> Row \cup {Absent}] /\ row'[o] = r
      /\ \A p \in Ops \ {o} : row'[p] = row[p]
  BY <1>1
<1>3. OperationTypeOK'
  BY <1>2 DEF OperationInv, OperationTypeOK
<1>4. ASSUME NEW p \in Ops, ~effects'[p].submitted PROVE Unknown(p)'
  BY <1>2, <1>4 DEF OperationInv, Unknown
<1>5. \A p \in Ops : RowSound(row'[p], effects'[p].executed)
  BY <1>2 DEF OperationInv
<1>6. ASSUME NEW w \in Workers, NEW p \in Ops
      PROVE  RunSound(run'[w][p], row'[p], effects'[p].executed)
  <2>1. RunSound(run[w][p], row[p], effects[p].executed)
    BY DEF OperationInv
  <2>2. CASE p = o
    <3>1. RunSound(run[w][o], r, effects[o].executed)
      BY <2>1, <2>2, RunSoundKept
    <3> QED
      BY <1>2, <2>2, <3>1
  <2>3. CASE p # o
    BY <1>2, <2>1, <2>3
  <2> QED
    BY <2>2, <2>3
<1> QED
  BY <1>3, <1>4, <1>5, <1>6 DEF OperationInv

LEMMA TimeOperation ==
  ASSUME OperationInv, NEW o \in Ops, LeaseExpires(o) \/ LifetimeExpires(o) \/ AnchorConfirms(o)
  PROVE  OperationInv'
<1>1. row[o] # Absent
  BY DEF LeaseExpires, LifetimeExpires, AnchorConfirms, IsLive, IsTerminal
<1>2. row[o] \in Row /\ RowSound(row[o], effects[o].executed)
  BY <1>1 DEF OperationInv, OperationTypeOK
<1>3. PICK r \in {[row[o] EXCEPT !.live = FALSE], [row[o] EXCEPT !.old = TRUE],
                  [row[o] EXCEPT !.confirmed = TRUE]} : row' = [row EXCEPT ![o] = r]
  BY DEF LeaseExpires, LifetimeExpires, AnchorConfirms
<1>4. /\ r \in Row /\ r.kind = row[o].kind /\ r.state = row[o].state /\ r.owner = row[o].owner
      /\ r.checkpoint = row[o].checkpoint
  BY <1>2, <1>3 DEF Row
<1>5. RowSound(r, effects[o].executed)
  BY <1>1, <1>2, <1>4 DEF RowSound
<1>6. UNCHANGED <<boot, up, run, pending, request, sweep, effects>>
  BY DEF LeaseExpires, LifetimeExpires, AnchorConfirms
<1> QED
  BY <1>1, <1>3, <1>4, <1>5, <1>6, RowStep

-------------------------------------------------------------------------------
(* Submission and the claim. *)

(* The pending, request and sweep tables of the steps that leave them alone. *)
LEMMA OthersKept ==
  ASSUME OperationInv, UNCHANGED <<request, sweep>>, pending' \in [Workers -> SUBSET Ops]
  PROVE  OthersTyped'
  BY DEF OperationInv, OperationTypeOK, OthersTyped

(* An accepted row is queued. *)
LEMMA QueuedRow ==
  ASSUME OperationInv, NEW o \in Ops, row[o] # Absent, row[o].state = "accepted",
         Update(o, [row[o] EXCEPT !.state = "queued"])
  PROVE  /\ row' = [row EXCEPT ![o] = row'[o]] /\ row'[o] \in Row
         /\ row'[o].kind = row[o].kind /\ RowSound(row'[o], effects[o].executed)
<1> DEFINE n == [row[o] EXCEPT !.state = "queued"]
<1>1. row[o] \in Row /\ RowSound(row[o], effects[o].executed)
  BY DEF OperationInv, OperationTypeOK
<1>2. n \in Row /\ n.kind = row[o].kind /\ n.state = "queued" /\ n.checkpoint = row[o].checkpoint
  BY <1>1 DEF Row, LiveStates
<1>3. Update(o, n)
  OBVIOUS
<1> HIDE DEF n
<1>4. /\ row' = [row EXCEPT ![o] = row'[o]] /\ row'[o] \in Row
      /\ row'[o].kind = n.kind /\ row'[o].state = n.state /\ row'[o].checkpoint = n.checkpoint
  BY <1>2, <1>3, UpdatedRow
<1>5. RowSound(row'[o], effects[o].executed)
  BY <1>1, <1>2, <1>4 DEF RowSound, TerminalStates
<1> QED
  BY <1>2, <1>4, <1>5

LEMMA QueueOperation ==
  ASSUME OperationInv, NEW w \in Workers, NEW o \in Ops, Queue(w, o)
  PROVE  OperationInv'
<1>1. pending' \in [Workers -> SUBSET Ops] /\ UNCHANGED <<boot, up, request, sweep, effects>>
  BY DEF Queue, OperationInv, OperationTypeOK
<1>2. OthersTyped'
  BY <1>1, OthersKept
<1>3. CASE row[o] # Absent /\ row[o].state = "accepted"
  <2>1. Update(o, [row[o] EXCEPT !.state = "queued"]) /\ Spawn(w, o, 1)
    BY <1>3 DEF Queue
  <2>2. /\ row' = [row EXCEPT ![o] = row'[o]] /\ row'[o] \in Row
        /\ row'[o].kind = row[o].kind /\ RowSound(row'[o], effects[o].executed)
    BY <1>3, <2>1, QueuedRow
  <2>3. /\ run' = [run EXCEPT ![w][o] = run'[w][o]] /\ run'[w][o] \in Run
        /\ RunSound(run'[w][o], row[o], effects[o].executed)
    BY <1>3, <2>1, SpawnedFresh
  <2> QED
    BY <1>1, <1>2, <1>3, <2>2, <2>3, LocalStep
<1>4. CASE ~(row[o] # Absent /\ row[o].state = "accepted")
  BY <1>1, <1>2, <1>4, QuietStep DEF Queue
<1> QED
  BY <1>3, <1>4

LEMMA ReplayOperation ==
  ASSUME OperationInv, NEW w \in Workers, NEW o \in Ops, Replay(w, o)
  PROVE  OperationInv'
<1>1. /\ pending' \in [Workers -> SUBSET Ops] /\ UNCHANGED <<boot, up, request, sweep, effects>>
      /\ row[o] # Absent /\ Spawn(w, o, 1)
  BY DEF Replay, OperationInv, OperationTypeOK
<1>2. OthersTyped'
  BY <1>1, OthersKept
<1>3. /\ run' = [run EXCEPT ![w][o] = run'[w][o]] /\ run'[w][o] \in Run
      /\ RunSound(run'[w][o], row[o], effects[o].executed)
  BY <1>1, SpawnedFresh
<1>4. CASE row[o].state = "accepted"
  <2>1. /\ row' = [row EXCEPT ![o] = row'[o]] /\ row'[o] \in Row
        /\ row'[o].kind = row[o].kind /\ RowSound(row'[o], effects[o].executed)
    BY <1>1, <1>4, QueuedRow DEF Replay
  <2> QED
    BY <1>1, <1>2, <1>3, <2>1, LocalStep
<1>5. CASE row[o].state # "accepted"
  <2>1. row' = row
    BY <1>5 DEF Replay
  <2>2. row' = [row EXCEPT ![o] = row'[o]] /\ RowSound(row'[o], effects[o].executed)
    BY <2>1, Known
  <2> QED
    BY <1>1, <1>2, <1>3, <2>1, <2>2, LocalStep
<1> QED
  BY <1>4, <1>5

(* A run that only changes its lease and its flags, or stops short of success. *)
LEMMA RunKept ==
  ASSUME NEW s \in Run, NEW n, NEW r, NEW executed, RunSound(s, r, executed),
         n.next = s.next,
         \/ n.pc = s.pc /\ n.result = s.result
         \/ n.pc \in {"claimed", "item", "ended"}
         \/ n.pc = "done" /\ n.result # "ok"
  PROVE  RunSound(n, r, executed)
  BY DEF RunSound

(* A lease with an owner. *)
LEMMA LeaseHeld ==
  ASSUME NEW r \in Row
  PROVE  LeaseOf(r) \in Lease /\ (r.owner # Absent => LeaseOf(r) \in HeldLease)
  BY DEF LeaseOf, Lease, HeldLease, Row

LEMMA ClaimOperation ==
  ASSUME OperationInv, NEW w \in Workers, NEW o \in Ops, Claim(w, o)
  PROVE  OperationInv'
<1> DEFINE r == run[w][o]
           free == row[o] # Absent /\ row[o].state = "queued" /\ row[o].owner = Absent /\ ~row[o].old
<1>1. /\ r \in Run /\ r.pc = "ready" /\ RunSound(r, row[o], effects[o].executed)
      /\ RowSound(row[o], effects[o].executed) /\ Me(w) \in Owner
      /\ row = [row EXCEPT ![o] = row[o]] /\ row[o] \in Row \cup {Absent}
  BY Known DEF Claim
<1>2. /\ pending' \in [Workers -> SUBSET Ops] /\ UNCHANGED <<boot, up, request, sweep, effects>>
  BY DEF Claim, OperationInv, OperationTypeOK
<1>3. OthersTyped'
  BY <1>2, OthersKept
<1>4. CASE free
  <2> DEFINE n == [row[o] EXCEPT !.state = "claimed", !.owner = Me(w), !.epoch = @ + 1, !.live = TRUE]
             t == [r EXCEPT !.pc = "claimed", !.lease = LeaseOf(row'[o])]
  <2>1. /\ n \in Row /\ n.kind = row[o].kind /\ n.state = "claimed" /\ n.owner = Me(w)
        /\ n.checkpoint = row[o].checkpoint
    <3> DEFINE x == row[o]
               own == Me(w)
    <3>1. x \in Row /\ own \in Owner /\ x.epoch + 1 \in Nat
      BY <1>1, <1>4 DEF Row
    <3>2. n = [x EXCEPT !.state = "claimed", !.owner = own, !.epoch = x.epoch + 1, !.live = TRUE]
      OBVIOUS
    <3> HIDE DEF x, own, t, n
    <3>3. /\ n \in Row /\ n.kind = x.kind /\ n.state = "claimed" /\ n.owner = own
          /\ n.checkpoint = x.checkpoint
      BY <3>1, <3>2 DEF Row, LiveStates
    <3> QED
      BY <3>3 DEF x, own
  <2>2. Update(o, n) /\ SetRun(w, o, t)
    BY <1>4 DEF Claim
  <2> HIDE DEF n
  <2>3. /\ row' = [row EXCEPT ![o] = row'[o]] /\ row'[o] \in Row
        /\ row'[o].kind = n.kind /\ row'[o].state = n.state /\ row'[o].owner = n.owner
        /\ row'[o].checkpoint = n.checkpoint
    BY <1>4, <2>1, <2>2, UpdatedRow
  <2>4. LeaseOf(row'[o]) \in HeldLease
    BY <1>1, <2>1, <2>3 DEF LeaseOf, HeldLease, Row
  <2>5. t \in Run /\ t.pc = "claimed" /\ t.next = r.next
    BY <1>1, <2>4 DEF Run, RunStates
  <2> HIDE DEF t
  <2>6. run' = [run EXCEPT ![w][o] = run'[w][o]] /\ run'[w][o] = t
    BY <2>2, <2>5, NewRun
  <2>7. RunSound(t, row[o], effects[o].executed)
    BY <1>1, <2>5, RunKept
  <2>8. RowSound(row'[o], effects[o].executed)
    BY <1>1, <1>4, <2>1, <2>3 DEF RowSound, TerminalStates
  <2> QED
    BY <1>2, <1>3, <1>4, <2>1, <2>3, <2>5, <2>6, <2>7, <2>8, LocalStep
<1>5. CASE ~free
  <2> DEFINE t == [r EXCEPT !.pc = "ended"]
  <2>1. t \in Run /\ t.pc = "ended" /\ t.next = r.next
    BY <1>1 DEF Run, RunStates
  <2>2. SetRun(w, o, t) /\ row' = row
    BY <1>5 DEF Claim
  <2> HIDE DEF t
  <2>3. run' = [run EXCEPT ![w][o] = run'[w][o]] /\ run'[w][o] = t
    BY <2>1, <2>2, NewRun
  <2>4. RunSound(t, row[o], effects[o].executed)
    BY <1>1, <2>1, RunKept
  <2>5. row' = [row EXCEPT ![o] = row'[o]] /\ RowSound(row'[o], effects[o].executed)
    BY <1>1, <2>2
  <2> QED
    BY <1>1, <1>2, <1>3, <2>1, <2>2, <2>3, <2>4, <2>5, LocalStep
<1> QED
  BY <1>4, <1>5

-------------------------------------------------------------------------------
(* One run of an operation. *)

(* The pending, request and sweep tables are left alone. *)
LEMMA OthersStay ==
  ASSUME OperationInv, UNCHANGED <<pending, request, sweep>>
  PROVE  OthersTyped'
  BY DEF OperationInv, OperationTypeOK, OthersTyped

LEMMA RefreshedRun ==
  ASSUME OperationInv, NEW o \in Ops, NEW s \in Run, SameLease(o, s.lease)
  PROVE  /\ Refreshed(o, s) \in Run /\ Refreshed(o, s).pc = s.pc
         /\ Refreshed(o, s).next = s.next /\ Refreshed(o, s).result = s.result
<1> DEFINE lease == LeaseOf(row[o])
           cancel == s.cancel \/ row[o].state = "cancellation_requested"
<1>1. row[o] \in Row /\ row[o].owner # Absent
  BY DEF SameLease, OperationInv, OperationTypeOK
<1>2. lease \in HeldLease
  BY <1>1, LeaseHeld
<1>3. cancel \in BOOLEAN
  BY DEF Run
<1>4. Refreshed(o, s) = [s EXCEPT !.lease = lease, !.cancel = cancel]
  BY DEF Refreshed
<1> HIDE DEF lease, cancel
<1> QED
  BY <1>2, <1>3, <1>4 DEF Run

(* A run without authority is told to stop. *)
LEMMA CancelledRun ==
  ASSUME NEW s \in Run
  PROVE  /\ [s EXCEPT !.cancel = TRUE] \in Run /\ [s EXCEPT !.cancel = TRUE].pc = s.pc
         /\ [s EXCEPT !.cancel = TRUE].next = s.next /\ [s EXCEPT !.cancel = TRUE].cancel
         /\ [s EXCEPT !.cancel = TRUE].result = s.result
         /\ [s EXCEPT !.cancel = TRUE, !.lost = TRUE] \in Run
         /\ [s EXCEPT !.cancel = TRUE, !.lost = TRUE].pc = s.pc
         /\ [s EXCEPT !.cancel = TRUE, !.lost = TRUE].next = s.next
         /\ [s EXCEPT !.cancel = TRUE, !.lost = TRUE].result = s.result
  BY DEF Run

LEMMA StoppedRun ==
  ASSUME NEW s \in Run, NEW result \in {"ok", "error", "cancelled"}
  PROVE  /\ Stopped(s, result) \in Run /\ Stopped(s, result).pc = "done"
         /\ Stopped(s, result).next = s.next /\ Stopped(s, result).result = result
  BY DEF Stopped, Run, RunStates

LEMMA MovedRun ==
  ASSUME NEW s \in Run, NEW pc \in RunStates
  PROVE  /\ [s EXCEPT !.pc = pc] \in Run /\ [s EXCEPT !.pc = pc].pc = pc
         /\ [s EXCEPT !.pc = pc].next = s.next /\ [s EXCEPT !.pc = pc].result = s.result
  BY DEF Run

LEMMA LeasedRun ==
  ASSUME NEW s \in Run, NEW lease \in HeldLease
  PROVE  /\ [s EXCEPT !.lease = lease] \in Run /\ [s EXCEPT !.lease = lease].pc = s.pc
         /\ [s EXCEPT !.lease = lease].next = s.next /\ [s EXCEPT !.lease = lease].result = s.result
         /\ [s EXCEPT !.lease = lease].cancel = s.cancel
  BY DEF Run

(* A row whose lease is this run's is updated by it. *)
LEMMA FencedUpdate ==
  ASSUME OperationInv, NEW o \in Ops, row[o] # Absent, row[o].owner # Absent,
         NEW r \in Row, r.owner = row[o].owner, r.kind = row[o].kind, Update(o, r)
  PROVE  /\ row' = [row EXCEPT ![o] = row'[o]] /\ row'[o] \in Row
         /\ row'[o].kind = row[o].kind /\ row'[o].state = r.state
         /\ row'[o].checkpoint = r.checkpoint /\ LeaseOf(row'[o]) \in HeldLease
<1>1. /\ row' = [row EXCEPT ![o] = row'[o]] /\ row'[o] \in Row
      /\ row'[o].kind = r.kind /\ row'[o].state = r.state /\ row'[o].owner = r.owner
      /\ row'[o].checkpoint = r.checkpoint
  BY UpdatedRow
<1> QED
  BY <1>1, LeaseHeld

LEMMA StartOperation ==
  ASSUME OperationInv, NEW w \in Workers, NEW o \in Ops, Start(w, o)
  PROVE  OperationInv'
<1> DEFINE r == run[w][o]
<1>1. /\ r \in Run /\ r.pc = "claimed" /\ RunSound(r, row[o], effects[o].executed)
      /\ RowSound(row[o], effects[o].executed)
      /\ row = [row EXCEPT ![o] = row[o]] /\ row[o] \in Row \cup {Absent}
  BY Known DEF Start
<1>2. UNCHANGED <<boot, up, pending, request, sweep, effects>>
  BY DEF Start
<1>3. OthersTyped'
  BY <1>2, OthersStay
<1>4. CASE Fenced(o, r.lease) /\ row[o].state = "claimed"
  <2> DEFINE n == [row[o] EXCEPT !.state = "running"]
             pc == IF row[o].kind = "warm" THEN "item" ELSE "working"
             t == [r EXCEPT !.lease = LeaseOf(row'[o]), !.pc = pc]
  <2>1. row[o] # Absent /\ row[o].owner # Absent /\ row[o] \in Row
    BY <1>1, <1>4 DEF Fenced, SameLease
  <2>2. Update(o, n) /\ SetRun(w, o, t)
    BY <1>4 DEF Start
  <2>3. /\ n \in Row /\ n.kind = row[o].kind /\ n.state = "running" /\ n.owner = row[o].owner
        /\ n.checkpoint = row[o].checkpoint
    BY <2>1 DEF Row, LiveStates
  <2> HIDE DEF n
  <2>4. /\ row' = [row EXCEPT ![o] = row'[o]] /\ row'[o] \in Row
        /\ row'[o].kind = row[o].kind /\ row'[o].state = n.state
        /\ row'[o].checkpoint = n.checkpoint /\ LeaseOf(row'[o]) \in HeldLease
    BY <2>1, <2>2, <2>3, FencedUpdate
  <2>5. RowSound(row'[o], effects[o].executed)
    BY <1>1, <2>1, <2>3, <2>4 DEF RowSound, TerminalStates
  <2>6. /\ pc \in RunStates /\ pc \in {"item", "working"} /\ (pc = "working" => row[o].kind # "warm")
    BY DEF RunStates
  <2> HIDE DEF pc
  <2>7. t \in Run /\ t.pc = pc /\ t.next = r.next
    BY <1>1, <2>4, <2>6 DEF Run
  <2> HIDE DEF t
  <2>8. RunSound(t, row[o], effects[o].executed)
    BY <1>1, <2>6, <2>7 DEF RunSound
  <2>9. run' = [run EXCEPT ![w][o] = run'[w][o]] /\ run'[w][o] = t
    BY <2>2, <2>7, NewRun
  <2> QED
    BY <1>2, <1>3, <2>1, <2>4, <2>5, <2>7, <2>8, <2>9, LocalStep
<1>5. CASE ~(Fenced(o, r.lease) /\ row[o].state = "claimed")
  <2> DEFINE t == [r EXCEPT !.pc = "ended"]
  <2>1. t \in Run /\ t.pc = "ended" /\ t.next = r.next
    BY <1>1 DEF Run, RunStates
  <2>2. SetRun(w, o, t) /\ (row' = row \/ FinishWithAudit(o, LeaseOf(row[o]), "cancelled"))
    BY <1>5 DEF Start
  <2> HIDE DEF t
  <2>3. run' = [run EXCEPT ![w][o] = run'[w][o]] /\ run'[w][o] = t
    BY <2>1, <2>2, NewRun
  <2>4. RunSound(t, row[o], effects[o].executed)
    BY <1>1, <2>1, RunKept
  <2>5. /\ row' = [row EXCEPT ![o] = row'[o]]
        /\ \/ row'[o] = row[o]
           \/ row[o] # Absent /\ Follows(row'[o], row[o]) /\ row'[o].state = "cancelled"
    <3>1. CASE row' = row
      BY <1>1, <3>1
    <3>2. CASE FinishWithAudit(o, LeaseOf(row[o]), "cancelled")
      BY <3>2, FinishedRow DEF TerminalStates
    <3> QED
      BY <2>2, <3>1, <3>2
  <2>6. RowSound(row'[o], effects[o].executed)
    BY <1>1, <2>5, FollowsSound
  <2> QED
    BY <1>1, <1>2, <1>3, <2>1, <2>3, <2>4, <2>5, <2>6, LocalStep DEF Follows
<1> QED
  BY <1>4, <1>5

(* What a run does once it has looked at its lease. *)
Onward(s) ==
  IF s.cancel /\ s.next <= WarmItems THEN Stopped(s, "cancelled")
  ELSE IF s.next > WarmItems THEN Stopped(s, "ok")
  ELSE [s EXCEPT !.pc = "executing"]

LEMMA OnwardSound ==
  ASSUME NEW s \in Run, NEW r, NEW executed, RunSound(s, r, executed)
  PROVE  Onward(s) \in Run /\ RunSound(Onward(s), r, executed)
<1>1. CASE s.cancel /\ s.next <= WarmItems
  BY <1>1, StoppedRun, RunKept DEF Onward
<1>2. CASE ~(s.cancel /\ s.next <= WarmItems) /\ s.next > WarmItems
  <2>1. Onward(s) = Stopped(s, "ok")
    BY <1>2 DEF Onward
  <2>2. /\ Stopped(s, "ok") \in Run /\ Stopped(s, "ok").pc = "done"
        /\ Stopped(s, "ok").next = s.next
    BY StoppedRun
  <2>3. \A k : ItemsOf(k) \in Nat /\ ItemsOf(k) <= WarmItems
    BY OperationAssumption DEF ItemsOf
  <2>4. s.next \in Nat /\ 1..(s.next - 1) \subseteq executed /\ WarmItems \in Nat
    BY OperationAssumption DEF Run, RunSound
  <2>5. \A k : 1..ItemsOf(k) \subseteq executed
    BY <1>2, <2>3, <2>4
  <2> QED
    BY <2>1, <2>2, <2>5 DEF RunSound
<1>3. CASE ~(s.cancel /\ s.next <= WarmItems) /\ ~(s.next > WarmItems)
  <2>1. Onward(s) = [s EXCEPT !.pc = "executing"]
    BY <1>3 DEF Onward
  <2>2. "executing" \in RunStates
    BY DEF RunStates
  <2>3. /\ Onward(s) \in Run /\ Onward(s).pc = "executing" /\ Onward(s).next = s.next
    BY <2>1, <2>2, MovedRun
  <2>4. s.next \in Nat /\ WarmItems \in Nat
    BY OperationAssumption DEF Run
  <2>5. s.next <= WarmItems
    BY <1>3, <2>4
  <2> QED
    BY <2>3, <2>5 DEF RunSound
<1> QED
  BY <1>1, <1>2, <1>3

LEMMA ProgressOperation ==
  ASSUME OperationInv, NEW w \in Workers, NEW o \in Ops, Progress(w, o)
  PROVE  OperationInv'
<1> DEFINE r == run[w][o]
<1>1. /\ r \in Run /\ r.pc = "item" /\ RunSound(r, row[o], effects[o].executed)
      /\ RowSound(row[o], effects[o].executed)
      /\ row = [row EXCEPT ![o] = row[o]] /\ row[o] \in Row \cup {Absent}
  BY Known DEF Progress
<1>2. UNCHANGED <<boot, up, pending, request, sweep, effects>>
  BY DEF Progress
<1>3. OthersTyped'
  BY <1>2, OthersStay
<1>4. ASSUME NEW t, t \in Run, RunSound(t, row[o], effects[o].executed), SetRun(w, o, t),
             row' = row
      PROVE  OperationInv'
  <2>1. run' = [run EXCEPT ![w][o] = run'[w][o]] /\ run'[w][o] = t
    BY <1>4, NewRun
  <2>2. row' = [row EXCEPT ![o] = row'[o]] /\ RowSound(row'[o], effects[o].executed)
    BY <1>1, <1>4
  <2> QED
    BY <1>1, <1>2, <1>3, <1>4, <2>1, <2>2, LocalStep
<1>5. CASE r.cancel /\ r.next <= WarmItems
  <2>1. SetRun(w, o, Stopped(r, "cancelled")) /\ row' = row
    BY <1>5 DEF Progress
  <2>2. /\ Stopped(r, "cancelled") \in Run
        /\ RunSound(Stopped(r, "cancelled"), row[o], effects[o].executed)
    BY <1>1, StoppedRun, RunKept
  <2> QED
    BY <1>4, <2>1, <2>2
<1>6. CASE ~(r.cancel /\ r.next <= WarmItems) /\ Writable(o, r)
  <2> DEFINE n == [row[o] EXCEPT !.checkpoint = Absent]
             s == [r EXCEPT !.lease = LeaseOf(row'[o])]
  <2>1. row[o] # Absent /\ row[o].owner # Absent /\ row[o] \in Row /\ row[o].state = "running"
    BY <1>1, <1>6 DEF Writable, Fenced, SameLease
  <2>2. Update(o, n) /\ SetRun(w, o, Onward(s))
    BY <1>6 DEF Progress, UpdateProgress, Onward
  <2>3. /\ n \in Row /\ n.kind = row[o].kind /\ n.state = row[o].state /\ n.owner = row[o].owner
        /\ n.checkpoint = Absent
    BY <2>1 DEF Row
  <2> HIDE DEF n
  <2>4. /\ row' = [row EXCEPT ![o] = row'[o]] /\ row'[o] \in Row
        /\ row'[o].kind = row[o].kind /\ row'[o].state = n.state
        /\ row'[o].checkpoint = n.checkpoint /\ LeaseOf(row'[o]) \in HeldLease
    BY <2>1, <2>2, <2>3, FencedUpdate
  <2>5. RowSound(row'[o], effects[o].executed)
    BY <2>1, <2>3, <2>4 DEF RowSound, TerminalStates
  <2>6. s \in Run /\ s.pc = r.pc /\ s.next = r.next /\ s.result = r.result
    BY <1>1, <2>4, LeasedRun
  <2> HIDE DEF s
  <2>7. RunSound(s, row[o], effects[o].executed)
    BY <1>1, <2>6, RunKept
  <2>8. Onward(s) \in Run /\ RunSound(Onward(s), row[o], effects[o].executed)
    BY <2>6, <2>7, OnwardSound
  <2>9. run' = [run EXCEPT ![w][o] = run'[w][o]] /\ run'[w][o] = Onward(s)
    BY <2>2, <2>8, NewRun
  <2> QED
    BY <1>2, <1>3, <2>1, <2>4, <2>5, <2>8, <2>9, LocalStep
<1>7. CASE ~(r.cancel /\ r.next <= WarmItems) /\ ~Writable(o, r)
  <2> DEFINE s == IF SameLease(o, r.lease) THEN Refreshed(o, r) ELSE [r EXCEPT !.cancel = TRUE]
  <2>1. row' = row /\ SetRun(w, o, Onward(s))
    BY <1>7 DEF Progress, Onward
  <2>2. s \in Run /\ s.pc = r.pc /\ s.next = r.next /\ s.result = r.result
    BY <1>1, RefreshedRun, CancelledRun
  <2> HIDE DEF s
  <2>3. RunSound(s, row[o], effects[o].executed)
    BY <1>1, <2>2, RunKept
  <2>4. Onward(s) \in Run /\ RunSound(Onward(s), row[o], effects[o].executed)
    BY <2>2, <2>3, OnwardSound
  <2> QED
    BY <1>4, <2>1, <2>4
<1> QED
  BY <1>5, <1>6, <1>7

(* An item, or the whole of an operation that has no items, is executed. *)
LEMMA ExecuteOperation ==
  ASSUME OperationInv, NEW w \in Workers, NEW o \in Ops, Execute(w, o)
  PROVE  OperationInv'
<1> DEFINE r == run[w][o]
<1>1. /\ r \in Run /\ r.pc \in {"executing", "working"} /\ effects[o] \in EffectRecord
      /\ RunSound(r, row[o], effects[o].executed) /\ RowSound(row[o], effects[o].executed)
      /\ row = [row EXCEPT ![o] = row[o]] /\ row[o] \in Row \cup {Absent}
      /\ effects[o].submitted /\ r.next \in Nat \ {0} /\ effects[o].executed \subseteq Nat
  BY Known DEF Execute, RunSound, Run, EffectRecord
<1>2. UNCHANGED <<row, boot, up, pending, request, sweep>>
  BY DEF Execute
<1>3. OthersTyped'
  BY <1>2, OthersStay
<1>4. CASE SetRun(w, o, Stopped(r, "error")) /\ effects' = effects
  <2>1. /\ Stopped(r, "error") \in Run
        /\ RunSound(Stopped(r, "error"), row[o], effects[o].executed)
    BY <1>1, StoppedRun, RunKept
  <2>2. run' = [run EXCEPT ![w][o] = run'[w][o]] /\ run'[w][o] = Stopped(r, "error")
    BY <1>4, <2>1, NewRun
  <2>3. row' = [row EXCEPT ![o] = row'[o]] /\ RowSound(row'[o], effects[o].executed)
    BY <1>1, <1>2
  <2> QED
    BY <1>1, <1>2, <1>3, <1>4, <2>1, <2>2, <2>3, LocalStep
<1>5. CASE /\ SetRun(w, o, IF r.pc = "working" THEN Stopped(r, "ok") ELSE [r EXCEPT !.pc = "record"])
           /\ effects' = [effects EXCEPT ![o].executed = @ \cup {r.next},
                                         ![o].again = @ \/ r.next \in effects[o].recorded]
  <2> DEFINE t == IF r.pc = "working" THEN Stopped(r, "ok") ELSE [r EXCEPT !.pc = "record"]
             more == effects[o].executed \cup {r.next}
             again == effects[o].again \/ r.next \in effects[o].recorded
             e == [effects[o] EXCEPT !.executed = more, !.again = again]
  <2>1. effects' = [effects EXCEPT ![o] = e]
    BY <1>5 DEF OperationInv
  <2>2. more \in SUBSET Nat /\ again \in BOOLEAN /\ effects[o].executed \subseteq more
    BY <1>1 DEF EffectRecord
  <2>3. r.next \in more /\ 1..(r.next - 1) \subseteq more
    BY <1>1 DEF RunSound
  <2> HIDE DEF more, again
  <2>4. e \in EffectRecord /\ e.submitted /\ e.executed = more
    BY <1>1, <2>2 DEF EffectRecord
  <2> HIDE DEF e
  <2>5. t \in Run /\ t.next = r.next /\ t.pc = (IF r.pc = "working" THEN "done" ELSE "record")
    <3>1. "record" \in RunStates /\ r \in Run
      BY <1>1 DEF RunStates
    <3>2. CASE r.pc = "working"
      BY <3>1, <3>2, StoppedRun
    <3>3. CASE r.pc # "working"
      BY <3>1, <3>3, MovedRun
    <3> QED
      BY <3>2, <3>3
  <2>6. 1 \in more
    BY <1>1, <2>3
  <2>7. RunSound(t, row[o], more)
    <3>1. CASE r.pc = "working"
      <4>1. row[o] # Absent => ItemsOf(row[o].kind) = 1
        BY <1>1, <3>1 DEF RunSound, ItemsOf
      <4>2. row[o] # Absent => 1..ItemsOf(row[o].kind) \subseteq more
        BY <2>6, <4>1
      <4>3. t.pc = "done" /\ r.next # 0
        BY <1>1, <2>5, <3>1
      <4> HIDE DEF t
      <4> QED
        BY <2>3, <2>5, <4>2, <4>3 DEF RunSound
    <3>2. CASE r.pc = "executing"
      <4>1. r.next <= WarmItems /\ r.next # 0 /\ t.pc = "record"
        BY <1>1, <2>5, <3>2 DEF RunSound
      <4> HIDE DEF t
      <4> QED
        BY <2>3, <2>5, <4>1 DEF RunSound
    <3> QED
      BY <1>1, <3>1, <3>2
  <2>8. RowSound(row[o], more)
    BY <1>1, <2>2 DEF RowSound
  <2>9. run' = [run EXCEPT ![w][o] = t]
    BY <1>5 DEF SetRun
  <2>10. row' = [row EXCEPT ![o] = row[o]]
    BY <1>1, <1>2
  <2> HIDE DEF t
  <2> QED
    BY <1>1, <1>2, <1>3, <2>1, <2>2, <2>4, <2>5, <2>7, <2>8, <2>9, <2>10, OneOperation DEF OthersTyped
<1> QED
  BY <1>4, <1>5 DEF Execute

(* A checkpoint covers the item that the run has just executed. *)
LEMMA CheckpointOperation ==
  ASSUME OperationInv, NEW w \in Workers, NEW o \in Ops, Checkpoint(w, o)
  PROVE  OperationInv'
<1> DEFINE r == run[w][o]
<1>1. /\ r \in Run /\ r.pc = "record" /\ effects[o] \in EffectRecord
      /\ RunSound(r, row[o], effects[o].executed) /\ RowSound(row[o], effects[o].executed)
      /\ row = [row EXCEPT ![o] = row[o]] /\ row[o] \in Row \cup {Absent}
      /\ effects[o].submitted
  BY Known DEF Checkpoint
<1>2. /\ r.next \in 1..WarmItems /\ 1..r.next \subseteq effects[o].executed
  BY <1>1, OperationAssumption DEF RunSound, Run
<1>3. UNCHANGED <<boot, up, pending, request, sweep>>
  BY DEF Checkpoint
<1>4. OthersTyped'
  BY <1>3, OthersStay
<1>5. CASE Writable(o, r)
  <2> DEFINE n == [row[o] EXCEPT !.checkpoint = r.next]
             lease == LeaseOf(row'[o])
             kept == [r EXCEPT !.lease = lease, !.next = @ + 1]
             t == IF r.cancel THEN Stopped(kept, "cancelled") ELSE [kept EXCEPT !.pc = "item"]
             recorded == effects[o].recorded \cup {r.next}
             e == [effects[o] EXCEPT !.recorded = recorded]
  <2>1. row[o] # Absent /\ row[o].owner # Absent /\ row[o] \in Row /\ row[o].state = "running"
    BY <1>1, <1>5 DEF Writable, Fenced, SameLease
  <2>2. Update(o, n) /\ SetRun(w, o, t) /\ effects' = [effects EXCEPT ![o] = e]
    BY <1>5 DEF Checkpoint, UpdateProgress
  <2>3. /\ n \in Row /\ n.kind = row[o].kind /\ n.state = row[o].state /\ n.owner = row[o].owner
        /\ n.checkpoint = r.next
    BY <1>2, <2>1 DEF Row
  <2> HIDE DEF n
  <2>4. /\ row' = [row EXCEPT ![o] = row'[o]] /\ row'[o] \in Row
        /\ row'[o].kind = row[o].kind /\ row'[o].state = n.state
        /\ row'[o].checkpoint = n.checkpoint /\ lease \in HeldLease
    BY <2>1, <2>2, <2>3, FencedUpdate
  <2>5. RowSound(row'[o], effects[o].executed)
    BY <1>2, <2>1, <2>3, <2>4 DEF RowSound, TerminalStates
  <2> HIDE DEF lease
  <2>6. kept \in Run /\ kept.next = r.next + 1
    <3> DEFINE next == r.next + 1
    <3>1. next \in Nat /\ r \in Run /\ lease \in HeldLease
      BY <1>1, <1>2, <2>4
    <3>2. kept = [r EXCEPT !.lease = lease, !.next = next]
      OBVIOUS
    <3> HIDE DEF r, next, kept
    <3>3. kept \in Run /\ kept.next = next
      BY <3>1, <3>2 DEF Run
    <3> QED
      BY <3>3 DEF next
  <2> HIDE DEF kept
  <2>7. /\ t \in Run /\ t.next = r.next + 1
        /\ t.pc = "item" \/ (t.pc = "done" /\ t.result = "cancelled")
    <3>1. "item" \in RunStates
      BY DEF RunStates
    <3>2. CASE r.cancel
      BY <2>6, <3>2, StoppedRun
    <3>3. CASE ~r.cancel
      BY <2>6, <3>1, <3>3, MovedRun
    <3> QED
      BY <3>2, <3>3
  <2> HIDE DEF t
  <2>8. RunSound(t, row'[o], effects[o].executed)
    <3>1. t.next # 0 /\ t.next - 1 = r.next
      BY <1>2, <2>7
    <3> QED
      BY <1>2, <2>7, <3>1 DEF RunSound
  <2>9. recorded \in SUBSET Nat
    BY <1>1, <1>2 DEF EffectRecord
  <2> HIDE DEF recorded
  <2>10. e \in EffectRecord /\ e.submitted /\ e.executed = effects[o].executed
    BY <1>1, <2>9 DEF EffectRecord
  <2> HIDE DEF e
  <2>11. run' = [run EXCEPT ![w][o] = t]
    BY <2>2 DEF SetRun
  <2> QED
    BY <1>3, <1>4, <2>1, <2>2, <2>4, <2>5, <2>7, <2>8, <2>10, <2>11, OneOperation DEF OthersTyped
<1>6. CASE ~Writable(o, r)
  <2> DEFINE s == [r EXCEPT !.cancel = TRUE]
             t == Stopped(s, "cancelled")
  <2>1. SetRun(w, o, t) /\ UNCHANGED <<row, effects>>
    BY <1>6 DEF Checkpoint
  <2>2. s \in Run /\ s.next = r.next
    BY <1>1, CancelledRun
  <2> HIDE DEF s
  <2>3. t \in Run /\ t.pc = "done" /\ t.result = "cancelled" /\ t.next = r.next
    BY <2>2, StoppedRun
  <2> HIDE DEF t
  <2>4. RunSound(t, row[o], effects[o].executed)
    BY <1>1, <2>3, RunKept
  <2>5. run' = [run EXCEPT ![w][o] = run'[w][o]] /\ run'[w][o] = t
    BY <2>1, <2>3, NewRun
  <2>6. row' = [row EXCEPT ![o] = row'[o]] /\ RowSound(row'[o], effects[o].executed)
    BY <1>1, <2>1
  <2> QED
    BY <1>1, <1>3, <1>4, <2>1, <2>3, <2>4, <2>5, <2>6, LocalStep
<1> QED
  BY <1>5, <1>6

LEMMA RenewOperation ==
  ASSUME OperationInv, NEW w \in Workers, NEW o \in Ops, RenewLease(w, o)
  PROVE  OperationInv'
<1> DEFINE r == run[w][o]
           t == IF SameLease(o, r.lease) THEN Refreshed(o, r)
                ELSE [r EXCEPT !.cancel = TRUE, !.lost = TRUE]
<1>1. /\ r \in Run /\ r.pc # "none" /\ RunSound(r, row[o], effects[o].executed)
      /\ RowSound(row[o], effects[o].executed) /\ row = [row EXCEPT ![o] = row[o]]
  BY Known DEF RenewLease
<1>2. UNCHANGED <<row, boot, up, pending, request, sweep, effects>> /\ SetRun(w, o, t)
  BY DEF RenewLease
<1>3. OthersTyped'
  BY <1>2, OthersStay
<1>4. t \in Run /\ t.pc = r.pc /\ t.next = r.next /\ t.result = r.result
  BY <1>1, RefreshedRun, CancelledRun
<1> HIDE DEF t
<1>5. RunSound(t, row[o], effects[o].executed)
  BY <1>1, <1>4, RunKept
<1>6. run' = [run EXCEPT ![w][o] = run'[w][o]] /\ run'[w][o] = t
  BY <1>2, <1>4, NewRun
<1>7. row' = [row EXCEPT ![o] = row'[o]] /\ RowSound(row'[o], effects[o].executed)
  BY <1>1, <1>2
<1> QED
  BY <1>1, <1>2, <1>3, <1>4, <1>5, <1>6, <1>7, LocalStep

(* Only a run that executed the whole operation reports success. *)
LEMMA FinishOperation ==
  ASSUME OperationInv, NEW w \in Workers, NEW o \in Ops, Finish(w, o)
  PROVE  OperationInv'
<1> DEFINE r == run[w][o]
           t == [r EXCEPT !.pc = "ended"]
<1>1. /\ r \in Run /\ r.pc = "done" /\ RunSound(r, row[o], effects[o].executed)
      /\ RowSound(row[o], effects[o].executed) /\ row = [row EXCEPT ![o] = row[o]]
  BY Known DEF Finish
<1>2. UNCHANGED <<boot, up, pending, request, sweep, effects>> /\ SetRun(w, o, t)
  BY DEF Finish
<1>3. OthersTyped'
  BY <1>2, OthersStay
<1>4. t \in Run /\ t.pc = "ended" /\ t.next = r.next
  BY <1>1, MovedRun DEF RunStates
<1> HIDE DEF t
<1>5. RunSound(t, row[o], effects[o].executed)
  BY <1>1, <1>4, RunKept
<1>6. run' = [run EXCEPT ![w][o] = run'[w][o]] /\ run'[w][o] = t
  BY <1>2, <1>4, NewRun
<1>7. Outcome(r) \in TerminalStates /\ (Outcome(r) = "succeeded" => r.result = "ok")
  <2>1. r.result \in {"ok", "error", "cancelled"}
    BY <1>1 DEF Run
  <2> QED
    BY <2>1 DEF Outcome, TerminalStates
<1>8. /\ row' = [row EXCEPT ![o] = row'[o]]
      /\ \/ row'[o] = row[o]
         \/ row[o] # Absent /\ Follows(row'[o], row[o]) /\ row'[o].state = Outcome(r)
  <2>1. CASE row' = row
    BY <1>1, <2>1
  <2>2. CASE FinishWithAudit(o, r.lease, Outcome(r))
    BY <1>7, <2>2, FinishedRow
  <2> QED
    BY <2>1, <2>2 DEF Finish
<1>9. RowSound(row'[o], effects[o].executed)
  <2>1. CASE row'[o] = row[o]
    BY <1>1, <2>1
  <2>2. CASE row[o] # Absent /\ Follows(row'[o], row[o]) /\ row'[o].state = Outcome(r)
    <3>1. row'[o].state = "succeeded" => 1..ItemsOf(row'[o].kind) \subseteq effects[o].executed
      BY <1>1, <1>7, <2>2 DEF RunSound, Follows
    <3> QED
      BY <1>1, <2>2, <3>1, FollowsSound
  <2> QED
    BY <1>8, <2>1, <2>2
<1> QED
  BY <1>1, <1>2, <1>3, <1>4, <1>5, <1>6, <1>8, <1>9, LocalStep DEF Follows

-------------------------------------------------------------------------------
(* Cancellation. *)

LEMMA RequestOperation ==
  ASSUME OperationInv, NEW w \in Workers, NEW o \in Ops, RequestCancel(w, o)
  PROVE  OperationInv'
<1> DEFINE e == [effects[o] EXCEPT !.cancels = @ + 1]
<1>1. /\ run[w][o] \in Run /\ RunSound(run[w][o], row[o], effects[o].executed)
      /\ RowSound(row[o], effects[o].executed) /\ row = [row EXCEPT ![o] = row[o]]
      /\ run = [run EXCEPT ![w][o] = run[w][o]] /\ effects[o] \in EffectRecord
  BY Known
<1>2. row[o] # Absent /\ row[o] \in Row /\ effects[o].submitted
  BY Known DEF RequestCancel, IsLive
<1>3. UNCHANGED <<boot, up, run, pending, sweep>>
      /\ request' = [request EXCEPT ![w][o] = LeaseOf(row'[o])]
      /\ effects' = [effects EXCEPT ![o] = e]
  BY DEF RequestCancel
<1>4. /\ row' = [row EXCEPT ![o] = row'[o]] /\ row'[o] \in Row
      /\ row'[o].kind = row[o].kind /\ RowSound(row'[o], effects[o].executed)
  <2>1. CASE row' = row
    BY <1>1, <1>2, <2>1
  <2>2. CASE Update(o, [row[o] EXCEPT !.state = "cancellation_requested"])
    <3> DEFINE n == [row[o] EXCEPT !.state = "cancellation_requested"]
    <3>1. /\ n \in Row /\ n.kind = row[o].kind /\ n.state = "cancellation_requested"
          /\ n.checkpoint = row[o].checkpoint
      BY <1>2 DEF Row, LiveStates
    <3>2. Update(o, n)
      BY <2>2
    <3> HIDE DEF n
    <3>3. /\ row' = [row EXCEPT ![o] = row'[o]] /\ row'[o] \in Row /\ row'[o].kind = n.kind
          /\ row'[o].state = n.state /\ row'[o].checkpoint = n.checkpoint
      BY <1>2, <3>1, <3>2, UpdatedRow
    <3>4. RowSound(row'[o], effects[o].executed)
      BY <1>1, <1>2, <3>1, <3>3 DEF RowSound, TerminalStates
    <3> QED
      BY <3>1, <3>3, <3>4
  <2> QED
    BY <2>1, <2>2 DEF RequestCancel
<1>5. LeaseOf(row'[o]) \in Lease
  BY <1>4, LeaseHeld
<1>6. request' \in [Workers -> [Ops -> Lease \cup {Absent}]]
  BY <1>3, <1>5 DEF OperationInv, OperationTypeOK
<1>7. OthersTyped'
  BY <1>3, <1>6 DEF OperationInv, OperationTypeOK, OthersTyped
<1>8. e \in EffectRecord /\ e.submitted /\ e.executed = effects[o].executed
  BY <1>1, <1>2 DEF EffectRecord
<1> HIDE DEF e
<1>9. RunSound(run[w][o], row'[o], e.executed)
  BY <1>1, <1>2, <1>4, <1>8, RunSoundKept
<1> QED
  BY <1>1, <1>2, <1>3, <1>4, <1>7, <1>8, <1>9, OneOperation DEF OthersTyped

LEMMA ActOperation ==
  ASSUME OperationInv, NEW w \in Workers, NEW o \in Ops, ActOnCancel(w, o)
  PROVE  OperationInv'
<1> DEFINE r == run[w][o]
           lease == request[w][o]
<1>1. /\ r \in Run /\ RunSound(r, row[o], effects[o].executed)
      /\ RowSound(row[o], effects[o].executed) /\ row = [row EXCEPT ![o] = row[o]]
      /\ run = [run EXCEPT ![w][o] = r] /\ row[o] \in Row \cup {Absent}
  BY Known
<1>2. lease \in Lease
  BY DEF ActOnCancel, OperationInv, OperationTypeOK
<1>3. UNCHANGED <<boot, up, pending, sweep, effects>>
      /\ request' \in [Workers -> [Ops -> Lease \cup {Absent}]]
  BY DEF ActOnCancel, OperationInv, OperationTypeOK
<1>4. OthersTyped'
  BY <1>3 DEF OperationInv, OperationTypeOK, OthersTyped
<1>5. /\ run' = [run EXCEPT ![w][o] = run'[w][o]] /\ run'[w][o] \in Run
      /\ RunSound(run'[w][o], row[o], effects[o].executed)
      /\ r.pc = "none" => run'[w][o] = r
  <2>1. CASE r.pc = "none"
    BY <1>1, <2>1 DEF ActOnCancel
  <2>2. CASE r.pc # "none"
    <3> DEFINE held == Adopted(r.lease, lease)
               t == [r EXCEPT !.cancel = TRUE, !.lease = held]
    <3>1. SetRun(w, o, t)
      BY <2>2 DEF ActOnCancel
    <3>2. held \in HeldLease \cup {Absent}
      BY <1>1, <1>2 DEF Adopted, Lease, HeldLease, Run
    <3> HIDE DEF held
    <3>3. t \in Run /\ t.pc = r.pc /\ t.next = r.next /\ t.result = r.result
      BY <1>1, <3>2 DEF Run
    <3> HIDE DEF t
    <3>4. RunSound(t, row[o], effects[o].executed)
      BY <1>1, <3>3, RunKept
    <3>5. run' = [run EXCEPT ![w][o] = run'[w][o]] /\ run'[w][o] = t
      BY <3>1, <3>3, NewRun
    <3> QED
      BY <2>2, <3>3, <3>4, <3>5
  <2> QED
    BY <2>1, <2>2
<1>6. /\ row' = [row EXCEPT ![o] = row'[o]]
      /\ \/ row'[o] = row[o]
         \/ row[o] # Absent /\ Follows(row'[o], row[o]) /\ row'[o].state = "cancelled"
  <2>1. CASE row' = row
    BY <1>1, <2>1
  <2>2. CASE IsLive(o) /\ Terminalize(o, "cancelled")
    BY <2>2, TerminalizedRow DEF IsLive, TerminalStates
  <2> QED
    BY <2>1, <2>2 DEF ActOnCancel
<1>7. RowSound(row'[o], effects[o].executed)
  BY <1>1, <1>6, FollowsSound
<1> QED
  BY <1>1, <1>3, <1>4, <1>5, <1>6, <1>7, LocalStep DEF Follows

-------------------------------------------------------------------------------
(* The recovery sweep. *)

(* The journal changes at most, on the word of a sweep. *)
LEMMA SweptRow ==
  ASSUME OperationInv, NEW w \in Workers, NEW o \in Ops, row[o] # Absent,
         UNCHANGED <<boot, up, run, pending, request, effects>>,
         sweep' \in [Workers -> [Ops -> {"none", "recovered", "terminalize"}]],
         row' = [row EXCEPT ![o] = row'[o]],
         row'[o] = row[o] \/ (Follows(row'[o], row[o]) /\ row'[o].state # "succeeded")
  PROVE  OperationInv'
<1>1. /\ run[w][o] \in Run /\ RunSound(run[w][o], row[o], effects[o].executed)
      /\ RowSound(row[o], effects[o].executed) /\ run = [run EXCEPT ![w][o] = run[w][o]]
  BY Known
<1>2. OthersTyped'
  BY DEF OperationInv, OperationTypeOK, OthersTyped
<1>3. RowSound(row'[o], effects[o].executed)
  BY <1>1, FollowsSound
<1>4. run' = [run EXCEPT ![w][o] = run'[w][o]] /\ run'[w][o] = run[w][o]
  BY <1>1
<1> QED
  BY <1>1, <1>2, <1>3, <1>4, LocalStep DEF Follows

LEMMA RecoverOperation ==
  ASSUME OperationInv, NEW w \in Workers, NEW o \in Ops,
         RecoverExpired(w, o) \/ RecoverOrphaned(w, o)
  PROVE  OperationInv'
<1>1. row[o] # Absent /\ row[o] \in Row /\ row[o].state \in LiveStates
  BY DEF RecoverExpired, RecoverOrphaned, IsLive, OperationInv, OperationTypeOK
<1>2. UNCHANGED <<boot, up, run, pending, request, effects>>
  BY DEF RecoverExpired, RecoverOrphaned
<1>3. sweep' \in [Workers -> [Ops -> {"none", "recovered", "terminalize"}]]
  <2>1. sweep \in [Workers -> [Ops -> {"none", "recovered", "terminalize"}]]
    BY DEF OperationInv, OperationTypeOK
  <2>2. \/ sweep' = [sweep EXCEPT ![w][o] = "recovered"]
        \/ sweep' = [sweep EXCEPT ![w][o] = "terminalize"]
    BY DEF RecoverExpired, RecoverOrphaned
  <2> QED
    BY <2>1, <2>2
<1>4. CASE row' = row
  <2>1. row' = [row EXCEPT ![o] = row'[o]]
    BY <1>4, Known
  <2> QED
    BY <1>1, <1>2, <1>3, <1>4, <2>1, SweptRow
<1>5. CASE Update(o, [Released(row[o]) EXCEPT !.state = RecoveredState(row[o])])
  <2> DEFINE state == RecoveredState(row[o])
             n == [Released(row[o]) EXCEPT !.state = state]
  <2>1. state \in {"queued", "cancellation_requested"}
    BY DEF RecoveredState
  <2>2. Update(o, n)
    BY <1>5
  <2> HIDE DEF state
  <2>3. /\ n \in Row /\ n.kind = row[o].kind /\ n.state = state /\ n.checkpoint = row[o].checkpoint
        /\ n.owner = Absent
    BY <1>1, <2>1 DEF Released, Row, LiveStates
  <2> HIDE DEF n
  <2>4. /\ row' = [row EXCEPT ![o] = row'[o]] /\ row'[o] \in Row /\ row'[o].kind = n.kind
        /\ row'[o].state = n.state /\ row'[o].checkpoint = n.checkpoint /\ row'[o].owner = n.owner
    BY <1>1, <2>2, <2>3, UpdatedRow
  <2>5. Follows(row'[o], row[o]) /\ row'[o].state # "succeeded"
    BY <1>1, <2>1, <2>3, <2>4 DEF Follows
  <2> QED
    BY <1>1, <1>2, <1>3, <2>4, <2>5, SweptRow
<1> QED
  BY <1>4, <1>5 DEF RecoverExpired, RecoverOrphaned

LEMMA ReconcileOperation ==
  ASSUME OperationInv, NEW w \in Workers, NEW o \in Ops, Reconcile(w, o)
  PROVE  OperationInv'
<1>1. UNCHANGED <<boot, up, pending, request, effects>>
  BY DEF Reconcile
<1>2. sweep' \in [Workers -> [Ops -> {"none", "recovered", "terminalize"}]]
  BY DEF Reconcile, OperationInv, OperationTypeOK
<1>3. OthersTyped'
  BY <1>1, <1>2 DEF OperationInv, OperationTypeOK, OthersTyped
<1>4. /\ row = [row EXCEPT ![o] = row[o]] /\ row[o] \in Row \cup {Absent}
      /\ RowSound(row[o], effects[o].executed)
  BY Known
<1>5. CASE UNCHANGED <<row, run>>
  BY <1>1, <1>3, <1>5, QuietStep
<1>6. ASSUME NEW state \in {"cancelled", "indeterminate"}, IsLive(o), Terminalize(o, state),
             UNCHANGED run
      PROVE  OperationInv'
  <2>1. row[o] # Absent
    BY <1>6 DEF IsLive
  <2>2. /\ row' = [row EXCEPT ![o] = row'[o]] /\ Follows(row'[o], row[o]) /\ row'[o].state = state
    BY <1>6, <2>1, TerminalizedRow DEF TerminalStates
  <2> QED
    BY <1>1, <1>2, <1>6, <2>1, <2>2, SweptRow
<1>7. CASE IsLive(o) /\ Spawn(w, o, ResumeFrom(o)) /\ UNCHANGED row
  <2> DEFINE next == ResumeFrom(o)
  <2>1. row[o] # Absent /\ row[o] \in Row
    BY <1>4, <1>7 DEF IsLive
  <2>2. CASE row[o].checkpoint = Absent
    <3>1. Spawn(w, o, 1)
      BY <1>7, <2>2 DEF ResumeFrom
    <3>2. /\ run' = [run EXCEPT ![w][o] = run'[w][o]] /\ run'[w][o] \in Run
          /\ RunSound(run'[w][o], row[o], effects[o].executed)
      BY <2>1, <3>1, SpawnedFresh
    <3> QED
      BY <1>1, <1>3, <1>4, <1>7, <2>1, <3>2, LocalStep
  <2>3. CASE row[o].checkpoint # Absent
    <3>1. row[o].checkpoint \in 0..WarmItems /\ next = row[o].checkpoint + 1
      BY <2>1, <2>3 DEF Row, ResumeFrom
    <3>2. /\ 1..row[o].checkpoint \subseteq effects[o].executed
      BY <1>4, <2>1, <2>3 DEF RowSound
    <3>3. next \in Nat \ {0} /\ next - 1 = row[o].checkpoint
      BY <3>1, OperationAssumption
    <3>4. Spawn(w, o, next)
      BY <1>7
    <3> HIDE DEF next
    <3>5. /\ run' = [run EXCEPT ![w][o] = run'[w][o]] /\ run'[w][o] \in Run
          /\ RunSound(run'[w][o], row[o], effects[o].executed)
      BY <2>1, <3>2, <3>3, <3>4, SpawnedRun
    <3> QED
      BY <1>1, <1>3, <1>4, <1>7, <2>1, <3>5, LocalStep
  <2> QED
    BY <2>2, <2>3
<1>8. \/ UNCHANGED <<row, run>>
      \/ \E state \in {"cancelled", "indeterminate"} :
           IsLive(o) /\ Terminalize(o, state) /\ UNCHANGED run
      \/ IsLive(o) /\ Spawn(w, o, ResumeFrom(o)) /\ UNCHANGED row
  <2>1. CASE ~IsLive(o) /\ UNCHANGED <<row, run>>
    BY <2>1
  <2>2. CASE IsLive(o) /\ row[o].kind = "warm" /\ sweep[w][o] = "recovered"
    BY <2>2 DEF Reconcile
  <2>3. CASE IsLive(o) /\ Terminalize(o, "indeterminate") /\ UNCHANGED run
    BY <2>3
  <2> QED
    BY <2>1, <2>2, <2>3 DEF Reconcile
<1> QED
  BY <1>5, <1>6, <1>7, <1>8

-------------------------------------------------------------------------------
(* Instances that stop and start. *)

LEMMA StopOperation ==
  ASSUME OperationInv, NEW w \in Workers, StopWorker(w)
  PROVE  OperationInv'
<1> DEFINE idle == [o \in Ops |-> NoRun]
<1>1. NoRun \in Run /\ NoRun.pc = "none" /\ NoRun.next = 1
  BY DEF NoRun, Run, RunStates
<1>2. run \in [Workers -> [Ops -> Run]]
  BY DEF OperationInv, OperationTypeOK
<1>3. run' = [run EXCEPT ![w] = idle] /\ UNCHANGED <<row, boot, effects>> /\ up' = up \ {w}
  BY DEF StopWorker
<1>4. idle \in [Ops -> Run] /\ \A o \in Ops : idle[o] = NoRun
  BY <1>1
<1> HIDE DEF idle
<1>5. /\ run' \in [Workers -> [Ops -> Run]]
      /\ \A x \in Workers, o \in Ops : run'[x][o] = IF x = w THEN NoRun ELSE run[x][o]
  BY <1>2, <1>3, <1>4
<1>6. OperationTypeOK'
  BY <1>3, <1>5 DEF StopWorker, OperationInv, OperationTypeOK
<1>7. \A x \in Workers \ up' : boot'[x] < MaxOpBoots
  BY <1>3 DEF StopWorker, OperationInv
<1>8. \A o \in Ops : ~effects'[o].submitted => Unknown(o)'
  BY <1>1, <1>3, <1>5 DEF OperationInv, Unknown
<1>9. \A o \in Ops : RowSound(row'[o], effects'[o].executed)
  BY <1>3 DEF OperationInv
<1>10. ASSUME NEW x \in Workers, NEW o \in Ops
       PROVE  RunSound(run'[x][o], row'[o], effects'[o].executed)
  <2>1. CASE x = w
    <3>1. RunSound(NoRun, row[o], effects[o].executed)
      BY <1>1 DEF RunSound
    <3> QED
      BY <1>3, <1>5, <2>1, <3>1
  <2>2. CASE x # w
    BY <1>3, <1>5, <2>2 DEF OperationInv
  <2> QED
    BY <2>1, <2>2
<1> QED
  BY <1>3, <1>6, <1>7, <1>8, <1>9, <1>10 DEF OperationInv

LEMMA StartsOperation ==
  ASSUME OperationInv, NEW w \in Workers, StartWorker(w)
  PROVE  OperationInv'
<1>1. PICK gone \in SUBSET {o \in Ops : IsTerminal(o) /\ row[o].confirmed} :
        row' = [o \in Ops |-> IF o \in gone THEN Absent ELSE row[o]]
  BY DEF StartWorker
<1>2. /\ w \notin up /\ up' = up \cup {w} /\ boot' = [boot EXCEPT ![w] = boot[w] + 1]
      /\ UNCHANGED <<run, pending, request, sweep, effects>>
  BY DEF StartWorker
<1>3. row \in [Ops -> Row \cup {Absent}] /\ boot \in [Workers -> 1..MaxOpBoots] /\ up \subseteq Workers
  BY DEF OperationInv, OperationTypeOK
<1>4. /\ row' \in [Ops -> Row \cup {Absent}]
      /\ \A o \in Ops : row'[o] = Absent \/ row'[o] = row[o]
  BY <1>1, <1>3
<1>5. boot[w] + 1 \in 1..MaxOpBoots
  BY <1>2, <1>3, OperationAssumption DEF OperationInv
<1>6. boot' \in [Workers -> 1..MaxOpBoots] /\ \A x \in Workers \ {w} : boot'[x] = boot[x]
  BY <1>2, <1>3, <1>5
<1>7. OperationTypeOK'
  BY <1>2, <1>3, <1>4, <1>6 DEF OperationInv, OperationTypeOK
<1>8. \A x \in Workers \ up' : boot'[x] < MaxOpBoots
  BY <1>2, <1>6 DEF OperationInv
<1>9. \A o \in Ops : ~effects'[o].submitted => Unknown(o)'
  BY <1>2, <1>4 DEF OperationInv, Unknown
<1>10. \A o \in Ops : RowSound(row'[o], effects'[o].executed)
  BY <1>2, <1>4 DEF OperationInv, RowSound
<1>11. ASSUME NEW x \in Workers, NEW o \in Ops
       PROVE  RunSound(run'[x][o], row'[o], effects'[o].executed)
  <2>1. RunSound(run[x][o], row[o], effects[o].executed)
    BY DEF OperationInv
  <2>2. RunSound(run[x][o], row'[o], effects[o].executed)
    BY <1>4, <2>1, RunSoundKept
  <2> QED
    BY <1>2, <2>2
<1> QED
  BY <1>2, <1>7, <1>8, <1>9, <1>10, <1>11 DEF OperationInv

LEMMA NextOperation ==
  ASSUME OperationInv, [OperationNext]_opVars
  PROVE  OperationInv'
<1>1. ASSUME NEW w \in Workers, NEW o \in Ops, RunStep(w, o) PROVE OperationInv'
  BY <1>1, QueueOperation, ClaimOperation, StartOperation, ProgressOperation, ExecuteOperation,
     CheckpointOperation, RenewOperation, FinishOperation
  DEF RunStep
<1>2. ASSUME NEW w \in Workers, NEW o \in Ops, SweepStep(w, o) PROVE OperationInv'
  BY <1>2, RecoverOperation, ReconcileOperation DEF SweepStep
<1>3. ASSUME NEW w \in Workers, NEW o \in Ops,
             \/ Replay(w, o) \/ RequestCancel(w, o) \/ ActOnCancel(w, o)
             \/ \E kind \in OpKinds : Submit(w, o, kind)
      PROVE OperationInv'
  BY <1>3, ReplayOperation, RequestOperation, ActOperation, SubmitOperation
<1>4. ASSUME NEW w \in Workers, StopWorker(w) \/ StartWorker(w) PROVE OperationInv'
  BY <1>4, StopOperation, StartsOperation
<1>5. ASSUME NEW o \in Ops, LeaseExpires(o) \/ LifetimeExpires(o) \/ AnchorConfirms(o)
      PROVE  OperationInv'
  BY <1>5, TimeOperation
<1>6. CASE UNCHANGED opVars
  <2>1. OthersTyped'
    BY <1>6, OthersStay DEF opVars
  <2> QED
    BY <1>6, <2>1, QuietStep DEF opVars
<1> QED
  BY <1>1, <1>2, <1>3, <1>4, <1>5, <1>6 DEF OperationNext

-------------------------------------------------------------------------------
(* Every row, lease, run and cancellation request of the journal keeps its type,
   whatever is interrupted: a checkpoint names an item that exists, a run only
   ever holds a lease with an owner.                                          *)
THEOREM OperationsTyped == OperationSpec => []OperationTypeOK
<1>1. OperationInv => OperationTypeOK
  BY DEF OperationInv
<1>2. OperationInv /\ [OperationNext]_opVars => OperationInv'
  BY NextOperation
<1> QED
  BY <1>1, <1>2, InitOperation, PTL DEF OperationSpec

(* Success is never synthesized (finish_with_audit, the recovery sweep): an
   operation recorded as succeeded has executed every item, and a checkpoint
   covers executed items only, for any number of instances, items and boots.  *)
THEOREM SuccessIsProved == OperationSpec => []SuccessProved
<1>1. OperationInv => SuccessProved
  BY DEF OperationInv, SuccessProved, RowSound
<1>2. OperationInv /\ [OperationNext]_opVars => OperationInv'
  BY NextOperation
<1> QED
  BY <1>1, <1>2, InitOperation, PTL DEF OperationSpec

-------------------------------------------------------------------------------
(* A step for one operation leaves the rows of the others alone, and its own once
   it has a verdict.                                                          *)
RowsKept(o) ==
  /\ \A q \in Ops \ {o} : row'[q] = row[q]
  /\ IsTerminal(o) => row'[o] = row[o]

LEMMA TerminalUnowned ==
  ASSUME OperationInv, NEW o \in Ops, IsTerminal(o)
  PROVE  /\ row[o].owner = Absent /\ row[o].state \notin LiveStates /\ ~IsLive(o)
         /\ \A lease : ~SameLease(o, lease)
  BY DEF OperationInv, IsTerminal, IsLive, RowSound, SameLease, LiveStates, TerminalStates

LEMMA RowsKeptUnless ==
  ASSUME OperationInv, NEW o \in Ops,
         \/ row' = row
         \/ ~IsTerminal(o) /\ \E r : row' = [row EXCEPT ![o] = r]
  PROVE  RowsKept(o)
  BY DEF RowsKept, OperationInv, OperationTypeOK

LEMMA FinishKeeps ==
  ASSUME OperationInv, NEW o \in Ops, NEW lease, NEW state, FinishWithAudit(o, lease, state)
  PROVE  RowsKept(o)
<1>1. row' = row \/ (SameLease(o, lease) /\ \E r : row' = [row EXCEPT ![o] = r])
  BY DEF FinishWithAudit, Update
<1> QED
  BY <1>1, RowsKeptUnless, TerminalUnowned

LEMMA RunKeeps ==
  ASSUME OperationInv, NEW w \in Workers, NEW o \in Ops, RunStep(w, o)
  PROVE  RowsKept(o)
<1>1. CASE Queue(w, o)
  <2>1. row' = row \/ (row[o].state \in LiveStates /\ \E r : row' = [row EXCEPT ![o] = r])
    BY <1>1 DEF Queue, Update, LiveStates
  <2> QED
    BY <2>1, RowsKeptUnless, TerminalUnowned
<1>2. CASE Claim(w, o)
  <2>1. row' = row \/ (row[o].state \in LiveStates /\ \E r : row' = [row EXCEPT ![o] = r])
    BY <1>2 DEF Claim, Update, LiveStates
  <2> QED
    BY <2>1, RowsKeptUnless, TerminalUnowned
<1>3. CASE Start(w, o)
  <2>1. \/ row' = row
        \/ row[o].state \in LiveStates /\ \E r : row' = [row EXCEPT ![o] = r]
        \/ FinishWithAudit(o, LeaseOf(row[o]), "cancelled")
    BY <1>3 DEF Start, Update, LiveStates
  <2> QED
    BY <2>1, RowsKeptUnless, TerminalUnowned, FinishKeeps
<1>4. CASE Progress(w, o) \/ Checkpoint(w, o)
  <2>1. row' = row \/ (row[o].state \in LiveStates /\ \E r : row' = [row EXCEPT ![o] = r])
    BY <1>4 DEF Progress, Checkpoint, Writable, UpdateProgress, Update, LiveStates
  <2> QED
    BY <2>1, RowsKeptUnless, TerminalUnowned
<1>5. CASE Execute(w, o) \/ RenewLease(w, o)
  BY <1>5, RowsKeptUnless DEF Execute, RenewLease
<1>6. CASE Finish(w, o)
  BY <1>6, RowsKeptUnless, FinishKeeps DEF Finish
<1> QED
  BY <1>1, <1>2, <1>3, <1>4, <1>5, <1>6 DEF RunStep

LEMMA SweepKeeps ==
  ASSUME OperationInv, NEW w \in Workers, NEW o \in Ops, SweepStep(w, o)
  PROVE  RowsKept(o)
<1>1. row' = row \/ (IsLive(o) /\ \E r : row' = [row EXCEPT ![o] = r])
  <2>1. CASE RecoverExpired(w, o)
    BY <2>1 DEF RecoverExpired, Update
  <2>2. CASE RecoverOrphaned(w, o)
    BY <2>2 DEF RecoverOrphaned
  <2>3. CASE Reconcile(w, o)
    <3>1. row' = row \/ (IsLive(o) /\ \E state : Terminalize(o, state))
      BY <2>3 DEF Reconcile
    <3> QED
      BY <3>1 DEF Terminalize
  <2> QED
    BY <2>1, <2>2, <2>3 DEF SweepStep
<1> QED
  BY <1>1, RowsKeptUnless, TerminalUnowned

LEMMA RequestKeeps ==
  ASSUME OperationInv, NEW w \in Workers, NEW o \in Ops,
         \/ Replay(w, o) \/ RequestCancel(w, o) \/ ActOnCancel(w, o)
         \/ \E kind \in OpKinds : Submit(w, o, kind)
  PROVE  RowsKept(o)
<1>1. CASE Replay(w, o)
  <2>1. row' = row \/ (row[o].state \in LiveStates /\ \E r : row' = [row EXCEPT ![o] = r])
    BY <1>1 DEF Replay, Update, LiveStates
  <2> QED
    BY <2>1, RowsKeptUnless, TerminalUnowned
<1>2. CASE RequestCancel(w, o)
  <2>1. IsLive(o) /\ (row' = row \/ \E r : row' = [row EXCEPT ![o] = r])
    BY <1>2 DEF RequestCancel, Update
  <2> QED
    BY <2>1, RowsKeptUnless, TerminalUnowned
<1>3. CASE ActOnCancel(w, o)
  <2>1. row' = row \/ (IsLive(o) /\ \E r : row' = [row EXCEPT ![o] = r])
    BY <1>3 DEF ActOnCancel, Terminalize
  <2> QED
    BY <2>1, RowsKeptUnless, TerminalUnowned
<1>4. ASSUME NEW kind \in OpKinds, Submit(w, o, kind) PROVE RowsKept(o)
  <2>1. row[o] = Absent /\ \E r : row' = [row EXCEPT ![o] = r]
    BY <1>4 DEF Submit, OperationInv, Unknown
  <2> QED
    BY <2>1, RowsKeptUnless DEF IsTerminal
<1> QED
  BY <1>1, <1>2, <1>3, <1>4

LEMMA VerdictKept ==
  ASSUME OperationInv, [OperationNext]_opVars, NEW o \in Ops, IsTerminal(o)
  PROVE  row'[o] = Absent \/ row'[o] = [row[o] EXCEPT !.confirmed = row'[o].confirmed]
<1>1. row \in [Ops -> Row \cup {Absent}] /\ row[o] \in Row
  BY DEF IsTerminal, OperationInv, OperationTypeOK
<1>2. CASE row'[o] = row[o]
  <2>1. row[o] = [row[o] EXCEPT !.confirmed = row[o].confirmed]
    BY <1>1 DEF Row
  <2> QED
    BY <1>2, <2>1
<1>3. ASSUME NEW p \in Ops, RowsKept(p) PROVE row'[o] = row[o]
  BY <1>3 DEF RowsKept
<1>4. ASSUME NEW w \in Workers, StopWorker(w) PROVE row'[o] = row[o]
  BY <1>4 DEF StopWorker
<1>5. ASSUME NEW w \in Workers, StartWorker(w) PROVE row'[o] \in {Absent, row[o]}
  BY <1>5 DEF StartWorker
<1>6. ASSUME NEW p \in Ops, LeaseExpires(p) \/ LifetimeExpires(p) PROVE row'[o] = row[o]
  <2>1. p # o
    BY <1>6, TerminalUnowned DEF LeaseExpires, LifetimeExpires
  <2> QED
    BY <1>1, <1>6, <2>1 DEF LeaseExpires, LifetimeExpires
<1>7. ASSUME NEW p \in Ops, AnchorConfirms(p)
      PROVE  row'[o] = row[o] \/ row'[o] = [row[o] EXCEPT !.confirmed = TRUE]
  BY <1>1, <1>7 DEF AnchorConfirms
<1>8. CASE row'[o] = [row[o] EXCEPT !.confirmed = TRUE]
  <2>1. [row[o] EXCEPT !.confirmed = TRUE].confirmed = TRUE
    BY <1>1 DEF Row
  <2> QED
    BY <1>8, <2>1
<1>9. \/ row'[o] = row[o] \/ row'[o] = Absent \/ row'[o] = [row[o] EXCEPT !.confirmed = TRUE]
  <2>1. CASE UNCHANGED opVars
    BY <2>1 DEF opVars
  <2>2. CASE OperationNext
    BY <2>2, <1>3, <1>4, <1>5, <1>6, <1>7, RunKeeps, SweepKeeps, RequestKeeps DEF OperationNext
  <2> QED
    BY <2>1, <2>2
<1> QED
  BY <1>2, <1>8, <1>9

(* A verdict is final: no late finish of a run that lost its lease, no cancellation
   that was committed before, and no sweep replaces it; it is only confirmed, or
   pruned.                                                                    *)
THEOREM VerdictsAreFinal == OperationSpec => VerdictFinal
<1>1. OperationInv /\ [OperationNext]_opVars => OperationInv'
  BY NextOperation
<1>2. OperationInv /\ [OperationNext]_opVars
      => [\A o \in Ops : IsTerminal(o) =>
            row'[o] = Absent \/ row'[o] = [row[o] EXCEPT !.confirmed = row'[o].confirmed]]_opVars
  BY VerdictKept
<1> QED
  BY <1>1, <1>2, InitOperation, PTL DEF OperationSpec, VerdictFinal

-------------------------------------------------------------------------------
(* No run sets out on an item of an operation that has a verdict. *)
NoDispatch ==
  \A w \in Workers, o \in Ops :
    run[w][o].pc # "executing" /\ run'[w][o].pc = "executing" => ~IsTerminal(o)

LEMMA SetRunDispatch ==
  ASSUME OperationInv, NEW w \in Workers, NEW o \in Ops,
         \/ run' = run
         \/ \E t : /\ SetRun(w, o, t)
                   /\ \/ t.pc # "executing" \/ t.pc = run[w][o].pc
                      \/ ~IsTerminal(o)
  PROVE  NoDispatch
<1>1. run \in [Workers -> [Ops -> Run]]
  BY DEF OperationInv, OperationTypeOK
<1>2. CASE run' = run
  BY <1>2 DEF NoDispatch
<1>3. ASSUME NEW t, SetRun(w, o, t),
             t.pc # "executing" \/ t.pc = run[w][o].pc \/ ~IsTerminal(o)
      PROVE  NoDispatch
  <2>1. \A x \in Workers, q \in Ops : run'[x][q] = IF x = w /\ q = o THEN t ELSE run[x][q]
    BY <1>1, <1>3 DEF SetRun
  <2> QED
    BY <1>3, <2>1 DEF NoDispatch
<1> QED
  BY <1>2, <1>3

LEMMA SpawnDispatch ==
  ASSUME OperationInv, NEW w \in Workers, NEW o \in Ops, NEW next, Spawn(w, o, next)
  PROVE  NoDispatch
<1>1. [NoRun EXCEPT !.pc = "ready", !.next = next].pc = "ready"
  BY DEF NoRun
<1> QED
  BY <1>1, SetRunDispatch DEF Spawn

(* Before an item the lease is looked at: that of a row with a verdict is nobody's,
   and the run stops.                                                         *)
LEMMA ProgressDispatch ==
  ASSUME OperationInv, NEW w \in Workers, NEW o \in Ops, Progress(w, o)
  PROVE  NoDispatch
<1> DEFINE r == run[w][o]
<1>1. r \in Run
  BY Known
<1>2. CASE ~IsTerminal(o)
  <2>1. \E t : SetRun(w, o, t)
    BY DEF Progress
  <2> QED
    BY <1>2, <2>1, SetRunDispatch
<1>3. CASE IsTerminal(o)
  <2> DEFINE s == [r EXCEPT !.cancel = TRUE]
  <2>1. ~SameLease(o, r.lease) /\ ~Writable(o, r)
    BY <1>3, TerminalUnowned DEF Writable, Fenced
  <2>2. s \in Run /\ s.cancel
    BY <1>1, CancelledRun
  <2>3. SetRun(w, o, Stopped(r, "cancelled")) \/ SetRun(w, o, Onward(s))
    BY <2>1 DEF Progress, Onward
  <2> HIDE DEF s
  <2>4. s.next \in Nat /\ WarmItems \in Nat
    BY <2>2, OperationAssumption DEF Run
  <2>5. Onward(s) = Stopped(s, "cancelled") \/ Onward(s) = Stopped(s, "ok")
    BY <2>2, <2>4 DEF Onward
  <2>6. /\ Stopped(r, "cancelled").pc = "done" /\ Stopped(s, "cancelled").pc = "done"
        /\ Stopped(s, "ok").pc = "done"
    BY <1>1, <2>2, StoppedRun
  <2>7. Onward(s).pc = "done"
    BY <2>5, <2>6
  <2> QED
    BY <2>3, <2>6, <2>7, SetRunDispatch
<1> QED
  BY <1>2, <1>3

LEMMA RunDispatch ==
  ASSUME OperationInv, NEW w \in Workers, NEW o \in Ops, RunStep(w, o)
  PROVE  NoDispatch
<1> DEFINE r == run[w][o]
<1>1. r \in Run
  BY Known
<1>2. CASE Queue(w, o)
  BY <1>2, SpawnDispatch, SetRunDispatch DEF Queue
<1>3. CASE Claim(w, o)
  <2>1. PICK lease : \/ SetRun(w, o, [r EXCEPT !.pc = "claimed", !.lease = lease])
                     \/ SetRun(w, o, [r EXCEPT !.pc = "ended"])
    BY <1>3 DEF Claim
  <2>2. /\ [r EXCEPT !.pc = "claimed", !.lease = lease].pc = "claimed"
        /\ [r EXCEPT !.pc = "ended"].pc = "ended"
    BY <1>1 DEF Run
  <2> QED
    BY <2>1, <2>2, SetRunDispatch
<1>4. CASE Start(w, o)
  <2> DEFINE pc == IF row[o].kind = "warm" THEN "item" ELSE "working"
             t == [r EXCEPT !.lease = LeaseOf(row'[o]), !.pc = pc]
  <2>1. SetRun(w, o, t) \/ SetRun(w, o, [r EXCEPT !.pc = "ended"])
    BY <1>4 DEF Start
  <2>2. t.pc = pc /\ pc # "executing" /\ [r EXCEPT !.pc = "ended"].pc = "ended"
    BY <1>1 DEF Run
  <2> HIDE DEF t, pc
  <2> QED
    BY <2>1, <2>2, SetRunDispatch
<1>5. CASE Progress(w, o)
  BY <1>5, ProgressDispatch
<1>6. CASE Execute(w, o)
  <2>1. \/ SetRun(w, o, Stopped(r, "ok")) \/ SetRun(w, o, Stopped(r, "error"))
        \/ SetRun(w, o, [r EXCEPT !.pc = "record"])
    BY <1>6 DEF Execute
  <2>2. /\ Stopped(r, "ok").pc = "done" /\ Stopped(r, "error").pc = "done"
        /\ [r EXCEPT !.pc = "record"].pc = "record"
    BY <1>1 DEF Stopped, Run
  <2> QED
    BY <2>1, <2>2, SetRunDispatch
<1>7. CASE Checkpoint(w, o)
  <2>1. \E t : SetRun(w, o, t) /\ t.pc # "executing"
    <3>1. PICK lease : LET kept == [r EXCEPT !.lease = lease, !.next = @ + 1]
                       IN \/ SetRun(w, o, Stopped(kept, "cancelled"))
                          \/ SetRun(w, o, [kept EXCEPT !.pc = "item"])
                          \/ SetRun(w, o, Stopped([r EXCEPT !.cancel = TRUE], "cancelled"))
      BY <1>7 DEF Checkpoint
    <3> DEFINE kept == [r EXCEPT !.lease = lease, !.next = @ + 1]
    <3>2. /\ Stopped(kept, "cancelled").pc = "done" /\ [kept EXCEPT !.pc = "item"].pc = "item"
          /\ Stopped([r EXCEPT !.cancel = TRUE], "cancelled").pc = "done"
      BY <1>1 DEF Stopped, Run
    <3> QED
      BY <3>1, <3>2
  <2> QED
    BY <2>1, SetRunDispatch
<1>8. CASE RenewLease(w, o)
  <2>1. \/ SetRun(w, o, Refreshed(o, r)) /\ SameLease(o, r.lease)
        \/ SetRun(w, o, [r EXCEPT !.cancel = TRUE, !.lost = TRUE])
    BY <1>8 DEF RenewLease
  <2>2. /\ SameLease(o, r.lease) => Refreshed(o, r).pc = r.pc
        /\ [r EXCEPT !.cancel = TRUE, !.lost = TRUE].pc = r.pc
    BY <1>1, RefreshedRun, CancelledRun
  <2> QED
    BY <2>1, <2>2, SetRunDispatch
<1>9. CASE Finish(w, o)
  <2>1. [r EXCEPT !.pc = "ended"].pc = "ended"
    BY <1>1 DEF Run
  <2> QED
    BY <1>9, <2>1, SetRunDispatch DEF Finish
<1> QED
  BY <1>2, <1>3, <1>4, <1>5, <1>6, <1>7, <1>8, <1>9 DEF RunStep

LEMMA OtherDispatch ==
  ASSUME OperationInv, NEW w \in Workers, NEW o \in Ops,
         \/ SweepStep(w, o) \/ Replay(w, o) \/ RequestCancel(w, o) \/ ActOnCancel(w, o)
         \/ \E kind \in OpKinds : Submit(w, o, kind)
  PROVE  NoDispatch
<1> DEFINE r == run[w][o]
<1>1. CASE ActOnCancel(w, o)
  <2>1. r \in Run
    BY Known
  <2>2. run' = run \/ \E lease : SetRun(w, o, [r EXCEPT !.cancel = TRUE, !.lease = lease])
    BY <1>1 DEF ActOnCancel
  <2>3. \A lease : [r EXCEPT !.cancel = TRUE, !.lease = lease].pc = r.pc
    BY <2>1 DEF Run
  <2> QED
    BY <2>2, <2>3, SetRunDispatch
<1>2. CASE ~ActOnCancel(w, o)
  <2>1. run' = run \/ \E next : Spawn(w, o, next)
    <3>1. CASE SweepStep(w, o)
      BY <3>1 DEF SweepStep, RecoverExpired, RecoverOrphaned, Reconcile
    <3>2. CASE Replay(w, o) \/ RequestCancel(w, o)
      BY <3>2 DEF Replay, RequestCancel
    <3>3. CASE \E kind \in OpKinds : Submit(w, o, kind)
      BY <3>3 DEF Submit
    <3> QED
      BY <1>2, <3>1, <3>2, <3>3
  <2> QED
    BY <2>1, SpawnDispatch, SetRunDispatch
<1> QED
  BY <1>1, <1>2

(* A verdict, whoever recorded it, stops a run before its next item (the check of
   the lease between two items of a cache warm): only an item already begun can
   still complete.                                                            *)
THEOREM VerdictStopsDispatch == OperationSpec => DispatchFenced
<1>1. OperationInv /\ [OperationNext]_opVars => OperationInv'
  BY NextOperation
<1>2. ASSUME OperationInv, [OperationNext]_opVars PROVE NoDispatch
  <2>1. ASSUME NEW w \in Workers, StopWorker(w) PROVE NoDispatch
    <3>1. \A x \in Workers, o \in Ops : run'[x][o] = run[x][o] \/ run'[x][o] = NoRun
      BY <2>1 DEF StopWorker, OperationInv, OperationTypeOK
    <3>2. NoRun.pc = "none"
      BY DEF NoRun
    <3> QED
      BY <3>1, <3>2 DEF NoDispatch
  <2>2. ASSUME run' = run PROVE NoDispatch
    BY <2>2 DEF NoDispatch
  <2>3. ASSUME NEW w \in Workers, StartWorker(w) PROVE run' = run
    BY <2>3 DEF StartWorker
  <2>4. ASSUME NEW o \in Ops, LeaseExpires(o) \/ LifetimeExpires(o) \/ AnchorConfirms(o)
        PROVE  run' = run
    BY <2>4 DEF LeaseExpires, LifetimeExpires, AnchorConfirms
  <2>5. UNCHANGED opVars => run' = run
    BY DEF opVars
  <2> QED
    BY <1>2, <2>1, <2>2, <2>3, <2>4, <2>5, RunDispatch, OtherDispatch DEF OperationNext
<1>3. OperationInv /\ [OperationNext]_opVars
      => [\A w \in Workers, o \in Ops :
            run[w][o].pc # "executing" /\ run'[w][o].pc = "executing" => ~IsTerminal(o)]_opVars
  BY <1>2 DEF NoDispatch
<1> QED
  BY <1>1, <1>3, InitOperation, PTL DEF OperationSpec, DispatchFenced

===============================================================================
