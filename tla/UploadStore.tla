------------------------------ MODULE UploadStore ------------------------------
(* The local store of managed uploads (crates/oxibelt-upload-storage, local.rs):
   one journal of sessions, kept in memory and republished whole on every change,
   and the chunk and object files it refers to.

   A request is a task.  It checks the store's health (Enter) and then waits for
   the state lock of its transaction; appending, publishing, deleting and
   collecting take several transactions, with file work between them under the
   assembly lock.  The process may stop between any two steps.               *)
EXTENDS Integers, FiniteSets

CONSTANTS Uploads,       \* session identifiers; one is drawn at random, so used once
          UploadKinds,   \* what is uploaded: [dictionary, upstream] flags of a session
          Tasks,         \* concurrent requests and collector passes
          Nil,
          MaxUploadBytes, MaxStorageBytes, MaxSessions, MaxParts, MaxConcurrentParts,
          UploadFaults,  \* subset of {"persist", "sync", "cancel"}
          MaxDraws,      \* bound: random tokens and keys drawn
          MaxEpoch,      \* bound: fence epoch up to which a tombstone is retried
          MaxStops       \* bound: process stops

ASSUME UploadAssumption ==
  /\ UploadKinds \subseteq [dictionary : BOOLEAN, upstream : BOOLEAN]
  /\ IsFiniteSet(Uploads)
  /\ MaxUploadBytes \in Nat /\ MaxStorageBytes \in Nat
  /\ MaxDraws \in Nat /\ MaxStops \in Nat

VARIABLES mode,      \* "open", "poisoned", "closed", or a stage of reopening
          journal,   \* the sessions in memory
          durable,   \* the journal a reopened process would read
          files,     \* the chunk and object files that exist
          assembly,  \* the task that holds the assembly lock, or Nil
          task,      \* where each request is
          past,      \* the sessions whose expiry has passed
          lapsed,    \* the sessions whose reservation or dispatch lease has passed
          draws, stops,
          client     \* history: what clients and the upstream have seen of a session

uploadVars == <<mode, journal, durable, files, assembly, task, past, lapsed,
                draws, stops, client>>

UploadStates == {"Active", "Completing", "Validating", "ValidationFailed", "Ready",
                 "Dispatching", "Complete", "Indeterminate", "Deleted"}

FileKey == [up : Uploads, kind : {"chunk", "object"}, draw : 1..MaxDraws]

Part == [key : FileKey, at : Nat, bytes : Nat]

Reservation == [token : 1..MaxDraws, at : Nat, bytes : Nat, epoch : Nat]

Session == [dictionary : BOOLEAN, upstream : BOOLEAN,
            state : UploadStates, offset : Nat, total : Nat \cup {Nil},
            parts : SUBSET Part, reservation : Reservation \cup {Nil},
            decoded : Nat, object : FileKey \cup {Nil}, objectBytes : Nat,
            epoch : Nat]

\* Nil stands for what is absent and is none of the values it is told from
ASSUME NilAssumption ==
  /\ Nil \notin Uploads /\ Nil \notin Tasks /\ Nil \notin Nat
  /\ Nil \notin FileKey /\ Nil \notin Reservation /\ Nil \notin Session

NewSession(kind) ==
  [dictionary |-> kind.dictionary, upstream |-> kind.upstream,
   state |-> "Active", offset |-> 0, total |-> Nil, parts |-> {}, reservation |-> Nil,
   decoded |-> 0, object |-> Nil, objectBytes |-> 0, epoch |-> 1]

TaskStates == {"idle", "entered", "reserved", "staged", "renamed", "failed",
               "building", "built", "claimed", "sent", "tombstoned", "cleared",
               "sweeping"}

Task == [pc : TaskStates, up : Uploads \cup {Nil}, res : Reservation \cup {Nil},
         key : FileKey \cup {Nil}, bytes : Nat, epoch : Nat, then : {"idle", "sweeping"}]

Idle == [pc |-> "idle", up |-> Nil, res |-> Nil, key |-> Nil, bytes |-> 0, epoch |-> 0,
         then |-> "idle"]

UploadInit ==
  /\ mode = "open"
  /\ journal = [u \in Uploads |-> Nil] /\ durable = journal
  /\ files = {} /\ assembly = Nil
  /\ task = [t \in Tasks |-> Idle]
  /\ past = {} /\ lapsed = {} /\ draws = 0 /\ stops = 0
  /\ client = [u \in Uploads |-> [created |-> FALSE, committed |-> 0,
                                  promise |-> Nil, sent |-> 0]]

--------------------------------------------------------------------------------
(* Publication of a journal *)

Running == mode \in {"open", "poisoned"}

(* Faulty variant: the journal is overwritten in place. *)
PersistInPlace(next, ok) ==
  \/ ok /\ journal' = next /\ durable' = next /\ mode' = mode
  \/ ~ok /\ "persist" \in UploadFaults /\ durable' = Nil /\ UNCHANGED <<journal, mode>>

(* Faulty variant: a reply does not wait for the sync. *)
PersistUnsynced(next, ok) ==
  ok /\ journal' = next /\ durable' \in {durable, next} /\ mode' = mode

(* The journal is renamed into place, then the directories are synced: it may
   fail before the rename, or after it, with either version left to a crash. *)
Persist(next, ok) ==
  \/ ok /\ journal' = next /\ durable' = next /\ mode' = mode
  \/ ~ok /\ "persist" \in UploadFaults /\ UNCHANGED <<journal, durable, mode>>
  \/ /\ ~ok /\ "sync" \in UploadFaults
     /\ journal' = next /\ durable' \in {durable, next} /\ mode' = "poisoned"

Visible == journal' # journal     \* the new journal is what memory holds

Resumes(t, r) == task' = [task EXCEPT ![t] = r]

Release(t) == assembly' = IF assembly = t THEN Nil ELSE assembly

Checked(j, u) == j[u] # Nil /\ j[u].state # "Deleted" /\ u \notin past

Fence(s) == [s EXCEPT !.reservation = Nil, !.epoch = @ + 1]

ReapExpired(j) ==
  [u \in Uploads |-> IF j[u] # Nil /\ u \in lapsed /\ j[u].reservation # Nil
                     THEN Fence(j[u]) ELSE j[u]]

DispatchExpired(u) ==
  journal[u] # Nil /\ journal[u].state = "Dispatching" /\ u \in lapsed

ExpireDispatches(j) ==
  [u \in Uploads |-> IF DispatchExpired(u)
                     THEN [j[u] EXCEPT !.state = "Indeterminate", !.epoch = @ + 1]
                     ELSE j[u]]

\* the retention of a session whose dispatch has just been ended starts anew
StillPast == {u \in past : ~DispatchExpired(u)}

Bytes(s) ==
  s.offset + (IF s.reservation = Nil THEN 0 ELSE s.reservation.bytes)
           + s.objectBytes + s.decoded
           + (IF s.state = "Completing" /\ s.object = Nil THEN s.offset ELSE 0)

\* one element for each byte that the sessions of a journal account for
AccountedBytes(j) == UNION {{u} \X (1..Bytes(j[u])) : u \in {v \in Uploads : j[v] # Nil}}

ProfileUsage(j) == Cardinality(AccountedBytes(j))

Keys(s) == {p.key : p \in s.parts} \cup ({s.object} \ {Nil})

Referenced(j) == UNION {Keys(j[u]) : u \in {v \in Uploads : j[v] # Nil}}

--------------------------------------------------------------------------------
(* Requests of one transaction *)

Enter(t) ==
  /\ mode = "open" /\ task[t].pc = "idle"
  /\ Resumes(t, [Idle EXCEPT !.pc = "entered"])
  /\ UNCHANGED <<mode, journal, durable, files, assembly, past, lapsed, draws, stops, client>>

Create(t, u) ==
  /\ Running /\ task[t].pc = "entered" /\ ~client[u].created
  /\ Cardinality({v \in Uploads : journal[v] # Nil}) < MaxSessions
  /\ \E ok \in BOOLEAN, kind \in UploadKinds :
       Persist([ReapExpired(journal) EXCEPT ![u] = NewSession(kind)], ok)
  /\ client' = [client EXCEPT ![u].created = TRUE]
  /\ Resumes(t, Idle)
  /\ UNCHANGED <<files, assembly, past, lapsed, draws, stops>>

(* Faulty variant: a lookup leaves a pending reservation alone. *)
LookupUnfenced(t, u) ==
  LET next == ExpireDispatches(journal)
  IN /\ Running /\ task[t].pc = "entered"
     /\ Checked(journal, u) \/ DispatchExpired(u)
     /\ \E ok \in BOOLEAN :
          /\ IF next = journal THEN ok /\ UNCHANGED <<journal, durable, mode>>
                               ELSE Persist(next, ok)
          /\ client' = IF ok THEN [client EXCEPT ![u].promise = next[u].offset] ELSE client
     /\ past' = IF Visible THEN StillPast ELSE past
     /\ Resumes(t, Idle)
     /\ UNCHANGED <<files, assembly, lapsed, draws, stops>>

(* A lookup ends expired dispatches, takes a pending reservation away and
   replies with the offset the client may go on from.                        *)
Lookup(t, u) ==
  LET swept == ExpireDispatches(journal)
      next  == IF swept[u].reservation = Nil THEN swept
               ELSE [swept EXCEPT ![u] = Fence(@)]
  IN /\ Running /\ task[t].pc = "entered"
     /\ Checked(journal, u) \/ DispatchExpired(u)
     /\ \E ok \in BOOLEAN :
          /\ IF next = journal THEN ok /\ UNCHANGED <<journal, durable, mode>>
                               ELSE Persist(next, ok)
          /\ client' = IF ok THEN [client EXCEPT ![u].promise = next[u].offset] ELSE client
     /\ past' = IF Visible THEN StillPast ELSE past
     /\ Resumes(t, Idle)
     /\ UNCHANGED <<files, assembly, lapsed, draws, stops>>

DeclareLength(t, u, n) ==
  /\ Running /\ task[t].pc = "entered" /\ Checked(journal, u)
  /\ journal[u].state = "Active" /\ journal[u].reservation = Nil
  /\ journal[u].offset <= n /\ n <= MaxUploadBytes
  /\ journal[u].total \in {Nil, n}
  /\ \E ok \in BOOLEAN : Persist([journal EXCEPT ![u].total = n], ok)
  /\ Resumes(t, Idle)
  /\ UNCHANGED <<files, assembly, past, lapsed, draws, stops, client>>

ClaimState(s) == IF s.dictionary THEN "Validating" ELSE "Completing"

(* Faulty variant: the bytes of the assembled object are not budgeted. *)
ClaimUnbudgeted(t, u) ==
  LET reaped == ReapExpired(journal)
      s == reaped[u]
  IN /\ Running /\ task[t].pc = "entered" /\ Checked(journal, u)
     /\ s.reservation = Nil /\ s.total \in {Nil, s.offset} /\ s.state = "Active"
     /\ \E ok \in BOOLEAN :
          Persist([reaped EXCEPT ![u].state = ClaimState(s), ![u].epoch = @ + 1], ok)
     /\ Resumes(t, Idle)
     /\ UNCHANGED <<files, assembly, past, lapsed, draws, stops, client>>

(* Completion is claimed once, or found already claimed. *)
ClaimComplete(t, u) ==
  LET reaped == ReapExpired(journal)
      s == reaped[u]
  IN /\ Running /\ task[t].pc = "entered" /\ Checked(journal, u)
     /\ s.reservation = Nil /\ s.total \in {Nil, s.offset}
     /\ \/ s.state = "Completing" /\ UNCHANGED <<journal, durable, mode>>
        \/ /\ s.state = "Active"
           /\ ProfileUsage(reaped) + s.offset <= MaxStorageBytes
           /\ \E ok \in BOOLEAN :
                Persist([reaped EXCEPT ![u].state = ClaimState(s), ![u].epoch = @ + 1], ok)
     /\ Resumes(t, Idle)
     /\ UNCHANGED <<files, assembly, past, lapsed, draws, stops, client>>

FailValidation(t, u) ==
  /\ Running /\ task[t].pc = "entered" /\ Checked(journal, u)
  /\ journal[u].dictionary /\ journal[u].state \in {"Active", "Validating"}
  /\ \E ok \in BOOLEAN :
       Persist([journal EXCEPT ![u] = [Fence(@) EXCEPT !.state = "ValidationFailed"]], ok)
  /\ Resumes(t, Idle)
  /\ UNCHANGED <<files, assembly, past, lapsed, draws, stops, client>>

--------------------------------------------------------------------------------
(* Appending a part: reserve, stage, rename into place, record *)

BeginAppend(t, u, n) ==
  LET reaped == ReapExpired(journal)
      s == reaped[u]
      r == [token |-> draws + 1, at |-> s.offset, bytes |-> n, epoch |-> s.epoch]
  IN /\ Running /\ task[t].pc = "entered" /\ Checked(journal, u)
     /\ draws < MaxDraws
     /\ s.state = "Active" /\ s.reservation = Nil
     /\ s.offset + n <= MaxUploadBytes
     /\ s.total # Nil => s.offset + n <= s.total
     /\ Cardinality(s.parts) < MaxParts
     /\ Cardinality({v \in Uploads : reaped[v] # Nil /\ reaped[v].reservation # Nil})
          < MaxConcurrentParts
     /\ ProfileUsage(reaped) + n <= MaxStorageBytes
     /\ draws' = draws + 1
     /\ \E ok \in BOOLEAN :
          /\ Persist([reaped EXCEPT ![u].reservation = r], ok)
          /\ Resumes(t, IF ok THEN [Idle EXCEPT !.pc = "reserved", !.up = u, !.res = r]
                              ELSE Idle)
     /\ lapsed' = IF Visible THEN lapsed \ {u} ELSE lapsed
     /\ client' = [client EXCEPT ![u].promise = Nil]
     /\ UNCHANGED <<files, assembly, past, stops>>

(* Faulty variant: the part is recorded whoever holds the reservation now. *)
SessionActive(t) == journal[task[t].up] # Nil /\ journal[task[t].up].state = "Active"

CheckReservation(t) ==
  LET s == journal[task[t].up]
  IN /\ s # Nil /\ s.state = "Active" /\ task[t].up \notin past
     /\ s.epoch = task[t].res.epoch /\ s.reservation = task[t].res
     /\ task[t].up \notin lapsed

(* The body is inspected, staged and synced; a part may be shorter than its
   reservation.                                                              *)
StagePart(t, n) ==
  /\ Running /\ task[t].pc = "reserved" /\ n <= task[t].res.bytes
  /\ Resumes(t, IF mode = "open" /\ CheckReservation(t)
                THEN [task[t] EXCEPT !.pc = "staged", !.bytes = n,
                        !.key = [up |-> task[t].up, kind |-> "chunk",
                                 draw |-> task[t].res.token]]
                ELSE [task[t] EXCEPT !.pc = "failed"])
  /\ UNCHANGED <<mode, journal, durable, files, assembly, past, lapsed, draws, stops, client>>

RenamePart(t) ==
  /\ Running /\ task[t].pc = "staged" /\ assembly = Nil
  /\ assembly' = t /\ files' = files \cup {task[t].key}
  /\ Resumes(t, [task[t] EXCEPT !.pc = "renamed"])
  /\ UNCHANGED <<mode, journal, durable, past, lapsed, draws, stops, client>>

(* Faulty variant: every failed record removes its file. *)
UnwindAlways(t) == files' = IF mode' = "open" /\ Visible THEN files ELSE files \ {task[t].key}

\* a file that was not recorded is removed, unless its record may have survived
Unwind(t) == files' = IF Visible THEN files ELSE files \ {task[t].key}

RecordPart(t) ==
  LET u == task[t].up
      s == journal[u]
      p == [key |-> task[t].key, at |-> task[t].res.at, bytes |-> task[t].bytes]
      failed == [task[t] EXCEPT !.pc = "failed", !.key = Nil]
  IN /\ Running /\ task[t].pc = "renamed"
     /\ Release(t)
     /\ \/ /\ CheckReservation(t)
           /\ \E ok \in BOOLEAN :
                /\ Persist([journal EXCEPT ![u] = [Fence(s) EXCEPT
                              !.parts = @ \cup {p}, !.offset = @ + p.bytes]], ok)
                /\ Resumes(t, IF ok THEN Idle ELSE failed)
                /\ client' = IF ok THEN [client EXCEPT ![u].committed = s.offset + p.bytes]
                                   ELSE client
           /\ Unwind(t)
        \/ /\ ~CheckReservation(t)
           /\ files' = files \ {task[t].key} /\ Resumes(t, failed)
           /\ UNCHANGED <<mode, journal, durable, client>>
     /\ UNCHANGED <<past, lapsed, draws, stops>>

AbortAppend(t) ==
  LET u == task[t].up
  IN /\ Running /\ task[t].pc \in {"reserved", "failed"}
     /\ IF mode = "open" /\ journal[u] # Nil /\ journal[u].reservation = task[t].res
        THEN \E ok \in BOOLEAN : Persist([journal EXCEPT ![u] = Fence(@)], ok)
        ELSE UNCHANGED <<mode, journal, durable>>
     /\ Resumes(t, Idle)
     /\ UNCHANGED <<files, assembly, past, lapsed, draws, stops, client>>

--------------------------------------------------------------------------------
(* Publishing the object of a claimed upload *)

Contiguous(s) ==
  \A i \in 0..(s.offset - 1) :
    Cardinality({p \in s.parts : p.at <= i /\ i < p.at + p.bytes}) = 1

(* A plain upload is assembled from its chunks; the decoded bytes of a
   dictionary upload are reserved in the journal before they are written.    *)
BeginPublish(t, u, n) ==
  LET s == journal[u]
      begun == [Idle EXCEPT !.pc = "building", !.up = u, !.epoch = s.epoch,
                            !.bytes = IF s.dictionary THEN n ELSE s.offset,
                            !.key = [up |-> u, kind |-> "object", draw |-> draws + 1]]
  IN /\ Running /\ task[t].pc = "entered" /\ assembly = Nil /\ draws < MaxDraws
     /\ Checked(journal, u) /\ s.state = ClaimState(s)
     /\ draws' = draws + 1
     /\ IF s.dictionary
        THEN /\ s.decoded = 0 /\ ProfileUsage(journal) + n <= MaxStorageBytes
             /\ \E ok \in BOOLEAN :
                  /\ Persist([journal EXCEPT ![u].decoded = n], ok)
                  /\ Resumes(t, IF ok THEN begun ELSE Idle)
                  /\ assembly' = IF ok THEN t ELSE Nil
        ELSE /\ Contiguous(s) /\ n = 0
             /\ Resumes(t, begun) /\ assembly' = t
             /\ UNCHANGED <<mode, journal, durable>>
     /\ UNCHANGED <<files, past, lapsed, stops, client>>

BuildObject(t) ==
  /\ Running /\ task[t].pc = "building"
  /\ files' = files \cup {task[t].key}
  /\ Resumes(t, [task[t] EXCEPT !.pc = "built"])
  /\ UNCHANGED <<mode, journal, durable, assembly, past, lapsed, draws, stops, client>>

RecordObject(t) ==
  LET u == task[t].up
      s == journal[u]
      claimed == Checked(journal, u) /\ s.state = ClaimState(s) /\ s.epoch = task[t].epoch
  IN /\ Running /\ task[t].pc = "built"
     /\ Release(t) /\ Resumes(t, Idle)
     /\ \/ /\ claimed
           /\ \E ok \in BOOLEAN :
                Persist([journal EXCEPT ![u] = [s EXCEPT
                           !.object = task[t].key, !.objectBytes = task[t].bytes,
                           !.decoded = 0, !.epoch = @ + 1,
                           !.state = IF s.upstream THEN "Ready" ELSE "Complete"]], ok)
           /\ Unwind(t)
           /\ past' = IF Visible THEN past \ {u} ELSE past
        \/ /\ ~claimed /\ files' = files \ {task[t].key}
           /\ UNCHANGED <<mode, journal, durable, past>>
     /\ UNCHANGED <<lapsed, draws, stops, client>>

--------------------------------------------------------------------------------
(* Sending the object upstream, at most once *)

BeginDispatch(t, u) ==
  /\ Running /\ task[t].pc = "entered" /\ Checked(journal, u)
  /\ journal[u].state = "Ready" /\ journal[u].object # Nil
  /\ \E ok \in BOOLEAN :
       /\ Persist([journal EXCEPT ![u].state = "Dispatching", ![u].epoch = @ + 1], ok)
       /\ Resumes(t, IF ok THEN [Idle EXCEPT !.pc = "claimed", !.up = u,
                                             !.epoch = journal[u].epoch + 1]
                           ELSE Idle)
  /\ lapsed' = IF Visible THEN lapsed \ {u} ELSE lapsed
  /\ UNCHANGED <<files, assembly, past, draws, stops, client>>

Send(t) ==
  /\ Running /\ task[t].pc = "claimed"
  /\ client' = [client EXCEPT ![task[t].up].sent = @ + 1]
  /\ Resumes(t, [task[t] EXCEPT !.pc = "sent"])
  /\ UNCHANGED <<mode, journal, durable, files, assembly, past, lapsed, draws, stops>>

(* Also what the cancellation guard of a dropped request does. *)
FinishDispatch(t, terminal) ==
  LET u == task[t].up
      s == journal[u]
  IN /\ Running /\ task[t].pc \in {"claimed", "sent"}
     /\ terminal = "Complete" => task[t].pc = "sent"
     /\ IF mode = "open" /\ s # Nil /\ s.state = "Dispatching" /\ s.epoch = task[t].epoch
        THEN /\ \E ok \in BOOLEAN :
                  Persist([journal EXCEPT ![u].state = terminal, ![u].epoch = @ + 1], ok)
             /\ past' = IF Visible THEN past \ {u} ELSE past
        ELSE UNCHANGED <<mode, journal, durable, past>>
     /\ Resumes(t, Idle)
     /\ UNCHANGED <<files, assembly, lapsed, draws, stops, client>>

--------------------------------------------------------------------------------
(* Deleting and collecting: tombstone, remove the files, forget the tombstone *)

Tombstone(t, u, j, then) ==
  /\ assembly = Nil /\ j[u].epoch < MaxEpoch
  /\ \E ok \in BOOLEAN :
       /\ Persist([j EXCEPT ![u] = [Fence(@) EXCEPT !.state = "Deleted"]], ok)
       /\ Resumes(t, IF ok THEN [Idle EXCEPT !.pc = "tombstoned", !.up = u, !.then = then,
                                             !.epoch = j[u].epoch + 1]
                           ELSE Idle)
       /\ assembly' = IF ok THEN t ELSE Nil
  /\ past' = IF Visible /\ then = "idle" THEN StillPast ELSE past
  /\ UNCHANGED <<files, lapsed, draws, stops, client>>

Delete(t, u) ==
  /\ Running /\ task[t].pc = "entered"
  /\ Checked(journal, u) \/ DispatchExpired(u)
  /\ ExpireDispatches(journal)[u].state \notin {"Completing", "Dispatching"}
  /\ Tombstone(t, u, ExpireDispatches(journal), "idle")

CollectScan(t) ==
  LET next == ExpireDispatches(journal)
  IN /\ Running /\ task[t].pc = "entered"
     /\ \E ok \in BOOLEAN :
          /\ IF next = journal THEN ok /\ UNCHANGED <<mode, journal, durable>>
                               ELSE Persist(next, ok)
          /\ Resumes(t, IF ok THEN [Idle EXCEPT !.pc = "sweeping"] ELSE Idle)
     /\ past' = IF Visible THEN StillPast ELSE past
     /\ UNCHANGED <<files, assembly, lapsed, draws, stops, client>>

Collect(t, u) ==
  /\ Running /\ task[t].pc = "sweeping" /\ journal[u] # Nil
  /\ journal[u].state = "Deleted" \/ (u \in past /\ journal[u].state # "Dispatching")
  /\ Tombstone(t, u, journal, "sweeping")

RemoveUploadFiles(t) ==
  /\ Running /\ task[t].pc = "tombstoned"
  /\ \/ /\ files' = {k \in files : k.up # task[t].up}
        /\ Resumes(t, [task[t] EXCEPT !.pc = "cleared"]) /\ UNCHANGED assembly
     \/ /\ "persist" \in UploadFaults
        /\ Resumes(t, Idle) /\ Release(t) /\ UNCHANGED files
  /\ UNCHANGED <<mode, journal, durable, past, lapsed, draws, stops, client>>

RemoveTombstone(t) ==
  LET u == task[t].up
  IN /\ Running /\ task[t].pc = "cleared" /\ Release(t)
     /\ \E ok \in BOOLEAN :
          /\ IF /\ journal[u] # Nil /\ journal[u].state = "Deleted"
                /\ journal[u].epoch = task[t].epoch
             THEN Persist([journal EXCEPT ![u] = Nil], ok)
             ELSE ok /\ UNCHANGED <<mode, journal, durable>>
          /\ Resumes(t, IF ok THEN [Idle EXCEPT !.pc = task[t].then] ELSE Idle)
     /\ UNCHANGED <<files, past, lapsed, draws, stops, client>>

CleanupOrphanData(t) ==
  /\ Running /\ task[t].pc = "sweeping" /\ assembly = Nil
  /\ files' = files \cap Referenced(journal)
  /\ Resumes(t, Idle)
  /\ UNCHANGED <<mode, journal, durable, assembly, past, lapsed, draws, stops, client>>

--------------------------------------------------------------------------------
(* Requests that go away, time, and the process stopping and reopening *)

\* dropping a request removes what it had renamed and unlocks what it had locked
Cancel(t) ==
  /\ "cancel" \in UploadFaults
  /\ Running /\ task[t].pc \in {"reserved", "staged", "renamed", "building", "built"}
  /\ files' = files \ {task[t].key}
  /\ Release(t) /\ Resumes(t, Idle)
  /\ UNCHANGED <<mode, journal, durable, past, lapsed, draws, stops, client>>

Leased(u) == journal[u].reservation # Nil \/ journal[u].state = "Dispatching"

LeaseLapses(u) ==
  /\ Running /\ journal[u] # Nil /\ Leased(u) /\ u \notin lapsed
  /\ lapsed' = lapsed \cup {u}
  /\ UNCHANGED <<mode, journal, durable, files, assembly, task, past, draws, stops, client>>

SessionExpires(u) ==
  /\ Running /\ journal[u] # Nil /\ u \notin past
  /\ past' = past \cup {u} /\ lapsed' = IF Leased(u) THEN lapsed \cup {u} ELSE lapsed
  /\ UNCHANGED <<mode, journal, durable, files, assembly, task, draws, stops, client>>

Stop ==
  /\ mode # "closed" /\ stops < MaxStops
  /\ mode' = "closed" /\ stops' = stops + 1
  /\ journal' = durable /\ assembly' = Nil
  /\ task' = [t \in Tasks |-> Idle]
  /\ client' = [u \in Uploads |-> [client[u] EXCEPT !.promise = Nil]]
  /\ UNCHANGED <<durable, files, past, lapsed, draws>>

(* Faulty variant: an interrupted dispatch is made ready again. *)
RecoveredReady(s) ==
  [s EXCEPT !.state = IF @ = "Dispatching" THEN "Ready" ELSE @, !.reservation = Nil]

Recovered(s) ==
  LET state == CASE s.state = "Validating" -> "ValidationFailed"
                 [] s.state = "Dispatching" -> "Indeterminate"
                 [] OTHER -> s.state
      fences == (IF state = s.state THEN 0 ELSE 1)
                  + (IF s.reservation = Nil \/ s.state = "Validating" THEN 0 ELSE 1)
  IN [s EXCEPT !.state = state, !.reservation = Nil, !.epoch = @ + fences]

ReopenFence ==
  /\ mode = "closed"
  /\ mode' = "fenced"
  /\ durable' = [u \in Uploads |-> IF durable[u] = Nil THEN Nil ELSE Recovered(durable[u])]
  /\ past' = {u \in past : ~(durable[u] # Nil /\ durable[u].state = "Dispatching")}
  /\ journal' = durable'
  /\ UNCHANGED <<files, assembly, task, lapsed, draws, stops, client>>

ReopenClear ==
  /\ mode = "fenced"
  /\ mode' = "cleared"
  /\ files' = {k \in files : ~(durable[k.up] # Nil /\ durable[k.up].state = "Deleted")}
  /\ UNCHANGED <<journal, durable, assembly, task, past, lapsed, draws, stops, client>>

Undeleted(j) == [u \in Uploads |-> IF j[u] # Nil /\ j[u].state = "Deleted" THEN Nil ELSE j[u]]

ReopenValidate ==
  /\ mode = "cleared"
  /\ Referenced(Undeleted(durable)) \subseteq files
  /\ mode' = "open"
  /\ durable' = Undeleted(durable) /\ journal' = durable'
  /\ files' = files \cap Referenced(durable')
  /\ UNCHANGED <<assembly, task, past, lapsed, draws, stops, client>>

--------------------------------------------------------------------------------

TaskStep(t) ==
  \/ Enter(t) \/ CollectScan(t) \/ CleanupOrphanData(t)
  \/ RenamePart(t) \/ RecordPart(t) \/ AbortAppend(t)
  \/ BuildObject(t) \/ RecordObject(t)
  \/ Send(t) \/ RemoveUploadFiles(t) \/ RemoveTombstone(t) \/ Cancel(t)
  \/ \E n \in 1..MaxUploadBytes : StagePart(t, n)
  \/ \E terminal \in {"Complete", "Indeterminate"} : FinishDispatch(t, terminal)
  \/ \E u \in Uploads :
       \/ Create(t, u) \/ Lookup(t, u) \/ ClaimComplete(t, u) \/ FailValidation(t, u)
       \/ BeginDispatch(t, u) \/ Delete(t, u) \/ Collect(t, u)
       \/ \E n \in 0..MaxUploadBytes : DeclareLength(t, u, n) \/ BeginPublish(t, u, n)
       \/ \E n \in 1..MaxUploadBytes : BeginAppend(t, u, n)

UploadNext ==
  \/ \E t \in Tasks : TaskStep(t)
  \/ \E u \in Uploads : LeaseLapses(u) \/ SessionExpires(u)
  \/ Stop \/ ReopenFence \/ ReopenClear \/ ReopenValidate

UploadSpec == UploadInit /\ [][UploadNext]_uploadVars

--------------------------------------------------------------------------------
(* Type invariant *)
UploadTypeOK ==
  /\ mode \in {"open", "poisoned", "closed", "fenced", "cleared"}
  /\ journal \in [Uploads -> Session \cup {Nil}]
  /\ durable \in [Uploads -> Session \cup {Nil}]
  /\ files \subseteq FileKey
  /\ assembly \in Tasks \cup {Nil}
  /\ task \in [Tasks -> Task]
  /\ past \subseteq Uploads /\ lapsed \subseteq Uploads
  /\ draws \in 0..MaxDraws /\ stops \in 0..MaxStops

(* Every chunk and object that the journal a crash would leave behind names in
   a session that is not deleted exists, whatever step of an append, a
   publication, a deletion or a collection the crash interrupts and whichever
   version of an uncertain journal survives: reopening never finds a
   referenced file missing (validate_referenced_files).                      *)
ReferencesExist ==
  \A u \in Uploads :
    durable[u] # Nil /\ durable[u].state # "Deleted" => Keys(durable[u]) \subseteq files

(* What the journal accounts to the profile stays within max_storage_bytes,
   reservations, assemblies in progress and decoded copies included.         *)
StorageBounded == ProfileUsage(journal) <= MaxStorageBytes

(* The parts of a session tile its bytes: no append that was fenced, retried or
   recorded late left a gap or an overlap under the offset.                  *)
PartsTile ==
  \A u \in Uploads : durable[u] # Nil =>
    /\ Contiguous(durable[u])
    /\ \A p \in durable[u].parts : p.at + p.bytes <= durable[u].offset

(* An offset a client was given as the reply to its append is never lost by a
   crash.                                                                    *)
CommittedKept ==
  \A u \in Uploads : durable[u] # Nil => durable[u].offset >= client[u].committed

(* "A lookup fences an older pending append, so the returned offset can be used
   by the next request": until an append begins, the offset is the one the
   last lookup returned.                                                     *)
LookupFences ==
  Running => \A u \in Uploads :
    journal[u] # Nil /\ client[u].promise # Nil => journal[u].offset = client[u].promise

(* An upload is sent upstream at most once in its life, through crashes,
   cancelled requests, lapsed dispatch leases and uncertain journals.        *)
SentOnce == \A u \in Uploads : client[u].sent <= 1
================================================================================
