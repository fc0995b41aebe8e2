----------------------------- MODULE UploadProofs -----------------------------
(* Proofs about UploadStore for every set of sessions and tasks, every size and
   every combination of faults: the types, the files that a journal needs, the
   parts that tile a session, what clients were told, the single dispatch, and
   the bytes that the sessions of a profile account for.                      *)
EXTENDS UploadStore, FiniteSetTheorems, TLAPS

-------------------------------------------------------------------------------
(* The inductive invariant, in operators of values, so that a lemma about them
   speaks of a state and of its successor alike.                              *)

KeysOf(s) == IF s = Nil THEN {} ELSE Keys(s)

Gone(s) == s = Nil \/ s.state = "Deleted"

(* A session of this kind has no object yet. *)
Early(s) == s.state \in {"Active", "Completing", "Validating"}

(* A session of this kind is never made ready for a dispatch again. *)
Beyond(s) == s = Nil \/ s.state \in {"Dispatching", "Complete", "Indeterminate", "Deleted"}

Tiled(s) ==
  /\ Contiguous(s)
  /\ \A p \in s.parts : p.at + p.bytes <= s.offset

ClientRecord == [created : BOOLEAN, committed : Nat, promise : Nat \cup {Nil}, sent : Nat]

(* A session as memory or the disk may hold it, after n draws, when c is what
   its client has seen and F are the files.                                   *)
SessionSound(v, s, n, c, F) ==
  s # Nil =>
    /\ s \in Session
    /\ c.created
    /\ \A k \in Keys(s) : k.up = v /\ k.draw <= n
    /\ Early(s) => s.object = Nil
    /\ Tiled(s)
    /\ s.reservation # Nil => s.reservation.at = s.offset
    /\ s.offset >= c.committed
    /\ s.state # "Deleted" => Keys(s) \subseteq F

(* What the disk still needs, memory still names. *)
Carried(d, j) == ~Gone(d) => j # Nil /\ Keys(d) \subseteq Keys(j)

ClientSound(j, d, c) ==
  /\ ~c.created => c.sent = 0 /\ c.committed = 0 /\ c.promise = Nil
  /\ c.promise # Nil /\ j # Nil => j.reservation = Nil /\ j.offset = c.promise
  /\ c.sent <= 1
  /\ c.sent >= 1 => Beyond(j) /\ Beyond(d)

(* A task that has drawn the key of a file which is not recorded. *)
Owns(r) == r.pc \in {"reserved", "staged", "renamed", "building", "built"}

Holds(r) == r.pc \in {"renamed", "building", "built", "tombstoned", "cleared"}

Written(r) == r.pc \in {"renamed", "built"}

OwnKey(r) ==
  IF r.pc \in {"building", "built"} THEN r.key
  ELSE [up |-> r.up, kind |-> "chunk", draw |-> r.res.token]

(* What a task carries with it at each point of its course. *)
Shaped(r) ==
  /\ r.pc \notin {"idle", "entered", "sweeping"} => r.up \in Uploads
  /\ r.pc \in {"reserved", "staged", "renamed", "failed"} => r.res \in Reservation
  /\ r.pc = "reserved" => r.key = Nil
  /\ r.pc \in {"staged", "renamed"} => r.key = OwnKey(r)
  /\ r.pc \in {"building", "built"} => r.key \in FileKey /\ r.key.up = r.up

TaskSound(t, r, a, F, n, j, d, c) ==
  /\ Shaped(r)
  /\ r.up # Nil => c[r.up].created
  /\ Holds(r) => a = t
  /\ Written(r) => r.key \in F
  /\ Owns(r) => /\ OwnKey(r).draw <= n
                /\ \A v \in Uploads : OwnKey(r) \notin KeysOf(j[v]) \cup KeysOf(d[v])
  /\ r.pc \in {"tombstoned", "cleared"} => Gone(j[r.up]) /\ Gone(d[r.up])
  /\ r.pc \in {"claimed", "sent"} => Beyond(j[r.up]) /\ Beyond(d[r.up])
  /\ r.pc = "claimed" => c[r.up].sent = 0
  /\ r.pc = "sent" => c[r.up].sent >= 1

(* Two tasks never own the same key or the same dispatch. *)
Apart(r, q) ==
  /\ Owns(r) /\ Owns(q) => OwnKey(r).draw # OwnKey(q).draw
  /\ r.pc = "claimed" /\ q.pc = "claimed" => r.up # q.up

SessionsSound ==
  \A v \in Uploads : /\ SessionSound(v, journal[v], draws, client[v], files)
                     /\ SessionSound(v, durable[v], draws, client[v], files)
                     /\ Carried(durable[v], journal[v])

ClientsSound == \A v \in Uploads : ClientSound(journal[v], durable[v], client[v])

TasksSound ==
  /\ \A t \in Tasks : TaskSound(t, task[t], assembly, files, draws, journal, durable, client)
  /\ \A t, q \in Tasks : t # q => Apart(task[t], task[q])

Quiescent == ~Running => /\ journal = durable /\ assembly = Nil
                         /\ \A t \in Tasks : task[t] = Idle

UploadInv ==
  /\ UploadTypeOK
  /\ client \in [Uploads -> ClientRecord]
  /\ SessionsSound
  /\ ClientsSound
  /\ TasksSound
  /\ Quiescent

-------------------------------------------------------------------------------
(* Facts about sessions. *)

LEMMA NilDiffers == Nil \notin Session /\ Nil \notin Reservation /\ Nil \notin FileKey
                    /\ Nil \notin Nat /\ Nil \notin Uploads /\ Nil \notin Tasks
BY NilAssumption

(* The fields of a session have their types. *)
LEMMA SessionFields ==
  ASSUME NEW s \in Session
  PROVE  /\ s.state \in UploadStates /\ s.offset \in Nat /\ s.total \in Nat \cup {Nil}
         /\ s.parts \subseteq Part /\ s.reservation \in Reservation \cup {Nil}
         /\ s.decoded \in Nat /\ s.object \in FileKey \cup {Nil} /\ s.objectBytes \in Nat
         /\ s.epoch \in Nat /\ s.dictionary \in BOOLEAN /\ s.upstream \in BOOLEAN
BY DEF Session

(* A change of a session that neither records nor forgets a file. *)
Quiet(s, q) ==
  /\ q \in Session
  /\ q.parts = s.parts /\ q.object = s.object /\ q.offset = s.offset
  /\ q.reservation \in {Nil, s.reservation} \/ q.reservation.at = s.offset
  /\ Early(q) => Early(s)
  /\ Beyond(s) => Beyond(q)
  /\ s.state = "Deleted" => q.state = "Deleted"

LEMMA QuietSame == ASSUME NEW s \in Session PROVE Quiet(s, s)
BY DEF Quiet

LEMMA QuietTwice ==
  ASSUME NEW s \in Session, NEW q, NEW z, Quiet(s, q), Quiet(q, z)
  PROVE  Quiet(s, z)
BY NilDiffers DEF Quiet, Beyond

LEMMA QuietKeys == ASSUME NEW s, NEW q, Quiet(s, q) PROVE Keys(q) = Keys(s)
BY DEF Quiet, Keys

LEMMA QuietSound ==
  ASSUME NEW v, NEW s \in Session, NEW q, NEW n, NEW c, NEW F,
         SessionSound(v, s, n, c, F), Quiet(s, q)
  PROVE  SessionSound(v, q, n, c, F)
<1>1. Keys(q) = Keys(s) BY QuietKeys
<1>2. Tiled(q) <=> Tiled(s) BY DEF Quiet, Tiled, Contiguous
<1>3. s # Nil /\ q # Nil BY NilDiffers DEF Quiet
<1>4. Early(q) => q.object = Nil BY <1>3 DEF SessionSound, Quiet
<1>5. q.reservation # Nil => q.reservation.at = q.offset BY <1>3 DEF SessionSound, Quiet
<1>6. q.state # "Deleted" => s.state # "Deleted" BY DEF Quiet
<1> QED BY <1>1, <1>2, <1>3, <1>4, <1>5, <1>6 DEF SessionSound, Quiet

(* Soundness survives more draws, more files that matter and a client that has
   been told nothing new.                                                     *)
LEMMA SoundLater ==
  ASSUME NEW v, NEW s, NEW n \in Nat, NEW m \in Nat, NEW c, NEW e, NEW F, NEW G,
         SessionSound(v, s, n, c, F), n <= m,
         c.created => e.created, e.committed = c.committed,
         s # Nil /\ s.state # "Deleted" => (Keys(s) \subseteq F => Keys(s) \subseteq G)
  PROVE  SessionSound(v, s, m, e, G)
<1> SUFFICES ASSUME s # Nil PROVE SessionSound(v, s, m, e, G)
  BY DEF SessionSound
<1>1. s \in Session BY DEF SessionSound
<1>2. Keys(s) \subseteq FileKey BY <1>1, SessionFields DEF Keys, Part
<1>3. \A k \in Keys(s) : k.draw \in Int BY <1>2 DEF FileKey
<1>4. \A k \in Keys(s) : k.up = v /\ k.draw <= m BY <1>3 DEF SessionSound
<1> QED BY <1>1, <1>4 DEF SessionSound

-------------------------------------------------------------------------------
(* Facts about a journal that is published, and about the tasks beside it. *)

(* What memory and the disk hold after an attempt to publish a journal. *)
Stored(next) ==
  \/ journal' = next /\ durable' = next
  \/ journal' = next /\ durable' = durable
  \/ journal' = journal /\ durable' = durable

LEMMA PersistStores ==
  ASSUME NEW next, NEW ok \in BOOLEAN, Persist(next, ok)
  PROVE  /\ Stored(next)
         /\ mode' \in {mode, "poisoned"}
         /\ ok => journal' = next /\ durable' = next
BY DEF Persist, Stored

QuietMap(j, next) ==
  /\ next \in [Uploads -> Session \cup {Nil}]
  /\ \A v \in Uploads : \/ j[v] = Nil /\ next[v] = Nil
                        \/ j[v] # Nil /\ next[v] # Nil /\ Quiet(j[v], next[v])

(* What a step may do to a session, in memory (j to x) and on disk (d to y): it
   names no key but the old ones and those of K, and what is gone, or beyond a
   dispatch, stays so.                                                        *)
Moved(j, d, x, y, c, K) ==
  /\ KeysOf(x) \cup KeysOf(y) \subseteq (KeysOf(j) \cup KeysOf(d)) \cup K
  /\ c.created /\ Gone(j) /\ Gone(d) => Gone(x) /\ Gone(y)
  /\ c.created /\ Beyond(j) /\ Beyond(d) => Beyond(x) /\ Beyond(y)

AllMoved(K) ==
  \A v \in Uploads :
    Moved(journal[v], durable[v], journal'[v], durable'[v], client[v], K)

LEMMA TaskLater ==
  ASSUME NEW t, NEW r \in Task, NEW a, NEW b, NEW F, NEW G, NEW n \in Nat, NEW m \in Nat,
         NEW j, NEW d, NEW x, NEW y, NEW K,
         NEW c \in [Uploads -> ClientRecord], NEW e \in [Uploads -> ClientRecord],
         TaskSound(t, r, a, F, n, j, d, c),
         n <= m,
         Holds(r) => (a = t => b = t),
         Written(r) => (r.key \in F => r.key \in G),
         Owns(r) => OwnKey(r) \notin K,
         \A v \in Uploads : Moved(j[v], d[v], x[v], y[v], c[v], K),
         \A v \in Uploads : c[v].created => e[v].created,
         \A v \in Uploads : c[v].sent <= e[v].sent,
         r.pc = "claimed" => e[r.up].sent = c[r.up].sent
  PROVE  TaskSound(t, r, b, G, m, x, y, e)
<1>1. Shaped(r) BY DEF TaskSound
<1>2. r.up # Nil => c[r.up].created /\ e[r.up].created BY DEF TaskSound, Task
<1>3. Holds(r) => b = t BY DEF TaskSound
<1>4. Written(r) => r.key \in G BY DEF TaskSound
<1>5. ASSUME Owns(r)
      PROVE  /\ OwnKey(r).draw <= m
             /\ \A v \in Uploads : OwnKey(r) \notin KeysOf(x[v]) \cup KeysOf(y[v])
  <2>1. OwnKey(r).draw \in Int
    BY <1>1, <1>5, UploadAssumption DEF Shaped, Owns, OwnKey, FileKey, Reservation
  <2>2. OwnKey(r).draw <= n BY <1>5 DEF TaskSound
  <2>3. \A v \in Uploads : OwnKey(r) \notin (KeysOf(j[v]) \cup KeysOf(d[v])) \cup K
    BY <1>5 DEF TaskSound
  <2>4. \A v \in Uploads : KeysOf(x[v]) \cup KeysOf(y[v]) \subseteq (KeysOf(j[v]) \cup KeysOf(d[v])) \cup K
    BY DEF Moved
  <2>5. OwnKey(r).draw <= m BY <2>1, <2>2
  <2> QED BY <2>3, <2>4, <2>5
<1>6. r.pc \in {"tombstoned", "cleared", "claimed", "sent"} => r.up \in Uploads /\ c[r.up].created
  BY <1>1, <1>2, NilDiffers DEF Shaped
<1>7. r.pc \in {"tombstoned", "cleared"} => Gone(x[r.up]) /\ Gone(y[r.up])
  BY <1>6 DEF TaskSound, Moved
<1>8. r.pc \in {"claimed", "sent"} => Beyond(x[r.up]) /\ Beyond(y[r.up])
  BY <1>6 DEF TaskSound, Moved
<1>9. r.pc = "claimed" => e[r.up].sent = 0 BY DEF TaskSound
<1>10. r.pc = "sent" => e[r.up].sent >= 1
  <2> SUFFICES ASSUME r.pc = "sent" PROVE e[r.up].sent >= 1 OBVIOUS
  <2>1. c[r.up].sent >= 1 /\ c[r.up].sent <= e[r.up].sent BY <1>6 DEF TaskSound
  <2>2. c[r.up].sent \in Int /\ e[r.up].sent \in Int BY <1>6 DEF ClientRecord
  <2> QED BY <2>1, <2>2
<1> QED BY <1>1, <1>2, <1>3, <1>4, <1>5, <1>7, <1>8, <1>9, <1>10 DEF TaskSound

(* A step of one task leaves the others sound. *)
LEMMA TasksLater ==
  ASSUME UploadInv, NEW t \in Tasks, NEW r \in Task, NEW K,
         task' = [task EXCEPT ![t] = r],
         draws' \in Nat, draws <= draws',
         client' \in [Uploads -> ClientRecord],
         AllMoved(K),
         \A q \in Tasks : q # t /\ Holds(task[q]) => (assembly = q => assembly' = q),
         \A q \in Tasks : q # t /\ Written(task[q]) => (task[q].key \in files => task[q].key \in files'),
         \A q \in Tasks : q # t /\ Owns(task[q]) => OwnKey(task[q]) \notin K,
         \A v \in Uploads : client[v].created => client'[v].created,
         \A v \in Uploads : client[v].sent <= client'[v].sent,
         \A q \in Tasks : q # t /\ task[q].pc = "claimed" =>
           client'[task[q].up].sent = client[task[q].up].sent,
         TaskSound(t, r, assembly', files', draws', journal', durable', client'),
         \A q \in Tasks : q # t => Apart(r, task[q]) /\ Apart(task[q], r)
  PROVE  TasksSound'
<1>1. ASSUME NEW q \in Tasks, q # t
      PROVE  TaskSound(q, task[q], assembly', files', draws', journal', durable', client')
  <2>1. task[q] \in Task /\ draws \in Nat BY UploadAssumption DEF UploadInv, UploadTypeOK
  <2>2. TaskSound(q, task[q], assembly, files, draws, journal, durable, client)
    BY DEF UploadInv, TasksSound
  <2>3. client \in [Uploads -> ClientRecord] BY DEF UploadInv
  <2> QED BY <1>1, <2>1, <2>2, <2>3, TaskLater DEF AllMoved
<1>2. \A q \in Tasks : task'[q] = IF q = t THEN r ELSE task[q] BY DEF UploadInv, UploadTypeOK
<1>3. \A q \in Tasks : TaskSound(q, task'[q], assembly', files', draws', journal', durable', client')
  BY <1>1, <1>2
<1>4. \A p, q \in Tasks : p # q => Apart(task'[p], task'[q])
  BY <1>2 DEF UploadInv, TasksSound
<1> QED BY <1>3, <1>4 DEF TasksSound

LEMMA Typed ==
  ASSUME UploadInv
  PROVE  /\ journal \in [Uploads -> Session \cup {Nil}] /\ durable \in [Uploads -> Session \cup {Nil}]
         /\ draws \in 0..MaxDraws /\ draws \in Nat /\ draws <= draws
         /\ task \in [Tasks -> Task]
         /\ assembly \in Tasks \cup {Nil}
         /\ past \subseteq Uploads /\ lapsed \subseteq Uploads /\ StillPast \subseteq Uploads
         /\ files \subseteq FileKey
BY UploadAssumption DEF UploadInv, UploadTypeOK, StillPast

(* An entry of a journal of quiet changes. *)
LEMMA QuietEntry ==
  ASSUME UploadInv, NEW next, QuietMap(journal, next), NEW v \in Uploads
  PROVE  /\ SessionSound(v, next[v], draws, client[v], files)
         /\ KeysOf(next[v]) = KeysOf(journal[v])
         /\ Carried(durable[v], next[v])
         /\ Gone(journal[v]) => Gone(next[v])
         /\ Beyond(journal[v]) => Beyond(next[v])
<1>0. /\ SessionSound(v, journal[v], draws, client[v], files)
      /\ Carried(durable[v], journal[v])
  BY DEF UploadInv, SessionsSound
<1>1. CASE journal[v] = Nil
  <2>1. next[v] = Nil BY <1>1 DEF QuietMap
  <2> QED BY <1>0, <1>1, <2>1
<1>2. CASE journal[v] # Nil
  <2>1. journal[v] \in Session /\ Quiet(journal[v], next[v]) /\ next[v] # Nil
    BY <1>2, Typed DEF QuietMap
  <2>2. SessionSound(v, next[v], draws, client[v], files) BY <1>0, <2>1, QuietSound
  <2>3. Keys(next[v]) = Keys(journal[v]) BY <2>1, QuietKeys
  <2>4. Gone(journal[v]) => Gone(next[v]) BY <1>2, <2>1 DEF Quiet, Gone
  <2>5. Beyond(journal[v]) => Beyond(next[v]) BY <2>1 DEF Quiet
  <2> QED BY <1>0, <1>2, <2>1, <2>2, <2>3, <2>4, <2>5 DEF KeysOf, Carried
<1> QED BY <1>1, <1>2

(* A published journal of quiet changes is sound. *)
LEMMA QuietSessions ==
  ASSUME UploadInv, NEW next, QuietMap(journal, next), Stored(next),
         draws' \in Nat, draws <= draws', files' = files,
         \A v \in Uploads : client[v].created => client'[v].created,
         \A v \in Uploads : client'[v].committed = client[v].committed
  PROVE  /\ journal' \in [Uploads -> Session \cup {Nil}]
         /\ durable' \in [Uploads -> Session \cup {Nil}]
         /\ SessionsSound'
         /\ AllMoved({})
<1>1. /\ journal \in [Uploads -> Session \cup {Nil}] /\ durable \in [Uploads -> Session \cup {Nil}]
      /\ draws \in Nat
  BY UploadAssumption DEF UploadInv, UploadTypeOK
<1>2. next \in [Uploads -> Session \cup {Nil}] BY DEF QuietMap
<1>3. journal' \in [Uploads -> Session \cup {Nil}] /\ durable' \in [Uploads -> Session \cup {Nil}]
  BY <1>1, <1>2 DEF Stored
<1>4. \A v \in Uploads : /\ SessionSound(v, next[v], draws, client[v], files)
                         /\ KeysOf(next[v]) = KeysOf(journal[v])
                         /\ Carried(durable[v], next[v])
                         /\ Gone(journal[v]) => Gone(next[v])
                         /\ Beyond(journal[v]) => Beyond(next[v])
  BY QuietEntry
<1>5. ASSUME NEW v \in Uploads
      PROVE  /\ SessionSound(v, journal'[v], draws', client'[v], files')
             /\ SessionSound(v, durable'[v], draws', client'[v], files')
  <2>1. /\ SessionSound(v, journal'[v], draws, client[v], files)
        /\ SessionSound(v, durable'[v], draws, client[v], files)
    BY <1>4 DEF Stored, UploadInv, SessionsSound
  <2> QED BY <1>1, <2>1, SoundLater
<1>6. ASSUME NEW v \in Uploads PROVE Carried(durable'[v], journal'[v])
  <2>1. Carried(next[v], next[v]) BY DEF Carried, Gone
  <2>2. Carried(durable[v], journal[v]) BY DEF UploadInv, SessionsSound
  <2> QED BY <1>4, <2>1, <2>2 DEF Stored
<1>7. AllMoved({})
  <2> SUFFICES ASSUME NEW v \in Uploads
               PROVE  Moved(journal[v], durable[v], journal'[v], durable'[v], client[v], {})
    BY DEF AllMoved
  <2>1. KeysOf(journal'[v]) \subseteq KeysOf(journal[v]) BY <1>4 DEF Stored
  <2>2. KeysOf(durable'[v]) \subseteq KeysOf(journal[v]) \cup KeysOf(durable[v]) BY <1>4 DEF Stored
  <2>3. Gone(journal[v]) /\ Gone(durable[v]) => Gone(journal'[v]) /\ Gone(durable'[v])
    BY <1>4 DEF Stored
  <2>4. Beyond(journal[v]) /\ Beyond(durable[v]) => Beyond(journal'[v]) /\ Beyond(durable'[v])
    BY <1>4 DEF Stored
  <2> QED BY <2>1, <2>2, <2>3, <2>4 DEF Moved
<1>8. SessionsSound' BY <1>5, <1>6 DEF SessionsSound
<1> QED BY <1>3, <1>7, <1>8

LEMMA ClientsLater ==
  ASSUME UploadInv, NEW K, AllMoved(K),
         \A v \in Uploads : client[v].created => client'[v].created,
         \A v \in Uploads : client'[v].created \/ client'[v].committed = client[v].committed,
         \A v \in Uploads : client'[v].sent = client[v].sent,
         \A v \in Uploads : client'[v].promise # Nil =>
           /\ client[v].created
           /\ journal'[v] # Nil => /\ journal'[v].reservation = Nil
                                   /\ journal'[v].offset = client'[v].promise
  PROVE  ClientsSound'
<1> SUFFICES ASSUME NEW v \in Uploads
             PROVE  ClientSound(journal'[v], durable'[v], client'[v])
  BY DEF ClientsSound
<1>1. ClientSound(journal[v], durable[v], client[v]) /\ client[v] \in ClientRecord
  BY DEF UploadInv, ClientsSound
<1>2. ~client'[v].created => client'[v].sent = 0 /\ client'[v].committed = 0 /\ client'[v].promise = Nil
  BY <1>1 DEF ClientSound
<1>3. client'[v].sent <= 1 BY <1>1 DEF ClientSound
<1>4. client'[v].sent >= 1 => client[v].created BY <1>1 DEF ClientSound
<1>5. client'[v].sent >= 1 => Beyond(journal'[v]) /\ Beyond(durable'[v])
  BY <1>1, <1>4 DEF ClientSound, AllMoved, Moved
<1> QED BY <1>2, <1>3, <1>5 DEF ClientSound

(* The changes of a client's view that quiet steps make. *)
LEMMA PromisesKept ==
  ASSUME UploadInv, NEW next, QuietMap(journal, next), Stored(next),
         \A v \in Uploads : next[v] # Nil => next[v].reservation \in {Nil, journal[v].reservation},
         NEW v \in Uploads, client[v].promise # Nil
  PROVE  /\ client[v].created
         /\ journal'[v] # Nil => /\ journal'[v].reservation = Nil
                                 /\ journal'[v].offset = client[v].promise
<1>1. ClientSound(journal[v], durable[v], client[v]) /\ client[v] \in ClientRecord
  BY DEF UploadInv, ClientsSound
<1>2. client[v].created BY <1>1 DEF ClientSound
<1>3. journal[v] # Nil => journal[v].reservation = Nil /\ journal[v].offset = client[v].promise
  BY <1>1 DEF ClientSound
<1>4. next[v] # Nil => journal[v] # Nil /\ next[v].offset = journal[v].offset
  BY DEF QuietMap, Quiet
<1>5. next[v] # Nil => next[v].reservation = Nil /\ next[v].offset = client[v].promise
  BY <1>3, <1>4
<1> QED BY <1>2, <1>3, <1>5 DEF Stored

(* A step of task t that publishes quiet changes, or none, and tells no client. *)
LEMMA QuietStep ==
  ASSUME UploadInv, NEW next, QuietMap(journal, next), Stored(next),
         \A v \in Uploads : next[v] # Nil => next[v].reservation \in {Nil, journal[v].reservation},
         draws' \in Nat, draws <= draws', files' = files, client' = client
  PROVE  /\ journal' \in [Uploads -> Session \cup {Nil}]
         /\ durable' \in [Uploads -> Session \cup {Nil}]
         /\ SessionsSound' /\ ClientsSound' /\ AllMoved({})
<1>1. /\ journal' \in [Uploads -> Session \cup {Nil}]
      /\ durable' \in [Uploads -> Session \cup {Nil}]
      /\ SessionsSound' /\ AllMoved({})
  BY QuietSessions
<1>2. \A v \in Uploads : client'[v].promise # Nil =>
        /\ client[v].created
        /\ journal'[v] # Nil => /\ journal'[v].reservation = Nil
                                /\ journal'[v].offset = client'[v].promise
  BY PromisesKept
<1>3. ClientsSound' BY <1>1, <1>2, ClientsLater
<1> QED BY <1>1, <1>3

LEMMA SameMap == UploadInv => QuietMap(journal, journal)
<1> SUFFICES ASSUME UploadInv PROVE QuietMap(journal, journal) OBVIOUS
<1>1. journal \in [Uploads -> Session \cup {Nil}] BY DEF UploadInv, UploadTypeOK
<1>2. \A v \in Uploads : journal[v] # Nil => Quiet(journal[v], journal[v]) BY <1>1, QuietSame
<1> QED BY <1>1, <1>2 DEF QuietMap

(* A task between requests is sound whatever happened. *)
Rest(p) == [Idle EXCEPT !.pc = p]

LEMMA RestSound ==
  ASSUME NEW p \in {"idle", "entered", "sweeping"}, NEW t, NEW a, NEW F, NEW n, NEW j, NEW d, NEW c
  PROVE  /\ Rest(p) \in Task
         /\ TaskSound(t, Rest(p), a, F, n, j, d, c)
         /\ \A q : Apart(Rest(p), q) /\ Apart(q, Rest(p))
<1>1. Rest(p) \in Task /\ Rest(p).pc = p /\ Rest(p).up = Nil
  BY DEF Rest, Idle, Task, TaskStates
<1>2. Shaped(Rest(p)) BY <1>1 DEF Shaped
<1>3. ~Owns(Rest(p)) /\ ~Holds(Rest(p)) /\ ~Written(Rest(p)) BY <1>1 DEF Owns, Holds, Written
<1> QED BY <1>1, <1>2, <1>3 DEF TaskSound, Apart

(* A step that publishes quiet changes, or none, tells no client and leaves its
   task in a sound place.                                                     *)
LEMMA QuietWork ==
  ASSUME UploadInv, NEW t \in Tasks, NEW r \in Task, NEW next,
         QuietMap(journal, next), Stored(next),
         \A v \in Uploads : next[v] # Nil => next[v].reservation \in {Nil, journal[v].reservation},
         draws' \in 0..MaxDraws, draws <= draws', files' = files, client' = client, stops' = stops,
         past' \subseteq Uploads, lapsed' \subseteq Uploads,
         Running, mode' \in {mode, "poisoned"},
         task' = [task EXCEPT ![t] = r],
         assembly' \in Tasks \cup {Nil},
         \A q \in Tasks : q # t /\ assembly = q => assembly' = q,
         AllMoved({}) => TaskSound(t, r, assembly', files', draws', journal', durable', client'),
         \A q \in Tasks : q # t => Apart(r, task[q]) /\ Apart(task[q], r)
  PROVE  UploadInv'
<1>1. draws' \in Nat /\ draws \in Nat BY UploadAssumption DEF UploadInv, UploadTypeOK
<1>2. /\ journal' \in [Uploads -> Session \cup {Nil}]
      /\ durable' \in [Uploads -> Session \cup {Nil}]
      /\ SessionsSound' /\ ClientsSound' /\ AllMoved({})
  BY <1>1, QuietStep
<1>3. client \in [Uploads -> ClientRecord] BY DEF UploadInv
<1>4. \A v \in Uploads : client[v].sent <= client[v].sent
  BY <1>3 DEF ClientRecord
<1>5. TasksSound' BY <1>1, <1>2, <1>3, <1>4, TasksLater
<1>6. task' \in [Tasks -> Task] BY DEF UploadInv, UploadTypeOK
<1>7. UploadTypeOK' BY <1>2, <1>6 DEF UploadInv, UploadTypeOK, Running
<1>8. Quiescent' BY DEF Quiescent, Running
<1> QED BY <1>2, <1>3, <1>5, <1>7, <1>8 DEF UploadInv

LEMMA QuietRest ==
  ASSUME UploadInv, NEW t \in Tasks, NEW p \in {"idle", "entered", "sweeping"}, NEW next,
         QuietMap(journal, next), Stored(next),
         \A v \in Uploads : next[v] # Nil => next[v].reservation \in {Nil, journal[v].reservation},
         draws' \in 0..MaxDraws, draws <= draws', files' = files, client' = client, stops' = stops,
         past' \subseteq Uploads, lapsed' \subseteq Uploads,
         Running, mode' \in {mode, "poisoned"},
         task' = [task EXCEPT ![t] = Rest(p)],
         assembly' \in Tasks \cup {Nil},
         \A q \in Tasks : q # t /\ assembly = q => assembly' = q
  PROVE  UploadInv'
<1>1. /\ Rest(p) \in Task
      /\ TaskSound(t, Rest(p), assembly', files', draws', journal', durable', client')
      /\ \A q : Apart(Rest(p), q) /\ Apart(q, Rest(p))
  BY RestSound
<1> QED BY <1>1, QuietWork

-------------------------------------------------------------------------------
(* The changes that requests make to a session. *)

Reserves(next) ==
  \A v \in Uploads : next[v] # Nil => next[v].reservation \in {Nil, journal[v].reservation}

LEMMA SessionUpdates ==
  ASSUME NEW s \in Session, NEW e \in Nat
  PROVE  /\ [s EXCEPT !.reservation = Nil, !.epoch = e] \in Session
         /\ \A st \in UploadStates : [s EXCEPT !.state = st, !.epoch = e] \in Session
         /\ \A st \in UploadStates : [s EXCEPT !.state = st] \in Session
         /\ \A n \in Nat : [s EXCEPT !.total = n] \in Session
         /\ \A n \in Nat : [s EXCEPT !.decoded = n] \in Session
         /\ \A r \in Reservation : [s EXCEPT !.reservation = r] \in Session
<1>1. [s EXCEPT !.reservation = Nil, !.epoch = e] \in Session BY DEF Session
<1>2. \A st \in UploadStates : [s EXCEPT !.state = st, !.epoch = e] \in Session BY DEF Session
<1>3. \A st \in UploadStates : [s EXCEPT !.state = st] \in Session BY DEF Session
<1>4. \A n \in Nat : [s EXCEPT !.total = n] \in Session BY DEF Session
<1>5. \A n \in Nat : [s EXCEPT !.decoded = n] \in Session BY DEF Session
<1>6. \A r \in Reservation : [s EXCEPT !.reservation = r] \in Session BY DEF Session
<1> QED BY <1>1, <1>2, <1>3, <1>4, <1>5, <1>6

LEMMA NextEpoch == ASSUME NEW s \in Session PROVE s.epoch + 1 \in Nat /\ s.epoch + 1 # s.epoch
<1>1. s.epoch \in Nat BY DEF Session
<1> QED BY <1>1

LEMMA FenceQuiet ==
  ASSUME NEW s \in Session
  PROVE  /\ Fence(s) \in Session /\ Quiet(s, Fence(s))
         /\ Fence(s).reservation = Nil /\ Fence(s).state = s.state
         /\ Fence(s).offset = s.offset /\ Fence(s).epoch = s.epoch + 1
         /\ Fence(s).parts = s.parts /\ Fence(s).object = s.object
<1>1. Fence(s) \in Session BY NextEpoch, SessionUpdates DEF Fence
<1>2. /\ Fence(s).reservation = Nil /\ Fence(s).state = s.state
      /\ Fence(s).offset = s.offset /\ Fence(s).epoch = s.epoch + 1
      /\ Fence(s).parts = s.parts /\ Fence(s).object = s.object
  BY DEF Fence, Session
<1>3. Quiet(s, Fence(s)) BY <1>1, <1>2, NilDiffers DEF Quiet, Early, Beyond
<1> QED BY <1>1, <1>2, <1>3

(* A change of the state alone, with or without a new epoch. *)
LEMMA StateQuiet ==
  ASSUME NEW s \in Session, NEW q \in Session,
         q.parts = s.parts, q.object = s.object, q.offset = s.offset,
         q.reservation \in {Nil, s.reservation},
         \/ q.state = s.state
         \/ q.state \in {"Completing", "Validating"} /\ s.state = "Active"
         \/ q.state = "ValidationFailed" /\ s.state \in {"Active", "Validating"}
         \/ q.state = "Dispatching" /\ s.state = "Ready"
         \/ q.state \in {"Complete", "Indeterminate"} /\ s.state = "Dispatching"
         \/ q.state = "Deleted"
  PROVE  Quiet(s, q)
BY NilDiffers DEF Quiet, Early, Beyond

LEMMA QuietPoint ==
  ASSUME UploadInv, NEW j, QuietMap(journal, j), NEW u \in Uploads, j[u] # Nil,
         NEW q, Quiet(j[u], q)
  PROVE  QuietMap(journal, [j EXCEPT ![u] = q])
<1>1. journal[u] # Nil /\ Quiet(journal[u], j[u]) /\ journal[u] \in Session
  BY DEF QuietMap, UploadInv, UploadTypeOK
<1>2. Quiet(journal[u], q) /\ q # Nil BY <1>1, QuietTwice, NilDiffers DEF Quiet
<1>3. [j EXCEPT ![u] = q] \in [Uploads -> Session \cup {Nil}] BY DEF QuietMap, Quiet
<1> QED BY <1>1, <1>2, <1>3 DEF QuietMap

LEMMA PointReserves ==
  ASSUME UploadInv, NEW j, QuietMap(journal, j), Reserves(j), NEW u \in Uploads, j[u] # Nil,
         NEW q, q.reservation = Nil \/ q.reservation = j[u].reservation
  PROVE  Reserves([j EXCEPT ![u] = q])
<1>1. j \in [Uploads -> Session \cup {Nil}] BY DEF QuietMap
<1>2. \A v \in Uploads : [j EXCEPT ![u] = q][v] = IF v = u THEN q ELSE j[v] BY <1>1
<1>3. j[u].reservation \in {Nil, journal[u].reservation} BY DEF Reserves
<1> QED BY <1>2, <1>3 DEF Reserves

LEMMA SameReserves == Reserves(journal)
BY DEF Reserves

LEMMA ReapQuiet ==
  ASSUME UploadInv
  PROVE  QuietMap(journal, ReapExpired(journal)) /\ Reserves(ReapExpired(journal))
<1>1. journal \in [Uploads -> Session \cup {Nil}] BY DEF UploadInv, UploadTypeOK
<1>2. ASSUME NEW v \in Uploads, journal[v] # Nil
      PROVE  /\ ReapExpired(journal)[v] \in {journal[v], Fence(journal[v])}
             /\ Quiet(journal[v], ReapExpired(journal)[v])
             /\ ReapExpired(journal)[v].reservation \in {Nil, journal[v].reservation}
  <2>1. journal[v] \in Session BY <1>1, <1>2
  <2>2. ReapExpired(journal)[v] \in {journal[v], Fence(journal[v])} BY DEF ReapExpired
  <2> QED BY <2>1, <2>2, FenceQuiet, QuietSame
<1>3. \A v \in Uploads : journal[v] = Nil => ReapExpired(journal)[v] = Nil BY DEF ReapExpired
<1>4. \A v \in Uploads : journal[v] # Nil => ReapExpired(journal)[v] \in Session /\ ReapExpired(journal)[v] # Nil
  BY <1>2, NilDiffers DEF Quiet
<1>5. ReapExpired(journal) \in [Uploads -> Session \cup {Nil}]
  <2>1. \A v \in Uploads : ReapExpired(journal)[v] \in Session \cup {Nil} BY <1>3, <1>4
  <2>2. ReapExpired(journal) = [v \in Uploads |-> ReapExpired(journal)[v]] BY DEF ReapExpired
  <2> QED BY <2>1, <2>2
<1> QED BY <1>2, <1>3, <1>4, <1>5 DEF QuietMap, Reserves

LEMMA ExpireQuiet ==
  ASSUME UploadInv
  PROVE  QuietMap(journal, ExpireDispatches(journal)) /\ Reserves(ExpireDispatches(journal))
<1>1. journal \in [Uploads -> Session \cup {Nil}] BY DEF UploadInv, UploadTypeOK
<1>2. ASSUME NEW v \in Uploads, journal[v] # Nil
      PROVE  /\ Quiet(journal[v], ExpireDispatches(journal)[v])
             /\ ExpireDispatches(journal)[v].reservation \in {Nil, journal[v].reservation}
  <2>1. journal[v] \in Session BY <1>1, <1>2
  <2>2. CASE DispatchExpired(v)
    <3>1. PICK q : q = [journal[v] EXCEPT !.state = "Indeterminate", !.epoch = journal[v].epoch + 1]
      OBVIOUS
    <3>2. q \in Session BY <2>1, <3>1, NextEpoch, SessionUpdates DEF UploadStates
    <3>3. /\ q.parts = journal[v].parts /\ q.object = journal[v].object
          /\ q.offset = journal[v].offset /\ q.reservation = journal[v].reservation
          /\ q.state = "Indeterminate"
      BY <2>1, <3>1 DEF Session
    <3>4. journal[v].state = "Dispatching" BY <2>2 DEF DispatchExpired
    <3>5. Quiet(journal[v], q) BY <2>1, <3>2, <3>3, <3>4, StateQuiet
    <3>6. ExpireDispatches(journal)[v] = q BY <2>2, <3>1 DEF ExpireDispatches
    <3> QED BY <3>3, <3>5, <3>6
  <2>3. CASE ~DispatchExpired(v)
    <3>1. ExpireDispatches(journal)[v] = journal[v] BY <2>3 DEF ExpireDispatches
    <3> QED BY <2>1, <3>1, QuietSame
  <2> QED BY <2>2, <2>3
<1>3. \A v \in Uploads : journal[v] = Nil => ExpireDispatches(journal)[v] = Nil
  BY DEF ExpireDispatches, DispatchExpired
<1>4. \A v \in Uploads : journal[v] # Nil =>
        ExpireDispatches(journal)[v] \in Session /\ ExpireDispatches(journal)[v] # Nil
  BY <1>2, NilDiffers DEF Quiet
<1>5. ExpireDispatches(journal) \in [Uploads -> Session \cup {Nil}]
  <2>1. \A v \in Uploads : ExpireDispatches(journal)[v] \in Session \cup {Nil} BY <1>3, <1>4
  <2>2. ExpireDispatches(journal) = [v \in Uploads |-> ExpireDispatches(journal)[v]]
    BY DEF ExpireDispatches
  <2> QED BY <2>1, <2>2
<1> QED BY <1>2, <1>3, <1>4, <1>5 DEF QuietMap, Reserves

LEMMA IdleRest == Idle = Rest("idle")
BY DEF Idle, Rest

-------------------------------------------------------------------------------
(* The requests of one transaction that publish quiet changes. *)

LEMMA EnterInv ==
  ASSUME UploadInv, NEW t \in Tasks, Enter(t)
  PROVE  UploadInv'
<1>1. task' = [task EXCEPT ![t] = Rest("entered")] BY DEF Enter, Resumes, Rest
<1>2. Stored(journal) BY DEF Enter, Stored
<1>3. Running BY DEF Enter, Running
<1> QED BY <1>1, <1>2, <1>3, Typed, SameMap, SameReserves, QuietRest DEF Enter, Reserves

LEMMA DeclareLengthInv ==
  ASSUME UploadInv, NEW t \in Tasks, NEW u \in Uploads, NEW n \in 0..MaxUploadBytes,
         DeclareLength(t, u, n)
  PROVE  UploadInv'
<1>1. PICK q : q = [journal[u] EXCEPT !.total = n] OBVIOUS
<1>2. journal[u] # Nil /\ journal[u] \in Session BY Typed DEF DeclareLength, Checked
<1>0. n \in Nat BY UploadAssumption
<1>3. q \in Session BY <1>0, <1>1, <1>2, NextEpoch, SessionUpdates
<1>4. /\ q.parts = journal[u].parts /\ q.object = journal[u].object /\ q.offset = journal[u].offset
      /\ q.reservation = journal[u].reservation /\ q.state = journal[u].state
  BY <1>1, <1>2 DEF Session
<1>5. Quiet(journal[u], q) BY <1>2, <1>3, <1>4, StateQuiet
<1>6. PICK next : next = [journal EXCEPT ![u] = q] OBVIOUS
<1>7. QuietMap(journal, next) BY <1>2, <1>5, <1>6, SameMap, QuietPoint
<1>8. Reserves(next) BY <1>2, <1>4, <1>6, SameMap, SameReserves, PointReserves
<1>9. PICK ok \in BOOLEAN : Persist(next, ok) BY <1>1, <1>6 DEF DeclareLength
<1>10. Stored(next) /\ mode' \in {mode, "poisoned"} BY <1>9, PersistStores
<1>11. task' = [task EXCEPT ![t] = Rest("idle")] BY IdleRest DEF DeclareLength, Resumes
<1> QED BY <1>7, <1>8, <1>10, <1>11, Typed, QuietRest DEF DeclareLength, Reserves

LEMMA ClaimCompleteInv ==
  ASSUME UploadInv, NEW t \in Tasks, NEW u \in Uploads, ClaimComplete(t, u)
  PROVE  UploadInv'
<1>1. PICK reaped : reaped = ReapExpired(journal) OBVIOUS
<1>2. PICK s : s = reaped[u] OBVIOUS
<1>3. QuietMap(journal, reaped) /\ Reserves(reaped) BY <1>1, ReapQuiet
<1>4. task' = [task EXCEPT ![t] = Rest("idle")] BY IdleRest DEF ClaimComplete, Resumes
<1>5. CASE UNCHANGED <<journal, durable, mode>>
  <2>1. Stored(journal) /\ mode' = mode BY <1>5 DEF Stored
  <2> QED BY <1>4, <2>1, Typed, SameMap, SameReserves, QuietRest DEF ClaimComplete, Reserves
<1>6. CASE /\ s.state = "Active"
           /\ \E ok \in BOOLEAN :
                Persist([reaped EXCEPT ![u].state = ClaimState(s), ![u].epoch = @ + 1], ok)
  <2>1. journal[u] # Nil BY DEF ClaimComplete, Checked
  <2>2. s # Nil /\ s \in Session BY <1>2, <1>3, <2>1 DEF QuietMap
  <2>3. PICK q : q = [s EXCEPT !.state = ClaimState(s), !.epoch = s.epoch + 1] OBVIOUS
  <2>4. ClaimState(s) \in {"Completing", "Validating"} BY DEF ClaimState
  <2>5. q \in Session BY <2>2, <2>3, <2>4, NextEpoch, SessionUpdates DEF UploadStates
  <2>6. /\ q.parts = s.parts /\ q.object = s.object /\ q.offset = s.offset
        /\ q.reservation = s.reservation /\ q.state = ClaimState(s)
    BY <2>2, <2>3 DEF Session
  <2>7. Quiet(s, q) BY <1>6, <2>2, <2>4, <2>5, <2>6, StateQuiet
  <2>8. PICK next : next = [reaped EXCEPT ![u] = q] OBVIOUS
  <2>9. QuietMap(journal, next) BY <1>2, <1>3, <2>2, <2>7, <2>8, QuietPoint
  <2>10. Reserves(next) BY <1>2, <1>3, <2>2, <2>6, <2>8, PointReserves
  <2>11. [reaped EXCEPT ![u].state = ClaimState(s), ![u].epoch = @ + 1] = next
    BY <1>2, <1>3, <2>3, <2>8 DEF QuietMap
  <2>12. PICK ok \in BOOLEAN : Persist(next, ok) BY <1>6, <2>11
  <2>13. Stored(next) /\ mode' \in {mode, "poisoned"} BY <2>12, PersistStores
  <2> QED BY <1>4, <2>9, <2>10, <2>13, Typed, QuietRest DEF ClaimComplete, Reserves
<1> QED BY <1>1, <1>2, <1>5, <1>6 DEF ClaimComplete

LEMMA FailValidationInv ==
  ASSUME UploadInv, NEW t \in Tasks, NEW u \in Uploads, FailValidation(t, u)
  PROVE  UploadInv'
<1>1. PICK s : s = journal[u] OBVIOUS
<1>2. s # Nil /\ s \in Session BY <1>1, Typed DEF FailValidation, Checked
<1>3. PICK q : q = [Fence(s) EXCEPT !.state = "ValidationFailed"] OBVIOUS
<1>4. q \in Session BY <1>2, <1>3, FenceQuiet, NextEpoch, SessionUpdates DEF UploadStates
<1>5. /\ q.parts = s.parts /\ q.object = s.object /\ q.offset = s.offset
      /\ q.reservation = Nil /\ q.state = "ValidationFailed"
  BY <1>2, <1>3, FenceQuiet DEF Session
<1>6. Quiet(s, q) BY <1>1, <1>2, <1>4, <1>5, StateQuiet DEF FailValidation
<1>7. PICK next : next = [journal EXCEPT ![u] = q] OBVIOUS
<1>8. QuietMap(journal, next) BY <1>1, <1>2, <1>6, <1>7, SameMap, QuietPoint
<1>9. Reserves(next) BY <1>1, <1>2, <1>5, <1>7, SameMap, SameReserves, PointReserves
<1>10. PICK ok \in BOOLEAN : Persist(next, ok) BY <1>1, <1>3, <1>7 DEF FailValidation
<1>11. Stored(next) /\ mode' \in {mode, "poisoned"} BY <1>10, PersistStores
<1>12. task' = [task EXCEPT ![t] = Rest("idle")] BY IdleRest DEF FailValidation, Resumes
<1> QED BY <1>8, <1>9, <1>11, <1>12, Typed, QuietRest DEF FailValidation, Reserves

LEMMA CollectScanInv ==
  ASSUME UploadInv, NEW t \in Tasks, CollectScan(t)
  PROVE  UploadInv'
<1>1. PICK next : next = ExpireDispatches(journal) OBVIOUS
<1>2. QuietMap(journal, next) /\ Reserves(next) BY <1>1, ExpireQuiet
<1>3. PICK ok \in BOOLEAN :
        /\ IF next = journal THEN ok /\ UNCHANGED <<mode, journal, durable>> ELSE Persist(next, ok)
        /\ Resumes(t, IF ok THEN [Idle EXCEPT !.pc = "sweeping"] ELSE Idle)
  BY <1>1 DEF CollectScan
<1>4. Stored(next) /\ mode' \in {mode, "poisoned"} BY <1>3, PersistStores DEF Stored
<1>5. PICK p \in {"idle", "entered", "sweeping"} : task' = [task EXCEPT ![t] = Rest(p)]
  BY <1>3, IdleRest DEF Resumes, Rest
<1>6. past' \subseteq Uploads BY Typed DEF CollectScan
<1> QED BY <1>2, <1>4, <1>5, <1>6, Typed, QuietRest DEF CollectScan, Reserves

(* A lookup also tells the client the offset of the session it has fenced. *)
LEMMA LookupInv ==
  ASSUME UploadInv, NEW t \in Tasks, NEW u \in Uploads, Lookup(t, u)
  PROVE  UploadInv'
<1>1. PICK swept : swept = ExpireDispatches(journal) OBVIOUS
<1>2. PICK next : next = IF swept[u].reservation = Nil THEN swept
                         ELSE [swept EXCEPT ![u] = Fence(swept[u])]
  OBVIOUS
<1>3. QuietMap(journal, swept) /\ Reserves(swept) BY <1>1, ExpireQuiet
<1>4. journal[u] # Nil BY DEF Lookup, Checked, DispatchExpired
<1>5. swept[u] # Nil /\ swept[u] \in Session BY <1>3, <1>4 DEF QuietMap
<1>6. QuietMap(journal, next) /\ Reserves(next)
  BY <1>2, <1>3, <1>5, FenceQuiet, QuietPoint, PointReserves
<1>7. next[u] # Nil /\ next[u] \in Session /\ next[u].reservation = Nil
  <2>1. CASE swept[u].reservation = Nil BY <1>2, <1>5, <2>1
  <2>2. CASE swept[u].reservation # Nil
    <3>1. next[u] = Fence(swept[u]) BY <1>2, <1>3, <2>2 DEF QuietMap
    <3> QED BY <1>5, <3>1, FenceQuiet, NilDiffers
  <2> QED BY <2>1, <2>2
<1>8. PICK ok \in BOOLEAN :
        /\ IF next = journal THEN ok /\ UNCHANGED <<journal, durable, mode>> ELSE Persist(next, ok)
        /\ client' = IF ok THEN [client EXCEPT ![u].promise = next[u].offset] ELSE client
  BY <1>1, <1>2 DEF Lookup
<1>9. Stored(next) /\ mode' \in {mode, "poisoned"} /\ (ok => journal' = next)
  BY <1>8, PersistStores DEF Stored
<1>10. client \in [Uploads -> ClientRecord] /\ SessionsSound BY DEF UploadInv
<1>11. client' \in [Uploads -> ClientRecord]
  BY <1>7, <1>8, <1>10, SessionFields DEF ClientRecord
<1>12. \A v \in Uploads : /\ client'[v].created = client[v].created
                          /\ client'[v].committed = client[v].committed
                          /\ client'[v].sent = client[v].sent
                          /\ client'[v].promise = IF ok /\ v = u THEN next[u].offset
                                                  ELSE client[v].promise
  BY <1>8, <1>10 DEF ClientRecord
<1>13. draws' = draws /\ files' = files /\ stops' = stops /\ assembly' = assembly /\ lapsed' = lapsed
  BY DEF Lookup
<1>14. /\ journal' \in [Uploads -> Session \cup {Nil}]
       /\ durable' \in [Uploads -> Session \cup {Nil}]
       /\ SessionsSound' /\ AllMoved({})
  BY <1>6, <1>9, <1>12, <1>13, Typed, QuietSessions
<1>15. ASSUME NEW v \in Uploads, client'[v].promise # Nil
       PROVE  /\ client[v].created
              /\ journal'[v] # Nil => /\ journal'[v].reservation = Nil
                                      /\ journal'[v].offset = client'[v].promise
  <2>1. CASE ok /\ v = u
    <3>1. client[u].created BY <1>4, <1>10 DEF SessionsSound, SessionSound
    <3> QED BY <1>7, <1>9, <1>12, <2>1, <3>1
  <2>2. CASE ~(ok /\ v = u)
    <3>1. client'[v].promise = client[v].promise BY <1>12, <2>2
    <3> QED BY <1>6, <1>9, <1>15, <3>1, PromisesKept DEF Reserves
  <2> QED BY <2>1, <2>2
<1>16. ClientsSound' BY <1>12, <1>14, <1>15, ClientsLater
<1>17. task' = [task EXCEPT ![t] = Rest("idle")] BY IdleRest DEF Lookup, Resumes
<1>18. /\ Rest("idle") \in Task
       /\ TaskSound(t, Rest("idle"), assembly', files', draws', journal', durable', client')
       /\ \A q : Apart(Rest("idle"), q) /\ Apart(q, Rest("idle"))
  BY RestSound
<1>19. \A v \in Uploads : client[v].sent <= client'[v].sent
  BY <1>10, <1>12 DEF ClientRecord
<1>20. \A q \in Tasks : task[q].pc = "claimed" => task[q].up \in Uploads
  BY DEF UploadInv, TasksSound, TaskSound, Shaped
<1>21. TasksSound'
  BY <1>11, <1>12, <1>13, <1>14, <1>17, <1>18, <1>19, <1>20, Typed, TasksLater
<1>22. task' \in [Tasks -> Task] /\ past' \subseteq Uploads
  BY <1>17, <1>18, Typed DEF Lookup
<1>23. UploadTypeOK' BY <1>9, <1>13, <1>14, <1>22 DEF UploadInv, UploadTypeOK
<1>24. Quiescent' BY <1>9 DEF Quiescent, Running, Lookup
<1> QED BY <1>11, <1>14, <1>16, <1>21, <1>23, <1>24 DEF UploadInv

LEMMA AbortAppendInv ==
  ASSUME UploadInv, NEW t \in Tasks, AbortAppend(t)
  PROVE  UploadInv'
<1>1. PICK u : u = task[t].up OBVIOUS
<1>2. u \in Uploads BY <1>1 DEF AbortAppend, UploadInv, TasksSound, TaskSound, Shaped
<1>3. task' = [task EXCEPT ![t] = Rest("idle")] BY IdleRest DEF AbortAppend, Resumes
<1>4. CASE UNCHANGED <<mode, journal, durable>>
  <2>1. Stored(journal) /\ mode' = mode BY <1>4 DEF Stored
  <2> QED BY <1>3, <2>1, Typed, SameMap, SameReserves, QuietRest DEF AbortAppend, Reserves
<1>5. CASE journal[u] # Nil /\ \E ok \in BOOLEAN : Persist([journal EXCEPT ![u] = Fence(@)], ok)
  <2>1. PICK next : next = [journal EXCEPT ![u] = Fence(journal[u])] OBVIOUS
  <2>2. journal[u] \in Session BY <1>2, <1>5, Typed
  <2>3. QuietMap(journal, next) /\ Reserves(next)
    BY <1>2, <1>5, <2>1, <2>2, FenceQuiet, SameMap, SameReserves, QuietPoint, PointReserves
  <2>4. PICK ok \in BOOLEAN : Persist(next, ok) BY <1>5, <2>1
  <2>5. Stored(next) /\ mode' \in {mode, "poisoned"} BY <2>4, PersistStores
  <2> QED BY <1>3, <2>3, <2>5, Typed, QuietRest DEF AbortAppend, Reserves
<1> QED BY <1>1, <1>4, <1>5 DEF AbortAppend

LEMMA FinishDispatchInv ==
  ASSUME UploadInv, NEW t \in Tasks, NEW terminal \in {"Complete", "Indeterminate"},
         FinishDispatch(t, terminal)
  PROVE  UploadInv'
<1>1. PICK u : u = task[t].up OBVIOUS
<1>2. u \in Uploads BY <1>1 DEF FinishDispatch, UploadInv, TasksSound, TaskSound, Shaped
<1>3. task' = [task EXCEPT ![t] = Rest("idle")] BY IdleRest DEF FinishDispatch, Resumes
<1>4. past' \subseteq Uploads BY Typed DEF FinishDispatch
<1>5. CASE UNCHANGED <<mode, journal, durable, past>>
  <2>1. Stored(journal) /\ mode' = mode BY <1>5 DEF Stored
  <2> QED BY <1>3, <1>4, <2>1, Typed, SameMap, SameReserves, QuietRest DEF FinishDispatch, Reserves
<1>6. CASE /\ journal[u] # Nil /\ journal[u].state = "Dispatching"
           /\ \E ok \in BOOLEAN :
                Persist([journal EXCEPT ![u].state = terminal, ![u].epoch = @ + 1], ok)
  <2>1. PICK q : q = [journal[u] EXCEPT !.state = terminal, !.epoch = journal[u].epoch + 1] OBVIOUS
  <2>2. journal[u] \in Session BY <1>2, <1>6, Typed
  <2>3. q \in Session BY <2>1, <2>2, NextEpoch, SessionUpdates DEF UploadStates
  <2>4. /\ q.parts = journal[u].parts /\ q.object = journal[u].object
        /\ q.offset = journal[u].offset /\ q.reservation = journal[u].reservation
        /\ q.state = terminal
    BY <2>1, <2>2 DEF Session
  <2>5. Quiet(journal[u], q) BY <1>6, <2>2, <2>3, <2>4, StateQuiet
  <2>6. PICK next : next = [journal EXCEPT ![u] = q] OBVIOUS
  <2>7. QuietMap(journal, next) /\ Reserves(next)
    BY <1>2, <1>6, <2>4, <2>5, <2>6, SameMap, SameReserves, QuietPoint, PointReserves
  <2>8. [journal EXCEPT ![u].state = terminal, ![u].epoch = @ + 1] = next
    BY <1>2, <2>1, <2>6, Typed
  <2>9. PICK ok \in BOOLEAN : Persist(next, ok) BY <1>6, <2>8
  <2>10. Stored(next) /\ mode' \in {mode, "poisoned"} BY <2>9, PersistStores
  <2> QED BY <1>3, <1>4, <2>7, <2>10, Typed, QuietRest DEF FinishDispatch, Reserves
<1> QED BY <1>1, <1>5, <1>6 DEF FinishDispatch

-------------------------------------------------------------------------------
(* The first steps of an append, a publication and a dispatch. *)

(* The next draw is new. *)
LEMMA FreshDraw ==
  ASSUME UploadInv
  PROVE  /\ \A v \in Uploads : \A k \in KeysOf(journal[v]) \cup KeysOf(durable[v]) : k.draw # draws + 1
         /\ \A q \in Tasks : Owns(task[q]) => OwnKey(task[q]).draw # draws + 1
<1>0. draws \in Nat BY Typed
<1>1. ASSUME NEW v \in Uploads, NEW k \in KeysOf(journal[v]) \cup KeysOf(durable[v])
      PROVE  k.draw # draws + 1
  <2>1. PICK s \in {journal[v], durable[v]} : s # Nil /\ k \in Keys(s) BY <1>1 DEF KeysOf
  <2>2. SessionSound(v, s, draws, client[v], files) BY <2>1 DEF UploadInv, SessionsSound
  <2>3. s \in Session /\ k.draw <= draws BY <2>1, <2>2 DEF SessionSound
  <2>4. k \in FileKey BY <2>1, <2>3, SessionFields DEF Keys, Part
  <2>5. k.draw \in Int BY <2>4, UploadAssumption DEF FileKey
  <2> QED BY <1>0, <2>3, <2>5
<1>2. ASSUME NEW q \in Tasks, Owns(task[q]) PROVE OwnKey(task[q]).draw # draws + 1
  <2>1. TaskSound(q, task[q], assembly, files, draws, journal, durable, client)
    BY DEF UploadInv, TasksSound
  <2>2. OwnKey(task[q]).draw <= draws BY <1>2, <2>1 DEF TaskSound
  <2>3. OwnKey(task[q]).draw \in Int
    BY <1>2, <2>1, UploadAssumption DEF TaskSound, Shaped, Owns, OwnKey, FileKey, Reservation
  <2> QED BY <1>0, <2>2, <2>3
<1> QED BY <1>1, <1>2

(* The session of a file that a task has just drawn does not name it. *)
LEMMA FreshOwner ==
  ASSUME UploadInv, AllMoved({}), NEW k, k.draw = draws + 1, NEW v \in Uploads
  PROVE  k \notin KeysOf(journal'[v]) \cup KeysOf(durable'[v])
BY FreshDraw DEF AllMoved, Moved

LEMMA BeginAppendInv ==
  ASSUME UploadInv, NEW t \in Tasks, NEW u \in Uploads, NEW n \in 1..MaxUploadBytes,
         BeginAppend(t, u, n)
  PROVE  UploadInv'
<1>1. PICK reaped : reaped = ReapExpired(journal) OBVIOUS
<1>2. PICK s : s = reaped[u] OBVIOUS
<1>3. PICK r : r = [token |-> draws + 1, at |-> s.offset, bytes |-> n, epoch |-> s.epoch] OBVIOUS
<1>4. QuietMap(journal, reaped) /\ Reserves(reaped) BY <1>1, ReapQuiet
<1>5. journal[u] # Nil BY DEF BeginAppend, Checked
<1>6. s # Nil /\ s \in Session BY <1>2, <1>4, <1>5 DEF QuietMap
<1>7. draws' = draws + 1 /\ draws < MaxDraws BY DEF BeginAppend
<1>8. draws + 1 \in 1..MaxDraws /\ draws + 1 \in Nat /\ draws <= draws + 1 /\ draws + 1 \in 0..MaxDraws
  BY <1>7, Typed, UploadAssumption
<1>9. r \in Reservation
  <2>1. n \in Nat BY UploadAssumption
  <2> QED BY <1>3, <1>6, <1>8, <2>1, SessionFields DEF Reservation
<1>10. PICK q : q = [s EXCEPT !.reservation = r] OBVIOUS
<1>11. q \in Session BY <1>6, <1>9, <1>10, NextEpoch, SessionUpdates
<1>12. /\ q.parts = s.parts /\ q.object = s.object /\ q.offset = s.offset
       /\ q.reservation = r /\ q.state = s.state
  BY <1>6, <1>10 DEF Session
<1>13. r.at = s.offset BY <1>3
<1>14. Quiet(s, q) BY <1>6, <1>11, <1>12, <1>13, NilDiffers DEF Quiet, Early, Beyond
<1>15. PICK next : next = [reaped EXCEPT ![u] = q] OBVIOUS
<1>16. QuietMap(journal, next) BY <1>2, <1>4, <1>6, <1>14, <1>15, QuietPoint
<1>17. [reaped EXCEPT ![u].reservation = r] = next BY <1>2, <1>4, <1>10, <1>15 DEF QuietMap
<1>18. PICK w : w = [Idle EXCEPT !.pc = "reserved", !.up = u, !.res = r] OBVIOUS
<1>19. PICK ok \in BOOLEAN : /\ Persist(next, ok)
                             /\ Resumes(t, IF ok THEN w ELSE Idle)
  BY <1>1, <1>2, <1>3, <1>17, <1>18 DEF BeginAppend
<1>20. Stored(next) /\ mode' \in {mode, "poisoned"} BY <1>19, PersistStores
<1>21. client \in [Uploads -> ClientRecord] /\ SessionsSound BY DEF UploadInv
<1>22. client' = [client EXCEPT ![u].promise = Nil] BY DEF BeginAppend
<1>23. client' \in [Uploads -> ClientRecord] BY <1>21, <1>22 DEF ClientRecord
<1>24. \A v \in Uploads : /\ client'[v].created = client[v].created
                          /\ client'[v].committed = client[v].committed
                          /\ client'[v].sent = client[v].sent
                          /\ client'[v].promise = IF v = u THEN Nil ELSE client[v].promise
  BY <1>21, <1>22 DEF ClientRecord
<1>25. files' = files /\ stops' = stops /\ assembly' = assembly /\ past' = past BY DEF BeginAppend
<1>26. /\ journal' \in [Uploads -> Session \cup {Nil}]
       /\ durable' \in [Uploads -> Session \cup {Nil}]
       /\ SessionsSound' /\ AllMoved({})
  BY <1>7, <1>8, <1>16, <1>20, <1>24, <1>25, QuietSessions
<1>27. ASSUME NEW v \in Uploads, client'[v].promise # Nil
       PROVE  /\ client[v].created
              /\ journal'[v] # Nil => /\ journal'[v].reservation = Nil
                                      /\ journal'[v].offset = client'[v].promise
  <2>1. v # u /\ client'[v].promise = client[v].promise BY <1>24, <1>27
  <2>2. ClientSound(journal[v], durable[v], client[v]) /\ client[v] \in ClientRecord
    BY DEF UploadInv, ClientsSound
  <2>3. client[v].created BY <1>27, <2>1, <2>2 DEF ClientSound
  <2>4. journal[v] # Nil => journal[v].reservation = Nil /\ journal[v].offset = client[v].promise
    BY <1>27, <2>1, <2>2 DEF ClientSound
  <2>5. next[v] = reaped[v] BY <1>4, <1>15, <2>1 DEF QuietMap
  <2>6. reaped[v] # Nil => /\ journal[v] # Nil /\ reaped[v].offset = journal[v].offset
                           /\ reaped[v].reservation \in {Nil, journal[v].reservation}
    BY <1>4 DEF QuietMap, Quiet, Reserves
  <2> QED BY <1>20, <2>1, <2>3, <2>4, <2>5, <2>6 DEF Stored
<1>28. ClientsSound' BY <1>24, <1>26, <1>27, ClientsLater
<1>29. PICK z : z = IF ok THEN w ELSE Idle OBVIOUS
<1>30. /\ z \in Task
       /\ TaskSound(t, z, assembly', files', draws', journal', durable', client')
       /\ \A y \in Tasks : y # t => Apart(z, task[y]) /\ Apart(task[y], z)
  <2>1. CASE ~ok
    <3>1. z = Rest("idle") BY <1>29, <2>1, IdleRest
    <3> QED BY <3>1, RestSound
  <2>2. CASE ok
    <3>1. z = w /\ z \in Task /\ z.pc = "reserved" /\ z.up = u /\ z.res = r /\ z.key = Nil
      BY <1>9, <1>18, <1>29, <2>2 DEF Idle, Task, TaskStates
    <3>2. Owns(z) /\ ~Holds(z) /\ ~Written(z) BY <3>1 DEF Owns, Holds, Written
    <3>3. PICK k : k = OwnKey(z) OBVIOUS
    <3>4. k.draw = draws + 1 BY <1>3, <3>1, <3>3 DEF OwnKey
    <3>5. \A v \in Uploads : k \notin KeysOf(journal'[v]) \cup KeysOf(durable'[v])
      BY <1>26, <3>4, FreshOwner
    <3>6. Shaped(z) BY <1>9, <3>1 DEF Shaped
    <3>7. client'[u].created BY <1>5, <1>21, <1>24 DEF SessionsSound, SessionSound
    <3>8. k.draw <= draws' BY <1>7, <1>8, <3>4
    <3>9. TaskSound(t, z, assembly', files', draws', journal', durable', client')
      BY <3>1, <3>2, <3>3, <3>5, <3>6, <3>7, <3>8 DEF TaskSound
    <3>10. \A y \in Tasks : y # t => Apart(z, task[y]) /\ Apart(task[y], z)
      BY <3>1, <3>3, <3>4, FreshDraw DEF Apart
    <3> QED BY <3>1, <3>9, <3>10
  <2> QED BY <2>1, <2>2
<1>31. task' = [task EXCEPT ![t] = z] BY <1>19, <1>29 DEF Resumes
<1>32. \A v \in Uploads : client[v].sent <= client'[v].sent
  BY <1>21, <1>24 DEF ClientRecord
<1>33. \A y \in Tasks : task[y].pc = "claimed" => task[y].up \in Uploads
  BY DEF UploadInv, TasksSound, TaskSound, Shaped
<1>34. draws' \in Nat /\ draws <= draws' /\ draws' \in 0..MaxDraws BY <1>7, <1>8
<1>35. TasksSound'
  BY <1>23, <1>24, <1>25, <1>26, <1>30, <1>31, <1>32, <1>33, <1>34, TasksLater
<1>36. task' \in [Tasks -> Task] /\ lapsed' \subseteq Uploads
  BY <1>30, <1>31, Typed DEF BeginAppend
<1>37. UploadTypeOK' BY <1>20, <1>25, <1>26, <1>34, <1>36 DEF UploadInv, UploadTypeOK
<1>38. Quiescent' BY <1>20 DEF Quiescent, Running, BeginAppend
<1> QED BY <1>23, <1>26, <1>28, <1>35, <1>37, <1>38 DEF UploadInv

LEMMA BeginPublishInv ==
  ASSUME UploadInv, NEW t \in Tasks, NEW u \in Uploads, NEW n \in 0..MaxUploadBytes,
         BeginPublish(t, u, n)
  PROVE  UploadInv'
<1>1. PICK s : s = journal[u] OBVIOUS
<1>2. s # Nil /\ s \in Session BY <1>1, Typed DEF BeginPublish, Checked
<1>3. n \in Nat BY UploadAssumption
<1>4. draws' = draws + 1 /\ draws < MaxDraws BY DEF BeginPublish
<1>5. draws + 1 \in 1..MaxDraws /\ draws <= draws + 1 /\ draws + 1 \in 0..MaxDraws
  BY <1>4, Typed, UploadAssumption
<1>6. PICK k : k = [up |-> u, kind |-> "object", draw |-> draws + 1] OBVIOUS
<1>7. PICK m : m = IF s.dictionary THEN n ELSE s.offset OBVIOUS
<1>8. PICK w : w = [Idle EXCEPT !.pc = "building", !.up = u, !.epoch = s.epoch, !.bytes = m, !.key = k]
  OBVIOUS
<1>9. k \in FileKey /\ k.up = u /\ k.draw = draws + 1 BY <1>5, <1>6 DEF FileKey
<1>10. m \in Nat /\ s.epoch \in Nat BY <1>2, <1>3, <1>7, SessionFields
<1>11. w \in Task /\ w.pc = "building" /\ w.up = u /\ w.key = k
  BY <1>8, <1>9, <1>10 DEF Idle, Task, TaskStates
<1>12. Owns(w) /\ Holds(w) /\ ~Written(w) /\ OwnKey(w) = k BY <1>11 DEF Owns, Holds, Written, OwnKey
<1>13. \A y \in Tasks : y # t => Apart(w, task[y]) /\ Apart(task[y], w)
  BY <1>9, <1>11, <1>12, FreshDraw DEF Apart
<1>14. client[u].created BY <1>1, <1>2 DEF UploadInv, SessionsSound, SessionSound
<1>15. ASSUME assembly' = t, AllMoved({})
       PROVE  TaskSound(t, w, assembly', files', draws', journal', durable', client')
  <2>1. \A v \in Uploads : k \notin KeysOf(journal'[v]) \cup KeysOf(durable'[v])
    BY <1>9, <1>15, FreshOwner
  <2>2. Shaped(w) BY <1>9, <1>11 DEF Shaped
  <2>3. k.draw <= draws' BY <1>4, <1>5, <1>9
  <2>4. client' = client BY DEF BeginPublish
  <2> QED BY <1>11, <1>12, <1>14, <1>15, <2>1, <2>2, <2>3, <2>4 DEF TaskSound
<1>16. \A q \in Tasks : assembly # q BY NilDiffers DEF BeginPublish
<1>17. CASE s.dictionary
  <2>1. PICK q : q = [s EXCEPT !.decoded = n] OBVIOUS
  <2>2. q \in Session BY <1>2, <1>3, <2>1, NextEpoch, SessionUpdates
  <2>3. /\ q.parts = s.parts /\ q.object = s.object /\ q.offset = s.offset
        /\ q.reservation = s.reservation /\ q.state = s.state
    BY <1>2, <2>1 DEF Session
  <2>4. Quiet(s, q) BY <1>2, <2>2, <2>3, StateQuiet
  <2>5. PICK next : next = [journal EXCEPT ![u] = q] OBVIOUS
  <2>6. QuietMap(journal, next) /\ Reserves(next)
    BY <1>1, <1>2, <2>3, <2>4, <2>5, SameMap, SameReserves, QuietPoint, PointReserves
  <2>7. [journal EXCEPT ![u].decoded = n] = next BY <1>1, <2>1, <2>5
  <2>8. PICK ok \in BOOLEAN : /\ Persist(next, ok)
                              /\ Resumes(t, IF ok THEN w ELSE Idle)
                              /\ assembly' = IF ok THEN t ELSE Nil
    BY <1>1, <1>6, <1>7, <1>8, <1>17, <2>7 DEF BeginPublish
  <2>9. Stored(next) /\ mode' \in {mode, "poisoned"} BY <2>8, PersistStores
  <2>10. CASE ok
    <3>1. task' = [task EXCEPT ![t] = w] /\ assembly' = t BY <2>8, <2>10 DEF Resumes
    <3> QED BY <1>4, <1>5, <1>11, <1>13, <1>15, <1>16, <2>6, <2>9, <3>1, Typed, QuietWork
            DEF BeginPublish, Reserves
  <2>11. CASE ~ok
    <3>1. task' = [task EXCEPT ![t] = Rest("idle")] /\ assembly' = Nil
      BY <2>8, <2>11, IdleRest DEF Resumes
    <3> QED BY <1>4, <1>5, <1>16, <2>6, <2>9, <3>1, Typed, QuietRest DEF BeginPublish, Reserves
  <2> QED BY <2>10, <2>11
<1>18. CASE ~s.dictionary
  <2>1. task' = [task EXCEPT ![t] = w] /\ assembly' = t
    BY <1>1, <1>6, <1>7, <1>8, <1>18 DEF BeginPublish, Resumes
  <2>2. Stored(journal) /\ mode' = mode BY <1>1, <1>18 DEF BeginPublish, Stored
  <2> QED BY <1>4, <1>5, <1>11, <1>13, <1>15, <1>16, <2>1, <2>2, Typed, SameMap, SameReserves, QuietWork
          DEF BeginPublish, Reserves
<1> QED BY <1>17, <1>18

LEMMA BeginDispatchInv ==
  ASSUME UploadInv, NEW t \in Tasks, NEW u \in Uploads, BeginDispatch(t, u)
  PROVE  UploadInv'
<1>1. PICK s : s = journal[u] OBVIOUS
<1>2. s # Nil /\ s \in Session /\ s.state = "Ready" BY <1>1, Typed DEF BeginDispatch, Checked
<1>3. PICK q : q = [s EXCEPT !.state = "Dispatching", !.epoch = s.epoch + 1] OBVIOUS
<1>4. q \in Session BY <1>2, <1>3, NextEpoch, SessionUpdates DEF UploadStates
<1>5. /\ q.parts = s.parts /\ q.object = s.object /\ q.offset = s.offset
      /\ q.reservation = s.reservation /\ q.state = "Dispatching"
  BY <1>2, <1>3 DEF Session
<1>6. Quiet(s, q) BY <1>2, <1>4, <1>5, StateQuiet
<1>7. PICK next : next = [journal EXCEPT ![u] = q] OBVIOUS
<1>8. QuietMap(journal, next) /\ Reserves(next)
  BY <1>1, <1>2, <1>5, <1>6, <1>7, SameMap, SameReserves, QuietPoint, PointReserves
<1>9. [journal EXCEPT ![u].state = "Dispatching", ![u].epoch = @ + 1] = next
  BY <1>1, <1>3, <1>7, Typed
<1>10. PICK w : w = [Idle EXCEPT !.pc = "claimed", !.up = u, !.epoch = s.epoch + 1] OBVIOUS
<1>11. PICK ok \in BOOLEAN : /\ Persist(next, ok)
                             /\ Resumes(t, IF ok THEN w ELSE Idle)
  BY <1>1, <1>9, <1>10 DEF BeginDispatch
<1>12. /\ Stored(next) /\ mode' \in {mode, "poisoned"}
       /\ ok => journal' = next /\ durable' = next
  BY <1>11, PersistStores
<1>13. lapsed' \subseteq Uploads BY Typed DEF BeginDispatch
<1>14. CASE ~ok
  <2>1. task' = [task EXCEPT ![t] = Rest("idle")] BY <1>11, <1>14, IdleRest DEF Resumes
  <2> QED BY <1>8, <1>12, <1>13, <2>1, Typed, QuietRest DEF BeginDispatch, Reserves
<1>15. CASE ok
  <2>1. task' = [task EXCEPT ![t] = w] BY <1>11, <1>15 DEF Resumes
  <2>2. w \in Task /\ w.pc = "claimed" /\ w.up = u
    BY <1>2, <1>10, NextEpoch DEF Idle, Task, TaskStates
  <2>3. ~Owns(w) /\ ~Holds(w) /\ ~Written(w) BY <2>2 DEF Owns, Holds, Written
  <2>4. ~Beyond(s) BY <1>2 DEF Beyond
  <2>5. client[u].sent = 0 /\ client[u].created
    <3>1. ClientSound(journal[u], durable[u], client[u]) /\ client[u] \in ClientRecord
      BY DEF UploadInv, ClientsSound
    <3>2. ~(client[u].sent >= 1) BY <1>1, <2>4, <3>1 DEF ClientSound
    <3>3. client[u].sent \in Nat BY <3>1 DEF ClientRecord
    <3>4. client[u].created BY <1>1, <1>2 DEF UploadInv, SessionsSound, SessionSound
    <3> QED BY <3>2, <3>3, <3>4
  <2>6. \A y \in Tasks : task[y].pc \in {"claimed", "sent"} => task[y].up # u
    BY <1>1, <2>4 DEF UploadInv, TasksSound, TaskSound
  <2>7. \A y \in Tasks : y # t => Apart(w, task[y]) /\ Apart(task[y], w)
    BY <2>2, <2>3, <2>6 DEF Apart
  <2>8. journal'[u] = q /\ durable'[u] = q BY <1>7, <1>12, <1>15, Typed
  <2>9. Beyond(q) BY <1>5 DEF Beyond
  <2>10. client' = client BY DEF BeginDispatch
  <2>11. TaskSound(t, w, assembly', files', draws', journal', durable', client')
    BY <2>2, <2>3, <2>5, <2>8, <2>9, <2>10 DEF TaskSound, Shaped
  <2> QED BY <1>8, <1>12, <1>13, <2>1, <2>2, <2>7, <2>11, Typed, QuietWork DEF BeginDispatch, Reserves
<1> QED BY <1>14, <1>15

LEMMA TombstoneInv ==
  ASSUME UploadInv, NEW t \in Tasks, NEW u \in Uploads, NEW j, NEW then \in {"idle", "sweeping"},
         QuietMap(journal, j), Reserves(j), j[u] # Nil, Running, Tombstone(t, u, j, then)
  PROVE  UploadInv'
<1>1. PICK s : s = j[u] OBVIOUS
<1>2. s # Nil /\ s \in Session BY <1>1 DEF QuietMap
<1>3. PICK q : q = [Fence(s) EXCEPT !.state = "Deleted"] OBVIOUS
<1>4. q \in Session BY <1>2, <1>3, FenceQuiet, NextEpoch, SessionUpdates DEF UploadStates
<1>5. /\ q.parts = s.parts /\ q.object = s.object /\ q.offset = s.offset
      /\ q.reservation = Nil /\ q.state = "Deleted"
  BY <1>2, <1>3, FenceQuiet DEF Session
<1>6. Quiet(s, q) BY <1>2, <1>4, <1>5, StateQuiet
<1>7. PICK next : next = [j EXCEPT ![u] = q] OBVIOUS
<1>8. QuietMap(journal, next) /\ Reserves(next)
  BY <1>1, <1>2, <1>5, <1>6, <1>7, QuietPoint, PointReserves
<1>9. PICK w : w = [Idle EXCEPT !.pc = "tombstoned", !.up = u, !.then = then, !.epoch = s.epoch + 1]
  OBVIOUS
<1>10. PICK ok \in BOOLEAN : /\ Persist(next, ok)
                             /\ Resumes(t, IF ok THEN w ELSE Idle)
                             /\ assembly' = IF ok THEN t ELSE Nil
  BY <1>1, <1>3, <1>7, <1>9 DEF Tombstone
<1>11. /\ Stored(next) /\ mode' \in {mode, "poisoned"}
       /\ ok => journal' = next /\ durable' = next
  BY <1>10, PersistStores
<1>12. past' \subseteq Uploads BY Typed DEF Tombstone
<1>13. \A y \in Tasks : assembly # y BY NilDiffers DEF Tombstone
<1>14. CASE ~ok
  <2>1. task' = [task EXCEPT ![t] = Rest("idle")] /\ assembly' = Nil
    BY <1>10, <1>14, IdleRest DEF Resumes
  <2> QED BY <1>8, <1>11, <1>12, <1>13, <2>1, Typed, QuietRest DEF Tombstone, Reserves
<1>15. CASE ok
  <2>1. task' = [task EXCEPT ![t] = w] /\ assembly' = t BY <1>10, <1>15 DEF Resumes
  <2>2. w \in Task /\ w.pc = "tombstoned" /\ w.up = u
    BY <1>2, <1>9, NextEpoch DEF Idle, Task, TaskStates
  <2>3. ~Owns(w) /\ Holds(w) /\ ~Written(w) BY <2>2 DEF Owns, Holds, Written
  <2>4. journal'[u] = q /\ durable'[u] = q BY <1>7, <1>11, <1>15 DEF QuietMap
  <2>5. Gone(q) BY <1>5 DEF Gone
  <2>6. client' = client BY DEF Tombstone
  <2>7. journal[u] # Nil BY <1>1, <1>2 DEF QuietMap
  <2>8. client[u].created BY <2>7 DEF UploadInv, SessionsSound, SessionSound
  <2>9. TaskSound(t, w, assembly', files', draws', journal', durable', client')
    BY <2>1, <2>2, <2>3, <2>4, <2>5, <2>6, <2>8 DEF TaskSound, Shaped
  <2>10. \A y \in Tasks : y # t => Apart(w, task[y]) /\ Apart(task[y], w)
    BY <2>2, <2>3 DEF Apart
  <2> QED BY <1>8, <1>11, <1>12, <1>13, <2>1, <2>2, <2>9, <2>10, Typed, QuietWork DEF Tombstone, Reserves
<1> QED BY <1>14, <1>15

LEMMA DeleteInv ==
  ASSUME UploadInv, NEW t \in Tasks, NEW u \in Uploads, Delete(t, u)
  PROVE  UploadInv'
<1>1. QuietMap(journal, ExpireDispatches(journal)) /\ Reserves(ExpireDispatches(journal))
  BY ExpireQuiet
<1>2. journal[u] # Nil BY DEF Delete, Checked, DispatchExpired
<1>3. ExpireDispatches(journal)[u] # Nil BY <1>1, <1>2 DEF QuietMap
<1> QED BY <1>1, <1>3, TombstoneInv DEF Delete

LEMMA CollectInv ==
  ASSUME UploadInv, NEW t \in Tasks, NEW u \in Uploads, Collect(t, u)
  PROVE  UploadInv'
BY SameMap, SameReserves, TombstoneInv DEF Collect

-------------------------------------------------------------------------------
(* The steps between transactions, which leave the journal alone. *)

LEMMA NothingMoved ==
  ASSUME journal' = journal, durable' = durable
  PROVE  AllMoved({})
BY DEF AllMoved, Moved

LEMMA FilesStep ==
  ASSUME UploadInv, NEW t \in Tasks, NEW r \in Task,
         UNCHANGED <<journal, durable, draws, client, past, lapsed, stops>>,
         Running, mode' = mode,
         files' \subseteq FileKey,
         \A v \in Uploads : \A s \in {journal[v], durable[v]} :
           ~Gone(s) => (Keys(s) \subseteq files => Keys(s) \subseteq files'),
         task' = [task EXCEPT ![t] = r],
         assembly' \in Tasks \cup {Nil},
         \A q \in Tasks : q # t /\ assembly = q => assembly' = q,
         \A q \in Tasks : q # t /\ Written(task[q]) => (task[q].key \in files => task[q].key \in files'),
         TaskSound(t, r, assembly', files', draws', journal', durable', client'),
         \A q \in Tasks : q # t => Apart(r, task[q]) /\ Apart(task[q], r)
  PROVE  UploadInv'
<1>1. AllMoved({}) BY NothingMoved
<1>2. client \in [Uploads -> ClientRecord] BY DEF UploadInv
<1>3. \A v \in Uploads : client[v].sent <= client[v].sent BY <1>2 DEF ClientRecord
<1>4. TasksSound' BY <1>1, <1>2, <1>3, Typed, TasksLater
<1>5. ASSUME NEW v \in Uploads, NEW s \in {journal[v], durable[v]}
      PROVE  SessionSound(v, s, draws, client[v], files')
  <2>1. SessionSound(v, s, draws, client[v], files) BY DEF UploadInv, SessionsSound
  <2>2. s # Nil /\ s.state # "Deleted" => (Keys(s) \subseteq files => Keys(s) \subseteq files')
    BY DEF Gone
  <2> QED BY <2>1, <2>2, Typed, SoundLater
<1>6. SessionsSound' BY <1>5 DEF UploadInv, SessionsSound
<1>7. ClientsSound' BY DEF UploadInv, ClientsSound
<1>8. task' \in [Tasks -> Task] BY Typed
<1>9. UploadTypeOK' BY <1>8 DEF UploadInv, UploadTypeOK
<1>10. Quiescent' BY DEF Quiescent, Running
<1> QED BY <1>2, <1>4, <1>6, <1>7, <1>9, <1>10 DEF UploadInv

LEMMA StagePartInv ==
  ASSUME UploadInv, NEW t \in Tasks, NEW n \in 1..MaxUploadBytes, StagePart(t, n)
  PROVE  UploadInv'
<1>1. TaskSound(t, task[t], assembly, files, draws, journal, durable, client)
  BY DEF UploadInv, TasksSound
<1>2. PICK w : w = task[t] OBVIOUS
<1>3. w \in Task /\ w.pc = "reserved" /\ w.up \in Uploads /\ w.res \in Reservation /\ w.key = Nil
  BY <1>1, <1>2, Typed DEF StagePart, TaskSound, Shaped
<1>4. PICK k : k = [up |-> w.up, kind |-> "chunk", draw |-> w.res.token] OBVIOUS
<1>5. k \in FileKey BY <1>3, <1>4 DEF FileKey, Reservation
<1>6. n \in Nat BY UploadAssumption
<1>7. PICK r : /\ r \in {[w EXCEPT !.pc = "staged", !.bytes = n, !.key = k], [w EXCEPT !.pc = "failed"]}
               /\ task' = [task EXCEPT ![t] = r]
  BY <1>2, <1>4 DEF StagePart, Resumes
<1>8. r \in Task /\ r.up = w.up /\ r.res = w.res BY <1>3, <1>5, <1>6, <1>7 DEF Task, TaskStates
<1>9. \/ r.pc = "staged" /\ r.key = k
      \/ r.pc = "failed"
  BY <1>3, <1>7 DEF Task
<1>10. UNCHANGED <<mode, journal, durable, files, assembly, draws, client, stops, past, lapsed>>
  BY DEF StagePart
<1>11. ~Holds(r) /\ ~Written(r) /\ (Owns(r) => r.pc = "staged") BY <1>9 DEF Holds, Written, Owns
<1>12. Owns(w) /\ OwnKey(w) = k /\ OwnKey(r) = k BY <1>3, <1>4, <1>8, <1>9 DEF Owns, OwnKey
<1>13. Shaped(r) BY <1>3, <1>4, <1>8, <1>9, <1>12 DEF Shaped
<1>14. TaskSound(t, r, assembly', files', draws', journal', durable', client')
  BY <1>1, <1>2, <1>3, <1>8, <1>9, <1>10, <1>11, <1>12, <1>13 DEF TaskSound
<1>15. \A y \in Tasks : y # t => Apart(w, task[y]) /\ Apart(task[y], w)
  BY <1>2 DEF UploadInv, TasksSound
<1>16. \A y \in Tasks : y # t => Apart(r, task[y]) /\ Apart(task[y], r)
  BY <1>9, <1>11, <1>12, <1>15 DEF Apart
<1> QED BY <1>7, <1>8, <1>10, <1>14, <1>16, Typed, FilesStep DEF StagePart

LEMMA RenamePartInv ==
  ASSUME UploadInv, NEW t \in Tasks, RenamePart(t)
  PROVE  UploadInv'
<1>1. TaskSound(t, task[t], assembly, files, draws, journal, durable, client)
  BY DEF UploadInv, TasksSound
<1>2. PICK w : w = task[t] OBVIOUS
<1>3. w \in Task /\ w.pc = "staged" /\ w.up \in Uploads /\ w.res \in Reservation /\ w.key = OwnKey(w)
  BY <1>1, <1>2, Typed DEF RenamePart, TaskSound, Shaped
<1>4. PICK r : r = [w EXCEPT !.pc = "renamed"] OBVIOUS
<1>5. r \in Task /\ r.up = w.up /\ r.res = w.res /\ r.key = w.key /\ r.pc = "renamed"
  BY <1>3, <1>4 DEF Task, TaskStates
<1>6. w.key \in FileKey BY <1>3 DEF OwnKey, FileKey, Reservation
<1>7. UNCHANGED <<mode, journal, durable, draws, client, stops, past, lapsed>> BY DEF RenamePart
<1>8. Holds(r) /\ Written(r) /\ Owns(r) /\ Owns(w) BY <1>3, <1>5 DEF Holds, Written, Owns
<1>9. OwnKey(r) = OwnKey(w) BY <1>3, <1>5 DEF OwnKey
<1>10. Shaped(r) BY <1>3, <1>5, <1>9 DEF Shaped
<1>11. assembly' = t /\ files' = files \cup {w.key} /\ task' = [task EXCEPT ![t] = r]
  BY <1>2, <1>4 DEF RenamePart, Resumes
<1>12. TaskSound(t, r, assembly', files', draws', journal', durable', client')
  BY <1>1, <1>2, <1>3, <1>5, <1>7, <1>8, <1>9, <1>10, <1>11 DEF TaskSound
<1>13. \A y \in Tasks : y # t => Apart(r, task[y]) /\ Apart(task[y], r)
  BY <1>2, <1>3, <1>5, <1>8, <1>9 DEF UploadInv, TasksSound, Apart
<1>14. \A y \in Tasks : assembly # y BY NilDiffers DEF RenamePart
<1> QED BY <1>5, <1>6, <1>7, <1>11, <1>12, <1>13, <1>14, Typed, FilesStep DEF RenamePart

LEMMA BuildObjectInv ==
  ASSUME UploadInv, NEW t \in Tasks, BuildObject(t)
  PROVE  UploadInv'
<1>1. TaskSound(t, task[t], assembly, files, draws, journal, durable, client)
  BY DEF UploadInv, TasksSound
<1>2. PICK w : w = task[t] OBVIOUS
<1>3. w \in Task /\ w.pc = "building" /\ w.up \in Uploads /\ w.key \in FileKey /\ w.key.up = w.up
  BY <1>1, <1>2, Typed DEF BuildObject, TaskSound, Shaped
<1>4. PICK r : r = [w EXCEPT !.pc = "built"] OBVIOUS
<1>5. r \in Task /\ r.up = w.up /\ r.key = w.key /\ r.pc = "built"
  BY <1>3, <1>4 DEF Task, TaskStates
<1>6. UNCHANGED <<mode, journal, durable, assembly, draws, client, stops, past, lapsed>>
  BY DEF BuildObject
<1>7. Holds(w) /\ Holds(r) /\ Written(r) /\ Owns(r) /\ Owns(w) BY <1>3, <1>5 DEF Holds, Written, Owns
<1>8. OwnKey(r) = OwnKey(w) BY <1>3, <1>5 DEF OwnKey
<1>9. Shaped(r) BY <1>3, <1>5 DEF Shaped
<1>10. files' = files \cup {w.key} /\ task' = [task EXCEPT ![t] = r]
  BY <1>2, <1>4 DEF BuildObject, Resumes
<1>11. TaskSound(t, r, assembly', files', draws', journal', durable', client')
  BY <1>1, <1>2, <1>3, <1>5, <1>6, <1>7, <1>8, <1>9, <1>10 DEF TaskSound
<1>12. \A y \in Tasks : y # t => Apart(r, task[y]) /\ Apart(task[y], r)
  BY <1>2, <1>3, <1>5, <1>7, <1>8 DEF UploadInv, TasksSound, Apart
<1> QED BY <1>3, <1>5, <1>6, <1>10, <1>11, <1>12, Typed, FilesStep DEF BuildObject

(* The keys that a task has drawn are nobody else's, so removing its file
   disturbs neither a journal nor another task.                              *)
LEMMA OwnFile ==
  ASSUME UploadInv, NEW t \in Tasks, Owns(task[t])
  PROVE  /\ \A v \in Uploads : task[t].key \notin KeysOf(journal[v]) \cup KeysOf(durable[v])
         /\ \A q \in Tasks : q # t /\ Written(task[q]) => task[q].key # task[t].key
<1>1. TaskSound(t, task[t], assembly, files, draws, journal, durable, client)
  BY DEF UploadInv, TasksSound
<1>2. task[t].key \in {Nil, OwnKey(task[t])} BY <1>1 DEF TaskSound, Shaped, Owns, OwnKey
<1>3. ASSUME NEW v \in Uploads
      PROVE  Nil \notin KeysOf(journal[v]) \cup KeysOf(durable[v])
  <2>1. journal[v] \in Session \cup {Nil} /\ durable[v] \in Session \cup {Nil} BY Typed
  <2> QED BY <2>1, SessionFields, NilDiffers DEF KeysOf, Keys, Part
<1>4. ASSUME NEW q \in Tasks, q # t, Written(task[q])
      PROVE  task[q].key # task[t].key
  <2>1. TaskSound(q, task[q], assembly, files, draws, journal, durable, client)
    BY DEF UploadInv, TasksSound
  <2>2. task[q].key = OwnKey(task[q]) /\ Owns(task[q])
    BY <1>4, <2>1 DEF TaskSound, Shaped, Written, Owns, OwnKey
  <2>3. task[q].key \in FileKey
    BY <1>4, <2>1, <2>2 DEF TaskSound, Shaped, Written, OwnKey, FileKey, Reservation
  <2>4. OwnKey(task[t]).draw # OwnKey(task[q]).draw
    BY <1>4, <2>2 DEF UploadInv, TasksSound, Apart
  <2> QED BY <1>2, <2>2, <2>3, <2>4, NilDiffers
<1> QED BY <1>1, <1>2, <1>3, <1>4 DEF TaskSound

LEMMA CancelInv ==
  ASSUME UploadInv, NEW t \in Tasks, Cancel(t)
  PROVE  UploadInv'
<1>1. Owns(task[t]) BY DEF Cancel, Owns
<1>2. files' = files \ {task[t].key} /\ task' = [task EXCEPT ![t] = Rest("idle")]
  BY IdleRest DEF Cancel, Resumes
<1>3. assembly' = IF assembly = t THEN Nil ELSE assembly BY DEF Cancel, Release
<1>4. UNCHANGED <<mode, journal, durable, draws, client, stops, past, lapsed>> BY DEF Cancel
<1>5. \A v \in Uploads : \A s \in {journal[v], durable[v]} :
        ~Gone(s) => (Keys(s) \subseteq files => Keys(s) \subseteq files')
  BY <1>1, <1>2, OwnFile DEF KeysOf, Gone
<1>6. \A q \in Tasks : q # t /\ Written(task[q]) => (task[q].key \in files => task[q].key \in files')
  BY <1>1, <1>2, OwnFile
<1>7. /\ Rest("idle") \in Task
      /\ TaskSound(t, Rest("idle"), assembly', files', draws', journal', durable', client')
      /\ \A q : Apart(Rest("idle"), q) /\ Apart(q, Rest("idle"))
  BY RestSound
<1> QED BY <1>2, <1>3, <1>4, <1>5, <1>6, <1>7, Typed, FilesStep DEF Cancel

LEMMA RemoveUploadFilesInv ==
  ASSUME UploadInv, NEW t \in Tasks, RemoveUploadFiles(t)
  PROVE  UploadInv'
<1>1. TaskSound(t, task[t], assembly, files, draws, journal, durable, client)
  BY DEF UploadInv, TasksSound
<1>2. PICK w : w = task[t] OBVIOUS
<1>3. w \in Task /\ w.pc = "tombstoned" /\ w.up \in Uploads
  BY <1>1, <1>2, Typed DEF RemoveUploadFiles, TaskSound, Shaped
<1>4. UNCHANGED <<mode, journal, durable, draws, client, stops, past, lapsed>> BY DEF RemoveUploadFiles
<1>5. CASE /\ files' = {k \in files : k.up # w.up}
           /\ Resumes(t, [w EXCEPT !.pc = "cleared"]) /\ UNCHANGED assembly
  <2>1. PICK r : r = [w EXCEPT !.pc = "cleared"] OBVIOUS
  <2>2. r \in Task /\ r.up = w.up /\ r.pc = "cleared" BY <1>3, <2>1 DEF Task, TaskStates
  <2>3. ~Owns(r) /\ Holds(r) /\ Holds(w) /\ ~Written(r) BY <1>3, <2>2 DEF Owns, Holds, Written
  <2>4. TaskSound(t, r, assembly', files', draws', journal', durable', client')
    BY <1>1, <1>2, <1>3, <1>4, <1>5, <2>2, <2>3 DEF TaskSound, Shaped
  <2>5. \A y \in Tasks : y # t => Apart(r, task[y]) /\ Apart(task[y], r)
    BY <2>2, <2>3 DEF Apart
  <2>6. assembly = t BY <1>1, <1>2, <2>3 DEF TaskSound
  <2>7. \A y \in Tasks : y # t => ~Written(task[y])
    BY <2>6 DEF UploadInv, TasksSound, TaskSound, Holds, Written
  <2>8. ASSUME NEW v \in Uploads, NEW s \in {journal[v], durable[v]}, ~Gone(s), Keys(s) \subseteq files
        PROVE  Keys(s) \subseteq files'
    <3>1. SessionSound(v, s, draws, client[v], files) BY DEF UploadInv, SessionsSound
    <3>2. \A k \in Keys(s) : k.up = v BY <2>8, <3>1 DEF SessionSound, Gone
    <3>3. v # w.up BY <1>1, <1>2, <1>3, <2>8 DEF TaskSound
    <3> QED BY <1>5, <2>8, <3>2, <3>3
  <2> QED BY <1>4, <1>5, <2>1, <2>2, <2>4, <2>5, <2>7, <2>8, Typed, FilesStep
          DEF RemoveUploadFiles, Resumes
<1>6. CASE Resumes(t, Idle) /\ Release(t) /\ UNCHANGED files
  <2>1. /\ Rest("idle") \in Task
        /\ TaskSound(t, Rest("idle"), assembly', files', draws', journal', durable', client')
        /\ \A q : Apart(Rest("idle"), q) /\ Apart(q, Rest("idle"))
    BY RestSound
  <2>2. task' = [task EXCEPT ![t] = Rest("idle")] BY <1>6, IdleRest DEF Resumes
  <2>3. assembly' = IF assembly = t THEN Nil ELSE assembly BY <1>6 DEF Release
  <2> QED BY <1>4, <1>6, <2>1, <2>2, <2>3, Typed, FilesStep DEF RemoveUploadFiles
<1> QED BY <1>2, <1>5, <1>6 DEF RemoveUploadFiles

LEMMA CleanupOrphanDataInv ==
  ASSUME UploadInv, NEW t \in Tasks, CleanupOrphanData(t)
  PROVE  UploadInv'
<1>1. UNCHANGED <<mode, journal, durable, assembly, draws, client, stops, past, lapsed>>
  BY DEF CleanupOrphanData
<1>2. files' = files \cap Referenced(journal) /\ task' = [task EXCEPT ![t] = Rest("idle")]
  BY IdleRest DEF CleanupOrphanData, Resumes
<1>3. /\ Rest("idle") \in Task
      /\ TaskSound(t, Rest("idle"), assembly', files', draws', journal', durable', client')
      /\ \A q : Apart(Rest("idle"), q) /\ Apart(q, Rest("idle"))
  BY RestSound
<1>4. \A y \in Tasks : ~Written(task[y])
  BY NilDiffers DEF CleanupOrphanData, UploadInv, TasksSound, TaskSound, Holds, Written
<1>5. ASSUME NEW v \in Uploads, NEW s \in {journal[v], durable[v]}, ~Gone(s), Keys(s) \subseteq files
      PROVE  Keys(s) \subseteq files'
  <2>1. Carried(durable[v], journal[v]) BY DEF UploadInv, SessionsSound
  <2>2. journal[v] # Nil /\ Keys(s) \subseteq Keys(journal[v]) BY <1>5, <2>1 DEF Carried, Gone
  <2>3. Keys(journal[v]) \subseteq Referenced(journal) BY <2>2 DEF Referenced
  <2> QED BY <1>2, <1>5, <2>2, <2>3
<1> QED BY <1>1, <1>2, <1>3, <1>4, <1>5, Typed, FilesStep DEF CleanupOrphanData

LEMMA SendInv ==
  ASSUME UploadInv, NEW t \in Tasks, Send(t)
  PROVE  UploadInv'
<1>1. TaskSound(t, task[t], assembly, files, draws, journal, durable, client)
  BY DEF UploadInv, TasksSound
<1>2. PICK w : w = task[t] OBVIOUS
<1>3. PICK u : u = w.up OBVIOUS
<1>4. w \in Task /\ w.pc = "claimed" /\ u \in Uploads
  BY <1>1, <1>2, <1>3, Typed DEF Send, TaskSound, Shaped
<1>5. /\ client[u].created /\ client[u].sent = 0 /\ Beyond(journal[u]) /\ Beyond(durable[u])
  BY <1>1, <1>2, <1>3, <1>4, NilDiffers DEF TaskSound
<1>6. client \in [Uploads -> ClientRecord] BY DEF UploadInv
<1>7. client' = [client EXCEPT ![u] = [client[u] EXCEPT !.sent = 1]]
  BY <1>2, <1>3, <1>4, <1>5, <1>6 DEF Send
<1>8. client' \in [Uploads -> ClientRecord] BY <1>4, <1>6, <1>7 DEF ClientRecord
<1>9. \A v \in Uploads : /\ client'[v].created = client[v].created
                         /\ client'[v].committed = client[v].committed
                         /\ client'[v].promise = client[v].promise
                         /\ client'[v].sent = IF v = u THEN 1 ELSE client[v].sent
  BY <1>4, <1>6, <1>7 DEF ClientRecord
<1>10. UNCHANGED <<mode, journal, durable, files, assembly, past, lapsed, draws, stops>> BY DEF Send
<1>11. AllMoved({}) BY <1>10, NothingMoved
<1>12. PICK r : r = [w EXCEPT !.pc = "sent"] OBVIOUS
<1>13. r \in Task /\ r.up = u /\ r.pc = "sent" BY <1>3, <1>4, <1>12 DEF Task, TaskStates
<1>14. ~Owns(r) /\ ~Holds(r) /\ ~Written(r) BY <1>13 DEF Owns, Holds, Written
<1>15. TaskSound(t, r, assembly', files', draws', journal', durable', client')
  BY <1>4, <1>5, <1>9, <1>10, <1>13, <1>14 DEF TaskSound, Shaped
<1>16. \A y \in Tasks : y # t => Apart(r, task[y]) /\ Apart(task[y], r)
  BY <1>13, <1>14 DEF Apart
<1>17. \A y \in Tasks : y # t /\ task[y].pc = "claimed" => task[y].up \in Uploads /\ task[y].up # u
  BY <1>2, <1>3, <1>4 DEF UploadInv, TasksSound, TaskSound, Shaped, Apart
<1>18. task' = [task EXCEPT ![t] = r] BY <1>2, <1>12 DEF Send, Resumes
<1>19. \A v \in Uploads : client[v].sent <= client'[v].sent
  BY <1>5, <1>6, <1>9 DEF ClientRecord
<1>20. TasksSound'
  <2>1. \A y \in Tasks : y # t /\ task[y].pc = "claimed" =>
          client'[task[y].up].sent = client[task[y].up].sent
    BY <1>9, <1>17
  <2>2. \A v \in Uploads : client[v].created => client'[v].created BY <1>9
  <2>3. draws' \in Nat /\ draws <= draws' BY <1>10, Typed
  <2> QED BY <1>8, <1>10, <1>11, <1>13, <1>15, <1>16, <1>18, <1>19, <2>1, <2>2, <2>3, TasksLater
<1>21. SessionsSound'
  <2>1. ASSUME NEW v \in Uploads, NEW s \in {journal[v], durable[v]}
        PROVE  SessionSound(v, s, draws, client'[v], files)
    <3>1. SessionSound(v, s, draws, client[v], files) BY DEF UploadInv, SessionsSound
    <3> QED BY <1>9, <3>1, Typed, SoundLater
  <2> QED BY <1>10, <2>1 DEF UploadInv, SessionsSound
<1>22. ClientsSound'
  <2>1. ASSUME NEW v \in Uploads PROVE ClientSound(journal[v], durable[v], client'[v])
    <3>1. ClientSound(journal[v], durable[v], client[v]) BY DEF UploadInv, ClientsSound
    <3> QED BY <1>5, <1>9, <3>1 DEF ClientSound
  <2> QED BY <1>10, <2>1 DEF ClientsSound
<1>23. UploadTypeOK' BY <1>10, <1>13, <1>18 DEF UploadInv, UploadTypeOK
<1>24. Quiescent' BY <1>10 DEF Quiescent, Running, Send
<1> QED BY <1>8, <1>20, <1>21, <1>22, <1>23, <1>24 DEF UploadInv

(* Time passes. *)
LEMMA TimeInv ==
  ASSUME UploadInv, past' \subseteq Uploads, lapsed' \subseteq Uploads,
         UNCHANGED <<mode, journal, durable, files, assembly, task, draws, stops, client>>
  PROVE  UploadInv'
<1>1. UploadTypeOK' BY DEF UploadInv, UploadTypeOK
<1>2. SessionsSound' /\ ClientsSound' BY DEF UploadInv, SessionsSound, ClientsSound
<1>3. TasksSound' BY DEF UploadInv, TasksSound
<1>4. Quiescent' BY DEF UploadInv, Quiescent, Running
<1> QED BY <1>1, <1>2, <1>3, <1>4 DEF UploadInv

LEMMA LeaseLapsesInv ==
  ASSUME UploadInv, NEW u \in Uploads, LeaseLapses(u) PROVE UploadInv'
<1>1. lapsed' \subseteq Uploads /\ past' \subseteq Uploads BY Typed DEF LeaseLapses
<1> QED BY <1>1, TimeInv DEF LeaseLapses

LEMMA SessionExpiresInv ==
  ASSUME UploadInv, NEW u \in Uploads, SessionExpires(u) PROVE UploadInv'
<1>1. lapsed' \subseteq Uploads /\ past' \subseteq Uploads BY Typed DEF SessionExpires
<1> QED BY <1>1, TimeInv DEF SessionExpires

-------------------------------------------------------------------------------
(* The steps that record or forget something of one session. *)

LEMMA PointSessions ==
  ASSUME UploadInv, NEW j, QuietMap(journal, j), NEW u \in Uploads, NEW q \in Session \cup {Nil},
         NEW next, next = [j EXCEPT ![u] = q], Stored(next),
         draws' = draws, files' = files, NEW K,
         \A v \in Uploads : v # u => client'[v] = client[v],
         SessionSound(u, journal'[u], draws, client'[u], files),
         SessionSound(u, durable'[u], draws, client'[u], files),
         Carried(durable'[u], journal'[u]),
         Moved(journal[u], durable[u], journal'[u], durable'[u], client[u], K)
  PROVE  /\ journal' \in [Uploads -> Session \cup {Nil}]
         /\ durable' \in [Uploads -> Session \cup {Nil}]
         /\ SessionsSound'
         /\ AllMoved(K)
<1>1. j \in [Uploads -> Session \cup {Nil}] BY DEF QuietMap
<1>2. next \in [Uploads -> Session \cup {Nil}] BY <1>1
<1>3. journal' \in [Uploads -> Session \cup {Nil}] /\ durable' \in [Uploads -> Session \cup {Nil}]
  BY <1>2, Typed DEF Stored
<1>4. ASSUME NEW v \in Uploads, v # u
      PROVE  /\ SessionSound(v, journal'[v], draws, client'[v], files)
             /\ SessionSound(v, durable'[v], draws, client'[v], files)
             /\ Carried(durable'[v], journal'[v])
             /\ Moved(journal[v], durable[v], journal'[v], durable'[v], client[v], K)
  <2>1. next[v] = j[v] BY <1>1, <1>4
  <2>2. /\ SessionSound(v, j[v], draws, client[v], files)
        /\ KeysOf(j[v]) = KeysOf(journal[v])
        /\ Carried(durable[v], j[v])
        /\ Gone(journal[v]) => Gone(j[v])
        /\ Beyond(journal[v]) => Beyond(j[v])
    BY QuietEntry
  <2>3. /\ SessionSound(v, journal[v], draws, client[v], files)
        /\ SessionSound(v, durable[v], draws, client[v], files)
        /\ Carried(durable[v], journal[v])
    BY DEF UploadInv, SessionsSound
  <2>4. Carried(j[v], j[v]) BY DEF Carried, Gone
  <2>5. /\ SessionSound(v, journal'[v], draws, client'[v], files)
        /\ SessionSound(v, durable'[v], draws, client'[v], files)
    BY <1>4, <2>1, <2>2, <2>3 DEF Stored
  <2>6. Carried(durable'[v], journal'[v]) BY <2>1, <2>2, <2>3, <2>4 DEF Stored
  <2>7. Moved(journal[v], durable[v], journal'[v], durable'[v], client[v], K)
    BY <2>1, <2>2 DEF Stored, Moved
  <2> QED BY <2>5, <2>6, <2>7
<1>5. SessionsSound' BY <1>4 DEF SessionsSound
<1>6. AllMoved(K) BY <1>4 DEF AllMoved
<1> QED BY <1>3, <1>5, <1>6

LEMMA NewSessionSound ==
  ASSUME NEW kind \in UploadKinds, NEW u, NEW n, NEW c, NEW F, c.created, c.committed = 0
  PROVE  /\ NewSession(kind) \in Session /\ NewSession(kind) # Nil
         /\ Keys(NewSession(kind)) = {}
         /\ SessionSound(u, NewSession(kind), n, c, F)
<1>1. PICK q : q = NewSession(kind) OBVIOUS
<1>2. kind.dictionary \in BOOLEAN /\ kind.upstream \in BOOLEAN BY UploadAssumption
<1>3. q \in Session BY <1>1, <1>2 DEF NewSession, Session, UploadStates
<1>4. q.offset = 0 /\ q.parts = {} /\ q.object = Nil /\ q.reservation = Nil BY <1>1 DEF NewSession
<1>5. Keys(q) = {} BY <1>4 DEF Keys
<1>6. Tiled(q) BY <1>4 DEF Tiled, Contiguous
<1>7. SessionSound(u, q, n, c, F) BY <1>3, <1>4, <1>5, <1>6 DEF SessionSound
<1> QED BY <1>1, <1>3, <1>5, <1>7, NilDiffers

LEMMA CreateInv ==
  ASSUME UploadInv, NEW t \in Tasks, NEW u \in Uploads, Create(t, u)
  PROVE  UploadInv'
<1>1. PICK ok \in BOOLEAN, kind \in UploadKinds :
        Persist([ReapExpired(journal) EXCEPT ![u] = NewSession(kind)], ok)
  BY DEF Create
<1>2. PICK j : j = ReapExpired(journal) OBVIOUS
<1>3. PICK q : q = NewSession(kind) OBVIOUS
<1>4. PICK next : next = [j EXCEPT ![u] = q] OBVIOUS
<1>5. QuietMap(journal, j) /\ Reserves(j) BY <1>2, ReapQuiet
<1>6. Stored(next) /\ mode' \in {mode, "poisoned"} BY <1>1, <1>2, <1>3, <1>4, PersistStores
<1>7. ClientSound(journal[u], durable[u], client[u]) /\ client \in [Uploads -> ClientRecord]
  BY DEF UploadInv, ClientsSound
<1>8. /\ ~client[u].created /\ client[u].committed = 0 /\ client[u].promise = Nil
      /\ journal[u] = Nil /\ durable[u] = Nil
  BY <1>7 DEF Create, ClientSound, UploadInv, SessionsSound, SessionSound
<1>9. client' = [client EXCEPT ![u].created = TRUE] BY DEF Create
<1>10. client' \in [Uploads -> ClientRecord] BY <1>7, <1>9 DEF ClientRecord
<1>11. \A v \in Uploads : /\ client'[v].created = (v = u \/ client[v].created)
                          /\ client'[v].committed = client[v].committed
                          /\ client'[v].promise = client[v].promise
                          /\ client'[v].sent = client[v].sent
                          /\ v # u => client'[v] = client[v]
  BY <1>7, <1>9 DEF ClientRecord
<1>12. UNCHANGED <<files, assembly, past, lapsed, draws, stops>> BY DEF Create
<1>13. /\ q \in Session /\ q # Nil /\ Keys(q) = {}
       /\ SessionSound(u, q, draws, client'[u], files)
  BY <1>3, <1>8, <1>11, NewSessionSound
<1>14. journal'[u] \in {q, Nil} /\ durable'[u] \in {journal'[u], Nil}
  BY <1>4, <1>5, <1>6, <1>8 DEF Stored, QuietMap
<1>15. SessionSound(u, Nil, draws, client'[u], files) BY DEF SessionSound
<1>16. Carried(durable'[u], journal'[u]) BY <1>14 DEF Carried, Gone
<1>17. KeysOf(journal'[u]) = {} /\ KeysOf(durable'[u]) = {} BY <1>13, <1>14 DEF KeysOf
<1>18. Moved(journal[u], durable[u], journal'[u], durable'[u], client[u], {})
  BY <1>8, <1>17 DEF Moved
<1>19. SessionSound(u, journal'[u], draws, client'[u], files) /\ SessionSound(u, durable'[u], draws, client'[u], files)
  BY <1>13, <1>14, <1>15
<1>20. /\ journal' \in [Uploads -> Session \cup {Nil}]
       /\ durable' \in [Uploads -> Session \cup {Nil}]
       /\ SessionsSound' /\ AllMoved({})
  BY <1>4, <1>5, <1>6, <1>11, <1>12, <1>13, <1>16, <1>18, <1>19, PointSessions
<1>21. ASSUME NEW v \in Uploads, client'[v].promise # Nil
       PROVE  /\ client[v].created
              /\ journal'[v] # Nil => /\ journal'[v].reservation = Nil
                                      /\ journal'[v].offset = client'[v].promise
  <2>1. v # u /\ client'[v].promise = client[v].promise BY <1>8, <1>11, <1>21
  <2>2. ClientSound(journal[v], durable[v], client[v]) BY DEF UploadInv, ClientsSound
  <2>3. client[v].created BY <1>7, <1>21, <2>1, <2>2 DEF ClientSound
  <2>4. journal[v] # Nil => journal[v].reservation = Nil /\ journal[v].offset = client[v].promise
    BY <1>21, <2>1, <2>2 DEF ClientSound
  <2>5. next[v] = j[v] BY <1>4, <1>5, <2>1 DEF QuietMap
  <2>6. j[v] # Nil => /\ journal[v] # Nil /\ j[v].offset = journal[v].offset
                      /\ j[v].reservation \in {Nil, journal[v].reservation}
    BY <1>5 DEF QuietMap, Quiet, Reserves
  <2> QED BY <1>6, <2>1, <2>3, <2>4, <2>5, <2>6 DEF Stored
<1>22. ClientsSound' BY <1>11, <1>20, <1>21, ClientsLater
<1>23. task' = [task EXCEPT ![t] = Rest("idle")] BY IdleRest DEF Create, Resumes
<1>24. /\ Rest("idle") \in Task
       /\ TaskSound(t, Rest("idle"), assembly', files', draws', journal', durable', client')
       /\ \A z : Apart(Rest("idle"), z) /\ Apart(z, Rest("idle"))
  BY RestSound
<1>25. \A v \in Uploads : client[v].sent <= client'[v].sent BY <1>7, <1>11 DEF ClientRecord
<1>26. \A y \in Tasks : task[y].pc = "claimed" => task[y].up \in Uploads
  BY DEF UploadInv, TasksSound, TaskSound, Shaped
<1>27. TasksSound'
  BY <1>10, <1>11, <1>12, <1>20, <1>23, <1>24, <1>25, <1>26, Typed, TasksLater
<1>28. task' \in [Tasks -> Task] BY <1>23, <1>24, Typed
<1>29. UploadTypeOK' BY <1>6, <1>12, <1>20, <1>28 DEF UploadInv, UploadTypeOK
<1>30. Quiescent' BY <1>6 DEF Quiescent, Running, Create
<1> QED BY <1>10, <1>20, <1>22, <1>27, <1>29, <1>30 DEF UploadInv

(* A part that begins at the offset of a session extends its tiling. *)
LEMMA TiledExtends ==
  ASSUME NEW s \in Session, Tiled(s), NEW p \in Part, p.at = s.offset,
         NEW q, q.parts = s.parts \cup {p}, q.offset = s.offset + p.bytes
  PROVE  Tiled(q)
<1>1. s.offset \in Nat /\ p.bytes \in Nat /\ p.at \in Nat /\ s.parts \subseteq Part
  BY SessionFields DEF Part
<1>2. \A x \in s.parts : x.at \in Nat /\ x.bytes \in Nat /\ x.at + x.bytes <= s.offset
  BY <1>1 DEF Tiled, Part
<1>3. \A x \in q.parts : x.at + x.bytes <= q.offset
  BY <1>1, <1>2
<1>4. ASSUME NEW i \in 0..(q.offset - 1)
      PROVE  Cardinality({x \in q.parts : x.at <= i /\ i < x.at + x.bytes}) = 1
  <2>1. i \in Nat /\ q.offset \in Nat /\ i < q.offset BY <1>1, <1>4
  <2>2. CASE i < s.offset
    <3>1. {x \in q.parts : x.at <= i /\ i < x.at + x.bytes}
            = {x \in s.parts : x.at <= i /\ i < x.at + x.bytes}
      BY <1>1, <2>1, <2>2
    <3>2. i \in 0..(s.offset - 1) BY <1>1, <2>1, <2>2
    <3> QED BY <3>1, <3>2 DEF Tiled, Contiguous
  <2>3. CASE ~(i < s.offset)
    <3>1. p.at <= i /\ i < p.at + p.bytes BY <1>1, <2>1, <2>3
    <3>2. \A x \in s.parts : ~(i < x.at + x.bytes) BY <1>1, <1>2, <2>1, <2>3
    <3>3. {x \in q.parts : x.at <= i /\ i < x.at + x.bytes} = {p} BY <3>1, <3>2
    <3> QED BY <3>3, FS_Singleton
  <2> QED BY <2>2, <2>3
<1> QED BY <1>3, <1>4 DEF Tiled, Contiguous

(* The file of a task is recorded in its session, durably or not. *)
LEMMA RecordStep ==
  ASSUME UploadInv, NEW t \in Tasks, Written(task[t]), NEW u \in Uploads, u = task[t].up,
         journal[u] # Nil, ~Beyond(journal[u]), NEW q \in Session,
         Keys(q) = Keys(journal[u]) \cup {task[t].key},
         SessionSound(u, q, draws, client'[u], files),
         client[u].promise # Nil => q.reservation = Nil /\ q.offset = client[u].promise,
         NEW next, next = [journal EXCEPT ![u] = q], journal' = next,
         \/ durable' = next
         \/ durable' = durable /\ client' = client,
         NEW told \in Nat, client' \in {client, [client EXCEPT ![u].committed = told]},
         Running, mode' \in {mode, "poisoned"},
         UNCHANGED <<files, draws, stops>>, past' \subseteq Uploads, lapsed' \subseteq Uploads,
         assembly' = IF assembly = t THEN Nil ELSE assembly,
         NEW r \in Task, task' = [task EXCEPT ![t] = r], ~Owns(r), r.pc # "claimed",
         TaskSound(t, r, assembly', files', draws', journal', durable', client')
  PROVE  UploadInv'
<1>0. PICK k : k = task[t].key OBVIOUS
<1>1. Stored(next) BY DEF Stored
<1>2. client \in [Uploads -> ClientRecord] BY DEF UploadInv
<1>3. client' \in [Uploads -> ClientRecord] BY <1>2 DEF ClientRecord
<1>4. \A v \in Uploads : /\ client'[v].created = client[v].created
                         /\ client'[v].promise = client[v].promise
                         /\ client'[v].sent = client[v].sent
                         /\ v # u => client'[v] = client[v]
  BY <1>2 DEF ClientRecord
<1>5. journal'[u] = q BY Typed
<1>6. q # Nil BY NilDiffers
<1>7. durable'[u] \in {q, durable[u]} BY <1>5
<1>8. SessionSound(u, durable'[u], draws, client'[u], files)
  BY <1>5 DEF UploadInv, SessionsSound
<1>9. Carried(durable'[u], journal'[u])
  <2>1. Carried(durable[u], journal[u]) BY DEF UploadInv, SessionsSound
  <2> QED BY <1>5, <1>6, <1>7, <2>1 DEF Carried
<1>10. KeysOf(journal'[u]) \cup KeysOf(durable'[u])
         \subseteq (KeysOf(journal[u]) \cup KeysOf(durable[u])) \cup {k}
  BY <1>0, <1>5, <1>6, <1>7 DEF KeysOf
<1>11. ~Gone(journal[u]) BY DEF Gone, Beyond
<1>12. Moved(journal[u], durable[u], journal'[u], durable'[u], client[u], {k})
  BY <1>10, <1>11 DEF Moved
<1>13. /\ journal' \in [Uploads -> Session \cup {Nil}]
       /\ durable' \in [Uploads -> Session \cup {Nil}]
       /\ SessionsSound' /\ AllMoved({k})
  <2>1. SessionSound(u, journal'[u], draws, client'[u], files) BY <1>5
  <2>2. \A v \in Uploads : v # u => client'[v] = client[v] BY <1>4
  <2>3. draws' = draws /\ files' = files /\ QuietMap(journal, journal) /\ q \in Session \cup {Nil}
    BY SameMap
  <2> QED BY <1>1, <1>8, <1>9, <1>12, <2>1, <2>2, <2>3, PointSessions
<1>14. client[u].created BY DEF UploadInv, SessionsSound, SessionSound
<1>15. ASSUME NEW v \in Uploads, client'[v].promise # Nil
       PROVE  /\ client[v].created
              /\ journal'[v] # Nil => /\ journal'[v].reservation = Nil
                                      /\ journal'[v].offset = client'[v].promise
  <2>1. CASE v = u BY <1>4, <1>5, <1>14, <1>15, <2>1
  <2>2. CASE v # u
    <3>1. journal'[v] = journal[v] BY <2>2, Typed
    <3>2. ClientSound(journal[v], durable[v], client[v]) BY DEF UploadInv, ClientsSound
    <3> QED BY <1>2, <1>4, <1>15, <3>1, <3>2 DEF ClientSound
  <2> QED BY <2>1, <2>2
<1>16. \A v \in Uploads : client'[v].created \/ client'[v].committed = client[v].committed
  BY <1>4, <1>14
<1>17. ClientsSound' BY <1>4, <1>13, <1>15, <1>16, ClientsLater
<1>18. \A y \in Tasks : y # t /\ Owns(task[y]) => OwnKey(task[y]) \notin {k}
  <2>1. Owns(task[t]) /\ task[t].key = OwnKey(task[t])
    BY DEF UploadInv, TasksSound, TaskSound, Shaped, Written, Owns, OwnKey
  <2> QED BY <1>0, <2>1 DEF UploadInv, TasksSound, Apart
<1>19. \A v \in Uploads : client[v].sent <= client'[v].sent BY <1>2, <1>4 DEF ClientRecord
<1>20. \A y \in Tasks : task[y].pc = "claimed" => task[y].up \in Uploads
  BY DEF UploadInv, TasksSound, TaskSound, Shaped
<1>21. \A y \in Tasks : y # t => Apart(r, task[y]) /\ Apart(task[y], r) BY DEF Apart
<1>22. draws' \in Nat /\ draws <= draws' BY Typed
<1>23. TasksSound'
  <2>1. \A y \in Tasks : y # t /\ task[y].pc = "claimed" =>
          client'[task[y].up].sent = client[task[y].up].sent
    BY <1>4, <1>20
  <2>2. \A v \in Uploads : client[v].created => client'[v].created BY <1>4
  <2>3. \A y \in Tasks : y # t /\ Holds(task[y]) => (assembly = y => assembly' = y) OBVIOUS
  <2>4. files' = files OBVIOUS
  <2> QED BY <1>3, <1>13, <1>18, <1>19, <1>21, <1>22, <2>1, <2>2, <2>3, <2>4, TasksLater
<1>24. task' \in [Tasks -> Task] /\ assembly' \in Tasks \cup {Nil} BY Typed
<1>25. UploadTypeOK' BY <1>13, <1>24 DEF UploadInv, UploadTypeOK
<1>26. Quiescent' BY DEF Quiescent, Running
<1> QED BY <1>3, <1>13, <1>17, <1>23, <1>25, <1>26 DEF UploadInv

(* Nothing was recorded, and the file is removed. *)
LEMMA UnwindStep ==
  ASSUME UploadInv, NEW t \in Tasks, Owns(task[t]),
         UNCHANGED <<mode, journal, durable, draws, client, past, lapsed, stops>>, Running,
         files' = files \ {task[t].key},
         assembly' = IF assembly = t THEN Nil ELSE assembly,
         NEW r \in Task, task' = [task EXCEPT ![t] = r], ~Owns(r), r.pc # "claimed",
         TaskSound(t, r, assembly', files', draws', journal', durable', client')
  PROVE  UploadInv'
<1>1. \A v \in Uploads : \A s \in {journal[v], durable[v]} :
        ~Gone(s) => (Keys(s) \subseteq files => Keys(s) \subseteq files')
  BY OwnFile DEF KeysOf, Gone
<1>2. \A q \in Tasks : q # t /\ Written(task[q]) => (task[q].key \in files => task[q].key \in files')
  BY OwnFile
<1>3. \A q \in Tasks : q # t => Apart(r, task[q]) /\ Apart(task[q], r) BY DEF Apart
<1> QED BY <1>1, <1>2, <1>3, Typed, FilesStep

(* What an attempt to publish leaves, when it is asked whether it shows. *)
LEMMA PersistShows ==
  ASSUME NEW next, next # journal, NEW ok \in BOOLEAN, Persist(next, ok)
  PROVE  \/ /\ Visible /\ journal' = next /\ mode' \in {mode, "poisoned"}
            /\ durable' = next \/ (durable' = durable /\ ~ok)
         \/ ~Visible /\ ~ok /\ UNCHANGED <<mode, journal, durable>>
BY DEF Persist, Visible

(* A part is added to a session whose reservation is still the task's. *)
WithPart(s, p) == [Fence(s) EXCEPT !.parts = s.parts \cup {p}, !.offset = s.offset + p.bytes]

LEMMA PartRecorded ==
  ASSUME NEW s \in Session, s.state = "Active", s.object = Nil, Tiled(s),
         NEW p \in Part, p.at = s.offset,
         NEW q, q = WithPart(s, p)
  PROVE  /\ q \in Session /\ q # s
         /\ q.offset = s.offset + p.bytes /\ q.reservation = Nil /\ q.state = "Active"
         /\ Keys(q) = Keys(s) \cup {p.key}
         /\ Tiled(q) /\ q.object = Nil
<1>1. PICK f : f = Fence(s) OBVIOUS
<1>2. /\ f \in Session /\ f.reservation = Nil /\ f.state = "Active" /\ f.object = Nil
      /\ f.epoch # s.epoch
  BY <1>1, FenceQuiet, NextEpoch
<1>3. PICK P, n : P = s.parts \cup {p} /\ n = s.offset + p.bytes OBVIOUS
<1>4. P \in SUBSET Part /\ n \in Nat
  <2>1. s.parts \subseteq Part /\ s.offset \in Nat /\ p.bytes \in Nat BY SessionFields DEF Part
  <2> QED BY <1>3, <2>1
<1>5. q = [f EXCEPT !.parts = P, !.offset = n] BY <1>1, <1>3 DEF WithPart
<1>6. q \in Session BY <1>2, <1>4, <1>5 DEF Session
<1>7. /\ q.parts = P /\ q.offset = n /\ q.reservation = Nil /\ q.state = "Active" /\ q.object = Nil
      /\ q.epoch = f.epoch
  BY <1>2, <1>5 DEF Session
<1>8. Tiled(q) BY <1>3, <1>7, TiledExtends
<1>9. Keys(q) = Keys(s) \cup {p.key} BY <1>3, <1>7 DEF Keys
<1> QED BY <1>2, <1>3, <1>6, <1>7, <1>8, <1>9

LEMMA RecordPartInv ==
  ASSUME UploadInv, NEW t \in Tasks, RecordPart(t)
  PROVE  UploadInv'
<1>1. TaskSound(t, task[t], assembly, files, draws, journal, durable, client)
  BY DEF UploadInv, TasksSound
<1>2. PICK w : w = task[t] OBVIOUS
<1>3. PICK u : u = w.up OBVIOUS
<1>4. PICK s : s = journal[u] OBVIOUS
<1>5. PICK p : p = [key |-> w.key, at |-> w.res.at, bytes |-> w.bytes] OBVIOUS
<1>6. PICK failed : failed = [w EXCEPT !.pc = "failed", !.key = Nil] OBVIOUS
<1>7. w \in Task /\ w.pc = "renamed" /\ u \in Uploads /\ w.res \in Reservation /\ w.key = OwnKey(w)
  BY <1>1, <1>2, <1>3, Typed DEF RecordPart, TaskSound, Shaped
<1>8. Written(w) /\ Owns(w) BY <1>7 DEF Written, Owns
<1>9. w.key \in FileKey /\ w.key \in files /\ w.key.up = u
  BY <1>1, <1>2, <1>3, <1>7, <1>8 DEF TaskSound, OwnKey, FileKey, Reservation
<1>10. client \in [Uploads -> ClientRecord] /\ client[u].created
  BY <1>1, <1>2, <1>3, <1>7, NilDiffers DEF TaskSound, UploadInv
<1>11. failed \in Task /\ failed.pc = "failed" /\ failed.up = u /\ failed.res = w.res
  BY <1>3, <1>6, <1>7 DEF Task, TaskStates
<1>12. ~Owns(failed) /\ ~Holds(failed) /\ ~Written(failed) BY <1>11 DEF Owns, Holds, Written
<1>13. \A a, F, n, j, d : \A c : c[u].created => TaskSound(t, failed, a, F, n, j, d, c)
  BY <1>7, <1>11, <1>12 DEF TaskSound, Shaped
<1>14. /\ assembly' = IF assembly = t THEN Nil ELSE assembly
       /\ UNCHANGED <<past, lapsed, draws, stops>> /\ Running
  BY DEF RecordPart, Release
<1>15. CASE /\ ~CheckReservation(t)
            /\ files' = files \ {w.key} /\ Resumes(t, failed)
            /\ UNCHANGED <<mode, journal, durable, client>>
  <2>1. task' = [task EXCEPT ![t] = failed] BY <1>15 DEF Resumes
  <2>2. TaskSound(t, failed, assembly', files', draws', journal', durable', client')
    BY <1>10, <1>13, <1>15
  <2> QED BY <1>2, <1>8, <1>11, <1>12, <1>14, <1>15, <2>1, <2>2, UnwindStep
<1>16. CASE /\ CheckReservation(t)
            /\ \E ok \in BOOLEAN :
                 /\ Persist([journal EXCEPT ![u] = [Fence(s) EXCEPT
                               !.parts = @ \cup {p}, !.offset = @ + p.bytes]], ok)
                 /\ Resumes(t, IF ok THEN Idle ELSE failed)
                 /\ client' = IF ok THEN [client EXCEPT ![u].committed = s.offset + p.bytes]
                                    ELSE client
            /\ Unwind(t)
  <2>1. s # Nil /\ s \in Session /\ s.state = "Active" /\ s.reservation = w.res
    BY <1>2, <1>3, <1>4, <1>7, <1>16, Typed DEF CheckReservation
  <2>2. SessionSound(u, s, draws, client[u], files) BY <1>4, <1>7 DEF UploadInv, SessionsSound
  <2>3. s.object = Nil /\ Tiled(s) /\ w.res.at = s.offset
    BY <1>7, <2>1, <2>2, NilDiffers DEF SessionSound, Early
  <2>4. p \in Part /\ p.at = s.offset /\ p.key = w.key /\ p.bytes = w.bytes /\ p.bytes \in Nat
    BY <1>5, <1>7, <1>9, <2>3 DEF Part, Task, Reservation
  <2>5. PICK q : q = WithPart(s, p) OBVIOUS
  <2>6. /\ q \in Session /\ q # s /\ q.offset = s.offset + p.bytes /\ q.reservation = Nil
        /\ q.state = "Active" /\ Keys(q) = Keys(s) \cup {p.key} /\ Tiled(q) /\ q.object = Nil
    BY <2>1, <2>3, <2>4, <2>5, PartRecorded
  <2>7. PICK next : next = [journal EXCEPT ![u] = q] OBVIOUS
  <2>8. next # journal /\ next[u] = q BY <1>4, <1>7, <2>6, <2>7, Typed
  <2>9. [Fence(s) EXCEPT !.parts = @ \cup {p}, !.offset = @ + p.bytes] = q
    BY <2>1, <2>5, FenceQuiet DEF WithPart
  <2>10. PICK ok \in BOOLEAN :
           /\ Persist(next, ok)
           /\ Resumes(t, IF ok THEN Idle ELSE failed)
           /\ client' = IF ok THEN [client EXCEPT ![u].committed = s.offset + p.bytes] ELSE client
    BY <1>16, <2>7, <2>9
  <2>11. CASE ~Visible /\ ~ok /\ UNCHANGED <<mode, journal, durable>>
    <3>1. files' = files \ {w.key} BY <1>2, <1>16, <2>11 DEF Unwind
    <3>2. task' = [task EXCEPT ![t] = failed] /\ client' = client BY <2>10, <2>11 DEF Resumes
    <3>3. TaskSound(t, failed, assembly', files', draws', journal', durable', client')
      BY <1>10, <1>13, <3>2
    <3> QED BY <1>2, <1>8, <1>11, <1>12, <1>14, <2>11, <3>1, <3>2, <3>3, UnwindStep
  <2>12. CASE /\ Visible /\ journal' = next /\ mode' \in {mode, "poisoned"}
              /\ durable' = next \/ (durable' = durable /\ ~ok)
    <3>1. files' = files BY <1>16, <2>12 DEF Unwind
    <3>2. PICK told : told = s.offset + p.bytes OBVIOUS
    <3>3. s.offset \in Nat /\ client[u].committed \in Nat /\ s.offset >= client[u].committed
      BY <1>7, <1>10, <2>1, <2>2, SessionFields DEF SessionSound, ClientRecord
    <3>4. told \in Nat /\ told >= client[u].committed /\ told >= told BY <2>4, <3>2, <3>3
    <3>5. /\ client' \in {client, [client EXCEPT ![u].committed = told]}
          /\ client'[u].created /\ told >= client'[u].committed
      BY <1>7, <1>10, <2>10, <3>2, <3>4 DEF ClientRecord
    <3>6. \/ durable' = next
          \/ durable' = durable /\ client' = client
      BY <2>10, <2>12
    <3>7. w.key.draw <= draws BY <1>1, <1>2, <1>7, <1>8 DEF TaskSound
    <3>8. \A k \in Keys(q) : k.up = u /\ k.draw <= draws
      BY <1>9, <2>1, <2>2, <2>4, <2>6, <3>7 DEF SessionSound
    <3>9. Keys(q) \subseteq files BY <1>9, <2>1, <2>2, <2>4, <2>6 DEF SessionSound
    <3>10. SessionSound(u, q, draws, client'[u], files)
      BY <2>6, <3>2, <3>5, <3>8, <3>9 DEF SessionSound
    <3>11. client[u].promise = Nil
      BY <1>4, <1>7, <2>1, NilDiffers DEF UploadInv, ClientsSound, ClientSound
    <3>12. ~Beyond(s) BY <2>1 DEF Beyond
    <3>13. PICK r : r = IF ok THEN Rest("idle") ELSE failed OBVIOUS
    <3>14. task' = [task EXCEPT ![t] = r] BY <2>10, <3>13, IdleRest DEF Resumes
    <3>15. /\ r \in Task /\ ~Owns(r) /\ r.pc # "claimed"
           /\ TaskSound(t, r, assembly', files', draws', journal', durable', client')
      <4>1. CASE ok
        <5>1. Rest("idle").pc = "idle" BY DEF Rest, Idle
        <5> QED BY <3>13, <4>1, <5>1, RestSound DEF Owns
      <4>2. CASE ~ok BY <1>11, <1>12, <1>13, <3>5, <3>13, <4>2
      <4> QED BY <4>1, <4>2
    <3>16. Keys(q) = Keys(journal[u]) \cup {task[t].key} /\ Written(task[t]) /\ u = task[t].up
      BY <1>2, <1>3, <1>4, <1>8, <2>4, <2>6
    <3>17. UNCHANGED <<files, draws, stops>> /\ past' \subseteq Uploads /\ lapsed' \subseteq Uploads
      BY <1>14, <3>1, Typed
    <3> QED BY <1>4, <1>7, <1>14, <2>1, <2>6, <2>7, <2>12, <3>4, <3>5, <3>6, <3>10, <3>11, <3>12,
               <3>14, <3>15, <3>16, <3>17, RecordStep
  <2> QED BY <2>8, <2>10, <2>11, <2>12, PersistShows
<1> QED BY <1>2, <1>3, <1>4, <1>5, <1>6, <1>15, <1>16 DEF RecordPart

(* The object of a claimed session is added. *)
WithObject(s, k, n) ==
  [s EXCEPT !.object = k, !.objectBytes = n, !.decoded = 0, !.epoch = s.epoch + 1,
            !.state = IF s.upstream THEN "Ready" ELSE "Complete"]

LEMMA ObjectRecorded ==
  ASSUME NEW s \in Session, s.object = Nil, NEW k \in FileKey, NEW n \in Nat,
         NEW q, q = WithObject(s, k, n)
  PROVE  /\ q \in Session /\ q # s
         /\ q.offset = s.offset /\ q.parts = s.parts /\ q.reservation = s.reservation
         /\ q.state \in {"Ready", "Complete"}
         /\ Keys(q) = Keys(s) \cup {k}
         /\ Tiled(q) <=> Tiled(s)
<1>1. PICK st, e : st = (IF s.upstream THEN "Ready" ELSE "Complete") /\ e = s.epoch + 1 OBVIOUS
<1>2. st \in {"Ready", "Complete"} /\ e \in Nat /\ e # s.epoch BY <1>1, NextEpoch
<1>3. q = [s EXCEPT !.object = k, !.objectBytes = n, !.decoded = 0, !.epoch = e, !.state = st]
  BY <1>1 DEF WithObject
<1>4. st \in UploadStates BY <1>2 DEF UploadStates
<1>5. q \in Session
  <2>1. PICK o, b, z : o \in FileKey \cup {Nil} /\ b \in Nat /\ z \in Nat /\ o = k /\ b = n /\ z = 0
    OBVIOUS
  <2>2. [s EXCEPT !.object = o, !.objectBytes = b, !.decoded = z, !.epoch = e, !.state = st] \in Session
    BY <1>2, <1>4, <2>1 DEF Session
  <2> QED BY <1>3, <2>1, <2>2
<1>6. /\ q.offset = s.offset /\ q.parts = s.parts /\ q.reservation = s.reservation
      /\ q.state = st /\ q.object = k /\ q.epoch = e
  BY <1>3 DEF Session
<1>7. Keys(q) = Keys(s) \cup {k} BY <1>6, NilDiffers DEF Keys
<1>8. Tiled(q) <=> Tiled(s) BY <1>6 DEF Tiled, Contiguous
<1> QED BY <1>2, <1>5, <1>6, <1>7, <1>8

LEMMA RecordObjectInv ==
  ASSUME UploadInv, NEW t \in Tasks, RecordObject(t)
  PROVE  UploadInv'
<1>1. TaskSound(t, task[t], assembly, files, draws, journal, durable, client)
  BY DEF UploadInv, TasksSound
<1>2. PICK w : w = task[t] OBVIOUS
<1>3. PICK u : u = w.up OBVIOUS
<1>4. PICK s : s = journal[u] OBVIOUS
<1>5. w \in Task /\ w.pc = "built" /\ u \in Uploads /\ w.key \in FileKey /\ w.key.up = u
  BY <1>1, <1>2, <1>3, Typed DEF RecordObject, TaskSound, Shaped
<1>6. Written(w) /\ Owns(w) /\ OwnKey(w) = w.key BY <1>5 DEF Written, Owns, OwnKey
<1>7. w.key \in files /\ w.key.draw <= draws BY <1>1, <1>2, <1>6 DEF TaskSound
<1>8. client \in [Uploads -> ClientRecord] BY DEF UploadInv
<1>9. PICK r : r = Rest("idle") OBVIOUS
<1>10. /\ r \in Task /\ ~Owns(r) /\ r.pc # "claimed"
       /\ TaskSound(t, r, assembly', files', draws', journal', durable', client')
  <2>1. Rest("idle").pc = "idle" BY DEF Rest, Idle
  <2> QED BY <1>9, <2>1, RestSound DEF Owns
<1>11. /\ assembly' = IF assembly = t THEN Nil ELSE assembly
       /\ UNCHANGED <<lapsed, draws, stops, client>> /\ Running
       /\ task' = [task EXCEPT ![t] = r]
  BY <1>9, IdleRest DEF RecordObject, Release, Resumes
<1>12. CASE files' = files \ {w.key} /\ UNCHANGED <<mode, journal, durable, past>>
  BY <1>2, <1>6, <1>10, <1>11, <1>12, UnwindStep
<1>13. CASE /\ Checked(journal, u) /\ s.state = ClaimState(s)
            /\ \E ok \in BOOLEAN :
                 Persist([journal EXCEPT ![u] = [s EXCEPT
                            !.object = w.key, !.objectBytes = w.bytes,
                            !.decoded = 0, !.epoch = @ + 1,
                            !.state = IF s.upstream THEN "Ready" ELSE "Complete"]], ok)
            /\ Unwind(t)
            /\ past' = IF Visible THEN past \ {u} ELSE past
  <2>1. s # Nil /\ s \in Session BY <1>4, <1>5, <1>13, Typed DEF Checked
  <2>2. s.state \in {"Completing", "Validating"} BY <1>13 DEF ClaimState
  <2>3. SessionSound(u, s, draws, client[u], files) BY <1>4, <1>5 DEF UploadInv, SessionsSound
  <2>4. s.object = Nil BY <2>1, <2>2, <2>3 DEF SessionSound, Early
  <2>5. w.bytes \in Nat BY <1>5 DEF Task
  <2>6. PICK q : q = WithObject(s, w.key, w.bytes) OBVIOUS
  <2>7. /\ q \in Session /\ q # s
        /\ q.offset = s.offset /\ q.parts = s.parts /\ q.reservation = s.reservation
        /\ q.state \in {"Ready", "Complete"}
        /\ Keys(q) = Keys(s) \cup {w.key}
        /\ Tiled(q) <=> Tiled(s)
    BY <1>5, <2>1, <2>4, <2>5, <2>6, ObjectRecorded
  <2>8. PICK next : next = [journal EXCEPT ![u] = q] OBVIOUS
  <2>9. next # journal BY <1>4, <1>5, <2>7, <2>8, Typed
  <2>10. PICK ok \in BOOLEAN : Persist(next, ok) BY <1>13, <2>6, <2>8 DEF WithObject
  <2>11. CASE ~Visible /\ ~ok /\ UNCHANGED <<mode, journal, durable>>
    <3>1. files' = files \ {w.key} /\ past' = past BY <1>2, <1>13, <2>11 DEF Unwind
    <3> QED BY <1>2, <1>6, <1>10, <1>11, <2>11, <3>1, UnwindStep
  <2>12. CASE /\ Visible /\ journal' = next /\ mode' \in {mode, "poisoned"}
              /\ durable' = next \/ (durable' = durable /\ ~ok)
    <3>1. files' = files /\ past' \subseteq Uploads BY <1>13, <2>12, Typed DEF Unwind
    <3>2. \A k \in Keys(q) : k.up = u /\ k.draw <= draws
      BY <1>5, <1>7, <2>1, <2>3, <2>7 DEF SessionSound
    <3>3. Keys(q) \subseteq files BY <1>7, <2>1, <2>2, <2>3, <2>7 DEF SessionSound
    <3>4. ~Early(q) BY <2>7 DEF Early
    <3>5. SessionSound(u, q, draws, client[u], files)
      BY <2>1, <2>3, <2>7, <3>2, <3>3, <3>4 DEF SessionSound
    <3>6. client[u].promise # Nil => q.reservation = Nil /\ q.offset = client[u].promise
      BY <1>4, <1>5, <2>1, <2>7 DEF UploadInv, ClientsSound, ClientSound
    <3>7. ~Beyond(s) BY <2>1, <2>2 DEF Beyond
    <3>8. Keys(q) = Keys(journal[u]) \cup {task[t].key} /\ Written(task[t]) /\ u = task[t].up
      BY <1>2, <1>3, <1>4, <1>6, <2>7
    <3>9. /\ UNCHANGED <<files, draws, stops>> /\ lapsed' \subseteq Uploads
          /\ client' \in {client, [client EXCEPT ![u].committed = 0]} /\ client'[u] = client[u]
          /\ \/ durable' = next
             \/ durable' = durable /\ client' = client
      BY <1>11, <2>12, <3>1, Typed
    <3>10. 0 \in Nat OBVIOUS
    <3> QED BY <1>4, <1>5, <1>10, <1>11, <2>1, <2>7, <2>8, <2>12, <3>1, <3>5, <3>6, <3>7, <3>8, <3>9,
               <3>10, RecordStep
  <2> QED BY <2>9, <2>10, <2>11, <2>12, PersistShows
<1> QED BY <1>2, <1>3, <1>4, <1>12, <1>13 DEF RecordObject

LEMMA RemoveTombstoneInv ==
  ASSUME UploadInv, NEW t \in Tasks, RemoveTombstone(t)
  PROVE  UploadInv'
<1>1. TaskSound(t, task[t], assembly, files, draws, journal, durable, client)
  BY DEF UploadInv, TasksSound
<1>2. PICK w : w = task[t] OBVIOUS
<1>3. PICK u : u = w.up OBVIOUS
<1>4. w \in Task /\ w.pc = "cleared" /\ u \in Uploads /\ Gone(journal[u]) /\ Gone(durable[u])
  BY <1>1, <1>2, <1>3, Typed DEF RemoveTombstone, TaskSound, Shaped
<1>5. PICK ok \in BOOLEAN :
        /\ IF /\ journal[u] # Nil /\ journal[u].state = "Deleted" /\ journal[u].epoch = w.epoch
           THEN Persist([journal EXCEPT ![u] = Nil], ok)
           ELSE ok /\ UNCHANGED <<mode, journal, durable>>
        /\ Resumes(t, IF ok THEN [Idle EXCEPT !.pc = w.then] ELSE Idle)
  BY <1>2, <1>3 DEF RemoveTombstone
<1>6. w.then \in {"idle", "sweeping"} BY <1>4 DEF Task
<1>7. PICK p \in {"idle", "entered", "sweeping"} : task' = [task EXCEPT ![t] = Rest(p)]
  BY <1>5, <1>6, IdleRest DEF Resumes, Rest
<1>8. /\ assembly' = IF assembly = t THEN Nil ELSE assembly
      /\ UNCHANGED <<files, past, lapsed, draws, stops, client>> /\ Running
  BY DEF RemoveTombstone, Release
<1>9. CASE UNCHANGED <<mode, journal, durable>>
  <2>1. Stored(journal) BY <1>9 DEF Stored
  <2> QED BY <1>7, <1>8, <1>9, <2>1, Typed, SameMap, SameReserves, QuietRest DEF Reserves
<1>10. CASE journal[u] # Nil /\ Persist([journal EXCEPT ![u] = Nil], ok)
  <2>1. PICK next : next = [journal EXCEPT ![u] = Nil] OBVIOUS
  <2>2. Stored(next) /\ mode' \in {mode, "poisoned"} BY <1>10, <2>1, PersistStores
  <2>3. next[u] = Nil BY <1>4, <2>1, Typed
  <2>4. journal'[u] \in {Nil, journal[u]} /\ durable'[u] \in {Nil, durable[u]}
    BY <2>2, <2>3 DEF Stored
  <2>5. SessionSound(u, journal'[u], draws, client[u], files) /\ SessionSound(u, durable'[u], draws, client[u], files)
    BY <1>4, <2>4 DEF UploadInv, SessionsSound, SessionSound
  <2>6. Gone(journal'[u]) /\ Gone(durable'[u]) BY <1>4, <2>4 DEF Gone
  <2>7. Carried(durable'[u], journal'[u]) BY <2>6 DEF Carried
  <2>8. Beyond(journal'[u]) /\ Beyond(durable'[u]) BY <2>6 DEF Beyond, Gone
  <2>9. KeysOf(journal'[u]) \subseteq KeysOf(journal[u]) /\ KeysOf(durable'[u]) \subseteq KeysOf(durable[u])
    BY <2>4 DEF KeysOf
  <2>10. Moved(journal[u], durable[u], journal'[u], durable'[u], client[u], {})
    BY <2>6, <2>8, <2>9 DEF Moved
  <2>11. /\ draws' = draws /\ files' = files /\ QuietMap(journal, journal) /\ Nil \in Session \cup {Nil}
         /\ client' = client
    BY <1>8, SameMap
  <2>12. /\ journal' \in [Uploads -> Session \cup {Nil}]
         /\ durable' \in [Uploads -> Session \cup {Nil}]
         /\ SessionsSound' /\ AllMoved({})
    BY <1>4, <2>1, <2>2, <2>5, <2>7, <2>10, <2>11, PointSessions
  <2>13. ASSUME NEW v \in Uploads, client'[v].promise # Nil
         PROVE  /\ client[v].created
                /\ journal'[v] # Nil => /\ journal'[v].reservation = Nil
                                        /\ journal'[v].offset = client'[v].promise
    <3>1. journal'[v] \in {Nil, journal[v]} BY <1>4, <2>1, <2>2, Typed DEF Stored
    <3>2. ClientSound(journal[v], durable[v], client[v]) /\ client[v] \in ClientRecord
      BY DEF UploadInv, ClientsSound
    <3> QED BY <2>11, <2>13, <3>1, <3>2 DEF ClientSound
  <2>14. ClientsSound' BY <2>11, <2>12, <2>13, ClientsLater
  <2>15. /\ Rest(p) \in Task
         /\ TaskSound(t, Rest(p), assembly', files', draws', journal', durable', client')
         /\ \A z : Apart(Rest(p), z) /\ Apart(z, Rest(p))
    BY RestSound
  <2>16. client \in [Uploads -> ClientRecord] BY DEF UploadInv
  <2>17. \A v \in Uploads : client[v].sent <= client[v].sent BY <2>16 DEF ClientRecord
  <2>18. TasksSound' BY <1>7, <1>8, <2>11, <2>12, <2>15, <2>16, <2>17, Typed, TasksLater
  <2>19. task' \in [Tasks -> Task] /\ assembly' \in Tasks \cup {Nil} BY <1>7, <1>8, <2>15, Typed
  <2>20. UploadTypeOK' BY <1>8, <2>2, <2>12, <2>19 DEF UploadInv, UploadTypeOK
  <2>21. Quiescent' BY <1>8, <2>2 DEF Quiescent, Running
  <2> QED BY <2>11, <2>12, <2>14, <2>16, <2>18, <2>20, <2>21 DEF UploadInv
<1> QED BY <1>5, <1>9, <1>10

-------------------------------------------------------------------------------
(* The process stops and reopens. *)

LEMMA RestingTasks ==
  ASSUME \A t \in Tasks : task'[t] = Idle
  PROVE  TasksSound'
<1>1. \A t \in Tasks : TaskSound(t, Rest("idle"), assembly', files', draws', journal', durable', client')
  BY RestSound
<1>2. \A q : Apart(Rest("idle"), q) BY RestSound
<1> QED BY <1>1, <1>2, IdleRest DEF TasksSound

LEMMA StopInv == ASSUME UploadInv, Stop PROVE UploadInv'
<1>1. /\ mode' = "closed" /\ stops' = stops + 1 /\ journal' = durable /\ durable' = durable
      /\ assembly' = Nil /\ task' = [t \in Tasks |-> Idle]
      /\ client' = [u \in Uploads |-> [client[u] EXCEPT !.promise = Nil]]
      /\ UNCHANGED <<files, past, lapsed, draws>>
  BY DEF Stop
<1>2. client \in [Uploads -> ClientRecord] BY DEF UploadInv
<1>3. client' \in [Uploads -> ClientRecord] BY <1>1, <1>2 DEF ClientRecord
<1>4. \A v \in Uploads : /\ client'[v].created = client[v].created
                         /\ client'[v].committed = client[v].committed
                         /\ client'[v].sent = client[v].sent
                         /\ client'[v].promise = Nil
  BY <1>1, <1>2 DEF ClientRecord
<1>5. SessionsSound'
  <2>1. ASSUME NEW v \in Uploads PROVE SessionSound(v, durable[v], draws, client'[v], files)
    <3>1. SessionSound(v, durable[v], draws, client[v], files) BY DEF UploadInv, SessionsSound
    <3> QED BY <1>4, <3>1, Typed, SoundLater
  <2>2. \A v \in Uploads : Carried(durable[v], durable[v]) BY DEF Carried, Gone
  <2> QED BY <1>1, <2>1, <2>2 DEF SessionsSound
<1>6. ClientsSound'
  <2>1. ASSUME NEW v \in Uploads PROVE ClientSound(durable[v], durable[v], client'[v])
    <3>1. ClientSound(journal[v], durable[v], client[v]) BY DEF UploadInv, ClientsSound
    <3> QED BY <1>4, <3>1 DEF ClientSound
  <2> QED BY <1>1, <2>1 DEF ClientsSound
<1>7. TasksSound' BY <1>1, RestingTasks
<1>8. Quiescent' BY <1>1 DEF Quiescent
<1>9. Idle \in Task BY DEF Idle, Task, TaskStates
<1>10. stops' \in 0..MaxStops BY <1>1, UploadAssumption DEF UploadInv, UploadTypeOK, Stop
<1>11. UploadTypeOK' BY <1>1, <1>9, <1>10 DEF UploadInv, UploadTypeOK
<1> QED BY <1>3, <1>5, <1>6, <1>7, <1>8, <1>11 DEF UploadInv

LEMMA RecoveredQuiet ==
  ASSUME NEW s \in Session
  PROVE  Quiet(s, Recovered(s)) /\ Recovered(s).reservation = Nil
<1>1. PICK st : st = CASE s.state = "Validating" -> "ValidationFailed"
                       [] s.state = "Dispatching" -> "Indeterminate"
                       [] OTHER -> s.state
  OBVIOUS
<1>2. PICK n : n = s.epoch + ((IF st = s.state THEN 0 ELSE 1)
                     + (IF s.reservation = Nil \/ s.state = "Validating" THEN 0 ELSE 1))
  OBVIOUS
<1>3. s.state \in UploadStates /\ s.epoch \in Nat BY SessionFields
<1>4. n \in Nat BY <1>2, <1>3
<1>5. \/ s.state = "Validating" /\ st = "ValidationFailed"
      \/ s.state = "Dispatching" /\ st = "Indeterminate"
      \/ st = s.state
  BY <1>1
<1>6. st \in UploadStates BY <1>3, <1>5 DEF UploadStates
<1>7. PICK q : q = [s EXCEPT !.state = st, !.reservation = Nil, !.epoch = n] OBVIOUS
<1>8. q \in Session
  <2>1. Nil \in Reservation \cup {Nil} OBVIOUS
  <2> QED BY <1>4, <1>6, <1>7, <2>1 DEF Session
<1>9. /\ q.parts = s.parts /\ q.object = s.object /\ q.offset = s.offset
      /\ q.reservation = Nil /\ q.state = st
  BY <1>7 DEF Session
<1>10. Recovered(s) = q BY <1>1, <1>2, <1>7 DEF Recovered
<1>11. Quiet(s, q) BY <1>5, <1>8, <1>9, StateQuiet
<1> QED BY <1>9, <1>10, <1>11

LEMMA ReopenFenceInv == ASSUME UploadInv, ReopenFence PROVE UploadInv'
<1>1. journal = durable /\ assembly = Nil /\ \A t \in Tasks : task[t] = Idle
  BY DEF UploadInv, Quiescent, Running, ReopenFence
<1>2. PICK next : next = [u \in Uploads |-> IF journal[u] = Nil THEN Nil ELSE Recovered(journal[u])]
  OBVIOUS
<1>3. /\ mode' = "fenced" /\ durable' = next /\ journal' = next /\ past' \subseteq past
      /\ UNCHANGED <<files, assembly, task, lapsed, draws, stops, client>>
  BY <1>1, <1>2 DEF ReopenFence
<1>4. QuietMap(journal, next) /\ Reserves(next)
  <2>1. ASSUME NEW v \in Uploads, journal[v] # Nil
        PROVE  Quiet(journal[v], next[v]) /\ next[v].reservation = Nil /\ next[v] \in Session /\ next[v] # Nil
    <3>1. journal[v] \in Session /\ next[v] = Recovered(journal[v]) BY <1>2, <2>1, Typed
    <3> QED BY <3>1, RecoveredQuiet, NilDiffers DEF Quiet
  <2>2. \A v \in Uploads : journal[v] = Nil => next[v] = Nil BY <1>2
  <2>3. next = [v \in Uploads |-> next[v]] BY <1>2
  <2>4. \A v \in Uploads : next[v] \in Session \cup {Nil} BY <2>1, <2>2
  <2>5. next \in [Uploads -> Session \cup {Nil}] BY <2>3, <2>4
  <2> QED BY <2>1, <2>2, <2>5 DEF QuietMap, Reserves
<1>5. Stored(next) BY <1>3 DEF Stored
<1>6. /\ journal' \in [Uploads -> Session \cup {Nil}]
      /\ durable' \in [Uploads -> Session \cup {Nil}]
      /\ SessionsSound' /\ ClientsSound'
  BY <1>3, <1>4, <1>5, Typed, QuietStep DEF Reserves
<1>7. TasksSound' BY <1>1, <1>3, RestingTasks
<1>8. Quiescent' BY <1>1, <1>3 DEF Quiescent
<1>9. UploadTypeOK' BY <1>3, <1>6 DEF UploadInv, UploadTypeOK
<1> QED BY <1>3, <1>6, <1>7, <1>8, <1>9 DEF UploadInv

LEMMA ReopenClearInv == ASSUME UploadInv, ReopenClear PROVE UploadInv'
<1>1. journal = durable /\ assembly = Nil /\ \A t \in Tasks : task[t] = Idle
  BY DEF UploadInv, Quiescent, Running, ReopenClear
<1>2. /\ mode' = "cleared"
      /\ files' = {k \in files : ~(durable[k.up] # Nil /\ durable[k.up].state = "Deleted")}
      /\ UNCHANGED <<journal, durable, assembly, task, past, lapsed, draws, stops, client>>
  BY DEF ReopenClear
<1>3. ASSUME NEW v \in Uploads PROVE SessionSound(v, durable[v], draws, client[v], files')
  <2>1. SessionSound(v, durable[v], draws, client[v], files) BY DEF UploadInv, SessionsSound
  <2>2. ASSUME durable[v] # Nil, durable[v].state # "Deleted", Keys(durable[v]) \subseteq files
        PROVE  Keys(durable[v]) \subseteq files'
    <3>1. \A k \in Keys(durable[v]) : k.up = v BY <2>1, <2>2 DEF SessionSound
    <3> QED BY <1>2, <2>2, <3>1
  <2> QED BY <2>1, <2>2, Typed, SoundLater
<1>4. SessionsSound' BY <1>1, <1>2, <1>3 DEF UploadInv, SessionsSound
<1>5. ClientsSound' BY <1>2 DEF UploadInv, ClientsSound
<1>6. TasksSound' BY <1>1, <1>2, RestingTasks
<1>7. Quiescent' BY <1>1, <1>2 DEF Quiescent
<1>8. UploadTypeOK' BY <1>2 DEF UploadInv, UploadTypeOK
<1> QED BY <1>2, <1>4, <1>5, <1>6, <1>7, <1>8 DEF UploadInv

LEMMA ReopenValidateInv == ASSUME UploadInv, ReopenValidate PROVE UploadInv'
<1>1. journal = durable /\ assembly = Nil /\ \A t \in Tasks : task[t] = Idle
  BY DEF UploadInv, Quiescent, Running, ReopenValidate
<1>2. PICK next : next = Undeleted(durable) OBVIOUS
<1>3. /\ mode' = "open" /\ durable' = next /\ journal' = next
      /\ files' = files \cap Referenced(next)
      /\ UNCHANGED <<assembly, task, past, lapsed, draws, stops, client>>
  BY <1>2 DEF ReopenValidate
<1>4. \A v \in Uploads : /\ next[v] \in {Nil, durable[v]}
                         /\ next[v] = Nil \/ ~Gone(next[v])
                         /\ durable[v] = Nil => next[v] = Nil
  BY <1>2 DEF Undeleted, Gone
<1>5. next \in [Uploads -> Session \cup {Nil}]
  <2>1. next = [v \in Uploads |-> next[v]] BY <1>2 DEF Undeleted
  <2> QED BY <1>4, <2>1, Typed
<1>6. ASSUME NEW v \in Uploads PROVE SessionSound(v, next[v], draws, client[v], files')
  <2>1. SessionSound(v, next[v], draws, client[v], files)
    BY <1>4 DEF UploadInv, SessionsSound, SessionSound
  <2>2. next[v] # Nil => Keys(next[v]) \subseteq Referenced(next) BY DEF Referenced
  <2> QED BY <1>3, <2>1, <2>2, Typed, SoundLater
<1>7. \A v \in Uploads : Carried(next[v], next[v]) BY DEF Carried, Gone
<1>8. SessionsSound' BY <1>3, <1>6, <1>7 DEF SessionsSound
<1>9. ClientsSound'
  <2>1. ASSUME NEW v \in Uploads PROVE ClientSound(next[v], next[v], client[v])
    <3>1. ClientSound(journal[v], durable[v], client[v]) BY DEF UploadInv, ClientsSound
    <3>2. next[v] \in {Nil, durable[v]} BY <1>4
    <3>3. Beyond(durable[v]) => Beyond(next[v]) BY <3>2 DEF Beyond
    <3> QED BY <1>1, <3>1, <3>2, <3>3 DEF ClientSound
  <2> QED BY <1>3, <2>1 DEF ClientsSound
<1>10. TasksSound' BY <1>1, <1>3, RestingTasks
<1>11. Quiescent' BY <1>3 DEF Quiescent, Running
<1>12. UploadTypeOK' BY <1>3, <1>5 DEF UploadInv, UploadTypeOK
<1> QED BY <1>3, <1>8, <1>9, <1>10, <1>11, <1>12 DEF UploadInv

-------------------------------------------------------------------------------
(* The invariant, and what follows from it. *)

LEMMA UploadInitially == UploadInit => UploadInv
<1> SUFFICES ASSUME UploadInit PROVE UploadInv OBVIOUS
<1>1. /\ mode = "open" /\ journal = [u \in Uploads |-> Nil] /\ durable = journal
      /\ files = {} /\ assembly = Nil /\ task = [t \in Tasks |-> Idle]
      /\ past = {} /\ lapsed = {} /\ draws = 0 /\ stops = 0
      /\ client = [u \in Uploads |-> [created |-> FALSE, committed |-> 0, promise |-> Nil, sent |-> 0]]
  BY DEF UploadInit
<1>2. Idle \in Task BY DEF Idle, Task, TaskStates
<1>3. UploadTypeOK BY <1>1, <1>2, UploadAssumption DEF UploadTypeOK
<1>4. client \in [Uploads -> ClientRecord] BY <1>1 DEF ClientRecord
<1>5. SessionsSound BY <1>1 DEF SessionsSound, SessionSound, Carried, Gone
<1>6. ClientsSound BY <1>1 DEF ClientsSound, ClientSound
<1>7. TasksSound
  <2>1. \A t \in Tasks : TaskSound(t, Rest("idle"), assembly, files, draws, journal, durable, client)
    BY RestSound
  <2>2. \A q : Apart(Rest("idle"), q) BY RestSound
  <2> QED BY <1>1, <2>1, <2>2, IdleRest DEF TasksSound
<1>8. Quiescent BY <1>1 DEF Quiescent, Running
<1> QED BY <1>3, <1>4, <1>5, <1>6, <1>7, <1>8 DEF UploadInv

LEMMA UploadStep == UploadInv /\ [UploadNext]_uploadVars => UploadInv'
<1> SUFFICES ASSUME UploadInv, [UploadNext]_uploadVars PROVE UploadInv' OBVIOUS
<1>1. CASE UNCHANGED uploadVars
  <2>1. past' \subseteq Uploads /\ lapsed' \subseteq Uploads BY <1>1, Typed DEF uploadVars
  <2> QED BY <1>1, <2>1, TimeInv DEF uploadVars
<1>2. ASSUME NEW t \in Tasks, TaskStep(t) PROVE UploadInv'
  <2>1. CASE \/ Enter(t) \/ CollectScan(t) \/ CleanupOrphanData(t)
             \/ RenamePart(t) \/ RecordPart(t) \/ AbortAppend(t)
             \/ BuildObject(t) \/ RecordObject(t)
             \/ Send(t) \/ RemoveUploadFiles(t) \/ RemoveTombstone(t) \/ Cancel(t)
    BY <2>1, EnterInv, CollectScanInv, CleanupOrphanDataInv, RenamePartInv, RecordPartInv,
       AbortAppendInv, BuildObjectInv, RecordObjectInv, SendInv, RemoveUploadFilesInv,
       RemoveTombstoneInv, CancelInv
  <2>2. CASE \E n \in 1..MaxUploadBytes : StagePart(t, n) BY <2>2, StagePartInv
  <2>3. CASE \E terminal \in {"Complete", "Indeterminate"} : FinishDispatch(t, terminal)
    BY <2>3, FinishDispatchInv
  <2>4. ASSUME NEW u \in Uploads,
               \/ Create(t, u) \/ Lookup(t, u) \/ ClaimComplete(t, u) \/ FailValidation(t, u)
               \/ BeginDispatch(t, u) \/ Delete(t, u) \/ Collect(t, u)
        PROVE  UploadInv'
    BY <2>4, CreateInv, LookupInv, ClaimCompleteInv, FailValidationInv, BeginDispatchInv,
       DeleteInv, CollectInv
  <2>5. ASSUME NEW u \in Uploads, NEW n \in 0..MaxUploadBytes,
               DeclareLength(t, u, n) \/ BeginPublish(t, u, n)
        PROVE  UploadInv'
    BY <2>5, DeclareLengthInv, BeginPublishInv
  <2>6. ASSUME NEW u \in Uploads, NEW n \in 1..MaxUploadBytes, BeginAppend(t, u, n)
        PROVE  UploadInv'
    BY <2>6, BeginAppendInv
  <2> QED BY <1>2, <2>1, <2>2, <2>3, <2>4, <2>5, <2>6 DEF TaskStep
<1>3. ASSUME NEW u \in Uploads, LeaseLapses(u) \/ SessionExpires(u) PROVE UploadInv'
  BY <1>3, LeaseLapsesInv, SessionExpiresInv
<1>4. CASE Stop \/ ReopenFence \/ ReopenClear \/ ReopenValidate
  BY <1>4, StopInv, ReopenFenceInv, ReopenClearInv, ReopenValidateInv
<1> QED BY <1>1, <1>2, <1>3, <1>4 DEF UploadNext

LEMMA UploadInvariant == UploadSpec => []UploadInv
BY UploadInitially, UploadStep, PTL DEF UploadSpec

(* Every session, file, task and clock of the store keeps its shape through every
   interleaving, crash and failed publication.                                *)
THEOREM UploadsTyped == UploadSpec => []UploadTypeOK
<1>1. UploadInv => UploadTypeOK BY DEF UploadInv
<1> QED BY <1>1, UploadInvariant, PTL

(* Whenever a crash comes, every file that a session on disk names exists, unless
   that session is deleted: reopening never finds a referenced file missing.  *)
THEOREM ReferencesAreKept == UploadSpec => []ReferencesExist
<1>1. UploadInv => ReferencesExist
  BY DEF UploadInv, SessionsSound, SessionSound, ReferencesExist
<1> QED BY <1>1, UploadInvariant, PTL

(* The parts of a session tile its bytes, whatever was fenced, retried or
   recorded late.                                                             *)
THEOREM PartsAreTiled == UploadSpec => []PartsTile
<1>1. UploadInv => PartsTile
  BY DEF UploadInv, SessionsSound, SessionSound, Tiled, PartsTile
<1> QED BY <1>1, UploadInvariant, PTL

(* An offset that a client was given for its append survives every crash. *)
THEOREM CommitsAreKept == UploadSpec => []CommittedKept
<1>1. UploadInv => CommittedKept
  BY DEF UploadInv, SessionsSound, SessionSound, CommittedKept
<1> QED BY <1>1, UploadInvariant, PTL

(* The offset that a lookup returned stays right until an append begins. *)
THEOREM LookupsFence == UploadSpec => []LookupFences
<1>1. UploadInv => LookupFences
  BY DEF UploadInv, ClientsSound, ClientSound, LookupFences
<1> QED BY <1>1, UploadInvariant, PTL

(* No upload is sent upstream twice. *)
THEOREM DispatchedOnce == UploadSpec => []SentOnce
<1>1. UploadInv => SentOnce
  BY DEF UploadInv, ClientsSound, ClientSound, SentOnce
<1> QED BY <1>1, UploadInvariant, PTL

-------------------------------------------------------------------------------
(* The bytes that a journal accounts for. *)

Load(s) == IF s = Nil THEN 0 ELSE Bytes(s)

Journals == [Uploads -> Session \cup {Nil}]

LEMMA LoadIsNat == ASSUME NEW s \in Session \cup {Nil} PROVE Load(s) \in Nat
<1>1. CASE s = Nil BY <1>1 DEF Load
<1>2. CASE s \in Session
  <2>1. s.offset \in Nat /\ s.objectBytes \in Nat /\ s.decoded \in Nat
        /\ s.reservation \in Reservation \cup {Nil}
    BY <1>2, SessionFields
  <2>2. s.reservation # Nil => s.reservation.bytes \in Nat BY <2>1 DEF Reservation
  <2>3. s # Nil BY <1>2, NilDiffers
  <2> QED BY <2>1, <2>2, <2>3 DEF Load, Bytes
<1> QED BY <1>1, <1>2

(* A byte of a journal is a session and an index below what the session accounts
   for.                                                                       *)
LEMMA AccountedByte ==
  ASSUME NEW j \in Journals
  PROVE  \A b : b \in AccountedBytes(j) <=>
                  \E u \in Uploads : \E i \in 1..Load(j[u]) : b = <<u, i>>
<1>1. \A u \in Uploads : Load(j[u]) \in Nat BY LoadIsNat DEF Journals
<1>2. \A u \in Uploads : j[u] = Nil => 1..Load(j[u]) = {} BY <1>1 DEF Load
<1>3. \A u \in Uploads : j[u] # Nil => Load(j[u]) = Bytes(j[u]) BY DEF Load
<1> QED BY <1>2, <1>3 DEF AccountedBytes

LEMMA AccountedFinite ==
  ASSUME NEW j \in Journals
  PROVE  IsFiniteSet(AccountedBytes(j)) /\ ProfileUsage(j) \in Nat
<1>1. PICK f : f = [u \in Uploads |-> {u} \X (1..Load(j[u]))] OBVIOUS
<1>2. PICK R : R = {f[u] : u \in Uploads} OBVIOUS
<1>3. f \in Surjection(Uploads, R) BY <1>1, <1>2 DEF Surjection
<1>4. IsFiniteSet(R) BY <1>3, UploadAssumption, FS_Surjection
<1>5. \A S \in R : IsFiniteSet(S)
  <2>1. ASSUME NEW u \in Uploads PROVE IsFiniteSet(f[u])
    <3>1. PICK n \in Nat : n = Load(j[u]) BY LoadIsNat DEF Journals
    <3>2. IsFiniteSet(1..n) BY FS_Interval
    <3>3. IsFiniteSet({u}) BY FS_Singleton
    <3>4. IsFiniteSet({u} \X (1..n)) BY <3>2, <3>3, FS_Product
    <3> QED BY <1>1, <3>1, <3>4
  <2> QED BY <1>2, <2>1
<1>6. IsFiniteSet(UNION R) BY <1>4, <1>5, FS_UNION
<1>7. AccountedBytes(j) \subseteq UNION R
  <2>1. ASSUME NEW b \in AccountedBytes(j) PROVE b \in UNION R
    <3>1. PICK u \in Uploads : \E i \in 1..Load(j[u]) : b = <<u, i>> BY AccountedByte
    <3>2. b \in f[u] BY <1>1, <3>1
    <3> QED BY <1>2, <3>2
  <2> QED BY <2>1
<1>8. IsFiniteSet(AccountedBytes(j)) BY <1>6, <1>7, FS_Subset
<1> QED BY <1>8, FS_CardinalityType DEF ProfileUsage

(* No session accounts for more: nor does the profile. *)
LEMMA UsageShrinks ==
  ASSUME NEW j \in Journals, NEW k \in Journals, \A v \in Uploads : Load(k[v]) <= Load(j[v])
  PROVE  ProfileUsage(k) <= ProfileUsage(j)
<1>1. AccountedBytes(k) \subseteq AccountedBytes(j)
  <2>1. \A v \in Uploads : Load(k[v]) \in Nat /\ Load(j[v]) \in Nat BY LoadIsNat DEF Journals
  <2>2. \A v \in Uploads : 1..Load(k[v]) \subseteq 1..Load(j[v]) BY <2>1
  <2> QED BY <2>2, AccountedByte
<1> QED BY <1>1, AccountedFinite, FS_Subset DEF ProfileUsage

(* One session accounts for n bytes more: so does the profile at most. *)
LEMMA UsageGrows ==
  ASSUME NEW j \in Journals, NEW k \in Journals, NEW u \in Uploads, NEW n \in Nat,
         \A v \in Uploads \ {u} : Load(k[v]) <= Load(j[v]),
         Load(k[u]) <= Load(j[u]) + n
  PROVE  ProfileUsage(k) <= ProfileUsage(j) + n
<1>1. PICK a \in Nat : a = Load(j[u]) BY LoadIsNat DEF Journals
<1>2. PICK N : N = {u} \X ((a + 1)..(a + n)) OBVIOUS
<1>3. IsFiniteSet(N) /\ Cardinality(N) = n
  <2>1. IsFiniteSet((a + 1)..(a + n)) /\ Cardinality((a + 1)..(a + n)) = n
    <3>1. a + 1 \in Int /\ a + n \in Int BY <1>1
    <3>2. /\ IsFiniteSet((a + 1)..(a + n))
          /\ Cardinality((a + 1)..(a + n)) = IF a + 1 > a + n THEN 0 ELSE (a + n) - (a + 1) + 1
      BY <3>1, FS_Interval
    <3> QED BY <1>1, <3>2
  <2>2. IsFiniteSet({u}) /\ Cardinality({u}) = 1 BY FS_Singleton
  <2>3. IsFiniteSet(N) /\ Cardinality(N) = 1 * n
    <3>1. PICK M : M = (a + 1)..(a + n) OBVIOUS
    <3>2. IsFiniteSet({u} \X M) /\ Cardinality({u} \X M) = Cardinality({u}) * Cardinality(M)
      BY <2>1, <2>2, <3>1, FS_Product
    <3> QED BY <1>2, <2>1, <2>2, <3>1, <3>2
  <2> QED BY <2>3
<1>4. AccountedBytes(k) \subseteq AccountedBytes(j) \cup N
  <2>1. \A v \in Uploads : Load(k[v]) \in Nat /\ Load(j[v]) \in Nat BY LoadIsNat DEF Journals
  <2>2. ASSUME NEW b \in AccountedBytes(k) PROVE b \in AccountedBytes(j) \cup N
    <3>1. PICK v \in Uploads : \E i \in 1..Load(k[v]) : b = <<v, i>> BY AccountedByte
    <3>2. PICK i \in 1..Load(k[v]) : b = <<v, i>> BY <3>1
    <3>3. CASE i <= Load(j[v])
      <4>1. i \in 1..Load(j[v]) BY <2>1, <3>2, <3>3
      <4> QED BY <3>2, <4>1, AccountedByte
    <3>4. CASE ~(i <= Load(j[v]))
      <4>1. v = u BY <2>1, <3>2, <3>4
      <4>2. i \in (a + 1)..(a + n) BY <1>1, <2>1, <3>2, <3>4, <4>1
      <4> QED BY <1>2, <3>2, <4>1, <4>2
    <3> QED BY <3>3, <3>4
  <2> QED BY <2>2
<1>5. PICK S : S = AccountedBytes(j) OBVIOUS
<1>6. IsFiniteSet(S) BY <1>5, AccountedFinite
<1>7. IsFiniteSet(S \cup N) /\ Cardinality(S \cup N) = Cardinality(S) + Cardinality(N) - Cardinality(S \cap N)
  BY <1>3, <1>6, FS_Union
<1>8. Cardinality(S \cap N) \in Nat /\ Cardinality(S) \in Nat
  BY <1>6, FS_Intersection, FS_CardinalityType
<1>9. Cardinality(AccountedBytes(k)) <= Cardinality(S \cup N) BY <1>4, <1>5, <1>7, FS_Subset
<1>10. Cardinality(AccountedBytes(k)) \in Nat BY AccountedFinite DEF ProfileUsage
<1> QED BY <1>3, <1>5, <1>7, <1>8, <1>9, <1>10 DEF ProfileUsage

LEMMA UsageOfNothing ==
  ASSUME NEW j \in Journals, \A v \in Uploads : j[v] = Nil
  PROVE  ProfileUsage(j) = 0
<1>1. AccountedBytes(j) = {} BY DEF AccountedBytes
<1> QED BY <1>1, FS_EmptySet DEF ProfileUsage

-------------------------------------------------------------------------------
(* The storage budget: what memory and the disk account for stays within it, a
   part fits its reservation, and a task that builds an object builds what its
   session accounts for, as long as the session is at the epoch it was at.    *)

Builds(r) == r.pc \in {"building", "built"}

Current(r, s) ==
  s # Nil => /\ r.epoch <= s.epoch
             /\ r.epoch = s.epoch =>
                  /\ s.state = ClaimState(s)
                  /\ r.bytes = IF s.dictionary THEN s.decoded ELSE s.offset

TaskFits(r, j) ==
  /\ r.pc \in {"staged", "renamed"} => r.bytes <= r.res.bytes
  /\ Builds(r) => Current(r, j[r.up])

Budgeted ==
  /\ ProfileUsage(journal) <= MaxStorageBytes
  /\ ProfileUsage(durable) <= MaxStorageBytes
  /\ \A t \in Tasks : TaskFits(task[t], journal)

(* A change of a session that a task which builds its object notices by the epoch,
   or that does not concern it.                                               *)
Followed(s, q) ==
  q # Nil => /\ s # Nil
             /\ \/ q.epoch > s.epoch
                \/ /\ q.epoch = s.epoch /\ q.state = s.state /\ q.offset = s.offset
                   /\ q.decoded = s.decoded /\ q.dictionary = s.dictionary

(* A change that also accounts for no more bytes. *)
Eased(s, q) == Load(q) <= Load(s) /\ Followed(s, q)

EasedMap(j, next) == \A v \in Uploads : Eased(j[v], next[v])

LEMMA CurrentLater ==
  ASSUME NEW r \in Task, NEW s \in Session \cup {Nil}, NEW q \in Session \cup {Nil},
         Current(r, s), Followed(s, q)
  PROVE  Current(r, q)
<1> SUFFICES ASSUME q # Nil PROVE Current(r, q) BY DEF Current
<1>1. s # Nil /\ s \in Session /\ q \in Session BY DEF Followed
<1>2. s.epoch \in Nat /\ q.epoch \in Nat /\ r.epoch \in Nat BY <1>1, SessionFields DEF Task
<1>3. CASE q.epoch > s.epoch BY <1>1, <1>2, <1>3 DEF Current
<1>4. CASE /\ q.epoch = s.epoch /\ q.state = s.state /\ q.offset = s.offset
           /\ q.decoded = s.decoded /\ q.dictionary = s.dictionary
  BY <1>1, <1>4 DEF Current, ClaimState
<1> QED BY <1>3, <1>4 DEF Followed

LEMMA EasedSame == ASSUME NEW s \in Session \cup {Nil} PROVE Eased(s, s)
BY LoadIsNat DEF Eased, Followed

LEMMA EasedTwice ==
  ASSUME NEW s \in Session \cup {Nil}, NEW q \in Session \cup {Nil}, NEW z \in Session \cup {Nil},
         Eased(s, q), Eased(q, z)
  PROVE  Eased(s, z)
<1>1. Load(s) \in Nat /\ Load(q) \in Nat /\ Load(z) \in Nat BY LoadIsNat
<1>2. Load(z) <= Load(s) BY <1>1 DEF Eased
<1>3. Followed(s, z)
  <2> SUFFICES ASSUME z # Nil PROVE Followed(s, z) BY DEF Followed
  <2>1. q # Nil /\ s # Nil BY DEF Eased, Followed
  <2>2. s.epoch \in Nat /\ q.epoch \in Nat /\ z.epoch \in Nat BY <2>1, SessionFields
  <2> QED BY <2>1, <2>2 DEF Eased, Followed
<1> QED BY <1>2, <1>3 DEF Eased

(* What a change of state, a fence and a recovery leave alone. *)
LEMMA EasedSession ==
  ASSUME NEW s \in Session, NEW q \in Session,
         q.offset = s.offset, q.reservation \in {Nil, s.reservation}, q.object = s.object,
         q.objectBytes = s.objectBytes, q.decoded = s.decoded,
         q.state = "Completing" => s.state = "Completing",
         \/ q.epoch > s.epoch
         \/ q.epoch = s.epoch /\ q.state = s.state /\ q.dictionary = s.dictionary
  PROVE  Eased(s, q)
<1>1. s # Nil /\ q # Nil BY NilDiffers
<1>2. s.offset \in Nat /\ s.objectBytes \in Nat /\ s.decoded \in Nat
      /\ s.reservation \in Reservation \cup {Nil}
  BY SessionFields
<1>3. s.reservation # Nil => s.reservation.bytes \in Nat BY <1>2 DEF Reservation
<1>4. Bytes(q) <= Bytes(s) BY <1>2, <1>3 DEF Bytes
<1>5. Followed(s, q) BY <1>1 DEF Followed
<1> QED BY <1>1, <1>4, <1>5 DEF Eased, Load

LEMMA FenceEased ==
  ASSUME NEW s \in Session
  PROVE  /\ Eased(s, Fence(s)) /\ Fence(s).epoch > s.epoch
         /\ Fence(s).objectBytes = s.objectBytes /\ Fence(s).decoded = s.decoded
         /\ Fence(s).dictionary = s.dictionary
<1>1. PICK q : q = Fence(s) OBVIOUS
<1>2. /\ q \in Session /\ q.reservation = Nil /\ q.state = s.state
      /\ q.offset = s.offset /\ q.epoch = s.epoch + 1 /\ q.object = s.object
  BY <1>1, FenceQuiet
<1>3. q.objectBytes = s.objectBytes /\ q.decoded = s.decoded /\ q.dictionary = s.dictionary
  BY <1>1 DEF Fence, Session
<1>4. s.epoch \in Nat BY SessionFields
<1>5. q.epoch > s.epoch BY <1>2, <1>4
<1>6. Eased(s, q) BY <1>2, <1>3, <1>5, EasedSession
<1> QED BY <1>1, <1>3, <1>5, <1>6

LEMMA EasedPoint ==
  ASSUME NEW j \in Journals, NEW k \in Journals, EasedMap(j, k), NEW u \in Uploads,
         NEW q \in Session \cup {Nil}, Eased(k[u], q)
  PROVE  EasedMap(j, [k EXCEPT ![u] = q])
<1>1. j[u] \in Session \cup {Nil} /\ k[u] \in Session \cup {Nil} /\ Eased(j[u], k[u])
  BY DEF Journals, EasedMap
<1>2. Eased(j[u], q) BY <1>1, EasedTwice
<1>3. \A v \in Uploads : [k EXCEPT ![u] = q][v] = IF v = u THEN q ELSE k[v] BY DEF Journals
<1> QED BY <1>2, <1>3 DEF EasedMap

LEMMA SameEased == ASSUME NEW j \in Journals PROVE EasedMap(j, j)
BY EasedSame DEF EasedMap, Journals

LEMMA ReapEased ==
  ASSUME UploadInv
  PROVE  ReapExpired(journal) \in Journals /\ EasedMap(journal, ReapExpired(journal))
<1>1. journal \in Journals BY Typed DEF Journals
<1>2. ReapExpired(journal) \in Journals BY ReapQuiet DEF QuietMap, Journals
<1>3. ASSUME NEW v \in Uploads PROVE Eased(journal[v], ReapExpired(journal)[v])
  <2>1. journal[v] \in Session \cup {Nil} BY <1>1 DEF Journals
  <2>2. CASE journal[v] # Nil /\ ReapExpired(journal)[v] = Fence(journal[v])
    BY <2>1, <2>2, FenceEased
  <2>3. CASE ReapExpired(journal)[v] = journal[v] BY <2>1, <2>3, EasedSame
  <2> QED BY <2>2, <2>3 DEF ReapExpired
<1> QED BY <1>2, <1>3 DEF EasedMap

LEMMA ExpireEased ==
  ASSUME UploadInv
  PROVE  ExpireDispatches(journal) \in Journals /\ EasedMap(journal, ExpireDispatches(journal))
<1>1. journal \in Journals BY Typed DEF Journals
<1>2. ExpireDispatches(journal) \in Journals BY ExpireQuiet DEF QuietMap, Journals
<1>3. ASSUME NEW v \in Uploads PROVE Eased(journal[v], ExpireDispatches(journal)[v])
  <2>1. PICK s : s = journal[v] OBVIOUS
  <2>2. s \in Session \cup {Nil} BY <1>1, <2>1 DEF Journals
  <2>3. CASE DispatchExpired(v)
    <3>1. s \in Session BY <2>1, <2>2, <2>3 DEF DispatchExpired
    <3>2. PICK q : q = [s EXCEPT !.state = "Indeterminate", !.epoch = s.epoch + 1] OBVIOUS
    <3>3. q \in Session BY <3>1, <3>2, NextEpoch, SessionUpdates DEF UploadStates
    <3>4. /\ q.offset = s.offset /\ q.reservation = s.reservation /\ q.object = s.object
          /\ q.objectBytes = s.objectBytes /\ q.decoded = s.decoded
          /\ q.state = "Indeterminate" /\ q.epoch = s.epoch + 1
      BY <3>1, <3>2 DEF Session
    <3>5. s.epoch \in Nat BY <3>1, SessionFields
    <3>6. q.epoch > s.epoch BY <3>4, <3>5
    <3>7. Eased(s, q) BY <3>1, <3>3, <3>4, <3>6, EasedSession
    <3> QED BY <2>1, <2>3, <3>2, <3>7 DEF ExpireDispatches
  <2>4. CASE ~DispatchExpired(v)
    <3>1. ExpireDispatches(journal)[v] = s BY <2>1, <2>4 DEF ExpireDispatches
    <3> QED BY <2>1, <2>2, <3>1, EasedSame
  <2> QED BY <2>3, <2>4
<1> QED BY <1>2, <1>3 DEF EasedMap

(* A step of one task keeps the budget when the journal it publishes does, and
   the other tasks that build can follow.                                     *)
LEMMA BudgetStep ==
  ASSUME UploadInv, UploadInv', Budgeted, NEW t \in Tasks, NEW r,
         task' = [task EXCEPT ![t] = r],
         \/ journal' = journal /\ durable' = durable
         \/ ProfileUsage(journal') <= MaxStorageBytes /\ durable' \in {durable, journal'},
         \A q \in Tasks : q # t /\ Builds(task[q]) =>
           Followed(journal[task[q].up], journal'[task[q].up]),
         TaskFits(r, journal')
  PROVE  Budgeted'
<1>1. /\ ProfileUsage(journal') <= MaxStorageBytes
      /\ ProfileUsage(durable') <= MaxStorageBytes
  BY DEF Budgeted
<1>2. journal \in Journals /\ task \in [Tasks -> Task] BY Typed DEF Journals
<1>3. journal' \in Journals BY DEF UploadInv, UploadTypeOK, Journals
<1>4. ASSUME NEW q \in Tasks PROVE TaskFits(task'[q], journal')
  <2>1. CASE q = t BY <1>2, <2>1
  <2>2. CASE q # t
    <3>1. task'[q] = task[q] /\ TaskFits(task[q], journal) /\ task[q] \in Task
      BY <1>2, <2>2 DEF Budgeted
    <3>2. ASSUME Builds(task[q]) PROVE Current(task[q], journal'[task[q].up])
      <4>1. task[q].up \in Uploads
        BY <3>2 DEF UploadInv, TasksSound, TaskSound, Shaped, Builds
      <4>2. Current(task[q], journal[task[q].up]) BY <3>1, <3>2 DEF TaskFits
      <4>3. journal[task[q].up] \in Session \cup {Nil} /\ journal'[task[q].up] \in Session \cup {Nil}
        BY <1>2, <1>3, <4>1 DEF Journals
      <4>4. Followed(journal[task[q].up], journal'[task[q].up]) BY <2>2, <3>2
      <4> QED BY <3>1, <4>2, <4>3, <4>4, CurrentLater
    <3> QED BY <3>1, <3>2 DEF TaskFits
  <2> QED BY <2>1, <2>2
<1> QED BY <1>1, <1>4 DEF Budgeted

LEMMA BuilderUp ==
  ASSUME UploadInv, NEW q \in Tasks, Builds(task[q])
  PROVE  task[q].up \in Uploads /\ assembly = q /\ client[task[q].up].created
<1>1. TaskSound(q, task[q], assembly, files, draws, journal, durable, client)
  BY DEF UploadInv, TasksSound
<1>2. task[q].up \in Uploads BY <1>1 DEF TaskSound, Shaped, Builds
<1>3. Holds(task[q]) BY DEF Builds, Holds
<1> QED BY <1>1, <1>2, <1>3, NilDiffers DEF TaskSound

(* A published journal in which no session accounts for more keeps the budget. *)
LEMMA EasedStep ==
  ASSUME UploadInv, UploadInv', Budgeted, NEW t \in Tasks, NEW r, NEW next,
         task' = [task EXCEPT ![t] = r],
         Stored(next), EasedMap(journal, next),
         TaskFits(r, journal')
  PROVE  Budgeted'
<1>1. journal \in Journals BY Typed DEF Journals
<1>2. journal' \in Journals BY DEF UploadInv, UploadTypeOK, Journals
<1>3. EasedMap(journal, journal') BY <1>1, SameEased DEF Stored
<1>4. ProfileUsage(journal') <= ProfileUsage(journal)
  BY <1>1, <1>2, <1>3, UsageShrinks DEF EasedMap, Eased
<1>5. ProfileUsage(journal') <= MaxStorageBytes
  BY <1>1, <1>2, <1>4, AccountedFinite, UploadAssumption DEF Budgeted
<1>6. \/ journal' = journal /\ durable' = durable
      \/ ProfileUsage(journal') <= MaxStorageBytes /\ durable' \in {durable, journal'}
  BY <1>5 DEF Stored
<1>7. \A q \in Tasks : q # t /\ Builds(task[q]) =>
        Followed(journal[task[q].up], journal'[task[q].up])
  BY <1>3, BuilderUp DEF EasedMap, Eased
<1> QED BY <1>6, <1>7, BudgetStep

(* A task at these points carries no bytes that matter. *)
LEMMA FitsElsewhere ==
  ASSUME NEW r, NEW j, r.pc \notin {"staged", "renamed", "building", "built"}
  PROVE  TaskFits(r, j)
BY DEF TaskFits, Builds

LEMMA RestFits == ASSUME NEW p \in {"idle", "entered", "sweeping"}, NEW j PROVE TaskFits(Rest(p), j)
<1>1. Rest(p).pc = p BY DEF Rest, Idle
<1> QED BY <1>1, FitsElsewhere

-------------------------------------------------------------------------------
(* The steps that leave the journal alone. *)

LEMMA JournalKept ==
  ASSUME UploadInv, UploadInv', Budgeted, NEW t \in Tasks, NEW r,
         task' = [task EXCEPT ![t] = r], UNCHANGED <<journal, durable>>, TaskFits(r, journal)
  PROVE  Budgeted'
<1>1. Stored(journal) BY DEF Stored
<1>2. EasedMap(journal, journal) BY Typed, SameEased DEF Journals
<1> QED BY <1>1, <1>2, EasedStep

LEMMA QuietBudget ==
  ASSUME UploadInv, UploadInv', Budgeted, NEW t \in Tasks,
         \/ Enter(t) \/ CleanupOrphanData(t) \/ RenamePart(t) \/ BuildObject(t) \/ Send(t)
         \/ RemoveUploadFiles(t) \/ Cancel(t) \/ (\E n \in 1..MaxUploadBytes : StagePart(t, n))
  PROVE  Budgeted'
<1>0. task[t] \in Task /\ TaskFits(task[t], journal) BY Typed DEF Budgeted
<1>1. UNCHANGED <<journal, durable>>
  BY DEF Enter, CleanupOrphanData, RenamePart, BuildObject, Send, RemoveUploadFiles, Cancel, StagePart
<1>2. PICK r : task' = [task EXCEPT ![t] = r] /\ TaskFits(r, journal)
  <2>1. CASE Enter(t)
    <3>1. task' = [task EXCEPT ![t] = Rest("entered")] BY <2>1 DEF Enter, Resumes, Rest
    <3> QED BY <3>1, RestFits
  <2>2. CASE CleanupOrphanData(t) \/ Cancel(t)
    <3>1. task' = [task EXCEPT ![t] = Rest("idle")]
      BY <2>2, IdleRest DEF CleanupOrphanData, Cancel, Resumes
    <3> QED BY <3>1, RestFits
  <2>3. CASE RenamePart(t)
    <3>1. PICK r : r = [task[t] EXCEPT !.pc = "renamed"] OBVIOUS
    <3>2. r.pc = "renamed" /\ r.bytes = task[t].bytes /\ r.res = task[t].res BY <1>0, <3>1 DEF Task
    <3>3. task[t].pc = "staged" BY <2>3 DEF RenamePart
    <3>4. TaskFits(r, journal) BY <1>0, <3>2, <3>3 DEF TaskFits, Builds
    <3> QED BY <2>3, <3>1, <3>4 DEF RenamePart, Resumes
  <2>4. CASE BuildObject(t)
    <3>1. PICK r : r = [task[t] EXCEPT !.pc = "built"] OBVIOUS
    <3>2. /\ r.pc = "built" /\ r.bytes = task[t].bytes /\ r.epoch = task[t].epoch
          /\ r.up = task[t].up
      BY <1>0, <3>1 DEF Task
    <3>3. Builds(task[t]) BY <2>4 DEF BuildObject, Builds
    <3>4. TaskFits(r, journal) BY <1>0, <3>2, <3>3 DEF TaskFits, Current
    <3> QED BY <2>4, <3>1, <3>4 DEF BuildObject, Resumes
  <2>5. CASE Send(t)
    <3>1. PICK r : r = [task[t] EXCEPT !.pc = "sent"] OBVIOUS
    <3>2. r.pc = "sent" BY <1>0, <3>1 DEF Task
    <3> QED BY <2>5, <3>1, <3>2, FitsElsewhere DEF Send, Resumes
  <2>6. CASE RemoveUploadFiles(t)
    <3>1. PICK r : r = [task[t] EXCEPT !.pc = "cleared"] OBVIOUS
    <3>2. r.pc = "cleared" BY <1>0, <3>1 DEF Task
    <3>3. TaskFits(r, journal) BY <3>2, FitsElsewhere
    <3>4. TaskFits(Idle, journal) BY RestFits, IdleRest
    <3> QED BY <2>6, <3>1, <3>3, <3>4 DEF RemoveUploadFiles, Resumes
  <2>7. ASSUME NEW n \in 1..MaxUploadBytes, StagePart(t, n)
        PROVE  \E r : task' = [task EXCEPT ![t] = r] /\ TaskFits(r, journal)
    <3>1. PICK k : k = [up |-> task[t].up, kind |-> "chunk", draw |-> task[t].res.token] OBVIOUS
    <3>2. PICK r : r = [task[t] EXCEPT !.pc = "staged", !.bytes = n, !.key = k] OBVIOUS
    <3>3. PICK f : f = [task[t] EXCEPT !.pc = "failed"] OBVIOUS
    <3>4. r.pc = "staged" /\ r.bytes = n /\ r.res = task[t].res /\ f.pc = "failed"
      BY <1>0, <3>2, <3>3 DEF Task
    <3>5. n <= task[t].res.bytes BY <2>7 DEF StagePart
    <3>6. TaskFits(r, journal) BY <3>4, <3>5 DEF TaskFits, Builds
    <3>7. TaskFits(f, journal) BY <3>4, FitsElsewhere
    <3>8. task' = [task EXCEPT ![t] = r] \/ task' = [task EXCEPT ![t] = f]
      BY <2>7, <3>1, <3>2, <3>3 DEF StagePart, Resumes
    <3> QED BY <3>6, <3>7, <3>8
  <2> QED BY <2>1, <2>2, <2>3, <2>4, <2>5, <2>6, <2>7
<1> QED BY <1>1, <1>2, JournalKept

-------------------------------------------------------------------------------
(* The requests that account for no more bytes than before. *)

LEMMA DeclareBudget ==
  ASSUME UploadInv, UploadInv', Budgeted, NEW t \in Tasks, NEW u \in Uploads,
         NEW n \in 0..MaxUploadBytes, DeclareLength(t, u, n)
  PROVE  Budgeted'
<1>1. PICK s : s = journal[u] OBVIOUS
<1>2. s # Nil /\ s \in Session BY <1>1, Typed DEF DeclareLength, Checked
<1>3. PICK q : q = [s EXCEPT !.total = n] OBVIOUS
<1>4. n \in Nat BY UploadAssumption
<1>5. q \in Session BY <1>2, <1>3, <1>4, NextEpoch, SessionUpdates
<1>6. /\ q.offset = s.offset /\ q.reservation = s.reservation /\ q.object = s.object
      /\ q.objectBytes = s.objectBytes /\ q.decoded = s.decoded /\ q.state = s.state
      /\ q.epoch = s.epoch /\ q.dictionary = s.dictionary
  BY <1>2, <1>3 DEF Session
<1>7. Eased(s, q) BY <1>2, <1>5, <1>6, EasedSession
<1>8. PICK next : next = [journal EXCEPT ![u] = q] OBVIOUS
<1>9. EasedMap(journal, next) BY <1>1, <1>5, <1>7, <1>8, Typed, SameEased, EasedPoint DEF Journals
<1>10. PICK ok \in BOOLEAN : Persist(next, ok) BY <1>1, <1>3, <1>8 DEF DeclareLength
<1>11. Stored(next) BY <1>10, PersistStores
<1>12. task' = [task EXCEPT ![t] = Rest("idle")] BY IdleRest DEF DeclareLength, Resumes
<1> QED BY <1>9, <1>11, <1>12, RestFits, EasedStep

LEMMA FailValidationBudget ==
  ASSUME UploadInv, UploadInv', Budgeted, NEW t \in Tasks, NEW u \in Uploads, FailValidation(t, u)
  PROVE  Budgeted'
<1>1. PICK s : s = journal[u] OBVIOUS
<1>2. s # Nil /\ s \in Session BY <1>1, Typed DEF FailValidation, Checked
<1>3. PICK f : f = Fence(s) OBVIOUS
<1>4. /\ f \in Session /\ f.reservation = Nil /\ f.offset = s.offset /\ f.object = s.object
      /\ f.epoch > s.epoch /\ f.objectBytes = s.objectBytes /\ f.decoded = s.decoded
  BY <1>2, <1>3, FenceQuiet, FenceEased
<1>5. PICK q : q = [f EXCEPT !.state = "ValidationFailed"] OBVIOUS
<1>6. q \in Session BY <1>4, <1>5, NextEpoch, SessionUpdates DEF UploadStates
<1>7. /\ q.offset = s.offset /\ q.reservation = Nil /\ q.object = s.object
      /\ q.objectBytes = s.objectBytes /\ q.decoded = s.decoded /\ q.state = "ValidationFailed"
      /\ q.epoch > s.epoch
  BY <1>4, <1>5 DEF Session
<1>8. Eased(s, q) BY <1>2, <1>6, <1>7, EasedSession
<1>9. PICK next : next = [journal EXCEPT ![u] = q] OBVIOUS
<1>10. EasedMap(journal, next) BY <1>1, <1>6, <1>8, <1>9, Typed, SameEased, EasedPoint DEF Journals
<1>11. PICK ok \in BOOLEAN : Persist(next, ok) BY <1>1, <1>3, <1>5, <1>9 DEF FailValidation
<1>12. Stored(next) BY <1>11, PersistStores
<1>13. task' = [task EXCEPT ![t] = Rest("idle")] BY IdleRest DEF FailValidation, Resumes
<1> QED BY <1>10, <1>12, <1>13, RestFits, EasedStep

LEMMA CollectScanBudget ==
  ASSUME UploadInv, UploadInv', Budgeted, NEW t \in Tasks, CollectScan(t)
  PROVE  Budgeted'
<1>1. PICK next : next = ExpireDispatches(journal) OBVIOUS
<1>2. EasedMap(journal, next) BY <1>1, ExpireEased
<1>3. PICK ok \in BOOLEAN :
        /\ IF next = journal THEN ok /\ UNCHANGED <<mode, journal, durable>> ELSE Persist(next, ok)
        /\ Resumes(t, IF ok THEN [Idle EXCEPT !.pc = "sweeping"] ELSE Idle)
  BY <1>1 DEF CollectScan
<1>4. Stored(next) BY <1>3, PersistStores DEF Stored
<1>5. PICK p \in {"idle", "entered", "sweeping"} : task' = [task EXCEPT ![t] = Rest(p)]
  BY <1>3, IdleRest DEF Resumes, Rest
<1> QED BY <1>2, <1>4, <1>5, RestFits, EasedStep

LEMMA LookupBudget ==
  ASSUME UploadInv, UploadInv', Budgeted, NEW t \in Tasks, NEW u \in Uploads, Lookup(t, u)
  PROVE  Budgeted'
<1>1. PICK swept : swept = ExpireDispatches(journal) OBVIOUS
<1>2. PICK next : next = IF swept[u].reservation = Nil THEN swept
                         ELSE [swept EXCEPT ![u] = Fence(swept[u])]
  OBVIOUS
<1>3. swept \in Journals /\ EasedMap(journal, swept) BY <1>1, ExpireEased
<1>4. journal[u] # Nil BY DEF Lookup, Checked, DispatchExpired
<1>5. swept[u] \in Session /\ swept[u] # Nil BY <1>1, <1>4, ExpireQuiet DEF QuietMap
<1>6. Eased(swept[u], Fence(swept[u])) /\ Fence(swept[u]) \in Session
  BY <1>5, FenceEased, FenceQuiet
<1>7. EasedMap(journal, [swept EXCEPT ![u] = Fence(swept[u])])
  BY <1>3, <1>6, Typed, EasedPoint DEF Journals
<1>8. EasedMap(journal, next) BY <1>2, <1>3, <1>7
<1>9. PICK ok \in BOOLEAN :
        IF next = journal THEN ok /\ UNCHANGED <<journal, durable, mode>> ELSE Persist(next, ok)
  BY <1>1, <1>2 DEF Lookup
<1>10. Stored(next) BY <1>9, PersistStores DEF Stored
<1>11. task' = [task EXCEPT ![t] = Rest("idle")] BY IdleRest DEF Lookup, Resumes
<1> QED BY <1>8, <1>10, <1>11, RestFits, EasedStep

LEMMA AbortBudget ==
  ASSUME UploadInv, UploadInv', Budgeted, NEW t \in Tasks, AbortAppend(t)
  PROVE  Budgeted'
<1>1. PICK u : u = task[t].up OBVIOUS
<1>2. u \in Uploads
  BY <1>1 DEF UploadInv, TasksSound, TaskSound, Shaped, AbortAppend
<1>3. task' = [task EXCEPT ![t] = Rest("idle")] BY IdleRest DEF AbortAppend, Resumes
<1>4. CASE UNCHANGED <<mode, journal, durable>> BY <1>3, <1>4, RestFits, JournalKept
<1>5. CASE /\ journal[u] # Nil
           /\ \E ok \in BOOLEAN : Persist([journal EXCEPT ![u] = Fence(journal[u])], ok)
  <2>1. journal[u] \in Session BY <1>2, <1>5, Typed
  <2>2. Eased(journal[u], Fence(journal[u])) /\ Fence(journal[u]) \in Session
    BY <2>1, FenceEased, FenceQuiet
  <2>3. PICK next : next = [journal EXCEPT ![u] = Fence(journal[u])] OBVIOUS
  <2>4. EasedMap(journal, next) BY <1>2, <2>2, <2>3, Typed, SameEased, EasedPoint DEF Journals
  <2>5. PICK ok \in BOOLEAN : Persist(next, ok) BY <1>5, <2>3
  <2>6. Stored(next) BY <2>5, PersistStores
  <2> QED BY <1>3, <2>4, <2>6, RestFits, EasedStep
<1> QED BY <1>1, <1>4, <1>5 DEF AbortAppend

LEMMA TombstoneBudget ==
  ASSUME UploadInv, UploadInv', Budgeted, NEW t \in Tasks, NEW u \in Uploads, NEW j, NEW then,
         j \in Journals, EasedMap(journal, j), j[u] # Nil, Tombstone(t, u, j, then)
  PROVE  Budgeted'
<1>1. PICK s : s = j[u] OBVIOUS
<1>2. s # Nil /\ s \in Session BY <1>1 DEF Journals
<1>3. PICK f : f = Fence(s) OBVIOUS
<1>4. /\ f \in Session /\ f.reservation = Nil /\ f.offset = s.offset /\ f.object = s.object
      /\ f.epoch > s.epoch /\ f.objectBytes = s.objectBytes /\ f.decoded = s.decoded
  BY <1>2, <1>3, FenceQuiet, FenceEased
<1>5. PICK q : q = [f EXCEPT !.state = "Deleted"] OBVIOUS
<1>6. q \in Session BY <1>4, <1>5, NextEpoch, SessionUpdates DEF UploadStates
<1>7. /\ q.offset = s.offset /\ q.reservation = Nil /\ q.object = s.object
      /\ q.objectBytes = s.objectBytes /\ q.decoded = s.decoded /\ q.state = "Deleted"
      /\ q.epoch > s.epoch
  BY <1>4, <1>5 DEF Session
<1>8. Eased(s, q) BY <1>2, <1>6, <1>7, EasedSession
<1>9. PICK next : next = [j EXCEPT ![u] = q] OBVIOUS
<1>10. EasedMap(journal, next) BY <1>1, <1>6, <1>8, <1>9, Typed, EasedPoint DEF Journals
<1>11. PICK w : w = [Idle EXCEPT !.pc = "tombstoned", !.up = u, !.then = then, !.epoch = s.epoch + 1]
  OBVIOUS
<1>12. PICK ok \in BOOLEAN : Persist(next, ok) /\ Resumes(t, IF ok THEN w ELSE Idle)
  BY <1>1, <1>3, <1>5, <1>9, <1>11 DEF Tombstone
<1>13. Stored(next) BY <1>12, PersistStores
<1>14. w.pc = "tombstoned" BY <1>11 DEF Idle
<1>15. TaskFits(w, journal') /\ TaskFits(Idle, journal')
  BY <1>14, FitsElsewhere, RestFits, IdleRest
<1>16. PICK r : r = IF ok THEN w ELSE Idle OBVIOUS
<1>17. task' = [task EXCEPT ![t] = r] /\ TaskFits(r, journal') BY <1>12, <1>15, <1>16 DEF Resumes
<1> QED BY <1>10, <1>13, <1>17, EasedStep

LEMMA DeleteBudget ==
  ASSUME UploadInv, UploadInv', Budgeted, NEW t \in Tasks, NEW u \in Uploads,
         Delete(t, u) \/ Collect(t, u)
  PROVE  Budgeted'
<1>1. CASE Delete(t, u)
  <2>1. journal[u] # Nil BY <1>1 DEF Delete, Checked, DispatchExpired
  <2>2. ExpireDispatches(journal)[u] # Nil BY <2>1, ExpireQuiet DEF QuietMap
  <2> QED BY <1>1, <2>2, ExpireEased, TombstoneBudget DEF Delete
<1>2. CASE Collect(t, u)
  BY <1>2, Typed, SameEased, TombstoneBudget DEF Collect, Journals
<1> QED BY <1>1, <1>2

LEMMA RemoveTombstoneBudget ==
  ASSUME UploadInv, UploadInv', Budgeted, NEW t \in Tasks, RemoveTombstone(t)
  PROVE  Budgeted'
<1>1. PICK u : u = task[t].up OBVIOUS
<1>2. u \in Uploads /\ task[t] \in Task
  BY <1>1, Typed DEF UploadInv, TasksSound, TaskSound, Shaped, RemoveTombstone
<1>3. PICK next : next = [journal EXCEPT ![u] = Nil] OBVIOUS
<1>4. Eased(journal[u], Nil)
  <2>1. Load(Nil) = 0 /\ Load(journal[u]) \in Nat BY <1>2, Typed, LoadIsNat DEF Load
  <2> QED BY <2>1 DEF Eased, Followed
<1>5. EasedMap(journal, next) BY <1>2, <1>3, <1>4, Typed, SameEased, EasedPoint DEF Journals
<1>6. EasedMap(journal, journal) BY Typed, SameEased DEF Journals
<1>7. PICK ok \in BOOLEAN :
        /\ Persist(next, ok) \/ UNCHANGED <<mode, journal, durable>>
        /\ Resumes(t, IF ok THEN [Idle EXCEPT !.pc = task[t].then] ELSE Idle)
  BY <1>1, <1>3 DEF RemoveTombstone
<1>8. Stored(next) \/ Stored(journal) BY <1>7, PersistStores DEF Stored
<1>9. task[t].then \in {"idle", "sweeping"} BY <1>2 DEF Task
<1>10. PICK p \in {"idle", "entered", "sweeping"} : task' = [task EXCEPT ![t] = Rest(p)]
  BY <1>7, <1>9, IdleRest DEF Resumes, Rest
<1> QED BY <1>5, <1>6, <1>8, <1>10, RestFits, EasedStep

LEMMA DispatchBudget ==
  ASSUME UploadInv, UploadInv', Budgeted, NEW t \in Tasks, NEW u \in Uploads, NEW st, NEW old, NEW r, NEW ok,
         journal[u] # Nil, journal[u].state = old, old # "Completing",
         st \in {"Dispatching", "Complete", "Indeterminate"}, ok \in BOOLEAN,
         Persist([journal EXCEPT ![u].state = st, ![u].epoch = @ + 1], ok),
         task' = [task EXCEPT ![t] = r], TaskFits(r, journal')
  PROVE  Budgeted'
<1>1. PICK s : s = journal[u] OBVIOUS
<1>2. s # Nil /\ s \in Session BY <1>1, Typed
<1>3. PICK q : q = [s EXCEPT !.state = st, !.epoch = s.epoch + 1] OBVIOUS
<1>4. q \in Session BY <1>2, <1>3, NextEpoch, SessionUpdates DEF UploadStates
<1>5. /\ q.offset = s.offset /\ q.reservation = s.reservation /\ q.object = s.object
      /\ q.objectBytes = s.objectBytes /\ q.decoded = s.decoded /\ q.state = st
      /\ q.epoch = s.epoch + 1
  BY <1>2, <1>3 DEF Session
<1>6. s.epoch \in Nat BY <1>2, SessionFields
<1>7. q.epoch > s.epoch BY <1>5, <1>6
<1>8. Eased(s, q) BY <1>2, <1>4, <1>5, <1>7, EasedSession
<1>9. PICK next : next = [journal EXCEPT ![u] = q] OBVIOUS
<1>10. EasedMap(journal, next) BY <1>1, <1>4, <1>8, <1>9, Typed, SameEased, EasedPoint DEF Journals
<1>11. [journal EXCEPT ![u].state = st, ![u].epoch = @ + 1] = next
  BY <1>1, <1>3, <1>9, Typed
<1>12. Stored(next) BY <1>11, PersistStores
<1> QED BY <1>10, <1>12, EasedStep

LEMMA BeginDispatchBudget ==
  ASSUME UploadInv, UploadInv', Budgeted, NEW t \in Tasks, NEW u \in Uploads, BeginDispatch(t, u)
  PROVE  Budgeted'
<1>1. PICK w : w = [Idle EXCEPT !.pc = "claimed", !.up = u, !.epoch = journal[u].epoch + 1] OBVIOUS
<1>2. PICK ok \in BOOLEAN :
        /\ Persist([journal EXCEPT ![u].state = "Dispatching", ![u].epoch = @ + 1], ok)
        /\ Resumes(t, IF ok THEN w ELSE Idle)
  BY <1>1 DEF BeginDispatch
<1>3. w.pc = "claimed" BY <1>1 DEF Idle
<1>4. TaskFits(w, journal') /\ TaskFits(Idle, journal')
  BY <1>3, FitsElsewhere, RestFits, IdleRest
<1>5. PICK r : r = IF ok THEN w ELSE Idle OBVIOUS
<1>6. task' = [task EXCEPT ![t] = r] /\ TaskFits(r, journal') BY <1>2, <1>4, <1>5 DEF Resumes
<1>7. journal[u] # Nil /\ journal[u].state = "Ready" BY DEF BeginDispatch, Checked
<1> QED BY <1>2, <1>6, <1>7, DispatchBudget

LEMMA FinishDispatchBudget ==
  ASSUME UploadInv, UploadInv', Budgeted, NEW t \in Tasks,
         NEW terminal \in {"Complete", "Indeterminate"}, FinishDispatch(t, terminal)
  PROVE  Budgeted'
<1>1. PICK u : u = task[t].up OBVIOUS
<1>2. u \in Uploads
  BY <1>1 DEF UploadInv, TasksSound, TaskSound, Shaped, FinishDispatch
<1>3. PICK r : r = Rest("idle") OBVIOUS
<1>4. task' = [task EXCEPT ![t] = r] /\ TaskFits(r, journal') /\ TaskFits(r, journal)
  BY <1>3, IdleRest, RestFits DEF FinishDispatch, Resumes
<1>5. CASE UNCHANGED <<mode, journal, durable, past>> BY <1>4, <1>5, JournalKept
<1>6. CASE /\ journal[u] # Nil /\ journal[u].state = "Dispatching"
           /\ \E ok \in BOOLEAN :
                Persist([journal EXCEPT ![u].state = terminal, ![u].epoch = @ + 1], ok)
  <2>1. PICK ok \in BOOLEAN : Persist([journal EXCEPT ![u].state = terminal, ![u].epoch = @ + 1], ok)
    BY <1>6
  <2> QED BY <1>2, <1>4, <1>6, <2>1, DispatchBudget
<1> QED BY <1>1, <1>5, <1>6 DEF FinishDispatch

-------------------------------------------------------------------------------
(* The requests that account for more bytes, within the budget. *)

(* One session of a journal that fits with n bytes more is charged at most n. *)
LEMMA ChargedStep ==
  ASSUME UploadInv, UploadInv', Budgeted, NEW t \in Tasks, NEW r, NEW j, NEW u \in Uploads, NEW q,
         NEW n \in Nat,
         j \in Journals, EasedMap(journal, j), ProfileUsage(j) + n <= MaxStorageBytes,
         q \in Session, Load(q) <= Load(j[u]) + n,
         Stored([j EXCEPT ![u] = q]),
         task' = [task EXCEPT ![t] = r],
         \A y \in Tasks : y # t /\ Builds(task[y]) /\ task[y].up = u => Followed(j[u], q),
         TaskFits(r, journal')
  PROVE  Budgeted'
<1>1. PICK next : next = [j EXCEPT ![u] = q] OBVIOUS
<1>2. journal \in Journals BY Typed DEF Journals
<1>3. next \in Journals BY <1>1 DEF Journals
<1>4. \A v \in Uploads : next[v] = IF v = u THEN q ELSE j[v] BY <1>1 DEF Journals
<1>5. \A v \in Uploads \ {u} : Load(next[v]) <= Load(j[v])
  <2>1. \A v \in Uploads : Load(j[v]) \in Nat BY LoadIsNat DEF Journals
  <2> QED BY <1>4, <2>1
<1>6. ProfileUsage(next) <= ProfileUsage(j) + n BY <1>3, <1>4, <1>5, UsageGrows
<1>7. ProfileUsage(next) <= MaxStorageBytes
  <2>1. ProfileUsage(next) \in Nat /\ ProfileUsage(j) \in Nat BY <1>3, AccountedFinite
  <2> QED BY <1>6, <2>1, UploadAssumption
<1>8. \/ journal' = journal /\ durable' = durable
      \/ ProfileUsage(journal') <= MaxStorageBytes /\ durable' \in {durable, journal'}
  BY <1>1, <1>7 DEF Stored
<1>9. ASSUME NEW y \in Tasks, y # t, Builds(task[y])
      PROVE  Followed(journal[task[y].up], journal'[task[y].up])
  <2>1. PICK v \in Uploads : v = task[y].up BY <1>9, BuilderUp
  <2>2. journal[v] \in Session \cup {Nil} /\ j[v] \in Session \cup {Nil} BY <1>2 DEF Journals
  <2>3. Followed(journal[v], j[v]) BY DEF EasedMap, Eased
  <2>4. Followed(j[v], next[v])
    <3>1. CASE v = u BY <1>4, <1>9, <2>1, <3>1
    <3>2. CASE v # u BY <1>4, <2>2, <3>2 DEF Followed
    <3> QED BY <3>1, <3>2
  <2>5. Followed(journal[v], next[v])
    <3> SUFFICES ASSUME next[v] # Nil PROVE Followed(journal[v], next[v]) BY DEF Followed
    <3>1. j[v] # Nil /\ journal[v] # Nil BY <2>3, <2>4 DEF Followed
    <3>2. next[v] \in Session /\ j[v] \in Session /\ journal[v] \in Session
      BY <1>3, <2>2, <3>1 DEF Journals
    <3>3. next[v].epoch \in Nat /\ j[v].epoch \in Nat /\ journal[v].epoch \in Nat
      BY <3>2, SessionFields
    <3> QED BY <2>3, <2>4, <3>1, <3>3 DEF Followed
  <2>6. Followed(journal[v], journal[v]) BY <2>2 DEF Followed
  <2> QED BY <1>1, <2>1, <2>5, <2>6 DEF Stored
<1> QED BY <1>8, <1>9, BudgetStep

LEMMA ClaimBudget ==
  ASSUME UploadInv, UploadInv', Budgeted, NEW t \in Tasks, NEW u \in Uploads, ClaimComplete(t, u)
  PROVE  Budgeted'
<1>1. PICK reaped : reaped = ReapExpired(journal) OBVIOUS
<1>2. PICK s : s = reaped[u] OBVIOUS
<1>3. reaped \in Journals /\ EasedMap(journal, reaped) BY <1>1, ReapEased
<1>4. PICK r : r = Rest("idle") OBVIOUS
<1>5. task' = [task EXCEPT ![t] = r] /\ TaskFits(r, journal') /\ TaskFits(r, journal)
  BY <1>4, IdleRest, RestFits DEF ClaimComplete, Resumes
<1>6. CASE UNCHANGED <<journal, durable, mode>> BY <1>5, <1>6, JournalKept
<1>7. CASE /\ s.state = "Active"
           /\ ProfileUsage(reaped) + s.offset <= MaxStorageBytes
           /\ \E ok \in BOOLEAN :
                Persist([reaped EXCEPT ![u].state = ClaimState(s), ![u].epoch = @ + 1], ok)
  <2>1. journal[u] # Nil BY DEF ClaimComplete, Checked
  <2>2. s # Nil /\ s \in Session BY <1>1, <1>2, <2>1, ReapQuiet DEF QuietMap
  <2>3. PICK q : q = [s EXCEPT !.state = ClaimState(s), !.epoch = s.epoch + 1] OBVIOUS
  <2>4. ClaimState(s) \in {"Completing", "Validating"} BY DEF ClaimState
  <2>5. q \in Session BY <2>2, <2>3, <2>4, NextEpoch, SessionUpdates DEF UploadStates
  <2>6. /\ q.offset = s.offset /\ q.reservation = s.reservation /\ q.object = s.object
        /\ q.objectBytes = s.objectBytes /\ q.decoded = s.decoded /\ q.epoch = s.epoch + 1
    BY <2>2, <2>3 DEF Session
  <2>7. /\ s.offset \in Nat /\ s.objectBytes \in Nat /\ s.decoded \in Nat /\ s.epoch \in Nat
        /\ s.reservation \in Reservation \cup {Nil}
    BY <2>2, SessionFields
  <2>8. s.reservation # Nil => s.reservation.bytes \in Nat BY <2>7 DEF Reservation
  <2>9. Bytes(q) <= Bytes(s) + s.offset BY <1>7, <2>6, <2>7, <2>8 DEF Bytes
  <2>10. q # Nil BY <2>5, NilDiffers
  <2>11. Load(q) <= Load(reaped[u]) + s.offset BY <1>2, <2>2, <2>9, <2>10 DEF Load
  <2>12. q.epoch > s.epoch BY <2>6, <2>7
  <2>13. Followed(reaped[u], q) BY <1>2, <2>2, <2>12 DEF Followed
  <2>14. [reaped EXCEPT ![u].state = ClaimState(s), ![u].epoch = @ + 1] = [reaped EXCEPT ![u] = q]
    BY <1>2, <1>3, <2>3 DEF Journals
  <2>15. PICK ok \in BOOLEAN : Persist([reaped EXCEPT ![u] = q], ok) BY <1>7, <2>14
  <2>16. Stored([reaped EXCEPT ![u] = q]) BY <2>15, PersistStores
  <2> QED BY <1>3, <1>5, <1>7, <2>5, <2>7, <2>11, <2>13, <2>16, ChargedStep
<1> QED BY <1>1, <1>2, <1>6, <1>7 DEF ClaimComplete

LEMMA AppendBudget ==
  ASSUME UploadInv, UploadInv', Budgeted, NEW t \in Tasks, NEW u \in Uploads,
         NEW n \in 1..MaxUploadBytes, BeginAppend(t, u, n)
  PROVE  Budgeted'
<1>1. PICK reaped : reaped = ReapExpired(journal) OBVIOUS
<1>2. PICK s : s = reaped[u] OBVIOUS
<1>3. reaped \in Journals /\ EasedMap(journal, reaped) BY <1>1, ReapEased
<1>4. PICK x : x = [token |-> draws + 1, at |-> s.offset, bytes |-> n, epoch |-> s.epoch] OBVIOUS
<1>5. journal[u] # Nil BY DEF BeginAppend, Checked
<1>6. s # Nil /\ s \in Session BY <1>1, <1>2, <1>5, ReapQuiet DEF QuietMap
<1>7. /\ s.offset \in Nat /\ s.objectBytes \in Nat /\ s.decoded \in Nat /\ s.epoch \in Nat /\ n \in Nat
  BY <1>6, SessionFields, UploadAssumption
<1>8. draws < MaxDraws /\ s.state = "Active" /\ s.reservation = Nil
      /\ ProfileUsage(reaped) + n <= MaxStorageBytes
  BY <1>1, <1>2 DEF BeginAppend
<1>9. draws + 1 \in 1..MaxDraws BY <1>8, Typed, UploadAssumption
<1>10. x \in Reservation /\ x.bytes = n BY <1>4, <1>7, <1>9 DEF Reservation
<1>11. PICK q : q = [s EXCEPT !.reservation = x] OBVIOUS
<1>12. q \in Session BY <1>6, <1>10, <1>11, NextEpoch, SessionUpdates
<1>13. /\ q.offset = s.offset /\ q.reservation = x /\ q.object = s.object /\ q.state = s.state
       /\ q.objectBytes = s.objectBytes /\ q.decoded = s.decoded /\ q.epoch = s.epoch
       /\ q.dictionary = s.dictionary
  BY <1>6, <1>11 DEF Session
<1>14. q # Nil /\ x # Nil BY <1>10, <1>12, NilDiffers
<1>15. Bytes(q) = Bytes(s) + n BY <1>7, <1>8, <1>10, <1>13, <1>14 DEF Bytes
<1>16. Load(q) = Load(reaped[u]) + n /\ Load(reaped[u]) \in Nat
  BY <1>2, <1>6, <1>14, <1>15, LoadIsNat DEF Load
<1>17. Load(q) <= Load(reaped[u]) + n BY <1>7, <1>16
<1>18. Followed(reaped[u], q) BY <1>2, <1>6, <1>13 DEF Followed
<1>19. PICK w : w = [Idle EXCEPT !.pc = "reserved", !.up = u, !.res = x] OBVIOUS
<1>20. PICK ok \in BOOLEAN : /\ Persist([reaped EXCEPT ![u].reservation = x], ok)
                             /\ Resumes(t, IF ok THEN w ELSE Idle)
  BY <1>1, <1>2, <1>4, <1>19 DEF BeginAppend
<1>21. [reaped EXCEPT ![u].reservation = x] = [reaped EXCEPT ![u] = q] BY <1>2, <1>11
<1>22. Stored([reaped EXCEPT ![u] = q]) BY <1>20, <1>21, PersistStores
<1>23. w.pc = "reserved" BY <1>19 DEF Idle
<1>24. TaskFits(w, journal') /\ TaskFits(Idle, journal')
  BY <1>23, FitsElsewhere, RestFits, IdleRest
<1>25. PICK r : r = IF ok THEN w ELSE Idle OBVIOUS
<1>26. task' = [task EXCEPT ![t] = r] /\ TaskFits(r, journal') BY <1>20, <1>24, <1>25 DEF Resumes
<1> QED BY <1>3, <1>7, <1>8, <1>12, <1>17, <1>18, <1>22, <1>26, ChargedStep

LEMMA PublishBudget ==
  ASSUME UploadInv, UploadInv', Budgeted, NEW t \in Tasks, NEW u \in Uploads,
         NEW n \in 0..MaxUploadBytes, BeginPublish(t, u, n)
  PROVE  Budgeted'
<1>1. PICK s : s = journal[u] OBVIOUS
<1>2. s # Nil /\ s \in Session BY <1>1, Typed DEF BeginPublish, Checked
<1>3. /\ s.offset \in Nat /\ s.objectBytes \in Nat /\ s.decoded \in Nat /\ s.epoch \in Nat /\ n \in Nat
      /\ s.reservation \in Reservation \cup {Nil}
  BY <1>2, SessionFields, UploadAssumption
<1>4. PICK k : k = [up |-> u, kind |-> "object", draw |-> draws + 1] OBVIOUS
<1>5. PICK m : m = IF s.dictionary THEN n ELSE s.offset OBVIOUS
<1>6. PICK w : w = [Idle EXCEPT !.pc = "building", !.up = u, !.epoch = s.epoch, !.bytes = m, !.key = k]
  OBVIOUS
<1>7. w.pc = "building" /\ w.up = u /\ w.epoch = s.epoch /\ w.bytes = m BY <1>6 DEF Idle
<1>8. s.state = ClaimState(s) BY <1>1 DEF BeginPublish
<1>9. journal \in Journals BY Typed DEF Journals
<1>10. \A y \in Tasks : ~Builds(task[y])
  BY BuilderUp, NilDiffers DEF BeginPublish
<1>11. CASE s.dictionary
  <2>1. PICK q : q = [s EXCEPT !.decoded = n] OBVIOUS
  <2>2. q \in Session BY <1>2, <1>3, <2>1, NextEpoch, SessionUpdates
  <2>3. /\ q.offset = s.offset /\ q.reservation = s.reservation /\ q.object = s.object
        /\ q.state = s.state /\ q.objectBytes = s.objectBytes /\ q.decoded = n
        /\ q.epoch = s.epoch /\ q.dictionary = s.dictionary
    BY <1>2, <2>1 DEF Session
  <2>4. s.decoded = 0 /\ ProfileUsage(journal) + n <= MaxStorageBytes
    BY <1>1, <1>11 DEF BeginPublish
  <2>5. s.reservation # Nil => s.reservation.bytes \in Nat BY <1>3 DEF Reservation
  <2>6. Bytes(q) <= Bytes(s) + n BY <1>3, <2>3, <2>4, <2>5 DEF Bytes
  <2>7. q # Nil BY <2>2, NilDiffers
  <2>8. Load(q) <= Load(journal[u]) + n BY <1>1, <1>2, <2>6, <2>7 DEF Load
  <2>9. [journal EXCEPT ![u].decoded = n] = [journal EXCEPT ![u] = q] BY <1>1, <2>1
  <2>10. PICK ok \in BOOLEAN : /\ Persist([journal EXCEPT ![u] = q], ok)
                               /\ Resumes(t, IF ok THEN w ELSE Idle)
    BY <1>1, <1>4, <1>5, <1>6, <1>11, <2>9 DEF BeginPublish
  <2>11. /\ Stored([journal EXCEPT ![u] = q])
         /\ ok => journal' = [journal EXCEPT ![u] = q]
    BY <2>10, PersistStores
  <2>12. ok => TaskFits(w, journal')
    <3> SUFFICES ASSUME ok PROVE TaskFits(w, journal') OBVIOUS
    <3>1. journal'[u] = q BY <1>9, <2>11 DEF Journals
    <3>2. Current(w, q)
      BY <1>3, <1>5, <1>7, <1>8, <1>11, <2>3 DEF Current, ClaimState
    <3> QED BY <1>7, <3>1, <3>2 DEF TaskFits
  <2>13. TaskFits(Idle, journal') BY RestFits, IdleRest
  <2>14. PICK r : r = IF ok THEN w ELSE Idle OBVIOUS
  <2>15. task' = [task EXCEPT ![t] = r] /\ TaskFits(r, journal')
    BY <2>10, <2>12, <2>13, <2>14 DEF Resumes
  <2>16. EasedMap(journal, journal) BY <1>9, SameEased
  <2> QED BY <1>3, <1>9, <1>10, <2>2, <2>4, <2>8, <2>11, <2>15, <2>16, ChargedStep
<1>12. CASE ~s.dictionary
  <2>1. task' = [task EXCEPT ![t] = w] /\ UNCHANGED <<journal, durable>>
    BY <1>1, <1>4, <1>5, <1>6, <1>12 DEF BeginPublish, Resumes
  <2>2. Current(w, s) BY <1>3, <1>5, <1>7, <1>8, <1>12 DEF Current
  <2>3. TaskFits(w, journal) BY <1>1, <1>7, <2>2 DEF TaskFits
  <2> QED BY <2>1, <2>3, JournalKept
<1> QED BY <1>11, <1>12

LEMMA CreateBudget ==
  ASSUME UploadInv, UploadInv', Budgeted, NEW t \in Tasks, NEW u \in Uploads, Create(t, u)
  PROVE  Budgeted'
<1>1. PICK reaped : reaped = ReapExpired(journal) OBVIOUS
<1>2. reaped \in Journals /\ EasedMap(journal, reaped) BY <1>1, ReapEased
<1>3. PICK ok \in BOOLEAN, kind \in UploadKinds : Persist([reaped EXCEPT ![u] = NewSession(kind)], ok)
  BY <1>1 DEF Create
<1>4. PICK q : q = NewSession(kind) OBVIOUS
<1>5. q \in Session /\ Bytes(q) = 0
  <2>1. kind.dictionary \in BOOLEAN /\ kind.upstream \in BOOLEAN BY UploadAssumption
  <2>2. q \in Session BY <1>4, <2>1 DEF NewSession, Session, UploadStates
  <2>3. q.offset = 0 /\ q.reservation = Nil /\ q.objectBytes = 0 /\ q.decoded = 0 /\ q.state = "Active"
    BY <1>4 DEF NewSession
  <2> QED BY <2>2, <2>3 DEF Bytes
<1>6. q # Nil BY <1>5, NilDiffers
<1>7. Load(q) <= Load(reaped[u]) + 0
  <2>1. Load(reaped[u]) \in Nat BY <1>2, LoadIsNat DEF Journals
  <2> QED BY <1>5, <1>6, <2>1 DEF Load
<1>8. ProfileUsage(reaped) + 0 <= MaxStorageBytes
  <2>1. journal \in Journals BY Typed DEF Journals
  <2>2. ProfileUsage(reaped) <= ProfileUsage(journal)
    BY <1>2, <2>1, UsageShrinks DEF EasedMap, Eased
  <2>3. ProfileUsage(reaped) \in Nat /\ ProfileUsage(journal) \in Nat BY <1>2, <2>1, AccountedFinite
  <2> QED BY <2>2, <2>3, UploadAssumption DEF Budgeted
<1>9. \A y \in Tasks : y # t /\ Builds(task[y]) /\ task[y].up = u => Followed(reaped[u], q)
  BY BuilderUp DEF Create
<1>10. Stored([reaped EXCEPT ![u] = q]) BY <1>3, <1>4, PersistStores
<1>11. task' = [task EXCEPT ![t] = Rest("idle")] BY IdleRest DEF Create, Resumes
<1>12. TaskFits(Rest("idle"), journal') BY RestFits
<1>13. 0 \in Nat OBVIOUS
<1> QED BY <1>2, <1>5, <1>7, <1>8, <1>9, <1>10, <1>11, <1>12, <1>13, ChargedStep

LEMMA RecordPartBudget ==
  ASSUME UploadInv, UploadInv', Budgeted, NEW t \in Tasks, RecordPart(t)
  PROVE  Budgeted'
<1>1. TaskSound(t, task[t], assembly, files, draws, journal, durable, client)
  BY DEF UploadInv, TasksSound
<1>2. PICK w : w = task[t] OBVIOUS
<1>3. PICK u : u = w.up OBVIOUS
<1>4. PICK s : s = journal[u] OBVIOUS
<1>5. PICK p : p = [key |-> w.key, at |-> w.res.at, bytes |-> w.bytes] OBVIOUS
<1>6. PICK failed : failed = [w EXCEPT !.pc = "failed", !.key = Nil] OBVIOUS
<1>7. w \in Task /\ w.pc = "renamed" /\ u \in Uploads /\ w.res \in Reservation
  BY <1>1, <1>2, <1>3, Typed DEF RecordPart, TaskSound, Shaped
<1>8. failed.pc = "failed" BY <1>6, <1>7 DEF Task
<1>9. \A j : TaskFits(failed, j) /\ TaskFits(Idle, j) BY <1>8, FitsElsewhere, RestFits, IdleRest
<1>10. CASE Resumes(t, failed) /\ UNCHANGED <<mode, journal, durable, client>>
  BY <1>9, <1>10, JournalKept DEF Resumes
<1>11. CASE /\ CheckReservation(t)
            /\ \E ok \in BOOLEAN :
                 /\ Persist([journal EXCEPT ![u] = [Fence(s) EXCEPT
                               !.parts = @ \cup {p}, !.offset = @ + p.bytes]], ok)
                 /\ Resumes(t, IF ok THEN Idle ELSE failed)
  <2>1. s # Nil /\ s \in Session /\ s.state = "Active" /\ s.reservation = w.res
    BY <1>2, <1>3, <1>4, <1>7, <1>11, Typed DEF CheckReservation
  <2>2. SessionSound(u, s, draws, client[u], files) BY <1>4, <1>7 DEF UploadInv, SessionsSound
  <2>3. PICK f : f = Fence(s) OBVIOUS
  <2>4. /\ f \in Session /\ f.reservation = Nil /\ f.state = "Active" /\ f.offset = s.offset
        /\ f.epoch > s.epoch /\ f.objectBytes = s.objectBytes /\ f.decoded = s.decoded
        /\ f.parts = s.parts
    BY <2>1, <2>3, FenceQuiet, FenceEased
  <2>5. /\ s.offset \in Nat /\ s.objectBytes \in Nat /\ s.decoded \in Nat /\ w.bytes \in Nat
        /\ w.res.bytes \in Nat /\ w.bytes <= w.res.bytes /\ w.res # Nil
    BY <1>2, <1>7, <2>1, SessionFields, NilDiffers DEF Task, Reservation, Budgeted, TaskFits
  <2>6. PICK P, m : P = s.parts \cup {p} /\ m = s.offset + w.bytes OBVIOUS
  <2>7. PICK q : q = [f EXCEPT !.parts = P, !.offset = m] OBVIOUS
  <2>8. [Fence(s) EXCEPT !.parts = @ \cup {p}, !.offset = @ + p.bytes] = q
    BY <1>5, <2>3, <2>4, <2>6, <2>7
  <2>9. /\ q.reservation = Nil /\ q.state = "Active" /\ q.offset = m /\ q.epoch = f.epoch
        /\ q.objectBytes = s.objectBytes /\ q.decoded = s.decoded
    BY <2>4, <2>7 DEF Session
  <2>10. Bytes(q) <= Bytes(s) BY <2>1, <2>5, <2>6, <2>9 DEF Bytes
  <2>11. q \in Session
    <3>1. p \in Part
      <4>1. w.key \in FileKey /\ w.res.at \in Nat
        BY <1>1, <1>2, <1>7 DEF TaskSound, Shaped, OwnKey, FileKey, Reservation
      <4> QED BY <1>5, <2>5, <4>1 DEF Part
    <3>2. P \in SUBSET Part /\ m \in Nat BY <2>1, <2>5, <2>6, <3>1, SessionFields
    <3> QED BY <2>4, <2>7, <3>2 DEF Session
  <2>12. q # Nil BY <2>11, NilDiffers
  <2>13. Eased(s, q) BY <2>1, <2>4, <2>9, <2>10, <2>12 DEF Eased, Load, Followed
  <2>14. PICK next : next = [journal EXCEPT ![u] = q] OBVIOUS
  <2>15. EasedMap(journal, next)
    BY <1>4, <1>7, <2>11, <2>13, <2>14, Typed, SameEased, EasedPoint DEF Journals
  <2>16. PICK ok \in BOOLEAN : Persist(next, ok) /\ Resumes(t, IF ok THEN Idle ELSE failed)
    BY <1>11, <2>8, <2>14
  <2>17. Stored(next) BY <2>16, PersistStores
  <2>18. PICK r : r = IF ok THEN Idle ELSE failed OBVIOUS
  <2>19. task' = [task EXCEPT ![t] = r] /\ TaskFits(r, journal') BY <1>9, <2>16, <2>18 DEF Resumes
  <2> QED BY <2>15, <2>17, <2>19, EasedStep
<1> QED BY <1>2, <1>3, <1>4, <1>5, <1>6, <1>10, <1>11 DEF RecordPart

LEMMA RecordObjectBudget ==
  ASSUME UploadInv, UploadInv', Budgeted, NEW t \in Tasks, RecordObject(t)
  PROVE  Budgeted'
<1>1. TaskSound(t, task[t], assembly, files, draws, journal, durable, client)
  BY DEF UploadInv, TasksSound
<1>2. PICK w : w = task[t] OBVIOUS
<1>3. PICK u : u = w.up OBVIOUS
<1>4. PICK s : s = journal[u] OBVIOUS
<1>5. w \in Task /\ w.pc = "built" /\ u \in Uploads /\ w.key \in FileKey
  BY <1>1, <1>2, <1>3, Typed DEF RecordObject, TaskSound, Shaped
<1>6. PICK r : r = Rest("idle") OBVIOUS
<1>7. task' = [task EXCEPT ![t] = r] /\ TaskFits(r, journal') /\ TaskFits(r, journal)
  BY <1>6, IdleRest, RestFits DEF RecordObject, Resumes
<1>8. CASE UNCHANGED <<mode, journal, durable, past>> BY <1>7, <1>8, JournalKept
<1>9. CASE /\ Checked(journal, u) /\ s.state = ClaimState(s) /\ s.epoch = w.epoch
           /\ \E ok \in BOOLEAN :
                Persist([journal EXCEPT ![u] = [s EXCEPT
                           !.object = w.key, !.objectBytes = w.bytes,
                           !.decoded = 0, !.epoch = @ + 1,
                           !.state = IF s.upstream THEN "Ready" ELSE "Complete"]], ok)
  <2>1. s # Nil /\ s \in Session BY <1>4, <1>5, <1>9, Typed DEF Checked
  <2>2. SessionSound(u, s, draws, client[u], files) BY <1>4, <1>5 DEF UploadInv, SessionsSound
  <2>3. s.state \in {"Completing", "Validating"} BY <1>9 DEF ClaimState
  <2>4. s.object = Nil BY <2>1, <2>2, <2>3 DEF SessionSound, Early
  <2>5. w.bytes = IF s.dictionary THEN s.decoded ELSE s.offset
    <3>1. Current(w, s) BY <1>2, <1>3, <1>4, <1>5 DEF Budgeted, TaskFits, Builds
    <3> QED BY <1>9, <2>1, <3>1 DEF Current
  <2>6. /\ s.offset \in Nat /\ s.objectBytes \in Nat /\ s.decoded \in Nat /\ s.epoch \in Nat
        /\ s.reservation \in Reservation \cup {Nil} /\ w.bytes \in Nat
    BY <1>5, <2>1, SessionFields DEF Task
  <2>7. s.reservation # Nil => s.reservation.bytes \in Nat BY <2>6 DEF Reservation
  <2>8. PICK q : q = WithObject(s, w.key, w.bytes) OBVIOUS
  <2>9. /\ q \in Session /\ q.offset = s.offset /\ q.reservation = s.reservation
        /\ q.state \in {"Ready", "Complete"}
    BY <1>5, <2>1, <2>4, <2>6, <2>8, ObjectRecorded
  <2>10. q.objectBytes = w.bytes /\ q.decoded = 0 /\ q.epoch = s.epoch + 1
    <3>1. PICK st, e : st = (IF s.upstream THEN "Ready" ELSE "Complete") /\ e = s.epoch + 1 OBVIOUS
    <3>2. q = [s EXCEPT !.object = w.key, !.objectBytes = w.bytes, !.decoded = 0, !.epoch = e, !.state = st]
      BY <2>8, <3>1 DEF WithObject
    <3> QED BY <2>1, <3>1, <3>2 DEF Session
  <2>11. Bytes(q) <= Bytes(s)
    <3>1. CASE s.dictionary
      <4>1. w.bytes = s.decoded BY <2>5, <3>1
      <4> QED BY <2>3, <2>6, <2>7, <2>9, <2>10, <4>1 DEF Bytes
    <3>2. CASE ~s.dictionary
      <4>1. w.bytes = s.offset /\ s.state = "Completing" BY <1>9, <2>5, <3>2 DEF ClaimState
      <4> QED BY <2>4, <2>6, <2>7, <2>9, <2>10, <4>1 DEF Bytes
    <3> QED BY <3>1, <3>2
  <2>12. q # Nil /\ q.epoch > s.epoch BY <2>6, <2>9, <2>10, NilDiffers
  <2>13. Eased(s, q) BY <2>1, <2>11, <2>12 DEF Eased, Load, Followed
  <2>14. PICK next : next = [journal EXCEPT ![u] = q] OBVIOUS
  <2>15. EasedMap(journal, next)
    BY <1>4, <1>5, <2>9, <2>13, <2>14, Typed, SameEased, EasedPoint DEF Journals
  <2>16. PICK ok \in BOOLEAN : Persist(next, ok) BY <1>9, <2>8, <2>14 DEF WithObject
  <2>17. Stored(next) BY <2>16, PersistStores
  <2> QED BY <1>7, <2>15, <2>17, EasedStep
<1> QED BY <1>2, <1>3, <1>4, <1>8, <1>9 DEF RecordObject

-------------------------------------------------------------------------------
(* Stopping and reopening, and the whole. *)

LEMMA RestingBudget ==
  ASSUME UploadInv, UploadInv', Budgeted, \A t \in Tasks : task'[t] = Idle,
         durable' = journal', EasedMap(durable, journal')
  PROVE  Budgeted'
<1>1. durable \in Journals BY Typed DEF Journals
<1>2. journal' \in Journals BY DEF UploadInv, UploadTypeOK, Journals
<1>3. ProfileUsage(journal') <= ProfileUsage(durable)
  BY <1>1, <1>2, UsageShrinks DEF EasedMap, Eased
<1>4. ProfileUsage(journal') <= MaxStorageBytes
  BY <1>1, <1>2, <1>3, AccountedFinite, UploadAssumption DEF Budgeted
<1>5. \A t \in Tasks : TaskFits(task'[t], journal') BY RestFits, IdleRest
<1> QED BY <1>4, <1>5 DEF Budgeted

LEMMA RecoveredEased ==
  ASSUME NEW s \in Session
  PROVE  Eased(s, Recovered(s))
<1>1. PICK st : st = CASE s.state = "Validating" -> "ValidationFailed"
                       [] s.state = "Dispatching" -> "Indeterminate"
                       [] OTHER -> s.state
  OBVIOUS
<1>2. PICK d : d = (IF st = s.state THEN 0 ELSE 1)
                     + (IF s.reservation = Nil \/ s.state = "Validating" THEN 0 ELSE 1)
  OBVIOUS
<1>3. s.epoch \in Nat BY SessionFields
<1>4. d \in Nat /\ (st # s.state => d > 0) BY <1>2
<1>5. \/ s.state = "Validating" /\ st = "ValidationFailed"
      \/ s.state = "Dispatching" /\ st = "Indeterminate"
      \/ st = s.state
  BY <1>1
<1>6. PICK n : n = s.epoch + d OBVIOUS
<1>7. n \in Nat /\ (n > s.epoch \/ (n = s.epoch /\ st = s.state)) BY <1>3, <1>4, <1>6
<1>8. PICK q : q = [s EXCEPT !.state = st, !.reservation = Nil, !.epoch = n] OBVIOUS
<1>9. Recovered(s) = q BY <1>1, <1>2, <1>6, <1>8 DEF Recovered
<1>10. q \in Session BY <1>9, RecoveredQuiet DEF Quiet
<1>11. /\ q.offset = s.offset /\ q.reservation = Nil /\ q.object = s.object
       /\ q.objectBytes = s.objectBytes /\ q.decoded = s.decoded
       /\ q.state = st /\ q.epoch = n /\ q.dictionary = s.dictionary
  BY <1>8 DEF Session
<1>12. q.state = "Completing" => s.state = "Completing" BY <1>5, <1>11
<1>13. \/ q.epoch > s.epoch
       \/ q.epoch = s.epoch /\ q.state = s.state /\ q.dictionary = s.dictionary
  BY <1>7, <1>11
<1>14. Eased(s, q) BY <1>10, <1>11, <1>12, <1>13, EasedSession
<1> QED BY <1>9, <1>14

LEMMA RestartBudget ==
  ASSUME UploadInv, UploadInv', Budgeted, Stop \/ ReopenFence \/ ReopenClear \/ ReopenValidate
  PROVE  Budgeted'
<1>1. durable \in Journals BY Typed DEF Journals
<1>2. CASE Stop
  <2>1. EasedMap(durable, journal') BY <1>1, <1>2, SameEased DEF Stop
  <2> QED BY <1>2, <2>1, RestingBudget DEF Stop
<1>3. CASE ReopenFence
  <2>1. \A t \in Tasks : task'[t] = Idle
    BY <1>3 DEF UploadInv, Quiescent, Running, ReopenFence
  <2>2. journal' = [u \in Uploads |-> IF durable[u] = Nil THEN Nil ELSE Recovered(durable[u])]
        /\ durable' = journal'
    BY <1>3 DEF ReopenFence
  <2>3. ASSUME NEW v \in Uploads PROVE Eased(durable[v], journal'[v])
    <3>1. durable[v] \in Session \cup {Nil} BY <1>1 DEF Journals
    <3> QED BY <2>2, <3>1, RecoveredEased, EasedSame
  <2> QED BY <2>1, <2>2, <2>3, RestingBudget DEF EasedMap
<1>4. CASE ReopenClear
  <2>1. durable = journal /\ \A t \in Tasks : task'[t] = Idle
    BY <1>4 DEF UploadInv, Quiescent, Running, ReopenClear
  <2>2. durable' = journal' /\ journal' = durable BY <1>4, <2>1 DEF ReopenClear
  <2>3. EasedMap(durable, journal') BY <1>1, <2>2, SameEased
  <2> QED BY <2>1, <2>2, <2>3, RestingBudget
<1>5. CASE ReopenValidate
  <2>1. \A t \in Tasks : task'[t] = Idle
    BY <1>5 DEF UploadInv, Quiescent, Running, ReopenValidate
  <2>2. journal' = Undeleted(durable) /\ durable' = journal' BY <1>5 DEF ReopenValidate
  <2>3. ASSUME NEW v \in Uploads PROVE Eased(durable[v], journal'[v])
    <3>1. durable[v] \in Session \cup {Nil} BY <1>1 DEF Journals
    <3>2. journal'[v] \in {Nil, durable[v]} BY <2>2 DEF Undeleted
    <3>3. Load(Nil) = 0 /\ Load(durable[v]) \in Nat BY <3>1, LoadIsNat DEF Load
    <3>4. Eased(durable[v], Nil) BY <3>3 DEF Eased, Followed
    <3> QED BY <3>1, <3>2, <3>4, EasedSame
  <2> QED BY <2>1, <2>2, <2>3, RestingBudget DEF EasedMap
<1> QED BY <1>2, <1>3, <1>4, <1>5

LEMMA BudgetInitially == UploadInit => Budgeted
<1> SUFFICES ASSUME UploadInit PROVE Budgeted OBVIOUS
<1>1. journal = [u \in Uploads |-> Nil] /\ durable = journal /\ task = [t \in Tasks |-> Idle]
  BY DEF UploadInit
<1>2. journal \in Journals BY <1>1 DEF Journals
<1>3. ProfileUsage(journal) = 0 BY <1>1, <1>2, UsageOfNothing
<1>4. \A t \in Tasks : TaskFits(task[t], journal) BY <1>1, RestFits, IdleRest
<1> QED BY <1>1, <1>3, <1>4, UploadAssumption DEF Budgeted

LEMMA BudgetNext == UploadInv /\ UploadInv' /\ Budgeted /\ [UploadNext]_uploadVars => Budgeted'
<1> SUFFICES ASSUME UploadInv, UploadInv', Budgeted, [UploadNext]_uploadVars PROVE Budgeted' OBVIOUS
<1>1. CASE UNCHANGED <<journal, durable, task>> BY <1>1 DEF Budgeted
<1>2. ASSUME NEW t \in Tasks, TaskStep(t) PROVE Budgeted'
  <2>1. CASE \/ Enter(t) \/ CleanupOrphanData(t) \/ RenamePart(t) \/ BuildObject(t) \/ Send(t)
             \/ RemoveUploadFiles(t) \/ Cancel(t) \/ (\E n \in 1..MaxUploadBytes : StagePart(t, n))
    BY <2>1, QuietBudget
  <2>2. CASE \/ CollectScan(t) \/ RecordPart(t) \/ AbortAppend(t) \/ RecordObject(t)
             \/ RemoveTombstone(t)
    BY <2>2, CollectScanBudget, RecordPartBudget, AbortBudget, RecordObjectBudget,
       RemoveTombstoneBudget
  <2>3. CASE \E terminal \in {"Complete", "Indeterminate"} : FinishDispatch(t, terminal)
    BY <2>3, FinishDispatchBudget
  <2>4. ASSUME NEW u \in Uploads,
               \/ Create(t, u) \/ Lookup(t, u) \/ ClaimComplete(t, u) \/ FailValidation(t, u)
               \/ BeginDispatch(t, u) \/ Delete(t, u) \/ Collect(t, u)
        PROVE  Budgeted'
    BY <2>4, CreateBudget, LookupBudget, ClaimBudget, FailValidationBudget, BeginDispatchBudget,
       DeleteBudget
  <2>5. ASSUME NEW u \in Uploads, NEW n \in 0..MaxUploadBytes,
               DeclareLength(t, u, n) \/ BeginPublish(t, u, n)
        PROVE  Budgeted'
    BY <2>5, DeclareBudget, PublishBudget
  <2>6. ASSUME NEW u \in Uploads, NEW n \in 1..MaxUploadBytes, BeginAppend(t, u, n)
        PROVE  Budgeted'
    BY <2>6, AppendBudget
  <2> QED BY <1>2, <2>1, <2>2, <2>3, <2>4, <2>5, <2>6 DEF TaskStep
<1>3. ASSUME NEW u \in Uploads, LeaseLapses(u) \/ SessionExpires(u) PROVE Budgeted'
  BY <1>1, <1>3 DEF LeaseLapses, SessionExpires
<1>4. CASE Stop \/ ReopenFence \/ ReopenClear \/ ReopenValidate BY <1>4, RestartBudget
<1> QED BY <1>1, <1>2, <1>3, <1>4 DEF UploadNext, uploadVars

(* What the journal accounts to a profile never exceeds its storage: whichever
   requests interleave, whichever version of an uncertain journal a crash leaves,
   and whatever an object turns out to hold when it is recorded at last.      *)
THEOREM StorageStaysBounded == UploadSpec => []StorageBounded
<1>1. Budgeted => StorageBounded BY DEF Budgeted, StorageBounded
<1>2. UploadInit /\ [][UploadNext]_uploadVars => []Budgeted
  BY UploadInitially, UploadStep, BudgetInitially, BudgetNext, PTL
<1> QED BY <1>1, <1>2, PTL DEF UploadSpec

===============================================================================
