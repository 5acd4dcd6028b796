---------------------------- MODULE ObjectStore ----------------------------
(***************************************************************************)
(* kmud's object store: the in-memory map of live objects (package         *)
(* datastore), the MongoDB documents behind it, and the write-behind that  *)
(* keeps the second in step with the first (package database).             *)
(*                                                                         *)
(* A session goroutine looks an object up (Retrieve), calls its setters    *)
(* (writeLock), creates it (dbinit) or deletes it (DeleteObject).  Most    *)
(* setters only announce the object's id on a one-slot channel while they  *)
(* hold the object's write lock; the watcher goroutine collects the ids    *)
(* and, once a second, starts one commitObject goroutine for each of them. *)
(* Item.SetContainerId commits in the session's own goroutine instead.     *)
(*                                                                         *)
(* What an object holds is abstracted to the set of updates applied to it: *)
(* a setter adds one, an upsert replaces the whole document by the set the *)
(* object had when it was marshalled.  Two structs in memory may stand for *)
(* one document, so structs (Objects) and ids (Ids) are kept apart.        *)
(***************************************************************************)
EXTENDS Naturals, Functions

CONSTANTS
    Sessions,   \* goroutines that serve a connection or drive an NPC
    Commits,    \* goroutines `go commitObject(id)' (the pool bounds how many)
    Objects,    \* addresses of objects allocated in memory (bounded pool)
    Ids,        \* the ids bson.NewObjectId hands out (bounded pool)
    Updates,    \* calls of a setter, each made at most once (bounds the run)
    InitialIds, \* ids of the documents the database holds at start
    Ops,        \* which calls the sessions of an instance make
    NoObject, NoId, NoProc, NoUpdate

Procs == Sessions \cup Commits

AllOps == {"create", "retrieve", "write", "syncWrite", "delete", "crash"}

ASSUME ConstantsAssumption ==
    /\ Sessions \cap Commits = {}
    /\ InitialIds \subseteq Ids
    /\ Ops \subseteq AllOps
    /\ NoObject \notin Objects
    /\ NoId \notin Ids
    /\ NoProc \notin Procs
    /\ NoUpdate \notin Updates

VARIABLES
    data,            \* datastore._data: the live object of each id
    bound,           \* Id field of each allocated struct, NoId if not allocated
    content,         \* the fields of each struct: the updates applied to it
    destroyed,       \* structs whose destroyed flag is set
    writer, readers, \* who holds each struct's RWMutex
    channel,         \* modifiedObjectChannel, one slot
    modifiedObjects, \* the ids the watcher has collected
    stored, doc,     \* MongoDB: which ids have a document, and its content
    pc, id, target,  \* where a goroutine is in a call, and the call's locals
    held,            \* the object a session has in hand between calls
    upd, snap,       \* a synchronous setter's update; the marshalled document
    known, issued,   \* ids handed out and setters called so far
    acked,           \* synchronous updates whose call has returned (history)
    erased           \* ids whose deletion has begun (history)

memory == <<data, bound, content, destroyed>>
locks  == <<writer, readers>>
queue  == <<channel, modifiedObjects>>
mongo  == <<stored, doc>>
locals == <<pc, id, target, upd, snap>>
supply == <<known, issued>>
vars   == <<memory, locks, queue, mongo, locals, held, supply, acked, erased>>

----------------------------------------------------------------------------
(* Moving a goroutine through a call.                                      *)

Goto(p, l) == pc' = [pc EXCEPT ![p] = l]

\* Enter a call that works on id i and struct o.
Enter(p, l, i, o) ==
    /\ Goto(p, l)
    /\ id' = [id EXCEPT ![p] = i]
    /\ target' = [target EXCEPT ![p] = o]
    /\ UNCHANGED <<upd, snap>>

\* Return from the call, or end the goroutine.
Leave(p) ==
    /\ Goto(p, "idle")
    /\ id' = [id EXCEPT ![p] = NoId]
    /\ target' = [target EXCEPT ![p] = NoObject]
    /\ upd' = [upd EXCEPT ![p] = NoUpdate]
    /\ snap' = [snap EXCEPT ![p] = {}]

Idle(s, op) == pc[s] = "idle" /\ op \in Ops

Locked(o) == writer[o] # NoProc
InUse(o)  == Locked(o) \/ readers[o] # {}

Hold(s, o) == held' = [held EXCEPT ![s] = o]

\* A struct allocated with id i and fields c.
Allocate(o, i, c) ==
    /\ bound[o] = NoId
    /\ bound' = [bound EXCEPT ![o] = i]
    /\ content' = [content EXCEPT ![o] = c]

----------------------------------------------------------------------------
(* dbinit, called by every New...: a fresh id, into the map, then a        *)
(* commitObject in the caller's goroutine.                                 *)

Create(s) ==
    /\ Idle(s, "create")
    /\ \E o \in Objects, i \in Ids \ known :
          /\ Allocate(o, i, {})
          /\ data' = [data EXCEPT ![i] = o]
          /\ known' = known \cup {i}
          /\ Enter(s, "commit", i, NoObject)
          /\ Hold(s, o)
    /\ UNCHANGED <<destroyed, locks, queue, mongo, issued, acked, erased>>

(* Retrieve: ContainsId and Get are two critical sections of _data's       *)
(* mutex, and a miss reads the document before it takes the mutex again.   *)

RetrieveContains(s) ==
    /\ Idle(s, "retrieve")
    /\ \E i \in known :
          Enter(s, IF data[i] # NoObject THEN "get" ELSE "load", i, NoObject)
    /\ UNCHANGED <<memory, locks, queue, mongo, held, supply, acked, erased>>

RetrieveGet(s) ==
    /\ pc[s] = "get"
    /\ Hold(s, data[id[s]])
    /\ Leave(s)
    /\ UNCHANGED <<memory, locks, queue, mongo, supply, acked, erased>>

RetrieveLoad(s) ==
    /\ pc[s] = "load"
    /\ id[s] \in stored
    /\ \E o \in Objects :
          /\ Allocate(o, id[s], doc[id[s]])
          /\ Enter(s, "set", id[s], o)
    /\ UNCHANGED <<data, destroyed, locks, queue, mongo, held, supply, acked,
                   erased>>

RetrieveNotFound(s) ==
    /\ pc[s] = "load"
    /\ id[s] \notin stored
    /\ Hold(s, NoObject)
    /\ Leave(s)
    /\ UNCHANGED <<memory, locks, queue, mongo, supply, acked, erased>>

RetrieveSet(s) ==
    /\ pc[s] = "set"
    /\ data' = [data EXCEPT ![id[s]] = target[s]]
    /\ Hold(s, target[s])
    /\ Leave(s)
    /\ UNCHANGED <<bound, content, destroyed, locks, queue, mongo, supply, acked,
                   erased>>

----------------------------------------------------------------------------
(* Setters.  writeLock runs the worker, sends the id, and only then        *)
(* unlocks: its two defers run in reverse order.  SetContainerId unlocks   *)
(* first and then commits itself; its early return changes nothing.        *)

\* The lock is taken and the worker has run.
LockAndUpdate(s, op, next) ==
    /\ Idle(s, op)
    /\ held[s] # NoObject
    /\ ~InUse(held[s])
    /\ \E u \in Updates \ issued :
          /\ writer' = [writer EXCEPT ![held[s]] = s]
          /\ content' = [content EXCEPT ![held[s]] = @ \cup {u}]
          /\ issued' = issued \cup {u}
          /\ upd' = [upd EXCEPT ![s] = IF op = "syncWrite" THEN u ELSE NoUpdate]
    /\ Goto(s, next)
    /\ id' = [id EXCEPT ![s] = bound[held[s]]]
    /\ target' = [target EXCEPT ![s] = held[s]]
    /\ UNCHANGED <<data, bound, destroyed, readers, queue, mongo, snap, held,
                   known, acked, erased>>

Write(s) == LockAndUpdate(s, "write", "modified")

SyncWrite(s) == LockAndUpdate(s, "syncWrite", "syncUnlock")

\* Faulty variant: a send that does not block, on a channel without a slot; it
\* is lost unless the watcher is receiving.
ModifiedDropped(s) ==
    /\ pc[s] = "modified"
    /\ channel' \in IF channel = NoId THEN {NoId, id[s]} ELSE {channel}
    /\ Goto(s, "unlock")
    /\ UNCHANGED <<memory, locks, modifiedObjects, mongo, id, target, upd, snap,
                   held, supply, acked, erased>>

\* modified(): blocks, with the object locked, while the slot is taken.
Modified(s) ==
    /\ pc[s] = "modified"
    /\ channel = NoId
    /\ channel' = id[s]
    /\ Goto(s, "unlock")
    /\ UNCHANGED <<memory, locks, modifiedObjects, mongo, id, target, upd, snap,
                   held, supply, acked, erased>>

WriteUnlock(s) ==
    /\ pc[s] = "unlock"
    /\ writer' = [writer EXCEPT ![target[s]] = NoProc]
    /\ Leave(s)
    /\ UNCHANGED <<memory, readers, queue, mongo, held, supply, acked, erased>>

SyncUnlock(s) ==
    /\ pc[s] = "syncUnlock"
    /\ writer' = [writer EXCEPT ![target[s]] = NoProc]
    /\ Enter(s, "commit", id[s], NoObject)
    /\ UNCHANGED <<memory, readers, queue, mongo, held, supply, acked, erased>>

----------------------------------------------------------------------------
(* commitObject, in its own goroutine or in a session's.  It returns nothing: *)
(* SetContainerId says true whether or not anything was written.              *)

Acknowledge(p) ==
    acked' = IF upd[p] = NoUpdate THEN acked ELSE acked \cup {<<id[p], upd[p]>>}

CommitMissing(p) ==
    /\ pc[p] = "commit"
    /\ data[id[p]] = NoObject
    /\ Acknowledge(p)
    /\ Leave(p)
    /\ UNCHANGED <<memory, locks, queue, mongo, held, supply, erased>>

CommitGet(p) ==
    /\ pc[p] = "commit"
    /\ data[id[p]] # NoObject
    /\ Enter(p, "isDestroyed", id[p], data[id[p]])
    /\ UNCHANGED <<memory, locks, queue, mongo, held, supply, acked, erased>>

\* IsDestroyed reads the flag under a read lock of its own.
CommitIsDestroyed(p) ==
    /\ pc[p] = "isDestroyed"
    /\ ~Locked(target[p])
    /\ IF target[p] \in destroyed
          THEN Acknowledge(p) /\ Leave(p)
          ELSE UNCHANGED acked /\ Enter(p, "readLock", id[p], target[p])
    /\ UNCHANGED <<memory, locks, queue, mongo, held, supply, erased>>

\* Faulty variant: marshals without keeping the read lock.
CommitMarshalUnlocked(p) ==
    /\ pc[p] = "readLock"
    /\ ~Locked(target[p])
    /\ snap' = [snap EXCEPT ![p] = content[target[p]]]
    /\ Goto(p, "upsert")
    /\ UNCHANGED <<memory, locks, queue, mongo, id, target, upd, held, supply,
                   acked, erased>>

\* ReadLock, and the driver marshals the object.
CommitMarshal(p) ==
    /\ pc[p] = "readLock"
    /\ ~Locked(target[p])
    /\ readers' = [readers EXCEPT ![target[p]] = @ \cup {p}]
    /\ snap' = [snap EXCEPT ![p] = content[target[p]]]
    /\ Goto(p, "upsert")
    /\ UNCHANGED <<memory, writer, queue, mongo, id, target, upd, held, supply,
                   acked, erased>>

\* Faulty variant: ReadUnlock is forgotten.
CommitUpsertLocked(p) ==
    /\ pc[p] = "upsert"
    /\ stored' = stored \cup {id[p]}
    /\ doc' = [doc EXCEPT ![id[p]] = snap[p]]
    /\ Acknowledge(p)
    /\ Leave(p)
    /\ UNCHANGED <<memory, locks, queue, held, supply, erased>>

\* The database applies the upsert and answers; ReadUnlock.
CommitUpsert(p) ==
    /\ pc[p] = "upsert"
    /\ stored' = stored \cup {id[p]}
    /\ doc' = [doc EXCEPT ![id[p]] = snap[p]]
    /\ readers' = [readers EXCEPT ![target[p]] = @ \ {p}]
    /\ Acknowledge(p)
    /\ Leave(p)
    /\ UNCHANGED <<memory, writer, queue, held, supply, erased>>

----------------------------------------------------------------------------
(* DeleteObject.  A nil object, or a document already gone, panics: the    *)
(* session ends and the goroutine is back where a new session starts.      *)

DeleteGet(s) ==
    /\ Idle(s, "delete")
    /\ held[s] # NoObject
    /\ LET i == bound[held[s]]
       IN  IF data[i] = NoObject
             THEN Hold(s, NoObject) /\ UNCHANGED locals
             ELSE Enter(s, "remove", i, data[i]) /\ UNCHANGED held
    /\ UNCHANGED <<memory, locks, queue, mongo, supply, acked, erased>>

DeleteRemove(s) ==
    /\ pc[s] = "remove"
    /\ data' = [data EXCEPT ![id[s]] = NoObject]
    /\ erased' = erased \cup {id[s]}
    /\ Goto(s, "destroy")
    /\ UNCHANGED <<bound, content, destroyed, locks, queue, mongo, id, target,
                   upd, snap, held, supply, acked>>

DeleteDestroy(s) ==
    /\ pc[s] = "destroy"
    /\ ~InUse(target[s])
    /\ destroyed' = destroyed \cup {target[s]}
    /\ Goto(s, "removeId")
    /\ UNCHANGED <<data, bound, content, locks, queue, mongo, id, target, upd,
                   snap, held, supply, acked, erased>>

DeleteRemoveId(s) ==
    /\ pc[s] = "removeId"
    /\ stored' = stored \ {id[s]}
    /\ IF id[s] \in stored THEN UNCHANGED held ELSE Hold(s, NoObject)
    /\ Leave(s)
    /\ UNCHANGED <<memory, locks, queue, doc, supply, acked, erased>>

----------------------------------------------------------------------------
(* The watcher goroutine of watchModifiedObjects.                          *)

\* Faulty variant: a receive that yields the zero id when nothing was sent.
WatcherReceiveZero ==
    /\ modifiedObjects' = modifiedObjects \cup {channel}
    /\ channel' = NoId
    /\ UNCHANGED <<memory, locks, mongo, locals, held, supply, acked, erased>>

WatcherReceive ==
    /\ channel # NoId
    /\ modifiedObjects' = modifiedObjects \cup {channel}
    /\ channel' = NoId
    /\ UNCHANGED <<memory, locks, mongo, locals, held, supply, acked, erased>>

\* One goroutine for each id collected since the last timeout.
WatcherTimeout ==
    /\ \E C \in SUBSET {p \in Commits : pc[p] = "idle"} :
       \E job \in Bijection(C, modifiedObjects) :
          /\ pc' = [p \in Procs |-> IF p \in C THEN "commit" ELSE pc[p]]
          /\ id' = [p \in Procs |-> IF p \in C THEN job[p] ELSE id[p]]
    /\ modifiedObjects' = {}
    /\ UNCHANGED <<memory, locks, channel, mongo, target, upd, snap, held,
                   supply, acked, erased>>

(* The server stops (a kill, or a panic in a goroutine that nothing        *)
(* recovers, such as a failed upsert) and starts again on the same         *)
(* database: everything in memory is lost.                                 *)

Crash ==
    /\ "crash" \in Ops
    /\ data' = [i \in Ids |-> NoObject]
    /\ bound' = [o \in Objects |-> NoId]
    /\ content' = [o \in Objects |-> {}]
    /\ destroyed' = {}
    /\ writer' = [o \in Objects |-> NoProc]
    /\ readers' = [o \in Objects |-> {}]
    /\ channel' = NoId
    /\ modifiedObjects' = {}
    /\ pc' = [p \in Procs |-> "idle"]
    /\ id' = [p \in Procs |-> NoId]
    /\ target' = [p \in Procs |-> NoObject]
    /\ upd' = [p \in Procs |-> NoUpdate]
    /\ snap' = [p \in Procs |-> {}]
    /\ held' = [s \in Sessions |-> NoObject]
    /\ UNCHANGED <<mongo, supply, acked, erased>>

----------------------------------------------------------------------------
Init ==
    /\ data = [i \in Ids |-> NoObject]
    /\ bound = [o \in Objects |-> NoId]
    /\ content = [o \in Objects |-> {}]
    /\ destroyed = {}
    /\ writer = [o \in Objects |-> NoProc]
    /\ readers = [o \in Objects |-> {}]
    /\ channel = NoId
    /\ modifiedObjects = {}
    /\ pc = [p \in Procs |-> "idle"]
    /\ id = [p \in Procs |-> NoId]
    /\ target = [p \in Procs |-> NoObject]
    /\ upd = [p \in Procs |-> NoUpdate]
    /\ snap = [p \in Procs |-> {}]
    /\ held = [s \in Sessions |-> NoObject]
    /\ stored = InitialIds
    /\ doc = [i \in Ids |-> {}]
    /\ known = InitialIds
    /\ issued = {}
    /\ acked = {}
    /\ erased = {}

CommitStep(p) ==
    \/ CommitMissing(p) \/ CommitGet(p) \/ CommitIsDestroyed(p)
    \/ CommitMarshal(p) \/ CommitUpsert(p)

\* The calls a session may choose to make ...
Call(s) ==
    Create(s) \/ RetrieveContains(s) \/ Write(s) \/ SyncWrite(s) \/ DeleteGet(s)

\* ... and the steps that finish a call once it is made.
Continue(s) ==
    \/ RetrieveGet(s) \/ RetrieveLoad(s) \/ RetrieveNotFound(s) \/ RetrieveSet(s)
    \/ Modified(s) \/ WriteUnlock(s) \/ SyncUnlock(s)
    \/ DeleteRemove(s) \/ DeleteDestroy(s) \/ DeleteRemoveId(s)

Next ==
    \/ \E s \in Sessions : Call(s) \/ Continue(s)
    \/ \E p \in Procs : CommitStep(p)
    \/ WatcherReceive
    \/ WatcherTimeout
    \/ Crash

Spec == Init /\ [][Next]_vars

(* What the callers of Retrieve take for granted: an id is represented by  *)
(* at most one struct in memory.  Retrieve does not ensure it when two     *)
(* sessions miss the same id at once, or one misses it while another       *)
(* deletes it; SoloSpec keeps the behaviours in which neither happens.     *)
SingleInstance ==
    \A o1, o2 \in Objects : bound[o1] = bound[o2] /\ bound[o1] # NoId => o1 = o2

SoloNext == Next /\ SingleInstance'

SoloSpec == Init /\ [][SoloNext]_vars

(* Goroutines are scheduled; sync.RWMutex starves neither readers nor      *)
(* writers; a channel serves blocked senders in order; select picks among  *)
(* ready cases at random.  No session is obliged to make a call.           *)
Fairness ==
    /\ \A s \in Sessions : SF_vars(Continue(s))
    /\ \A p \in Procs : SF_vars(CommitStep(p))
    /\ SF_vars(WatcherReceive)
    /\ SF_vars(WatcherTimeout)

FairSpec == Spec /\ Fairness

----------------------------------------------------------------------------
(* Invariants.                                                             *)

Labels == {"idle", "commit", "isDestroyed", "readLock", "upsert", "get", "load",
           "set", "modified", "unlock", "syncUnlock", "remove", "destroy",
           "removeId"}

\* Every variable has the type its Go counterpart has.
TypeOK ==
    /\ data \in [Ids -> Objects \cup {NoObject}]
    /\ bound \in [Objects -> Ids \cup {NoId}]
    /\ content \in [Objects -> SUBSET Updates]
    /\ destroyed \subseteq Objects
    /\ writer \in [Objects -> Sessions \cup {NoProc}]
    /\ readers \in [Objects -> SUBSET Procs]
    /\ channel \in Ids \cup {NoId}
    /\ modifiedObjects \subseteq Ids
    /\ stored \subseteq Ids
    /\ doc \in [Ids -> SUBSET Updates]
    /\ pc \in [Procs -> Labels]
    /\ id \in [Procs -> Ids \cup {NoId}]
    /\ target \in [Procs -> Objects \cup {NoObject}]
    /\ upd \in [Procs -> Updates \cup {NoUpdate}]
    /\ snap \in [Procs -> SUBSET Updates]
    /\ held \in [Sessions -> Objects \cup {NoObject}]
    /\ known \subseteq Ids
    /\ issued \subseteq Updates
    /\ acked \subseteq Ids \X Updates
    /\ erased \subseteq Ids

\* A struct's RWMutex admits one writer or any number of readers, and only the
\* goroutines that are between its lock and unlock calls hold it.
LocksExclude ==
    \A o \in Objects :
        /\ writer[o] # NoProc => readers[o] = {}
        /\ \A s \in Sessions : writer[o] = s =>
               pc[s] \in {"modified", "unlock", "syncUnlock"} /\ target[s] = o
        /\ \A p \in readers[o] : pc[p] = "upsert" /\ target[p] = o

\* A commit in flight carries the content the struct still has: setters wait
\* for it, although it holds only a read lock (database.go:214-216).
SnapshotsAreCurrent ==
    \A p \in Procs : pc[p] = "upsert" => snap[p] = content[target[p]]

\* The document of the live object of i holds all the object does.
Saved(i) == i \in stored /\ doc[i] = content[data[i]]

InCommit == {"commit", "isDestroyed", "readLock", "upsert"}

\* The id of i is on its way from the channel to a commit that has not ended.
Queued(i) ==
    \/ channel = i
    \/ i \in modifiedObjects
    \/ \E p \in Procs : id[p] = i /\ pc[p] \in InCommit

\* Somebody is still going to write the live object of i.
Pending(i) == writer[data[i]] # NoProc \/ Queued(i)

\* No update is forgotten: a live object whose document is out of date is on
\* its way to the database, whatever the interleaving of setters, watcher,
\* timer, commits and deletes (dbobject.go:38-43, database.go:65-91, 205-223).
NoLostUpdate ==
    \A i \in Ids : data[i] # NoObject => Saved(i) \/ Pending(i)

\* When SetContainerId has returned true, its update is in the document, and
\* for good: a crash, a concurrent commit or a later setter does not take it out
\* again.  Only an update of an object that is being deleted is acknowledged and
\* not written (item.go:136-146, database.go:205-210).
SyncedUpdatesSurvive ==
    \A a \in acked :
        a[1] \notin erased => a[1] \in stored /\ a[2] \in doc[a[1]]

\* A document is only ever overwritten by a later state of its object: commits
\* of one object overlap, but each upserts under the read lock it marshalled
\* under (database.go:214-216).
DocumentsAdvance ==
    [][\A i \in stored \cap stored' : doc[i] \subseteq doc'[i]]_vars

\* A document is never brought back: it appears only while its object is live
\* ("DeleteUser ... GetUserByName(name1) ... Equals, nil", model_test.go:62-64).
DeletedStaysDeleted ==
    [][\A i \in stored' \ stored : data[i] # NoObject]_vars

\* Every update of a live object reaches its document, unless the object is
\* deleted or the server stops first.
UpdatesReachDatabase ==
    \A i \in Ids, u \in Updates :
        (data[i] # NoObject /\ u \in content[data[i]])
            ~> (data[i] = NoObject \/ (i \in stored /\ u \in doc[i]))

\* No setter or deletion blocks for ever, and no commit: neither the object's
\* lock nor the one-slot channel that is filled inside it can stop it.
\* (Retrieve takes neither; the pool of structs bounds it.)
CallsReturn ==
    \A p \in Procs :
        (pc[p] \notin {"idle", "get", "load", "set"}) ~> (pc[p] = "idle")

----------------------------------------------------------------------------
(* The store implements DurableStore.                                      *)

\* The value a session sees: the struct's, or the document it would load.  What
\* is left of an id whose deletion has begun counts for nothing.
Current ==
    [i \in Ids |->
        IF i \in erased THEN {}
        ELSE IF data[i] = NoObject THEN doc[i] ELSE content[data[i]]]

Documents == [i \in Ids |-> IF i \in erased THEN {} ELSE doc[i]]

Durable == INSTANCE DurableStore WITH current <- Current, durable <- Documents

\* Behind the map, channel, timer and goroutines, callers see a current value
\* that a durable one trails, whole value by whole value; deleting an object
\* disturbs neither value of another.
ImplementsDurableStore == Durable!Spec
=============================================================================
