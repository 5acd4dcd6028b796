------------------------- MODULE ObjectStore_proofs -------------------------
(***************************************************************************)
(* Theorems about ObjectStore, for any number of sessions, commit          *)
(* goroutines, structs, ids and updates.                                   *)
(***************************************************************************)
EXTENDS ObjectStore, TLAPS

----------------------------------------------------------------------------
(* The inductive invariants.                                               *)

\* Where a goroutine's target is a struct it works on.
HasTarget == {"isDestroyed", "readLock", "upsert", "set", "modified", "unlock",
              "syncUnlock", "remove", "destroy", "removeId"}

\* References lead to allocated structs of the right id.
References ==
    /\ \A i \in Ids : data[i] # NoObject => bound[data[i]] = i
    /\ \A s \in Sessions : held[s] # NoObject => bound[held[s]] # NoId
    /\ \A o \in destroyed : bound[o] # NoId
    /\ \A o \in Objects : bound[o] # NoId => bound[o] \in known
    /\ \A p \in Procs : pc[p] # "idle" => id[p] \in known
    /\ \A p \in Procs : pc[p] \in HasTarget =>
          target[p] \in Objects /\ bound[target[p]] = id[p]
    /\ \A c \in Commits : pc[c] \in InCommit \cup {"idle"}
    /\ modifiedObjects \subseteq known
    /\ channel # NoId => channel \in known
    /\ stored \subseteq known

\* A struct that Retrieve has filled but not yet published is private.
Unpublished ==
    \A s \in Sessions : pc[s] = "set" =>
        /\ \A p \in Procs \ {s} : pc[p] \in HasTarget => target[p] # target[s]
        /\ \A t \in Sessions : held[t] # target[s]
        /\ \A i \in Ids : data[i] # target[s]
        /\ target[s] \notin destroyed

\* The other half of LocksExclude: whoever is inside holds the lock.
LocksHeld ==
    /\ \A s \in Sessions :
          pc[s] \in {"modified", "unlock", "syncUnlock"} => writer[target[s]] = s
    /\ \A p \in Procs : pc[p] = "upsert" => p \in readers[target[p]]

StoreInv ==
    /\ TypeOK
    /\ References
    /\ Unpublished
    /\ LocksExclude
    /\ LocksHeld
    /\ SnapshotsAreCurrent

\* With one struct for each id: a deletion has emptied the map's entry before
\* it marks the struct, and a struct is never behind its document.
DeletedIsUnmapped ==
    /\ \A p \in Procs : pc[p] \in {"destroy", "removeId"} => data[id[p]] = NoObject
    /\ \A o \in destroyed : data[bound[o]] = NoObject

DocumentsTrail ==
    \A o \in Objects : bound[o] \in stored => doc[bound[o]] \subseteq content[o]

LoadedIsSaved ==
    \A s \in Sessions : pc[s] = "set" =>
        id[s] \in stored /\ doc[id[s]] = content[target[s]]

\* Once modified() has sent the id it stays queued while the setter still holds
\* the lock: no commit of the struct can end before the setter unlocks.
AnnouncedIsQueued ==
    \A s \in Sessions :
        pc[s] = "unlock" /\ data[id[s]] = target[s] => Queued(id[s])

\* A synchronous update is in the struct it was made on from the moment the
\* setter holds the lock, and in every struct loaded after it is acknowledged.
SyncedInStruct ==
    /\ \A s \in Sessions : upd[s] # NoUpdate =>
          /\ held[s] # NoObject /\ bound[held[s]] = id[s]
          /\ upd[s] \in content[held[s]]
    /\ \A p \in Procs : pc[p] \notin InCommit \cup {"syncUnlock"} => upd[p] = NoUpdate
    /\ \A c \in Commits : upd[c] = NoUpdate
    /\ \A a \in acked : a[1] \in known
    /\ \A a \in acked, o \in Objects :
          bound[o] = a[1] /\ a[1] \notin erased => a[2] \in content[o]

\* A struct that a session or a commit still has in hand is the one the map
\* holds, unless its deletion has begun.
ErasedOrMapped ==
    /\ \A p \in Procs : pc[p] \in {"destroy", "removeId"} => id[p] \in erased
    /\ \A o \in destroyed : bound[o] \in erased
    /\ \A s \in Sessions : held[s] # NoObject =>
          data[bound[held[s]]] # NoObject \/ bound[held[s]] \in erased

SoloInv ==
    /\ StoreInv
    /\ SingleInstance
    /\ DeletedIsUnmapped
    /\ DocumentsTrail
    /\ LoadedIsSaved
    /\ AnnouncedIsQueued
    /\ NoLostUpdate
    /\ SyncedInStruct
    /\ ErasedOrMapped
    /\ SyncedUpdatesSurvive

----------------------------------------------------------------------------
(* Type correctness.                                                       *)

\* The store starts with every variable of its type.
LEMMA InitTypeOK == Init => TypeOK
  BY ConstantsAssumption DEF Init, TypeOK, Procs, Labels

\* No call is in progress at the start, so none refers to anything.
LEMMA InitReferences == Init => References
  BY ConstantsAssumption DEF Init, References, Procs, HasTarget

(* Types and references hold together: a step reads data[id[p]] or           *)
(* bound[target[p]], so that the call's locals must be an id and a struct.   *)
LEMMA NextTypeOK == TypeOK /\ References /\ [Next]_vars => TypeOK'
<1> SUFFICES ASSUME TypeOK, References, [Next]_vars PROVE TypeOK'
    OBVIOUS
<1> USE ConstantsAssumption
    DEF TypeOK, References, HasTarget, InCommit, Procs, Labels
<1>1. ASSUME NEW s \in Sessions, Create(s) PROVE TypeOK'
  BY <1>1 DEF Create, Idle, Allocate, Hold, Enter, Goto, locks, queue, mongo
<1>2. ASSUME NEW s \in Sessions, RetrieveContains(s) PROVE TypeOK'
  BY <1>2 DEF RetrieveContains, Idle, Enter, Goto, memory, locks, queue,
              mongo, supply
<1>3. ASSUME NEW s \in Sessions, RetrieveGet(s) PROVE TypeOK'
  BY <1>3 DEF RetrieveGet, Hold, Leave, Goto, memory, locks, queue, mongo,
              supply
<1>4. ASSUME NEW s \in Sessions, RetrieveLoad(s) PROVE TypeOK'
  BY <1>4 DEF RetrieveLoad, Allocate, Enter, Goto, locks, queue, mongo, supply
<1>5. ASSUME NEW s \in Sessions, RetrieveNotFound(s) PROVE TypeOK'
  BY <1>5 DEF RetrieveNotFound, Hold, Leave, Goto, memory, locks, queue,
              mongo, supply
<1>6. ASSUME NEW s \in Sessions, RetrieveSet(s) PROVE TypeOK'
  BY <1>6 DEF RetrieveSet, Hold, Leave, Goto, locks, queue, mongo, supply
<1>7. ASSUME NEW s \in Sessions, Write(s) \/ SyncWrite(s) PROVE TypeOK'
  BY <1>7, SMTT(60) DEF Write, SyncWrite, LockAndUpdate, Idle, InUse, Locked,
              Goto, queue, mongo
<1>8. ASSUME NEW s \in Sessions, Modified(s) PROVE TypeOK'
  BY <1>8 DEF Modified, Goto, memory, locks, mongo, supply
<1>9. ASSUME NEW s \in Sessions, WriteUnlock(s) PROVE TypeOK'
  BY <1>9 DEF WriteUnlock, Leave, Goto, memory, queue, mongo, supply
<1>10. ASSUME NEW s \in Sessions, SyncUnlock(s) PROVE TypeOK'
  BY <1>10 DEF SyncUnlock, Enter, Goto, memory, queue, mongo, supply
<1>11. ASSUME NEW s \in Sessions, DeleteGet(s) PROVE TypeOK'
  BY <1>11 DEF DeleteGet, Idle, Hold, Enter, Goto, memory, locks, queue,
               mongo, supply, locals
<1>12. ASSUME NEW s \in Sessions, DeleteRemove(s) PROVE TypeOK'
  BY <1>12 DEF DeleteRemove, Goto, locks, queue, mongo, supply
<1>13. ASSUME NEW s \in Sessions, DeleteDestroy(s) PROVE TypeOK'
  BY <1>13 DEF DeleteDestroy, InUse, Locked, Goto, locks, queue, mongo, supply
<1>14. ASSUME NEW s \in Sessions, DeleteRemoveId(s) PROVE TypeOK'
  BY <1>14 DEF DeleteRemoveId, Hold, Leave, Goto, memory, locks, queue, supply
<1>15. ASSUME NEW p \in Procs, CommitMissing(p) PROVE TypeOK'
  BY <1>15 DEF CommitMissing, Acknowledge, Leave, Goto, memory, locks, queue, mongo, supply
<1>16. ASSUME NEW p \in Procs, CommitGet(p) PROVE TypeOK'
  BY <1>16 DEF CommitGet, Enter, Goto, memory, locks, queue, mongo, supply
<1>17. ASSUME NEW p \in Procs, CommitIsDestroyed(p) PROVE TypeOK'
  BY <1>17 DEF CommitIsDestroyed, Locked, Acknowledge, Leave, Enter, Goto, memory, locks,
               queue, mongo, supply
<1>18. ASSUME NEW p \in Procs, CommitMarshal(p) PROVE TypeOK'
  BY <1>18 DEF CommitMarshal, Locked, Goto, memory, queue, mongo, supply
<1>19. ASSUME NEW p \in Procs, CommitUpsert(p) PROVE TypeOK'
  BY <1>19 DEF CommitUpsert, Acknowledge, Leave, Goto, memory, queue, supply
<1>20. CASE WatcherReceive
  BY <1>20 DEF WatcherReceive, memory, locks, mongo, locals, supply
<1>21. CASE WatcherTimeout
  BY <1>21 DEF WatcherTimeout, memory, locks, mongo, supply, Bijection,
               Injection, Surjection, IsInjective
<1>22. CASE Crash
  BY <1>22 DEF Crash, mongo, supply
<1>23. CASE UNCHANGED vars
  BY <1>23 DEF vars, memory, locks, queue, mongo, locals, supply
<1>24. QED
  BY <1>1, <1>2, <1>3, <1>4, <1>5, <1>6, <1>7, <1>8, <1>9, <1>10, <1>11,
     <1>12, <1>13, <1>14, <1>15, <1>16, <1>17, <1>18, <1>19, <1>20, <1>21,
     <1>22, <1>23
     DEF Next, Call, Continue, CommitStep

\* Every step leaves a call's locals naming an id and an allocated struct.
LEMMA NextReferences ==
    TypeOK /\ TypeOK' /\ References /\ [Next]_vars => References'
<1> SUFFICES ASSUME TypeOK, TypeOK', References, [Next]_vars PROVE References'
    OBVIOUS
<1> USE ConstantsAssumption
    DEF TypeOK, References, HasTarget, InCommit, Procs, Labels
<1>1. ASSUME NEW s \in Sessions, Create(s) PROVE References'
  BY <1>1 DEF Create, Idle, Allocate, Hold, Enter, Goto, locks, queue, mongo
<1>2. ASSUME NEW s \in Sessions, RetrieveContains(s) PROVE References'
  BY <1>2 DEF RetrieveContains, Idle, Enter, Goto, memory, locks, queue,
              mongo, supply
<1>3. ASSUME NEW s \in Sessions, RetrieveGet(s) PROVE References'
  BY <1>3 DEF RetrieveGet, Hold, Leave, Goto, memory, locks, queue, mongo,
              supply
<1>4. ASSUME NEW s \in Sessions, RetrieveLoad(s) PROVE References'
  BY <1>4 DEF RetrieveLoad, Allocate, Enter, Goto, locks, queue, mongo, supply
<1>5. ASSUME NEW s \in Sessions, RetrieveNotFound(s) PROVE References'
  BY <1>5 DEF RetrieveNotFound, Hold, Leave, Goto, memory, locks, queue,
              mongo, supply
<1>6. ASSUME NEW s \in Sessions, RetrieveSet(s) PROVE References'
  BY <1>6 DEF RetrieveSet, Hold, Leave, Goto, locks, queue, mongo, supply
<1>7. ASSUME NEW s \in Sessions, Write(s) \/ SyncWrite(s) PROVE References'
  BY <1>7, SMTT(60) DEF Write, SyncWrite, LockAndUpdate, Idle, InUse, Locked,
              Goto, queue, mongo
<1>8. ASSUME NEW s \in Sessions, Modified(s) PROVE References'
  BY <1>8 DEF Modified, Goto, memory, locks, mongo, supply
<1>9. ASSUME NEW s \in Sessions, WriteUnlock(s) PROVE References'
  BY <1>9 DEF WriteUnlock, Leave, Goto, memory, queue, mongo, supply
<1>10. ASSUME NEW s \in Sessions, SyncUnlock(s) PROVE References'
  BY <1>10 DEF SyncUnlock, Enter, Goto, memory, queue, mongo, supply
<1>11. ASSUME NEW s \in Sessions, DeleteGet(s) PROVE References'
  BY <1>11 DEF DeleteGet, Idle, Hold, Enter, Goto, memory, locks, queue,
               mongo, supply, locals
<1>12. ASSUME NEW s \in Sessions, DeleteRemove(s) PROVE References'
  BY <1>12 DEF DeleteRemove, Goto, locks, queue, mongo, supply
<1>13. ASSUME NEW s \in Sessions, DeleteDestroy(s) PROVE References'
  BY <1>13 DEF DeleteDestroy, InUse, Locked, Goto, locks, queue, mongo, supply
<1>14. ASSUME NEW s \in Sessions, DeleteRemoveId(s) PROVE References'
  BY <1>14 DEF DeleteRemoveId, Hold, Leave, Goto, memory, locks, queue, supply
<1>15. ASSUME NEW p \in Procs, CommitMissing(p) PROVE References'
  BY <1>15 DEF CommitMissing, Acknowledge, Leave, Goto, memory, locks, queue, mongo, supply
<1>16. ASSUME NEW p \in Procs, CommitGet(p) PROVE References'
  BY <1>16 DEF CommitGet, Enter, Goto, memory, locks, queue, mongo, supply
<1>17. ASSUME NEW p \in Procs, CommitIsDestroyed(p) PROVE References'
  BY <1>17 DEF CommitIsDestroyed, Locked, Acknowledge, Leave, Enter, Goto, memory, locks,
               queue, mongo, supply
<1>18. ASSUME NEW p \in Procs, CommitMarshal(p) PROVE References'
  BY <1>18 DEF CommitMarshal, Locked, Goto, memory, queue, mongo, supply
<1>19. ASSUME NEW p \in Procs, CommitUpsert(p) PROVE References'
  BY <1>19 DEF CommitUpsert, Acknowledge, Leave, Goto, memory, queue, supply
<1>20. CASE WatcherReceive
  BY <1>20 DEF WatcherReceive, memory, locks, mongo, locals, supply
<1>21. CASE WatcherTimeout
  BY <1>21 DEF WatcherTimeout, memory, locks, mongo, supply, Bijection,
               Injection, Surjection, IsInjective
<1>22. CASE Crash
  BY <1>22 DEF Crash, mongo, supply
<1>23. CASE UNCHANGED vars
  BY <1>23 DEF vars, memory, locks, queue, mongo, locals, supply
<1>24. QED
  BY <1>1, <1>2, <1>3, <1>4, <1>5, <1>6, <1>7, <1>8, <1>9, <1>10, <1>11,
     <1>12, <1>13, <1>14, <1>15, <1>16, <1>17, <1>18, <1>19, <1>20, <1>21,
     <1>22, <1>23
     DEF Next, Call, Continue, CommitStep

----------------------------------------------------------------------------
(* A struct being loaded is private to its loader.                         *)

\* No other goroutine reaches a struct before its loader has put it in the map.
LEMMA NextUnpublished ==
    TypeOK /\ TypeOK' /\ References /\ Unpublished /\ [Next]_vars => Unpublished'
<1> SUFFICES ASSUME TypeOK, TypeOK', References, Unpublished, [Next]_vars
             PROVE Unpublished'
    OBVIOUS
<1> USE ConstantsAssumption
    DEF TypeOK, References, Unpublished, HasTarget, InCommit, Procs
<1>1. ASSUME NEW s \in Sessions, Create(s) PROVE Unpublished'
  BY <1>1 DEF Create, Idle, Allocate, Hold, Enter, Goto, locks, queue, mongo
<1>2. ASSUME NEW s \in Sessions, RetrieveContains(s) PROVE Unpublished'
  BY <1>2 DEF RetrieveContains, Idle, Enter, Goto, memory, locks, queue,
              mongo, supply
<1>3. ASSUME NEW s \in Sessions, RetrieveGet(s) PROVE Unpublished'
  BY <1>3 DEF RetrieveGet, Hold, Leave, Goto, memory, locks, queue, mongo,
              supply
<1>4. ASSUME NEW s \in Sessions, RetrieveLoad(s) PROVE Unpublished'
  BY <1>4 DEF RetrieveLoad, Allocate, Enter, Goto, locks, queue, mongo, supply
<1>5. ASSUME NEW s \in Sessions, RetrieveNotFound(s) PROVE Unpublished'
  BY <1>5 DEF RetrieveNotFound, Hold, Leave, Goto, memory, locks, queue,
              mongo, supply
<1>6. ASSUME NEW s \in Sessions, RetrieveSet(s) PROVE Unpublished'
  BY <1>6 DEF RetrieveSet, Hold, Leave, Goto, locks, queue, mongo, supply
<1>7. ASSUME NEW s \in Sessions, Write(s) \/ SyncWrite(s) PROVE Unpublished'
  BY <1>7, SMTT(60) DEF Write, SyncWrite, LockAndUpdate, Idle, InUse, Locked,
              Goto, queue, mongo
<1>8. ASSUME NEW s \in Sessions, Modified(s) PROVE Unpublished'
  BY <1>8 DEF Modified, Goto, memory, locks, mongo, supply
<1>9. ASSUME NEW s \in Sessions, WriteUnlock(s) PROVE Unpublished'
  BY <1>9 DEF WriteUnlock, Leave, Goto, memory, queue, mongo, supply
<1>10. ASSUME NEW s \in Sessions, SyncUnlock(s) PROVE Unpublished'
  BY <1>10 DEF SyncUnlock, Enter, Goto, memory, queue, mongo, supply
<1>11. ASSUME NEW s \in Sessions, DeleteGet(s) PROVE Unpublished'
  BY <1>11 DEF DeleteGet, Idle, Hold, Enter, Goto, memory, locks, queue,
               mongo, supply, locals
<1>12. ASSUME NEW s \in Sessions, DeleteRemove(s) PROVE Unpublished'
  BY <1>12 DEF DeleteRemove, Goto, locks, queue, mongo, supply
<1>13. ASSUME NEW s \in Sessions, DeleteDestroy(s) PROVE Unpublished'
  BY <1>13 DEF DeleteDestroy, InUse, Locked, Goto, locks, queue, mongo, supply
<1>14. ASSUME NEW s \in Sessions, DeleteRemoveId(s) PROVE Unpublished'
  BY <1>14 DEF DeleteRemoveId, Hold, Leave, Goto, memory, locks, queue, supply
<1>15. ASSUME NEW p \in Procs, CommitMissing(p) PROVE Unpublished'
  BY <1>15 DEF CommitMissing, Acknowledge, Leave, Goto, memory, locks, queue, mongo, supply
<1>16. ASSUME NEW p \in Procs, CommitGet(p) PROVE Unpublished'
  BY <1>16 DEF CommitGet, Enter, Goto, memory, locks, queue, mongo, supply
<1>17. ASSUME NEW p \in Procs, CommitIsDestroyed(p) PROVE Unpublished'
  BY <1>17 DEF CommitIsDestroyed, Locked, Acknowledge, Leave, Enter, Goto, memory, locks,
               queue, mongo, supply
<1>18. ASSUME NEW p \in Procs, CommitMarshal(p) PROVE Unpublished'
  BY <1>18 DEF CommitMarshal, Locked, Goto, memory, queue, mongo, supply
<1>19. ASSUME NEW p \in Procs, CommitUpsert(p) PROVE Unpublished'
  BY <1>19 DEF CommitUpsert, Acknowledge, Leave, Goto, memory, queue, supply
<1>20. CASE WatcherReceive
  BY <1>20 DEF WatcherReceive, memory, locks, mongo, locals, supply
<1>21. CASE WatcherTimeout
  BY <1>21 DEF WatcherTimeout, memory, locks, mongo, supply, Bijection,
               Injection, Surjection, IsInjective
<1>22. CASE Crash
  BY <1>22 DEF Crash, mongo, supply
<1>23. CASE UNCHANGED vars
  BY <1>23 DEF vars, memory, locks, queue, mongo, locals, supply
<1>24. QED
  BY <1>1, <1>2, <1>3, <1>4, <1>5, <1>6, <1>7, <1>8, <1>9, <1>10, <1>11,
     <1>12, <1>13, <1>14, <1>15, <1>16, <1>17, <1>18, <1>19, <1>20, <1>21,
     <1>22, <1>23
     DEF Next, Call, Continue, CommitStep

----------------------------------------------------------------------------
(* Locks, and the snapshots taken under them.                              *)

\* Every step respects the struct locks (dbobject.go:26-47).
LEMMA NextLocks ==
    /\ TypeOK /\ TypeOK' /\ References /\ LocksExclude /\ LocksHeld
    /\ [Next]_vars
    => LocksExclude' /\ LocksHeld'
<1> SUFFICES ASSUME TypeOK, TypeOK', References, LocksExclude, LocksHeld,
                    [Next]_vars
             PROVE LocksExclude' /\ LocksHeld'
    OBVIOUS
<1> USE ConstantsAssumption
    DEF TypeOK, References, LocksExclude, LocksHeld, HasTarget, InCommit, Procs
<1>1. ASSUME NEW s \in Sessions, Create(s) PROVE LocksExclude' /\ LocksHeld'
  BY <1>1 DEF Create, Idle, Allocate, Hold, Enter, Goto, locks, queue, mongo
<1>2. ASSUME NEW s \in Sessions, RetrieveContains(s) PROVE LocksExclude' /\ LocksHeld'
  BY <1>2 DEF RetrieveContains, Idle, Enter, Goto, memory, locks, queue,
              mongo, supply
<1>3. ASSUME NEW s \in Sessions, RetrieveGet(s) PROVE LocksExclude' /\ LocksHeld'
  BY <1>3 DEF RetrieveGet, Hold, Leave, Goto, memory, locks, queue, mongo,
              supply
<1>4. ASSUME NEW s \in Sessions, RetrieveLoad(s) PROVE LocksExclude' /\ LocksHeld'
  BY <1>4 DEF RetrieveLoad, Allocate, Enter, Goto, locks, queue, mongo, supply
<1>5. ASSUME NEW s \in Sessions, RetrieveNotFound(s) PROVE LocksExclude' /\ LocksHeld'
  BY <1>5 DEF RetrieveNotFound, Hold, Leave, Goto, memory, locks, queue,
              mongo, supply
<1>6. ASSUME NEW s \in Sessions, RetrieveSet(s) PROVE LocksExclude' /\ LocksHeld'
  BY <1>6 DEF RetrieveSet, Hold, Leave, Goto, locks, queue, mongo, supply
<1>7. ASSUME NEW s \in Sessions, Write(s) \/ SyncWrite(s) PROVE LocksExclude' /\ LocksHeld'
  BY <1>7, SMTT(60) DEF Write, SyncWrite, LockAndUpdate, Idle, InUse, Locked,
              Goto, queue, mongo
<1>8. ASSUME NEW s \in Sessions, Modified(s) PROVE LocksExclude' /\ LocksHeld'
  BY <1>8 DEF Modified, Goto, memory, locks, mongo, supply
<1>9. ASSUME NEW s \in Sessions, WriteUnlock(s) PROVE LocksExclude' /\ LocksHeld'
  BY <1>9 DEF WriteUnlock, Leave, Goto, memory, queue, mongo, supply
<1>10. ASSUME NEW s \in Sessions, SyncUnlock(s) PROVE LocksExclude' /\ LocksHeld'
  BY <1>10 DEF SyncUnlock, Enter, Goto, memory, queue, mongo, supply
<1>11. ASSUME NEW s \in Sessions, DeleteGet(s) PROVE LocksExclude' /\ LocksHeld'
  BY <1>11, SMTT(60) DEF DeleteGet, Idle, Hold, Enter, Goto, memory, locks, queue,
               mongo, supply, locals
<1>12. ASSUME NEW s \in Sessions, DeleteRemove(s) PROVE LocksExclude' /\ LocksHeld'
  BY <1>12 DEF DeleteRemove, Goto, locks, queue, mongo, supply
<1>13. ASSUME NEW s \in Sessions, DeleteDestroy(s) PROVE LocksExclude' /\ LocksHeld'
  BY <1>13 DEF DeleteDestroy, InUse, Locked, Goto, locks, queue, mongo, supply
<1>14. ASSUME NEW s \in Sessions, DeleteRemoveId(s) PROVE LocksExclude' /\ LocksHeld'
  BY <1>14 DEF DeleteRemoveId, Hold, Leave, Goto, memory, locks, queue, supply
<1>15. ASSUME NEW p \in Procs, CommitMissing(p) PROVE LocksExclude' /\ LocksHeld'
  BY <1>15 DEF CommitMissing, Acknowledge, Leave, Goto, memory, locks, queue, mongo, supply
<1>16. ASSUME NEW p \in Procs, CommitGet(p) PROVE LocksExclude' /\ LocksHeld'
  BY <1>16 DEF CommitGet, Enter, Goto, memory, locks, queue, mongo, supply
<1>17. ASSUME NEW p \in Procs, CommitIsDestroyed(p) PROVE LocksExclude' /\ LocksHeld'
  BY <1>17 DEF CommitIsDestroyed, Locked, Leave, Enter, Goto, memory, locks,
               queue, mongo, supply
<1>18. ASSUME NEW p \in Procs, CommitMarshal(p) PROVE LocksExclude' /\ LocksHeld'
  BY <1>18 DEF CommitMarshal, Locked, Goto, memory, queue, mongo, supply
<1>19. ASSUME NEW p \in Procs, CommitUpsert(p) PROVE LocksExclude' /\ LocksHeld'
  BY <1>19 DEF CommitUpsert, Acknowledge, Leave, Goto, memory, queue, supply
<1>20. CASE WatcherReceive
  BY <1>20 DEF WatcherReceive, memory, locks, mongo, locals, supply
<1>21. CASE WatcherTimeout
  BY <1>21 DEF WatcherTimeout, memory, locks, mongo, supply, Bijection,
               Injection, Surjection, IsInjective
<1>22. CASE Crash
  BY <1>22 DEF Crash, mongo, supply
<1>23. CASE UNCHANGED vars
  BY <1>23 DEF vars, memory, locks, queue, mongo, locals, supply
<1>24. QED
  BY <1>1, <1>2, <1>3, <1>4, <1>5, <1>6, <1>7, <1>8, <1>9, <1>10, <1>11,
     <1>12, <1>13, <1>14, <1>15, <1>16, <1>17, <1>18, <1>19, <1>20, <1>21,
     <1>22, <1>23
     DEF Next, Call, Continue, CommitStep

\* No setter gets between the marshalling of a struct and its upsert.
LEMMA NextSnapshots ==
    /\ TypeOK /\ TypeOK' /\ References /\ LocksExclude /\ LocksHeld
    /\ SnapshotsAreCurrent /\ [Next]_vars
    => SnapshotsAreCurrent'
<1> SUFFICES ASSUME TypeOK, TypeOK', References, LocksExclude, LocksHeld,
                    SnapshotsAreCurrent, [Next]_vars
             PROVE SnapshotsAreCurrent'
    OBVIOUS
<1> USE ConstantsAssumption
    DEF TypeOK, References, LocksHeld, SnapshotsAreCurrent, HasTarget, InCommit, Procs
<1>1. ASSUME NEW s \in Sessions, Create(s) PROVE SnapshotsAreCurrent'
  BY <1>1 DEF Create, Idle, Allocate, Hold, Enter, Goto, locks, queue, mongo
<1>2. ASSUME NEW s \in Sessions, RetrieveContains(s) PROVE SnapshotsAreCurrent'
  BY <1>2 DEF RetrieveContains, Idle, Enter, Goto, memory, locks, queue,
              mongo, supply
<1>3. ASSUME NEW s \in Sessions, RetrieveGet(s) PROVE SnapshotsAreCurrent'
  BY <1>3 DEF RetrieveGet, Hold, Leave, Goto, memory, locks, queue, mongo,
              supply
<1>4. ASSUME NEW s \in Sessions, RetrieveLoad(s) PROVE SnapshotsAreCurrent'
  BY <1>4 DEF RetrieveLoad, Allocate, Enter, Goto, locks, queue, mongo, supply
<1>5. ASSUME NEW s \in Sessions, RetrieveNotFound(s) PROVE SnapshotsAreCurrent'
  BY <1>5 DEF RetrieveNotFound, Hold, Leave, Goto, memory, locks, queue,
              mongo, supply
<1>6. ASSUME NEW s \in Sessions, RetrieveSet(s) PROVE SnapshotsAreCurrent'
  BY <1>6 DEF RetrieveSet, Hold, Leave, Goto, locks, queue, mongo, supply
<1>7. ASSUME NEW s \in Sessions, Write(s) \/ SyncWrite(s) PROVE SnapshotsAreCurrent'
  BY <1>7, SMTT(60) DEF Write, SyncWrite, LockAndUpdate, Idle, InUse, Locked,
              Goto, queue, mongo
<1>8. ASSUME NEW s \in Sessions, Modified(s) PROVE SnapshotsAreCurrent'
  BY <1>8 DEF Modified, Goto, memory, locks, mongo, supply
<1>9. ASSUME NEW s \in Sessions, WriteUnlock(s) PROVE SnapshotsAreCurrent'
  BY <1>9 DEF WriteUnlock, Leave, Goto, memory, queue, mongo, supply
<1>10. ASSUME NEW s \in Sessions, SyncUnlock(s) PROVE SnapshotsAreCurrent'
  BY <1>10 DEF SyncUnlock, Enter, Goto, memory, queue, mongo, supply
<1>11. ASSUME NEW s \in Sessions, DeleteGet(s) PROVE SnapshotsAreCurrent'
  BY <1>11 DEF DeleteGet, Idle, Hold, Enter, Goto, memory, locks, queue,
               mongo, supply, locals
<1>12. ASSUME NEW s \in Sessions, DeleteRemove(s) PROVE SnapshotsAreCurrent'
  BY <1>12 DEF DeleteRemove, Goto, locks, queue, mongo, supply
<1>13. ASSUME NEW s \in Sessions, DeleteDestroy(s) PROVE SnapshotsAreCurrent'
  BY <1>13 DEF DeleteDestroy, InUse, Locked, Goto, locks, queue, mongo, supply
<1>14. ASSUME NEW s \in Sessions, DeleteRemoveId(s) PROVE SnapshotsAreCurrent'
  BY <1>14 DEF DeleteRemoveId, Hold, Leave, Goto, memory, locks, queue, supply
<1>15. ASSUME NEW p \in Procs, CommitMissing(p) PROVE SnapshotsAreCurrent'
  BY <1>15 DEF CommitMissing, Acknowledge, Leave, Goto, memory, locks, queue, mongo, supply
<1>16. ASSUME NEW p \in Procs, CommitGet(p) PROVE SnapshotsAreCurrent'
  BY <1>16 DEF CommitGet, Enter, Goto, memory, locks, queue, mongo, supply
<1>17. ASSUME NEW p \in Procs, CommitIsDestroyed(p) PROVE SnapshotsAreCurrent'
  BY <1>17 DEF CommitIsDestroyed, Locked, Acknowledge, Leave, Enter, Goto, memory, locks,
               queue, mongo, supply
<1>18. ASSUME NEW p \in Procs, CommitMarshal(p) PROVE SnapshotsAreCurrent'
  BY <1>18 DEF CommitMarshal, Locked, Goto, memory, queue, mongo, supply
<1>19. ASSUME NEW p \in Procs, CommitUpsert(p) PROVE SnapshotsAreCurrent'
  BY <1>19 DEF CommitUpsert, Acknowledge, Leave, Goto, memory, queue, supply
<1>20. CASE WatcherReceive
  BY <1>20 DEF WatcherReceive, memory, locks, mongo, locals, supply
<1>21. CASE WatcherTimeout
  BY <1>21 DEF WatcherTimeout, memory, locks, mongo, supply, Bijection,
               Injection, Surjection, IsInjective
<1>22. CASE Crash
  BY <1>22 DEF Crash, mongo, supply
<1>23. CASE UNCHANGED vars
  BY <1>23 DEF vars, memory, locks, queue, mongo, locals, supply
<1>24. QED
  BY <1>1, <1>2, <1>3, <1>4, <1>5, <1>6, <1>7, <1>8, <1>9, <1>10, <1>11,
     <1>12, <1>13, <1>14, <1>15, <1>16, <1>17, <1>18, <1>19, <1>20, <1>21,
     <1>22, <1>23
     DEF Next, Call, Continue, CommitStep

----------------------------------------------------------------------------
(* Every behaviour keeps StoreInv.                                         *)

\* The store keeps StoreInv in every behaviour: types, references and locks.
THEOREM StoreInvariant == Spec => []StoreInv
<1>1. Init => StoreInv
  <2> SUFFICES ASSUME Init PROVE StoreInv
      OBVIOUS
  <2>1. TypeOK /\ References
    BY InitTypeOK, InitReferences
  <2>2. Unpublished /\ LocksExclude /\ LocksHeld /\ SnapshotsAreCurrent
    BY ConstantsAssumption
       DEF Init, Unpublished, LocksExclude, LocksHeld, SnapshotsAreCurrent, Procs
  <2>3. QED BY <2>1, <2>2 DEF StoreInv
<1>2. StoreInv /\ [Next]_vars => StoreInv'
  BY NextTypeOK, NextReferences, NextUnpublished, NextLocks, NextSnapshots
     DEF StoreInv
<1>3. QED BY <1>1, <1>2, PTL DEF Spec

\* Every variable keeps its type in every behaviour.
THEOREM TypeCorrect == Spec => []TypeOK
  BY StoreInvariant, PTL DEF StoreInv

\* The struct locks admit one writer or any number of readers, and only calls
\* in progress hold them.
THEOREM LocksAreExclusive == Spec => []LocksExclude
  BY StoreInvariant, PTL DEF StoreInv

\* What a commit is about to write is what the struct still holds.
THEOREM SnapshotsStayCurrent == Spec => []SnapshotsAreCurrent
  BY StoreInvariant, PTL DEF StoreInv

\* p is blocked in a call: in modified() by the full slot, in commitObject or
\* Destroy by the lock of the struct.
Blocked(p) ==
    \/ pc[p] = "modified" /\ channel # NoId
    \/ pc[p] \in {"isDestroyed", "readLock"} /\ Locked(target[p])
    \/ pc[p] = "destroy" /\ InUse(target[p])

\* While a struct is locked or a call is blocked, the watcher has something to
\* receive, or a goroutine that is in a call is not blocked.
SomebodyGoesOn ==
    (\E o \in Objects : InUse(o)) \/ (\E p \in Procs : Blocked(p)) =>
        \/ channel # NoId
        \/ \E q \in Procs : pc[q] # "idle" /\ ~Blocked(q)

\* A goroutine that holds a struct's lock waits for no other lock: only for the
\* slot, which the watcher empties without taking one.  So the one-slot channel
\* that setters fill inside the lock never closes a circle (dbobject.go:37-64,
\* database.go:65-91).
THEOREM SomebodyAlwaysGoesOn == Spec => []SomebodyGoesOn
<1>1. StoreInv => SomebodyGoesOn
  <2> SUFFICES ASSUME StoreInv, channel = NoId,
                      (\E o \in Objects : InUse(o)) \/ (\E p \in Procs : Blocked(p))
               PROVE  \E q \in Procs : pc[q] # "idle" /\ ~Blocked(q)
    BY DEF SomebodyGoesOn
  <2>1. \A p \in Procs : Blocked(p) => target[p] \in Objects /\ InUse(target[p])
    BY DEF StoreInv, References, HasTarget, Blocked, InUse
  <2>2. PICK o \in Objects : InUse(o)
    BY <2>1
  <2>3. CASE Locked(o)
    <3>1. writer[o] \in Sessions
      BY <2>3 DEF StoreInv, TypeOK, Locked
    <3>2. pc[writer[o]] \in {"modified", "unlock", "syncUnlock"}
      BY <3>1 DEF StoreInv, LocksExclude
    <3>3. QED BY <3>1, <3>2 DEF Blocked, Procs
  <2>4. CASE ~Locked(o)
    <3>1. PICK p \in Procs : p \in readers[o]
      BY <2>2, <2>4 DEF StoreInv, TypeOK, InUse
    <3>2. pc[p] = "upsert"
      BY <3>1 DEF StoreInv, LocksExclude
    <3>3. QED BY <3>1, <3>2 DEF Blocked
  <2>5. QED BY <2>3, <2>4
<1>2. QED BY <1>1, StoreInvariant, PTL

----------------------------------------------------------------------------
(* One struct for each id: nothing is lost between a setter and the         *)
(* document.                                                                *)

\* A struct marked as destroyed has left the map for good.
LEMMA NextDeleted ==
    StoreInv /\ StoreInv' /\ SingleInstance /\ SingleInstance' /\ [Next]_vars
        /\ DeletedIsUnmapped
    => DeletedIsUnmapped'
<1> SUFFICES ASSUME StoreInv, StoreInv', SingleInstance, SingleInstance',
                    [Next]_vars, DeletedIsUnmapped
             PROVE DeletedIsUnmapped'
    OBVIOUS
<1> USE ConstantsAssumption
    DEF StoreInv, TypeOK, References, Unpublished, SingleInstance,
        DeletedIsUnmapped, HasTarget, InCommit, Procs
<1>1. ASSUME NEW s \in Sessions, Create(s) PROVE DeletedIsUnmapped'
  BY <1>1 DEF Create, Idle, Allocate, Hold, Enter, Goto, locks, queue, mongo
<1>2. ASSUME NEW s \in Sessions, RetrieveContains(s) PROVE DeletedIsUnmapped'
  BY <1>2 DEF RetrieveContains, Idle, Enter, Goto, memory, locks, queue,
              mongo, supply
<1>3. ASSUME NEW s \in Sessions, RetrieveGet(s) PROVE DeletedIsUnmapped'
  BY <1>3 DEF RetrieveGet, Hold, Leave, Goto, memory, locks, queue, mongo,
              supply
<1>4. ASSUME NEW s \in Sessions, RetrieveLoad(s) PROVE DeletedIsUnmapped'
  BY <1>4 DEF RetrieveLoad, Allocate, Enter, Goto, locks, queue, mongo, supply
<1>5. ASSUME NEW s \in Sessions, RetrieveNotFound(s) PROVE DeletedIsUnmapped'
  BY <1>5 DEF RetrieveNotFound, Hold, Leave, Goto, memory, locks, queue,
              mongo, supply
<1>6. ASSUME NEW s \in Sessions, RetrieveSet(s) PROVE DeletedIsUnmapped'
  BY <1>6 DEF RetrieveSet, Hold, Leave, Goto, locks, queue, mongo, supply
<1>7. ASSUME NEW s \in Sessions, Write(s) \/ SyncWrite(s) PROVE DeletedIsUnmapped'
  BY <1>7, SMTT(60) DEF Write, SyncWrite, LockAndUpdate, Idle, InUse, Locked,
              Goto, queue, mongo
<1>8. ASSUME NEW s \in Sessions, Modified(s) PROVE DeletedIsUnmapped'
  BY <1>8 DEF Modified, Goto, memory, locks, mongo, supply
<1>9. ASSUME NEW s \in Sessions, WriteUnlock(s) PROVE DeletedIsUnmapped'
  BY <1>9 DEF WriteUnlock, Leave, Goto, memory, queue, mongo, supply
<1>10. ASSUME NEW s \in Sessions, SyncUnlock(s) PROVE DeletedIsUnmapped'
  BY <1>10 DEF SyncUnlock, Enter, Goto, memory, queue, mongo, supply
<1>11. ASSUME NEW s \in Sessions, DeleteGet(s) PROVE DeletedIsUnmapped'
  BY <1>11 DEF DeleteGet, Idle, Hold, Enter, Goto, memory, locks, queue,
               mongo, supply, locals
<1>12. ASSUME NEW s \in Sessions, DeleteRemove(s) PROVE DeletedIsUnmapped'
  BY <1>12 DEF DeleteRemove, Goto, locks, queue, mongo, supply
<1>13. ASSUME NEW s \in Sessions, DeleteDestroy(s) PROVE DeletedIsUnmapped'
  BY <1>13 DEF DeleteDestroy, InUse, Locked, Goto, locks, queue, mongo, supply
<1>14. ASSUME NEW s \in Sessions, DeleteRemoveId(s) PROVE DeletedIsUnmapped'
  BY <1>14 DEF DeleteRemoveId, Hold, Leave, Goto, memory, locks, queue, supply
<1>15. ASSUME NEW p \in Procs, CommitMissing(p) PROVE DeletedIsUnmapped'
  BY <1>15 DEF CommitMissing, Acknowledge, Leave, Goto, memory, locks, queue, mongo, supply
<1>16. ASSUME NEW p \in Procs, CommitGet(p) PROVE DeletedIsUnmapped'
  BY <1>16 DEF CommitGet, Enter, Goto, memory, locks, queue, mongo, supply
<1>17. ASSUME NEW p \in Procs, CommitIsDestroyed(p) PROVE DeletedIsUnmapped'
  BY <1>17 DEF CommitIsDestroyed, Locked, Acknowledge, Leave, Enter, Goto, memory, locks,
               queue, mongo, supply
<1>18. ASSUME NEW p \in Procs, CommitMarshal(p) PROVE DeletedIsUnmapped'
  BY <1>18 DEF CommitMarshal, Locked, Goto, memory, queue, mongo, supply
<1>19. ASSUME NEW p \in Procs, CommitUpsert(p) PROVE DeletedIsUnmapped'
  BY <1>19 DEF CommitUpsert, Acknowledge, Leave, Goto, memory, queue, supply
<1>20. CASE WatcherReceive
  BY <1>20 DEF WatcherReceive, memory, locks, mongo, locals, supply
<1>21. CASE WatcherTimeout
  BY <1>21 DEF WatcherTimeout, memory, locks, mongo, supply, Bijection,
               Injection, Surjection, IsInjective
<1>22. CASE Crash
  BY <1>22 DEF Crash, mongo, supply
<1>23. CASE UNCHANGED vars
  BY <1>23 DEF vars, memory, locks, queue, mongo, locals, supply
<1>24. QED
  BY <1>1, <1>2, <1>3, <1>4, <1>5, <1>6, <1>7, <1>8, <1>9, <1>10, <1>11,
     <1>12, <1>13, <1>14, <1>15, <1>16, <1>17, <1>18, <1>19, <1>20, <1>21,
     <1>22, <1>23
     DEF Next, Call, Continue, CommitStep

\* No step puts a document ahead of its struct, or beside it.
LEMMA NextDocuments ==
    StoreInv /\ StoreInv' /\ SingleInstance /\ SingleInstance' /\ [Next]_vars
        /\ DocumentsTrail
    => DocumentsTrail'
<1> SUFFICES ASSUME StoreInv, StoreInv', SingleInstance, SingleInstance',
                    [Next]_vars, DocumentsTrail
             PROVE DocumentsTrail'
    OBVIOUS
<1> USE ConstantsAssumption
    DEF StoreInv, TypeOK, References, SnapshotsAreCurrent, SingleInstance,
        DocumentsTrail, HasTarget, InCommit, Procs
<1>1. ASSUME NEW s \in Sessions, Create(s) PROVE DocumentsTrail'
  BY <1>1 DEF Create, Idle, Allocate, Hold, Enter, Goto, locks, queue, mongo
<1>2. ASSUME NEW s \in Sessions, RetrieveContains(s) PROVE DocumentsTrail'
  BY <1>2 DEF RetrieveContains, Idle, Enter, Goto, memory, locks, queue,
              mongo, supply
<1>3. ASSUME NEW s \in Sessions, RetrieveGet(s) PROVE DocumentsTrail'
  BY <1>3 DEF RetrieveGet, Hold, Leave, Goto, memory, locks, queue, mongo,
              supply
<1>4. ASSUME NEW s \in Sessions, RetrieveLoad(s) PROVE DocumentsTrail'
  BY <1>4 DEF RetrieveLoad, Allocate, Enter, Goto, locks, queue, mongo, supply
<1>5. ASSUME NEW s \in Sessions, RetrieveNotFound(s) PROVE DocumentsTrail'
  BY <1>5 DEF RetrieveNotFound, Hold, Leave, Goto, memory, locks, queue,
              mongo, supply
<1>6. ASSUME NEW s \in Sessions, RetrieveSet(s) PROVE DocumentsTrail'
  BY <1>6 DEF RetrieveSet, Hold, Leave, Goto, locks, queue, mongo, supply
<1>7. ASSUME NEW s \in Sessions, Write(s) \/ SyncWrite(s) PROVE DocumentsTrail'
  BY <1>7, SMTT(60) DEF Write, SyncWrite, LockAndUpdate, Idle, InUse, Locked,
              Goto, queue, mongo
<1>8. ASSUME NEW s \in Sessions, Modified(s) PROVE DocumentsTrail'
  BY <1>8 DEF Modified, Goto, memory, locks, mongo, supply
<1>9. ASSUME NEW s \in Sessions, WriteUnlock(s) PROVE DocumentsTrail'
  BY <1>9 DEF WriteUnlock, Leave, Goto, memory, queue, mongo, supply
<1>10. ASSUME NEW s \in Sessions, SyncUnlock(s) PROVE DocumentsTrail'
  BY <1>10 DEF SyncUnlock, Enter, Goto, memory, queue, mongo, supply
<1>11. ASSUME NEW s \in Sessions, DeleteGet(s) PROVE DocumentsTrail'
  BY <1>11 DEF DeleteGet, Idle, Hold, Enter, Goto, memory, locks, queue,
               mongo, supply, locals
<1>12. ASSUME NEW s \in Sessions, DeleteRemove(s) PROVE DocumentsTrail'
  BY <1>12 DEF DeleteRemove, Goto, locks, queue, mongo, supply
<1>13. ASSUME NEW s \in Sessions, DeleteDestroy(s) PROVE DocumentsTrail'
  BY <1>13 DEF DeleteDestroy, InUse, Locked, Goto, locks, queue, mongo, supply
<1>14. ASSUME NEW s \in Sessions, DeleteRemoveId(s) PROVE DocumentsTrail'
  BY <1>14 DEF DeleteRemoveId, Hold, Leave, Goto, memory, locks, queue, supply
<1>15. ASSUME NEW p \in Procs, CommitMissing(p) PROVE DocumentsTrail'
  BY <1>15 DEF CommitMissing, Acknowledge, Leave, Goto, memory, locks, queue, mongo, supply
<1>16. ASSUME NEW p \in Procs, CommitGet(p) PROVE DocumentsTrail'
  BY <1>16 DEF CommitGet, Enter, Goto, memory, locks, queue, mongo, supply
<1>17. ASSUME NEW p \in Procs, CommitIsDestroyed(p) PROVE DocumentsTrail'
  BY <1>17 DEF CommitIsDestroyed, Locked, Acknowledge, Leave, Enter, Goto, memory, locks,
               queue, mongo, supply
<1>18. ASSUME NEW p \in Procs, CommitMarshal(p) PROVE DocumentsTrail'
  BY <1>18 DEF CommitMarshal, Locked, Goto, memory, queue, mongo, supply
<1>19. ASSUME NEW p \in Procs, CommitUpsert(p) PROVE DocumentsTrail'
  BY <1>19 DEF CommitUpsert, Acknowledge, Leave, Goto, memory, queue, supply
<1>20. CASE WatcherReceive
  BY <1>20 DEF WatcherReceive, memory, locks, mongo, locals, supply
<1>21. CASE WatcherTimeout
  BY <1>21 DEF WatcherTimeout, memory, locks, mongo, supply, Bijection,
               Injection, Surjection, IsInjective
<1>22. CASE Crash
  BY <1>22 DEF Crash, mongo, supply
<1>23. CASE UNCHANGED vars
  BY <1>23 DEF vars, memory, locks, queue, mongo, locals, supply
<1>24. QED
  BY <1>1, <1>2, <1>3, <1>4, <1>5, <1>6, <1>7, <1>8, <1>9, <1>10, <1>11,
     <1>12, <1>13, <1>14, <1>15, <1>16, <1>17, <1>18, <1>19, <1>20, <1>21,
     <1>22, <1>23
     DEF Next, Call, Continue, CommitStep

\* What a loader has read is what the document still holds.
LEMMA NextLoaded ==
    StoreInv /\ StoreInv' /\ SingleInstance /\ SingleInstance' /\ [Next]_vars
        /\ LoadedIsSaved
    => LoadedIsSaved'
<1> SUFFICES ASSUME StoreInv, StoreInv', SingleInstance, SingleInstance',
                    [Next]_vars, LoadedIsSaved
             PROVE LoadedIsSaved'
    OBVIOUS
<1> USE ConstantsAssumption
    DEF StoreInv, TypeOK, References, Unpublished, SingleInstance,
        LoadedIsSaved, HasTarget, InCommit, Procs
<1>1. ASSUME NEW s \in Sessions, Create(s) PROVE LoadedIsSaved'
  BY <1>1 DEF Create, Idle, Allocate, Hold, Enter, Goto, locks, queue, mongo
<1>2. ASSUME NEW s \in Sessions, RetrieveContains(s) PROVE LoadedIsSaved'
  BY <1>2 DEF RetrieveContains, Idle, Enter, Goto, memory, locks, queue,
              mongo, supply
<1>3. ASSUME NEW s \in Sessions, RetrieveGet(s) PROVE LoadedIsSaved'
  BY <1>3 DEF RetrieveGet, Hold, Leave, Goto, memory, locks, queue, mongo,
              supply
<1>4. ASSUME NEW s \in Sessions, RetrieveLoad(s) PROVE LoadedIsSaved'
  BY <1>4 DEF RetrieveLoad, Allocate, Enter, Goto, locks, queue, mongo, supply
<1>5. ASSUME NEW s \in Sessions, RetrieveNotFound(s) PROVE LoadedIsSaved'
  BY <1>5 DEF RetrieveNotFound, Hold, Leave, Goto, memory, locks, queue,
              mongo, supply
<1>6. ASSUME NEW s \in Sessions, RetrieveSet(s) PROVE LoadedIsSaved'
  BY <1>6 DEF RetrieveSet, Hold, Leave, Goto, locks, queue, mongo, supply
<1>7. ASSUME NEW s \in Sessions, Write(s) \/ SyncWrite(s) PROVE LoadedIsSaved'
  BY <1>7, SMTT(60) DEF Write, SyncWrite, LockAndUpdate, Idle, InUse, Locked,
              Goto, queue, mongo
<1>8. ASSUME NEW s \in Sessions, Modified(s) PROVE LoadedIsSaved'
  BY <1>8 DEF Modified, Goto, memory, locks, mongo, supply
<1>9. ASSUME NEW s \in Sessions, WriteUnlock(s) PROVE LoadedIsSaved'
  BY <1>9 DEF WriteUnlock, Leave, Goto, memory, queue, mongo, supply
<1>10. ASSUME NEW s \in Sessions, SyncUnlock(s) PROVE LoadedIsSaved'
  BY <1>10 DEF SyncUnlock, Enter, Goto, memory, queue, mongo, supply
<1>11. ASSUME NEW s \in Sessions, DeleteGet(s) PROVE LoadedIsSaved'
  BY <1>11 DEF DeleteGet, Idle, Hold, Enter, Goto, memory, locks, queue,
               mongo, supply, locals
<1>12. ASSUME NEW s \in Sessions, DeleteRemove(s) PROVE LoadedIsSaved'
  BY <1>12 DEF DeleteRemove, Goto, locks, queue, mongo, supply
<1>13. ASSUME NEW s \in Sessions, DeleteDestroy(s) PROVE LoadedIsSaved'
  BY <1>13 DEF DeleteDestroy, InUse, Locked, Goto, locks, queue, mongo, supply
<1>14. ASSUME NEW s \in Sessions, DeleteRemoveId(s) PROVE LoadedIsSaved'
  BY <1>14 DEF DeleteRemoveId, Hold, Leave, Goto, memory, locks, queue, supply
<1>15. ASSUME NEW p \in Procs, CommitMissing(p) PROVE LoadedIsSaved'
  BY <1>15 DEF CommitMissing, Acknowledge, Leave, Goto, memory, locks, queue, mongo, supply
<1>16. ASSUME NEW p \in Procs, CommitGet(p) PROVE LoadedIsSaved'
  BY <1>16 DEF CommitGet, Enter, Goto, memory, locks, queue, mongo, supply
<1>17. ASSUME NEW p \in Procs, CommitIsDestroyed(p) PROVE LoadedIsSaved'
  BY <1>17 DEF CommitIsDestroyed, Locked, Acknowledge, Leave, Enter, Goto, memory, locks,
               queue, mongo, supply
<1>18. ASSUME NEW p \in Procs, CommitMarshal(p) PROVE LoadedIsSaved'
  BY <1>18 DEF CommitMarshal, Locked, Goto, memory, queue, mongo, supply
<1>19. ASSUME NEW p \in Procs, CommitUpsert(p) PROVE LoadedIsSaved'
  BY <1>19 DEF CommitUpsert, Acknowledge, Leave, Goto, memory, queue, supply
<1>20. CASE WatcherReceive
  BY <1>20 DEF WatcherReceive, memory, locks, mongo, locals, supply
<1>21. CASE WatcherTimeout
  BY <1>21 DEF WatcherTimeout, memory, locks, mongo, supply, Bijection,
               Injection, Surjection, IsInjective
<1>22. CASE Crash
  BY <1>22 DEF Crash, mongo, supply
<1>23. CASE UNCHANGED vars
  BY <1>23 DEF vars, memory, locks, queue, mongo, locals, supply
<1>24. QED
  BY <1>1, <1>2, <1>3, <1>4, <1>5, <1>6, <1>7, <1>8, <1>9, <1>10, <1>11,
     <1>12, <1>13, <1>14, <1>15, <1>16, <1>17, <1>18, <1>19, <1>20, <1>21,
     <1>22, <1>23
     DEF Next, Call, Continue, CommitStep

\* A setter's first steps leave the queue and the commits alone.
LEMMA WriteKeepsQueued ==
    ASSUME TypeOK, NEW s \in Sessions, Write(s) \/ SyncWrite(s)
    PROVE  \A i \in Ids : Queued(i) => Queued(i)'
<1>1. UNCHANGED <<channel, modifiedObjects>>
  BY DEF Write, SyncWrite, LockAndUpdate, queue
<1>2. pc[s] = "idle"
  BY DEF Write, SyncWrite, LockAndUpdate, Idle
<1>3. \A p \in Procs \ {s} : pc'[p] = pc[p] /\ id'[p] = id[p]
  BY DEF Write, SyncWrite, LockAndUpdate, Goto, TypeOK
<1>4. QED BY <1>1, <1>2, <1>3 DEF Queued, InCommit

\* A timeout hands every collected id to a goroutine.
LEMMA TimeoutKeepsQueued ==
    TypeOK /\ WatcherTimeout => \A i \in Ids : Queued(i) => Queued(i)'
<1> SUFFICES ASSUME TypeOK, WatcherTimeout, NEW i \in Ids, Queued(i)
             PROVE Queued(i)'
    OBVIOUS
<1> USE DEF TypeOK, Queued, InCommit
<1>a. PICK C \in SUBSET {p \in Commits : pc[p] = "idle"} :
         \E job \in Bijection(C, modifiedObjects) :
            /\ pc' = [p \in Procs |-> IF p \in C THEN "commit" ELSE pc[p]]
            /\ id' = [p \in Procs |-> IF p \in C THEN job[p] ELSE id[p]]
  BY DEF WatcherTimeout
<1>1. PICK job \in Bijection(C, modifiedObjects) :
         /\ pc' = [p \in Procs |-> IF p \in C THEN "commit" ELSE pc[p]]
         /\ id' = [p \in Procs |-> IF p \in C THEN job[p] ELSE id[p]]
  BY <1>a
<1>2. CASE channel = i
  BY <1>2 DEF WatcherTimeout
<1>3. CASE i \in modifiedObjects
  <2>1. PICK p \in C : job[p] = i
    BY <1>1, <1>3 DEF Bijection, Surjection
  <2>2. p \in Procs /\ id'[p] = i /\ pc'[p] = "commit"
    BY <1>1, <2>1 DEF Procs
  <2>3. QED BY <2>2
<1>4. CASE \E p \in Procs : id[p] = i /\ pc[p] \in {"commit", "isDestroyed", "readLock", "upsert"}
  BY <1>1, <1>4
<1>5. QED BY <1>2, <1>3, <1>4

\* A setter that has sent its id leaves it queued until a commit takes it up.
LEMMA NextAnnounced ==
    StoreInv /\ StoreInv' /\ SingleInstance /\ SingleInstance' /\ [Next]_vars
        /\ DeletedIsUnmapped /\ AnnouncedIsQueued
    => AnnouncedIsQueued'
<1> SUFFICES ASSUME StoreInv, StoreInv', SingleInstance, SingleInstance',
                    [Next]_vars, DeletedIsUnmapped, AnnouncedIsQueued
             PROVE AnnouncedIsQueued'
    OBVIOUS
<1> USE ConstantsAssumption
    DEF StoreInv, TypeOK, References, SingleInstance,
        AnnouncedIsQueued, Queued, HasTarget, InCommit, Procs
<1>1. ASSUME NEW s \in Sessions, Create(s) PROVE AnnouncedIsQueued'
  BY <1>1 DEF Create, Idle, Allocate, Hold, Enter, Goto, locks, queue, mongo
<1>2. ASSUME NEW s \in Sessions, RetrieveContains(s) PROVE AnnouncedIsQueued'
  BY <1>2 DEF RetrieveContains, Idle, Enter, Goto, memory, locks, queue,
              mongo, supply
<1>3. ASSUME NEW s \in Sessions, RetrieveGet(s) PROVE AnnouncedIsQueued'
  BY <1>3 DEF RetrieveGet, Hold, Leave, Goto, memory, locks, queue, mongo,
              supply
<1>4. ASSUME NEW s \in Sessions, RetrieveLoad(s) PROVE AnnouncedIsQueued'
  BY <1>4 DEF RetrieveLoad, Allocate, Enter, Goto, locks, queue, mongo, supply
<1>5. ASSUME NEW s \in Sessions, RetrieveNotFound(s) PROVE AnnouncedIsQueued'
  BY <1>5 DEF RetrieveNotFound, Hold, Leave, Goto, memory, locks, queue,
              mongo, supply
<1>6. ASSUME NEW s \in Sessions, RetrieveSet(s) PROVE AnnouncedIsQueued'
  BY <1>6 DEF Unpublished, RetrieveSet, Hold, Leave, Goto, locks, queue, mongo, supply
<1>7. ASSUME NEW s \in Sessions, Write(s) \/ SyncWrite(s) PROVE AnnouncedIsQueued'
  <2>1. ASSUME NEW t \in Sessions, NEW i \in Ids,
               pc'[t] = "unlock", id'[t] = i, data'[i] = target'[t]
        PROVE  Queued(i)'
    <3>1. pc[t] = "unlock" /\ id[t] = i /\ data[i] = target[t]
      BY <1>7, <2>1 DEF Write, SyncWrite, LockAndUpdate, Idle, Goto
    <3>2. Queued(i)
      BY <3>1
    <3>3. QED BY <1>7, <3>2, WriteKeepsQueued
  <2>2. \A t \in Sessions : pc'[t] = "unlock" => id'[t] \in Ids
    OBVIOUS
  <2>3. QED BY <2>1, <2>2
<1>8. ASSUME NEW s \in Sessions, Modified(s) PROVE AnnouncedIsQueued'
  BY <1>8 DEF Modified, Goto, memory, locks, mongo, supply
<1>9. ASSUME NEW s \in Sessions, WriteUnlock(s) PROVE AnnouncedIsQueued'
  BY <1>9 DEF WriteUnlock, Leave, Goto, memory, queue, mongo, supply
<1>10. ASSUME NEW s \in Sessions, SyncUnlock(s) PROVE AnnouncedIsQueued'
  BY <1>10 DEF SyncUnlock, Enter, Goto, memory, queue, mongo, supply
<1>11. ASSUME NEW s \in Sessions, DeleteGet(s) PROVE AnnouncedIsQueued'
  BY <1>11 DEF DeleteGet, Idle, Hold, Enter, Goto, memory, locks, queue,
               mongo, supply, locals
<1>12. ASSUME NEW s \in Sessions, DeleteRemove(s) PROVE AnnouncedIsQueued'
  BY <1>12 DEF DeleteRemove, Goto, locks, queue, mongo, supply
<1>13. ASSUME NEW s \in Sessions, DeleteDestroy(s) PROVE AnnouncedIsQueued'
  BY <1>13 DEF DeleteDestroy, InUse, Locked, Goto, locks, queue, mongo, supply
<1>14. ASSUME NEW s \in Sessions, DeleteRemoveId(s) PROVE AnnouncedIsQueued'
  BY <1>14 DEF DeleteRemoveId, Hold, Leave, Goto, memory, locks, queue, supply
<1>15. ASSUME NEW p \in Procs, CommitMissing(p) PROVE AnnouncedIsQueued'
  BY <1>15 DEF CommitMissing, Acknowledge, Leave, Goto, memory, locks, queue, mongo, supply
<1>16. ASSUME NEW p \in Procs, CommitGet(p) PROVE AnnouncedIsQueued'
  BY <1>16 DEF CommitGet, Enter, Goto, memory, locks, queue, mongo, supply
<1>17. ASSUME NEW p \in Procs, CommitIsDestroyed(p) PROVE AnnouncedIsQueued'
  BY <1>17 DEF DeletedIsUnmapped, CommitIsDestroyed, Locked, Acknowledge, Leave, Enter, Goto, memory, locks,
               queue, mongo, supply
<1>18. ASSUME NEW p \in Procs, CommitMarshal(p) PROVE AnnouncedIsQueued'
  BY <1>18 DEF CommitMarshal, Locked, Goto, memory, queue, mongo, supply
<1>19. ASSUME NEW p \in Procs, CommitUpsert(p) PROVE AnnouncedIsQueued'
  BY <1>19 DEF LocksExclude, LocksHeld, CommitUpsert, Acknowledge, Leave, Goto, memory, queue, supply
<1>20. CASE WatcherReceive
  BY <1>20 DEF WatcherReceive, memory, locks, mongo, locals, supply
<1>21. CASE WatcherTimeout
  <2>1. ASSUME NEW s \in Sessions, NEW i \in Ids,
               pc'[s] = "unlock", id'[s] = i, data'[i] = target'[s]
        PROVE  Queued(i)'
    <3>1. pc[s] = "unlock" /\ id[s] = i /\ data[i] = target[s]
      BY <1>21, <2>1 DEF WatcherTimeout, memory
    <3>2. Queued(i)
      BY <3>1
    <3>3. QED BY <1>21, <3>2, TimeoutKeepsQueued
  <2>2. \A s \in Sessions : pc'[s] = "unlock" => id'[s] \in Ids
    OBVIOUS
  <2>3. QED BY <2>1, <2>2
<1>22. CASE Crash
  BY <1>22 DEF Crash, mongo, supply
<1>23. CASE UNCHANGED vars
  BY <1>23 DEF vars, memory, locks, queue, mongo, locals, supply
<1>24. QED
  BY <1>1, <1>2, <1>3, <1>4, <1>5, <1>6, <1>7, <1>8, <1>9, <1>10, <1>11,
     <1>12, <1>13, <1>14, <1>15, <1>16, <1>17, <1>18, <1>19, <1>20, <1>21,
     <1>22, <1>23
     DEF Next, Call, Continue, CommitStep

\* No step leaves a live object out of date with nobody to write it.
LEMMA NextNoLost ==
    StoreInv /\ StoreInv' /\ SingleInstance /\ SingleInstance' /\ [Next]_vars
        /\ DeletedIsUnmapped /\ LoadedIsSaved /\ AnnouncedIsQueued
        /\ NoLostUpdate
    => NoLostUpdate'
<1> SUFFICES ASSUME StoreInv, StoreInv', SingleInstance, SingleInstance',
                    [Next]_vars, DeletedIsUnmapped, LoadedIsSaved,
                    AnnouncedIsQueued, NoLostUpdate
             PROVE NoLostUpdate'
    OBVIOUS
<1> USE ConstantsAssumption
    DEF StoreInv, TypeOK, References, SingleInstance,
        NoLostUpdate, Saved, Pending, Queued, HasTarget, InCommit, Procs
<1>1. ASSUME NEW s \in Sessions, Create(s) PROVE NoLostUpdate'
  BY <1>1 DEF Create, Idle, Allocate, Hold, Enter, Goto, locks, queue, mongo
<1>2. ASSUME NEW s \in Sessions, RetrieveContains(s) PROVE NoLostUpdate'
  BY <1>2 DEF RetrieveContains, Idle, Enter, Goto, memory, locks, queue,
              mongo, supply
<1>3. ASSUME NEW s \in Sessions, RetrieveGet(s) PROVE NoLostUpdate'
  BY <1>3 DEF RetrieveGet, Hold, Leave, Goto, memory, locks, queue, mongo,
              supply
<1>4. ASSUME NEW s \in Sessions, RetrieveLoad(s) PROVE NoLostUpdate'
  BY <1>4 DEF RetrieveLoad, Allocate, Enter, Goto, locks, queue, mongo, supply
<1>5. ASSUME NEW s \in Sessions, RetrieveNotFound(s) PROVE NoLostUpdate'
  BY <1>5 DEF RetrieveNotFound, Hold, Leave, Goto, memory, locks, queue,
              mongo, supply
<1>6. ASSUME NEW s \in Sessions, RetrieveSet(s) PROVE NoLostUpdate'
  BY <1>6 DEF LoadedIsSaved, Unpublished, RetrieveSet, Hold, Leave, Goto, locks, queue, mongo, supply
<1>7. ASSUME NEW s \in Sessions, Write(s) \/ SyncWrite(s) PROVE NoLostUpdate'
  BY <1>7, SMTT(60) DEF Write, SyncWrite, LockAndUpdate, Idle, InUse, Locked,
              Goto, queue, mongo
<1>8. ASSUME NEW s \in Sessions, Modified(s) PROVE NoLostUpdate'
  BY <1>8 DEF Modified, Goto, memory, locks, mongo, supply
<1>9. ASSUME NEW s \in Sessions, WriteUnlock(s) PROVE NoLostUpdate'
  BY <1>9 DEF AnnouncedIsQueued, LocksExclude, LocksHeld, WriteUnlock, Leave, Goto, memory, queue, mongo, supply
<1>10. ASSUME NEW s \in Sessions, SyncUnlock(s) PROVE NoLostUpdate'
  BY <1>10 DEF SyncUnlock, Enter, Goto, memory, queue, mongo, supply
<1>11. ASSUME NEW s \in Sessions, DeleteGet(s) PROVE NoLostUpdate'
  BY <1>11 DEF DeleteGet, Idle, Hold, Enter, Goto, memory, locks, queue,
               mongo, supply, locals
<1>12. ASSUME NEW s \in Sessions, DeleteRemove(s) PROVE NoLostUpdate'
  BY <1>12 DEF DeleteRemove, Goto, locks, queue, mongo, supply
<1>13. ASSUME NEW s \in Sessions, DeleteDestroy(s) PROVE NoLostUpdate'
  BY <1>13 DEF DeleteDestroy, InUse, Locked, Goto, locks, queue, mongo, supply
<1>14. ASSUME NEW s \in Sessions, DeleteRemoveId(s) PROVE NoLostUpdate'
  BY <1>14 DEF DeletedIsUnmapped, DeleteRemoveId, Hold, Leave, Goto, memory, locks, queue, supply
<1>15. ASSUME NEW p \in Procs, CommitMissing(p) PROVE NoLostUpdate'
  BY <1>15 DEF CommitMissing, Acknowledge, Leave, Goto, memory, locks, queue, mongo, supply
<1>16. ASSUME NEW p \in Procs, CommitGet(p) PROVE NoLostUpdate'
  BY <1>16 DEF CommitGet, Enter, Goto, memory, locks, queue, mongo, supply
<1>17. ASSUME NEW p \in Procs, CommitIsDestroyed(p) PROVE NoLostUpdate'
  BY <1>17 DEF DeletedIsUnmapped, CommitIsDestroyed, Locked, Acknowledge, Leave, Enter, Goto, memory, locks,
               queue, mongo, supply
<1>18. ASSUME NEW p \in Procs, CommitMarshal(p) PROVE NoLostUpdate'
  BY <1>18 DEF CommitMarshal, Locked, Goto, memory, queue, mongo, supply
<1>19. ASSUME NEW p \in Procs, CommitUpsert(p) PROVE NoLostUpdate'
  BY <1>19 DEF SnapshotsAreCurrent, CommitUpsert, Acknowledge, Leave, Goto, memory, queue, supply
<1>20. CASE WatcherReceive
  BY <1>20 DEF WatcherReceive, memory, locks, mongo, locals, supply
<1>21. CASE WatcherTimeout
  <2>1. ASSUME NEW i \in Ids, data'[i] # NoObject
        PROVE  Saved(i)' \/ Pending(i)'
    <3>1. Saved(i)' = Saved(i) /\ data[i] # NoObject /\ writer' = writer /\ data' = data
      BY <1>21, <2>1 DEF WatcherTimeout, memory, mongo, locks
    <3>2. Queued(i) => Queued(i)'
      BY <1>21, TimeoutKeepsQueued
    <3>3. QED BY <3>1, <3>2
  <2>2. QED BY <2>1
<1>22. CASE Crash
  BY <1>22 DEF Crash, mongo, supply
<1>23. CASE UNCHANGED vars
  BY <1>23 DEF vars, memory, locks, queue, mongo, locals, supply
<1>24. QED
  BY <1>1, <1>2, <1>3, <1>4, <1>5, <1>6, <1>7, <1>8, <1>9, <1>10, <1>11,
     <1>12, <1>13, <1>14, <1>15, <1>16, <1>17, <1>18, <1>19, <1>20, <1>21,
     <1>22, <1>23
     DEF Next, Call, Continue, CommitStep

----------------------------------------------------------------------------
(* Synchronous updates.                                                    *)

\* An acknowledged update stays in its struct, as in every copy a commit carries.
LEMMA NextSynced ==
    StoreInv /\ StoreInv' /\ SingleInstance /\ SingleInstance' /\ [Next]_vars
        /\ SyncedInStruct /\ SyncedUpdatesSurvive
    => SyncedInStruct'
<1> SUFFICES ASSUME StoreInv, StoreInv', SingleInstance, SingleInstance',
                    [Next]_vars, SyncedInStruct, SyncedUpdatesSurvive
             PROVE SyncedInStruct'
    OBVIOUS
<1> USE ConstantsAssumption
    DEF StoreInv, TypeOK, References, SingleInstance, SyncedInStruct,
        HasTarget, InCommit, Procs
<1>1. ASSUME NEW s \in Sessions, Create(s) PROVE SyncedInStruct'
  BY <1>1 DEF Create, Idle, Allocate, Hold, Enter, Goto, locks, queue, mongo
<1>2. ASSUME NEW s \in Sessions, RetrieveContains(s) PROVE SyncedInStruct'
  BY <1>2 DEF RetrieveContains, Idle, Enter, Goto, memory, locks, queue,
              mongo, supply
<1>3. ASSUME NEW s \in Sessions, RetrieveGet(s) PROVE SyncedInStruct'
  BY <1>3 DEF RetrieveGet, Hold, Leave, Goto, memory, locks, queue, mongo,
              supply
<1>4. ASSUME NEW s \in Sessions, RetrieveLoad(s) PROVE SyncedInStruct'
  BY <1>4 DEF SyncedUpdatesSurvive, RetrieveLoad, Allocate, Enter, Goto, locks, queue, mongo, supply
<1>5. ASSUME NEW s \in Sessions, RetrieveNotFound(s) PROVE SyncedInStruct'
  BY <1>5 DEF RetrieveNotFound, Hold, Leave, Goto, memory, locks, queue,
              mongo, supply
<1>6. ASSUME NEW s \in Sessions, RetrieveSet(s) PROVE SyncedInStruct'
  BY <1>6 DEF RetrieveSet, Hold, Leave, Goto, locks, queue, mongo, supply
<1>7. ASSUME NEW s \in Sessions, Write(s) \/ SyncWrite(s) PROVE SyncedInStruct'
  BY <1>7, SMTT(60) DEF Write, SyncWrite, LockAndUpdate, Idle, InUse, Locked,
              Goto, queue, mongo
<1>8. ASSUME NEW s \in Sessions, Modified(s) PROVE SyncedInStruct'
  BY <1>8 DEF Modified, Goto, memory, locks, mongo, supply
<1>9. ASSUME NEW s \in Sessions, WriteUnlock(s) PROVE SyncedInStruct'
  BY <1>9 DEF WriteUnlock, Leave, Goto, memory, queue, mongo, supply
<1>10. ASSUME NEW s \in Sessions, SyncUnlock(s) PROVE SyncedInStruct'
  BY <1>10 DEF SyncUnlock, Enter, Goto, memory, queue, mongo, supply
<1>11. ASSUME NEW s \in Sessions, DeleteGet(s) PROVE SyncedInStruct'
  BY <1>11 DEF DeleteGet, Idle, Hold, Enter, Goto, memory, locks, queue,
               mongo, supply, locals
<1>12. ASSUME NEW s \in Sessions, DeleteRemove(s) PROVE SyncedInStruct'
  BY <1>12 DEF DeleteRemove, Goto, locks, queue, mongo, supply
<1>13. ASSUME NEW s \in Sessions, DeleteDestroy(s) PROVE SyncedInStruct'
  BY <1>13 DEF DeleteDestroy, InUse, Locked, Goto, locks, queue, mongo, supply
<1>14. ASSUME NEW s \in Sessions, DeleteRemoveId(s) PROVE SyncedInStruct'
  BY <1>14 DEF DeleteRemoveId, Hold, Leave, Goto, memory, locks, queue, supply
<1>15. ASSUME NEW p \in Procs, CommitMissing(p) PROVE SyncedInStruct'
  BY <1>15 DEF CommitMissing, Acknowledge, Leave, Goto, memory, locks, queue, mongo, supply
<1>16. ASSUME NEW p \in Procs, CommitGet(p) PROVE SyncedInStruct'
  BY <1>16 DEF CommitGet, Enter, Goto, memory, locks, queue, mongo, supply
<1>17. ASSUME NEW p \in Procs, CommitIsDestroyed(p) PROVE SyncedInStruct'
  BY <1>17, SMTT(60) DEF CommitIsDestroyed, Locked, Acknowledge, Leave, Enter, Goto, memory, locks,
               queue, mongo, supply
<1>18. ASSUME NEW p \in Procs, CommitMarshal(p) PROVE SyncedInStruct'
  BY <1>18 DEF CommitMarshal, Locked, Goto, memory, queue, mongo, supply
<1>19. ASSUME NEW p \in Procs, CommitUpsert(p) PROVE SyncedInStruct'
  BY <1>19 DEF CommitUpsert, Acknowledge, Leave, Goto, memory, queue, supply
<1>20. CASE WatcherReceive
  BY <1>20 DEF WatcherReceive, memory, locks, mongo, locals, supply
<1>21. CASE WatcherTimeout
  BY <1>21 DEF WatcherTimeout, memory, locks, mongo, supply, Bijection,
               Injection, Surjection, IsInjective
<1>22. CASE Crash
  BY <1>22 DEF Crash, mongo, supply
<1>23. CASE UNCHANGED vars
  BY <1>23 DEF vars, memory, locks, queue, mongo, locals, supply
<1>24. QED
  BY <1>1, <1>2, <1>3, <1>4, <1>5, <1>6, <1>7, <1>8, <1>9, <1>10, <1>11,
     <1>12, <1>13, <1>14, <1>15, <1>16, <1>17, <1>18, <1>19, <1>20, <1>21,
     <1>22, <1>23
     DEF Next, Call, Continue, CommitStep

\* Only a deletion takes a struct that somebody has in hand out of the map.
LEMMA NextErased ==
    StoreInv /\ StoreInv' /\ SingleInstance /\ SingleInstance' /\ [Next]_vars
        /\ ErasedOrMapped
    => ErasedOrMapped'
<1> SUFFICES ASSUME StoreInv, StoreInv', SingleInstance, SingleInstance',
                    [Next]_vars, ErasedOrMapped
             PROVE ErasedOrMapped'
    OBVIOUS
<1> USE ConstantsAssumption
    DEF StoreInv, TypeOK, References, SingleInstance, ErasedOrMapped,
        HasTarget, InCommit, Procs
<1>1. ASSUME NEW s \in Sessions, Create(s) PROVE ErasedOrMapped'
  BY <1>1 DEF Create, Idle, Allocate, Hold, Enter, Goto, locks, queue, mongo
<1>2. ASSUME NEW s \in Sessions, RetrieveContains(s) PROVE ErasedOrMapped'
  BY <1>2 DEF RetrieveContains, Idle, Enter, Goto, memory, locks, queue,
              mongo, supply
<1>3. ASSUME NEW s \in Sessions, RetrieveGet(s) PROVE ErasedOrMapped'
  BY <1>3 DEF RetrieveGet, Hold, Leave, Goto, memory, locks, queue, mongo,
              supply
<1>4. ASSUME NEW s \in Sessions, RetrieveLoad(s) PROVE ErasedOrMapped'
  BY <1>4 DEF RetrieveLoad, Allocate, Enter, Goto, locks, queue, mongo, supply
<1>5. ASSUME NEW s \in Sessions, RetrieveNotFound(s) PROVE ErasedOrMapped'
  BY <1>5 DEF RetrieveNotFound, Hold, Leave, Goto, memory, locks, queue,
              mongo, supply
<1>6. ASSUME NEW s \in Sessions, RetrieveSet(s) PROVE ErasedOrMapped'
  BY <1>6 DEF RetrieveSet, Hold, Leave, Goto, locks, queue, mongo, supply
<1>7. ASSUME NEW s \in Sessions, Write(s) \/ SyncWrite(s) PROVE ErasedOrMapped'
  BY <1>7, SMTT(60) DEF Write, SyncWrite, LockAndUpdate, Idle, InUse, Locked,
              Goto, queue, mongo
<1>8. ASSUME NEW s \in Sessions, Modified(s) PROVE ErasedOrMapped'
  BY <1>8 DEF Modified, Goto, memory, locks, mongo, supply
<1>9. ASSUME NEW s \in Sessions, WriteUnlock(s) PROVE ErasedOrMapped'
  BY <1>9 DEF WriteUnlock, Leave, Goto, memory, queue, mongo, supply
<1>10. ASSUME NEW s \in Sessions, SyncUnlock(s) PROVE ErasedOrMapped'
  BY <1>10 DEF SyncUnlock, Enter, Goto, memory, queue, mongo, supply
<1>11. ASSUME NEW s \in Sessions, DeleteGet(s) PROVE ErasedOrMapped'
  BY <1>11 DEF DeleteGet, Idle, Hold, Enter, Goto, memory, locks, queue,
               mongo, supply, locals
<1>12. ASSUME NEW s \in Sessions, DeleteRemove(s) PROVE ErasedOrMapped'
  BY <1>12 DEF DeleteRemove, Goto, locks, queue, mongo, supply
<1>13. ASSUME NEW s \in Sessions, DeleteDestroy(s) PROVE ErasedOrMapped'
  BY <1>13 DEF DeleteDestroy, InUse, Locked, Goto, locks, queue, mongo, supply
<1>14. ASSUME NEW s \in Sessions, DeleteRemoveId(s) PROVE ErasedOrMapped'
  BY <1>14 DEF DeleteRemoveId, Hold, Leave, Goto, memory, locks, queue, supply
<1>15. ASSUME NEW p \in Procs, CommitMissing(p) PROVE ErasedOrMapped'
  BY <1>15 DEF CommitMissing, Acknowledge, Leave, Goto, memory, locks, queue, mongo, supply
<1>16. ASSUME NEW p \in Procs, CommitGet(p) PROVE ErasedOrMapped'
  BY <1>16 DEF CommitGet, Enter, Goto, memory, locks, queue, mongo, supply
<1>17. ASSUME NEW p \in Procs, CommitIsDestroyed(p) PROVE ErasedOrMapped'
  BY <1>17, SMTT(60) DEF CommitIsDestroyed, Locked, Acknowledge, Leave, Enter, Goto, memory, locks,
               queue, mongo, supply
<1>18. ASSUME NEW p \in Procs, CommitMarshal(p) PROVE ErasedOrMapped'
  BY <1>18 DEF CommitMarshal, Locked, Goto, memory, queue, mongo, supply
<1>19. ASSUME NEW p \in Procs, CommitUpsert(p) PROVE ErasedOrMapped'
  BY <1>19 DEF CommitUpsert, Acknowledge, Leave, Goto, memory, queue, supply
<1>20. CASE WatcherReceive
  BY <1>20 DEF WatcherReceive, memory, locks, mongo, locals, supply
<1>21. CASE WatcherTimeout
  BY <1>21 DEF WatcherTimeout, memory, locks, mongo, supply, Bijection,
               Injection, Surjection, IsInjective
<1>22. CASE Crash
  BY <1>22 DEF Crash, mongo, supply
<1>23. CASE UNCHANGED vars
  BY <1>23 DEF vars, memory, locks, queue, mongo, locals, supply
<1>24. QED
  BY <1>1, <1>2, <1>3, <1>4, <1>5, <1>6, <1>7, <1>8, <1>9, <1>10, <1>11,
     <1>12, <1>13, <1>14, <1>15, <1>16, <1>17, <1>18, <1>19, <1>20, <1>21,
     <1>22, <1>23
     DEF Next, Call, Continue, CommitStep

\* No step takes an acknowledged update out of its document.
LEMMA NextSurvive ==
    StoreInv /\ StoreInv' /\ SingleInstance /\ SingleInstance' /\ [Next]_vars
        /\ SyncedInStruct /\ ErasedOrMapped /\ SyncedUpdatesSurvive
    => SyncedUpdatesSurvive'
<1> SUFFICES ASSUME StoreInv, StoreInv', SingleInstance, SingleInstance',
                    [Next]_vars, SyncedInStruct, ErasedOrMapped,
                    SyncedUpdatesSurvive
             PROVE SyncedUpdatesSurvive'
    OBVIOUS
<1> USE ConstantsAssumption
    DEF StoreInv, TypeOK, References, SingleInstance, SyncedInStruct,
        ErasedOrMapped, SyncedUpdatesSurvive, HasTarget, InCommit, Procs
<1>1. ASSUME NEW s \in Sessions, Create(s) PROVE SyncedUpdatesSurvive'
  BY <1>1 DEF Create, Idle, Allocate, Hold, Enter, Goto, locks, queue, mongo
<1>2. ASSUME NEW s \in Sessions, RetrieveContains(s) PROVE SyncedUpdatesSurvive'
  BY <1>2 DEF RetrieveContains, Idle, Enter, Goto, memory, locks, queue,
              mongo, supply
<1>3. ASSUME NEW s \in Sessions, RetrieveGet(s) PROVE SyncedUpdatesSurvive'
  BY <1>3 DEF RetrieveGet, Hold, Leave, Goto, memory, locks, queue, mongo,
              supply
<1>4. ASSUME NEW s \in Sessions, RetrieveLoad(s) PROVE SyncedUpdatesSurvive'
  BY <1>4 DEF RetrieveLoad, Allocate, Enter, Goto, locks, queue, mongo, supply
<1>5. ASSUME NEW s \in Sessions, RetrieveNotFound(s) PROVE SyncedUpdatesSurvive'
  BY <1>5 DEF RetrieveNotFound, Hold, Leave, Goto, memory, locks, queue,
              mongo, supply
<1>6. ASSUME NEW s \in Sessions, RetrieveSet(s) PROVE SyncedUpdatesSurvive'
  BY <1>6 DEF RetrieveSet, Hold, Leave, Goto, locks, queue, mongo, supply
<1>7. ASSUME NEW s \in Sessions, Write(s) \/ SyncWrite(s) PROVE SyncedUpdatesSurvive'
  BY <1>7, SMTT(60) DEF Write, SyncWrite, LockAndUpdate, Idle, InUse, Locked,
              Goto, queue, mongo
<1>8. ASSUME NEW s \in Sessions, Modified(s) PROVE SyncedUpdatesSurvive'
  BY <1>8 DEF Modified, Goto, memory, locks, mongo, supply
<1>9. ASSUME NEW s \in Sessions, WriteUnlock(s) PROVE SyncedUpdatesSurvive'
  BY <1>9 DEF WriteUnlock, Leave, Goto, memory, queue, mongo, supply
<1>10. ASSUME NEW s \in Sessions, SyncUnlock(s) PROVE SyncedUpdatesSurvive'
  BY <1>10 DEF SyncUnlock, Enter, Goto, memory, queue, mongo, supply
<1>11. ASSUME NEW s \in Sessions, DeleteGet(s) PROVE SyncedUpdatesSurvive'
  BY <1>11 DEF DeleteGet, Idle, Hold, Enter, Goto, memory, locks, queue,
               mongo, supply, locals
<1>12. ASSUME NEW s \in Sessions, DeleteRemove(s) PROVE SyncedUpdatesSurvive'
  BY <1>12 DEF DeleteRemove, Goto, locks, queue, mongo, supply
<1>13. ASSUME NEW s \in Sessions, DeleteDestroy(s) PROVE SyncedUpdatesSurvive'
  BY <1>13 DEF DeleteDestroy, InUse, Locked, Goto, locks, queue, mongo, supply
<1>14. ASSUME NEW s \in Sessions, DeleteRemoveId(s) PROVE SyncedUpdatesSurvive'
  BY <1>14 DEF DeleteRemoveId, Hold, Leave, Goto, memory, locks, queue, supply
<1>15. ASSUME NEW p \in Procs, CommitMissing(p) PROVE SyncedUpdatesSurvive'
  BY <1>15 DEF CommitMissing, Acknowledge, Leave, Goto, memory, locks, queue, mongo, supply
<1>16. ASSUME NEW p \in Procs, CommitGet(p) PROVE SyncedUpdatesSurvive'
  BY <1>16 DEF CommitGet, Enter, Goto, memory, locks, queue, mongo, supply
<1>17. ASSUME NEW p \in Procs, CommitIsDestroyed(p) PROVE SyncedUpdatesSurvive'
  BY <1>17 DEF CommitIsDestroyed, Locked, Acknowledge, Leave, Enter, Goto, memory, locks,
               queue, mongo, supply
<1>18. ASSUME NEW p \in Procs, CommitMarshal(p) PROVE SyncedUpdatesSurvive'
  BY <1>18 DEF CommitMarshal, Locked, Goto, memory, queue, mongo, supply
<1>19. ASSUME NEW p \in Procs, CommitUpsert(p) PROVE SyncedUpdatesSurvive'
  BY <1>19 DEF SnapshotsAreCurrent, CommitUpsert, Acknowledge, Leave, Goto, memory, queue, supply
<1>20. CASE WatcherReceive
  BY <1>20 DEF WatcherReceive, memory, locks, mongo, locals, supply
<1>21. CASE WatcherTimeout
  BY <1>21 DEF WatcherTimeout, memory, locks, mongo, supply, Bijection,
               Injection, Surjection, IsInjective
<1>22. CASE Crash
  BY <1>22 DEF Crash, mongo, supply
<1>23. CASE UNCHANGED vars
  BY <1>23 DEF vars, memory, locks, queue, mongo, locals, supply
<1>24. QED
  BY <1>1, <1>2, <1>3, <1>4, <1>5, <1>6, <1>7, <1>8, <1>9, <1>10, <1>11,
     <1>12, <1>13, <1>14, <1>15, <1>16, <1>17, <1>18, <1>19, <1>20, <1>21,
     <1>22, <1>23
     DEF Next, Call, Continue, CommitStep

----------------------------------------------------------------------------
(* The invariants of SoloSpec and what follows from them.                  *)

\* With one struct for each id the store keeps SoloInv in every behaviour.
THEOREM SoloInvariant == SoloSpec => []SoloInv
<1>1. Init => SoloInv
  <2> SUFFICES ASSUME Init PROVE SoloInv
      OBVIOUS
  <2>1. StoreInv
    <3>1. TypeOK /\ References
      BY InitTypeOK, InitReferences
    <3>2. Unpublished /\ LocksExclude /\ LocksHeld /\ SnapshotsAreCurrent
      BY ConstantsAssumption
         DEF Init, Unpublished, LocksExclude, LocksHeld, SnapshotsAreCurrent, Procs
    <3>3. QED BY <3>1, <3>2 DEF StoreInv
  <2>2. /\ SingleInstance /\ DeletedIsUnmapped /\ DocumentsTrail /\ LoadedIsSaved
        /\ AnnouncedIsQueued /\ NoLostUpdate /\ SyncedInStruct
        /\ ErasedOrMapped /\ SyncedUpdatesSurvive
    BY ConstantsAssumption
       DEF Init, SingleInstance, DeletedIsUnmapped, DocumentsTrail, LoadedIsSaved,
           AnnouncedIsQueued, NoLostUpdate, SyncedInStruct, ErasedOrMapped,
           SyncedUpdatesSurvive, Procs
  <2>3. QED BY <2>1, <2>2 DEF SoloInv
<1>2. SoloInv /\ [SoloNext]_vars => SoloInv'
  <2> SUFFICES ASSUME SoloInv, [SoloNext]_vars PROVE SoloInv'
      OBVIOUS
  <2>1. StoreInv /\ [Next]_vars
    BY DEF SoloInv, SoloNext
  <2>2. StoreInv'
    BY <2>1, NextTypeOK, NextReferences, NextUnpublished, NextLocks, NextSnapshots
       DEF StoreInv
  <2>3. SingleInstance'
    BY DEF SoloInv, SoloNext, SingleInstance, vars, memory
  <2>4. QED
    BY <2>1, <2>2, <2>3, NextDeleted, NextDocuments, NextLoaded, NextAnnounced,
       NextNoLost, NextSynced, NextErased, NextSurvive
       DEF SoloInv
<1>3. QED BY <1>1, <1>2, PTL DEF SoloSpec

\* While each id has one struct, an update that is not in its document is on its
\* way there: no interleaving of setters, watcher, timer, commits and deletions
\* forgets it.
THEOREM NoUpdateIsLost == SoloSpec => []NoLostUpdate
  BY SoloInvariant, PTL DEF SoloInv

\* An update whose SetContainerId has returned is in the document, and outlives
\* every crash and every later commit, unless the object's deletion has begun.
THEOREM SyncedUpdatesArePermanent == SoloSpec => []SyncedUpdatesSurvive
  BY SoloInvariant, PTL DEF SoloInv

\* Overlapping commits never take a document back to an earlier state.
THEOREM DocumentsOnlyAdvance == SoloSpec => DocumentsAdvance
<1>1. SoloInv /\ [SoloNext]_vars
        => [\A i \in stored \cap stored' : doc[i] \subseteq doc'[i]]_vars
  <2> SUFFICES ASSUME SoloInv, SoloNext, NEW i \in stored \cap stored'
               PROVE doc[i] \subseteq doc'[i]
      BY DEF vars, mongo
  <2>1. CASE \E p \in Procs : CommitUpsert(p)
    <3>1. PICK p \in Procs : CommitUpsert(p)
      BY <2>1
    <3>2. doc' = [doc EXCEPT ![id[p]] = snap[p]]
      BY <3>1 DEF CommitUpsert
    <3>3. CASE id[p] = i
      <4>1. target[p] \in Objects /\ bound[target[p]] = i /\ snap[p] = content[target[p]]
        BY <3>1, <3>3
           DEF CommitUpsert, SoloInv, StoreInv, References, SnapshotsAreCurrent,
               HasTarget
      <4>2. doc[i] \subseteq snap[p]
        BY <4>1 DEF SoloInv, DocumentsTrail
      <4>3. QED BY <3>2, <3>3, <4>2 DEF SoloInv, StoreInv, TypeOK
    <3>4. CASE id[p] # i
      BY <3>2, <3>4 DEF SoloInv, StoreInv, TypeOK
    <3>5. QED BY <3>3, <3>4
  <2>2. CASE ~ \E p \in Procs : CommitUpsert(p)
    <3>1. doc' = doc
      BY <2>2
         DEF SoloNext, Next, Call, Continue, CommitStep, Create, RetrieveContains,
             RetrieveGet, RetrieveLoad, RetrieveNotFound, RetrieveSet, Write,
             SyncWrite, LockAndUpdate, Modified, WriteUnlock, SyncUnlock, DeleteGet,
             DeleteRemove, DeleteDestroy, DeleteRemoveId, CommitMissing, CommitGet,
             CommitIsDestroyed, CommitMarshal, WatcherReceive, WatcherTimeout,
             Crash, mongo
    <3>2. QED BY <3>1
  <2>3. QED BY <2>1, <2>2
<1>2. QED BY <1>1, SoloInvariant, PTL DEF SoloSpec, DocumentsAdvance

----------------------------------------------------------------------------
(* The store implements DurableStore.                                      *)

\* A commit in flight works on the live object, unless that is being deleted; an
\* id nobody has been given has no content and was never deleted.
Mapped ==
    /\ \A p \in Procs : pc[p] \in {"isDestroyed", "readLock", "upsert"} =>
          id[p] \in erased \/ data[id[p]] = target[p]
    /\ \A i \in Ids \ known : doc[i] = {} /\ i \notin erased

\* Only a deletion takes an object from the map while a commit works on it.
LEMMA NextMapped ==
    ASSUME SoloInv, StoreInv', SingleInstance', [Next]_vars, Mapped
    PROVE  Mapped'
<1> USE ConstantsAssumption
    DEF SoloInv, StoreInv, TypeOK, References, Unpublished, SingleInstance,
        Mapped, HasTarget, InCommit, Procs
<1>1. ASSUME NEW s \in Sessions, Create(s) PROVE Mapped'
  BY <1>1 DEF Create, Idle, Allocate, Hold, Enter, Goto, locks, queue, mongo
<1>2. ASSUME NEW s \in Sessions, RetrieveContains(s) PROVE Mapped'
  BY <1>2 DEF RetrieveContains, Idle, Enter, Goto, memory, locks, queue,
              mongo, supply
<1>3. ASSUME NEW s \in Sessions, RetrieveGet(s) PROVE Mapped'
  BY <1>3 DEF RetrieveGet, Hold, Leave, Goto, memory, locks, queue, mongo,
              supply
<1>4. ASSUME NEW s \in Sessions, RetrieveLoad(s) PROVE Mapped'
  BY <1>4 DEF RetrieveLoad, Allocate, Enter, Goto, locks, queue, mongo, supply
<1>5. ASSUME NEW s \in Sessions, RetrieveNotFound(s) PROVE Mapped'
  BY <1>5 DEF RetrieveNotFound, Hold, Leave, Goto, memory, locks, queue,
              mongo, supply
<1>6. ASSUME NEW s \in Sessions, RetrieveSet(s) PROVE Mapped'
  BY <1>6 DEF RetrieveSet, Hold, Leave, Goto, locks, queue, mongo, supply
<1>7. ASSUME NEW s \in Sessions, Write(s) \/ SyncWrite(s) PROVE Mapped'
  BY <1>7, SMTT(60) DEF Write, SyncWrite, LockAndUpdate, Idle, InUse, Locked,
              Goto, queue, mongo
<1>8. ASSUME NEW s \in Sessions, Modified(s) PROVE Mapped'
  BY <1>8 DEF Modified, Goto, memory, locks, mongo, supply
<1>9. ASSUME NEW s \in Sessions, WriteUnlock(s) PROVE Mapped'
  BY <1>9 DEF WriteUnlock, Leave, Goto, memory, queue, mongo, supply
<1>10. ASSUME NEW s \in Sessions, SyncUnlock(s) PROVE Mapped'
  BY <1>10 DEF SyncUnlock, Enter, Goto, memory, queue, mongo, supply
<1>11. ASSUME NEW s \in Sessions, DeleteGet(s) PROVE Mapped'
  BY <1>11 DEF DeleteGet, Idle, Hold, Enter, Goto, memory, locks, queue,
               mongo, supply, locals
<1>12. ASSUME NEW s \in Sessions, DeleteRemove(s) PROVE Mapped'
  BY <1>12 DEF DeleteRemove, Goto, locks, queue, mongo, supply
<1>13. ASSUME NEW s \in Sessions, DeleteDestroy(s) PROVE Mapped'
  BY <1>13 DEF DeleteDestroy, InUse, Locked, Goto, locks, queue, mongo, supply
<1>14. ASSUME NEW s \in Sessions, DeleteRemoveId(s) PROVE Mapped'
  BY <1>14 DEF DeleteRemoveId, Hold, Leave, Goto, memory, locks, queue, supply
<1>15. ASSUME NEW p \in Procs, CommitMissing(p) PROVE Mapped'
  BY <1>15 DEF CommitMissing, Acknowledge, Leave, Goto, memory, locks, queue, mongo, supply
<1>16. ASSUME NEW p \in Procs, CommitGet(p) PROVE Mapped'
  BY <1>16 DEF CommitGet, Enter, Goto, memory, locks, queue, mongo, supply
<1>17. ASSUME NEW p \in Procs, CommitIsDestroyed(p) PROVE Mapped'
  BY <1>17 DEF CommitIsDestroyed, Locked, Acknowledge, Leave, Enter, Goto, memory, locks,
               queue, mongo, supply
<1>18. ASSUME NEW p \in Procs, CommitMarshal(p) PROVE Mapped'
  BY <1>18 DEF CommitMarshal, Locked, Goto, memory, queue, mongo, supply
<1>19. ASSUME NEW p \in Procs, CommitUpsert(p) PROVE Mapped'
  BY <1>19 DEF CommitUpsert, Acknowledge, Leave, Goto, memory, queue, supply
<1>20. CASE WatcherReceive
  BY <1>20 DEF WatcherReceive, memory, locks, mongo, locals, supply
<1>21. CASE WatcherTimeout
  BY <1>21 DEF WatcherTimeout, memory, locks, mongo, supply, Bijection,
               Injection, Surjection, IsInjective
<1>22. CASE Crash
  BY <1>22 DEF Crash, mongo, supply
<1>23. CASE UNCHANGED vars
  BY <1>23 DEF vars, memory, locks, queue, mongo, locals, supply
<1>24. QED
  BY <1>1, <1>2, <1>3, <1>4, <1>5, <1>6, <1>7, <1>8, <1>9, <1>10, <1>11,
     <1>12, <1>13, <1>14, <1>15, <1>16, <1>17, <1>18, <1>19, <1>20, <1>21,
     <1>22, <1>23
     DEF Next, Call, Continue, CommitStep

\* Every step is one of DurableStore or leaves it alone.
LEMMA StepRefines ==
    ASSUME SoloInv, [Next]_vars, Mapped
    PROVE  [Durable!Next]_Durable!dvars
<1> USE ConstantsAssumption
    DEF SoloInv, StoreInv, TypeOK, References, SingleInstance, HasTarget,
        InCommit, Procs
<1>1. ASSUME NEW s \in Sessions, Create(s) PROVE [Durable!Next]_Durable!dvars
  <2>1. PICK o \in Objects, i \in Ids \ known :
           /\ bound[o] = NoId
           /\ content' = [content EXCEPT ![o] = {}]
           /\ data' = [data EXCEPT ![i] = o]
    BY <1>1 DEF Create, Allocate
  <2>2. doc' = doc /\ erased' = erased /\ doc[i] = {} /\ i \notin erased
    BY <1>1 DEF Create, mongo, Mapped
  <2>3. data[i] = NoObject
    BY <2>1
  <2>4. ASSUME NEW j \in Ids PROVE Current'[j] = Current[j]
    <3>1. CASE j = i
      BY <2>1, <2>2, <2>3, <3>1 DEF Current
    <3>2. CASE j # i
      <4>1. data'[j] = data[j] /\ data[j] # o
        BY <2>1, <3>2
      <4>2. QED BY <2>1, <2>2, <4>1 DEF Current
    <3>3. QED BY <3>1, <3>2
  <2>5. Current' = Current /\ Documents' = Documents
    BY <2>2, <2>4 DEF Current, Documents
  <2>6. QED BY <2>5 DEF Durable!dvars
<1>2. ASSUME NEW s \in Sessions, RetrieveContains(s) PROVE [Durable!Next]_Durable!dvars
  <2>1. Current' = Current /\ Documents' = Documents
    BY <1>2 DEF RetrieveContains, memory, mongo, Current, Documents
  <2>2. QED BY <2>1 DEF Durable!dvars
<1>3. ASSUME NEW s \in Sessions, RetrieveGet(s) PROVE [Durable!Next]_Durable!dvars
  <2>1. Current' = Current /\ Documents' = Documents
    BY <1>3 DEF RetrieveGet, memory, mongo, Current, Documents
  <2>2. QED BY <2>1 DEF Durable!dvars
<1>4. ASSUME NEW s \in Sessions, RetrieveLoad(s) PROVE [Durable!Next]_Durable!dvars
  <2>1. Current' = Current /\ Documents' = Documents
    BY <1>4 DEF RetrieveLoad, Allocate, mongo, Current, Documents
  <2>2. QED BY <2>1 DEF Durable!dvars
<1>5. ASSUME NEW s \in Sessions, RetrieveNotFound(s) PROVE [Durable!Next]_Durable!dvars
  <2>1. Current' = Current /\ Documents' = Documents
    BY <1>5 DEF RetrieveNotFound, memory, mongo, Current, Documents
  <2>2. QED BY <2>1 DEF Durable!dvars
<1>6. ASSUME NEW s \in Sessions, RetrieveSet(s) PROVE [Durable!Next]_Durable!dvars
  <2>1. id[s] \in Ids /\ data[id[s]] = NoObject /\ doc[id[s]] = content[target[s]]
    BY <1>6 DEF RetrieveSet, LoadedIsSaved, Unpublished
  <2>2. Current' = Current /\ Documents' = Documents
    BY <1>6, <2>1 DEF RetrieveSet, Current, Documents, mongo
  <2>3. QED BY <2>2 DEF Durable!dvars
<1>7. ASSUME NEW s \in Sessions, Write(s) \/ SyncWrite(s) PROVE [Durable!Next]_Durable!dvars
  <2> DEFINE i == bound[held[s]]
  <2>1. PICK u \in Updates : content' = [content EXCEPT ![held[s]] = @ \cup {u}]
    BY <1>7 DEF Write, SyncWrite, LockAndUpdate
  <2>2. /\ held[s] \in Objects /\ i \in Ids
        /\ data' = data /\ doc' = doc /\ erased' = erased
    BY <1>7 DEF Write, SyncWrite, LockAndUpdate, mongo
  <2>3. Documents' = Documents
    BY <2>2 DEF Documents
  <2>4. ASSUME NEW j \in Ids, j # i PROVE Current'[j] = Current[j]
    <3>1. data[j] # held[s]
      BY <2>2, <2>4
    <3>2. data[j] # NoObject => content'[data[j]] = content[data[j]]
      BY <2>1, <2>2, <3>1
    <3>3. QED BY <2>2, <3>2 DEF Current
  <2>5. Current' = [j \in Ids |-> Current'[j]] /\ Current = [j \in Ids |-> Current[j]]
    BY DEF Current
  <2>6. CASE data[i] = held[s] /\ i \notin erased
    <3>1. Current'[i] = Current[i] \cup {u}
      BY <2>1, <2>2, <2>6 DEF Current
    <3>2. Current' = [Current EXCEPT ![i] = @ \cup {u}]
      BY <2>4, <2>5, <3>1
    <3>3. QED BY <2>2, <2>3, <3>2 DEF Durable!Next, Durable!Update
  <2>7. CASE data[i] # held[s] \/ i \in erased
    <3>1. Current'[i] = Current[i]
      BY <2>1, <2>2, <2>7 DEF Current
    <3>2. Current' = Current
      BY <2>4, <2>5, <3>1
    <3>3. QED BY <2>3, <3>2 DEF Durable!dvars
  <2>8. QED BY <2>6, <2>7
<1>8. ASSUME NEW s \in Sessions, Modified(s) PROVE [Durable!Next]_Durable!dvars
  <2>1. Current' = Current /\ Documents' = Documents
    BY <1>8 DEF Modified, memory, mongo, Current, Documents
  <2>2. QED BY <2>1 DEF Durable!dvars
<1>9. ASSUME NEW s \in Sessions, WriteUnlock(s) PROVE [Durable!Next]_Durable!dvars
  <2>1. Current' = Current /\ Documents' = Documents
    BY <1>9 DEF WriteUnlock, memory, mongo, Current, Documents
  <2>2. QED BY <2>1 DEF Durable!dvars
<1>10. ASSUME NEW s \in Sessions, SyncUnlock(s) PROVE [Durable!Next]_Durable!dvars
  <2>1. Current' = Current /\ Documents' = Documents
    BY <1>10 DEF SyncUnlock, memory, mongo, Current, Documents
  <2>2. QED BY <2>1 DEF Durable!dvars
<1>11. ASSUME NEW s \in Sessions, DeleteGet(s) PROVE [Durable!Next]_Durable!dvars
  <2>1. Current' = Current /\ Documents' = Documents
    BY <1>11 DEF DeleteGet, memory, mongo, Current, Documents
  <2>2. QED BY <2>1 DEF Durable!dvars
<1>12. ASSUME NEW s \in Sessions, DeleteRemove(s) PROVE [Durable!Next]_Durable!dvars
  <2>1. /\ id[s] \in Ids /\ data' = [data EXCEPT ![id[s]] = NoObject]
        /\ erased' = erased \cup {id[s]} /\ content' = content /\ doc' = doc
    BY <1>12 DEF DeleteRemove, mongo
  <2>2. Current' = [Current EXCEPT ![id[s]] = {}]
    BY <2>1 DEF Current
  <2>3. Documents' = [Documents EXCEPT ![id[s]] = {}]
    BY <2>1 DEF Documents
  <2>4. QED BY <2>1, <2>2, <2>3 DEF Durable!Next, Durable!Erase
<1>13. ASSUME NEW s \in Sessions, DeleteDestroy(s) PROVE [Durable!Next]_Durable!dvars
  <2>1. Current' = Current /\ Documents' = Documents
    BY <1>13 DEF DeleteDestroy, mongo, Current, Documents
  <2>2. QED BY <2>1 DEF Durable!dvars
<1>14. ASSUME NEW s \in Sessions, DeleteRemoveId(s) PROVE [Durable!Next]_Durable!dvars
  <2>1. Current' = Current /\ Documents' = Documents
    BY <1>14 DEF DeleteRemoveId, memory, Current, Documents
  <2>2. QED BY <2>1 DEF Durable!dvars
<1>15. ASSUME NEW p \in Procs, CommitMissing(p) PROVE [Durable!Next]_Durable!dvars
  <2>1. Current' = Current /\ Documents' = Documents
    BY <1>15 DEF CommitMissing, memory, mongo, Current, Documents
  <2>2. QED BY <2>1 DEF Durable!dvars
<1>16. ASSUME NEW p \in Procs, CommitGet(p) PROVE [Durable!Next]_Durable!dvars
  <2>1. Current' = Current /\ Documents' = Documents
    BY <1>16 DEF CommitGet, memory, mongo, Current, Documents
  <2>2. QED BY <2>1 DEF Durable!dvars
<1>17. ASSUME NEW p \in Procs, CommitIsDestroyed(p) PROVE [Durable!Next]_Durable!dvars
  <2>1. Current' = Current /\ Documents' = Documents
    BY <1>17 DEF CommitIsDestroyed, memory, mongo, Current, Documents
  <2>2. QED BY <2>1 DEF Durable!dvars
<1>18. ASSUME NEW p \in Procs, CommitMarshal(p) PROVE [Durable!Next]_Durable!dvars
  <2>1. Current' = Current /\ Documents' = Documents
    BY <1>18 DEF CommitMarshal, memory, mongo, Current, Documents
  <2>2. QED BY <2>1 DEF Durable!dvars
<1>19. ASSUME NEW p \in Procs, CommitUpsert(p) PROVE [Durable!Next]_Durable!dvars
  <2>1. id[p] \in Ids /\ target[p] \in Objects /\ snap[p] = content[target[p]]
    BY <1>19 DEF CommitUpsert, SnapshotsAreCurrent
  <2>2. doc' = [doc EXCEPT ![id[p]] = snap[p]] /\ erased' = erased
    BY <1>19 DEF CommitUpsert
  <2>3. CASE id[p] \in erased
    <3>1. Current' = Current /\ Documents' = Documents
      BY <1>19, <2>1, <2>2, <2>3 DEF CommitUpsert, memory, Current, Documents, Mapped
    <3>2. QED BY <3>1 DEF Durable!dvars
  <2>4. CASE id[p] \notin erased
    <3>1. data[id[p]] = target[p]
      BY <1>19, <2>4 DEF CommitUpsert, Mapped
    <3>2. Current' = Current /\ Current[id[p]] = snap[p]
      BY <1>19, <2>1, <2>2, <2>4, <3>1 DEF CommitUpsert, memory, Current
    <3>3. Documents' = [Documents EXCEPT ![id[p]] = snap[p]]
      <4>1. \A j \in Ids : Documents'[j] = IF j = id[p] THEN snap[p] ELSE Documents[j]
        BY <2>1, <2>2, <2>4 DEF Documents
      <4>2. QED BY <2>1, <4>1 DEF Documents
    <3>4. QED BY <2>1, <3>2, <3>3 DEF Durable!Next, Durable!Persist
  <2>5. QED BY <2>3, <2>4
<1>20. CASE WatcherReceive
  <2>1. Current' = Current /\ Documents' = Documents
    BY <1>20 DEF WatcherReceive, memory, mongo, Current, Documents
  <2>2. QED BY <2>1 DEF Durable!dvars
<1>21. CASE WatcherTimeout
  <2>1. Current' = Current /\ Documents' = Documents
    BY <1>21 DEF WatcherTimeout, memory, mongo, Current, Documents
  <2>2. QED BY <2>1 DEF Durable!dvars
<1>22. CASE Crash
  <2>1. Current' = Documents /\ Documents' = Documents
    BY <1>22 DEF Crash, Current, Documents, mongo
  <2>2. QED BY <2>1 DEF Durable!Next, Durable!Restart
<1>23. CASE UNCHANGED vars
  <2>1. Current' = Current /\ Documents' = Documents
    BY <1>23 DEF vars, memory, mongo, Current, Documents
  <2>2. QED BY <2>1 DEF Durable!dvars
<1>24. QED
  BY <1>1, <1>2, <1>3, <1>4, <1>5, <1>6, <1>7, <1>8, <1>9, <1>10, <1>11,
     <1>12, <1>13, <1>14, <1>15, <1>16, <1>17, <1>18, <1>19, <1>20, <1>21,
     <1>22, <1>23
     DEF Next, Call, Continue, CommitStep

\* Callers of the store see a current value for each id, and its document only
\* ever takes that value as a whole; a restart goes back to the documents, and a
\* deletion takes away one id and no more.
THEOREM StoreImplementsDurableStore == SoloSpec => ImplementsDurableStore
<1>1. Init => Durable!Init
  BY DEF Init, Durable!Init, Current, Documents
<1>2. Init => Mapped
  BY DEF Init, Mapped
<1>3. SoloInv /\ SoloInv' /\ [SoloNext]_vars /\ Mapped => Mapped'
  <2> SUFFICES ASSUME SoloInv, SoloInv', [SoloNext]_vars, Mapped
               PROVE Mapped'
      OBVIOUS
  <2>1. StoreInv' /\ SingleInstance' /\ [Next]_vars
    BY DEF SoloInv, SoloNext
  <2>2. QED BY <2>1, NextMapped
<1>4. SoloInv /\ [SoloNext]_vars /\ Mapped => [Durable!Next]_Durable!dvars
  BY StepRefines DEF SoloNext
<1>5. QED
  BY <1>1, <1>2, <1>3, <1>4, SoloInvariant, PTL
     DEF SoloSpec, ImplementsDurableStore, Durable!Spec
=============================================================================
