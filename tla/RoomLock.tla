------------------------------ MODULE RoomLock ------------------------------
(***************************************************************************)
(* The read-write lock of one room (database/room.go over Go's             *)
(* sync.RWMutex) and the commands that take it.  Two methods call HasExit, *)
(* which locks for reading, with the lock already in hand: IsLocked while  *)
(* reading, SetLocked while writing.                                       *)
(*                                                                         *)
(* A method is the sequence of its operations on the lock, a command the   *)
(* sequence of the methods it calls on the room the character is in.       *)
(***************************************************************************)
EXTENDS Naturals, Sequences

CONSTANTS
    Visitors,       \* sessions in the room
    Nothing,
    MaxVisits       \* commands each gives in the run

ASSUME RoomLockAssumption ==
    /\ Nothing \notin Visitors
    /\ MaxVisits \in Nat

VARIABLES
    lockOps,        \* what is left of each session's command
    command,        \* its name
    readHolds,      \* read locks each session holds
    writeHold,      \* the session with the write lock
    announced,      \* the writer that waits for readers to go
    visits          \* bound

roomLockVars == <<lockOps, command, readHolds, writeHold, announced, visits>>

-----------------------------------------------------------------------------
(* Room                                                                    *)

\* Faulty variant: the lock is kept.
HasExitHeld == <<"RLock">>

HasExit      == <<"RLock", "RUnlock">>
NextLocation == <<"RLock", "RUnlock">>
IsLocked     == <<"RLock">> \o HasExit \o <<"RUnlock">>

\* Faulty variant: the lock is kept.
SetExitEnabledHeld == <<"Lock">>

SetExitEnabled == <<"Lock", "Unlock">>
SetLocked      == <<"Lock">> \o HasExit \o <<"Unlock">>

Walk == HasExit \o HasExit \o IsLocked \o NextLocation

\* handleAction, quickRoom, toggleExit, handleLock
Commands ==
    [walk   |-> Walk,
     open   |-> SetExitEnabled \o Walk,
     toggle |-> HasExit \o SetExitEnabled \o NextLocation,
     lock   |-> SetLocked \o NextLocation]

RoomLockInit ==
    /\ lockOps = [v \in Visitors |-> << >>]
    /\ command = [v \in Visitors |-> Nothing]
    /\ readHolds = [v \in Visitors |-> 0]
    /\ writeHold = Nothing
    /\ announced = Nothing
    /\ visits = [v \in Visitors |-> 0]

RoomLockTypeOK ==
    /\ \A v \in Visitors : lockOps[v] \in Seq({"RLock", "RUnlock", "Lock", "Unlock"})
    /\ command \in [Visitors -> DOMAIN Commands \cup {Nothing}]
    /\ readHolds \in [Visitors -> 0..2]
    /\ writeHold \in Visitors \cup {Nothing} /\ announced \in Visitors \cup {Nothing}
    /\ visits \in [Visitors -> 0..MaxVisits]

Enters(v, c) ==
    /\ lockOps[v] = << >> /\ visits[v] < MaxVisits
    /\ lockOps' = [lockOps EXCEPT ![v] = Commands[c]]
    /\ command' = [command EXCEPT ![v] = c]
    /\ visits' = [visits EXCEPT ![v] = @ + 1]
    /\ UNCHANGED <<readHolds, writeHold, announced>>

-----------------------------------------------------------------------------
(* sync.RWMutex: a writer that waits for readers keeps new readers out.    *)

\* Session v has op before it.
Faces(v, op) == lockOps[v] # << >> /\ Head(lockOps[v]) = op

\* It is done.
Passes(v) ==
    /\ lockOps' = [lockOps EXCEPT ![v] = Tail(@)]
    /\ UNCHANGED <<command, visits>>

ReadLock(v) ==
    /\ Faces(v, "RLock") /\ writeHold = Nothing /\ announced = Nothing
    /\ readHolds' = [readHolds EXCEPT ![v] = @ + 1]
    /\ Passes(v) /\ UNCHANGED <<writeHold, announced>>

ReadUnlock(v) ==
    /\ Faces(v, "RUnlock")
    /\ readHolds' = [readHolds EXCEPT ![v] = @ - 1]
    /\ Passes(v) /\ UNCHANGED <<writeHold, announced>>

Announce(v) ==
    /\ Faces(v, "Lock") /\ writeHold = Nothing /\ announced = Nothing
    /\ announced' = v
    /\ UNCHANGED <<lockOps, command, visits, readHolds, writeHold>>

WriteLock(v) ==
    /\ Faces(v, "Lock") /\ announced = v
    /\ \A r \in Visitors : readHolds[r] = 0
    /\ writeHold' = v /\ announced' = Nothing
    /\ Passes(v) /\ UNCHANGED readHolds

WriteUnlock(v) ==
    /\ Faces(v, "Unlock")
    /\ writeHold' = Nothing
    /\ Passes(v) /\ UNCHANGED <<readHolds, announced>>

LockStep(v) ==
    ReadLock(v) \/ ReadUnlock(v) \/ Announce(v) \/ WriteLock(v) \/ WriteUnlock(v)

RoomLockNext ==
    \E v \in Visitors : LockStep(v) \/ \E c \in DOMAIN Commands : Enters(v, c)

\* A goroutine that can take a lock does.
RoomLockFairness == \A v \in Visitors : WF_roomLockVars(LockStep(v))

RoomLockSpec == RoomLockInit /\ [][RoomLockNext]_roomLockVars /\ RoomLockFairness

-----------------------------------------------------------------------------
(* Properties                                                              *)

\* SetLocked asks for a read lock with the write lock in hand: it waits for
\* itself.
WaitsForItself ==
    \E v \in Visitors : writeHold = v /\ command[v] = "lock" /\ Faces(v, "RLock")

\* A reader asks again while a writer waits for it: IsLocked and a setter
\* wait for each other.
WaitInACircle ==
    announced # Nothing /\ \E v \in Visitors : readHolds[v] > 0 /\ Faces(v, "RLock")

\* Every method of a room returns, however readers and writers meet, but for
\* the two ways in which the locks taken twice stop everybody.
RoomCallsReturn ==
    \A v \in Visitors :
        []<>(lockOps[v] = << >> \/ WaitsForItself \/ WaitInACircle)

\* "Lock on both sides" (actions.go): after this side the lock command goes on
\* to the room on the other side.
LockReachesOtherSide ==
    \A v \in Visitors :
        (command[v] = "lock" /\ lockOps[v] # << >>) ~> lockOps[v] = << >>
=============================================================================
