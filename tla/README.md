# A verification project for kmud

kmud is a multi-user dungeon server in Go: telnet connections, one goroutine
group for each session, goroutines for non-player characters, an event bus, a
combat loop, and a write-behind object store over MongoDB. This directory holds
TLA+ models of its parts, the TLC configurations that check them on small
instances, and theorems about them checked by TLAPS.

## 1. Inventory

File names are relative to `src/`. "State" is what outlives a call.

| Component | State | Operations | Interacts with |
|---|---|---|---|
| Object store (`database/database.go`, `dbobject.go`, `datastore/`) | map id -> struct, each struct's `RWMutex` and `destroyed` flag, one-slot `modifiedObjectChannel`, the watcher's id set, documents in MongoDB | `dbinit`, `Retrieve`, `writeLock` setters, `SetContainerId`, `DeleteObject`, `commitObject`, watcher | everything that reads or changes an object |
| Event bus (`events/events.go`) | table receiver -> channel, one-slot `eventMessages`, one blocked goroutine for each undelivered copy | `Register`, `Unregister`, `Broadcast`, bus loop, tick | sessions, NPCs, combat, model, world |
| Combat (`combat/combat.go`) | `fights`, one-slot `combatMessages` | `StartFight`, `StopFight`, `InCombat`, tick, `Kill` | broadcasts to the bus while it handles a message; called by sessions and NPCs; writes hit points |
| Server (`server/server.go`) | connections, user and character of each handler, online flags, watched connections | login, registration, user and administrator menus, watch, play, recover | model, session, telnet |
| Session (`session/`) | input, prompt and panic channels, menu and link state | commands, actions, reading input beside events | all of the above |
| Engine (`engine/engine.go`) | one goroutine for each NPC and spawner, one for the world | answers events, roams, respawns, advances time | bus, combat, model |
| Path finding (`engine/pathing.go`) | none | `FindPath` | model |
| Model (`model/model.go`) | none of its own | create, delete, find and move things | object store, bus |
| Persistent types (`database/*.go`) | fields under the struct's lock | getters, setters; `Hit`/`Heal` and cash are read-then-write; `HasExit` is called under the lock it takes | object store |
| Telnet (`telnet/telnet.go`) | decoder state, leftover bytes, subnegotiation data | read, negotiate | server |
| Menus, text (`utils/`) | page, filter | menu loop, pagination, matching, reading lines, watched connections | session, server |
| Sorting (`utils/naturalsort/`) | none | `NaturalLessThan` | menus |

### What is hard, and what has to be true

* **Object store.** A setter sends its id while it still holds the object's
  lock; the watcher swaps its set once a second and starts one goroutine per
  id; those goroutines overlap with each other, with later setters and with
  deletions; a crash forgets everything that is not in a document. No update of
  a live object may be forgotten, no document may go back to an earlier state,
  an acknowledged `SetContainerId` must survive, and the one-slot channel inside
  the lock must not stop the server. `Retrieve` and `DeleteObject` are several
  critical sections: one id may get two structs, a deleted document may return.
* **Event bus.** A delivery is a goroutine of its own. Copies overtake each
  other; those of a listener that has left wait for ever. No copy may be
  duplicated, no copy for a listener that stays may be lost, and no caller may
  block for ever.
* **Combat.** Combat waits for the bus, the bus's deliveries wait for sessions
  and NPCs, and these wait for combat. The table, the broadcasts and the answers
  to queries must tell the same story although the table changes while it is
  being iterated and while the callers' view (rooms, documents) is stale.
* **Server and session.** Whether a user is online, whether a name is free and
  whether a user is the first are tested at one prompt and used after another.
  A handler ends by a menu, by a lost connection or by a panic in any of these
  places, in its own goroutine or its reader's, and whatever the others do
  meanwhile. No account may stay locked, a user must speak and hear on the own
  connection, no character may stay behind, an administrator must remain, and
  watched connections must not copy to each other without end.
* **Rooms.** Rooms are found by a query and made in a second step, exits are
  switched on two rooms one after the other, and a room may be gone before it is
  entered. A place must have one room, and a walk must have a way back.
* **Items and cash.** A sale moves an item and writes two purses, each in steps
  of its own; a menu acts on what it listed some time ago. Nothing may be sold
  twice, cash must be conserved as long as the store is there to keep it, and no box may
  get into itself.
* **Engine.** NPCs roam, die, are killed, deleted, missed and replaced, each by another
  goroutine, none of which recovers from a panic; what they have found by a query
  (rooms, the zone, other NPCs) they get in a second step, and it may be gone. The process
  must not die of what these goroutines do by themselves, and spawners must replenish.
* **Room lock.** Two methods take the lock they hold, and the session that calls one of
  them may never come back to its prompt.
* **Telnet.** The network cuts commands and lines anywhere. Lines must arrive
  whole and a window size as sent.
* **Menus and paths.** Sequential code over lists that others change: pages must
  hold everything, keys must find what they name, a path must be one.

Each of these is a hazard in `PROJECT.json`, at its line, with the properties
that watch it or a note that says why none does.

## 2. Modules

| Module | What it is |
|---|---|
| `DurableStore` | abstract specification: a current value that updates reach at once and a durable one that trails it |
| `ObjectStore`, `ObjectStore_proofs` | the object store in detail; its theorems |
| `EventBus`, `EventBus_proofs` | the event bus; its theorems |
| `Combat`, `Combat_proofs` | the combat loop, its callers and NPCs, composed with `EventBus` through `INSTANCE`; its theorems |
| `Server`, `Server_proofs` | connections, users, menus and sessions; its theorems |
| `Rooms` | rooms, zones, exits, walking and building |
| `Ledger` | abstract specification: balances, which a sale changes in one step |
| `Shop` | items, boxes, cash and a store |
| `Engine` | NPCs, where they walk, and the spawner |
| `RoomLock` | the lock of a room and the commands that take it |
| `Telnet`, `Telnet_proofs` | from bytes to lines; its theorems |
| `Paths` | the search for a path |
| `World_proofs` | the theorems of `Rooms`, `Shop`, `Engine`, `RoomLock` and `Paths`, and those of `MCWorld` |
| `Menus`, `Menus_proofs` | menus over lists that change, sorting, matching; its theorems |
| `Induction` | induction over numbers and finite sets, folds, iterations, recursion and sums, for the proofs of `Combat`, `Shop`, `Paths`, `Menus` and `Telnet` |
| `MCObjectStore`, `MCEventBus`, `MCCombat`, `MCServer`, `MCEngine`, `MCRoomLock` | symmetry sets and constants for TLC |
| `MCWorld` | one instance for `RoomLock`, `Rooms`, `Shop`, `Telnet`, `Paths` and `Menus` |

Operators marked "Faulty variant" are never part of a specification. Each is
the form a definition would take after a plausible mistake; putting it in the
place of the original must make a stated property fail.

In all modules a name, a message or a payload is a model value or a small
record, and a bound is a constant whose name begins with `Max`, but for `Stocks`
in `Server`, which bounds what a run may create and delete.

### ObjectStore

Every critical section of the code is one action. A goroutine's position in a
call is `pc`, and `id` and `target` are the call's locals. Structs (`Objects`)
and ids (`Ids`) are distinct, because `Retrieve` may allocate a second struct
for an id. The content of a struct or document is the set of updates applied to
it, which is all that "lost", "older" and "current" need.

| Code | Actions |
|---|---|
| `dbinit` | `Create`, then a commit in the caller's goroutine |
| `Retrieve` | `RetrieveContains`, `RetrieveGet`, `RetrieveLoad`, `RetrieveNotFound`, `RetrieveSet` |
| `writeLock` | `Write`, `Modified`, `WriteUnlock` |
| `Item.SetContainerId` | `SyncWrite`, `SyncUnlock`, then a commit |
| `commitObject` | `CommitMissing`, `CommitGet`, `CommitIsDestroyed`, `CommitMarshal`, `CommitUpsert` |
| `DeleteObject` | `DeleteGet`, `DeleteRemove`, `DeleteDestroy`, `DeleteRemoveId` |
| watcher | `WatcherReceive`, `WatcherTimeout` |
| a kill, or a panic nothing recovers | `Crash` |

`SetContainerId` answers true when the item was where it should be, whatever its
commit then finds: `Acknowledge` is a part of every end of a commit, of one that found no
object or a destroyed one as well. Then the update has gone with its item; `erased`
holds the ids that have been deleted, and only their acknowledged updates are excepted.

There are two specifications. `Spec` is the program. `SoloSpec` keeps the
behaviours of `Spec` in which no id has two structs in memory
(`SingleInstance`): the callers of `Retrieve` rely on that, `Retrieve` does not
ensure it (run `ObjectStore_identity` shows how it fails), and with two structs
the updates made on the one that is not in the map are lost. What holds under
both is checked and proved under `Spec`; the write-behind itself is judged under
`SoloSpec`.

### EventBus

`Register`, `Unregister` and `Broadcast` are the sends to the one-slot channel;
`HandleRegister`, `HandleUnregister` and `HandleBroadcast` are the cases of the
bus loop; `sending[g][e]` counts the goroutines that wait to hand `e` to `g`,
and `Receive` lets any of them through. `told` and `heard` are history. `Over`
is the end of a bounded run, so that any other standstill counts as a deadlock.
Which receivers an event is for is left open here: it is any set, but for the events
of `Shouts`, which are for everybody (`IsFor` of a tick or a message to all). Of these
`EventsReachListeners` can say more than of the others: it starts at the broadcast, with
the event still in the slot, and not at a delivery that has begun.

### Combat

The loop goroutine is a sequential program with `phase`, the locals of the tick
(`round`, `attacker`, `defender`, `seen`) and the broadcasts it has still to
make (`outbox`): as in the code, it goes on only when the bus has taken them
(`Emit`). The order in which a map is walked is a free choice. A session's
command and an NPC's answer put a message in `calling` and wait for the slot
(`Deliver`); a query waits for its answer too. `Hit` and `Heal` read and write
in two steps. `savedRoom` is the room in a character's document, which is where
"attack" looks for its victims. Hit points of zero stand for every value that
is not positive. Deleting an NPC is one step here: `ObjectStore` has its parts.
Logging out during a fight is left out, and so is the unlocked use that `/kill`
makes of the table; a skill makes a blow of any power, so that a blow may leave
any number of hit points.

### Server

One handler (goroutine) for each connection. `at` is the menu or the part of
the session it is in, `source` the connection it is reading, `shown` what the
menu on its screen was built from. Users and characters are shared structs: a
handler that prompts its user reads the connection the *user* has at that
moment (`Prompt`), which after a second login is another handler's. A prompt and
the answer to it are two steps, and everything others do in between is allowed.

| Code | Actions |
|---|---|
| `Listen`, `Handle` and its deferred recover | `Accept`, `Fail`, `Recover` |
| `mainMenu`, `login`, `newUser` | `Login`, `NewUser`, `EnterPassword`, `CountUsers`, `CreateUser`, `SetConnection`, `Quit` (quit) |
| `userMenu`, `newPlayer`, `deletePlayer` | `Prompt`, `Open`, `Back`, `LeaveUser`, `NewPlayer`, `DeletePlayer`, `DeleteNext` |
| `userAdmin`, `specificUserMenu` | `SpecificUser`, `StartDeleteUser`, `DeleteUser`, `ToggleAdmin`, `Watch`, `StopWatching` |
| `launch`, `Session.Exec` and its reader goroutine | `Launch`, `Ask`, `Read`, `ReadFails`, `TakeLine`, `Hang`, `TakePanic`, `WriteFails`, `Leave` |
| the client | `Disconnect`, and all actions that answer a prompt |

Counting the users and making one are two calls, and other handlers count and make theirs
in between. A command of the game is `TakeLine`, or `Hang` if it never returns, as the lock
command does (`RoomLock_lock`): such a session takes no line and no panic of its reader any
more. A session fails when its connection is gone or its user has none. `doubled`, `admins`, `demoted` and `overflowed` are
history.

### Rooms

Each walker is a session that is somewhere in a command (`doing`); each step is
one look-up, creation, deletion or update. Walking: `Walks`, `Checks`, `Looks`,
`Creates`, `Makes`, `Opens`, `EntersRoom`, `Leaves`, `Prints`; `/quickroom`:
`QuickRoom`, which returns by `ComesBack`; teleporting, joining, bringing:
`Teleports`, `Joins`, `Brings`; exits: `Toggles`, `ThisSide`, `OtherSide`;
deletions of rooms and zones: `Destroy`, `DeleteZone`, `DeleteRoom`,
`Disconnect`, `Deleted`; new zones: `NewZone`, `Settles`. `Fails` is the panic of
a session whose room has gone meanwhile. The ten directions are five pairs of
opposites that behave alike; a row of places with one pair stands for them.
Exits are unlocked because the lock command never returns (`RoomLock_lock`).

### Shop

Each trader is a session: what it has chosen (`deal`), what is open (`opened`: a box, or
the shop), what it is about to write (`purse`), what it has still to delete (`purge`). An
item moves by compare-and-set (`CanMove`, `Moves`), and a sale goes on to
`Debit`, `Pay`, `Credit`, `Collect`: two reads and two writes. The store may be deleted
under an open menu; its items go one by one and the store goes last, with what cash it has
(`CloseDown`). `issued` is the cash administrators have given out, `lost` what a deleted
store had. A store is not made again, and no character that has cash is deleted.

`Ledger` says what the sales come to: a price goes from one balance to another in one
step, whatever else goes on, and the store's balance is forfeited as a whole when the store
is deleted. In `Shop` the balance of a trader or a store is its cash
and what the sales that are being paid for still owe it (`Balance`), nothing if it is a
store that is gone: the buyer's write (`Pay`) is the transfer, and the seller's (`Collect`)
settles a debt that is counted already (`ImplementsLedger`).

### Engine

`mailbox` counts, for each NPC that a goroutine manages, the events it has still to hear:
deliveries are goroutines of their own, so it takes them in any order. A tick makes a
roaming NPC walk, and each look-up of its walk is a step (`walk`): `Roams` gets the room
and picks an exit, `SetsOut` gets the room again, `Explores` and `Reaches` find and get the
room behind the exit, or `Digs` and `OpensBack` make it, `Crosses` moves the NPC and gets the
room left, `Glances` and `Recognises` look for the direction. The spawner's round is
`Surveys` and `Inspects` (the ids of the area's rooms, then the rooms), `Finds` and
`Retrieves` (the same for its NPCs), `CreatesNpc` and `ManagesNewborn`. Rooms got
one by one could as well be got at once, as `Inspects` does: an id once missing never comes
back. `Die` deletes the NPC; it has no items to delete before, because no command ever puts
one in an NPC (`SetContainerId` is called with the room, the box, the store or the player at
hand).

Commands make, kill and delete NPCs, and make and delete rooms, the zone and the area, under
these goroutines. A goroutine that panics ends the process (`Dies`), and `Restart` starts one
that manages what it finds. `deeds` is what was done to NPCs and rooms; `blamed` is what
the panic in question can come from, read off the place where it happens.

### RoomLock

`sync.RWMutex` with its preference for waiting writers: `Announce`, `WriteLock`,
`ReadLock` and their releases. A method is the sequence of its operations on the
lock, a command the sequence of the methods it calls.

### Telnet

`AddByte` is the state machine of the processor, `TelnetRead` the loop of its
`Read` with the buffer of its caller, `Scan` and `ReadEnd` the scanner that each
prompt makes, with the carriage return that `bufio.ScanLines` drops and the empty
line that the prompt's loop skips, `Heard` the listener for window sizes. A client
sends phrases: keys, commands with and without an option, data of an option with
every IAC doubled. What it meant (`Typed`, `LinesOf`, `Announced`) is defined from the
phrases, and not from the processor. It may hang up anywhere and may type ahead.
A key is any byte but IAC, which the processor would take for a command even when
it is doubled. What the prompt makes of a line "x" is left out, and so is
the end of the scanner at a line of 64 kilobytes.

### Paths and Menus

`Paths` runs `FindPath` on every maze of a set, from every room to every
other; a minimum among equals is any of them, as in a Go map. `Evaluate` is one
turn of its loop, `Reconstruct` one turn of the loop of `reconstruct`. `Menus` is the
loop of `ExecMenu`: list, sort, filter, cut into pages, print, choose, while other
sessions make and delete objects. `PiecesOf` and `NaturalLessThan` are the sorting
order, by which `Sorted` sorts as Go's `sort.Sort` does a list of up to twelve;
`BestMatch` is how commands find a name. `searched` is history. A page has at least
one row, for without one `Paginate` does not end, and a name has fewer than 19
characters, so that a number in it fits 64 bits.

## 3. Runs

All runs use model values. `Ops` selects the calls an `ObjectStore` instance
makes.

| Run | Specification, bounds | Shows |
|---|---|---|
| `ObjectStore_safety` | `SoloSpec` (*), two sessions with every call, two commits, two ids, two updates, crashes | `NoLostUpdate`, `SnapshotsAreCurrent`, `SyncedUpdatesSurvive`, `DocumentsAdvance`, refinement of `DurableStore` |
| `ObjectStore_live` | `FairSpec`, one id and one struct | `UpdatesReachDatabase`, `CallsReturn` |
| `ObjectStore_resurrect` | `SoloSpec` (*), one id | a violation of `DeletedStaysDeleted` |
| `ObjectStore_identity` | `Spec`, one id, two structs | a violation of `SingleInstance` |
| `EventBus` | `FairSpec`, two listeners that come and go, two events, one for everybody, broadcast twice | `HeardAtMostOnce`, `TableFollowsListeners`, `EventsReachListeners`, `SlotIsFreed` |
| `Combat_safety` | `Spec`, a player with two commands, an NPC that moves once, two rooms, two rounds | `EventsMatchFights`, `BroadcastsAreBracketed`, `StartIsSeenByQuery` |
| `Combat_live` | `FairSpec`, a player with two commands, an NPC, one room, one round | `CallsReturn`, `NpcsFightBack` |
| `Combat_order` | `Spec`, a player and an NPC | a violation of `NoBlowAfterStop` |
| `Server` | `Spec`, two connections; two users with one deletion or demotion, or one user with a character and two | `OnlineUsersAreHeld`, `SoleLoginOwnsInput`, `PlayersHearEvents`, `OnlineCharactersArePlayed`, `SomebodyIsAdmin`, `OneAdminIsSafe`, `UsersAreReleased` |
| `Engine` | `EngineSpec`, three NPC ids, three rooms of which one is to be made, a spawner for one or two NPCs; two commands, one tick, one restart | `CrashHasCause`, `Replenishes` |
| `World` | `WorldSpec`, see below | `GridHolds`, `NothingSoldTwice`, `CashIsConserved`, `WeighingEnds`, `ClientIsUnderstood`, `PathsLead`, `MenusHold`, `RoomCallsReturn`, refinement of `Ledger` |
| `RoomLock_lock` | `RoomLockSpec`, two visitors with a command each | a violation of `LockReachesOtherSide` |

(*) written as `Spec` under the action constraint `OneStruct`, which keeps the
same steps: TLC then reports each action by its name.

`World` puts six systems into one instance. They share no variable, so their
product would only multiply their states; `system`, chosen at the start,
says which of them moves, and the others stand still. Its instances:

| System | Bounds |
|---|---|
| `RoomLock` | two visitors with two commands each |
| `Rooms` | a builder and a player with two commands each, four rooms, two zones, a row of three places |
| `Shop` | a keeper with two commands, another trader with three; a store, a thing, and two boxes, one of which is still to be made; two prices |
| `Telnet` | up to four phrases, each one of six: a letter, an accented letter, a carriage return, a line feed, a negotiation, a window of 255 columns and 300 rows; three bytes at a time from the network, two at a time to the scanner |
| `Paths` | all mazes of two by three rooms, with and without one-way diagonals |
| `Menus` | up to three objects at the start with any of four names, one too wide for a page; a page of two rows, two inputs, one change by others |

Why the bounds are enough to be interesting: races over one object need two
sessions and a commit or two commits; losing an update needs a second update
while the first is on its way; one struct suffices for liveness because two
structs of one id lose updates by the fault that `ObjectStore_identity` shows;
the bus can only confuse two listeners or two events; a fight needs two
characters, and a player who casts a spell on himself has turned from one
opponent to another. One hit point tells the living from the dead. Two
connections are what a double login, a race for a name, a deletion of who is
logged in, and mutual watching need; connections are used again after they
have ended. Two walkers race for one place within a command each and use what
they made in the second; two boxes are enough for a circle. One tick sets an NPC walking,
and two commands are enough to delete the room it stands in and another it has found, or to
kill it and delete it; a third NPC is the one made by hand that the spawner must not count. Three bytes cut every
command and every line in the middle, and 255 is the byte that has to be escaped.
What is beyond the bounds is the business of the theorems where there is one.

`CHECK_DEADLOCK FALSE` stands where the system stops by itself: `World` and
`RoomLock_lock`, where sessions may be blocked for good in a room's lock, and
where searches, menus and bounded commands come to an end; `Server`, where both sessions may
hang in a command; and `Engine`, whose process may have died for the last time.

Symmetry is used only in runs without liveness. `Combat_safety` identifies
states that differ in the bus's history alone (`View`), which no property of
that run but the type of the history reads.

### What the properties except

A property that excepts a case says so with a history variable, and its mutant
still breaks it within the rest. The exceptions are faults of the code that
no document or test speaks of:

* `SoleLoginOwnsInput`, `PlayersHearEvents`: users logged in twice (`doubled`).
  Each handler then reads whichever connection logged in last, and the bus has
  one entry for the character, which the first to leave takes along.
* `UsersAreReleased`: a session whose command hangs (`stuck`), as `/lock` does. Its user
  stays online until the server is started again.
* `SomebodyIsAdmin`: an administrator has been deleted or has lost the flag
  (`demoted`).
* `OneAdminIsSafe`: two administrators who watch each other copy each line to
  each other's connection until the stack overflows, which ends the process.
* `GridHolds`: two walkers have made rooms at one place (`crossed`); for the way
  back also a deletion, or an exit switched off.
* `CashIsConserved`, `ImplementsLedger`: two sessions wrote one purse at a time, the
  price changed between the two payments of a sale, or the store was deleted under a sale
  (`clashed`). What the store has when it is deleted is lost with it, and the statements
  count it as lost.
* `WeighingEnds`: a character is played in one session at a time. With two (which `Server`
  allows to a user who is logged in twice) each could put the box the other has open into
  its own.
* `SyncedUpdatesSurvive`: an item that is deleted takes what was acknowledged of it along.
* `CrashHasCause` says what a panic comes from, and so allows it: an NPC deleted by hand, and
  one that died between the spawner's two look-ups; a room or the zone deleted, where an
  NPC stands or goes, or that the spawner has listed; a room whose last exit was closed; and a
  room made by another where one is about to be made, or entered before its first exit is
  open. What it excludes is that anything else, two deaths of one NPC for instance, ends the
  process.
* `RoomCallsReturn`: `SetLocked` waits for itself, and `IsLocked` and a setter for
  each other.
* `ClientIsUnderstood`: a client that types ahead (the scanner of a prompt takes
  lines of the next with it) or hangs up, and window sides of 256 and more.
* `PathsLead`: with diagonal exits a path need not be shortest, for the estimate
  counts a diagonal step twice.
* `MenusHold`: the panics of an entry wider than a page and of a page that is gone,
  because another session changed the list or because the user searched: the page
  is bounded by the count of the list before the search, and a search may even leave
  more pages than there were. What is sorted is sorted unless a number in a name
  begins with a zero: the comparison of two numbers takes 02 and 2 for equal, yet the
  strings differ, and names that hold them do not sort consistently.

Other observations made while modelling, of which no property speaks: a
character made by a handler and not played by it is set offline when that
handler ends, though another may play it; each logout leaves its reader
goroutine behind; a deleted item that is still on a menu can be bought; the
goroutine of a deleted NPC stays; one made by `/npc` has none until a
restart; half a line is executed when its connection ends; bytes from 128 on
reach the server as two; text left over by a read stays until more arrives.

### Disagreements between the code and its comments and tests

* `ObjectStore_resurrect`: `commitObject` tests `IsDestroyed`, and only later
  takes the lock under which it upserts; a deletion in between is undone.
  `model/model_test.go:62-64` expects a deleted user to be gone.
* `ObjectStore_identity`: two sessions that miss one id at once get two structs.
  `model/model_test.go:86-87` expects one object for an id.
* `Combat_order`: a blow can be heard after the stop of its fight, because each
  delivery is a goroutine. `combat/combat_test.go:81-87` says it should not.
* `RoomLock_lock`: the lock command blocks itself in the first of the two rooms.
  `session/actions.go:456` says "Lock on both sides".

### Fairness

* Goroutines are scheduled by a fair scheduler: weak fairness of each
  goroutine's steps when nobody can disable them. In `Server` that is
  `HandlerStep`, what a handler does without waiting for its client; in `Engine`
  the spawner's and each NPC's; in `World` the step of each session in a room's lock.
* A channel serves its blocked senders in order and `sync.RWMutex` starves
  neither side: strong fairness of the steps that wait for a slot or a lock, of
  `Deliver`, and of a listener's receives. `RoomLock` models the queueing of the
  mutex itself and needs only weak fairness.
* `select` picks among ready cases at random: strong fairness of
  `WatcherReceive` and `WatcherTimeout`.
* No session has to make a call, no client has to answer or to stay, no crash,
  tick, order or move has to happen, and an NPC is only assumed to get round to
  the attacks announced to it.

## 4. What is proved

All theorems hold for every value of the constants, under the named assumption
of the module (constants are disjoint where the model needs it, bounds are
natural numbers, `Combat`'s characters, `Shop`'s traders and `Paths`' rooms are
finitely many, an exit changes each coordinate by one at most, as `NextLocation`
does, names are short in `Menus`, `Engine`'s database holds finitely many NPCs, and
a window size is four bytes in `Telnet`). TLC evaluates each assumption in the runs.

**Induction.** The provers cannot instantiate an induction theorem that takes an
operator, so `Induction` states induction over sets: a set of numbers that holds 0
and with n also n + 1 holds them all (`NatSetInduction`), a set of finite sets that
holds the empty one and grows by single elements holds them all
(`SubsetInduction`). From these it proves that a fold and an iteration of a function
on a set exist and are what their recursive definitions say (`FoldExists`,
`IterationExists`), that a finite set of numbers has a greatest, and that the sum of
a function on a finite set changes by what one of its values changes by
(`TotalUpdate`). `FoldFunction`, `FoldLeft` and recursive functions are within reach
that way.

**ObjectStore, `Spec`.** `StoreInv` is inductive: types (`TypeOK`); every
reference leads to an allocated struct of the right id (`References`); a struct
that `Retrieve` has filled and not yet published is reached by nobody else
(`Unpublished`); the locks exclude each other and are held exactly inside their
calls (`LocksExclude`, `LocksHeld`); and a commit in flight carries what its
struct holds (`SnapshotsAreCurrent`). `TypeOK` alone is not inductive, because a
step reads `data[id[p]]`; `LocksExclude` is not, because an unlock must know
whose lock it releases. `TypeCorrect`, `LocksAreExclusive` and
`SnapshotsStayCurrent` follow, and so does `SomebodyAlwaysGoesOn`: a goroutine that
holds a struct's lock waits for no other lock, only for the channel's slot, and the
watcher empties that without taking one. That blocked calls do return is a matter of
fairness, and stays with TLC (`CallsReturn`).

**ObjectStore, `SoloSpec`.** `SoloInv` adds `SingleInstance` and: a deletion has
taken the object out of the map before it marks it (`DeletedIsUnmapped`); a
document never holds more than its struct (`DocumentsTrail`); a loader's copy is
what the document still holds (`LoadedIsSaved`); an id that a setter has sent
stays queued while the setter holds the lock (`AnnouncedIsQueued`); an
acknowledged update is in every struct of its id, unless the id has been deleted
(`SyncedInStruct`). The heart of
`NoUpdateIsLost` is `AnnouncedIsQueued`: an id announced inside the lock may be
taken up by a commit at once, but that commit cannot marshal before the setter
unlocks. `SyncedUpdatesArePermanent` and `DocumentsOnlyAdvance` follow from the
same invariant. The theorems about `SoloSpec` are conditional on
`SingleInstance` at every step, as section 2 explains.

**Refinement.** `StoreImplementsDurableStore`: every behaviour of `SoloSpec` is
one of `DurableStore`. The current value of an id is that of its struct, or of
its document if it has none; a commit is `Persist`, a setter `Update`, a crash
`Restart`, the moment a deletion takes the object out of the map `Erase`, and
every other step leaves both alone. An erased id counts as empty for good: what
setters and commits still do to its struct and document is no step, so that the
refinement says nothing of a document that comes back (`ObjectStore_resurrect`
does), and all of the ids around it. `Mapped` adds to `SoloInv` that a commit
works on the live object unless that is being deleted.

**EventBus.** `BusInv`: types, a register or unregister message is from a
listener in that state, and the two statements themselves. It is kept by whatever the
calls and the bus do (`BusActs`), so that it holds beyond the bounds of `EventBus` and
for any users. `BusTypes`,
`EventsAreHeardAtMostOnce` and `TheTableIsCurrent` follow. `TableIsTheListeners`
needs that no two listeners share a receiver: the table is keyed by receiver, so
that a character played twice would be unregistered by whoever leaves first.

**Combat.** What an observer makes of an outbox is a fold over it. `CombatInv`
says outright what an outbox can look like when it is all that
separates the observers from the table (`OutboxTells`): ends of fights, one for
each attacker, and a death; or a start, alone or after the stop of the fight it
replaces; or a blow in a fight that both sides know. Every handler of the loop
starts with an empty outbox and leaves one of these shapes, and `Emit` keeps the
shape while it takes the first event off. `EventsAreBracketed` reads it off the
head of the outbox, and `ObserversCatchUp` off the empty one. `EventsTellFights`
is about the fold itself: for each of these shapes it is unfolded, with a start, a
blow and a death by hand and a list of stops by induction over its length, and the
observer arrives at the table. `StartsAreSeen`
needs that a goroutine calls only for its own character (`Callers`) and that the
channel has one slot.

Combat and the bus are proved together by their parts: every step of combat, its
callers and the NPCs is one of the bus's own actions, or leaves the bus alone
(`CombatUsesTheBus`), so the lemmas of `EventBus_proofs`, instantiated for the NPCs as
listeners, carry over, and what the bus promises holds for them (`BusServesCombat`); the
types in `CombatTypes` include the bus's. No two NPCs share a receiver, which is what
`TableIsTheListeners` asks for.

`SomebodyAlwaysGoesOn`: callers wait for combat, combat for the bus, and the bus for
nobody, so that one of them can always go on. It rests on `SlotsInv`: a query stays in
combat's slot until it is answered, so whoever waits for an answer has a message there
that combat can take. That each call returns is fairness again (`CallsReturn`).

**Server.** `ServerInv` holds the types and where a handler has what it needs
(`Positions`); what is on its screen (`Offers`); that whoever is not `doubled`
holds a user alone, and the user is online (`SoleLogins`); that only handlers
of one user ever touch a character (`Claims`), because a character has one owner
for good and is offered to nobody else; and that until there are two
administrators the graph of watched connections has no cycle (`Quiet`): a
connection is watched only by one that holds an administrator (`Watching`), and
with a single one all edges lead to a connection nobody else watches from. The
theorems are conjuncts of it.

**Rooms.** `OneRoomPerPlace` is not inductive: between the look-up of a place and
the creation of its room, another room might appear. `SitesAreVacant` says that
it does not unless `crossed` records it, and `NewZonesAreEmpty` that a zone being
settled has no rooms, for the id of a zone is used once and by one session. That
ids are fresh (`NothingIsFresh`) and nobody looks beyond the row (`InBounds`)
supports both. `WayBack` says that no set of rooms without the first is closed
under exits. That is not inductive, for between a new room and its second exit
there is a way in and none out: `NoTrap` counts the exit that a walker is about to
open as open already, and `Traces` says where it will lead. Most steps leave rooms
alone and take no way away (`Quiet`); making a room, opening its exit and settling
a zone have a lemma each. `GridAlwaysHolds` is both parts.

**Shop.** `WeighingEnds` is proved of boxes and sessions together: in the graph
that leads from a box to its container and from a session to the box it has open
no set leads back into itself (`Acyclic`). Each step adds one edge, from an item or
from a session. A menu may only put items into the open box that the session
itself holds (`Routes`), so the new edge runs along a path that was there from the
item to the session and on to the box; a new circle would have been one before. A session opens
only boxes that lie in the hall. `NothingIsSoldTwice` rests on `Bargains`: while a
sale is being paid for, an item bought is in the buyer's hands, and an item sold
left the seller's by compare-and-set. `CashIsConserved` speaks of the moments between
sales; `Books` of all: what the purses hold and what sales still owe is what
was given out, less what was lost (`Balanced`), and a purse that a session has read and not
yet written is still as it was read (`HeldPurses`). A store that is gone has no part in a
sale (`Closed`), so closing it takes exactly its cash out of the books (`ClosingBooks`). Every step changes one purse, one debt, or one of each by opposite
amounts. `ShopImplementsLedger` says more, of each step and each owner: a purse written is
what it was read as, less or more by the price, so a buyer's write moves exactly the price
into the seller's balance (`PayTransfers`), although the seller's purse is written later; the
seller's write only turns a debt into cash (`CollectSettles`); a gift is a grant, because only
the keeper makes one (`Granting`); closing the store forfeits what it has, because nothing is
owed to it then (`ClosingForfeits`). This is the refinement step by step, until the step that
sets `clashed`.

**Engine.** `EngineTypes` needs that the database is finite, that the spawner makes NPCs
only where some are missing, so that what is missing is never negative, and that an NPC
that is to enter a room has one to enter. `CrashInv` gives each panic its deed: every room
that anybody holds is one that was dug, so that it is there or has been deleted
(`RoomsAreKnown`); a room without exits was made or closed, a zone that is not there was
deleted, and a room that has been made beside an NPC about to make one was made
(`GroundHasCauses`); and an NPC that somebody manages or has listed and that is not in the
database was deleted, or, if it was listed, has died (`GhostsHaveCauses`). An id is given to
a newborn only if no goroutine has it any more, so that its deeds are its own
(`BirthIsHarmless`). Each place where a goroutine can panic then finds its deed done
(`WanderCrashes`, `SpawnerCrashes`, `CommandCrashes`), and `CrashesHaveCauses` follows.

**RoomLock.** What is left of a command has to give back what its session holds
(`HoldingsAreSettled`): a count of read and write locks runs along its operations to none
(`Counting`, `GivesBack`). Counts join (`LeadsOn`), so methods and commands give back because
their parts do (`MethodsSettle`, `CommandsSettle`). With it goes that the session whose writer
is announced is about to take the lock, and nobody writes meanwhile (`AnnouncedIsNext`). `RoomLockTypes` says that
no session holds more than two read locks or gives back one it does not hold.
`NobodyIsEverStuck` says that the lock does not stop everybody, but for the two ways
that `RoomCallsReturn` excepts: if somebody writes, it is a session that has its next operation
free, unless it asks for the read lock it excludes; if somebody reads, it gives the lock back,
unless it asks again behind a waiting writer; and if nobody holds the lock, the waiting
writer, or anybody, goes on. That each call does return is then a matter of fairness, and TLC's.

**Paths.** The invariant of A* (`SearchInv`): every neighbour of an evaluated room has
been reached (`SearchIsClosed`), a score is the length of some way
(`ScoresAreLengths`), `cameFrom` leads back, one score down at a time
(`WaysLeadBack`), and, if no exit is diagonal, an evaluated room cannot be improved
upon (`OrderIsRight`) because the estimate never falls by more than one in a step
(`EstimateIsConsistent`). While the way back is taken, `path` is a way
(`WayIsWalkable`). When nothing is left to evaluate, the evaluated rooms are closed and
so hold every reachable room (`ClosedIsAll`, by induction over steps and over the
size of what `Within` has not reached yet), and no distance is below a score
((`ScoresAreDistances`). `PathsAlwaysLead` is the whole of `PathsLead`. `SearchEndsInTime` is
what termination comes to without fairness: a step evaluates a room for good, or takes another
room into the way back, which has none twice (`PathIsInjective`), or ends, so that with n rooms
each takes one of at most 2n + 1 (`StepsLeft`); and there is always a room to evaluate next
(`LowestExists`), since the scores are natural numbers.

**Menus.** The invariant is short (`MenusInv`): types, two parts of `MenusHold`, and
that as long as nobody has searched or changed anything the pages were counted of
the list there is (`PagesCounted`). The work is in the definitions. Names are
compared piece by piece, pieces by their numbers or as strings; each of these is an
order by first differences, and a strict total order on sequences if the order of the
elements is one (`LexIsOrder`). A piece without a leading zero is what its number is
(`NumbersDiffer`), so that the pieces have such an order (`PieceOrderIsOrder`) and
hence the names (`NaturalIsLex`, `NotLessGoesThrough`); a name put behind the last
that it is not less than keeps a list in order (`InsertAscends`), and what a search
leaves of it is in the same order (`FilterKeepsOrder`). A list that is not empty has a
column unless an entry is too wide (`ColumnsKnown`), and the pages from an entry on,
joined, are the list from there on, by induction from its end (`PaginateHoldsAll`).
The recursive definitions and folds are unfolded one by one (`PiecesUnfolds` and the
like). `MenusAlwaysHold` is the whole of `MenusHold`. Proving it corrected it twice:
TLC had not met a search that leaves more pages, nor a name with a leading zero that
unsettles the order and is then filtered out.

**Telnet.** Each fold (of the processor over bytes, of the listener over messages, of
text over phrases, of lines over text) is unfolded once, by induction. Then the
processor: what it has put out is only added to, and what it does with the next byte
does not depend on it (`AddByteGoes`, `AddBytesAfter`), so that a stream may be cut
anywhere; and the bytes of a phrase, taken whole, bring it back to its base state with
the text and the message that the phrase stands for (`PhraseIsTaken`, the data of an
option by induction over its length, doubled IACs included). The invariant speaks of
the processor as it will be when it has taken what is on the wire (`Decoded`): it is in
its base state, its last report is the one sent last (`Agrees`), and the text still to
come (`Remaining`) takes the lines read so far exactly to those typed (`ReadsOn`). A read
moves bytes from the wire through the processor to the scanner and changes neither; a
phrase sent is added to both sides; a line read by `Scan` is the next one of `Remaining`,
and what a new prompt throws away is nothing, because a client that waits has sent nothing
after it. `ClientIsAlwaysUnderstood` is the whole of `ClientIsUnderstood`. To state it for
every client, `Telnet` had to say what a client is (`Phrases` was five examples),
which brought in the carriage return before a line feed and left out a doubled IAC in
the text: the code does not understand it.

**MCWorld.** `WorldTypes` is the type invariant of the run: a step of the run is one of the
system chosen, and a stutter of the others (`WorldSteps`), so the types of each system carry
over. A search that is not chosen rests in a state that `Paths` does not start from, hence
the condition in `WorldInv`. What is promised of a system is proved of its own
specification, not of the run.

**Only model-checked.** Liveness (`UpdatesReachDatabase`, `CallsReturn`,
`EventsReachListeners`, `SlotIsFreed`, `NpcsFightBack`, `UsersAreReleased`,
`RoomCallsReturn`, `Replenishes`): TLAPS does not reason about fairness here.
Every invariant and every safety property of a step that a passing run checks is a
theorem, and so are both refinements. The four violations are TLC's.

## 5. Not modelled

* Skills, effects, talking, looking and the map: they read, or change one field.
* `/link`: the command that should finish a link always prints its usage
  (`strings.Split` never returns an empty list), so no link is ever made.
* `/kill`'s use of the table of fights without a lock, a data race between two
  goroutines whose outcome in Go is not a state of the table.
* The world clock, which adds to a number once a second.
* Logging out during a fight.
* The composition of `Server` with `Rooms`, `Shop` and `Combat` beyond `TakeLine`: the commands
  of a session touch nothing of `Server`'s state.
* Output formatting and colours, throttling, the MongoDB driver, the test
  bots, and the Go runtime beyond channels, mutexes and maps.

What would come next: `Combat` with sessions that log out during a fight, and players among
the listeners of its bus.
