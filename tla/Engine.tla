------------------------------- MODULE Engine -------------------------------
(***************************************************************************)
(* The engine (engine/engine.go): a goroutine for each NPC, one for each   *)
(* spawner, and the commands that make, kill and delete NPCs and rooms     *)
(* under them.                                                             *)
(*                                                                         *)
(* None of these goroutines recovers from a panic: what one of them has    *)
(* found and gets later, a room or an NPC, may be gone by then, and that   *)
(* ends the process.  A new process manages every NPC it finds in the      *)
(* database.                                                               *)
(*                                                                         *)
(* Events reach the mailbox of an NPC as soon as they are broadcast and    *)
(* are taken from it in any order (EventBus); who kills an NPC is Combat.  *)
(* There is one zone, with one area, with one spawner.  Which room lies    *)
(* behind an exit is left open: any other one, or none (Rooms).            *)
(***************************************************************************)
EXTENDS Naturals, FiniteSets

CONSTANTS
    Npcs,           \* ids
    Lairs,          \* ids of rooms
    Home,           \* the rooms at the start
    Land,           \* the zone
    Counts,         \* what the spawner may be set to
    Herd,           \* the NPCs at the start: [id -> made by the spawner]
    MaxOrders,      \* commands in the run
    MaxTicks,       \* ticks of the world in the run
    MaxRestarts

ASSUME EngineAssumption ==
    /\ Counts \subseteq Nat /\ Counts # {}
    /\ Home \subseteq Lairs /\ Home # {}
    /\ Npcs \cap Lairs = {} /\ Land \notin Npcs \cup Lairs
    /\ DOMAIN Herd \subseteq Npcs /\ IsFiniteSet(DOMAIN Herd)
    /\ MaxOrders \in Nat /\ MaxTicks \in Nat /\ MaxRestarts \in Nat

VARIABLES
    npcs,           \* those in the database
    spawned,        \* those the spawner made
    roaming,
    lair,           \* the room each is in
    dens,          \* those in the database
    undug,          \* ids of rooms not used yet
    exitless,       \* rooms without an exit
    land,           \* the zone is in the database
    area,           \* rooms of the spawner's area
    spawner,        \* it is in the database
    count,          \* how many NPCs it keeps
    mailbox,        \* of each managed NPC: how often each event is in it
    walk,           \* what the goroutine of each NPC is about to do
    aim,            \* the room it has found, if any
    rivals,         \* rooms made since it found none where it goes
    spawning,       \* what the goroutine of the spawner is about to do
    choice, found, missing, newborn,  \* its local variables
    alive,          \* the process runs
    orders, ticks, restarts,          \* bounds
    deeds,          \* what was done to NPCs and rooms (history)
    blamed          \* what a panic of this process can come from (history)

herdVars   == <<npcs, spawned, roaming, lair>>
groundVars == <<dens, undug, exitless, land>>
areaVars   == <<area, spawner, count>>
tripVars   == <<walk, aim, rivals>>
loopVars   == <<spawning, choice, found, missing, newborn>>
boundVars  == <<orders, ticks, restarts>>
engineVars == <<herdVars, groundVars, areaVars, mailbox, tripVars, loopVars, alive, boundVars,
                deeds, blamed>>

Managed == DOMAIN mailbox

\* Ids that neither an object nor a goroutine has.
Unborn == Npcs \ (npcs \cup Managed \cup found \cup newborn)

NoEvents == [e \in {"tick", "death"} |-> 0]
Manages(S) == [n \in S |-> NoEvents]

-----------------------------------------------------------------------------
(* Start                                                                   *)

EngineInit ==
    /\ npcs = DOMAIN Herd /\ spawned = {n \in npcs : Herd[n]}
    /\ roaming = {} /\ exitless = {}
    /\ dens = Home /\ undug = Lairs \ Home /\ land = TRUE
    /\ lair \in [Npcs -> {CHOOSE r \in Home : TRUE}]
    /\ area = Home /\ spawner = TRUE /\ count \in Counts
    /\ mailbox = Manages(npcs)
    /\ walk = [n \in Npcs |-> "rest"]
    /\ aim = [n \in Npcs |-> {}] /\ rivals = [n \in Npcs |-> {}]
    /\ spawning = "rest" /\ choice = {} /\ found = {} /\ missing = 0 /\ newborn = {}
    /\ alive = TRUE
    /\ orders = 0 /\ ticks = 0 /\ restarts = 0
    /\ deeds = {} /\ blamed = {}

Deeds == {"deleted", "died", "closed", "made"} \X (Npcs \cup Lairs \cup {Land})

EngineTypeOK ==
    /\ npcs \subseteq Npcs /\ spawned \subseteq Npcs /\ roaming \subseteq Npcs
    /\ lair \in [Npcs -> Lairs]
    /\ dens \subseteq Lairs /\ undug \subseteq Lairs /\ exitless \subseteq Lairs
    /\ area \subseteq Lairs /\ land \in BOOLEAN
    /\ spawner \in BOOLEAN /\ count \in Counts /\ alive \in BOOLEAN
    /\ Managed \subseteq Npcs /\ mailbox \in [Managed -> [{"tick", "death"} -> Nat]]
    /\ walk \in [Npcs -> {"rest", "set out", "explore", "reach", "dig", "open", "cross",
                          "glance", "recognise"}]
    /\ aim \in [Npcs -> SUBSET Lairs] /\ rivals \in [Npcs -> SUBSET Lairs]
    /\ spawning \in {"none", "rest", "survey", "find", "retrieve", "create", "manage"}
    /\ choice \subseteq Lairs /\ found \subseteq Npcs /\ newborn \subseteq Npcs
    /\ missing \in Nat
    /\ orders \in 0..MaxOrders /\ ticks \in 0..MaxTicks /\ restarts \in 0..MaxRestarts
    /\ deeds \subseteq Deeds /\ blamed \subseteq Deeds

\* A goroutine panics; it comes from one of these deeds, if from any.
Dies(reasons) == alive' = FALSE /\ blamed' = reasons
Lives == UNCHANGED <<alive, blamed>>

\* What GetRoom of one of these finds missing.
Gone(S) == {"deleted"} \X (S \ dens)

Restart ==
    /\ restarts < MaxRestarts /\ restarts' = restarts + 1
    /\ alive' = TRUE /\ blamed' = {}
    /\ mailbox' = Manages(npcs)
    /\ walk' = [n \in Npcs |-> "rest"]
    /\ aim' = [n \in Npcs |-> {}] /\ rivals' = [n \in Npcs |-> {}]
    /\ spawning' = IF spawner THEN "rest" ELSE "none"
    /\ choice' = {} /\ found' = {} /\ missing' = 0 /\ newborn' = {}
    /\ UNCHANGED <<herdVars, groundVars, areaVars, orders, ticks, deeds>>

-----------------------------------------------------------------------------
(* manageNpc                                                               *)

Broadcast(e, to) ==
    mailbox' = [n \in Managed |->
                    IF n \in to THEN [mailbox[n] EXCEPT ![e] = @ + 1] ELSE mailbox[n]]

Tick ==
    /\ alive /\ ticks < MaxTicks /\ ticks' = ticks + 1
    /\ Broadcast("tick", Managed)
    /\ UNCHANGED <<herdVars, groundVars, areaVars, tripVars, loopVars, alive, orders, restarts,
                   deeds, blamed>>

Takes(n, e) == alive /\ n \in Managed /\ walk[n] = "rest" /\ mailbox[n][e] > 0

Handled(n, e) == mailbox' = [mailbox EXCEPT ![n][e] = @ - 1]

\* A tick: a roaming NPC picks an exit of its room; the list may be empty.
Roams(n) ==
    /\ Takes(n, "tick") /\ Handled(n, "tick")
    /\ IF n \notin roaming
       THEN Lives /\ UNCHANGED walk
       ELSE IF lair[n] \notin dens
       THEN Dies(Gone({lair[n]})) /\ UNCHANGED walk
       ELSE IF lair[n] \in exitless
       THEN Dies({"closed", "made"} \X {lair[n]}) /\ UNCHANGED walk
       ELSE Lives /\ walk' = [walk EXCEPT ![n] = "set out"]
    /\ UNCHANGED <<herdVars, groundVars, areaVars, aim, rivals, loopVars, boundVars, deeds>>

WalksFrom(n, a) ==
    /\ alive /\ n \in Managed /\ walk[n] = a
    /\ UNCHANGED <<npcs, spawned, roaming, areaVars, mailbox, loopVars, boundVars>>

GoesTo(n, b) == walk' = [walk EXCEPT ![n] = b]

\* Gets one of the rooms S, or panics if it is gone.
Gets(n, S, b) ==
    IF S \subseteq dens THEN Lives /\ GoesTo(n, b) ELSE Dies(Gone(S)) /\ UNCHANGED walk

\* MoveCharacter; the exit may have been closed or locked meanwhile.
SetsOut(n) ==
    /\ WalksFrom(n, "set out")
    /\ \E b \in {"explore", "rest"} : Gets(n, {lair[n]}, b)
    /\ UNCHANGED <<lair, groundVars, aim, rivals, deeds>>

\* GetRoomByLocation finds the room behind the exit...
Explores(n) ==
    /\ WalksFrom(n, "explore")
    /\ \/ \E r \in dens \ {lair[n]} : aim' = [aim EXCEPT ![n] = {r}] /\ GoesTo(n, "reach")
       \/ undug # {} /\ GoesTo(n, "dig") /\ UNCHANGED aim
    /\ Lives /\ UNCHANGED <<lair, groundVars, rivals, deeds>>

\* ...and gets it.
Reaches(n) ==
    /\ WalksFrom(n, "reach") /\ Gets(n, aim[n], "cross")
    /\ UNCHANGED <<lair, groundVars, aim, rivals, deeds>>

\* A room without exits, and everybody who goes on to make one hears of it.
NewLair(r) ==
    /\ dens' = dens \cup {r} /\ undug' = undug \ {r} /\ UNCHANGED land
    /\ deeds' = deeds \cup {<<"made", r>>}

Digging(r, n) ==
    [m \in Npcs |-> IF m # n /\ walk[m] = "dig" THEN rivals[m] \cup {r} ELSE
                    IF m = n THEN {} ELSE rivals[m]]

\* GetZone and CreateRoom.  If another has made the room meanwhile, there is
\* none to give a title to.
Digs(n) ==
    /\ WalksFrom(n, "dig")
    /\ \/ ~land /\ Dies({<<"deleted", Land>>})
          /\ UNCHANGED <<dens, undug, land, exitless, aim, rivals, walk, deeds>>
       \/ \E r \in rivals[n] : Dies({<<"made", r>>})
          /\ UNCHANGED <<dens, undug, land, exitless, aim, rivals, walk, deeds>>
       \/ /\ land
          /\ \E r \in undug :
                /\ NewLair(r) /\ exitless' = exitless \cup {r}
                /\ aim' = [aim EXCEPT ![n] = {r}] /\ rivals' = Digging(r, n)
          /\ GoesTo(n, "open") /\ Lives
    /\ UNCHANGED lair

\* The exit back.
OpensBack(n) ==
    /\ WalksFrom(n, "open") /\ GoesTo(n, "cross") /\ Lives
    /\ exitless' = exitless \ aim[n]
    /\ UNCHANGED <<lair, dens, undug, land, aim, rivals, deeds>>

\* MoveCharacterToRoom, which gets the room left.
Crosses(n) ==
    /\ WalksFrom(n, "cross")
    /\ \E r \in aim[n] : lair' = [lair EXCEPT ![n] = r]
    /\ Gets(n, {lair[n]}, "glance") /\ aim' = [aim EXCEPT ![n] = {}]
    /\ UNCHANGED <<groundVars, rivals, deeds>>

\* DirectionBetween finds the rooms behind exits of both...
Glances(n) ==
    /\ WalksFrom(n, "glance") /\ Lives
    /\ \/ GoesTo(n, "rest") /\ UNCHANGED aim
       \/ \E r \in dens : aim' = [aim EXCEPT ![n] = {r}] /\ GoesTo(n, "recognise")
    /\ UNCHANGED <<lair, groundVars, rivals, deeds>>

\* ...and gets them.
Recognises(n) ==
    /\ WalksFrom(n, "recognise") /\ Gets(n, aim[n], "glance")
    /\ aim' = [aim EXCEPT ![n] = {}]
    /\ UNCHANGED <<lair, groundVars, rivals, deeds>>

Wanders(n) ==
    \/ Roams(n) \/ SetsOut(n) \/ Explores(n) \/ Reaches(n) \/ Digs(n) \/ OpensBack(n)
    \/ Crosses(n) \/ Glances(n) \/ Recognises(n)

Unmanaged(n) == mailbox' = [m \in Managed \ {n} |-> mailbox[m]]

Deceased(n) == npcs' = npcs \ {n} /\ deeds' = deeds \cup {<<"died", n>>} /\ Lives

\* Faulty variant: the goroutine goes on.
DieAgain(n) ==
    /\ Takes(n, "death")
    /\ IF n \in npcs
       THEN Deceased(n) /\ Handled(n, "death")
       ELSE Dies({<<"deleted", n>>}) /\ UNCHANGED <<npcs, mailbox, deeds>>
    /\ UNCHANGED <<spawned, roaming, lair, groundVars, areaVars, tripVars, loopVars, boundVars>>

\* Its death: the NPC is deleted, and nobody manages it any more.  No command
\* puts an item in an NPC, so there is none to delete before.
Die(n) ==
    /\ Takes(n, "death")
    /\ IF n \in npcs
       THEN Deceased(n) /\ Unmanaged(n)
       ELSE Dies({<<"deleted", n>>}) /\ UNCHANGED <<npcs, mailbox, deeds>>
    /\ UNCHANGED <<spawned, roaming, lair, groundVars, areaVars, tripVars, loopVars, boundVars>>

NpcStep(n) == Wanders(n) \/ Die(n)

-----------------------------------------------------------------------------
(* manageSpawner                                                           *)

LoopAt(a, b) ==
    /\ alive /\ spawning = a /\ spawning' = b
    /\ UNCHANGED <<groundVars, areaVars, tripVars, boundVars>>

\* GetAreaRooms finds their ids...
Surveys ==
    /\ LoopAt("rest", "survey")
    /\ choice' = area
    /\ Lives /\ UNCHANGED <<herdVars, mailbox, found, missing, newborn, deeds>>

\* ...and then gets them, and panics if one is gone.  (That they are got one by
\* one makes no difference: an id once missing never comes back.)
Inspects ==
    /\ IF choice \subseteq dens
       THEN LoopAt("survey", IF choice = {} THEN "rest" ELSE "find") /\ Lives
       ELSE LoopAt("survey", "none") /\ Dies(Gone(choice))
    /\ UNCHANGED <<herdVars, mailbox, choice, found, missing, newborn, deeds>>

Offspring == npcs \cap spawned

\* Faulty variant: counts NPCs that are not the spawner's.
FindsAll ==
    /\ LoopAt("find", "retrieve")
    /\ found' = npcs
    /\ Lives /\ UNCHANGED <<herdVars, mailbox, choice, missing, newborn, deeds>>

\* GetSpawnerNpcs: the same.
Finds ==
    /\ LoopAt("find", "retrieve")
    /\ found' = Offspring
    /\ Lives /\ UNCHANGED <<herdVars, mailbox, choice, missing, newborn, deeds>>

\* Faulty variant: it creates without having missed any.
RetrievesBlindly ==
    /\ LoopAt("retrieve", IF found \subseteq npcs THEN "create" ELSE "none")
    /\ missing' = count - Cardinality(found)
    /\ IF found \subseteq npcs THEN Lives ELSE Dies({"deleted", "died"} \X (found \ npcs))
    /\ found' = {}
    /\ UNCHANGED <<herdVars, mailbox, choice, newborn, deeds>>

Retrieves ==
    /\ IF found \subseteq npcs
       THEN /\ LoopAt("retrieve", IF count > Cardinality(found) THEN "create" ELSE "rest")
            /\ missing' = IF count > Cardinality(found) THEN count - Cardinality(found) ELSE 0
            /\ Lives
       ELSE /\ LoopAt("retrieve", "none") /\ UNCHANGED missing
            /\ Dies({"deleted", "died"} \X (found \ npcs))
    /\ found' = {}
    /\ UNCHANGED <<herdVars, mailbox, choice, newborn, deeds>>

\* An NPC with a new id, made in room r.
Born(n, r) ==
    /\ npcs' = npcs \cup {n} /\ roaming' = roaming \ {n}
    /\ lair' = [lair EXCEPT ![n] = r]
    /\ deeds' = deeds \ {<<"deleted", n>>, <<"died", n>>}

\* CreateNpc; nobody manages it yet.
CreatesNpc ==
    /\ LoopAt("create", "manage")
    /\ \E n \in Unborn, r \in choice :
          Born(n, r) /\ spawned' = spawned \cup {n} /\ newborn' = {n}
    /\ Lives /\ UNCHANGED <<mailbox, choice, found, missing>>

ManagesNewborn ==
    /\ LoopAt("manage", IF missing > 1 THEN "create" ELSE "rest")
    /\ mailbox' = [n \in Managed \cup newborn |-> IF n \in newborn THEN NoEvents ELSE mailbox[n]]
    /\ newborn' = {} /\ missing' = missing - 1
    /\ Lives /\ UNCHANGED <<herdVars, choice, found, deeds>>

SpawnerStep == Surveys \/ Inspects \/ Finds \/ Retrieves \/ CreatesNpc \/ ManagesNewborn

-----------------------------------------------------------------------------
(* Commands: /npc, /kill, /area, /destroyroom, /zone, exits                *)

Ordered ==
    /\ alive /\ orders < MaxOrders /\ orders' = orders + 1
    /\ UNCHANGED <<walk, aim, loopVars, alive, ticks, restarts, blamed>>

\* combat.Kill broadcasts a death; the NPC itself is left to its goroutine.
Kill(n) ==
    /\ Ordered /\ n \in npcs
    /\ Broadcast("death", {n})
    /\ UNCHANGED <<herdVars, groundVars, areaVars, rivals, deeds>>

\* One made by hand is managed only after a restart.
NewNpc ==
    /\ Ordered
    /\ \E n \in Unborn, r \in dens : Born(n, r) /\ spawned' = spawned \ {n}
    /\ UNCHANGED <<groundVars, areaVars, mailbox, rivals>>

\* Its goroutine stays.
DeleteNpc(n) ==
    /\ Ordered /\ n \in npcs
    /\ npcs' = npcs \ {n} /\ deeds' = deeds \cup {<<"deleted", n>>}
    /\ UNCHANGED <<spawned, roaming, lair, groundVars, areaVars, mailbox, rivals>>

ToggleRoaming(n) ==
    /\ Ordered /\ n \in npcs
    /\ roaming' = IF n \in roaming THEN roaming \ {n} ELSE roaming \cup {n}
    /\ UNCHANGED <<npcs, spawned, lair, groundVars, areaVars, mailbox, rivals, deeds>>

\* Somebody walks, or digs, where there is no room.
BuildRoom ==
    /\ Ordered /\ land
    /\ \E r \in undug : NewLair(r) /\ rivals' = Digging(r, Land)
    /\ UNCHANGED <<herdVars, exitless, areaVars, mailbox>>

\* The rooms R go, whoever is in them, and the last exits of S are closed.
Demolishes(R, S) ==
    /\ Ordered
    /\ dens' = dens \ R /\ area' = area \ R /\ exitless' = exitless \cup S
    /\ UNCHANGED <<herdVars, undug, spawner, count, mailbox, rivals>>

\* DeleteRoom closes the exits of the neighbours.
DemolishRoom(r) ==
    /\ r \in dens /\ UNCHANGED land
    /\ \E S \in SUBSET (dens \ {r}) :
          /\ Demolishes({r}, S)
          /\ deeds' = deeds \cup {<<"deleted", r>>} \cup ({"closed"} \X S)

CloseExits(r) ==
    /\ r \in dens /\ Demolishes({}, {r}) /\ UNCHANGED land
    /\ deeds' = deeds \cup {<<"closed", r>>}

SetCount(c) ==
    /\ Ordered /\ count' = c
    /\ UNCHANGED <<herdVars, groundVars, area, spawner, mailbox, rivals, deeds>>

\* DeleteZone; rooms made after it has listed them stay.
DemolishLand ==
    /\ land /\ land' = FALSE
    /\ \E R \in SUBSET dens :
          Demolishes(R, {}) /\ deeds' = deeds \cup ({"deleted"} \X (R \cup {Land}))

\* The goroutine of the spawner stays, with no rooms.
DeleteArea ==
    /\ Ordered /\ spawner
    /\ area' = {} /\ spawner' = FALSE
    /\ UNCHANGED <<herdVars, groundVars, count, mailbox, rivals, deeds>>

-----------------------------------------------------------------------------
EngineNext ==
    \/ Restart \/ Tick \/ SpawnerStep
    \/ \E n \in Npcs : NpcStep(n) \/ Kill(n) \/ DeleteNpc(n) \/ ToggleRoaming(n)
    \/ \E r \in Lairs : DemolishRoom(r) \/ CloseExits(r)
    \/ \E c \in Counts : SetCount(c)
    \/ NewNpc \/ BuildRoom \/ DemolishLand \/ DeleteArea

\* Goroutines run while the process does.
EngineFairness ==
    /\ WF_engineVars(SpawnerStep)
    /\ \A n \in Npcs : WF_engineVars(NpcStep(n))

EngineSpec == EngineInit /\ [][EngineNext]_engineVars /\ EngineFairness

-----------------------------------------------------------------------------
(* Properties                                                              *)

\* The process never dies of what its own goroutines do in good order: two
\* deaths of one NPC do no harm.  A panic comes from what somebody has done
\* meanwhile to an NPC or a room that one of them counts on: an NPC deleted by
\* hand, or dead since the spawner listed it; a room or the zone deleted, the
\* last exit of a room closed, a room made where one is about to be made or
\* entered before it has an exit.
CrashHasCause == ~alive => blamed \cap deeds # {}

\* As long as its area has rooms and the process runs, the spawner never stays
\* short of NPCs: those killed are missed and replaced.
Replenishes ==
    []<>(~alive \/ area = {} \/ Unborn = {} \/ Cardinality(Offspring) >= count)
=============================================================================
