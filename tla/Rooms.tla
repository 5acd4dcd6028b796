------------------------------- MODULE Rooms -------------------------------
(***************************************************************************)
(* Rooms, zones and exits (model/model.go) and the commands that walk      *)
(* through them and build them (session/).                                 *)
(*                                                                         *)
(* Rooms are found by zone and location in the database, exits are flags   *)
(* of a room; nothing ties the two together but the commands, which read   *)
(* and write one room at a time.  A walk through an exit that leads        *)
(* nowhere makes the room it leads to.                                     *)
(*                                                                         *)
(* Each step is one look-up, creation, deletion or update.  The world is a *)
(* row of places in each zone with two directions: the ten of the game are *)
(* five pairs like it.  No exit is locked (RoomLock), and no links are     *)
(* made: /link takes its own finish for a usage error.  An object that is  *)
(* looked up after its deletion is nil, and the session that uses it       *)
(* panics.                                                                 *)
(***************************************************************************)
EXTENDS Integers, FiniteSets

CONSTANTS
    Walkers,        \* sessions; the one called Player has no rights to build
    Player,
    RoomIds, Zones,
    Places,         \* an interval of positions around 0, the same in each zone (bound)
    Nowhere,
    MaxCommands     \* commands each session gives in the run

Directions == {"west", "east"}

ASSUME RoomsAssumption ==
    /\ Nowhere \notin RoomIds \cup Zones \cup Walkers
    /\ RoomIds # {} /\ Zones # {} /\ RoomIds \cap Zones = {}
    /\ 0 \in Places /\ Places \subseteq Int
    /\ MaxCommands \in Nat

VARIABLES
    rooms, zones,       \* those in the database
    fresh,              \* ids not used yet
    zoneOf, placeOf,    \* where each room is; never changed
    exits,
    inside,             \* the room each character is in
    doing,              \* what each session is about to do
    here, there, way,   \* its local variables: two rooms and a direction
    mover,              \* the character it moves
    flag,               \* it is in quickRoom, or the exit is to be enabled
    doomed, doomedZone, \* what its deletion has still to delete
    commands,           \* bound
    destroyed, toggled, \* something was deleted, an exit switched (history)
    crossed             \* two sessions made a room at one place at a time (history)

walkVars  == <<doing, here, there, way, mover, flag, doomed, doomedZone, commands>>
worldVars == <<rooms, zones, fresh, zoneOf, placeOf>>
causes    == <<destroyed, toggled, crossed>>
roomsVars == <<worldVars, exits, inside, walkVars, causes>>

-----------------------------------------------------------------------------
(* Coordinates                                                             *)

Step == [west |-> -1, east |-> 1]

\* Faulty variant: north is the opposite of north.
OppositeSame(d) == d

Opposite(d) == CHOOSE e \in Directions : e # d

Beyond(r, d) == placeOf[r] + Step[d]

\* GetRoomByLocation: the first the database finds.
RoomsAt(z, p) == {r \in rooms : zoneOf[r] = z /\ placeOf[r] = p}

\* The rooms a walker in r can go to.
Neighbours(r) == UNION {RoomsAt(zoneOf[r], Beyond(r, d)) : d \in exits[r]}

-----------------------------------------------------------------------------
(* Start: one room with an exit to the east.                               *)

FirstRoom == CHOOSE r \in RoomIds : TRUE
FirstZone == CHOOSE z \in Zones : TRUE

RoomsInit ==
    /\ rooms = {FirstRoom} /\ zones = {FirstZone}
    /\ fresh = (RoomIds \cup Zones) \ {FirstRoom, FirstZone}
    /\ zoneOf = [r \in RoomIds |-> FirstZone] /\ placeOf = [r \in RoomIds |-> 0]
    /\ exits = [r \in RoomIds |-> IF r = FirstRoom THEN {"east"} ELSE {}]
    /\ inside = [w \in Walkers |-> FirstRoom]
    /\ doing = [w \in Walkers |-> "prompt"]
    /\ here = [w \in Walkers |-> FirstRoom] /\ there = [w \in Walkers |-> Nowhere]
    /\ way = [w \in Walkers |-> "east"] /\ mover = [w \in Walkers |-> w]
    /\ flag = [w \in Walkers |-> FALSE]
    /\ doomed = [w \in Walkers |-> {}] /\ doomedZone = [w \in Walkers |-> Nowhere]
    /\ commands = [w \in Walkers |-> 0]
    /\ destroyed = FALSE /\ toggled = FALSE /\ crossed = FALSE

Activities ==
    {"prompt", "walk", "look", "create", "make", "open", "settle", "enter", "leave",
     "print", "back", "toggle", "otherSide", "delete", "disconnect", "panicked"}

RoomsTypeOK ==
    /\ rooms \subseteq RoomIds /\ zones \subseteq Zones /\ fresh \subseteq RoomIds \cup Zones
    /\ zoneOf \in [RoomIds -> Zones] /\ placeOf \in [RoomIds -> Places]
    /\ exits \in [RoomIds -> SUBSET Directions]
    /\ inside \in [Walkers -> RoomIds]
    /\ doing \in [Walkers -> Activities]
    /\ here \in [Walkers -> RoomIds] /\ there \in [Walkers -> RoomIds \cup Zones \cup {Nowhere}]
    /\ way \in [Walkers -> Directions] /\ mover \in [Walkers -> Walkers]
    /\ flag \in [Walkers -> BOOLEAN]
    /\ doomed \in [Walkers -> SUBSET RoomIds] /\ doomedZone \in [Walkers -> Zones \cup {Nowhere}]
    /\ commands \in [Walkers -> 0..MaxCommands]
    /\ destroyed \in BOOLEAN /\ toggled \in BOOLEAN /\ crossed \in BOOLEAN

Does(w, a)   == doing[w] = a
Then(w, a)   == doing' = [doing EXCEPT ![w] = a]
\* The character's room, if it is still there.
Stands(w)    == inside[w] \in rooms
Unbuilt      == UNCHANGED <<worldVars, exits>>
Stay         == UNCHANGED <<inside, causes>>
LocalsRemain == UNCHANGED <<here, there, way, mover, flag, doomed, doomedZone, commands>>

Panic(w) ==
    /\ Then(w, "panicked")
    /\ Unbuilt /\ LocalsRemain /\ Stay

\* The next command of session w; every one asks for its room first.
Command(w, a) ==
    /\ Does(w, "prompt") /\ Stands(w)
    /\ commands[w] < MaxCommands /\ commands' = [commands EXCEPT ![w] = @ + 1]
    /\ Then(w, a)

Builds(w) == w # Player

\* The room of w is gone, its zone, or the room of the character it joins.
GivesCommandNowhere(w) ==
    /\ Does(w, "prompt") /\ commands[w] < MaxCommands
    /\ \/ ~Stands(w)
       \/ Builds(w) /\ zoneOf[inside[w]] \notin zones
       \/ Builds(w) /\ \E v \in Walkers \ {w} : ~Stands(v)
    /\ Panic(w)

-----------------------------------------------------------------------------
(* Walking: handleAction, MoveCharacter, MoveCharacterToRoom               *)

Walks(w, d) ==
    /\ d \in exits[inside[w]] /\ Command(w, "walk")
    /\ way' = [way EXCEPT ![w] = d] /\ flag' = [flag EXCEPT ![w] = FALSE]
    /\ mover' = [mover EXCEPT ![w] = w]
    /\ Unbuilt /\ Stay /\ UNCHANGED <<here, there, doomed, doomedZone>>

QuickRoom(w, d) ==
    /\ Builds(w) /\ Command(w, "walk")
    /\ exits' = [exits EXCEPT ![inside[w]] = @ \cup {d}]
    /\ way' = [way EXCEPT ![w] = d] /\ flag' = [flag EXCEPT ![w] = TRUE]
    /\ mover' = [mover EXCEPT ![w] = w]
    /\ Stay /\ UNCHANGED <<worldVars, here, there, doomed, doomedZone>>

\* A command ends, or goes on in quickRoom.
Ends(w) == Then(w, IF flag[w] THEN "back" ELSE "prompt")

\* There is an exit, and the place behind it is within the bounds.
MayPass(w) == way[w] \in exits[inside[w]] /\ Beyond(inside[w], way[w]) \in Places

Checks(w) ==
    /\ Does(w, "walk") /\ Stands(w)
    /\ IF MayPass(w)
       THEN Then(w, "look") /\ here' = [here EXCEPT ![w] = inside[w]]
       ELSE Ends(w) /\ UNCHANGED here
    /\ Unbuilt /\ Stay /\ UNCHANGED <<there, way, mover, flag, doomed, doomedZone, commands>>

\* The rooms where w is going.
Goal(w) == RoomsAt(zoneOf[here[w]], Beyond(here[w], way[w]))

Looks(w) ==
    /\ Does(w, "look")
    /\ \/ \E r \in Goal(w) : Then(w, "enter") /\ there' = [there EXCEPT ![w] = r]
       \/ Goal(w) = {} /\ Then(w, "create") /\ UNCHANGED there
    /\ Unbuilt /\ Stay /\ UNCHANGED <<here, way, mover, flag, doomed, doomedZone, commands>>

\* CreateRoom looks again, and gives its caller no room if there is one now.
Creates(w) ==
    /\ Does(w, "create") /\ zoneOf[here[w]] \in zones /\ Goal(w) = {}
    /\ Then(w, "make")
    /\ Unbuilt /\ Stay /\ LocalsRemain

\* Faulty variant: the new room is where the old one is.
NewRoomHere(w, z, p) ==
    \E r \in fresh \cap RoomIds :
        /\ rooms' = rooms \cup {r} /\ fresh' = fresh \ {r}
        /\ zoneOf' = [zoneOf EXCEPT ![r] = z] /\ placeOf' = [placeOf EXCEPT ![r] = placeOf[here[w]]]
        /\ there' = [there EXCEPT ![w] = r]

\* NewRoom at place p of zone z.
NewRoom(w, z, p) ==
    LET r == CHOOSE i \in fresh \cap RoomIds : TRUE IN
        /\ fresh \cap RoomIds # {}
        /\ rooms' = rooms \cup {r} /\ fresh' = fresh \ {r}
        /\ zoneOf' = [zoneOf EXCEPT ![r] = z] /\ placeOf' = [placeOf EXCEPT ![r] = p]
        /\ there' = [there EXCEPT ![w] = r]

Makes(w) ==
    /\ Does(w, "make") /\ Then(w, "open")
    /\ NewRoom(w, zoneOf[here[w]], Beyond(here[w], way[w]))
    /\ crossed' = (crossed \/ \E v \in Walkers \ {w} :
                        doing[v] \in {"create", "make"} /\ zoneOf[here[v]] = zoneOf[here[w]]
                            /\ Beyond(here[v], way[v]) = Beyond(here[w], way[w]))
    /\ UNCHANGED <<zones, exits, inside, here, way, mover, flag, doomed, doomedZone, commands,
                   destroyed, toggled>>

\* The new room gets an exit back.
Opens(w) ==
    /\ Does(w, "open") /\ Then(w, "enter")
    /\ exits' = [exits EXCEPT ![there[w]] = @ \cup {Opposite(way[w])}]
    /\ Stay /\ LocalsRemain /\ UNCHANGED worldVars

EntersRoom(w) ==
    /\ Does(w, "enter") /\ Then(w, "leave")
    /\ here' = [here EXCEPT ![w] = inside[mover[w]]]
    /\ inside' = [inside EXCEPT ![mover[w]] = there[w]]
    /\ Unbuilt /\ UNCHANGED <<there, way, mover, flag, doomed, doomedZone, commands, causes>>

\* The old room is looked up for the events.
Leaves(w) ==
    /\ Does(w, "leave") /\ here[w] \in rooms
    /\ Then(w, IF mover[w] = w THEN "print" ELSE "prompt")
    /\ Unbuilt /\ Stay /\ LocalsRemain

Prints(w) ==
    /\ Does(w, "print") /\ Stands(w) /\ Ends(w)
    /\ Unbuilt /\ Stay /\ LocalsRemain

\* The end of quickRoom, in the room the character is in by then.
ComesBack(w) ==
    /\ Does(w, "back") /\ Stands(w) /\ Then(w, "prompt")
    /\ exits' = [exits EXCEPT ![inside[w]] = @ \cup {Opposite(way[w])}]
    /\ Stay /\ LocalsRemain /\ UNCHANGED worldVars

\* What is looked up is gone, or CreateRoom has found a room.
Fails(w) ==
    /\ \/ doing[w] \in {"walk", "print", "back"} /\ ~Stands(w)
       \/ Does(w, "create") /\ (zoneOf[here[w]] \notin zones \/ Goal(w) # {})
       \/ Does(w, "leave") /\ here[w] \notin rooms
       \/ Does(w, "delete") /\ doomed[w] \ rooms # {}
    /\ Panic(w)

-----------------------------------------------------------------------------
(* Going elsewhere: teleport, join, bring                                  *)

Sets(w, m, r) ==
    /\ mover' = [mover EXCEPT ![w] = m] /\ there' = [there EXCEPT ![w] = r]
    /\ flag' = [flag EXCEPT ![w] = FALSE]
    /\ Unbuilt /\ Stay /\ UNCHANGED <<here, way, doomed, doomedZone>>

Teleports(w, r) == Builds(w) /\ Command(w, "enter") /\ r \in rooms /\ Sets(w, w, r)

Joins(w, v) ==
    Builds(w) /\ v # w /\ Command(w, "enter") /\ Stands(v) /\ Sets(w, w, inside[v])

Brings(w, v) == Builds(w) /\ v # w /\ Command(w, "enter") /\ Sets(w, v, inside[w])

-----------------------------------------------------------------------------
(* Building: toggleExit, /destroyroom, /zone                               *)

\* The menu item reads the switch; the two rooms are written one by one.
Toggles(w, d) ==
    /\ Builds(w) /\ Command(w, "toggle")
    /\ here' = [here EXCEPT ![w] = inside[w]] /\ way' = [way EXCEPT ![w] = d]
    /\ flag' = [flag EXCEPT ![w] = d \notin exits[inside[w]]]
    /\ Unbuilt /\ Stay /\ UNCHANGED <<there, mover, doomed, doomedZone>>

Switch(r, d, on) ==
    exits' = [exits EXCEPT ![r] = IF on THEN @ \cup {d} ELSE @ \ {d}]

ThisSide(w) ==
    /\ Does(w, "toggle") /\ Then(w, "otherSide")
    /\ Switch(here[w], way[w], flag[w]) /\ toggled' = TRUE
    /\ LocalsRemain /\ UNCHANGED <<worldVars, inside, destroyed, crossed>>

OtherSide(w) ==
    /\ Does(w, "otherSide") /\ Then(w, "prompt")
    /\ \/ \E r \in Goal(w) : Switch(r, Opposite(way[w]), flag[w])
       \/ Goal(w) = {} /\ UNCHANGED exits
    /\ Stay /\ LocalsRemain /\ UNCHANGED worldVars

\* The rooms to delete are listed first.
Dooms(w, condemned, z) ==
    /\ Builds(w) /\ Command(w, "delete")
    /\ doomed' = [doomed EXCEPT ![w] = condemned]
    /\ doomedZone' = [doomedZone EXCEPT ![w] = z]
    /\ Unbuilt /\ Stay /\ UNCHANGED <<here, there, way, mover, flag>>

Destroy(w, d) ==
    \E r \in RoomsAt(zoneOf[inside[w]], Beyond(inside[w], d)) : Dooms(w, {r}, Nowhere)

DeleteZone(w, z) ==
    /\ z \in zones \ {zoneOf[inside[w]]} /\ zoneOf[inside[w]] \in zones
    /\ Dooms(w, {r \in rooms : zoneOf[r] = z}, z)

DeleteRoom(w) ==
    /\ Does(w, "delete") /\ Then(w, "disconnect")
    /\ \E r \in doomed[w] \cap rooms :
          /\ rooms' = rooms \ {r} /\ there' = [there EXCEPT ![w] = r]
          /\ doomed' = [doomed EXCEPT ![w] = @ \ {r}]
    /\ destroyed' = TRUE
    /\ UNCHANGED <<zones, fresh, zoneOf, placeOf, exits, inside, here, way, mover, flag,
                   doomedZone, commands, toggled, crossed>>

\* The exits that led to it go, of one room in each direction.
Disconnect(w) ==
    /\ Does(w, "disconnect") /\ Then(w, "delete")
    /\ LET Next(d) == RoomsAt(zoneOf[there[w]], Beyond(there[w], d)) IN
       \E found \in [Directions -> RoomIds \cup {Nowhere}] :
          /\ \A d \in Directions : IF Next(d) = {} THEN found[d] = Nowhere ELSE found[d] \in Next(d)
          /\ exits' = [r \in RoomIds |->
                          exits[r] \ {Opposite(d) : d \in {e \in Directions : found[e] = r}}]
    /\ Stay /\ LocalsRemain /\ UNCHANGED worldVars

\* All rooms are gone; of a zone, the zone itself follows.
Deleted(w) ==
    /\ Does(w, "delete") /\ doomed[w] = {} /\ doomedZone[w] \in zones \cup {Nowhere}
    /\ Then(w, "prompt")
    /\ zones' = zones \ {doomedZone[w]}
    /\ destroyed' = TRUE
    /\ LocalsRemain /\ UNCHANGED <<rooms, fresh, zoneOf, placeOf, exits, inside, toggled, crossed>>

NewZone(w, z) ==
    /\ Builds(w) /\ z \in fresh \cap Zones /\ Command(w, "settle")
    /\ zones' = zones \cup {z} /\ fresh' = fresh \ {z}
    /\ there' = [there EXCEPT ![w] = z]
    /\ mover' = [mover EXCEPT ![w] = w] /\ flag' = [flag EXCEPT ![w] = FALSE]
    /\ Stay /\ UNCHANGED <<rooms, zoneOf, placeOf, exits, here, way, doomed, doomedZone>>

Settles(w) ==
    /\ Does(w, "settle") /\ Then(w, "enter")
    /\ NewRoom(w, there[w], 0)
    /\ Stay /\ UNCHANGED <<zones, exits, here, way, mover, flag, doomed, doomedZone, commands>>

-----------------------------------------------------------------------------
(* Next                                                                    *)

Gives(w) ==
    \/ \E d \in Directions : Walks(w, d) \/ QuickRoom(w, d) \/ Toggles(w, d) \/ Destroy(w, d)
    \/ \E r \in RoomIds : Teleports(w, r)
    \/ \E v \in Walkers : Joins(w, v) \/ Brings(w, v)
    \/ \E z \in Zones : NewZone(w, z) \/ DeleteZone(w, z)
    \/ GivesCommandNowhere(w)

GoesOn(w) ==
    \/ Checks(w) \/ Looks(w) \/ Creates(w) \/ Makes(w) \/ Opens(w)
    \/ EntersRoom(w) \/ Leaves(w) \/ Prints(w) \/ ComesBack(w)
    \/ ThisSide(w) \/ OtherSide(w)
    \/ DeleteRoom(w) \/ Disconnect(w) \/ Deleted(w) \/ Settles(w)
    \/ Fails(w)

RoomsNext == \E w \in Walkers : Gives(w) \/ GoesOn(w)

RoomsSpec == RoomsInit /\ [][RoomsNext]_roomsVars

-----------------------------------------------------------------------------
(* Properties                                                              *)

\* A place has one room (CreateRoom: "A room already exists at that
\* location"), unless two walkers have made rooms at a time.
OneRoomPerPlace ==
    ~crossed =>
        \A r, s \in rooms : (zoneOf[r] = zoneOf[s] /\ placeOf[r] = placeOf[s]) => r = s

\* Whoever walks out of the first room can walk back to it, whatever rooms the
\* walks of all have made, until an exit is switched off or a room deleted: any
\* rooms of its zone that leave it out have a way out of them.
WayBack ==
    (~destroyed /\ ~toggled /\ \A w \in Walkers : ~Does(w, "open")) =>
        \A S \in SUBSET {r \in rooms : zoneOf[r] = FirstZone} :
            (S # {} /\ FirstRoom \notin S) => \E r \in S : ~(Neighbours(r) \subseteq S)

\* The rooms of a zone form a grid that can be walked: one room at a place,
\* and a way back from each.
GridHolds == OneRoomPerPlace /\ WayBack
=============================================================================
