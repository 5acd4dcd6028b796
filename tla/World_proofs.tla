---------------------------- MODULE World_proofs ----------------------------
(***************************************************************************)
(* Theorems about the systems of MCWorld: Rooms, for any number of walkers, *)
(* rooms and zones and any row of places; Shop, for any number of sessions, *)
(* items and boxes; Engine, for any number of NPCs, rooms and commands;     *)
(* RoomLock, for any number of sessions in the room; Paths, for any maze;   *)
(* and, with those about Menus and Telnet, the types of all but Engine.     *)
(***************************************************************************)
EXTENDS MCWorld, Engine, Menus_proofs, Telnet_proofs

-----------------------------------------------------------------------------
(* Rooms: the inductive invariant                                          *)

\* Everything a session looks at has been made: what it stands in, has been in
\* and is about to enter or to settle.
NothingIsFresh ==
    /\ rooms \cap fresh = {}
    /\ \A w \in Walkers :
          /\ here[w] \notin fresh /\ inside[w] \notin fresh
          /\ doing[w] \in {"open", "enter"} => there[w] \in RoomIds \ fresh
          /\ doing[w] = "settle" => there[w] \in Zones \ fresh

\* Nobody looks beyond the row.
InBounds ==
    \A w \in Walkers :
        doing[w] \in {"look", "create", "make"} => Beyond(here[w], way[w]) \in Places

\* A zone that is not made yet has no rooms, nor has one about to be settled;
\* only one session settles it.
NewZonesAreEmpty ==
    /\ \A z \in fresh \cap Zones, r \in RoomIds \ fresh : zoneOf[r] # z
    /\ \A w \in Walkers : doing[w] = "settle" =>
          \A r \in RoomIds \ fresh : zoneOf[r] # there[w]
    /\ \A v, w \in Walkers :
          doing[v] = "settle" /\ doing[w] = "settle" /\ there[v] = there[w] => v = w

\* Where a session is about to make a room there is none, until two make one at
\* a time.
SitesAreVacant ==
    ~crossed => \A w \in Walkers : doing[w] = "make" => Goal(w) = {}

RoomsInv ==
    /\ RoomsTypeOK /\ NothingIsFresh /\ InBounds /\ NewZonesAreEmpty
    /\ SitesAreVacant /\ OneRoomPerPlace

-----------------------------------------------------------------------------
(* Rooms: every step keeps it                                              *)

\* Of two directions each has an opposite.
LEMMA OppositeIsDirection ==
    ASSUME NEW d \in Directions
    PROVE  Opposite(d) \in Directions
<1>1. \E e \in Directions : e # d
  BY DEF Directions
<1>2. QED BY <1>1 DEF Opposite

\* A new room takes an id that nothing has used.
LEMMA NewRoomIsFresh ==
    ASSUME NEW w, NEW z, NEW p, NewRoom(w, z, p)
    PROVE  \E r \in fresh \cap RoomIds :
              /\ rooms' = rooms \cup {r} /\ fresh' = fresh \ {r}
              /\ zoneOf' = [zoneOf EXCEPT ![r] = z] /\ placeOf' = [placeOf EXCEPT ![r] = p]
              /\ there' = [there EXCEPT ![w] = r]
  BY DEF NewRoom

\* Steps keep the types.
LEMMA NextRoomsTypes ==
    ASSUME RoomsTypeOK, NothingIsFresh, InBounds, [RoomsNext]_roomsVars
    PROVE  RoomsTypeOK'
<1> USE RoomsAssumption, OppositeIsDirection DEF RoomsTypeOK, NothingIsFresh, RoomsAssumption, Activities
<1>1. ASSUME NEW w \in Walkers, NEW d \in Directions, Walks(w, d)
      PROVE  RoomsTypeOK'
  BY <1>1 DEF Walks, Command, Does, Then, Stands, Builds, Unbuilt, Stay,
         LocalsRemain, worldVars, causes
<1>2. ASSUME NEW w \in Walkers, NEW d \in Directions, QuickRoom(w, d)
      PROVE  RoomsTypeOK'
  BY <1>2 DEF QuickRoom, Command, Does, Then, Stands, Builds, Unbuilt, Stay,
         LocalsRemain, worldVars, causes
<1>3. ASSUME NEW w \in Walkers, Checks(w)
      PROVE  RoomsTypeOK'
  <2>1. PICK a \in {"look", "prompt", "back"} : doing' = [doing EXCEPT ![w] = a]
    BY <1>3 DEF Checks, Then, Ends
  <2>2. here' \in {here, [here EXCEPT ![w] = inside[w]]}
    BY <1>3 DEF Checks
  <2>3. QED BY <1>3, <2>1, <2>2 DEF Checks, Unbuilt, Stay, worldVars, causes
<1>4. ASSUME NEW w \in Walkers, Looks(w)
      PROVE  RoomsTypeOK'
  BY <1>4 DEF Looks, Goal, RoomsAt, Does, Then, Stands, Unbuilt, Stay,
         LocalsRemain, worldVars, causes
<1>5. ASSUME NEW w \in Walkers, Creates(w)
      PROVE  RoomsTypeOK'
  BY <1>5 DEF Creates, Goal, RoomsAt, Does, Then, Stands, Unbuilt, Stay,
         LocalsRemain, worldVars, causes
<1>6. ASSUME NEW w \in Walkers, Makes(w)
      PROVE  RoomsTypeOK'
  <2>1. PICK r \in fresh \cap RoomIds :
           /\ rooms' = rooms \cup {r} /\ fresh' = fresh \ {r}
           /\ zoneOf' = [zoneOf EXCEPT ![r] = zoneOf[here[w]]] /\ placeOf' = [placeOf EXCEPT ![r] = Beyond(here[w], way[w])]
           /\ there' = [there EXCEPT ![w] = r]
    BY <1>6, NewRoomIsFresh DEF Makes
  <2>2. Beyond(here[w], way[w]) \in Places /\ zoneOf[here[w]] \in Zones
    BY <1>6 DEF InBounds, Makes, Does
  <2>3. QED BY <1>6, <2>1, <2>2 DEF Makes, Does, Then
<1>7. ASSUME NEW w \in Walkers, Opens(w)
      PROVE  RoomsTypeOK'
  BY <1>7 DEF Opens, Does, Then, Stands, Unbuilt, Stay, LocalsRemain,
         worldVars, causes
<1>8. ASSUME NEW w \in Walkers, EntersRoom(w)
      PROVE  RoomsTypeOK'
  BY <1>8 DEF EntersRoom, Does, Then, Stands, Unbuilt, Stay, LocalsRemain,
         worldVars, causes
<1>9. ASSUME NEW w \in Walkers, Leaves(w)
      PROVE  RoomsTypeOK'
  BY <1>9 DEF Leaves, Does, Then, Stands, Unbuilt, Stay, LocalsRemain,
         worldVars, causes
<1>10. ASSUME NEW w \in Walkers, Prints(w)
      PROVE  RoomsTypeOK'
  BY <1>10 DEF Prints, Ends, Does, Then, Stands, Unbuilt, Stay, LocalsRemain,
         worldVars, causes
<1>11. ASSUME NEW w \in Walkers, ComesBack(w)
      PROVE  RoomsTypeOK'
  BY <1>11 DEF ComesBack, Does, Then, Stands, Unbuilt, Stay, LocalsRemain,
         worldVars, causes
<1>12. ASSUME NEW w \in Walkers, Fails(w) \/ GivesCommandNowhere(w)
      PROVE  RoomsTypeOK'
  BY <1>12 DEF Fails, GivesCommandNowhere, Panic, Then, Unbuilt, Stay,
         LocalsRemain, worldVars, causes
<1>13. ASSUME NEW w \in Walkers, NEW r \in RoomIds, Teleports(w, r)
      PROVE  RoomsTypeOK'
  BY <1>13 DEF Teleports, Sets, Command, Does, Then, Stands, Builds, Unbuilt,
         Stay, LocalsRemain, worldVars, causes
<1>14. ASSUME NEW w \in Walkers, NEW v \in Walkers, Joins(w, v)
      PROVE  RoomsTypeOK'
  BY <1>14 DEF Joins, Sets, Command, Does, Then, Stands, Builds, Unbuilt, Stay,
         LocalsRemain, worldVars, causes
<1>15. ASSUME NEW w \in Walkers, NEW v \in Walkers, Brings(w, v)
      PROVE  RoomsTypeOK'
  BY <1>15 DEF Brings, Sets, Command, Does, Then, Stands, Builds, Unbuilt,
         Stay, LocalsRemain, worldVars, causes
<1>16. ASSUME NEW w \in Walkers, NEW d \in Directions, Toggles(w, d)
      PROVE  RoomsTypeOK'
  BY <1>16 DEF Toggles, Command, Does, Then, Stands, Builds, Unbuilt, Stay,
         LocalsRemain, worldVars, causes
<1>17. ASSUME NEW w \in Walkers, ThisSide(w)
      PROVE  RoomsTypeOK'
  BY <1>17 DEF ThisSide, Switch, Does, Then, Stands, Unbuilt, Stay,
         LocalsRemain, worldVars, causes
<1>18. ASSUME NEW w \in Walkers, OtherSide(w)
      PROVE  RoomsTypeOK'
  <2>1. exits' \in [RoomIds -> SUBSET Directions]
    <3>1. \A r \in RoomIds : exits[r] \cup {Opposite(way[w])} \in SUBSET Directions
                            /\ exits[r] \ {Opposite(way[w])} \in SUBSET Directions
      OBVIOUS
    <3>2. exits' = exits \/ \E r \in RoomIds :
             \/ exits' = [exits EXCEPT ![r] = exits[r] \cup {Opposite(way[w])}]
             \/ exits' = [exits EXCEPT ![r] = exits[r] \ {Opposite(way[w])}]
      BY <1>18 DEF OtherSide, Switch, Goal, RoomsAt
    <3>3. QED BY <3>1, <3>2
  <2>2. QED BY <1>18, <2>1 DEF OtherSide, Then, Stay, LocalsRemain, worldVars, causes
<1>19. ASSUME NEW w \in Walkers, NEW d \in Directions, Destroy(w, d)
      PROVE  RoomsTypeOK'
  BY <1>19 DEF Destroy, Dooms, RoomsAt, Command, Does, Then, Stands, Builds,
         Unbuilt, Stay, LocalsRemain, worldVars, causes
<1>20. ASSUME NEW w \in Walkers, NEW z \in Zones, DeleteZone(w, z)
      PROVE  RoomsTypeOK'
  BY <1>20 DEF DeleteZone, Dooms, Command, Does, Then, Stands, Builds, Unbuilt,
         Stay, LocalsRemain, worldVars, causes
<1>21. ASSUME NEW w \in Walkers, DeleteRoom(w)
      PROVE  RoomsTypeOK'
  BY <1>21 DEF DeleteRoom, Does, Then, Stands, Unbuilt, Stay, LocalsRemain,
         worldVars, causes
<1>22. ASSUME NEW w \in Walkers, Disconnect(w)
      PROVE  RoomsTypeOK'
  BY <1>22 DEF Disconnect, Does, Then, Stands, Unbuilt, Stay, LocalsRemain,
         worldVars, causes
<1>23. ASSUME NEW w \in Walkers, Deleted(w)
      PROVE  RoomsTypeOK'
  BY <1>23 DEF Deleted, Does, Then, Stands, Unbuilt, Stay, LocalsRemain,
         worldVars, causes
<1>24. ASSUME NEW w \in Walkers, NEW z \in Zones, NewZone(w, z)
      PROVE  RoomsTypeOK'
  BY <1>24 DEF NewZone, Command, Does, Then, Stands, Builds, Unbuilt, Stay,
         LocalsRemain, worldVars, causes
<1>25. ASSUME NEW w \in Walkers, Settles(w)
      PROVE  RoomsTypeOK'
  <2>1. PICK r \in fresh \cap RoomIds :
           /\ rooms' = rooms \cup {r} /\ fresh' = fresh \ {r}
           /\ zoneOf' = [zoneOf EXCEPT ![r] = there[w]] /\ placeOf' = [placeOf EXCEPT ![r] = 0]
           /\ there' = [there EXCEPT ![w] = r]
    BY <1>25, NewRoomIsFresh DEF Settles
  <2>2. there[w] \in Zones
    BY <1>25 DEF Settles, Does
  <2>3. QED BY <1>25, <2>1, <2>2 DEF Settles, Does, Then, Stay, causes
<1>26. CASE UNCHANGED roomsVars
  BY <1>26 DEF roomsVars, worldVars, walkVars, causes
<1>27. QED BY <1>1, <1>2, <1>3, <1>4, <1>5, <1>6, <1>7, <1>8, <1>9, <1>10,
       <1>11, <1>12, <1>13, <1>14, <1>15, <1>16, <1>17, <1>18, <1>19, <1>20,
       <1>21, <1>22, <1>23, <1>24, <1>25, <1>26
           DEF RoomsNext, Gives, GoesOn

\* An id once used is not fresh again.
LEMMA NextNothingIsFresh ==
    ASSUME RoomsTypeOK, NothingIsFresh, [RoomsNext]_roomsVars
    PROVE  NothingIsFresh'
<1> USE RoomsAssumption DEF RoomsTypeOK, NothingIsFresh, RoomsAssumption
<1>1. ASSUME NEW w \in Walkers, NEW d \in Directions, Walks(w, d)
      PROVE  NothingIsFresh'
  BY <1>1 DEF Walks, Command, Does, Then, Stands, Builds, Unbuilt, Stay,
         LocalsRemain, worldVars, causes
<1>2. ASSUME NEW w \in Walkers, NEW d \in Directions, QuickRoom(w, d)
      PROVE  NothingIsFresh'
  BY <1>2 DEF QuickRoom, Command, Does, Then, Stands, Builds, Unbuilt, Stay,
         LocalsRemain, worldVars, causes
<1>3. ASSUME NEW w \in Walkers, Checks(w)
      PROVE  NothingIsFresh'
  <2>1. PICK a \in {"look", "prompt", "back"} : doing' = [doing EXCEPT ![w] = a]
    BY <1>3 DEF Checks, Then, Ends
  <2>2. here' \in {here, [here EXCEPT ![w] = inside[w]]}
    BY <1>3 DEF Checks
  <2>3. QED BY <1>3, <2>1, <2>2 DEF Checks, Unbuilt, Stay, worldVars, causes
<1>4. ASSUME NEW w \in Walkers, Looks(w)
      PROVE  NothingIsFresh'
  BY <1>4 DEF Looks, Goal, RoomsAt, Does, Then, Stands, Unbuilt, Stay,
         LocalsRemain, worldVars, causes
<1>5. ASSUME NEW w \in Walkers, Creates(w)
      PROVE  NothingIsFresh'
  BY <1>5 DEF Creates, Goal, RoomsAt, Does, Then, Stands, Unbuilt, Stay,
         LocalsRemain, worldVars, causes
<1>6. ASSUME NEW w \in Walkers, Makes(w)
      PROVE  NothingIsFresh'
  <2>1. PICK r \in fresh \cap RoomIds :
           /\ rooms' = rooms \cup {r} /\ fresh' = fresh \ {r}
           /\ zoneOf' = [zoneOf EXCEPT ![r] = zoneOf[here[w]]] /\ placeOf' = [placeOf EXCEPT ![r] = Beyond(here[w], way[w])]
           /\ there' = [there EXCEPT ![w] = r]
    BY <1>6, NewRoomIsFresh DEF Makes
  <2>2. QED BY <1>6, <2>1 DEF Makes, Does, Then
<1>7. ASSUME NEW w \in Walkers, Opens(w)
      PROVE  NothingIsFresh'
  BY <1>7 DEF Opens, Does, Then, Stands, Unbuilt, Stay, LocalsRemain,
         worldVars, causes
<1>8. ASSUME NEW w \in Walkers, EntersRoom(w)
      PROVE  NothingIsFresh'
  BY <1>8 DEF EntersRoom, Does, Then, Stands, Unbuilt, Stay, LocalsRemain,
         worldVars, causes
<1>9. ASSUME NEW w \in Walkers, Leaves(w)
      PROVE  NothingIsFresh'
  BY <1>9 DEF Leaves, Does, Then, Stands, Unbuilt, Stay, LocalsRemain,
         worldVars, causes
<1>10. ASSUME NEW w \in Walkers, Prints(w)
      PROVE  NothingIsFresh'
  BY <1>10 DEF Prints, Ends, Does, Then, Stands, Unbuilt, Stay, LocalsRemain,
         worldVars, causes
<1>11. ASSUME NEW w \in Walkers, ComesBack(w)
      PROVE  NothingIsFresh'
  BY <1>11 DEF ComesBack, Does, Then, Stands, Unbuilt, Stay, LocalsRemain,
         worldVars, causes
<1>12. ASSUME NEW w \in Walkers, Fails(w) \/ GivesCommandNowhere(w)
      PROVE  NothingIsFresh'
  BY <1>12 DEF Fails, GivesCommandNowhere, Panic, Then, Unbuilt, Stay,
         LocalsRemain, worldVars, causes
<1>13. ASSUME NEW w \in Walkers, NEW r \in RoomIds, Teleports(w, r)
      PROVE  NothingIsFresh'
  BY <1>13 DEF Teleports, Sets, Command, Does, Then, Stands, Builds, Unbuilt,
         Stay, LocalsRemain, worldVars, causes
<1>14. ASSUME NEW w \in Walkers, NEW v \in Walkers, Joins(w, v)
      PROVE  NothingIsFresh'
  BY <1>14 DEF Joins, Sets, Command, Does, Then, Stands, Builds, Unbuilt, Stay,
         LocalsRemain, worldVars, causes
<1>15. ASSUME NEW w \in Walkers, NEW v \in Walkers, Brings(w, v)
      PROVE  NothingIsFresh'
  BY <1>15 DEF Brings, Sets, Command, Does, Then, Stands, Builds, Unbuilt,
         Stay, LocalsRemain, worldVars, causes
<1>16. ASSUME NEW w \in Walkers, NEW d \in Directions, Toggles(w, d)
      PROVE  NothingIsFresh'
  BY <1>16 DEF Toggles, Command, Does, Then, Stands, Builds, Unbuilt, Stay,
         LocalsRemain, worldVars, causes
<1>17. ASSUME NEW w \in Walkers, ThisSide(w)
      PROVE  NothingIsFresh'
  BY <1>17 DEF ThisSide, Switch, Does, Then, Stands, Unbuilt, Stay,
         LocalsRemain, worldVars, causes
<1>18. ASSUME NEW w \in Walkers, OtherSide(w)
      PROVE  NothingIsFresh'
  BY <1>18 DEF OtherSide, Switch, Goal, RoomsAt, Does, Then, Stands, Unbuilt,
         Stay, LocalsRemain, worldVars, causes
<1>19. ASSUME NEW w \in Walkers, NEW d \in Directions, Destroy(w, d)
      PROVE  NothingIsFresh'
  BY <1>19 DEF Destroy, Dooms, RoomsAt, Command, Does, Then, Stands, Builds,
         Unbuilt, Stay, LocalsRemain, worldVars, causes
<1>20. ASSUME NEW w \in Walkers, NEW z \in Zones, DeleteZone(w, z)
      PROVE  NothingIsFresh'
  BY <1>20 DEF DeleteZone, Dooms, Command, Does, Then, Stands, Builds, Unbuilt,
         Stay, LocalsRemain, worldVars, causes
<1>21. ASSUME NEW w \in Walkers, DeleteRoom(w)
      PROVE  NothingIsFresh'
  BY <1>21 DEF DeleteRoom, Does, Then, Stands, Unbuilt, Stay, LocalsRemain,
         worldVars, causes
<1>22. ASSUME NEW w \in Walkers, Disconnect(w)
      PROVE  NothingIsFresh'
  BY <1>22 DEF Disconnect, Does, Then, Stands, Unbuilt, Stay, LocalsRemain,
         worldVars, causes
<1>23. ASSUME NEW w \in Walkers, Deleted(w)
      PROVE  NothingIsFresh'
  BY <1>23 DEF Deleted, Does, Then, Stands, Unbuilt, Stay, LocalsRemain,
         worldVars, causes
<1>24. ASSUME NEW w \in Walkers, NEW z \in Zones, NewZone(w, z)
      PROVE  NothingIsFresh'
  BY <1>24 DEF NewZone, Command, Does, Then, Stands, Builds, Unbuilt, Stay,
         LocalsRemain, worldVars, causes
<1>25. ASSUME NEW w \in Walkers, Settles(w)
      PROVE  NothingIsFresh'
  <2>1. PICK r \in fresh \cap RoomIds :
           /\ rooms' = rooms \cup {r} /\ fresh' = fresh \ {r}
           /\ zoneOf' = [zoneOf EXCEPT ![r] = there[w]] /\ placeOf' = [placeOf EXCEPT ![r] = 0]
           /\ there' = [there EXCEPT ![w] = r]
    BY <1>25, NewRoomIsFresh DEF Settles
  <2>2. QED BY <1>25, <2>1 DEF Settles, Does, Then, Stay
<1>26. CASE UNCHANGED roomsVars
  BY <1>26 DEF roomsVars, worldVars, walkVars, causes
<1>27. QED BY <1>1, <1>2, <1>3, <1>4, <1>5, <1>6, <1>7, <1>8, <1>9, <1>10,
       <1>11, <1>12, <1>13, <1>14, <1>15, <1>16, <1>17, <1>18, <1>19, <1>20,
       <1>21, <1>22, <1>23, <1>24, <1>25, <1>26
           DEF RoomsNext, Gives, GoesOn

\* Rooms that have been made stay where they are.
LEMMA NextInBounds ==
    ASSUME RoomsTypeOK, NothingIsFresh, InBounds, [RoomsNext]_roomsVars
    PROVE  InBounds'
<1> USE DEF RoomsTypeOK, NothingIsFresh, InBounds, Beyond
<1>1. ASSUME NEW w \in Walkers, NEW d \in Directions, Walks(w, d)
      PROVE  InBounds'
  BY <1>1 DEF Walks, Command, Does, Then, Stands, Builds, Unbuilt, Stay,
         LocalsRemain, worldVars, causes
<1>2. ASSUME NEW w \in Walkers, NEW d \in Directions, QuickRoom(w, d)
      PROVE  InBounds'
  BY <1>2 DEF QuickRoom, Command, Does, Then, Stands, Builds, Unbuilt, Stay,
         LocalsRemain, worldVars, causes
<1>3. ASSUME NEW w \in Walkers, Checks(w)
      PROVE  InBounds'
  BY <1>3 DEF Checks, MayPass, Ends, Does, Then, Stands, Unbuilt, Stay,
         LocalsRemain, worldVars, causes
<1>4. ASSUME NEW w \in Walkers, Looks(w)
      PROVE  InBounds'
  BY <1>4 DEF Looks, Goal, RoomsAt, Does, Then, Stands, Unbuilt, Stay,
         LocalsRemain, worldVars, causes
<1>5. ASSUME NEW w \in Walkers, Creates(w)
      PROVE  InBounds'
  BY <1>5 DEF Creates, Goal, RoomsAt, Does, Then, Stands, Unbuilt, Stay,
         LocalsRemain, worldVars, causes
<1>6. ASSUME NEW w \in Walkers, Makes(w)
      PROVE  InBounds'
  <2>1. PICK r \in fresh \cap RoomIds :
           /\ rooms' = rooms \cup {r} /\ fresh' = fresh \ {r}
           /\ zoneOf' = [zoneOf EXCEPT ![r] = zoneOf[here[w]]] /\ placeOf' = [placeOf EXCEPT ![r] = Beyond(here[w], way[w])]
           /\ there' = [there EXCEPT ![w] = r]
    BY <1>6, NewRoomIsFresh DEF Makes
  <2>2. QED BY <1>6, <2>1 DEF Makes, Does, Then
<1>7. ASSUME NEW w \in Walkers, Opens(w)
      PROVE  InBounds'
  BY <1>7 DEF Opens, Does, Then, Stands, Unbuilt, Stay, LocalsRemain,
         worldVars, causes
<1>8. ASSUME NEW w \in Walkers, EntersRoom(w)
      PROVE  InBounds'
  BY <1>8 DEF EntersRoom, Does, Then, Stands, Unbuilt, Stay, LocalsRemain,
         worldVars, causes
<1>9. ASSUME NEW w \in Walkers, Leaves(w)
      PROVE  InBounds'
  BY <1>9 DEF Leaves, Does, Then, Stands, Unbuilt, Stay, LocalsRemain,
         worldVars, causes
<1>10. ASSUME NEW w \in Walkers, Prints(w)
      PROVE  InBounds'
  BY <1>10 DEF Prints, Ends, Does, Then, Stands, Unbuilt, Stay, LocalsRemain,
         worldVars, causes
<1>11. ASSUME NEW w \in Walkers, ComesBack(w)
      PROVE  InBounds'
  BY <1>11 DEF ComesBack, Does, Then, Stands, Unbuilt, Stay, LocalsRemain,
         worldVars, causes
<1>12. ASSUME NEW w \in Walkers, Fails(w) \/ GivesCommandNowhere(w)
      PROVE  InBounds'
  BY <1>12 DEF Fails, GivesCommandNowhere, Panic, Then, Unbuilt, Stay,
         LocalsRemain, worldVars, causes
<1>13. ASSUME NEW w \in Walkers, NEW r \in RoomIds, Teleports(w, r)
      PROVE  InBounds'
  BY <1>13 DEF Teleports, Sets, Command, Does, Then, Stands, Builds, Unbuilt,
         Stay, LocalsRemain, worldVars, causes
<1>14. ASSUME NEW w \in Walkers, NEW v \in Walkers, Joins(w, v)
      PROVE  InBounds'
  BY <1>14 DEF Joins, Sets, Command, Does, Then, Stands, Builds, Unbuilt, Stay,
         LocalsRemain, worldVars, causes
<1>15. ASSUME NEW w \in Walkers, NEW v \in Walkers, Brings(w, v)
      PROVE  InBounds'
  BY <1>15 DEF Brings, Sets, Command, Does, Then, Stands, Builds, Unbuilt,
         Stay, LocalsRemain, worldVars, causes
<1>16. ASSUME NEW w \in Walkers, NEW d \in Directions, Toggles(w, d)
      PROVE  InBounds'
  BY <1>16 DEF Toggles, Command, Does, Then, Stands, Builds, Unbuilt, Stay,
         LocalsRemain, worldVars, causes
<1>17. ASSUME NEW w \in Walkers, ThisSide(w)
      PROVE  InBounds'
  BY <1>17 DEF ThisSide, Switch, Does, Then, Stands, Unbuilt, Stay,
         LocalsRemain, worldVars, causes
<1>18. ASSUME NEW w \in Walkers, OtherSide(w)
      PROVE  InBounds'
  BY <1>18 DEF OtherSide, Switch, Goal, RoomsAt, Does, Then, Stands, Unbuilt,
         Stay, LocalsRemain, worldVars, causes
<1>19. ASSUME NEW w \in Walkers, NEW d \in Directions, Destroy(w, d)
      PROVE  InBounds'
  BY <1>19 DEF Destroy, Dooms, RoomsAt, Command, Does, Then, Stands, Builds,
         Unbuilt, Stay, LocalsRemain, worldVars, causes
<1>20. ASSUME NEW w \in Walkers, NEW z \in Zones, DeleteZone(w, z)
      PROVE  InBounds'
  BY <1>20 DEF DeleteZone, Dooms, Command, Does, Then, Stands, Builds, Unbuilt,
         Stay, LocalsRemain, worldVars, causes
<1>21. ASSUME NEW w \in Walkers, DeleteRoom(w)
      PROVE  InBounds'
  BY <1>21 DEF DeleteRoom, Does, Then, Stands, Unbuilt, Stay, LocalsRemain,
         worldVars, causes
<1>22. ASSUME NEW w \in Walkers, Disconnect(w)
      PROVE  InBounds'
  BY <1>22 DEF Disconnect, Does, Then, Stands, Unbuilt, Stay, LocalsRemain,
         worldVars, causes
<1>23. ASSUME NEW w \in Walkers, Deleted(w)
      PROVE  InBounds'
  BY <1>23 DEF Deleted, Does, Then, Stands, Unbuilt, Stay, LocalsRemain,
         worldVars, causes
<1>24. ASSUME NEW w \in Walkers, NEW z \in Zones, NewZone(w, z)
      PROVE  InBounds'
  BY <1>24 DEF NewZone, Command, Does, Then, Stands, Builds, Unbuilt, Stay,
         LocalsRemain, worldVars, causes
<1>25. ASSUME NEW w \in Walkers, Settles(w)
      PROVE  InBounds'
  <2>1. PICK r \in fresh \cap RoomIds :
           /\ rooms' = rooms \cup {r} /\ fresh' = fresh \ {r}
           /\ zoneOf' = [zoneOf EXCEPT ![r] = there[w]] /\ placeOf' = [placeOf EXCEPT ![r] = 0]
           /\ there' = [there EXCEPT ![w] = r]
    BY <1>25, NewRoomIsFresh DEF Settles
  <2>2. QED BY <1>25, <2>1 DEF Settles, Does, Then, Stay
<1>26. CASE UNCHANGED roomsVars
  BY <1>26 DEF roomsVars, worldVars, walkVars, causes
<1>27. QED BY <1>1, <1>2, <1>3, <1>4, <1>5, <1>6, <1>7, <1>8, <1>9, <1>10,
       <1>11, <1>12, <1>13, <1>14, <1>15, <1>16, <1>17, <1>18, <1>19, <1>20,
       <1>21, <1>22, <1>23, <1>24, <1>25, <1>26
           DEF RoomsNext, Gives, GoesOn

\* Where no room and no zone is made, and no session is about to settle one that
\* was not before, nothing becomes settled.
LEMMA StillUnsettled ==
    ASSUME NewZonesAreEmpty, NEW w \in Walkers, UNCHANGED <<fresh, zoneOf>>,
           \A v \in Walkers \ {w} : doing'[v] = doing[v] /\ there'[v] = there[v],
           doing'[w] # "settle"
    PROVE  NewZonesAreEmpty'
  BY DEF NewZonesAreEmpty

\* Rooms are made in zones that have rooms, and in those about to be settled.
LEMMA NextNewZonesAreEmpty ==
    ASSUME RoomsTypeOK, NothingIsFresh, NewZonesAreEmpty, [RoomsNext]_roomsVars
    PROVE  NewZonesAreEmpty'
<1> USE RoomsAssumption DEF RoomsTypeOK, NothingIsFresh, NewZonesAreEmpty, RoomsAssumption
<1>1. ASSUME NEW w \in Walkers, NEW d \in Directions, Walks(w, d)
      PROVE  NewZonesAreEmpty'
  <2>1. /\ UNCHANGED <<fresh, zoneOf>> /\ doing'[w] # "settle"
        /\ \A v \in Walkers \ {w} : doing'[v] = doing[v] /\ there'[v] = there[v]
    BY <1>1 DEF Walks, Command, Does, Then, Stands, Builds, Unbuilt, Stay,
           LocalsRemain, worldVars, causes
  <2>2. QED BY <2>1, StillUnsettled
<1>2. ASSUME NEW w \in Walkers, NEW d \in Directions, QuickRoom(w, d)
      PROVE  NewZonesAreEmpty'
  <2>1. /\ UNCHANGED <<fresh, zoneOf>> /\ doing'[w] # "settle"
        /\ \A v \in Walkers \ {w} : doing'[v] = doing[v] /\ there'[v] = there[v]
    BY <1>2 DEF QuickRoom, Command, Does, Then, Stands, Builds, Unbuilt, Stay,
           LocalsRemain, worldVars, causes
  <2>2. QED BY <2>1, StillUnsettled
<1>3. ASSUME NEW w \in Walkers, Checks(w)
      PROVE  NewZonesAreEmpty'
  <2>1. /\ UNCHANGED <<fresh, zoneOf>> /\ doing'[w] # "settle"
        /\ \A v \in Walkers \ {w} : doing'[v] = doing[v] /\ there'[v] = there[v]
    BY <1>3 DEF Checks, MayPass, Ends, Does, Then, Stands, Unbuilt, Stay,
           LocalsRemain, worldVars, causes
  <2>2. QED BY <2>1, StillUnsettled
<1>4. ASSUME NEW w \in Walkers, Looks(w)
      PROVE  NewZonesAreEmpty'
  <2>1. /\ UNCHANGED <<fresh, zoneOf>> /\ doing'[w] # "settle"
        /\ \A v \in Walkers \ {w} : doing'[v] = doing[v] /\ there'[v] = there[v]
    BY <1>4 DEF Looks, Goal, RoomsAt, Does, Then, Stands, Unbuilt, Stay,
           LocalsRemain, worldVars, causes
  <2>2. QED BY <2>1, StillUnsettled
<1>5. ASSUME NEW w \in Walkers, Creates(w)
      PROVE  NewZonesAreEmpty'
  <2>1. /\ UNCHANGED <<fresh, zoneOf>> /\ doing'[w] # "settle"
        /\ \A v \in Walkers \ {w} : doing'[v] = doing[v] /\ there'[v] = there[v]
    BY <1>5 DEF Creates, Goal, RoomsAt, Does, Then, Stands, Unbuilt, Stay,
           LocalsRemain, worldVars, causes
  <2>2. QED BY <2>1, StillUnsettled
<1>6. ASSUME NEW w \in Walkers, Makes(w)
      PROVE  NewZonesAreEmpty'
  <2>1. PICK r \in fresh \cap RoomIds :
           /\ rooms' = rooms \cup {r} /\ fresh' = fresh \ {r}
           /\ zoneOf' = [zoneOf EXCEPT ![r] = zoneOf[here[w]]] /\ placeOf' = [placeOf EXCEPT ![r] = Beyond(here[w], way[w])]
           /\ there' = [there EXCEPT ![w] = r]
    BY <1>6, NewRoomIsFresh DEF Makes
  <2>2. QED BY <1>6, <2>1 DEF Makes, Does, Then
<1>7. ASSUME NEW w \in Walkers, Opens(w)
      PROVE  NewZonesAreEmpty'
  <2>1. /\ UNCHANGED <<fresh, zoneOf>> /\ doing'[w] # "settle"
        /\ \A v \in Walkers \ {w} : doing'[v] = doing[v] /\ there'[v] = there[v]
    BY <1>7 DEF Opens, Does, Then, Stands, Unbuilt, Stay, LocalsRemain,
           worldVars, causes
  <2>2. QED BY <2>1, StillUnsettled
<1>8. ASSUME NEW w \in Walkers, EntersRoom(w)
      PROVE  NewZonesAreEmpty'
  <2>1. /\ UNCHANGED <<fresh, zoneOf>> /\ doing'[w] # "settle"
        /\ \A v \in Walkers \ {w} : doing'[v] = doing[v] /\ there'[v] = there[v]
    BY <1>8 DEF EntersRoom, Does, Then, Stands, Unbuilt, Stay, LocalsRemain,
           worldVars, causes
  <2>2. QED BY <2>1, StillUnsettled
<1>9. ASSUME NEW w \in Walkers, Leaves(w)
      PROVE  NewZonesAreEmpty'
  <2>1. /\ UNCHANGED <<fresh, zoneOf>> /\ doing'[w] # "settle"
        /\ \A v \in Walkers \ {w} : doing'[v] = doing[v] /\ there'[v] = there[v]
    BY <1>9 DEF Leaves, Does, Then, Stands, Unbuilt, Stay, LocalsRemain,
           worldVars, causes
  <2>2. QED BY <2>1, StillUnsettled
<1>10. ASSUME NEW w \in Walkers, Prints(w)
      PROVE  NewZonesAreEmpty'
  <2>1. /\ UNCHANGED <<fresh, zoneOf>> /\ doing'[w] # "settle"
        /\ \A v \in Walkers \ {w} : doing'[v] = doing[v] /\ there'[v] = there[v]
    BY <1>10 DEF Prints, Ends, Does, Then, Stands, Unbuilt, Stay, LocalsRemain,
           worldVars, causes
  <2>2. QED BY <2>1, StillUnsettled
<1>11. ASSUME NEW w \in Walkers, ComesBack(w)
      PROVE  NewZonesAreEmpty'
  <2>1. /\ UNCHANGED <<fresh, zoneOf>> /\ doing'[w] # "settle"
        /\ \A v \in Walkers \ {w} : doing'[v] = doing[v] /\ there'[v] = there[v]
    BY <1>11 DEF ComesBack, Does, Then, Stands, Unbuilt, Stay, LocalsRemain,
           worldVars, causes
  <2>2. QED BY <2>1, StillUnsettled
<1>12. ASSUME NEW w \in Walkers, Fails(w) \/ GivesCommandNowhere(w)
      PROVE  NewZonesAreEmpty'
  <2>1. /\ UNCHANGED <<fresh, zoneOf>> /\ doing'[w] # "settle"
        /\ \A v \in Walkers \ {w} : doing'[v] = doing[v] /\ there'[v] = there[v]
    BY <1>12 DEF Fails, GivesCommandNowhere, Panic, Then, Unbuilt, Stay,
           LocalsRemain, worldVars, causes
  <2>2. QED BY <2>1, StillUnsettled
<1>13. ASSUME NEW w \in Walkers, NEW r \in RoomIds, Teleports(w, r)
      PROVE  NewZonesAreEmpty'
  <2>1. /\ UNCHANGED <<fresh, zoneOf>> /\ doing'[w] # "settle"
        /\ \A v \in Walkers \ {w} : doing'[v] = doing[v] /\ there'[v] = there[v]
    BY <1>13 DEF Teleports, Sets, Command, Does, Then, Stands, Builds, Unbuilt,
           Stay, LocalsRemain, worldVars, causes
  <2>2. QED BY <2>1, StillUnsettled
<1>14. ASSUME NEW w \in Walkers, NEW v \in Walkers, Joins(w, v)
      PROVE  NewZonesAreEmpty'
  <2>1. /\ UNCHANGED <<fresh, zoneOf>> /\ doing'[w] # "settle"
        /\ \A u \in Walkers \ {w} : doing'[u] = doing[u] /\ there'[u] = there[u]
    BY <1>14 DEF Joins, Sets, Command, Does, Then, Stands, Builds, Unbuilt, Stay,
           LocalsRemain, worldVars, causes
  <2>2. QED BY <2>1, StillUnsettled
<1>15. ASSUME NEW w \in Walkers, NEW v \in Walkers, Brings(w, v)
      PROVE  NewZonesAreEmpty'
  <2>1. /\ UNCHANGED <<fresh, zoneOf>> /\ doing'[w] # "settle"
        /\ \A u \in Walkers \ {w} : doing'[u] = doing[u] /\ there'[u] = there[u]
    BY <1>15 DEF Brings, Sets, Command, Does, Then, Stands, Builds, Unbuilt, Stay,
           LocalsRemain, worldVars, causes
  <2>2. QED BY <2>1, StillUnsettled
<1>16. ASSUME NEW w \in Walkers, NEW d \in Directions, Toggles(w, d)
      PROVE  NewZonesAreEmpty'
  <2>1. /\ UNCHANGED <<fresh, zoneOf>> /\ doing'[w] # "settle"
        /\ \A v \in Walkers \ {w} : doing'[v] = doing[v] /\ there'[v] = there[v]
    BY <1>16 DEF Toggles, Command, Does, Then, Stands, Builds, Unbuilt, Stay,
           LocalsRemain, worldVars, causes
  <2>2. QED BY <2>1, StillUnsettled
<1>17. ASSUME NEW w \in Walkers, ThisSide(w)
      PROVE  NewZonesAreEmpty'
  <2>1. /\ UNCHANGED <<fresh, zoneOf>> /\ doing'[w] # "settle"
        /\ \A v \in Walkers \ {w} : doing'[v] = doing[v] /\ there'[v] = there[v]
    BY <1>17 DEF ThisSide, Switch, Does, Then, Stands, Unbuilt, Stay,
           LocalsRemain, worldVars, causes
  <2>2. QED BY <2>1, StillUnsettled
<1>18. ASSUME NEW w \in Walkers, OtherSide(w)
      PROVE  NewZonesAreEmpty'
  <2>1. /\ UNCHANGED <<fresh, zoneOf>> /\ doing'[w] # "settle"
        /\ \A v \in Walkers \ {w} : doing'[v] = doing[v] /\ there'[v] = there[v]
    BY <1>18 DEF OtherSide, Switch, Goal, RoomsAt, Does, Then, Stands, Unbuilt,
           Stay, LocalsRemain, worldVars, causes
  <2>2. QED BY <2>1, StillUnsettled
<1>19. ASSUME NEW w \in Walkers, NEW d \in Directions, Destroy(w, d)
      PROVE  NewZonesAreEmpty'
  <2>1. /\ UNCHANGED <<fresh, zoneOf>> /\ doing'[w] # "settle"
        /\ \A v \in Walkers \ {w} : doing'[v] = doing[v] /\ there'[v] = there[v]
    BY <1>19 DEF Destroy, Dooms, RoomsAt, Command, Does, Then, Stands, Builds,
           Unbuilt, Stay, LocalsRemain, worldVars, causes
  <2>2. QED BY <2>1, StillUnsettled
<1>20. ASSUME NEW w \in Walkers, NEW z \in Zones, DeleteZone(w, z)
      PROVE  NewZonesAreEmpty'
  <2>1. /\ UNCHANGED <<fresh, zoneOf>> /\ doing'[w] # "settle"
        /\ \A v \in Walkers \ {w} : doing'[v] = doing[v] /\ there'[v] = there[v]
    BY <1>20 DEF DeleteZone, Dooms, Command, Does, Then, Stands, Builds, Unbuilt,
           Stay, LocalsRemain, worldVars, causes
  <2>2. QED BY <2>1, StillUnsettled
<1>21. ASSUME NEW w \in Walkers, DeleteRoom(w)
      PROVE  NewZonesAreEmpty'
  <2>1. /\ UNCHANGED <<fresh, zoneOf>> /\ doing'[w] # "settle"
        /\ \A v \in Walkers \ {w} : doing'[v] = doing[v] /\ there'[v] = there[v]
    BY <1>21 DEF DeleteRoom, Does, Then, Stands, Unbuilt, Stay, LocalsRemain,
           worldVars, causes
  <2>2. QED BY <2>1, StillUnsettled
<1>22. ASSUME NEW w \in Walkers, Disconnect(w)
      PROVE  NewZonesAreEmpty'
  <2>1. /\ UNCHANGED <<fresh, zoneOf>> /\ doing'[w] # "settle"
        /\ \A v \in Walkers \ {w} : doing'[v] = doing[v] /\ there'[v] = there[v]
    BY <1>22 DEF Disconnect, Does, Then, Stands, Unbuilt, Stay, LocalsRemain,
           worldVars, causes
  <2>2. QED BY <2>1, StillUnsettled
<1>23. ASSUME NEW w \in Walkers, Deleted(w)
      PROVE  NewZonesAreEmpty'
  <2>1. /\ UNCHANGED <<fresh, zoneOf>> /\ doing'[w] # "settle"
        /\ \A v \in Walkers \ {w} : doing'[v] = doing[v] /\ there'[v] = there[v]
    BY <1>23 DEF Deleted, Does, Then, Stands, Unbuilt, Stay, LocalsRemain,
           worldVars, causes
  <2>2. QED BY <2>1, StillUnsettled
<1>24. ASSUME NEW w \in Walkers, NEW z \in Zones, NewZone(w, z)
      PROVE  NewZonesAreEmpty'
  BY <1>24 DEF NewZone, Command, Does, Then, Stands, Builds, Unbuilt, Stay,
         LocalsRemain, worldVars, causes
<1>25. ASSUME NEW w \in Walkers, Settles(w)
      PROVE  NewZonesAreEmpty'
  <2>1. PICK r \in fresh \cap RoomIds :
           /\ rooms' = rooms \cup {r} /\ fresh' = fresh \ {r}
           /\ zoneOf' = [zoneOf EXCEPT ![r] = there[w]] /\ placeOf' = [placeOf EXCEPT ![r] = 0]
           /\ there' = [there EXCEPT ![w] = r]
    BY <1>25, NewRoomIsFresh DEF Settles
  <2>2. QED BY <1>25, <2>1 DEF Settles, Does, Then, Stay
<1>26. CASE UNCHANGED roomsVars
  BY <1>26 DEF roomsVars, worldVars, walkVars, causes
<1>27. QED BY <1>1, <1>2, <1>3, <1>4, <1>5, <1>6, <1>7, <1>8, <1>9, <1>10,
       <1>11, <1>12, <1>13, <1>14, <1>15, <1>16, <1>17, <1>18, <1>19, <1>20,
       <1>21, <1>22, <1>23, <1>24, <1>25, <1>26
           DEF RoomsNext, Gives, GoesOn

\* A room made elsewhere takes no site, and one made on it is remembered.
LEMMA NextSitesAreVacant ==
    ASSUME RoomsTypeOK, NothingIsFresh, NewZonesAreEmpty, SitesAreVacant, [RoomsNext]_roomsVars
    PROVE  SitesAreVacant'
<1> USE DEF RoomsTypeOK, NothingIsFresh, SitesAreVacant, Goal, RoomsAt, Beyond
<1>1. ASSUME NEW w \in Walkers, NEW d \in Directions, Walks(w, d)
      PROVE  SitesAreVacant'
  BY <1>1 DEF Walks, Command, Does, Then, Stands, Builds, Unbuilt, Stay,
         LocalsRemain, worldVars, causes
<1>2. ASSUME NEW w \in Walkers, NEW d \in Directions, QuickRoom(w, d)
      PROVE  SitesAreVacant'
  BY <1>2 DEF QuickRoom, Command, Does, Then, Stands, Builds, Unbuilt, Stay,
         LocalsRemain, worldVars, causes
<1>3. ASSUME NEW w \in Walkers, Checks(w)
      PROVE  SitesAreVacant'
  BY <1>3 DEF Checks, MayPass, Ends, Does, Then, Stands, Unbuilt, Stay,
         LocalsRemain, worldVars, causes
<1>4. ASSUME NEW w \in Walkers, Looks(w)
      PROVE  SitesAreVacant'
  BY <1>4 DEF Looks, Goal, RoomsAt, Does, Then, Stands, Unbuilt, Stay,
         LocalsRemain, worldVars, causes
<1>5. ASSUME NEW w \in Walkers, Creates(w)
      PROVE  SitesAreVacant'
  BY <1>5 DEF Creates, Goal, RoomsAt, Does, Then, Stands, Unbuilt, Stay,
         LocalsRemain, worldVars, causes
<1>6. ASSUME NEW w \in Walkers, Makes(w)
      PROVE  SitesAreVacant'
  <2>1. PICK r \in fresh \cap RoomIds :
           /\ rooms' = rooms \cup {r} /\ fresh' = fresh \ {r}
           /\ zoneOf' = [zoneOf EXCEPT ![r] = zoneOf[here[w]]] /\ placeOf' = [placeOf EXCEPT ![r] = Beyond(here[w], way[w])]
           /\ there' = [there EXCEPT ![w] = r]
    BY <1>6, NewRoomIsFresh DEF Makes
  <2>2. /\ UNCHANGED <<here, way>> /\ doing' = [doing EXCEPT ![w] = "open"]
        /\ crossed' = (crossed \/ \E v \in Walkers \ {w} :
                           /\ doing[v] \in {"create", "make"}
                           /\ zoneOf[here[v]] = zoneOf[here[w]]
                           /\ Beyond(here[v], way[v]) = Beyond(here[w], way[w]))
    BY <1>6 DEF Makes, Then
  <2>3. SUFFICES ASSUME ~crossed', NEW v \in Walkers, doing'[v] = "make"
                 PROVE  Goal(v)' = {}
    OBVIOUS
  <2>4. v # w /\ doing[v] = "make" /\ ~crossed
    BY <2>2, <2>3
  <2>5. /\ zoneOf'[here[v]] = zoneOf[here[v]] /\ placeOf'[here[v]] = placeOf[here[v]]
        /\ here'[v] = here[v] /\ way'[v] = way[v]
    BY <2>1, <2>2
  <2>6. ~(zoneOf[here[v]] = zoneOf[here[w]] /\ Beyond(here[v], way[v]) = Beyond(here[w], way[w]))
    BY <2>2, <2>3, <2>4
  <2>7. Goal(v) = {}
    BY <2>4
  <2>8. \A s \in rooms : zoneOf'[s] = zoneOf[s] /\ placeOf'[s] = placeOf[s]
    BY <2>1
  <2>9. zoneOf'[r] = zoneOf[here[w]] /\ placeOf'[r] = Beyond(here[w], way[w])
    BY <2>1
  <2>10. QED BY <2>1, <2>5, <2>6, <2>7, <2>8, <2>9
<1>7. ASSUME NEW w \in Walkers, Opens(w)
      PROVE  SitesAreVacant'
  BY <1>7 DEF Opens, Does, Then, Stands, Unbuilt, Stay, LocalsRemain,
         worldVars, causes
<1>8. ASSUME NEW w \in Walkers, EntersRoom(w)
      PROVE  SitesAreVacant'
  BY <1>8 DEF EntersRoom, Does, Then, Stands, Unbuilt, Stay, LocalsRemain,
         worldVars, causes
<1>9. ASSUME NEW w \in Walkers, Leaves(w)
      PROVE  SitesAreVacant'
  BY <1>9 DEF Leaves, Does, Then, Stands, Unbuilt, Stay, LocalsRemain,
         worldVars, causes
<1>10. ASSUME NEW w \in Walkers, Prints(w)
      PROVE  SitesAreVacant'
  BY <1>10 DEF Prints, Ends, Does, Then, Stands, Unbuilt, Stay, LocalsRemain,
         worldVars, causes
<1>11. ASSUME NEW w \in Walkers, ComesBack(w)
      PROVE  SitesAreVacant'
  BY <1>11 DEF ComesBack, Does, Then, Stands, Unbuilt, Stay, LocalsRemain,
         worldVars, causes
<1>12. ASSUME NEW w \in Walkers, Fails(w) \/ GivesCommandNowhere(w)
      PROVE  SitesAreVacant'
  BY <1>12 DEF Fails, GivesCommandNowhere, Panic, Then, Unbuilt, Stay,
         LocalsRemain, worldVars, causes
<1>13. ASSUME NEW w \in Walkers, NEW r \in RoomIds, Teleports(w, r)
      PROVE  SitesAreVacant'
  BY <1>13 DEF Teleports, Sets, Command, Does, Then, Stands, Builds, Unbuilt,
         Stay, LocalsRemain, worldVars, causes
<1>14. ASSUME NEW w \in Walkers, NEW v \in Walkers, Joins(w, v)
      PROVE  SitesAreVacant'
  BY <1>14 DEF Joins, Sets, Command, Does, Then, Stands, Builds, Unbuilt, Stay,
         LocalsRemain, worldVars, causes
<1>15. ASSUME NEW w \in Walkers, NEW v \in Walkers, Brings(w, v)
      PROVE  SitesAreVacant'
  BY <1>15 DEF Brings, Sets, Command, Does, Then, Stands, Builds, Unbuilt,
         Stay, LocalsRemain, worldVars, causes
<1>16. ASSUME NEW w \in Walkers, NEW d \in Directions, Toggles(w, d)
      PROVE  SitesAreVacant'
  BY <1>16 DEF Toggles, Command, Does, Then, Stands, Builds, Unbuilt, Stay,
         LocalsRemain, worldVars, causes
<1>17. ASSUME NEW w \in Walkers, ThisSide(w)
      PROVE  SitesAreVacant'
  BY <1>17 DEF ThisSide, Switch, Does, Then, Stands, Unbuilt, Stay,
         LocalsRemain, worldVars, causes
<1>18. ASSUME NEW w \in Walkers, OtherSide(w)
      PROVE  SitesAreVacant'
  BY <1>18 DEF OtherSide, Switch, Goal, RoomsAt, Does, Then, Stands, Unbuilt,
         Stay, LocalsRemain, worldVars, causes
<1>19. ASSUME NEW w \in Walkers, NEW d \in Directions, Destroy(w, d)
      PROVE  SitesAreVacant'
  BY <1>19 DEF Destroy, Dooms, RoomsAt, Command, Does, Then, Stands, Builds,
         Unbuilt, Stay, LocalsRemain, worldVars, causes
<1>20. ASSUME NEW w \in Walkers, NEW z \in Zones, DeleteZone(w, z)
      PROVE  SitesAreVacant'
  BY <1>20 DEF DeleteZone, Dooms, Command, Does, Then, Stands, Builds, Unbuilt,
         Stay, LocalsRemain, worldVars, causes
<1>21. ASSUME NEW w \in Walkers, DeleteRoom(w)
      PROVE  SitesAreVacant'
  BY <1>21 DEF DeleteRoom, Does, Then, Stands, Unbuilt, Stay, LocalsRemain,
         worldVars, causes
<1>22. ASSUME NEW w \in Walkers, Disconnect(w)
      PROVE  SitesAreVacant'
  BY <1>22 DEF Disconnect, Does, Then, Stands, Unbuilt, Stay, LocalsRemain,
         worldVars, causes
<1>23. ASSUME NEW w \in Walkers, Deleted(w)
      PROVE  SitesAreVacant'
  BY <1>23 DEF Deleted, Does, Then, Stands, Unbuilt, Stay, LocalsRemain,
         worldVars, causes
<1>24. ASSUME NEW w \in Walkers, NEW z \in Zones, NewZone(w, z)
      PROVE  SitesAreVacant'
  BY <1>24 DEF NewZone, Command, Does, Then, Stands, Builds, Unbuilt, Stay,
         LocalsRemain, worldVars, causes
<1>25. ASSUME NEW w \in Walkers, Settles(w)
      PROVE  SitesAreVacant'
  <2>1. PICK r \in fresh \cap RoomIds :
           /\ rooms' = rooms \cup {r} /\ fresh' = fresh \ {r}
           /\ zoneOf' = [zoneOf EXCEPT ![r] = there[w]] /\ placeOf' = [placeOf EXCEPT ![r] = 0]
           /\ there' = [there EXCEPT ![w] = r]
    BY <1>25, NewRoomIsFresh DEF Settles
  <2>2. QED BY <1>25, <2>1 DEF Settles, Does, Then, Stay, causes, NewZonesAreEmpty
<1>26. CASE UNCHANGED roomsVars
  BY <1>26 DEF roomsVars, worldVars, walkVars, causes
<1>27. QED BY <1>1, <1>2, <1>3, <1>4, <1>5, <1>6, <1>7, <1>8, <1>9, <1>10,
       <1>11, <1>12, <1>13, <1>14, <1>15, <1>16, <1>17, <1>18, <1>19, <1>20,
       <1>21, <1>22, <1>23, <1>24, <1>25, <1>26
           DEF RoomsNext, Gives, GoesOn

\* A room is made on a vacant site, or in a zone without rooms.
LEMMA NextOneRoom ==
    ASSUME RoomsTypeOK, NothingIsFresh, NewZonesAreEmpty, SitesAreVacant, OneRoomPerPlace, [RoomsNext]_roomsVars
    PROVE  OneRoomPerPlace'
<1> USE DEF RoomsTypeOK, NothingIsFresh, OneRoomPerPlace
<1>1. ASSUME NEW w \in Walkers, NEW d \in Directions, Walks(w, d)
      PROVE  OneRoomPerPlace'
  BY <1>1 DEF Walks, Command, Does, Then, Stands, Builds, Unbuilt, Stay,
         LocalsRemain, worldVars, causes
<1>2. ASSUME NEW w \in Walkers, NEW d \in Directions, QuickRoom(w, d)
      PROVE  OneRoomPerPlace'
  BY <1>2 DEF QuickRoom, Command, Does, Then, Stands, Builds, Unbuilt, Stay,
         LocalsRemain, worldVars, causes
<1>3. ASSUME NEW w \in Walkers, Checks(w)
      PROVE  OneRoomPerPlace'
  BY <1>3 DEF Checks, MayPass, Ends, Does, Then, Stands, Unbuilt, Stay,
         LocalsRemain, worldVars, causes
<1>4. ASSUME NEW w \in Walkers, Looks(w)
      PROVE  OneRoomPerPlace'
  BY <1>4 DEF Looks, Goal, RoomsAt, Does, Then, Stands, Unbuilt, Stay,
         LocalsRemain, worldVars, causes
<1>5. ASSUME NEW w \in Walkers, Creates(w)
      PROVE  OneRoomPerPlace'
  BY <1>5 DEF Creates, Goal, RoomsAt, Does, Then, Stands, Unbuilt, Stay,
         LocalsRemain, worldVars, causes
<1>6. ASSUME NEW w \in Walkers, Makes(w)
      PROVE  OneRoomPerPlace'
  <2>1. PICK r \in fresh \cap RoomIds :
           /\ rooms' = rooms \cup {r} /\ fresh' = fresh \ {r}
           /\ zoneOf' = [zoneOf EXCEPT ![r] = zoneOf[here[w]]] /\ placeOf' = [placeOf EXCEPT ![r] = Beyond(here[w], way[w])]
           /\ there' = [there EXCEPT ![w] = r]
    BY <1>6, NewRoomIsFresh DEF Makes
  <2>2. QED BY <1>6, <2>1 DEF Makes, Does, SitesAreVacant, Goal, RoomsAt
<1>7. ASSUME NEW w \in Walkers, Opens(w)
      PROVE  OneRoomPerPlace'
  BY <1>7 DEF Opens, Does, Then, Stands, Unbuilt, Stay, LocalsRemain,
         worldVars, causes
<1>8. ASSUME NEW w \in Walkers, EntersRoom(w)
      PROVE  OneRoomPerPlace'
  BY <1>8 DEF EntersRoom, Does, Then, Stands, Unbuilt, Stay, LocalsRemain,
         worldVars, causes
<1>9. ASSUME NEW w \in Walkers, Leaves(w)
      PROVE  OneRoomPerPlace'
  BY <1>9 DEF Leaves, Does, Then, Stands, Unbuilt, Stay, LocalsRemain,
         worldVars, causes
<1>10. ASSUME NEW w \in Walkers, Prints(w)
      PROVE  OneRoomPerPlace'
  BY <1>10 DEF Prints, Ends, Does, Then, Stands, Unbuilt, Stay, LocalsRemain,
         worldVars, causes
<1>11. ASSUME NEW w \in Walkers, ComesBack(w)
      PROVE  OneRoomPerPlace'
  BY <1>11 DEF ComesBack, Does, Then, Stands, Unbuilt, Stay, LocalsRemain,
         worldVars, causes
<1>12. ASSUME NEW w \in Walkers, Fails(w) \/ GivesCommandNowhere(w)
      PROVE  OneRoomPerPlace'
  BY <1>12 DEF Fails, GivesCommandNowhere, Panic, Then, Unbuilt, Stay,
         LocalsRemain, worldVars, causes
<1>13. ASSUME NEW w \in Walkers, NEW r \in RoomIds, Teleports(w, r)
      PROVE  OneRoomPerPlace'
  BY <1>13 DEF Teleports, Sets, Command, Does, Then, Stands, Builds, Unbuilt,
         Stay, LocalsRemain, worldVars, causes
<1>14. ASSUME NEW w \in Walkers, NEW v \in Walkers, Joins(w, v)
      PROVE  OneRoomPerPlace'
  BY <1>14 DEF Joins, Sets, Command, Does, Then, Stands, Builds, Unbuilt, Stay,
         LocalsRemain, worldVars, causes
<1>15. ASSUME NEW w \in Walkers, NEW v \in Walkers, Brings(w, v)
      PROVE  OneRoomPerPlace'
  BY <1>15 DEF Brings, Sets, Command, Does, Then, Stands, Builds, Unbuilt,
         Stay, LocalsRemain, worldVars, causes
<1>16. ASSUME NEW w \in Walkers, NEW d \in Directions, Toggles(w, d)
      PROVE  OneRoomPerPlace'
  BY <1>16 DEF Toggles, Command, Does, Then, Stands, Builds, Unbuilt, Stay,
         LocalsRemain, worldVars, causes
<1>17. ASSUME NEW w \in Walkers, ThisSide(w)
      PROVE  OneRoomPerPlace'
  BY <1>17 DEF ThisSide, Switch, Does, Then, Stands, Unbuilt, Stay,
         LocalsRemain, worldVars, causes
<1>18. ASSUME NEW w \in Walkers, OtherSide(w)
      PROVE  OneRoomPerPlace'
  BY <1>18 DEF OtherSide, Switch, Goal, RoomsAt, Does, Then, Stands, Unbuilt,
         Stay, LocalsRemain, worldVars, causes
<1>19. ASSUME NEW w \in Walkers, NEW d \in Directions, Destroy(w, d)
      PROVE  OneRoomPerPlace'
  BY <1>19 DEF Destroy, Dooms, RoomsAt, Command, Does, Then, Stands, Builds,
         Unbuilt, Stay, LocalsRemain, worldVars, causes
<1>20. ASSUME NEW w \in Walkers, NEW z \in Zones, DeleteZone(w, z)
      PROVE  OneRoomPerPlace'
  BY <1>20 DEF DeleteZone, Dooms, Command, Does, Then, Stands, Builds, Unbuilt,
         Stay, LocalsRemain, worldVars, causes
<1>21. ASSUME NEW w \in Walkers, DeleteRoom(w)
      PROVE  OneRoomPerPlace'
  BY <1>21 DEF DeleteRoom, Does, Then, Stands, Unbuilt, Stay, LocalsRemain,
         worldVars, causes
<1>22. ASSUME NEW w \in Walkers, Disconnect(w)
      PROVE  OneRoomPerPlace'
  BY <1>22 DEF Disconnect, Does, Then, Stands, Unbuilt, Stay, LocalsRemain,
         worldVars, causes
<1>23. ASSUME NEW w \in Walkers, Deleted(w)
      PROVE  OneRoomPerPlace'
  BY <1>23 DEF Deleted, Does, Then, Stands, Unbuilt, Stay, LocalsRemain,
         worldVars, causes
<1>24. ASSUME NEW w \in Walkers, NEW z \in Zones, NewZone(w, z)
      PROVE  OneRoomPerPlace'
  BY <1>24 DEF NewZone, Command, Does, Then, Stands, Builds, Unbuilt, Stay,
         LocalsRemain, worldVars, causes
<1>25. ASSUME NEW w \in Walkers, Settles(w)
      PROVE  OneRoomPerPlace'
  <2>1. PICK r \in fresh \cap RoomIds :
           /\ rooms' = rooms \cup {r} /\ fresh' = fresh \ {r}
           /\ zoneOf' = [zoneOf EXCEPT ![r] = there[w]] /\ placeOf' = [placeOf EXCEPT ![r] = 0]
           /\ there' = [there EXCEPT ![w] = r]
    BY <1>25, NewRoomIsFresh DEF Settles
  <2>2. QED BY <1>25, <2>1 DEF Settles, Does, Stay, causes, NewZonesAreEmpty
<1>26. CASE UNCHANGED roomsVars
  BY <1>26 DEF roomsVars, worldVars, walkVars, causes
<1>27. QED BY <1>1, <1>2, <1>3, <1>4, <1>5, <1>6, <1>7, <1>8, <1>9, <1>10,
       <1>11, <1>12, <1>13, <1>14, <1>15, <1>16, <1>17, <1>18, <1>19, <1>20,
       <1>21, <1>22, <1>23, <1>24, <1>25, <1>26
           DEF RoomsNext, Gives, GoesOn

\* The invariant holds in the first room.
LEMMA InitRoomsInv == RoomsInit => RoomsInv
<1> SUFFICES ASSUME RoomsInit PROVE RoomsInv
    OBVIOUS
<1> USE RoomsAssumption DEF RoomsAssumption
<1>1. FirstRoom \in RoomIds /\ FirstZone \in Zones
  BY DEF FirstRoom, FirstZone
<1>2. RoomsTypeOK
  <2>1. /\ rooms \subseteq RoomIds /\ zones \subseteq Zones /\ fresh \subseteq RoomIds \cup Zones
        /\ zoneOf \in [RoomIds -> Zones] /\ placeOf \in [RoomIds -> Places]
        /\ exits \in [RoomIds -> SUBSET Directions] /\ inside \in [Walkers -> RoomIds]
    BY <1>1 DEF RoomsInit, Directions
  <2>2. /\ doing \in [Walkers -> Activities]
        /\ here \in [Walkers -> RoomIds] /\ there \in [Walkers -> RoomIds \cup Zones \cup {Nowhere}]
        /\ way \in [Walkers -> Directions] /\ mover \in [Walkers -> Walkers]
        /\ flag \in [Walkers -> BOOLEAN]
        /\ doomed \in [Walkers -> SUBSET RoomIds] /\ doomedZone \in [Walkers -> Zones \cup {Nowhere}]
    BY <1>1 DEF RoomsInit, Activities, Directions
  <2>3. commands \in [Walkers -> 0..MaxCommands]
    BY DEF RoomsInit
  <2>4. destroyed \in BOOLEAN /\ toggled \in BOOLEAN /\ crossed \in BOOLEAN
    BY DEF RoomsInit
  <2>5. QED BY <2>1, <2>2, <2>3, <2>4 DEF RoomsTypeOK
<1>3. NothingIsFresh /\ InBounds /\ NewZonesAreEmpty
  BY <1>1 DEF RoomsInit, NothingIsFresh, InBounds, NewZonesAreEmpty
<1>4. SitesAreVacant /\ OneRoomPerPlace
  BY DEF RoomsInit, SitesAreVacant, OneRoomPerPlace
<1>5. QED BY <1>2, <1>3, <1>4 DEF RoomsInv

\* The rooms keep the invariant, in every behaviour.
THEOREM RoomsInvariant == RoomsSpec => []RoomsInv
<1>1. RoomsInv /\ [RoomsNext]_roomsVars => RoomsInv'
  BY NextRoomsTypes, NextNothingIsFresh, NextInBounds, NextNewZonesAreEmpty,
     NextSitesAreVacant, NextOneRoom DEF RoomsInv
<1>2. QED BY <1>1, InitRoomsInv, PTL DEF RoomsSpec

\* The variables keep their types; among others, nobody makes a room beyond the row.
THEOREM RoomsTypes == RoomsSpec => []RoomsTypeOK
  BY RoomsInvariant, PTL DEF RoomsInv

\* As long as no two sessions make a room at one place at a time, every place
\* has one room, whoever walks, builds, deletes and founds zones.
THEOREM PlacesHaveOneRoom == RoomsSpec => []OneRoomPerPlace
  BY RoomsInvariant, PTL DEF RoomsInv

-----------------------------------------------------------------------------
(* Rooms: the way back                                                     *)

\* Until something is deleted every room that was made is there, the first in
\* the first zone.
AllRoomsRemain ==
    /\ FirstRoom \notin fresh /\ zoneOf[FirstRoom] = FirstZone
    /\ ~destroyed => RoomIds \ fresh \subseteq rooms

\* What a session is doing tells what has happened: an exit was switched, a room
\* deleted, or made next to the one it was made from.
Traces ==
    \A w \in Walkers :
        /\ doing[w] = "otherSide" => toggled
        /\ doing[w] = "disconnect" => destroyed
        /\ doing[w] = "open" =>
              /\ zoneOf[there[w]] = zoneOf[here[w]]
              /\ placeOf[there[w]] = placeOf[here[w]] + Step[way[w]]

\* Where r leads, or will lead when its walker has opened its exit.
Ways(r) == Neighbours(r) \cup {here[w] : w \in {v \in Walkers : doing[v] = "open" /\ there[v] = r}}

\* No rooms of the first zone are a trap: a way leads out of any that leave the
\* first room out.  Other than WayBack this says so while exits are being opened.
NoTrap ==
    ~destroyed /\ ~toggled =>
        \A S \in SUBSET {r \in rooms : zoneOf[r] = FirstZone} :
            S # {} /\ FirstRoom \notin S => \E r \in S : ~(Ways(r) \subseteq S)

TrailInv == AllRoomsRemain /\ Traces /\ NoTrap

\* A step that makes no room and opens no new one: it tells of the exits and
\* rooms it takes away, and leaves those alone who are about to open an exit.
Quiet ==
    /\ zoneOf' = zoneOf /\ placeOf' = placeOf
    /\ fresh' \cap RoomIds = fresh \cap RoomIds
    /\ (destroyed => destroyed') /\ (toggled => toggled')
    /\ ~destroyed' => rooms' = rooms
    /\ ~destroyed' /\ ~toggled' => \A r \in RoomIds : exits[r] \subseteq exits'[r]
    /\ \A v \in Walkers :
          /\ (doing[v] = "open" \/ doing'[v] = "open") =>
                /\ doing'[v] = doing[v] /\ here'[v] = here[v]
                /\ there'[v] = there[v] /\ way'[v] = way[v]
          /\ doing[v] # "otherSide" /\ doing'[v] = "otherSide" => toggled'
          /\ doing[v] # "disconnect" /\ doing'[v] = "disconnect" => destroyed'

\* A step to the east and one to the west is none.
LEMMA ThereAndBack ==
    ASSUME NEW d \in Directions, NEW p \in Int
    PROVE  /\ Step[d] \in Int
           /\ p + Step[d] + Step[Opposite(d)] = p
<1>1. CASE d = "west"
  <2>1. Opposite(d) = "east"
    BY <1>1 DEF Opposite, Directions
  <2>2. Step[d] = -1 /\ Step[Opposite(d)] = 1
    BY <1>1, <2>1 DEF Step
  <2>3. QED BY <2>2
<1>2. CASE d = "east"
  <2>1. Opposite(d) = "west"
    BY <1>2 DEF Opposite, Directions
  <2>2. Step[d] = 1 /\ Step[Opposite(d)] = -1
    BY <1>2, <2>1 DEF Step
  <2>3. QED BY <2>2
<1>3. QED BY <1>1, <1>2 DEF Directions

\* Who can be reached from r, spelled out.
LEMMA NeighbourIs ==
    ASSUME NEW r, NEW x
    PROVE  x \in Neighbours(r) <=>
              /\ x \in rooms /\ zoneOf[x] = zoneOf[r]
              /\ \E d \in exits[r] : placeOf[x] = placeOf[r] + Step[d]
  BY DEF Neighbours, RoomsAt, Beyond

\* A room leads where it led, if its exits stay and the rooms around it.
LEMMA NeighboursGrow ==
    ASSUME NEW r \in rooms, rooms \subseteq rooms', exits[r] \subseteq exits'[r],
           \A x \in rooms : zoneOf'[x] = zoneOf[x] /\ placeOf'[x] = placeOf[x]
    PROVE  Neighbours(r) \subseteq Neighbours(r)'
<1> SUFFICES ASSUME NEW x \in Neighbours(r) PROVE x \in Neighbours(r)'
    OBVIOUS
<1>1. PICK d \in exits[r] : x \in RoomsAt(zoneOf[r], Beyond(r, d))
  BY DEF Neighbours
<1>2. /\ x \in rooms /\ zoneOf[x] = zoneOf[r]
      /\ placeOf[x] = placeOf[r] + Step[d]
  BY <1>1 DEF RoomsAt, Beyond
<1>3. d \in exits'[r] /\ x \in RoomsAt(zoneOf[r], Beyond(r, d))'
  BY <1>1, <1>2 DEF RoomsAt, Beyond
<1>4. QED BY <1>3 DEF Neighbours

\* A quiet step traps nobody.
LEMMA QuietTrail ==
    ASSUME RoomsTypeOK, TrailInv, Quiet
    PROVE  TrailInv'
<1> USE RoomsAssumption DEF RoomsAssumption
<1>1. FirstRoom \in RoomIds
  BY DEF FirstRoom
<1>2. AllRoomsRemain'
  BY <1>1 DEF TrailInv, AllRoomsRemain, Quiet
<1>3. Traces'
  <2> SUFFICES ASSUME NEW w \in Walkers
               PROVE  /\ doing'[w] = "otherSide" => toggled'
                      /\ doing'[w] = "disconnect" => destroyed'
                      /\ doing'[w] = "open" =>
                            /\ zoneOf'[there'[w]] = zoneOf'[here'[w]]
                            /\ placeOf'[there'[w]] = placeOf'[here'[w]] + Step[way'[w]]
    BY DEF Traces
  <2>1. QED BY DEF TrailInv, Traces, Quiet
<1>4. NoTrap'
  <2> SUFFICES ASSUME ~destroyed', ~toggled',
                      NEW S \in SUBSET {r \in rooms' : zoneOf'[r] = FirstZone},
                      S # {}, FirstRoom \notin S
               PROVE  \E r \in S : ~(Ways(r)' \subseteq S)
    BY DEF NoTrap
  <2>1. rooms' = rooms /\ zoneOf' = zoneOf /\ placeOf' = placeOf /\ ~destroyed /\ ~toggled
    BY DEF Quiet
  <2>2. PICK r \in S : ~(Ways(r) \subseteq S)
    BY <2>1 DEF TrailInv, NoTrap
  <2>3. r \in rooms /\ r \in RoomIds
    BY <2>1 DEF RoomsTypeOK
  <2>4. Neighbours(r) \subseteq Neighbours(r)'
    BY <2>1, <2>3, NeighboursGrow DEF Quiet
  <2>5. {here[w] : w \in {v \in Walkers : doing[v] = "open" /\ there[v] = r}}
        \subseteq {here'[w] : w \in {v \in Walkers : doing'[v] = "open" /\ there'[v] = r}}
    BY DEF Quiet
  <2>6. Ways(r) \subseteq Ways(r)'
    BY <2>4, <2>5 DEF Ways
  <2>7. QED BY <2>2, <2>6
<1>5. QED BY <1>2, <1>3, <1>4 DEF TrailInv

\* Every step is quiet but those that make a room or open an exit.
LEMMA MostStepsAreQuiet ==
    ASSUME RoomsTypeOK, NothingIsFresh, TrailInv, [RoomsNext]_roomsVars,
           \A w \in Walkers : ~(Makes(w) \/ Opens(w) \/ Settles(w))
    PROVE  Quiet
<1> USE RoomsAssumption DEF RoomsTypeOK, NothingIsFresh, RoomsAssumption, Quiet
<1>1. ASSUME NEW w \in Walkers, NEW d \in Directions, Walks(w, d)
      PROVE  Quiet
  BY <1>1 DEF Walks, Command, Does, Then, Stands, Builds, Unbuilt, Stay,
         LocalsRemain, worldVars, causes
<1>2. ASSUME NEW w \in Walkers, NEW d \in Directions, QuickRoom(w, d)
      PROVE  Quiet
  BY <1>2 DEF QuickRoom, Command, Does, Then, Stands, Builds, Unbuilt, Stay,
         LocalsRemain, worldVars, causes
<1>3. ASSUME NEW w \in Walkers, Checks(w)
      PROVE  Quiet
  BY <1>3 DEF Checks, MayPass, Ends, Does, Then, Stands, Builds, Unbuilt, Stay,
         LocalsRemain, worldVars, causes
<1>4. ASSUME NEW w \in Walkers, Looks(w)
      PROVE  Quiet
  BY <1>4 DEF Looks, Goal, RoomsAt, Does, Then, Stands, Builds, Unbuilt, Stay,
         LocalsRemain, worldVars, causes
<1>5. ASSUME NEW w \in Walkers, Creates(w)
      PROVE  Quiet
  BY <1>5 DEF Creates, Does, Then, Stands, Builds, Unbuilt, Stay,
         LocalsRemain, worldVars, causes
<1>6. ASSUME NEW w \in Walkers, EntersRoom(w)
      PROVE  Quiet
  BY <1>6 DEF EntersRoom, Does, Then, Stands, Builds, Unbuilt, Stay,
         LocalsRemain, worldVars, causes
<1>7. ASSUME NEW w \in Walkers, Leaves(w)
      PROVE  Quiet
  BY <1>7 DEF Leaves, Does, Then, Stands, Builds, Unbuilt, Stay,
         LocalsRemain, worldVars, causes
<1>8. ASSUME NEW w \in Walkers, Prints(w)
      PROVE  Quiet
  BY <1>8 DEF Prints, Ends, Does, Then, Stands, Builds, Unbuilt, Stay,
         LocalsRemain, worldVars, causes
<1>9. ASSUME NEW w \in Walkers, ComesBack(w)
      PROVE  Quiet
  BY <1>9 DEF ComesBack, Does, Then, Stands, Builds, Unbuilt, Stay,
         LocalsRemain, worldVars, causes
<1>10. ASSUME NEW w \in Walkers, Fails(w) \/ GivesCommandNowhere(w)
      PROVE  Quiet
  BY <1>10 DEF Fails, GivesCommandNowhere, Panic, Does, Then, Stands, Builds, Unbuilt, Stay,
         LocalsRemain, worldVars, causes
<1>11. ASSUME NEW w \in Walkers, NEW r \in RoomIds, Teleports(w, r)
      PROVE  Quiet
  BY <1>11 DEF Teleports, Sets, Command, Does, Then, Stands, Builds, Unbuilt, Stay,
         LocalsRemain, worldVars, causes
<1>12. ASSUME NEW w \in Walkers, NEW v \in Walkers, Joins(w, v)
      PROVE  Quiet
  BY <1>12 DEF Joins, Sets, Command, Does, Then, Stands, Builds, Unbuilt, Stay,
         LocalsRemain, worldVars, causes
<1>13. ASSUME NEW w \in Walkers, NEW v \in Walkers, Brings(w, v)
      PROVE  Quiet
  BY <1>13 DEF Brings, Sets, Command, Does, Then, Stands, Builds, Unbuilt, Stay,
         LocalsRemain, worldVars, causes
<1>14. ASSUME NEW w \in Walkers, NEW d \in Directions, Toggles(w, d)
      PROVE  Quiet
  BY <1>14 DEF Toggles, Command, Does, Then, Stands, Builds, Unbuilt, Stay,
         LocalsRemain, worldVars, causes
<1>15. ASSUME NEW w \in Walkers, ThisSide(w)
      PROVE  Quiet
  BY <1>15 DEF ThisSide, Switch, Does, Then, Stands, Builds, Unbuilt, Stay,
         LocalsRemain, worldVars, causes
<1>16. ASSUME NEW w \in Walkers, OtherSide(w)
      PROVE  Quiet
  <2>1. toggled = TRUE
    BY <1>16 DEF OtherSide, Does, TrailInv, Traces
  <2>2. QED BY <1>16, <2>1 DEF OtherSide, Does, Then, Stands, Builds, Unbuilt, Stay,
         LocalsRemain, worldVars, causes
<1>17. ASSUME NEW w \in Walkers, NEW d \in Directions, Destroy(w, d)
      PROVE  Quiet
  BY <1>17 DEF Destroy, Dooms, Command, Does, Then, Stands, Builds, Unbuilt, Stay,
         LocalsRemain, worldVars, causes
<1>18. ASSUME NEW w \in Walkers, NEW z \in Zones, DeleteZone(w, z)
      PROVE  Quiet
  BY <1>18 DEF DeleteZone, Dooms, Command, Does, Then, Stands, Builds, Unbuilt, Stay,
         LocalsRemain, worldVars, causes
<1>19. ASSUME NEW w \in Walkers, DeleteRoom(w)
      PROVE  Quiet
  BY <1>19 DEF DeleteRoom, Does, Then, Stands, Builds, Unbuilt, Stay,
         LocalsRemain, worldVars, causes
<1>20. ASSUME NEW w \in Walkers, Disconnect(w)
      PROVE  Quiet
  <2>1. destroyed = TRUE
    BY <1>20 DEF Disconnect, Does, TrailInv, Traces
  <2>2. QED BY <1>20, <2>1 DEF Disconnect, Does, Then, Stands, Builds, Unbuilt, Stay,
         LocalsRemain, worldVars, causes
<1>21. ASSUME NEW w \in Walkers, Deleted(w)
      PROVE  Quiet
  BY <1>21 DEF Deleted, Does, Then, Stands, Builds, Unbuilt, Stay,
         LocalsRemain, worldVars, causes
<1>22. ASSUME NEW w \in Walkers, NEW z \in Zones, NewZone(w, z)
      PROVE  Quiet
  BY <1>22 DEF NewZone, Command, Does, Then, Stands, Builds, Unbuilt, Stay,
         LocalsRemain, worldVars, causes
<1>23. CASE UNCHANGED roomsVars
  BY <1>23 DEF roomsVars, worldVars, walkVars, causes
<1>24. QED BY <1>1, <1>2, <1>3, <1>4, <1>5, <1>6, <1>7, <1>8, <1>9, <1>10, <1>11,
       <1>12, <1>13, <1>14, <1>15, <1>16, <1>17, <1>18, <1>19, <1>20,
       <1>21, <1>22, <1>23
           DEF RoomsNext, Gives, GoesOn

\* A room that is made leads back to where it was made from.
LEMMA MakesTrail ==
    ASSUME RoomsTypeOK, NothingIsFresh, TrailInv, NEW w \in Walkers, Makes(w)
    PROVE  TrailInv'
<1>1. PICK r0 \in fresh \cap RoomIds :
         /\ rooms' = rooms \cup {r0} /\ fresh' = fresh \ {r0}
         /\ zoneOf' = [zoneOf EXCEPT ![r0] = zoneOf[here[w]]]
         /\ placeOf' = [placeOf EXCEPT ![r0] = Beyond(here[w], way[w])]
         /\ there' = [there EXCEPT ![w] = r0]
  BY NewRoomIsFresh DEF Makes
<1>2. /\ doing[w] = "make" /\ doing' = [doing EXCEPT ![w] = "open"]
      /\ UNCHANGED <<exits, here, way, destroyed, toggled>>
  BY DEF Makes, Does, Then
<1>3. /\ FirstRoom \in RoomIds /\ FirstRoom # r0 /\ r0 \notin rooms
      /\ \A v \in Walkers : here[v] \in RoomIds /\ here[v] # r0
      /\ \A v \in Walkers : doing[v] = "open" => there[v] \in RoomIds /\ there[v] # r0
  BY <1>1, RoomsAssumption DEF FirstRoom, RoomsAssumption, RoomsTypeOK, NothingIsFresh,
     TrailInv, AllRoomsRemain
<1>4. \A r \in RoomIds \ {r0} : zoneOf'[r] = zoneOf[r] /\ placeOf'[r] = placeOf[r]
  BY <1>1 DEF RoomsTypeOK
<1>5. /\ zoneOf'[r0] = zoneOf[here[w]]
      /\ placeOf'[r0] = placeOf[here[w]] + Step[way[w]]
  BY <1>1 DEF RoomsTypeOK, Beyond
<1>6. AllRoomsRemain'
  BY <1>1, <1>2, <1>3, <1>4 DEF TrailInv, AllRoomsRemain
<1>7. Traces'
  <2> SUFFICES ASSUME NEW v \in Walkers
               PROVE  /\ doing'[v] = "otherSide" => toggled'
                      /\ doing'[v] = "disconnect" => destroyed'
                      /\ doing'[v] = "open" =>
                            /\ zoneOf'[there'[v]] = zoneOf'[here'[v]]
                            /\ placeOf'[there'[v]] = placeOf'[here'[v]] + Step[way'[v]]
    BY DEF Traces
  <2>1. CASE v = w
    <3>1. doing'[w] = "open" /\ there'[w] = r0 /\ here'[w] = here[w] /\ way'[w] = way[w]
      BY <1>1, <1>2 DEF RoomsTypeOK
    <3>2. zoneOf'[here[w]] = zoneOf[here[w]] /\ placeOf'[here[w]] = placeOf[here[w]]
      BY <1>3, <1>4
    <3>3. QED BY <2>1, <3>1, <3>2, <1>5
  <2>2. CASE v # w
    <3>1. doing'[v] = doing[v] /\ there'[v] = there[v] /\ here'[v] = here[v] /\ way'[v] = way[v]
      BY <2>2, <1>1, <1>2
    <3>2. QED BY <3>1, <1>2, <1>3, <1>4 DEF TrailInv, Traces
  <2>3. QED BY <2>1, <2>2
<1>8. NoTrap'
  <2> SUFFICES ASSUME ~destroyed, ~toggled,
                      NEW S \in SUBSET {r \in rooms' : zoneOf'[r] = FirstZone},
                      S # {}, FirstRoom \notin S
               PROVE  \E r \in S : ~(Ways(r)' \subseteq S)
    BY <1>2 DEF NoTrap
  <2>1. CASE S = {r0}
    <3>1. doing'[w] = "open" /\ there'[w] = r0 /\ here'[w] = here[w]
      BY <1>1, <1>2 DEF RoomsTypeOK
    <3>2. here[w] \in Ways(r0)'
      BY <3>1 DEF Ways
    <3>3. QED BY <2>1, <3>2, <1>3
  <2>2. CASE S # {r0}
    <3>1. /\ S \ {r0} \in SUBSET {r \in rooms : zoneOf[r] = FirstZone}
          /\ S \ {r0} # {} /\ FirstRoom \notin S \ {r0}
      BY <2>2, <1>1, <1>3, <1>4 DEF RoomsTypeOK
    <3>2. PICK r \in S \ {r0} : ~(Ways(r) \subseteq S \ {r0})
      BY <3>1 DEF TrailInv, NoTrap
    <3>3. r \in rooms /\ r \in RoomIds
      BY <3>1 DEF RoomsTypeOK
    <3>4. Neighbours(r) \subseteq Neighbours(r)'
      <4>1. rooms \subseteq rooms' /\ exits[r] \subseteq exits'[r]
        BY <1>1, <1>2
      <4>2. \A x \in rooms : x \in RoomIds \ {r0}
        BY <1>3 DEF RoomsTypeOK
      <4>3. \A x \in rooms : zoneOf'[x] = zoneOf[x] /\ placeOf'[x] = placeOf[x]
        BY <1>4, <4>2
      <4>4. r \in rooms
        BY <3>3
      <4>5. QED BY ONLY <4>1, <4>3, <4>4, NeighboursGrow
    <3>5. {here[v] : v \in {u \in Walkers : doing[u] = "open" /\ there[u] = r}}
          \subseteq {here'[v] : v \in {u \in Walkers : doing'[u] = "open" /\ there'[u] = r}}
      <4>1. ASSUME NEW u \in Walkers, doing[u] = "open", there[u] = r
            PROVE  doing'[u] = "open" /\ there'[u] = r /\ here'[u] = here[u]
        <5>1. u # w
          BY <1>2, <4>1
        <5>2. doing'[u] = doing[u] /\ there'[u] = there[u] /\ here'[u] = here[u]
          BY <1>1, <1>2, <5>1 DEF RoomsTypeOK
        <5>3. QED BY <4>1, <5>2
      <4>2. QED BY <4>1
    <3>6. r0 \notin Ways(r)
      BY <1>3, NeighbourIs DEF Ways
    <3>7. QED BY <3>2, <3>4, <3>5, <3>6 DEF Ways
  <2>3. QED BY <2>1, <2>2
<1>9. QED BY <1>6, <1>7, <1>8 DEF TrailInv

\* The first room of a new zone is not in the first zone.
LEMMA SettlesTrail ==
    ASSUME RoomsTypeOK, NothingIsFresh, NewZonesAreEmpty, TrailInv,
           NEW w \in Walkers, Settles(w)
    PROVE  TrailInv'
<1>1. PICK r0 \in fresh \cap RoomIds :
         /\ rooms' = rooms \cup {r0} /\ fresh' = fresh \ {r0}
         /\ zoneOf' = [zoneOf EXCEPT ![r0] = there[w]]
         /\ placeOf' = [placeOf EXCEPT ![r0] = 0]
         /\ there' = [there EXCEPT ![w] = r0]
  BY NewRoomIsFresh DEF Settles
<1>2. /\ doing[w] = "settle" /\ doing' = [doing EXCEPT ![w] = "enter"]
      /\ UNCHANGED <<exits, here, way, destroyed, toggled>>
  BY DEF Settles, Does, Then, Stay, causes
<1>3. /\ FirstRoom \in RoomIds /\ FirstRoom # r0 /\ r0 \notin rooms
      /\ \A v \in Walkers : here[v] \in RoomIds /\ here[v] # r0
      /\ \A v \in Walkers : doing[v] = "open" => there[v] \in RoomIds /\ there[v] # r0
  BY <1>1, RoomsAssumption DEF FirstRoom, RoomsAssumption, RoomsTypeOK, NothingIsFresh,
     TrailInv, AllRoomsRemain
<1>4. \A r \in RoomIds \ {r0} : zoneOf'[r] = zoneOf[r] /\ placeOf'[r] = placeOf[r]
  BY <1>1 DEF RoomsTypeOK
<1>5. zoneOf'[r0] = there[w] /\ there[w] # FirstZone
  BY <1>1, <1>2, <1>3 DEF RoomsTypeOK, NewZonesAreEmpty, TrailInv, AllRoomsRemain
<1>6. AllRoomsRemain'
  BY <1>1, <1>2, <1>3, <1>4 DEF TrailInv, AllRoomsRemain
<1>7. \A v \in Walkers : doing'[v] \in {"open", "otherSide", "disconnect"} =>
         /\ doing'[v] = doing[v] /\ there'[v] = there[v]
         /\ here'[v] = here[v] /\ way'[v] = way[v]
  BY <1>1, <1>2 DEF RoomsTypeOK
<1>8. Traces'
  BY <1>2, <1>3, <1>4, <1>7 DEF TrailInv, Traces
<1>9. NoTrap'
  <2> SUFFICES ASSUME ~destroyed, ~toggled,
                      NEW S \in SUBSET {r \in rooms' : zoneOf'[r] = FirstZone},
                      S # {}, FirstRoom \notin S
               PROVE  \E r \in S : ~(Ways(r)' \subseteq S)
    BY <1>2 DEF NoTrap
  <2>1. S \in SUBSET {r \in rooms : zoneOf[r] = FirstZone}
    BY <1>1, <1>3, <1>4, <1>5 DEF RoomsTypeOK
  <2>2. PICK r \in S : ~(Ways(r) \subseteq S)
    BY <2>1 DEF TrailInv, NoTrap
  <2>3. r \in rooms /\ r \in RoomIds
    BY <2>1 DEF RoomsTypeOK
  <2>4. Neighbours(r) \subseteq Neighbours(r)'
    BY <2>3, <1>1, <1>2, <1>3, <1>4, NeighboursGrow DEF RoomsTypeOK
  <2>5. {here[v] : v \in {u \in Walkers : doing[u] = "open" /\ there[u] = r}}
        \subseteq {here'[v] : v \in {u \in Walkers : doing'[u] = "open" /\ there'[u] = r}}
    BY <1>1, <1>2
  <2>6. QED BY <2>2, <2>4, <2>5 DEF Ways
<1>10. QED BY <1>6, <1>8, <1>9 DEF TrailInv

\* The exit that is opened leads where its walker came from.
LEMMA OpensTrail ==
    ASSUME RoomsTypeOK, NothingIsFresh, TrailInv, NEW w \in Walkers, Opens(w)
    PROVE  TrailInv'
<1>1. /\ doing[w] = "open" /\ doing' = [doing EXCEPT ![w] = "enter"]
      /\ exits' = [exits EXCEPT ![there[w]] = exits[there[w]] \cup {Opposite(way[w])}]
      /\ UNCHANGED <<rooms, fresh, zoneOf, placeOf, here, there, way, destroyed, toggled>>
  BY DEF Opens, Does, Then, Stay, LocalsRemain, worldVars, causes
<1>2. AllRoomsRemain'
  BY <1>1 DEF TrailInv, AllRoomsRemain
<1>3. Traces'
  BY <1>1 DEF TrailInv, Traces, RoomsTypeOK
<1>4. NoTrap'
  <2> SUFFICES ASSUME ~destroyed, ~toggled,
                      NEW S \in SUBSET {r \in rooms : zoneOf[r] = FirstZone},
                      S # {}, FirstRoom \notin S
               PROVE  \E r \in S : ~(Ways(r)' \subseteq S)
    BY <1>1 DEF NoTrap
  <2>1. PICK r \in S : ~(Ways(r) \subseteq S)
    BY DEF TrailInv, NoTrap
  <2>2. r \in rooms /\ r \in RoomIds
    BY DEF RoomsTypeOK
  <2>3. Neighbours(r) \subseteq Neighbours(r)'
    BY <2>2, <1>1, NeighboursGrow DEF RoomsTypeOK
  <2>4. \A v \in Walkers : v # w /\ doing[v] = "open" /\ there[v] = r => here[v] \in Ways(r)'
    BY <1>1 DEF Ways
  <2>5. ASSUME there[w] = r
        PROVE  here[w] \in Neighbours(r)'
    <3>1. here[w] \in rooms /\ here[w] \in RoomIds
      BY DEF RoomsTypeOK, NothingIsFresh, TrailInv, AllRoomsRemain
    <3>2. zoneOf[here[w]] = zoneOf[r] /\ placeOf[r] = placeOf[here[w]] + Step[way[w]]
      BY <1>1, <2>5 DEF TrailInv, Traces
    <3>3. placeOf[here[w]] \in Int /\ way[w] \in Directions
      BY <3>1, RoomsAssumption DEF RoomsTypeOK, RoomsAssumption
    <3>4. placeOf[here[w]] = placeOf[r] + Step[Opposite(way[w])]
      <4>1. /\ Opposite(way[w]) \in Directions /\ Step[way[w]] \in Int
            /\ placeOf[here[w]] + Step[way[w]] + Step[Opposite(way[w])] = placeOf[here[w]]
        BY <3>3, ThereAndBack, OppositeIsDirection
      <4>2. QED BY <3>2, <4>1
    <3>5. Opposite(way[w]) \in exits'[r]
      BY <1>1, <2>2, <2>5 DEF RoomsTypeOK
    <3>6. /\ here[w] \in rooms' /\ zoneOf'[here[w]] = zoneOf'[r]
          /\ \E d \in exits'[r] : placeOf'[here[w]] = placeOf'[r] + Step[d]
      BY <1>1, <3>1, <3>2, <3>4, <3>5
    <3>7. QED BY <3>6 DEF Neighbours, RoomsAt, Beyond
  <2>6. Ways(r) \subseteq Ways(r)'
    BY <2>3, <2>4, <2>5 DEF Ways
  <2>7. QED BY <2>1, <2>6
<1>5. QED BY <1>2, <1>3, <1>4 DEF TrailInv

\* The first room is no trap.
LEMMA InitTrail == RoomsInit => TrailInv
<1> SUFFICES ASSUME RoomsInit PROVE TrailInv
    OBVIOUS
<1> USE RoomsAssumption DEF RoomsAssumption
<1>1. FirstRoom \in RoomIds /\ FirstZone \in Zones
  BY DEF FirstRoom, FirstZone
<1>2. AllRoomsRemain
  BY <1>1 DEF RoomsInit, AllRoomsRemain
<1>3. Traces
  BY DEF RoomsInit, Traces
<1>4. NoTrap
  BY DEF RoomsInit, NoTrap
<1>5. QED BY <1>2, <1>3, <1>4 DEF TrailInv

\* There is no trap in any behaviour.
THEOREM NoRoomsAreATrap == RoomsSpec => []TrailInv
<1>1. RoomsInv /\ TrailInv /\ [RoomsNext]_roomsVars => TrailInv'
  BY MostStepsAreQuiet, QuietTrail, MakesTrail, SettlesTrail, OpensTrail DEF RoomsInv
<1>2. QED BY <1>1, InitTrail, RoomsInvariant, PTL DEF RoomsSpec

\* In every behaviour a place has one room until two are made there at a time,
\* and whoever walks away from the first room can walk back until an exit is
\* switched off or a room deleted.
THEOREM GridAlwaysHolds == RoomsSpec => []GridHolds
<1>1. RoomsInv /\ TrailInv => GridHolds
  <2> SUFFICES ASSUME RoomsInv, TrailInv PROVE WayBack
    BY DEF RoomsInv, GridHolds
  <2> SUFFICES ASSUME ~destroyed, ~toggled, \A w \in Walkers : ~Does(w, "open"),
                      NEW S \in SUBSET {r \in rooms : zoneOf[r] = FirstZone},
                      S # {}, FirstRoom \notin S
               PROVE  \E r \in S : ~(Neighbours(r) \subseteq S)
    BY DEF WayBack
  <2>1. PICK r \in S : ~(Ways(r) \subseteq S)
    BY DEF TrailInv, NoTrap
  <2>2. Ways(r) = Neighbours(r)
    BY DEF Ways, Does
  <2>3. QED BY <2>1, <2>2
<1>2. QED BY <1>1, RoomsInvariant, NoRoomsAreATrap, PTL

-----------------------------------------------------------------------------
(* The shop: the inductive invariant                                       *)

Selling == {"debit", "pay", "credit", "collect"}

\* Where a session can be.
Whereabouts == {"idle", "move", "debit", "pay", "credit", "collect", "gift", "put", "purge",
           "purgeStore", "panicked"}

\* What a session is about to move: out of its hands, out of the shop, out of
\* the room, or out of or into the box it has open.
Bargains ==
    \A t \in Traders :
        /\ at[t] = "move" \/ at[t] \in Selling =>
              /\ deal[t].from \in {t, Hall, Store} \cup Boxes
              /\ deal[t].sale => \/ deal[t].from = Store /\ deal[t].to = t
                                 \/ deal[t].from = t /\ deal[t].to = Store
        /\ at[t] \in Selling => deal[t].sale
        /\ at[t] \in Selling /\ deal[t].from = Store => container[deal[t].item] = t

\* Where a move leads, while the menu it was chosen in stays open.
Routes ==
    \A t \in Traders :
        /\ at[t] = "move" /\ opened[t] = NoBox =>
              deal[t].from \in {t, Hall, Store} /\ deal[t].to \in {t, Hall, Store}
        /\ at[t] = "move" /\ opened[t] # NoBox =>
              \/ deal[t].from = t /\ deal[t].to = opened[t]
              \/ deal[t].from = opened[t] /\ deal[t].to = t
        /\ at[t] = "put" => opened[t] = NoBox

\* A box is in its container, a session at its open box.
Enclosing(x) == IF x \in Boxes THEN container[x] ELSE opened[x]

Acyclic ==
    \A S \in SUBSET (Boxes \cup Traders) : S # {} => \E x \in S : Enclosing(x) \notin S

ShopInv == ShopTypeOK /\ Bargains /\ Routes /\ Acyclic

\* A command is counted, up to the bound.
LEMMA DealsAreOrdered ==
    ASSUME ShopTypeOK, NEW t \in Traders, NEW b, NEW a, Orders(t, b, a)
    PROVE  deals' \in [Traders -> Nat] /\ \A u \in Traders : deals'[u] <= MaxDeals[u]
<1>1. /\ deals[t] < MaxDeals[t] /\ deals' = [deals EXCEPT ![t] = deals[t] + 1]
      /\ deals \in [Traders -> Nat] /\ \A u \in Traders : deals[u] <= MaxDeals[u]
      /\ MaxDeals \in [Traders -> Nat]
  BY ShopAssumption DEF Orders, ShopTypeOK, ShopAssumption
<1>2. QED BY <1>1

\* What a session chooses is an item, with where it is and where it is to go.
LEMMA Chosen ==
    ASSUME ShopTypeOK, NEW t \in Traders, NEW b, NEW from \in Holders, NEW to \in Holders,
           NEW sale \in BOOLEAN, Chooses(t, b, from, to, sale)
    PROVE  /\ deal' \in [Traders -> [item : Items, from : Holders, to : Holders, sale : BOOLEAN]]
           /\ deals' \in [Traders -> Nat] /\ \A u \in Traders : deals'[u] <= MaxDeals[u]
<1>1. PICK i \in Items : deal' = [deal EXCEPT ![t] =
                  [item |-> i, from |-> from, to |-> to, sale |-> sale]]
  BY DEF Chooses, ItemsIn, ShopTypeOK
<1>2. [item |-> i, from |-> from, to |-> to, sale |-> sale]
         \in [item : Items, from : Holders, to : Holders, sale : BOOLEAN]
  OBVIOUS
<1>3. deal' \in [Traders -> [item : Items, from : Holders, to : Holders, sale : BOOLEAN]]
  BY <1>1, <1>2 DEF ShopTypeOK
<1>4. QED BY <1>3, DealsAreOrdered DEF Chooses

\* Steps keep the types.
LEMMA NextTypes ==
    ASSUME ShopTypeOK, Bargains, [ShopNext]_shopVars
    PROVE  ShopTypeOK'
<1> USE ShopAssumption DEF ShopTypeOK, Holders, Owners
<1>1. ASSUME NEW t \in Traders, Drop(t) \/ Get(t) \/ Buy(t) \/ Sell(t)
      PROVE ShopTypeOK'
  <2>1. items' \subseteq Items /\ unmade' \subseteq Items /\ container' \in [Items -> Holders]
    BY <1>1 DEF Drop, Get, Buy, Sell, Chooses, Orders, Turns, ItemsIn,
           worldOfItems, money, Whereabouts
  <2>2. price' \in Prices /\ issued' \in Nat /\ lost' \in Int
    BY <1>1 DEF Drop, Get, Buy, Sell, Chooses, Orders, Turns, ItemsIn,
           worldOfItems, money, Whereabouts
  <2>3. storeOpen' \in BOOLEAN /\ clashed' \in BOOLEAN
    BY <1>1 DEF Drop, Get, Buy, Sell, Chooses, Orders, Turns, ItemsIn,
           worldOfItems, money, Whereabouts
  <2>4. cash' \in [Owners -> Int]
    BY <1>1 DEF Drop, Get, Buy, Sell, Chooses, Orders, Turns, ItemsIn,
           worldOfItems, money, Whereabouts
  <2>5. purse' \in [Traders -> Int]
    BY <1>1 DEF Drop, Get, Buy, Sell, Chooses, Orders, Turns, ItemsIn,
           worldOfItems, money, Whereabouts
  <2>6. at' \in [Traders -> Whereabouts]
    BY <1>1 DEF Drop, Get, Buy, Sell, Chooses, Orders, Turns, ItemsIn,
           worldOfItems, money, Whereabouts
  <2>7. deal' \in [Traders -> [item : Items, from : Holders, to : Holders, sale : BOOLEAN]]
    BY <1>1, Chosen DEF Drop, Get, Buy, Sell
  <2>8. opened' \in [Traders -> Boxes \cup {NoBox, Store}] /\ purge' \in [Traders -> SUBSET Items]
    BY <1>1 DEF Drop, Get, Buy, Sell, Chooses, Orders, Turns, ItemsIn,
           worldOfItems, money, Whereabouts
  <2>9. deals' \in [Traders -> Nat] /\ \A u \in Traders : deals'[u] <= MaxDeals[u]
    BY <1>1, Chosen DEF Drop, Get, Buy, Sell
  <2>10. QED BY <2>1, <2>2, <2>3, <2>4, <2>5, <2>6, <2>7, <2>8, <2>9 DEF Whereabouts
<1>2. ASSUME NEW t \in Traders, Deposit(t) \/ Withdraw(t)
      PROVE ShopTypeOK'
  <2>1. items' \subseteq Items /\ unmade' \subseteq Items /\ container' \in [Items -> Holders]
    BY <1>2 DEF Deposit, Withdraw, Chooses, Orders, Turns, ItemsIn, worldOfItems,
           money, Whereabouts
  <2>2. price' \in Prices /\ issued' \in Nat /\ lost' \in Int
    BY <1>2 DEF Deposit, Withdraw, Chooses, Orders, Turns, ItemsIn, worldOfItems,
           money, Whereabouts
  <2>3. storeOpen' \in BOOLEAN /\ clashed' \in BOOLEAN
    BY <1>2 DEF Deposit, Withdraw, Chooses, Orders, Turns, ItemsIn, worldOfItems,
           money, Whereabouts
  <2>4. cash' \in [Owners -> Int]
    BY <1>2 DEF Deposit, Withdraw, Chooses, Orders, Turns, ItemsIn, worldOfItems,
           money, Whereabouts
  <2>5. purse' \in [Traders -> Int]
    BY <1>2 DEF Deposit, Withdraw, Chooses, Orders, Turns, ItemsIn, worldOfItems,
           money, Whereabouts
  <2>6. at' \in [Traders -> Whereabouts]
    BY <1>2 DEF Deposit, Withdraw, Chooses, Orders, Turns, ItemsIn, worldOfItems,
           money, Whereabouts
  <2>7. deal' \in [Traders -> [item : Items, from : Holders, to : Holders, sale : BOOLEAN]]
    BY <1>2, Chosen DEF Deposit, Withdraw
  <2>8. opened' \in [Traders -> Boxes \cup {NoBox, Store}] /\ purge' \in [Traders -> SUBSET Items]
    BY <1>2 DEF Deposit, Withdraw, Chooses, Orders, Turns, ItemsIn, worldOfItems,
           money, Whereabouts
  <2>9. deals' \in [Traders -> Nat] /\ \A u \in Traders : deals'[u] <= MaxDeals[u]
    BY <1>2, Chosen DEF Deposit, Withdraw
  <2>10. QED BY <2>1, <2>2, <2>3, <2>4, <2>5, <2>6, <2>7, <2>8, <2>9 DEF Whereabouts
<1>3. ASSUME NEW t \in Traders, Shops(t) \/ Open(t) \/ Close(t)
      PROVE ShopTypeOK'
  <2>1. items' \subseteq Items /\ unmade' \subseteq Items /\ container' \in [Items -> Holders]
    BY <1>3 DEF Shops, Open, Openable, Close, Orders, Turns, ItemsIn, worldOfItems,
           money, Whereabouts
  <2>2. price' \in Prices /\ issued' \in Nat /\ lost' \in Int
    BY <1>3 DEF Shops, Open, Openable, Close, Orders, Turns, ItemsIn, worldOfItems,
           money, Whereabouts
  <2>3. storeOpen' \in BOOLEAN /\ clashed' \in BOOLEAN
    BY <1>3 DEF Shops, Open, Openable, Close, Orders, Turns, ItemsIn, worldOfItems,
           money, Whereabouts
  <2>4. cash' \in [Owners -> Int] /\ purse' \in [Traders -> Int]
    BY <1>3 DEF Shops, Open, Openable, Close, Orders, Turns, ItemsIn, worldOfItems,
           money, Whereabouts
  <2>5. at' \in [Traders -> Whereabouts]
    BY <1>3 DEF Shops, Open, Openable, Close, Orders, Turns, ItemsIn, worldOfItems,
           money, Whereabouts
  <2>6. deal' \in [Traders -> [item : Items, from : Holders, to : Holders, sale : BOOLEAN]]
    BY <1>3 DEF Shops, Open, Openable, Close, Orders, Turns, ItemsIn, worldOfItems,
           money, Whereabouts
  <2>7. opened' \in [Traders -> Boxes \cup {NoBox, Store}] /\ purge' \in [Traders -> SUBSET Items]
    BY <1>3 DEF Shops, Open, Openable, Close, Orders, Turns, ItemsIn, worldOfItems,
           money, Whereabouts
  <2>8. deals' \in [Traders -> Nat] /\ \A u \in Traders : deals'[u] <= MaxDeals[u]
    BY <1>3, DealsAreOrdered DEF Shops, Open, Close
  <2>9. QED BY <2>1, <2>2, <2>3, <2>4, <2>5, <2>6, <2>7, <2>8 DEF Whereabouts
<1>4. ASSUME NEW t \in Traders, Moves(t)
      PROVE ShopTypeOK'
  <2>1. items' \subseteq Items /\ unmade' \subseteq Items /\ container' \in [Items -> Holders]
    BY <1>4 DEF Moves, CanMove, Turns, money, locals, Whereabouts
  <2>2. price' \in Prices /\ issued' \in Nat /\ lost' \in Int
    BY <1>4 DEF Moves, CanMove, Turns, money, locals, Whereabouts
  <2>3. storeOpen' \in BOOLEAN /\ clashed' \in BOOLEAN
    BY <1>4 DEF Moves, CanMove, Turns, money, locals, Whereabouts
  <2>4. cash' \in [Owners -> Int]
    BY <1>4 DEF Moves, CanMove, Turns, money, locals, Whereabouts
  <2>5. purse' \in [Traders -> Int]
    BY <1>4 DEF Moves, CanMove, Turns, money, locals, Whereabouts
  <2>6. at' \in [Traders -> Whereabouts]
    BY <1>4 DEF Moves, CanMove, Turns, money, locals, Whereabouts
  <2>7. deal' \in [Traders -> [item : Items, from : Holders, to : Holders, sale : BOOLEAN]]
    BY <1>4 DEF Moves, CanMove, Turns, money, locals, Whereabouts
  <2>8. opened' \in [Traders -> Boxes \cup {NoBox, Store}] /\ purge' \in [Traders -> SUBSET Items]
    BY <1>4 DEF Moves, CanMove, Turns, money, locals, Whereabouts
  <2>9. deals' \in [Traders -> Nat] /\ \A u \in Traders : deals'[u] <= MaxDeals[u]
    BY <1>4 DEF Moves, CanMove, Turns, money, locals, Whereabouts
  <2>10. QED BY <2>1, <2>2, <2>3, <2>4, <2>5, <2>6, <2>7, <2>8, <2>9 DEF Whereabouts
<1>5. ASSUME NEW t \in Traders, Debit(t) \/ Credit(t)
      PROVE ShopTypeOK'
  <2>1. items' \subseteq Items /\ unmade' \subseteq Items /\ container' \in [Items -> Holders]
    BY <1>5 DEF Debit, Credit, Turns, Reads, Purse, worldOfItems, Whereabouts
  <2>2. price' \in Prices /\ issued' \in Nat /\ lost' \in Int
    BY <1>5 DEF Debit, Credit, Turns, Reads, Purse, worldOfItems, Whereabouts
  <2>3. storeOpen' \in BOOLEAN /\ clashed' \in BOOLEAN
    BY <1>5 DEF Debit, Credit, Turns, Reads, Purse, worldOfItems, Whereabouts
  <2>4. cash' \in [Owners -> Int]
    BY <1>5 DEF Debit, Credit, Reads
  <2>5. purse' \in [Traders -> Int]
    <3>1. price \in Int /\ deal[t].from \in Owners /\ deal[t].to \in Owners
      BY <1>5 DEF Debit, Credit, Turns, Bargains, Selling
    <3>2. /\ \/ purse' = [purse EXCEPT ![t] = cash[deal[t].to] - price]
             \/ purse' = [purse EXCEPT ![t] = cash[deal[t].from] + price]
          /\ cash[deal[t].from] \in Int /\ cash[deal[t].to] \in Int
      BY <1>5, <3>1 DEF Debit, Credit, Reads
    <3>3. QED BY <3>1, <3>2
  <2>6. at' \in [Traders -> Whereabouts]
    BY <1>5 DEF Debit, Credit, Turns, Reads, Purse, worldOfItems, Whereabouts
  <2>7. deal' \in [Traders -> [item : Items, from : Holders, to : Holders, sale : BOOLEAN]]
    BY <1>5 DEF Debit, Credit, Turns, Reads, Purse, worldOfItems, Whereabouts
  <2>8. opened' \in [Traders -> Boxes \cup {NoBox, Store}] /\ purge' \in [Traders -> SUBSET Items]
    BY <1>5 DEF Debit, Credit, Turns, Reads, Purse, worldOfItems, Whereabouts
  <2>9. deals' \in [Traders -> Nat] /\ \A u \in Traders : deals'[u] <= MaxDeals[u]
    BY <1>5 DEF Debit, Credit, Turns, Reads, Purse, worldOfItems, Whereabouts
  <2>10. QED BY <2>1, <2>2, <2>3, <2>4, <2>5, <2>6, <2>7, <2>8, <2>9 DEF Whereabouts
<1>6. ASSUME NEW t \in Traders, Pay(t) \/ Collect(t)
      PROVE ShopTypeOK'
  <2>1. items' \subseteq Items /\ unmade' \subseteq Items /\ container' \in [Items -> Holders]
    BY <1>6 DEF Pay, Collect, Turns, Writes, worldOfItems, locals, Whereabouts
  <2>2. price' \in Prices /\ issued' \in Nat /\ lost' \in Int
    BY <1>6 DEF Pay, Collect, Turns, Writes, worldOfItems, locals, Whereabouts
  <2>3. storeOpen' \in BOOLEAN /\ clashed' \in BOOLEAN
    BY <1>6 DEF Pay, Collect, Turns, Writes, worldOfItems, locals, Whereabouts
  <2>4. cash' \in [Owners -> Int]
    BY <1>6 DEF Pay, Collect, Turns, Writes, worldOfItems, locals, Whereabouts
  <2>5. purse' \in [Traders -> Int]
    BY <1>6 DEF Pay, Collect, Turns, Writes, worldOfItems, locals, Whereabouts
  <2>6. at' \in [Traders -> Whereabouts]
    BY <1>6 DEF Pay, Collect, Turns, Writes, worldOfItems, locals, Whereabouts
  <2>7. deal' \in [Traders -> [item : Items, from : Holders, to : Holders, sale : BOOLEAN]]
    BY <1>6 DEF Pay, Collect, Turns, Writes, worldOfItems, locals, Whereabouts
  <2>8. opened' \in [Traders -> Boxes \cup {NoBox, Store}] /\ purge' \in [Traders -> SUBSET Items]
    BY <1>6 DEF Pay, Collect, Turns, Writes, worldOfItems, locals, Whereabouts
  <2>9. deals' \in [Traders -> Nat] /\ \A u \in Traders : deals'[u] <= MaxDeals[u]
    BY <1>6 DEF Pay, Collect, Turns, Writes, worldOfItems, locals, Whereabouts
  <2>10. QED BY <2>1, <2>2, <2>3, <2>4, <2>5, <2>6, <2>7, <2>8, <2>9 DEF Whereabouts
<1>7. ASSUME NEW t \in Traders, GiveCash(t) \/ TakeCash(t)
      PROVE ShopTypeOK'
  <2>1. items' \subseteq Items /\ unmade' \subseteq Items /\ container' \in [Items -> Holders]
    BY <1>7 DEF GiveCash, TakeCash, Orders, Turns, Reads, Writes, Purse,
           worldOfItems, locals, Whereabouts
  <2>2. price' \in Prices /\ issued' \in Nat /\ lost' \in Int
    <3>1. price' = price /\ lost' = lost
      BY <1>7 DEF GiveCash, TakeCash, Reads, Writes, worldOfItems
    <3>2. issued' = issued \/ issued' = issued + 1
      BY <1>7 DEF GiveCash, TakeCash, Reads, Writes
    <3>3. QED BY <3>1, <3>2
  <2>3. storeOpen' \in BOOLEAN /\ clashed' \in BOOLEAN
    BY <1>7 DEF GiveCash, TakeCash, Orders, Turns, Reads, Writes, Purse,
           worldOfItems, locals, Whereabouts
  <2>4. cash' \in [Owners -> Int]
    BY <1>7 DEF GiveCash, TakeCash, Orders, Turns, Reads, Writes, Purse,
           worldOfItems, locals, Whereabouts
  <2>5. purse' \in [Traders -> Int]
    <3>1. cash[t] \in Int /\ (purse' = [purse EXCEPT ![t] = cash[t] + 1] \/ purse' = purse)
      BY <1>7 DEF GiveCash, TakeCash, Reads, Writes, locals
    <3>2. QED BY <3>1
  <2>6. at' \in [Traders -> Whereabouts]
    BY <1>7 DEF GiveCash, TakeCash, Orders, Turns, Reads, Writes, Purse,
           worldOfItems, locals, Whereabouts
  <2>7. deal' \in [Traders -> [item : Items, from : Holders, to : Holders, sale : BOOLEAN]]
    BY <1>7 DEF GiveCash, TakeCash, Orders, Turns, Reads, Writes, Purse,
           worldOfItems, locals, Whereabouts
  <2>8. opened' \in [Traders -> Boxes \cup {NoBox, Store}] /\ purge' \in [Traders -> SUBSET Items]
    BY <1>7 DEF GiveCash, TakeCash, Orders, Turns, Reads, Writes, Purse,
           worldOfItems, locals, Whereabouts
  <2>9. deals' \in [Traders -> Nat] /\ \A u \in Traders : deals'[u] <= MaxDeals[u]
    BY <1>7, DealsAreOrdered DEF GiveCash, TakeCash, Writes
  <2>10. QED BY <2>1, <2>2, <2>3, <2>4, <2>5, <2>6, <2>7, <2>8, <2>9 DEF Whereabouts
<1>8. ASSUME NEW t \in Traders, \E v \in Prices : SetValue(t, v)
      PROVE ShopTypeOK'
  BY <1>8 DEF SetValue, Orders, Turns, worldOfItems, locals
<1>9. ASSUME NEW t \in Traders, CreateItem(t)
      PROVE ShopTypeOK'
  BY <1>9 DEF CreateItem, Orders, Turns, money
<1>10. ASSUME NEW t \in Traders, Put(t)
      PROVE ShopTypeOK'
  BY <1>10 DEF Put, CanMove, Turns, money, locals
<1>11. ASSUME NEW t \in Traders, DestroyItem(t) \/ DeleteTemplate(t) \/ DeleteStore(t)
      PROVE ShopTypeOK'
  <2>1. items' \subseteq Items /\ unmade' \subseteq Items /\ container' \in [Items -> Holders]
    BY <1>11 DEF DestroyItem, DeleteTemplate, DeleteStore, Lists, Orders, Turns,
           ItemsIn, worldOfItems, money, Whereabouts
  <2>2. price' \in Prices /\ issued' \in Nat /\ lost' \in Int
    BY <1>11 DEF DestroyItem, DeleteTemplate, DeleteStore, Lists, Orders, Turns,
           ItemsIn, worldOfItems, money, Whereabouts
  <2>3. storeOpen' \in BOOLEAN /\ clashed' \in BOOLEAN
    BY <1>11 DEF DestroyItem, DeleteTemplate, DeleteStore, Lists, Orders, Turns,
           ItemsIn, worldOfItems, money, Whereabouts
  <2>4. cash' \in [Owners -> Int]
    BY <1>11 DEF DestroyItem, DeleteTemplate, DeleteStore, Lists, Orders, Turns,
           ItemsIn, worldOfItems, money, Whereabouts
  <2>5. purse' \in [Traders -> Int]
    BY <1>11 DEF DestroyItem, DeleteTemplate, DeleteStore, Lists, Orders, Turns,
           ItemsIn, worldOfItems, money, Whereabouts
  <2>6. at' \in [Traders -> Whereabouts]
    BY <1>11 DEF DestroyItem, DeleteTemplate, DeleteStore, Lists, Orders, Turns,
           ItemsIn, worldOfItems, money, Whereabouts
  <2>7. deal' \in [Traders -> [item : Items, from : Holders, to : Holders, sale : BOOLEAN]]
    BY <1>11 DEF DestroyItem, DeleteTemplate, DeleteStore, Lists, Orders, Turns,
           ItemsIn, worldOfItems, money, Whereabouts
  <2>8. opened' \in [Traders -> Boxes \cup {NoBox, Store}] /\ purge' \in [Traders -> SUBSET Items]
    BY <1>11 DEF DestroyItem, DeleteTemplate, DeleteStore, Lists, ItemsIn
  <2>9. deals' \in [Traders -> Nat] /\ \A u \in Traders : deals'[u] <= MaxDeals[u]
    BY <1>11, DealsAreOrdered DEF DestroyItem, DeleteTemplate, DeleteStore, Lists
  <2>10. QED BY <2>1, <2>2, <2>3, <2>4, <2>5, <2>6, <2>7, <2>8, <2>9 DEF Whereabouts
<1>12. ASSUME NEW t \in Traders, DeleteObject(t)
      PROVE ShopTypeOK'
  <2>1. items' \subseteq Items /\ unmade' \subseteq Items /\ container' \in [Items -> Holders]
    BY <1>12 DEF DeleteObject, money, Whereabouts
  <2>2. price' \in Prices /\ issued' \in Nat /\ lost' \in Int
    BY <1>12 DEF DeleteObject, money, Whereabouts
  <2>3. storeOpen' \in BOOLEAN /\ clashed' \in BOOLEAN
    BY <1>12 DEF DeleteObject, money, Whereabouts
  <2>4. cash' \in [Owners -> Int]
    BY <1>12 DEF DeleteObject, money, Whereabouts
  <2>5. purse' \in [Traders -> Int]
    BY <1>12 DEF DeleteObject, money, Whereabouts
  <2>6. at' \in [Traders -> Whereabouts]
    BY <1>12 DEF DeleteObject, money, Whereabouts
  <2>7. deal' \in [Traders -> [item : Items, from : Holders, to : Holders, sale : BOOLEAN]]
    BY <1>12 DEF DeleteObject, money, Whereabouts
  <2>8. opened' \in [Traders -> Boxes \cup {NoBox, Store}] /\ purge' \in [Traders -> SUBSET Items]
    BY <1>12 DEF DeleteObject, money, Whereabouts
  <2>9. deals' \in [Traders -> Nat] /\ \A u \in Traders : deals'[u] <= MaxDeals[u]
    BY <1>12 DEF DeleteObject, money, Whereabouts
  <2>10. QED BY <2>1, <2>2, <2>3, <2>4, <2>5, <2>6, <2>7, <2>8, <2>9 DEF Whereabouts
<1>13. ASSUME NEW t \in Traders, Purged(t) \/ CloseDown(t)
      PROVE ShopTypeOK'
  <2>1. items' \subseteq Items /\ unmade' \subseteq Items /\ container' \in [Items -> Holders]
    BY <1>13 DEF Purged, CloseDown, worldOfItems, Turns, money, locals, Whereabouts
  <2>2. price' \in Prices /\ issued' \in Nat /\ lost' \in Int
    BY <1>13 DEF Purged, CloseDown, worldOfItems, Turns, money, locals, Whereabouts
  <2>3. storeOpen' \in BOOLEAN /\ clashed' \in BOOLEAN
    BY <1>13 DEF Purged, CloseDown, worldOfItems, Turns, money, locals, Whereabouts
  <2>4. cash' \in [Owners -> Int] /\ purse' \in [Traders -> Int]
    BY <1>13 DEF Purged, CloseDown, worldOfItems, Turns, money, locals, Whereabouts
  <2>5. at' \in [Traders -> Whereabouts]
    <3>1. at' = [at EXCEPT ![t] = "idle"] \/ at' = [at EXCEPT ![t] = "panicked"]
      BY <1>13 DEF Purged, CloseDown, Turns
    <3>2. QED BY <3>1 DEF Whereabouts
  <2>6. deal' \in [Traders -> [item : Items, from : Holders, to : Holders, sale : BOOLEAN]]
    BY <1>13 DEF Purged, CloseDown, worldOfItems, Turns, money, locals, Whereabouts
  <2>7. opened' \in [Traders -> Boxes \cup {NoBox, Store}] /\ purge' \in [Traders -> SUBSET Items]
    BY <1>13 DEF Purged, CloseDown, worldOfItems, Turns, money, locals, Whereabouts
  <2>8. deals' \in [Traders -> Nat] /\ \A u \in Traders : deals'[u] <= MaxDeals[u]
    BY <1>13 DEF Purged, CloseDown
  <2>9. QED BY <2>1, <2>2, <2>3, <2>4, <2>5, <2>6, <2>7, <2>8 DEF Whereabouts
<1>14. CASE UNCHANGED shopVars
  BY <1>14 DEF shopVars, worldOfItems, money, locals
<1>15. QED BY <1>1, <1>2, <1>3, <1>4, <1>5, <1>6, <1>7, <1>8, <1>9, <1>10,
       <1>11, <1>12, <1>13, <1>14 DEF ShopNext

\* Steps keep what is known of the bargains under way: an item a session is
\* paying the store for is in its hands, which no other session moves items from.
LEMMA NextBargains ==
    ASSUME ShopTypeOK, Bargains, [ShopNext]_shopVars
    PROVE  Bargains'
<1> USE ShopAssumption DEF ShopTypeOK, Bargains, Selling, Holders, Owners
<1>1. ASSUME NEW t \in Traders, Drop(t) \/ Get(t) \/ Buy(t) \/ Sell(t)
      PROVE Bargains'
  BY <1>1 DEF Drop, Get, Buy, Sell, Chooses, Orders, Turns, ItemsIn,
         worldOfItems, money
<1>2. ASSUME NEW t \in Traders, Deposit(t) \/ Withdraw(t)
      PROVE Bargains'
  BY <1>2 DEF Deposit, Withdraw, Chooses, Orders, Turns, ItemsIn, worldOfItems,
         money
<1>3. ASSUME NEW t \in Traders, Shops(t) \/ Open(t) \/ Close(t)
      PROVE Bargains'
  BY <1>3 DEF Shops, Open, Openable, Close, Orders, Turns, ItemsIn, worldOfItems,
         money
<1>4. ASSUME NEW t \in Traders, Moves(t)
      PROVE Bargains'
  BY <1>4 DEF Moves, CanMove, Turns, money, locals
<1>5. ASSUME NEW t \in Traders, Debit(t) \/ Credit(t)
      PROVE Bargains'
  <2>1. /\ at[t] \in {"debit", "credit"} /\ at'[t] \in {"pay", "collect"}
        /\ \A u \in Traders : u # t => at'[u] = at[u]
        /\ UNCHANGED <<deal, opened, container>>
    <3>1. \/ at[t] = "debit" /\ at' = [at EXCEPT ![t] = "pay"]
          \/ at[t] = "credit" /\ at' = [at EXCEPT ![t] = "collect"]
      BY <1>5 DEF Debit, Credit, Turns
    <3>2. UNCHANGED <<deal, opened, container>>
      BY <1>5 DEF Debit, Credit, Reads, worldOfItems
    <3>3. QED BY <3>1, <3>2
  <2>2. QED BY <2>1
<1>6. ASSUME NEW t \in Traders, Pay(t) \/ Collect(t)
      PROVE Bargains'
  BY <1>6 DEF Pay, Collect, Turns, Writes, worldOfItems, locals
<1>7. ASSUME NEW t \in Traders, GiveCash(t) \/ TakeCash(t)
      PROVE Bargains'
  <2>1. /\ at'[t] \in {"gift", "idle"}
        /\ \A u \in Traders : u # t => at'[u] = at[u]
        /\ UNCHANGED <<deal, opened, container>>
    <3>1. \/ at' = [at EXCEPT ![t] = "gift"]
          \/ at' = [at EXCEPT ![t] = "idle"]
      BY <1>7 DEF GiveCash, TakeCash, Orders, Turns
    <3>2. UNCHANGED <<deal, opened, container>>
      BY <1>7 DEF GiveCash, TakeCash, Reads, Writes, worldOfItems, locals
    <3>3. QED BY <3>1, <3>2
  <2>2. QED BY <2>1
<1>8. ASSUME NEW t \in Traders, \E v \in Prices : SetValue(t, v)
      PROVE Bargains'
  BY <1>8 DEF SetValue, Orders, Turns, worldOfItems, locals
<1>9. ASSUME NEW t \in Traders, CreateItem(t)
      PROVE Bargains'
  BY <1>9 DEF CreateItem, Orders, Turns, money
<1>10. ASSUME NEW t \in Traders, Put(t)
      PROVE Bargains'
  BY <1>10 DEF Put, CanMove, Turns, money, locals
<1>11. ASSUME NEW t \in Traders, DestroyItem(t) \/ DeleteTemplate(t) \/ DeleteStore(t)
      PROVE Bargains'
  BY <1>11 DEF DestroyItem, DeleteTemplate, DeleteStore, Lists, Orders, Turns,
         ItemsIn, worldOfItems, money
<1>12. ASSUME NEW t \in Traders, DeleteObject(t)
      PROVE Bargains'
  BY <1>12 DEF DeleteObject
<1>13. ASSUME NEW t \in Traders, Purged(t) \/ CloseDown(t)
      PROVE Bargains'
  BY <1>13 DEF Purged, CloseDown, worldOfItems, Turns, money, locals
<1>14. CASE UNCHANGED shopVars
  BY <1>14 DEF shopVars, worldOfItems, money, locals
<1>15. QED BY <1>1, <1>2, <1>3, <1>4, <1>5, <1>6, <1>7, <1>8, <1>9, <1>10,
       <1>11, <1>12, <1>13, <1>14 DEF ShopNext

\* A session opens and closes boxes only at its prompts.
LEMMA NextRoutes ==
    ASSUME ShopTypeOK, Routes, [ShopNext]_shopVars
    PROVE  Routes'
<1> USE ShopAssumption DEF ShopTypeOK, Routes
<1>1. ASSUME NEW t \in Traders, Drop(t) \/ Get(t) \/ Buy(t) \/ Sell(t)
      PROVE Routes'
  BY <1>1 DEF Drop, Get, Buy, Sell, Chooses, Orders, Turns, ItemsIn,
         worldOfItems, money
<1>2. ASSUME NEW t \in Traders, Deposit(t) \/ Withdraw(t)
      PROVE Routes'
  BY <1>2 DEF Deposit, Withdraw, Chooses, Orders, Turns, ItemsIn, worldOfItems,
         money
<1>3. ASSUME NEW t \in Traders, Shops(t) \/ Open(t) \/ Close(t)
      PROVE Routes'
  BY <1>3 DEF Shops, Open, Openable, Close, Orders, Turns, ItemsIn, worldOfItems,
         money
<1>4. ASSUME NEW t \in Traders, Moves(t)
      PROVE Routes'
  BY <1>4 DEF Moves, CanMove, Turns, money, locals
<1>5. ASSUME NEW t \in Traders, Debit(t) \/ Credit(t)
      PROVE Routes'
  <2>1. /\ at[t] \in {"debit", "credit"} /\ at'[t] \in {"pay", "collect"}
        /\ \A u \in Traders : u # t => at'[u] = at[u]
        /\ UNCHANGED <<deal, opened, container>>
    <3>1. \/ at[t] = "debit" /\ at' = [at EXCEPT ![t] = "pay"]
          \/ at[t] = "credit" /\ at' = [at EXCEPT ![t] = "collect"]
      BY <1>5 DEF Debit, Credit, Turns
    <3>2. UNCHANGED <<deal, opened, container>>
      BY <1>5 DEF Debit, Credit, Reads, worldOfItems
    <3>3. QED BY <3>1, <3>2
  <2>2. QED BY <2>1
<1>6. ASSUME NEW t \in Traders, Pay(t) \/ Collect(t)
      PROVE Routes'
  BY <1>6 DEF Pay, Collect, Turns, Writes, worldOfItems, locals
<1>7. ASSUME NEW t \in Traders, GiveCash(t) \/ TakeCash(t)
      PROVE Routes'
  <2>1. /\ at'[t] \in {"gift", "idle"}
        /\ \A u \in Traders : u # t => at'[u] = at[u]
        /\ UNCHANGED <<deal, opened, container>>
    <3>1. \/ at' = [at EXCEPT ![t] = "gift"]
          \/ at' = [at EXCEPT ![t] = "idle"]
      BY <1>7 DEF GiveCash, TakeCash, Orders, Turns
    <3>2. UNCHANGED <<deal, opened, container>>
      BY <1>7 DEF GiveCash, TakeCash, Reads, Writes, worldOfItems, locals
    <3>3. QED BY <3>1, <3>2
  <2>2. QED BY <2>1
<1>8. ASSUME NEW t \in Traders, \E v \in Prices : SetValue(t, v)
      PROVE Routes'
  BY <1>8 DEF SetValue, Orders, Turns, worldOfItems, locals
<1>9. ASSUME NEW t \in Traders, CreateItem(t)
      PROVE Routes'
  BY <1>9 DEF CreateItem, Orders, Turns, money
<1>10. ASSUME NEW t \in Traders, Put(t)
      PROVE Routes'
  BY <1>10 DEF Put, CanMove, Turns, money, locals
<1>11. ASSUME NEW t \in Traders, DestroyItem(t) \/ DeleteTemplate(t) \/ DeleteStore(t)
      PROVE Routes'
  BY <1>11 DEF DestroyItem, DeleteTemplate, DeleteStore, Lists, Orders, Turns,
         ItemsIn, worldOfItems, money
<1>12. ASSUME NEW t \in Traders, DeleteObject(t)
      PROVE Routes'
  BY <1>12 DEF DeleteObject
<1>13. ASSUME NEW t \in Traders, Purged(t) \/ CloseDown(t)
      PROVE Routes'
  BY <1>13 DEF Purged, CloseDown, worldOfItems, Turns, money, locals
<1>14. CASE UNCHANGED shopVars
  BY <1>14 DEF shopVars, worldOfItems, money, locals
<1>15. QED BY <1>1, <1>2, <1>3, <1>4, <1>5, <1>6, <1>7, <1>8, <1>9, <1>10,
       <1>11, <1>12, <1>13, <1>14 DEF ShopNext

\* A box never comes to be inside itself.  A step adds one edge to the graph of
\* boxes, sessions and what they are in: into the room, the store or a session
\* with no box open, where no path goes on; from a session to a box in the room;
\* or from an item to a box or a session that the item has left by the edges in
\* the other order, so that a new cycle would have been there before.
LEMMA NextAcyclic ==
    ASSUME ShopTypeOK, Routes, Acyclic, [ShopNext]_shopVars
    PROVE  Acyclic'
<1> USE ShopAssumption
<1>0. ASSUME UNCHANGED <<container, opened>> PROVE Acyclic'
  BY <1>0, <1>0 DEF Acyclic, Enclosing
<1>1. ASSUME NEW t \in Traders, Drop(t) \/ Get(t) \/ Buy(t) \/ Sell(t)
      PROVE Acyclic'
  BY <1>0, <1>1 DEF Drop, Get, Buy, Sell, Chooses, Orders, Turns, ItemsIn,
         worldOfItems, money
<1>2. ASSUME NEW t \in Traders, Deposit(t) \/ Withdraw(t)
      PROVE Acyclic'
  BY <1>0, <1>2 DEF Deposit, Withdraw, Chooses, Orders, Turns, ItemsIn, worldOfItems,
         money
<1>3. ASSUME NEW t \in Traders, Shops(t) \/ Open(t) \/ Close(t)
      PROVE Acyclic'
  <2> SUFFICES ASSUME NEW S \in SUBSET (Boxes \cup Traders), S # {},
                      \A x \in S : Enclosing(x)' \in S
               PROVE  FALSE
      BY DEF Acyclic
  <2>1. PICK b \in Boxes \cup {NoBox, Store} :
           /\ opened' = [opened EXCEPT ![t] = b] /\ container' = container
           /\ b \in Boxes => container[b] = Hall
    BY <1>3 DEF Shops, Open, Openable, Close, ItemsIn, worldOfItems
  <2>2. opened \in [Traders -> Boxes \cup {NoBox, Store}]
    BY DEF ShopTypeOK
  <2>3. CASE t \in S
    <3>1. b \in S
      BY <2>1, <2>2, <2>3 DEF Enclosing
    <3>2. b \in Boxes /\ container[b] = Hall
      BY <2>1, <3>1
    <3>3. Hall \in S
      BY <2>1, <3>1, <3>2 DEF Enclosing
    <3>4. QED BY <3>3
  <2>4. CASE t \notin S
    <3>1. \A x \in S : Enclosing(x) \in S
      BY <2>1, <2>2, <2>4 DEF Enclosing
    <3>2. QED BY <3>1 DEF Acyclic
  <2>5. QED BY <2>3, <2>4
<1>4. ASSUME NEW t \in Traders, Moves(t)
      PROVE Acyclic'
  <2> SUFFICES ASSUME NEW S \in SUBSET (Boxes \cup Traders), S # {},
                      \A x \in S : Enclosing(x)' \in S
               PROVE  FALSE
      BY DEF Acyclic
  <2> DEFINE i == deal[t].item
             to == deal[t].to
  <2>1. /\ at[t] = "move" /\ opened' = opened
        /\ \/ container' = container
           \/ container[i] = deal[t].from /\ container' = [container EXCEPT ![i] = to]
    BY <1>4 DEF Moves, CanMove, Turns, locals
  <2>2. i \in Items /\ to \in Holders
    BY DEF ShopTypeOK
  <2>3. (\A x \in S : Enclosing(x) \in S) => FALSE
    BY DEF Acyclic
  <2>4. CASE container' = container
    BY <2>1, <2>3, <2>4 DEF Enclosing
  <2>5. CASE i \notin S
    BY <2>1, <2>2, <2>3, <2>5 DEF Enclosing, ShopTypeOK
  <2>6. CASE /\ i \in S /\ container[i] = deal[t].from
             /\ container' = [container EXCEPT ![i] = to]
    <3>1. i \in Boxes /\ to \in S
      BY <2>2, <2>6 DEF Enclosing, ShopTypeOK
    <3>2. \A x \in S \ {i} : Enclosing(x) \in S
      BY <2>1, <2>2, <2>6 DEF Enclosing, ShopTypeOK
    <3>3. to \notin {Hall, Store}
      BY <3>1
    <3>4. t \notin Boxes /\ Enclosing(t) = opened[t]
      BY DEF Enclosing
    <3>5. CASE opened[t] = NoBox
      <4>1. to = t
        BY <2>1, <3>3, <3>5 DEF Routes
      <4>2. Enclosing(t) \in S
        BY <4>1, <3>1, <3>2, <3>4
      <4>3. QED BY <4>2, <3>4, <3>5
    <3>6. CASE deal[t].from = t /\ to = opened[t]
      <4>1. Enclosing(t) \in S /\ Enclosing(i) = t
        BY <3>1, <3>4, <3>6, <2>6 DEF Enclosing
      <4>2. \A x \in S \cup {t} : Enclosing(x) \in S \cup {t}
        BY <4>1, <3>2
      <4>3. S \cup {t} \in SUBSET (Boxes \cup Traders)
        OBVIOUS
      <4>4. QED BY <4>2, <4>3 DEF Acyclic
    <3>7. CASE deal[t].from = opened[t] /\ to = t
      <4>1. opened[t] \in S
        BY <3>1, <3>2, <3>4, <3>7
      <4>2. Enclosing(i) \in S
        BY <4>1, <3>1, <3>7, <2>6 DEF Enclosing
      <4>3. QED BY <4>2, <3>2, <2>3
    <3>8. QED BY <3>5, <3>6, <3>7, <2>1 DEF Routes
  <2>7. QED BY <2>1, <2>4, <2>5, <2>6
<1>5. ASSUME NEW t \in Traders, Debit(t) \/ Credit(t)
      PROVE Acyclic'
  BY <1>0, <1>5 DEF Debit, Credit, Turns, Reads, Purse, worldOfItems
<1>6. ASSUME NEW t \in Traders, Pay(t) \/ Collect(t)
      PROVE Acyclic'
  BY <1>0, <1>6 DEF Pay, Collect, Turns, Writes, worldOfItems, locals
<1>7. ASSUME NEW t \in Traders, GiveCash(t) \/ TakeCash(t)
      PROVE Acyclic'
  BY <1>0, <1>7 DEF GiveCash, TakeCash, Orders, Turns, Reads, Writes, Purse,
         worldOfItems, locals
<1>8. ASSUME NEW t \in Traders, \E v \in Prices : SetValue(t, v)
      PROVE Acyclic'
  BY <1>0, <1>8 DEF SetValue, Orders, Turns, worldOfItems, locals
<1>9. ASSUME NEW t \in Traders, CreateItem(t)
      PROVE Acyclic'
  BY <1>0, <1>9 DEF CreateItem, Orders, Turns, money
<1>10. ASSUME NEW t \in Traders, Put(t)
      PROVE Acyclic'
  <2> SUFFICES ASSUME NEW S \in SUBSET (Boxes \cup Traders), S # {},
                      \A x \in S : Enclosing(x)' \in S
               PROVE  FALSE
      BY DEF Acyclic
  <2>1. /\ opened[t] = NoBox /\ opened' = opened
        /\ container' = [container EXCEPT ![deal[t].item] = t]
    BY <1>0, <1>10 DEF Put, Turns, locals, Routes
  <2>2. deal[t].item \in Items /\ container \in [Items -> Holders]
    BY DEF ShopTypeOK
  <2>3. CASE t \in S
    <3>1. opened[t] \in S
      BY <2>1, <2>3 DEF Enclosing
    <3>2. QED BY <2>1, <3>1
  <2>4. CASE t \notin S
    <3>1. deal[t].item \notin S
      BY <2>1, <2>2, <2>4 DEF Enclosing
    <3>2. \A x \in S : Enclosing(x) \in S
      BY <2>1, <2>2, <3>1 DEF Enclosing
    <3>3. QED BY <3>2 DEF Acyclic
  <2>5. QED BY <2>3, <2>4
<1>11. ASSUME NEW t \in Traders, DestroyItem(t) \/ DeleteTemplate(t) \/ DeleteStore(t)
      PROVE Acyclic'
  BY <1>0, <1>11 DEF DestroyItem, DeleteTemplate, DeleteStore, Lists, Orders, Turns,
         ItemsIn, worldOfItems, money
<1>12. ASSUME NEW t \in Traders, DeleteObject(t)
      PROVE Acyclic'
  BY <1>0, <1>12 DEF DeleteObject
<1>13. ASSUME NEW t \in Traders, Purged(t) \/ CloseDown(t)
      PROVE Acyclic'
  BY <1>0, <1>13 DEF Purged, CloseDown, worldOfItems, Turns, money, locals
<1>14. CASE UNCHANGED shopVars
  BY <1>0, <1>14 DEF shopVars, worldOfItems, money, locals
<1>15. QED BY <1>1, <1>2, <1>3, <1>4, <1>5, <1>6, <1>7, <1>8, <1>9, <1>10,
       <1>11, <1>12, <1>13, <1>14 DEF ShopNext

\* In any state with these bargains nothing is sold twice: a session sells only
\* from its own hands, and what the store sold is in the hands of the buyer.
LEMMA BargainsAreOne == ShopTypeOK /\ Bargains => NothingSoldTwice
<1> SUFFICES ASSUME ShopTypeOK, Bargains, NEW t \in Traders, NEW u \in Traders,
                    at[t] \in Selling, at[u] \in Selling,
                    deal[t].item = deal[u].item, deal[t].from = deal[u].from
             PROVE  t = u
    BY DEF NothingSoldTwice, Selling
<1>1. CASE deal[t].from = Store
  <2>1. container[deal[t].item] = t
    BY <1>1 DEF Bargains
  <2>2. container[deal[u].item] = u
    BY <1>1 DEF Bargains
  <2>3. QED BY <2>1, <2>2
<1>2. CASE deal[t].from # Store
  BY <1>2 DEF Bargains
<1>3. QED BY <1>1, <1>2

\* The invariant holds when the shop opens: nobody is selling and no box is open.
LEMMA InitShopInv == ShopInit => ShopInv
<1> SUFFICES ASSUME ShopInit PROVE ShopInv
    OBVIOUS
<1> USE ShopAssumption
<1>1. ShopTypeOK
  <2>1. (CHOOSE i \in Items : TRUE) \in Items /\ (CHOOSE v \in Prices : TRUE) \in Prices
    OBVIOUS
  <2>2. NoDeal \in [item : Items, from : Holders, to : Holders, sale : BOOLEAN]
    BY <2>1 DEF NoDeal, Holders
  <2>3. /\ deal \in [Traders -> [item : Items, from : Holders, to : Holders, sale : BOOLEAN]]
        /\ price \in Prices
    BY <2>1, <2>2 DEF ShopInit
  <2>4. /\ items \subseteq Items /\ unmade \subseteq Items
        /\ container \in [Items -> Holders]
    BY DEF ShopInit, Holders, Owners
  <2>5. /\ issued \in Nat /\ lost \in Int /\ cash \in [Owners -> Int] /\ purse \in [Traders -> Int]
        /\ deals \in [Traders -> Nat] /\ \A t \in Traders : deals[t] <= MaxDeals[t]
    BY DEF ShopInit
  <2>6. /\ at \in [Traders -> Whereabouts] /\ storeOpen \in BOOLEAN /\ clashed \in BOOLEAN
        /\ opened \in [Traders -> Boxes \cup {NoBox, Store}] /\ purge \in [Traders -> SUBSET Items]
    BY DEF ShopInit, Whereabouts
  <2>7. QED BY <2>3, <2>4, <2>5, <2>6 DEF ShopTypeOK, Whereabouts
<1>2. Bargains /\ Routes
  BY DEF ShopInit, Bargains, Selling, Routes
<1>3. Acyclic
  <2> SUFFICES ASSUME NEW S \in SUBSET (Boxes \cup Traders), S # {}
               PROVE  \E x \in S : Enclosing(x) \notin S
      BY DEF Acyclic
  <2>1. PICK x \in S : TRUE
    OBVIOUS
  <2>2. Enclosing(x) \in {Store, Hall, NoBox}
    BY DEF ShopInit, Enclosing
  <2>3. QED BY <2>2
<1>4. QED BY <1>1, <1>2, <1>3 DEF ShopInv

\* The shop keeps its inductive invariant, in every behaviour.
THEOREM ShopInvariant == ShopSpec => []ShopInv
<1>1. ShopInv /\ [ShopNext]_shopVars => ShopInv'
  BY NextTypes, NextBargains, NextRoutes, NextAcyclic DEF ShopInv
<1>2. QED BY <1>1, InitShopInv, PTL DEF ShopSpec

\* The variables keep their types.
THEOREM ShopTypes == ShopSpec => []ShopTypeOK
  BY ShopInvariant, PTL DEF ShopInv

\* Nothing is paid for twice, however many sessions have it in their menus.
THEOREM NothingIsSoldTwice == ShopSpec => []NothingSoldTwice
  BY ShopInvariant, BargainsAreOne, PTL DEF ShopInv

\* Boxes are never inside each other in a circle, however many there are.
THEOREM WeighingAlwaysEnds == ShopSpec => []WeighingEnds
<1>1. ShopInv => WeighingEnds
  <2> SUFFICES ASSUME Acyclic, NEW S \in SUBSET (items \cap Boxes), S # {}
               PROVE  \E b \in S : container[b] \notin S
      BY DEF ShopInv, WeighingEnds
  <2>1. PICK b \in S : Enclosing(b) \notin S
    BY DEF Acyclic
  <2>2. QED BY <2>1 DEF Enclosing
<1>2. QED BY <1>1, ShopInvariant, PTL

-----------------------------------------------------------------------------
(* The shop: cash                                                          *)

\* What the sales owe.
Owes == [t \in Traders |-> Owed(t)]

\* Whose cash a session has read and not written yet is nobody else's to
\* write, and still what was read.
HeldPurses ==
    \A t \in Traders :
        /\ at[t] = "pay" => purse[t] = cash[deal[t].to] - price
        /\ at[t] = "gift" => purse[t] = cash[t] + 1
        /\ \A u \in Traders : t # u /\ Purse(t) # NoBox => Purse(t) # Purse(u)

Balanced == Total(Owned) + Total(Owes) = issued - lost

\* No sale is being paid when the store is gone.
Closed == ~storeOpen => \A t \in Traders : at[t] \notin {"pay", "credit", "collect"}

\* The books: what those in the database have and what sales still owe is what
\* was given out, less what the store took with it.
Books == ~clashed => HeldPurses /\ Balanced /\ Closed

\* Whose cash a session holds, and what a sale owes.
LEMMA PursesKnown ==
    ASSUME ShopTypeOK, Bargains, NEW t \in Traders
    PROVE  /\ at[t] = "pay" => Purse(t) = deal[t].to
           /\ at[t] = "collect" => Purse(t) = deal[t].from
           /\ at[t] = "gift" => Purse(t) = t
           /\ at[t] \notin {"pay", "collect", "gift"} => Purse(t) = NoBox
           /\ at[t] \in Selling => deal[t].from \in Owners /\ deal[t].to \in Owners
           /\ Purse(t) # NoBox => Purse(t) \in Owners
           /\ NoBox \notin Owners
           /\ Owed(t) \in Int
<1>1. /\ at[t] = "pay" => Purse(t) = deal[t].to
      /\ at[t] = "collect" => Purse(t) = deal[t].from
      /\ at[t] = "gift" => Purse(t) = t
      /\ at[t] \notin {"pay", "collect", "gift"} => Purse(t) = NoBox
  BY DEF Purse
<1>2. at[t] \in Selling => deal[t].from \in Owners /\ deal[t].to \in Owners
  BY DEF Bargains, Owners
<1>3. NoBox \notin Owners
  BY ShopAssumption DEF ShopAssumption, Owners
<1>4. Purse(t) # NoBox => Purse(t) \in Owners
  <2>1. t \in Owners
    BY DEF Owners
  <2>2. QED BY <1>1, <1>2, <2>1 DEF Selling
<1>5. Owed(t) \in Int
  <2>1. price \in Int
    BY ShopAssumption DEF ShopAssumption, ShopTypeOK
  <2>2. at[t] = "collect" => purse[t] \in Int /\ cash[deal[t].from] \in Int
    BY <1>2 DEF ShopTypeOK, Selling
  <2>3. QED BY <2>1, <2>2 DEF Owed
<1>6. QED BY <1>1, <1>2, <1>3, <1>4, <1>5

\* Owners are finitely many, and what they have and owe are integers.
LEMMA SumsDefined ==
    ASSUME ShopTypeOK, Bargains
    PROVE  /\ IsFiniteSet(Owners) /\ IsFiniteSet(Traders)
           /\ Owned \in [Owners -> Int] /\ Owes \in [Traders -> Int]
           /\ Total(Owned) \in Int /\ Total(Owes) \in Int
<1>1. IsFiniteSet(Traders) /\ IsFiniteSet(Owners)
  BY ShopAssumption, FS_Singleton, FS_Union DEF ShopAssumption, Owners
<1>2. Owned \in [Owners -> Int]
  BY DEF ShopTypeOK, Owned
<1>3. Owes \in [Traders -> Int]
  BY PursesKnown DEF Owes
<1>4. Store \in Owners /\ Keeper \in Traders
  BY ShopAssumption DEF ShopAssumption, Owners
<1>5. Total(Owned) \in Int
  BY <1>1, <1>2, <1>4, TotalUpdate
<1>6. Total(Owes) \in Int
  BY <1>1, <1>3, <1>4, TotalUpdate
<1>7. QED BY <1>1, <1>2, <1>3, <1>5, <1>6

\* Steps that leave cash and the sessions with a purse alone.
LEMMA QuietBooks ==
    ASSUME ShopTypeOK, Bargains, Books, clashed => clashed',
           cash' = cash, issued' = issued, lost' = lost, storeOpen' = storeOpen,
           ~clashed' => price' = price \/ \A t \in Traders : at[t] \notin {"pay", "credit"},
           \A t \in Traders :
               \/ at'[t] = at[t] /\ deal'[t] = deal[t] /\ purse'[t] = purse[t]
               \/ {at[t], at'[t]} \cap {"pay", "credit", "collect", "gift"} = {}
    PROVE  Books'
<1> SUFFICES ASSUME ~clashed' PROVE HeldPurses' /\ Balanced' /\ Closed'
  BY DEF Books
<1>1. HeldPurses /\ Balanced /\ Closed /\ (price' = price \/ \A t \in Traders : at[t] \notin {"pay", "credit"})
  BY DEF Books
<1>2. ASSUME NEW t \in Traders PROVE Purse(t)' = Purse(t) /\ Owed(t)' = Owed(t)
  BY <1>1 DEF Purse, Owed
<1>3. Owes' = Owes
  BY <1>2 DEF Owes
<1>4. Balanced' /\ Closed'
  <2>1. Owned' = Owned
    BY DEF Owned
  <2>2. QED BY <1>1, <1>3, <2>1 DEF Balanced, Closed
<1>5. HeldPurses'
  <2> SUFFICES ASSUME NEW t \in Traders
               PROVE  /\ at'[t] = "pay" => purse'[t] = cash'[deal'[t].to] - price'
                      /\ at'[t] = "gift" => purse'[t] = cash'[t] + 1
                      /\ \A u \in Traders : t # u /\ Purse(t)' # NoBox => Purse(t)' # Purse(u)'
    BY DEF HeldPurses
  <2>1. at'[t] = "pay" => purse'[t] = cash'[deal'[t].to] - price'
    BY <1>1 DEF HeldPurses
  <2>2. at'[t] = "gift" => purse'[t] = cash'[t] + 1
    BY <1>1 DEF HeldPurses
  <2>3. \A u \in Traders : t # u /\ Purse(t)' # NoBox => Purse(t)' # Purse(u)'
    BY <1>1, <1>2 DEF HeldPurses
  <2>4. QED BY <2>1, <2>2, <2>3
<1>6. QED BY <1>4, <1>5

\* A session reads someone's cash: what it is to write is not wrong yet.
LEMMA ReadBooks ==
    ASSUME ShopTypeOK, Bargains, Books, NEW t \in Traders, NEW o \in Owners, NEW sum,
           NEW a, NEW b \in {"pay", "collect", "gift"}, Turns(t, a, b), Reads(t, o, sum),
           a \notin {"pay", "collect", "gift"},
           deal' = deal,
           b = "pay" => a = "debit" /\ o = deal[t].to /\ sum = cash[o] - price,
           b = "collect" => a = "credit" /\ o = deal[t].from /\ sum = cash[o] + price,
           b = "gift" => a = "idle" /\ o = t /\ sum = cash[o] + 1
    PROVE  Books'
<1> SUFFICES ASSUME ~clashed' PROVE HeldPurses' /\ Balanced' /\ Closed'
  BY DEF Books
<1>1. /\ HeldPurses /\ Balanced /\ Closed /\ \A u \in Traders : Purse(u) # o
      /\ cash' = cash /\ price' = price /\ issued' = issued /\ deal' = deal
      /\ lost' = lost /\ storeOpen' = storeOpen /\ (storeOpen \/ a \notin {"debit", "credit"})
      /\ at[t] = a /\ at'[t] = b /\ purse'[t] = sum
      /\ \A u \in Traders : u # t => at'[u] = at[u] /\ purse'[u] = purse[u]
  BY DEF Books, Reads, Turns, ShopTypeOK, worldOfItems
<1>2. Purse(t)' = o /\ o # NoBox
  BY <1>1, PursesKnown DEF Purse
<1>3. ASSUME NEW u \in Traders, u # t PROVE Purse(u)' = Purse(u) /\ Owed(u)' = Owed(u)
  BY <1>1, <1>3 DEF Purse, Owed
<1>4. Owed(t)' = Owed(t)
  <2>1. price \in Int /\ cash[o] \in Int
    BY ShopAssumption DEF ShopAssumption, ShopTypeOK
  <2>2. CASE b = "collect"
    BY <1>1, <2>1, <2>2 DEF Owed
  <2>3. CASE b # "collect"
    BY <1>1, <2>3 DEF Owed
  <2>4. QED BY <2>2, <2>3
<1>5. Balanced' /\ Closed'
  <2>1. Owes' = Owes /\ Owned' = Owned
    BY <1>1, <1>3, <1>4 DEF Owes, Owned
  <2>2. QED BY <1>1, <2>1 DEF Balanced, Closed
<1>6. HeldPurses'
  <2> SUFFICES ASSUME NEW v \in Traders
               PROVE  /\ at'[v] = "pay" => purse'[v] = cash'[deal'[v].to] - price'
                      /\ at'[v] = "gift" => purse'[v] = cash'[v] + 1
                      /\ \A u \in Traders : v # u /\ Purse(v)' # NoBox => Purse(v)' # Purse(u)'
    BY DEF HeldPurses
  <2>1. at'[v] = "pay" => purse'[v] = cash'[deal'[v].to] - price'
    BY <1>1 DEF HeldPurses
  <2>2. at'[v] = "gift" => purse'[v] = cash'[v] + 1
    BY <1>1 DEF HeldPurses
  <2>3. \A u \in Traders : v # u /\ Purse(v)' # NoBox => Purse(v)' # Purse(u)'
    BY <1>1, <1>2, <1>3 DEF HeldPurses
  <2>4. QED BY <2>1, <2>2, <2>3
<1>7. QED BY <1>5, <1>6

\* A session writes what it has read: the others' purses are not that one.
LEMMA WriteBooks ==
    ASSUME ShopTypeOK, Bargains, Books, NEW t \in Traders, NEW o \in Owners,
           NEW a \in {"pay", "collect", "gift"}, NEW b, Turns(t, a, b), Writes(t, o),
           a = "pay" => b = "credit" /\ o = deal[t].to /\ issued' = issued,
           a = "collect" => b = "idle" /\ o = deal[t].from /\ issued' = issued,
           a = "gift" => b = "idle" /\ o = t /\ issued' = issued + 1
    PROVE  Books'
<1> SUFFICES ASSUME ~clashed' PROVE HeldPurses' /\ Balanced' /\ Closed'
  BY DEF Books
<1>1. /\ HeldPurses /\ Balanced /\ Closed
      /\ price' = price /\ deal' = deal /\ purse' = purse
      /\ lost' = lost /\ storeOpen' = storeOpen
      /\ at[t] = a /\ at'[t] = b /\ cash' = [cash EXCEPT ![o] = purse[t]]
      /\ \A u \in Traders : u # t => at'[u] = at[u]
  BY DEF Books, Writes, locals, worldOfItems, Turns, ShopTypeOK
<1>0. o # Store \/ storeOpen
  <2>1. t # Store
    BY ShopAssumption DEF ShopAssumption
  <2>2. QED BY <1>1, <2>1 DEF Closed
<1>2. Purse(t) = o /\ o # NoBox
  BY <1>1, PursesKnown DEF Purse
<1>3. ASSUME NEW u \in Traders, u # t
      PROVE  Purse(u) # o /\ Purse(u)' = Purse(u)
  BY <1>1, <1>2, <1>3 DEF Purse, HeldPurses
<1>4. Purse(t)' = NoBox
  BY <1>1 DEF Purse
<1>5. ASSUME NEW p \in Owners, p # o PROVE cash'[p] = cash[p]
  BY <1>1, <1>5 DEF ShopTypeOK
<1>6. ASSUME NEW u \in Traders, u # t PROVE Owed(u)' = Owed(u)
  <2>1. at[u] = "collect" => deal[u].from \in Owners /\ deal[u].from # o
    BY <1>3, <1>6, PursesKnown DEF Selling
  <2>2. QED BY <1>1, <1>5, <1>6, <2>1 DEF Owed
<1>7. HeldPurses'
  <2> SUFFICES ASSUME NEW v \in Traders
               PROVE  /\ at'[v] = "pay" => purse'[v] = cash'[deal'[v].to] - price'
                      /\ at'[v] = "gift" => purse'[v] = cash'[v] + 1
                      /\ \A u \in Traders : v # u /\ Purse(v)' # NoBox => Purse(v)' # Purse(u)'
    BY DEF HeldPurses
  <2>1. at'[v] = "pay" => purse'[v] = cash'[deal'[v].to] - price'
    <3> SUFFICES ASSUME at'[v] = "pay" PROVE purse'[v] = cash'[deal'[v].to] - price'
      OBVIOUS
    <3>1. v # t /\ at[v] = "pay"
      BY <1>1
    <3>2. deal[v].to \in Owners /\ deal[v].to # o
      BY <1>3, <3>1, PursesKnown DEF Selling
    <3>3. QED BY <1>1, <1>5, <3>1, <3>2 DEF HeldPurses
  <2>2. at'[v] = "gift" => purse'[v] = cash'[v] + 1
    <3> SUFFICES ASSUME at'[v] = "gift" PROVE purse'[v] = cash'[v] + 1
      OBVIOUS
    <3>1. v # t /\ at[v] = "gift"
      BY <1>1
    <3>2. v \in Owners /\ v # o
      BY <1>3, <3>1, PursesKnown DEF Owners
    <3>3. QED BY <1>1, <1>5, <3>1, <3>2 DEF HeldPurses
  <2>3. \A u \in Traders : v # u /\ Purse(v)' # NoBox => Purse(v)' # Purse(u)'
    BY <1>1, <1>3, <1>4 DEF HeldPurses
  <2>4. QED BY <2>1, <2>2, <2>3
<1>8. Balanced'
  <2> DEFINE had == cash[o]
             has == purse[t]
             owed == Owed(t)
             owes == Owed(t)'
  <2>1. price \in Int /\ had \in Int /\ has \in Int /\ issued \in Int /\ lost \in Int
    BY ShopAssumption DEF ShopAssumption, ShopTypeOK
  <2>2. owed \in Int /\ owes \in Int /\ has - had + owes - owed = issued' - issued /\ issued' \in Int
    <3>1. CASE a = "pay"
      <4>1. owed = 0 /\ owes = price /\ has = had - price /\ issued' = issued
        BY <1>1, <3>1 DEF Owed, HeldPurses
      <4>2. QED BY <2>1, <4>1
    <3>2. CASE a = "collect"
      <4>1. owed = has - had /\ owes = 0 /\ issued' = issued
        BY <1>1, <3>2 DEF Owed
      <4>2. QED BY <2>1, <4>1
    <3>3. CASE a = "gift"
      <4>1. owed = 0 /\ owes = 0 /\ has = had + 1 /\ issued' = issued + 1
        BY <1>1, <3>3 DEF Owed, HeldPurses
      <4>2. QED BY <2>1, <4>1
    <3>4. QED BY <3>1, <3>2, <3>3
  <2>3. Owes' = [Owes EXCEPT ![t] = owes]
    BY <1>6 DEF Owes
  <2>4. Total(Owned) \in Int /\ Total(Owned') = Total(Owned) - had + has
    <3>1. Owned[o] = had
      BY <1>0 DEF Owned
    <3>2. Owned' = [Owned EXCEPT ![o] = has] /\ has \in Int
      BY <1>0, <1>1, <2>1 DEF Owned, ShopTypeOK
    <3> HIDE DEF has, had
    <3>3. IsFiniteSet(Owners) /\ Owned \in [Owners -> Int]
      BY SumsDefined
    <3>4. Total(Owned) \in Int /\ Total([Owned EXCEPT ![o] = has]) = Total(Owned) - Owned[o] + has
      BY <3>2, <3>3, TotalUpdate
    <3>5. QED BY <3>1, <3>2, <3>4
  <2>5. Total(Owes) \in Int /\ Total(Owes') = Total(Owes) - owed + owes
    <3>1. Owes[t] = owed
      BY DEF Owes
    <3>2. IsFiniteSet(Traders) /\ Owes \in [Traders -> Int]
      BY SumsDefined
    <3> HIDE DEF owes, owed
    <3>3. /\ Total(Owes) \in Int
          /\ Total([Owes EXCEPT ![t] = owes]) = Total(Owes) - Owes[t] + owes
      BY <2>2, <3>2, TotalUpdate
    <3>4. QED BY <2>3, <3>1, <3>3
  <2>6. Total(Owned) + Total(Owes) = issued - lost
    BY <1>1 DEF Balanced
  <2> DEFINE all == Total(Owned)
             all2 == Total(Owned')
             due == Total(Owes)
             due2 == Total(Owes')
  <2>7. /\ all \in Int /\ all2 = all - had + has /\ due \in Int /\ due2 = due - owed + owes
        /\ all + due = issued - lost
    BY <2>4, <2>5, <2>6
  <2> HIDE DEF had, has, owed, owes, all, all2, due, due2
  <2> DEFINE issued2 == issued'
  <2>8. issued2 \in Int /\ has - had + owes - owed = issued2 - issued
    BY <2>2
  <2> HIDE DEF issued2
  <2>9. all2 + due2 = issued2 - lost
    BY <2>1, <2>2, <2>7, <2>8
  <2>10. QED BY <1>1, <2>9 DEF Balanced, all2, due2, issued2
<1>9. Closed'
  <2>1. at'[t] = "credit" => at[t] = "pay"
    BY <1>1
  <2>2. at'[t] \notin {"pay", "collect"}
    BY <1>1
  <2>3. QED BY <1>1, <2>1, <2>2 DEF Closed
<1>10. QED BY <1>7, <1>8, <1>9

\* The store is deleted, with the cash it has.
LEMMA ClosingBooks ==
    ASSUME ShopTypeOK, Bargains, Books, storeOpen, NEW t \in Traders, CloseDown(t)
    PROVE  Books'
<1> SUFFICES ASSUME ~clashed' PROVE HeldPurses' /\ Balanced' /\ Closed'
  BY DEF Books
<1>1. /\ HeldPurses /\ Balanced
      /\ price' = price /\ deal' = deal /\ purse' = purse /\ cash' = cash /\ issued' = issued
      /\ ~storeOpen' /\ lost' = lost + cash[Store]
      /\ \A u \in Traders : at[u] \notin {"pay", "credit", "collect"}
      /\ at[t] = "purgeStore" /\ at'[t] = "idle"
      /\ \A u \in Traders : u # t => at'[u] = at[u]
  BY DEF Books, CloseDown, Turns, locals, ShopTypeOK
<1>2. ASSUME NEW u \in Traders PROVE Purse(u)' = Purse(u) /\ Owed(u)' = Owed(u)
  BY <1>1 DEF Purse, Owed
<1>3. HeldPurses'
  BY <1>1, <1>2 DEF HeldPurses
<1>4. Closed'
  BY <1>1 DEF Closed
<1>5. Balanced'
  <2>1. Owes' = Owes
    BY <1>2 DEF Owes
  <2>2. Owned' = [Owned EXCEPT ![Store] = 0] /\ Owned[Store] = cash[Store]
    BY <1>1 DEF Owned, Owners
  <2>3. IsFiniteSet(Owners) /\ Owned \in [Owners -> Int] /\ Store \in Owners /\ 0 \in Int
        /\ cash[Store] \in Int /\ issued \in Int /\ lost \in Int
    BY SumsDefined DEF Owners, ShopTypeOK
  <2>4. /\ Total(Owned) \in Int
        /\ Total([Owned EXCEPT ![Store] = 0]) = Total(Owned) - Owned[Store] + 0
    BY <2>3, TotalUpdate
  <2> DEFINE all == Total(Owned)
             all2 == Total(Owned')
             due == Total(Owes)
             had == cash[Store]
  <2>5. /\ all \in Int /\ all2 = all - had /\ due \in Int /\ all + due = issued - lost
        /\ had \in Int /\ issued \in Int /\ lost \in Int
    BY <1>1, <2>2, <2>3, <2>4, SumsDefined DEF Balanced
  <2> HIDE DEF all, all2, due, had
  <2>6. all2 + due = issued - (lost + had)
    BY <2>5
  <2>7. QED BY <1>1, <2>1, <2>6 DEF Balanced, all2, due, had
<1>6. QED BY <1>3, <1>4, <1>5

\* Steps keep the books.
LEMMA NextBooks ==
    ASSUME ShopTypeOK, Bargains, Books, [ShopNext]_shopVars
    PROVE  Books'
<1>1. CASE UNCHANGED shopVars
  BY <1>1, QuietBooks DEF shopVars, worldOfItems, money, locals
<1>2. ASSUME NEW t \in Traders,
             Drop(t) \/ Get(t) \/ Buy(t) \/ Sell(t) \/ Deposit(t) \/ Withdraw(t)
      PROVE  Books'
  <2>1. /\ UNCHANGED money /\ storeOpen' = storeOpen /\ purse' = purse
        /\ at[t] = "idle" /\ at'[t] = "move"
        /\ \A u \in Traders : u # t => at'[u] = at[u] /\ deal'[u] = deal[u]
    BY <1>2 DEF Drop, Get, Buy, Sell, Deposit, Withdraw, Chooses, Orders, Turns, ShopTypeOK,
           worldOfItems
  <2>2. QED BY <2>1, QuietBooks DEF money
<1>3. ASSUME NEW t \in Traders, Shops(t) \/ Open(t) \/ Close(t)
      PROVE  Books'
  <2>1. /\ UNCHANGED money /\ storeOpen' = storeOpen /\ purse' = purse /\ deal' = deal
        /\ \A u \in Traders : at'[u] = at[u]
    BY <1>3 DEF Shops, Open, Close, Orders, Turns, ShopTypeOK, worldOfItems
  <2>2. QED BY <2>1, QuietBooks DEF money
<1>4. ASSUME NEW t \in Traders, Moves(t) PROVE Books'
  <2>1. /\ UNCHANGED money /\ storeOpen' = storeOpen /\ purse' = purse /\ deal' = deal
        /\ at[t] = "move" /\ at'[t] \in {"debit", "idle"}
        /\ \A u \in Traders : u # t => at'[u] = at[u]
    BY <1>4 DEF Moves, locals, Turns, ShopTypeOK
  <2>2. QED BY <2>1, QuietBooks DEF money
<1>5. ASSUME NEW t \in Traders, Debit(t) PROVE Books'
  <2>1. at[t] \in Selling
    BY <1>5 DEF Debit, Turns, Selling
  <2>2. deal[t].to \in Owners
    BY <2>1, PursesKnown
  <2> DEFINE sum == cash[deal[t].to] - price
  <2>3. Turns(t, "debit", "pay") /\ deal' = deal /\ Reads(t, deal[t].to, sum)
    BY <1>5 DEF Debit, Reads
  <2>4. sum = cash[deal[t].to] - price
    OBVIOUS
  <2> HIDE DEF sum
  <2>5. QED BY <2>2, <2>3, <2>4, ReadBooks
<1>6. ASSUME NEW t \in Traders, Credit(t) PROVE Books'
  <2>1. at[t] \in Selling
    BY <1>6 DEF Credit, Turns, Selling
  <2>2. deal[t].from \in Owners
    BY <2>1, PursesKnown
  <2> DEFINE sum == cash[deal[t].from] + price
  <2>3. Turns(t, "credit", "collect") /\ deal' = deal /\ Reads(t, deal[t].from, sum)
    BY <1>6 DEF Credit, Reads
  <2>4. sum = cash[deal[t].from] + price
    OBVIOUS
  <2> HIDE DEF sum
  <2>5. QED BY <2>2, <2>3, <2>4, ReadBooks
<1>7. ASSUME NEW t \in Traders, GiveCash(t) PROVE Books'
  <2>1. t \in Owners /\ Turns(t, "idle", "gift") /\ Reads(t, t, cash[t] + 1) /\ UNCHANGED deal
    BY <1>7 DEF GiveCash, Orders, Reads, Owners
  <2>2. QED BY <2>1, ReadBooks
<1>8. ASSUME NEW t \in Traders, Pay(t) PROVE Books'
  <2>1. at[t] \in Selling
    BY <1>8 DEF Pay, Turns, Selling
  <2>2. deal[t].to \in Owners
    BY <2>1, PursesKnown
  <2>3. QED BY <1>8, <2>2, WriteBooks DEF Pay
<1>9. ASSUME NEW t \in Traders, Collect(t) PROVE Books'
  <2>1. at[t] \in Selling
    BY <1>9 DEF Collect, Turns, Selling
  <2>2. deal[t].from \in Owners
    BY <2>1, PursesKnown
  <2>3. QED BY <1>9, <2>2, WriteBooks DEF Collect
<1>10. ASSUME NEW t \in Traders, TakeCash(t) PROVE Books'
  <2>1. t \in Owners
    BY DEF Owners
  <2>2. QED BY <1>10, <2>1, WriteBooks DEF TakeCash
<1>11. ASSUME NEW t \in Traders, NEW v \in Prices, SetValue(t, v) PROVE Books'
  <2>1. /\ cash' = cash /\ issued' = issued /\ lost' = lost /\ storeOpen' = storeOpen
        /\ purse' = purse /\ deal' = deal
        /\ clashed' = (clashed \/ \E u \in Traders : at[u] \in {"pay", "credit"})
        /\ \A u \in Traders : at'[u] = at[u]
    BY <1>11 DEF SetValue, Orders, Turns, locals, worldOfItems, ShopTypeOK
  <2>2. QED BY <2>1, QuietBooks
<1>12. ASSUME NEW t \in Traders, CreateItem(t) PROVE Books'
  <2>1. /\ UNCHANGED money /\ storeOpen' = storeOpen /\ purse' = purse
        /\ at[t] = "idle" /\ at'[t] = "put"
        /\ \A u \in Traders : u # t => at'[u] = at[u] /\ deal'[u] = deal[u]
    BY <1>12 DEF CreateItem, Orders, Turns, ShopTypeOK
  <2>2. QED BY <2>1, QuietBooks DEF money
<1>13. ASSUME NEW t \in Traders,
              \/ Put(t) \/ DestroyItem(t) \/ DeleteTemplate(t) \/ DeleteStore(t)
              \/ DeleteObject(t) \/ Purged(t)
       PROVE  Books'
  <2> DEFINE Elsewhere == {"idle", "put", "purge", "purgeStore", "panicked"}
  <2>1. /\ UNCHANGED money /\ storeOpen' = storeOpen /\ purse' = purse /\ deal' = deal
        /\ at[t] \in Elsewhere /\ at'[t] \in Elsewhere
        /\ \A u \in Traders : u # t => at'[u] = at[u]
    BY <1>13 DEF Put, DestroyItem, DeleteTemplate, DeleteStore, Lists, DeleteObject, Purged,
           Orders, Turns, locals, worldOfItems, ShopTypeOK
  <2>2. QED BY <2>1, QuietBooks DEF money
<1>14. ASSUME NEW t \in Traders, CloseDown(t) PROVE Books'
  <2>1. CASE ~storeOpen
    <3>1. /\ UNCHANGED money /\ storeOpen' = storeOpen /\ purse' = purse /\ deal' = deal
          /\ at[t] = "purgeStore" /\ at'[t] = "panicked"
          /\ \A u \in Traders : u # t => at'[u] = at[u]
      BY <1>14, <2>1 DEF CloseDown, Turns, locals, money, ShopTypeOK
    <3>2. QED BY <3>1, QuietBooks DEF money
  <2>2. CASE storeOpen
    BY <1>14, <2>2, ClosingBooks
  <2>3. QED BY <2>1, <2>2
<1>15. QED
  BY <1>1, <1>2, <1>3, <1>4, <1>5, <1>6, <1>7, <1>8, <1>9, <1>10, <1>11, <1>12, <1>13, <1>14
     DEF ShopNext

\* Nobody has anything and nothing is owed at the start.
LEMMA InitBooks == ShopInit => Books
<1> SUFFICES ASSUME ShopInit PROVE HeldPurses /\ Balanced /\ Closed
  BY DEF Books
<1>1. HeldPurses /\ Closed
  BY DEF ShopInit, HeldPurses, Purse, Closed
<1>2. Owes = [t \in Traders |-> 0] /\ Owned = [o \in Owners |-> 0] /\ issued = 0 /\ lost = 0
  BY DEF ShopInit, Owes, Owed, Owned
<1>3. IsFiniteSet(Traders) /\ IsFiniteSet(Owners)
  BY ShopAssumption, FS_Singleton, FS_Union DEF ShopAssumption, Owners
<1>4. Total(Owes) = 0 /\ Total(Owned) = 0
  BY <1>2, <1>3, TotalOfNothing
<1>5. QED BY <1>1, <1>2, <1>4 DEF Balanced

\* The books balance, in every behaviour.
THEOREM BooksBalance == ShopSpec => []Books
<1>1. ShopInv /\ Books /\ [ShopNext]_shopVars => Books'
  BY NextBooks DEF ShopInv
<1>2. QED BY <1>1, InitBooks, ShopInvariant, PTL DEF ShopSpec

\* The sums of Shop are those of the lemmas about totals.
LEMMA WorthIsTotal ==
    ASSUME NEW f
    PROVE  Worth(f) = Total(f)
BY DEF Worth, Total

\* When no sale is under way, what all have is what was given out, less what the
\* store had when it was deleted.
THEOREM CashIsAlwaysConserved == ShopSpec => []CashIsConserved
<1>1. ShopInv /\ Books => CashIsConserved
  <2> SUFFICES ASSUME ShopTypeOK, Bargains, Balanced,
                      \A t \in Traders : at[t] \notin {"pay", "credit", "collect"}
               PROVE  Total(Owned) = issued - lost
    BY WorthIsTotal DEF CashIsConserved, ShopInv, Books
  <2>1. Owes = [t \in Traders |-> 0]
    BY DEF Owes, Owed
  <2>2. Total(Owned) \in Int /\ Total(Owes) = 0 /\ Total(Owned) + Total(Owes) = issued - lost
    BY <2>1, SumsDefined, TotalOfNothing DEF Balanced
  <2>3. QED BY <2>2
<1>2. QED BY <1>1, BooksBalance, ShopInvariant, PTL

-----------------------------------------------------------------------------
(* The shop: the ledger it implements                                      *)

\* Only the keeper is about to write cash that nobody has paid.
Granting == \A t \in Traders : at[t] = "gift" => t = Keeper

\* Who has a balance: the store does while it is in the database.
HasBalance(o) == o # Store \/ storeOpen

\* What is owed to an owner is an integer, and the balances are too.
LEMMA BalanceDefined ==
    ASSUME ShopTypeOK, Bargains, NEW o \in Owners
    PROVE  /\ IsFiniteSet(Traders) /\ DueTo(o) \in [Traders -> Int] /\ Total(DueTo(o)) \in Int
           /\ cash[o] \in Int
           /\ Balance[o] = (IF HasBalance(o) THEN cash[o] + Total(DueTo(o)) ELSE 0)
           /\ Balance[o] \in Int
<1>1. IsFiniteSet(Traders) /\ Keeper \in Traders
  BY ShopAssumption DEF ShopAssumption
<1>2. DueTo(o) \in [Traders -> Int]
  BY PursesKnown DEF DueTo
<1>3. Total(DueTo(o)) \in Int
  BY <1>1, <1>2, TotalUpdate
<1>4. cash[o] \in Int
  BY DEF ShopTypeOK
<1>5. Balance[o] = (IF HasBalance(o) THEN cash[o] + Total(DueTo(o)) ELSE 0)
  BY WorthIsTotal DEF Balance, HasBalance
<1>6. QED BY <1>1, <1>2, <1>3, <1>4, <1>5

\* Balances are equal when those of every owner are.
LEMMA BalancesAreFunctions ==
    /\ Balance = [o \in Owners |-> Balance[o]]
    /\ Balance' = [o \in Owners |-> Balance'[o]]
BY DEF Balance

\* Steps that leave the cash, and what each sale owes and to whom, leave the
\* balances.
LEMMA QuietBalance ==
    ASSUME cash' = cash, storeOpen' = storeOpen,
           \A t \in Traders : /\ Owed(t)' = Owed(t)
                              /\ deal'[t].from = deal[t].from \/ Owed(t) = 0
    PROVE  Balance' = Balance
<1>1. ASSUME NEW o \in Owners PROVE Balance'[o] = Balance[o]
  <2>1. DueTo(o)' = DueTo(o)
    BY DEF DueTo
  <2>2. /\ Balance[o] = (IF HasBalance(o) THEN cash[o] + Total(DueTo(o)) ELSE 0)
        /\ Balance'[o] = (IF HasBalance(o) THEN cash'[o] + Total(DueTo(o)') ELSE 0)
    BY WorthIsTotal DEF Balance, HasBalance
  <2>3. QED BY <2>1, <2>2
<1>2. QED BY <1>1, BalancesAreFunctions

\* What no session but t owes changes.
OthersOwe(t) == \A u \in Traders : u # t => Owed(u)' = Owed(u)

\* What p gains when t writes sum as the cash of o.
Gain(t, o, sum, p) ==
    (IF p = o THEN sum - cash[o] ELSE 0)
        + (IF p = deal[t].from THEN Owed(t)' - Owed(t) ELSE 0)

\* The balance of one owner after session t has written o's cash.
LEMMA WrittenBalance ==
    ASSUME ShopTypeOK, Bargains, NEW t \in Traders, Owed(t)' \in Int,
           NEW o \in Owners, NEW has \in Int,
           cash' = [cash EXCEPT ![o] = has], deal' = deal,
           OthersOwe(t), NEW p \in Owners, HasBalance(p), HasBalance(p)'
    PROVE  Balance'[p] = Balance[p] + Gain(t, o, has, p)
<1> DEFINE gain == Gain(t, o, has, p)
           owed == Owed(t)
           owes == Owed(t)'
           due == DueTo(p)
           due2 == DueTo(p)'
           b == Balance[p]
           b2 == Balance'[p]
           sum == Total(due)
           sum2 == Total(due2)
           c == cash[p]
           c2 == cash'[p]
           h == cash[o]
<1>1. owed \in Int /\ owes \in Int /\ h \in Int
  BY PursesKnown DEF ShopTypeOK
<1>2. /\ IsFiniteSet(Traders) /\ due \in [Traders -> Int] /\ sum \in Int /\ c \in Int
      /\ b = c + sum
  BY BalanceDefined
<1>3. b2 = c2 + sum2
  BY WorthIsTotal DEF Balance, HasBalance
<1>4. c2 = c + (IF p = o THEN has - h ELSE 0)
  BY <1>1, <1>2 DEF ShopTypeOK
<1>5. sum2 = sum + (IF p = deal[t].from THEN owes - owed ELSE 0)
  <2>1. CASE p = deal[t].from
    <3>1. due2 = [due EXCEPT ![t] = owes] /\ due[t] = owed
      BY <2>1 DEF DueTo, OthersOwe
    <3> HIDE DEF owes, owed, due, due2
    <3>2. IsFiniteSet(Traders) /\ due \in [Traders -> Int] /\ owes \in Int
      BY <1>1, <1>2
    <3>3. Total([due EXCEPT ![t] = owes]) = Total(due) - due[t] + owes
      BY ONLY <3>2, t \in Traders, TotalUpdate
    <3>4. sum2 = sum - owed + owes
      BY <3>1, <3>3
    <3> HIDE DEF sum
    <3> HIDE DEF sum2
    <3>5. QED BY <1>1, <1>2, <2>1, <3>4
  <2>2. CASE p # deal[t].from
    <3>1. due2 = due
      BY <2>2 DEF DueTo, OthersOwe
    <3> HIDE DEF due, due2
    <3>2. sum2 = sum
      BY <3>1
    <3>3. QED BY <1>2, <2>2, <3>2
  <2>3. QED BY <2>1, <2>2
<1>6. gain = (IF p = o THEN has - h ELSE 0) + (IF p = deal[t].from THEN owes - owed ELSE 0)
  BY DEF Gain
<1> HIDE DEF gain, owed, owes, due, due2, b, b2, sum, sum2, c, c2, h
<1>7. b2 = b + gain
  BY <1>1, <1>2, <1>3, <1>4, <1>5, <1>6
<1>8. QED BY <1>7 DEF b, b2, gain

\* A buyer pays: the seller is owed as much from then on.
LEMMA PayTransfers ==
    ASSUME ShopTypeOK, Bargains, HeldPurses, Closed, NEW t \in Traders, Pay(t)
    PROVE  Accounts!Next
<1> DEFINE to == deal[t].to
           from == deal[t].from
<1>1. /\ at[t] = "pay" /\ at'[t] = "credit" /\ deal' = deal /\ purse' = purse /\ price' = price
      /\ issued' = issued /\ lost' = lost /\ cash' = [cash EXCEPT ![to] = purse[t]]
      /\ \A u \in Traders : u # t => at'[u] = at[u]
      /\ storeOpen /\ storeOpen'
  BY DEF Pay, Turns, Writes, locals, worldOfItems, ShopTypeOK, Closed
<1>2. /\ (from = Store /\ to = t) \/ (from = t /\ to = Store)
      /\ to \in Owners /\ from \in Owners /\ Store \notin Traders
  <2>1. at[t] \in Selling
    BY <1>1 DEF Selling
  <2>2. (from = Store /\ to = t) \/ (from = t /\ to = Store)
    BY <2>1 DEF Bargains
  <2>3. Store \notin Traders
    BY ShopAssumption DEF ShopAssumption
  <2>4. QED BY <2>2, <2>3 DEF Owners
<1>3. purse[t] = cash[to] - price /\ purse[t] \in Int /\ price \in Prices /\ price \in Int
      /\ cash[to] \in Int
  BY <1>1, <1>2, ShopAssumption DEF HeldPurses, ShopTypeOK, ShopAssumption
<1>4. Owed(t) = 0 /\ Owed(t)' = price
  BY <1>1 DEF Owed
<1>5. ASSUME NEW u \in Traders, u # t PROVE Owed(u)' = Owed(u)
  <2>1. at[u] = "collect" => deal[u].from \in Owners /\ deal[u].from # to
    BY <1>1, <1>2, <1>5, PursesKnown DEF HeldPurses, Selling
  <2>2. at[u] = "collect" => cash'[deal[u].from] = cash[deal[u].from]
    BY <1>1, <2>1 DEF ShopTypeOK
  <2>3. QED BY <1>1, <1>5, <2>2 DEF Owed
<1>6. ASSUME NEW p \in Owners
      PROVE  Balance'[p] = Balance[p] + (IF p = to THEN -price ELSE IF p = from THEN price ELSE 0)
  <2> DEFINE gain == IF p = to THEN -price ELSE IF p = from THEN price ELSE 0
             had == cash[to]
             has == purse[t]
  <2>1. Gain(t, to, has, p) = (IF p = to THEN has - had ELSE 0) + (IF p = from THEN price - 0 ELSE 0)
    BY <1>4 DEF Gain
  <2>2. gain = Gain(t, to, has, p)
    <3>1. has = had - price /\ had \in Int /\ has \in Int /\ to # from
      BY <1>2, <1>3
    <3> HIDE DEF had, has, to, from
    <3>2. QED BY <1>3, <2>1, <3>1
  <2>3. cash' = [cash EXCEPT ![to] = has] /\ has \in Int
    BY <1>1, <1>3
  <2>4. OthersOwe(t)
    BY <1>5 DEF OthersOwe
  <2> HIDE DEF gain, has, to
  <2>5. HasBalance(p) /\ HasBalance(p)'
    BY <1>1 DEF HasBalance
  <2>6. Balance'[p] = Balance[p] + Gain(t, to, has, p)
    BY <1>1, <1>2, <1>3, <1>4, <2>3, <2>4, <2>5, WrittenBalance
  <2>7. QED BY <2>2, <2>6 DEF gain
<1>7. ASSUME NEW p \in Owners PROVE Balance[p] \in Int
  BY BalanceDefined
<1>8. Balance' = [[Balance EXCEPT ![to] = Balance[to] - price]
                      EXCEPT ![from] = Balance[from] + price]
  <2>1. DOMAIN Balance = Owners /\ DOMAIN Balance' = Owners
    BY DEF Balance
  <2>2. to # from
    BY <1>2
  <2> DEFINE next == [[Balance EXCEPT ![to] = Balance[to] - price]
                      EXCEPT ![from] = Balance[from] + price]
  <2>3. ASSUME NEW p \in Owners PROVE Balance'[p] = next[p]
    <3> HIDE DEF to, from
    <3>1. CASE p = to
      BY <1>3, <1>6, <1>7, <2>1, <2>2, <3>1
    <3>2. CASE p = from
      BY <1>3, <1>6, <1>7, <2>1, <2>2, <3>2
    <3>3. CASE p # to /\ p # from
      BY <1>3, <1>6, <1>7, <2>1, <3>3
    <3>4. QED BY <3>1, <3>2, <3>3
  <2>4. next = [p \in Owners |-> next[p]] /\ Balance' = [p \in Owners |-> Balance'[p]]
    BY <2>1 DEF Balance
  <2> HIDE DEF next
  <2>5. Balance' = next
    BY <2>3, <2>4
  <2>6. QED BY <2>5 DEF next
<1>9. Accounts!Transfer(to, from, price)
  <2>1. to # from
    BY <1>2
  <2>2. QED BY <1>1, <1>8, <2>1 DEF Accounts!Transfer
<1>10. QED BY <1>2, <1>3, <1>9 DEF Accounts!Next

\* A seller collects: it has what it was owed.
LEMMA CollectSettles ==
    ASSUME ShopTypeOK, Bargains, HeldPurses, Closed, NEW t \in Traders, Collect(t)
    PROVE  Balance' = Balance
<1> DEFINE from == deal[t].from
<1>1. /\ at[t] = "collect" /\ at'[t] = "idle" /\ deal' = deal /\ purse' = purse /\ price' = price
      /\ cash' = [cash EXCEPT ![from] = purse[t]]
      /\ \A u \in Traders : u # t => at'[u] = at[u]
      /\ storeOpen /\ storeOpen'
  BY DEF Collect, Turns, Writes, locals, worldOfItems, ShopTypeOK, Closed
<1>2. from \in Owners /\ cash[from] \in Int /\ purse[t] \in Int
  BY <1>1, PursesKnown DEF Selling, ShopTypeOK
<1>3. Owed(t) = purse[t] - cash[from] /\ Owed(t)' = 0
  BY <1>1 DEF Owed
<1>4. ASSUME NEW u \in Traders, u # t PROVE Owed(u)' = Owed(u)
  <2>1. at[u] = "collect" => deal[u].from \in Owners /\ deal[u].from # from
    BY <1>1, <1>2, <1>4, PursesKnown DEF HeldPurses, Selling
  <2>2. at[u] = "collect" => cash'[deal[u].from] = cash[deal[u].from]
    BY <1>1, <2>1 DEF ShopTypeOK
  <2>3. QED BY <1>1, <1>4, <2>2 DEF Owed
<1>5. ASSUME NEW p \in Owners PROVE Balance'[p] = Balance[p]
  <2> DEFINE had == cash[from]
             has == purse[t]
  <2>1. Gain(t, from, has, p) = 0
    <3>1. has \in Int /\ had \in Int
      BY <1>2
    <3>2. Gain(t, from, has, p)
             = (IF p = from THEN has - had ELSE 0) + (IF p = from THEN 0 - (has - had) ELSE 0)
      BY <1>3 DEF Gain
    <3> HIDE DEF had, has, from
    <3>3. QED BY <3>1, <3>2
  <2>2. cash' = [cash EXCEPT ![from] = has] /\ has \in Int
    BY <1>1, <1>2
  <2>3. OthersOwe(t)
    BY <1>4 DEF OthersOwe
  <2>4. from \in Owners /\ deal' = deal /\ Owed(t)' \in Int /\ HasBalance(p) /\ HasBalance(p)'
    BY <1>1, <1>2, <1>3 DEF HasBalance
  <2> HIDE DEF has, from
  <2>5. Balance'[p] = Balance[p] + Gain(t, from, has, p)
    BY <2>2, <2>3, <2>4, WrittenBalance
  <2>6. Balance[p] \in Int
    BY BalanceDefined
  <2>7. QED BY <2>1, <2>5, <2>6
<1>6. QED BY <1>5, BalancesAreFunctions

\* The keeper is granted what /cash give asks for.
LEMMA TakeGrants ==
    ASSUME ShopTypeOK, Bargains, HeldPurses, Granting,
           NEW t \in Traders, TakeCash(t)
    PROVE  Accounts!Next
<1>1. /\ at[t] = "gift" /\ at'[t] = "idle" /\ deal' = deal /\ purse' = purse /\ price' = price
      /\ issued' = issued + 1 /\ cash' = [cash EXCEPT ![t] = purse[t]]
      /\ lost' = lost /\ storeOpen' = storeOpen
      /\ \A u \in Traders : u # t => at'[u] = at[u]
  BY DEF TakeCash, Turns, Writes, locals, worldOfItems, ShopTypeOK
<1>2. /\ t \in Owners /\ t = Keeper /\ cash[t] \in Int
      /\ purse[t] = cash[t] + 1 /\ purse[t] \in Int
  BY <1>1 DEF Granting, Owners, HeldPurses, ShopTypeOK
<1>3. Owed(t) = 0 /\ Owed(t)' = 0
  BY <1>1 DEF Owed
<1>4. ASSUME NEW u \in Traders, u # t PROVE Owed(u)' = Owed(u)
  <2>1. at[u] = "collect" => deal[u].from \in Owners /\ deal[u].from # t
    BY <1>1, <1>2, <1>4, PursesKnown, ShopAssumption DEF HeldPurses, Selling, ShopAssumption
  <2>2. at[u] = "collect" => cash'[deal[u].from] = cash[deal[u].from]
    BY <1>1, <2>1 DEF ShopTypeOK
  <2>3. QED BY <1>1, <1>4, <2>2 DEF Owed
<1>5. ASSUME NEW p \in Owners PROVE Balance'[p] = Balance[p] + (IF p = t THEN 1 ELSE 0)
  <2> DEFINE gain == IF p = t THEN 1 ELSE 0
             had == cash[t]
             has == purse[t]
             from == deal[t].from
  <2>1. gain = Gain(t, t, has, p)
    <3>1. has \in Int /\ had \in Int /\ has = had + 1
      BY <1>2
    <3>2. Gain(t, t, has, p) = (IF p = t THEN has - had ELSE 0) + (IF p = from THEN 0 - 0 ELSE 0)
      BY <1>3 DEF Gain
    <3> HIDE DEF had, has, from
    <3>3. QED BY <3>1, <3>2
  <2>2. cash' = [cash EXCEPT ![t] = has] /\ has \in Int /\ gain \in Int
    BY <1>1, <1>2
  <2>3. OthersOwe(t)
    BY <1>4 DEF OthersOwe
  <2> HIDE DEF has, gain
  <2>4. t \in Owners /\ deal' = deal /\ Owed(t)' \in Int
    BY <1>1, <1>2, <1>3
  <2>5. CASE HasBalance(p)
    <3>1. HasBalance(p)'
      BY <1>1, <2>5 DEF HasBalance
    <3>2. Balance'[p] = Balance[p] + Gain(t, t, has, p)
      BY <2>2, <2>3, <2>4, <2>5, <3>1, WrittenBalance
    <3>3. QED BY <2>1, <3>2 DEF gain
  <2>6. CASE ~HasBalance(p)
    <3>1. p # t /\ Balance[p] = 0 /\ Balance'[p] = 0
      BY <1>1, <2>6, ShopAssumption DEF HasBalance, Balance, ShopAssumption
    <3>2. gain = 0
      BY <3>1 DEF gain
    <3>3. QED BY <3>1, <3>2 DEF gain
  <2>7. QED BY <2>5, <2>6
<1>6. ASSUME NEW p \in Owners PROVE Balance[p] \in Int
  BY BalanceDefined
<1>7. Balance' = [Balance EXCEPT ![Keeper] = Balance[Keeper] + 1]
  <2>1. Balance = [p \in Owners |-> Balance[p]] /\ Balance' = [p \in Owners |-> Balance'[p]]
    BY DEF Balance
  <2>2. QED BY <1>2, <1>5, <1>6, <2>1
<1>8. Accounts!Grant
  BY <1>1, <1>7 DEF Accounts!Grant
<1>9. QED BY <1>8 DEF Accounts!Next

\* The store is deleted between sales: it forfeits what it has, and was owed nothing.
LEMMA ClosingForfeits ==
    ASSUME ShopTypeOK, Bargains, NEW t \in Traders, CloseDown(t), storeOpen, ~clashed'
    PROVE  Accounts!Next
<1>1. /\ price' = price /\ deal' = deal /\ purse' = purse /\ cash' = cash /\ issued' = issued
      /\ ~storeOpen' /\ lost' = lost + cash[Store]
      /\ \A u \in Traders : at[u] \notin {"pay", "credit", "collect"}
      /\ at'[t] = "idle"
      /\ \A u \in Traders : u # t => at'[u] = at[u]
  BY DEF CloseDown, Turns, locals, ShopTypeOK
<1>2. ASSUME NEW u \in Traders PROVE Owed(u) = 0 /\ Owed(u)' = 0
  BY <1>1 DEF Owed
<1>3. Balance[Store] = cash[Store]
  <2>1. Store \in Owners
    BY DEF Owners
  <2>2. DueTo(Store) = [u \in Traders |-> 0]
    BY <1>2 DEF DueTo
  <2>3. Total(DueTo(Store)) = 0
    BY <2>2, TotalOfNothing, ShopAssumption DEF ShopAssumption
  <2>4. cash[Store] \in Int /\ Balance[Store] = cash[Store] + Total(DueTo(Store))
    BY <2>1, BalanceDefined DEF HasBalance
  <2> DEFINE had == cash[Store]
             due == Total(DueTo(Store))
  <2>5. had \in Int /\ Balance[Store] = had + due /\ due = 0
    BY <2>3, <2>4
  <2> HIDE DEF had, due
  <2>6. Balance[Store] = had
    BY <2>5
  <2>7. QED BY <2>6 DEF had
<1>4. ASSUME NEW o \in Owners PROVE Balance'[o] = (IF o = Store THEN 0 ELSE Balance[o])
  <2>1. DueTo(o)' = DueTo(o)
    BY <1>1, <1>2 DEF DueTo
  <2>2. QED BY <1>1, <2>1, WorthIsTotal DEF Balance
<1>5. Balance' = [Balance EXCEPT ![Store] = 0]
  BY <1>4, BalancesAreFunctions
<1>6. Accounts!Forfeit
  BY <1>1, <1>3, <1>5 DEF Accounts!Forfeit
<1>7. QED BY <1>6 DEF Accounts!Next

\* Only GiveCash, of the keeper, leads there.
LEMMA NextGranting ==
    ASSUME ShopTypeOK, Granting, [ShopNext]_shopVars
    PROVE  Granting'
<1>1. CASE UNCHANGED shopVars
  BY <1>1 DEF shopVars, Granting
<1>2. ASSUME NEW t \in Traders,
             \/ Drop(t) \/ Get(t) \/ Buy(t) \/ Sell(t) \/ Deposit(t) \/ Withdraw(t)
             \/ Shops(t) \/ Open(t) \/ Close(t) \/ Moves(t)
      PROVE  Granting'
  <2>1. at'[t] # "gift" /\ \A u \in Traders : u # t => at'[u] = at[u]
    BY <1>2 DEF Drop, Get, Buy, Sell, Deposit, Withdraw, Chooses, Orders, Turns, ShopTypeOK,
           Shops, Open, Close, Moves
  <2>2. QED BY <2>1 DEF Granting
<1>3. ASSUME NEW t \in Traders,
             Debit(t) \/ Pay(t) \/ Credit(t) \/ Collect(t) \/ GiveCash(t) \/ TakeCash(t)
      PROVE  Granting'
  <2>1. (at'[t] = "gift" => t = Keeper) /\ \A u \in Traders : u # t => at'[u] = at[u]
    BY <1>3 DEF Debit, Pay, Credit, Collect, GiveCash, TakeCash, Orders, Turns, ShopTypeOK
  <2>2. QED BY <2>1 DEF Granting
<1>4. ASSUME NEW t \in Traders,
             \/ \E v \in Prices : SetValue(t, v)
             \/ CreateItem(t) \/ Put(t) \/ DestroyItem(t) \/ DeleteTemplate(t) \/ DeleteStore(t)
             \/ DeleteObject(t) \/ Purged(t) \/ CloseDown(t)
      PROVE  Granting'
  <2>1. (at'[t] = "gift" => t = Keeper) /\ \A u \in Traders : u # t => at'[u] = at[u]
    BY <1>4 DEF SetValue, CreateItem, Put, DestroyItem, DeleteTemplate, DeleteStore, Lists,
           DeleteObject, Purged, CloseDown, Orders, Turns, ShopTypeOK
  <2>2. QED BY <2>1 DEF Granting
<1>5. QED BY <1>1, <1>2, <1>3, <1>4 DEF ShopNext

\* Steps after which no purse has been written by two are steps of the ledger.
LEMMA NextLedger ==
    ASSUME ShopTypeOK, Bargains, Books, Granting, [ShopNext]_shopVars, ~clashed'
    PROVE  [Accounts!Next]_(Accounts!ledgerVars)
<1> USE DEF Accounts!ledgerVars
<1>1. CASE UNCHANGED shopVars
  <2>1. Balance' = Balance
    BY <1>1, QuietBalance DEF shopVars, worldOfItems, money, locals, Owed
  <2>2. QED BY <1>1, <2>1 DEF shopVars, money
<1>2. ASSUME NEW t \in Traders,
             Drop(t) \/ Get(t) \/ Buy(t) \/ Sell(t) \/ Deposit(t) \/ Withdraw(t)
      PROVE  UNCHANGED Accounts!ledgerVars
  <2>1. /\ UNCHANGED money /\ storeOpen' = storeOpen /\ purse' = purse
        /\ at[t] = "idle" /\ at'[t] = "move"
        /\ \A u \in Traders : u # t => at'[u] = at[u] /\ deal'[u] = deal[u]
    BY <1>2 DEF Drop, Get, Buy, Sell, Deposit, Withdraw, Chooses, Orders, Turns, worldOfItems, ShopTypeOK
  <2>2. Balance' = Balance
    BY <2>1, QuietBalance DEF money, Owed
  <2>3. QED BY <2>1, <2>2 DEF money
<1>3. ASSUME NEW t \in Traders, CreateItem(t)
      PROVE  UNCHANGED Accounts!ledgerVars
  <2>1. /\ UNCHANGED money /\ storeOpen' = storeOpen /\ purse' = purse
        /\ at[t] = "idle" /\ at'[t] = "put"
        /\ \A u \in Traders : u # t => at'[u] = at[u] /\ deal'[u] = deal[u]
    BY <1>3 DEF CreateItem, Orders, Turns, worldOfItems, ShopTypeOK
  <2>2. Balance' = Balance
    BY <2>1, QuietBalance DEF money, Owed
  <2>3. QED BY <2>1, <2>2 DEF money
<1>4. ASSUME NEW t \in Traders,
             \/ Shops(t) \/ Open(t) \/ Close(t) \/ Moves(t) \/ Put(t)
             \/ DestroyItem(t) \/ DeleteTemplate(t) \/ DeleteStore(t)
             \/ DeleteObject(t) \/ Purged(t)
      PROVE  UNCHANGED Accounts!ledgerVars
  <2>1. /\ UNCHANGED money /\ storeOpen' = storeOpen /\ purse' = purse /\ deal' = deal
        /\ at[t] \notin {"credit", "collect"} /\ at'[t] \notin {"credit", "collect"}
        /\ \A u \in Traders : u # t => at'[u] = at[u]
    BY <1>4 DEF Shops, Open, Close, Moves, Put, DestroyItem, DeleteTemplate, DeleteStore, Lists,
           DeleteObject, Purged, Orders, Turns, locals, worldOfItems, ShopTypeOK
  <2>2. Balance' = Balance
    BY <2>1, QuietBalance DEF money, Owed
  <2>3. QED BY <2>1, <2>2 DEF money
<1>5. ASSUME NEW t \in Traders, Debit(t) \/ GiveCash(t)
      PROVE  UNCHANGED Accounts!ledgerVars
  <2>1. /\ cash' = cash /\ issued' = issued /\ price' = price /\ deal' = deal
        /\ lost' = lost /\ storeOpen' = storeOpen
        /\ at[t] \in {"idle", "debit"} /\ at'[t] \in {"pay", "gift"}
        /\ \A u \in Traders : u # t => at'[u] = at[u] /\ purse'[u] = purse[u]
    BY <1>5 DEF Debit, GiveCash, Orders, Reads, Turns, worldOfItems, ShopTypeOK
  <2>2. Balance' = Balance
    BY <2>1, QuietBalance DEF Owed
  <2>3. QED BY <2>1, <2>2
<1>6. ASSUME NEW t \in Traders, Credit(t)
      PROVE  UNCHANGED Accounts!ledgerVars
  <2>1. /\ cash' = cash /\ issued' = issued /\ price' = price /\ deal' = deal
        /\ lost' = lost /\ storeOpen' = storeOpen
        /\ at[t] = "credit" /\ at'[t] = "collect" /\ purse'[t] = cash[deal[t].from] + price
        /\ \A u \in Traders : u # t => at'[u] = at[u] /\ purse'[u] = purse[u]
    BY <1>6 DEF Credit, Reads, Turns, worldOfItems, ShopTypeOK
  <2>2. Owed(t)' = Owed(t)
    <3>1. cash[deal[t].from] \in Int /\ price \in Int
      BY <2>1, PursesKnown, ShopAssumption DEF Selling, ShopTypeOK, ShopAssumption
    <3> DEFINE had == cash[deal[t].from]
    <3>2. Owed(t) = price /\ Owed(t)' = (had + price) - had
      BY <2>1 DEF Owed
    <3>3. had \in Int
      BY <3>1
    <3> HIDE DEF had
    <3>4. QED BY <3>1, <3>2, <3>3
  <2>3. Balance' = Balance
    BY <2>1, <2>2, QuietBalance DEF Owed
  <2>4. QED BY <2>1, <2>3
<1>7. ASSUME NEW t \in Traders, NEW v \in Prices, SetValue(t, v)
      PROVE  UNCHANGED Accounts!ledgerVars
  <2>1. /\ cash' = cash /\ issued' = issued /\ purse' = purse /\ deal' = deal
        /\ lost' = lost /\ storeOpen' = storeOpen
        /\ \A u \in Traders : at'[u] = at[u] /\ at[u] # "credit"
    BY <1>7 DEF SetValue, Orders, Turns, locals, worldOfItems, ShopTypeOK
  <2>2. Balance' = Balance
    BY <2>1, QuietBalance DEF Owed
  <2>3. QED BY <2>1, <2>2
<1>8. ASSUME NEW t \in Traders, Pay(t) \/ Collect(t) \/ TakeCash(t)
      PROVE  HeldPurses /\ Closed
  BY <1>8 DEF Pay, Collect, TakeCash, Writes, Books
<1>9. ASSUME NEW t \in Traders, Pay(t) PROVE Accounts!Next
  BY <1>8, <1>9, PayTransfers
<1>10. ASSUME NEW t \in Traders, Collect(t) PROVE UNCHANGED Accounts!ledgerVars
  <2>1. Balance' = Balance
    BY <1>8, <1>10, CollectSettles
  <2>2. QED BY <1>10, <2>1 DEF Collect, Writes
<1>11. ASSUME NEW t \in Traders, TakeCash(t) PROVE Accounts!Next
  BY <1>8, <1>11, TakeGrants
<1>12. ASSUME NEW t \in Traders, CloseDown(t), ~storeOpen PROVE UNCHANGED Accounts!ledgerVars
  <2>1. /\ UNCHANGED money /\ storeOpen' = storeOpen /\ purse' = purse /\ deal' = deal
        /\ at[t] = "purgeStore" /\ at'[t] = "panicked"
        /\ \A u \in Traders : u # t => at'[u] = at[u]
    BY <1>12 DEF CloseDown, Turns, locals, money, ShopTypeOK
  <2>2. Balance' = Balance
    BY <2>1, QuietBalance DEF money, Owed
  <2>3. QED BY <2>1, <2>2 DEF money
<1>13. ASSUME NEW t \in Traders, CloseDown(t), storeOpen PROVE Accounts!Next
  BY <1>13, ClosingForfeits
<1>14. QED
  BY <1>1, <1>2, <1>3, <1>4, <1>5, <1>6, <1>7, <1>9, <1>10, <1>11, <1>12, <1>13 DEF ShopNext

\* Nobody has anything, and nothing is owed, when the shop opens.
LEMMA InitLedger == ShopInit => Granting /\ Accounts!Init
<1> SUFFICES ASSUME ShopInit PROVE Granting /\ Accounts!Init
  OBVIOUS
<1>1. Granting
  BY DEF ShopInit, Granting
<1>2. ASSUME NEW o \in Owners PROVE Balance[o] = 0
  <2>1. DueTo(o) = [t \in Traders |-> 0]
    BY DEF ShopInit, DueTo, Owed
  <2>2. Total(DueTo(o)) = 0
    BY <2>1, TotalOfNothing, ShopAssumption DEF ShopAssumption
  <2>3. Balance[o] = cash[o] + Total(DueTo(o)) /\ cash[o] = 0
    BY WorthIsTotal DEF Balance, ShopInit
  <2>4. QED BY <2>2, <2>3
<1>3. Balance = [o \in Traders \cup {Store} |-> 0]
  BY <1>2, BalancesAreFunctions DEF Owners
<1>4. QED BY <1>1, <1>3 DEF ShopInit, Accounts!Init

\* Two payments, each a read and a later write of somebody's cash, amount to one
\* transfer of one price: while no purse is written by two sessions, no value
\* changes within a sale and the store is not deleted under one, the shop
\* implements Ledger.
THEOREM ShopImplementsLedger == ShopSpec => ImplementsLedger
<1>1. ShopInit => Accounts!Init /\ Granting
  BY InitLedger
<1>2. ShopInv /\ Granting /\ [ShopNext]_shopVars => Granting'
  BY NextGranting DEF ShopInv
<1>3. ShopInv /\ Books /\ Granting /\ [ShopNext]_shopVars
          => [clashed' \/ Accounts!Next]_(Accounts!ledgerVars)
  BY NextLedger DEF ShopInv
<1>4. QED
  BY <1>1, <1>2, <1>3, ShopInvariant, BooksBalance, PTL DEF ShopSpec, ImplementsLedger

-----------------------------------------------------------------------------
(* The engine: types.  A survey of the database, less what it has found, is *)
(* what the spawner makes; the mailboxes are those of whoever is managed.   *)

\* The database is finite, and the spawner makes NPCs only where some are missing.
EngineTypesInv ==
    /\ EngineTypeOK
    /\ IsFiniteSet(npcs)
    /\ spawning \in {"create", "manage"} => missing > 0

Letters == {"tick", "death"}
Mailboxes == [Managed -> [Letters -> Nat]]

\* What can be blamed for a panic is a deed.
LEMMA DeedsAreTyped ==
    /\ \A n \in Npcs \cup Lairs \cup {Land} :
          {<<"deleted", n>>, <<"died", n>>, <<"closed", n>>, <<"made", n>>} \subseteq Deeds
    /\ \A S \in SUBSET Lairs :
          /\ {"deleted"} \X S \subseteq Deeds /\ {"closed"} \X S \subseteq Deeds
          /\ {"closed", "made"} \X S \subseteq Deeds
          /\ {"deleted"} \X (S \cup {Land}) \subseteq Deeds
          /\ Gone(S) \subseteq Deeds
    /\ \A S \in SUBSET Npcs : {"deleted", "died"} \X S \subseteq Deeds
  BY DEF Deeds, Gone

LEMMA DeedsOf ==
    \A x : x \in Npcs \cup Lairs \cup {Land} =>
        /\ <<"deleted", x>> \in Deeds /\ <<"died", x>> \in Deeds
        /\ <<"closed", x>> \in Deeds /\ <<"made", x>> \in Deeds
  BY DEF Deeds

\* This holds when the process first starts.
LEMMA InitEngineTypes == EngineInit => EngineTypesInv
<1> SUFFICES ASSUME EngineInit PROVE EngineTypesInv
  OBVIOUS
<1> USE EngineAssumption DEF EngineAssumption
<1>1. (CHOOSE r \in Home : TRUE) \in Lairs
  OBVIOUS
<1>2. Managed = npcs /\ mailbox \in [Managed -> [{"tick", "death"} -> Nat]]
  BY DEF EngineInit, Managed, Manages, NoEvents
<1>3. QED BY <1>1, <1>2 DEF EngineInit, EngineTypesInv, EngineTypeOK

\* Events are counted in the mailboxes of those managed.
LEMMA BroadcastMail ==
    ASSUME mailbox \in Mailboxes, NEW e \in Letters, NEW to, Broadcast(e, to)
    PROVE  Managed' = Managed /\ mailbox' \in Mailboxes'
<1>1. Managed' = Managed
  BY DEF Broadcast, Managed
<1>2. ASSUME NEW n \in Managed PROVE mailbox'[n] \in [Letters -> Nat]
  <2>1. mailbox[n] \in [Letters -> Nat] /\ [mailbox[n] EXCEPT ![e] = @ + 1] \in [Letters -> Nat]
    BY DEF Mailboxes
  <2>2. mailbox'[n] = IF n \in to THEN [mailbox[n] EXCEPT ![e] = @ + 1] ELSE mailbox[n]
    BY DEF Broadcast
  <2>3. QED BY <2>1, <2>2
<1>3. mailbox' = [n \in Managed |-> mailbox'[n]]
  BY DEF Broadcast
<1>4. QED BY <1>1, <1>2, <1>3 DEF Mailboxes

\* Only an event that is there is handled.
LEMMA HandledMail ==
    ASSUME mailbox \in Mailboxes, NEW n, NEW e \in Letters, Takes(n, e), Handled(n, e)
    PROVE  Managed' = Managed /\ mailbox' \in Mailboxes'
<1>1. Managed' = Managed /\ n \in Managed
  BY DEF Handled, Takes, Managed
<1>2. mailbox[n] \in [Letters -> Nat] /\ mailbox[n][e] > 0
  BY <1>1 DEF Takes, Mailboxes
<1>3. [mailbox[n] EXCEPT ![e] = @ - 1] \in [Letters -> Nat]
  BY <1>2
<1>4. mailbox' = [mailbox EXCEPT ![n] = [mailbox[n] EXCEPT ![e] = @ - 1]]
  BY <1>1 DEF Handled, Mailboxes
<1>5. QED BY <1>1, <1>3, <1>4 DEF Mailboxes

\* Every step of an NPC's goroutine keeps them.
LEMMA WanderTypes ==
    ASSUME EngineTypesInv, NEW n \in Npcs, Wanders(n)
    PROVE  EngineTypesInv'
<1> USE DEF EngineTypesInv, EngineTypeOK, Lives
<1>0. /\ mailbox \in Mailboxes
      /\ Gone({lair[n]}) \subseteq Deeds /\ {"closed", "made"} \X {lair[n]} \subseteq Deeds
      /\ {<<"deleted", Land>>} \subseteq Deeds
      /\ \A r \in Lairs : {<<"made", r>>} \subseteq Deeds
  <2>1. mailbox \in Mailboxes
    BY DEF Mailboxes, Letters
  <2>2. {lair[n]} \in SUBSET Lairs
    OBVIOUS
  <2>3. Gone({lair[n]}) \subseteq Deeds /\ {"closed", "made"} \X {lair[n]} \subseteq Deeds
    BY ONLY <2>2, DeedsAreTyped
  <2>4. {<<"deleted", Land>>} \subseteq Deeds /\ \A r \in Lairs : {<<"made", r>>} \subseteq Deeds
    BY ONLY DEF Deeds
  <2>5. QED BY <2>1, <2>3, <2>4
<1>1. CASE Roams(n)
  <2>1. Managed' = Managed /\ mailbox' \in Mailboxes'
    BY <1>0, <1>1, HandledMail DEF Roams, Letters
  <2>2. alive' \in BOOLEAN /\ blamed' \subseteq Deeds
    BY <1>0, <1>1 DEF Roams, Dies
  <2>3. walk' = walk \/ walk' = [walk EXCEPT ![n] = "set out"]
    BY <1>1 DEF Roams
  <2>4. UNCHANGED <<herdVars, groundVars, areaVars, aim, rivals, loopVars, boundVars, deeds>>
    BY <1>1 DEF Roams
  <2>5. QED BY <2>1, <2>2, <2>3, <2>4
        DEF herdVars, groundVars, areaVars, loopVars, boundVars, Mailboxes, Letters
<1> DEFINE At == {"rest", "set out", "explore", "reach", "dig", "open", "cross", "glance",
                  "recognise"}
           Calm == UNCHANGED <<npcs, spawned, roaming, areaVars, mailbox, loopVars, boundVars>>
<1>2. ASSUME Calm, UNCHANGED <<groundVars, deeds>>, lair' \in [Npcs -> Lairs],
             aim' \in [Npcs -> SUBSET Lairs], rivals' \in [Npcs -> SUBSET Lairs],
             walk' \in [Npcs -> At], alive' \in BOOLEAN, blamed' \subseteq Deeds
      PROVE  EngineTypesInv'
  BY <1>2 DEF areaVars, groundVars, loopVars, boundVars, Managed
<1>3. ASSUME NEW S \in SUBSET Lairs, NEW b \in At, Gets(n, S, b)
      PROVE  walk' \in [Npcs -> At] /\ alive' \in BOOLEAN /\ blamed' \subseteq Deeds
  <2>1. Gone(S) \subseteq Deeds
    BY DeedsAreTyped
  <2>2. QED BY <1>3, <2>1 DEF Gets, GoesTo, Dies
<1>4. CASE SetsOut(n)
  <2>1. {lair[n]} \in SUBSET Lairs
    OBVIOUS
  <2>2. PICK b \in At : Gets(n, {lair[n]}, b)
    BY <1>4 DEF SetsOut
  <2>3. Calm /\ UNCHANGED <<groundVars, deeds, lair, aim, rivals>>
    BY <1>4 DEF SetsOut, WalksFrom
  <2> HIDE DEF At, Calm
  <2>4. QED BY <1>2, <1>3, <2>1, <2>2, <2>3 DEF At
<1>5. CASE Explores(n)
  <2>1. Calm /\ UNCHANGED <<groundVars, deeds, lair, rivals, alive, blamed>>
    BY <1>5 DEF Explores, WalksFrom
  <2>2. walk' \in [Npcs -> At]
    <3>1. walk' = [walk EXCEPT ![n] = "reach"] \/ walk' = [walk EXCEPT ![n] = "dig"]
      BY <1>5 DEF Explores, GoesTo
    <3>2. QED BY <3>1
  <2>3. aim' \in [Npcs -> SUBSET Lairs]
    <3>1. aim' = aim \/ \E r \in Lairs : aim' = [aim EXCEPT ![n] = {r}]
      BY <1>5 DEF Explores
    <3>2. ASSUME NEW r \in Lairs PROVE [aim EXCEPT ![n] = {r}] \in [Npcs -> SUBSET Lairs]
      OBVIOUS
    <3>3. aim \in [Npcs -> SUBSET Lairs]
      OBVIOUS
    <3>4. QED BY ONLY <3>1, <3>2, <3>3
  <2> HIDE DEF At, Calm
  <2>4. QED BY <1>2, <2>1, <2>2, <2>3
<1>6. CASE Reaches(n)
  <2>1. aim[n] \in SUBSET Lairs /\ "cross" \in At /\ Gets(n, aim[n], "cross")
    BY <1>6 DEF Reaches
  <2>2. Calm /\ UNCHANGED <<groundVars, deeds, lair, aim, rivals>>
    BY <1>6 DEF Reaches, WalksFrom
  <2> HIDE DEF At, Calm
  <2>3. QED BY <1>2, <1>3, <2>1, <2>2
<1>7. CASE Digs(n)
  <2>1. Calm /\ UNCHANGED lair
    BY <1>7 DEF Digs, WalksFrom
  <2>2. CASE UNCHANGED <<dens, undug, land, exitless, aim, rivals, walk, deeds>>
             /\ alive' \in BOOLEAN /\ blamed' \subseteq Deeds
    <3>1. UNCHANGED groundVars
      BY <2>2 DEF groundVars
    <3> HIDE DEF At, Calm
    <3>2. walk \in [Npcs -> At]
      BY DEF At
    <3>3. QED BY <1>2, <2>1, <2>2, <3>1, <3>2
  <2>3. ASSUME NEW r \in undug, NewLair(r), exitless' = exitless \cup {r},
               aim' = [aim EXCEPT ![n] = {r}], rivals' = Digging(r, n), GoesTo(n, "open"), Lives
        PROVE  EngineTypesInv'
    <3>1. r \in Lairs /\ <<"made", r>> \in Deeds
      BY DeedsAreTyped
    <3>2. rivals' \in [Npcs -> SUBSET Lairs]
      BY <2>3, <3>1 DEF Digging
    <3>3. dens' \subseteq Lairs /\ undug' \subseteq Lairs /\ deeds' \subseteq Deeds /\ land' = land
      BY <2>3, <3>1 DEF NewLair
    <3>4. exitless' \subseteq Lairs /\ aim' \in [Npcs -> SUBSET Lairs]
      BY <2>3, <3>1
    <3>5. walk' \in [Npcs -> At]
      BY <2>3 DEF GoesTo
    <3>6. QED BY <2>1, <2>3, <3>2, <3>3, <3>4, <3>5 DEF areaVars, loopVars, boundVars, Managed
  <2>4. QED BY <1>0, <1>7, <2>2, <2>3 DEF Digs, Dies
<1>8. CASE OpensBack(n)
  <2>1. Calm /\ UNCHANGED <<lair, dens, undug, land, aim, rivals, deeds, alive, blamed>>
        /\ exitless' \subseteq Lairs /\ walk' \in [Npcs -> At]
    BY <1>8 DEF OpensBack, WalksFrom, GoesTo
  <2>2. QED BY <2>1 DEF areaVars, loopVars, boundVars, Managed
<1>9. CASE Crosses(n)
  <2>1. {lair[n]} \in SUBSET Lairs /\ "glance" \in At
    OBVIOUS
  <2>2. Gets(n, {lair[n]}, "glance")
    BY <1>9 DEF Crosses
  <2>3. Calm /\ UNCHANGED <<groundVars, deeds, rivals>>
    BY <1>9 DEF Crosses, WalksFrom
  <2>4. lair' \in [Npcs -> Lairs] /\ aim' \in [Npcs -> SUBSET Lairs]
    BY <1>9 DEF Crosses
  <2> HIDE DEF At, Calm
  <2>5. QED BY <1>2, <1>3, <2>1, <2>2, <2>3, <2>4
<1>10. CASE Glances(n)
  <2>1. Calm /\ UNCHANGED <<groundVars, deeds, lair, rivals, alive, blamed>>
    BY <1>10 DEF Glances, WalksFrom
  <2>2. walk' \in [Npcs -> At]
    <3>1. walk' = [walk EXCEPT ![n] = "rest"] \/ walk' = [walk EXCEPT ![n] = "recognise"]
      BY <1>10 DEF Glances, GoesTo
    <3>2. QED BY <3>1
  <2>3. aim' \in [Npcs -> SUBSET Lairs]
    <3>1. aim' = aim \/ \E r \in Lairs : aim' = [aim EXCEPT ![n] = {r}]
      BY <1>10 DEF Glances
    <3>2. ASSUME NEW r \in Lairs PROVE [aim EXCEPT ![n] = {r}] \in [Npcs -> SUBSET Lairs]
      OBVIOUS
    <3>3. aim \in [Npcs -> SUBSET Lairs]
      OBVIOUS
    <3>4. QED BY ONLY <3>1, <3>2, <3>3
  <2> HIDE DEF At, Calm
  <2>4. QED BY <1>2, <2>1, <2>2, <2>3
<1>11. CASE Recognises(n)
  <2>1. aim[n] \in SUBSET Lairs /\ "glance" \in At /\ Gets(n, aim[n], "glance")
    BY <1>11 DEF Recognises
  <2>2. Calm /\ UNCHANGED <<groundVars, deeds, lair, rivals>> /\ aim' \in [Npcs -> SUBSET Lairs]
    BY <1>11 DEF Recognises, WalksFrom
  <2> HIDE DEF At, Calm
  <2>3. QED BY <1>2, <1>3, <2>1, <2>2
<1>12. QED BY <1>1, <1>4, <1>5, <1>6, <1>7, <1>8, <1>9, <1>10, <1>11 DEF Wanders

\* So does every step of the spawner's.
LEMMA SpawnerTypes ==
    ASSUME EngineTypesInv, SpawnerStep
    PROVE  EngineTypesInv'
<1> USE DEF EngineTypesInv, EngineTypeOK, Lives, Managed
<1> DEFINE Still == UNCHANGED <<groundVars, areaVars, tripVars, boundVars>>
<1>1. CASE Surveys
  BY <1>1 DEF Surveys, LoopAt, herdVars, groundVars, areaVars, tripVars, boundVars
<1>2. CASE Inspects
  <2>1. Still /\ UNCHANGED <<herdVars, mailbox, choice, found, missing, newborn, deeds>>
        /\ spawning' \in {"rest", "find", "none"}
    BY <1>2 DEF Inspects, LoopAt
  <2>2. alive' \in BOOLEAN /\ blamed' \subseteq Deeds
    <3>1. Gone(choice) \subseteq Deeds
      BY DeedsAreTyped
    <3>2. QED BY <1>2, <3>1 DEF Inspects, Dies
  <2>3. QED BY <2>1, <2>2 DEF herdVars, groundVars, areaVars, tripVars, boundVars
<1>3. CASE Finds
  BY <1>3 DEF Finds, LoopAt, Offspring, herdVars, groundVars, areaVars, tripVars, boundVars
<1>4. CASE Retrieves
  <2>1. Still /\ UNCHANGED <<herdVars, mailbox, choice, newborn, deeds>> /\ found' = {}
    BY <1>4 DEF Retrieves, LoopAt
  <2>2. CASE found \subseteq npcs
    <3> DEFINE k == Cardinality(found)
    <3>1. k \in Nat
      BY <2>2, FS_Subset, FS_CardinalityType
    <3>2. count \in Nat
      BY EngineAssumption DEF EngineAssumption
    <3>3. /\ missing' = (IF count > k THEN count - k ELSE 0)
          /\ spawning' = (IF count > k THEN "create" ELSE "rest")
          /\ UNCHANGED <<alive, blamed>>
      BY <1>4, <2>2 DEF Retrieves, LoopAt
    <3> HIDE DEF k
    <3>4. missing' \in Nat /\ (spawning' \in {"create", "manage"} => missing' > 0)
          /\ spawning' \in {"create", "rest"}
      BY ONLY <3>1, <3>2, <3>3
    <3>5. UNCHANGED <<alive, blamed>>
      BY ONLY <3>3
    <3>6. QED BY <2>1, <3>4, <3>5 DEF herdVars, groundVars, areaVars, tripVars, boundVars
  <2>3. CASE ~(found \subseteq npcs)
    <3>1. {"deleted", "died"} \X (found \ npcs) \subseteq Deeds
      BY DeedsAreTyped
    <3>2. spawning' = "none" /\ missing' = missing /\ alive' = FALSE /\ blamed' \subseteq Deeds
      BY <1>4, <2>3, <3>1 DEF Retrieves, LoopAt, Dies
    <3>3. QED BY <2>1, <3>2 DEF herdVars, groundVars, areaVars, tripVars, boundVars
  <2>4. QED BY <2>2, <2>3
<1>5. CASE CreatesNpc
  <2>1. PICK n \in Unborn, r \in choice :
          Born(n, r) /\ spawned' = spawned \cup {n} /\ newborn' = {n}
    BY <1>5 DEF CreatesNpc
  <2>2. n \in Npcs /\ r \in Lairs
    BY <2>1 DEF Unborn
  <2>3. IsFiniteSet(npcs')
    BY <2>1, FS_AddElement DEF Born
  <2>4. spawning' = "manage" /\ missing > 0 /\ Still
        /\ UNCHANGED <<mailbox, choice, found, missing, alive, blamed>>
    BY <1>5 DEF CreatesNpc, LoopAt
  <2>5. npcs' \subseteq Npcs /\ roaming' \subseteq Npcs /\ lair' \in [Npcs -> Lairs]
        /\ deeds' \subseteq Deeds /\ spawned' \subseteq Npcs /\ newborn' \subseteq Npcs
    BY <2>1, <2>2 DEF Born
  <2>6. QED BY <2>3, <2>4, <2>5 DEF groundVars, areaVars, tripVars, boundVars
<1>6. CASE ManagesNewborn
  <2>1. DOMAIN mailbox' = Managed \cup newborn
    BY <1>6 DEF ManagesNewborn
  <2>2. mailbox' \in [Managed \cup newborn -> [{"tick", "death"} -> Nat]]
    BY <1>6 DEF ManagesNewborn, NoEvents
  <2>3. missing \in Nat /\ missing > 0 /\ missing' = missing - 1 /\ Still
        /\ spawning' = (IF missing > 1 THEN "create" ELSE "rest") /\ newborn' = {}
        /\ UNCHANGED <<herdVars, choice, found, deeds, alive, blamed>>
    BY <1>6 DEF ManagesNewborn, LoopAt
  <2>4. missing' \in Nat /\ (spawning' \in {"create", "manage"} => missing' > 0)
        /\ spawning' \in {"create", "rest"}
    BY ONLY <2>3
  <2>5. Still /\ newborn' = {} /\ UNCHANGED <<herdVars, choice, found, deeds, alive, blamed>>
    BY <2>3
  <2>6. DOMAIN mailbox' \subseteq Npcs /\ mailbox' \in [DOMAIN mailbox' -> [{"tick", "death"} -> Nat]]
    BY <2>1, <2>2
  <2>7. QED BY <2>4, <2>5, <2>6 DEF herdVars, groundVars, areaVars, tripVars, boundVars
<1>7. QED BY <1>1, <1>2, <1>3, <1>4, <1>5, <1>6 DEF SpawnerStep

SomeCommand ==
    \/ \E n \in Npcs : Kill(n) \/ DeleteNpc(n) \/ ToggleRoaming(n)
    \/ \E r \in Lairs : DemolishRoom(r) \/ CloseExits(r)
    \/ \E c \in Counts : SetCount(c)
    \/ NewNpc \/ BuildRoom \/ DemolishLand \/ DeleteArea

\* So does every command.
LEMMA CommandTypes ==
    ASSUME EngineTypesInv, SomeCommand
    PROVE  EngineTypesInv'
<1> USE DEF EngineTypesInv, EngineTypeOK, Managed
<1> DEFINE Still == UNCHANGED <<walk, aim, loopVars, alive, ticks, restarts, blamed>>
<1>0. Ordered => Still /\ orders' \in 0..MaxOrders
  <2>1. MaxOrders \in Nat /\ orders \in 0..MaxOrders
    BY EngineAssumption DEF EngineAssumption
  <2>2. Ordered => orders < MaxOrders /\ orders' = orders + 1 /\ Still
    BY DEF Ordered
  <2>3. orders < MaxOrders /\ orders' = orders + 1 => orders' \in 0..MaxOrders
    BY ONLY <2>1
  <2> HIDE DEF Still
  <2>4. QED BY <2>2, <2>3
<1>1. ASSUME NEW n \in Npcs, Kill(n) PROVE EngineTypesInv'
  <2>1. mailbox \in Mailboxes
    BY DEF Mailboxes, Letters
  <2>2. mailbox' \in Mailboxes' /\ Managed' = Managed
    BY <1>1, <2>1, BroadcastMail DEF Kill, Letters
  <2>3. Still /\ orders' \in 0..MaxOrders /\ UNCHANGED <<herdVars, groundVars, areaVars, rivals, deeds>>
    BY <1>0, <1>1 DEF Kill
  <2>4. QED BY <2>2, <2>3 DEF herdVars, groundVars, areaVars, loopVars, Mailboxes, Letters
<1>2. ASSUME NEW n \in Npcs, DeleteNpc(n) PROVE EngineTypesInv'
  <2>1. IsFiniteSet(npcs') /\ npcs' \subseteq Npcs
    BY <1>2, FS_RemoveElement DEF DeleteNpc
  <2>2. deeds' \subseteq Deeds
    <3>1. <<"deleted", n>> \in Deeds
      BY DeedsOf
    <3>2. QED BY <1>2, <3>1 DEF DeleteNpc
  <2>3. Still /\ orders' \in 0..MaxOrders
        /\ UNCHANGED <<spawned, roaming, lair, groundVars, areaVars, mailbox, rivals>>
    BY <1>0, <1>2 DEF DeleteNpc
  <2>4. QED BY <2>1, <2>2, <2>3 DEF groundVars, areaVars, loopVars
<1>3. ASSUME NEW n \in Npcs, ToggleRoaming(n) PROVE EngineTypesInv'
  <2>1. Still /\ orders' \in 0..MaxOrders /\ roaming' \subseteq Npcs
        /\ UNCHANGED <<npcs, spawned, lair, groundVars, areaVars, mailbox, rivals, deeds>>
    BY <1>0, <1>3 DEF ToggleRoaming
  <2>2. QED BY <2>1 DEF groundVars, areaVars, loopVars
<1>4. ASSUME NEW R \in SUBSET Lairs, NEW S \in SUBSET Lairs, Demolishes(R, S),
             land' \in BOOLEAN, deeds' \subseteq Deeds
      PROVE  EngineTypesInv'
  <2>1. Still /\ orders' \in 0..MaxOrders
        /\ UNCHANGED <<herdVars, undug, spawner, count, mailbox, rivals>>
        /\ dens' \subseteq Lairs /\ area' \subseteq Lairs /\ exitless' \subseteq Lairs
    BY <1>0, <1>4 DEF Demolishes
  <2>2. QED BY <1>4, <2>1 DEF herdVars, loopVars
<1>5. ASSUME NEW r \in Lairs, DemolishRoom(r) PROVE EngineTypesInv'
  <2>1. PICK S \in SUBSET (dens \ {r}) :
          /\ Demolishes({r}, S)
          /\ deeds' = deeds \cup {<<"deleted", r>>} \cup ({"closed"} \X S)
    BY <1>5 DEF DemolishRoom
  <2>2. {r} \in SUBSET Lairs /\ S \in SUBSET Lairs /\ land' = land
    BY <1>5, <2>1 DEF DemolishRoom
  <2>3. <<"deleted", r>> \in Deeds /\ {"closed"} \X S \subseteq Deeds
    BY <2>2, DeedsAreTyped
  <2>4. deeds' \subseteq Deeds
    BY <2>1, <2>3
  <2>5. QED BY <1>4, <2>1, <2>2, <2>4
<1>6. ASSUME NEW r \in Lairs, CloseExits(r) PROVE EngineTypesInv'
  <2>1. {r} \in SUBSET Lairs /\ {} \in SUBSET Lairs /\ land' = land /\ Demolishes({}, {r})
    BY <1>6 DEF CloseExits
  <2>2. deeds' \subseteq Deeds
    <3>1. <<"closed", r>> \in Deeds
      BY DeedsOf
    <3>2. QED BY <1>6, <3>1 DEF CloseExits
  <2>3. QED BY <1>4, <2>1, <2>2
<1>7. ASSUME NEW c \in Counts, SetCount(c) PROVE EngineTypesInv'
  <2>1. Still /\ orders' \in 0..MaxOrders /\ count' \in Counts
        /\ UNCHANGED <<herdVars, groundVars, area, spawner, mailbox, rivals, deeds>>
    BY <1>0, <1>7 DEF SetCount
  <2>2. UNCHANGED <<groundVars, area, spawner, mailbox, rivals, deeds>> /\ UNCHANGED herdVars
    BY <2>1
  <2>3. UNCHANGED <<npcs, spawned, roaming, lair, dens, undug, exitless, land, area, spawner,
                    mailbox, walk, aim, rivals, spawning, choice, found, missing, newborn, alive,
                    ticks, restarts, deeds, blamed>>
    BY <2>1, <2>2 DEF herdVars, groundVars, loopVars
  <2>4. count' \in Counts /\ orders' \in 0..MaxOrders
    BY <2>1
  <2>5. QED BY <2>3, <2>4
<1>8. CASE NewNpc
  <2>1. PICK n \in Unborn, r \in dens : Born(n, r) /\ spawned' = spawned \ {n}
    BY <1>8 DEF NewNpc
  <2>2. n \in Npcs /\ r \in Lairs
    BY <2>1 DEF Unborn
  <2>3. IsFiniteSet(npcs')
    BY <2>1, FS_AddElement DEF Born
  <2>4. Still /\ orders' \in 0..MaxOrders /\ UNCHANGED <<groundVars, areaVars, mailbox, rivals>>
    BY <1>0, <1>8 DEF NewNpc
  <2>5. npcs' \subseteq Npcs /\ roaming' \subseteq Npcs /\ lair' \in [Npcs -> Lairs]
        /\ deeds' \subseteq Deeds /\ spawned' \subseteq Npcs
    BY <2>1, <2>2 DEF Born
  <2>6. QED BY <2>3, <2>4, <2>5 DEF groundVars, areaVars, loopVars
<1>9. CASE BuildRoom
  <2>1. PICK r \in undug : NewLair(r) /\ rivals' = Digging(r, Land)
    BY <1>9 DEF BuildRoom
  <2>2. r \in Lairs /\ <<"made", r>> \in Deeds
    BY <2>1, DeedsAreTyped
  <2>3. Still /\ orders' \in 0..MaxOrders /\ UNCHANGED <<herdVars, exitless, areaVars, mailbox>>
    BY <1>0, <1>9 DEF BuildRoom
  <2>4. rivals' \in [Npcs -> SUBSET Lairs]
    BY <2>1, <2>2 DEF Digging
  <2>5. dens' \subseteq Lairs /\ undug' \subseteq Lairs /\ deeds' \subseteq Deeds /\ land' = land
    BY <2>1, <2>2 DEF NewLair
  <2>6. QED BY <2>3, <2>4, <2>5 DEF herdVars, areaVars, loopVars
<1>10. CASE DemolishLand
  <2>1. PICK R \in SUBSET dens :
          Demolishes(R, {}) /\ deeds' = deeds \cup ({"deleted"} \X (R \cup {Land}))
    BY <1>10 DEF DemolishLand
  <2>2. R \in SUBSET Lairs /\ {} \in SUBSET Lairs /\ land' = FALSE
    BY <1>10, <2>1 DEF DemolishLand
  <2>3. {"deleted"} \X (R \cup {Land}) \subseteq Deeds
    BY <2>2, DeedsAreTyped
  <2>4. deeds' \subseteq Deeds
    BY <2>1, <2>3
  <2>5. QED BY <1>4, <2>1, <2>2, <2>4
<1>11. CASE DeleteArea
  <2>1. Still /\ orders' \in 0..MaxOrders /\ area' = {} /\ spawner' = FALSE
        /\ UNCHANGED <<herdVars, groundVars, count, mailbox, rivals, deeds>>
    BY <1>0, <1>11 DEF DeleteArea
  <2>2. QED BY <2>1 DEF herdVars, groundVars, loopVars
<1>12. QED BY <1>1, <1>2, <1>3, <1>5, <1>6, <1>7, <1>8, <1>9, <1>10, <1>11 DEF SomeCommand

LEMMA EngineSteps ==
    EngineNext => \/ Restart \/ Tick \/ SpawnerStep \/ SomeCommand
                  \/ \E n \in Npcs : Wanders(n) \/ Die(n)
<1>1. ASSUME NEW n \in Npcs, NpcStep(n) PROVE Wanders(n) \/ Die(n)
  BY <1>1 DEF NpcStep
<1>2. QED BY <1>1 DEF EngineNext, SomeCommand

\* Every step keeps the types.
LEMMA NextEngineTypes ==
    ASSUME EngineTypesInv, [EngineNext]_engineVars
    PROVE  EngineTypesInv'
<1> USE DEF EngineTypesInv, EngineTypeOK
<1>1. CASE Restart
  <2>1. DOMAIN mailbox' = npcs /\ mailbox' \in [npcs -> [{"tick", "death"} -> Nat]]
    BY <1>1 DEF Restart, Manages, NoEvents
  <2>2. restarts' \in 0..MaxRestarts
    <3>1. MaxRestarts \in Nat /\ restarts \in 0..MaxRestarts
      BY EngineAssumption DEF EngineAssumption
    <3>2. restarts < MaxRestarts /\ restarts' = restarts + 1
      BY <1>1 DEF Restart
    <3>3. QED BY ONLY <3>1, <3>2
  <2>3. walk' \in [Npcs -> {"rest"}] /\ aim' \in [Npcs -> SUBSET Lairs] /\ rivals' \in [Npcs -> SUBSET Lairs]
        /\ spawning' \in {"none", "rest"}
    BY <1>1 DEF Restart
  <2>4. QED BY <1>1, <2>1, <2>2, <2>3 DEF Restart, herdVars, groundVars, areaVars, Managed
<1>2. CASE Tick
  <2>1. mailbox \in Mailboxes
    BY DEF Mailboxes, Letters
  <2>2. mailbox' \in Mailboxes' /\ Managed' = Managed
    BY <1>2, <2>1, BroadcastMail DEF Tick, Letters
  <2>3. ticks' \in 0..MaxTicks
    <3>1. MaxTicks \in Nat /\ ticks \in 0..MaxTicks
      BY EngineAssumption DEF EngineAssumption
    <3>2. ticks < MaxTicks /\ ticks' = ticks + 1
      BY <1>2 DEF Tick
    <3>3. QED BY ONLY <3>1, <3>2
  <2>4. QED BY <1>2, <2>2, <2>3
        DEF Tick, herdVars, groundVars, areaVars, tripVars, loopVars, Mailboxes, Letters
<1>3. CASE SpawnerStep
  BY <1>3, SpawnerTypes
<1>4. ASSUME NEW n \in Npcs, Wanders(n) PROVE EngineTypesInv'
  BY <1>4, WanderTypes
<1>5. ASSUME NEW n \in Npcs, Die(n) PROVE EngineTypesInv'
  <2>1. UNCHANGED <<spawned, roaming, lair, groundVars, areaVars, tripVars, loopVars, boundVars>>
    BY <1>5 DEF Die
  <2>2. <<"died", n>> \in Deeds /\ {<<"deleted", n>>} \subseteq Deeds
    BY DeedsOf
  <2>3. CASE n \in npcs
    <3>1. Deceased(n) /\ Unmanaged(n)
      BY <1>5, <2>3 DEF Die
    <3>2. IsFiniteSet(npcs') /\ npcs' \subseteq Npcs
      BY <3>1, FS_RemoveElement DEF Deceased
    <3>3. DOMAIN mailbox' \subseteq Npcs /\ mailbox' \in [DOMAIN mailbox' -> [{"tick", "death"} -> Nat]]
      BY <3>1 DEF Unmanaged, Managed
    <3>4. deeds' \subseteq Deeds /\ UNCHANGED <<alive, blamed>>
      BY <2>2, <3>1 DEF Deceased, Lives
    <3>5. QED BY <2>1, <3>2, <3>3, <3>4
          DEF groundVars, areaVars, tripVars, loopVars, boundVars, Managed
  <2>4. CASE n \notin npcs
    <3>1. alive' = FALSE /\ blamed' \subseteq Deeds /\ UNCHANGED <<npcs, mailbox, deeds>>
      BY <1>5, <2>2, <2>4 DEF Die, Dies
    <3>2. QED BY <2>1, <3>1 DEF groundVars, areaVars, tripVars, loopVars, boundVars, Managed
  <2>5. QED BY <2>3, <2>4
<1>6. CASE SomeCommand
  BY <1>6, CommandTypes
<1>7. CASE UNCHANGED engineVars
  BY <1>7 DEF engineVars, herdVars, groundVars, areaVars, tripVars, loopVars, boundVars, Managed
<1>8. QED BY <1>1, <1>2, <1>3, <1>4, <1>5, <1>6, <1>7, EngineSteps

\* The engine keeps them, through restarts.
THEOREM EngineTypesInvariant == EngineSpec => []EngineTypesInv
<1>1. EngineTypesInv /\ [EngineNext]_engineVars => EngineTypesInv'
  BY NextEngineTypes
<1>2. QED BY <1>1, InitEngineTypes, PTL DEF EngineSpec

\* The variables of the engine have their types in every behaviour: what the
\* spawner has still to make is never negative, and only an event that is in a
\* mailbox is taken from it.
THEOREM EngineTypes == EngineSpec => []EngineTypeOK
  BY EngineTypesInvariant, PTL DEF EngineTypesInv

-----------------------------------------------------------------------------
(* The engine: what crashes it                                             *)

\* A room that anyone looks at has been made, and one that is there no more has
\* been deleted.
RoomsAreKnown ==
    /\ dens \cap undug = {} /\ area \cap undug = {} /\ choice \cap undug = {}
    /\ \A n \in Npcs : lair[n] \notin undug /\ aim[n] \cap undug = {}
    /\ \A r \in Lairs : r \notin dens \cup undug => <<"deleted", r>> \in deeds

\* Whatever else a panic can come from has been done.
GroundHasCauses ==
    /\ \A r \in exitless : <<"closed", r>> \in deeds \/ <<"made", r>> \in deeds
    /\ ~land => <<"deleted", Land>> \in deeds
    /\ \A n \in Npcs : \A r \in rivals[n] : <<"made", r>> \in deeds

\* Whoever has a goroutine, or is about to get one, is in the database unless
\* deleted by hand: an NPC that dies leaves both at once.  Whom the spawner has
\* listed has been deleted or has died if it is there no more.
GhostsHaveCauses ==
    /\ newborn \cap Managed = {}
    /\ \A n \in (Managed \cup newborn) \ npcs : <<"deleted", n>> \in deeds
    /\ \A n \in found \ npcs : <<"deleted", n>> \in deeds \/ <<"died", n>> \in deeds

CrashInv == RoomsAreKnown /\ GroundHasCauses /\ GhostsHaveCauses /\ CrashHasCause

\* The invariant holds when the process first starts: all rooms are made or not
\* dug yet, and every NPC in the database gets its goroutine.
LEMMA InitCrashInv == EngineInit => CrashInv
<1> SUFFICES ASSUME EngineInit PROVE CrashInv
  OBVIOUS
<1> USE EngineAssumption DEF EngineAssumption
<1>1. (CHOOSE r \in Home : TRUE) \in Home
  OBVIOUS
<1>2. RoomsAreKnown
  BY <1>1 DEF EngineInit, RoomsAreKnown
<1>3. GroundHasCauses /\ GhostsHaveCauses /\ CrashHasCause
  BY DEF EngineInit, GroundHasCauses, GhostsHaveCauses, CrashHasCause, Managed, Manages
<1>4. QED BY <1>2, <1>3 DEF CrashInv

\* Getting a room that is gone is blamed on who has deleted it.
LEMMA GoneRoomsAreBlamed ==
    ASSUME RoomsAreKnown, NEW S \in SUBSET Lairs, S \cap undug = {}, ~(S \subseteq dens)
    PROVE  Gone(S) \cap deeds # {}
<1>1. PICK r \in S : r \notin dens
  OBVIOUS
<1>2. <<"deleted", r>> \in deeds
  BY <1>1 DEF RoomsAreKnown
<1>3. <<"deleted", r>> \in Gone(S)
  BY <1>1 DEF Gone
<1>4. QED BY <1>2, <1>3

\* The rooms stay as known as they were when none is made or deleted.
LEMMA SameRooms ==
    ASSUME RoomsAreKnown, deeds \subseteq deeds', UNCHANGED <<dens, undug, area, choice>>,
           \A n \in Npcs : lair'[n] \notin undug /\ aim'[n] \cap undug = {}
    PROVE  RoomsAreKnown'
BY DEF RoomsAreKnown

LEMMA SameGround ==
    ASSUME GroundHasCauses, deeds \subseteq deeds', UNCHANGED <<exitless, land, rivals>>
    PROVE  GroundHasCauses'
BY DEF GroundHasCauses

LEMMA SameGhosts ==
    ASSUME GhostsHaveCauses, deeds \subseteq deeds', UNCHANGED <<npcs, newborn, found>>,
           Managed' = Managed
    PROVE  GhostsHaveCauses'
BY DEF GhostsHaveCauses

\* An NPC is born with an id that nobody has, in a room that has been made.
LEMMA BirthIsHarmless ==
    ASSUME EngineTypesInv, CrashInv, NEW n \in Unborn, NEW r \in dens \cup choice, Born(n, r),
           UNCHANGED <<groundVars, areaVars, tripVars, choice, found, mailbox, alive>>, alive,
           newborn' = newborn \/ newborn' = {n}
    PROVE  CrashInv'
<1>0. /\ RoomsAreKnown /\ GroundHasCauses /\ GhostsHaveCauses /\ lair \in [Npcs -> Lairs]
      /\ n \in Npcs /\ n \notin Managed \cup newborn \cup found /\ Managed' = Managed
      /\ \A x \in Lairs \cup {Land} : x # n
      /\ dens \subseteq Lairs /\ choice \subseteq Lairs /\ exitless \subseteq Lairs
      /\ rivals \in [Npcs -> SUBSET Lairs]
  BY EngineAssumption DEF CrashInv, EngineTypesInv, EngineTypeOK, Unborn, Managed, EngineAssumption
<1>1. /\ npcs' = npcs \cup {n} /\ lair' = [lair EXCEPT ![n] = r]
      /\ deeds' = deeds \ {<<"deleted", n>>, <<"died", n>>}
  BY DEF Born
<1>2. ASSUME NEW a, NEW x, x # n, <<a, x>> \in deeds PROVE <<a, x>> \in deeds'
  BY <1>1, <1>2
<1>3. RoomsAreKnown'
  <2>1. UNCHANGED <<dens, undug, area, choice, aim>>
    BY DEF groundVars, areaVars, tripVars
  <2>2. r \notin undug
    BY <1>0 DEF RoomsAreKnown
  <2>3. \A m \in Npcs : lair'[m] \notin undug
    BY <1>0, <1>1, <2>2 DEF RoomsAreKnown
  <2>4. \A q \in Lairs : q \notin dens \cup undug => <<"deleted", q>> \in deeds'
    BY <1>0, <1>2 DEF RoomsAreKnown
  <2>5. QED BY <1>0, <2>1, <2>3, <2>4 DEF RoomsAreKnown
<1>4. GroundHasCauses'
  <2>1. UNCHANGED <<exitless, land, rivals>>
    BY DEF groundVars, tripVars
  <2>2. \A q \in exitless : <<"closed", q>> \in deeds' \/ <<"made", q>> \in deeds'
    BY <1>0, <1>2 DEF GroundHasCauses
  <2>3. ~land => <<"deleted", Land>> \in deeds'
    BY <1>0, <1>2 DEF GroundHasCauses
  <2>4. \A m \in Npcs : \A q \in rivals[m] : <<"made", q>> \in deeds'
    BY <1>0, <1>2 DEF GroundHasCauses
  <2>5. QED BY <2>1, <2>2, <2>3, <2>4 DEF GroundHasCauses
<1>5. GhostsHaveCauses'
  <2>1. \A m \in (Managed \cup newborn) \ npcs : <<"deleted", m>> \in deeds'
    BY <1>0, <1>2 DEF GhostsHaveCauses
  <2>2. \A m \in found \ npcs : <<"deleted", m>> \in deeds' \/ <<"died", m>> \in deeds'
    BY <1>0, <1>2 DEF GhostsHaveCauses
  <2>3. newborn' \cap Managed' = {}
    BY <1>0 DEF GhostsHaveCauses
  <2>4. QED BY <1>0, <1>1, <2>1, <2>2, <2>3 DEF GhostsHaveCauses
<1>6. QED BY <1>3, <1>4, <1>5 DEF CrashHasCause, CrashInv

\* A walk looks only at rooms that have been made.
LEMMA WanderCrashes ==
    ASSUME EngineTypesInv, CrashInv, NEW n \in Npcs, Wanders(n)
    PROVE  CrashInv'
<1> USE DEF Lives
<1>0. /\ RoomsAreKnown /\ GroundHasCauses /\ GhostsHaveCauses /\ CrashHasCause
      /\ lair \in [Npcs -> Lairs] /\ aim \in [Npcs -> SUBSET Lairs]
      /\ rivals \in [Npcs -> SUBSET Lairs] /\ dens \subseteq Lairs /\ undug \subseteq Lairs
  BY DEF CrashInv, EngineTypesInv, EngineTypeOK
<1>1. CASE Roams(n)
  <2>1. UNCHANGED <<herdVars, groundVars, areaVars, aim, rivals, loopVars, deeds>>
        /\ Managed' = Managed
    BY <1>1 DEF Roams, Handled, Managed
  <2>2. RoomsAreKnown' /\ GroundHasCauses' /\ GhostsHaveCauses'
    BY <1>0, <2>1, SameRooms, SameGround, SameGhosts
       DEF herdVars, groundVars, areaVars, loopVars, RoomsAreKnown
  <2>3. CASE n \in roaming /\ lair[n] \notin dens
    <3>1. Gone({lair[n]}) \cap deeds # {}
      <4>1. {lair[n]} \in SUBSET Lairs /\ {lair[n]} \cap undug = {} /\ ~({lair[n]} \subseteq dens)
        BY <1>0, <2>3 DEF RoomsAreKnown
      <4>2. QED BY <1>0, <4>1, GoneRoomsAreBlamed
    <3>2. Dies(Gone({lair[n]}))
      BY <1>1, <2>3 DEF Roams
    <3>3. QED BY <2>1, <2>2, <3>1, <3>2 DEF Dies, CrashHasCause, CrashInv
  <2>4. CASE n \in roaming /\ lair[n] \in dens /\ lair[n] \in exitless
    <3>1. <<"closed", lair[n]>> \in deeds \/ <<"made", lair[n]>> \in deeds
      BY <1>0, <2>4 DEF GroundHasCauses
    <3>2. Dies({"closed", "made"} \X {lair[n]})
      BY <1>1, <2>4 DEF Roams
    <3>3. ({"closed", "made"} \X {lair[n]}) \cap deeds # {}
      BY <3>1
    <3>4. QED BY <2>1, <2>2, <3>2, <3>3 DEF Dies, CrashHasCause, CrashInv
  <2>5. CASE ~(n \in roaming /\ (lair[n] \notin dens \/ lair[n] \in exitless))
    <3>1. UNCHANGED <<alive, blamed>>
      BY <1>1, <2>5 DEF Roams
    <3>2. QED BY <1>0, <2>1, <2>2, <3>1 DEF CrashHasCause, CrashInv
  <2>6. QED BY <2>3, <2>4, <2>5
<1>2. ASSUME WalksFrom(n, "set out") \/ WalksFrom(n, "explore") \/ WalksFrom(n, "reach")
             \/ WalksFrom(n, "dig") \/ WalksFrom(n, "open") \/ WalksFrom(n, "cross")
             \/ WalksFrom(n, "glance") \/ WalksFrom(n, "recognise"),
             deeds \subseteq deeds'
      PROVE  GhostsHaveCauses' /\ UNCHANGED <<area, choice>>
  BY <1>0, <1>2, SameGhosts DEF WalksFrom, areaVars, loopVars, Managed
<1>3. ASSUME NEW S \in SUBSET Lairs, S \cap undug = {}, NEW b, Gets(n, S, b), deeds' = deeds
      PROVE  CrashHasCause'
  <2>1. CASE S \subseteq dens
    BY <1>0, <1>3, <2>1 DEF Gets, CrashHasCause
  <2>2. CASE ~(S \subseteq dens)
    BY <1>0, <1>3, <2>2, GoneRoomsAreBlamed DEF Gets, Dies, CrashHasCause
  <2>3. QED BY <2>1, <2>2
<1>4. {lair[n]} \in SUBSET Lairs /\ {lair[n]} \cap undug = {}
      /\ aim[n] \in SUBSET Lairs /\ aim[n] \cap undug = {}
  BY <1>0 DEF RoomsAreKnown
<1>5. CASE SetsOut(n)
  <2>1. UNCHANGED <<lair, groundVars, aim, rivals, deeds>> /\ WalksFrom(n, "set out")
    BY <1>5 DEF SetsOut
  <2>2. CrashHasCause'
    BY <1>3, <1>4, <1>5, <2>1 DEF SetsOut
  <2>3. GhostsHaveCauses' /\ UNCHANGED <<area, choice>>
    BY <1>2, <2>1
  <2>4. QED BY <1>0, <2>1, <2>2, <2>3, SameRooms, SameGround DEF groundVars, RoomsAreKnown, CrashInv
<1>6. CASE Explores(n)
  <2>1. UNCHANGED <<lair, groundVars, rivals, deeds, alive, blamed>> /\ WalksFrom(n, "explore")
    BY <1>6 DEF Explores
  <2>2. aim' = aim \/ \E r \in dens : aim' = [aim EXCEPT ![n] = {r}]
    BY <1>6 DEF Explores
  <2>3. \A m \in Npcs : lair'[m] \notin undug /\ aim'[m] \cap undug = {}
    BY <1>0, <2>1, <2>2 DEF RoomsAreKnown
  <2>4. GhostsHaveCauses' /\ UNCHANGED <<area, choice>>
    BY <1>2, <2>1
  <2>5. RoomsAreKnown' /\ GroundHasCauses'
    BY <1>0, <2>1, <2>3, <2>4, SameRooms, SameGround DEF groundVars
  <2>6. QED BY <1>0, <2>1, <2>4, <2>5 DEF CrashHasCause, CrashInv
<1>7. CASE Reaches(n)
  <2>1. UNCHANGED <<lair, groundVars, aim, rivals, deeds>> /\ WalksFrom(n, "reach")
    BY <1>7 DEF Reaches
  <2>2. CrashHasCause'
    BY <1>3, <1>4, <1>7, <2>1 DEF Reaches
  <2>3. GhostsHaveCauses' /\ UNCHANGED <<area, choice>>
    BY <1>2, <2>1
  <2>4. QED BY <1>0, <2>1, <2>2, <2>3, SameRooms, SameGround DEF groundVars, RoomsAreKnown, CrashInv
<1>8. CASE Digs(n)
  <2>1. WalksFrom(n, "dig") /\ lair' = lair
    BY <1>8 DEF Digs
  <2>2. ASSUME NEW x, x \in deeds, Dies({x}),
               UNCHANGED <<dens, undug, land, exitless, aim, rivals, walk, deeds>>
        PROVE  CrashInv'
    <3>1. GhostsHaveCauses' /\ UNCHANGED <<area, choice>>
      BY <1>2, <2>1, <2>2
    <3>2. RoomsAreKnown' /\ GroundHasCauses'
      BY <1>0, <2>1, <2>2, <3>1, SameRooms, SameGround DEF RoomsAreKnown
    <3>3. CrashHasCause'
      BY <2>2 DEF Dies, CrashHasCause
    <3>4. QED BY <3>1, <3>2, <3>3 DEF CrashInv
  <2>3. CASE ~land /\ Dies({<<"deleted", Land>>})
             /\ UNCHANGED <<dens, undug, land, exitless, aim, rivals, walk, deeds>>
    <3>1. <<"deleted", Land>> \in deeds
      BY <1>0, <2>3 DEF GroundHasCauses
    <3>2. QED BY <2>2, <2>3, <3>1
  <2>4. ASSUME NEW r \in rivals[n], Dies({<<"made", r>>}),
               UNCHANGED <<dens, undug, land, exitless, aim, rivals, walk, deeds>>
        PROVE  CrashInv'
    <3>1. <<"made", r>> \in deeds
      BY <1>0 DEF GroundHasCauses
    <3>2. QED BY <2>2, <2>4, <3>1
  <2>5. ASSUME NEW r \in undug, NewLair(r), exitless' = exitless \cup {r},
               aim' = [aim EXCEPT ![n] = {r}], rivals' = Digging(r, n), Lives
        PROVE  CrashInv'
    <3>1. deeds \subseteq deeds' /\ <<"made", r>> \in deeds' /\ dens' = dens \cup {r}
          /\ undug' = undug \ {r} /\ land' = land
      BY <2>5 DEF NewLair
    <3>2. GhostsHaveCauses' /\ UNCHANGED <<area, choice>>
      BY <1>2, <2>1, <3>1
    <3>3. RoomsAreKnown'
      BY <1>0, <2>1, <2>5, <3>1, <3>2 DEF RoomsAreKnown
    <3>4. \A m \in Npcs : rivals'[m] \subseteq rivals[m] \cup {r}
      BY <2>5 DEF Digging
    <3>5. GroundHasCauses'
      BY <1>0, <2>5, <3>1, <3>4 DEF GroundHasCauses
    <3>6. CrashHasCause'
      BY <1>0, <2>5, <3>1 DEF CrashHasCause
    <3>7. QED BY <3>2, <3>3, <3>5, <3>6 DEF CrashInv
  <2>6. QED BY <1>8, <2>3, <2>4, <2>5 DEF Digs
<1>9. CASE OpensBack(n)
  <2>1. UNCHANGED <<lair, dens, undug, land, aim, rivals, deeds, alive, blamed>>
        /\ exitless' \subseteq exitless /\ WalksFrom(n, "open")
    BY <1>9 DEF OpensBack
  <2>2. GhostsHaveCauses' /\ UNCHANGED <<area, choice>>
    BY <1>2, <2>1
  <2>3. RoomsAreKnown'
    BY <1>0, <2>1, <2>2, SameRooms DEF RoomsAreKnown
  <2>4. GroundHasCauses' /\ CrashHasCause'
    BY <1>0, <2>1 DEF GroundHasCauses, CrashHasCause
  <2>5. QED BY <2>2, <2>3, <2>4 DEF CrashInv
<1>10. CASE Crosses(n)
  <2>1. UNCHANGED <<groundVars, rivals, deeds>> /\ WalksFrom(n, "cross")
    BY <1>10 DEF Crosses
  <2>2. CrashHasCause'
    BY <1>3, <1>4, <1>10, <2>1 DEF Crosses
  <2>3. PICK r \in aim[n] : lair' = [lair EXCEPT ![n] = r] /\ aim' = [aim EXCEPT ![n] = {}]
    BY <1>10 DEF Crosses
  <2>4. \A m \in Npcs : lair'[m] \notin undug /\ aim'[m] \cap undug = {}
    BY <1>0, <2>3 DEF RoomsAreKnown
  <2>5. GhostsHaveCauses' /\ UNCHANGED <<area, choice>>
    BY <1>2, <2>1
  <2>6. RoomsAreKnown' /\ GroundHasCauses'
    BY <1>0, <2>1, <2>4, <2>5, SameRooms, SameGround DEF groundVars
  <2>7. QED BY <2>2, <2>5, <2>6 DEF CrashInv
<1>11. CASE Glances(n)
  <2>1. UNCHANGED <<lair, groundVars, rivals, deeds, alive, blamed>> /\ WalksFrom(n, "glance")
    BY <1>11 DEF Glances
  <2>2. aim' = aim \/ \E r \in dens : aim' = [aim EXCEPT ![n] = {r}]
    BY <1>11 DEF Glances
  <2>3. \A m \in Npcs : lair'[m] \notin undug /\ aim'[m] \cap undug = {}
    BY <1>0, <2>1, <2>2 DEF RoomsAreKnown
  <2>4. GhostsHaveCauses' /\ UNCHANGED <<area, choice>>
    BY <1>2, <2>1
  <2>5. RoomsAreKnown' /\ GroundHasCauses'
    BY <1>0, <2>1, <2>3, <2>4, SameRooms, SameGround DEF groundVars
  <2>6. QED BY <1>0, <2>1, <2>4, <2>5 DEF CrashHasCause, CrashInv
<1>12. CASE Recognises(n)
  <2>1. UNCHANGED <<lair, groundVars, rivals, deeds>> /\ WalksFrom(n, "recognise")
        /\ aim' = [aim EXCEPT ![n] = {}]
    BY <1>12 DEF Recognises
  <2>2. CrashHasCause'
    BY <1>3, <1>4, <1>12, <2>1 DEF Recognises
  <2>3. \A m \in Npcs : lair'[m] \notin undug /\ aim'[m] \cap undug = {}
    BY <1>0, <2>1 DEF RoomsAreKnown
  <2>4. GhostsHaveCauses' /\ UNCHANGED <<area, choice>>
    BY <1>2, <2>1
  <2>5. RoomsAreKnown' /\ GroundHasCauses'
    BY <1>0, <2>1, <2>3, <2>4, SameRooms, SameGround DEF groundVars
  <2>6. QED BY <2>2, <2>4, <2>5 DEF CrashInv
<1>13. QED BY <1>1, <1>5, <1>6, <1>7, <1>8, <1>9, <1>10, <1>11, <1>12 DEF Wanders

\* The spawner gets only rooms and NPCs that it has listed.
LEMMA SpawnerCrashes ==
    ASSUME EngineTypesInv, CrashInv, SpawnerStep
    PROVE  CrashInv'
<1> USE DEF Lives
<1>0. /\ RoomsAreKnown /\ GroundHasCauses /\ GhostsHaveCauses /\ CrashHasCause
      /\ choice \subseteq Lairs /\ lair \in [Npcs -> Lairs]
  BY DEF CrashInv, EngineTypesInv, EngineTypeOK
<1> DEFINE Still == UNCHANGED <<groundVars, areaVars, tripVars>>
<1>1. CASE Surveys
  <2>1. Still /\ choice' = area
        /\ UNCHANGED <<herdVars, mailbox, found, newborn, deeds, alive, blamed>>
    BY <1>1 DEF Surveys, LoopAt
  <2>2. RoomsAreKnown'
    BY <1>0, <2>1 DEF RoomsAreKnown, herdVars, groundVars, areaVars, tripVars
  <2>3. GroundHasCauses' /\ GhostsHaveCauses' /\ CrashHasCause'
    BY <1>0, <2>1, SameGround, SameGhosts
       DEF herdVars, groundVars, tripVars, Managed, CrashHasCause
  <2>4. QED BY <2>2, <2>3 DEF CrashInv
<1>2. ASSUME Still, UNCHANGED <<herdVars, mailbox, choice, newborn, deeds>>, found' = found \/ found' = {}
      PROVE  RoomsAreKnown' /\ GroundHasCauses' /\ GhostsHaveCauses'
  <2>1. RoomsAreKnown' /\ GroundHasCauses'
    BY <1>0, <1>2, SameRooms, SameGround
       DEF herdVars, groundVars, areaVars, tripVars, RoomsAreKnown
  <2>2. GhostsHaveCauses'
    BY <1>0, <1>2 DEF herdVars, Managed, GhostsHaveCauses
  <2>3. QED BY <2>1, <2>2
<1>3. CASE Inspects
  <2>1. Still /\ UNCHANGED <<herdVars, mailbox, choice, newborn, deeds, found>>
    BY <1>3 DEF Inspects, LoopAt
  <2>2. CASE choice \subseteq dens
    <3>1. UNCHANGED <<alive, blamed>>
      BY <1>3, <2>2 DEF Inspects
    <3>2. QED BY <1>0, <1>2, <2>1, <3>1 DEF CrashHasCause, CrashInv
  <2>3. CASE ~(choice \subseteq dens)
    <3>1. Dies(Gone(choice))
      BY <1>3, <2>3 DEF Inspects
    <3>2. choice \cap undug = {}
      BY <1>0 DEF RoomsAreKnown
    <3>3. Gone(choice) \cap deeds # {}
      BY <1>0, <2>3, <3>2, GoneRoomsAreBlamed
    <3>4. QED BY <1>2, <2>1, <3>1, <3>3 DEF Dies, CrashHasCause, CrashInv
  <2>4. QED BY <2>2, <2>3
<1>4. CASE Finds
  <2>1. Still /\ found' \subseteq npcs
        /\ UNCHANGED <<herdVars, mailbox, choice, newborn, deeds, alive, blamed>>
    BY <1>4 DEF Finds, LoopAt, Offspring
  <2>2. RoomsAreKnown' /\ GroundHasCauses'
    BY <1>0, <2>1, SameRooms, SameGround
       DEF herdVars, groundVars, areaVars, tripVars, RoomsAreKnown
  <2>3. GhostsHaveCauses' /\ CrashHasCause'
    BY <1>0, <2>1 DEF herdVars, Managed, GhostsHaveCauses, CrashHasCause
  <2>4. QED BY <2>2, <2>3 DEF CrashInv
<1>5. CASE Retrieves
  <2>1. Still /\ UNCHANGED <<herdVars, mailbox, choice, newborn, deeds>> /\ found' = {}
    BY <1>5 DEF Retrieves, LoopAt
  <2>2. CASE found \subseteq npcs
    <3>1. UNCHANGED <<alive, blamed>>
      BY <1>5, <2>2 DEF Retrieves
    <3>2. QED BY <1>0, <1>2, <2>1, <3>1 DEF CrashHasCause, CrashInv
  <2>3. CASE ~(found \subseteq npcs)
    <3>1. PICK n \in found \ npcs : <<"deleted", n>> \in deeds \/ <<"died", n>> \in deeds
      BY <1>0, <2>3 DEF GhostsHaveCauses
    <3>2. ({"deleted", "died"} \X (found \ npcs)) \cap deeds # {}
      BY <3>1
    <3>3. Dies({"deleted", "died"} \X (found \ npcs))
      BY <1>5, <2>3 DEF Retrieves
    <3>4. QED BY <1>2, <2>1, <3>2, <3>3 DEF Dies, CrashHasCause, CrashInv
  <2>4. QED BY <2>2, <2>3
<1>6. CASE CreatesNpc
  <2>1. PICK n \in Unborn, r \in choice : Born(n, r) /\ newborn' = {n}
    BY <1>6 DEF CreatesNpc
  <2>2. Still /\ UNCHANGED <<mailbox, choice, found>> /\ alive /\ alive'
    BY <1>6 DEF CreatesNpc, LoopAt
  <2>3. CrashInv'
    BY <1>0, <2>1, <2>2, BirthIsHarmless
  <2>4. QED BY <2>3
<1>7. CASE ManagesNewborn
  <2>1. Still /\ UNCHANGED <<herdVars, choice, found, deeds, alive, blamed>> /\ newborn' = {}
        /\ Managed' = Managed \cup newborn
    BY <1>7 DEF ManagesNewborn, LoopAt, Managed
  <2>2. RoomsAreKnown' /\ GroundHasCauses'
    BY <1>0, <2>1, SameRooms, SameGround
       DEF herdVars, groundVars, areaVars, tripVars, RoomsAreKnown
  <2>3. GhostsHaveCauses' /\ CrashHasCause'
    BY <1>0, <2>1 DEF herdVars, GhostsHaveCauses, CrashHasCause
  <2>4. QED BY <2>2, <2>3 DEF CrashInv
<1>8. QED BY <1>1, <1>3, <1>4, <1>5, <1>6, <1>7 DEF SpawnerStep

\* So do commands, which never panic here.
LEMMA CommandCrashes ==
    ASSUME EngineTypesInv, CrashInv, SomeCommand
    PROVE  CrashInv'
<1>0. /\ RoomsAreKnown /\ GroundHasCauses /\ GhostsHaveCauses
      /\ dens \subseteq Lairs /\ rivals \in [Npcs -> SUBSET Lairs]
  BY DEF CrashInv, EngineTypesInv, EngineTypeOK
<1> DEFINE Still == alive /\ UNCHANGED <<walk, aim, loopVars, alive, blamed>>
<1>1. Ordered => Still
  BY DEF Ordered
<1>2. ASSUME NEW n \in Npcs, Kill(n) \/ ToggleRoaming(n) PROVE CrashInv'
  <2>1. Still /\ UNCHANGED <<npcs, lair, groundVars, areaVars, rivals, deeds>> /\ Managed' = Managed
    BY <1>1, <1>2 DEF Kill, ToggleRoaming, Broadcast, Managed, herdVars
  <2>2. RoomsAreKnown' /\ GroundHasCauses' /\ GhostsHaveCauses'
    BY <1>0, <2>1, SameRooms, SameGround, SameGhosts
       DEF groundVars, areaVars, loopVars, RoomsAreKnown
  <2>3. QED BY <2>1, <2>2 DEF CrashHasCause, CrashInv
<1>3. ASSUME NEW n \in Npcs, DeleteNpc(n) PROVE CrashInv'
  <2>1. Still /\ UNCHANGED <<lair, groundVars, areaVars, mailbox, rivals>>
        /\ npcs' = npcs \ {n} /\ deeds' = deeds \cup {<<"deleted", n>>}
    BY <1>1, <1>3 DEF DeleteNpc
  <2>2. RoomsAreKnown' /\ GroundHasCauses'
    BY <1>0, <2>1, SameRooms, SameGround DEF groundVars, areaVars, loopVars, RoomsAreKnown
  <2>3. GhostsHaveCauses'
    BY <1>0, <2>1 DEF GhostsHaveCauses, Managed, loopVars
  <2>4. QED BY <2>1, <2>2, <2>3 DEF CrashHasCause, CrashInv
<1>4. ASSUME NEW R \in SUBSET Lairs, NEW S \in SUBSET Lairs, Demolishes(R, S),
             deeds \subseteq deeds', {"deleted"} \X R \subseteq deeds',
             {"closed"} \X S \subseteq deeds', land' = land \/ <<"deleted", Land>> \in deeds'
      PROVE  CrashInv'
  <2>1. Still /\ UNCHANGED <<herdVars, undug, mailbox, rivals>>
        /\ dens' = dens \ R /\ area' = area \ R /\ exitless' = exitless \cup S
    BY <1>1, <1>4 DEF Demolishes
  <2>2. \A r \in R : <<"deleted", r>> \in deeds'
    BY <1>4
  <2>3. \A r \in S : <<"closed", r>> \in deeds'
    BY <1>4
  <2>4. RoomsAreKnown'
    BY <1>0, <1>4, <2>1, <2>2 DEF RoomsAreKnown, herdVars, loopVars
  <2>5. GroundHasCauses'
    BY <1>0, <1>4, <2>1, <2>3 DEF GroundHasCauses
  <2>6. GhostsHaveCauses'
    BY <1>0, <1>4, <2>1, SameGhosts DEF herdVars, loopVars, Managed
  <2>7. QED BY <2>1, <2>4, <2>5, <2>6 DEF CrashHasCause, CrashInv
<1>5. ASSUME NEW r \in Lairs, DemolishRoom(r) PROVE CrashInv'
  <2>1. PICK S \in SUBSET (dens \ {r}) :
          /\ Demolishes({r}, S)
          /\ deeds' = deeds \cup {<<"deleted", r>>} \cup ({"closed"} \X S)
    BY <1>5 DEF DemolishRoom
  <2>2. {r} \in SUBSET Lairs /\ S \in SUBSET Lairs /\ land' = land
    BY <1>0, <1>5, <2>1 DEF DemolishRoom
  <2>3. {"deleted"} \X {r} \subseteq deeds' /\ {"closed"} \X S \subseteq deeds' /\ deeds \subseteq deeds'
    BY <2>1
  <2>4. QED BY <1>4, <2>1, <2>2, <2>3
<1>6. ASSUME NEW r \in Lairs, CloseExits(r) PROVE CrashInv'
  <2>1. {r} \in SUBSET Lairs /\ {} \in SUBSET Lairs /\ land' = land /\ Demolishes({}, {r})
    BY <1>6 DEF CloseExits
  <2>2. {"deleted"} \X {} \subseteq deeds' /\ {"closed"} \X {r} \subseteq deeds' /\ deeds \subseteq deeds'
    BY <1>6 DEF CloseExits
  <2>3. QED BY <1>4, <2>1, <2>2
<1>7. ASSUME NEW c \in Counts, SetCount(c) PROVE CrashInv'
  <2>1. Still /\ UNCHANGED <<herdVars, groundVars, area, mailbox, rivals, deeds>>
    BY <1>1, <1>7 DEF SetCount
  <2>2. RoomsAreKnown' /\ GroundHasCauses' /\ GhostsHaveCauses'
    BY <1>0, <2>1, SameRooms, SameGround, SameGhosts
       DEF herdVars, groundVars, loopVars, RoomsAreKnown, Managed
  <2>3. QED BY <2>1, <2>2 DEF CrashHasCause, CrashInv
<1>8. CASE NewNpc
  <2>1. PICK n \in Unborn, r \in dens : Born(n, r)
    BY <1>8 DEF NewNpc
  <2>2. Still /\ UNCHANGED <<groundVars, areaVars, mailbox, rivals>>
    BY <1>1, <1>8 DEF NewNpc
  <2>3. QED BY <1>0, <2>1, <2>2, BirthIsHarmless DEF tripVars, loopVars
<1>9. CASE BuildRoom
  <2>1. PICK r \in undug : NewLair(r) /\ rivals' = Digging(r, Land)
    BY <1>9 DEF BuildRoom
  <2>2. Still /\ UNCHANGED <<herdVars, exitless, areaVars, mailbox>>
    BY <1>1, <1>9 DEF BuildRoom
  <2>3. deeds' = deeds \cup {<<"made", r>>} /\ dens' = dens \cup {r} /\ undug' = undug \ {r}
        /\ land' = land
    BY <2>1 DEF NewLair
  <2>4. \A m \in Npcs : rivals'[m] \subseteq rivals[m] \cup {r}
    BY <2>1 DEF Digging
  <2>5. RoomsAreKnown'
    BY <1>0, <2>1, <2>2, <2>3 DEF RoomsAreKnown, herdVars, areaVars, loopVars
  <2>6. GroundHasCauses'
    BY <1>0, <2>2, <2>3, <2>4 DEF GroundHasCauses
  <2>7. GhostsHaveCauses'
    BY <1>0, <2>2, <2>3, SameGhosts DEF herdVars, loopVars, Managed
  <2>8. QED BY <2>2, <2>5, <2>6, <2>7 DEF CrashHasCause, CrashInv
<1>10. CASE DemolishLand
  <2>1. PICK R \in SUBSET dens :
          Demolishes(R, {}) /\ deeds' = deeds \cup ({"deleted"} \X (R \cup {Land}))
    BY <1>10 DEF DemolishLand
  <2>2. R \in SUBSET Lairs /\ {} \in SUBSET Lairs
    BY <1>0, <2>1
  <2>3. {"deleted"} \X R \subseteq deeds' /\ {"closed"} \X {} \subseteq deeds' /\ deeds \subseteq deeds'
        /\ <<"deleted", Land>> \in deeds'
    BY <2>1
  <2>4. QED BY <1>4, <2>1, <2>2, <2>3
<1>11. CASE DeleteArea
  <2>1. Still /\ UNCHANGED <<herdVars, groundVars, mailbox, rivals, deeds>> /\ area' = {}
    BY <1>1, <1>11 DEF DeleteArea
  <2>2. RoomsAreKnown'
    BY <1>0, <2>1 DEF RoomsAreKnown, herdVars, groundVars, loopVars
  <2>3. GroundHasCauses' /\ GhostsHaveCauses'
    BY <1>0, <2>1, SameGround, SameGhosts DEF herdVars, groundVars, loopVars, Managed
  <2>4. QED BY <2>1, <2>2, <2>3 DEF CrashHasCause, CrashInv
<1>12. QED BY <1>2, <1>3, <1>5, <1>6, <1>7, <1>8, <1>9, <1>10, <1>11 DEF SomeCommand

\* Every step keeps the invariant.  A death is the last event that the goroutine
\* of an NPC handles, so that a second one waits for a goroutine that is no more.
LEMMA NextCrashInv ==
    ASSUME EngineTypesInv, CrashInv, [EngineNext]_engineVars
    PROVE  CrashInv'
<1>0. /\ RoomsAreKnown /\ GroundHasCauses /\ GhostsHaveCauses /\ CrashHasCause
      /\ rivals \in [Npcs -> SUBSET Lairs]
  BY DEF CrashInv, EngineTypesInv, EngineTypeOK
<1>1. CASE Restart
  <2>1. /\ UNCHANGED <<herdVars, groundVars, areaVars, deeds>> /\ alive' = TRUE
        /\ Managed' = npcs /\ choice' = {} /\ found' = {} /\ newborn' = {}
        /\ aim' = [n \in Npcs |-> {}] /\ rivals' = [n \in Npcs |-> {}]
    BY <1>1 DEF Restart, Managed, Manages
  <2>2. RoomsAreKnown'
    BY <1>0, <2>1 DEF RoomsAreKnown, herdVars, groundVars, areaVars
  <2>3. GroundHasCauses' /\ GhostsHaveCauses' /\ CrashHasCause'
    BY <1>0, <2>1 DEF GroundHasCauses, GhostsHaveCauses, CrashHasCause, herdVars, groundVars
  <2>4. QED BY <2>2, <2>3 DEF CrashInv
<1>2. CASE Tick
  <2>1. UNCHANGED <<herdVars, groundVars, areaVars, tripVars, loopVars, alive, deeds, blamed>>
        /\ Managed' = Managed
    BY <1>2 DEF Tick, Broadcast, Managed
  <2>2. RoomsAreKnown' /\ GroundHasCauses' /\ GhostsHaveCauses'
    BY <1>0, <2>1, SameRooms, SameGround, SameGhosts
       DEF herdVars, groundVars, areaVars, tripVars, loopVars, RoomsAreKnown
  <2>3. QED BY <1>0, <2>1, <2>2 DEF CrashHasCause, CrashInv
<1>3. CASE SpawnerStep
  BY <1>3, SpawnerCrashes
<1>4. ASSUME NEW n \in Npcs, Wanders(n) PROVE CrashInv'
  BY <1>4, WanderCrashes
<1>5. ASSUME NEW n \in Npcs, Die(n) PROVE CrashInv'
  <2>1. UNCHANGED <<lair, groundVars, areaVars, tripVars, loopVars>> /\ n \in Managed
    BY <1>5 DEF Die, Takes
  <2>2. CASE n \in npcs
    <3>1. npcs' = npcs \ {n} /\ deeds' = deeds \cup {<<"died", n>>} /\ UNCHANGED <<alive, blamed>>
          /\ Managed' = Managed \ {n}
      BY <1>5, <2>2 DEF Die, Deceased, Unmanaged, Managed, Lives
    <3>2. RoomsAreKnown' /\ GroundHasCauses'
      BY <1>0, <2>1, <3>1, SameRooms, SameGround
         DEF groundVars, areaVars, tripVars, loopVars, RoomsAreKnown
    <3>3. GhostsHaveCauses'
      BY <1>0, <2>1, <3>1 DEF GhostsHaveCauses, loopVars
    <3>4. CrashHasCause'
      BY <1>0, <3>1 DEF CrashHasCause
    <3>5. QED BY <3>2, <3>3, <3>4 DEF CrashInv
  <2>3. CASE n \notin npcs
    <3>1. Dies({<<"deleted", n>>}) /\ UNCHANGED <<npcs, mailbox, deeds>>
      BY <1>5, <2>3 DEF Die
    <3>2. <<"deleted", n>> \in deeds
      BY <1>0, <2>1, <2>3 DEF GhostsHaveCauses
    <3>3. RoomsAreKnown' /\ GroundHasCauses' /\ GhostsHaveCauses'
      BY <1>0, <2>1, <3>1, SameRooms, SameGround, SameGhosts
         DEF groundVars, areaVars, tripVars, loopVars, RoomsAreKnown, Managed
    <3>4. CrashHasCause'
      BY <3>1, <3>2 DEF Dies, CrashHasCause
    <3>5. QED BY <3>3, <3>4 DEF CrashInv
  <2>4. QED BY <2>2, <2>3
<1>6. CASE SomeCommand
  BY <1>6, CommandCrashes
<1>7. CASE UNCHANGED engineVars
  <2>1. UNCHANGED <<herdVars, groundVars, areaVars, tripVars, loopVars, mailbox, alive, deeds, blamed>>
    BY <1>7 DEF engineVars
  <2>2. RoomsAreKnown' /\ GroundHasCauses' /\ GhostsHaveCauses'
    BY <1>0, <2>1, SameRooms, SameGround, SameGhosts
       DEF herdVars, groundVars, areaVars, tripVars, loopVars, RoomsAreKnown, Managed
  <2>3. QED BY <1>0, <2>1, <2>2 DEF CrashHasCause, CrashInv
<1>8. QED BY <1>1, <1>2, <1>3, <1>4, <1>5, <1>6, <1>7, EngineSteps

\* The process keeps the invariant, through restarts, in every behaviour.
THEOREM CrashInvariant == EngineSpec => []CrashInv
<1>1. EngineTypesInv /\ CrashInv /\ [EngineNext]_engineVars => CrashInv'
  BY NextCrashInv
<1>2. QED BY <1>1, InitCrashInv, EngineTypesInvariant, PTL DEF EngineSpec

\* The process dies only of what somebody has done to an NPC or a room that one
\* of its goroutines counts on, whatever the order of their steps: a death is
\* never handled by a goroutine whose NPC is gone, but for one deleted by hand.
THEOREM CrashesHaveCauses == EngineSpec => []CrashHasCause
  BY CrashInvariant, PTL DEF CrashInv

-----------------------------------------------------------------------------
(* The lock of a room: what a command holds, it gives back                 *)

Ops == {"RLock", "RUnlock", "Lock", "Unlock"}

\* What a session holds: read locks, and the write lock or not.
Holdings == [reads : 0..2, writes : 0..1]
Empty == [reads |-> 0, writes |-> 0]
Writing == [reads |-> 0, writes |-> 1]

\* One operation takes a session that holds s to one that holds t.  Only a
\* command that nests asks for a read lock with the write lock in hand, and none
\* asks for the write lock with anything in hand.
Operates(op, nests, s, t) ==
    /\ op = "RLock" =>
          t.reads = s.reads + 1 /\ t.writes = s.writes /\ (s.writes = 1 => nests)
    /\ op = "RUnlock" => t.reads = s.reads - 1 /\ t.writes = s.writes
    /\ op = "Lock" => s = Empty /\ t = Writing
    /\ op = "Unlock" => s = Writing /\ t = Empty

\* h tells what is held along ops: from before it, to after it.
Counting(ops, nests, from, to, h) ==
    /\ h \in [0..Len(ops) -> Holdings]
    /\ h[0] = from /\ h[Len(ops)] = to
    /\ \A i \in 1..Len(ops) : Operates(ops[i], nests, h[i - 1], h[i])

\* ops leads from what is held before it to what is held after it.
Leads(ops, nests, from, to) ==
    ops \in Seq(Ops) /\ \E h : Counting(ops, nests, from, to, h)

\* It gives back what is held.
GivesBack(ops, nests, held) == Leads(ops, nests, held, Empty)

\* What session v holds.
Held(v) == [reads |-> readHolds[v], writes |-> IF writeHold = v THEN 1 ELSE 0]

\* What is left of each command gives back what its session holds.
HoldingsAreSettled ==
    \A v \in Visitors : GivesBack(lockOps[v], command[v] = "lock", Held(v))

\* Who has announced itself is still to lock, and nobody else writes.
AnnouncedIsNext ==
    announced # Nothing => Faces(announced, "Lock") /\ writeHold = Nothing

RoomLockInv ==
    /\ HoldingsAreSettled /\ AnnouncedIsNext
    /\ DOMAIN lockOps = Visitors
    /\ DOMAIN readHolds = Visitors /\ readHolds = [v \in Visitors |-> readHolds[v]]
    /\ command \in [Visitors -> DOMAIN Commands \cup {Nothing}]
    /\ writeHold \in Visitors \cup {Nothing} /\ announced \in Visitors \cup {Nothing}
    /\ visits \in [Visitors -> 0..MaxVisits]

\* One piece of code after another.
LEMMA LeadsOn ==
    ASSUME NEW a, NEW b, NEW n, NEW x, NEW y, NEW z, Leads(a, n, x, y), Leads(b, n, y, z)
    PROVE  Leads(a \o b, n, x, z)
<1>1. PICK f : Counting(a, n, x, y, f)
  BY DEF Leads
<1>2. PICK g : Counting(b, n, y, z, g)
  BY DEF Leads
<1>3. a \in Seq(Ops) /\ b \in Seq(Ops) /\ Len(a) \in Nat /\ Len(b) \in Nat
  BY DEF Leads
<1>4. /\ a \o b \in Seq(Ops) /\ Len(a \o b) = Len(a) + Len(b)
      /\ \A i \in 1..Len(a \o b) : (a \o b)[i] = IF i <= Len(a) THEN a[i] ELSE b[i - Len(a)]
  BY <1>3
<1> DEFINE h == [i \in 0..(Len(a) + Len(b)) |-> IF i <= Len(a) THEN f[i] ELSE g[i - Len(a)]]
<1>5. h \in [0..Len(a \o b) -> Holdings]
  BY <1>1, <1>2, <1>3, <1>4 DEF Counting
<1>6. h[0] = x /\ h[Len(a \o b)] = z
  <2>1. f[0] = x /\ f[Len(a)] = y /\ g[0] = y /\ g[Len(b)] = z
    BY <1>1, <1>2 DEF Counting
  <2>2. h[0] = f[0] /\ h[Len(a) + Len(b)] = IF Len(b) = 0 THEN f[Len(a)] ELSE g[Len(b)]
    BY <1>3
  <2>3. QED BY <1>4, <2>1, <2>2
<1>7. ASSUME NEW i \in 1..Len(a \o b)
      PROVE  Operates((a \o b)[i], n, h[i - 1], h[i])
  <2>1. CASE i <= Len(a)
    <3>1. i \in 1..Len(a) /\ (a \o b)[i] = a[i] /\ h[i] = f[i] /\ h[i - 1] = f[i - 1]
      BY <1>3, <1>4, <2>1
    <3> HIDE DEF h
    <3>2. QED BY <1>1, <3>1 DEF Counting
  <2>2. CASE i > Len(a)
    <3>1. i - Len(a) \in 1..Len(b) /\ (a \o b)[i] = b[i - Len(a)] /\ h[i] = g[i - Len(a)]
      BY <1>3, <1>4, <2>2
    <3>2. CASE i - 1 <= Len(a)
      <4>1. i - 1 = Len(a) /\ (i - Len(a)) - 1 = 0 /\ i - 1 \in 0..(Len(a) + Len(b))
        BY <1>3, <1>4, <2>2, <3>2
      <4>2. h[i - 1] = f[Len(a)]
        BY <1>3, <4>1
      <4> HIDE DEF h
      <4>3. QED BY <1>1, <1>2, <4>1, <4>2, <3>1 DEF Counting
    <3>3. CASE i - 1 > Len(a)
      <4>1. h[i - 1] = g[(i - Len(a)) - 1]
        BY <1>3, <1>4, <2>2, <3>3
      <4> HIDE DEF h
      <4>2. QED BY <1>2, <3>1, <4>1 DEF Counting
    <3>4. QED BY <1>3, <1>4, <3>2, <3>3
  <2>3. QED BY <1>3, <1>4, <2>1, <2>2
<1> HIDE DEF h
<1>8. Counting(a \o b, n, x, z, h)
  BY <1>5, <1>6, <1>7 DEF Counting
<1>9. QED BY <1>4, <1>8 DEF Leads

\* One operation alone.
LEMMA LeadsOnce ==
    ASSUME NEW op \in Ops, NEW n, NEW s \in Holdings, NEW t \in Holdings, Operates(op, n, s, t)
    PROVE  Leads(<<op>>, n, s, t)
<1> DEFINE h == [i \in 0..1 |-> IF i = 0 THEN s ELSE t]
<1>1. h \in [0..1 -> Holdings] /\ h[0] = s /\ h[1] = t
  OBVIOUS
<1> HIDE DEF h
<1>2. <<op>> \in Seq(Ops) /\ Len(<<op>>) = 1 /\ <<op>>[1] = op
  OBVIOUS
<1>3. Counting(<<op>>, n, s, t, h)
  BY <1>1, <1>2 DEF Counting
<1>4. QED BY <1>2, <1>3 DEF Leads

\* Two operations.
LEMMA LeadsTwice ==
    ASSUME NEW p \in Ops, NEW q \in Ops, NEW n,
           NEW s \in Holdings, NEW t \in Holdings, NEW u \in Holdings,
           Operates(p, n, s, t), Operates(q, n, t, u)
    PROVE  Leads(<<p, q>>, n, s, u)
<1> DEFINE h == [i \in 0..2 |-> IF i = 0 THEN s ELSE IF i = 1 THEN t ELSE u]
<1>1. h \in [0..2 -> Holdings] /\ h[0] = s /\ h[1] = t /\ h[2] = u
  OBVIOUS
<1> HIDE DEF h
<1>2. <<p, q>> \in Seq(Ops) /\ Len(<<p, q>>) = 2 /\ <<p, q>>[1] = p /\ <<p, q>>[2] = q
  OBVIOUS
<1>3. \A i \in 1..2 : Operates(<<p, q>>[i], n, h[i - 1], h[i])
  BY <1>1, <1>2
<1>4. Counting(<<p, q>>, n, s, u, h)
  BY <1>1, <1>2, <1>3 DEF Counting
<1>5. QED BY <1>2, <1>4 DEF Leads

\* What HasExit needs: room for a read lock, and a command that may nest if the
\* write lock is in hand.
LEMMA ReadsSettle ==
    ASSUME NEW n, NEW s \in Holdings, s.reads < 2, s.writes = 1 => n
    PROVE  Leads(<<"RLock", "RUnlock">>, n, s, s)
<1> DEFINE t == [reads |-> s.reads + 1, writes |-> s.writes]
<1>1. t \in Holdings /\ t.reads = s.reads + 1 /\ t.writes = s.writes
  BY DEF Holdings
<1> HIDE DEF t
<1>2. Operates("RLock", n, s, t)
  BY <1>1 DEF Operates
<1>3. s.reads = t.reads - 1
  BY <1>1 DEF Holdings
<1>4. Operates("RUnlock", n, t, s)
  BY <1>1, <1>3 DEF Operates
<1>5. "RLock" \in Ops /\ "RUnlock" \in Ops
  BY DEF Ops
<1>6. QED BY <1>1, <1>2, <1>4, <1>5, LeadsTwice

\* Every method gives back the locks it takes; SetLocked nests.
LEMMA MethodsSettle ==
    ASSUME NEW n
    PROVE  /\ GivesBack(HasExit, n, Empty) /\ GivesBack(NextLocation, n, Empty)
           /\ GivesBack(IsLocked, n, Empty) /\ GivesBack(SetExitEnabled, n, Empty)
           /\ n => GivesBack(SetLocked, n, Empty)
<1> DEFINE One == [reads |-> 1, writes |-> 0]
<1>1. Empty \in Holdings /\ One \in Holdings /\ Writing \in Holdings
  BY DEF Empty, Writing, Holdings
<1>2. /\ Operates("RLock", n, Empty, One) /\ Operates("RUnlock", n, One, Empty)
      /\ Operates("Lock", n, Empty, Writing) /\ Operates("Unlock", n, Writing, Empty)
  BY DEF Operates, Empty, Writing
<1>3. "RLock" \in Ops /\ "RUnlock" \in Ops /\ "Lock" \in Ops /\ "Unlock" \in Ops
  BY DEF Ops
<1>4. /\ Empty.reads < 2 /\ Empty.writes # 1 /\ One.reads < 2 /\ One.writes # 1
      /\ Writing.reads < 2
  BY DEF Empty, Writing
<1> HIDE DEF One
<1>5. Leads(HasExit, n, Empty, Empty) /\ Leads(HasExit, n, One, One)
  BY <1>1, <1>4, ReadsSettle DEF HasExit
<1>6. n => Leads(HasExit, n, Writing, Writing)
  BY <1>1, <1>4, ReadsSettle DEF HasExit
<1>7. /\ Leads(<<"RLock">>, n, Empty, One) /\ Leads(<<"RUnlock">>, n, One, Empty)
      /\ Leads(<<"Lock">>, n, Empty, Writing) /\ Leads(<<"Unlock">>, n, Writing, Empty)
  BY <1>1, <1>2, <1>3, LeadsOnce
<1>8. GivesBack(IsLocked, n, Empty)
  <2>1. Leads(<<"RLock">> \o HasExit, n, Empty, One)
    BY <1>5, <1>7, LeadsOn
  <2>2. QED BY <2>1, <1>7, LeadsOn DEF GivesBack, IsLocked
<1>9. ASSUME n PROVE GivesBack(SetLocked, n, Empty)
  <2>1. Leads(<<"Lock">> \o HasExit, n, Empty, Writing)
    BY <1>6, <1>7, <1>9, LeadsOn
  <2>2. QED BY <2>1, <1>7, LeadsOn DEF GivesBack, SetLocked
<1>10. GivesBack(SetExitEnabled, n, Empty)
  BY <1>1, <1>2, <1>3, LeadsTwice DEF GivesBack, SetExitEnabled
<1>11. QED BY <1>5, <1>8, <1>9, <1>10 DEF GivesBack, NextLocation, HasExit

\* So do two, one after the other.
LEMMA GivesBackConcat ==
    ASSUME NEW a, NEW b, NEW n, GivesBack(a, n, Empty), GivesBack(b, n, Empty)
    PROVE  GivesBack(a \o b, n, Empty)
  BY LeadsOn DEF GivesBack

\* So does every command, and only lock nests.
LEMMA CommandsSettle ==
    ASSUME NEW c \in DOMAIN Commands
    PROVE  GivesBack(Commands[c], c = "lock", Empty)
<1> DEFINE n == c = "lock"
<1>1. /\ GivesBack(HasExit, n, Empty) /\ GivesBack(NextLocation, n, Empty)
      /\ GivesBack(IsLocked, n, Empty) /\ GivesBack(SetExitEnabled, n, Empty)
      /\ n => GivesBack(SetLocked, n, Empty)
  BY MethodsSettle
<1> DEFINE Good(a) == GivesBack(a, n, Empty)
<1>2. ASSUME NEW a, NEW b, Good(a), Good(b) PROVE Good(a \o b)
  BY <1>2, GivesBackConcat
<1>3. Good(HasExit) /\ Good(NextLocation) /\ Good(IsLocked) /\ Good(SetExitEnabled)
      /\ (c = "lock" => Good(SetLocked))
  BY <1>1
<1> HIDE DEF Good
<1>4. Good(Walk)
  BY <1>2, <1>3 DEF Walk
<1>5. Good(SetExitEnabled \o Walk)
  BY <1>2, <1>3, <1>4
<1>6. Good(HasExit \o SetExitEnabled \o NextLocation)
  BY <1>2, <1>3
<1>7. c = "lock" => Good(SetLocked \o NextLocation)
  BY <1>2, <1>3
<1>8. c \in {"walk", "open", "toggle", "lock"}
  BY DEF Commands
<1>9. /\ Commands["walk"] = Walk /\ Commands["open"] = SetExitEnabled \o Walk
      /\ Commands["toggle"] = HasExit \o SetExitEnabled \o NextLocation
      /\ Commands["lock"] = SetLocked \o NextLocation
  BY DEF Commands
<1>10. Good(Commands[c])
  BY <1>4, <1>5, <1>6, <1>7, <1>8, <1>9
<1>11. QED BY <1>10 DEF Good

\* One operation of it is done, and the rest settles what is then held.
LEMMA GivesBackTail ==
    ASSUME NEW ops, NEW n, NEW s, GivesBack(ops, n, s), ops # << >>
    PROVE  /\ s \in Holdings /\ Head(ops) \in Ops
           /\ \E t \in Holdings : Operates(Head(ops), n, s, t) /\ GivesBack(Tail(ops), n, t)
<1>1. PICK h : Counting(ops, n, s, Empty, h)
  BY DEF GivesBack, Leads
<1>2. /\ ops \in Seq(Ops) /\ Len(ops) \in Nat /\ Len(ops) >= 1 /\ Head(ops) = ops[1]
      /\ Tail(ops) \in Seq(Ops) /\ Len(Tail(ops)) = Len(ops) - 1
      /\ \A i \in 1..Len(Tail(ops)) : Tail(ops)[i] = ops[i + 1]
  BY DEF GivesBack, Leads
<1> DEFINE g == [i \in 0..(Len(ops) - 1) |-> h[i + 1]]
<1>3. g \in [0..Len(Tail(ops)) -> Holdings] /\ g[0] = h[1] /\ g[Len(Tail(ops))] = Empty
  BY <1>1, <1>2 DEF Counting
<1>4. ASSUME NEW i \in 1..Len(Tail(ops))
      PROVE  i + 1 \in 1..Len(ops) /\ g[i] = h[i + 1] /\ g[i - 1] = h[(i + 1) - 1]
  BY <1>1, <1>2 DEF Counting
<1> HIDE DEF g
<1>5. ASSUME NEW i \in 1..Len(Tail(ops))
      PROVE  Operates(Tail(ops)[i], n, g[i - 1], g[i])
  BY <1>1, <1>2, <1>4 DEF Counting
<1>6. Counting(Tail(ops), n, h[1], Empty, g)
  BY <1>3, <1>5 DEF Counting
<1>7. GivesBack(Tail(ops), n, h[1])
  BY <1>2, <1>6 DEF GivesBack, Leads
<1>8. /\ s \in Holdings /\ h[1] \in Holdings /\ h[1 - 1] = s /\ Head(ops) \in Ops
      /\ Operates(Head(ops), n, h[1 - 1], h[1])
  BY <1>1, <1>2 DEF Counting
<1>9. QED BY <1>7, <1>8

\* Nothing is left to do, and nothing is held.
LEMMA GivesBackNothing ==
    ASSUME NEW n, NEW s, GivesBack(<< >>, n, s)
    PROVE  s = Empty
  BY DEF GivesBack, Leads, Counting

\* What it says of the types.
LEMMA GivesBackType ==
    ASSUME NEW ops, NEW n, NEW s, GivesBack(ops, n, s)
    PROVE  s \in Holdings /\ ops \in Seq(Ops)
<1>1. PICK h : Counting(ops, n, s, Empty, h)
  BY DEF GivesBack, Leads
<1>2. ops \in Seq(Ops) /\ Len(ops) \in Nat
  BY DEF GivesBack, Leads
<1>3. QED BY <1>1, <1>2 DEF Counting

\* No session has begun a command.
LEMMA InitRoomLockInv == RoomLockInit => RoomLockInv
<1> SUFFICES ASSUME RoomLockInit PROVE RoomLockInv
  OBVIOUS
<1>1. ASSUME NEW n PROVE GivesBack(<< >>, n, Empty)
  <2>1. Empty \in Holdings
    BY DEF Empty, Holdings
  <2>2. Counting(<< >>, n, Empty, Empty, [i \in 0..0 |-> Empty])
    BY <2>1 DEF Counting
  <2>3. QED BY <2>2 DEF GivesBack, Leads
<1>2. \A v \in Visitors : Held(v) = Empty /\ lockOps[v] = << >>
  BY RoomLockAssumption DEF RoomLockInit, Held, Empty, RoomLockAssumption
<1>3. HoldingsAreSettled
  BY <1>1, <1>2 DEF HoldingsAreSettled
<1>4. QED BY <1>3, RoomLockAssumption DEF RoomLockInit, RoomLockInv, AnnouncedIsNext, RoomLockAssumption

\* What a session that faces an operation holds, and will hold.
LEMMA FacingSettles ==
    ASSUME HoldingsAreSettled, NEW v \in Visitors, lockOps[v] # << >>
    PROVE  /\ Held(v) \in Holdings /\ Head(lockOps[v]) \in Ops
           /\ \E t \in Holdings :
                 /\ Operates(Head(lockOps[v]), command[v] = "lock", Held(v), t)
                 /\ GivesBack(Tail(lockOps[v]), command[v] = "lock", t)
  BY GivesBackTail DEF HoldingsAreSettled

\* Session v has done an operation, and the others hold what they held.
LEMMA PassesSettled ==
    ASSUME RoomLockInv, NEW v \in Visitors, lockOps[v] # << >>, Passes(v),
           \A t \in Holdings : Operates(Head(lockOps[v]), command[v] = "lock", Held(v), t) => t = Held(v)',
           \A u \in Visitors : u # v => Held(u)' = Held(u)
    PROVE  HoldingsAreSettled'
<1>1. PICK t \in Holdings : /\ Operates(Head(lockOps[v]), command[v] = "lock", Held(v), t)
                            /\ GivesBack(Tail(lockOps[v]), command[v] = "lock", t)
  BY FacingSettles DEF RoomLockInv
<1>2. GivesBack(Tail(lockOps[v]), command[v] = "lock", Held(v)')
  BY <1>1
<1>3. lockOps' = [lockOps EXCEPT ![v] = Tail(lockOps[v])] /\ command' = command
  BY DEF Passes
<1>4. ASSUME NEW u \in Visitors
      PROVE  GivesBack(lockOps'[u], command'[u] = "lock", Held(u)')
  <2>1. CASE u = v
    BY <1>2, <1>3, <2>1 DEF RoomLockInv
  <2>2. CASE u # v
    <3>1. lockOps'[u] = lockOps[u] /\ command'[u] = command[u] /\ Held(u)' = Held(u)
      BY <1>3, <2>2 DEF RoomLockInv
    <3>2. QED BY <3>1 DEF RoomLockInv, HoldingsAreSettled
  <2>3. QED BY <2>1, <2>2
<1>5. QED BY <1>4 DEF HoldingsAreSettled

\* Every step keeps the invariant: a command begins when nothing is held, and
\* each operation leaves what the rest gives back.
LEMMA NextRoomLockInv ==
    ASSUME RoomLockInv, [RoomLockNext]_roomLockVars
    PROVE  RoomLockInv'
<1> USE DEF RoomLockInv
<1>1. ASSUME NEW v \in Visitors, NEW c \in DOMAIN Commands, Enters(v, c) PROVE RoomLockInv'
  <2>1. /\ lockOps[v] = << >> /\ lockOps' = [lockOps EXCEPT ![v] = Commands[c]]
        /\ command' = [command EXCEPT ![v] = c]
        /\ UNCHANGED <<readHolds, writeHold, announced>>
    BY <1>1 DEF Enters
  <2>2. Held(v) = Empty
    BY <2>1, GivesBackNothing DEF HoldingsAreSettled
  <2>3. ASSUME NEW u \in Visitors
        PROVE  GivesBack(lockOps'[u], command'[u] = "lock", Held(u)')
    <3>1. Held(u)' = Held(u)
      BY <2>1 DEF Held
    <3>2. CASE u = v
      <4>1. lockOps'[u] = Commands[c] /\ command'[u] = c /\ Held(u)' = Empty
        BY <2>1, <2>2, <3>1, <3>2
      <4>2. GivesBack(Commands[c], c = "lock", Empty)
        BY CommandsSettle
      <4>3. QED BY <4>1, <4>2
    <3>3. CASE u # v
      <4>1. lockOps'[u] = lockOps[u] /\ command'[u] = command[u]
        BY <2>1, <3>3
      <4>2. QED BY <3>1, <4>1 DEF HoldingsAreSettled
    <3>4. QED BY <3>2, <3>3
  <2>4. HoldingsAreSettled'
    BY <2>3 DEF HoldingsAreSettled
  <2>5. AnnouncedIsNext'
    BY <2>1 DEF AnnouncedIsNext, Faces
  <2>6. visits' \in [Visitors -> 0..MaxVisits]
    BY <1>1, RoomLockAssumption DEF Enters, RoomLockAssumption
  <2>7. QED BY <2>1, <2>4, <2>5, <2>6
<1>2. ASSUME NEW v \in Visitors, ReadLock(v) PROVE RoomLockInv'
  <2>1. /\ Faces(v, "RLock") /\ announced = Nothing /\ announced' = Nothing
        /\ readHolds' = [readHolds EXCEPT ![v] = readHolds[v] + 1] /\ writeHold' = writeHold
        /\ Passes(v)
    BY <1>2 DEF ReadLock
  <2>2. ASSUME NEW t \in Holdings, Operates("RLock", command[v] = "lock", Held(v), t)
        PROVE  t = Held(v)'
    BY <2>1, <2>2 DEF Operates, Held, Holdings
  <2>3. \A u \in Visitors : u # v => Held(u)' = Held(u)
    BY <2>1 DEF Held
  <2>4. HoldingsAreSettled'
    BY <2>1, <2>2, <2>3, PassesSettled DEF Faces
  <2>5. QED BY <2>1, <2>4 DEF Passes, AnnouncedIsNext
<1>3. ASSUME NEW v \in Visitors, ReadUnlock(v) PROVE RoomLockInv'
  <2>1. /\ Faces(v, "RUnlock") /\ announced' = announced
        /\ readHolds' = [readHolds EXCEPT ![v] = readHolds[v] - 1] /\ writeHold' = writeHold
        /\ Passes(v)
    BY <1>3 DEF ReadUnlock
  <2>2. ASSUME NEW t \in Holdings, Operates("RUnlock", command[v] = "lock", Held(v), t)
        PROVE  t = Held(v)'
    BY <2>1, <2>2 DEF Operates, Held, Holdings
  <2>3. \A u \in Visitors : u # v => Held(u)' = Held(u)
    BY <2>1 DEF Held
  <2>4. HoldingsAreSettled'
    BY <2>1, <2>2, <2>3, PassesSettled DEF Faces
  <2>5. AnnouncedIsNext'
    BY <2>1 DEF Passes, AnnouncedIsNext, Faces
  <2>6. QED BY <2>1, <2>4, <2>5 DEF Passes
<1>4. ASSUME NEW v \in Visitors, Announce(v) PROVE RoomLockInv'
  <2>1. HoldingsAreSettled'
    BY <1>4 DEF Announce, HoldingsAreSettled, Held
  <2>2. AnnouncedIsNext'
    BY <1>4 DEF Announce, AnnouncedIsNext, Faces
  <2>3. QED BY <1>4, <2>1, <2>2 DEF Announce
<1>5. ASSUME NEW v \in Visitors, WriteLock(v) PROVE RoomLockInv'
  <2>1. /\ Faces(v, "Lock") /\ announced = v /\ announced' = Nothing
        /\ writeHold' = v /\ readHolds' = readHolds /\ Passes(v)
    BY <1>5 DEF WriteLock
  <2>2. writeHold = Nothing /\ v # Nothing
    BY <2>1, RoomLockAssumption DEF AnnouncedIsNext, RoomLockAssumption
  <2>3. ASSUME NEW t \in Holdings, Operates("Lock", command[v] = "lock", Held(v), t)
        PROVE  t = Held(v)'
    BY <2>1, <2>3 DEF Operates, Held, Empty, Writing
  <2>4. \A u \in Visitors : u # v => Held(u)' = Held(u)
    BY <2>1, <2>2, RoomLockAssumption DEF Held, RoomLockAssumption
  <2>5. HoldingsAreSettled'
    BY <2>1, <2>3, <2>4, PassesSettled DEF Faces
  <2>6. QED BY <2>1, <2>5 DEF Passes, AnnouncedIsNext
<1>6. ASSUME NEW v \in Visitors, WriteUnlock(v) PROVE RoomLockInv'
  <2>1. /\ Faces(v, "Unlock") /\ announced' = announced
        /\ writeHold' = Nothing /\ readHolds' = readHolds /\ Passes(v)
    BY <1>6 DEF WriteUnlock
  <2>2. PICK s \in Holdings : Operates("Unlock", command[v] = "lock", Held(v), s)
    BY <2>1, FacingSettles DEF Faces
  <2>3. writeHold = v /\ v # Nothing
    BY <2>2, RoomLockAssumption DEF Operates, Held, Writing, RoomLockAssumption
  <2>4. ASSUME NEW t \in Holdings, Operates("Unlock", command[v] = "lock", Held(v), t)
        PROVE  t = Held(v)'
    BY <2>1, <2>3, <2>4 DEF Operates, Held, Empty, Writing
  <2>5. \A u \in Visitors : u # v => Held(u)' = Held(u)
    BY <2>1, <2>3, RoomLockAssumption DEF Held, RoomLockAssumption
  <2>6. HoldingsAreSettled'
    BY <2>1, <2>4, <2>5, PassesSettled DEF Faces
  <2>7. AnnouncedIsNext'
    BY <2>1, <2>3 DEF AnnouncedIsNext
  <2>8. QED BY <2>1, <2>6, <2>7 DEF Passes
<1>7. CASE UNCHANGED roomLockVars
  <2>1. HoldingsAreSettled'
    BY <1>7 DEF roomLockVars, HoldingsAreSettled, Held
  <2>2. QED BY <1>7, <2>1 DEF roomLockVars, AnnouncedIsNext, Faces
<1>8. QED BY <1>1, <1>2, <1>3, <1>4, <1>5, <1>6, <1>7 DEF RoomLockNext, LockStep

\* Every session is on its way to giving back just what it holds, in every
\* behaviour.
THEOREM RoomLockInvariant == RoomLockSpec => []RoomLockInv
<1>1. RoomLockInv /\ [RoomLockNext]_roomLockVars => RoomLockInv'
  BY NextRoomLockInv
<1>2. QED BY <1>1, InitRoomLockInv, PTL DEF RoomLockSpec

\* It has the types.
LEMMA RoomLockInvTypes == ASSUME RoomLockInv PROVE RoomLockTypeOK
<1>1. \A v \in Visitors : Held(v) \in Holdings /\ lockOps[v] \in Seq(Ops)
  BY GivesBackType DEF RoomLockInv, HoldingsAreSettled
<1>2. \A v \in Visitors : readHolds[v] \in 0..2
  BY <1>1 DEF Held, Holdings
<1>3. QED BY <1>1, <1>2 DEF RoomLockInv, RoomLockTypeOK, Ops

\* The variables of a room's lock have their types in every behaviour: no
\* command holds more than two read locks or gives back one it has not.
THEOREM RoomLockTypes == RoomLockSpec => []RoomLockTypeOK
<1>1. RoomLockInv => RoomLockTypeOK
  BY RoomLockInvTypes
<1>2. QED BY <1>1, RoomLockInvariant, PTL

\* The guards of LockStep: session v can do the next operation of its command.
CanProceed(v) ==
    \/ Faces(v, "RLock") /\ writeHold = Nothing /\ announced = Nothing
    \/ Faces(v, "RUnlock")
    \/ Faces(v, "Lock") /\ writeHold = Nothing /\ announced = Nothing
    \/ Faces(v, "Lock") /\ announced = v /\ \A r \in Visitors : readHolds[r] = 0
    \/ Faces(v, "Unlock")

\* As long as a session has something to do, one of them can go on, but for the
\* two ways of taking a lock twice.
NobodyIsStuck ==
    (\E v \in Visitors : lockOps[v] # << >>) =>
        WaitsForItself \/ WaitInACircle \/ \E v \in Visitors : CanProceed(v)

\* Where a session stands that holds something: it can go on, waits for a read
\* lock, or waits for the write lock with nothing in hand.
LEMMA HolderStands ==
    ASSUME RoomLockInv, NEW v \in Visitors, readHolds[v] # 0 \/ writeHold = v
    PROVE  /\ \/ Faces(v, "RUnlock") \/ Faces(v, "Unlock")
              \/ Faces(v, "RLock")
           /\ writeHold = v /\ Faces(v, "RLock") => command[v] = "lock"
<1>1. Held(v) # Empty
  BY DEF Held, Empty
<1>2. lockOps[v] # << >>
  BY <1>1, GivesBackNothing DEF RoomLockInv, HoldingsAreSettled
<1>3. PICK t \in Holdings : Operates(Head(lockOps[v]), command[v] = "lock", Held(v), t)
  BY <1>2, FacingSettles DEF RoomLockInv
<1>4. Head(lockOps[v]) \in Ops
  BY <1>2, FacingSettles DEF RoomLockInv
<1>5. Head(lockOps[v]) # "Lock"
  BY <1>1, <1>3 DEF Operates
<1>6. writeHold = v /\ Faces(v, "RLock") => command[v] = "lock"
  BY <1>3 DEF Operates, Held, Faces
<1>7. QED BY <1>2, <1>4, <1>5, <1>6 DEF Faces, Ops

\* Somebody can go on.
LEMMA RoomLockInvMoves == ASSUME RoomLockInv PROVE NobodyIsStuck
<1> SUFFICES ASSUME RoomLockInv, NEW v \in Visitors, lockOps[v] # << >>,
                    ~WaitsForItself, ~WaitInACircle
             PROVE  \E u \in Visitors : CanProceed(u)
  BY DEF NobodyIsStuck
<1>1. CASE writeHold # Nothing
  <2>1. writeHold \in Visitors
    BY <1>1 DEF RoomLockInv
  <2>2. Faces(writeHold, "RUnlock") \/ Faces(writeHold, "Unlock")
    BY <2>1, HolderStands DEF WaitsForItself
  <2>3. QED BY <2>1, <2>2 DEF CanProceed
<1>2. CASE writeHold = Nothing /\ announced # Nothing
  <2>1. announced \in Visitors /\ Faces(announced, "Lock")
    BY <1>2 DEF RoomLockInv, AnnouncedIsNext
  <2>2. CASE \A r \in Visitors : readHolds[r] = 0
    BY <2>1, <2>2 DEF CanProceed
  <2>3. CASE \E r \in Visitors : readHolds[r] # 0
    <3>1. PICK r \in Visitors : readHolds[r] # 0
      BY <2>3
    <3>2. readHolds[r] > 0
      <4>1. Held(r) \in Holdings
        BY GivesBackType DEF RoomLockInv, HoldingsAreSettled
      <4>2. QED BY <3>1, <4>1 DEF Held, Holdings
    <3>3. Faces(r, "RUnlock") \/ Faces(r, "Unlock")
      BY <1>2, <3>1, <3>2, HolderStands DEF WaitInACircle
    <3>4. QED BY <3>3 DEF CanProceed
  <2>4. QED BY <2>2, <2>3
<1>3. CASE writeHold = Nothing /\ announced = Nothing
  <2>1. Head(lockOps[v]) \in Ops
    BY FacingSettles DEF RoomLockInv
  <2>2. QED BY <1>3, <2>1 DEF CanProceed, Faces, Ops
<1>4. QED BY <1>1, <1>2, <1>3

\* A room's lock never stops everybody but in those two ways, however many
\* sessions meet in the room.
THEOREM NobodyIsEverStuck == RoomLockSpec => []NobodyIsStuck
<1>1. RoomLockInv => NobodyIsStuck
  BY RoomLockInvMoves
<1>2. QED BY <1>1, RoomLockInvariant, PTL

-----------------------------------------------------------------------------
(* The search for a path: what is known while it goes on                   *)

Reached == unevaluated \cup evaluated

\* The rooms that are not evaluated yet.
Ahead(current) == GetNeighbors(current) \ (evaluated \cup {current})

\* Those that the way through current is the first or the shorter one to.
Better(current) ==
    {s \in Ahead(current) : s \in unevaluated => gScore[current] + 1 < gScore[s]}

\* The search is in one of its mazes, and what it has evaluated leads only to
\* rooms that it has reached.
SearchIsClosed ==
    /\ maze \in Mazes /\ origin \in Spots /\ goal \in Spots
    /\ unevaluated \in SUBSET Spots /\ evaluated \in SUBSET Spots
    /\ unevaluated \cap evaluated = {} /\ goal \notin evaluated
    /\ origin \in evaluated \/ (evaluated = {} /\ unevaluated = {origin})
    /\ \A r \in evaluated : GetNeighbors(r) \subseteq Reached

\* A room's score is the length of the way to it.
ScoresAreLengths ==
    /\ gScore \in [Reached -> Nat] /\ gScore[origin] = 0
    /\ fScore \in [Reached -> Int]
    /\ \A r \in Reached : fScore[r] = gScore[r] + CostEstimate(r)

\* Every room reached was come to, through an exit, from an evaluated one whose
\* score is one less.
WaysLeadBack ==
    /\ cameFrom \in [Reached \ {origin} -> evaluated]
    /\ \A s \in Reached \ {origin} :
          <<cameFrom[s], s>> \in maze /\ gScore[s] = gScore[cameFrom[s]] + 1

\* Without diagonal exits the rooms are evaluated in the order of their scores,
\* and none that was evaluated has a better way to it.
OrderIsRight ==
    (\A door \in maze : ~Diagonal(door)) =>
        /\ \A r \in evaluated, s \in unevaluated : fScore[r] <= fScore[s]
        /\ \A r \in evaluated : \A s \in GetNeighbors(r) : gScore[s] <= gScore[r] + 1

\* The way back goes through exits, and one score down at a time.
WayIsWalkable ==
    /\ stage \in {"searching", "returning", "done"} /\ path \in Seq(Spots)
    /\ stage = "searching" => path = << >>
    /\ stage = "returning" => path # << >>
    /\ stage = "done" /\ path = << >> => unevaluated = {}
    /\ path # << >> =>
          /\ goal \in Lowest(unevaluated) /\ path[Len(path)] = goal
          /\ \A i \in 1..Len(path) : path[i] \in Reached /\ gScore[path[i]] = gScore[path[1]] + i - 1
          /\ \A i \in 1..(Len(path) - 1) : <<path[i], path[i + 1]>> \in maze
          /\ stage = "done" => path[1] = origin

SearchInv ==
    SearchIsClosed /\ ScoresAreLengths /\ WaysLeadBack /\ OrderIsRight /\ WayIsWalkable

\* The estimate is a number of steps, and a step through a straight exit makes
\* it one less at most.
LEMMA EstimateIsConsistent ==
    ASSUME goal \in Spots, maze \in Mazes, NEW r \in Spots
    PROVE  /\ CostEstimate(r) \in Nat /\ CostEstimate(goal) = 0
           /\ \A s \in Spots : <<r, s>> \in maze /\ ~Diagonal(<<r, s>>) =>
                 CostEstimate(r) <= CostEstimate(s) + 1
<1> USE PathsAssumption DEF PathsAssumption
<1>1. ASSUME NEW s \in Spots
      PROVE  Position[s][1] \in Int /\ Position[s][2] \in Int
  <2>1. Position[s] \in Int \X Int
    OBVIOUS
  <2>2. QED BY <2>1
<1>2. \A x \in Int : Abs(x) \in Nat
  BY DEF Abs
<1>3. CostEstimate(r) \in Nat
  <2> DEFINE a == Position[r][1] - Position[goal][1]
             b == Position[r][2] - Position[goal][2]
  <2>1. a \in Int /\ b \in Int
    BY <1>1
  <2> HIDE DEF a, b
  <2>2. Abs(a) + Abs(b) \in Nat
    BY <1>2, <2>1
  <2>3. QED BY <2>2 DEF CostEstimate, a, b
<1>4. CostEstimate(goal) = 0
  <2>1. Abs(0) = 0
    BY DEF Abs
  <2>2. QED BY <1>1, <2>1 DEF CostEstimate
<1>5. ASSUME NEW s \in Spots, <<r, s>> \in maze, ~Diagonal(<<r, s>>)
      PROVE  CostEstimate(r) <= CostEstimate(s) + 1
  <2> DEFINE p(i) == Position[r][i]
             q(i) == Position[s][i]
             g(i) == Position[goal][i]
  <2>1. \A i \in {1, 2} : p(i) \in Int /\ q(i) \in Int /\ g(i) \in Int
    BY <1>1
  <2>2. \A i \in {1, 2} : p(i) - q(i) \in -1..1
    <3>1. \A door \in maze : \A i \in {1, 2} :
             Position[door[1]][i] - Position[door[2]][i] \in -1..1
      OBVIOUS
    <3>2. QED BY <1>5, <3>1
  <2>3. p(1) = q(1) \/ p(2) = q(2)
    BY <1>5 DEF Diagonal
  <2>4. CostEstimate(r) = Abs(p(1) - g(1)) + Abs(p(2) - g(2))
        /\ CostEstimate(s) = Abs(q(1) - g(1)) + Abs(q(2) - g(2))
    BY DEF CostEstimate
  <2> HIDE DEF p, q, g
  <2>5. \A i \in {1, 2} : /\ Abs(p(i) - g(i)) \in Nat /\ Abs(q(i) - g(i)) \in Nat
                          /\ Abs(p(i) - g(i)) <= Abs(q(i) - g(i)) + 1
                          /\ p(i) = q(i) => Abs(p(i) - g(i)) = Abs(q(i) - g(i))
    BY <2>1, <2>2 DEF Abs
  <2>6. QED BY <2>3, <2>4, <2>5
<1>6. QED BY <1>3, <1>4, <1>5

\* A neighbour is a room, one exit away.
LEMMA NeighborIs ==
    ASSUME NEW r, NEW s
    PROVE  s \in GetNeighbors(r) <=> s \in Spots /\ <<r, s>> \in maze
  BY DEF GetNeighbors

\* What the evaluation of a room changes.
LEMMA Evaluated ==
    ASSUME SearchIsClosed, ScoresAreLengths, WaysLeadBack,
           NEW current \in unevaluated, Evaluate(current)
    PROVE  /\ Better(current) \subseteq Ahead(current)
           /\ Ahead(current) \ Better(current) \subseteq unevaluated
           /\ unevaluated' = (unevaluated \ {current}) \cup Ahead(current)
           /\ evaluated' = evaluated \cup {current}
           /\ Reached' = Reached \cup Better(current)
           /\ gScore' = [s \in Reached' |-> IF s \in Better(current) THEN gScore[current] + 1
                                                                     ELSE gScore[s]]
           /\ fScore' = [s \in Reached' |-> IF s \in Better(current)
                                            THEN gScore[current] + 1 + CostEstimate(s)
                                            ELSE fScore[s]]
           /\ cameFrom' = [s \in (Reached \ {origin}) \cup Better(current) |->
                              IF s \in Better(current) THEN current ELSE cameFrom[s]]
           /\ maze' = maze /\ origin' = origin /\ goal' = goal
           /\ stage' = stage /\ path' = path
<1>1. DOMAIN gScore = Reached /\ DOMAIN fScore = Reached
      /\ DOMAIN cameFrom = Reached \ {origin}
  BY DEF ScoresAreLengths, WaysLeadBack
<1>2. /\ unevaluated' = (unevaluated \ {current}) \cup Ahead(current)
      /\ evaluated' = evaluated \cup {current}
      /\ UNCHANGED <<maze, origin, goal, stage, path>>
  BY DEF Evaluate, Ahead
<1>3. /\ Better(current) \subseteq Ahead(current)
      /\ Ahead(current) \ Better(current) \subseteq unevaluated
  BY DEF Better
<1>4. Reached' = Reached \cup Better(current)
  BY <1>2, <1>3 DEF Reached
<1>5. gScore' = [s \in DOMAIN gScore \cup Better(current) |->
                    IF s \in Better(current) THEN gScore[current] + 1 ELSE gScore[s]]
  BY DEF Evaluate, Better, Ahead
<1>6. fScore' = [s \in DOMAIN fScore \cup Better(current) |->
                    IF s \in Better(current) THEN gScore[current] + 1 + CostEstimate(s)
                                             ELSE fScore[s]]
  BY DEF Evaluate, Better, Ahead
<1>7. cameFrom' = [s \in DOMAIN cameFrom \cup Better(current) |->
                      IF s \in Better(current) THEN current ELSE cameFrom[s]]
  BY DEF Evaluate, Better, Ahead
<1>8. QED BY <1>1, <1>2, <1>3, <1>4, <1>5, <1>6, <1>7

\* An evaluation keeps the search closed, its scores lengths of ways that lead
\* back, and its order.
LEMMA EvaluateKeeps ==
    ASSUME SearchIsClosed, ScoresAreLengths, WaysLeadBack, OrderIsRight,
           NEW current \in Lowest(unevaluated), current # goal, Evaluate(current)
    PROVE  SearchIsClosed' /\ ScoresAreLengths' /\ WaysLeadBack' /\ OrderIsRight'
<1> DEFINE score == gScore[current] + 1
           better == Better(current)
           ahead == Ahead(current)
           G == gScore'
           F == fScore'
<1>1. current \in unevaluated /\ \A s \in unevaluated : fScore[current] <= fScore[s]
  BY DEF Lowest
<1>2. /\ better \subseteq ahead /\ ahead \ better \subseteq unevaluated
      /\ unevaluated' = (unevaluated \ {current}) \cup ahead
      /\ evaluated' = evaluated \cup {current}
      /\ Reached' = Reached \cup better
      /\ G = [s \in Reached' |-> IF s \in better THEN score ELSE gScore[s]]
      /\ F = [s \in Reached' |-> IF s \in better THEN score + CostEstimate(s) ELSE fScore[s]]
      /\ cameFrom' = [s \in (Reached \ {origin}) \cup better |->
                         IF s \in better THEN current ELSE cameFrom[s]]
      /\ maze' = maze /\ origin' = origin /\ goal' = goal
  BY <1>1, Evaluated
<1>3. /\ ahead \subseteq Spots /\ ahead \cap evaluated = {} /\ current \notin ahead
      /\ \A s \in ahead : <<current, s>> \in maze
      /\ GetNeighbors(current) \subseteq ahead \cup evaluated \cup {current}
  BY NeighborIs DEF Ahead
<1>4. /\ current \in Spots /\ current \in Reached /\ current \notin evaluated
      /\ origin \in Reached /\ goal \in Spots /\ maze \in Mazes
      /\ Reached \subseteq Spots /\ Reached = unevaluated \cup evaluated
  BY <1>1 DEF SearchIsClosed, Reached
<1>5. origin \notin ahead
  BY <1>1, <1>3 DEF SearchIsClosed
<1>6. \A s \in better : s \in unevaluated => score < gScore[s]
  BY DEF Better
<1>7. \A s \in ahead \ better : s \in unevaluated /\ ~(score < gScore[s])
  BY <1>2 DEF Better
<1>8. /\ gScore \in [Reached -> Nat] /\ fScore \in [Reached -> Int] /\ score \in Nat
      /\ \A s \in Reached : fScore[s] = gScore[s] + CostEstimate(s)
  BY <1>4 DEF ScoresAreLengths
<1>9. \A s \in Spots : CostEstimate(s) \in Nat /\ CostEstimate(s)' = CostEstimate(s)
  BY <1>2, <1>4, EstimateIsConsistent DEF CostEstimate
<1>10. \A r : GetNeighbors(r)' = GetNeighbors(r)
  BY <1>2 DEF GetNeighbors
<1> HIDE DEF score, better, ahead, G, F
<1>11. SearchIsClosed'
  <2>1. \A r \in evaluated \cup {current} : GetNeighbors(r) \subseteq Reached \cup better
    BY <1>2, <1>3, <1>4 DEF SearchIsClosed
  <2>2. origin \in evaluated \cup {current}
    BY <1>1 DEF SearchIsClosed
  <2>3. QED BY <1>1, <1>2, <1>3, <1>4, <1>10, <2>1, <2>2 DEF SearchIsClosed
<1>12. /\ G \in [Reached' -> Nat]
       /\ \A s \in Reached : s \notin better => G[s] = gScore[s]
       /\ \A s \in better : G[s] = score
       /\ \A s \in Reached : G[s] <= gScore[s]
       /\ \A s \in ahead : G[s] <= score
       /\ \A s \in evaluated \cup {current} : G[s] = gScore[s]
  <2>1. \A s \in Reached' : s \in better \/ s \in Reached
    BY <1>2
  <2>2. G \in [Reached' -> Nat]
    BY <1>2, <1>8, <2>1
  <2>3. /\ \A s \in Reached : s \notin better => G[s] = gScore[s]
        /\ \A s \in better : G[s] = score
    BY <1>2
  <2>4. \A s \in better : s \in Reached => s \in unevaluated
    BY <1>2, <1>3, <1>4
  <2>5. \A s \in Reached : G[s] <= gScore[s]
    <3> SUFFICES ASSUME NEW s \in Reached PROVE G[s] <= gScore[s]
        OBVIOUS
    <3>1. gScore[s] \in Nat
      BY <1>8
    <3>2. QED BY <1>6, <1>8, <2>3, <2>4, <3>1
  <2>6. \A s \in ahead : G[s] <= score
    <3> SUFFICES ASSUME NEW s \in ahead PROVE G[s] <= score
        OBVIOUS
    <3>1. CASE s \in better
      BY <1>8, <2>3, <3>1
    <3>2. CASE s \notin better
      <4>1. s \in unevaluated /\ s \in Reached /\ ~(score < gScore[s])
        BY <1>4, <1>7, <3>2
      <4>2. gScore[s] \in Nat /\ G[s] = gScore[s]
        BY <1>8, <2>3, <3>2, <4>1
      <4>3. QED BY <1>8, <4>1, <4>2
    <3>3. QED BY <3>1, <3>2
  <2>7. QED BY <1>2, <1>3, <1>4, <2>2, <2>3, <2>5, <2>6
<1>13. /\ F \in [Reached' -> Int]
       /\ \A s \in Reached' : F[s] = G[s] + CostEstimate(s)
  <2>1. \A s \in Reached' : (s \in better \/ s \in Reached) /\ s \in Spots
    BY <1>2, <1>3, <1>4
  <2>2. \A s \in better : score + CostEstimate(s) \in Int
    BY <1>2, <1>3, <1>8, <1>9
  <2>3. F \in [Reached' -> Int]
    BY <1>2, <1>8, <2>1, <2>2
  <2>4. ASSUME NEW s \in Reached' PROVE F[s] = G[s] + CostEstimate(s)
    BY <1>2, <1>8, <1>12, <2>1
  <2>5. QED BY <2>3, <2>4
<1>14. ScoresAreLengths'
  <2>1. gScore'[origin] = 0
    BY <1>2, <1>4, <1>5, <1>12 DEF ScoresAreLengths, G
  <2>2. \A r \in Reached' : r \in Spots
    BY <1>2, <1>3, <1>4
  <2>3. \A r \in Reached' : fScore'[r] = gScore'[r] + CostEstimate(r)'
    BY <1>9, <1>13, <2>2 DEF F, G
  <2>4. gScore' \in [Reached' -> Nat] /\ fScore' \in [Reached' -> Int]
    BY <1>12, <1>13 DEF F, G
  <2>5. QED BY <1>2, <2>1, <2>3, <2>4 DEF ScoresAreLengths
<1>15. WaysLeadBack'
  <2>1. (Reached \ {origin}) \cup better = Reached' \ {origin'}
    BY <1>2, <1>5
  <2>2. \A s \in Reached \ {origin} : cameFrom[s] \in evaluated
    BY DEF WaysLeadBack
  <2>3. cameFrom' \in [Reached' \ {origin'} -> evaluated']
    BY <1>2, <2>1, <2>2
  <2>4. ASSUME NEW s \in Reached' \ {origin'}
        PROVE  <<cameFrom'[s], s>> \in maze' /\ G[s] = G[cameFrom'[s]] + 1
    <3>1. CASE s \in better
      <4>1. cameFrom'[s] = current /\ s \in ahead
        BY <1>2, <3>1
      <4>2. G[s] = score /\ G[current] = gScore[current]
        BY <1>12, <3>1
      <4>3. QED BY <1>2, <1>3, <4>1, <4>2 DEF score
    <3>2. CASE s \notin better
      <4>1. s \in Reached \ {origin} /\ cameFrom'[s] = cameFrom[s]
        BY <1>2, <2>1, <3>2
      <4>2. /\ cameFrom[s] \in evaluated /\ <<cameFrom[s], s>> \in maze
            /\ gScore[s] = gScore[cameFrom[s]] + 1
        BY <4>1 DEF WaysLeadBack
      <4>3. G[s] = gScore[s] /\ G[cameFrom[s]] = gScore[cameFrom[s]]
        BY <1>12, <3>2, <4>1, <4>2
      <4>4. QED BY <1>2, <4>1, <4>2, <4>3
    <3>3. QED BY <3>1, <3>2
  <2>5. QED BY <2>3, <2>4 DEF WaysLeadBack, G
<1>16. OrderIsRight'
  <2> SUFFICES ASSUME \A door \in maze : ~Diagonal(door)
               PROVE  /\ \A r \in evaluated', s \in unevaluated' : F[r] <= F[s]
                      /\ \A r \in evaluated' : \A s \in GetNeighbors(r) : G[s] <= G[r] + 1
    BY <1>2, <1>10 DEF OrderIsRight, F, G
  <2>1. /\ \A r \in evaluated, s \in unevaluated : fScore[r] <= fScore[s]
        /\ \A r \in evaluated : \A s \in GetNeighbors(r) : gScore[s] <= gScore[r] + 1
    BY DEF OrderIsRight
  <2>2. ASSUME NEW r \in Spots, NEW s \in GetNeighbors(r)
        PROVE  s \in Spots /\ CostEstimate(r) <= CostEstimate(s) + 1
    BY <1>4, <2>2, NeighborIs, EstimateIsConsistent
  <2>3. /\ \A s \in Reached : gScore[s] \in Nat /\ fScore[s] \in Int
        /\ \A s \in Reached' : G[s] \in Nat /\ F[s] \in Int
        /\ \A s \in Spots : CostEstimate(s) \in Nat
    BY <1>8, <1>9, <1>12, <1>13
  <2>4. \A r \in evaluated' : /\ r \in Reached /\ r \in Reached' /\ r \in Spots /\ G[r] = gScore[r]
                              /\ F[r] = fScore[r] /\ fScore[r] <= fScore[current]
    <3> SUFFICES ASSUME NEW r \in evaluated \cup {current}
                 PROVE  /\ r \in Reached /\ r \in Reached' /\ r \in Spots /\ G[r] = gScore[r]
                        /\ F[r] = fScore[r] /\ fScore[r] <= fScore[current]
      BY <1>2
    <3>1. r \in Reached /\ r \in Reached' /\ r \in Spots /\ G[r] = gScore[r]
      BY <1>2, <1>4, <1>12
    <3>2. F[r] = fScore[r]
      BY <1>8, <1>13, <3>1
    <3>3. fScore[r] <= fScore[current]
      <4>1. CASE r = current
        BY <2>3, <3>1, <4>1
      <4>2. CASE r \in evaluated
        BY <1>1, <2>1, <4>2
      <4>3. QED BY <4>1, <4>2
    <3>4. QED BY <3>1, <3>2, <3>3
  <2>5. ASSUME NEW s \in unevaluated'
        PROVE  s \in Reached' /\ fScore[current] <= F[s]
    <3>1. s \in Reached' /\ s \in Spots
      BY <1>2, <1>3, <1>4, <1>7
    <3>2. CASE s \in better
      <4>1. s \in GetNeighbors(current)
        BY <1>2, <3>2 DEF Ahead, ahead
      <4>2. CostEstimate(current) <= CostEstimate(s) + 1
        BY <1>4, <2>2, <4>1
      <4>3. F[s] = gScore[current] + 1 + CostEstimate(s)
        BY <1>12, <1>13, <3>1, <3>2 DEF score
      <4>4. fScore[current] = gScore[current] + CostEstimate(current)
        BY <1>4, <1>8
      <4>5. /\ gScore[current] \in Nat /\ CostEstimate(current) \in Nat
            /\ CostEstimate(s) \in Nat
        BY <1>4, <2>3, <3>1
      <4>6. QED BY <3>1, <4>2, <4>3, <4>4, <4>5
    <3>3. CASE s \notin better
      <4>1. s \in unevaluated /\ s \in Reached
        BY <1>2, <1>4, <1>7, <3>3
      <4>2. F[s] = fScore[s]
        BY <1>8, <1>12, <1>13, <3>1, <3>3, <4>1
      <4>3. QED BY <1>1, <3>1, <4>1, <4>2
    <3>4. QED BY <3>2, <3>3
  <2>6. ASSUME NEW r \in evaluated', NEW s \in unevaluated'
        PROVE  F[r] <= F[s]
    <3>1. F[r] <= fScore[current] /\ fScore[current] <= F[s]
      BY <2>4, <2>5
    <3>2. F[r] \in Int /\ F[s] \in Int /\ fScore[current] \in Int
      BY <1>4, <2>3, <2>4, <2>5
    <3>3. QED BY <3>1, <3>2
  <2>7. ASSUME NEW r \in evaluated', NEW s \in GetNeighbors(r)
        PROVE  G[s] <= G[r] + 1
    <3>1. CASE r \in evaluated
      <4>1. s \in Reached
        BY <3>1 DEF SearchIsClosed
      <4>2. gScore[s] <= gScore[r] + 1 /\ G[s] <= gScore[s] /\ G[r] = gScore[r]
        BY <1>12, <2>1, <3>1, <4>1
      <4>3. gScore[s] \in Nat /\ gScore[r] \in Nat /\ G[s] \in Nat
        BY <1>2, <2>3, <2>4, <4>1
      <4>4. QED BY <4>2, <4>3
    <3>2. CASE r = current
      <4>1. G[r] = gScore[current] /\ gScore[current] \in Nat
        BY <1>4, <2>3, <2>4, <3>2
      <4>2. CASE s \in ahead
        <5>1. G[s] <= score
          BY <1>12, <4>2
        <5>2. QED BY <4>1, <5>1 DEF score
      <4>3. CASE s = current
        BY <3>2, <4>1, <4>3
      <4>4. CASE s \in evaluated
        <5>1. s \in evaluated' /\ s \in Reached
          BY <1>2, <1>4, <4>4
        <5>2. gScore[s] = G[s] /\ fScore[s] <= fScore[current]
          BY <2>4, <5>1
        <5>3. /\ fScore[s] = gScore[s] + CostEstimate(s)
              /\ fScore[current] = gScore[current] + CostEstimate(current)
          BY <1>4, <1>8, <5>1
        <5>4. CostEstimate(current) <= CostEstimate(s) + 1
          BY <1>4, <2>2, <3>2
        <5>5. /\ gScore[s] \in Nat /\ CostEstimate(s) \in Nat /\ CostEstimate(current) \in Nat
          BY <1>4, <2>3, <5>1
        <5>6. QED BY <4>1, <5>2, <5>3, <5>4, <5>5
      <4>5. QED BY <1>3, <3>2, <4>2, <4>3, <4>4
    <3>3. QED BY <1>2, <3>1, <3>2
  <2>8. QED BY <2>6, <2>7
<1>17. QED BY <1>11, <1>14, <1>15, <1>16

\* The way back goes on while there is a room it came from, and that is until
\* it has come to the first.
LEMMA ReturnKeeps ==
    ASSUME SearchInv, Reconstruct
    PROVE  SearchInv'
<1>1. UNCHANGED <<maze, origin, goal, unevaluated, evaluated, cameFrom, gScore, fScore>>
  BY DEF Reconstruct, SearchEnds
<1>2. /\ stage = "returning" /\ path \in Seq(Spots) /\ path # << >> /\ Head(path) = path[1]
      /\ Len(path) \in Nat \ {0}
      /\ goal \in Lowest(unevaluated) /\ path[Len(path)] = goal
      /\ \A i \in 1..Len(path) : path[i] \in Reached /\ gScore[path[i]] = gScore[path[1]] + i - 1
      /\ \A i \in 1..(Len(path) - 1) : <<path[i], path[i + 1]>> \in maze
  BY DEF SearchInv, WayIsWalkable, Reconstruct
<1>3. path[1] \in Reached /\ DOMAIN cameFrom = Reached \ {origin}
  BY <1>2 DEF SearchInv, WaysLeadBack
<1>4. Lowest(unevaluated)' = Lowest(unevaluated) /\ Reached' = Reached
  BY <1>1 DEF Lowest, Reached
<1>5. SearchIsClosed' /\ ScoresAreLengths' /\ WaysLeadBack' /\ OrderIsRight'
  BY <1>1 DEF SearchInv, SearchIsClosed, ScoresAreLengths, WaysLeadBack, OrderIsRight,
     Reached, GetNeighbors, CostEstimate
<1>6. WayIsWalkable'
  <2>1. CASE path[1] \in DOMAIN cameFrom
    <3> DEFINE x == cameFrom[path[1]]
               way2 == <<x>> \o path
    <3>1. /\ x \in Reached /\ x \in Spots /\ <<x, path[1]>> \in maze
          /\ gScore[path[1]] = gScore[x] + 1 /\ gScore[x] \in Nat
      BY <1>3, <2>1 DEF SearchInv, WaysLeadBack, SearchIsClosed, ScoresAreLengths, Reached
    <3> HIDE DEF x
    <3>2. /\ way2 \in Seq(Spots) /\ Len(way2) = Len(path) + 1 /\ way2 # << >> /\ way2[1] = x
          /\ \A i \in 1..Len(path) : way2[i + 1] = path[i]
      BY <1>2, <3>1
    <3>3. stage' = "returning" /\ path' = way2
      BY <1>2, <2>1 DEF Reconstruct, SearchEnds, x
    <3> HIDE DEF way2
    <3>4. \A i \in 1..Len(way2) : i = 1 \/ (i - 1 \in 1..Len(path) /\ way2[i] = path[i - 1])
      <4> SUFFICES ASSUME NEW i \in 1..Len(way2), i # 1
                   PROVE  i - 1 \in 1..Len(path) /\ way2[i] = path[i - 1]
          OBVIOUS
      <4>1. i - 1 \in 1..Len(path)
        BY <1>2, <3>2
      <4>2. way2[(i - 1) + 1] = path[i - 1]
        BY <3>2, <4>1
      <4>3. (i - 1) + 1 = i
        BY <1>2, <3>2
      <4>4. QED BY <4>1, <4>2, <4>3
    <3>5. \A i \in 1..Len(way2) : way2[i] \in Reached /\ gScore[way2[i]] = gScore[way2[1]] + i - 1
      <4> SUFFICES ASSUME NEW i \in 1..Len(way2)
                   PROVE  way2[i] \in Reached /\ gScore[way2[i]] = gScore[way2[1]] + i - 1
          OBVIOUS
      <4>1. CASE i = 1
        BY <3>1, <3>2, <4>1
      <4>2. CASE i # 1
        <5>1. /\ way2[i] = path[i - 1] /\ i - 1 \in 1..Len(path) /\ i \in Int
              /\ gScore[path[i - 1]] = gScore[path[1]] + (i - 1) - 1
          BY <1>2, <3>2, <3>4, <4>2
        <5>2. path[i - 1] \in Reached
          BY <1>2, <5>1
        <5>3. gScore[way2[i]] = (gScore[x] + 1) + (i - 1) - 1 /\ gScore[way2[1]] = gScore[x]
          BY <3>1, <3>2, <5>1
        <5>4. \A g \in Nat : (g + 1) + (i - 1) - 1 = g + i - 1
          BY <5>1
        <5>5. QED BY <3>1, <5>1, <5>2, <5>3, <5>4
      <4>3. QED BY <4>1, <4>2
    <3>6. \A i \in 1..(Len(way2) - 1) : <<way2[i], way2[i + 1]>> \in maze
      <4> SUFFICES ASSUME NEW i \in 1..(Len(way2) - 1)
                   PROVE  <<way2[i], way2[i + 1]>> \in maze
          OBVIOUS
      <4>1. i \in 1..Len(path) /\ i \in 1..Len(way2) /\ way2[i + 1] = path[i]
        BY <1>2, <3>2
      <4>2. CASE i = 1
        BY <3>1, <3>2, <4>1, <4>2
      <4>3. CASE i # 1
        <5>1. way2[i] = path[i - 1] /\ i - 1 \in 1..(Len(path) - 1) /\ (i - 1) + 1 = i
          BY <1>2, <3>2, <3>4, <4>1, <4>3
        <5>2. <<path[i - 1], path[(i - 1) + 1]>> \in maze
          BY <1>2, <5>1
        <5>3. QED BY <4>1, <5>1, <5>2
      <4>4. QED BY <4>2, <4>3
    <3>7. way2[Len(way2)] = goal
      BY <1>2, <3>2
    <3>8. QED BY <1>1, <1>2, <1>4, <3>2, <3>3, <3>5, <3>6, <3>7 DEF WayIsWalkable
  <2>2. CASE path[1] \notin DOMAIN cameFrom
    <3>1. path[1] = origin /\ stage' = "done" /\ path' = path
      BY <1>2, <1>3, <2>2 DEF Reconstruct, SearchEnds
    <3>2. QED BY <1>1, <1>2, <1>4, <3>1 DEF WayIsWalkable
  <2>3. QED BY <2>1, <2>2
<1>7. QED BY <1>5, <1>6 DEF SearchInv

\* The search keeps its invariant: it evaluates a room, or it ends.
LEMMA NextSearchInv ==
    ASSUME SearchInv, [PathsNext]_pathsVars
    PROVE  SearchInv'
<1>1. CASE Reconstruct
  BY <1>1, ReturnKeeps
<1>2. ASSUME NEW next, NEW p, stage = "searching", SearchEnds(next, p),
             \/ next = "done" /\ p = << >> /\ unevaluated = {}
             \/ next = "returning" /\ p = <<goal>> /\ goal \in Lowest(unevaluated)
      PROVE  SearchInv'
  <2>1. UNCHANGED <<maze, origin, goal, unevaluated, evaluated, cameFrom, gScore, fScore>>
    BY <1>2 DEF SearchEnds
  <2>2. stage' = next /\ path' = p
    BY <1>2 DEF SearchEnds
  <2>3. Lowest(unevaluated)' = Lowest(unevaluated) /\ Reached' = Reached
    BY <2>1 DEF Lowest, Reached
  <2>4. SearchIsClosed' /\ ScoresAreLengths' /\ WaysLeadBack' /\ OrderIsRight'
    BY <2>1 DEF SearchInv, SearchIsClosed, ScoresAreLengths, WaysLeadBack, OrderIsRight,
       Reached, GetNeighbors, CostEstimate
  <2>5. CASE p = << >>
    BY <1>2, <2>1, <2>2, <2>4, <2>5 DEF SearchInv, WayIsWalkable
  <2>6. CASE p = <<goal>>
    <3>1. next = "returning" /\ goal \in Lowest(unevaluated)
      BY <1>2, <2>6
    <3>2. /\ goal \in Reached /\ goal \in Spots /\ gScore[goal] \in Nat
      BY <3>1 DEF Lowest, Reached, SearchInv, SearchIsClosed, ScoresAreLengths
    <3>3. /\ path' \in Seq(Spots) /\ path' # << >> /\ Len(path') = 1 /\ path'[1] = goal
      BY <2>2, <2>6, <3>2
    <3>4. WayIsWalkable'
      BY <2>1, <2>2, <2>3, <3>1, <3>2, <3>3 DEF WayIsWalkable
    <3>5. QED BY <2>4, <3>4 DEF SearchInv
  <2>7. QED BY <1>2, <2>5, <2>6
<1>3. ASSUME stage = "searching", NEW current \in Lowest(unevaluated), current # goal,
             Evaluate(current)
      PROVE  SearchInv'
  <2>1. SearchIsClosed' /\ ScoresAreLengths' /\ WaysLeadBack' /\ OrderIsRight'
    BY <1>3, EvaluateKeeps DEF SearchInv
  <2>2. stage' = "searching" /\ path' = << >>
    BY <1>3 DEF Evaluate, SearchInv, WayIsWalkable
  <2>3. QED BY <2>1, <2>2 DEF SearchInv, WayIsWalkable
<1>4. CASE UNCHANGED pathsVars
  BY <1>4 DEF pathsVars, SearchInv, SearchIsClosed, ScoresAreLengths, WaysLeadBack, OrderIsRight,
     WayIsWalkable, Reached, GetNeighbors, CostEstimate, Lowest
<1>5. CASE FindPath
  <2>1. CASE stage = "searching" /\ unevaluated = {} /\ SearchEnds("done", << >>)
    BY <1>2, <2>1
  <2>2. CASE stage = "searching" /\ goal \in Lowest(unevaluated) /\ SearchEnds("returning", <<goal>>)
    BY <1>2, <2>2
  <2>3. QED BY <1>3, <1>5, <2>1, <2>2 DEF FindPath
<1>6. QED BY <1>1, <1>4, <1>5 DEF PathsNext

\* A search begins with the first room, at no distance from itself.
LEMMA InitSearchInv == PathsInit => SearchInv
<1> SUFFICES ASSUME PathsInit PROVE SearchInv
    OBVIOUS
<1>1. CostEstimate(origin) \in Nat
  BY EstimateIsConsistent DEF PathsInit
<1>2. Reached = {origin}
  BY DEF PathsInit, Reached
<1>3. SearchIsClosed
  BY DEF PathsInit, SearchIsClosed
<1>4. ScoresAreLengths
  BY <1>1, <1>2 DEF PathsInit, ScoresAreLengths
<1>5. WaysLeadBack
  <2>1. cameFrom \in [{} -> evaluated]
    BY DEF PathsInit
  <2>2. QED BY <1>2, <2>1 DEF WaysLeadBack
<1>6. OrderIsRight /\ WayIsWalkable
  BY DEF PathsInit, OrderIsRight, WayIsWalkable
<1>7. QED BY <1>3, <1>4, <1>5, <1>6 DEF SearchInv

\* The search keeps its invariant in every behaviour.
THEOREM SearchInvariant == PathsSpec => []SearchInv
<1>1. SearchInv /\ [PathsNext]_pathsVars => SearchInv'
  BY NextSearchInv
<1>2. QED BY <1>1, InitSearchInv, PTL DEF PathsSpec

-----------------------------------------------------------------------------
(* The search for a path: what it comes to                                 *)

\* The recursive definition of Within has its fixed point.
LEMMA WithinUnfolds ==
    ASSUME origin \in Spots
    PROVE  /\ \A n \in Nat : Within[n] \in SUBSET Spots
           /\ Within[0] = {origin}
           /\ \A n \in Nat : Within[n + 1] =
                 Within[n] \cup UNION {GetNeighbors(r) : r \in Within[n]}
<1> DEFINE Spread(S) == S \cup UNION {GetNeighbors(r) : r \in S}
           F == [S \in SUBSET Spots |-> Spread(S)]
           Unfolds(f) == f = [n \in Nat |-> IF n = 0 THEN {origin} ELSE Spread(f[n - 1])]
<1>1. \A S \in SUBSET Spots : Spread(S) \in SUBSET Spots
  BY DEF GetNeighbors
<1>2. Within = CHOOSE f : Unfolds(f)
  BY DEF Within
<1> HIDE DEF Spread
<1>3. F \in [SUBSET Spots -> SUBSET Spots] /\ {origin} \in SUBSET Spots
  BY <1>1
<1> HIDE DEF F
<1>4. PICK f \in [Nat -> SUBSET Spots] : IsIteration(f, {origin}, F)
  BY <1>3, IterationExists
<1>5. \A n \in Nat : n # 0 => F[f[n - 1]] = Spread(f[n - 1])
  BY DEF F
<1>6. Unfolds(f)
  BY <1>4, <1>5 DEF IsIteration
<1>7. Unfolds(Within)
  <2> HIDE DEF Unfolds
  <2>1. QED BY <1>2, <1>6
<1>8. Within[0] = {origin} /\ \A n \in Nat : Within[n + 1] = Spread(Within[n])
  <2>1. \A n \in Nat : Within[n] = IF n = 0 THEN {origin} ELSE Spread(Within[n - 1])
    BY <1>7
  <2>2. \A n \in Nat : n + 1 \in Nat /\ n + 1 # 0 /\ (n + 1) - 1 = n
    OBVIOUS
  <2>3. QED BY <2>1, <2>2
<1> DEFINE P == {n \in Nat : Within[n] \in SUBSET Spots}
<1>9. P = Nat
  <2>1. 0 \in P
    BY <1>8
  <2>2. \A n \in P : n + 1 \in P
    BY <1>1, <1>8
  <2>3. P \in SUBSET Nat
    OBVIOUS
  <2> HIDE DEF P
  <2>4. QED BY <2>1, <2>2, <2>3, NatSetInduction
<1>10. QED BY <1>8, <1>9 DEF Spread

\* With more steps one comes at least as far.
LEMMA WithinGrows ==
    ASSUME origin \in Spots, NEW m \in Nat, NEW n \in Nat, m <= n
    PROVE  Within[m] \subseteq Within[n]
<1> DEFINE P == {k \in Nat : Within[m] \subseteq Within[m + k]}
<1>1. 0 \in P
  OBVIOUS
<1>2. ASSUME NEW k \in P PROVE k + 1 \in P
  <2>1. Within[m + k] \subseteq Within[(m + k) + 1] /\ (m + k) + 1 = m + (k + 1)
    BY WithinUnfolds
  <2>2. QED BY <2>1
<1>3. P \in SUBSET Nat
  OBVIOUS
<1> HIDE DEF P
<1>4. P = Nat
  BY <1>1, <1>2, <1>3, NatSetInduction
<1>5. n - m \in P /\ m + (n - m) = n
  BY <1>4
<1>6. QED BY <1>5 DEF P

\* When nothing is left to evaluate, everything in reach has been evaluated.
LEMMA ClosedIsAll ==
    ASSUME SearchIsClosed, unevaluated = {}, NEW n \in Nat
    PROVE  Within[n] \subseteq evaluated
<1> DEFINE P == {k \in Nat : Within[k] \subseteq evaluated}
<1>1. origin \in Spots /\ origin \in evaluated
      /\ \A r \in evaluated : GetNeighbors(r) \subseteq evaluated
  BY DEF SearchIsClosed, Reached
<1>2. 0 \in P
  BY <1>1, WithinUnfolds
<1>3. ASSUME NEW k \in P PROVE k + 1 \in P
  BY <1>1, WithinUnfolds
<1>4. P \in SUBSET Nat
  OBVIOUS
<1> HIDE DEF P
<1>5. P = Nat
  BY <1>2, <1>3, <1>4, NatSetInduction
<1>6. QED BY <1>5 DEF P

\* Without diagonal exits a room n steps away is evaluated with a score of n at
\* most, or the next room to be evaluated promises a way as short.
LEMMA ScoresAreDistances ==
    ASSUME SearchIsClosed, ScoresAreLengths, OrderIsRight,
           \A door \in maze : ~Diagonal(door),
           NEW n \in Nat, NEW s \in Within[n]
    PROVE  \/ s \in evaluated /\ gScore[s] <= n
           \/ \E u \in unevaluated : fScore[u] <= n + CostEstimate(s)
<1> DEFINE Near(r, k) == \/ r \in evaluated /\ gScore[r] <= k
                         \/ \E u \in unevaluated : fScore[u] <= k + CostEstimate(r)
           P == {k \in Nat : \A r \in Within[k] : Near(r, k)}
<1>1. /\ origin \in Spots /\ goal \in Spots /\ maze \in Mazes /\ origin \in Reached
      /\ \A r \in Reached : /\ gScore[r] \in Nat /\ fScore[r] \in Int
                            /\ fScore[r] = gScore[r] + CostEstimate(r)
      /\ gScore[origin] = 0
      /\ \A r \in evaluated : GetNeighbors(r) \subseteq Reached
      /\ \A r \in evaluated : \A x \in GetNeighbors(r) : gScore[x] <= gScore[r] + 1
      /\ \A r \in Reached : r \in evaluated \/ r \in unevaluated
      /\ evaluated \subseteq Reached /\ unevaluated \subseteq Reached
  BY DEF SearchIsClosed, ScoresAreLengths, OrderIsRight, Reached
<1>2. \A r \in Spots : CostEstimate(r) \in Nat
  BY <1>1, EstimateIsConsistent
<1>3. \A r \in Spots : \A x \in GetNeighbors(r) :
         x \in Spots /\ CostEstimate(r) <= CostEstimate(x) + 1
  BY <1>1, EstimateIsConsistent, NeighborIs
<1>4. 0 \in P
  <2>1. Within[0] = {origin}
    BY <1>1, WithinUnfolds
  <2>2. Near(origin, 0)
    <3>1. fScore[origin] = 0 + CostEstimate(origin)
      BY <1>1
    <3>2. fScore[origin] \in Int
      BY <1>1
    <3>3. QED BY <1>1, <3>1, <3>2
  <2> HIDE DEF Near
  <2>3. QED BY <2>1, <2>2
<1>5. ASSUME NEW k \in P PROVE k + 1 \in P
  <2>1. k \in Nat /\ \A r \in Within[k] : Near(r, k)
    <3> HIDE DEF Near
    <3>1. QED OBVIOUS
  <2>2. ASSUME NEW r \in Within[k], NEW x \in {r} \cup GetNeighbors(r)
        PROVE  Near(x, k + 1)
    <3>1. r \in Spots
      BY <1>1, <2>1, WithinUnfolds
    <3>2. Near(r, k)
      <4> HIDE DEF Near
      <4>1. QED BY <2>1
    <3>3. /\ x \in Spots /\ CostEstimate(r) <= CostEstimate(x) + 1
          /\ CostEstimate(r) \in Nat /\ CostEstimate(x) \in Nat
      BY <1>2, <1>3, <3>1
    <3>4. CASE r \in evaluated /\ gScore[r] <= k
      <4>1. x \in Reached /\ gScore[x] <= gScore[r] + 1 /\ gScore[r] \in Nat /\ gScore[x] \in Nat
        BY <1>1, <3>4
      <4>2. gScore[x] <= k + 1
        BY <2>1, <3>4, <4>1
      <4>3. CASE x \in evaluated
        BY <4>2, <4>3
      <4>4. CASE x \in unevaluated
        <5>1. fScore[x] = gScore[x] + CostEstimate(x)
          BY <1>1, <4>1
        <5>2. fScore[x] <= (k + 1) + CostEstimate(x)
          BY <2>1, <3>3, <4>1, <4>2, <5>1
        <5>3. QED BY <4>4, <5>2
      <4>5. QED BY <1>1, <4>1, <4>3, <4>4
    <3>5. ASSUME NEW u \in unevaluated, fScore[u] <= k + CostEstimate(r)
          PROVE  Near(x, k + 1)
      <4>1. fScore[u] \in Int
        BY <1>1
      <4>2. fScore[u] <= (k + 1) + CostEstimate(x)
        BY <2>1, <3>3, <3>5, <4>1
      <4>3. QED BY <4>2
    <3>6. QED BY <3>2, <3>4, <3>5
  <2>3. \A x \in Within[k + 1] : \E r \in Within[k] : x \in {r} \cup GetNeighbors(r)
    BY <1>1, <2>1, WithinUnfolds
  <2> HIDE DEF Near
  <2>4. QED BY <2>1, <2>2, <2>3
<1>6. P \in SUBSET Nat
  OBVIOUS
<1> HIDE DEF P
<1>7. P = Nat
  BY <1>4, <1>5, <1>6, NatSetInduction
<1>8. \A r \in Within[n] : Near(r, n)
  <2> HIDE DEF Near
  <2>1. n \in P
    BY <1>7
  <2>2. QED BY <2>1 DEF P
<1>9. QED BY <1>8

\* What the invariant says of a search that has come back with a path.
LEMMA PathFound ==
    ASSUME SearchInv, stage = "done", path # << >>
    PROVE  /\ path \in Seq(Spots) /\ Len(path) \in Nat \ {0}
           /\ path[1] = origin /\ path[Len(path)] = goal
           /\ \A i \in 1..(Len(path) - 1) : <<path[i], path[i + 1]>> \in maze
           /\ \A i \in 1..Len(path) : path[i] \in Spots /\ gScore[path[i]] = i - 1
           /\ gScore[goal] = Len(path) - 1 /\ fScore[goal] = Len(path) - 1
           /\ goal \in unevaluated /\ \A u \in unevaluated : fScore[goal] <= fScore[u]
           /\ \A u \in unevaluated : fScore[u] \in Int
<1>1. /\ path \in Seq(Spots) /\ Len(path) \in Nat \ {0}
      /\ path[1] = origin /\ path[Len(path)] = goal
      /\ \A i \in 1..(Len(path) - 1) : <<path[i], path[i + 1]>> \in maze
      /\ \A i \in 1..Len(path) : path[i] \in Reached /\ gScore[path[i]] = gScore[path[1]] + i - 1
  BY DEF SearchInv, WayIsWalkable
<1>2. /\ goal \in unevaluated /\ \A u \in unevaluated : fScore[goal] <= fScore[u]
  BY DEF SearchInv, WayIsWalkable, Lowest
<1>3. /\ gScore[origin] = 0 /\ goal \in Spots /\ maze \in Mazes
      /\ fScore[goal] = gScore[goal] + CostEstimate(goal)
      /\ \A u \in unevaluated : fScore[u] \in Int
      /\ Reached \subseteq Spots
  BY <1>2 DEF SearchInv, ScoresAreLengths, SearchIsClosed, Reached
<1>4. CostEstimate(goal) = 0
  BY <1>3, EstimateIsConsistent
<1>5. \A i \in 1..Len(path) : path[i] \in Spots /\ gScore[path[i]] = i - 1
  BY <1>1, <1>3
<1>6. gScore[goal] = Len(path) - 1
  <2>1. Len(path) \in 1..Len(path)
    BY <1>1
  <2>2. QED BY <1>1, <1>5, <2>1
<1>7. fScore[goal] = Len(path) - 1
  BY <1>1, <1>3, <1>4, <1>6
<1>8. QED BY <1>1, <1>2, <1>3, <1>5, <1>6, <1>7

\* The way back has at most as many rooms as there are, none of them twice, and
\* so has the path it becomes.
LEMMA PathIsInjective ==
    ASSUME SearchInv, path # << >>
    PROVE  IsInjective(path) /\ Len(path) \in Nat \ {0} /\ Len(path) <= Cardinality(Spots)
<1> DEFINE first == gScore[path[1]]
<1>1. /\ path \in Seq(Spots) /\ Len(path) \in Nat \ {0}
      /\ \A i \in 1..Len(path) : path[i] \in Reached /\ gScore[path[i]] = first + i - 1
  BY DEF SearchInv, WayIsWalkable
<1>2. path \in [1..Len(path) -> Spots] /\ 1 \in 1..Len(path)
  BY <1>1
<1>3. first \in Nat
  BY <1>1, <1>2 DEF SearchInv, ScoresAreLengths
<1> HIDE DEF first
<1>4. \A i, j \in 1..Len(path) : path[i] = path[j] => i = j
  <2> SUFFICES ASSUME NEW i \in 1..Len(path), NEW j \in 1..Len(path), path[i] = path[j]
               PROVE  i = j
      OBVIOUS
  <2>1. first + i - 1 = first + j - 1
    BY <1>1
  <2>2. QED BY <1>1, <1>3, <2>1
<1>5. IsInjective(path)
  BY <1>2, <1>4 DEF IsInjective
<1>6. /\ IsFiniteSet(1..Len(path)) /\ Cardinality(1..Len(path)) = Len(path)
      /\ IsFiniteSet(Spots) /\ Cardinality(Spots) \in Nat
  BY <1>1, FS_Interval, FS_CardinalityType, PathsAssumption DEF PathsAssumption
<1>7. ~(Cardinality(Spots) < Cardinality(1..Len(path)))
  BY <1>1, <1>2, <1>4, <1>6, FS_PigeonHole
<1>8. QED BY <1>1, <1>5, <1>6, <1>7

\* The i-th room of a path is at most i - 1 steps away.
LEMMA PathIsWithin ==
    ASSUME SearchInv, stage = "done", path # << >>, NEW i \in 1..Len(path)
    PROVE  path[i] \in Within[i - 1]
<1> DEFINE P == {k \in Nat : k + 1 \in 1..Len(path) => path[k + 1] \in Within[k]}
<1>1. /\ origin \in Spots /\ Len(path) \in Nat \ {0} /\ path[1] = origin
      /\ \A k \in 1..(Len(path) - 1) : <<path[k], path[k + 1]>> \in maze
      /\ \A k \in 1..Len(path) : path[k] \in Spots
  BY PathFound DEF SearchInv, SearchIsClosed
<1>2. 0 \in P
  BY <1>1, WithinUnfolds
<1>3. ASSUME NEW k \in P PROVE k + 1 \in P
  <2> SUFFICES ASSUME (k + 1) + 1 \in 1..Len(path)
               PROVE  path[(k + 1) + 1] \in Within[k + 1]
      OBVIOUS
  <2>1. k \in Nat /\ k + 1 \in 1..(Len(path) - 1) /\ k + 1 \in 1..Len(path)
    BY <1>1
  <2>2. path[k + 1] \in Within[k]
    BY <2>1
  <2>3. path[(k + 1) + 1] \in GetNeighbors(path[k + 1])
    BY <1>1, <2>1, NeighborIs
  <2>4. Within[k + 1] = Within[k] \cup UNION {GetNeighbors(r) : r \in Within[k]}
    BY <1>1, <2>1, WithinUnfolds
  <2> DEFINE next == path[(k + 1) + 1]
  <2> HIDE DEF next
  <2>5. next \in GetNeighbors(path[k + 1])
    BY <2>3 DEF next
  <2>6. next \in Within[k + 1]
    BY <2>2, <2>4, <2>5
  <2>7. QED BY <2>6 DEF next
<1>4. P \in SUBSET Nat
  OBVIOUS
<1> HIDE DEF P
<1>5. P = Nat
  BY <1>2, <1>3, <1>4, NatSetInduction
<1>6. i - 1 \in Nat /\ (i - 1) + 1 = i
  BY <1>1
<1>7. i - 1 \in P
  BY <1>5, <1>6
<1>8. QED BY <1>6, <1>7 DEF P

\* A search that has ended has found the way, if there is one.
LEMMA SearchInvLeads == ASSUME SearchInv PROVE PathsLead
<1> SUFFICES ASSUME stage = "done" PROVE
      /\ (path = << >>) <=> (goal \notin Within[Cardinality(Spots)])
      /\ path # << >> =>
            /\ Head(path) = origin /\ Last(path) = goal /\ IsInjective(path)
            /\ \A i \in 1..(Len(path) - 1) : <<path[i], path[i + 1]>> \in maze
            /\ (\A door \in maze : ~Diagonal(door)) =>
                  (Len(path) = 1 \/ goal \notin Within[Len(path) - 2])
  BY DEF PathsLead
<1>1. Cardinality(Spots) \in Nat
  BY FS_CardinalityType, PathsAssumption DEF PathsAssumption
<1>2. CASE path = << >>
  <2>1. SearchIsClosed /\ unevaluated = {} /\ goal \notin evaluated
    BY <1>2 DEF SearchInv, WayIsWalkable, SearchIsClosed
  <2>2. QED BY <1>1, <1>2, <2>1, ClosedIsAll
<1>3. CASE path # << >>
  <2>1. /\ path \in Seq(Spots) /\ Len(path) \in Nat \ {0}
        /\ path[1] = origin /\ path[Len(path)] = goal
        /\ \A i \in 1..(Len(path) - 1) : <<path[i], path[i + 1]>> \in maze
        /\ IsInjective(path) /\ Len(path) <= Cardinality(Spots)
    BY <1>3, PathFound, PathIsInjective
  <2>2. Head(path) = origin /\ Last(path) = goal
    BY <1>3, <2>1 DEF Last
  <2>3. goal \in Within[Cardinality(Spots)]
    <3>1. Len(path) \in 1..Len(path) /\ Len(path) - 1 \in Nat /\ Len(path) - 1 <= Cardinality(Spots)
      BY <1>1, <2>1
    <3>2. goal \in Within[Len(path) - 1]
      BY <1>3, <2>1, <3>1, PathIsWithin
    <3>3. origin \in Spots
      BY DEF SearchInv, SearchIsClosed
    <3>4. QED BY <1>1, <3>1, <3>2, <3>3, WithinGrows
  <2>4. ASSUME \A door \in maze : ~Diagonal(door), Len(path) # 1,
               goal \in Within[Len(path) - 2]
        PROVE  FALSE
    <3> DEFINE n == Len(path) - 2
    <3>1. n \in Nat /\ Len(path) - 1 = n + 1
      <4>1. Len(path) \in Nat \ {0, 1}
        BY <2>1, <2>4
      <4>2. \A l \in Nat \ {0, 1} : l - 2 \in Nat /\ l - 1 = (l - 2) + 1
        OBVIOUS
      <4>3. QED BY <4>1, <4>2
    <3>2. /\ SearchIsClosed /\ ScoresAreLengths /\ OrderIsRight
          /\ goal \in Spots /\ maze \in Mazes /\ goal \notin evaluated
      BY DEF SearchInv, SearchIsClosed
    <3>3. CostEstimate(goal) = 0
      BY <3>2, EstimateIsConsistent
    <3>4. goal \in Within[n]
      BY <2>4
    <3> HIDE DEF n
    <3>5. \E u \in unevaluated : fScore[u] <= n + CostEstimate(goal)
      BY <2>4, <3>1, <3>2, <3>4, ScoresAreDistances
    <3>6. PICK u \in unevaluated : fScore[u] <= n
      BY <3>1, <3>3, <3>5
    <3>7. /\ fScore[goal] = n + 1 /\ fScore[goal] <= fScore[u] /\ fScore[u] \in Int
      BY <1>3, <3>1, PathFound
    <3>8. QED BY <3>1, <3>6, <3>7
  <2>5. QED BY <1>3, <2>1, <2>2, <2>3, <2>4
<1>4. QED BY <1>2, <1>3

\* In every maze FindPath finds a path exactly if there is one; the path leads
\* through exits from the first room to the last, through none twice, and without
\* diagonal exits none is shorter.
THEOREM PathsAlwaysLead == PathsSpec => []PathsLead
<1>1. SearchInv => PathsLead
  BY SearchInvLeads
<1>2. QED BY <1>1, SearchInvariant, PTL

\* It has the types.
LEMMA SearchInvTypes == ASSUME SearchInv PROVE PathsTypeOK
<1>1. maze \subseteq Spots \X Spots
  BY PathsAssumption DEF SearchInv, SearchIsClosed, PathsAssumption
<1>2. /\ {origin, goal} \subseteq Spots /\ unevaluated \subseteq Spots /\ evaluated \subseteq Spots
      /\ stage \in {"searching", "returning", "done"} /\ path \in Seq(Spots)
  BY DEF SearchInv, SearchIsClosed, WayIsWalkable
<1>3. DOMAIN gScore = unevaluated \cup evaluated /\ DOMAIN fScore = DOMAIN gScore
  BY DEF SearchInv, ScoresAreLengths, Reached
<1>4. DOMAIN cameFrom \subseteq Spots /\ \A r \in DOMAIN cameFrom : cameFrom[r] \in Spots
  BY <1>2 DEF SearchInv, WaysLeadBack, Reached
<1>5. QED BY <1>1, <1>2, <1>3, <1>4 DEF PathsTypeOK

\* The variables of the search keep their types.
THEOREM PathsTypes == PathsSpec => []PathsTypeOK
<1>1. SearchInv => PathsTypeOK
  BY SearchInvTypes
<1>2. QED BY <1>1, SearchInvariant, PTL

\* How many steps the search can still take, at most: it evaluates a room or
\* ends, and its way back takes in another room or ends.
StepsLeft ==
    IF stage = "searching" THEN Cardinality(Spots \ evaluated) + Cardinality(Spots) + 1
    ELSE IF stage = "returning" THEN Cardinality(Spots) - Len(path) + 1
    ELSE 0

\* There is always a room to go on with, as long as one is unevaluated.
LEMMA LowestExists ==
    ASSUME SearchInv, unevaluated # {}
    PROVE  Lowest(unevaluated) # {}
<1> DEFINE S == {fScore[r] : r \in unevaluated}
<1>1. \A r \in unevaluated : r \in Reached /\ r \in Spots
  BY DEF SearchInv, SearchIsClosed, Reached
<1>2. \A r \in unevaluated : fScore[r] \in Nat
  BY <1>1, EstimateIsConsistent DEF SearchInv, ScoresAreLengths, SearchIsClosed
<1>3. S \in SUBSET Nat /\ S # {}
  BY <1>2
<1>4. PICK n \in S : \A m \in S : n <= m
  <2> HIDE DEF S
  <2>1. QED BY <1>3, MinExists
<1>5. PICK r \in unevaluated : fScore[r] = n
  BY <1>4
<1>6. QED BY <1>4, <1>5 DEF Lowest

\* The search has that many steps left, and takes one of them with each.
LEMMA SearchInvCounts ==
    ASSUME SearchInv
    PROVE  /\ StepsLeft \in 0..(2 * Cardinality(Spots) + 1)
           /\ stage # "done" => StepsLeft > 0
<1>1. /\ IsFiniteSet(Spots) /\ Cardinality(Spots) \in Nat
      /\ Cardinality(Spots \ evaluated) \in Nat
      /\ Cardinality(Spots \ evaluated) <= Cardinality(Spots)
  BY PathsAssumption, FS_CardinalityType, FS_Difference, FS_Subset DEF PathsAssumption
<1>2. stage \in {"searching", "returning", "done"}
  BY DEF SearchInv, WayIsWalkable
<1>3. CASE stage = "returning"
  BY <1>1, <1>3, PathIsInjective DEF StepsLeft, SearchInv, WayIsWalkable
<1>4. CASE stage # "returning"
  BY <1>1, <1>2, <1>4 DEF StepsLeft
<1>5. QED BY <1>3, <1>4

LEMMA StepIsTaken ==
    ASSUME SearchInv, SearchInv', PathsNext
    PROVE  StepsLeft' < StepsLeft
<1>1. /\ StepsLeft \in 0..(2 * Cardinality(Spots) + 1)
      /\ stage # "done" => StepsLeft > 0
  BY SearchInvCounts
<1>2. /\ IsFiniteSet(Spots) /\ Cardinality(Spots) \in Nat
      /\ \A S : IsFiniteSet(Spots \ S) /\ Cardinality(Spots \ S) \in Nat
  BY PathsAssumption, FS_CardinalityType, FS_Difference DEF PathsAssumption
<1>3. CASE stage # "done" /\ stage' = "done"
  BY <1>1, <1>3 DEF StepsLeft
<1>4. ASSUME stage = "searching", stage' = "returning", path' = <<goal>>
      PROVE  StepsLeft' < StepsLeft
  <2>1. StepsLeft = Cardinality(Spots \ evaluated) + Cardinality(Spots) + 1
    BY <1>4 DEF StepsLeft
  <2>2. StepsLeft' = Cardinality(Spots) - 1 + 1
    BY <1>4 DEF StepsLeft
  <2>3. QED BY <1>2, <2>1, <2>2
<1>5. ASSUME stage = "searching", NEW current \in Lowest(unevaluated), Evaluate(current)
      PROVE  StepsLeft' < StepsLeft
  <2>1. evaluated' = evaluated \cup {current} /\ stage' = "searching"
    BY <1>5 DEF Evaluate
  <2>2. current \in Spots \ evaluated
    BY DEF SearchInv, SearchIsClosed, Lowest
  <2>3. Spots \ evaluated' = (Spots \ evaluated) \ {current}
    BY <2>1
  <2>4. /\ Cardinality(Spots \ evaluated') = Cardinality(Spots \ evaluated) - 1
        /\ Cardinality(Spots \ evaluated) \in Nat
    BY <1>2, <2>2, <2>3, FS_RemoveElement
  <2>5. /\ StepsLeft = Cardinality(Spots \ evaluated) + Cardinality(Spots) + 1
        /\ StepsLeft' = Cardinality(Spots \ evaluated') + Cardinality(Spots) + 1
    BY <1>5, <2>1 DEF StepsLeft
  <2>6. QED BY <1>2, <2>4, <2>5
<1>6. ASSUME stage = "returning", stage' = "returning", NEW r, path' = <<r>> \o path, r \in Spots
      PROVE  StepsLeft' < StepsLeft
  <2>1. path \in Seq(Spots) /\ Len(path) \in Nat
    BY DEF SearchInv, WayIsWalkable
  <2>2. Len(path') = Len(path) + 1
    BY <1>6, <2>1
  <2>3. /\ StepsLeft = Cardinality(Spots) - Len(path) + 1
        /\ StepsLeft' = Cardinality(Spots) - Len(path') + 1
    BY <1>6 DEF StepsLeft
  <2>4. QED BY <1>2, <2>1, <2>2, <2>3
<1>7. CASE FindPath
  <2>1. stage = "searching"
    BY <1>7 DEF FindPath
  <2>2. CASE SearchEnds("done", << >>)
    BY <1>3, <2>1, <2>2 DEF SearchEnds
  <2>3. CASE SearchEnds("returning", <<goal>>)
    BY <1>4, <2>1, <2>3 DEF SearchEnds
  <2>4. CASE \E current \in Lowest(unevaluated) : Evaluate(current)
    BY <1>5, <2>1, <2>4
  <2>5. QED BY <1>7, <2>2, <2>3, <2>4 DEF FindPath
<1>8. CASE Reconstruct
  <2>1. stage = "returning"
    BY <1>8 DEF Reconstruct
  <2>2. CASE SearchEnds("done", path)
    BY <1>3, <2>1, <2>2 DEF SearchEnds
  <2>3. CASE Head(path) \in DOMAIN cameFrom /\ SearchEnds("returning", <<cameFrom[Head(path)]>> \o path)
    <3>1. cameFrom[Head(path)] \in Spots
      BY <2>3 DEF SearchInv, WaysLeadBack, SearchIsClosed
    <3>2. QED BY <1>6, <2>1, <2>3, <3>1 DEF SearchEnds
  <2>4. QED BY <1>8, <2>2, <2>3 DEF Reconstruct
<1>9. QED BY <1>7, <1>8 DEF PathsNext

\* The search ends: each step takes one of the finitely many it has left, from
\* twice the rooms and one on, and until it is done there is one to take: a room
\* to evaluate, or none left, or a way back to go on with. So the loops of
\* findPath and reconstruct need no bound of their own.
THEOREM SearchEndsInTime ==
    PathsSpec =>
        /\ [](StepsLeft \in 0..(2 * Cardinality(Spots) + 1))
        /\ [][StepsLeft' < StepsLeft]_pathsVars
        /\ [](stage = "searching" /\ unevaluated # {} => Lowest(unevaluated) # {})
<1>1. SearchInv => /\ StepsLeft \in 0..(2 * Cardinality(Spots) + 1)
                   /\ stage = "searching" /\ unevaluated # {} => Lowest(unevaluated) # {}
  BY SearchInvCounts, LowestExists
<1>2. SearchInv /\ SearchInv' /\ [PathsNext]_pathsVars => [StepsLeft' < StepsLeft]_pathsVars
  BY StepIsTaken
<1>3. QED BY <1>1, <1>2, SearchInvariant, PTL DEF PathsSpec

-----------------------------------------------------------------------------
(* All of them beside each other: MCWorld                                  *)

Systems == {"roomLock", "rooms", "shop", "telnet", "paths", "menus"}

LEMMA WorldStarts ==
    ASSUME WorldInit
    PROVE  /\ system \in Systems
           /\ RoomLockInit /\ RoomsInit /\ ShopInit /\ TelnetInit /\ MenusInit
           /\ system = "paths" => PathsInit
  BY DEF WorldInit, MenusRest, Systems

\* A step of the world is one of a system, and the others stand still.
LEMMA WorldSteps ==
    ASSUME [WorldNext]_worldVariables
    PROVE  /\ system' = system
           /\ [RoomLockNext]_roomLockVars /\ [RoomsNext]_roomsVars /\ [ShopNext]_shopVars
           /\ [TelnetNext]_telnetVars /\ [PathsNext]_pathsVars /\ [MenusNext]_menusVars
  BY DEF WorldNext, worldVariables

LEMMA WorldRuns ==
    WorldSpec => RoomsSpec /\ ShopSpec /\ TelnetSpec /\ MenusSpec
<1>1. WorldInit => RoomsInit /\ ShopInit /\ TelnetInit /\ MenusInit
  BY WorldStarts
<1>2. [WorldNext]_worldVariables =>
          /\ [RoomsNext]_roomsVars /\ [ShopNext]_shopVars
          /\ [TelnetNext]_telnetVars /\ [MenusNext]_menusVars
  BY WorldSteps
<1>3. QED BY <1>1, <1>2, PTL DEF WorldSpec, RoomsSpec, ShopSpec, TelnetSpec, MenusSpec

\* What is known of the system that is fair, and of the search.
WorldInv ==
    /\ system \in Systems /\ RoomLockInv
    /\ system = "paths" => SearchInv

LEMMA WorldKeeps == WorldSpec => []WorldInv
<1>1. WorldInit => WorldInv
  BY WorldStarts, InitRoomLockInv, InitSearchInv DEF WorldInv
<1>2. WorldInv /\ [WorldNext]_worldVariables => WorldInv'
  BY WorldSteps, NextRoomLockInv, NextSearchInv DEF WorldInv
<1>3. QED BY <1>1, <1>2, PTL DEF WorldSpec

\* The variables of the world have their types, whichever system it is.
THEOREM WorldTypes == WorldSpec => []TypesOK
<1>1. WorldInv => system \in Systems /\ RoomLockTypeOK
  BY RoomLockInvTypes DEF WorldInv
<1>2. WorldInv /\ system = "paths" => PathsTypeOK
  BY SearchInvTypes DEF WorldInv
<1>3. /\ system \in Systems /\ RoomLockTypeOK /\ RoomsTypeOK /\ ShopTypeOK
      /\ TelnetTypeOK /\ MenusTypeOK
      /\ system = "paths" => PathsTypeOK
      => TypesOK
  BY DEF TypesOK, Systems
<1>4. QED
  BY <1>1, <1>2, <1>3, WorldKeeps, WorldRuns, RoomsTypes, ShopTypes, TelnetTypes,
     MenusTypes, PTL
=============================================================================
