------------------------------ MODULE MCWorld ------------------------------
(* Instances for TLC of the systems that do not share state: a behaviour    *)
(* is one of the system it has chosen at the start, the others stand still. *)
EXTENDS RoomLock, Rooms, Shop, Telnet, Paths, Menus, TLC

CONSTANTS g1, b1
VARIABLE system

worldVariables ==
    <<system, roomLockVars, roomsVars, shopVars, telnetVars, pathsVars, menusVars>>

-----------------------------------------------------------------------------
(* Values of the constants                                                 *)

RowOfThree == -1..1

OneForSale == [i \in Items |-> IF i = b1 THEN Hall ELSE IF i = g1 THEN Store ELSE NoBox]
KeeperHasTwo == [t \in Traders |-> IF t = Keeper THEN 2 ELSE 3]

\* A letter, an accented one, the end of a line, WILL ECHO, and a window of 255
\* columns and 300 rows.
ClientPhrases ==
    [kind : {"key"}, code : {97, 233, CR, LF}, data : {<< >>}]
        \cup {[kind |-> "request", code |-> 251, data |-> <<1>>],
              [kind |-> "report", code |-> WS, data |-> <<0, 255, 1, 44>>]}

\* Two by three rooms, with any walls, and some diagonals one way.
Grid == (0..2) \X (0..1)
GridPosition == [s \in Grid |-> s]
Walls == {w \in SUBSET Grid : Cardinality(w) = 2 /\ \E a, b \in w : Abs(a[1] - b[1]) + Abs(a[2] - b[2]) = 1}
Diagonals == {{}, {<< <<1, 0>>, <<0, 1>> >>, << <<1, 1>>, <<2, 0>> >>}}
GridMazes == {{d \in Grid \X Grid : {d[1], d[2]} \in W} \cup D : W \in SUBSET Walls, D \in Diagonals}

\* a, a2, a10 and a02aa, the last too wide for a page.
SomeNames == {<<20>>, <<20, 2>>, <<20, 1, 0>>, <<20, 0, 2, 20, 20>>}
SomeFilters == {<< >>, <<20, 2>>, <<20, 20>>}

-----------------------------------------------------------------------------
PathsRest ==
    /\ maze = {} /\ origin = <<0, 0>> /\ goal = <<0, 0>>
    /\ unevaluated = {} /\ evaluated = {} /\ cameFrom = << >> /\ gScore = << >> /\ fScore = << >>
    /\ stage = "done" /\ path = <<origin>>

MenusRest == MenusInit /\ objects = << >>

WorldInit ==
    /\ system \in {"roomLock", "rooms", "shop", "telnet", "paths", "menus"}
    /\ RoomLockInit /\ RoomsInit /\ ShopInit /\ TelnetInit
    /\ IF system = "paths" THEN PathsInit ELSE PathsRest
    /\ IF system = "menus" THEN MenusInit ELSE MenusRest

WorldNext ==
    /\ UNCHANGED system
    /\ \/ system = "roomLock" /\ RoomLockNext
          /\ UNCHANGED <<roomsVars, shopVars, telnetVars, pathsVars, menusVars>>
       \/ system = "rooms" /\ RoomsNext
          /\ UNCHANGED <<roomLockVars, shopVars, telnetVars, pathsVars, menusVars>>
       \/ system = "shop" /\ ShopNext
          /\ UNCHANGED <<roomLockVars, roomsVars, telnetVars, pathsVars, menusVars>>
       \/ system = "telnet" /\ TelnetNext
          /\ UNCHANGED <<roomLockVars, roomsVars, shopVars, pathsVars, menusVars>>
       \/ system = "paths" /\ PathsNext
          /\ UNCHANGED <<roomLockVars, roomsVars, shopVars, telnetVars, menusVars>>
       \/ system = "menus" /\ MenusNext
          /\ UNCHANGED <<roomLockVars, roomsVars, shopVars, telnetVars, pathsVars>>

\* The fairness of RoomLock, while the system is that.
AllButRoomLock == UNCHANGED <<system, roomsVars, shopVars, telnetVars, pathsVars, menusVars>>

WorldFairness ==
    \A v \in Visitors :
        WF_worldVariables(system = "roomLock" /\ LockStep(v) /\ AllButRoomLock)

WorldSpec == WorldInit /\ [][WorldNext]_worldVariables /\ WorldFairness

-----------------------------------------------------------------------------
\* The variables of each system have their types.
TypesOK ==
    CASE system = "roomLock" -> RoomLockTypeOK
      [] system = "rooms" -> RoomsTypeOK
      [] system = "shop" -> ShopTypeOK
      [] system = "telnet" -> TelnetTypeOK
      [] system = "paths" -> PathsTypeOK
      [] system = "menus" -> MenusTypeOK
=============================================================================
