-------------------------------- MODULE Paths --------------------------------
(***************************************************************************)
(* The search for a path between two rooms of a zone (engine/pathing.go):  *)
(* A* over the neighbours of model/model.go, one room evaluated at a time. *)
(* Among rooms with equal scores the order of a Go map decides.            *)
(*                                                                         *)
(* The estimate adds up the differences of the coordinates.  A diagonal    *)
(* exit covers two of them in one step, so with diagonal exits the path    *)
(* found need not be the shortest.                                         *)
(***************************************************************************)
EXTENDS Integers, Sequences, SequencesExt, FiniteSetsExt

CONSTANTS
    Spots,          \* rooms
    Position,       \* [room -> <<x, y>>]
    Mazes           \* the exits: sets of pairs of rooms

\* An exit leads a step further, in one direction or diagonally (NextLocation).
ASSUME PathsAssumption ==
    /\ Spots # {} /\ IsFiniteSet(Spots) /\ Position \in [Spots -> Int \X Int]
    /\ Mazes \subseteq SUBSET (Spots \X Spots)
    /\ \A M \in Mazes : \A door \in M : \A i \in {1, 2} :
          Position[door[1]][i] - Position[door[2]][i] \in -1..1

VARIABLES
    maze,           \* never changed
    origin, goal,
    unevaluated, evaluated,
    cameFrom,       \* a function on the rooms reached so far, but the first
    gScore, fScore,
    stage,          \* "searching", "returning" from the goal or "done"
    path            \* from the room the way back has come to

pathsVars == <<maze, origin, goal, unevaluated, evaluated, cameFrom, gScore, fScore,
               stage, path>>

Abs(x) == IF x < 0 THEN -x ELSE x

CostEstimate(r) ==
    Abs(Position[r][1] - Position[goal][1]) + Abs(Position[r][2] - Position[goal][2])

GetNeighbors(r) == {s \in Spots : <<r, s>> \in maze}

PathsInit ==
    /\ maze \in Mazes /\ origin \in Spots /\ goal \in Spots
    /\ unevaluated = {origin} /\ evaluated = {}
    /\ cameFrom = << >>
    /\ gScore = [r \in {origin} |-> 0]
    /\ fScore = [r \in {origin} |-> CostEstimate(origin)]
    /\ stage = "searching" /\ path = << >>

PathsTypeOK ==
    /\ maze \subseteq Spots \X Spots /\ {origin, goal} \subseteq Spots
    /\ unevaluated \subseteq Spots /\ evaluated \subseteq Spots
    /\ DOMAIN cameFrom \subseteq Spots /\ \A r \in DOMAIN cameFrom : cameFrom[r] \in Spots
    /\ DOMAIN gScore = unevaluated \cup evaluated /\ DOMAIN fScore = DOMAIN gScore
    /\ stage \in {"searching", "returning", "done"} /\ path \in Seq(Spots)

\* Faulty variant: any room will do.
AnyUnevaluated(rooms) == rooms

Lowest(rooms) == {r \in rooms : \A s \in rooms : fScore[r] <= fScore[s]}

\* One room is evaluated: its neighbours get a way to them, or a shorter one.
Evaluate(current) ==
    LET new     == GetNeighbors(current) \ (evaluated \cup {current})
        score   == gScore[current] + 1
        reached == {s \in new : s \in unevaluated => score < gScore[s]}
        Put(f, Value(_)) == [s \in DOMAIN f \cup reached |-> IF s \in reached THEN Value(s) ELSE f[s]]
    IN  /\ unevaluated' = (unevaluated \ {current}) \cup new
        /\ evaluated' = evaluated \cup {current}
        /\ cameFrom' = Put(cameFrom, LAMBDA s : current)
        /\ gScore' = Put(gScore, LAMBDA s : score)
        /\ fScore' = Put(fScore, LAMBDA s : score + CostEstimate(s))
        /\ UNCHANGED <<maze, origin, goal, stage, path>>

SearchEnds(next, p) ==
    /\ stage' = next /\ path' = p
    /\ UNCHANGED <<maze, origin, goal, unevaluated, evaluated, cameFrom, gScore, fScore>>

FindPath ==
    /\ stage = "searching"
    /\ \/ unevaluated = {} /\ SearchEnds("done", << >>)
       \/ \E current \in Lowest(unevaluated) :
             IF current = goal THEN SearchEnds("returning", <<goal>>) ELSE Evaluate(current)

\* The way back, room by room, until one has not been come to from another.
Reconstruct ==
    /\ stage = "returning"
    /\ IF Head(path) \in DOMAIN cameFrom
       THEN SearchEnds("returning", <<cameFrom[Head(path)]>> \o path)
       ELSE SearchEnds("done", path)

PathsNext == FindPath \/ Reconstruct

PathsSpec == PathsInit /\ [][PathsNext]_pathsVars

-----------------------------------------------------------------------------
(* Properties                                                              *)

\* The rooms at most n steps from the first, from the definition.
Within[n \in Nat] ==
    IF n = 0 THEN {origin}
    ELSE LET near == Within[n - 1] IN near \cup UNION {GetNeighbors(r) : r \in near}

Diagonal(door) ==
    LET a == Position[door[1]]  b == Position[door[2]] IN a[1] # b[1] /\ a[2] # b[2]

\* A path is found exactly if there is one; it leads through exits from the
\* first room to the last, through none twice, and, if no exit is diagonal, no
\* path is shorter.
PathsLead ==
    stage = "done" =>
        /\ (path = << >>) <=> (goal \notin Within[Cardinality(Spots)])
        /\ path # << >> =>
              /\ Head(path) = origin /\ Last(path) = goal /\ IsInjective(path)
              /\ \A i \in 1..(Len(path) - 1) : <<path[i], path[i + 1]>> \in maze
              /\ (\A door \in maze : ~Diagonal(door)) =>
                    (Len(path) = 1 \/ goal \notin Within[Len(path) - 2])
=============================================================================
