------------------------------ MODULE MCCombat ------------------------------
(* Instances of Combat for TLC.                                            *)
EXTENDS Combat, TLC

\* Commands, ticks and moves of each session and each NPC.
TwoEach   == [c \in Characters |-> IF c \in Pcs THEN 2 ELSE 0]
TwoAndOne == [c \in Characters |-> IF c \in Pcs THEN 2 ELSE 1]

\* Two states that differ in the history alone have the same future.
View == <<fights, combatMessages, loopVars, outbox, callerVars, worldVars, ticks,
          promised, announced, listeners, eventMessages, sending, state>>

Symmetry == Permutations(Rooms) \cup Permutations(Pcs) \cup Permutations(Npcs)
=============================================================================
