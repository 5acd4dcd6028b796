------------------------------ MODULE MCEngine ------------------------------
EXTENDS Engine, TLC

CONSTANT n1

\* One NPC at the start, the spawner's.
OneSpawned == n1 :> TRUE
=============================================================================
