----------------------------- MODULE MCRoomLock -----------------------------
(* Instances of RoomLock for TLC.                                          *)
EXTENDS RoomLock, TLC
=============================================================================
