----------------------------- MODULE MCRoomView -----------------------------
(* Small instances of RoomView for TLC.                                     *)
EXTENDS RoomView
=============================================================================
