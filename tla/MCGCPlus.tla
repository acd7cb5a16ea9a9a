------------------------------ MODULE MCGCPlus ------------------------------
(***************************************************************************)
(* Small instances of GCPlus.                                              *)
(***************************************************************************)
EXTENDS GCPlus

(* Three packets in blocks of two: the last block is not full.             *)
ThreePackets == [i \in 0 .. 2 |-> i]
(* Two packets that are equal, as in lua_Gcp_loadDefaultSticksConfig().    *)
EqualPackets == <<"c", "c">>
GameMapping == {"default", "game"}
MayKeep == BOOLEAN
AllKinds == Sessions
=============================================================================
