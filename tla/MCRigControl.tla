----------------------------- MODULE MCRigControl -----------------------------
(* One rig with a receive room beside it, and an SDR, for RigControl. *)
EXTENDS RigControl, TLC

CONSTANTS rig0, rx0

ReceiveRoomOf == rx0 :> rig0

FirstOrBoth == {{}, {0}, {0, 1}}
=============================================================================
