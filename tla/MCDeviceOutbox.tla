---------------------------- MODULE MCDeviceOutbox ----------------------------
(* A browser that two people use: a page of the device app and Background Sync. *)
EXTENDS DeviceOutbox, TLC

CONSTANTS u1, u2, e1, e2

MCOwner == (e1 :> u1) @@ (e2 :> u2)
=============================================================================
