------------------------------ MODULE MCBridge ------------------------------
(* Pressures: at rest, below the dead zone, within the band of rest, and   *)
(* two that light the pad differently.                                     *)
EXTENDS Bridge
=============================================================================
