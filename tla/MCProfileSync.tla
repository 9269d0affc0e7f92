---------------------------- MODULE MCProfileSync ----------------------------
(* ProfileSync with two slots and a channel of two events: the channel is   *)
(* full of other events when the page publishes, and the unit switches      *)
(* profiles between any two steps of a request.                             *)
EXTENDS ProfileSync
=============================================================================
