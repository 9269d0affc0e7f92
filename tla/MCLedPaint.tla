----------------------------- MODULE MCLedPaint ------------------------------
(* LedPaint with two banks of one pad and one softkey.  A bank switch sends *)
(* four brightnesses into a channel of five: one switch fits, as 32 do in   *)
(* 64, and a second one before the client has drained does not.             *)
EXTENDS LedPaint
=============================================================================
