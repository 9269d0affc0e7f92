----------------------------- MODULE MCDisplay ------------------------------
(* Two init commands, and a picture that is two windows, a write command   *)
(* and two continuations in packets of six bytes.                          *)
EXTENDS Display
=============================================================================
