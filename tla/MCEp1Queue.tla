----------------------------- MODULE MCEp1Queue -----------------------------
(* Ep1Queue with a ring of four slots whose counters wrap at eight: both   *)
(* wraps, the full ring and the failed submit are reached in every         *)
(* alignment of head and tail.                                             *)
EXTENDS Ep1Queue
=============================================================================
