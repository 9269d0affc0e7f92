------------------------------- MODULE Ep1Ops -------------------------------
(***************************************************************************)
(* The command channel to the controller (EP 0x01) as a value: a queue is a*)
(* record of the commands still pending, oldest first, and the command the *)
(* one OUT transfer carries, NoMsg while the transfer is idle.             *)
(*                                                                         *)
(* usb.rs keeps the pending commands in a ring of eight slots (TxQueue).   *)
(* Ep1Queue models that ring and implements Ep1Fifo, whose steps are the   *)
(* operators below; UsbSession composes them into whole callbacks.         *)
(***************************************************************************)
EXTENDS Naturals, Sequences

CONSTANTS
    QCap,   \* slots of the ring (8 in usb.rs)
    NoMsg   \* no command on the transfer

ASSUME QCapAssumption == QCap \in Nat \ {0}

QueueOf(M) == [pend : Seq(M), fly : M \cup {NoMsg}]

EmptyQueue == [pend |-> <<>>, fly |-> NoMsg]

(* Mutant of Pump: a command whose submit fails stays in the ring.         *)
PumpKeeps(q, ok) ==
    IF q.fly # NoMsg \/ q.pend = <<>> \/ ~ok
    THEN q
    ELSE [pend |-> Tail(q.pend), fly |-> Head(q.pend)]

(* ep1_pump: nothing while the transfer is busy or no command is pending.  *)
(* Otherwise the oldest command leaves the ring BEFORE the submit, so a    *)
(* submit that fails (~ok) loses it and leaves the transfer idle.          *)
Pump(q, ok) ==
    IF q.fly # NoMsg \/ q.pend = <<>>
    THEN q
    ELSE [pend |-> Tail(q.pend), fly |-> IF ok THEN Head(q.pend) ELSE NoMsg]

(* ep1_send: a full ring drops the command, otherwise append and pump.     *)
Send(q, m, ok) ==
    IF Len(q.pend) >= QCap
    THEN q
    ELSE Pump([q EXCEPT !.pend = Append(@, m)], ok)

(* Mutant of Done: the callback does not pump.                             *)
DoneQuietly(q, ok) == [q EXCEPT !.fly = NoMsg]

(* ep1_out_cb: the transfer is idle again, whatever its status; pump.      *)
Done(q, ok) == Pump([q EXCEPT !.fly = NoMsg], ok)

=============================================================================
