------------------------------ MODULE Ep1Fifo -------------------------------
(***************************************************************************)
(* What the command queue of usb.rs promises its callers: commands reach   *)
(* the transfer in the order they were sent, each at most once and         *)
(* unchanged; one is lost only when the queue is full as it is sent or when*)
(* its own submit fails.                                                   *)
(***************************************************************************)
EXTENDS Ep1Ops

CONSTANT Msg

VARIABLE fifo

Init == fifo = EmptyQueue

SendStep == \E m \in Msg, ok \in BOOLEAN : fifo' = Send(fifo, m, ok)

DoneStep == /\ fifo.fly # NoMsg
            /\ \E ok \in BOOLEAN : fifo' = Done(fifo, ok)

Next == SendStep \/ DoneStep

Spec == Init /\ [][Next]_fifo

=============================================================================
