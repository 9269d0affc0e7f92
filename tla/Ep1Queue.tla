------------------------------ MODULE Ep1Queue ------------------------------
(***************************************************************************)
(* TxQueue of usb.rs as it is written: a ring of QCap slots, a head and a  *)
(* tail counter that wrap at CtrMod (u8, so 256) and never at QCap, and the*)
(* busy flag of the single EP1 OUT transfer.  A command is one value: its  *)
(* bytes and its length travel together (buf[i] and len[i]).               *)
(*                                                                         *)
(* The ring implements Ep1Fifo (Refinement), which is what lets UsbSession *)
(* use a plain sequence for it.                                            *)
(***************************************************************************)
EXTENDS Integers, Sequences

CONSTANTS
    Msg,     \* the commands
    NoMsg,   \* no command on the transfer
    QCap,    \* slots of the ring: 8
    CtrMod   \* where head and tail wrap: 256

(* The ring is a power of two and so divides the range of the counters: a  *)
(* slot number does not jump when a counter wraps.                         *)
ASSUME RingAssumption ==
    /\ QCap \in Nat \ {0}
    /\ CtrMod \in Nat
    /\ CtrMod > QCap
    /\ CtrMod % QCap = 0
    /\ NoMsg \notin Msg

VARIABLES
    buf,    \* q.buf and q.len, NoMsg in a slot never written
    head,   \* q.head
    tail,   \* q.tail
    busy,   \* q.busy
    xfer    \* the command in EP1_OUT's data buffer

vars == <<buf, head, tail, busy, xfer>>

Slots == 0 .. QCap - 1
Counter == 0 .. CtrMod - 1

(* q.head.wrapping_sub(q.tail) *)
Depth == (head - tail) % CtrMod

(* Mutant of Inc: the counter does not wrap.                               *)
IncUnwrapped(c) == c + 1

Slot(c) == c % QCap
Inc(c) == (c + 1) % CtrMod

Init ==
    /\ buf = [s \in Slots |-> NoMsg]
    /\ head = 0
    /\ tail = 0
    /\ busy = FALSE
    /\ xfer = NoMsg

(* Mutant of Ep1Pump: it does not look at the busy flag.                   *)
Ep1PumpEager(b, h, isBusy, ok) ==
    \/ /\ h = tail
       /\ busy' = isBusy
       /\ UNCHANGED <<tail, xfer>>
    \/ /\ h # tail
       /\ xfer' = b[Slot(tail)]
       /\ tail' = Inc(tail)
       /\ busy' = ok

(* ep1_pump, called with the transfer idle or not and the ring (b, h) the  *)
(* caller has just written.                                                *)
Ep1Pump(b, h, isBusy, ok) ==
    \/ /\ isBusy \/ h = tail
       /\ busy' = isBusy
       /\ UNCHANGED <<tail, xfer>>
    \/ /\ ~isBusy /\ h # tail
       /\ xfer' = b[Slot(tail)]
       /\ tail' = Inc(tail)
       /\ busy' = ok

(* Mutant of Ep1Send: the full ring is noticed one command too late.       *)
Ep1SendLate(m, ok) ==
    \/ /\ Depth > QCap
       /\ UNCHANGED vars
    \/ /\ Depth <= QCap
       /\ buf' = [buf EXCEPT ![Slot(head)] = m]
       /\ head' = Inc(head)
       /\ Ep1Pump(buf', head', busy, ok)

Ep1Send(m, ok) ==
    \/ /\ Depth >= QCap              \* "EP1 queue full, dropping cmd"
       /\ UNCHANGED vars
    \/ /\ Depth < QCap
       /\ buf' = [buf EXCEPT ![Slot(head)] = m]
       /\ head' = Inc(head)
       /\ Ep1Pump(buf', head', busy, ok)

Ep1OutCb(ok) ==
    /\ busy                          \* only a submitted transfer calls back
    /\ UNCHANGED <<buf, head>>
    /\ Ep1Pump(buf, head, FALSE, ok)

Next ==
    \/ \E m \in Msg, ok \in BOOLEAN : Ep1Send(m, ok)
    \/ \E ok \in BOOLEAN : Ep1OutCb(ok)

Spec == Init /\ [][Next]_vars

-----------------------------------------------------------------------------
(* Every variable keeps its type; the ring never holds more than its slots.*)
TypeOK ==
    /\ buf \in [Slots -> Msg \cup {NoMsg}]
    /\ head \in Counter
    /\ tail \in Counter
    /\ busy \in BOOLEAN
    /\ xfer \in Msg \cup {NoMsg}

(* The ring never holds more commands than it has slots: head never laps   *)
(* tail, also once the counters have wrapped (ep1_send, usb.rs:102).       *)
NoOverrun == Depth <= QCap

(* The ring as the FIFO it stands for.                                     *)
Pending == [i \in 1 .. Depth |-> buf[Slot(tail + i - 1)]]
View == [pend |-> Pending, fly |-> IF busy THEN xfer ELSE NoMsg]

Fifo == INSTANCE Ep1Fifo WITH fifo <- View

(* The ring with its wrapping counters behaves as the FIFO its callers     *)
(* rely on: no command is overwritten before it was submitted, none is     *)
(* submitted twice, none overtakes another (TxQueue, usb.rs:40).           *)
Refinement == Fifo!Spec

=============================================================================
