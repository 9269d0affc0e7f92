-------------------------- MODULE Ep1Queue_proofs ---------------------------
(***************************************************************************)
(* The ring of EP1 commands for every number of slots and every range of   *)
(* the counters that is a multiple of it: it keeps its types, head never   *)
(* laps tail, and it is a FIFO.                                            *)
(***************************************************************************)
EXTENDS Ep1Queue, SequenceTheorems, TLAPS

-----------------------------------------------------------------------------
(* Remainders                                                              *)

(* A remainder lies below its modulus.                                     *)
LEMMA ModRange ==
    ASSUME NEW a \in Int, NEW n \in Nat \ {0}
    PROVE  a % n \in 0 .. n - 1
  BY SMT

(* Within one turn of the counter the remainder needs one correction.      *)
LEMMA ModTurn ==
    ASSUME NEW n \in Nat \ {0}, NEW a \in -n .. 2 * n - 1
    PROVE  a % n = IF a < 0 THEN a + n ELSE IF a < n THEN a ELSE a - n
  BY SMT

(* Quotient and remainder are unique.                                      *)
LEMMA ModUnique ==
    ASSUME NEW n \in Nat \ {0}, NEW k \in Int, NEW r \in 0 .. n - 1, NEW a \in Int,
           a = k * n + r
    PROVE  a % n = r
<1> DEFINE e == a \div n
<1>1. e \in Int /\ a = e * n + (a % n) /\ a % n \in 0 .. n - 1
  BY SMT
<1>2. (k - e) * n = (a % n) - r
  BY <1>1, SMT
<1> HIDE DEF e
<1>3. CASE k - e >= 1
  BY <1>1, <1>2, <1>3, SMT
<1>4. CASE k - e <= -1
  BY <1>1, <1>2, <1>4, SMT
<1>5. CASE k = e
  BY <1>1, <1>2, <1>5, SMT
<1> QED
  BY <1>1, <1>3, <1>4, <1>5, SMT

(* A whole number of turns does not change a remainder.                    *)
LEMMA ModShift ==
    ASSUME NEW n \in Nat \ {0}, NEW m \in Nat, m % n = 0, NEW a \in Int
    PROVE  (a - m) % n = a % n
<1> DEFINE k == m \div n
           d == a \div n
<1>1. k \in Int /\ d \in Int /\ m = k * n
  BY SMT
<1>2. a = d * n + (a % n) /\ a % n \in 0 .. n - 1
  BY SMT
<1>3. a - m = (d - k) * n + (a % n)
  BY <1>1, <1>2, SMT
<1> HIDE DEF d, k
<1>4. d - k \in Int /\ a - m \in Int
  BY <1>1, SMT
<1> QED
  BY <1>2, <1>3, <1>4, ModUnique

(* Positions less than a ring apart lie in different slots.                *)
LEMMA ModDistinct ==
    ASSUME NEW n \in Nat \ {0}, NEW a \in Int, NEW b \in Int, a < b, b - a < n
    PROVE  a % n # b % n
<1> DEFINE c == a \div n
           d == b \div n
<1>1. c \in Int /\ d \in Int
  BY SMT
<1>2. a = c * n + (a % n) /\ b = d * n + (b % n)
  BY SMT
<1>3. SUFFICES ASSUME a % n = b % n PROVE FALSE
  OBVIOUS
<1>4. b - a = (d - c) * n
  BY <1>1, <1>2, <1>3, SMT
<1>5. CASE d - c <= 0
  BY <1>1, <1>4, <1>5, SMT
<1>6. CASE d - c >= 1
  BY <1>1, <1>4, <1>6, SMT
<1> QED
  BY <1>1, <1>5, <1>6, SMT

-----------------------------------------------------------------------------
(* The ring                                                                *)

(* What the ring holds for given counters: Depth and Pending of the module.*)
DepthOf(h, t) == (h - t) % CtrMod
PendOf(b, h, t) == [i \in 1 .. DepthOf(h, t) |-> b[Slot(t + i - 1)]]

(* The ring's own remainders: ModTurn, ModShift and ModDistinct for its    *)
(* constants.                                                              *)
LEMMA RingTurn ==
    ASSUME NEW a \in -CtrMod .. 2 * CtrMod - 1
    PROVE  a % CtrMod = IF a < 0 THEN a + CtrMod ELSE IF a < CtrMod THEN a ELSE a - CtrMod
<1>1. CtrMod \in Nat \ {0}
  BY RingAssumption
<1> QED
  BY <1>1, ModTurn, Zenon

LEMMA SlotRange ==
    ASSUME NEW a \in Int
    PROVE  Slot(a) \in Slots
  BY RingAssumption, ModRange, Zenon DEF Slot, Slots

LEMMA SlotShift ==
    ASSUME NEW a \in Int, NEW b \in Int, b = a - CtrMod
    PROVE  Slot(b) = Slot(a)
  BY RingAssumption, ModShift, Zenon DEF Slot

LEMMA SlotDistinct ==
    ASSUME NEW a \in Int, NEW b \in Int, a < b, b - a < QCap
    PROVE  Slot(a) # Slot(b)
  BY RingAssumption, ModDistinct DEF Slot

LEMMA IncCounter ==
    ASSUME NEW c \in Counter
    PROVE  Inc(c) = IF c + 1 < CtrMod THEN c + 1 ELSE 0
<1> DEFINE a == c + 1
<1>1. a \in -CtrMod .. 2 * CtrMod - 1 /\ a <= CtrMod /\ ~(a < 0)
  BY RingAssumption DEF Counter
<1>2. Inc(c) = a % CtrMod
  BY DEF Inc
<1> HIDE DEF a
<1>3. a % CtrMod = IF a < 0 THEN a + CtrMod ELSE IF a < CtrMod THEN a ELSE a - CtrMod
  BY <1>1, RingTurn, Zenon
<1>4. a % CtrMod = IF a < CtrMod THEN a ELSE 0
  BY <1>1, <1>3, RingAssumption
<1> QED
  BY <1>2, <1>4 DEF a

(* The counters move and the slots follow, also across a wrap.             *)
LEMMA CounterStep ==
    ASSUME NEW c \in Counter
    PROVE  Inc(c) \in Counter /\ \A k \in Int : Slot(Inc(c) + k) = Slot(c + 1 + k)
<1>1. Inc(c) \in Counter
  BY IncCounter, RingAssumption DEF Counter
<1>2. ASSUME NEW k \in Int PROVE Slot(Inc(c) + k) = Slot(c + 1 + k)
  <2>1. CASE c + 1 < CtrMod
    BY <2>1, IncCounter
  <2>2. CASE ~(c + 1 < CtrMod)
    <3> DEFINE x == c + 1 + k
               y == Inc(c) + k
    <3>1. y = x - CtrMod /\ x \in Int /\ y \in Int
      BY <2>2, IncCounter, RingAssumption DEF Counter
    <3> HIDE DEF x, y
    <3>2. Slot(y) = Slot(x)
      BY <3>1, SlotShift
    <3> QED
      BY <3>2 DEF x, y
  <2> QED
    BY <2>1, <2>2
<1> QED
  BY <1>1, <1>2

LEMMA DepthValue ==
    ASSUME NEW h \in Counter, NEW t \in Counter
    PROVE  DepthOf(h, t) = IF h < t THEN h - t + CtrMod ELSE h - t
<1> DEFINE a == h - t
<1>1. a \in -CtrMod .. 2 * CtrMod - 1 /\ a < CtrMod /\ (a < 0 <=> h < t)
  BY RingAssumption DEF Counter
<1>2. DepthOf(h, t) = a % CtrMod
  BY DEF DepthOf
<1> HIDE DEF a
<1>3. a % CtrMod = IF a < 0 THEN a + CtrMod ELSE IF a < CtrMod THEN a ELSE a - CtrMod
  BY <1>1, RingTurn, Zenon
<1> QED
  BY <1>1, <1>2, <1>3 DEF a

(* Advancing head adds one to the depth, advancing tail takes one, and head*)
(* stands depth slots after tail.                                          *)
LEMMA DepthStep ==
    ASSUME NEW h \in Counter, NEW t \in Counter
    PROVE  /\ DepthOf(h, t) \in 0 .. CtrMod - 1
           /\ DepthOf(h, t) = 0 <=> h = t
           /\ DepthOf(h, t) < QCap => DepthOf(Inc(h), t) = DepthOf(h, t) + 1
           /\ h # t => DepthOf(h, Inc(t)) = DepthOf(h, t) - 1
           /\ Slot(t + DepthOf(h, t)) = Slot(h)
<1>1. Inc(h) \in Counter /\ Inc(t) \in Counter
  BY CounterStep
<1>2. /\ DepthOf(h, t) = IF h < t THEN h - t + CtrMod ELSE h - t
      /\ DepthOf(Inc(h), t) = IF Inc(h) < t THEN Inc(h) - t + CtrMod ELSE Inc(h) - t
      /\ DepthOf(h, Inc(t)) = IF h < Inc(t) THEN h - Inc(t) + CtrMod ELSE h - Inc(t)
  BY <1>1, DepthValue, Zenon
<1>3. /\ Inc(h) = IF h + 1 < CtrMod THEN h + 1 ELSE 0
      /\ Inc(t) = IF t + 1 < CtrMod THEN t + 1 ELSE 0
  BY IncCounter
<1>4. Slot(t + DepthOf(h, t)) = Slot(h)
  <2>1. CASE h < t
    <3> DEFINE x == t + DepthOf(h, t)
    <3>1. h = x - CtrMod /\ x \in Int /\ h \in Int
      BY <1>2, <2>1, RingAssumption DEF Counter
    <3> HIDE DEF x
    <3>2. Slot(h) = Slot(x)
      BY <3>1, SlotShift
    <3> QED
      BY <3>2 DEF x
  <2>2. CASE ~(h < t)
    <3>1. t + DepthOf(h, t) = h
      BY <1>2, <2>2 DEF Counter
    <3> QED
      BY <3>1
  <2> QED
    BY <2>1, <2>2
<1> HIDE DEF Inc, DepthOf, Slot
<1> QED
  BY <1>2, <1>3, <1>4, RingAssumption DEF Counter

(* Writing the slot of head and advancing it appends: the slot is none of  *)
(* the pending ones.                                                       *)
LEMMA RingAppend ==
    ASSUME NEW b \in [Slots -> Msg \cup {NoMsg}], NEW m \in Msg,
           NEW h \in Counter, NEW t \in Counter, DepthOf(h, t) < QCap
    PROVE  PendOf([b EXCEPT ![Slot(h)] = m], Inc(h), t) = Append(PendOf(b, h, t), m)
<1> DEFINE d == DepthOf(h, t)
           c == [b EXCEPT ![Slot(h)] = m]
<1>1. d \in Nat /\ d < QCap /\ DepthOf(Inc(h), t) = d + 1 /\ Slot(t + d) = Slot(h)
  BY DepthStep, RingAssumption
<1> HIDE DEF d
<1>2. Slot(h) \in Slots /\ t \in Int /\ t + d \in Int
  BY <1>1, SlotRange DEF Counter
<1>3. c[Slot(t + d)] = m
  BY <1>1, <1>2
<1>4. ASSUME NEW i \in 1 .. d PROVE c[Slot(t + i - 1)] = b[Slot(t + i - 1)]
  <2> DEFINE x == t + i - 1
             y == t + d
  <2>1. x \in Int /\ y \in Int /\ x < y /\ y - x < QCap
    BY <1>1, <1>2, RingAssumption
  <2> HIDE DEF x, y
  <2>2. Slot(x) # Slot(y) /\ Slot(x) \in Slots
    BY <2>1, SlotDistinct, SlotRange
  <2>3. Slot(x) # Slot(h)
    BY <1>1, <2>2 DEF y
  <2>4. c[Slot(x)] = b[Slot(x)]
    BY <1>2, <2>2, <2>3
  <2> QED
    BY <2>4 DEF x
<1>5. PendOf(c, Inc(h), t) = [i \in 1 .. d + 1 |-> c[Slot(t + i - 1)]]
  BY <1>1 DEF PendOf
<1>6. ASSUME NEW i \in 1 .. d + 1
      PROVE  c[Slot(t + i - 1)] = IF i = d + 1 THEN m ELSE b[Slot(t + i - 1)]
  <2>1. CASE i = d + 1
    <3>1. t + i - 1 = t + d
      BY <1>1, <1>2, <2>1
    <3> QED
      BY <1>3, <2>1, <3>1
  <2>2. CASE i # d + 1
    <3>1. i \in 1 .. d
      BY <1>1, <2>2
    <3> QED
      BY <1>4, <2>2, <3>1
  <2> QED
    BY <2>1, <2>2
<1>7. PendOf(b, h, t) = [i \in 1 .. d |-> b[Slot(t + i - 1)]]
  BY DEF PendOf, d
<1> DEFINE p == [i \in 1 .. d |-> b[Slot(t + i - 1)]]
           r == [i \in 1 .. d + 1 |-> c[Slot(t + i - 1)]]
<1>8. r = [i \in 1 .. d + 1 |-> IF i = d + 1 THEN m ELSE p[i]]
  <2>1. ASSUME NEW i \in 1 .. d + 1
        PROVE  c[Slot(t + i - 1)] = IF i = d + 1 THEN m ELSE p[i]
    <3>1. i # d + 1 => i \in 1 .. d
      BY <1>1
    <3> QED
      BY <1>6, <3>1
  <2> HIDE DEF c, p
  <2> QED
    BY <2>1
<1>9. p \in Seq(Msg \cup {NoMsg}) /\ Len(p) = d
  <2>1. ASSUME NEW i \in 1 .. d PROVE b[Slot(t + i - 1)] \in Msg \cup {NoMsg}
    <3> DEFINE x == t + i - 1
    <3>1. x \in Int
      BY <1>1, <1>2
    <3> HIDE DEF x
    <3>2. Slot(x) \in Slots
      BY <3>1, SlotRange
    <3> QED
      BY <3>2 DEF x
  <2>2. p \in [1 .. d -> Msg \cup {NoMsg}]
    BY <2>1
  <2> HIDE DEF p
  <2> QED
    BY <1>1, <2>2
<1> HIDE DEF p, r
<1>10. r = Append(p, m)
  <2> DEFINE S == Msg \cup {NoMsg}
  <2>1. /\ Append(p, m) \in Seq(S) /\ Len(Append(p, m)) = d + 1
        /\ \A i \in 1 .. d : Append(p, m)[i] = p[i]
        /\ Append(p, m)[d + 1] = m
    BY <1>9, AppendProperties
  <2>2. \A i \in 1 .. d : p[i] \in S
    BY <1>9, ElementOfSeq
  <2>3. r \in [1 .. d + 1 -> S]
    BY <1>1, <1>8, <2>2
  <2>4. r \in Seq(S) /\ Len(r) = d + 1
    BY <1>1, <2>3
  <2>5. \A i \in 1 .. d + 1 : r[i] = Append(p, m)[i]
    BY <1>1, <1>8, <2>1
  <2> QED
    BY <2>1, <2>4, <2>5, SeqEqual
<1> QED
  BY <1>5, <1>7, <1>10 DEF p, r

(* Advancing tail removes the oldest command.                              *)
LEMMA RingTail ==
    ASSUME NEW b, NEW h \in Counter, NEW t \in Counter, h # t
    PROVE  /\ PendOf(b, h, t) # <<>>
           /\ Head(PendOf(b, h, t)) = b[Slot(t)]
           /\ PendOf(b, h, Inc(t)) = Tail(PendOf(b, h, t))
<1> DEFINE d == DepthOf(h, t)
<1>1. d \in Nat /\ d >= 1 /\ DepthOf(h, Inc(t)) = d - 1
  BY DepthStep, RingAssumption DEF Counter
<1>2. \A i \in 1 .. d - 1 : Slot(Inc(t) + i - 1) = Slot(t + (i + 1) - 1)
  <2> TAKE i \in 1 .. d - 1
  <2>1. i - 1 \in Int /\ Inc(t) + i - 1 = Inc(t) + (i - 1)
        /\ t + 1 + (i - 1) = t + (i + 1) - 1
    BY <1>1, CounterStep DEF Counter
  <2> QED
    BY <2>1, CounterStep
<1>3. PendOf(b, h, t) = [i \in 1 .. d |-> b[Slot(t + i - 1)]]
  BY DEF PendOf
<1>4. PendOf(b, h, Inc(t)) = [i \in 1 .. d - 1 |-> b[Slot(Inc(t) + i - 1)]]
  BY <1>1 DEF PendOf
<1>5. t + 1 - 1 = t
  BY DEF Counter
<1> HIDE DEF d
<1>6. /\ [i \in 1 .. d |-> b[Slot(t + i - 1)]] # <<>>
      /\ Head([i \in 1 .. d |-> b[Slot(t + i - 1)]]) = b[Slot(t + 1 - 1)]
      /\ Tail([i \in 1 .. d |-> b[Slot(t + i - 1)]])
            = [i \in 1 .. d - 1 |-> b[Slot(t + (i + 1) - 1)]]
  BY <1>1
<1> QED
  BY <1>2, <1>3, <1>4, <1>5, <1>6

-----------------------------------------------------------------------------
(* The types of the ring and the counters, and that it holds commands where*)
(* PendOf reads it.                                                        *)
RingOK(b, h, t) ==
    /\ b \in [Slots -> Msg \cup {NoMsg}]
    /\ h \in Counter /\ t \in Counter
    /\ DepthOf(h, t) <= QCap
    /\ \A i \in 1 .. DepthOf(h, t) : b[Slot(t + i - 1)] \in Msg

(* The inductive invariant.                                                *)
IInv ==
    /\ RingOK(buf, head, tail)
    /\ busy \in BOOLEAN /\ xfer \in Msg \cup {NoMsg}
    /\ busy => xfer \in Msg

(* ep1_send's write keeps the ring in order.                               *)
LEMMA AppendOK ==
    ASSUME NEW b, NEW h, NEW t, NEW m \in Msg, RingOK(b, h, t), DepthOf(h, t) < QCap
    PROVE  RingOK([b EXCEPT ![Slot(h)] = m], Inc(h), t)
<1> DEFINE c == [b EXCEPT ![Slot(h)] = m]
<1>1. /\ b \in [Slots -> Msg \cup {NoMsg}] /\ h \in Counter /\ t \in Counter
      /\ \A i \in 1 .. DepthOf(h, t) : b[Slot(t + i - 1)] \in Msg
  BY DEF RingOK
<1>2. Inc(h) \in Counter /\ DepthOf(h, t) \in Nat /\ DepthOf(Inc(h), t) = DepthOf(h, t) + 1
  BY <1>1, CounterStep, DepthStep
<1>3. c \in [Slots -> Msg \cup {NoMsg}]
  BY <1>1
<1>4. PendOf(c, Inc(h), t) = Append(PendOf(b, h, t), m)
  BY <1>1, RingAppend
<1>5. PendOf(b, h, t) \in [1 .. DepthOf(h, t) -> Msg]
  BY <1>1 DEF PendOf
<1>6. Append(PendOf(b, h, t), m) \in Seq(Msg)
      /\ Len(Append(PendOf(b, h, t), m)) = DepthOf(h, t) + 1
  <2>1. PendOf(b, h, t) \in Seq(Msg) /\ Len(PendOf(b, h, t)) = DepthOf(h, t)
    BY <1>2, <1>5
  <2> QED
    BY <2>1, AppendProperties
<1>7. ASSUME NEW i \in 1 .. DepthOf(Inc(h), t) PROVE c[Slot(t + i - 1)] \in Msg
  <2>1. PendOf(c, Inc(h), t)[i] = c[Slot(t + i - 1)]
    BY <1>7 DEF PendOf
  <2> HIDE DEF c
  <2>2. PendOf(c, Inc(h), t)[i] \in Msg
    BY <1>2, <1>4, <1>6, ElementOfSeq
  <2> QED
    BY <2>1, <2>2
<1>8. DepthOf(h, t) + 1 <= QCap
  BY <1>2, RingAssumption
<1> QED
  BY <1>1, <1>2, <1>3, <1>7, <1>8 DEF RingOK

(* ep1_pump's read takes a command and keeps the ring in order.            *)
LEMMA TailOK ==
    ASSUME NEW b, NEW h, NEW t, RingOK(b, h, t), h # t
    PROVE  RingOK(b, h, Inc(t)) /\ b[Slot(t)] \in Msg
<1>1. /\ b \in [Slots -> Msg \cup {NoMsg}] /\ h \in Counter /\ t \in Counter
      /\ DepthOf(h, t) <= QCap
      /\ \A i \in 1 .. DepthOf(h, t) : b[Slot(t + i - 1)] \in Msg
  BY DEF RingOK
<1>2. Inc(t) \in Counter /\ DepthOf(h, t) \in Nat /\ DepthOf(h, t) >= 1
      /\ DepthOf(h, Inc(t)) = DepthOf(h, t) - 1
  BY <1>1, CounterStep, DepthStep
<1>3. b[Slot(t)] \in Msg
  <2>1. 1 \in 1 .. DepthOf(h, t) /\ t + 1 - 1 = t
    BY <1>1, <1>2 DEF Counter
  <2> QED
    BY <1>1, <2>1
<1>4. ASSUME NEW i \in 1 .. DepthOf(h, Inc(t)) PROVE b[Slot(Inc(t) + i - 1)] \in Msg
  <2>1. i + 1 \in 1 .. DepthOf(h, t) /\ i - 1 \in Int
    BY <1>2
  <2>2. /\ Inc(t) + i - 1 = Inc(t) + (i - 1)
        /\ t + 1 + (i - 1) = t + (i + 1) - 1
    BY <1>1, <1>2 DEF Counter
  <2>3. Slot(Inc(t) + (i - 1)) = Slot(t + 1 + (i - 1))
    BY <1>1, <2>1, CounterStep
  <2> QED
    BY <1>1, <2>1, <2>2, <2>3
<1>5. DepthOf(h, Inc(t)) <= QCap
  BY <1>1, <1>2, RingAssumption
<1> QED
  BY <1>1, <1>2, <1>3, <1>4, <1>5 DEF RingOK

(* ep1_pump on any ring in order.                                          *)
LEMMA PumpOK ==
    ASSUME IInv, NEW b, NEW h, RingOK(b, h, tail), NEW isBusy \in BOOLEAN, NEW ok \in BOOLEAN,
           isBusy => xfer \in Msg,
           buf' = b, head' = h, Ep1Pump(b, h, isBusy, ok)
    PROVE  IInv'
<1>1. busy \in BOOLEAN /\ xfer \in Msg \cup {NoMsg}
  BY DEF IInv
<1>2. CASE (isBusy \/ h = tail) /\ busy' = isBusy /\ UNCHANGED <<tail, xfer>>
  BY <1>1, <1>2 DEF IInv
<1>3. CASE /\ ~isBusy /\ h # tail
           /\ xfer' = b[Slot(tail)] /\ tail' = Inc(tail) /\ busy' = ok
  BY <1>3, TailOK DEF IInv
<1> QED
  BY <1>2, <1>3 DEF Ep1Pump

(* The ring starts in order and every step keeps it so.                    *)
LEMMA InitOK == Init => IInv
<1> SUFFICES ASSUME Init PROVE IInv
  OBVIOUS
<1>1. head \in Counter /\ tail \in Counter /\ head = tail
  BY RingAssumption DEF Init, Counter
<1>2. DepthOf(head, tail) = 0
  BY <1>1, DepthStep
<1>3. RingOK(buf, head, tail)
  BY <1>1, <1>2, RingAssumption DEF Init, RingOK
<1> QED
  BY <1>3 DEF Init, IInv

LEMMA StepOK == IInv /\ [Next]_vars => IInv'
<1> SUFFICES ASSUME IInv, [Next]_vars PROVE IInv'
  OBVIOUS
<1>1. /\ RingOK(buf, head, tail) /\ busy \in BOOLEAN /\ xfer \in Msg \cup {NoMsg}
      /\ busy => xfer \in Msg
  BY DEF IInv
<1>2. ASSUME NEW m \in Msg, NEW ok \in BOOLEAN, Ep1Send(m, ok) PROVE IInv'
  <2>1. CASE Depth >= QCap /\ UNCHANGED vars
    BY <1>1, <2>1 DEF IInv, vars
  <2>2. CASE Depth < QCap /\ buf' = [buf EXCEPT ![Slot(head)] = m] /\ head' = Inc(head)
             /\ Ep1Pump(buf', head', busy, ok)
    <3>1. RingOK(buf', head', tail)
      BY <1>1, <2>2, AppendOK DEF Depth, DepthOf
    <3> QED
      BY <1>1, <2>2, <3>1, PumpOK
  <2> QED
    BY <1>2, <2>1, <2>2 DEF Ep1Send
<1>3. ASSUME NEW ok \in BOOLEAN, Ep1OutCb(ok) PROVE IInv'
  BY <1>1, <1>3, PumpOK DEF Ep1OutCb
<1>4. CASE UNCHANGED vars
  BY <1>1, <1>4 DEF IInv, vars
<1> QED
  BY <1>2, <1>3, <1>4 DEF Next

(* Every variable of the ring keeps its type (TxQueue, usb.rs:40).         *)
THEOREM TypeCorrect == Spec => []TypeOK
<1>1. IInv => TypeOK
  BY DEF IInv, RingOK, TypeOK
<1> QED
  BY <1>1, InitOK, StepOK, PTL DEF Spec

(* head never laps tail, so ep1_send overwrites no command that was not    *)
(* submitted (usb.rs:102), for any ring size that divides the counters.    *)
THEOREM RingNeverOverruns == Spec => []NoOverrun
<1>1. IInv => NoOverrun
  BY DEF IInv, RingOK, NoOverrun, Depth, DepthOf
<1> QED
  BY <1>1, InitOK, StepOK, PTL DEF Spec

-----------------------------------------------------------------------------
(* The ring is a FIFO                                                      *)

ViewOf(b, h, t, isBusy, x) == [pend |-> PendOf(b, h, t), fly |-> IF isBusy THEN x ELSE NoMsg]

LEMMA ViewIsViewOf == View = ViewOf(buf, head, tail, busy, xfer)
  BY DEF View, ViewOf, Pending, PendOf, Depth, DepthOf

(* No command is pending exactly when head meets tail.                     *)
LEMMA EmptyRing ==
    ASSUME NEW b, NEW h, NEW t, RingOK(b, h, t)
    PROVE  /\ PendOf(b, h, t) \in Seq(Msg)
           /\ Len(PendOf(b, h, t)) = DepthOf(h, t)
           /\ h = t <=> PendOf(b, h, t) = <<>>
<1>1. /\ h \in Counter /\ t \in Counter
      /\ \A i \in 1 .. DepthOf(h, t) : b[Slot(t + i - 1)] \in Msg
  BY DEF RingOK
<1>2. DepthOf(h, t) \in Nat /\ (DepthOf(h, t) = 0 <=> h = t)
  BY <1>1, DepthStep
<1>3. PendOf(b, h, t) \in [1 .. DepthOf(h, t) -> Msg]
  BY <1>1 DEF PendOf
<1>4. PendOf(b, h, t) \in Seq(Msg) /\ Len(PendOf(b, h, t)) = DepthOf(h, t)
  BY <1>2, <1>3
<1> QED
  BY <1>2, <1>4, EmptySeq

(* ep1_pump does to the ring what Pump does to the queue.                  *)
LEMMA PumpIsPump ==
    ASSUME NEW b, NEW h, RingOK(b, h, tail), NEW isBusy \in BOOLEAN, NEW ok \in BOOLEAN,
           isBusy => xfer # NoMsg,
           buf' = b, head' = h, Ep1Pump(b, h, isBusy, ok)
    PROVE  View' = Fifo!Pump(ViewOf(b, h, tail, isBusy, xfer), ok)
<1>1. View' = ViewOf(b, h, tail', busy', xfer')
  BY DEF View, ViewOf, Pending, PendOf, Depth, DepthOf
<1>2. CASE (isBusy \/ h = tail) /\ busy' = isBusy /\ UNCHANGED <<tail, xfer>>
  <2>1. PendOf(b, h, tail) = <<>> \/ isBusy
    BY <1>2, EmptyRing
  <2> QED
    BY <1>1, <1>2, <2>1 DEF Fifo!Pump, ViewOf
<1>3. CASE /\ ~isBusy /\ h # tail
           /\ xfer' = b[Slot(tail)] /\ tail' = Inc(tail) /\ busy' = ok
  <2>1. h \in Counter /\ tail \in Counter
    BY DEF RingOK
  <2>2. /\ PendOf(b, h, tail) # <<>>
        /\ Head(PendOf(b, h, tail)) = b[Slot(tail)]
        /\ PendOf(b, h, Inc(tail)) = Tail(PendOf(b, h, tail))
    BY <1>3, <2>1, RingTail
  <2> QED
    BY <1>1, <1>3, <2>2 DEF Fifo!Pump, ViewOf
<1> QED
  BY <1>2, <1>3 DEF Ep1Pump

(* A step of the ring is a step of the FIFO.                               *)
LEMMA StepRefines == IInv /\ [Next]_vars => [Fifo!Next]_View
<1> SUFFICES ASSUME IInv, [Next]_vars PROVE [Fifo!Next]_View
  OBVIOUS
<1>1. /\ RingOK(buf, head, tail) /\ busy \in BOOLEAN /\ xfer \in Msg \cup {NoMsg}
      /\ busy => xfer \in Msg
  BY DEF IInv
<1>2. NoMsg \notin Msg
  BY RingAssumption
<1>3. /\ Len(View.pend) = Depth /\ View.pend = PendOf(buf, head, tail)
      /\ View.fly = IF busy THEN xfer ELSE NoMsg
  <2>1. Depth = DepthOf(head, tail)
    BY DEF Depth, DepthOf
  <2>2. View.pend = PendOf(buf, head, tail) /\ View.fly = IF busy THEN xfer ELSE NoMsg
    BY ViewIsViewOf DEF ViewOf
  <2>3. Len(PendOf(buf, head, tail)) = DepthOf(head, tail)
    BY <1>1, EmptyRing
  <2> QED
    BY <2>1, <2>2, <2>3
<1>4. ASSUME NEW m \in Msg, NEW ok \in BOOLEAN, Ep1Send(m, ok)
      PROVE  View' = Fifo!Send(View, m, ok)
  <2>1. CASE Depth >= QCap /\ UNCHANGED vars
    <3>1. View' = View
      BY <2>1 DEF vars, View, Pending, Depth
    <3> QED
      BY <1>3, <2>1, <3>1 DEF Fifo!Send
  <2>2. CASE Depth < QCap /\ buf' = [buf EXCEPT ![Slot(head)] = m] /\ head' = Inc(head)
             /\ Ep1Pump(buf', head', busy, ok)
    <3>1. RingOK(buf', head', tail)
      BY <1>1, <2>2, AppendOK DEF Depth, DepthOf
    <3>2. View' = Fifo!Pump(ViewOf(buf', head', tail, busy, xfer), ok)
      BY <1>1, <1>2, <2>2, <3>1, PumpIsPump
    <3>3. PendOf(buf', head', tail) = Append(PendOf(buf, head, tail), m)
      BY <1>1, <2>2, RingAppend DEF RingOK, Depth, DepthOf
    <3>4. ViewOf(buf', head', tail, busy, xfer) = [View EXCEPT !.pend = Append(@, m)]
      BY <3>3, ViewIsViewOf DEF ViewOf
    <3>5. ~(Len(View.pend) >= QCap)
      BY <1>1, <1>3, <2>2, DepthStep, RingAssumption DEF RingOK, Depth, DepthOf
    <3> QED
      BY <3>2, <3>4, <3>5 DEF Fifo!Send
  <2> QED
    BY <1>4, <2>1, <2>2 DEF Ep1Send
<1>5. ASSUME NEW ok \in BOOLEAN, Ep1OutCb(ok)
      PROVE  View.fly # NoMsg /\ View' = Fifo!Done(View, ok)
  <2>1. View' = Fifo!Pump(ViewOf(buf, head, tail, FALSE, xfer), ok)
    BY <1>1, <1>5, PumpIsPump DEF Ep1OutCb
  <2>2. ViewOf(buf, head, tail, FALSE, xfer) = [View EXCEPT !.fly = NoMsg]
    BY ViewIsViewOf DEF ViewOf
  <2>3. busy
    BY <1>5 DEF Ep1OutCb
  <2> QED
    BY <1>1, <1>2, <1>3, <2>1, <2>2, <2>3 DEF Fifo!Done
<1>6. CASE UNCHANGED vars
  BY <1>6 DEF vars, View, Pending, Depth
<1> QED
  BY <1>4, <1>5, <1>6 DEF Next, Fifo!Next, Fifo!SendStep, Fifo!DoneStep

(* The ring of usb.rs, with its u8 counters that wrap and its single       *)
(* transfer, implements the FIFO its callers rely on, for every ring size  *)
(* that divides the range of the counters.                                 *)
THEOREM RingIsFifo == Spec => Refinement
<1>1. Init => Fifo!Init
  <2> SUFFICES ASSUME Init PROVE View = Fifo!EmptyQueue
    BY DEF Fifo!Init
  <2>1. RingOK(buf, head, tail) /\ head = tail /\ busy = FALSE
    BY InitOK DEF IInv, Init
  <2>2. PendOf(buf, head, tail) = <<>>
    BY <2>1, EmptyRing
  <2> QED
    BY <2>1, <2>2, ViewIsViewOf DEF ViewOf, Fifo!EmptyQueue
<1> QED
  BY <1>1, InitOK, StepOK, StepRefines, PTL DEF Spec, Refinement, Fifo!Spec

=============================================================================
