------------------------- MODULE UsbSession_proofs --------------------------
(***************************************************************************)
(* UsbSession for every set of LEDs, every capacity of ring and channel,   *)
(* any number of replugs and any number of failed transfers.               *)
(***************************************************************************)
EXTENDS UsbSession, SequenceTheorems, TLAPS

-----------------------------------------------------------------------------
(* The command queue                                                       *)

(* Pump, Send and Done keep the type of a queue, and what they do to the   *)
(* number of pending commands.                                             *)
LEMMA PumpFacts ==
    ASSUME NEW M, NEW fq \in QueueOf(M), NEW ok \in BOOLEAN
    PROVE  /\ Pump(fq, ok) \in QueueOf(M)
           /\ Len(fq.pend) \in Nat /\ Len(Pump(fq, ok).pend) \in Nat
           /\ fq.fly # NoMsg => Pump(fq, ok) = fq
           /\ fq.fly = NoMsg /\ Len(fq.pend) > 0 =>
                Len(Pump(fq, ok).pend) = Len(fq.pend) - 1
           /\ fq.fly = NoMsg /\ Len(fq.pend) = 0 => Pump(fq, ok) = fq
<1>1. fq.pend \in Seq(M) /\ fq.fly \in M \cup {NoMsg} /\ Len(fq.pend) \in Nat
  BY DEF QueueOf
<1>2. CASE fq.fly # NoMsg \/ fq.pend = <<>>
  BY <1>1, <1>2, EmptySeq DEF Pump
<1>3. CASE fq.fly = NoMsg /\ fq.pend # <<>>
  <2>1. /\ Tail(fq.pend) \in Seq(M) /\ Head(fq.pend) \in M
        /\ Len(Tail(fq.pend)) = Len(fq.pend) - 1 /\ Len(fq.pend) > 0
    BY <1>1, <1>3
  <2>2. Pump(fq, ok) = [pend |-> Tail(fq.pend), fly |-> IF ok THEN Head(fq.pend) ELSE NoMsg]
    BY <1>3 DEF Pump
  <2> QED
    BY <1>1, <1>3, <2>1, <2>2 DEF QueueOf
<1> QED
  BY <1>1, <1>2, <1>3

LEMMA SendFacts ==
    ASSUME NEW M, NEW fq \in QueueOf(M), NEW m \in M, NEW ok \in BOOLEAN
    PROVE  /\ Send(fq, m, ok) \in QueueOf(M)
           /\ Len(fq.pend) \in Nat /\ Len(Send(fq, m, ok).pend) \in Nat
           /\ fq.fly # NoMsg => Send(fq, m, ok).fly = fq.fly
           /\ fq.fly = NoMsg /\ Len(fq.pend) < QCap =>
                Len(Send(fq, m, ok).pend) = Len(fq.pend)
           /\ fq.fly # NoMsg /\ Len(fq.pend) < QCap =>
                Len(Send(fq, m, ok).pend) = Len(fq.pend) + 1
           /\ Len(fq.pend) >= QCap => Send(fq, m, ok) = fq
<1> DEFINE aq == [fq EXCEPT !.pend = Append(@, m)]
<1>1. fq.pend \in Seq(M) /\ fq.fly \in M \cup {NoMsg} /\ Len(fq.pend) \in Nat
      /\ fq = [pend |-> fq.pend, fly |-> fq.fly]
  BY DEF QueueOf
<1>2. aq = [pend |-> Append(fq.pend, m), fly |-> fq.fly]
  BY <1>1
<1>3. aq \in QueueOf(M) /\ aq.fly = fq.fly /\ Len(aq.pend) = Len(fq.pend) + 1
  BY <1>1, <1>2 DEF QueueOf
<1>4. Send(fq, m, ok) = IF Len(fq.pend) >= QCap THEN fq ELSE Pump(aq, ok)
  BY DEF Send
<1> HIDE DEF aq
<1> QED
  BY <1>1, <1>3, <1>4, PumpFacts, QCapAssumption

LEMMA DoneFacts ==
    ASSUME NEW M, NEW fq \in QueueOf(M), NEW ok \in BOOLEAN
    PROVE  /\ Done(fq, ok) \in QueueOf(M)
           /\ Len(fq.pend) \in Nat /\ Len(Done(fq, ok).pend) \in Nat
           /\ Len(fq.pend) > 0 => Len(Done(fq, ok).pend) = Len(fq.pend) - 1
           /\ Len(fq.pend) = 0 => Len(Done(fq, ok).pend) = 0 /\ Done(fq, ok).fly = NoMsg
<1> DEFINE iq == [fq EXCEPT !.fly = NoMsg]
<1>1. iq \in QueueOf(M) /\ iq.fly = NoMsg /\ iq.pend = fq.pend
  BY DEF QueueOf
<1>2. Done(fq, ok) = Pump(iq, ok)
  BY DEF Done
<1> HIDE DEF iq
<1> QED
  BY <1>1, <1>2, PumpFacts

-----------------------------------------------------------------------------
(* LEDs and frames                                                         *)

LEMMA FrameIsCommand ==
    ASSUME NEW b \in Banks, NEW st \in [Leds -> 0 .. MaxLevel]
    PROVE  Frame(b, st) \in Command
  BY DEF Command, Frames

LEMMA AutoIsCommand == AutoMsg \in Command /\ GetDeviceInfo \in Command
  BY DEF Command

(* A command other than the two of the handshake carries levels for the    *)
(* LEDs of its bank.                                                       *)
LEMMA FrameLevels ==
    ASSUME NEW m \in Command, m \notin {GetDeviceInfo, AutoMsg}, NEW l \in Bank(m.bank)
    PROVE  l \in Leds /\ m.vals[l] \in 0 .. MaxLevel
<1>1. PICK b \in Banks, st \in [Leds -> 0 .. MaxLevel] : m = Frame(b, st)
  BY DEF Command, Frames
<1>2. m.bank = b /\ m.vals = [k \in Bank(b) |-> st[k]]
  BY <1>1 DEF Frame
<1> QED
  BY <1>2 DEF Bank

LEMMA LevelsAreNat ==
    /\ \A v \in Levels \cup {0, BacklightOn} : v \in Nat
    /\ \A v \in Pressures : v \in Nat
<1>1. BacklightOn \in Nat /\ 0 \in Nat
  BY LevelAssumption
<1>2. Levels \subseteq Nat /\ Pressures \subseteq Nat
  BY LevelAssumption
<1> QED
  BY <1>1, <1>2, Zenon

(* Set keeps the type of the LEDs.                                         *)
LEMMA SetType ==
    ASSUME TypeOK, NEW want, \A l \in DOMAIN want : want[l] \in Nat
    PROVE  Set(want) \in [Leds -> 0 .. MaxLevel] /\ DirtyBy(want) \subseteq Banks
<1>1. \A v \in Nat : Clamp(v) \in 0 .. MaxLevel
  BY LevelAssumption DEF Clamp
<1>2. Set(want) \in [Leds -> 0 .. MaxLevel]
  BY <1>1 DEF Set, TypeOK
<1>3. DirtyBy(want) \subseteq Banks
  BY DEF DirtyBy, TypeOK
<1> QED
  BY <1>2, <1>3

(* led_flush keeps the types, and so does what is built on it.             *)
LEMMA FlushType ==
    ASSUME NEW fq \in QueueOf(Command), NEW st \in [Leds -> 0 .. MaxLevel], NEW d, NEW r,
           \A b \in Banks : r[b] \in BOOLEAN
    PROVE  /\ FlushQueue(fq, st, d, r) \in QueueOf(Command)
           /\ d \subseteq Banks => FlushDirty(fq, d) \subseteq Banks
<1> DEFINE q1 == SendFrame(fq, st, d, "low", r)
           q2 == SendFrame(q1, st, d, "high", r)
<1>1. "low" \in Banks /\ "high" \in Banks
  BY DEF Banks
<1>2. q1 \in QueueOf(Command)
  BY <1>1, SendFacts, FrameIsCommand DEF SendFrame
<1> HIDE DEF q1
<1>3. q2 \in QueueOf(Command)
  BY <1>1, <1>2, SendFacts, FrameIsCommand DEF SendFrame
<1> HIDE DEF q2
<1>4. FlushQueue(fq, st, d, r) = IF Flushes(fq) THEN q2 ELSE fq
  BY DEF FlushQueue, q1, q2
<1> QED
  BY <1>3, <1>4 DEF FlushDirty

LEMMA SetAndFlushType ==
    ASSUME TypeOK, NEW want, \A l \in DOMAIN want : want[l] \in Nat,
           NEW fq \in QueueOf(Command), NEW r, \A b \in Banks : r[b] \in BOOLEAN,
           SetAndFlush(want, fq, r)
    PROVE  /\ leds' \in [Leds -> 0 .. MaxLevel] /\ dirty' \subseteq Banks
           /\ q' \in QueueOf(Command)
  BY SetType, FlushType DEF SetAndFlush

LEMMA FaultType ==
    ASSUME TypeOK, NEW S, NEW r \in Outcomes(S), CountFaults(r)
    PROVE  faults' \in 0 .. MaxFaults
  BY BoundAssumption DEF TypeOK, CountFaults, Outcomes

LEMMA TrySendType ==
    ASSUME TypeOK, NEW l \in Leds, NEW v \in Levels \cup {BacklightOn}, TrySend(l, v)
    PROVE  /\ ledq' \in Seq(LedMsg)
           /\ Len(ledq') <= LedCap
<1> DEFINE m == [led |-> l, level |-> v]
<1>1. m \in LedMsg /\ ledq \in Seq(LedMsg) /\ Len(ledq) <= LedCap /\ Len(ledq) \in Nat
  BY DEF TypeOK, LedMsg
<1>2. ledq' = IF Len(ledq) < LedCap THEN Append(ledq, m) ELSE ledq
  BY DEF TrySend
<1> HIDE DEF m
<1>3. Append(ledq, m) \in Seq(LedMsg) /\ Len(Append(ledq, m)) = Len(ledq) + 1
  BY <1>1, AppendProperties
<1> QED
  BY <1>1, <1>2, <1>3, BoundAssumption

LEMMA OutcomeType ==
    ASSUME NEW S, NEW r \in Outcomes(S), NEW s \in S
    PROVE  r[s] \in BOOLEAN
  BY DEF Outcomes

-----------------------------------------------------------------------------
(* Types                                                                   *)

LEMMA TypeInit == Init => TypeOK
<1> SUFFICES ASSUME Init PROVE TypeOK
  OBVIOUS
<1>1. q \in QueueOf(Command) /\ ledq \in Seq(LedMsg)
      /\ Len(ledq) <= LedCap
  BY BoundAssumption DEF Init, QueueOf, EmptyQueue
<1>2. leds \in [Leds -> 0 .. MaxLevel] /\ devLeds \in [Leds -> 0 .. MaxLevel]
  BY LevelAssumption DEF Init, Dark
<1>3. plugs \in 0 .. MaxPlugs /\ faults \in 0 .. MaxFaults
  BY BoundAssumption DEF Init
<1> QED
  BY <1>1, <1>2, <1>3 DEF Init, TypeOK

LEMMA TypeEp1OutCb == TypeOK /\ Ep1OutCb => TypeOK'
<1> SUFFICES ASSUME TypeOK, Ep1OutCb PROVE TypeOK'
  OBVIOUS
<1>1. PICK r \in Outcomes({"sent", "cmd"}) : q' = Done(q, r["cmd"]) /\ CountFaults(r)
  BY DEF Ep1OutCb
<1>2. q' \in QueueOf(Command)
  BY <1>1, DoneFacts, OutcomeType DEF TypeOK
<1>3. faults' \in 0 .. MaxFaults
  BY <1>1, FaultType
<1>8. UNCHANGED <<cable, device, inputs, client, ledState, ledq, loop, disp>>
  BY DEF Ep1OutCb
<1>9. ack' \in BOOLEAN
  BY DEF Ep1OutCb
<1> QED
  BY <1>2, <1>3, <1>8, <1>9 DEF TypeOK, cable, device, inputs, transfers, ledState, client, loop

LEMMA TypeCtrlCb == TypeOK /\ CtrlCb => TypeOK'
<1> SUFFICES ASSUME TypeOK, CtrlCb PROVE TypeOK'
  OBVIOUS
<1>1. PICK r \in Outcomes({"in", "cmd"}) :
        /\ ep1in' = Submitted(ep1in, r["in"])
        /\ q' = Send(q, GetDeviceInfo, r["cmd"])
        /\ CountFaults(r)
  BY DEF CtrlCb
<1>2. q' \in QueueOf(Command)
  BY <1>1, SendFacts, AutoIsCommand, OutcomeType DEF TypeOK
<1>3. faults' \in 0 .. MaxFaults
  BY <1>1, FaultType
<1> QED
  BY <1>1, <1>2, <1>3 DEF CtrlCb, Submitted, TypeOK, cable, device, inputs, transfers, ledState, client, loop

LEMMA TypeEp1Hello == TypeOK /\ Ep1Hello => TypeOK'
<1> SUFFICES ASSUME TypeOK, Ep1Hello PROVE TypeOK'
  OBVIOUS
<1>1. PICK r \in Outcomes({"cmd", "pads", "in"} \cup Banks) :
        /\ SetAndFlush([l \in {Backlight} |-> BacklightOn], Send(q, AutoMsg, r["cmd"]), r)
        /\ ep4in' = Submitted(ep4in, r["pads"])
        /\ ep1in' = Resubmit(r["in"])
        /\ CountFaults(r)
  BY DEF Ep1Hello
<1>2. Send(q, AutoMsg, r["cmd"]) \in QueueOf(Command)
  BY SendFacts, AutoIsCommand, OutcomeType DEF TypeOK
<1>3. leds' \in [Leds -> 0 .. MaxLevel] /\ dirty' \subseteq Banks /\ q' \in QueueOf(Command)
  BY <1>1, <1>2, SetAndFlushType, OutcomeType, LevelAssumption
<1>4. faults' \in 0 .. MaxFaults
  BY <1>1, FaultType
<1> QED
  BY <1>1, <1>3, <1>4 DEF Ep1Hello, Submitted, Resubmit, TypeOK, cable, device, inputs, transfers, ledState, client, loop

LEMMA TypeEp1Other == TypeOK /\ Ep1Other => TypeOK'
  BY LevelAssumption, BoundAssumption DEF Ep1Other, TypeOK, vars, cable, device, inputs, transfers, ledState, client, loop, Present, Outcomes, CountFaults, Submitted, Resubmit, TrySend

LEMMA EchoType ==
    ASSUME TypeOK, NEW rep \in [Pads -> Pressures], NEW p \in Pads
    PROVE  Echo(p, rep[p]) \in Nat
<1>1. base \in [Pads -> Levels \cup {0, BacklightOn}]
  BY DEF TypeOK
<1>2. rep[p] \in Nat /\ base[p] \in Nat
  BY <1>1, LevelsAreNat
<1>3. rep[p] \div 64 \in Nat
  BY <1>2
<1> QED
  BY <1>2, <1>3 DEF Echo

LEMMA TypeEp4Report == TypeOK /\ Ep4Report => TypeOK'
<1> SUFFICES ASSUME TypeOK, Ep4Report PROVE TypeOK'
  OBVIOUS
<1>1. PICK rep \in [Pads -> Pressures], r \in Outcomes({"in"} \cup Banks) :
        /\ touched' = [p \in Pads |-> Deadzone(rep[p]) > 0]
        /\ SetAndFlush([p \in Pads |-> Echo(p, rep[p])], q, r)
        /\ ep4in' = Resubmit(r["in"])
        /\ CountFaults(r)
  BY DEF Ep4Report
<1>2. \A p \in Pads : Echo(p, rep[p]) \in Nat
  BY <1>1, EchoType
<1>3. leds' \in [Leds -> 0 .. MaxLevel] /\ dirty' \subseteq Banks /\ q' \in QueueOf(Command)
  <2>1. \A b \in Banks : r[b] \in BOOLEAN
    BY OutcomeType
  <2> HIDE DEF Echo
  <2>2. q \in QueueOf(Command)
    BY DEF TypeOK
  <2> QED
    BY <1>1, <1>2, <2>1, <2>2, SetAndFlushType
<1>4. faults' \in 0 .. MaxFaults
  BY <1>1, FaultType
<1>5. touched' \in [Pads -> BOOLEAN]
  BY <1>1
<1> QED
  BY <1>1, <1>3, <1>4, <1>5 DEF Ep4Report, Resubmit, TypeOK, cable, device, inputs, transfers, ledState, client, loop

LEMMA TypeEp4Other == TypeOK /\ Ep4Other => TypeOK'
  BY LevelAssumption, BoundAssumption DEF Ep4Other, TypeOK, vars, cable, device, inputs, transfers, ledState, client, loop, Present, Outcomes, CountFaults, Submitted, Resubmit, TrySend

LEMMA TypeNewDev == TypeOK /\ NewDev => TypeOK'
  BY LevelAssumption, BoundAssumption DEF NewDev, TypeOK, vars, cable, device, inputs, transfers, ledState, client, loop, Present, Outcomes, CountFaults, Submitted, Resubmit, TrySend

LEMMA TypeDevGone == TypeOK /\ DevGone => TypeOK'
  BY LevelAssumption, BoundAssumption DEF DevGone, TypeOK, vars, cable, device, inputs, transfers, ledState, client, loop, Present, Outcomes, CountFaults, Submitted, Resubmit, TrySend

LEMMA TypeTick == TypeOK /\ Tick => TypeOK'
<1> SUFFICES ASSUME TypeOK, Tick PROVE TypeOK'
  OBVIOUS
<1>1. pc' \in {"events", "drain", "swap", "claim", "submit", "panic"}
  BY DEF Tick
<1>8. UNCHANGED <<cable, device, transfers, client, ledState, ledq, disp, faults>>
  BY DEF Tick
<1>9. any' \in BOOLEAN
  BY DEF Tick
<1> QED
  BY <1>1, <1>8, <1>9 DEF TypeOK, cable, device, inputs, transfers, ledState, client, loop

LEMMA TypeDrainOne == TypeOK /\ DrainOne => TypeOK'
<1> SUFFICES ASSUME TypeOK, DrainOne PROVE TypeOK'
  OBVIOUS
<1> DEFINE m == Head(ledq)
           shown == IF m.led \in Pads THEN ~touched[m.led] ELSE TRUE
           want == [l \in (IF shown THEN {m.led} ELSE {}) |-> m.level]
<1>1. ledq \in Seq(LedMsg) /\ ledq # <<>> /\ Len(ledq) <= LedCap
  BY DEF DrainOne, TypeOK
<1>2. m \in LedMsg /\ Tail(ledq) \in Seq(LedMsg) /\ Len(Tail(ledq)) = Len(ledq) - 1
      /\ Len(ledq) \in Nat
  BY <1>1, HeadTailProperties
<1>3. m.level \in Nat /\ m.level \in Levels \cup {BacklightOn} /\ m.led \in Leds
  BY <1>2, LevelsAreNat DEF LedMsg
<1>4. \A l \in DOMAIN want : want[l] \in Nat
  BY <1>3
<1>5. leds' = Set(want) /\ dirty' = DirtyBy(want)
      /\ base' = [p \in Pads |-> IF p = m.led THEN m.level ELSE base[p]] /\ ledq' = Tail(ledq)
  BY DEF DrainOne
<1> HIDE DEF want, m
<1>6. leds' \in [Leds -> 0 .. MaxLevel] /\ dirty' \subseteq Banks
  BY <1>4, <1>5, SetType
<1>7. base' \in [Pads -> Levels \cup {0, BacklightOn}]
  BY <1>3, <1>5 DEF TypeOK
<1>8. ledq' \in Seq(LedMsg) /\ Len(ledq') <= LedCap
  BY <1>1, <1>2, <1>5, BoundAssumption
<1> QED
  BY <1>6, <1>7, <1>8 DEF DrainOne, TypeOK, cable, device, inputs, transfers, ledState, client, loop

LEMMA TypeDrainEnd == TypeOK /\ DrainEnd => TypeOK'
<1> SUFFICES ASSUME TypeOK, DrainEnd PROVE TypeOK'
  OBVIOUS
<1>1. PICK r \in Outcomes(Banks) :
        IF any THEN SetAndFlush(<<>>, q, r) /\ CountFaults(r)
               ELSE UNCHANGED <<leds, dirty, q, faults>>
  BY DEF DrainEnd
<1>2. CASE any
  <2>1. \A l \in DOMAIN <<>> : <<>>[l] \in Nat
    OBVIOUS
  <2>2. leds' \in [Leds -> 0 .. MaxLevel] /\ dirty' \subseteq Banks /\ q' \in QueueOf(Command)
    BY <1>1, <1>2, <2>1, SetAndFlushType, OutcomeType DEF TypeOK
  <2>3. faults' \in 0 .. MaxFaults
    BY <1>1, <1>2, FaultType
  <2> QED
    BY <2>2, <2>3 DEF DrainEnd, TypeOK, cable, device, inputs, transfers, ledState, client, loop
<1>3. CASE ~any
  BY <1>1, <1>3 DEF DrainEnd, TypeOK, cable, device, inputs, transfers, ledState, client, loop
<1> QED
  BY <1>2, <1>3

(* The client opens a device that is there, or goes on as before.          *)
LEMMA TakeAddrCases ==
    ASSUME TypeOK, TakeAddr
    PROVE  \/ /\ dev' = dev /\ pc' = "events"
              /\ faults' = faults \/ (faults' = faults + 1 /\ faults < MaxFaults)
           \/ /\ newAddr /\ ~dev /\ port = "mk1"
              /\ dev' = TRUE /\ pc' = "claim" /\ faults' = faults
<1> DEFINE found == newAddr /\ ~dev /\ port = "mk1"
<1>1. PICK opened \in BOOLEAN :
        /\ found /\ ~opened => faults < MaxFaults
        /\ dev' = (dev \/ (found /\ opened))
        /\ pc' = IF found /\ opened THEN "claim" ELSE "events"
        /\ faults' = IF found /\ ~opened THEN faults + 1 ELSE faults
  BY Zenon DEF TakeAddr
<1>2. dev \in BOOLEAN /\ newAddr \in BOOLEAN
  BY DEF TypeOK
<1> QED
  BY <1>1, <1>2

LEMMA TypeTakeAddr == TypeOK /\ TakeAddr => TypeOK'
<1> SUFFICES ASSUME TypeOK, TakeAddr PROVE TypeOK'
  OBVIOUS
<1>1. /\ pc' \in {"events", "drain", "swap", "claim", "submit", "panic"} /\ dev' \in BOOLEAN
  <2>1. dev' \in {dev, TRUE} /\ pc' \in {"events", "claim"}
    BY TakeAddrCases
  <2> QED
    BY <2>1 DEF TypeOK
<1>2. faults' \in 0 .. MaxFaults
  <2>1. faults' = faults \/ (faults' = faults + 1 /\ faults < MaxFaults)
    BY TakeAddrCases
  <2>2. faults \in 0 .. MaxFaults /\ MaxFaults \in Nat
    BY BoundAssumption DEF TypeOK
  <2> QED
    BY <2>1, <2>2
<1>8. UNCHANGED <<cable, device, transfers, evt, sessionUp, ledState, ledq, any, disp>>
  BY DEF TakeAddr
<1>9. newAddr' \in BOOLEAN
  BY DEF TakeAddr
<1> QED
  BY <1>1, <1>2, <1>8, <1>9 DEF TypeOK, cable, device, inputs, transfers, ledState, client, loop

LEMMA TypeClaim == TypeOK /\ Claim => TypeOK'
  BY LevelAssumption, BoundAssumption DEF Claim, TypeOK, vars, cable, device, inputs, transfers, ledState, client, loop, Present, Outcomes, CountFaults, Submitted, Resubmit, TrySend

LEMMA TypeSetInterface == TypeOK /\ SetInterface => TypeOK'
  BY LevelAssumption, BoundAssumption DEF SetInterface, TypeOK, vars, cable, device, inputs, transfers, ledState, client, loop, Present, Outcomes, CountFaults, Submitted, Resubmit, TrySend

LEMMA TypeReboot == TypeOK /\ Reboot => TypeOK'
<1> SUFFICES ASSUME TypeOK, Reboot PROVE TypeOK'
  OBVIOUS
<1>1. q' \in QueueOf(Command) /\ ledq' \in Seq(LedMsg)
      /\ Len(ledq') <= LedCap
  BY BoundAssumption DEF Reboot, QueueOf, EmptyQueue
<1>2. leds' \in [Leds -> 0 .. MaxLevel]
  BY LevelAssumption DEF Reboot, Dark
<1>3. evt' \in {"none", "new", "gone"}
  BY DEF Reboot
<1> QED
  BY <1>1, <1>2, <1>3 DEF Reboot, TypeOK, cable, device, inputs, transfers, ledState, client, loop

LEMMA TypeDispWake == TypeOK /\ DispWake => TypeOK'
  BY LevelAssumption, BoundAssumption DEF DispWake, TypeOK, vars, cable, device, inputs, transfers, ledState, client, loop, Present, Outcomes, CountFaults, Submitted, Resubmit, TrySend

LEMMA TypeDispTested == TypeOK /\ DispTested => TypeOK'
  BY LevelAssumption, BoundAssumption DEF DispTested, TypeOK, vars, cable, device, inputs, transfers, ledState, client, loop, Present, Outcomes, CountFaults, Submitted, Resubmit, TrySend

LEMMA TypeDispAssert == TypeOK /\ DispAssert => TypeOK'
<1> SUFFICES ASSUME TypeOK, DispAssert PROVE TypeOK'
  OBVIOUS
<1>1. Backlight \in Leds
  BY DEF Leds
<1>2. /\ ledq' \in Seq(LedMsg)
      /\ Len(ledq') <= LedCap
  BY <1>1, TrySendType DEF DispAssert
<1> QED
  BY <1>2 DEF DispAssert, TypeOK, cable, device, inputs, transfers, ledState, client, loop

LEMMA TypeDispQuit == TypeOK /\ DispQuit => TypeOK'
  BY LevelAssumption, BoundAssumption DEF DispQuit, TypeOK, vars, cable, device, inputs, transfers, ledState, client, loop, Present, Outcomes, CountFaults, Submitted, Resubmit, TrySend

LEMMA TypeDeviceTakes == TypeOK /\ DeviceTakes => TypeOK'
<1> SUFFICES ASSUME TypeOK, DeviceTakes PROVE TypeOK'
  OBVIOUS
<1>1. q.fly \in Command
  BY DEF TypeOK, QueueOf, DeviceTakes
<1>2. devLeds' \in [Leds -> 0 .. MaxLevel] /\ asked' \in BOOLEAN /\ replies' \in Nat
  <2>1. CASE q.fly = GetDeviceInfo \/ q.fly = AutoMsg
    <3>1. \/ asked' = TRUE /\ replies' = replies + 1 /\ UNCHANGED devLeds
          \/ UNCHANGED <<devLeds, asked, replies>>
      BY <2>1 DEF DeviceTakes, device
    <3>2. devLeds \in [Leds -> 0 .. MaxLevel] /\ asked \in BOOLEAN /\ replies \in Nat
      BY DEF TypeOK
    <3>3. CASE asked' = TRUE /\ replies' = replies + 1 /\ UNCHANGED devLeds
      <4>1. asked' \in BOOLEAN /\ devLeds' \in [Leds -> 0 .. MaxLevel]
        BY <3>2, <3>3, Zenon
      <4>2. replies' \in Nat
        BY <3>2, <3>3
      <4> QED
        BY <4>1, <4>2
    <3>4. CASE UNCHANGED <<devLeds, asked, replies>>
      BY <3>2, <3>4
    <3> QED
      BY <3>1, <3>3, <3>4
  <2>2. CASE q.fly \notin {GetDeviceInfo, AutoMsg}
    <3>1. devLeds \in [Leds -> 0 .. MaxLevel] /\ asked \in BOOLEAN /\ replies \in Nat
      BY DEF TypeOK
    <3>2. /\ devLeds' = [l \in Leds |-> IF l \in Bank(q.fly.bank)
                                        THEN q.fly.vals[l] ELSE devLeds[l]]
          /\ UNCHANGED <<asked, replies>>
      BY <2>2 DEF DeviceTakes
    <3>3. \A l \in Bank(q.fly.bank) : q.fly.vals[l] \in 0 .. MaxLevel
      BY <1>1, <2>2, FrameLevels
    <3> QED
      BY <3>1, <3>2, <3>3
  <2> QED
    BY <2>1, <2>2
<1>3. painted' \subseteq Banks
  <2>1. painted \subseteq Banks
    BY DEF TypeOK
  <2>2. CASE q.fly = GetDeviceInfo \/ q.fly = AutoMsg
    <3>1. painted' = painted
      BY <2>2 DEF DeviceTakes, device
    <3> QED
      BY <2>1, <3>1
  <2>3. CASE q.fly \notin {GetDeviceInfo, AutoMsg}
    <3>1. PICK b \in Banks, st \in [Leds -> 0 .. MaxLevel] : q.fly = Frame(b, st)
      BY <1>1, <2>3 DEF Command, Frames
    <3>2. q.fly.bank \in Banks
      BY <3>1 DEF Frame
    <3>3. painted' = painted \cup {q.fly.bank}
      BY <2>3 DEF DeviceTakes
    <3> QED
      BY <2>1, <3>2, <3>3
  <2> QED
    BY <2>2, <2>3
<1> QED
  BY <1>2, <1>3 DEF DeviceTakes, TypeOK, cable, device, inputs, transfers, ledState, client, loop

LEMMA TypeDeviceReplies == TypeOK /\ DeviceReplies => TypeOK'
  BY DEF DeviceReplies, TypeOK, cable, device, inputs, transfers, ledState, client, loop

LEMMA TypeUnplug == TypeOK /\ Unplug => TypeOK'
<1> SUFFICES ASSUME TypeOK, Unplug PROVE TypeOK'
  OBVIOUS
<1>1. devLeds' \in [Leds -> 0 .. MaxLevel] /\ evt' \in {"none", "new", "gone"}
  BY LevelAssumption DEF Unplug, Dark, TypeOK
<1>8. UNCHANGED <<plugs, transfers, newAddr, dev, sessionUp, ledState, ledq, loop, disp, faults>>
  BY DEF Unplug
<1>9. port' = "none" /\ asked' \in BOOLEAN /\ painted' \subseteq Banks /\ replies' \in Nat
  BY DEF Unplug
<1> QED
  BY <1>1, <1>8, <1>9 DEF TypeOK, cable, device, inputs, transfers, ledState, client, loop

LEMMA TypePlugIn ==
    ASSUME TypeOK, NEW kind \in {"mk1", "other"}, PlugIn(kind)
    PROVE  TypeOK'
  BY BoundAssumption DEF PlugIn, TypeOK, cable, device, inputs, transfers, ledState, client, loop

LEMMA TypeLedWrite ==
    ASSUME TypeOK, NEW l \in Leds, NEW v \in Levels, LedWrite(l, v)
    PROVE  TypeOK'
<1>1. /\ ledq' \in Seq(LedMsg)
      /\ Len(ledq') <= LedCap
  BY TrySendType DEF LedWrite
<1> QED
  BY <1>1 DEF LedWrite, TypeOK, cable, device, inputs, transfers, ledState, client, loop

LEMMA TypeStep == TypeOK /\ [Next]_vars => TypeOK'
<1>1. TypeOK /\ UNCHANGED vars => TypeOK'
  BY DEF vars, TypeOK, cable, device, inputs, transfers, ledState, client, loop
<1> QED
  BY <1>1, TypeEp1OutCb, TypeCtrlCb, TypeEp1Hello, TypeEp1Other, TypeEp4Report, TypeEp4Other,
     TypeNewDev, TypeDevGone, TypeTick, TypeDrainOne, TypeDrainEnd, TypeTakeAddr, TypeClaim,
     TypeSetInterface, TypeReboot, TypeDispWake, TypeDispTested, TypeDispAssert, TypeDispQuit,
     TypeDeviceTakes, TypeDeviceReplies, TypeUnplug, TypePlugIn, TypeLedWrite
     DEF Next, Callback, ClientLoop, Display, Engine, Controller, Cable

(* Every variable of the session keeps its type, also across replugs,      *)
(* failed transfers and a restart.                                         *)
THEOREM TypeCorrect == Spec => []TypeOK
  BY TypeInit, TypeStep, PTL DEF Spec

-----------------------------------------------------------------------------
(* The handshake.  A command that finds the ring full is lost, and nothing *)
(* sends GET_DEVICE_INFO or AUTO_MSG a second time.  The invariant says why*)
(* neither is lost: an idle transfer means a free slot, since whatever ends*)
(* a transfer pops the ring; and while no session is up only handshake     *)
(* commands enter the ring, each AUTO_MSG for a GET_DEVICE_INFO that left. *)

(* Answers that are underway and will each append an AUTO_MSG.             *)
Question == IF q.fly = GetDeviceInfo /\ ~ack THEN 1 ELSE 0
Answer == IF ep1in = "reply" THEN 1 ELSE 0
Outstanding == replies + Answer + Question

Attaching == ~dev \/ pc \in {"claim", "submit"} \/ ctrl = "sub"

RoomIn(fq) == Len(fq.pend) <= QCap /\ (fq.fly = NoMsg => Len(fq.pend) < QCap)
RingRoom == RoomIn(q)
AnswerRoom == ~sessionUp => Len(q.pend) + Outstanding <= QCap
QuietBeforeSession == ~sessionUp => ep4in = "idle" /\ pc # "drain"
AttachIdle ==
    /\ Attaching => q.fly = NoMsg /\ ep1in = "idle" /\ replies = 0 /\ ~sessionUp
    /\ ctrl = "sub" => dev /\ pc \notin {"claim", "submit"}
    /\ pc \in {"claim", "submit"} => dev
DeviceKnown ==
    /\ port # "mk1" => replies = 0
    /\ evt = "gone" => port = "none" /\ dev
    /\ dev => port = "mk1" \/ evt = "gone"
    /\ replies > 0 \/ ep1in = "reply" => asked \/ evt = "gone"

HInv ==
    /\ RingRoom /\ AnswerRoom /\ QuietBeforeSession
    /\ AttachIdle /\ DeviceKnown /\ SessionBelongsToDevice

(* Sending keeps the room in the ring, and so does a flush.                *)
LEMMA SendKeepsRoom ==
    ASSUME NEW fq \in QueueOf(Command), NEW m \in Command, NEW ok \in BOOLEAN, RoomIn(fq)
    PROVE  RoomIn(Send(fq, m, ok))
<1> DEFINE sq == Send(fq, m, ok)
<1>1. /\ Len(fq.pend) \in Nat /\ Len(sq.pend) \in Nat
      /\ fq.fly # NoMsg => sq.fly = fq.fly
      /\ fq.fly = NoMsg /\ Len(fq.pend) < QCap => Len(sq.pend) = Len(fq.pend)
      /\ fq.fly # NoMsg /\ Len(fq.pend) < QCap => Len(sq.pend) = Len(fq.pend) + 1
      /\ Len(fq.pend) >= QCap => sq = fq
  BY SendFacts
<1> SUFFICES RoomIn(sq)
  OBVIOUS
<1> HIDE DEF sq
<1> QED
  BY <1>1, QCapAssumption DEF RoomIn

LEMMA FlushKeepsRoom ==
    ASSUME NEW fq \in QueueOf(Command), NEW st \in [Leds -> 0 .. MaxLevel], NEW d, NEW r,
           \A b \in Banks : r[b] \in BOOLEAN, RoomIn(fq)
    PROVE  RoomIn(FlushQueue(fq, st, d, r))
<1> DEFINE q1 == SendFrame(fq, st, d, "low", r)
           q2 == SendFrame(q1, st, d, "high", r)
<1>1. "low" \in Banks /\ "high" \in Banks
  BY DEF Banks
<1>2. q1 \in QueueOf(Command) /\ RoomIn(q1)
  BY <1>1, SendFacts, SendKeepsRoom, FrameIsCommand DEF SendFrame
<1> HIDE DEF q1
<1>3. RoomIn(q2)
  BY <1>1, <1>2, SendKeepsRoom, FrameIsCommand DEF SendFrame
<1> HIDE DEF q2
<1>4. FlushQueue(fq, st, d, r) = IF Flushes(fq) THEN q2 ELSE fq
  BY DEF FlushQueue, q1, q2
<1> QED
  BY <1>3, <1>4

(* A handler that runs while a session is up, or that ends with one, can   *)
(* only disturb the room in the ring.                                      *)
LEMMA SetAndFlushRoom ==
    ASSUME TypeOK, NEW want, \A l \in DOMAIN want : want[l] \in Nat,
           NEW fq \in QueueOf(Command), NEW r, \A b \in Banks : r[b] \in BOOLEAN,
           SetAndFlush(want, fq, r), RoomIn(fq)
    PROVE  RingRoom'
<1>1. Set(want) \in [Leds -> 0 .. MaxLevel]
  BY SetType
<1>2. RoomIn(FlushQueue(fq, Set(want), DirtyBy(want), r))
  BY <1>1, FlushKeepsRoom
<1>3. q' = FlushQueue(fq, Set(want), DirtyBy(want), r)
  BY DEF SetAndFlush
<1> QED
  BY <1>2, <1>3 DEF RingRoom, RoomIn

LEMMA RoomInit == Init => HInv
  BY QCapAssumption DEF Init, EmptyQueue, HInv, RingRoom, RoomIn, AnswerRoom, Outstanding, Question, Answer,
     QuietBeforeSession, AttachIdle, Attaching, DeviceKnown, SessionBelongsToDevice, GetDeviceInfo

LEMMA RoomEp1OutCb == TypeOK /\ HInv /\ Ep1OutCb => HInv'
<1> SUFFICES ASSUME TypeOK, HInv, Ep1OutCb PROVE HInv'
  OBVIOUS
<1>1. PICK r \in Outcomes({"sent", "cmd"}) : q' = Done(q, r["cmd"])
  BY DEF Ep1OutCb
<1>2. /\ Len(q.pend) \in Nat /\ Len(q'.pend) \in Nat
      /\ Len(q.pend) > 0 => Len(q'.pend) = Len(q.pend) - 1
      /\ Len(q.pend) = 0 => Len(q'.pend) = 0 /\ q'.fly = NoMsg
  <2>1. q \in QueueOf(Command) /\ r["cmd"] \in BOOLEAN
    BY OutcomeType DEF TypeOK
  <2> QED
    BY <1>1, <2>1, DoneFacts
<1>3. UNCHANGED <<cable, device, inputs, client, loop>> /\ q.fly # NoMsg /\ ack' = FALSE
  BY DEF Ep1OutCb
<1>4. RingRoom'
  BY <1>2, QCapAssumption DEF HInv, RingRoom, RoomIn
<1>5. AnswerRoom'
  <2>1. replies \in Nat /\ GetDeviceInfo # NoMsg
    BY AutoIsCommand, NoMsgAssumption DEF TypeOK
  <2>2. SUFFICES ASSUME ~sessionUp'
                 PROVE  Len(q'.pend) + Outstanding' <= QCap
    BY DEF AnswerRoom
  <2>3. Len(q.pend) + Outstanding <= QCap
    BY <1>3, <2>2 DEF HInv, AnswerRoom, client
  <2>4. UNCHANGED <<replies, ep1in>>
    BY <1>3 DEF device, inputs
  <2>5. Len(q.pend) = 0 => q'.fly # GetDeviceInfo
    BY <1>2, <2>1
  <2>6. Outstanding \in Nat
    BY <2>1 DEF Outstanding, Question, Answer
  <2>7. /\ Outstanding' \in Nat /\ Outstanding' <= Outstanding + 1
        /\ Len(q.pend) = 0 => Outstanding' <= Outstanding
    BY <2>1, <2>4, <2>5 DEF Outstanding, Question, Answer
  <2>8. CASE Len(q.pend) = 0
    BY <1>2, <2>3, <2>6, <2>7, <2>8, QCapAssumption
  <2>9. CASE Len(q.pend) > 0
    BY <1>2, <2>3, <2>6, <2>7, <2>9, QCapAssumption
  <2> QED
    BY <1>2, <2>8, <2>9
<1>6. AttachIdle'
  BY <1>3 DEF HInv, AttachIdle, Attaching, client, device, inputs, loop
<1> QED
  BY <1>3, <1>4, <1>5, <1>6 DEF HInv, QuietBeforeSession, DeviceKnown, SessionBelongsToDevice,
     cable, device, inputs, client, loop

LEMMA RoomEp1Other == TypeOK /\ HInv /\ Ep1Other => HInv'
  BY QCapAssumption DEF TypeOK, Ep1Other, Submitted, Resubmit, Outcomes, HInv, RingRoom, RoomIn, AnswerRoom, Outstanding, Question, Answer,
     QuietBeforeSession, AttachIdle, Attaching, DeviceKnown, SessionBelongsToDevice, GetDeviceInfo,
     cable, device, inputs, transfers, client, loop, QueueOf

LEMMA RoomEp4Other == TypeOK /\ HInv /\ Ep4Other => HInv'
  BY QCapAssumption DEF TypeOK, Ep4Other, Submitted, Resubmit, Outcomes, HInv, RingRoom, RoomIn, AnswerRoom, Outstanding, Question, Answer,
     QuietBeforeSession, AttachIdle, Attaching, DeviceKnown, SessionBelongsToDevice, GetDeviceInfo,
     cable, device, inputs, transfers, client, loop, QueueOf

LEMMA RoomNewDev == TypeOK /\ HInv /\ NewDev => HInv'
  BY QCapAssumption DEF TypeOK, NewDev, Submitted, Resubmit, Outcomes, HInv, RingRoom, RoomIn, AnswerRoom, Outstanding, Question, Answer,
     QuietBeforeSession, AttachIdle, Attaching, DeviceKnown, SessionBelongsToDevice, GetDeviceInfo,
     cable, device, inputs, transfers, client, loop, QueueOf

LEMMA RoomDevGone == TypeOK /\ HInv /\ DevGone => HInv'
  BY QCapAssumption DEF TypeOK, DevGone, Submitted, Resubmit, Outcomes, HInv, RingRoom, RoomIn, AnswerRoom, Outstanding, Question, Answer,
     QuietBeforeSession, AttachIdle, Attaching, DeviceKnown, SessionBelongsToDevice, GetDeviceInfo,
     cable, device, inputs, transfers, client, loop, QueueOf

LEMMA RoomTick == TypeOK /\ HInv /\ Tick => HInv'
  BY QCapAssumption DEF TypeOK, Tick, Submitted, Resubmit, Outcomes, HInv, RingRoom, RoomIn, AnswerRoom, Outstanding, Question, Answer,
     QuietBeforeSession, AttachIdle, Attaching, DeviceKnown, SessionBelongsToDevice, GetDeviceInfo,
     cable, device, inputs, transfers, client, loop, QueueOf

LEMMA RoomDrainOne == TypeOK /\ HInv /\ DrainOne => HInv'
  BY QCapAssumption DEF TypeOK, DrainOne, Submitted, Resubmit, Outcomes, HInv, RingRoom, RoomIn, AnswerRoom, Outstanding, Question, Answer,
     QuietBeforeSession, AttachIdle, Attaching, DeviceKnown, SessionBelongsToDevice, GetDeviceInfo,
     cable, device, inputs, transfers, client, loop, QueueOf

LEMMA RoomTakeAddr == TypeOK /\ HInv /\ TakeAddr => HInv'
<1> SUFFICES ASSUME TypeOK, HInv, TakeAddr PROVE HInv'
  OBVIOUS
<1>1. \/ dev' = dev /\ pc' = "events"
      \/ ~dev /\ port = "mk1" /\ dev' = TRUE /\ pc' = "claim"
  BY TakeAddrCases
<1>2. UNCHANGED <<cable, device, transfers, evt, sessionUp>> /\ pc = "swap"
  BY DEF TakeAddr
<1> QED
  BY <1>1, <1>2 DEF TypeOK, HInv, RingRoom, RoomIn, AnswerRoom, Outstanding, Question, Answer,
     QuietBeforeSession, AttachIdle, Attaching, DeviceKnown, SessionBelongsToDevice, GetDeviceInfo,
     cable, device, inputs, transfers, QueueOf

LEMMA RoomClaim == TypeOK /\ HInv /\ Claim => HInv'
  BY QCapAssumption DEF TypeOK, Claim, Submitted, Resubmit, Outcomes, HInv, RingRoom, RoomIn, AnswerRoom, Outstanding, Question, Answer,
     QuietBeforeSession, AttachIdle, Attaching, DeviceKnown, SessionBelongsToDevice, GetDeviceInfo,
     cable, device, inputs, transfers, client, loop, QueueOf

LEMMA RoomSetInterface == TypeOK /\ HInv /\ SetInterface => HInv'
  BY QCapAssumption DEF TypeOK, SetInterface, Submitted, Resubmit, Outcomes, HInv, RingRoom, RoomIn, AnswerRoom, Outstanding, Question, Answer,
     QuietBeforeSession, AttachIdle, Attaching, DeviceKnown, SessionBelongsToDevice, GetDeviceInfo,
     cable, device, inputs, transfers, client, loop, QueueOf

LEMMA RoomDispWake == TypeOK /\ HInv /\ DispWake => HInv'
  BY QCapAssumption DEF TypeOK, DispWake, Submitted, Resubmit, Outcomes, HInv, RingRoom, RoomIn, AnswerRoom, Outstanding, Question, Answer,
     QuietBeforeSession, AttachIdle, Attaching, DeviceKnown, SessionBelongsToDevice, GetDeviceInfo,
     cable, device, inputs, transfers, client, loop, QueueOf

LEMMA RoomDispTested == TypeOK /\ HInv /\ DispTested => HInv'
  BY QCapAssumption DEF TypeOK, DispTested, Submitted, Resubmit, Outcomes, HInv, RingRoom, RoomIn, AnswerRoom, Outstanding, Question, Answer,
     QuietBeforeSession, AttachIdle, Attaching, DeviceKnown, SessionBelongsToDevice, GetDeviceInfo,
     cable, device, inputs, transfers, client, loop, QueueOf

LEMMA RoomDispAssert == TypeOK /\ HInv /\ DispAssert => HInv'
  BY QCapAssumption DEF TypeOK, DispAssert, Submitted, Resubmit, Outcomes, HInv, RingRoom, RoomIn, AnswerRoom, Outstanding, Question, Answer,
     QuietBeforeSession, AttachIdle, Attaching, DeviceKnown, SessionBelongsToDevice, GetDeviceInfo,
     cable, device, inputs, transfers, client, loop, QueueOf

LEMMA RoomDispQuit == TypeOK /\ HInv /\ DispQuit => HInv'
  BY QCapAssumption DEF TypeOK, DispQuit, Submitted, Resubmit, Outcomes, HInv, RingRoom, RoomIn, AnswerRoom, Outstanding, Question, Answer,
     QuietBeforeSession, AttachIdle, Attaching, DeviceKnown, SessionBelongsToDevice, GetDeviceInfo,
     cable, device, inputs, transfers, client, loop, QueueOf

LEMMA RoomDeviceTakes == TypeOK /\ HInv /\ DeviceTakes => HInv'
  BY QCapAssumption DEF TypeOK, DeviceTakes, Submitted, Resubmit, Outcomes, HInv, RingRoom, RoomIn, AnswerRoom, Outstanding, Question, Answer,
     QuietBeforeSession, AttachIdle, Attaching, DeviceKnown, SessionBelongsToDevice, GetDeviceInfo,
     cable, device, inputs, transfers, client, loop, QueueOf

LEMMA RoomDeviceReplies == TypeOK /\ HInv /\ DeviceReplies => HInv'
  BY QCapAssumption DEF TypeOK, DeviceReplies, Submitted, Resubmit, Outcomes, HInv, RingRoom, RoomIn, AnswerRoom, Outstanding, Question, Answer,
     QuietBeforeSession, AttachIdle, Attaching, DeviceKnown, SessionBelongsToDevice, GetDeviceInfo,
     cable, device, inputs, transfers, client, loop, QueueOf

LEMMA RoomUnplug == TypeOK /\ HInv /\ Unplug => HInv'
  BY QCapAssumption DEF TypeOK, Unplug, Submitted, Resubmit, Outcomes, HInv, RingRoom, RoomIn, AnswerRoom, Outstanding, Question, Answer,
     QuietBeforeSession, AttachIdle, Attaching, DeviceKnown, SessionBelongsToDevice, GetDeviceInfo,
     cable, device, inputs, transfers, client, loop, QueueOf

LEMMA RoomCtrlCb == TypeOK /\ HInv /\ CtrlCb => HInv'
<1> SUFFICES ASSUME TypeOK, HInv, CtrlCb PROVE HInv'
  OBVIOUS
<1>1. PICK r \in Outcomes({"in", "cmd"}) :
        ep1in' = Submitted(ep1in, r["in"]) /\ q' = Send(q, GetDeviceInfo, r["cmd"])
  BY DEF CtrlCb
<1>2. /\ ctrl = "sub" /\ ctrl' = "idle" /\ pc = "events"
      /\ UNCHANGED <<cable, device, ack, ep4in, client, loop>>
  BY DEF CtrlCb
<1>3. /\ q.fly = NoMsg /\ ep1in = "idle" /\ replies = 0 /\ ~sessionUp /\ dev
      /\ Len(q.pend) < QCap /\ RoomIn(q)
  BY <1>2 DEF HInv, AttachIdle, Attaching, RingRoom, RoomIn
<1>4. Len(q'.pend) = Len(q.pend) /\ Len(q.pend) \in Nat /\ RoomIn(q')
  <2>1. q \in QueueOf(Command) /\ GetDeviceInfo \in Command /\ r["cmd"] \in BOOLEAN
    BY OutcomeType, AutoIsCommand DEF TypeOK
  <2>2. RoomIn(Send(q, GetDeviceInfo, r["cmd"]))
    BY <1>3, <2>1, SendKeepsRoom
  <2> QED
    BY <1>1, <1>3, <2>1, <2>2, SendFacts
<1>5. RingRoom'
  BY <1>4 DEF RingRoom, RoomIn
<1>6. AnswerRoom'
  <2>1. ep1in' # "reply" /\ replies' = 0
    BY <1>1, <1>2, <1>3 DEF Submitted, device
  <2>2. Outstanding' \in Nat /\ Outstanding' <= 1
    BY <2>1 DEF Outstanding, Question, Answer
  <2> QED
    BY <1>3, <1>4, <2>2, QCapAssumption DEF AnswerRoom
<1> QED
  BY <1>1, <1>2, <1>3, <1>5, <1>6 DEF Submitted, HInv, QuietBeforeSession, AttachIdle, Attaching,
     DeviceKnown, SessionBelongsToDevice, cable, device, client, loop

LEMMA RoomEp1Hello == TypeOK /\ HInv /\ Ep1Hello => HInv'
<1> SUFFICES ASSUME TypeOK, HInv, Ep1Hello PROVE HInv'
  OBVIOUS
<1>1. PICK r \in Outcomes({"cmd", "pads", "in"} \cup Banks) :
        /\ SetAndFlush([l \in {Backlight} |-> BacklightOn], Send(q, AutoMsg, r["cmd"]), r)
        /\ ep1in' = Resubmit(r["in"])
  BY DEF Ep1Hello
<1>2. Send(q, AutoMsg, r["cmd"]) \in QueueOf(Command) /\ RoomIn(Send(q, AutoMsg, r["cmd"]))
  <2>1. q \in QueueOf(Command) /\ r["cmd"] \in BOOLEAN /\ AutoMsg \in Command /\ RoomIn(q)
    BY OutcomeType, AutoIsCommand DEF TypeOK, HInv, RingRoom
  <2> QED
    BY <2>1, SendFacts, SendKeepsRoom
<1>3. RingRoom'
  <2>1. \A b \in Banks : r[b] \in BOOLEAN
    BY OutcomeType
  <2>2. \A l \in DOMAIN [l \in {Backlight} |-> BacklightOn] :
           [k \in {Backlight} |-> BacklightOn][l] \in Nat
    BY LevelAssumption
  <2> QED
    BY <1>1, <1>2, <2>1, <2>2, SetAndFlushRoom
<1>4. /\ pc = "events" /\ ep1in = "reply" /\ sessionUp' = TRUE /\ ep1in' # "reply"
      /\ UNCHANGED <<cable, device, ctrl, evt, newAddr, dev, loop>>
  BY <1>1 DEF Ep1Hello, Resubmit
<1>5. ~Attaching /\ ~Attaching'
  BY <1>4 DEF HInv, AttachIdle, Attaching, loop
<1> QED
  BY <1>3, <1>4, <1>5 DEF HInv, AnswerRoom, QuietBeforeSession, AttachIdle, Attaching, DeviceKnown,
     SessionBelongsToDevice, cable, device, loop

LEMMA RoomEp4Report == TypeOK /\ HInv /\ Ep4Report => HInv'
<1> SUFFICES ASSUME TypeOK, HInv, Ep4Report PROVE HInv'
  OBVIOUS
<1>1. PICK rep \in [Pads -> Pressures], r \in Outcomes({"in"} \cup Banks) :
        SetAndFlush([p \in Pads |-> Echo(p, rep[p])], q, r)
  BY DEF Ep4Report
<1>2. \A p \in Pads : Echo(p, rep[p]) \in Nat
  BY <1>1, EchoType
<1>3. q \in QueueOf(Command) /\ RoomIn(q) /\ \A b \in Banks : r[b] \in BOOLEAN
  BY OutcomeType DEF TypeOK, HInv, RingRoom
<1>4. RingRoom'
  BY <1>1, <1>2, <1>3, SetAndFlushRoom
<1>5. sessionUp /\ pc = "events" /\ UNCHANGED <<cable, device, ctrl, ep1in, client, loop>>
  BY DEF Ep4Report, HInv, QuietBeforeSession
<1> QED
  BY <1>4, <1>5 DEF HInv, AnswerRoom, QuietBeforeSession, AttachIdle, Attaching, DeviceKnown,
     SessionBelongsToDevice, cable, device, client, loop

LEMMA RoomDrainEnd == TypeOK /\ HInv /\ DrainEnd => HInv'
<1> SUFFICES ASSUME TypeOK, HInv, DrainEnd PROVE HInv'
  OBVIOUS
<1>1. PICK r \in Outcomes(Banks) :
        IF any THEN SetAndFlush(<<>>, q, r) ELSE UNCHANGED q
  BY DEF DrainEnd
<1>2. RingRoom'
  <2>1. CASE any
    <3>1. \A l \in DOMAIN <<>> : <<>>[l] \in Nat
      OBVIOUS
    <3>2. q \in QueueOf(Command) /\ RoomIn(q) /\ \A b \in Banks : r[b] \in BOOLEAN
      BY OutcomeType DEF TypeOK, HInv, RingRoom
    <3> QED
      BY <1>1, <2>1, <3>1, <3>2, SetAndFlushRoom
  <2>2. CASE ~any
    BY <1>1, <2>2 DEF HInv, RingRoom, RoomIn
  <2> QED
    BY <2>1, <2>2
<1>3. sessionUp /\ pc = "drain" /\ pc' = "swap" /\ UNCHANGED <<cable, device, inputs, client>>
  BY DEF DrainEnd, HInv, QuietBeforeSession
<1> QED
  BY <1>2, <1>3 DEF HInv, AnswerRoom, QuietBeforeSession, AttachIdle, Attaching, DeviceKnown,
     SessionBelongsToDevice, cable, device, inputs, client

LEMMA RoomReboot == Reboot => HInv'
<1>1. GetDeviceInfo # NoMsg
  BY AutoIsCommand, NoMsgAssumption
<1> QED
  BY <1>1, QCapAssumption DEF Reboot, EmptyQueue, HInv, RingRoom, RoomIn, AnswerRoom, Outstanding,
     Question, Answer, QuietBeforeSession, AttachIdle, Attaching, DeviceKnown,
     SessionBelongsToDevice, cable

LEMMA RoomPlugIn ==
    ASSUME TypeOK, HInv, NEW kind \in {"mk1", "other"}, PlugIn(kind)
    PROVE  HInv'
  BY DEF PlugIn, HInv, RingRoom, RoomIn, AnswerRoom, Outstanding, Question, Answer,
     QuietBeforeSession, AttachIdle, Attaching, DeviceKnown, SessionBelongsToDevice,
     cable, device, inputs, transfers, client, loop, TypeOK, QueueOf

LEMMA RoomUnchanged ==
    ASSUME HInv, UNCHANGED <<cable, device, transfers, client, pc>>
    PROVE  HInv'
  BY DEF HInv, RingRoom, RoomIn, AnswerRoom, Outstanding, Question, Answer,
     QuietBeforeSession, AttachIdle, Attaching, DeviceKnown, SessionBelongsToDevice,
     cable, device, inputs, transfers, client, loop

LEMMA RoomStep == TypeOK /\ HInv /\ [Next]_vars => HInv'
<1>1. ASSUME HInv, NEW l \in Leds, NEW v \in Levels, LedWrite(l, v) PROVE HInv'
  BY <1>1, RoomUnchanged DEF LedWrite, loop
<1>2. HInv /\ UNCHANGED vars => HInv'
  BY RoomUnchanged DEF vars, loop
<1> QED
  BY <1>1, <1>2, RoomEp1OutCb, RoomCtrlCb, RoomEp1Hello, RoomEp1Other, RoomEp4Report, RoomEp4Other,
     RoomNewDev, RoomDevGone, RoomTick, RoomDrainOne, RoomDrainEnd, RoomTakeAddr, RoomClaim,
     RoomSetInterface, RoomReboot, RoomDispWake, RoomDispTested, RoomDispAssert, RoomDispQuit,
     RoomDeviceTakes, RoomDeviceReplies, RoomUnplug, RoomPlugIn
     DEF Next, Callback, ClientLoop, Display, Engine, Controller, Cable

LEMMA HandshakeInvariant == Spec => []HInv
  BY TypeCorrect, RoomInit, RoomStep, PTL DEF Spec

(* Neither GET_DEVICE_INFO nor AUTO_MSG ever finds the ring full, however  *)
(* often the cable is pulled and whatever transfers fail.                  *)
THEOREM HandshakeFindsRoom == Spec => []RoomForHandshake
<1>1. TypeOK /\ HInv => RoomForHandshake
  <2> SUFFICES ASSUME TypeOK, HInv PROVE RoomForHandshake
    OBVIOUS
  <2>1. Len(q.pend) \in Nat /\ replies \in Nat
    BY DEF TypeOK, QueueOf
  <2>2. ctrl = "sub" => Len(q.pend) < QCap
    BY DEF HInv, AttachIdle, Attaching, RingRoom, RoomIn
  <2>3. ep1in = "reply" => Outstanding \in Nat /\ Outstanding >= 1
    BY <2>1 DEF Outstanding, Question, Answer
  <2>4. ep1in = "reply" /\ ~sessionUp => Len(q.pend) + Outstanding <= QCap
    BY DEF HInv, AnswerRoom
  <2>5. ep1in = "reply" /\ ~sessionUp => Len(q.pend) < QCap
    BY <2>1, <2>3, <2>4, QCapAssumption
  <2> QED
    BY <2>2, <2>5 DEF RoomForHandshake
<1> QED
  BY <1>1, TypeCorrect, HandshakeInvariant, PTL

(* A session never outlives its device into the next one.                  *)
THEOREM SessionKeepsDevice == Spec => []SessionBelongsToDevice
<1>1. HInv => SessionBelongsToDevice
  BY DEF HInv
<1> QED
  BY <1>1, HandshakeInvariant, PTL

-----------------------------------------------------------------------------
(* Held pads.  What SESSION.leds has for a pad at rest is inductive: of the*)
(* handlers that light LEDs each either leaves the pads alone or treats a  *)
(* held pad apart.                                                         *)
ShadowRests == \A p \in Pads : ~touched[p] => leds[p] = Clamp(base[p])

(* What Set does to one LED.                                               *)
LEMMA SetOne ==
    ASSUME TypeOK, NEW want, NEW l \in Leds
    PROVE  Set(want)[l] = IF l \in DOMAIN want THEN Clamp(want[l]) ELSE leds[l]
  BY DEF Set

LEMMA PadsAreLeds == \A p \in Pads : p \in Leds /\ p # Backlight
  BY LedAssumption DEF Leds

LEMMA RestInit == Init => ShadowRests
  BY PadsAreLeds, LevelAssumption DEF Init, Dark, ShadowRests, Clamp

LEMMA RestEp1Hello == TypeOK /\ ShadowRests /\ Ep1Hello => ShadowRests'
<1> SUFFICES ASSUME TypeOK, ShadowRests, Ep1Hello PROVE ShadowRests'
  OBVIOUS
<1>1. leds' = Set([l \in {Backlight} |-> BacklightOn]) /\ UNCHANGED <<base, touched>>
  BY DEF Ep1Hello, SetAndFlush
<1>2. \A p \in Pads : leds'[p] = leds[p]
  BY <1>1, SetOne, PadsAreLeds
<1> QED
  BY <1>1, <1>2 DEF ShadowRests, Clamp

LEMMA RestEp4Report == TypeOK /\ Ep4Report => ShadowRests'
<1> SUFFICES ASSUME TypeOK, Ep4Report, NEW p \in Pads, ~touched'[p]
             PROVE  leds'[p] = Clamp(base'[p])
  BY DEF ShadowRests, Clamp
<1>1. PICK rep \in [Pads -> Pressures] :
        /\ touched' = [k \in Pads |-> Deadzone(rep[k]) > 0]
        /\ leds' = Set([k \in Pads |-> Echo(k, rep[k])])
  BY DEF Ep4Report, SetAndFlush
<1>2. leds'[p] = Clamp(Echo(p, rep[p]))
  BY <1>1, SetOne, PadsAreLeds
<1>3. Echo(p, rep[p]) = base[p]
  BY <1>1 DEF Echo
<1> QED
  BY <1>2, <1>3 DEF Ep4Report

LEMMA RestDrainOne == TypeOK /\ ShadowRests /\ DrainOne => ShadowRests'
<1> SUFFICES ASSUME TypeOK, ShadowRests, DrainOne, NEW p \in Pads, ~touched'[p]
             PROVE  leds'[p] = Clamp(base'[p])
  BY DEF ShadowRests, Clamp
<1> DEFINE m == Head(ledq)
           shown == IF m.led \in Pads THEN ~touched[m.led] ELSE TRUE
           want == [l \in (IF shown THEN {m.led} ELSE {}) |-> m.level]
<1>1. leds' = Set(want) /\ base' = [k \in Pads |-> IF k = m.led THEN m.level ELSE base[k]]
      /\ touched' = touched
  BY DEF DrainOne
<1>2. leds'[p] = IF p \in DOMAIN want THEN Clamp(want[p]) ELSE leds[p]
  BY <1>1, SetOne, PadsAreLeds
<1>3. CASE p = m.led
  BY <1>1, <1>2, <1>3
<1>4. CASE p # m.led
  BY <1>1, <1>2, <1>4 DEF ShadowRests
<1> QED
  BY <1>3, <1>4

LEMMA RestDrainEnd == TypeOK /\ ShadowRests /\ DrainEnd => ShadowRests'
<1> SUFFICES ASSUME TypeOK, ShadowRests, DrainEnd PROVE ShadowRests'
  OBVIOUS
<1>1. UNCHANGED <<base, touched>> /\ (leds' = Set(<<>>) \/ leds' = leds)
  BY DEF DrainEnd, SetAndFlush
<1>2. \A p \in Pads : leds'[p] = leds[p]
  BY <1>1, SetOne, PadsAreLeds
<1> QED
  BY <1>1, <1>2 DEF ShadowRests, Clamp

LEMMA RestReboot == Reboot => ShadowRests'
  BY PadsAreLeds, LevelAssumption DEF Reboot, Dark, ShadowRests, Clamp

LEMMA RestUnchanged ==
    ASSUME ShadowRests, UNCHANGED <<leds, base, touched>>
    PROVE  ShadowRests'
  BY DEF ShadowRests, Clamp

(* The steps that touch neither the LEDs nor what is known of the pads.    *)
LEMMA RestElsewhere ==
    ASSUME Next, ~Ep1Hello, ~Ep4Report, ~DrainOne, ~DrainEnd, ~Reboot
    PROVE  UNCHANGED <<leds, base, touched>>
  BY DEF Next, Callback, ClientLoop, Display, Engine, Controller, Cable,
     Ep1OutCb, CtrlCb, Ep1Other, Ep4Other, NewDev, DevGone, Tick, TakeAddr, Claim,
     SetInterface, DispWake, DispTested, DispAssert, DispQuit, DeviceTakes, DeviceReplies, Unplug,
     PlugIn, LedWrite, ledState

LEMMA ShadowInvariant == Spec => []ShadowRests
<1>1. TypeOK /\ ShadowRests /\ [Next]_vars => ShadowRests'
  <2>1. UNCHANGED vars => UNCHANGED <<leds, base, touched>>
    BY DEF vars, ledState
  <2> QED
    BY <2>1, RestElsewhere, RestUnchanged, RestEp1Hello, RestEp4Report, RestDrainOne, RestDrainEnd,
       RestReboot
<1> QED
  BY <1>1, TypeCorrect, RestInit, PTL DEF Spec

-----------------------------------------------------------------------------
(* LEDs.  Commands underway are a queue: a command that is sent goes to its*)
(* end, the controller takes its first, and while no controller is there   *)
(* to take it the first is lost.  What is Kept of a bank survives all      *)
(* three, and a flush that does not give up settles every dirty bank.      *)

(* The commands that queue and transfer hold and the controller has not    *)
(* taken, and what they will make of a bank of the LEDs d.                 *)
Line(fq, a) == (IF fq.fly # NoMsg /\ ~a THEN <<fq.fly>> ELSE <<>>) \o fq.pend
FramesFor(b, u) == {i \in DOMAIN u : u[i].cmd = "dimm_leds" /\ u[i].bank = b}
Shows(u, d, b, st) ==
    \/ FramesFor(b, u) = {} /\ \A l \in Bank(b) : d[l] = st[l]
    \/ \E i \in FramesFor(b, u) :
          u[i] = Frame(b, st) /\ \A j \in FramesFor(b, u) : j <= i

(* p: the controller was sent a frame for the bank since it has power.  A  *)
(* controller that was not, and will not be, is left out.                  *)
Kept(u, d, b, st, p) == Shows(u, d, b, st) \/ (~p /\ FramesFor(b, u) = {})

LEMMA SettledShows == \A b \in Banks : Settled(b) <=> Shows(Line(q, ack), devLeds, b, leds)
  BY DEF Settled, FramesUnderway, Underway, Shows, Line, FramesFor

(* Frames, and which bank a command is for.                                *)
LEMMA FrameFields ==
    ASSUME NEW b, NEW st
    PROVE  /\ Frame(b, st).cmd = "dimm_leds" /\ Frame(b, st).bank = b
           /\ Frame(b, st).vals = [l \in Bank(b) |-> st[l]]
  BY DEF Frame

LEMMA HandshakeFields == GetDeviceInfo.cmd # "dimm_leds" /\ AutoMsg.cmd # "dimm_leds"
  BY DEF GetDeviceInfo, AutoMsg

LEMMA FrameAgrees ==
    ASSUME NEW b, NEW s, NEW t, \A l \in Bank(b) : s[l] = t[l]
    PROVE  Frame(b, s) = Frame(b, t)
<1>1. [l \in Bank(b) |-> s[l]] = [l \in Bank(b) |-> t[l]]
  OBVIOUS
<1> QED
  BY <1>1 DEF Frame

(* The same bank of other LEDs.                                            *)
LEMMA ShowsSame ==
    ASSUME NEW u, NEW d, NEW b, NEW s, NEW t, \A l \in Bank(b) : s[l] = t[l],
           Shows(u, d, b, s)
    PROVE  Shows(u, d, b, t)
  BY FrameAgrees DEF Shows

LEMMA KeptSame ==
    ASSUME NEW u, NEW d, NEW b, NEW s, NEW t, NEW p, \A l \in Bank(b) : s[l] = t[l],
           Kept(u, d, b, s, p)
    PROVE  Kept(u, d, b, t, p)
  BY ShowsSame DEF Kept

(* Without a controller the LEDs it shows do not matter.                   *)
LEMMA KeptAway ==
    ASSUME NEW u, NEW d, NEW e, NEW b, NEW st, NEW p, Kept(u, d, b, st, p)
    PROVE  Kept(u, e, b, st, FALSE)
  BY DEF Kept, Shows

LEMMA KeptAppendOther ==
    ASSUME NEW u \in Seq(Command), NEW m \in Command, NEW d, NEW b, NEW st, NEW p,
           ~(m.cmd = "dimm_leds" /\ m.bank = b), Kept(u, d, b, st, p)
    PROVE  Kept(Append(u, m), d, b, st, p)
<1> DEFINE w == Append(u, m)
<1>1. /\ DOMAIN u = 1 .. Len(u) /\ Len(u) \in Nat /\ DOMAIN w = 1 .. Len(u) + 1
      /\ \A i \in 1 .. Len(u) : w[i] = u[i]
      /\ w[Len(u) + 1] = m
  BY AppendProperties, LenProperties
<1> HIDE DEF w
<1>2. FramesFor(b, w) = FramesFor(b, u)
  BY <1>1 DEF FramesFor
<1>3. \A i \in FramesFor(b, u) : w[i] = u[i]
  BY <1>1 DEF FramesFor
<1> QED
  BY <1>2, <1>3 DEF Kept, Shows, w

LEMMA ShowsAppendFrame ==
    ASSUME NEW u \in Seq(Command), NEW b \in Banks, NEW st, Frame(b, st) \in Command, NEW d
    PROVE  Shows(Append(u, Frame(b, st)), d, b, st)
<1> DEFINE m == Frame(b, st)
           w == Append(u, m)
<1>1. /\ Len(u) \in Nat /\ DOMAIN w = 1 .. Len(u) + 1 /\ w[Len(u) + 1] = m
  BY AppendProperties, LenProperties
<1>2. m.cmd = "dimm_leds" /\ m.bank = b
  BY FrameFields
<1> HIDE DEF w, m
<1>3. Len(u) + 1 \in FramesFor(b, w)
  BY <1>1, <1>2 DEF FramesFor
<1>4. \A j \in FramesFor(b, w) : j <= Len(u) + 1
  BY <1>1 DEF FramesFor
<1> QED
  BY <1>1, <1>3, <1>4 DEF Shows, w, m

(* The controller takes the first command: what it lights in the bank is   *)
(* what the frame says, if it is one for the bank.                         *)
LEMMA ShowsTake ==
    ASSUME NEW m \in Command, NEW p \in Seq(Command), NEW d, NEW e, NEW b \in Banks, NEW st,
           Shows(<<m>> \o p, d, b, st),
           (m.cmd = "dimm_leds" /\ m.bank = b) => \A l \in Bank(b) : e[l] = m.vals[l],
           ~(m.cmd = "dimm_leds" /\ m.bank = b) => \A l \in Bank(b) : e[l] = d[l]
    PROVE  Shows(p, e, b, st)
<1> DEFINE u == <<m>> \o p
<1>1. /\ DOMAIN p = 1 .. Len(p) /\ Len(p) \in Nat /\ DOMAIN u = 1 .. Len(p) + 1
      /\ \A i \in 1 .. Len(p) : u[i + 1] = p[i]
      /\ u[1] = m
  OBVIOUS
<1>2. Shows(u, d, b, st)
  OBVIOUS
<1> HIDE DEF u
<1>3. \A i \in 1 .. Len(p) : i \in FramesFor(b, p) <=> i + 1 \in FramesFor(b, u)
  BY <1>1 DEF FramesFor
<1>4. FramesFor(b, p) \subseteq 1 .. Len(p) /\ FramesFor(b, u) \subseteq 1 .. Len(p) + 1
  BY <1>1 DEF FramesFor
<1>5. 1 \in FramesFor(b, u) <=> (m.cmd = "dimm_leds" /\ m.bank = b)
  BY <1>1 DEF FramesFor
<1>6. CASE FramesFor(b, u) = {}
  <2>1. FramesFor(b, p) = {}
    BY <1>3, <1>4, <1>6
  <2> QED
    BY <1>2, <1>5, <1>6, <2>1 DEF Shows
<1>7. CASE FramesFor(b, u) # {}
  <2>1. PICK i \in FramesFor(b, u) : u[i] = Frame(b, st) /\ \A j \in FramesFor(b, u) : j <= i
    BY <1>2, <1>7 DEF Shows
  <2>2. i \in 1 .. Len(p) + 1
    BY <1>4, <2>1
  <2>3. CASE i = 1
    <3>1. FramesFor(b, p) = {}
      <4> SUFFICES ASSUME NEW j \in FramesFor(b, p) PROVE FALSE
        OBVIOUS
      <4>1. j \in 1 .. Len(p) /\ j + 1 \in FramesFor(b, u)
        BY <1>3, <1>4
      <4>2. j + 1 <= 1
        BY <2>1, <2>3, <4>1
      <4> QED
        BY <4>1, <4>2
    <3>2. m.cmd = "dimm_leds" /\ m.bank = b /\ m.vals = [l \in Bank(b) |-> st[l]]
      BY <1>1, <2>1, <2>3 DEF Frame
    <3>3. \A l \in Bank(b) : e[l] = st[l]
      BY <3>2
    <3> QED
      BY <3>1, <3>3 DEF Shows
  <2>4. CASE i # 1
    <3>1. PICK k \in 1 .. Len(p) : i = k + 1
      <4>1. i - 1 \in 1 .. Len(p) /\ i = (i - 1) + 1
        BY <1>1, <2>2, <2>4
      <4> QED
        BY <4>1
    <3>2. k \in FramesFor(b, p) /\ p[k] = Frame(b, st)
      BY <1>1, <1>3, <2>1, <3>1
    <3>3. \A j \in FramesFor(b, p) : j <= k
      <4> TAKE j \in FramesFor(b, p)
      <4>1. j \in 1 .. Len(p) /\ j + 1 \in FramesFor(b, u)
        BY <1>3, <1>4
      <4>2. j + 1 <= k + 1
        BY <2>1, <3>1, <4>1
      <4> QED
        BY <4>1, <4>2
    <3> QED
      BY <3>2, <3>3 DEF Shows
  <2> QED
    BY <2>3, <2>4
<1> QED
  BY <1>6, <1>7

LEMMA KeptTake ==
    ASSUME NEW m \in Command, NEW w \in Seq(Command), NEW d, NEW e, NEW b \in Banks, NEW st,
           NEW x, NEW y, Kept(<<m>> \o w, d, b, st, x),
           (m.cmd = "dimm_leds" /\ m.bank = b) => \A l \in Bank(b) : e[l] = m.vals[l],
           ~(m.cmd = "dimm_leds" /\ m.bank = b) => (y => x) /\ \A l \in Bank(b) : e[l] = d[l]
    PROVE  Kept(w, e, b, st, y)
<1>1. CASE Shows(<<m>> \o w, d, b, st)
  BY <1>1, ShowsTake DEF Kept
<1>2. CASE ~x /\ FramesFor(b, <<m>> \o w) = {}
  <2> DEFINE u == <<m>> \o w
  <2>1. /\ DOMAIN w = 1 .. Len(w) /\ Len(w) \in Nat /\ DOMAIN u = 1 .. Len(w) + 1
        /\ \A i \in 1 .. Len(w) : u[i + 1] = w[i]
        /\ u[1] = m
    OBVIOUS
  <2>2. FramesFor(b, u) = {}
    BY <1>2
  <2> HIDE DEF u
  <2>3. ~(m.cmd = "dimm_leds" /\ m.bank = b)
    BY <2>1, <2>2 DEF FramesFor
  <2>4. FramesFor(b, w) = {}
    <3> SUFFICES ASSUME NEW i \in FramesFor(b, w) PROVE FALSE
      OBVIOUS
    <3>1. i \in 1 .. Len(w) /\ w[i].cmd = "dimm_leds" /\ w[i].bank = b
      BY <2>1 DEF FramesFor
    <3>2. i + 1 \in 1 .. Len(w) + 1 /\ u[i + 1] = w[i]
      BY <2>1, <3>1
    <3>3. i + 1 \in FramesFor(b, u)
      BY <2>1, <3>1, <3>2 DEF FramesFor
    <3> QED
      BY <2>2, <3>3
  <2>5. ~y
    BY <1>2, <2>3
  <2> QED
    BY <2>4, <2>5 DEF Kept
<1> QED
  BY <1>1, <1>2 DEF Kept

(* The first command is lost.                                              *)
LEMMA KeptLose ==
    ASSUME NEW m \in Command, NEW w \in Seq(Command), NEW d, NEW b \in Banks, NEW st,
           Kept(<<m>> \o w, d, b, st, FALSE)
    PROVE  Kept(w, d, b, st, FALSE)
<1> DEFINE e == [l \in Bank(b) |-> IF m.cmd = "dimm_leds" /\ m.bank = b
                                   THEN m.vals[l] ELSE d[l]]
<1>1. (m.cmd = "dimm_leds" /\ m.bank = b) => \A l \in Bank(b) : e[l] = m.vals[l]
  OBVIOUS
<1>2. ~(m.cmd = "dimm_leds" /\ m.bank = b) =>
        (FALSE => FALSE) /\ \A l \in Bank(b) : e[l] = d[l]
  OBVIOUS
<1> HIDE DEF e
<1>3. Kept(w, e, b, st, FALSE)
  BY <1>1, <1>2, KeptTake
<1> QED
  BY <1>3, KeptAway

(* What was taken is on the transfer.                                      *)
Quiet(fq, a) == fq.fly = NoMsg => ~a

LEMMA LineType ==
    ASSUME NEW fq \in QueueOf(Command), NEW a PROVE Line(fq, a) \in Seq(Command)
<1>1. fq.pend \in Seq(Command) /\ fq.fly \in Command \cup {NoMsg}
  BY DEF QueueOf
<1>2. (IF fq.fly # NoMsg /\ ~a THEN <<fq.fly>> ELSE <<>>) \in Seq(Command)
  BY <1>1
<1> QED
  BY <1>1, <1>2, ConcatProperties DEF Line

LEMMA NothingBefore ==
    ASSUME NEW p \in Seq(Command), NEW m \in Command
    PROVE  <<>> \o p = p /\ <<>> \o Append(p, m) = Append(p, m)
BY AppendProperties, ConcatProperties

LEMMA PutBefore ==
    ASSUME NEW p \in Seq(Command), NEW m \in Command, NEW f \in Command
    PROVE  <<f>> \o Append(p, m) = Append(<<f>> \o p, m)
<1> DEFINE s == <<f>> \o Append(p, m)
           t == Append(<<f>> \o p, m)
<1>1. s \in Seq(Command) /\ t \in Seq(Command) /\ Len(s) = Len(p) + 2 /\ Len(t) = Len(p) + 2
      /\ Len(p) \in Nat
  OBVIOUS
<1>2. \A i \in 1 .. Len(p) + 2 : s[i] = t[i]
  OBVIOUS
<1> HIDE DEF s, t
<1> QED
  BY <1>1, <1>2, SeqEqual DEF s, t

LEMMA QueuedFields ==
    ASSUME NEW M, NEW fq \in QueueOf(M), NEW m \in M
    PROVE  [fq EXCEPT !.pend = Append(@, m)] = [pend |-> Append(fq.pend, m), fly |-> fq.fly]
<1> DEFINE aq == [fq EXCEPT !.pend = Append(@, m)]
<1>1. fq.pend \in Seq(M) /\ fq.fly \in M \cup {NoMsg} /\ fq = [pend |-> fq.pend, fly |-> fq.fly]
  BY DEF QueueOf
<1>2. aq = [pend |-> Append(fq.pend, m), fly |-> fq.fly]
  BY <1>1
<1> QED
  BY <1>2

(* A submit that fails loses the first command of the line that the sent   *)
(* one joins.                                                              *)
LEMMA SendLine ==
    ASSUME NEW fq \in QueueOf(Command), NEW m \in Command, NEW a \in BOOLEAN, NEW ok \in BOOLEAN,
           Len(fq.pend) < QCap, Quiet(fq, a)
    PROVE  LET sq == Send(fq, m, ok)
               u == Append(Line(fq, a), m)
           IN  /\ Quiet(sq, a)
               /\ Line(sq, a) = u \/ (~ok /\ \E h \in Command : u = <<h>> \o Line(sq, a))
<1>1. /\ fq.pend \in Seq(Command) /\ fq.fly \in Command \cup {NoMsg} /\ Len(fq.pend) \in Nat
      /\ fq = [pend |-> fq.pend, fly |-> fq.fly] /\ m # NoMsg
  BY NoMsgAssumption DEF QueueOf
<1> DEFINE w == Append(fq.pend, m)
           aq == [pend |-> w, fly |-> fq.fly]
<1>2. Send(fq, m, ok) = Pump(aq, ok)
  <2>1. [fq EXCEPT !.pend = Append(@, m)] = aq
    BY QueuedFields
  <2>2. ~(Len(fq.pend) >= QCap)
    BY <1>1, QCapAssumption
  <2> QED
    BY <2>1, <2>2 DEF Send
<1>3. CASE fq.fly = NoMsg
  <2>1. ~a
    BY <1>3 DEF Quiet
  <2>2. w \in Seq(Command) /\ w # <<>>
    BY <1>1
  <2>3. Line(fq, a) = fq.pend
    <3>1. Line(fq, a) = <<>> \o fq.pend
      BY <1>3 DEF Line
    <3> QED
      BY <1>1, <3>1, NothingBefore
  <2> DEFINE h == Head(w)
             t == Tail(w)
             nq == [pend |-> t, fly |-> IF ok THEN h ELSE NoMsg]
  <2>4. Pump(aq, ok) = nq
    <3> HIDE DEF w
    <3> QED
      BY <1>3, <2>2 DEF Pump
  <2>5. h \in Command /\ t \in Seq(Command) /\ <<h>> \o t = w
    <3> HIDE DEF w
    <3> QED
      BY <2>2
  <2>6. h # NoMsg
    BY <2>5, NoMsgAssumption
  <2> HIDE DEF w, h, t
  <2>7. Quiet(nq, a)
    BY <2>1 DEF Quiet
  <2>8. CASE ok
    <3>1. nq.fly = h /\ nq.pend = t
      BY <2>8
    <3>2. Line(nq, a) = <<h>> \o t
      BY <2>1, <2>6, <3>1 DEF Line
    <3>3. Line(nq, a) = w
      BY <2>5, <3>2
    <3> QED
      BY <1>2, <2>3, <2>4, <2>7, <3>3 DEF w
  <2>9. CASE ~ok
    <3>1. nq.fly = NoMsg /\ nq.pend = t
      BY <2>9
    <3>2. Line(nq, a) = <<>> \o t
      BY <3>1 DEF Line
    <3>3. Line(nq, a) = t
      BY <2>5, <3>2, ConcatEmptySeq
    <3>4. \E g \in Command : w = <<g>> \o Line(nq, a)
      BY <2>5, <3>3
    <3> QED
      BY <1>2, <2>3, <2>4, <2>7, <2>9, <3>4 DEF w
  <2> QED
    BY <2>8, <2>9
<1>4. CASE fq.fly # NoMsg
  <2>1. Pump(aq, ok) = aq
    BY <1>4 DEF Pump
  <2>2. Quiet(aq, a)
    BY <1>4 DEF Quiet
  <2>3. Line(aq, a) = Append(Line(fq, a), m)
    <3>1. CASE a
      <4>1. Line(aq, a) = <<>> \o Append(fq.pend, m) /\ Line(fq, a) = <<>> \o fq.pend
        BY <3>1 DEF Line
      <4> QED
        BY <1>1, <4>1, NothingBefore
    <3>2. CASE ~a
      <4>1. Line(aq, a) = <<fq.fly>> \o Append(fq.pend, m) /\ Line(fq, a) = <<fq.fly>> \o fq.pend
        BY <1>4, <3>2 DEF Line
      <4> QED
        BY <1>1, <1>4, <4>1, PutBefore
    <3> QED
      BY <3>1, <3>2
  <2> QED
    BY <1>2, <2>1, <2>2, <2>3
<1> QED
  BY <1>3, <1>4

(* The callback of a command; a failed submit loses the next.              *)
LEMMA DoneLine ==
    ASSUME NEW fq \in QueueOf(Command), NEW ok \in BOOLEAN
    PROVE  LET u == Line(Done(fq, ok), FALSE)
           IN  /\ Quiet(Done(fq, ok), FALSE)
               /\ fq.pend = u \/ (~ok /\ \E h \in Command : fq.pend = <<h>> \o u)
<1>1. /\ fq.pend \in Seq(Command) /\ fq.fly \in Command \cup {NoMsg}
  BY DEF QueueOf
<1> DEFINE iq == [pend |-> fq.pend, fly |-> NoMsg]
<1>2. Done(fq, ok) = Pump(iq, ok)
  <2>1. [fq EXCEPT !.fly = NoMsg] = iq
    BY DEF QueueOf
  <2> QED
    BY <2>1 DEF Done
<1>3. Quiet(Done(fq, ok), FALSE)
  BY DEF Quiet
<1>4. CASE fq.pend = <<>>
  <2>1. Pump(iq, ok) = iq
    BY <1>4 DEF Pump
  <2>2. Line(iq, FALSE) = <<>> \o fq.pend
    BY DEF Line
  <2>3. Line(iq, FALSE) = fq.pend
    BY <1>1, <2>2, ConcatEmptySeq
  <2> QED
    BY <1>2, <1>3, <2>1, <2>3
<1>5. CASE fq.pend # <<>>
  <2> DEFINE h == Head(fq.pend)
             t == Tail(fq.pend)
             nq == [pend |-> t, fly |-> IF ok THEN h ELSE NoMsg]
  <2>1. h \in Command /\ t \in Seq(Command) /\ <<h>> \o t = fq.pend
    BY <1>1, <1>5
  <2>2. h # NoMsg
    BY <2>1, NoMsgAssumption
  <2>3. Pump(iq, ok) = nq
    BY <1>5 DEF Pump
  <2> HIDE DEF h, t
  <2>4. CASE ok
    <3>1. nq.fly = h /\ nq.pend = t
      BY <2>4
    <3>2. Line(nq, FALSE) = <<h>> \o t
      BY <2>2, <3>1 DEF Line
    <3> QED
      BY <1>2, <1>3, <2>1, <2>3, <3>2
  <2>5. CASE ~ok
    <3>1. nq.fly = NoMsg /\ nq.pend = t
      BY <2>5
    <3>2. Line(nq, FALSE) = <<>> \o t
      BY <3>1 DEF Line
    <3>3. Line(nq, FALSE) = t
      BY <2>1, <3>2, ConcatEmptySeq
    <3>4. \E g \in Command : fq.pend = <<g>> \o Line(nq, FALSE)
      BY <2>1, <3>3
    <3> QED
      BY <1>2, <1>3, <2>3, <2>5, <3>4
  <2> QED
    BY <2>4, <2>5
<1> QED
  BY <1>4, <1>5

(* P: the banks the controller was sent a frame for.  A submit fails only  *)
(* while there is no controller.                                           *)
Answers(ok, P) == ok = TRUE \/ (ok = FALSE /\ P = {})

LEMMA SendKeeps ==
    ASSUME NEW fq \in QueueOf(Command), NEW m \in Command, NEW a \in BOOLEAN, NEW ok \in BOOLEAN,
           Len(fq.pend) < QCap, Quiet(fq, a), NEW P, Answers(ok, P), NEW d, NEW st, NEW b \in Banks,
           Kept(Append(Line(fq, a), m), d, b, st, b \in P)
    PROVE  Kept(Line(Send(fq, m, ok), a), d, b, st, b \in P)
<1> DEFINE u == Line(Send(fq, m, ok), a)
           v == Append(Line(fq, a), m)
<1>1. v = u \/ (~ok /\ \E h \in Command : v = <<h>> \o u)
  BY SendLine
<1>2. u \in Seq(Command)
  BY SendFacts, LineType
<1>3. Kept(v, d, b, st, b \in P)
  OBVIOUS
<1> HIDE DEF u, v
<1>4. CASE v = u
  BY <1>3, <1>4 DEF u
<1>5. CASE ~ok /\ \E h \in Command : v = <<h>> \o u
  <2>1. PICK h \in Command : v = <<h>> \o u
    BY <1>5
  <2>2. (b \in P) = FALSE
    BY <1>5 DEF Answers
  <2>3. Kept(<<h>> \o u, d, b, st, FALSE)
    BY <1>3, <2>1, <2>2
  <2>4. Kept(u, d, b, st, FALSE)
    BY <1>2, <2>3, KeptLose
  <2> QED
    BY <2>2, <2>4 DEF u
<1> QED
  BY <1>1, <1>4, <1>5

LEMMA SendOther ==
    ASSUME NEW fq \in QueueOf(Command), NEW m \in Command, m.cmd # "dimm_leds",
           NEW a \in BOOLEAN, NEW ok \in BOOLEAN, Len(fq.pend) < QCap, Quiet(fq, a),
           NEW P, Answers(ok, P), NEW B \in SUBSET Banks,
           NEW d, NEW st, \A b \in B : Kept(Line(fq, a), d, b, st, b \in P)
    PROVE  /\ Send(fq, m, ok) \in QueueOf(Command) /\ Quiet(Send(fq, m, ok), a)
           /\ \A b \in B : Kept(Line(Send(fq, m, ok), a), d, b, st, b \in P)
<1> DEFINE sq == Send(fq, m, ok)
<1>1. sq \in QueueOf(Command)
  BY SendFacts
<1>2. Quiet(sq, a)
  BY SendLine
<1>3. Line(fq, a) \in Seq(Command)
  BY LineType
<1>4. ASSUME NEW b \in B PROVE Kept(Line(sq, a), d, b, st, b \in P)
  <2>1. Kept(Append(Line(fq, a), m), d, b, st, b \in P)
    BY <1>3, KeptAppendOther
  <2>2. b \in Banks
    OBVIOUS
  <2> QED
    BY <2>1, <2>2, SendKeeps
<1> QED
  BY <1>1, <1>2, <1>4

(* What becomes of queue fq when a frame for bank b is sent if b is in s.  *)
Sends(fq, nq, st, s, b, a, d, P) ==
    /\ nq \in QueueOf(Command) /\ Quiet(nq, a)
    /\ Len(nq.pend) <= Len(fq.pend) + 1 /\ Len(nq.pend) \in Nat
    /\ b \in s => Kept(Line(nq, a), d, b, st, b \in P)
    /\ b \notin s => nq = fq
    /\ \A c \in Banks : c # b /\ Kept(Line(fq, a), d, c, st, c \in P)
                          => Kept(Line(nq, a), d, c, st, c \in P)

(* A frame that finds room settles its bank and leaves the other.          *)
LEMMA SendFrameSettles ==
    ASSUME NEW fq \in QueueOf(Command), NEW st \in [Leds -> 0 .. MaxLevel], NEW s,
           NEW b \in Banks, NEW r, NEW P, Answers(r[b], P), NEW a \in BOOLEAN,
           NEW d, Len(fq.pend) < QCap, Quiet(fq, a)
    PROVE  Sends(fq, SendFrame(fq, st, s, b, r), st, s, b, a, d, P)
<1> DEFINE nq == SendFrame(fq, st, s, b, r)
           m == Frame(b, st)
           ok == r[b]
           sq == Send(fq, m, ok)
<1>1. Len(fq.pend) \in Nat
  BY DEF QueueOf
<1>2. CASE b \notin s
  <2>1. nq = fq
    BY <1>2 DEF SendFrame
  <2> QED
    BY <1>1, <1>2, <2>1 DEF Sends
<1>3. CASE b \in s
  <2>1. m \in Command
    BY FrameIsCommand
  <2>2. m.cmd = "dimm_leds" /\ m.bank = b
    BY DEF Frame
  <2>3. Line(fq, a) \in Seq(Command)
    BY LineType
  <2>4. Kept(Append(Line(fq, a), m), d, b, st, b \in P)
    BY <2>1, <2>3, ShowsAppendFrame DEF Kept
  <2>5. nq = sq
    BY <1>3 DEF SendFrame
  <2>14. ok \in BOOLEAN /\ Answers(ok, P)
    BY DEF Answers
  <2> HIDE DEF m, ok
  <2>6. sq \in QueueOf(Command) /\ Len(sq.pend) \in Nat /\ Len(sq.pend) <= Len(fq.pend) + 1
    <3>1. /\ sq \in QueueOf(Command) /\ Len(sq.pend) \in Nat
          /\ fq.fly = NoMsg /\ Len(fq.pend) < QCap => Len(sq.pend) = Len(fq.pend)
          /\ fq.fly # NoMsg /\ Len(fq.pend) < QCap => Len(sq.pend) = Len(fq.pend) + 1
      BY <2>1, <2>14, SendFacts
    <3> HIDE DEF sq
    <3> QED
      BY <1>1, <3>1
  <2>7. Quiet(sq, a)
    BY <2>1, <2>14, SendLine
  <2>8. ASSUME NEW c \in Banks, c # b, Kept(Line(fq, a), d, c, st, c \in P)
        PROVE  Kept(Line(sq, a), d, c, st, c \in P)
    <3>1. Kept(Append(Line(fq, a), m), d, c, st, c \in P)
      BY <2>1, <2>2, <2>3, <2>8, KeptAppendOther
    <3> QED
      BY <2>1, <2>14, <3>1, SendKeeps
  <2>9. Kept(Line(sq, a), d, b, st, b \in P)
    BY <2>1, <2>4, <2>14, SendKeeps
  <2> HIDE DEF sq, nq
  <2>10. /\ nq \in QueueOf(Command) /\ Quiet(nq, a)
         /\ Len(nq.pend) <= Len(fq.pend) + 1 /\ Len(nq.pend) \in Nat
         /\ Kept(Line(nq, a), d, b, st, b \in P)
         /\ \A c \in Banks : c # b /\ Kept(Line(fq, a), d, c, st, c \in P)
                               => Kept(Line(nq, a), d, c, st, c \in P)
    BY <2>5, <2>6, <2>7, <2>8, <2>9
  <2> QED
    BY <1>1, <1>3, <2>10 DEF nq, Sends
<1> QED
  BY <1>2, <1>3

(* led_flush: a flush that does not give up settles both banks.            *)
LEMMA FlushSettles ==
    ASSUME NEW fq \in QueueOf(Command), NEW st \in [Leds -> 0 .. MaxLevel],
           NEW s, NEW r, NEW P, \A b \in Banks : Answers(r[b], P),
           NEW a \in BOOLEAN, NEW d, Quiet(fq, a),
           \A b \in Banks \ s : Kept(Line(fq, a), d, b, st, b \in P)
    PROVE  LET nq == FlushQueue(fq, st, s, r)
           IN  /\ Quiet(nq, a)
               /\ \A b \in Banks \ FlushDirty(fq, s) : Kept(Line(nq, a), d, b, st, b \in P)
<1> DEFINE lq == SendFrame(fq, st, s, "low", r)
           hq == SendFrame(lq, st, s, "high", r)
<1>1. CASE ~Flushes(fq)
  BY <1>1 DEF FlushQueue, FlushDirty
<1>2. CASE Flushes(fq)
  <2>1. Len(fq.pend) \in Nat /\ Len(fq.pend) + 1 < QCap
    BY <1>2, FlushAssumption, QCapAssumption DEF Flushes, QueueOf
  <2>2. /\ "low" \in Banks /\ "high" \in Banks /\ Banks = {"low", "high"}
        /\ Answers(r["low"], P) /\ Answers(r["high"], P)
    BY DEF Banks
  <2>3. Len(fq.pend) < QCap
    BY <2>1, QCapAssumption
  <2>4. /\ lq \in QueueOf(Command) /\ Quiet(lq, a)
        /\ Len(lq.pend) <= Len(fq.pend) + 1 /\ Len(lq.pend) \in Nat
        /\ "low" \in s => Kept(Line(lq, a), d, "low", st, "low" \in P)
        /\ "low" \notin s => lq = fq
        /\ \A c \in Banks : c # "low" /\ Kept(Line(fq, a), d, c, st, c \in P)
                              => Kept(Line(lq, a), d, c, st, c \in P)
    <3>1. Sends(fq, lq, st, s, "low", a, d, P)
      BY <2>2, <2>3, SendFrameSettles
    <3> HIDE DEF lq
    <3> QED
      BY <3>1 DEF Sends
  <2> HIDE DEF lq
  <2>5. Len(lq.pend) < QCap
    BY <2>1, <2>4, QCapAssumption
  <2>6. /\ Quiet(hq, a)
        /\ "high" \in s => Kept(Line(hq, a), d, "high", st, "high" \in P)
        /\ "high" \notin s => hq = lq
        /\ \A c \in Banks : c # "high" /\ Kept(Line(lq, a), d, c, st, c \in P)
                              => Kept(Line(hq, a), d, c, st, c \in P)
    <3>1. Sends(lq, hq, st, s, "high", a, d, P)
      BY <2>2, <2>4, <2>5, SendFrameSettles
    <3> HIDE DEF hq
    <3> QED
      BY <3>1 DEF Sends
  <2> HIDE DEF hq
  <2>7. Kept(Line(lq, a), d, "low", st, "low" \in P)
    BY <2>2, <2>4
  <2>8. Kept(Line(hq, a), d, "low", st, "low" \in P)
    BY <2>2, <2>6, <2>7
  <2>9. Kept(Line(hq, a), d, "high", st, "high" \in P)
    BY <2>2, <2>4, <2>6
  <2>10. FlushQueue(fq, st, s, r) = hq
    BY <1>2 DEF FlushQueue, lq, hq
  <2>11. Banks \ FlushDirty(fq, s) \subseteq {"low", "high"}
    BY <2>2
  <2> QED
    BY <2>6, <2>8, <2>9, <2>10, <2>11
<1> QED
  BY <1>1, <1>2

(* Every bank that is not dirty is kept.                                   *)
InOrder == Quiet(q, ack) /\ \A b \in Banks \ dirty : Kept(Line(q, ack), devLeds, b, leds, b \in painted)

LEMMA InOrderGoal ==
    ASSUME Quiet(q', ack'),
           \A b \in Banks \ dirty' : Kept(Line(q', ack'), devLeds', b, leds', b \in painted')
    PROVE  InOrder'
  BY Zenon DEF InOrder, Quiet, Kept, Shows, Line, FramesFor, Frame

(* set, then flush: a bank is dirty or settled again.                      *)
LEMMA SetAndFlushSettles ==
    ASSUME TypeOK, NEW want, \A l \in DOMAIN want : want[l] \in Nat,
           NEW fq \in QueueOf(Command), NEW r,
           \A b \in Banks : Answers(r[b], painted),
           SetAndFlush(want, fq, r), UNCHANGED <<ack, devLeds, painted>>, Quiet(fq, ack),
           \A b \in Banks \ dirty : Kept(Line(fq, ack), devLeds, b, leds, b \in painted)
    PROVE  InOrder'
<1> DEFINE st == Set(want)
           s == DirtyBy(want)
           nq == FlushQueue(fq, st, s, r)
<1>1. st \in [Leds -> 0 .. MaxLevel] /\ ack \in BOOLEAN
  BY SetType DEF TypeOK
<1>2. leds' = st /\ dirty' = FlushDirty(fq, s) /\ q' = nq
  BY DEF SetAndFlush
<1>3. \A b \in Banks \ s : b \notin dirty /\ \A l \in Bank(b) : leds[l] = st[l]
  BY DEF DirtyBy
<1> HIDE DEF st, s
<1>4. \A b \in Banks \ s : Kept(Line(fq, ack), devLeds, b, st, b \in painted)
  BY <1>3, KeptSame
<1>5. /\ Quiet(nq, ack)
      /\ \A b \in Banks \ FlushDirty(fq, s) : Kept(Line(nq, ack), devLeds, b, st, b \in painted)
  BY <1>1, <1>4, FlushSettles
<1> HIDE DEF nq
<1> QED
  BY <1>2, <1>5, InOrderGoal

-----------------------------------------------------------------------------
(* The invariant: losses come from the head of the line and only while no  *)
(* controller is there, so that what is left of it ends in the latest      *)
(* state of every bank that is not dirty.                                  *)

PaintedKnown == port # "mk1" => painted = {}

(* A transfer is in flight only for an open device, so that a handler that *)
(* submits fails only for one that left.                                   *)
OpenForTransfers ==
    q.fly # NoMsg \/ ctrl = "sub" \/ ep1in # "idle" \/ ep4in = "sub" => dev

Orderly == faults = 0 => InOrder

SyncInv == PaintedKnown /\ OpenForTransfers /\ Orderly

LEMMA SyncInit == Init => SyncInv
<1> SUFFICES ASSUME Init PROVE SyncInv
  OBVIOUS
<1>1. EmptyQueue.fly = NoMsg
  BY DEF EmptyQueue
<1>2. PaintedKnown
  BY DEF Init, PaintedKnown
<1>3. OpenForTransfers
  BY <1>1 DEF Init, OpenForTransfers
<1>4. Orderly
  BY DEF Init, Orderly, InOrder, Quiet
<1> QED
  BY <1>2, <1>3, <1>4 DEF SyncInv

LEMMA PaintedStep == PaintedKnown /\ [Next]_vars => PaintedKnown'
<1> SUFFICES ASSUME PaintedKnown, [Next]_vars PROVE PaintedKnown'
  OBVIOUS
<1>1. CASE DeviceTakes
  BY <1>1 DEF DeviceTakes, cable, PaintedKnown
<1>2. CASE Cable
  BY <1>2 DEF Cable, Unplug, PlugIn, device, PaintedKnown
<1>3. CASE Callback \/ ClientLoop \/ Display \/ Engine \/ DeviceReplies \/ UNCHANGED vars
  <2>1. UNCHANGED <<port, painted>>
    BY <1>3, Zenon DEF Callback, ClientLoop, Display, Engine, DeviceReplies, vars, cable, device,
       Ep1OutCb, CtrlCb, Ep1Hello, Ep1Other, Ep4Report, Ep4Other, NewDev, DevGone,
       Tick, DrainOne, DrainEnd, TakeAddr, Claim, SetInterface, Reboot,
       DispWake, DispTested, DispAssert, DispQuit, LedWrite
  <2> QED
    BY <2>1 DEF PaintedKnown
<1> QED
  BY <1>1, <1>2, <1>3 DEF Next, Controller

LEMMA OpenStep == TypeOK /\ HInv /\ OpenForTransfers /\ [Next]_vars => OpenForTransfers'
<1> SUFFICES ASSUME TypeOK, HInv, OpenForTransfers, [Next]_vars PROVE OpenForTransfers'
  OBVIOUS
<1>1. EmptyQueue.fly = NoMsg
  BY DEF EmptyQueue
<1>2. ASSUME dev, dev' = dev PROVE OpenForTransfers'
  BY <1>2 DEF OpenForTransfers
<1>3. ASSUME UNCHANGED <<q, ctrl, ep1in, ep4in>>, dev => dev' PROVE OpenForTransfers'
  BY <1>3 DEF OpenForTransfers
<1>4. CASE Ep1OutCb \/ CtrlCb \/ Ep1Hello \/ Ep1Other \/ Ep4Report \/ Ep4Other
  BY <1>2, <1>4 DEF OpenForTransfers, Ep1OutCb, CtrlCb, Ep1Hello, Ep1Other, Ep4Report, Ep4Other,
     client
<1>5. CASE NewDev \/ Tick \/ DrainOne \/ TakeAddr \/ Claim
  BY <1>3, <1>5 DEF NewDev, Tick, DrainOne, TakeAddr, Claim, transfers, inputs, client
<1>6. CASE DevGone
  BY <1>6 DEF DevGone, OpenForTransfers, transfers, inputs
<1>7. CASE DrainEnd
  <2>1. dev
    BY <1>7 DEF DrainEnd, HInv, QuietBeforeSession, SessionBelongsToDevice
  <2> QED
    BY <1>2, <1>7, <2>1 DEF DrainEnd, client
<1>8. CASE SetInterface
  <2>1. dev
    BY <1>8 DEF SetInterface, HInv, AttachIdle
  <2> QED
    BY <1>2, <1>8, <2>1 DEF SetInterface, client
<1>9. CASE Reboot
  BY <1>1, <1>9 DEF Reboot, OpenForTransfers
<1>10. CASE Display \/ Engine
  BY <1>3, <1>10 DEF Display, Engine, DispWake, DispTested, DispAssert, DispQuit, LedWrite,
     transfers, inputs, client
<1>11. CASE DeviceTakes
  BY <1>3, <1>11 DEF DeviceTakes, inputs, client
<1>12. CASE DeviceReplies
  <2>1. dev
    BY <1>12 DEF DeviceReplies, OpenForTransfers
  <2> QED
    BY <1>2, <1>12, <2>1 DEF DeviceReplies, client
<1>13. CASE Cable
  BY <1>3, <1>13 DEF Cable, Unplug, PlugIn, transfers, inputs
<1>14. CASE UNCHANGED vars
  BY <1>3, <1>14 DEF vars, transfers, inputs, client
<1> QED
  BY <1>4, <1>5, <1>6, <1>7, <1>8, <1>9, <1>10, <1>11, <1>12, <1>13, <1>14
     DEF Next, Callback, ClientLoop, Controller


-----------------------------------------------------------------------------
(* A handler of an open device: as long as no fault strikes its submits    *)
(* fail only for one that left.                                            *)
LEMMA FailsWhenAway ==
    ASSUME TypeOK, PaintedKnown, NEW S, NEW r \in Outcomes(S), CountFaults(r), dev, faults' = 0
    PROVE  /\ faults = 0
           /\ \A s \in S : Answers(r[s], painted)
           /\ port = "mk1" => \A s \in S : r[s] = TRUE
<1>1. faults \in Nat /\ dev = TRUE
  BY DEF TypeOK
<1>2. DOMAIN r = S /\ \A s \in S : r[s] \in BOOLEAN
  BY DEF Outcomes
<1>3. CASE port = "mk1"
  <2>1. Present
    BY <1>1, <1>3 DEF Present
  <2>2. ~ \E s \in DOMAIN r : ~r[s]
    BY <1>1, <2>1 DEF CountFaults
  <2>3. faults = 0
    BY <2>2 DEF CountFaults
  <2> QED
    BY <1>2, <2>2, <2>3 DEF Answers
<1>4. CASE port # "mk1"
  <2>1. painted = {} /\ ~Present
    BY <1>4 DEF PaintedKnown, Present
  <2>2. faults = 0
    BY <2>1 DEF CountFaults
  <2> QED
    BY <1>2, <1>4, <2>1, <2>2 DEF Answers
<1> QED
  BY <1>3, <1>4

(* A handler that submits, but sends no command.                           *)
LEMMA FaultsOnly ==
    ASSUME TypeOK, NEW r, CountFaults(r), faults' = 0
    PROVE  faults = 0
<1>1. faults \in Nat
  BY DEF TypeOK
<1> QED
  BY <1>1 DEF CountFaults

LEMMA OrderlySame ==
    ASSUME Orderly, faults' = 0 => faults = 0, UNCHANGED <<q, ack, devLeds, painted, leds, dirty>>
    PROVE  Orderly'
<1>1. InOrder => InOrder'
  BY InOrderGoal DEF InOrder
<1> QED
  BY <1>1 DEF Orderly

LEMMA OrderlyEp1OutCb == TypeOK /\ SyncInv /\ Ep1OutCb => Orderly'
<1> SUFFICES ASSUME TypeOK, SyncInv, Ep1OutCb, faults' = 0 PROVE InOrder'
  BY DEF Orderly
<1>1. PICK r \in Outcomes({"sent", "cmd"}) :
        (Present => r["sent"] = ack) /\ q' = Done(q, r["cmd"]) /\ CountFaults(r)
  BY DEF Ep1OutCb
<1>2. /\ q.fly # NoMsg /\ dev /\ ack' = FALSE
      /\ UNCHANGED <<port, devLeds, painted, leds, dirty>>
  BY DEF Ep1OutCb, SyncInv, OpenForTransfers, cable, device, ledState
<1>3. /\ faults = 0 /\ r["cmd"] \in BOOLEAN /\ (r["cmd"] \/ painted = {})
      /\ port = "mk1" => r["sent"] = TRUE
  <2>1. PaintedKnown
    BY DEF SyncInv
  <2>2. /\ faults = 0
        /\ \A s \in {"sent", "cmd"} : Answers(r[s], painted)
        /\ port = "mk1" => \A s \in {"sent", "cmd"} : r[s] = TRUE
    BY <1>1, <1>2, <2>1, FailsWhenAway
  <2> QED
    BY <2>2 DEF Answers
<1>4. ack \/ painted = {}
  BY <1>1, <1>2, <1>3 DEF SyncInv, PaintedKnown, Present
<1>5. q.fly \in Command /\ q.pend \in Seq(Command) /\ ack \in BOOLEAN
  BY <1>2 DEF TypeOK, QueueOf
<1>6. ASSUME NEW b \in Banks \ dirty PROVE Kept(q.pend, devLeds, b, leds, b \in painted)
  <2>1. Kept(Line(q, ack), devLeds, b, leds, b \in painted)
    BY <1>3 DEF SyncInv, Orderly, InOrder
  <2>2. CASE ack
    <3>1. Line(q, ack) = <<>> \o q.pend
      BY <2>2 DEF Line
    <3> QED
      BY <1>5, <2>1, <3>1, ConcatEmptySeq
  <2>3. CASE ~ack
    <3>1. Line(q, ack) = <<q.fly>> \o q.pend
      BY <1>2, <2>3 DEF Line
    <3>2. (b \in painted) = FALSE
      BY <1>4, <2>3
    <3>3. Kept(<<q.fly>> \o q.pend, devLeds, b, leds, FALSE)
      BY <2>1, <3>1, <3>2
    <3>4. Kept(q.pend, devLeds, b, leds, FALSE)
      BY <1>5, <3>3, KeptLose
    <3> QED
      BY <3>2, <3>4
  <2> QED
    BY <2>2, <2>3
<1> DEFINE ok == r["cmd"]
           u == Line(Done(q, ok), FALSE)
<1>7. /\ Quiet(Done(q, ok), FALSE)
      /\ q.pend = u \/ (~ok /\ \E h \in Command : q.pend = <<h>> \o u)
      /\ u \in Seq(Command)
  BY <1>3, DoneLine, DoneFacts, LineType DEF TypeOK
<1>8. q' = Done(q, ok) /\ (ok \/ painted = {})
  BY <1>1, <1>3
<1> HIDE DEF u, ok
<1>9. ASSUME NEW b \in Banks \ dirty PROVE Kept(u, devLeds, b, leds, b \in painted)
  <2>1. CASE q.pend = u
    BY <1>6, <2>1
  <2>2. CASE ~ok /\ \E h \in Command : q.pend = <<h>> \o u
    <3>1. PICK h \in Command : q.pend = <<h>> \o u
      BY <2>2
    <3>2. (b \in painted) = FALSE
      BY <1>8, <2>2
    <3>3. Kept(<<h>> \o u, devLeds, b, leds, FALSE)
      BY <1>6, <3>1, <3>2
    <3>4. Kept(u, devLeds, b, leds, FALSE)
      BY <1>7, <3>3, KeptLose
    <3> QED
      BY <3>2, <3>4
  <2> QED
    BY <1>7, <2>1, <2>2
<1>10. u = Line(q', ack') /\ Quiet(q', ack')
  BY <1>2, <1>7, <1>8 DEF u
<1> QED
  BY <1>2, <1>9, <1>10, InOrderGoal

LEMMA OrderlyDeviceTakes == TypeOK /\ SyncInv /\ DeviceTakes => Orderly'
<1> SUFFICES ASSUME TypeOK, SyncInv, DeviceTakes, faults' = 0 PROVE InOrder'
  BY DEF Orderly
<1>1. /\ q.fly # NoMsg /\ ~ack /\ ack' = TRUE /\ q' = q
      /\ UNCHANGED <<faults, leds, dirty>>
  BY DEF DeviceTakes, ledState
<1>2. q.fly \in Command /\ q.pend \in Seq(Command)
  BY <1>1 DEF TypeOK, QueueOf
<1>4. Line(q, ack) = <<q.fly>> \o q.pend
  BY <1>1 DEF Line
<1>5. Line(q', ack') = q.pend
  <2>1. Line(q', ack') = <<>> \o q.pend
    BY <1>1 DEF Line
  <2> QED
    BY <1>2, <2>1, ConcatEmptySeq
<1>6. ASSUME NEW b \in Banks
      PROVE  /\ (q.fly.cmd = "dimm_leds" /\ q.fly.bank = b) =>
                  \A l \in Bank(b) : devLeds'[l] = q.fly.vals[l]
             /\ ~(q.fly.cmd = "dimm_leds" /\ q.fly.bank = b) =>
                  /\ b \in painted' => b \in painted
                  /\ \A l \in Bank(b) : devLeds'[l] = devLeds[l]
  <2>1. \A l \in Bank(b) : l \in Leds /\ BankOf(l) = b
    BY DEF Bank
  <2>2. CASE q.fly \in {GetDeviceInfo, AutoMsg}
    <3>1. q.fly.cmd # "dimm_leds"
      BY <2>2, HandshakeFields
    <3>2. devLeds' = devLeds /\ painted' = painted
      BY <2>2 DEF DeviceTakes, device
    <3> QED
      BY <3>1, <3>2
  <2>3. CASE q.fly \notin {GetDeviceInfo, AutoMsg}
    <3>1. q.fly.cmd = "dimm_leds"
      <4>1. PICK c \in Banks, st \in [Leds -> 0 .. MaxLevel] : q.fly = Frame(c, st)
        BY <1>2, <2>3 DEF Command, Frames
      <4> QED
        BY <4>1 DEF Frame
    <3>2. /\ devLeds' = [l \in Leds |-> IF l \in Bank(q.fly.bank) THEN q.fly.vals[l] ELSE devLeds[l]]
          /\ painted' = painted \cup {q.fly.bank}
      BY <2>3 DEF DeviceTakes
    <3>3. \A l \in Bank(b) : l \in Bank(q.fly.bank) <=> q.fly.bank = b
      BY <2>1 DEF Bank
    <3> QED
      BY <2>1, <3>1, <3>2, <3>3
  <2> QED
    BY <2>2, <2>3
<1>7. ASSUME NEW b \in Banks \ dirty PROVE Kept(q.pend, devLeds', b, leds, b \in painted')
  <2>1. Kept(<<q.fly>> \o q.pend, devLeds, b, leds, b \in painted)
    BY <1>1, <1>4 DEF SyncInv, Orderly, InOrder
  <2> QED
    BY <1>2, <1>6, <2>1, KeptTake
<1>8. Quiet(q', ack')
  BY <1>1 DEF Quiet
<1> QED
  BY <1>1, <1>5, <1>7, <1>8, InOrderGoal

LEMMA OrderlyCtrlCb == TypeOK /\ HInv /\ SyncInv /\ CtrlCb => Orderly'
<1> SUFFICES ASSUME TypeOK, HInv, SyncInv, CtrlCb, faults' = 0 PROVE InOrder'
  BY DEF Orderly
<1>1. PICK r \in Outcomes({"in", "cmd"}) : q' = Send(q, GetDeviceInfo, r["cmd"]) /\ CountFaults(r)
  BY DEF CtrlCb
<1>2. /\ ctrl = "sub" /\ dev
      /\ UNCHANGED <<ack, devLeds, painted, leds, dirty>>
  BY DEF CtrlCb, SyncInv, OpenForTransfers, device, ledState
<1> DEFINE ok == r["cmd"]
<1>3. faults = 0 /\ ok \in BOOLEAN /\ Answers(ok, painted)
  <2>1. PaintedKnown
    BY DEF SyncInv
  <2>2. faults = 0 /\ \A s \in {"in", "cmd"} : Answers(r[s], painted)
    BY <1>1, <1>2, <2>1, FailsWhenAway
  <2> QED
    BY <2>2 DEF Answers
<1>4. Len(q.pend) < QCap
  BY <1>2 DEF HInv, AttachIdle, Attaching, RingRoom, RoomIn
<1>5. /\ q \in QueueOf(Command) /\ ack \in BOOLEAN /\ Quiet(q, ack)
      /\ \A b \in Banks \ dirty : Kept(Line(q, ack), devLeds, b, leds, b \in painted)
  BY <1>3 DEF TypeOK, SyncInv, Orderly, InOrder
<1>6. q' = Send(q, GetDeviceInfo, ok)
  BY <1>1
<1> HIDE DEF ok
<1> DEFINE nq == Send(q, GetDeviceInfo, ok)
<1>7. Quiet(nq, ack) /\ \A b \in Banks \ dirty : Kept(Line(nq, ack), devLeds, b, leds, b \in painted)
  <2>1. GetDeviceInfo \in Command /\ GetDeviceInfo.cmd # "dimm_leds"
    BY AutoIsCommand, HandshakeFields
  <2> DEFINE B == Banks \ dirty
  <2>2. B \in SUBSET Banks /\ \A b \in B : Kept(Line(q, ack), devLeds, b, leds, b \in painted)
    BY <1>5
  <2> HIDE DEF B
  <2>3. Quiet(nq, ack) /\ \A b \in B : Kept(Line(nq, ack), devLeds, b, leds, b \in painted)
    BY <1>3, <1>4, <1>5, <2>1, <2>2, SendOther
  <2> QED
    BY <2>3 DEF B
<1> HIDE DEF nq
<1>8. q' = nq
  BY <1>6 DEF nq
<1> QED
  BY <1>2, <1>7, <1>8, InOrderGoal

LEMMA OrderlyEp1Hello == TypeOK /\ HInv /\ SyncInv /\ Ep1Hello => Orderly'
<1> SUFFICES ASSUME TypeOK, HInv, SyncInv, Ep1Hello, faults' = 0 PROVE InOrder'
  BY DEF Orderly
<1> DEFINE want == [l \in {Backlight} |-> BacklightOn]
<1>1. PICK r \in Outcomes({"cmd", "pads", "in"} \cup Banks) :
        SetAndFlush(want, Send(q, AutoMsg, r["cmd"]), r) /\ CountFaults(r)
  BY DEF Ep1Hello
<1>2. /\ ep1in = "reply" /\ dev
      /\ UNCHANGED <<ack, devLeds, painted>>
  BY DEF Ep1Hello, SyncInv, OpenForTransfers, device
<1> DEFINE ok == r["cmd"]
<1>3. /\ faults = 0 /\ ok \in BOOLEAN /\ Answers(ok, painted)
      /\ \A b \in Banks : Answers(r[b], painted)
  <2>1. PaintedKnown
    BY DEF SyncInv
  <2>2. /\ faults = 0
        /\ \A s \in {"cmd", "pads", "in"} \cup Banks : Answers(r[s], painted)
    BY <1>1, <1>2, <2>1, FailsWhenAway
  <2> QED
    BY <2>2 DEF Answers
<1>4. /\ q \in QueueOf(Command) /\ ack \in BOOLEAN /\ Quiet(q, ack)
      /\ \A b \in Banks \ dirty : Kept(Line(q, ack), devLeds, b, leds, b \in painted)
  BY <1>3 DEF TypeOK, SyncInv, Orderly, InOrder
<1>5. \A l \in DOMAIN want : want[l] \in Nat
  BY LevelAssumption
<1> DEFINE fq == Send(q, AutoMsg, ok)
<1>6. SetAndFlush(want, fq, r)
  BY <1>1, <1>3
<1> HIDE DEF want, ok
<1>7. fq \in QueueOf(Command) /\ Quiet(fq, ack)
      /\ \A b \in Banks \ dirty : Kept(Line(fq, ack), devLeds, b, leds, b \in painted)
  <2>1. CASE Len(q.pend) < QCap
    <3>1. AutoMsg \in Command /\ AutoMsg.cmd # "dimm_leds"
      BY AutoIsCommand, HandshakeFields
    <3> DEFINE B == Banks \ dirty
    <3>2. B \in SUBSET Banks /\ \A b \in B : Kept(Line(q, ack), devLeds, b, leds, b \in painted)
      BY <1>4
    <3> HIDE DEF B
    <3>3. /\ fq \in QueueOf(Command) /\ Quiet(fq, ack)
          /\ \A b \in B : Kept(Line(fq, ack), devLeds, b, leds, b \in painted)
      BY <1>3, <1>4, <2>1, <3>1, <3>2, SendOther
    <3> QED
      BY <3>3 DEF B
  <2>2. CASE Len(q.pend) >= QCap
    <3>1. fq = q
      BY <2>2 DEF Send
    <3> QED
      BY <1>4, <3>1
  <2>3. Len(q.pend) < QCap \/ Len(q.pend) >= QCap
    BY <1>4, QCapAssumption DEF QueueOf
  <2> QED
    BY <2>1, <2>2, <2>3
<1> HIDE DEF fq
<1> QED
  BY <1>2, <1>3, <1>5, <1>6, <1>7, SetAndFlushSettles

LEMMA OrderlyEp4Report == TypeOK /\ SyncInv /\ Ep4Report => Orderly'
<1> SUFFICES ASSUME TypeOK, SyncInv, Ep4Report, faults' = 0 PROVE InOrder'
  BY DEF Orderly
<1>1. PICK rep \in [Pads -> Pressures], r \in Outcomes({"in"} \cup Banks) :
        SetAndFlush([p \in Pads |-> Echo(p, rep[p])], q, r) /\ CountFaults(r)
  BY DEF Ep4Report
<1>2. /\ ep4in = "sub" /\ dev
      /\ UNCHANGED <<ack, devLeds, painted>>
  BY DEF Ep4Report, SyncInv, OpenForTransfers, device
<1>3. faults = 0 /\ \A b \in Banks : Answers(r[b], painted)
  <2>1. PaintedKnown
    BY DEF SyncInv
  <2>2. faults = 0 /\ \A s \in {"in"} \cup Banks : Answers(r[s], painted)
    BY <1>1, <1>2, <2>1, FailsWhenAway
  <2> QED
    BY <2>2
<1>4. /\ q \in QueueOf(Command) /\ Quiet(q, ack)
      /\ \A b \in Banks \ dirty : Kept(Line(q, ack), devLeds, b, leds, b \in painted)
  BY <1>3 DEF TypeOK, SyncInv, Orderly, InOrder
<1>5. \A p \in Pads : Echo(p, rep[p]) \in Nat
  BY <1>1, EchoType
<1> DEFINE want == [p \in Pads |-> Echo(p, rep[p])]
<1>6. \A l \in DOMAIN want : want[l] \in Nat
  BY <1>5
<1>7. SetAndFlush(want, q, r)
  BY <1>1
<1> HIDE DEF want
<1> QED
  BY <1>2, <1>3, <1>4, <1>6, <1>7, SetAndFlushSettles

(* Draining an LED message dirties the bank it changes.                    *)
LEMMA OrderlyDrainOne == TypeOK /\ SyncInv /\ DrainOne => Orderly'
<1> SUFFICES ASSUME TypeOK, SyncInv, DrainOne, faults' = 0 PROVE InOrder'
  BY DEF Orderly
<1> DEFINE m == Head(ledq)
           shown == IF m.led \in Pads THEN ~touched[m.led] ELSE TRUE
           want == [l \in (IF shown THEN {m.led} ELSE {}) |-> m.level]
<1>1. leds' = Set(want) /\ dirty' = DirtyBy(want)
  BY DEF DrainOne
<1> HIDE DEF want
<1>2. UNCHANGED <<faults, q, ack, devLeds, painted>>
  BY DEF DrainOne, transfers, device
<1>3. InOrder
  BY <1>2 DEF SyncInv, Orderly
<1>4. \A b \in Banks \ dirty' : b \notin dirty /\ \A l \in Bank(b) : leds[l] = leds'[l]
  BY <1>1 DEF DirtyBy
<1>5. \A b \in Banks \ dirty' : Kept(Line(q, ack), devLeds, b, leds', b \in painted)
  BY <1>3, <1>4, KeptSame DEF InOrder
<1>6. Quiet(q', ack')
  BY <1>2, <1>3 DEF InOrder, Quiet
<1> QED
  BY <1>2, <1>5, <1>6, InOrderGoal

LEMMA OrderlyDrainEnd == TypeOK /\ HInv /\ SyncInv /\ DrainEnd => Orderly'
<1>1. CASE DrainEnd /\ any
  <2> SUFFICES ASSUME TypeOK, HInv, SyncInv, DrainEnd, any, faults' = 0 PROVE InOrder'
    BY <1>1 DEF Orderly
  <2>1. PICK r \in Outcomes(Banks) : SetAndFlush(<<>>, q, r) /\ CountFaults(r)
    BY DEF DrainEnd
  <2>2. dev /\ UNCHANGED <<ack, devLeds, painted>>
    BY DEF DrainEnd, HInv, QuietBeforeSession, SessionBelongsToDevice, device
  <2>3. faults = 0 /\ \A b \in Banks : Answers(r[b], painted)
    <3>1. PaintedKnown
      BY DEF SyncInv
    <3> QED
      BY <2>1, <2>2, <3>1, FailsWhenAway
  <2>4. /\ q \in QueueOf(Command) /\ Quiet(q, ack)
        /\ \A b \in Banks \ dirty : Kept(Line(q, ack), devLeds, b, leds, b \in painted)
    BY <2>3 DEF TypeOK, SyncInv, Orderly, InOrder
  <2>5. \A l \in DOMAIN <<>> : <<>>[l] \in Nat
    OBVIOUS
  <2> QED
    BY <2>1, <2>2, <2>3, <2>4, <2>5, SetAndFlushSettles
<1>2. CASE DrainEnd /\ ~any
  <2>1. UNCHANGED <<faults, q, ack, devLeds, painted, leds, dirty>>
    BY <1>2 DEF DrainEnd, device
  <2> QED
    BY <2>1, OrderlySame DEF SyncInv
<1> QED
  BY <1>1, <1>2

(* After a restart everything is dirty.  The controller that is pulled     *)
(* takes what it shows with it; the one that is plugged in finds the line  *)
(* as the last left it.                                                    *)
LEMMA OrderlyAnew == SyncInv /\ (Cable \/ Reboot) => Orderly'
<1>1. ASSUME Reboot PROVE Orderly'
  <2>1. q' = EmptyQueue /\ ack' = FALSE /\ dirty' = Banks
    BY <1>1 DEF Reboot
  <2>2. InOrder'
    BY <2>1 DEF InOrder, Quiet
  <2> QED
    BY <2>2 DEF Orderly
<1>2. ASSUME SyncInv, Unplug, faults' = 0 PROVE InOrder'
  <2>1. UNCHANGED <<faults, q, ack, leds, dirty>> /\ painted' = {}
    BY <1>2 DEF Unplug, transfers, ledState
  <2>2. InOrder
    BY <1>2, <2>1 DEF SyncInv, Orderly
  <2>3. ASSUME NEW b \in Banks \ dirty PROVE Kept(Line(q, ack), devLeds', b, leds, FALSE)
    BY <2>2, KeptAway DEF InOrder
  <2>4. \A b \in Banks : (b \in painted') = FALSE
    BY <2>1
  <2>5. Quiet(q', ack')
    BY <2>1, <2>2 DEF InOrder, Quiet
  <2> QED
    BY <2>1, <2>3, <2>4, <2>5, InOrderGoal
<1>3. ASSUME SyncInv, NEW kind \in {"mk1", "other"}, PlugIn(kind) PROVE Orderly'
  <2>1. UNCHANGED <<faults, q, ack, devLeds, painted, leds, dirty>>
    BY <1>3 DEF PlugIn, transfers, device, ledState
  <2> QED
    BY <1>3, <2>1, OrderlySame DEF SyncInv
<1> QED
  BY <1>1, <1>2, <1>3 DEF Cable, Orderly

(* The steps that neither light an LED nor send a command.                 *)
LEMMA OrderlyElsewhere ==
    ASSUME TypeOK, SyncInv, Next,
           ~Ep1OutCb, ~DeviceTakes, ~CtrlCb, ~Ep1Hello, ~Ep4Report, ~DrainOne, ~DrainEnd,
           ~Cable, ~Reboot
    PROVE  Orderly'
<1>1. UNCHANGED <<q, ack, devLeds, painted, leds, dirty>>
  BY DEF Next, Callback, ClientLoop, Display, Engine, Controller, Ep1Other, Ep4Other, NewDev,
     DevGone, Tick, TakeAddr, Claim, SetInterface, DispWake, DispTested, DispAssert, DispQuit,
     DeviceReplies, LedWrite, transfers, device, ledState
<1>2. ASSUME faults' = 0 PROVE faults = 0
  <2>1. CASE Ep1Other \/ Ep4Other
    BY <1>2, <2>1, FaultsOnly DEF Ep1Other, Ep4Other
  <2>2. CASE Claim
    BY <1>2, <2>2, FaultsOnly DEF Claim
  <2>3. CASE SetInterface
    BY <1>2, <2>3, FaultsOnly DEF SetInterface
  <2>4. CASE TakeAddr
    <3>1. faults' = faults \/ faults' = faults + 1
      BY <2>4, TakeAddrCases
    <3>2. faults \in Nat
      BY DEF TypeOK
    <3> QED
      BY <1>2, <3>1, <3>2
  <2>5. CASE ~Ep1Other /\ ~Ep4Other /\ ~Claim /\ ~SetInterface /\ ~TakeAddr
    <3>1. UNCHANGED faults
      BY <2>5 DEF Next, Callback, ClientLoop, Display, Engine, Controller, NewDev,
         DevGone, Tick, DispWake, DispTested, DispAssert, DispQuit,
         DeviceReplies, LedWrite
    <3> QED
      BY <1>2, <3>1
  <2> QED
    BY <2>1, <2>2, <2>3, <2>4, <2>5
<1> QED
  BY <1>1, <1>2, OrderlySame DEF SyncInv

LEMMA OrderlyStep == TypeOK /\ HInv /\ SyncInv /\ [Next]_vars => Orderly'
<1>1. SyncInv /\ UNCHANGED vars => Orderly'
  <2> SUFFICES ASSUME SyncInv, UNCHANGED vars PROVE Orderly'
    OBVIOUS
  <2>1. UNCHANGED <<faults, q, ack, devLeds, painted, leds, dirty>>
    BY DEF vars, transfers, device, ledState
  <2> QED
    BY <2>1, OrderlySame DEF SyncInv
<1> QED
  BY <1>1, OrderlyEp1OutCb, OrderlyDeviceTakes, OrderlyCtrlCb, OrderlyEp1Hello, OrderlyEp4Report,
     OrderlyDrainOne, OrderlyDrainEnd, OrderlyAnew, OrderlyElsewhere

LEMMA SyncInvariant == Spec => []SyncInv
<1>1. TypeOK /\ HInv /\ SyncInv /\ [Next]_vars => SyncInv'
  BY PaintedStep, OpenStep, OrderlyStep DEF SyncInv
<1> QED
  BY <1>1, SyncInit, TypeCorrect, HandshakeInvariant, PTL DEF Spec

LEMMA UntouchedFrames ==
    \A b \in Banks : Untouched(b) <=> b \notin painted /\ FramesFor(b, Line(q, ack)) = {}
  BY DEF Untouched, FramesUnderway, Underway, Line, FramesFor

(* However often the cable is pulled, as long as no transfer fails for a   *)
(* controller that is there a bank that is not dirty is shown as           *)
(* SESSION.leds has it, or its latest frame is the last underway, or this  *)
(* controller was sent nothing for it.                                     *)
THEOREM LedsStayInSync == Spec => []LedsInSync
<1>1. SyncInv => LedsInSync
  BY SettledShows, UntouchedFrames DEF SyncInv, Orderly, InOrder, Kept, LedsInSync
<1> QED
  BY <1>1, SyncInvariant, PTL

(* Once it has taken what was sent, the controller shows of every pad at   *)
(* rest the brightness the host last gave it.                              *)
THEOREM RestingPads == Spec => []RestingPadShowsBase
<1>1. SyncInv /\ ShadowRests => RestingPadShowsBase
  <2> SUFFICES ASSUME SyncInv, ShadowRests, PadsTaken, NEW p \in Pads, ~touched[p]
               PROVE  devLeds[p] = Clamp(base[p])
    BY DEF RestingPadShowsBase
  <2>1. "low" \in Banks \ dirty /\ "low" \in painted /\ faults = 0
        /\ FramesFor("low", Line(q, ack)) = {}
    BY DEF PadsTaken, Banks, FramesUnderway, Underway, Line, FramesFor
  <2>2. Shows(Line(q, ack), devLeds, "low", leds)
    BY <2>1 DEF SyncInv, Orderly, InOrder, Kept
  <2>3. \A l \in Bank("low") : devLeds[l] = leds[l]
    BY <2>1, <2>2 DEF Shows
  <2>4. p \in Bank("low")
    BY PadsAreLeds DEF Bank, BankOf
  <2> QED
    BY <2>3, <2>4 DEF ShadowRests
<1> QED
  BY <1>1, SyncInvariant, ShadowInvariant, PTL

-----------------------------------------------------------------------------
(* The life of the session.  SessionLife sees of the client thread what    *)
(* HInv ties together: the device that is open, its departure, its session.*)

(* Only an attach panics.                                                  *)
PanicInv == pc = "panic" => dev /\ ~sessionUp

LEMMA PanicStep == HInv /\ PanicInv /\ [Next]_vars => PanicInv'
<1> SUFFICES ASSUME HInv, PanicInv, [Next]_vars, pc' = "panic"
             PROVE  dev' /\ ~sessionUp'
  BY Zenon DEF PanicInv
<1> USE DEF client, loop
<1>1. CASE SetInterface
  <2>1. pc = "submit" /\ UNCHANGED <<dev, sessionUp>>
    BY <1>1, Zenon DEF SetInterface
  <2>2. dev /\ ~sessionUp
    BY <2>1 DEF HInv, AttachIdle, Attaching
  <2> QED
    BY <2>1, <2>2, Zenon
<1>2. CASE Callback
  <2>1. pc' = "events"
    BY <1>2, Zenon DEF Callback, Ep1OutCb, CtrlCb, Ep1Hello, Ep1Other, Ep4Report, Ep4Other,
       NewDev, DevGone
  <2> QED
    BY <1>2, <2>1
<1>3. CASE Tick \/ DrainOne \/ DrainEnd \/ TakeAddr \/ Claim \/ Reboot
  <2>1. pc' \in {"drain", "swap", "claim", "events", "submit"}
    BY <1>3 DEF Tick, DrainOne, DrainEnd, TakeAddr, Claim, Reboot
  <2> QED
    BY <2>1
<1>4. CASE Display \/ Engine \/ Controller \/ Cable \/ UNCHANGED vars
  <2>1. UNCHANGED <<pc, dev, sessionUp>>
    BY <1>4, Zenon DEF Display, Engine, Controller, Cable, DispWake, DispTested, DispAssert, DispQuit,
       LedWrite, DeviceTakes, DeviceReplies, Unplug, PlugIn, vars
  <2> QED
    BY <2>1, Zenon DEF PanicInv
<1> QED
  BY <1>1, <1>2, <1>3, <1>4, Zenon DEF Next, ClientLoop

(* What the client thread does to the session is a step of its life.       *)
LEMMA LifeClient ==
    ASSUME TypeOK, HInv, PanicInv, Callback \/ ClientLoop
    PROVE  [Life!Next]_(Life!life)
<1> USE DEF cable, client, loop
<1>1. /\ evt = "gone" => port = "none" /\ dev
      /\ ~dev => ~sessionUp
      /\ dev \in BOOLEAN /\ sessionUp \in BOOLEAN
  BY DEF HInv, AttachIdle, Attaching, DeviceKnown, TypeOK
<1>2. CASE Ep1Hello
  <2>1. sessionUp' = TRUE /\ UNCHANGED <<port, dev, evt, disp>>
    BY <1>2, Zenon DEF Ep1Hello
  <2>2. dev
    BY <1>2 DEF Ep1Hello, HInv, AttachIdle, Attaching
  <2>3. CASE sessionUp
    <3>1. UNCHANGED <<port, dev, evt, sessionUp, disp>>
      BY <1>1, <2>1, <2>3
    <3> QED
      BY <3>1, Zenon DEF Life!life
  <2>4. CASE ~sessionUp
    <3>1. Life!SessionUp
      BY <2>1, <2>2, <2>4, Zenon DEF Life!SessionUp
    <3> QED
      BY <3>1, Zenon DEF Life!Next, Life!Client
  <2> QED
    BY <2>3, <2>4
<1>3. CASE NewDev
  <2>1. evt = "new" /\ evt' = "none" /\ UNCHANGED <<port, dev, sessionUp, disp>>
    BY <1>3, Zenon DEF NewDev
  <2>2. (evt' = "gone") = (evt = "gone")
    BY <2>1
  <2> QED
    BY <2>1, <2>2, Zenon DEF Life!life
<1>4. CASE DevGone
  <2>1. evt = "gone" /\ evt' = "none" /\ dev' = FALSE /\ sessionUp' = FALSE
        /\ UNCHANGED <<port, disp>>
    BY <1>4, Zenon DEF DevGone
  <2>2. (evt' = "gone") = FALSE
    BY <2>1
  <2>3. Life!DevGone
    BY <2>1, <2>2, Zenon DEF Life!DevGone
  <2> QED
    BY <2>3, Zenon DEF Life!Next, Life!Client
<1>5. CASE TakeAddr
  <2>1. UNCHANGED <<port, evt, sessionUp, disp>>
    BY <1>5, Zenon DEF TakeAddr
  <2>4. dev' = dev \/ (~dev /\ port = "mk1" /\ dev' = TRUE)
    BY <1>5, TakeAddrCases
  <2>2. CASE ~dev /\ port = "mk1" /\ dev' = TRUE
    <3>1. ~sessionUp /\ evt # "gone"
      BY <1>1, <2>2
    <3>2. Life!Attach
      BY <2>1, <2>2, <3>1, Zenon DEF Life!Attach
    <3> QED
      BY <3>2, Zenon DEF Life!Next, Life!Client
  <2>3. CASE dev' = dev
    BY <2>1, <2>3, Zenon DEF Life!life
  <2> QED
    BY <2>2, <2>3, <2>4
<1>6. CASE Reboot
  <2>1. dev /\ ~sessionUp
    BY <1>6, Zenon DEF Reboot, PanicInv
  <2>2. dev' = FALSE /\ sessionUp' = FALSE /\ disp' = "wait" /\ UNCHANGED port
        /\ evt' = IF port = "none" THEN "none" ELSE "new"
    BY <1>6, Zenon DEF Reboot
  <2>3. (evt' = "gone") = FALSE
    BY <2>2
  <2>4. sessionUp' = sessionUp
    BY <1>1, <2>1, <2>2
  <2>5. Life!Restart
    BY <2>1, <2>2, <2>3, <2>4, Zenon DEF Life!Restart
  <2> QED
    BY <2>5, Zenon DEF Life!Next, Life!Client
<1>7. CASE Ep1OutCb \/ CtrlCb \/ Ep1Other \/ Ep4Report \/ Ep4Other
           \/ Tick \/ DrainOne \/ DrainEnd \/ Claim \/ SetInterface
  <2>1. UNCHANGED <<port, dev, evt, sessionUp, disp>>
    BY <1>7, Zenon DEF Ep1OutCb, CtrlCb, Ep1Other, Ep4Report, Ep4Other, Tick, DrainOne, DrainEnd,
       Claim, SetInterface
  <2> QED
    BY <2>1, Zenon DEF Life!life
<1> QED
  BY <1>2, <1>3, <1>4, <1>5, <1>6, <1>7, Zenon DEF Callback, ClientLoop

(* So is what the cable does, and the display thread's round.              *)
LEMMA LifeOthers ==
    ASSUME TypeOK, HInv, Display \/ Engine \/ Controller \/ Cable
    PROVE  [Life!Next]_(Life!life)
<1> USE DEF cable, client, loop
<1>1. /\ evt = "gone" => port = "none" /\ dev
      /\ dev => port = "mk1" \/ evt = "gone"
      /\ dev \in BOOLEAN
  BY DEF HInv, DeviceKnown, TypeOK
<1>2. CASE Unplug
  <2>1. /\ port # "none" /\ port' = "none" /\ evt' = IF dev THEN "gone" ELSE evt
        /\ UNCHANGED <<dev, sessionUp, disp>>
    BY <1>2, Zenon DEF Unplug
  <2>2. (evt' = "gone") = dev
    BY <1>1, <2>1
  <2>3. (port' = "mk1") = FALSE
    BY <2>1
  <2>4. CASE port = "mk1"
    <3>1. Life!Unplug
      BY <2>1, <2>2, <2>3, <2>4, Zenon DEF Life!Unplug
    <3> QED
      BY <3>1, Zenon DEF Life!Next
  <2>5. CASE port # "mk1"
    <3>1. (port' = "mk1") = (port = "mk1") /\ (evt' = "gone") = (evt = "gone")
      BY <1>1, <2>1, <2>2, <2>5
    <3> QED
      BY <2>1, <3>1, Zenon DEF Life!life
  <2> QED
    BY <2>4, <2>5
<1>3. ASSUME NEW kind \in {"mk1", "other"}, PlugIn(kind) PROVE [Life!Next]_(Life!life)
  <2>1. /\ port = "none" /\ ~dev /\ evt = "none" /\ port' = kind /\ evt' = "new"
        /\ UNCHANGED <<dev, sessionUp, disp>>
    BY <1>3, Zenon DEF PlugIn
  <2>2. (evt' = "gone") = (evt = "gone") /\ evt # "gone" /\ port # "mk1"
    BY <2>1
  <2>3. CASE kind = "mk1"
    <3>1. (port' = "mk1") = TRUE
      BY <2>1, <2>3
    <3>2. Life!PlugIn
      BY <2>1, <2>2, <3>1, Zenon DEF Life!PlugIn
    <3> QED
      BY <3>2, Zenon DEF Life!Next
  <2>4. CASE kind = "other"
    <3>1. (port' = "mk1") = (port = "mk1")
      BY <2>1, <2>4
    <3> QED
      BY <2>1, <2>2, <3>1, Zenon DEF Life!life
  <2> QED
    BY <2>3, <2>4
<1>4. CASE Display
  <2>1. UNCHANGED <<port, dev, evt, sessionUp>>
    BY <1>4, Zenon DEF Display, DispWake, DispTested, DispAssert, DispQuit
  <2>2. Life!Wake \/ Life!Tested \/ Life!Quit \/ UNCHANGED Life!life
    BY <1>4, <2>1, Zenon DEF Display, DispWake, DispTested, DispAssert, DispQuit,
       Life!Wake, Life!Tested, Life!Quit, Life!life
  <2> QED
    BY <2>2, Zenon DEF Life!Next, Life!Thread
<1>5. CASE Engine \/ Controller
  <2>1. UNCHANGED <<port, dev, evt, sessionUp, disp>>
    BY <1>5, Zenon DEF Engine, Controller, LedWrite, DeviceTakes, DeviceReplies
  <2> QED
    BY <2>1, Zenon DEF Life!life
<1> QED
  BY <1>2, <1>3, <1>4, <1>5, Zenon DEF Cable

LEMMA LifeStep == TypeOK /\ HInv /\ PanicInv /\ [Next]_vars => [Life!Next]_(Life!life)
<1>1. UNCHANGED vars => UNCHANGED Life!life
  BY Zenon DEF vars, cable, client, Life!life
<1> QED
  BY <1>1, LifeClient, LifeOthers, Zenon DEF Next

(* Seen by the display thread, the client thread opens, loses and restarts *)
(* with a device as SessionLife says: no session is left when the next     *)
(* device is opened, none is raised for a device that is closed, and none  *)
(* ends in a panic (usb.rs:235, 525, 367).                                 *)
THEOREM SessionIsLife == Spec => ImplementsLife
<1>1. Init => PanicInv /\ Life!Init
  BY DEF Init, PanicInv, Life!Init
<1> QED
  BY <1>1, TypeCorrect, HandshakeInvariant, PanicStep, LifeStep, PTL
  DEF Spec, ImplementsLife, Life!Spec

=============================================================================
