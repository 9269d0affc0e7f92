---------------------------- MODULE Bridge_proofs ----------------------------
(***************************************************************************)
(* Bridge: its types, that the controller shows the LedState, and that the *)
(* host is told what the controller reports.                               *)
(***************************************************************************)
EXTENDS Bridge, SequenceTheorems, TLAPS

(* A main thread that waits for the mutex has a request from the host.     *)
RequestInHand ==
  at.main = "lock" => inHand.main \in [led : Leds, level : HostLevels]

(* A LedState of the right type *)
States == [leds : [Leds -> Levels], dirty : [Banks -> BOOLEAN]]

LEMMA SettledLemma ==
  ASSUME NEW q \in Pressures \cup {0}
  PROVE  Settled(q) \in Pressures \cup {0} /\ Settled(q) \in Nat
<1>1. q \in Nat
  BY BridgeAssumption
<1> QED BY <1>1 DEF Settled

LEMMA LeastLemma ==
  ASSUME NEW v \in Nat PROVE Least(v) \in Levels
BY DEF Least, Levels, MaxBrightness

LEMMA SetLemma ==
  ASSUME NEW s \in States, NEW l \in Leds, NEW v \in Nat
  PROVE  /\ Set(s, l, v) \in States
         /\ \A b \in Banks : ~Set(s, l, v).dirty[b] =>
              /\ ~s.dirty[b]
              /\ \A m \in Leds : BankOf(m) = b => Set(s, l, v).leds[m] = s.leds[m]
<1>1. Least(v) \in Levels
  BY LeastLemma
<1>2. BankOf(l) \in Banks
  BY DEF BankOf, Banks
<1>3. s.leds \in [Leds -> Levels] /\ s.dirty \in [Banks -> BOOLEAN]
  BY DEF States
<1>4. CASE s.leds[l] = Least(v)
  BY <1>4 DEF Set
<1>5. CASE s.leds[l] # Least(v)
  <2> DEFINE L == [s.leds EXCEPT ![l] = Least(v)]
             D == [s.dirty EXCEPT ![BankOf(l)] = TRUE]
  <2>1. Set(s, l, v) = [leds |-> L, dirty |-> D]
    BY <1>5 DEF Set
  <2>2. L \in [Leds -> Levels] /\ D \in [Banks -> BOOLEAN]
    BY <1>1, <1>2, <1>3
  <2>3. \A b \in Banks : ~D[b] => ~s.dirty[b] /\ b # BankOf(l)
    BY <1>2, <1>3
  <2>4. \A m \in Leds : m # l => L[m] = s.leds[m]
    BY <1>3
  <2> HIDE DEF L, D
  <2> QED BY <2>1, <2>2, <2>3, <2>4 DEF States
<1> QED BY <1>4, <1>5

LEMMA SetAllLemma ==
  ASSUME NEW v \in Nat
  PROVE  SetAll(v) \in States /\ \A b \in Banks : SetAll(v).dirty[b]
BY LeastLemma DEF SetAll, States

(* frames() makes one frame of each dirty bank, with what the LedState     *)
(* holds.                                                                  *)
LEMMA FramesLemma ==
  ASSUME NEW s \in States
  PROVE  /\ FramesOf(s) \in Seq(Frame)
         /\ \A i \in 1 .. Len(FramesOf(s)) : FramesOf(s)[i].content = s.leds
         /\ \A b \in Banks : s.dirty[b] =>
              \E i \in 1 .. Len(FramesOf(s)) : FramesOf(s)[i].bank = b
<1> DEFINE f0 == [bank |-> 0, content |-> s.leds]
           f1 == [bank |-> 1, content |-> s.leds]
<1>1. /\ f0 \in Frame /\ f0.bank = 0 /\ f0.content = s.leds
      /\ f1 \in Frame /\ f1.bank = 1 /\ f1.content = s.leds
  BY DEF States, Frame, Banks
<1>2. FramesOf(s) = (IF s.dirty[0] THEN <<f0>> ELSE <<>>)
                    \o (IF s.dirty[1] THEN <<f1>> ELSE <<>>)
  BY DEF FramesOf
<1>3. Banks = {0, 1}
  BY DEF Banks
<1> HIDE DEF f0, f1
<1>4. CASE s.dirty[0] /\ s.dirty[1]
  <2>1. FramesOf(s) = <<f0>> \o <<f1>>
    BY <1>2, <1>4
  <2>2. /\ <<f0>> \in Seq(Frame) /\ Len(<<f0>>) = 1 /\ <<f0>>[1] = f0
        /\ <<f1>> \in Seq(Frame) /\ Len(<<f1>>) = 1 /\ <<f1>>[1] = f1
    BY <1>1
  <2>3. FramesOf(s) \in Seq(Frame) /\ Len(FramesOf(s)) = 2
    BY <2>1, <2>2, ConcatProperties
  <2>4. FramesOf(s)[1] = f0 /\ FramesOf(s)[2] = f1
    BY <2>1, <2>2, <2>3, ConcatProperties
  <2> QED BY <1>1, <1>3, <2>3, <2>4
<1>5. CASE s.dirty[0] /\ ~s.dirty[1]
  <2>1. FramesOf(s) = <<f0>> \o <<>>
    BY <1>2, <1>5
  <2>2. FramesOf(s) = <<f0>>
    BY <1>1, <2>1
  <2> QED BY <1>1, <1>3, <1>5, <2>2
<1>6. CASE ~s.dirty[0] /\ s.dirty[1]
  <2>1. FramesOf(s) = <<>> \o <<f1>>
    BY <1>2, <1>6
  <2>2. FramesOf(s) = <<f1>>
    BY <1>1, <2>1
  <2> QED BY <1>1, <1>3, <1>6, <2>2
<1>7. CASE ~s.dirty[0] /\ ~s.dirty[1]
  BY <1>1, <1>2, <1>3, <1>7
<1> QED BY <1>4, <1>5, <1>6, <1>7

(* What a thread that starts to flush a LedState leaves behind             *)
LEMMA FlushTypes ==
  ASSUME TypeOK, NEW t \in Threads, NEW s \in States, StartFlush(t, s)
  PROVE  /\ leds' \in [Leds -> Levels]
         /\ dirty' \in [Banks -> BOOLEAN]
         /\ frames' \in [Threads -> Seq(Frame)]
<1>1. FramesOf(s) \in Seq(Frame)
  BY FramesLemma
<1>2. frames' \in [Threads -> Seq(Frame)]
  BY <1>1 DEF StartFlush, TypeOK
<1> QED BY <1>2 DEF StartFlush, States

LEMMA LedStateLemma ==
  ASSUME TypeOK PROVE LedState \in States
BY DEF TypeOK, LedState, States

-----------------------------------------------------------------------------
(***************************************************************************)
(* The state has its type.                                                 *)
(***************************************************************************)
LEMMA TypeInit == Init => TypeOK
<1> SUFFICES ASSUME Init PROVE TypeOK
  OBVIOUS
<1>1. at \in At
  BY DEF Init, At
<1>2. tries \in [Threads -> 0 .. Attempts - 1]
  BY BridgeAssumption DEF Init
<1>3. inHand \in InHand
  BY DEF Init, InHand
<1>4. Untold \in Told
  BY DEF Untold, Told
<1>5. dev \in Dev
  BY <1>4 DEF Init, Dev
<1>6. leds \in [Leds -> Levels] /\ shown \in [Leds -> Levels]
  BY DEF Init, Levels, MaxBrightness
<1>7. frames \in [Threads -> Seq(Frame)]
  BY DEF Init
<1>8. budget \in [events : 0 .. MaxEvents, faults : 0 .. MaxFaults]
  BY BridgeAssumption DEF Init
<1> QED BY <1>1, <1>2, <1>3, <1>4, <1>5, <1>6, <1>7, <1>8 DEF Init, TypeOK

LEMMA BudgetLemma ==
  ASSUME TypeOK, Event \/ Fault \/ UNCHANGED budget
  PROVE  budget' \in [events : 0 .. MaxEvents, faults : 0 .. MaxFaults]
<1>1. MaxEvents \in Nat /\ MaxFaults \in Nat
  BY BridgeAssumption
<1>2. budget.events \in 0 .. MaxEvents /\ budget.faults \in 0 .. MaxFaults
  BY DEF TypeOK
<1> QED BY <1>1, <1>2 DEF TypeOK, Event, Fault

LEMMA TriesLemma ==
  ASSUME TypeOK, NEW t \in Threads, NEW o, Retried(t, o)
  PROVE  tries' \in [Threads -> 0 .. Attempts - 1]
<1>1. Attempts \in Nat \ {0} /\ tries[t] \in 0 .. Attempts - 1
  BY BridgeAssumption DEF TypeOK
<1>2. TriesAgain(t, o) => tries[t] + 1 \in 0 .. Attempts - 1
  BY <1>1 DEF TriesAgain
<1>3. 0 \in 0 .. Attempts - 1
  BY <1>1
<1> QED BY <1>2, <1>3 DEF Retried, TypeOK

LEMMA TypeWriteFrame ==
  ASSUME TypeOK, NEW t \in Threads, WriteFrame(t) PROVE TypeOK'
<1> DEFINE f == Head(frames[t])
<1>1. PICK o \in WriteOutcomes :
        /\ shown' = IF o.landed THEN Show(f) ELSE shown
        /\ Retried(t, o)
        /\ IF GoesOn(t, o)
           THEN /\ IF o.result = "timeout" THEN Fault ELSE UNCHANGED budget
                /\ frames' = [frames EXCEPT ![t] = Tail(@)]
                /\ lost' = [lost EXCEPT ![f.bank] = o.result # "ok"]
           ELSE UNCHANGED <<frames, lost, budget>>
  BY DEF WriteFrame
<1>2. frames[t] \in Seq(Frame) /\ frames[t] # <<>>
  BY DEF WriteFrame, Flushing, TypeOK
<1>3. f \in Frame /\ Tail(frames[t]) \in Seq(Frame)
  BY <1>2, HeadTailProperties
<1>4. f.content \in [Leds -> Levels]
  BY <1>3 DEF Frame
<1>5. shown' \in [Leds -> Levels]
  BY <1>1, <1>4 DEF Show, TypeOK
<1>6. frames' \in [Threads -> Seq(Frame)]
  BY <1>1, <1>3 DEF TypeOK
<1>7. lost' \in [Banks -> BOOLEAN]
  BY <1>1 DEF TypeOK
<1>8. tries' \in [Threads -> 0 .. Attempts - 1]
  BY <1>1, TriesLemma
<1>9. budget' \in [events : 0 .. MaxEvents, faults : 0 .. MaxFaults]
  BY <1>1, BudgetLemma
<1> QED BY <1>5, <1>6, <1>7, <1>8, <1>9 DEF WriteFrame, TypeOK

(* The reader and pads threads *)
LEMMA TypeReaders ==
  ASSUME TypeOK,
         \/ ReadEp1 \/ EchoButtons \/ ReaderUnlocks
         \/ ReadPads \/ EchoPads \/ PadsUnlock
         \/ \E t \in {"reader", "pads"} : ReadFails(t)
  PROVE  TypeOK'
<1>1. CASE ReadEp1
  <2>1. /\ dev.ep1in \in Seq(Report) /\ dev.ep1in # <<>>
    BY <1>1 DEF ReadEp1, TypeOK, Dev
  <2>2. Head(dev.ep1in) \in Report /\ Tail(dev.ep1in) \in Seq(Report)
    BY <2>1, HeadTailProperties
  <2>3. dev' \in Dev
    BY <1>1, <2>2 DEF ReadEp1, TypeOK, Dev
  <2>4. CASE ReadInfo
    BY <1>1, <2>3, <2>4 DEF ReadEp1, ReadInfo, TypeOK, ledVars
  <2>5. CASE ReadKnobs
    <3>1. Head(dev.ep1in).value \in KnobValues
      BY <2>2, <2>5 DEF ReadKnobs, Report
    <3>2. host' \in Told /\ known' \in Told
      BY <2>5, <3>1 DEF ReadKnobs, TypeOK, Told
    <3> QED BY <1>1, <2>3, <2>5, <3>2 DEF ReadEp1, ReadKnobs, TypeOK, ledVars
  <2>6. CASE ReadButtons
    <3>1. Head(dev.ep1in).value \in BOOLEAN
      BY <2>2, <2>6 DEF ReadButtons, Report
    <3>2. inHand' \in InHand
      BY <2>6, <3>1 DEF ReadButtons, TypeOK, InHand
    <3>3. at' \in At
      BY <2>6 DEF ReadButtons, TypeOK, At
    <3> QED BY <1>1, <2>3, <2>6, <3>2, <3>3 DEF ReadEp1, ReadButtons, TypeOK, ledVars
  <2> QED BY <1>1, <2>4, <2>5, <2>6 DEF ReadEp1
<1>2. CASE EchoButtons
  <2>1. inHand.reader \in BOOLEAN
    BY DEF TypeOK, InHand
  <2>2. \A v \in {0, MaxBrightness} : Set(LedState, "button", v) \in States
    BY LedStateLemma, SetLemma DEF Leds, MaxBrightness
  <2>3. PICK s \in States : StartFlush("reader", s)
    BY <1>2, <2>2, LedStateLemma DEF EchoButtons
  <2>4. /\ leds' \in [Leds -> Levels]
        /\ dirty' \in [Banks -> BOOLEAN]
        /\ frames' \in [Threads -> Seq(Frame)]
    BY <2>3, FlushTypes DEF Threads
  <2>5. host' \in Told
    BY <1>2, <2>1 DEF EchoButtons, TypeOK, Told
  <2>6. known' \in Told
    BY <1>2, <2>1 DEF EchoButtons, TypeOK, Told
  <2>7. inHand' \in InHand
    BY <1>2 DEF EchoButtons, TypeOK, InHand
  <2>8. at' \in At /\ mutex' \in Threads \cup {None}
    BY <1>2 DEF EchoButtons, Lock, TypeOK, At, Threads
  <2> QED BY <1>2, <2>4, <2>5, <2>6, <2>7, <2>8 DEF EchoButtons, TypeOK
<1>3. CASE ReaderUnlocks
  <2>1. at' \in At
    BY <1>3 DEF ReaderUnlocks, Flushed, TypeOK, At
  <2> QED BY <1>3, <2>1 DEF ReaderUnlocks, Flushed, TypeOK
<1>4. CASE ReadPads
  <2>1. /\ dev.padIn \in Seq(Pressures) /\ dev.padIn # <<>>
    BY <1>4 DEF ReadPads, TypeOK, Dev
  <2>2. Head(dev.padIn) \in Pressures /\ Tail(dev.padIn) \in Seq(Pressures)
    BY <2>1, HeadTailProperties
  <2>3. dev' \in Dev
    BY <1>4, <2>2 DEF ReadPads, TypeOK, Dev
  <2>4. inHand' \in InHand
    BY <1>4, <2>2 DEF ReadPads, TypeOK, InHand
  <2>5. at' \in At
    BY <1>4 DEF ReadPads, TypeOK, At
  <2> QED BY <1>4, <2>3, <2>4, <2>5 DEF ReadPads, TypeOK, ledVars
<1>5. CASE EchoPads
  <2> DEFINE p == Settled(inHand.pads)
  <2>1. p \in Pressures \cup {0} /\ p \in Nat
    <3>1. inHand.pads \in Pressures \cup {0}
      BY DEF TypeOK, InHand
    <3> QED BY <3>1, SettledLemma
  <2>2. p \div 64 \in Nat
    BY <2>1
  <2> HIDE DEF p
  <2>3. Set(LedState, "pad", p \div 64) \in States
    BY <2>2, LedStateLemma, SetLemma DEF Leds
  <2>4. PICK s \in States : StartFlush("pads", s)
    BY <1>5, <2>3, LedStateLemma DEF EchoPads, p
  <2>5. /\ leds' \in [Leds -> Levels]
        /\ dirty' \in [Banks -> BOOLEAN]
        /\ frames' \in [Threads -> Seq(Frame)]
    BY <2>4, FlushTypes DEF Threads
  <2>6. \/ UNCHANGED <<known, host>>
        \/ /\ known' = [known EXCEPT !.pad = p]
           /\ host' = [host EXCEPT !.pad = p]
    BY <1>5 DEF EchoPads, p
  <2>7. known' \in Told /\ host' \in Told
    BY <2>1, <2>6 DEF TypeOK, Told
  <2>8. inHand' \in InHand
    BY <1>5 DEF EchoPads, TypeOK, InHand
  <2>9. at' \in At /\ mutex' \in Threads \cup {None}
    BY <1>5 DEF EchoPads, Lock, TypeOK, At, Threads
  <2> QED BY <1>5, <2>5, <2>7, <2>8, <2>9 DEF EchoPads, TypeOK
<1>6. CASE PadsUnlock
  <2>1. at' \in At
    BY <1>6 DEF PadsUnlock, Flushed, TypeOK, At
  <2> QED BY <1>6, <2>1 DEF PadsUnlock, Flushed, TypeOK
<1>7. CASE \E t \in {"reader", "pads"} : ReadFails(t)
  <2>1. PICK t \in {"reader", "pads"} : ReadFails(t)
    BY <1>7
  <2>2. at' \in At
    BY <2>1 DEF ReadFails, TypeOK, At
  <2>3. known' \in Told
    BY <2>1 DEF ReadFails, TypeOK, Told
  <2>4. budget' \in [events : 0 .. MaxEvents, faults : 0 .. MaxFaults]
    BY <2>1, BudgetLemma DEF ReadFails
  <2> QED BY <2>1, <2>2, <2>3, <2>4 DEF ReadFails, TypeOK, ledVars
<1> QED BY <1>1, <1>2, <1>3, <1>4, <1>5, <1>6, <1>7


(* The main thread *)
LEMMA TypeMain ==
  ASSUME TypeOK, RequestInHand, Main \/ ReceiveOsc \/ ServeEnds
  PROVE  TypeOK'
<1>1. CASE AskInfo
  <2>1. at' \in At
    BY <1>1 DEF AskInfo, TypeOK, At
  <2>2. dev' \in Dev
    <3>1. dev' = [dev EXCEPT !.asked = @ + 1] \/ dev' = dev
      BY <1>1 DEF AskInfo
    <3>2. dev \in Dev /\ dev.asked + 1 \in Nat
      BY DEF TypeOK, Dev
    <3> DEFINE n == dev.asked + 1
    <3> HIDE DEF n
    <3>3. [dev EXCEPT !.asked = n] \in Dev
      BY <3>2 DEF Dev, n
    <3> QED BY <3>1, <3>2, <3>3 DEF n
  <2> QED BY <1>1, <2>1, <2>2 DEF AskInfo, TypeOK, ledVars
<1>2. CASE GotInfo
  <2>1. at' \in At
    BY <1>2 DEF GotInfo, TypeOK, At
  <2>2. infos' \in Nat
    BY <1>2 DEF GotInfo, TypeOK
  <2> QED BY <1>2, <2>1, <2>2 DEF GotInfo, TypeOK, ledVars
<1>3. CASE NoInfo
  <2>1. at' \in At
    BY <1>3 DEF NoInfo, TypeOK, At
  <2> QED BY <1>3, <2>1 DEF NoInfo, TypeOK, ledVars
<1>4. CASE EnableStreaming
  <2>1. PICK o \in WriteOutcomes :
          /\ dev' = IF o.landed THEN [dev EXCEPT !.streaming = TRUE] ELSE dev
          /\ Retried("main", o)
          /\ at' = [at EXCEPT !.main = IF TriesAgain("main", o) THEN "stream"
                                       ELSE IF o.result = "ok" THEN "greet" ELSE "exited"]
    BY <1>4 DEF EnableStreaming
  <2>2. dev' \in Dev
    BY <2>1 DEF TypeOK, Dev
  <2>3. tries' \in [Threads -> 0 .. Attempts - 1]
    BY <2>1, TriesLemma DEF Threads
  <2>4. at' \in At
    BY <2>1 DEF TypeOK, At
  <2> QED BY <1>4, <2>2, <2>3, <2>4 DEF EnableStreaming, TypeOK, ledVars
<1>5. CASE Greet
  <2>1. SetAll(MaxBrightness) \in States
    BY SetAllLemma DEF MaxBrightness
  <2>2. /\ leds' \in [Leds -> Levels]
        /\ dirty' \in [Banks -> BOOLEAN]
        /\ frames' \in [Threads -> Seq(Frame)]
    BY <1>5, <2>1, FlushTypes DEF Greet, Threads
  <2>3. at' \in At /\ mutex' \in Threads \cup {None}
    BY <1>5 DEF Greet, Lock, TypeOK, At, Threads
  <2> QED BY <1>5, <2>2, <2>3 DEF Greet, TypeOK
<1>6. CASE SweepEnds
  <2>1. Set(SetAll(0), "backlight", 92) \in States
    <3>1. SetAll(0) \in States /\ "backlight" \in Leds /\ 92 \in Nat
      BY SetAllLemma DEF Leds
    <3> QED BY <3>1, SetLemma
  <2>2. /\ leds' \in [Leds -> Levels]
        /\ dirty' \in [Banks -> BOOLEAN]
        /\ frames' \in [Threads -> Seq(Frame)]
    BY <1>6, <2>1, FlushTypes DEF SweepEnds, Threads
  <2>3. at' \in At
    BY <1>6 DEF SweepEnds, TypeOK, At
  <2> QED BY <1>6, <2>2, <2>3 DEF SweepEnds, TypeOK
<1>7. CASE SweepUnlocks
  <2>1. at' \in At
    BY <1>7 DEF SweepUnlocks, TypeOK, At
  <2> QED BY <1>7, <2>1 DEF SweepUnlocks, TypeOK
<1>8. CASE InitDisplays
  <2>1. at' \in At
    BY <1>8 DEF InitDisplays, TypeOK, At
  <2> QED BY <1>8, <2>1 DEF InitDisplays, TypeOK, ledVars
<1>9. CASE ReceiveOsc
  <2>1. at' \in At
    BY <1>9 DEF ReceiveOsc, TypeOK, At
  <2>2. inHand' \in InHand
    <3>1. PICK l \in Leds, v \in HostLevels :
            inHand' = [inHand EXCEPT !.main = [led |-> l, level |-> v]]
      BY <1>9 DEF ReceiveOsc
    <3>2. [led |-> l, level |-> v] \in [led : Leds, level : HostLevels]
      BY <3>1
    <3> QED BY <3>1, <3>2 DEF TypeOK, InHand
  <2>3. budget' \in [events : 0 .. MaxEvents, faults : 0 .. MaxFaults]
    BY <1>9, BudgetLemma DEF ReceiveOsc
  <2> QED BY <1>9, <2>1, <2>2, <2>3 DEF ReceiveOsc, TypeOK, ledVars
<1>10. CASE ApplyOsc
  <2>1. at' \in At /\ mutex' \in Threads \cup {None}
    BY <1>10 DEF ApplyOsc, Lock, TypeOK, At, Threads
  <2>2. inHand' \in InHand
    BY <1>10 DEF ApplyOsc, TypeOK, InHand
  <2>3. Set(LedState, inHand.main.led, inHand.main.level) \in States
    <3>1. inHand.main \in [led : Leds, level : HostLevels]
      BY <1>10 DEF ApplyOsc, RequestInHand, TypeOK, InHand
    <3>2. inHand.main.led \in Leds /\ inHand.main.level \in Nat
      BY <3>1, BridgeAssumption
    <3> QED BY <3>2, LedStateLemma, SetLemma
  <2>4. /\ leds' \in [Leds -> Levels]
        /\ dirty' \in [Banks -> BOOLEAN]
        /\ frames' \in [Threads -> Seq(Frame)]
    BY <1>10, <2>3, FlushTypes DEF ApplyOsc, Threads
  <2> QED BY <1>10, <2>1, <2>2, <2>4 DEF ApplyOsc, TypeOK
<1>11. CASE MainUnlocks
  <2>1. at' \in At
    BY <1>11 DEF MainUnlocks, Flushed, TypeOK, At
  <2> QED BY <1>11, <2>1 DEF MainUnlocks, Flushed, TypeOK
<1>12. CASE ServeEnds
  <2>1. at' \in At
    BY <1>12 DEF ServeEnds, TypeOK, At
  <2> QED BY <1>12, <2>1 DEF ServeEnds, TypeOK, ledVars
<1> QED BY <1>1, <1>2, <1>3, <1>4, <1>5, <1>6, <1>7, <1>8, <1>9, <1>10, <1>11,
           <1>12 DEF Main

(* The controller *)
LEMMA TypeController ==
  ASSUME TypeOK, Controller PROVE TypeOK'
<1>1. dev \in Dev
  BY DEF TypeOK
<1>2. /\ dev.plugged \in BOOLEAN /\ dev.streaming \in BOOLEAN
      /\ dev.asked \in Nat /\ dev.told \in Told
      /\ dev.ep1in \in Seq(Report) /\ dev.padIn \in Seq(Pressures)
  BY <1>1 DEF Dev
<1>3. CASE Answer
  <2> DEFINE n == dev.asked - 1
             q == Append(dev.ep1in, [kind |-> "info"])
  <2>1. n \in Nat
    BY <1>2, <1>3 DEF Answer
  <2>2. [kind |-> "info"] \in Report
    BY DEF Report
  <2>3. q \in Seq(Report)
    BY <1>2, <2>2, AppendProperties
  <2>4. dev' = [dev EXCEPT !.asked = n, !.ep1in = q]
    BY <1>3 DEF Answer
  <2> HIDE DEF n, q
  <2>5. dev' \in Dev
    BY <1>1, <2>1, <2>3, <2>4 DEF Dev
  <2> QED BY <1>3, <2>5 DEF Answer, TypeOK, threadVars, ledVars
<1>4. CASE Reports
  <2>1. \A b \in BOOLEAN : [dev.told EXCEPT !.button = b] \in Told
    BY <1>2 DEF Told
  <2>2. \A k \in KnobValues : [dev.told EXCEPT !.knob = k] \in Told
    BY <1>2 DEF Told
  <2>3. \A p \in Pressures : [dev.told EXCEPT !.pad = p] \in Told /\ <<p>> \in Seq(Pressures)
    BY <1>2 DEF Told
  <2>4. \A b \in BOOLEAN : Append(dev.ep1in, [kind |-> "button", value |-> b]) \in Seq(Report)
    <3>1. \A b \in BOOLEAN : [kind |-> "button", value |-> b] \in Report
      BY DEF Report
    <3> QED BY <1>2, <3>1, AppendProperties
  <2>5. \A k \in KnobValues : Append(dev.ep1in, [kind |-> "knob", value |-> k]) \in Seq(Report)
    <3>1. \A k \in KnobValues : [kind |-> "knob", value |-> k] \in Report
      BY DEF Report
    <3> QED BY <1>2, <3>1, AppendProperties
  <2>6. \A d \in Told, q \in Seq(Report) : [dev EXCEPT !.told = d, !.ep1in = q] \in Dev
    BY <1>1 DEF Dev
  <2>7. \A d \in Told, q \in Seq(Pressures) : [dev EXCEPT !.told = d, !.padIn = q] \in Dev
    BY <1>1 DEF Dev
  <2>8. dev' \in Dev
    <3>1. CASE \E b \in BOOLEAN :
                dev' = [dev EXCEPT !.told.button = b,
                          !.ep1in = Append(@, [kind |-> "button", value |-> b])]
      <4>1. PICK b \in BOOLEAN :
              dev' = [dev EXCEPT !.told = [dev.told EXCEPT !.button = b],
                        !.ep1in = Append(dev.ep1in, [kind |-> "button", value |-> b])]
        BY <3>1, <1>1 DEF Dev
      <4> QED BY <4>1, <2>1, <2>4, <2>6
    <3>2. CASE \E k \in KnobValues :
                dev' = [dev EXCEPT !.told.knob = k,
                          !.ep1in = Append(@, [kind |-> "knob", value |-> k])]
      <4>1. PICK k \in KnobValues :
              dev' = [dev EXCEPT !.told = [dev.told EXCEPT !.knob = k],
                        !.ep1in = Append(dev.ep1in, [kind |-> "knob", value |-> k])]
        BY <3>2, <1>1 DEF Dev
      <4> QED BY <4>1, <2>2, <2>5, <2>6
    <3>3. CASE \E p \in Pressures :
                dev' = [dev EXCEPT !.told.pad = p, !.padIn = <<p>>]
      <4>1. PICK p \in Pressures :
              dev' = [dev EXCEPT !.told = [dev.told EXCEPT !.pad = p], !.padIn = <<p>>]
        BY <3>3, <1>1 DEF Dev
      <4> QED BY <4>1, <2>3, <2>7
    <3> QED BY <1>4, <3>1, <3>2, <3>3 DEF Reports
  <2>9. budget' \in [events : 0 .. MaxEvents, faults : 0 .. MaxFaults]
    BY <1>4, BudgetLemma DEF Reports
  <2> QED BY <1>4, <2>8, <2>9 DEF Reports, TypeOK, threadVars, ledVars
<1>5. CASE Unplug
  <2>1. Untold \in Told
    BY DEF Untold, Told
  <2>2. dev' \in Dev
    <3>1. /\ dev' = [dev EXCEPT !.plugged = FALSE, !.streaming = FALSE, !.asked = 0,
                       !.told = Untold, !.ep1in = <<>>, !.padIn = <<>>]
      BY <1>5 DEF Unplug
    <3>2. dev' = [plugged |-> FALSE, streaming |-> FALSE, asked |-> 0,
                  told |-> Untold, ep1in |-> <<>>, padIn |-> <<>>]
      BY <1>1, <3>1 DEF Dev
    <3>3. <<>> \in Seq(Report) /\ <<>> \in Seq(Pressures)
      OBVIOUS
    <3> QED BY <2>1, <3>2, <3>3 DEF Dev
  <2> QED BY <1>5, <2>2 DEF Unplug, TypeOK, threadVars, ledVars
<1> QED BY <1>3, <1>4, <1>5 DEF Controller

LEMMA RequestKept ==
  ASSUME TypeOK, RequestInHand, [Next]_vars PROVE RequestInHand'
<1>1. CASE ReceiveOsc
  <2>1. PICK l \in Leds, v \in HostLevels :
          inHand' = [inHand EXCEPT !.main = [led |-> l, level |-> v]]
    BY <1>1 DEF ReceiveOsc
  <2>2. inHand'.main = [led |-> l, level |-> v]
    BY <2>1 DEF TypeOK, InHand
  <2>3. [led |-> l, level |-> v] \in [led : Leds, level : HostLevels]
    OBVIOUS
  <2> QED BY <2>2, <2>3 DEF RequestInHand
<1>2. CASE ApplyOsc
  <2>1. at'.main = "flush"
    BY <1>2 DEF ApplyOsc, TypeOK, At
  <2> QED BY <2>1 DEF RequestInHand
<1>3. CASE \/ AskInfo \/ GotInfo \/ NoInfo \/ EnableStreaming
           \/ Greet \/ SweepEnds \/ SweepUnlocks \/ InitDisplays
           \/ MainUnlocks \/ ServeEnds
  <2>1. at'.main # "lock"
    BY <1>3 DEF AskInfo, GotInfo, NoInfo, EnableStreaming, Greet, SweepEnds,
                SweepUnlocks, InitDisplays, MainUnlocks, Flushed, ServeEnds, TypeOK, At
  <2> QED BY <2>1 DEF RequestInHand
<1>4. CASE \/ \E t \in Threads : WriteFrame(t)
           \/ ReadEp1 \/ EchoButtons \/ ReaderUnlocks
           \/ ReadPads \/ EchoPads \/ PadsUnlock
           \/ \E t \in {"reader", "pads"} : ReadFails(t)
           \/ Controller \/ UNCHANGED vars
  <2>1. at'.main = at.main
    <3>1. CASE ReadEp1
      BY <3>1 DEF ReadEp1, ReadInfo, ReadKnobs, ReadButtons, TypeOK, At
    <3>2. CASE \/ \E t \in Threads : WriteFrame(t)
               \/ EchoButtons \/ ReaderUnlocks \/ ReadPads \/ EchoPads \/ PadsUnlock
               \/ \E t \in {"reader", "pads"} : ReadFails(t)
      BY <3>2 DEF WriteFrame, EchoButtons, ReaderUnlocks, ReadPads, EchoPads, PadsUnlock,
                  Flushed, ReadFails, TypeOK, At
    <3>3. CASE Controller \/ UNCHANGED vars
      BY <3>3 DEF Controller, Answer, Reports, Unplug, vars, threadVars
    <3> QED BY <1>4, <3>1, <3>2, <3>3
  <2>2. inHand'.main = inHand.main
    <3>1. CASE ReadEp1
      BY <3>1 DEF ReadEp1, ReadInfo, ReadKnobs, ReadButtons, TypeOK, InHand
    <3>2. CASE \/ \E t \in Threads : WriteFrame(t)
               \/ EchoButtons \/ ReaderUnlocks \/ ReadPads \/ EchoPads \/ PadsUnlock
               \/ \E t \in {"reader", "pads"} : ReadFails(t)
      BY <3>2 DEF WriteFrame, EchoButtons, ReaderUnlocks, ReadPads, EchoPads, PadsUnlock,
                  Flushed, ReadFails, TypeOK, InHand
    <3>3. CASE Controller \/ UNCHANGED vars
      BY <3>3 DEF Controller, Answer, Reports, Unplug, vars, threadVars
    <3> QED BY <1>4, <3>1, <3>2, <3>3
  <2> QED BY <2>1, <2>2 DEF RequestInHand
<1> QED BY <1>1, <1>2, <1>3, <1>4 DEF Next, Main, Exited

LEMMA TypeStep ==
  ASSUME TypeOK, RequestInHand, [Next]_vars PROVE TypeOK'
<1>1. CASE UNCHANGED vars
  BY <1>1 DEF vars, threadVars, ledVars, TypeOK
<1>2. CASE Exited
  BY <1>1, <1>2 DEF Exited
<1> QED BY <1>1, <1>2, TypeWriteFrame, TypeReaders, TypeMain, TypeController DEF Next

THEOREM TypeCorrect == Spec => []TypeOK
<1> DEFINE TInv == TypeOK /\ RequestInHand
<1>1. Init => TInv
  BY TypeInit DEF Init, RequestInHand
<1>2. TInv /\ [Next]_vars => TInv'
  BY TypeStep, RequestKept
<1> QED BY <1>1, <1>2, PTL DEF Spec

-----------------------------------------------------------------------------
(***************************************************************************)
(* The invariant behind ControllerShowsState.                              *)
(***************************************************************************)

(* The program points at which a thread has the mutex *)
Holding(t) == at[t] = "flush" \/ (t = "main" /\ at.main \in {"sweep", "sweep2"})

Early == {"ask", "wait", "stream", "greet", "exited"}

(* Who holds the mutex is who is between lock and unlock, and only it has  *)
(* frames to write, *)
MutexInv ==
  \A t \in Threads : /\ Holding(t) <=> mutex = t
                     /\ Flushing(t) => Holding(t)

(* so that what is still to be written is the LedState as it is now. *)
FramesCurrent ==
  \A t \in Threads : \A i \in 1 .. Len(frames[t]) : frames[t][i].content = leds

(* No bank is left dirty once LEDs were first flushed. *)
DirtyEarly == \A b \in Banks : dirty[b] => at.main \in Early

Pending(b) ==
  \E t \in Threads : \E i \in 1 .. Len(frames[t]) : frames[t][i].bank = b

Agrees(b) == \A l \in Leds : BankOf(l) = b => shown[l] = leds[l]

Accounted == \A b \in Banks : lost[b] \/ dirty[b] \/ Pending(b) \/ Agrees(b)

(* The pads thread is born when main starts to serve. *)
Starting == {"ask", "wait", "stream", "greet", "sweep", "sweep2", "display"}

PadsUnborn == at.main \in Starting => at.pads = "unborn"

LedInv == MutexInv /\ FramesCurrent /\ DirtyEarly /\ Accounted

IInv == TypeOK /\ RequestInHand /\ PadsUnborn /\ LedInv

LEMMA LedInit == Init => LedInv
<1> SUFFICES ASSUME Init PROVE LedInv
  OBVIOUS
<1>1. MutexInv
  BY BridgeAssumption DEF Init, MutexInv, Holding, Flushing, Threads
<1>2. FramesCurrent
  BY DEF Init, FramesCurrent
<1>3. DirtyEarly /\ Accounted
  BY DEF Init, DirtyEarly, Early, Accounted
<1> QED BY <1>1, <1>2, <1>3 DEF LedInv

(* A step that leaves the LEDs alone and no thread's place between lock    *)
(* and unlock changed                                                      *)
LEMMA QuietKeeps ==
  ASSUME LedInv, UNCHANGED <<ledVars, shown>>,
         \A t \in Threads : Holding(t)' <=> Holding(t),
         at.main \in Early => at'.main \in Early
  PROVE  LedInv'
<1>1. MutexInv'
  BY DEF LedInv, MutexInv, Flushing, ledVars
<1>2. FramesCurrent'
  BY DEF LedInv, FramesCurrent, ledVars
<1>3. DirtyEarly'
  BY DEF LedInv, DirtyEarly, ledVars
<1>4. Accounted'
  BY DEF LedInv, Accounted, Pending, Agrees, ledVars
<1> QED BY <1>1, <1>2, <1>3, <1>4 DEF LedInv

(* A thread gives the mutex back when it has written its frames.           *)
LEMMA UnlockKeeps ==
  ASSUME LedInv, NEW t \in Threads,
         Holding(t), ~Holding(t)', ~Flushing(t), mutex' = None,
         \A u \in Threads \ {t} : Holding(u)' <=> Holding(u),
         UNCHANGED <<leds, dirty, frames, lost, shown>>,
         at.main \in Early => at'.main \in Early
  PROVE  LedInv'
<1>1. MutexInv'
  BY BridgeAssumption DEF LedInv, MutexInv, Flushing
<1>2. FramesCurrent'
  BY DEF LedInv, FramesCurrent
<1>3. DirtyEarly'
  BY DEF LedInv, DirtyEarly
<1>4. Accounted'
  BY DEF LedInv, Accounted, Pending, Agrees
<1> QED BY <1>1, <1>2, <1>3, <1>4 DEF LedInv

(* s may follow the LedState: where it is clean, nothing was changed.      *)
Follows(s) ==
  \A b \in Banks : ~s.dirty[b] =>
    ~dirty[b] /\ \A l \in Leds : BankOf(l) = b => s.leds[l] = leds[l]

LEMMA FollowsLemma ==
  ASSUME TypeOK
  PROVE  /\ Follows(LedState)
         /\ \A l \in Leds, v \in Nat : Follows(Set(LedState, l, v))
         /\ \A v \in Nat : Follows(SetAll(v))
<1>1. LedState \in States /\ LedState.leds = leds /\ LedState.dirty = dirty
  BY LedStateLemma DEF LedState
<1>2. Follows(LedState)
  BY <1>1 DEF Follows
<1>3. \A l \in Leds, v \in Nat : Follows(Set(LedState, l, v))
  BY <1>1, SetLemma DEF Follows
<1>4. \A v \in Nat : Follows(SetAll(v))
  BY SetAllLemma DEF Follows
<1> QED BY <1>2, <1>3, <1>4

(* A thread that holds the mutex and has no frames starts to flush.        *)
LEMMA FlushKeeps ==
  ASSUME TypeOK, LedInv, NEW t \in Threads, NEW s \in States,
         StartFlush(t, s), Follows(s), UNCHANGED <<lost, shown>>,
         \A u \in Threads : ~Flushing(u),
         mutex' = t, \A u \in Threads : Holding(u)' <=> u = t
  PROVE  LedInv'
<1>1. \A u \in Threads : frames[u] = <<>>
  BY DEF Flushing
<1>2. /\ frames'[t] = FramesOf(s)
      /\ \A u \in Threads \ {t} : frames'[u] = <<>>
      /\ leds' = s.leds
      /\ \A b \in Banks : ~dirty'[b]
  BY <1>1 DEF StartFlush, TypeOK
<1>3. MutexInv'
  BY <1>2 DEF MutexInv, Flushing
<1>4. FramesCurrent'
  BY <1>2, FramesLemma DEF FramesCurrent
<1>5. DirtyEarly'
  BY <1>2 DEF DirtyEarly
<1>6. Accounted'
  <2> SUFFICES ASSUME NEW b \in Banks PROVE (lost[b] \/ Pending(b) \/ Agrees(b))'
    BY DEF Accounted
  <2>1. CASE s.dirty[b]
    <3>1. PICK i \in 1 .. Len(FramesOf(s)) : FramesOf(s)[i].bank = b
      BY <2>1, FramesLemma
    <3>2. Pending(b)'
      BY <1>2, <3>1 DEF Pending
    <3> QED BY <3>2
  <2>2. CASE ~s.dirty[b]
    <3>1. ~Pending(b)
      BY <1>1 DEF Pending
    <3>2. lost[b] \/ Agrees(b)
      BY <2>2, <3>1 DEF LedInv, Accounted, Follows
    <3>3. Agrees(b) => Agrees(b)'
      BY <1>2, <2>2 DEF Agrees, Follows
    <3> QED BY <3>2, <3>3
  <2> QED BY <2>1, <2>2
<1> QED BY <1>3, <1>4, <1>5, <1>6 DEF LedInv

(* The mutex is free: nobody is between lock and unlock. *)
LEMMA FreeLemma ==
  ASSUME LedInv, mutex = None
  PROVE  \A u \in Threads : ~Holding(u) /\ ~Flushing(u)
BY BridgeAssumption DEF LedInv, MutexInv

(* A write changes one bank on the controller, to the LedState as it is.   *)
LEMMA WriteKeeps ==
  ASSUME TypeOK, LedInv, NEW t \in Threads, WriteFrame(t) PROVE LedInv'
<1> DEFINE f == Head(frames[t])
<1>1. PICK o \in WriteOutcomes :
        /\ shown' = IF o.landed THEN Show(f) ELSE shown
        /\ IF GoesOn(t, o)
           THEN /\ frames' = [frames EXCEPT ![t] = Tail(@)]
                /\ lost' = [lost EXCEPT ![f.bank] = o.result # "ok"]
           ELSE UNCHANGED <<frames, lost, budget>>
  BY DEF WriteFrame
<1>2. o.result = "ok" => o.landed
  BY DEF WriteOutcomes
<1>3. frames[t] \in Seq(Frame) /\ frames[t] # <<>>
  BY DEF WriteFrame, Flushing, TypeOK
<1>4. /\ Len(frames[t]) \in Nat \ {0} /\ frames[t][1] = f /\ f \in Frame
      /\ Tail(frames[t]) \in Seq(Frame)
      /\ Len(Tail(frames[t])) = Len(frames[t]) - 1
      /\ \A i \in 1 .. Len(Tail(frames[t])) : Tail(frames[t])[i] = frames[t][i + 1]
  BY <1>3, HeadTailProperties
<1>5. f.bank \in Banks /\ f.content = leds
  BY <1>4 DEF LedInv, FramesCurrent, Frame
<1> HIDE DEF f
<1>6. /\ UNCHANGED <<at, mutex, leds, dirty>>
      /\ mutex = t /\ Holding(t)
  BY DEF WriteFrame, LedInv, MutexInv
<1>7. \A u \in Threads : frames'[u] = frames[u] \/ (u = t /\ frames'[u] = Tail(frames[t]))
  BY <1>1 DEF TypeOK
<1>8. MutexInv'
  <2>1. \A u \in Threads : Holding(u)' <=> Holding(u)
    BY <1>6 DEF Holding
  <2>2. \A u \in Threads : Flushing(u)' => Flushing(u) \/ u = t
    BY <1>7 DEF Flushing
  <2> QED BY <1>6, <2>1, <2>2 DEF LedInv, MutexInv
<1>9. FramesCurrent'
  <2> SUFFICES ASSUME NEW u \in Threads, NEW i \in 1 .. Len(frames'[u])
               PROVE  frames'[u][i].content = leds'
    BY DEF FramesCurrent
  <2>1. CASE frames'[u] = frames[u]
    BY <1>6, <2>1 DEF LedInv, FramesCurrent
  <2>2. CASE u = t /\ frames'[u] = Tail(frames[t])
    <3>1. i + 1 \in 1 .. Len(frames[t])
      BY <1>4, <2>2
    <3>2. frames'[u][i] = frames[t][i + 1]
      BY <1>4, <2>2
    <3> QED BY <1>6, <3>1, <3>2 DEF LedInv, FramesCurrent
  <2> QED BY <1>7, <2>1, <2>2
<1>10. DirtyEarly'
  BY <1>6 DEF LedInv, DirtyEarly
<1>11. ASSUME NEW b \in Banks
       PROVE  (lost[b] \/ dirty[b] \/ Pending(b) \/ Agrees(b))'
  <2>1. shown' = shown \/ shown' = Show(f)
    BY <1>1
  <2>2. Agrees(b) => Agrees(b)'
    BY <1>5, <1>6, <2>1 DEF Agrees, Show
  <2>3. CASE ~GoesOn(t, o)
    <3>1. Pending(b) => Pending(b)'
      BY <1>1, <2>3 DEF Pending
    <3> QED BY <1>1, <1>6, <2>2, <2>3, <3>1 DEF LedInv, Accounted
  <2>4. CASE GoesOn(t, o) /\ b = f.bank
    <3>1. CASE o.result = "ok"
      BY <1>1, <1>2, <1>5, <1>6, <2>4, <3>1 DEF Agrees, Show
    <3>2. CASE o.result # "ok"
      BY <1>1, <2>4, <3>2 DEF TypeOK
    <3> QED BY <3>1, <3>2
  <2>5. CASE GoesOn(t, o) /\ b # f.bank
    <3>1. frames' = [frames EXCEPT ![t] = Tail(@)] /\ lost'[b] = lost[b]
      BY <1>1, <1>5, <2>5 DEF TypeOK
    <3>2. Pending(b) => Pending(b)'
      <4> SUFFICES ASSUME Pending(b) PROVE Pending(b)'
        OBVIOUS
      <4>0. PICK u \in Threads : \E i \in 1 .. Len(frames[u]) : frames[u][i].bank = b
        BY DEF Pending
      <4>1. PICK i \in 1 .. Len(frames[u]) : frames[u][i].bank = b
        BY <4>0
      <4>2. CASE u # t
        BY <3>1, <4>1, <4>2 DEF Pending, TypeOK
      <4>3. CASE u = t
        <5>1. i # 1
          BY <1>4, <2>5, <4>1, <4>3
        <5>2. i - 1 \in 1 .. Len(Tail(frames[t]))
          BY <1>4, <4>1, <4>3, <5>1
        <5>3. Tail(frames[t])[i - 1] = frames[t][i]
          BY <1>4, <4>1, <4>3, <5>2
        <5>4. frames'[t] = Tail(frames[t])
          BY <3>1 DEF TypeOK
        <5> QED BY <4>1, <4>3, <5>2, <5>3, <5>4 DEF Pending
      <4> QED BY <4>2, <4>3
    <3> QED BY <1>6, <2>2, <3>1, <3>2 DEF LedInv, Accounted
  <2> QED BY <2>3, <2>4, <2>5
<1>12. Accounted'
  BY <1>11 DEF Accounted
<1> QED BY <1>8, <1>9, <1>10, <1>12 DEF LedInv

(* Nothing but a report read, a mutex taken or given back, or the end of a *)
(* thread happens to the reader and the pads.                              *)
LEMMA ReadersKeep ==
  ASSUME TypeOK, LedInv,
         \/ ReadEp1 \/ EchoButtons \/ ReaderUnlocks
         \/ ReadPads \/ EchoPads \/ PadsUnlock
         \/ \E t \in {"reader", "pads"} : ReadFails(t)
  PROVE  LedInv'
<1>1. CASE ReadEp1
  <2>1. at'.main = at.main /\ at'.pads = at.pads /\ (at'.reader = "read" \/ at'.reader = "lock")
    BY <1>1 DEF ReadEp1, ReadInfo, ReadKnobs, ReadButtons, TypeOK, At
  <2>2. \A t \in Threads : Holding(t)' <=> Holding(t)
    BY <1>1, <2>1 DEF ReadEp1, Holding, Threads
  <2> QED BY <1>1, <2>1, <2>2, QuietKeeps DEF ReadEp1
<1>2. CASE EchoButtons
  <2>1. \A u \in Threads : ~Holding(u) /\ ~Flushing(u)
    BY <1>2, FreeLemma DEF EchoButtons, Lock
  <2>2. \A v \in {0, MaxBrightness} :
          Set(LedState, "button", v) \in States /\ Follows(Set(LedState, "button", v))
    BY LedStateLemma, SetLemma, FollowsLemma DEF Leds, MaxBrightness
  <2>3. PICK s \in States : StartFlush("reader", s) /\ Follows(s)
    BY <1>2, <2>2, LedStateLemma, FollowsLemma DEF EchoButtons
  <2>4. at'.reader = "flush" /\ at'.main = at.main /\ at'.pads = at.pads
    BY <1>2 DEF EchoButtons, TypeOK, At
  <2>5. \A u \in Threads : Holding(u)' <=> u = "reader"
    BY <2>1, <2>4 DEF Holding, Threads
  <2>6. mutex' = "reader" /\ UNCHANGED <<lost, shown>> /\ "reader" \in Threads
    BY <1>2 DEF EchoButtons, Lock, Threads
  <2> QED BY <2>1, <2>3, <2>5, <2>6, FlushKeeps
<1>3. CASE ReaderUnlocks
  <2>1. /\ at.reader = "flush" /\ at'.reader = "read"
        /\ at'.main = at.main /\ at'.pads = at.pads
        /\ "reader" \in Threads
    BY <1>3 DEF ReaderUnlocks, Flushed, TypeOK, At, Threads
  <2>2. Holding("reader") /\ ~Holding("reader")'
    BY <2>1 DEF Holding
  <2>3. \A u \in Threads \ {"reader"} : Holding(u)' <=> Holding(u)
    BY <2>1 DEF Holding, Threads
  <2>4. /\ ~Flushing("reader") /\ mutex' = None
        /\ UNCHANGED <<leds, dirty, frames, lost, shown>>
    BY <1>3 DEF ReaderUnlocks, Flushed
  <2> QED BY <2>1, <2>2, <2>3, <2>4, UnlockKeeps
<1>4. CASE ReadPads
  <2>1. at'.main = at.main /\ at'.reader = at.reader /\ at'.pads = "lock" /\ at.pads = "read"
    BY <1>4 DEF ReadPads, TypeOK, At
  <2>2. \A t \in Threads : Holding(t)' <=> Holding(t)
    BY <2>1 DEF Holding, Threads
  <2> QED BY <1>4, <2>1, <2>2, QuietKeeps DEF ReadPads
<1>5. CASE EchoPads
  <2> DEFINE p == Settled(inHand.pads)
             v == p \div 64
  <2>1. \A u \in Threads : ~Holding(u) /\ ~Flushing(u)
    BY <1>5, FreeLemma DEF EchoPads, Lock
  <2>2. v \in Nat
    <3>1. inHand.pads \in Pressures \cup {0}
      BY DEF TypeOK, InHand
    <3>2. Settled(inHand.pads) \in Nat
      BY <3>1, SettledLemma
    <3> QED BY <3>2
  <2>3. StartFlush("pads", LedState) \/ StartFlush("pads", Set(LedState, "pad", v))
    BY <1>5 DEF EchoPads
  <2> HIDE DEF v
  <2>4. PICK s \in States : StartFlush("pads", s) /\ Follows(s)
    BY <2>2, <2>3, LedStateLemma, SetLemma, FollowsLemma DEF Leds
  <2>5. at'.pads = "flush" /\ at'.main = at.main /\ at'.reader = at.reader
    BY <1>5 DEF EchoPads, TypeOK, At
  <2>6. \A u \in Threads : Holding(u)' <=> u = "pads"
    BY <2>1, <2>5 DEF Holding, Threads
  <2>7. mutex' = "pads" /\ UNCHANGED <<lost, shown>> /\ "pads" \in Threads
    BY <1>5 DEF EchoPads, Lock, Threads
  <2> QED BY <2>1, <2>4, <2>6, <2>7, FlushKeeps
<1>6. CASE PadsUnlock
  <2>1. /\ at.pads = "flush" /\ at'.pads = "read"
        /\ at'.main = at.main /\ at'.reader = at.reader
        /\ "pads" \in Threads
    BY <1>6 DEF PadsUnlock, Flushed, TypeOK, At, Threads
  <2>2. Holding("pads") /\ ~Holding("pads")'
    BY <2>1 DEF Holding
  <2>3. \A u \in Threads \ {"pads"} : Holding(u)' <=> Holding(u)
    BY <2>1 DEF Holding, Threads
  <2>4. /\ ~Flushing("pads") /\ mutex' = None
        /\ UNCHANGED <<leds, dirty, frames, lost, shown>>
    BY <1>6 DEF PadsUnlock, Flushed
  <2> QED BY <2>1, <2>2, <2>3, <2>4, UnlockKeeps
<1>7. CASE \E t \in {"reader", "pads"} : ReadFails(t)
  <2>1. PICK t \in {"reader", "pads"} : ReadFails(t)
    BY <1>7
  <2>2. /\ at[t] = "read" /\ at' = [at EXCEPT ![t] = "ended"]
        /\ UNCHANGED <<ledVars, shown>>
    BY <2>1 DEF ReadFails
  <2>3. at'.main = at.main
    <3>1. CASE t = "reader"
      BY <2>2, <3>1 DEF TypeOK, At
    <3>2. CASE t = "pads"
      BY <2>2, <3>2 DEF TypeOK, At
    <3> QED BY <2>1, <3>1, <3>2
  <2>4. \A u \in Threads : Holding(u)' <=> Holding(u)
    <3>1. at'.reader = at.reader \/ (at.reader = "read" /\ at'.reader = "ended")
      BY <2>2 DEF TypeOK, At
    <3>2. at'.pads = at.pads \/ (at.pads = "read" /\ at'.pads = "ended")
      BY <2>2 DEF TypeOK, At
    <3> QED BY <2>3, <3>1, <3>2 DEF Holding, Threads
  <2> QED BY <2>2, <2>3, <2>4, QuietKeeps
<1> QED BY <1>1, <1>2, <1>3, <1>4, <1>5, <1>6, <1>7

(* The main thread *)
LEMMA MainKeeps ==
  ASSUME TypeOK, RequestInHand, PadsUnborn, LedInv, Main \/ ReceiveOsc \/ ServeEnds
  PROVE  LedInv'
<1>1. "main" \in Threads
  BY DEF Threads
<1>2. CASE \/ AskInfo \/ GotInfo \/ NoInfo \/ EnableStreaming \/ InitDisplays
           \/ ReceiveOsc \/ ServeEnds
  <2>1. UNCHANGED <<ledVars, shown>>
    BY <1>2 DEF AskInfo, GotInfo, NoInfo, EnableStreaming, InitDisplays, ReceiveOsc, ServeEnds
  <2>2. /\ at.main \in {"ask", "wait", "stream", "display", "serve"}
        /\ at'.main \in {"ask", "wait", "stream", "greet", "serve", "lock", "exited"}
        /\ at.main \in Early => at'.main \in Early
    BY <1>2 DEF AskInfo, GotInfo, NoInfo, EnableStreaming, InitDisplays, ReceiveOsc,
                ServeEnds, Early, TypeOK, At
  <2>3. at'.reader = at.reader
    BY <1>2 DEF AskInfo, GotInfo, NoInfo, EnableStreaming, InitDisplays, ReceiveOsc,
                ServeEnds, TypeOK, At
  <2>4. at'.pads = at.pads \/ (at.pads = "unborn" /\ at'.pads = "read")
    BY <1>2 DEF AskInfo, GotInfo, NoInfo, EnableStreaming, InitDisplays, ReceiveOsc,
                ServeEnds, PadsUnborn, Starting, TypeOK, At
  <2>5. \A t \in Threads : Holding(t)' <=> Holding(t)
    BY <2>2, <2>3, <2>4 DEF Holding, Threads
  <2> QED BY <2>1, <2>2, <2>5, QuietKeeps
<1>3. CASE Greet
  <2>1. \A u \in Threads : ~Holding(u) /\ ~Flushing(u)
    BY <1>3, FreeLemma DEF Greet, Lock
  <2>2. SetAll(MaxBrightness) \in States /\ Follows(SetAll(MaxBrightness))
    BY SetAllLemma, FollowsLemma DEF MaxBrightness
  <2>3. at'.main = "sweep" /\ at'.reader = at.reader /\ at'.pads = at.pads
    BY <1>3 DEF Greet, TypeOK, At
  <2>4. \A u \in Threads : Holding(u)' <=> u = "main"
    BY <2>1, <2>3 DEF Holding, Threads
  <2>5. /\ StartFlush("main", SetAll(MaxBrightness))
        /\ mutex' = "main" /\ UNCHANGED <<lost, shown>>
    BY <1>3 DEF Greet, Lock
  <2> QED BY <1>1, <2>1, <2>2, <2>4, <2>5, FlushKeeps
<1>4. CASE SweepEnds
  <2> DEFINE s == Set(SetAll(0), "backlight", 92)
  <2>1. SetAll(0) \in States /\ \A b \in Banks : SetAll(0).dirty[b]
    BY SetAllLemma
  <2>2. s \in States /\ Follows(s)
    <3>1. "backlight" \in Leds /\ 92 \in Nat
      BY DEF Leds
    <3> DEFINE all == SetAll(0)
    <3>2. all \in States /\ \A b \in Banks : all.dirty[b]
      BY <2>1
    <3> HIDE DEF all
    <3>3. /\ Set(all, "backlight", 92) \in States
          /\ \A b \in Banks : ~Set(all, "backlight", 92).dirty[b] => ~all.dirty[b]
      BY <3>1, <3>2, SetLemma
    <3>4. Set(all, "backlight", 92) = s
      BY DEF all
    <3> HIDE DEF s
    <3>5. s \in States /\ \A b \in Banks : s.dirty[b]
      BY <3>2, <3>3, <3>4
    <3> QED BY <3>5 DEF Follows
  <2>3. /\ at.main = "sweep" /\ ~Flushing("main")
        /\ StartFlush("main", s)
        /\ UNCHANGED <<mutex, lost, shown>>
        /\ at'.main = "sweep2" /\ at'.reader = at.reader /\ at'.pads = at.pads
    BY <1>4 DEF SweepEnds, TypeOK, At
  <2> HIDE DEF s
  <2>4. mutex = "main"
    BY <1>1, <2>3 DEF LedInv, MutexInv, Holding
  <2>5. \A u \in Threads : Holding(u) <=> u = "main"
    BY <2>4 DEF LedInv, MutexInv
  <2>6. \A u \in Threads : ~Flushing(u)
    BY <2>3, <2>5 DEF LedInv, MutexInv
  <2>7. \A u \in Threads : Holding(u)' <=> u = "main"
    BY <2>3, <2>5 DEF Holding, Threads
  <2>8. mutex' = "main"
    BY <2>3, <2>4
  <2> QED BY <1>1, <2>2, <2>3, <2>6, <2>7, <2>8, FlushKeeps
<1>5. CASE SweepUnlocks
  <2>1. /\ at.main = "sweep2" /\ at'.main = "display"
        /\ at'.reader = at.reader /\ at'.pads = at.pads
    BY <1>5 DEF SweepUnlocks, TypeOK, At
  <2>2. Holding("main") /\ ~Holding("main")'
    BY <2>1 DEF Holding
  <2>3. \A u \in Threads \ {"main"} : Holding(u)' <=> Holding(u)
    BY <2>1 DEF Holding, Threads
  <2>4. /\ ~Flushing("main") /\ mutex' = None
        /\ UNCHANGED <<leds, dirty, frames, lost, shown>>
    BY <1>5 DEF SweepUnlocks
  <2>5. at.main \in Early => at'.main \in Early
    BY <2>1 DEF Early
  <2> QED BY <1>1, <2>2, <2>3, <2>4, <2>5, UnlockKeeps
<1>6. CASE ApplyOsc
  <2> DEFINE s == Set(LedState, inHand.main.led, inHand.main.level)
  <2>1. \A u \in Threads : ~Holding(u) /\ ~Flushing(u)
    BY <1>6, FreeLemma DEF ApplyOsc, Lock
  <2>2. s \in States /\ Follows(s)
    <3>1. inHand.main \in [led : Leds, level : HostLevels]
      BY <1>6 DEF ApplyOsc, RequestInHand
    <3>2. inHand.main.led \in Leds /\ inHand.main.level \in Nat
      BY <3>1, BridgeAssumption
    <3> QED BY <3>2, LedStateLemma, SetLemma, FollowsLemma
  <2>3. /\ StartFlush("main", s)
        /\ mutex' = "main" /\ UNCHANGED <<lost, shown>>
        /\ at'.main = "flush" /\ at'.reader = at.reader /\ at'.pads = at.pads
    BY <1>6 DEF ApplyOsc, Lock, TypeOK, At
  <2> HIDE DEF s
  <2>4. \A u \in Threads : Holding(u)' <=> u = "main"
    BY <2>1, <2>3 DEF Holding, Threads
  <2> QED BY <1>1, <2>1, <2>2, <2>3, <2>4, FlushKeeps
<1>7. CASE MainUnlocks
  <2>1. /\ at.main = "flush" /\ at'.main = "serve"
        /\ at'.reader = at.reader /\ at'.pads = at.pads
    BY <1>7 DEF MainUnlocks, Flushed, TypeOK, At
  <2>2. Holding("main") /\ ~Holding("main")'
    BY <2>1 DEF Holding
  <2>3. \A u \in Threads \ {"main"} : Holding(u)' <=> Holding(u)
    BY <2>1 DEF Holding, Threads
  <2>4. /\ ~Flushing("main") /\ mutex' = None
        /\ UNCHANGED <<leds, dirty, frames, lost, shown>>
    BY <1>7 DEF MainUnlocks, Flushed
  <2>5. at.main \in Early => at'.main \in Early
    BY <2>1 DEF Early
  <2> QED BY <1>1, <2>2, <2>3, <2>4, <2>5, UnlockKeeps
<1> QED BY <1>2, <1>3, <1>4, <1>5, <1>6, <1>7 DEF Main

LEMMA UnbornKept ==
  ASSUME TypeOK, PadsUnborn, [Next]_vars PROVE PadsUnborn'
<1>1. CASE Main \/ ReceiveOsc \/ ServeEnds
  <2>1. at'.main \in Starting => at.main \in Starting /\ at'.pads = at.pads
    <3>1. CASE AskInfo \/ GotInfo \/ NoInfo \/ EnableStreaming \/ InitDisplays
      BY <3>1 DEF AskInfo, GotInfo, NoInfo, EnableStreaming, InitDisplays, Starting, TypeOK, At
    <3>2. CASE Greet \/ SweepEnds \/ SweepUnlocks
      BY <3>2 DEF Greet, SweepEnds, SweepUnlocks, Starting, TypeOK, At
    <3>3. CASE ApplyOsc \/ MainUnlocks \/ ReceiveOsc \/ ServeEnds
      BY <3>3 DEF ApplyOsc, MainUnlocks, Flushed, ReceiveOsc, ServeEnds, Starting, TypeOK, At
    <3> QED BY <1>1, <3>1, <3>2, <3>3 DEF Main
  <2> QED BY <2>1 DEF PadsUnborn
<1>2. CASE \/ \E t \in Threads : WriteFrame(t)
           \/ ReadEp1 \/ EchoButtons \/ ReaderUnlocks \/ ReadFails("reader")
           \/ Controller \/ UNCHANGED vars
  <2>1. at'.main = at.main /\ at'.pads = at.pads
    <3>1. CASE ReadEp1
      BY <3>1 DEF ReadEp1, ReadInfo, ReadKnobs, ReadButtons, TypeOK, At
    <3>2. CASE \/ \E t \in Threads : WriteFrame(t)
               \/ EchoButtons \/ ReaderUnlocks \/ ReadFails("reader")
      BY <3>2 DEF WriteFrame, EchoButtons, ReaderUnlocks, Flushed, ReadFails, TypeOK, At
    <3>3. CASE Controller \/ UNCHANGED vars
      BY <3>3 DEF Controller, Answer, Reports, Unplug, vars, threadVars
    <3> QED BY <1>2, <3>1, <3>2, <3>3
  <2> QED BY <2>1 DEF PadsUnborn
<1>3. CASE ReadPads \/ EchoPads \/ PadsUnlock \/ ReadFails("pads")
  <2>1. at'.main = at.main /\ at.pads # "unborn"
    BY <1>3 DEF ReadPads, EchoPads, PadsUnlock, Flushed, ReadFails, TypeOK, At
  <2> QED BY <2>1 DEF PadsUnborn
<1> QED BY <1>1, <1>2, <1>3 DEF Next, Exited

LEMMA LedStep ==
  ASSUME IInv, [Next]_vars PROVE LedInv'
<1>1. TypeOK /\ RequestInHand /\ PadsUnborn /\ LedInv
  BY DEF IInv
<1>2. CASE Controller \/ UNCHANGED vars
  <2>1. UNCHANGED <<ledVars, shown>> /\ at' = at
    BY <1>2 DEF Controller, Answer, Reports, Unplug, vars, threadVars
  <2>2. \A t \in Threads : Holding(t)' <=> Holding(t)
    BY <2>1 DEF Holding
  <2> QED BY <1>1, <2>1, <2>2, QuietKeeps
<1> QED BY <1>1, <1>2, WriteKeeps, ReadersKeep, MainKeeps DEF Next, Exited

(***************************************************************************)
(* With no frame left to write, a bank of LEDs shows the LedState unless   *)
(* its latest frame was given up, or no LED was flushed yet.               *)
(***************************************************************************)
THEOREM ShowsState == Spec => []ControllerShowsState
<1>1. Init => IInv
  BY TypeInit, LedInit DEF IInv, Init, RequestInHand, PadsUnborn
<1>2. IInv /\ [Next]_vars => IInv'
  BY TypeStep, RequestKept, UnbornKept, LedStep DEF IInv
<1>3. IInv => ControllerShowsState
  <2> SUFFICES ASSUME IInv, \A t \in Threads : ~Flushing(t), NEW b \in Banks
               PROVE  \/ lost[b]
                      \/ dirty[b] /\ at.main \in Early
                      \/ ~dirty[b] /\ Agrees(b)
    BY DEF ControllerShowsState, Agrees, Early
  <2>1. ~Pending(b)
    BY DEF Pending, Flushing
  <2>2. lost[b] \/ dirty[b] \/ Agrees(b)
    BY <2>1 DEF IInv, LedInv, Accounted
  <2>3. dirty[b] => at.main \in Early
    BY DEF IInv, LedInv, DirtyEarly
  <2>4. dirty[b] \in BOOLEAN
    BY DEF IInv, TypeOK
  <2> QED BY <2>2, <2>3, <2>4
<1> QED BY <1>1, <1>2, <1>3, PTL DEF Spec

-----------------------------------------------------------------------------
(***************************************************************************)
(* What the host was told.  The reader and the pads tell it what they      *)
(* know; what is known and what is still in a report underway together     *)
(* come to what the controller said last.                                  *)
(***************************************************************************)

(* After the reports s, of which the last of kind k counts, d has become v *)
Brings(s, k, d, v) ==
  /\ (\A i \in 1 .. Len(s) : s[i].kind # k) => d = v
  /\ \A i \in 1 .. Len(s) :
       (s[i].kind = k /\ \A j \in 1 .. Len(s) : j > i => s[j].kind # k)
         => s[i].value = v

(* The host was told what the threads know. *)
HostToldKnown ==
  /\ at.reader # "ended" => host.button = known.button /\ host.knob = known.knob
  /\ at.pads # "ended" => host.pad = known.pad

ButtonSeen == IF at.reader = "lock" THEN inHand.reader ELSE known.button

EndsKnown ==
  (dev.plugged /\ at.reader # "ended") =>
    /\ Brings(dev.ep1in, "button", ButtonSeen, dev.told.button)
    /\ Brings(dev.ep1in, "knob", known.knob, dev.told.knob)

(* The pressure q is near enough to the reported p.                        *)
Near(q, p) == Apart(q, Settled(p)) < Band /\ (Settled(p) = 0 => q = 0)

PadKnown ==
  dev.plugged =>
    /\ dev.padIn # <<>> => dev.padIn = <<dev.told.pad>>
    /\ (dev.padIn = <<>> /\ at.pads # "ended") =>
         IF at.pads = "lock" THEN inHand.pads = dev.told.pad
         ELSE Near(known.pad, dev.told.pad)

FollowInv == HostToldKnown /\ EndsKnown /\ PadKnown

LEMMA BringsAppendOther ==
  ASSUME NEW S, NEW s \in Seq(S), NEW x \in S, NEW k, NEW d, NEW v,
         x.kind # k, Brings(s, k, d, v)
  PROVE  Brings(Append(s, x), k, d, v)
<1> DEFINE r == Append(s, x)
<1>1. /\ Len(s) \in Nat /\ Len(r) = Len(s) + 1 /\ r[Len(s) + 1] = x
      /\ \A i \in 1 .. Len(s) : r[i] = s[i]
  BY AppendProperties
<1> HIDE DEF r
<1>2. \A i \in 1 .. Len(r) : r[i].kind = k => i \in 1 .. Len(s)
  BY <1>1
<1>3. \A i \in 1 .. Len(s) : i \in 1 .. Len(r)
  BY <1>1
<1>4. (\A i \in 1 .. Len(r) : r[i].kind # k) => \A i \in 1 .. Len(s) : s[i].kind # k
  BY <1>1, <1>3
<1>5. ASSUME NEW i \in 1 .. Len(r), r[i].kind = k,
             \A j \in 1 .. Len(r) : j > i => r[j].kind # k
      PROVE  r[i].value = v
  <2>1. i \in 1 .. Len(s)
    BY <1>2, <1>5
  <2>2. \A j \in 1 .. Len(s) : j > i => s[j].kind # k
    BY <1>1, <1>3, <1>5
  <2> QED BY <1>1, <1>5, <2>1, <2>2 DEF Brings
<1>6. Brings(r, k, d, v)
  BY <1>4, <1>5 DEF Brings
<1> QED BY <1>6 DEF r

LEMMA BringsAppendSame ==
  ASSUME NEW S, NEW s \in Seq(S), NEW x \in S, NEW d
  PROVE  Brings(Append(s, x), x.kind, d, x.value)
<1> DEFINE r == Append(s, x)
<1>1. Len(s) \in Nat /\ Len(r) = Len(s) + 1 /\ r[Len(s) + 1] = x
  BY AppendProperties
<1> HIDE DEF r
<1>2. Len(r) \in 1 .. Len(r) /\ r[Len(r)] = x
  BY <1>1
<1>3. \A i \in 1 .. Len(r) : i # Len(r) => Len(r) > i
  BY <1>1
<1>4. Brings(r, x.kind, d, x.value)
  BY <1>2, <1>3 DEF Brings
<1> QED BY <1>4 DEF r

(* A report of another kind taken from the front changes nothing; one of   *)
(* kind k becomes what is known.                                           *)
LEMMA BringsTail ==
  ASSUME NEW S, NEW s \in Seq(S), s # <<>>, NEW k, NEW d, NEW v, Brings(s, k, d, v)
  PROVE  /\ Head(s).kind # k => Brings(Tail(s), k, d, v)
         /\ Head(s).kind = k => Brings(Tail(s), k, Head(s).value, v)
<1> DEFINE r == Tail(s)
           n == Len(s)
<1>1. /\ n \in Nat \ {0} /\ Len(r) = n - 1 /\ Head(s) = s[1]
      /\ \A i \in 1 .. Len(r) : r[i] = s[i + 1]
  BY HeadTailProperties
<1> HIDE DEF r
<1>2. \A i \in 1 .. Len(r) : i + 1 \in 1 .. n
  BY <1>1
<1>3. \A j \in 1 .. n : j # 1 => j - 1 \in 1 .. Len(r) /\ r[j - 1] = s[j]
  <2> TAKE j \in 1 .. n
  <2> SUFFICES ASSUME j # 1 PROVE j - 1 \in 1 .. Len(r) /\ r[j - 1] = s[j]
    OBVIOUS
  <2>1. j - 1 \in 1 .. Len(r) /\ (j - 1) + 1 = j
    BY <1>1
  <2> QED BY <1>1, <2>1
<1>4. ASSUME NEW i \in 1 .. Len(r), r[i].kind = k,
             \A j \in 1 .. Len(r) : j > i => r[j].kind # k
      PROVE  r[i].value = v
  <2>1. i + 1 \in 1 .. n /\ s[i + 1] = r[i]
    BY <1>1, <1>2
  <2>2. ASSUME NEW j \in 1 .. n, j > i + 1 PROVE s[j].kind # k
    <3>1. j # 1 /\ j - 1 > i
      BY <2>2
    <3> QED BY <1>3, <1>4, <3>1
  <2> QED BY <1>4, <2>1, <2>2 DEF Brings
<1>5. (\A i \in 1 .. Len(r) : r[i].kind # k) => \A j \in 1 .. n : j # 1 => s[j].kind # k
  BY <1>3
<1>6. ASSUME Head(s).kind # k, \A i \in 1 .. Len(r) : r[i].kind # k PROVE d = v
  BY <1>1, <1>5, <1>6 DEF Brings
<1>7. ASSUME Head(s).kind = k, \A i \in 1 .. Len(r) : r[i].kind # k PROVE Head(s).value = v
  <2>1. \A j \in 1 .. n : j > 1 => s[j].kind # k
    BY <1>1, <1>5, <1>7
  <2>2. 1 \in 1 .. n /\ s[1].kind = k
    BY <1>1, <1>7
  <2> QED BY <1>1, <2>1, <2>2 DEF Brings
<1> QED BY <1>4, <1>6, <1>7 DEF Brings, r

LEMMA NearItself ==
  ASSUME NEW p \in Pressures \cup {0} PROVE Near(Settled(p), p)
<1>1. Settled(p) \in Nat
  BY SettledLemma
<1>2. Apart(Settled(p), Settled(p)) = 0
  BY <1>1 DEF Apart
<1> QED BY <1>2 DEF Near, Band

(* A step that touches no report, and what no thread knows, keeps it.      *)
LEMMA FollowQuiet ==
  ASSUME FollowInv, UNCHANGED <<known, host, dev>>,
         UNCHANGED <<inHand.reader, inHand.pads>>,
         at'.reader = "ended" <=> at.reader = "ended",
         at'.pads = "ended" <=> at.pads = "ended",
         at'.reader = "lock" <=> at.reader = "lock",
         at'.pads = "lock" <=> at.pads = "lock"
  PROVE  FollowInv'
<1>1. HostToldKnown'
  BY DEF FollowInv, HostToldKnown
<1>2. ButtonSeen' = ButtonSeen
  BY DEF ButtonSeen
<1>3. EndsKnown'
  BY <1>2 DEF FollowInv, EndsKnown
<1>4. PadKnown'
  BY DEF FollowInv, PadKnown
<1> QED BY <1>1, <1>3, <1>4 DEF FollowInv

LEMMA FollowReadEp1 ==
  ASSUME TypeOK, FollowInv, ReadEp1 PROVE FollowInv'
<1> DEFINE h == Head(dev.ep1in)
<1>1. dev.ep1in \in Seq(Report) /\ dev.ep1in # <<>> /\ at.reader = "read"
  BY DEF ReadEp1, TypeOK, Dev
<1>2. /\ dev'.plugged = dev.plugged /\ dev'.told = dev.told
      /\ dev'.ep1in = Tail(dev.ep1in) /\ dev'.padIn = dev.padIn
  BY DEF ReadEp1, TypeOK, Dev
<1>3. \A k, d, v : Brings(dev.ep1in, k, d, v) =>
         /\ h.kind # k => Brings(dev'.ep1in, k, d, v)
         /\ h.kind = k => Brings(dev'.ep1in, k, h.value, v)
  BY <1>1, <1>2, BringsTail
<1>4. /\ host.button = known.button /\ host.knob = known.knob
      /\ at.pads # "ended" => host.pad = known.pad
  BY <1>1 DEF FollowInv, HostToldKnown
<1>5. dev.plugged => /\ Brings(dev.ep1in, "button", known.button, dev.told.button)
                     /\ Brings(dev.ep1in, "knob", known.knob, dev.told.knob)
  BY <1>1 DEF FollowInv, EndsKnown, ButtonSeen
<1> HIDE DEF h
<1>6. ASSUME at'.pads = at.pads, inHand'.pads = inHand.pads, known'.pad = known.pad
      PROVE  PadKnown'
  BY <1>2, <1>6 DEF FollowInv, PadKnown
<1>7. CASE ReadInfo
  <2>1. h.kind = "info" /\ UNCHANGED <<at, inHand, known, host>>
    BY <1>7 DEF ReadInfo, h
  <2>2. ButtonSeen' = known.button
    BY <1>1, <2>1 DEF ButtonSeen
  <2>3. EndsKnown'
    BY <1>2, <1>3, <1>5, <2>1, <2>2 DEF EndsKnown
  <2>4. HostToldKnown' /\ PadKnown'
    BY <1>6, <2>1 DEF FollowInv, HostToldKnown
  <2> QED BY <2>3, <2>4 DEF FollowInv
<1>8. CASE ReadKnobs
  <2>1. /\ h.kind = "knob" /\ UNCHANGED <<at, inHand>>
        /\ known' = [known EXCEPT !.knob = h.value]
        /\ host' = IF known.knob = None \/ h.value # known.knob
                   THEN [host EXCEPT !.knob = h.value] ELSE host
    BY <1>8 DEF ReadKnobs, h
  <2>2. /\ known'.knob = h.value /\ known'.button = known.button /\ known'.pad = known.pad
        /\ host'.button = host.button /\ host'.pad = host.pad
    BY <2>1 DEF TypeOK, Told
  <2>3. host'.knob = h.value
    <3>1. CASE known.knob = None \/ h.value # known.knob
      BY <2>1, <3>1 DEF TypeOK, Told
    <3>2. CASE ~(known.knob = None \/ h.value # known.knob)
      BY <1>4, <2>1, <3>2
    <3> QED BY <3>1, <3>2
  <2>4. ButtonSeen' = known.button
    BY <1>1, <2>1, <2>2 DEF ButtonSeen
  <2>5. EndsKnown'
    BY <1>2, <1>3, <1>5, <2>1, <2>2, <2>4 DEF EndsKnown
  <2>6. HostToldKnown'
    BY <1>4, <2>1, <2>2, <2>3 DEF HostToldKnown
  <2>7. PadKnown'
    BY <1>6, <2>1, <2>2
  <2> QED BY <2>5, <2>6, <2>7 DEF FollowInv
<1>9. CASE ReadButtons
  <2>1. /\ h.kind = "button" /\ UNCHANGED <<known, host>>
        /\ inHand'.reader = h.value /\ inHand'.pads = inHand.pads
        /\ at'.reader = "lock" /\ at'.pads = at.pads
    BY <1>9 DEF ReadButtons, h, TypeOK, At, InHand
  <2>2. ButtonSeen' = h.value
    BY <2>1 DEF ButtonSeen
  <2>3. EndsKnown'
    BY <1>2, <1>3, <1>5, <2>1, <2>2 DEF EndsKnown
  <2>4. HostToldKnown'
    BY <1>4, <2>1 DEF HostToldKnown
  <2>5. PadKnown'
    BY <1>6, <2>1
  <2> QED BY <2>3, <2>4, <2>5 DEF FollowInv
<1> QED BY <1>7, <1>8, <1>9 DEF ReadEp1

LEMMA FollowEcho ==
  ASSUME TypeOK, FollowInv, EchoButtons PROVE FollowInv'
<1> DEFINE now == inHand.reader
<1>1. /\ at.reader = "lock" /\ at'.reader = "flush" /\ at'.pads = at.pads
      /\ known' = [known EXCEPT !.button = now]
      /\ host' = (IF now # known.button THEN [host EXCEPT !.button = now] ELSE host)
      /\ inHand' = [inHand EXCEPT !.reader = FALSE] /\ dev' = dev
  BY DEF EchoButtons, TypeOK, At
<1>2. /\ host.button = known.button /\ host.knob = known.knob
      /\ at.pads # "ended" => host.pad = known.pad
  BY <1>1 DEF FollowInv, HostToldKnown
<1>3. inHand'.pads = inHand.pads
  BY <1>1 DEF TypeOK, InHand
<1> HIDE DEF now
<1>4. known'.button = now /\ known'.knob = known.knob /\ known'.pad = known.pad
  BY <1>1 DEF TypeOK, Told
<1>5. host'.button = now /\ host'.knob = host.knob /\ host'.pad = host.pad
  <2>1. CASE now # known.button
    BY <1>1, <2>1 DEF TypeOK, Told
  <2>2. CASE now = known.button
    BY <1>1, <1>2, <2>2
  <2> QED BY <2>1, <2>2
<1>6. HostToldKnown'
  BY <1>1, <1>2, <1>4, <1>5 DEF HostToldKnown
<1>7. ButtonSeen' = now /\ ButtonSeen = now
  BY <1>1, <1>4 DEF ButtonSeen, now
<1>8. EndsKnown'
  BY <1>1, <1>4, <1>7 DEF FollowInv, EndsKnown
<1>9. PadKnown'
  BY <1>1, <1>3, <1>4 DEF FollowInv, PadKnown
<1> QED BY <1>6, <1>8, <1>9 DEF FollowInv

LEMMA FollowReadPads ==
  ASSUME TypeOK, FollowInv, ReadPads PROVE FollowInv'
<1>1. /\ at.pads = "read" /\ at'.pads = "lock" /\ at'.reader = at.reader
      /\ UNCHANGED <<known, host>> /\ dev.padIn # <<>>
      /\ inHand'.pads = Head(dev.padIn) /\ inHand'.reader = inHand.reader
  BY DEF ReadPads, TypeOK, At, InHand
<1>2. /\ dev'.plugged = dev.plugged /\ dev'.told = dev.told
      /\ dev'.ep1in = dev.ep1in /\ dev'.padIn = Tail(dev.padIn)
  BY DEF ReadPads, TypeOK, Dev
<1>3. HostToldKnown'
  BY <1>1 DEF FollowInv, HostToldKnown
<1>4. ButtonSeen' = ButtonSeen
  BY <1>1 DEF ButtonSeen
<1>5. EndsKnown'
  BY <1>1, <1>2, <1>4 DEF FollowInv, EndsKnown
<1>6. dev.plugged => dev.padIn = <<dev.told.pad>>
  BY <1>1 DEF FollowInv, PadKnown
<1>7. dev.plugged => inHand'.pads = dev.told.pad /\ dev'.padIn = <<>>
  <2> DEFINE x == dev.told.pad
  <2>1. x \in Pressures \cup {0}
    BY DEF TypeOK, Dev, Told
  <2> HIDE DEF x
  <2>2. Head(<<x>>) = x /\ Tail(<<x>>) = <<>>
    BY <2>1
  <2> QED BY <1>1, <1>2, <1>6, <2>2 DEF x
<1>8. PadKnown'
  BY <1>1, <1>2, <1>7 DEF PadKnown
<1> QED BY <1>3, <1>5, <1>8 DEF FollowInv

(* A pressure left out is near what was told before; a pad at rest never   *)
(* is left out.                                                            *)
LEMMA FollowEchoPads ==
  ASSUME TypeOK, FollowInv, EchoPads PROVE FollowInv'
<1> DEFINE p == Settled(inHand.pads)
<1>1. /\ at.pads = "lock" /\ at'.pads = "flush" /\ at'.reader = at.reader
      /\ inHand'.reader = inHand.reader /\ dev' = dev
  BY DEF EchoPads, TypeOK, At, InHand
<1>2. inHand.pads \in Pressures \cup {0}
  BY DEF TypeOK, InHand
<1>3. host.pad = known.pad
  BY <1>1 DEF FollowInv, HostToldKnown
<1>4. \/ Skipped(p, known.pad) /\ known' = known /\ host' = host
      \/ known' = [known EXCEPT !.pad = p] /\ host' = [host EXCEPT !.pad = p]
  BY DEF EchoPads
<1>5. Near(known'.pad, inHand.pads)
  <2>0. p \in Nat /\ known.pad \in Nat
    <3>1. p \in Nat
      BY <1>2, SettledLemma
    <3>2. known.pad \in Pressures \cup {0}
      BY DEF TypeOK, Told
    <3>3. known.pad \in Nat
      <4> DEFINE q == known.pad
      <4>1. q \in Pressures \cup {0}
        BY <3>2
      <4> HIDE DEF q
      <4>2. q \in Nat
        BY <4>1, BridgeAssumption
      <4> QED BY <4>2 DEF q
    <3> QED BY <3>1, <3>3
  <2>1. CASE Skipped(p, known.pad) /\ known' = known
    <3> DEFINE q == known.pad
    <3> HIDE DEF p, q
    <3>1. Apart(p, q) < Band /\ ~(p = 0 /\ q # 0)
      BY <2>1 DEF Skipped, q
    <3>2. Apart(q, p) = Apart(p, q)
      BY <2>0 DEF Apart, q
    <3>3. Apart(q, p) < Band /\ (p = 0 => q = 0)
      BY <3>1, <3>2
    <3> QED BY <2>1, <3>3 DEF Near, p, q
  <2>2. CASE known' = [known EXCEPT !.pad = p]
    <3>1. known'.pad = p
      BY <2>2 DEF TypeOK, Told
    <3> QED BY <1>2, <3>1, NearItself
  <2> QED BY <1>4, <2>1, <2>2
<1> HIDE DEF p
<1>6. /\ known'.button = known.button /\ known'.knob = known.knob
      /\ host'.button = host.button /\ host'.knob = host.knob
  BY <1>4 DEF TypeOK, Told
<1>7. host'.pad = known'.pad
  BY <1>3, <1>4 DEF TypeOK, Told
<1>8. HostToldKnown'
  BY <1>1, <1>6, <1>7 DEF FollowInv, HostToldKnown
<1>9. ButtonSeen' = ButtonSeen
  BY <1>1, <1>6 DEF ButtonSeen
<1>10. EndsKnown'
  BY <1>1, <1>6, <1>9 DEF FollowInv, EndsKnown
<1>11. PadKnown'
  BY <1>1, <1>5 DEF FollowInv, PadKnown
<1> QED BY <1>8, <1>10, <1>11 DEF FollowInv

LEMMA FollowReadFails ==
  ASSUME TypeOK, FollowInv, NEW t \in {"reader", "pads"}, ReadFails(t) PROVE FollowInv'
<1>1. UNCHANGED <<inHand, host, dev>>
  BY DEF ReadFails
<1>2. CASE t = "reader"
  <2>1. at'.reader = "ended" /\ at'.pads = at.pads /\ known'.pad = known.pad
    BY <1>2 DEF ReadFails, TypeOK, At, Told
  <2> QED BY <1>1, <2>1 DEF FollowInv, HostToldKnown, EndsKnown, PadKnown
<1>3. CASE t = "pads"
  <2>1. /\ at'.pads = "ended" /\ at'.reader = at.reader
        /\ known'.button = known.button /\ known'.knob = known.knob
    BY <1>3 DEF ReadFails, TypeOK, At, Told
  <2>2. ButtonSeen' = ButtonSeen
    BY <1>1, <2>1 DEF ButtonSeen
  <2> QED BY <1>1, <2>1, <2>2 DEF FollowInv, HostToldKnown, EndsKnown, PadKnown
<1> QED BY <1>2, <1>3

LEMMA FollowController ==
  ASSUME TypeOK, FollowInv, Controller PROVE FollowInv'
<1>1. UNCHANGED <<at, inHand, known, host>>
  <2>1. Controller => UNCHANGED <<threadVars, host>>
    BY Zenon DEF Controller, Answer, Reports, Unplug
  <2> QED BY <2>1 DEF threadVars
<1>2. HostToldKnown' /\ ButtonSeen' = ButtonSeen
  BY <1>1 DEF FollowInv, HostToldKnown, ButtonSeen
<1>3. ASSUME NEW x \in Report, dev'.plugged = dev.plugged, dev'.padIn = dev.padIn,
             dev'.told.pad = dev.told.pad,
             dev'.ep1in = Append(dev.ep1in, x),
             x.kind # "button" => dev'.told.button = dev.told.button,
             x.kind = "button" => dev'.told.button = x.value,
             x.kind # "knob" => dev'.told.knob = dev.told.knob,
             x.kind = "knob" => dev'.told.knob = x.value
      PROVE  FollowInv'
  <2>1. dev.ep1in \in Seq(Report)
    BY DEF TypeOK, Dev
  <2>2. \A k, d, v : Brings(dev.ep1in, k, d, v) /\ x.kind # k => Brings(dev'.ep1in, k, d, v)
    BY <1>3, <2>1, BringsAppendOther
  <2>3. \A d : Brings(dev'.ep1in, x.kind, d, x.value)
    BY <1>3, <2>1, BringsAppendSame
  <2>4. ASSUME dev.plugged, at.reader # "ended"
        PROVE  /\ Brings(dev'.ep1in, "button", ButtonSeen, dev'.told.button)
               /\ Brings(dev'.ep1in, "knob", known.knob, dev'.told.knob)
    BY <1>3, <2>2, <2>3, <2>4 DEF FollowInv, EndsKnown
  <2>5. EndsKnown'
    BY <1>1, <1>2, <1>3, <2>4 DEF EndsKnown
  <2>6. PadKnown'
    BY <1>1, <1>3 DEF FollowInv, PadKnown
  <2> QED BY <1>2, <2>5, <2>6 DEF FollowInv
<1>4. CASE Answer
  <2> DEFINE x == [kind |-> "info"]
  <2>1. x \in Report /\ x.kind = "info"
    BY DEF Report
  <2>2. /\ dev'.plugged = dev.plugged /\ dev'.padIn = dev.padIn /\ dev'.told = dev.told
        /\ dev'.ep1in = Append(dev.ep1in, x)
    BY <1>4 DEF Answer, TypeOK, Dev
  <2> HIDE DEF x
  <2> QED BY <1>3, <2>1, <2>2
<1>5. CASE Reports
  <2>0. dev.told \in Told
    BY DEF TypeOK, Dev
  <2>1. ASSUME NEW b \in BOOLEAN,
               dev' = [dev EXCEPT !.told.button = b,
                         !.ep1in = Append(@, [kind |-> "button", value |-> b])]
        PROVE  FollowInv'
    <3> DEFINE x == [kind |-> "button", value |-> b]
    <3>1. x \in Report /\ x.kind = "button" /\ x.value = b
      BY DEF Report
    <3>2. /\ dev'.plugged = dev.plugged /\ dev'.padIn = dev.padIn
          /\ dev'.ep1in = Append(dev.ep1in, x)
          /\ dev'.told = [dev.told EXCEPT !.button = b]
      BY <2>1 DEF TypeOK, Dev
    <3>3. dev'.told.button = b /\ dev'.told.knob = dev.told.knob /\ dev'.told.pad = dev.told.pad
      BY <2>0, <3>2 DEF Told
    <3> HIDE DEF x
    <3> QED BY <1>3, <3>1, <3>2, <3>3
  <2>2. ASSUME NEW k \in KnobValues,
               dev' = [dev EXCEPT !.told.knob = k,
                         !.ep1in = Append(@, [kind |-> "knob", value |-> k])]
        PROVE  FollowInv'
    <3> DEFINE x == [kind |-> "knob", value |-> k]
    <3>1. x \in Report /\ x.kind = "knob" /\ x.value = k
      BY DEF Report
    <3>2. /\ dev'.plugged = dev.plugged /\ dev'.padIn = dev.padIn
          /\ dev'.ep1in = Append(dev.ep1in, x)
          /\ dev'.told = [dev.told EXCEPT !.knob = k]
      BY <2>2 DEF TypeOK, Dev
    <3>3. dev'.told.knob = k /\ dev'.told.button = dev.told.button /\ dev'.told.pad = dev.told.pad
      BY <2>0, <3>2 DEF Told
    <3> HIDE DEF x
    <3> QED BY <1>3, <3>1, <3>2, <3>3
  <2>3. ASSUME NEW p \in Pressures, dev' = [dev EXCEPT !.told.pad = p, !.padIn = <<p>>]
        PROVE  FollowInv'
    <3>1. /\ dev'.plugged = dev.plugged /\ dev'.ep1in = dev.ep1in
          /\ dev'.padIn = <<p>> /\ dev'.told = [dev.told EXCEPT !.pad = p]
      BY <2>3 DEF TypeOK, Dev
    <3>2. /\ dev'.told.pad = p /\ dev'.told.button = dev.told.button
          /\ dev'.told.knob = dev.told.knob
      BY <2>0, <3>1 DEF Told
    <3>3. EndsKnown'
      BY <1>1, <1>2, <3>1, <3>2 DEF FollowInv, EndsKnown
    <3>4. PadKnown'
      BY <3>1, <3>2 DEF PadKnown
    <3> QED BY <1>2, <3>3, <3>4 DEF FollowInv
  <2> QED BY <1>5, <2>1, <2>2, <2>3, Zenon DEF Reports
<1>6. CASE Unplug
  <2>1. ~dev'.plugged
    BY <1>6 DEF Unplug, TypeOK, Dev
  <2> QED BY <1>2, <2>1 DEF FollowInv, EndsKnown, PadKnown
<1> QED BY <1>4, <1>5, <1>6 DEF Controller

(* Main sends requests and LEDs, and starts the pads.                      *)
LEMMA FollowMain ==
  ASSUME TypeOK, PadsUnborn, FollowInv, Main \/ ReceiveOsc \/ ServeEnds
  PROVE  FollowInv'
<1>1. CASE AskInfo \/ EnableStreaming
  <2>1. /\ UNCHANGED <<known, host, inHand>>
        /\ at'.reader = at.reader /\ at'.pads = at.pads
    BY <1>1 DEF AskInfo, EnableStreaming, TypeOK, At
  <2>2. /\ dev'.plugged = dev.plugged /\ dev'.told = dev.told
        /\ dev'.ep1in = dev.ep1in /\ dev'.padIn = dev.padIn
    BY <1>1 DEF AskInfo, EnableStreaming, TypeOK, Dev
  <2>3. ButtonSeen' = ButtonSeen
    BY <2>1 DEF ButtonSeen
  <2> QED BY <2>1, <2>2, <2>3 DEF FollowInv, HostToldKnown, EndsKnown, PadKnown
<1>2. CASE GotInfo \/ NoInfo \/ Greet \/ SweepEnds \/ SweepUnlocks \/ MainUnlocks \/ ServeEnds
  <2>1. /\ UNCHANGED <<known, host, dev, inHand>>
        /\ at'.reader = at.reader /\ at'.pads = at.pads
    BY <1>2 DEF GotInfo, NoInfo, Greet, SweepEnds, SweepUnlocks, MainUnlocks, Flushed,
                ServeEnds, TypeOK, At
  <2> QED BY <2>1, FollowQuiet
<1>3. CASE InitDisplays
  <2>1. /\ UNCHANGED <<known, host, dev, inHand>> /\ at'.reader = at.reader
        /\ at'.pads = at.pads \/ (at.pads = "unborn" /\ at'.pads = "read")
    BY <1>3 DEF InitDisplays, PadsUnborn, Starting, TypeOK, At
  <2> QED BY <2>1, FollowQuiet
<1>4. CASE ReceiveOsc \/ ApplyOsc
  <2>1. /\ UNCHANGED <<known, host, dev>>
        /\ inHand'.reader = inHand.reader /\ inHand'.pads = inHand.pads
        /\ at'.reader = at.reader /\ at'.pads = at.pads
    BY <1>4 DEF ReceiveOsc, ApplyOsc, TypeOK, At, InHand
  <2> QED BY <2>1, FollowQuiet
<1> QED BY <1>1, <1>2, <1>3, <1>4 DEF Main

LEMMA FollowStep ==
  ASSUME TypeOK, PadsUnborn, FollowInv, [Next]_vars PROVE FollowInv'
<1>1. CASE (\E t \in Threads : WriteFrame(t)) \/ UNCHANGED vars
  BY <1>1, FollowQuiet DEF WriteFrame, vars, threadVars
<1>2. CASE ReaderUnlocks \/ PadsUnlock
  <2>1. /\ UNCHANGED <<known, host, dev, inHand>>
        /\ at'.reader = at.reader \/ (at.reader = "flush" /\ at'.reader = "read")
        /\ at'.pads = at.pads \/ (at.pads = "flush" /\ at'.pads = "read")
    BY <1>2 DEF ReaderUnlocks, PadsUnlock, Flushed, TypeOK, At
  <2> QED BY <2>1, FollowQuiet
<1> QED BY <1>1, <1>2, FollowReadEp1, FollowEcho, FollowReadPads, FollowEchoPads,
           FollowReadFails, FollowMain, FollowController DEF Next, Exited

(***************************************************************************)
(* With all reports worked on, the host knows button and knob as the       *)
(* controller has them, a pad to within the band, and a pad at rest as 0.  *)
(***************************************************************************)
THEOREM HostFollows == Spec => []HostFollowsController
<1> DEFINE HostInv == TypeOK /\ RequestInHand /\ PadsUnborn /\ FollowInv
<1>1. Init => HostInv
  <2> SUFFICES ASSUME Init PROVE FollowInv
    BY TypeInit DEF Init, RequestInHand, PadsUnborn
  <2>1. /\ at.reader = "read" /\ at.pads = "unborn"
        /\ known = Untold /\ host = Untold /\ dev.told = Untold
        /\ dev.ep1in = <<>> /\ dev.padIn = <<>>
    BY DEF Init
  <2>2. EndsKnown
    BY <2>1 DEF EndsKnown, ButtonSeen, Brings
  <2>3. Near(0, 0)
    BY DEF Near, Settled, Apart, DeadZone, Band
  <2>4. PadKnown
    BY <2>1, <2>3 DEF PadKnown, Untold
  <2> QED BY <2>1, <2>2, <2>4 DEF FollowInv, HostToldKnown
<1>2. HostInv /\ [Next]_vars => HostInv'
  BY TypeStep, RequestKept, UnbornKept, FollowStep
<1>3. HostInv => HostFollowsController
  <2> SUFFICES ASSUME FollowInv PROVE HostFollowsController
    OBVIOUS
  <2>1. ASSUME dev.plugged, dev.ep1in = <<>>, at.reader \in {"read", "flush"}
        PROVE  host.button = dev.told.button /\ host.knob = dev.told.knob
    <3>1. ButtonSeen = known.button /\ at.reader # "ended"
      BY <2>1 DEF ButtonSeen
    <3>2. known.button = dev.told.button /\ known.knob = dev.told.knob
      BY <2>1, <3>1 DEF FollowInv, EndsKnown, Brings
    <3> QED BY <3>1, <3>2 DEF FollowInv, HostToldKnown
  <2>2. ASSUME dev.plugged, dev.padIn = <<>>, at.pads \in {"read", "flush"}
        PROVE  /\ Apart(host.pad, Settled(dev.told.pad)) < Band
               /\ Settled(dev.told.pad) = 0 => host.pad = 0
    BY <2>2 DEF FollowInv, HostToldKnown, PadKnown, Near
  <2> QED BY <2>1, <2>2 DEF HostFollowsController
<1> QED BY <1>1, <1>2, <1>3, PTL DEF Spec

=============================================================================
