--------------------------- MODULE KnobPath_proofs ---------------------------
(***************************************************************************)
(* KnobPath: the engine has the position against which the client thread   *)
(* judges the next move, a position with rails moves as its scale says, and*)
(* a bank that wraps holds what the knob was turned while it was active.   *)
(***************************************************************************)
EXTENDS KnobPath, SequenceTheorems, TLAPS

(* A knob event among the first of the channel is the last of the knob.    *)
LastKnob(s, i) ==
    s[i].kind = "knob" /\ \A j \in 1 .. Len(s) : j > i => s[j].kind # "knob"

(* Before the first report nothing was told of the knob.                   *)
NothingBefore ==
    knob = None => /\ \A i \in 1 .. Len(chan) : chan[i].kind # "knob"
                   /\ prev = None /\ told = None

(* The mark arrives with the last event underway, or has arrived.          *)
MarkArrives ==
    ~lost =>
        /\ \A i \in 1 .. Len(chan) : LastKnob(chan, i) => chan[i].raw = knob
        /\ (\A i \in 1 .. Len(chan) : chan[i].kind # "knob") =>
               (prev # None => prev = knob) /\ (told # None => told = knob)

(* The raw positions are those of how far the knob was turned.             *)
RawsTrue ==
    /\ \A i \in 1 .. Len(chan) : chan[i].kind = "knob" => chan[i].raw = chan[i].at % Rev
    /\ prev # None => prev = to % Rev

(* A knob is a master knob or it is not.                                   *)
OneWay == (prev # None => ~master) /\ (told # None => master)

KnobInv == NothingBefore /\ MarkArrives /\ RawsTrue /\ OneWay

-----------------------------------------------------------------------------
(* Arithmetic                                                              *)

LEMMA ModLemma ==
    ASSUME NEW a \in Int, NEW n \in Nat \ {0}
    PROVE  a % n \in 0 .. n - 1 /\ a \div n \in Int /\ a = n * (a \div n) + (a % n)
OBVIOUS

LEMMA RawType == \A p \in Int : p % Rev \in Raws /\ p % Rev \in Int
<1> TAKE p \in Int
<1>1. Rev \in Nat \ {0}
    BY KnobAssumption
<1>2. p % Rev \in 0 .. Rev - 1
    BY <1>1, ModLemma
<1> QED BY <1>2 DEF Raws

LEMMA DeltaType ==
    ASSUME TypeOK, NEW raw \in Raws PROVE Delta(raw) \in Int
<1>1. Rev \in Nat \ {0} /\ raw \in Int /\ Half \in Int
    BY KnobAssumption DEF Raws, Half
<1>2. prev # None => prev \in Int
    BY <1>1 DEF TypeOK, Raws
<1> QED BY <1>1, <1>2 DEF Delta

LEMMA ProfileLemma ==
    ASSUME TypeOK, NEW b \in Banks
    PROVE  profile[b].scale \in Int /\ profile[b].wrap \in BOOLEAN
           /\ virt[b] \in 0 .. Full /\ virt[b] \in Int /\ Full \in Nat \ {0}
<1>1. profile \in [Banks -> [scale : Int, wrap : BOOLEAN]] /\ Full \in Nat \ {0}
    BY KnobAssumption DEF TypeOK
<1>2. virt[b] \in 0 .. Full
    BY DEF TypeOK
<1> QED BY <1>1, <1>2

LEMMA AdvancedType ==
    ASSUME TypeOK, NEW b \in Banks, NEW d \in Int
    PROVE  Advanced(b, d) \in 0 .. Full
<1> DEFINE x == virt[b] + d * profile[b].scale
<1>1. Full \in Nat \ {0} /\ profile[b].scale \in Int /\ virt[b] \in Int
    BY ProfileLemma
<1>2. d * profile[b].scale \in Int
    BY <1>1
<1>3. x \in Int
    BY <1>1, <1>2
<1>4. Advanced(b, d) = IF profile[b].wrap THEN x % Full ELSE Clamp(x)
    BY DEF Advanced
<1> HIDE DEF x
<1>5. x % Full \in 0 .. Full - 1
    BY <1>1, <1>3, ModLemma
<1>6. x % Full \in 0 .. Full
    BY <1>1, <1>5
<1>7. Clamp(x) \in 0 .. Full
    BY <1>1, <1>3 DEF Clamp
<1> QED BY <1>4, <1>6, <1>7

(* Two numbers whose remainders by n differ by less than a multiple of n   *)
(* do.                                                                     *)
LEMMA MultipleLemma ==
    ASSUME NEW n \in Nat \ {0}, NEW k \in Int, n * k < 2 * n, -(2 * n) < n * k
    PROVE  k \in {-1, 0, 1}
<1>1. CASE k >= 2
    <2>1. n * (k - 2) >= 0
        BY <1>1
    <2> QED BY <2>1
<1>2. CASE k <= -2
    <2>1. n * (-2 - k) >= 0
        BY <1>2
    <2> QED BY <2>1
<1>3. CASE k > -2 /\ k < 2
    BY <1>3
<1> QED BY <1>1, <1>2, <1>3

(* A knob turned by less than half a revolution between two events: the    *)
(* shortest way around is the way it went.                                 *)
LEMMA DeltaTrue ==
    ASSUME NEW q \in Int, prev = q % Rev, NEW p \in Int, 2 * Distance(p, q) < Rev
    PROVE  Delta(p % Rev) = p - q
<1> DEFINE r == p % Rev
           o == q % Rev
           k == (p \div Rev) - (q \div Rev)
           d == r - o
<1>1. Rev \in Nat \ {0}
    BY KnobAssumption
<1>2. /\ r \in 0 .. Rev - 1 /\ p \div Rev \in Int /\ p = Rev * (p \div Rev) + r
      /\ o \in 0 .. Rev - 1 /\ q \div Rev \in Int /\ q = Rev * (q \div Rev) + o
    BY <1>1, ModLemma
<1>3. k \in Int /\ Rev * k = Rev * (p \div Rev) - Rev * (q \div Rev)
    BY <1>1, <1>2
<1> HIDE DEF r, o, k
<1>4. d \in Int /\ p - q = Rev * k + d /\ d < Rev /\ -Rev < d
    BY <1>1, <1>2, <1>3
<1>5. 2 * (p - q) < Rev /\ 2 * (q - p) < Rev
    BY <1>1 DEF Distance
<1>6. Rev * k < 2 * Rev /\ -(2 * Rev) < Rev * k
    BY <1>1, <1>3, <1>4, <1>5
<1>7. k \in {-1, 0, 1}
    BY <1>1, <1>3, <1>6, MultipleLemma
<1>8. p - q = d \/ p - q = d + Rev \/ p - q = d - Rev
    <2>1. k = 0 => Rev * k = 0
        BY <1>1
    <2>2. k = 1 => Rev * k = Rev
        BY <1>1
    <2>3. k = -1 => Rev * k = -Rev
        BY <1>1
    <2> QED BY <1>1, <1>4, <1>7, <2>1, <2>2, <2>3
<1>9. Half \in Int /\ 2 * Half <= Rev /\ Rev <= 2 * Half + 1
    BY <1>1 DEF Half
<1>10. Delta(r) = IF d > Half THEN d - Rev ELSE IF d < -Half THEN d + Rev ELSE d
    <2>1. prev # None
        BY <1>1, <1>2 DEF None, o
    <2>2. prev = o
        BY DEF o
    <2> QED BY <2>1, <2>2 DEF Delta
<1> HIDE DEF d
<1>11. Delta(r) = p - q
    BY <1>1, <1>4, <1>5, <1>8, <1>9, <1>10
<1> QED BY <1>11 DEF r

-----------------------------------------------------------------------------
(* Types                                                                   *)

LEMMA KnobEventType ==
    ASSUME NEW p \in Int
    PROVE  KnobEvent(p) \in Event /\ KnobEvent(p).kind = "knob"
           /\ KnobEvent(p).raw = p % Rev /\ KnobEvent(p).at = p
BY RawType DEF KnobEvent, Event

LEMMA BankEventType ==
    ASSUME NEW b \in Banks
    PROVE  BankEvent(b) \in Event /\ BankEvent(b).kind = "bank" /\ BankEvent(b).bank = b
BY DEF BankEvent, Event

LEMMA ReloadType == Reload \in Event /\ Reload.kind = "reload"
BY DEF Event, Reload

LEMMA OtherType ==
    ASSUME NEW e \in {BankEvent(b) : b \in Banks} \cup {Reload}
    PROVE  e \in Event /\ e.kind # "knob"
BY BankEventType, ReloadType

LEMMA TypeInit == Init => TypeOK
<1> SUFFICES ASSUME Init PROVE TypeOK
    OBVIOUS
<1>1. chan \in Seq(Event) /\ Len(chan) <= ChanCap
    BY BoundAssumption DEF Init
<1>2. virt \in [Banks -> 0 .. Full] /\ bank \in Banks
    BY KnobAssumption DEF Init
<1>3. profile \in Profiles /\ due \in [Banks -> Int]
    BY DEF Init
<1>4. reports \in 0 .. MaxReports /\ switches \in 0 .. MaxSwitches
    BY BoundAssumption DEF Init
<1>5. pos \in Int /\ to \in Int
    BY DEF Init
<1>6. knob \in Raws \cup {None} /\ prev \in Raws \cup {None} /\ told \in Raws \cup {None}
    BY DEF Init
<1>7. lost \in BOOLEAN /\ astray \in BOOLEAN /\ master \in BOOLEAN
    BY DEF Init
<1> QED BY <1>1, <1>2, <1>3, <1>4, <1>5, <1>6, <1>7 DEF TypeOK

LEMMA AppendType ==
    ASSUME TypeOK, NEW e \in Event, Room
    PROVE  Append(chan, e) \in Seq(Event) /\ Len(Append(chan, e)) <= ChanCap
<1>1. chan \in Seq(Event) /\ Len(chan) \in Nat /\ Len(chan) < ChanCap /\ ChanCap \in Nat
    BY BoundAssumption DEF TypeOK, Room
<1> QED BY <1>1, AppendProperties

LEMMA TakeType ==
    ASSUME TypeOK, chan # <<>>
    PROVE  Head(chan) \in Event /\ Tail(chan) \in Seq(Event) /\ Len(Tail(chan)) <= ChanCap
<1>1. chan \in Seq(Event) /\ Len(chan) <= ChanCap /\ ChanCap \in Nat
    BY BoundAssumption DEF TypeOK
<1>2. /\ Head(chan) \in Event /\ Tail(chan) \in Seq(Event)
      /\ Len(Tail(chan)) = Len(chan) - 1 /\ Len(chan) \in Nat
    BY <1>1, HeadTailProperties
<1> QED BY <1>1, <1>2

LEMMA EventLemma ==
    ASSUME NEW e \in Event
    PROVE  /\ e.kind \in {"knob", "bank", "reload"}
           /\ e.kind = "knob" => e.raw \in Raws /\ e.at \in Int
           /\ e.kind = "bank" => e.bank \in Banks
BY DEF Event, Reload

LEMMA TypeStep == TypeOK /\ [Next]_vars => TypeOK'
<1> SUFFICES ASSUME TypeOK, [Next]_vars PROVE TypeOK'
    OBVIOUS
<1>1. CASE UNCHANGED vars
    BY <1>1 DEF TypeOK, vars, client, engine, history
<1>2. ASSUME NEW m \in Moves, ReportKnob(m) PROVE TypeOK'
    <2>1. pos' \in Int /\ reports' \in 0 .. MaxReports
        BY <1>2, KnobAssumption, BoundAssumption DEF ReportKnob, Turned, TypeOK
    <2>2. knob' \in Raws \cup {None}
        BY <1>2, <2>1, RawType DEF ReportKnob, TypeOK
    <2>3. KnobEvent(pos') \in Event
        BY <2>1, KnobEventType
    <2>4. chan' \in {chan, Append(chan, KnobEvent(pos'))} /\ (chan' # chan => Room)
        BY <1>2 DEF ReportKnob
    <2>5. chan' \in Seq(Event) /\ Len(chan') <= ChanCap
        BY <2>3, <2>4, AppendType DEF TypeOK
    <2>6. lost' \in BOOLEAN
        BY <1>2 DEF ReportKnob, TypeOK, Room
    <2> QED BY <1>2, <2>1, <2>2, <2>5, <2>6 DEF ReportKnob, TypeOK, engine, history
<1>3. ASSUME NEW e \in {BankEvent(b) : b \in Banks} \cup {Reload}, ReportOther(e) PROVE TypeOK'
    <2>1. chan' \in Seq(Event) /\ Len(chan') <= ChanCap
        BY <1>3, OtherType, AppendType DEF ReportOther
    <2>2. switches' \in 0 .. MaxSwitches
        BY <1>3, BoundAssumption DEF ReportOther, TypeOK
    <2> QED BY <1>3, <2>1, <2>2 DEF ReportOther, TypeOK, client, engine, history
<1>4. CASE TakeKnob
    <2> DEFINE h == Head(chan)
    <2>1. chan # <<>> /\ h.kind = "knob"
        BY <1>4 DEF TakeKnob
    <2>2. h \in Event /\ Tail(chan) \in Seq(Event) /\ Len(Tail(chan)) <= ChanCap
        BY <2>1, TakeType
    <2>3. h.raw \in Raws /\ h.at \in Int
        BY <2>1, <2>2, EventLemma
    <2>4. Advanced(bank, Delta(h.raw)) \in 0 .. Full
        BY <2>3, DeltaType, AdvancedType DEF TypeOK
    <2>5. virt' = [virt EXCEPT ![bank] = Advanced(bank, Delta(h.raw))]
        BY <1>4 DEF TakeKnob
    <2> HIDE DEF h
    <2>6. virt' \in [Banks -> 0 .. Full]
        BY <2>4, <2>5 DEF TypeOK
    <2>7. prev' = h.raw /\ to' = h.at /\ astray' \in BOOLEAN
        BY <1>4 DEF TakeKnob, h
    <2>8. due' \in [Banks -> Int]
        <3>1. bank \in Banks /\ due \in [Banks -> Int] /\ to \in Int
            BY DEF TypeOK
        <3>2. profile[bank].scale \in Int /\ due[bank] \in Int
            BY <3>1, ProfileLemma
        <3>3. (h.at - to) * profile[bank].scale \in Int
            BY <2>3, <3>1, <3>2
        <3> DEFINE g == (h.at - to) * profile[bank].scale
        <3>4. due' = [due EXCEPT ![bank] = due[bank] + g] \/ due' = due
            BY <1>4 DEF TakeKnob, h
        <3> HIDE DEF g
        <3>5. due[bank] + g \in Int
            BY <3>2, <3>3 DEF g
        <3> QED BY <3>1, <3>4, <3>5
    <2> QED BY <1>4, <2>2, <2>3, <2>6, <2>7, <2>8 DEF TakeKnob, TypeOK, client
<1>5. CASE TakeMaster
    <2> DEFINE h == Head(chan)
    <2>1. chan # <<>> /\ h.kind = "knob" /\ told' = h.raw
        BY <1>5 DEF TakeMaster
    <2>2. h \in Event /\ Tail(chan) \in Seq(Event) /\ Len(Tail(chan)) <= ChanCap
        BY <2>1, TakeType
    <2>3. told' \in Raws
        BY <2>1, <2>2, EventLemma
    <2> QED BY <1>5, <2>2, <2>3 DEF TakeMaster, TypeOK, client, history
<1>6. CASE TakeOther
    <2> DEFINE h == Head(chan)
    <2>1. chan # <<>> /\ h.kind = "bank" /\ bank' = h.bank
        BY <1>6 DEF TakeOther
    <2>2. h \in Event /\ Tail(chan) \in Seq(Event) /\ Len(Tail(chan)) <= ChanCap
        BY <2>1, TakeType
    <2>3. bank' \in Banks
        BY <2>1, <2>2, EventLemma
    <2> QED BY <1>6, <2>2, <2>3 DEF TakeOther, TypeOK, client, history
<1>7. CASE TakeReload
    <2>1. Tail(chan) \in Seq(Event) /\ Len(Tail(chan)) <= ChanCap
        BY <1>7, TakeType DEF TakeReload
    <2>2. profile' \in Profiles
        BY <1>7 DEF TakeReload
    <2>3. due' \in [Banks -> Int]
        <3>1. \A b \in Banks : due[b] \in Int /\ virt[b] \in Int
            BY ProfileLemma DEF TypeOK
        <3>2. due' = [b \in Banks |-> IF profile[b].wrap THEN due[b] ELSE virt[b]]
            BY <1>7 DEF TakeReload
        <3> QED BY <3>1, <3>2
    <2> QED BY <1>7, <2>1, <2>2, <2>3 DEF TakeReload, TypeOK, client
<1> QED BY <1>1, <1>2, <1>3, <1>4, <1>5, <1>6, <1>7 DEF Next

(***************************************************************************)
(* The state has its type: a virtual position stays within its range.      *)
(***************************************************************************)
THEOREM TypeCorrect == Spec => []TypeOK
BY TypeInit, TypeStep, PTL DEF Spec

-----------------------------------------------------------------------------
(* What the engine knows                                                   *)

LEMMA KnobInit == Init => KnobInv
<1> SUFFICES ASSUME Init PROVE KnobInv
    OBVIOUS
<1>1. chan = <<>> /\ prev = None /\ told = None
    BY DEF Init
<1> QED BY <1>1 DEF KnobInv, NothingBefore, MarkArrives, RawsTrue, OneWay

(* A channel with one event more                                           *)
LEMMA Appended ==
    ASSUME TypeOK, NEW e \in Event, chan' = Append(chan, e)
    PROVE  /\ Len(chan) \in Nat /\ Len(chan') = Len(chan) + 1 /\ chan'[Len(chan) + 1] = e
           /\ \A i \in 1 .. Len(chan) : i \in 1 .. Len(chan') /\ chan'[i] = chan[i]
           /\ \A i \in 1 .. Len(chan') : i = Len(chan) + 1 \/ i \in 1 .. Len(chan)
<1>1. chan \in Seq(Event)
    BY DEF TypeOK
<1>2. /\ Len(chan) \in Nat /\ Len(chan') = Len(chan) + 1 /\ chan'[Len(chan) + 1] = e
      /\ \A i \in 1 .. Len(chan) : chan'[i] = chan[i]
    BY <1>1, AppendProperties
<1> QED BY <1>2

(* A channel with its first event taken                                    *)
LEMMA Taken ==
    ASSUME TypeOK, chan # <<>>, chan' = Tail(chan)
    PROVE  /\ Len(chan) \in Nat \ {0} /\ Len(chan') = Len(chan) - 1 /\ Head(chan) = chan[1]
           /\ 1 \in 1 .. Len(chan)
           /\ \A i \in 1 .. Len(chan') : i + 1 \in 1 .. Len(chan) /\ chan'[i] = chan[i + 1]
           /\ \A j \in 1 .. Len(chan) : j # 1 =>
                 j - 1 \in 1 .. Len(chan') /\ chan'[j - 1] = chan[j]
<1>1. chan \in Seq(Event)
    BY DEF TypeOK
<1>2. /\ Len(chan) \in Nat \ {0} /\ Len(chan') = Len(chan) - 1 /\ Head(chan) = chan[1]
      /\ \A i \in 1 .. Len(chan') : chan'[i] = chan[i + 1]
    BY <1>1, HeadTailProperties
<1>3. \A i \in 1 .. Len(chan') : i + 1 \in 1 .. Len(chan)
    BY <1>2
<1>4. \A j \in 1 .. Len(chan) : j # 1 => j - 1 \in 1 .. Len(chan') /\ (j - 1) + 1 = j
    BY <1>2
<1>5. \A j \in 1 .. Len(chan) : j # 1 => chan'[j - 1] = chan[j]
    <2> TAKE j \in 1 .. Len(chan)
    <2> HAVE j # 1
    <2>1. j - 1 \in 1 .. Len(chan') /\ (j - 1) + 1 = j
        BY <1>4
    <2> QED BY <1>2, <2>1
<1>6. 1 \in 1 .. Len(chan)
    BY <1>2
<1> QED BY <1>2, <1>3, <1>4, <1>5, <1>6

LEMMA ReportKeeps ==
    ASSUME TypeOK, KnobInv, NEW m \in Moves, ReportKnob(m)
    PROVE  KnobInv'
<1> DEFINE raw == (pos + m) % Rev
           e == KnobEvent(pos + m)
<1>1. pos + m \in Int
    BY KnobAssumption DEF TypeOK
<1>2. /\ UNCHANGED <<master, prev, told, to>>
      /\ knob' = IF knob = None \/ Moved(raw) THEN raw ELSE knob
      /\ IF Moved(raw)
         THEN chan' = (IF Room THEN Append(chan, e) ELSE chan) /\ lost' = ~Room
         ELSE UNCHANGED <<chan, lost>>
    <2>1. pos' = pos + m
        BY DEF ReportKnob, Turned
    <2> QED BY <2>1 DEF ReportKnob, engine, history
<1>3. e \in Event /\ e.kind = "knob" /\ e.raw = raw /\ e.at % Rev = raw
    BY <1>1, KnobEventType
<1>4. knob' # None
    <2>1. raw \in Int /\ raw \in Raws
        BY <1>1, RawType
    <2>2. raw # None
        BY <2>1, KnobAssumption DEF None, Raws
    <2> QED BY <1>2, <2>2
<1> HIDE DEF raw, e
<1>5. NothingBefore' /\ OneWay'
    BY <1>2, <1>4 DEF NothingBefore, KnobInv, OneWay
<1>6. CASE Moved(raw) /\ Room
    <2>1. chan' = Append(chan, e) /\ knob' = raw /\ lost' = FALSE
        BY <1>2, <1>6
    <2>2. /\ Len(chan) \in Nat /\ Len(chan') = Len(chan) + 1 /\ chan'[Len(chan) + 1] = e
          /\ \A i \in 1 .. Len(chan) : i \in 1 .. Len(chan') /\ chan'[i] = chan[i]
          /\ \A i \in 1 .. Len(chan') : i = Len(chan) + 1 \/ i \in 1 .. Len(chan)
        BY <1>3, <2>1, Appended
    <2>3. \A i \in 1 .. Len(chan') : LastKnob(chan', i) => i = Len(chan) + 1
        BY <1>3, <2>2 DEF LastKnob
    <2>4. Len(chan) + 1 \in 1 .. Len(chan')
        BY <2>2
    <2>5. MarkArrives'
        BY <1>3, <2>1, <2>2, <2>3, <2>4 DEF MarkArrives
    <2>6. RawsTrue'
        BY <1>2, <1>3, <2>2 DEF KnobInv, RawsTrue
    <2> QED BY <1>5, <2>5, <2>6 DEF KnobInv
<1>7. CASE Moved(raw) /\ ~Room
    BY <1>2, <1>5, <1>7 DEF KnobInv, MarkArrives, RawsTrue
<1>8. CASE ~Moved(raw)
    <2>1. UNCHANGED <<chan, lost>> /\ (knob # None => knob' = knob)
        BY <1>2, <1>8
    <2>2. MarkArrives'
        <3>1. CASE knob # None
            BY <1>2, <2>1, <3>1 DEF KnobInv, MarkArrives
        <3>2. CASE knob = None
            BY <1>2, <2>1, <3>2 DEF KnobInv, NothingBefore, MarkArrives, LastKnob
        <3> QED BY <3>1, <3>2
    <2> QED BY <1>2, <1>5, <2>1, <2>2 DEF KnobInv, RawsTrue
<1> QED BY <1>6, <1>7, <1>8

LEMMA OtherKeeps ==
    ASSUME TypeOK, KnobInv, NEW e \in {BankEvent(b) : b \in Banks} \cup {Reload}, ReportOther(e)
    PROVE  KnobInv'
<1>1. UNCHANGED <<master, knob, prev, told, to, lost>> /\ chan' = Append(chan, e)
    BY DEF ReportOther, client, engine, history
<1>2. e \in Event /\ e.kind # "knob"
    BY OtherType
<1>3. /\ Len(chan) \in Nat /\ Len(chan') = Len(chan) + 1 /\ chan'[Len(chan) + 1] = e
      /\ \A i \in 1 .. Len(chan) : i \in 1 .. Len(chan') /\ chan'[i] = chan[i]
      /\ \A i \in 1 .. Len(chan') : i = Len(chan) + 1 \/ i \in 1 .. Len(chan)
    BY <1>1, <1>2, Appended
<1>4. \A i \in 1 .. Len(chan') : chan'[i].kind = "knob" => i \in 1 .. Len(chan)
    BY <1>2, <1>3
<1>5. \A i \in 1 .. Len(chan') : LastKnob(chan', i) => i \in 1 .. Len(chan) /\ LastKnob(chan, i)
    BY <1>3, <1>4 DEF LastKnob
<1>6. NothingBefore'
    BY <1>1, <1>3, <1>4 DEF KnobInv, NothingBefore
<1>7. MarkArrives'
    BY <1>1, <1>3, <1>4, <1>5 DEF KnobInv, MarkArrives
<1>8. RawsTrue'
    BY <1>1, <1>3, <1>4 DEF KnobInv, RawsTrue
<1>9. OneWay'
    BY <1>1 DEF KnobInv, OneWay
<1> QED BY <1>6, <1>7, <1>8, <1>9 DEF KnobInv

(* The first event is taken: what is last stays last, and the last of the  *)
(* knob leaves its position with the engine or with the host.              *)
LEMMA TakeKeeps ==
    ASSUME TypeOK, KnobInv, chan # <<>>, chan' = Tail(chan), UNCHANGED <<master, knob, lost>>,
           \/ /\ Head(chan).kind = "knob"
              /\ \/ prev' = Head(chan).raw /\ told' = told /\ ~master
                    /\ to' = Head(chan).at
                 \/ told' = Head(chan).raw /\ prev' = prev /\ to' = to /\ master
           \/ Head(chan).kind # "knob" /\ UNCHANGED <<prev, told, to>>
    PROVE  KnobInv'
<1> DEFINE h == Head(chan)
<1>1. /\ Len(chan) \in Nat \ {0} /\ Len(chan') = Len(chan) - 1 /\ h = chan[1]
      /\ 1 \in 1 .. Len(chan)
      /\ \A i \in 1 .. Len(chan') : i + 1 \in 1 .. Len(chan) /\ chan'[i] = chan[i + 1]
      /\ \A j \in 1 .. Len(chan) : j # 1 =>
            j - 1 \in 1 .. Len(chan') /\ chan'[j - 1] = chan[j]
    BY Taken
<1> HIDE DEF h
<1>2. \A i \in 1 .. Len(chan') : LastKnob(chan', i) => LastKnob(chan, i + 1)
    <2> TAKE i \in 1 .. Len(chan')
    <2> HAVE LastKnob(chan', i)
    <2>1. chan[i + 1].kind = "knob"
        BY <1>1 DEF LastKnob
    <2>2. ASSUME NEW j \in 1 .. Len(chan), j > i + 1 PROVE chan[j].kind # "knob"
        <3>1. j # 1 /\ j - 1 > i
            BY <2>2
        <3>2. j - 1 \in 1 .. Len(chan') /\ chan'[j - 1] = chan[j]
            BY <1>1, <3>1
        <3>3. chan'[j - 1].kind # "knob"
            BY <3>1, <3>2 DEF LastKnob
        <3> QED BY <3>2, <3>3
    <2> QED BY <2>1, <2>2 DEF LastKnob
<1>3. ASSUME \A i \in 1 .. Len(chan') : chan'[i].kind # "knob", h.kind = "knob"
      PROVE  LastKnob(chan, 1)
    <2>1. \A j \in 1 .. Len(chan) : j # 1 => chan[j].kind # "knob"
        BY <1>1, <1>3
    <2>2. \A j \in 1 .. Len(chan) : j > 1 => j # 1
        OBVIOUS
    <2> QED BY <1>1, <1>3, <2>1, <2>2 DEF LastKnob
<1>4. ASSUME \A i \in 1 .. Len(chan') : chan'[i].kind # "knob", h.kind # "knob"
      PROVE  \A j \in 1 .. Len(chan) : chan[j].kind # "knob"
    BY <1>1, <1>4
<1>5. NothingBefore'
    <2> SUFFICES ASSUME knob = None
                 PROVE  /\ \A i \in 1 .. Len(chan') : chan'[i].kind # "knob"
                        /\ prev' = None /\ told' = None
        BY DEF NothingBefore
    <2>1. (\A i \in 1 .. Len(chan) : chan[i].kind # "knob") /\ prev = None /\ told = None
        BY DEF KnobInv, NothingBefore
    <2>2. h.kind # "knob"
        BY <1>1, <2>1
    <2> QED BY <1>1, <2>1, <2>2 DEF h
<1>6. MarkArrives'
    <2> SUFFICES ASSUME ~lost
                 PROVE  /\ \A i \in 1 .. Len(chan') : LastKnob(chan', i) => chan'[i].raw = knob
                        /\ (\A i \in 1 .. Len(chan') : chan'[i].kind # "knob") =>
                               (prev' # None => prev' = knob) /\ (told' # None => told' = knob)
        BY DEF MarkArrives
    <2>1. \A i \in 1 .. Len(chan) : LastKnob(chan, i) => chan[i].raw = knob
        BY DEF KnobInv, MarkArrives
    <2>2. \A i \in 1 .. Len(chan') : LastKnob(chan', i) => chan'[i].raw = knob
        BY <1>1, <1>2, <2>1
    <2>3. ASSUME \A i \in 1 .. Len(chan') : chan'[i].kind # "knob"
          PROVE  (prev' # None => prev' = knob) /\ (told' # None => told' = knob)
        <3>1. CASE h.kind = "knob"
            <4>1. h.raw = knob
                BY <1>1, <1>3, <2>1, <2>3, <3>1
            <4>2. \/ prev' = knob /\ told' = told /\ ~master
                  \/ told' = knob /\ prev' = prev /\ master
                BY <3>1, <4>1 DEF h
            <4> QED BY <4>2 DEF KnobInv, OneWay
        <3>2. CASE h.kind # "knob"
            <4>1. UNCHANGED <<prev, told>>
                BY <3>2 DEF h
            <4> QED BY <1>4, <2>3, <3>2, <4>1 DEF KnobInv, MarkArrives
        <3> QED BY <3>1, <3>2
    <2> QED BY <2>2, <2>3
<1>7. RawsTrue'
    <2>1. h.kind = "knob" => h.raw = h.at % Rev
        BY <1>1 DEF KnobInv, RawsTrue
    <2>2. prev' # None => prev' = to' % Rev
        BY <2>1 DEF KnobInv, RawsTrue, h
    <2> QED BY <1>1, <2>2 DEF KnobInv, RawsTrue
<1>8. OneWay'
    BY DEF KnobInv, OneWay
<1> QED BY <1>5, <1>6, <1>7, <1>8 DEF KnobInv

LEMMA KnobStep == TypeOK /\ KnobInv /\ [Next]_vars => KnobInv'
<1> SUFFICES ASSUME TypeOK, KnobInv, [Next]_vars PROVE KnobInv'
    OBVIOUS
<1>1. CASE UNCHANGED vars
    BY <1>1 DEF vars, client, engine, history, KnobInv, NothingBefore, MarkArrives, RawsTrue,
                OneWay, LastKnob
<1>2. CASE TakeKnob
    BY <1>2, TakeKeeps DEF TakeKnob, client
<1>3. CASE TakeMaster
    BY <1>3, TakeKeeps DEF TakeMaster, client, history
<1>4. CASE TakeOther
    BY <1>4, TakeKeeps DEF TakeOther, client, history
<1>5. CASE TakeReload
    BY <1>5, TakeKeeps DEF TakeReload, client
<1> QED BY <1>1, <1>2, <1>3, <1>4, <1>5, ReportKeeps, OtherKeeps DEF Next

LEMMA KnobAlways == Spec => [](TypeOK /\ KnobInv)
<1>1. Init => TypeOK /\ KnobInv
    BY TypeInit, KnobInit
<1>2. TypeOK /\ KnobInv /\ [Next]_vars => (TypeOK /\ KnobInv)'
    BY TypeStep, KnobStep
<1> QED BY <1>1, <1>2, PTL DEF Spec

(***************************************************************************)
(* With nothing underway and the last event not dropped, the engine has    *)
(* the mark of the client thread, and has passed a master knob on as such. *)
(***************************************************************************)
THEOREM EngineKnows == Spec => []EngineKnowsKnob
<1>1. TypeOK /\ KnobInv => EngineKnowsKnob
    <2> SUFFICES ASSUME TypeOK, KnobInv, ~Underway, ~lost
                 PROVE  (prev # None => prev = knob) /\ (told # None => told = knob)
        BY DEF EngineKnowsKnob
    <2>1. DOMAIN chan = 1 .. Len(chan)
        BY LenProperties DEF TypeOK
    <2> QED BY <2>1 DEF Underway, KnobInv, MarkArrives
<1> QED BY <1>1, KnobAlways, PTL

-----------------------------------------------------------------------------
(* A position between the rails moves as its scale says                    *)

(* The engine takes an event near the one before: its delta is how far the *)
(* knob was turned between them.                                           *)
LEMMA TakenTurn ==
    ASSUME TypeOK, KnobInv, TakeKnob, ~astray'
    PROVE  LET h == Head(chan)
               d == Delta(h.raw)
           IN  /\ h.at \in Int /\ d \in Int /\ to' = h.at
               /\ virt' = [virt EXCEPT ![bank] = Advanced(bank, d)]
               /\ prev = None => d = 0
               /\ prev # None => d = h.at - to
<1> DEFINE h == Head(chan)
           d == Delta(h.raw)
<1>1. chan # <<>> /\ h.kind = "knob" /\ chan' = Tail(chan)
    BY DEF TakeKnob
<1>2. h \in Event /\ h.raw \in Raws /\ h.at \in Int
    BY <1>1, TakeType, EventLemma
<1>3. chan[1] = h /\ 1 \in 1 .. Len(chan)
    BY <1>1, Taken
<1>4. h.raw = h.at % Rev
    BY <1>1, <1>3 DEF KnobInv, RawsTrue
<1>5. /\ to' = h.at /\ virt' = [virt EXCEPT ![bank] = Advanced(bank, d)]
      /\ prev # None => ~(2 * Distance(h.at, to) >= Rev)
    BY DEF TakeKnob
<1>6. d \in Int
    BY <1>2, DeltaType
<1>7. prev = None => d = 0
    BY DEF Delta
<1>8. prev # None => d = h.at - to
    <2> SUFFICES ASSUME prev # None PROVE d = h.at - to
        OBVIOUS
    <2>1. to \in Int /\ prev = to % Rev
        BY DEF TypeOK, KnobInv, RawsTrue
    <2>2. 2 * Distance(h.at, to) < Rev
        <3>1. Distance(h.at, to) \in Int /\ Rev \in Int
            BY <1>2, <2>1, KnobAssumption DEF Distance
        <3> QED BY <1>5, <3>1
    <2> HIDE DEF h
    <2>3. Delta(h.at % Rev) = h.at - to
        BY <1>2, <2>1, <2>2, DeltaTrue
    <2> QED BY <1>4, <2>3
<1> QED BY <1>2, <1>5, <1>6, <1>7, <1>8

LEMMA ClampLemma ==
    ASSUME NEW v \in 0 .. Full, NEW x \in Int
    PROVE  /\ x >= 0 => v <= Clamp(v + x) /\ Clamp(v + x) <= v + x
           /\ x < 0 => v + x <= Clamp(v + x) /\ Clamp(v + x) <= v
<1>1. Full \in Nat \ {0}
    BY KnobAssumption
<1> QED BY <1>1 DEF Clamp

(* A position that does not change has moved as any scale says.            *)
LEMMA StaysLemma ==
    ASSUME NEW v \in Int, NEW x \in Int
    PROVE  IF x >= 0 THEN v <= v /\ v <= v + x ELSE v + x <= v /\ v <= v
OBVIOUS

(***************************************************************************)
(* A virtual position of a bank with rails goes the way the knob was turned*)
(* in the sense of its scale and at most as far, unless the knob went half *)
(* a revolution unheard.                                                   *)
(***************************************************************************)
THEOREM MovesWithKnob == Spec => MovesAsScaled
<1> DEFINE Along == ~astray' => \A b \in Banks :
               profile[b].wrap \/ LET d == (to' - to) * profile[b].scale
                                  IN  IF d >= 0
                                      THEN virt[b] <= virt'[b] /\ virt'[b] <= virt[b] + d
                                      ELSE virt[b] + d <= virt'[b] /\ virt'[b] <= virt[b]
<1>1. TypeOK /\ TypeOK' /\ KnobInv /\ [Next]_vars => [Along]_vars
    <2> SUFFICES ASSUME TypeOK, TypeOK', KnobInv, Next, ~astray', NEW b \in Banks, ~profile[b].wrap
                 PROVE  LET d == (to' - to) * profile[b].scale
                        IN  IF d >= 0
                            THEN virt[b] <= virt'[b] /\ virt'[b] <= virt[b] + d
                            ELSE virt[b] + d <= virt'[b] /\ virt'[b] <= virt[b]
        OBVIOUS
    <2> DEFINE d == (to' - to) * profile[b].scale
    <2>1. virt[b] \in 0 .. Full /\ virt[b] \in Int /\ profile[b].scale \in Int
        BY ProfileLemma
    <2>2. to \in Int /\ to' \in Int
        BY DEF TypeOK
    <2>3. d \in Int
        BY <2>1, <2>2
    <2>4. CASE virt'[b] = virt[b]
        <3> HIDE DEF d
        <3>1. IF d >= 0 THEN virt[b] <= virt'[b] /\ virt'[b] <= virt[b] + d
                        ELSE virt[b] + d <= virt'[b] /\ virt'[b] <= virt[b]
            BY <2>1, <2>3, <2>4, StaysLemma
        <3> QED BY <3>1 DEF d
    <2>5. CASE virt'[b] # virt[b]
        <3>1. TakeKnob
            BY <2>5 DEF Next, ReportKnob, ReportOther, TakeMaster, TakeOther, TakeReload, engine
        <3> DEFINE h == Head(chan)
                   t == Delta(h.raw)
        <3>2. /\ h.at \in Int /\ t \in Int /\ to' = h.at
              /\ virt' = [virt EXCEPT ![bank] = Advanced(bank, t)]
              /\ prev = None => t = 0
              /\ prev # None => t = h.at - to
            BY <3>1, TakenTurn
        <3> HIDE DEF t, h
        <3>3. b = bank /\ virt'[b] = Clamp(virt[b] + t * profile[b].scale)
            <4>1. b = bank /\ virt'[b] = Advanced(bank, t)
                BY <2>5, <3>2 DEF TypeOK
            <4> QED BY <4>1 DEF Advanced
        <3>4. prev # None
            <4> SUFFICES ASSUME prev = None PROVE FALSE
                OBVIOUS
            <4>1. t * profile[b].scale = 0
                BY <2>1, <3>2
            <4>2. Clamp(virt[b]) = virt[b]
                BY <2>1, KnobAssumption DEF Clamp
            <4> QED BY <2>1, <2>5, <3>3, <4>1, <4>2
        <3>5. t * profile[b].scale = d
            BY <3>2, <3>4
        <3> HIDE DEF d
        <3>6. IF d >= 0 THEN virt[b] <= virt'[b] /\ virt'[b] <= virt[b] + d
                        ELSE virt[b] + d <= virt'[b] /\ virt'[b] <= virt[b]
            BY <2>1, <2>3, <3>3, <3>5, ClampLemma
        <3> QED BY <3>6 DEF d
    <2> QED BY <2>4, <2>5
<1> QED BY <1>1, KnobAlways, PTL DEF Spec, MovesAsScaled

-----------------------------------------------------------------------------
(* Travel.  A bank that wraps is where its turns are due to have taken it, *)
(* but for whole rounds.                                                   *)

Rounds(v, w) == \E k \in Int : v - w = k * Full

TravelInv == ~astray => \A b \in Banks : profile[b].wrap => Rounds(virt[b], due[b])

LEMMA RoundLemma ==
    ASSUME NEW v \in Int, NEW w \in Int, NEW x \in Int, Rounds(v, w)
    PROVE  Rounds((v + x) % Full, w + x)
<1>1. Full \in Nat \ {0}
    BY KnobAssumption
<1>2. PICK k \in Int : v - w = k * Full
    BY DEF Rounds
<1> DEFINE y == v + x
           r == y % Full
           n == y \div Full
<1>3. r \in Int /\ n \in Int /\ y = Full * n + r
    BY <1>1, ModLemma
<1> HIDE DEF r, n
<1>4. r - (w + x) = k * Full - Full * n
    <2> DEFINE a == k * Full
               c == Full * n
    <2>1. a \in Int /\ c \in Int /\ v - w = a /\ v + x = c + r
        BY <1>1, <1>2, <1>3
    <2> HIDE DEF a, c
    <2>2. r - (w + x) = a - c
        BY <1>3, <2>1
    <2> QED BY <2>2 DEF a, c
<1>5. k - n \in Int /\ k * Full - Full * n = (k - n) * Full
    BY <1>1, <1>3
<1> QED BY <1>4, <1>5 DEF Rounds, r

LEMMA TravelInit == Init => TravelInv
<1> SUFFICES ASSUME Init, NEW b \in Banks PROVE Rounds(virt[b], due[b])
    BY DEF TravelInv
<1>1. virt[b] = 0 /\ due[b] = 0 /\ 0 - 0 = 0 * Full
    BY KnobAssumption DEF Init
<1> QED BY <1>1 DEF Rounds

LEMMA TravelStep ==
    ASSUME TypeOK, KnobInv, TravelInv, [Next]_vars
    PROVE  TravelInv'
<1> SUFFICES ASSUME ~astray', NEW b \in Banks, profile'[b].wrap PROVE Rounds(virt'[b], due'[b])
    BY DEF TravelInv
<1>1. virt[b] \in Int /\ due[b] \in Int /\ Full \in Nat
    BY ProfileLemma DEF TypeOK
<1>2. CASE TakeKnob
    <2> DEFINE h == Head(chan)
               t == Delta(h.raw)
               x == t * profile[b].scale
    <2>1. /\ h.at \in Int /\ t \in Int /\ to' = h.at
          /\ virt' = [virt EXCEPT ![bank] = Advanced(bank, t)]
          /\ prev = None => t = 0
          /\ prev # None => t = h.at - to
        BY <1>2, TakenTurn
    <2>2. /\ ~astray /\ profile' = profile
          /\ due' = IF prev # None /\ profile[bank].wrap
                    THEN [due EXCEPT ![bank] = @ + (h.at - to) * profile[bank].scale]
                    ELSE due
        BY <1>2, Zenon DEF TakeKnob
    <2>3. Rounds(virt[b], due[b])
        BY <2>2 DEF TravelInv
    <2> HIDE DEF h, t
    <2>4. CASE b # bank
        <3>1. virt'[b] = virt[b] /\ due'[b] = due[b]
            BY <2>1, <2>2, <2>4 DEF TypeOK
        <3> QED BY <2>3, <3>1
    <2>5. CASE b = bank
        <3>1. profile[b].wrap /\ profile[b].scale \in Int
            BY <2>2, ProfileLemma
        <3>2. x \in Int
            BY <2>1, <3>1
        <3>3. virt'[b] = (virt[b] + x) % Full
            <4>1. virt'[b] = Advanced(b, t)
                BY <2>1, <2>5 DEF TypeOK
            <4> QED BY <3>1, <4>1 DEF Advanced
        <3>4. due'[b] = due[b] + x
            <4>1. CASE prev = None
                <5>1. x = 0 /\ due' = due
                    BY <2>1, <2>2, <3>1, <4>1
                <5> QED BY <1>1, <5>1
            <4>2. CASE prev # None
                BY <2>1, <2>2, <2>5, <3>1, <4>2 DEF TypeOK
            <4> QED BY <4>1, <4>2
        <3> HIDE DEF x
        <3> QED BY <1>1, <2>3, <3>2, <3>3, <3>4, RoundLemma
    <2> QED BY <2>4, <2>5
<1>3. CASE TakeReload
    <2>1. /\ ~astray /\ virt' = virt
          /\ due'[b] = IF profile[b].wrap THEN due[b] ELSE virt[b]
        BY <1>3 DEF TakeReload
    <2>2. virt[b] - virt[b] = 0 * Full
        BY <1>1
    <2> QED BY <2>1, <2>2 DEF TravelInv, Rounds
<1>4. CASE ~TakeKnob /\ ~TakeReload
    <2>1. UNCHANGED <<virt, due, profile, astray>>
        BY <1>4 DEF Next, vars, ReportKnob, ReportOther, TakeMaster, TakeOther, engine, history
    <2> QED BY <2>1 DEF TravelInv
<1> QED BY <1>2, <1>3, <1>4

LEMMA ZeroRest ==
    ASSUME NEW n \in Nat \ {0}, NEW k \in Int
    PROVE  (k * n) % n = 0
<1> DEFINE x == k * n
           q == x \div n
           r == x % n
           e == k - q
<1>1. x \in Int
    OBVIOUS
<1> HIDE DEF x
<1>2. q \in Int /\ r \in 0 .. n - 1 /\ x = n * q + r
    BY <1>1, ModLemma
<1> HIDE DEF q, r
<1>3. e \in Int /\ n * e = r
    <2>1. n * (k - q) = k * n - n * q
        BY <1>2
    <2> QED BY <1>2, <2>1 DEF x
<1> HIDE DEF e
<1>4. e \in {-1, 0, 1}
    BY <1>2, <1>3, MultipleLemma
<1>5. r = 0
    <2>1. e = 0 => n * e = 0
        OBVIOUS
    <2>2. e = 1 => n * e = n
        OBVIOUS
    <2>3. e = -1 => n * e = -n
        OBVIOUS
    <2> QED BY <1>2, <1>3, <1>4, <2>1, <2>2, <2>3
<1> QED BY <1>5 DEF r, x

(***************************************************************************)
(* A bank that wraps holds what the knob was turned while it was active,   *)
(* times its scale, however many banks there are.                          *)
(***************************************************************************)
THEOREM TravelKept == Spec => []TravelConserved
<1>1. TypeOK /\ KnobInv /\ TravelInv /\ [Next]_vars => TravelInv'
    BY TravelStep
<1>2. TravelInv => TravelConserved
    <2> SUFFICES ASSUME TravelInv, ~astray, NEW b \in Banks, profile[b].wrap
                 PROVE  (virt[b] - due[b]) % Full = 0
        BY DEF TravelConserved
    <2>1. PICK k \in Int : virt[b] - due[b] = k * Full
        BY DEF TravelInv, Rounds
    <2>2. (k * Full) % Full = 0
        BY KnobAssumption, ZeroRest
    <2> QED BY <2>1, <2>2
<1> QED BY <1>1, <1>2, TravelInit, KnobAlways, PTL DEF Spec

=============================================================================
