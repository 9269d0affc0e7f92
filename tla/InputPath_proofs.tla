-------------------------- MODULE InputPath_proofs ---------------------------
(***************************************************************************)
(* InputPath: what the engine took of pads, buttons and modifiers is the   *)
(* device's state once nothing is underway, the host heard it unless the   *)
(* profile silences it, nothing is stuck but what a change of place left   *)
(* behind, and only chords change bank and profile.                        *)
(***************************************************************************)
EXTENDS InputPath, SequenceTheorems, TLAPS

(* What an event says of its control                                       *)
Said(e) == IF e.kind = "pad" THEN e.level ELSE Level(e.down)

(* After the first n events of s, of which the last of control c counts, d *)
(* has become v.                                                           *)
Brings(s, n, c, d, v) ==
    /\ (\A i \in 1 .. n : ~Concerns(s[i], c)) => d = v
    /\ \A i \in 1 .. n :
          (Concerns(s[i], c) /\ \A j \in 1 .. n : j > i => ~Concerns(s[j], c))
             => Said(s[i]) = v

(* What the client thread told last of a control                           *)
Sent(c) == IF c \in Pads THEN padsSent[c] ELSE Level(c \in buttons)

(* What the engine took and what is underway come to what was sent.        *)
SentArrives ==
    \A c \in Controls \ (left \cup lost) : Brings(chan, Len(chan), c, took[c], Sent(c))

SentNear ==
    \A p \in Pads : Distance(padsSent[p], press[p]) < Gate /\ (press[p] = 0 => padsSent[p] = 0)

(* The engine's modifiers are what it took of them.                        *)
ModifiersTook == took[Shift] = Level(shift) /\ took[Control] = Level(ctrl)

(* What changed and is still to be told; a modifier let go was held before.*)
LeftWas == \A m \in (left \cap Modifiers) \ buttons : m \in was

(* A group underway that was pressed without a modifier: when its turn     *)
(* comes, the modifier is up.                                              *)
GroupsUnheld ==
    \A i \in 1 .. Len(chan), m \in Modifiers :
        (/\ chan[i].kind = "button" /\ chan[i].button \in Groups
         /\ m \notin chan[i].held \cup chan[i].blind)
            => Brings(chan, i - 1, m, took[m], 0)

(* Where the engine sent a control last, the host heard what it took.      *)
HeardTook == \A c \in Controls : at[c] \in Addrs => host[at[c]][c] = took[c]

(* A control sounds at no address but its place, where it was sent last,   *)
(* and at those it is stranded at.                                         *)
OnePlace ==
    \A c \in Controls, a \in Addrs :
        host[a][c] # 0 /\ <<a, c>> \notin stranded => a = Place(c) /\ a = at[c]

PathInv ==
    /\ SentArrives /\ SentNear /\ ModifiersTook /\ LeftWas /\ GroupsUnheld
    /\ HeardTook /\ OnePlace

-----------------------------------------------------------------------------
(* Types                                                                   *)

LEMMA SortsDiffer ==
    /\ Pads \cap Buttons = {}
    /\ \A m \in Modifiers : m \notin Groups /\ m \notin Softkeys /\ m \notin Pads
    /\ Shift \in Modifiers /\ Control \in Modifiers /\ Shift # Control
    /\ Modifiers \subseteq Controls /\ Pads \subseteq Controls /\ Softkeys \subseteq Controls
    /\ Groups \cap Controls = {}
BY ControlAssumption DEF Buttons, Controls, Banked, Modifiers

LEMMA AmountsNatural == Amounts \subseteq Nat /\ 0 \in Amounts
<1>1. ASSUME NEW raw \in Pressures PROVE Deadzone(raw) \in Nat
    <2>1. raw \in Nat
        BY PressureAssumption
    <2> QED BY <2>1 DEF Deadzone
<1> QED BY <1>1 DEF Amounts

LEMMA EventLemma ==
    ASSUME NEW e \in Event
    PROVE  /\ e.kind \in {"pad", "button", "reload"}
           /\ e.kind = "pad" => e.pad \in Pads /\ e.level \in Amounts
           /\ e.kind = "button" => /\ e.button \in Buttons /\ e.down \in BOOLEAN
                                   /\ e.held \subseteq Modifiers /\ e.blind \subseteq Modifiers
           /\ e.kind = "reload" => e = Reload
BY DEF Event, Reload

LEMMA PadEventType ==
    ASSUME NEW p \in Pads, NEW v \in Amounts
    PROVE  PadEvent(p, v) \in Event /\ PadEvent(p, v).kind = "pad"
           /\ PadEvent(p, v).pad = p /\ PadEvent(p, v).level = v
BY DEF PadEvent, Event

LEMMA ButtonEventType ==
    ASSUME TypeOK, NEW b \in Buttons
    PROVE  LET e == ButtonEvent(b)
           IN  /\ e \in Event /\ e.kind = "button"
               /\ e.button = b /\ e.down = (b \in buttons)
               /\ b \in Groups => e.held = Held /\ e.blind = lost \cap Modifiers
<1> DEFINE held == IF b \in Groups THEN Held ELSE {}
           blind == IF b \in Groups THEN lost \cap Modifiers ELSE {}
           down == b \in buttons
<1>1. held \in SUBSET Modifiers /\ blind \in SUBSET Modifiers /\ down \in BOOLEAN
    BY DEF Held, Modifiers
<1>2. ButtonEvent(b) = [kind |-> "button", button |-> b, down |-> down,
                        held |-> held, blind |-> blind]
    BY DEF ButtonEvent
<1>3. b \in Groups => held = Held /\ blind = lost \cap Modifiers
    OBVIOUS
<1>4. down = (b \in buttons)
    OBVIOUS
<1> HIDE DEF held, blind, down
<1>5. ButtonEvent(b) \in [kind : {"button"}, button : Buttons, down : BOOLEAN,
                          held : SUBSET Modifiers, blind : SUBSET Modifiers]
    BY <1>1, <1>2
<1> QED BY <1>2, <1>3, <1>4, <1>5 DEF Event

LEMMA ReloadType == Reload \in Event /\ Reload.kind = "reload"
BY DEF Event, Reload

LEMMA PublishTypes ==
    ASSUME TypeOK, NEW c, NEW e \in Event, Publish(c, e)
    PROVE  chan' \in Seq(Event) /\ Len(chan') <= ChanCap /\ lost' \subseteq Controls
<1>1. chan \in Seq(Event) /\ Len(chan) \in Nat /\ Len(chan) <= ChanCap /\ ChanCap \in Nat
    BY BoundAssumption DEF TypeOK
<1>2. Append(chan, e) \in Seq(Event) /\ Len(Append(chan, e)) = Len(chan) + 1
    BY <1>1, AppendProperties
<1>3. lost \subseteq Controls
    BY DEF TypeOK
<1>4. CASE Len(chan) < ChanCap
    BY <1>1, <1>2, <1>3, <1>4 DEF Publish
<1>5. CASE ~(Len(chan) < ChanCap)
    BY <1>1, <1>3, <1>5 DEF Publish
<1> QED BY <1>4, <1>5

LEMMA TakeTypes ==
    ASSUME TypeOK, chan # <<>>, chan' = Tail(chan)
    PROVE  Head(chan) \in Event /\ chan' \in Seq(Event) /\ Len(chan') <= ChanCap
<1>1. chan \in Seq(Event) /\ Len(chan) <= ChanCap /\ ChanCap \in Nat
    BY BoundAssumption DEF TypeOK
<1>2. /\ Head(chan) \in Event /\ Tail(chan) \in Seq(Event)
      /\ Len(Tail(chan)) = Len(chan) - 1 /\ Len(chan) \in Nat
    BY <1>1, HeadTailProperties
<1> QED BY <1>1, <1>2

LEMMA PlaceType ==
    ASSUME TypeOK, NEW c \in Controls PROVE Place(c) \in Addrs \cup {Silenced}
<1>1. bank \in Groups /\ 0 \in Groups
    BY ControlAssumption DEF TypeOK, Groups
<1>2. profile \in [Controls -> [Groups -> Addrs \cup {Silenced}]]
    BY ProfileAssumption DEF TypeOK
<1> QED BY <1>1, <1>2 DEF Place

(* What is taken of a control, where it goes, and what stays as it is      *)
LEMMA EmitLemma ==
    ASSUME TypeOK, NEW c \in Controls, NEW v \in Amounts \cup {0, 1}, Emit(c, v)
    PROVE  /\ host' \in [Addrs -> [Controls -> Amounts \cup {0, 1}]]
           /\ took' \in [Controls -> Amounts \cup {0, 1}]
           /\ at' \in [Controls -> Addrs \cup {Silenced}]
           /\ stranded' \subseteq Addrs \X Controls
           /\ took'[c] = v /\ at'[c] = Place(c)
           /\ Place(c) \in Addrs => host'[Place(c)][c] = v
           /\ \A a \in Addrs : a # Place(c) => host'[a][c] = host[a][c]
           /\ \A d \in Controls \ {c} :
                 /\ took'[d] = took[d] /\ at'[d] = at[d]
                 /\ \A a \in Addrs : host'[a][d] = host[a][d]
           /\ \A a, d : <<a, d>> \notin stranded' /\ <<a, d>> \in stranded
                          => a = Place(c) /\ d = c
<1> DEFINE here == Place(c)
           V == Amounts \cup {0, 1}
<1>1. here \in Addrs \cup {Silenced} /\ Silenced \notin Addrs
    BY PlaceType, ProfileAssumption
<1>2. /\ host \in [Addrs -> [Controls -> V]] /\ took \in [Controls -> V] /\ v \in V
      /\ at \in [Controls -> Addrs \cup {Silenced}] /\ stranded \subseteq Addrs \X Controls
    BY DEF TypeOK
<1>3. /\ took' = [took EXCEPT ![c] = v] /\ at' = [at EXCEPT ![c] = here]
      /\ host' = IF here = Silenced THEN host ELSE [host EXCEPT ![here][c] = v]
      /\ stranded' = stranded \ {<<here, c>>}
    BY DEF Emit
<1> HIDE DEF here, V
<1>4. /\ took'[c] = v /\ took' \in [Controls -> V]
      /\ \A d \in Controls \ {c} : took'[d] = took[d]
    BY <1>2, <1>3
<1>5. /\ at'[c] = here /\ at' \in [Controls -> Addrs \cup {Silenced}]
      /\ \A d \in Controls \ {c} : at'[d] = at[d]
    BY <1>1, <1>2, <1>3
<1>6. /\ host' \in [Addrs -> [Controls -> V]]
      /\ here \in Addrs => host'[here][c] = v
      /\ \A a \in Addrs : a # here => host'[a][c] = host[a][c]
      /\ \A d \in Controls \ {c}, a \in Addrs : host'[a][d] = host[a][d]
    <2>1. CASE here = Silenced
        BY <1>1, <1>2, <1>3, <2>1
    <2>2. CASE here # Silenced
        <3>1. here \in Addrs /\ host' = [host EXCEPT ![here][c] = v]
            BY <1>1, <1>3, <2>2
        <3> QED BY <1>2, <3>1
    <2> QED BY <2>1, <2>2
<1>7. /\ stranded' \subseteq Addrs \X Controls
      /\ \A a, d : <<a, d>> \notin stranded' /\ <<a, d>> \in stranded
                     => a = here /\ d = c
    BY <1>2, <1>3
<1> QED BY <1>4, <1>5, <1>6, <1>7 DEF here, V

LEMMA TypeInit == Init => TypeOK
<1> SUFFICES ASSUME Init PROVE TypeOK
    OBVIOUS
<1>1. 0 \in Groups
    BY ControlAssumption DEF Groups
<1>2. profile \in [Controls -> [Groups -> Addrs \cup {Silenced}]]
    BY ProfileAssumption DEF Init
<1>3. at \in [Controls -> Addrs \cup {Silenced}]
    BY <1>1, <1>2 DEF Init
<1>4. host \in [Addrs -> [Controls -> Amounts \cup {0, 1}]]
      /\ took \in [Controls -> Amounts \cup {0, 1}]
    BY DEF Init
<1>5. press \in [Pads -> Amounts] /\ padsSent \in [Pads -> Amounts]
    BY AmountsNatural DEF Init
<1>6. chan \in Seq(Event) /\ Len(chan) <= ChanCap
    BY BoundAssumption DEF Init
<1>7. reports \in 0 .. MaxReports
    BY BoundAssumption DEF Init
<1>8. bank \in Groups /\ profile \in Profiles
    BY <1>1 DEF Init
<1> QED BY <1>3, <1>4, <1>5, <1>6, <1>7, <1>8 DEF Init, TypeOK

LEMMA TypeClient ==
    ASSUME TypeOK, ClientStep \/ PublishReload PROVE TypeOK'
<1>1. ASSUME NEW p \in Pads, NEW raw \in Pressures, PadWord(p, raw) PROVE TypeOK'
    <2> DEFINE v == Deadzone(raw)
    <2>1. v \in Amounts
        BY DEF Amounts
    <2> HIDE DEF v
    <2>2. press' \in [Pads -> Amounts]
        BY <1>1, <2>1 DEF PadWord, TypeOK, v
    <2>3. padsSent' \in [Pads -> Amounts]
        BY <1>1, <2>1 DEF PadWord, TypeOK, v
    <2>4. Publish(p, PadEvent(p, v)) \/ UNCHANGED <<chan, lost>>
        BY <1>1 DEF PadWord, v
    <2>5. chan' \in Seq(Event) /\ Len(chan') <= ChanCap /\ lost' \subseteq Controls
        BY <2>1, <2>4, PadEventType, PublishTypes DEF TypeOK
    <2>6. reports' \in 0 .. MaxReports
        BY <1>1, BoundAssumption DEF PadWord, TypeOK
    <2> QED BY <1>1, <2>2, <2>3, <2>5, <2>6 DEF PadWord, TypeOK, engine, heard
<1>2. ASSUME NEW now \in SUBSET Buttons, ButtonReport(now) PROVE TypeOK'
    <2>1. reports' \in 0 .. MaxReports
        BY <1>2, BoundAssumption DEF ButtonReport, TypeOK
    <2>2. buttons' \subseteq Buttons /\ left' \subseteq Buttons /\ was' \subseteq Modifiers
        BY <1>2 DEF ButtonReport, TypeOK
    <2> QED BY <1>2, <2>1, <2>2 DEF ButtonReport, TypeOK, engine, heard
<1>3. CASE PublishButton
    <2>1. PICK b \in left :
             /\ left' = left \ {b}
             /\ was' = IF left' = {} THEN {} ELSE was
             /\ Publish(b, ButtonEvent(b))
             /\ UNCHANGED <<press, padsSent, buttons, engine, heard, stranded, reports>>
        BY <1>3 DEF PublishButton
    <2>2. b \in Buttons
        BY DEF TypeOK
    <2>3. chan' \in Seq(Event) /\ Len(chan') <= ChanCap /\ lost' \subseteq Controls
        BY <2>1, <2>2, ButtonEventType, PublishTypes
    <2> QED BY <2>1, <2>3 DEF TypeOK, engine, heard
<1>4. CASE PublishReload
    <2>1. chan' \in Seq(Event) /\ Len(chan') <= ChanCap
        BY <1>4, ReloadType, AppendProperties, BoundAssumption DEF PublishReload, TypeOK
    <2>2. reports' \in 0 .. MaxReports
        BY <1>4, BoundAssumption DEF PublishReload, TypeOK
    <2> QED BY <1>4, <2>1, <2>2 DEF PublishReload, TypeOK, client, engine, heard
<1> QED BY <1>1, <1>2, <1>3, <1>4 DEF ClientStep

LEMMA CrossTypes ==
    ASSUME TypeOK, NEW b \in Groups, NEW f \in Profiles, Cross(b, f)
    PROVE  bank' \in Groups /\ profile' \in Profiles /\ stranded' \subseteq Addrs \X Controls
<1> DEFINE Behind == {d \in Controls : /\ Place(d) # Silenced
                                       /\ host[Place(d)][d] # 0
                                       /\ Place(d)' # Place(d)}
<1>1. \A d \in Behind : <<Place(d), d>> \in Addrs \X Controls
    BY PlaceType
<1>2. stranded' = stranded \cup {<<Place(c), c>> : c \in Behind}
    BY DEF Cross
<1> HIDE DEF Behind
<1>3. stranded \subseteq Addrs \X Controls
    BY DEF TypeOK
<1> QED BY <1>1, <1>2, <1>3 DEF Cross

(* What TakeGroup does to bank and profile                                 *)
LEMMA GroupCrosses ==
    ASSUME TypeOK, TakeGroup
    PROVE  \/ \E b \in Groups, f \in Profiles : Cross(b, f)
           \/ UNCHANGED <<bank, profile, stranded>>
<1>1. bank \in Groups /\ profile \in Profiles
    BY DEF TypeOK
<1> QED BY <1>1 DEF TakeGroup

LEMMA LevelType ==
    ASSUME NEW d \in BOOLEAN PROVE Level(d) \in {0, 1}
BY DEF Level

LEMMA TypeEngine ==
    ASSUME TypeOK, EngineStep PROVE TypeOK'
<1> DEFINE h == Head(chan)
<1>1. chan # <<>> /\ chan' = Tail(chan)
    BY DEF EngineStep, TakePad, TakeModifier, TakeSoftkey, TakeGroup, TakeReload, Take
<1>2. h \in Event /\ chan' \in Seq(Event) /\ Len(chan') <= ChanCap
    BY <1>1, TakeTypes
<1> HIDE DEF h
<1>3. CASE TakePad
    <2>1. h.pad \in Controls /\ h.level \in Amounts \cup {0, 1}
        BY <1>2, <1>3, EventLemma, SortsDiffer DEF TakePad, Take, h
    <2>2. Emit(h.pad, h.level)
        BY <1>3 DEF TakePad, h
    <2>3. /\ host' \in [Addrs -> [Controls -> Amounts \cup {0, 1}]]
          /\ took' \in [Controls -> Amounts \cup {0, 1}]
          /\ at' \in [Controls -> Addrs \cup {Silenced}]
          /\ stranded' \subseteq Addrs \X Controls
        BY <2>1, <2>2, EmitLemma
    <2> QED BY <1>2, <1>3, <2>3 DEF TakePad, TypeOK, client, engine
<1>4. CASE TakeModifier \/ TakeSoftkey
    <2>1. /\ h.kind = "button" /\ h.button \in Modifiers \cup Softkeys
          /\ Emit(h.button, Level(h.down))
        BY <1>4 DEF TakeModifier, TakeSoftkey, Take, h
    <2>2. h.down \in BOOLEAN /\ h.button \in Controls
        BY <1>2, <2>1, EventLemma, SortsDiffer
    <2>3. Level(h.down) \in Amounts \cup {0, 1}
        BY <2>2, LevelType
    <2>4. /\ host' \in [Addrs -> [Controls -> Amounts \cup {0, 1}]]
          /\ took' \in [Controls -> Amounts \cup {0, 1}]
          /\ at' \in [Controls -> Addrs \cup {Silenced}]
          /\ stranded' \subseteq Addrs \X Controls
        BY <2>1, <2>2, <2>3, EmitLemma
    <2>5. shift' \in BOOLEAN /\ ctrl' \in BOOLEAN
        BY <1>4, <2>2 DEF TakeModifier, TakeSoftkey, TypeOK, engine, h
    <2> QED BY <1>2, <1>4, <2>4, <2>5 DEF TakeModifier, TakeSoftkey, TypeOK, client, engine
<1>5. CASE TakeGroup
    <2>1. bank' \in Groups /\ profile' \in Profiles /\ stranded' \subseteq Addrs \X Controls
        <3>1. CASE \E b \in Groups, f \in Profiles : Cross(b, f)
            BY <3>1, CrossTypes
        <3>2. CASE UNCHANGED <<bank, profile, stranded>>
            BY <3>2 DEF TypeOK
        <3> QED BY <1>5, <3>1, <3>2, GroupCrosses
    <2> QED BY <1>2, <1>5, <2>1 DEF TakeGroup, TypeOK, client, heard
<1>6. CASE TakeReload
    <2>1. bank' \in Groups /\ profile' \in Profiles /\ stranded' \subseteq Addrs \X Controls
        BY <1>6, CrossTypes DEF TakeReload, TypeOK
    <2> QED BY <1>2, <1>6, <2>1 DEF TakeReload, TypeOK, client, heard
<1> QED BY <1>3, <1>4, <1>5, <1>6 DEF EngineStep

LEMMA TypeStep == TypeOK /\ [Next]_vars => TypeOK'
<1>1. TypeOK /\ UNCHANGED vars => TypeOK'
    BY DEF TypeOK, vars, client, engine, heard
<1> QED BY <1>1, TypeClient, TypeEngine DEF Next

(***************************************************************************)
(* The state has its type: the channel never holds more than it has room   *)
(* for, and the engine is always at a bank and a profile.                  *)
(***************************************************************************)
THEOREM TypeCorrect == Spec => []TypeOK
BY TypeInit, TypeStep, PTL DEF Spec

-----------------------------------------------------------------------------
(* Sequences of events                                                     *)

LEMMA BringsAppend ==
    ASSUME NEW s \in Seq(Event), NEW x \in Event, NEW n \in 0 .. Len(s),
           NEW c, NEW d, NEW v, Brings(s, n, c, d, v)
    PROVE  Brings(Append(s, x), n, c, d, v)
<1>1. \A i \in 1 .. n : i \in 1 .. Len(s)
    BY LenProperties
<1>2. \A i \in 1 .. Len(s) : Append(s, x)[i] = s[i]
    BY AppendProperties
<1> QED BY <1>1, <1>2 DEF Brings

LEMMA BringsAppendOther ==
    ASSUME NEW s \in Seq(Event), NEW x \in Event, NEW c, NEW d, NEW v,
           ~Concerns(x, c), Brings(s, Len(s), c, d, v)
    PROVE  Brings(Append(s, x), Len(Append(s, x)), c, d, v)
<1> DEFINE r == Append(s, x)
<1>1. /\ Len(s) \in Nat /\ Len(r) = Len(s) + 1 /\ r[Len(s) + 1] = x
      /\ \A i \in 1 .. Len(s) : r[i] = s[i]
    BY AppendProperties
<1> HIDE DEF r
<1>2. \A i \in 1 .. Len(r) : Concerns(r[i], c) => i \in 1 .. Len(s)
    BY <1>1
<1>3. \A i \in 1 .. Len(s) : i \in 1 .. Len(r)
    BY <1>1
<1>4. (\A i \in 1 .. Len(r) : ~Concerns(r[i], c)) => \A i \in 1 .. Len(s) : ~Concerns(s[i], c)
    BY <1>1, <1>3
<1>5. ASSUME NEW i \in 1 .. Len(r), Concerns(r[i], c),
             \A j \in 1 .. Len(r) : j > i => ~Concerns(r[j], c)
      PROVE  Said(r[i]) = v
    <2>1. i \in 1 .. Len(s)
        BY <1>2, <1>5
    <2>2. \A j \in 1 .. Len(s) : j > i => ~Concerns(s[j], c)
        BY <1>1, <1>3, <1>5
    <2> QED BY <1>1, <1>5, <2>1, <2>2 DEF Brings
<1>6. Brings(r, Len(r), c, d, v)
    BY <1>4, <1>5 DEF Brings
<1> QED BY <1>6 DEF r

LEMMA BringsAppendSame ==
    ASSUME NEW s \in Seq(Event), NEW x \in Event, NEW c, NEW d, Concerns(x, c)
    PROVE  Brings(Append(s, x), Len(Append(s, x)), c, d, Said(x))
<1> DEFINE r == Append(s, x)
<1>1. Len(s) \in Nat /\ Len(r) = Len(s) + 1 /\ r[Len(s) + 1] = x
    BY AppendProperties
<1> HIDE DEF r
<1>2. Len(r) \in 1 .. Len(r) /\ r[Len(r)] = x
    BY <1>1
<1>3. \A i \in 1 .. Len(r) : i # Len(r) => Len(r) > i
    BY <1>1
<1>4. Brings(r, Len(r), c, d, Said(x))
    BY <1>2, <1>3 DEF Brings
<1> QED BY <1>4 DEF r

(* An event taken from the front becomes what its control is known by.     *)
LEMMA BringsTail ==
    ASSUME NEW s \in Seq(Event), s # <<>>, NEW n \in 1 .. Len(s),
           NEW c, NEW d, NEW v, Brings(s, n, c, d, v)
    PROVE  Brings(Tail(s), n - 1, c, IF Concerns(Head(s), c) THEN Said(Head(s)) ELSE d, v)
<1> DEFINE r == Tail(s)
<1>1. /\ Len(s) \in Nat \ {0} /\ Len(r) = Len(s) - 1 /\ Head(s) = s[1]
      /\ \A i \in 1 .. Len(r) : r[i] = s[i + 1]
    BY HeadTailProperties
<1> HIDE DEF r
<1>2. n \in Nat \ {0} /\ n <= Len(s)
    BY <1>1
<1>3. \A i \in 1 .. n - 1 : i + 1 \in 1 .. n /\ r[i] = s[i + 1]
    <2> TAKE i \in 1 .. n - 1
    <2>1. i + 1 \in 1 .. n /\ i \in 1 .. Len(r)
        BY <1>1, <1>2
    <2> QED BY <1>1, <2>1
<1>4. \A j \in 1 .. n : j # 1 => j - 1 \in 1 .. n - 1 /\ r[j - 1] = s[j]
    <2> TAKE j \in 1 .. n
    <2> SUFFICES ASSUME j # 1 PROVE j - 1 \in 1 .. n - 1 /\ r[j - 1] = s[j]
        OBVIOUS
    <2>1. j - 1 \in 1 .. n - 1 /\ (j - 1) + 1 = j
        BY <1>2
    <2> QED BY <1>3, <2>1
<1>5. ASSUME NEW i \in 1 .. n - 1, Concerns(r[i], c),
             \A j \in 1 .. n - 1 : j > i => ~Concerns(r[j], c)
      PROVE  Said(r[i]) = v
    <2>1. i + 1 \in 1 .. n /\ s[i + 1] = r[i]
        BY <1>3
    <2>2. ASSUME NEW j \in 1 .. n, j > i + 1 PROVE ~Concerns(s[j], c)
        <3>1. j # 1 /\ j - 1 > i
            BY <2>2
        <3> QED BY <1>4, <1>5, <3>1
    <2> QED BY <1>5, <2>1, <2>2 DEF Brings
<1>6. (\A i \in 1 .. n - 1 : ~Concerns(r[i], c)) => \A j \in 1 .. n : j # 1 => ~Concerns(s[j], c)
    BY <1>4
<1>7. ASSUME ~Concerns(Head(s), c), \A i \in 1 .. n - 1 : ~Concerns(r[i], c) PROVE d = v
    BY <1>1, <1>6, <1>7 DEF Brings
<1>8. ASSUME Concerns(Head(s), c), \A i \in 1 .. n - 1 : ~Concerns(r[i], c)
      PROVE  Said(Head(s)) = v
    <2>1. \A j \in 1 .. n : j > 1 => ~Concerns(s[j], c)
        BY <1>2, <1>6, <1>8
    <2>2. 1 \in 1 .. n /\ Concerns(s[1], c)
        BY <1>1, <1>2, <1>8
    <2> QED BY <1>1, <2>1, <2>2 DEF Brings
<1> QED BY <1>5, <1>7, <1>8 DEF Brings, r

-----------------------------------------------------------------------------
(* The client thread: one event more in the channel, or one dropped        *)

(* The engine and the host are where they were.                            *)
LEMMA ClientKeeps ==
    ASSUME PathInv, UNCHANGED <<engine, heard, stranded>>
    PROVE  /\ ModifiersTook' /\ HeardTook' /\ OnePlace'
           /\ \A c \in Controls : took'[c] = took[c]
<1>1. /\ host' = host /\ took' = took /\ at' = at /\ stranded' = stranded
      /\ bank' = bank /\ profile' = profile /\ shift' = shift /\ ctrl' = ctrl
    BY DEF engine, heard
<1>2. \A c : Place(c)' = Place(c)
    BY <1>1 DEF Place
<1>3. ModifiersTook' /\ HeardTook'
    BY <1>1 DEF PathInv, ModifiersTook, HeardTook
<1>4. OnePlace'
    BY <1>1, <1>2 DEF PathInv, OnePlace
<1> QED BY <1>1, <1>3, <1>4

(* An event appended leaves the groups underway as they are; a group among *)
(* them needs to be judged itself.                                         *)
LEMMA GroupsAppend ==
    ASSUME TypeOK, GroupsUnheld, \A c \in Controls : took'[c] = took[c],
           NEW e \in Event, chan' = Append(chan, e),
           (e.kind = "button" /\ e.button \in Groups) =>
               \A m \in Modifiers \ (e.held \cup e.blind) : Brings(chan, Len(chan), m, took[m], 0)
    PROVE  GroupsUnheld'
<1>1. chan \in Seq(Event) /\ Len(chan) \in Nat
    BY DEF TypeOK
<1>2. /\ Len(chan') = Len(chan) + 1 /\ chan'[Len(chan) + 1] = e
      /\ \A i \in 1 .. Len(chan) : chan'[i] = chan[i]
    BY <1>1, AppendProperties
<1> SUFFICES ASSUME NEW i \in 1 .. Len(chan'), NEW m \in Modifiers,
                    chan'[i].kind = "button", chan'[i].button \in Groups,
                    m \notin chan'[i].held \cup chan'[i].blind
             PROVE  Brings(chan', i - 1, m, took'[m], 0)
    BY DEF GroupsUnheld
<1>3. took'[m] = took[m]
    BY SortsDiffer
<1>4. i - 1 \in 0 .. Len(chan)
    BY <1>1, <1>2
<1>5. Brings(chan, i - 1, m, took[m], 0)
    <2>1. CASE i = Len(chan) + 1
        <3>1. chan'[i] = e /\ i - 1 = Len(chan)
            BY <1>1, <1>2, <2>1
        <3> QED BY <3>1
    <2>2. CASE i # Len(chan) + 1
        <3>1. i \in 1 .. Len(chan) /\ chan'[i] = chan[i]
            BY <1>1, <1>2, <2>2
        <3> QED BY <3>1 DEF GroupsUnheld
    <2> QED BY <2>1, <2>2
<1>6. Brings(Append(chan, e), i - 1, m, took[m], 0)
    BY <1>1, <1>4, <1>5, BringsAppend
<1> QED BY <1>3, <1>6

(* A control the event is about is either known by it or lost; nothing     *)
(* changes for the others.                                                 *)
LEMMA PublishArrives ==
    ASSUME TypeOK, NEW c \in Controls \cup Groups, NEW e \in Event, Publish(c, e),
           \A d : Concerns(e, d) <=> d = c,
           NEW d \in Controls, d \notin lost', took'[d] = took[d],
           d # c => d \notin left /\ Brings(chan, Len(chan), d, took[d], Sent(d)) /\ Sent(d)' = Sent(d),
           d = c => Said(e) = Sent(d)'
    PROVE  Brings(chan', Len(chan'), d, took'[d], Sent(d)')
<1>1. chan \in Seq(Event)
    BY DEF TypeOK
<1>2. CASE d = c
    <2>1. chan' = Append(chan, e)
        BY <1>2 DEF Publish
    <2>2. Brings(Append(chan, e), Len(Append(chan, e)), c, took'[c], Said(e))
        BY <1>1, BringsAppendSame
    <2> QED BY <1>2, <2>1, <2>2
<1>3. CASE d # c
    <2>1. chan' = chan \/ chan' = Append(chan, e)
        BY DEF Publish
    <2>2. ~Concerns(e, d) /\ Brings(chan, Len(chan), d, took'[d], Sent(d)')
        BY <1>3
    <2>3. Brings(Append(chan, e), Len(Append(chan, e)), d, took'[d], Sent(d)')
        BY <1>1, <2>2, BringsAppendOther
    <2> QED BY <2>1, <2>2, <2>3
<1> QED BY <1>2, <1>3

LEMMA NearLemma ==
    ASSUME NEW v \in Nat, NEW sent \in Nat
    PROVE  /\ ~Publishes(v, sent) => Distance(sent, v) < Gate /\ (v = 0 => sent = 0)
           /\ Distance(v, v) < Gate
<1>1. Distance(v, sent) = Distance(sent, v) /\ Distance(v, v) = 0
    BY DEF Distance
<1>2. Distance(v, sent) \in Nat /\ Gate \in Nat \ {0}
    BY PressureAssumption DEF Distance
<1> QED BY <1>1, <1>2 DEF Publishes

LEMMA PadWordKeeps ==
    ASSUME TypeOK, PathInv, NEW p \in Pads, NEW raw \in Pressures, PadWord(p, raw)
    PROVE  PathInv'
<1> DEFINE v == Deadzone(raw)
           e == PadEvent(p, v)
<1>1. v \in Amounts /\ v \in Nat
    BY AmountsNatural DEF Amounts
<1>2. /\ UNCHANGED <<buttons, left, engine, heard, was, stranded>>
      /\ press' = [press EXCEPT ![p] = v]
      /\ \/ /\ Publishes(v, padsSent[p])
            /\ padsSent' = [padsSent EXCEPT ![p] = v] /\ Publish(p, e)
         \/ ~Publishes(v, padsSent[p]) /\ UNCHANGED <<padsSent, chan, lost>>
    BY DEF PadWord
<1>3. /\ e \in Event /\ e.kind = "pad" /\ e.pad = p /\ e.level = v
    BY <1>1, PadEventType
<1>4. \A c \in Controls : took'[c] = took[c]
    BY <1>2, ClientKeeps
<1>5. ModifiersTook' /\ HeardTook' /\ OnePlace'
    BY <1>2, ClientKeeps
<1>6. LeftWas'
    BY <1>2 DEF PathInv, LeftWas
<1> HIDE DEF v, e
<1>7. SentNear'
    <2> SUFFICES ASSUME NEW q \in Pads
                 PROVE  /\ Distance(padsSent[q], press[q])' < Gate
                        /\ press'[q] = 0 => padsSent'[q] = 0
        BY DEF SentNear
    <2>1. CASE q # p
        <3>1. press'[q] = press[q] /\ padsSent'[q] = padsSent[q]
            BY <1>2, <2>1 DEF TypeOK
        <3> QED BY <3>1 DEF PathInv, SentNear, Distance
    <2>2. CASE q = p
        <3>1. press'[p] = v
            BY <1>2 DEF TypeOK
        <3>2. padsSent[p] \in Nat
            BY AmountsNatural DEF TypeOK
        <3>3. CASE Publishes(v, padsSent[p])
            <4>1. padsSent'[p] = v
                BY <1>2, <3>3 DEF TypeOK
            <4>2. Distance(v, v) < Gate
                BY <1>1, NearLemma
            <4> QED BY <2>2, <3>1, <4>1, <4>2 DEF Distance
        <3>4. CASE ~Publishes(v, padsSent[p])
            <4>1. padsSent' = padsSent
                BY <1>2, <3>4
            <4>2. Distance(padsSent[p], v) < Gate /\ (v = 0 => padsSent[p] = 0)
                BY <1>1, <3>2, <3>4, NearLemma
            <4> QED BY <2>2, <3>1, <4>1, <4>2 DEF Distance
        <3> QED BY <3>3, <3>4
    <2> QED BY <2>1, <2>2
<1>8. GroupsUnheld'
    <2>1. CASE chan' = Append(chan, e)
        BY <1>3, <1>4, <2>1, GroupsAppend DEF PathInv
    <2>2. CASE chan' = chan
        BY <1>4, <2>2, SortsDiffer DEF PathInv, GroupsUnheld
    <2> QED BY <1>2, <2>1, <2>2 DEF Publish
<1>9. SentArrives'
    <2> SUFFICES ASSUME NEW d \in Controls, d \notin left', d \notin lost'
                 PROVE  Brings(chan', Len(chan'), d, took'[d], Sent(d)')
        BY DEF SentArrives
    <2>1. d # p => Sent(d)' = Sent(d)
        <3>1. d \in Pads /\ d # p => padsSent'[d] = padsSent[d]
            BY <1>2 DEF TypeOK
        <3> QED BY <1>2, <3>1 DEF Sent
    <2>2. d \notin left
        BY <1>2
    <2>3. CASE Publishes(v, padsSent[p])
        <3>1. Publish(p, e) /\ padsSent'[p] = v
            BY <1>2, <2>3 DEF TypeOK
        <3>2. \A c : Concerns(e, c) <=> c = p
            BY <1>3 DEF Concerns
        <3>3. d = p => Said(e) = Sent(d)'
            BY <1>3, <3>1 DEF Said, Sent
        <3>4. d # p => Brings(chan, Len(chan), d, took[d], Sent(d))
            BY <2>2, <3>1 DEF PathInv, SentArrives, Publish
        <3>5. p \in Controls \cup Groups /\ took'[d] = took[d]
            BY <1>4, SortsDiffer
        <3> QED BY <1>3, <2>1, <2>2, <3>1, <3>2, <3>3, <3>4, <3>5, PublishArrives
    <2>4. CASE ~Publishes(v, padsSent[p])
        <3>1. UNCHANGED <<padsSent, chan, lost, buttons>>
            BY <1>2, <2>4
        <3>2. Sent(d)' = Sent(d) /\ took'[d] = took[d]
            BY <1>4, <3>1 DEF Sent
        <3> QED BY <2>2, <3>1, <3>2 DEF PathInv, SentArrives
    <2> QED BY <2>3, <2>4
<1> QED BY <1>5, <1>6, <1>7, <1>8, <1>9 DEF PathInv

LEMMA ButtonReportKeeps ==
    ASSUME TypeOK, PathInv, NEW now \in SUBSET Buttons, ButtonReport(now)
    PROVE  PathInv'
<1>1. /\ left = {} /\ left' = (now \ buttons) \cup (buttons \ now) /\ buttons' = now
      /\ was' = IF now = buttons THEN {} ELSE buttons \cap Modifiers
      /\ UNCHANGED <<press, padsSent, chan, engine, heard, lost, stranded>>
    BY DEF ButtonReport
<1>2. \A c \in Controls : took'[c] = took[c]
    BY <1>1, ClientKeeps
<1>3. ModifiersTook' /\ HeardTook' /\ OnePlace'
    BY <1>1, ClientKeeps
<1>4. LeftWas'
    BY <1>1 DEF LeftWas
<1>5. SentNear'
    BY <1>1 DEF PathInv, SentNear, Distance
<1>6. GroupsUnheld'
    BY <1>1, <1>2, SortsDiffer DEF PathInv, GroupsUnheld
<1>7. SentArrives'
    <2> SUFFICES ASSUME NEW d \in Controls, d \notin left', d \notin lost'
                 PROVE  Brings(chan', Len(chan'), d, took'[d], Sent(d)')
        BY DEF SentArrives
    <2>1. d \in buttons' <=> d \in buttons
        BY <1>1
    <2>2. Sent(d)' = Sent(d)
        BY <1>1, <2>1 DEF Sent, Level
    <2>3. d \notin left /\ d \notin lost
        BY <1>1
    <2>4. Brings(chan, Len(chan), d, took[d], Sent(d))
        BY <2>3 DEF PathInv, SentArrives
    <2> QED BY <1>1, <1>2, <2>2, <2>4
<1> QED BY <1>3, <1>4, <1>5, <1>6, <1>7 DEF PathInv

(* The order of the buttons: Shift is told before a group, and a Control   *)
(* still to be told was held before, so the group is told as held with it. *)
LEMMA PublishButtonKeeps ==
    ASSUME TypeOK, PathInv, PublishButton
    PROVE  PathInv'
<1>1. PICK b \in left :
         /\ First(b)
         /\ left' = left \ {b}
         /\ was' = IF left' = {} THEN {} ELSE was
         /\ Publish(b, ButtonEvent(b))
         /\ UNCHANGED <<press, padsSent, buttons, engine, heard, stranded, reports>>
    BY DEF PublishButton
<1> DEFINE e == ButtonEvent(b)
<1>2. b \in Buttons /\ b \notin Pads
    BY SortsDiffer DEF TypeOK
<1>3. /\ e \in Event /\ e.kind = "button" /\ e.button = b /\ e.down = (b \in buttons)
      /\ b \in Groups => e.held = Held /\ e.blind = lost \cap Modifiers
    BY <1>2, ButtonEventType
<1> HIDE DEF e
<1>4. \A c \in Controls : took'[c] = took[c]
    BY <1>1, ClientKeeps
<1>5. ModifiersTook' /\ HeardTook' /\ OnePlace'
    BY <1>1, ClientKeeps
<1>6. LeftWas'
    BY <1>1 DEF PathInv, LeftWas
<1>7. SentNear'
    BY <1>1 DEF PathInv, SentNear, Distance
<1>8. ASSUME b \in Groups, NEW m \in Modifiers \ (e.held \cup e.blind)
      PROVE  Brings(chan, Len(chan), m, took[m], 0)
    <2>1. m \notin Held /\ m \notin lost /\ m \notin buttons
        BY <1>3, <1>8 DEF Held
    <2>2. m \notin left
        <3>1. CASE m = Shift
            <4>1. Rank[Shift] < Rank[b] /\ Rank[Shift] \in Nat /\ Rank[b] \in Nat
                BY <1>2, <1>8, OrderAssumption, ControlAssumption DEF Buttons, Modifiers
            <4> QED BY <1>1, <3>1, <4>1 DEF First
        <3>2. CASE m = Control
            BY <2>1, <3>2 DEF PathInv, LeftWas, Held, Modifiers
        <3> QED BY <3>1, <3>2 DEF Modifiers
    <2>3. m \in Controls /\ Sent(m) = 0
        BY <2>1, SortsDiffer DEF Sent, Level
    <2> QED BY <2>1, <2>2, <2>3 DEF PathInv, SentArrives
<1>9. GroupsUnheld'
    <2>1. CASE chan' = Append(chan, e)
        BY <1>3, <1>4, <1>8, <2>1, GroupsAppend DEF PathInv
    <2>2. CASE chan' = chan
        BY <1>4, <2>2, SortsDiffer DEF PathInv, GroupsUnheld
    <2> QED BY <1>1, <2>1, <2>2 DEF Publish, e
<1>10. SentArrives'
    <2> SUFFICES ASSUME NEW d \in Controls, d \notin left', d \notin lost'
                 PROVE  Brings(chan', Len(chan'), d, took'[d], Sent(d)')
        BY DEF SentArrives
    <2>1. Sent(d)' = Sent(d) /\ took'[d] = took[d]
        BY <1>1, <1>4 DEF Sent
    <2>2. Publish(b, e)
        BY <1>1 DEF e
    <2>3. \A c : Concerns(e, c) <=> c = b
        BY <1>3 DEF Concerns
    <2>4. CASE b \in Controls \cup Groups
        <3>1. d = b => Said(e) = Sent(d)'
            BY <1>1, <1>2, <1>3 DEF Said, Sent
        <3>2. d # b => d \notin left /\ d \notin lost
            BY <1>1, <2>2 DEF Publish
        <3>3. d # b => Brings(chan, Len(chan), d, took[d], Sent(d))
            BY <3>2 DEF PathInv, SentArrives
        <3> QED BY <1>3, <2>1, <2>2, <2>3, <2>4, <3>1, <3>2, <3>3, PublishArrives
    <2>5. b \in Controls \cup Groups
        BY <1>2 DEF Buttons, Controls, Banked
    <2> QED BY <2>4, <2>5
<1> QED BY <1>5, <1>6, <1>7, <1>9, <1>10 DEF PathInv

LEMMA PublishReloadKeeps ==
    ASSUME TypeOK, PathInv, PublishReload
    PROVE  PathInv'
<1>1. /\ chan' = Append(chan, Reload)
      /\ UNCHANGED <<client, engine, heard, was, lost, stranded>>
    BY DEF PublishReload
<1>2. Reload \in Event /\ Reload.kind = "reload"
    BY ReloadType
<1>3. \A c \in Controls : took'[c] = took[c]
    BY <1>1, ClientKeeps
<1>4. ModifiersTook' /\ HeardTook' /\ OnePlace'
    BY <1>1, ClientKeeps
<1>5. LeftWas' /\ SentNear'
    BY <1>1 DEF PathInv, LeftWas, SentNear, client, Distance
<1>6. GroupsUnheld'
    BY <1>1, <1>2, <1>3, GroupsAppend DEF PathInv
<1>7. SentArrives'
    <2> SUFFICES ASSUME NEW d \in Controls, d \notin left', d \notin lost'
                 PROVE  Brings(chan', Len(chan'), d, took'[d], Sent(d)')
        BY DEF SentArrives
    <2>1. Sent(d)' = Sent(d) /\ d \notin left /\ d \notin lost
        BY <1>1 DEF Sent, client
    <2>2. Brings(chan, Len(chan), d, took[d], Sent(d))
        BY <2>1 DEF PathInv, SentArrives
    <2>3. ~Concerns(Reload, d)
        BY <1>2 DEF Concerns
    <2>4. chan \in Seq(Event)
        BY DEF TypeOK
    <2>5. Brings(Append(chan, Reload), Len(Append(chan, Reload)), d, took[d], Sent(d))
        BY <1>2, <2>2, <2>3, <2>4, BringsAppendOther
    <2> QED BY <1>1, <1>3, <2>1, <2>5
<1> QED BY <1>4, <1>5, <1>6, <1>7 DEF PathInv

-----------------------------------------------------------------------------
(* The engine: the event at the front becomes what it took                 *)

LEMMA TakeKeeps ==
    ASSUME TypeOK, PathInv, chan # <<>>, chan' = Tail(chan), UNCHANGED <<client, was, lost>>,
           \A c \in Controls :
              took'[c] = IF Concerns(Head(chan), c) THEN Said(Head(chan)) ELSE took[c]
    PROVE  SentArrives' /\ SentNear' /\ LeftWas' /\ GroupsUnheld'
<1>1. chan \in Seq(Event) /\ Len(chan) \in Nat \ {0} /\ Len(chan') = Len(chan) - 1
    BY HeadTailProperties DEF TypeOK
<1>2. \A i \in 1 .. Len(chan') : chan'[i] = chan[i + 1]
    BY <1>1, HeadTailProperties
<1>3. LeftWas' /\ SentNear'
    BY DEF PathInv, LeftWas, SentNear, client, Distance
<1>4. \A n \in 1 .. Len(chan), c \in Controls : \A v :
         Brings(chan, n, c, took[c], v) => Brings(chan', n - 1, c, took'[c], v)
    <2> TAKE n \in 1 .. Len(chan), c \in Controls
    <2> TAKE v
    <2>1. Brings(chan, n, c, took[c], v) =>
             Brings(Tail(chan), n - 1, c,
                    IF Concerns(Head(chan), c) THEN Said(Head(chan)) ELSE took[c], v)
        BY <1>1, BringsTail
    <2> QED BY <2>1
<1>5. SentArrives'
    <2> SUFFICES ASSUME NEW d \in Controls, d \notin left', d \notin lost'
                 PROVE  Brings(chan', Len(chan'), d, took'[d], Sent(d)')
        BY DEF SentArrives
    <2>1. Sent(d)' = Sent(d) /\ d \notin left /\ d \notin lost
        BY DEF Sent, client
    <2>2. Brings(chan, Len(chan), d, took[d], Sent(d))
        BY <2>1 DEF PathInv, SentArrives
    <2>3. Len(chan) \in 1 .. Len(chan)
        BY <1>1
    <2> QED BY <1>1, <1>4, <2>1, <2>2, <2>3
<1>6. GroupsUnheld'
    <2> SUFFICES ASSUME NEW i \in 1 .. Len(chan'), NEW m \in Modifiers,
                        chan'[i].kind = "button", chan'[i].button \in Groups,
                        m \notin chan'[i].held \cup chan'[i].blind
                 PROVE  Brings(chan', i - 1, m, took'[m], 0)
        BY DEF GroupsUnheld
    <2>1. i + 1 \in 1 .. Len(chan) /\ (i + 1) - 1 = i /\ i \in 1 .. Len(chan)
        BY <1>1
    <2>2. Brings(chan, (i + 1) - 1, m, took[m], 0)
        BY <1>2, <2>1 DEF PathInv, GroupsUnheld
    <2>3. Brings(chan, i, m, took[m], 0)
        BY <2>1, <2>2
    <2> QED BY <1>4, <2>1, <2>3, SortsDiffer
<1> QED BY <1>3, <1>5, <1>6

(* A control is emitted to one place: had it sounded elsewhere, it would   *)
(* be stranded there.                                                      *)
LEMMA EmitPlaces ==
    ASSUME TypeOK, HeardTook, OnePlace, NEW c \in Controls, NEW v \in Amounts \cup {0, 1},
           Emit(c, v), UNCHANGED <<bank, profile>>
    PROVE  HeardTook' /\ OnePlace'
<1>1. \A d : Place(d)' = Place(d)
    BY DEF Place
<1>2. /\ took'[c] = v /\ at'[c] = Place(c)
      /\ Place(c) \in Addrs => host'[Place(c)][c] = v
      /\ \A a \in Addrs : a # Place(c) => host'[a][c] = host[a][c]
      /\ \A d \in Controls \ {c} :
            /\ took'[d] = took[d] /\ at'[d] = at[d]
            /\ \A a \in Addrs : host'[a][d] = host[a][d]
      /\ \A a, d : <<a, d>> \notin stranded' /\ <<a, d>> \in stranded
                     => a = Place(c) /\ d = c
    BY EmitLemma
<1>3. HeardTook'
    <2> SUFFICES ASSUME NEW d \in Controls, at'[d] \in Addrs
                 PROVE  host'[at'[d]][d] = took'[d]
        BY DEF HeardTook
    <2>1. CASE d = c
        BY <1>2, <2>1
    <2>2. CASE d # c
        <3>1. at[d] \in Addrs /\ host[at[d]][d] = took[d]
            BY <1>2, <2>2 DEF HeardTook
        <3> QED BY <1>2, <2>2, <3>1
    <2> QED BY <2>1, <2>2
<1>4. OnePlace'
    <2> SUFFICES ASSUME NEW d \in Controls, NEW a \in Addrs,
                        host'[a][d] # 0, <<a, d>> \notin stranded'
                 PROVE  a = Place(d) /\ a = at'[d]
        BY <1>1 DEF OnePlace
    <2>1. CASE d # c
        <3>1. host[a][d] # 0 /\ <<a, d>> \notin stranded
            BY <1>2, <2>1
        <3> QED BY <1>2, <2>1, <3>1 DEF OnePlace
    <2>2. CASE d = c /\ a = Place(c)
        BY <1>2, <2>2
    <2>3. CASE d = c /\ a # Place(c)
        <3>1. host[a][d] # 0 /\ <<a, d>> \notin stranded
            BY <1>2, <2>3
        <3> QED BY <2>3, <3>1 DEF OnePlace
    <2> QED BY <2>1, <2>2, <2>3
<1> QED BY <1>3, <1>4

(* What sounds where a change of bank or profile no longer has its control *)
(* is stranded there.                                                      *)
LEMMA CrossPlaces ==
    ASSUME TypeOK, HeardTook, OnePlace, NEW b, NEW f, Cross(b, f), UNCHANGED heard
    PROVE  HeardTook' /\ OnePlace'
<1>1. host' = host /\ took' = took /\ at' = at /\ stranded \subseteq stranded'
    BY DEF heard, Cross
<1>2. HeardTook'
    BY <1>1 DEF HeardTook
<1>3. OnePlace'
    <2> SUFFICES ASSUME NEW d \in Controls, NEW a \in Addrs,
                        host[a][d] # 0, <<a, d>> \notin stranded'
                 PROVE  a = Place(d)' /\ a = at[d]
        BY <1>1 DEF OnePlace
    <2>1. a = Place(d) /\ a = at[d]
        BY <1>1 DEF OnePlace
    <2>2. Place(d)' = Place(d)
        <3> SUFFICES ASSUME Place(d)' # Place(d) PROVE FALSE
            OBVIOUS
        <3>1. Place(d) # Silenced /\ host[Place(d)][d] # 0
            BY <2>1, ProfileAssumption
        <3>2. <<Place(d), d>> \in stranded'
            BY <3>1 DEF Cross
        <3> QED BY <2>1, <3>2
    <2> QED BY <2>1, <2>2
<1> QED BY <1>2, <1>3

LEMMA EngineKeeps ==
    ASSUME TypeOK, PathInv, EngineStep
    PROVE  PathInv'
<1> DEFINE h == Head(chan)
<1>1. chan # <<>> /\ chan' = Tail(chan) /\ UNCHANGED <<client, was, lost>>
    BY DEF EngineStep, TakePad, TakeModifier, TakeSoftkey, TakeGroup, TakeReload, Take
<1>2. h \in Event
    BY <1>1, TakeTypes
<1> HIDE DEF h
<1>3. ASSUME NEW c \in Controls, NEW v \in Amounts \cup {0, 1}, Emit(c, v),
             \A d : Concerns(h, d) <=> d = c, Said(h) = v,
             UNCHANGED <<bank, profile>>,
             ModifiersTook'
      PROVE  PathInv'
    <2>1. \A d \in Controls : took'[d] = IF Concerns(h, d) THEN Said(h) ELSE took[d]
        BY <1>3, EmitLemma
    <2>2. SentArrives' /\ SentNear' /\ LeftWas' /\ GroupsUnheld'
        BY <1>1, <2>1, TakeKeeps DEF h
    <2>3. HeardTook' /\ OnePlace'
        BY <1>3, EmitPlaces DEF PathInv
    <2> QED BY <1>3, <2>2, <2>3 DEF PathInv
<1>4. ASSUME UNCHANGED <<heard, shift, ctrl>>,
             (\E b \in Groups, f \in Profiles : Cross(b, f)) \/ UNCHANGED <<bank, profile, stranded>>,
             \A d \in Controls : ~Concerns(h, d)
      PROVE  PathInv'
    <2>1. \A d : took'[d] = took[d]
        BY <1>4 DEF heard
    <2>2. SentArrives' /\ SentNear' /\ LeftWas' /\ GroupsUnheld'
        BY <1>1, <1>4, <2>1, TakeKeeps DEF h
    <2>3. HeardTook' /\ OnePlace'
        <3>1. CASE \E b \in Groups, f \in Profiles : Cross(b, f)
            BY <1>4, <3>1, CrossPlaces DEF PathInv
        <3>2. CASE UNCHANGED <<bank, profile, stranded>>
            <4>1. UNCHANGED <<engine, heard, stranded>>
                BY <1>4, <3>2 DEF engine
            <4> QED BY <4>1, ClientKeeps
        <3> QED BY <1>4, <3>1, <3>2
    <2>4. ModifiersTook'
        BY <1>4, <2>1 DEF PathInv, ModifiersTook
    <2> QED BY <2>2, <2>3, <2>4 DEF PathInv
<1>5. CASE TakePad
    <2>1. /\ h.kind = "pad" /\ Emit(h.pad, h.level)
          /\ UNCHANGED <<bank, profile, shift, ctrl>>
        BY <1>5 DEF TakePad, Take, engine, h
    <2>2. h.pad \in Pads /\ h.pad \in Controls /\ h.level \in Amounts \cup {0, 1}
        BY <1>2, <2>1, EventLemma, SortsDiffer
    <2>3. (\A d : Concerns(h, d) <=> d = h.pad) /\ Said(h) = h.level
        BY <2>1 DEF Concerns, Said
    <2>4. \A m \in Modifiers : took'[m] = took[m]
        <3>1. \A m \in Modifiers : m \in Controls \ {h.pad}
            BY <2>2, SortsDiffer
        <3>2. \A d \in Controls \ {h.pad} : took'[d] = took[d]
            BY <2>1, <2>2, EmitLemma
        <3> QED BY <3>1, <3>2
    <2>5. ModifiersTook'
        BY <2>1, <2>4, SortsDiffer DEF PathInv, ModifiersTook
    <2> QED BY <1>3, <2>1, <2>2, <2>3, <2>5
<1>6. CASE TakeModifier \/ TakeSoftkey
    <2>0. /\ h.kind = "button" /\ h.button \in Modifiers \cup Softkeys
          /\ Emit(h.button, Level(h.down))
          /\ UNCHANGED <<bank, profile>>
        BY <1>6 DEF TakeModifier, TakeSoftkey, Take, engine, h
    <2>1. PICK b \in Controls, v \in {0, 1} : b = h.button /\ v = Level(h.down)
        <3>1. h.down \in BOOLEAN
            BY <1>2, <2>0, EventLemma
        <3>2. Level(h.down) \in {0, 1}
            BY <3>1, LevelType
        <3>3. h.button \in Controls
            BY <2>0, SortsDiffer
        <3> QED BY <3>2, <3>3
    <2>2. Emit(b, v) /\ v \in Amounts \cup {0, 1}
        BY <2>0, <2>1
    <2>3. (\A d : Concerns(h, d) <=> d = b) /\ Said(h) = v
        BY <2>0, <2>1 DEF Concerns, Said
    <2>4. took'[b] = v /\ \A d \in Controls \ {b} : took'[d] = took[d]
        BY <2>2, EmitLemma
    <2>5. /\ shift' = IF b = Shift THEN h.down ELSE shift
          /\ ctrl' = IF b = Control THEN h.down ELSE ctrl
        BY <1>6, <2>1, SortsDiffer DEF TakeModifier, TakeSoftkey, engine, h
    <2>6. took'[Shift] = Level(shift')
        <3>1. CASE b = Shift
            BY <2>1, <2>4, <2>5, <3>1
        <3>2. CASE b # Shift
            <4>1. took'[Shift] = took[Shift] /\ shift' = shift
                BY <2>4, <2>5, <3>2, SortsDiffer
            <4> QED BY <4>1 DEF PathInv, ModifiersTook
        <3> QED BY <3>1, <3>2
    <2>7. took'[Control] = Level(ctrl')
        <3>1. CASE b = Control
            BY <2>1, <2>4, <2>5, <3>1
        <3>2. CASE b # Control
            <4>1. took'[Control] = took[Control] /\ ctrl' = ctrl
                BY <2>4, <2>5, <3>2, SortsDiffer
            <4> QED BY <4>1 DEF PathInv, ModifiersTook
        <3> QED BY <3>1, <3>2
    <2>8. ModifiersTook'
        BY <2>6, <2>7 DEF ModifiersTook
    <2> QED BY <1>3, <2>0, <2>1, <2>2, <2>3, <2>8
<1>7. CASE TakeGroup
    <2>1. h.kind = "button" /\ h.button \in Groups /\ UNCHANGED <<heard, shift, ctrl>>
        BY <1>7 DEF TakeGroup, Take, h
    <2>2. \A d \in Controls : ~Concerns(h, d)
        BY <2>1, SortsDiffer DEF Concerns
    <2>3. (\E b \in Groups, f \in Profiles : Cross(b, f)) \/ UNCHANGED <<bank, profile, stranded>>
        BY <1>7, GroupCrosses
    <2> QED BY <1>4, <2>1, <2>2, <2>3
<1>8. CASE TakeReload
    <2>1. h.kind = "reload" /\ UNCHANGED <<heard, shift, ctrl>>
        BY <1>8 DEF TakeReload, Take, h
    <2>2. \A d \in Controls : ~Concerns(h, d)
        BY <2>1 DEF Concerns
    <2>3. \E b \in Groups, f \in Profiles : Cross(b, f)
        BY <1>8 DEF TakeReload, TypeOK
    <2> QED BY <1>4, <2>1, <2>2, <2>3
<1> QED BY <1>5, <1>6, <1>7, <1>8 DEF EngineStep

-----------------------------------------------------------------------------
LEMMA PathInit == Init => PathInv
<1> SUFFICES ASSUME Init PROVE PathInv
    OBVIOUS
<1>1. /\ left = {} /\ lost = {} /\ buttons = {} /\ chan = <<>>
      /\ shift = FALSE /\ ctrl = FALSE
    BY DEF Init
<1>2. \A p \in Pads : padsSent[p] = 0 /\ press[p] = 0
    BY DEF Init
<1>3. /\ \A c \in Controls, a \in Addrs : host[a][c] = 0
      /\ \A c \in Controls : took[c] = 0
    BY DEF Init
<1>4. \A c \in Controls : Sent(c) = 0
    BY <1>1, <1>2 DEF Sent, Level
<1>5. SentArrives
    BY <1>1, <1>3, <1>4 DEF SentArrives, Brings
<1>6. SentNear
    BY <1>2, PressureAssumption DEF SentNear, Distance
<1>7. ModifiersTook
    BY <1>1, <1>3, SortsDiffer DEF ModifiersTook, Level
<1>8. LeftWas /\ GroupsUnheld
    BY <1>1 DEF LeftWas, GroupsUnheld
<1>9. HeardTook /\ OnePlace
    BY <1>3 DEF HeardTook, OnePlace
<1> QED BY <1>5, <1>6, <1>7, <1>8, <1>9 DEF PathInv

LEMMA PathStep == TypeOK /\ PathInv /\ [Next]_vars => PathInv'
<1> SUFFICES ASSUME TypeOK, PathInv, [Next]_vars PROVE PathInv'
    OBVIOUS
<1>1. CASE UNCHANGED vars
    <2>1. UNCHANGED <<press, padsSent, buttons, left, chan, was, took, lost>>
          /\ UNCHANGED <<engine, heard, stranded>>
        BY <1>1 DEF vars, client, heard
    <2>2. \A c : Sent(c)' = Sent(c)
        BY <2>1 DEF Sent
    <2>3. SentArrives' /\ SentNear' /\ LeftWas'
        BY <2>1, <2>2 DEF PathInv, SentArrives, SentNear, LeftWas, Distance
    <2>4. GroupsUnheld'
        BY <2>1 DEF PathInv, GroupsUnheld
    <2>5. ModifiersTook' /\ HeardTook' /\ OnePlace'
        BY <2>1, ClientKeeps
    <2> QED BY <2>3, <2>4, <2>5 DEF PathInv
<1> QED BY <1>1, PadWordKeeps, ButtonReportKeeps, PublishButtonKeeps, PublishReloadKeeps,
           EngineKeeps DEF Next, ClientStep

LEMMA PathAlways == Spec => [](TypeOK /\ PathInv)
<1>1. Init => TypeOK /\ PathInv
    BY TypeInit, PathInit
<1>2. TypeOK /\ PathInv /\ [Next]_vars => (TypeOK /\ PathInv)'
    BY TypeStep, PathStep
<1> QED BY <1>1, <1>2, PTL DEF Spec

(* What the engine took of a control all of whose events arrived           *)
LEMMA SettledTook ==
    ASSUME TypeOK, PathInv, NEW c \in Controls, Settled(c) PROVE took[c] = Sent(c)
<1>1. Len(chan) \in Nat /\ DOMAIN chan = 1 .. Len(chan)
    BY LenProperties DEF TypeOK
<1> QED BY <1>1 DEF PathInv, SentArrives, Settled, Brings

(***************************************************************************)
(* Once no event of a control is underway and its last one was not         *)
(* dropped, the host's picture of it is the device's where the control was *)
(* last sent, and the engine's modifiers are the ones held.                *)
(***************************************************************************)
THEOREM HostFollows == Spec => []HostFollowsDevice
<1>1. TypeOK /\ PathInv => HostFollowsDevice
    <2> SUFFICES ASSUME TypeOK, PathInv PROVE HostFollowsDevice
        OBVIOUS
    <2>1. ASSUME NEW c \in Controls, Settled(c), at[c] # Silenced
          PROVE  host[at[c]][c] = Sent(c)
        <3>1. at[c] \in Addrs
            BY <2>1 DEF TypeOK
        <3> QED BY <2>1, <3>1, SettledTook DEF PathInv, HeardTook
    <2>2. ASSUME NEW c \in Controls, Settled(c), at[c] # Silenced
          PROVE  IF c \in Pads
                 THEN /\ Distance(host[at[c]][c], press[c]) < Gate
                      /\ press[c] = 0 => host[at[c]][c] = 0
                 ELSE host[at[c]][c] = Level(c \in buttons)
        BY <2>1, <2>2 DEF Sent, PathInv, SentNear
    <2>3. \A d \in BOOLEAN, e \in BOOLEAN : Level(d) = Level(e) => (d <=> e)
        BY DEF Level
    <2>4. shift \in BOOLEAN /\ ctrl \in BOOLEAN
        BY DEF TypeOK
    <2>5. Settled(Shift) => (shift <=> Shift \in buttons)
        <3>1. Settled(Shift) => Level(shift) = Level(Shift \in buttons)
            BY SettledTook, SortsDiffer DEF PathInv, ModifiersTook, Sent
        <3> QED BY <2>3, <2>4, <3>1 DEF Level
    <2>6. Settled(Control) => (ctrl <=> Control \in buttons)
        <3>1. Settled(Control) => Level(ctrl) = Level(Control \in buttons)
            BY SettledTook, SortsDiffer DEF PathInv, ModifiersTook, Sent
        <3> QED BY <2>3, <2>4, <3>1 DEF Level
    <2> QED BY <2>2, <2>5, <2>6 DEF HostFollowsDevice
<1> QED BY <1>1, PathAlways, PTL

(***************************************************************************)
(* A control that was let go sounds at no address, but where a change of   *)
(* bank or profile gave it another place while it sounded.                 *)
(***************************************************************************)
THEOREM NeverStuck == Spec => []NothingStuck
<1>1. TypeOK /\ PathInv => NothingStuck
    <2> SUFFICES ASSUME TypeOK, PathInv, NEW c \in Controls, Settled(c), AtRest(c),
                        NEW a \in Addrs, host[a][c] # 0, <<a, c>> \notin stranded
                 PROVE  FALSE
        BY DEF NothingStuck
    <2>1. a = at[c]
        BY DEF PathInv, OnePlace
    <2>2. host[a][c] = Sent(c)
        BY <2>1, SettledTook DEF PathInv, HeardTook
    <2>3. Sent(c) = 0
        BY DEF AtRest, Sent, Level, PathInv, SentNear
    <2> QED BY <2>2, <2>3
<1> QED BY <1>1, PathAlways, PTL

(***************************************************************************)
(* The bank changes only for a group pressed with Shift, the profile only  *)
(* for one pressed with Control or for a reload.                           *)
(***************************************************************************)
THEOREM OnlyChords == Spec => ChordsOnly
<1> DEFINE h == Head(chan)
           Chord == /\ bank' # bank => TakesGroup(Shift) \/ Shift \in h.blind
                    /\ profile' # profile => \/ h = Reload
                                             \/ TakesGroup(Control)
                                             \/ Control \in h.blind
<1>1. TypeOK /\ PathInv /\ [Next]_vars => [Chord]_vars
    <2> SUFFICES ASSUME TypeOK, PathInv, Next PROVE Chord
        OBVIOUS
    <2>1. CASE ClientStep \/ PublishReload \/ TakePad \/ TakeModifier \/ TakeSoftkey
        <3>1. UNCHANGED <<bank, profile>>
            BY <2>1 DEF ClientStep, PublishReload, TakePad, TakeModifier, TakeSoftkey,
                        PadWord, ButtonReport, PublishButton, engine
        <3> QED BY <3>1
    <2>2. CASE TakeReload
        <3>1. chan # <<>> /\ h.kind = "reload" /\ bank' = bank /\ chan' = Tail(chan)
            BY <2>2 DEF TakeReload, Take, Cross
        <3>2. h \in Event
            BY <3>1, TakeTypes
        <3>3. h = Reload
            BY <3>1, <3>2, EventLemma
        <3> QED BY <3>1, <3>3
    <2>3. CASE TakeGroup
        <3>1. chan # <<>> /\ h.kind = "button" /\ h.button \in Groups
            BY <2>3 DEF TakeGroup, Take
        <3>2. /\ bank' # bank => h.down /\ shift
              /\ profile' # profile => h.down /\ ctrl
            BY <2>3 DEF TakeGroup, Cross
        <3>3. 1 \in 1 .. Len(chan) /\ chan[1] = h
            BY <3>1, HeadTailProperties DEF TypeOK
        <3> HIDE DEF h
        <3>4. \A m \in Modifiers : m \notin h.held \cup h.blind => took[m] = 0
            <4> TAKE m \in Modifiers
            <4> SUFFICES ASSUME m \notin h.held \cup h.blind PROVE took[m] = 0
                OBVIOUS
            <4>1. Brings(chan, 1 - 1, m, took[m], 0)
                BY <3>1, <3>3 DEF PathInv, GroupsUnheld
            <4> QED BY <4>1 DEF Brings
        <3>5. shift => Shift \in h.held \cup h.blind
            BY <3>4, SortsDiffer DEF PathInv, ModifiersTook, Level
        <3>6. ctrl => Control \in h.held \cup h.blind
            BY <3>4, SortsDiffer DEF PathInv, ModifiersTook, Level
        <3>7. \A m \in h.held : h.down => TakesGroup(m)
            BY <3>1 DEF TakesGroup, h
        <3> QED BY <3>2, <3>5, <3>6, <3>7
    <2> QED BY <2>1, <2>2, <2>3 DEF Next, EngineStep
<1> QED BY <1>1, PathAlways, PTL DEF Spec, ChordsOnly

=============================================================================
