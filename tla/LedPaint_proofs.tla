-------------------------- MODULE LedPaint_proofs ---------------------------
(***************************************************************************)
(* LedPaint for any number of groups, pads and softkeys, any brightnesses, *)
(* any capacity of the LED channel and any number of events.               *)
(***************************************************************************)
EXTENDS LedPaint, SequenceTheorems, TLAPS

-----------------------------------------------------------------------------
(* Messages underway.  What Brings says of a sequence of messages when one *)
(* is appended, the first is taken, or two sequences are put together.     *)

(* A message to another LED makes no difference.                           *)
LEMMA AppendOther ==
    ASSUME NEW ms \in Seq(Message), NEW m \in Message, NEW l, m.led # l, NEW d, NEW v
    PROVE  /\ WritesIn(Append(ms, m), l) = WritesIn(ms, l)
           /\ Brings(Append(ms, m), l, d, v) <=> Brings(ms, l, d, v)
<1> DEFINE am == Append(ms, m)
<1>1. /\ DOMAIN ms = 1 .. Len(ms) /\ Len(ms) \in Nat
      /\ DOMAIN am = 1 .. Len(ms) + 1
      /\ \A i \in 1 .. Len(ms) : am[i] = ms[i]
      /\ am[Len(ms) + 1] = m
  BY AppendProperties, LenProperties
<1> HIDE DEF am
<1>2. WritesIn(am, l) = WritesIn(ms, l)
  BY <1>1 DEF WritesIn
<1>3. \A i \in WritesIn(ms, l) : am[i] = ms[i]
  BY <1>1 DEF WritesIn
<1> QED
  BY <1>2, <1>3 DEF Brings, am

(* The last message to an LED decides what it comes to show.               *)
LEMMA AppendSame ==
    ASSUME NEW ms \in Seq(Message), NEW m \in Message, NEW d
    PROVE  Brings(Append(ms, m), m.led, d, m.level)
<1> DEFINE am == Append(ms, m)
<1>1. /\ DOMAIN am = 1 .. Len(ms) + 1 /\ Len(ms) \in Nat
      /\ am[Len(ms) + 1] = m
  BY AppendProperties, LenProperties
<1> HIDE DEF am
<1>2. Len(ms) + 1 \in WritesIn(am, m.led)
  BY <1>1 DEF WritesIn
<1>3. \A j \in WritesIn(am, m.led) : j <= Len(ms) + 1
  BY <1>1 DEF WritesIn
<1> QED
  BY <1>1, <1>2, <1>3 DEF Brings, am

(* Taking the first message: of another LED it makes no difference, of the *)
(* same LED it is what the LED shows from then on.                         *)
LEMMA TailFacts ==
    ASSUME NEW ms \in Seq(Message), ms # <<>>, NEW l, NEW d, NEW v, Brings(ms, l, d, v)
    PROVE  /\ Head(ms).led # l => /\ Brings(Tail(ms), l, d, v)
                                  /\ WritesIn(Tail(ms), l) = {} => WritesIn(ms, l) = {}
           /\ Head(ms).led = l => Brings(Tail(ms), l, Head(ms).level, v)
<1> DEFINE tm == Tail(ms)
<1>1. /\ DOMAIN ms = 1 .. Len(ms) /\ Len(ms) \in Nat \ {0}
      /\ DOMAIN tm = 1 .. Len(ms) - 1
      /\ \A i \in 1 .. Len(ms) - 1 : tm[i] = ms[i + 1]
      /\ Head(ms) = ms[1]
  BY HeadTailProperties, LenProperties, EmptySeq
<1> HIDE DEF tm
<1>2. \A i \in WritesIn(tm, l) : i + 1 \in WritesIn(ms, l) /\ i \in Nat \ {0}
  BY <1>1 DEF WritesIn
<1>3. \A i \in WritesIn(ms, l) : i = 1 \/ (i - 1 \in WritesIn(tm, l) /\ tm[i - 1] = ms[i])
  BY <1>1 DEF WritesIn
<1>4. WritesIn(ms, l) \subseteq Nat
  BY <1>1 DEF WritesIn
<1>5. 1 \in WritesIn(ms, l) <=> Head(ms).led = l
  BY <1>1 DEF WritesIn
<1>6. CASE WritesIn(tm, l) = {}
  <2>1. \A i \in WritesIn(ms, l) : i = 1
    BY <1>3, <1>6
  <2> QED
    BY <1>1, <1>5, <1>6, <2>1 DEF Brings, tm
<1>7. CASE WritesIn(tm, l) # {}
  <2>1. PICK i \in WritesIn(ms, l) : ms[i].level = v /\ \A j \in WritesIn(ms, l) : j <= i
    BY <1>2, <1>7 DEF Brings
  <2>2. i # 1
    BY <1>2, <1>7, <2>1
  <2>3. i - 1 \in WritesIn(tm, l) /\ tm[i - 1].level = v
    BY <1>3, <2>1, <2>2
  <2>4. \A j \in WritesIn(tm, l) : j <= i - 1
    BY <1>2, <1>4, <2>1
  <2>5. \A e : Brings(tm, l, e, v)
    BY <2>3, <2>4 DEF Brings
  <2> QED
    BY <1>7, <2>5 DEF tm
<1> QED
  BY <1>6, <1>7

(* Of two sequences the second decides where it writes the LED.            *)
LEMMA ConcatFacts ==
    ASSUME NEW ms \in Seq(Message), NEW ns \in Seq(Message), NEW l, NEW d, NEW v,
           Brings(ns, l, v, v), WritesIn(ns, l) = {} => Brings(ms, l, d, v)
    PROVE  Brings(ms \o ns, l, d, v)
<1> DEFINE cm == ms \o ns
           k == Len(ms)
<1>1. /\ DOMAIN ms = 1 .. k /\ DOMAIN ns = 1 .. Len(ns) /\ k \in Nat /\ Len(ns) \in Nat
      /\ DOMAIN cm = 1 .. k + Len(ns)
      /\ \A i \in 1 .. k + Len(ns) : cm[i] = IF i <= k THEN ms[i] ELSE ns[i - k]
  BY ConcatProperties, LenProperties
<1> HIDE DEF cm, k
<1>2. CASE WritesIn(ns, l) = {}
  <2>1. WritesIn(cm, l) = WritesIn(ms, l) /\ \A i \in WritesIn(ms, l) : cm[i] = ms[i]
    <3>1. \A i \in DOMAIN cm : cm[i].led = l => i \in DOMAIN ms
      BY <1>1, <1>2 DEF WritesIn
    <3> QED
      BY <1>1, <3>1 DEF WritesIn
  <2> QED
    BY <1>2, <2>1 DEF Brings, cm
<1>3. CASE WritesIn(ns, l) # {}
  <2>1. PICK i \in WritesIn(ns, l) : ns[i].level = v /\ \A j \in WritesIn(ns, l) : j <= i
    BY <1>3 DEF Brings
  <2>2. i + k \in WritesIn(cm, l) /\ cm[i + k].level = v
    BY <1>1, <2>1 DEF WritesIn
  <2>3. \A j \in WritesIn(cm, l) : j <= i + k
    <3> SUFFICES ASSUME NEW j \in WritesIn(cm, l) PROVE j <= i + k
      OBVIOUS
    <3>1. j \in 1 .. k \/ j - k \in WritesIn(ns, l)
      BY <1>1 DEF WritesIn
    <3>2. i \in Nat /\ j \in Nat
      BY <1>1 DEF WritesIn
    <3> QED
      BY <1>1, <2>1, <3>1, <3>2
  <2> QED
    BY <2>2, <2>3 DEF Brings, cm
<1> QED
  BY <1>2, <1>3

-----------------------------------------------------------------------------
(* What the handlers send                                                  *)

LEMMA LedKinds ==
    /\ \A g \in Groups : GroupLed(g) \in Leds \ (Banked \cup {Button})
    /\ Banked \subseteq Leds /\ Pads \cap Softkeys = {} /\ Button \notin Banked
    /\ \A g, h \in Groups : GroupLed(g) = GroupLed(h) => g = h
    /\ Button \in Leds
<1>1. \A g, h : GroupLed(g) = GroupLed(h) => g = h
  BY DEF GroupLed
<1>2. \A g : GroupLed(g) \notin Banked \cup {Button}
  BY DEF GroupLed, Banked, Pads, Softkeys, Button
<1>3. Pads \cap Softkeys = {} /\ Button \notin Banked
  BY DEF Banked, Pads, Softkeys, Button
<1> QED
  BY <1>1, <1>2, <1>3 DEF Leds

LEMMA LevelRange == 0 \in 0 .. MaxLevel /\ MaxLevel \in 0 .. MaxLevel /\ \A v \in Levels : v \in 0 .. MaxLevel
  BY CountAssumption

(* paint_groups writes the group LEDs, each once, and no other.            *)
LEMMA GroupsPainted ==
    ASSUME NEW lit
    PROVE  /\ PaintGroups(lit) \in Seq(Message)
           /\ \A g \in Groups : \A d :
                 Brings(PaintGroups(lit), GroupLed(g), d, IF g = lit THEN MaxLevel ELSE 0)
           /\ \A g \in Groups : WritesIn(PaintGroups(lit), GroupLed(g)) # {}
           /\ \A l \in Leds : (\A g \in Groups : l # GroupLed(g)) =>
                 WritesIn(PaintGroups(lit), l) = {}
<1> DEFINE pg == PaintGroups(lit)
<1>1. /\ DOMAIN pg = 1 .. NumGroups
      /\ \A i \in 1 .. NumGroups : pg[i] = Msg(GroupLed(i - 1), IF i - 1 = lit THEN MaxLevel ELSE 0)
  BY DEF PaintGroups
<1>2. \A i \in 1 .. NumGroups : i - 1 \in Groups
  BY CountAssumption DEF Groups
<1>3. \A g \in Groups : g + 1 \in 1 .. NumGroups /\ g + 1 - 1 = g
  BY CountAssumption DEF Groups
<1>4. pg \in Seq(Message)
  <2>1. \A i \in 1 .. NumGroups : pg[i] \in Message
    <3> SUFFICES ASSUME NEW i \in 1 .. NumGroups PROVE pg[i] \in Message
      OBVIOUS
    <3>1. GroupLed(i - 1) \in Leds
      BY <1>2, LedKinds
    <3>2. (IF i - 1 = lit THEN MaxLevel ELSE 0) \in 0 .. MaxLevel
      BY LevelRange
    <3> QED
      BY <1>1, <3>1, <3>2 DEF Message, Msg
  <2>2. pg = [i \in 1 .. NumGroups |-> pg[i]]
    BY DEF PaintGroups
  <2> HIDE DEF pg
  <2> QED
    BY <2>1, <2>2, SeqDef, CountAssumption
<1> HIDE DEF pg
<1>5. ASSUME NEW g \in Groups
      PROVE  WritesIn(pg, GroupLed(g)) = {g + 1} /\ pg[g + 1].level = IF g = lit THEN MaxLevel ELSE 0
  <2>1. \A i \in 1 .. NumGroups : pg[i].led = GroupLed(g) <=> i - 1 = g
    BY <1>1, <1>2, LedKinds DEF Msg
  <2>2. WritesIn(pg, GroupLed(g)) = {g + 1}
    BY <1>1, <1>3, <2>1, CountAssumption DEF WritesIn, Groups
  <2>3. pg[g + 1] = Msg(GroupLed(g), IF g = lit THEN MaxLevel ELSE 0)
    <3>1. \A i \in 1 .. NumGroups : i - 1 = g => pg[i] = Msg(GroupLed(g), IF g = lit THEN MaxLevel ELSE 0)
      BY <1>1
    <3> QED
      BY <1>3, <3>1 DEF Groups
  <2> QED
    BY <2>2, <2>3 DEF Msg
<1>6. ASSUME NEW l \in Leds, \A g \in Groups : l # GroupLed(g)
      PROVE  WritesIn(pg, l) = {}
  BY <1>1, <1>2, <1>6 DEF WritesIn, Msg
<1>7. ASSUME NEW g \in Groups, NEW d
      PROVE  Brings(pg, GroupLed(g), d, IF g = lit THEN MaxLevel ELSE 0)
  <2>1. g + 1 <= g + 1
    BY <1>3 DEF Groups
  <2> QED
    BY <1>5, <2>1 DEF Brings
<1> QED
  BY <1>4, <1>5, <1>6, <1>7 DEF pg

(* The two halves of PaintBanked: the LEDs of a kind, each once.           *)
PaintKind(k, n, m) == [i \in 1 .. n |-> Msg(<<k, i - 1>>, m[<<k, i - 1>>])]

LEMMA KindPainted ==
    ASSUME NEW m \in [Banked -> 0 .. MaxLevel], NEW n \in Nat, NEW k \in {"pad", "softkey"},
           \A i \in 0 .. n - 1 : <<k, i>> \in Banked
    PROVE  /\ PaintKind(k, n, m) \in Seq(Message)
           /\ \A i \in 0 .. n - 1 : /\ WritesIn(PaintKind(k, n, m), <<k, i>>) # {}
                                    /\ \A d : Brings(PaintKind(k, n, m), <<k, i>>, d, m[<<k, i>>])
           /\ \A l : (\A i \in 0 .. n - 1 : l # <<k, i>>) => WritesIn(PaintKind(k, n, m), l) = {}
<1> DEFINE ps == PaintKind(k, n, m)
<1>1. /\ DOMAIN ps = 1 .. n
      /\ \A i \in 1 .. n : /\ i - 1 \in 0 .. n - 1
                            /\ ps[i] = [led |-> <<k, i - 1>>, level |-> m[<<k, i - 1>>]]
                            /\ ps[i].led = <<k, i - 1>> /\ ps[i].level = m[<<k, i - 1>>]
  BY DEF PaintKind, Msg
<1>0. ps = [i \in 1 .. n |-> ps[i]]
  BY DEF PaintKind
<1> HIDE DEF ps
<1>2. ps \in Seq(Message)
  <2>1. \A i \in 1 .. n : ps[i] \in Message
    <3> SUFFICES ASSUME NEW i \in 1 .. n PROVE ps[i] \in Message
      OBVIOUS
    <3>1. <<k, i - 1>> \in Leds /\ m[<<k, i - 1>>] \in 0 .. MaxLevel
      BY <1>1, LedKinds
    <3> QED
      BY <1>1, <3>1 DEF Message
  <2> QED
    BY <1>0, <2>1, SeqDef
<1>3. ASSUME NEW i \in 0 .. n - 1
      PROVE  WritesIn(ps, <<k, i>>) = {i + 1} /\ ps[i + 1].level = m[<<k, i>>]
  <2>1. i + 1 \in 1 .. n /\ i + 1 - 1 = i
    OBVIOUS
  <2>3. ASSUME NEW j \in 1 .. n
        PROVE  ps[j].led = <<k, i>> <=> j = i + 1
    <3>1. ps[j].led = <<k, j - 1>>
      BY <1>1
    <3>2. <<k, j - 1>> = <<k, i>> <=> j - 1 = i
      OBVIOUS
    <3> QED
      BY <3>1, <3>2
  <2>4. WritesIn(ps, <<k, i>>) = {i + 1}
    BY <1>1, <2>1, <2>3 DEF WritesIn
  <2>5. ps[i + 1].level = m[<<k, i>>]
    BY <1>1, <2>1
  <2> QED
    BY <2>4, <2>5
<1>4. ASSUME NEW l, \A i \in 0 .. n - 1 : l # <<k, i>>
      PROVE  WritesIn(ps, l) = {}
  BY <1>1, <1>4 DEF WritesIn
<1>5. ASSUME NEW i \in 0 .. n - 1, NEW d
      PROVE  Brings(ps, <<k, i>>, d, m[<<k, i>>])
  <2>1. i + 1 <= i + 1
    OBVIOUS
  <2> QED
    BY <1>3, <2>1 DEF Brings
<1> QED
  BY <1>2, <1>3, <1>4, <1>5 DEF ps

LEMMA NoWrites ==
    ASSUME NEW ms \in Seq(Message), NEW ns \in Seq(Message), NEW l
    PROVE  WritesIn(ms \o ns, l) = {} <=> WritesIn(ms, l) = {} /\ WritesIn(ns, l) = {}
<1> DEFINE cm == ms \o ns
           k == Len(ms)
<1>1. /\ DOMAIN ms = 1 .. k /\ DOMAIN ns = 1 .. Len(ns) /\ k \in Nat /\ Len(ns) \in Nat
      /\ DOMAIN cm = 1 .. k + Len(ns)
      /\ \A i \in 1 .. k + Len(ns) : cm[i] = IF i <= k THEN ms[i] ELSE ns[i - k]
  BY ConcatProperties, LenProperties
<1> HIDE DEF cm, k
<1>2. \A i \in WritesIn(ms, l) : i \in WritesIn(cm, l)
  BY <1>1 DEF WritesIn
<1>3. \A i \in WritesIn(ns, l) : i + k \in WritesIn(cm, l)
  BY <1>1 DEF WritesIn
<1>4. \A i \in WritesIn(cm, l) : i \in WritesIn(ms, l) \/ i - k \in WritesIn(ns, l)
  BY <1>1 DEF WritesIn
<1> QED
  BY <1>2, <1>3, <1>4 DEF cm

(* set_bank writes every banked LED once, and no other.                    *)
LEMMA BankedPainted ==
    ASSUME NEW m \in [Banked -> 0 .. MaxLevel]
    PROVE  /\ PaintBanked(m) \in Seq(Message)
           /\ \A l \in Banked : /\ WritesIn(PaintBanked(m), l) # {}
                                /\ \A d : Brings(PaintBanked(m), l, d, m[l])
           /\ \A l \in Leds \ Banked : WritesIn(PaintBanked(m), l) = {}
<1> DEFINE ps == PaintKind("pad", NumPads, m)
           ss == PaintKind("softkey", NumSoftkeys, m)
<1>1. PaintBanked(m) = ps \o ss
  BY DEF PaintBanked, PaintKind
<1>2. /\ ps \in Seq(Message)
      /\ \A i \in 0 .. NumPads - 1 : /\ WritesIn(ps, <<"pad", i>>) # {}
                                     /\ \A d : Brings(ps, <<"pad", i>>, d, m[<<"pad", i>>])
      /\ \A l : (\A i \in 0 .. NumPads - 1 : l # <<"pad", i>>) => WritesIn(ps, l) = {}
  <2>1. \A i \in 0 .. NumPads - 1 : <<"pad", i>> \in Banked
    BY DEF Banked, Pads
  <2> QED
    BY <2>1, KindPainted, CountAssumption
<1>3. /\ ss \in Seq(Message)
      /\ \A i \in 0 .. NumSoftkeys - 1 :
            /\ WritesIn(ss, <<"softkey", i>>) # {}
            /\ \A d : Brings(ss, <<"softkey", i>>, d, m[<<"softkey", i>>])
      /\ \A l : (\A i \in 0 .. NumSoftkeys - 1 : l # <<"softkey", i>>) => WritesIn(ss, l) = {}
  <2>1. \A i \in 0 .. NumSoftkeys - 1 : <<"softkey", i>> \in Banked
    BY DEF Banked, Softkeys
  <2> QED
    BY <2>1, KindPainted, CountAssumption
<1> HIDE DEF ps, ss
<1>4. ASSUME NEW l \in Pads
      PROVE  WritesIn(ps, l) # {} /\ WritesIn(ss, l) = {} /\ \A d : Brings(ps, l, d, m[l])
  <2>1. PICK i \in 0 .. NumPads - 1 : l = <<"pad", i>>
    BY DEF Pads
  <2> QED
    BY <1>2, <1>3, <2>1
<1>5. ASSUME NEW l \in Softkeys
      PROVE  WritesIn(ss, l) # {} /\ \A d : Brings(ss, l, d, m[l])
  <2>1. PICK i \in 0 .. NumSoftkeys - 1 : l = <<"softkey", i>>
    BY DEF Softkeys
  <2> QED
    BY <1>3, <2>1
<1>6. ASSUME NEW l \in Leds \ Banked
      PROVE  WritesIn(ps, l) = {} /\ WritesIn(ss, l) = {}
  BY <1>2, <1>3, <1>6 DEF Banked, Pads, Softkeys
<1>7. ASSUME NEW l \in Banked, NEW d
      PROVE  Brings(ps \o ss, l, d, m[l])
  <2>1. CASE l \in Pads
    <3>1. Brings(ss, l, m[l], m[l])
      BY <1>4, <2>1 DEF Brings
    <3> QED
      BY <1>2, <1>3, <1>4, <2>1, <3>1, ConcatFacts
  <2>2. CASE l \in Softkeys
    BY <1>2, <1>3, <1>5, <2>2, ConcatFacts
  <2> QED
    BY <2>1, <2>2 DEF Banked
<1>8. ps \o ss \in Seq(Message)
  BY <1>2, <1>3, ConcatProperties
<1>9. \A l \in Banked : WritesIn(ps \o ss, l) # {}
  BY <1>2, <1>3, <1>4, <1>5, NoWrites DEF Banked
<1>10. \A l \in Leds \ Banked : WritesIn(ps \o ss, l) = {}
  BY <1>2, <1>3, <1>6, NoWrites
<1> QED
  BY <1>1, <1>7, <1>8, <1>9, <1>10

-----------------------------------------------------------------------------
(* Types                                                                   *)

LEMMA TypeInit == Init => TypeOK
<1> SUFFICES ASSUME Init PROVE TypeOK
  OBVIOUS
<1>1. 0 \in Groups
  BY CountAssumption DEF Groups
<1>2. todo \in Seq(Message)
  BY GroupsPainted DEF Init
<1>3. chan \in Seq(Message) /\ Len(chan) <= ChanCap
  BY CountAssumption DEF Init
<1>4. mem \in [Groups -> [Banked -> 0 .. MaxLevel]] /\ shown \in [Leds -> 0 .. MaxLevel]
  BY LevelRange DEF Init
<1>5. events \in 0 .. MaxEvents
  BY CountAssumption DEF Init
<1> QED
  BY <1>1, <1>2, <1>3, <1>4, <1>5 DEF Init, TypeOK

(* What the engine is to send is a sequence of messages after any event.   *)
LEMMA TakeType ==
    ASSUME TypeOK, Take
    PROVE  /\ events' \in 0 .. MaxEvents /\ chan' = chan /\ session' = session /\ shown' = shown
           /\ lost' = lost
  BY CountAssumption DEF TypeOK, Take

LEMMA OneMessage ==
    ASSUME NEW l \in Leds, NEW v \in 0 .. MaxLevel
    PROVE  Msg(l, v) \in Message /\ <<Msg(l, v)>> \in Seq(Message)
<1>1. Msg(l, v) \in Message
  BY DEF Message, Msg
<1> QED
  BY <1>1

LEMMA TypeModifier ==
    ASSUME TypeOK, NEW sh \in BOOLEAN, NEW ct \in BOOLEAN, OnModifier(sh, ct)
    PROVE  TypeOK'
<1>1. todo' \in Seq(Message)
  BY GroupsPainted DEF OnModifier
<1> QED
  BY <1>1, TakeType DEF TypeOK, OnModifier

LEMMA TypeSetBank ==
    ASSUME TypeOK, NEW g \in Groups, SetBank(g)
    PROVE  TypeOK'
<1>1. mem[g] \in [Banked -> 0 .. MaxLevel]
  BY DEF TypeOK
<1>2. todo' \in Seq(Message)
  BY <1>1, GroupsPainted, BankedPainted, ConcatProperties DEF SetBank
<1> QED
  BY <1>2, TakeType DEF TypeOK, SetBank

LEMMA TypeReload ==
    ASSUME TypeOK, NEW s \in Groups, Reload(s)
    PROVE  TypeOK'
<1>1. todo' \in Seq(Message)
  BY GroupsPainted DEF Reload
<1> QED
  BY <1>1, TakeType DEF TypeOK, Reload

LEMMA TypeWriteBanked ==
    ASSUME TypeOK, NEW g \in Groups, NEW l \in Banked, NEW v \in Levels, WriteBanked(g, l, v)
    PROVE  TypeOK'
<1>1. v \in 0 .. MaxLevel /\ l \in Leds
  BY LevelRange, LedKinds
<1>2. todo' \in Seq(Message)
  BY <1>1, OneMessage, EmptySeq DEF WriteBanked
<1>3. mem' \in [Groups -> [Banked -> 0 .. MaxLevel]]
  BY <1>1 DEF WriteBanked, TypeOK
<1> QED
  BY <1>2, <1>3, TakeType DEF TypeOK, WriteBanked

LEMMA TypeWriteButton ==
    ASSUME TypeOK, NEW v \in Levels, WriteButton(v)
    PROVE  TypeOK'
<1>1. todo' \in Seq(Message)
  BY LevelRange, LedKinds, OneMessage DEF WriteButton
<1> QED
  BY <1>1, TakeType DEF TypeOK, WriteButton, engine

LEMMA TypeSendOne == TypeOK /\ SendOne => TypeOK'
<1> SUFFICES ASSUME TypeOK, SendOne PROVE TypeOK'
  OBVIOUS
<1>1. todo \in Seq(Message) /\ todo # <<>> /\ chan \in Seq(Message) /\ Len(chan) \in Nat
      /\ Len(chan) <= ChanCap
  BY DEF TypeOK, SendOne, Idle
<1>2. Head(todo) \in Message /\ Tail(todo) \in Seq(Message)
  BY <1>1, HeadTailProperties
<1>3. Head(todo).led \in Leds
  BY <1>2 DEF Message
<1>4. chan' \in Seq(Message) /\ Len(chan') <= ChanCap /\ lost' \subseteq Leds
  <2>1. CASE Len(chan) < ChanCap
    <3>1. chan' = Append(chan, Head(todo)) /\ lost' \subseteq lost
      BY <2>1 DEF SendOne
    <3>2. Append(chan, Head(todo)) \in Seq(Message) /\ Len(Append(chan, Head(todo))) = Len(chan) + 1
      BY <1>1, <1>2, AppendProperties
    <3> QED
      BY <1>1, <2>1, <3>1, <3>2, CountAssumption DEF TypeOK
  <2>2. CASE ~(Len(chan) < ChanCap)
    BY <1>1, <1>3, <2>2 DEF SendOne, TypeOK
  <2> QED
    BY <2>1, <2>2
<1> QED
  BY <1>2, <1>4 DEF TypeOK, SendOne, engine

LEMMA TypeDrainOne == TypeOK /\ DrainOne => TypeOK'
<1> SUFFICES ASSUME TypeOK, DrainOne PROVE TypeOK'
  OBVIOUS
<1>1. chan \in Seq(Message) /\ chan # <<>> /\ Len(chan) \in Nat /\ Len(chan) <= ChanCap
  BY DEF TypeOK, DrainOne
<1>2. Head(chan) \in Message /\ Tail(chan) \in Seq(Message) /\ Len(Tail(chan)) = Len(chan) - 1
  BY <1>1, HeadTailProperties
<1>3. Head(chan).led \in Leds /\ Head(chan).level \in 0 .. MaxLevel
  BY <1>2 DEF Message
<1>4. shown' \in [Leds -> 0 .. MaxLevel]
  BY <1>3 DEF DrainOne, TypeOK
<1>5. chan' \in Seq(Message) /\ Len(chan') <= ChanCap
  BY <1>1, <1>2, CountAssumption DEF DrainOne
<1> QED
  BY <1>4, <1>5 DEF TypeOK, DrainOne, engine

LEMMA TypeReassert == TypeOK /\ Reassert => TypeOK'
<1> SUFFICES ASSUME TypeOK, Reassert PROVE TypeOK'
  OBVIOUS
<1>1. Msg(Button, MaxLevel) \in Message
  BY OneMessage, LedKinds, LevelRange
<1>2. chan \in Seq(Message) /\ Len(chan) \in Nat /\ Len(chan) <= ChanCap
  BY DEF TypeOK
<1>3. /\ Append(chan, Msg(Button, MaxLevel)) \in Seq(Message)
      /\ Len(Append(chan, Msg(Button, MaxLevel))) = Len(chan) + 1
  BY <1>1, <1>2, AppendProperties
<1>4. chan' \in Seq(Message) /\ Len(chan') <= ChanCap
  BY <1>2, <1>3, CountAssumption DEF Reassert
<1>5. events' \in 0 .. MaxEvents
  BY CountAssumption DEF Reassert, TypeOK
<1> QED
  BY <1>4, <1>5 DEF TypeOK, Reassert, engine

LEMMA TypeStep == TypeOK /\ [Next]_vars => TypeOK'
<1>1. TypeOK /\ UNCHANGED vars => TypeOK'
  BY DEF vars, engine, TypeOK
<1>2. TypeOK /\ SessionChanges => TypeOK'
  BY DEF SessionChanges, engine, TypeOK
<1>3. TypeOK /\ Event => TypeOK'
  BY TypeModifier, TypeSetBank, TypeReload, TypeWriteBanked, TypeWriteButton DEF Event
<1> QED
  BY <1>1, <1>2, <1>3, TypeSendOne, TypeDrainOne, TypeReassert DEF Next

(* The engine, the channel and the panel keep their types and bounds.      *)
THEOREM TypeCorrect == Spec => []TypeOK
  BY TypeInit, TypeStep, PTL DEF Spec

-----------------------------------------------------------------------------
(* The panel.  PanelFollowsEngine says nothing of an LED whose brightness  *)
(* was dropped, so it is not inductive: the next brightness of such an LED *)
(* may find room, and then it has to be the right one.  Hence of any LED,  *)
(* dropped or not, what the handler has still to send ends with what the   *)
(* engine's state says.                                                    *)
TodoRight(l) == Brings(todo, l, Desired(l), Desired(l))
ChanRight(l) ==
    l \notin lost /\ WritesIn(todo, l) = {} => Brings(chan, l, shown[l], Desired(l))

PanelInv == \A l \in Leds \ {Button} : TodoRight(l) /\ ChanRight(l)

(* An LED of the panel is banked or a group's.                             *)
LEMMA PanelLeds ==
    ASSUME NEW l \in Leds \ {Button}
    PROVE  l \in Banked \/ (l \notin Banked /\ \E g \in Groups : l = GroupLed(g))
  BY LedKinds DEF Leds

LEMMA NothingSent ==
    ASSUME NEW l, NEW d, NEW v
    PROVE  WritesIn(<<>>, l) = {} /\ (Brings(<<>>, l, d, v) <=> d = v)
  BY DEF WritesIn, Brings

LEMMA PanelInit == Init => PanelInv
<1> SUFFICES ASSUME Init, NEW l \in Leds \ {Button} PROVE TodoRight(l) /\ ChanRight(l)
  BY DEF PanelInv, TodoRight, ChanRight
<1>1. 0 \in Groups /\ Lit(0, slot, FALSE, FALSE) = 0
  BY CountAssumption DEF Groups, Lit
<1>2. todo = PaintGroups(0) /\ chan = <<>> /\ shown[l] = 0 /\ bank = 0
  BY DEF Init
<1>3. CASE l \in Banked
  <2>1. Desired(l) = 0
    BY <1>1, <1>3 DEF Init, Desired
  <2>2. WritesIn(todo, l) = {}
    BY <1>2, <1>3, GroupsPainted, LedKinds
  <2> QED
    BY <1>2, <2>1, <2>2, NothingSent DEF TodoRight, ChanRight, Brings
<1>4. ASSUME l \notin Banked, NEW g \in Groups, l = GroupLed(g)
      PROVE  TodoRight(l) /\ ChanRight(l)
  <2>1. Desired(l) = IF g = 0 THEN MaxLevel ELSE 0
    BY <1>1, <1>4, LedKinds DEF Init, Desired
  <2>2. WritesIn(todo, l) # {} /\ Brings(todo, l, Desired(l), Desired(l))
    BY <1>2, <1>4, <2>1, GroupsPainted
  <2> QED
    BY <2>2 DEF TodoRight, ChanRight
<1> QED
  BY <1>3, <1>4, PanelLeds

(* A handler repaints every LED for which it changes the engine's state.   *)
Repaints(l) ==
    /\ Brings(todo', l, Desired(l)', Desired(l)')
    /\ WritesIn(todo', l) = {} => Desired(l)' = Desired(l)

LEMMA HandlerKeeps ==
    ASSUME TypeOK, PanelInv, Take, \A l \in Leds \ {Button} : Repaints(l)
    PROVE  PanelInv'
<1> SUFFICES ASSUME NEW l \in Leds \ {Button} PROVE TodoRight(l)' /\ ChanRight(l)'
  BY DEF PanelInv, TodoRight, ChanRight
<1>1. chan' = chan /\ shown' = shown /\ lost' = lost /\ todo = <<>>
  BY DEF Take, Idle
<1>2. l \notin lost => Brings(chan, l, shown[l], Desired(l))
  BY <1>1, NothingSent DEF PanelInv, ChanRight
<1>3. Repaints(l)
  OBVIOUS
<1> QED
  BY <1>1, <1>2, <1>3 DEF Repaints, TodoRight, ChanRight

(* The handlers that paint the groups and leave bank and memory alone.     *)
LEMMA PaintKeeps ==
    ASSUME TypeOK, PanelInv, Take, UNCHANGED <<bank, mem>>,
           todo' = PaintGroups(Lit(bank', slot', shift', ctrl')),
           bank' \in Groups, slot' \in Groups
    PROVE  PanelInv'
<1>1. ASSUME NEW l \in Leds \ {Button} PROVE Repaints(l)
  <2>1. CASE l \in Banked
    <3>1. WritesIn(todo', l) = {}
      BY <2>1, GroupsPainted, LedKinds
    <3>2. Desired(l)' = Desired(l)
      BY <2>1 DEF Desired
    <3> QED
      BY <3>1, <3>2 DEF Repaints, Brings
  <2>2. ASSUME l \notin Banked, NEW g \in Groups, l = GroupLed(g) PROVE Repaints(l)
    <3>1. Desired(l)' = IF g = Lit(bank', slot', shift', ctrl') THEN MaxLevel ELSE 0
      <4>1. Lit(bank', slot', shift', ctrl') \in Groups
        BY DEF Lit
      <4> QED
        BY <2>2, <4>1, LedKinds DEF Desired
    <3>2. WritesIn(todo', l) # {} /\ \A d : Brings(todo', l, d, Desired(l)')
      BY <2>2, <3>1, GroupsPainted
    <3> QED
      BY <3>2 DEF Repaints
  <2> QED
    BY <2>1, <2>2, PanelLeds
<1> QED
  BY <1>1, HandlerKeeps

LEMMA PanelModifier ==
    ASSUME TypeOK, PanelInv, NEW sh \in BOOLEAN, NEW ct \in BOOLEAN, OnModifier(sh, ct)
    PROVE  PanelInv'
  BY PaintKeeps DEF OnModifier, TypeOK

LEMMA PanelReload ==
    ASSUME TypeOK, PanelInv, NEW s \in Groups, Reload(s)
    PROVE  PanelInv'
  BY PaintKeeps DEF Reload, TypeOK

LEMMA PanelSetBank ==
    ASSUME TypeOK, PanelInv, NEW g \in Groups, SetBank(g)
    PROVE  PanelInv'
<1> DEFINE lit == Lit(g, slot, shift, ctrl)
           pg == PaintGroups(lit)
           pb == PaintBanked(mem[g])
<1>1. /\ Take /\ todo' = pg \o pb /\ bank' = g
      /\ UNCHANGED <<slot, shift, ctrl, mem>>
  BY DEF SetBank
<1>2. lit \in Groups
  BY DEF TypeOK, Lit
<1>3. mem[g] \in [Banked -> 0 .. MaxLevel]
  BY DEF TypeOK
<1>4. pg \in Seq(Message) /\ pb \in Seq(Message)
  BY <1>3, GroupsPainted, BankedPainted
<1>5. ASSUME NEW l \in Leds \ {Button}, l \in Banked PROVE Repaints(l)
  <2>1. Desired(l)' = mem[g][l]
    BY <1>1, <1>5 DEF Desired
  <2>2. WritesIn(pb, l) # {} /\ Brings(pb, l, mem[g][l], mem[g][l])
    BY <1>3, <1>5, BankedPainted
  <2>3. Brings(pg \o pb, l, mem[g][l], mem[g][l])
    BY <1>4, <2>2, ConcatFacts
  <2>4. WritesIn(pg \o pb, l) # {}
    BY <1>4, <2>2, NoWrites
  <2> QED
    BY <1>1, <2>1, <2>3, <2>4 DEF Repaints
<1>6. ASSUME NEW l \in Leds \ {Button}, l \notin Banked, NEW h \in Groups, l = GroupLed(h)
      PROVE  Repaints(l)
  <2> DEFINE v == IF h = lit THEN MaxLevel ELSE 0
  <2>1. Desired(l)' = v
    BY <1>1, <1>2, <1>6, LedKinds DEF Desired
  <2>2. WritesIn(pg, l) # {} /\ Brings(pg, l, v, v)
    BY <1>6, GroupsPainted
  <2>3. WritesIn(pb, l) = {}
    BY <1>3, <1>6, BankedPainted
  <2> HIDE DEF v, pg, pb
  <2>4. Brings(pb, l, v, v)
    BY <2>3 DEF Brings
  <2>5. Brings(pg \o pb, l, v, v)
    BY <1>4, <2>2, <2>3, <2>4, ConcatFacts
  <2>6. WritesIn(pg \o pb, l) # {}
    BY <1>4, <2>2, NoWrites
  <2> QED
    BY <1>1, <2>1, <2>5, <2>6 DEF Repaints
<1> QED
  BY <1>1, <1>5, <1>6, PanelLeds, HandlerKeeps

LEMMA OneWrite ==
    ASSUME NEW l, NEW v, NEW k
    PROVE  /\ WritesIn(<<Msg(l, v)>>, l) # {} /\ \A d : Brings(<<Msg(l, v)>>, l, d, v)
           /\ k # l => WritesIn(<<Msg(l, v)>>, k) = {}
<1> DEFINE ms == <<Msg(l, v)>>
<1>1. DOMAIN ms = {1} /\ ms[1].led = l /\ ms[1].level = v
  BY DEF Msg
<1> HIDE DEF ms
<1>2. WritesIn(ms, l) = {1} /\ (k # l => WritesIn(ms, k) = {})
  BY <1>1 DEF WritesIn
<1>3. \A d : Brings(ms, l, d, v)
  BY <1>1, <1>2 DEF Brings
<1> QED
  BY <1>2, <1>3 DEF ms

LEMMA PanelWriteBanked ==
    ASSUME TypeOK, PanelInv, NEW g \in Groups, NEW l \in Banked, NEW v \in Levels,
           WriteBanked(g, l, v)
    PROVE  PanelInv'
<1>1. Take /\ mem' = [mem EXCEPT ![g][l] = v] /\ UNCHANGED <<bank, slot, shift, ctrl>>
  BY DEF WriteBanked
<1>2. mem \in [Groups -> [Banked -> 0 .. MaxLevel]] /\ bank \in Groups
  BY DEF TypeOK
<1>3. ASSUME NEW k \in Leds \ {Button} PROVE Repaints(k)
  <2>1. g # bank \/ k # l => Desired(k)' = Desired(k)
    BY <1>1, <1>2 DEF Desired
  <2>2. CASE g # bank \/ k # l
    <3>1. WritesIn(todo', k) = {}
      BY <2>2, OneWrite, NothingSent DEF WriteBanked
    <3> QED
      BY <2>1, <2>2, <3>1 DEF Repaints, Brings
  <2>3. CASE g = bank /\ k = l
    <3>1. Desired(k)' = v
      BY <1>1, <1>2, <2>3 DEF Desired
    <3>2. todo' = <<Msg(k, v)>>
      BY <2>3 DEF WriteBanked
    <3> QED
      BY <3>1, <3>2, OneWrite DEF Repaints
  <2> QED
    BY <2>2, <2>3
<1> QED
  BY <1>1, <1>3, HandlerKeeps

LEMMA PanelWriteButton ==
    ASSUME TypeOK, PanelInv, NEW v \in Levels, WriteButton(v)
    PROVE  PanelInv'
<1>1. Take /\ todo' = <<Msg(Button, v)>> /\ UNCHANGED engine
  BY DEF WriteButton
<1>2. ASSUME NEW k \in Leds \ {Button} PROVE Repaints(k)
  <2>1. WritesIn(todo', k) = {}
    BY <1>1, OneWrite
  <2>2. Desired(k)' = Desired(k)
    BY <1>1 DEF Desired, engine
  <2> QED
    BY <2>1, <2>2 DEF Repaints, Brings
<1> QED
  BY <1>1, <1>2, HandlerKeeps

(* A brightness that is sent is, with no other of its LED to come, the     *)
(* right one; one that is dropped makes its LED a lost one.                *)
LEMMA PanelSendOne == TypeOK /\ PanelInv /\ SendOne => PanelInv'
<1> SUFFICES ASSUME TypeOK, PanelInv, SendOne, NEW l \in Leds \ {Button}
             PROVE  TodoRight(l)' /\ ChanRight(l)'
  BY DEF PanelInv, TodoRight, ChanRight
<1> DEFINE m == Head(todo)
<1>1. /\ todo \in Seq(Message) /\ todo # <<>> /\ chan \in Seq(Message)
      /\ todo' = Tail(todo) /\ UNCHANGED <<engine, shown>>
  BY DEF TypeOK, SendOne, Idle
<1>2. m \in Message
  BY <1>1, HeadTailProperties
<1>3. Desired(l)' = Desired(l) /\ shown' = shown
  BY <1>1 DEF Desired, engine
<1>4. TodoRight(l) /\ ChanRight(l)
  BY DEF PanelInv
<1>5. CASE m.led # l
  <2>1. Brings(todo', l, Desired(l), Desired(l)) /\ (WritesIn(todo', l) = {} => WritesIn(todo, l) = {})
    BY <1>1, <1>4, <1>5, TailFacts DEF TodoRight
  <2>2. l \in lost' <=> l \in lost
    BY <1>5 DEF SendOne
  <2>3. Brings(chan, l, shown[l], Desired(l)) => Brings(chan', l, shown[l], Desired(l))
    <3>1. chan' = chan \/ chan' = Append(chan, m)
      BY DEF SendOne
    <3> HIDE DEF m
    <3>2. \A d, v : Brings(Append(chan, m), l, d, v) <=> Brings(chan, l, d, v)
      BY <1>1, <1>2, <1>5, AppendOther
    <3> QED
      BY <3>1, <3>2
  <2> QED
    BY <1>3, <1>4, <2>1, <2>2, <2>3 DEF TodoRight, ChanRight
<1>6. CASE m.led = l
  <2>1. Brings(todo', l, m.level, Desired(l))
    BY <1>1, <1>4, <1>6, TailFacts DEF TodoRight
  <2>2. Brings(todo', l, Desired(l), Desired(l))
    BY <2>1 DEF Brings
  <2>3. WritesIn(todo', l) = {} => m.level = Desired(l)
    BY <2>1 DEF Brings
  <2>4. CASE Len(chan) < ChanCap
    <3>1. chan' = Append(chan, m)
      BY <2>4 DEF SendOne
    <3>2. Brings(chan', l, shown[l], m.level)
      BY <1>1, <1>2, <1>6, <3>1, AppendSame
    <3> QED
      BY <1>3, <2>2, <2>3, <3>2 DEF TodoRight, ChanRight
  <2>5. CASE ~(Len(chan) < ChanCap)
    <3>1. l \in lost'
      BY <1>6, <2>5 DEF SendOne
    <3> QED
      BY <1>3, <2>2, <3>1 DEF TodoRight, ChanRight
  <2> QED
    BY <2>4, <2>5
<1> QED
  BY <1>5, <1>6

LEMMA PanelDrainOne == TypeOK /\ PanelInv /\ DrainOne => PanelInv'
<1> SUFFICES ASSUME TypeOK, PanelInv, DrainOne, NEW l \in Leds \ {Button}
             PROVE  TodoRight(l)' /\ ChanRight(l)'
  BY DEF PanelInv, TodoRight, ChanRight
<1> DEFINE m == Head(chan)
<1>1. /\ chan \in Seq(Message) /\ chan # <<>> /\ chan' = Tail(chan) /\ shown \in [Leds -> 0 .. MaxLevel]
      /\ shown' = [shown EXCEPT ![m.led] = m.level] /\ UNCHANGED <<engine, todo, lost>>
  BY DEF TypeOK, DrainOne
<1>2. Desired(l)' = Desired(l) /\ todo' = todo /\ lost' = lost
  BY <1>1 DEF Desired, engine
<1>3. TodoRight(l) /\ ChanRight(l)
  BY DEF PanelInv
<1>4. shown'[l] = IF m.led = l THEN m.level ELSE shown[l]
  BY <1>1
<1>5. Brings(chan, l, shown[l], Desired(l)) => Brings(chan', l, shown'[l], Desired(l))
  BY <1>1, <1>4, TailFacts
<1> QED
  BY <1>2, <1>3, <1>5 DEF TodoRight, ChanRight

LEMMA PanelReassert == TypeOK /\ PanelInv /\ Reassert => PanelInv'
<1> SUFFICES ASSUME TypeOK, PanelInv, Reassert, NEW l \in Leds \ {Button}
             PROVE  TodoRight(l)' /\ ChanRight(l)'
  BY DEF PanelInv, TodoRight, ChanRight
<1> DEFINE m == Msg(Button, MaxLevel)
<1>1. m \in Message /\ m.led # l
  BY OneMessage, LedKinds, LevelRange DEF Msg
<1>2. chan \in Seq(Message) /\ (chan' = chan \/ chan' = Append(chan, m)) /\ UNCHANGED <<engine, todo, shown, lost>>
  BY DEF TypeOK, Reassert
<1>3. Desired(l)' = Desired(l)
  BY <1>2 DEF Desired, engine
<1> HIDE DEF m
<1>4. Brings(chan, l, shown[l], Desired(l)) => Brings(chan', l, shown[l], Desired(l))
  <2>1. \A d, v : Brings(Append(chan, m), l, d, v) <=> Brings(chan, l, d, v)
    BY <1>1, <1>2, AppendOther
  <2> QED
    BY <1>2, <2>1
<1> QED
  BY <1>2, <1>3, <1>4 DEF PanelInv, TodoRight, ChanRight

LEMMA PanelUnchanged ==
    ASSUME PanelInv, UNCHANGED <<engine, todo, chan, shown, lost>>
    PROVE  PanelInv'
<1> SUFFICES ASSUME NEW l \in Leds \ {Button} PROVE TodoRight(l)' /\ ChanRight(l)'
  BY DEF PanelInv, TodoRight, ChanRight
<1>1. Desired(l)' = Desired(l)
  BY DEF Desired, engine
<1> QED
  BY <1>1 DEF PanelInv, TodoRight, ChanRight

LEMMA PanelStep == TypeOK /\ PanelInv /\ [Next]_vars => PanelInv'
<1>1. TypeOK /\ PanelInv /\ Event => PanelInv'
  BY PanelModifier, PanelSetBank, PanelReload, PanelWriteBanked, PanelWriteButton DEF Event
<1>2. PanelInv /\ (SessionChanges \/ UNCHANGED vars) => PanelInv'
  BY PanelUnchanged DEF SessionChanges, vars
<1> QED
  BY <1>1, <1>2, PanelSendOne, PanelDrainOne, PanelReassert DEF Next

LEMMA PanelInvariant == Spec => []PanelInv
  BY TypeCorrect, PanelInit, PanelStep, PTL DEF Spec

(* Whatever the engine handles and in which order, and however slowly the  *)
(* client thread drains: an LED whose last brightness was not dropped      *)
(* comes to show what the engine's state says.                             *)
THEOREM PanelFollows == Spec => []PanelFollowsEngine
<1>1. TypeOK /\ PanelInv => PanelFollowsEngine
  <2> SUFFICES ASSUME TypeOK, PanelInv, NEW l \in Leds \ (lost \cup {Button})
               PROVE  Brings(chan \o todo, l, shown[l], Desired(l))
    BY DEF PanelFollowsEngine, Underway
  <2>1. chan \in Seq(Message) /\ todo \in Seq(Message)
    BY DEF TypeOK
  <2>2. TodoRight(l) /\ ChanRight(l)
    BY DEF PanelInv
  <2> QED
    BY <2>1, <2>2, ConcatFacts DEF TodoRight, ChanRight
<1> QED
  BY <1>1, TypeCorrect, PanelInvariant, PTL

=============================================================================
