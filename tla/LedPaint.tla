------------------------------ MODULE LedPaint -------------------------------
(***************************************************************************)
(* The LED side of the OSC engine (firmware-rs/src/osc.rs): the banked LED *)
(* memory, the device-owned group LEDs, and the bounded channel that       *)
(* carries every brightness to the client thread of usb.rs.                *)
(*                                                                         *)
(* The engine is one thread that handles one event after another.  A       *)
(* handler changes the engine's state, which nobody else reads, and sends  *)
(* its brightnesses one by one with try_send, while the client thread      *)
(* drains: todo holds what the handler has still to send.  Any event may   *)
(* come at any time, since the event channel in front of the engine drops  *)
(* events when it is full.                                                 *)
(***************************************************************************)
EXTENDS Naturals, Sequences

CONSTANTS
    NumGroups,    \* group buttons, one per bank and one per profile slot: 8
    NumPads,      \* 16
    NumSoftkeys,  \* 8
    Levels,       \* brightnesses a host writes
    MaxLevel,     \* 63, a lit group LED
    ChanCap,      \* slots of the LED channel: 64
    MaxEvents     \* bound: how many events the engine handles and how often
                  \* the backlight is reasserted

ASSUME CountAssumption ==
    /\ NumGroups \in Nat \ {0} /\ NumPads \in Nat /\ NumSoftkeys \in Nat
    /\ MaxLevel \in Nat /\ Levels \subseteq 0 .. MaxLevel
    /\ ChanCap \in Nat \ {0} /\ MaxEvents \in Nat

VARIABLES
    bank, slot, shift, ctrl,  \* Engine
    mem,      \* Engine.pad_led and .softkey_led: bank -> banked LED -> brightness
    todo,     \* what the handler at work has still to send
    chan,     \* the LED channel
    session,  \* SESSION_UP; the client thread drains only then
    shown,    \* what the client thread last took for an LED
    lost,     \* history: the LEDs whose last brightness was dropped
    events    \* bounded by MaxEvents

engine == <<bank, slot, shift, ctrl, mem>>
vars == <<engine, todo, chan, session, shown, lost, events>>

Groups == 0 .. NumGroups - 1
GroupLed(g) == <<"group", g>>
Pads == {<<"pad", i>> : i \in 0 .. NumPads - 1}
Softkeys == {<<"softkey", i>> : i \in 0 .. NumSoftkeys - 1}
Banked == Pads \cup Softkeys
Button == <<"button", 0>>       \* any LED that is neither banked nor a group's
Leds == {GroupLed(g) : g \in Groups} \cup Banked \cup {Button}

Msg(l, v) == [led |-> l, level |-> v]

(* paint_groups: the active bank, or the active profile while Control is   *)
(* held without Shift.                                                     *)
Lit(b, s, sh, ct) == IF ct /\ ~sh THEN s ELSE b

(* Mutant of PaintGroups: group buttons count from 1.                      *)
PaintFromOne(lit) ==
    [i \in 1 .. NumGroups |-> Msg(GroupLed(i), IF i = lit THEN MaxLevel ELSE 0)]

PaintGroups(lit) ==
    [i \in 1 .. NumGroups |-> Msg(GroupLed(i - 1), IF i - 1 = lit THEN MaxLevel ELSE 0)]

(* set_bank sends the memory of the new bank, pads first.                  *)
PaintBanked(m) ==
    [i \in 1 .. NumPads |-> Msg(<<"pad", i - 1>>, m[<<"pad", i - 1>>])]
    \o [i \in 1 .. NumSoftkeys |-> Msg(<<"softkey", i - 1>>, m[<<"softkey", i - 1>>])]

-----------------------------------------------------------------------------
(* The engine thread loads the active profile before the first event.      *)
Init ==
    /\ bank = 0 /\ slot \in Groups /\ shift = FALSE /\ ctrl = FALSE
    /\ mem = [g \in Groups |-> [l \in Banked |-> 0]]
    /\ todo = PaintGroups(0)
    /\ chan = <<>> /\ session = FALSE /\ lost = {} /\ events = 0
    /\ shown = [l \in Leds |-> 0]

(* The engine takes an event once the handler of the last one is done.     *)
Idle == todo = <<>>
Take ==
    /\ Idle
    /\ events < MaxEvents /\ events' = events + 1
    /\ UNCHANGED <<chan, session, shown, lost>>

(* on_button, Shift and Control                                            *)
OnModifier(sh, ct) ==
    /\ Take
    /\ <<sh, ct>> # <<shift, ctrl>> /\ (sh = shift \/ ct = ctrl)
    /\ shift' = sh /\ ctrl' = ct
    /\ todo' = PaintGroups(Lit(bank, slot, sh, ct))
    /\ UNCHANGED <<bank, slot, mem>>

(* on_button, a group with Shift held: set_bank, inert for the active bank.*)
SetBank(g) ==
    /\ Take /\ shift
    /\ g # bank
    /\ bank' = g
    /\ todo' = PaintGroups(Lit(g, slot, shift, ctrl)) \o PaintBanked(mem[g])
    /\ UNCHANGED <<slot, shift, ctrl, mem>>

(* reload finds s active: on_button, a group with Control held, persists   *)
(* its slot, which may fail, and reloads; the web page activates any.      *)
Reload(s) ==
    /\ Take
    /\ slot' = s
    /\ todo' = PaintGroups(Lit(bank, s, shift, ctrl))
    /\ UNCHANGED <<bank, shift, ctrl, mem>>

(* Mutant of WriteBanked: a write to any bank is sent.                     *)
WriteAnyBank(g, l, v) ==
    /\ Take
    /\ mem' = [mem EXCEPT ![g][l] = v]
    /\ todo' = <<Msg(l, v)>>
    /\ UNCHANGED <<bank, slot, shift, ctrl>>

(* on_in and apply_led for a banked LED, named by a /maschine/led/ address *)
(* or by a led_source of the profile: remembered for its bank, sent when   *)
(* that bank is the active one.                                            *)
WriteBanked(g, l, v) ==
    /\ Take
    /\ mem' = [mem EXCEPT ![g][l] = v]
    /\ todo' = IF g = bank THEN <<Msg(l, v)>> ELSE <<>>
    /\ UNCHANGED <<bank, slot, shift, ctrl>>

(* apply_led for a button LED                                              *)
WriteButton(v) ==
    /\ Take
    /\ todo' = <<Msg(Button, v)>>
    /\ UNCHANGED engine

(* One try_send of the handler at work.                                    *)
SendOne ==
    /\ ~Idle
    /\ todo' = Tail(todo)
    /\ LET l == Head(todo).led
       IN  IF Len(chan) < ChanCap
           THEN chan' = Append(chan, Head(todo)) /\ lost' = lost \ {l}
           ELSE chan' = chan /\ lost' = lost \cup {l}
    /\ UNCHANGED <<engine, session, shown, events>>

(* The client thread takes one brightness.                                 *)
DrainOne ==
    /\ session /\ chan # <<>>
    /\ shown' = [shown EXCEPT ![Head(chan).led] = Head(chan).level]
    /\ chan' = Tail(chan)
    /\ UNCHANGED <<engine, todo, session, lost, events>>

(* The display thread's try_send of the backlight, between two sends of the*)
(* engine (usb.rs).                                                        *)
Reassert ==
    /\ session /\ events < MaxEvents
    /\ events' = events + 1
    /\ chan' = IF Len(chan) < ChanCap THEN Append(chan, Msg(Button, MaxLevel)) ELSE chan
    /\ UNCHANGED <<engine, todo, session, shown, lost>>

SessionChanges ==
    /\ session' = ~session
    /\ UNCHANGED <<engine, todo, chan, shown, lost, events>>

Event ==
    \/ \E sh, ct \in BOOLEAN : OnModifier(sh, ct)
    \/ \E g \in Groups : SetBank(g) \/ Reload(g)
    \/ \E g \in Groups, l \in Banked, v \in Levels : WriteBanked(g, l, v)
    \/ \E v \in Levels : WriteButton(v)

Next == Event \/ SendOne \/ DrainOne \/ Reassert \/ SessionChanges

Spec == Init /\ [][Next]_vars

-----------------------------------------------------------------------------
Message == [led : Leds, level : 0 .. MaxLevel]

(* Every variable has its type.                                            *)
TypeOK ==
    /\ bank \in Groups /\ slot \in Groups /\ shift \in BOOLEAN /\ ctrl \in BOOLEAN
    /\ mem \in [Groups -> [Banked -> 0 .. MaxLevel]]
    /\ todo \in Seq(Message) /\ chan \in Seq(Message) /\ Len(chan) <= ChanCap
    /\ session \in BOOLEAN /\ shown \in [Leds -> 0 .. MaxLevel] /\ lost \subseteq Leds
    /\ events \in 0 .. MaxEvents

(* What an LED is to show by the engine's state.                           *)
Desired(l) ==
    IF l \in Banked
    THEN mem[bank][l]
    ELSE IF l = GroupLed(Lit(bank, slot, shift, ctrl)) THEN MaxLevel ELSE 0

(* With the messages of ms underway an LED that shows d comes to show v.   *)
WritesIn(ms, l) == {i \in DOMAIN ms : ms[i].led = l}
Brings(ms, l, d, v) ==
    \/ WritesIn(ms, l) = {} /\ d = v
    \/ \E i \in WritesIn(ms, l) : ms[i].level = v /\ \A j \in WritesIn(ms, l) : j <= i

Underway == chan \o todo

(* A banked or group LED whose last brightness was not dropped comes to    *)
(* show what the engine's state says, whatever bank switches, profile      *)
(* switches, modifiers and host writes to any bank came in which order and *)
(* while how much of them is underway (set_bank, paint_groups and apply_led*)
(* of osc.rs:287, 346 and 395 write the same LEDs from different handlers).*)
PanelFollowsEngine ==
    \A l \in Leds \ (lost \cup {Button}) : Brings(Underway, l, shown[l], Desired(l))

=============================================================================
