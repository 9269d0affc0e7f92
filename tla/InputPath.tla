----------------------------- MODULE InputPath -------------------------------
(***************************************************************************)
(* From a finger to the host: the pad and button reports of the controller *)
(* (ep4_in_cb and handle_ep1 of usb.rs), the bounded event channel that    *)
(* drops what it has no room for, and the control side of the OSC engine   *)
(* (on_event and on_button of osc.rs), which sends every control to the    *)
(* address the active profile has for it in the active bank, or nowhere.   *)
(*                                                                         *)
(* The client thread publishes one event at a time while the engine takes  *)
(* them.  A report may say anything: what was pressed between two reports, *)
(* or while the controller was unplugged, is not seen.                     *)
(***************************************************************************)
EXTENDS Integers, Sequences, FiniteSets

CONSTANTS
    Pads,
    Softkeys,
    NumGroups,    \* group buttons and banks: 8
    Addrs,        \* where a control is sent: an OSC address and its target
    Silenced,     \* the place of a mapped control without an address
    Profiles,     \* what a slot of the flash may hold when it is loaded
    Shift, Control,
    Rank,         \* the order of Button::ALL
    Pressures,    \* raw pressures of a pad report
    Gate,         \* smallest change of pressure that is published: 16
    ChanCap,      \* slots of the event channel: 64
    MaxReports,   \* bound: pad words, button reports and reloads
    MaxChanges    \* bound: how many buttons change from one report to the next

Groups == 0 .. NumGroups - 1
Modifiers == {Shift, Control}
Buttons == Groups \cup Softkeys \cup Modifiers
Banked == Pads \cup Softkeys
Controls == Banked \cup Modifiers   \* what is forwarded to the host

ASSUME ControlAssumption ==
    /\ NumGroups \in Nat \ {0} /\ Shift # Control
    /\ Groups \cap Controls = {} /\ Pads \cap (Softkeys \cup Modifiers) = {}
    /\ Softkeys \cap Modifiers = {}
    /\ Rank \in [Buttons -> Nat]
    /\ \A b, c \in Buttons : Rank[b] = Rank[c] => b = c

(* A profile has a place for every control and bank; that of a control     *)
(* which is not banked is read at bank 0.                                  *)
ASSUME ProfileAssumption ==
    /\ Silenced \notin Addrs
    /\ Profiles \subseteq [Controls -> [Groups -> Addrs \cup {Silenced}]]

(* Button::ALL (input.rs:145) has Shift before every group.                *)
ASSUME OrderAssumption == \A g \in Groups : Rank[Shift] < Rank[g]

ASSUME PressureAssumption == Pressures \subseteq Nat /\ Gate \in Nat \ {0}
ASSUME BoundAssumption == ChanCap \in Nat \ {0} /\ MaxReports \in Nat /\ MaxChanges \in Nat

VARIABLES
    \* the client thread
    press,      \* pressure of the last report, dead zone applied
    padsSent,   \* SESSION.pads_sent
    buttons,    \* SESSION.buttons
    left,       \* changed buttons the report at work has still to publish
    \* between the threads
    chan,
    \* the engine
    bank, profile, shift, ctrl,
    \* the host
    host,       \* what it last heard of a control at each address
    \* history
    was,        \* the modifiers held before the report at work
    took,       \* what the engine last took of a control
    at,         \* and the place it sent it to
    lost,       \* controls whose last event was dropped
    stranded,   \* addresses a control sounded at when its place changed
    reports     \* bounded by MaxReports

client == <<press, padsSent, buttons, left>>
engine == <<bank, profile, shift, ctrl>>
heard == <<host, took, at>>
vars == <<client, chan, engine, heard, was, lost, stranded, reports>>

PadEvent(p, v) == [kind |-> "pad", pad |-> p, level |-> v]
Reload == [kind |-> "reload"]

(* For a group held and blind are history: the modifiers that the report   *)
(* showed, Control also if only the one before did, for it is told after   *)
(* the groups; and the modifiers whose last event had been dropped.        *)
Held == (buttons \cap Modifiers) \cup (was \cap {Control})
ButtonEvent(b) ==
    [kind |-> "button", button |-> b, down |-> b \in buttons,
     held |-> IF b \in Groups THEN Held ELSE {},
     blind |-> IF b \in Groups THEN lost \cap Modifiers ELSE {}]

(* Mutant of Publish: the channel has no bound.                            *)
PublishAlways(c, e) == chan' = Append(chan, e) /\ lost' = lost \ {c}

(* publish, by the client thread for control c: a full channel drops it.   *)
Publish(c, e) ==
    IF Len(chan) < ChanCap
    THEN chan' = Append(chan, e) /\ lost' = lost \ {c}
    ELSE chan' = chan /\ lost' = lost \cup ({c} \cap Controls)

Init ==
    /\ press = [p \in Pads |-> 0] /\ padsSent = press
    /\ buttons = {} /\ was = {} /\ left = {}
    /\ chan = <<>>
    /\ bank = 0 /\ profile \in Profiles /\ shift = FALSE /\ ctrl = FALSE
    /\ host = [a \in Addrs |-> [c \in Controls |-> 0]]
    /\ took = [c \in Controls |-> 0] /\ at = [c \in Controls |-> profile[c][0]]
    /\ lost = {} /\ stranded = {} /\ reports = 0

-----------------------------------------------------------------------------
(* The client thread                                                       *)

Distance(a, b) == IF a > b THEN a - b ELSE b - a
Deadzone(v) == IF v < 6 THEN 0 ELSE v

(* Mutant of Publishes: a release within the gate is not told.             *)
PublishesSteps(v, sent) == Distance(v, sent) >= Gate

Publishes(v, sent) == Distance(v, sent) >= Gate \/ (v = 0 /\ sent # 0)

(* ep4_in_cb, one word of a pad report                                     *)
PadWord(p, raw) ==
    /\ left = {} /\ reports < MaxReports
    /\ reports' = reports + 1
    /\ press' = [press EXCEPT ![p] = Deadzone(raw)]
    /\ IF Publishes(Deadzone(raw), padsSent[p])
       THEN /\ padsSent' = [padsSent EXCEPT ![p] = Deadzone(raw)]
            /\ Publish(p, PadEvent(p, Deadzone(raw)))
       ELSE UNCHANGED <<padsSent, chan, lost>>
    /\ UNCHANGED <<buttons, left, engine, heard, was, stranded>>

(* handle_ep1 with a button report.  SESSION.buttons is assigned after the *)
(* last event, which makes no difference: no event depends on it.          *)
ButtonReport(now) ==
    /\ left = {} /\ (reports < MaxReports \/ now = buttons)
    /\ reports' = IF now = buttons THEN reports ELSE reports + 1
    /\ left' = (now \ buttons) \cup (buttons \ now)
    /\ Cardinality(left') <= MaxChanges
    /\ buttons' = now
    /\ was' = IF now = buttons THEN {} ELSE buttons \cap Modifiers
    /\ UNCHANGED <<press, padsSent, chan, engine, heard, lost, stranded>>

(* Mutant of First: the buttons are told last to first.                    *)
LastFirst(b) == \A c \in left : Rank[b] >= Rank[c]

(* ButtonStates::diff goes through Button::ALL.                            *)
First(b) == \A c \in left : Rank[b] <= Rank[c]

PublishButton ==
    \E b \in left :
        /\ First(b)
        /\ left' = left \ {b}
        /\ was' = IF left' = {} THEN {} ELSE was
        /\ Publish(b, ButtonEvent(b))
        /\ UNCHANGED <<press, padsSent, buttons, engine, heard, stranded, reports>>

(* Another publisher: the web page.                                        *)
PublishReload ==
    /\ reports < MaxReports /\ reports' = reports + 1
    /\ Len(chan) < ChanCap
    /\ chan' = Append(chan, Reload)
    /\ UNCHANGED <<client, engine, heard, was, lost, stranded>>

-----------------------------------------------------------------------------
(* The engine                                                              *)

Take(kind) == chan # <<>> /\ Head(chan).kind = kind /\ chan' = Tail(chan)

(* Mutant of Place: with Shift held the banked controls are the first      *)
(* bank's.                                                                 *)
PlaceShifted(c) == profile[c][IF c \in Banked /\ ~shift THEN bank ELSE 0]

(* Where the active profile has a control, by its bank if it is banked.    *)
Place(c) == profile[c][IF c \in Banked THEN bank ELSE 0]

(* emit: to the control's place, unless the profile silences it.           *)
Emit(c, v) ==
    /\ took' = [took EXCEPT ![c] = v] /\ at' = [at EXCEPT ![c] = Place(c)]
    /\ host' = IF Place(c) = Silenced THEN host ELSE [host EXCEPT ![Place(c)][c] = v]
    /\ stranded' = stranded \ {<<Place(c), c>>}

TakePad ==
    /\ Take("pad")
    /\ Emit(Head(chan).pad, Head(chan).level)
    /\ UNCHANGED <<client, engine, was, lost, reports>>

Level(down) == IF down THEN 1 ELSE 0

TakeModifier ==
    /\ Take("button")
    /\ LET e == Head(chan)
       IN  /\ e.button \in Modifiers
           /\ shift' = IF e.button = Shift THEN e.down ELSE shift
           /\ ctrl' = IF e.button = Control THEN e.down ELSE ctrl
           /\ Emit(e.button, Level(e.down))
    /\ UNCHANGED <<client, bank, profile, was, lost, reports>>

TakeSoftkey ==
    /\ Take("button")
    /\ LET e == Head(chan)
       IN  e.button \in Softkeys /\ Emit(e.button, Level(e.down))
    /\ UNCHANGED <<client, engine, was, lost, reports>>

(* The engine goes to bank b and profile f: what sounds at a place that is *)
(* no longer its control's is left behind.                                 *)
Cross(b, f) ==
    /\ bank' = b /\ profile' = f
    /\ stranded' = stranded \cup
          {<<Place(c), c>> : c \in {d \in Controls : /\ Place(d) # Silenced
                                                    /\ host[Place(d)][d] # 0
                                                    /\ Place(d)' # Place(d)}}

(* A group: set_bank with Shift, set_slot with Control, else inert.  Which *)
(* slot set_slot ends up with is told in ProfileSync, what the page saved  *)
(* there is any profile: also one edited in the slot that was active.      *)
TakeGroup ==
    /\ Take("button")
    /\ UNCHANGED <<client, shift, ctrl, heard, was, lost, reports>>
    /\ LET e == Head(chan)
       IN  /\ e.button \in Groups
           /\ \/ e.down /\ shift /\ Cross(e.button, profile)
              \/ e.down /\ ~shift /\ ctrl /\ \E f \in Profiles : Cross(bank, f)
              \/ ~(e.down /\ (shift \/ ctrl)) /\ UNCHANGED <<bank, profile, stranded>>

TakeReload ==
    /\ Take("reload")
    /\ UNCHANGED <<client, shift, ctrl, heard, was, lost, reports>>
    /\ \E f \in Profiles : Cross(bank, f)

ClientStep ==
    \/ \E p \in Pads, raw \in Pressures : PadWord(p, raw)
    \/ \E now \in SUBSET Buttons : ButtonReport(now)
    \/ PublishButton

EngineStep == TakePad \/ TakeModifier \/ TakeSoftkey \/ TakeGroup \/ TakeReload

Next == ClientStep \/ EngineStep \/ PublishReload

Spec == Init /\ [][Next]_vars

-----------------------------------------------------------------------------
Amounts == {Deadzone(raw) : raw \in Pressures} \cup {0}
Event ==
    [kind : {"pad"}, pad : Pads, level : Amounts] \cup {Reload}
    \cup [kind : {"button"}, button : Buttons, down : BOOLEAN,
          held : SUBSET Modifiers, blind : SUBSET Modifiers]

(* Every variable has its type.                                            *)
TypeOK ==
    /\ press \in [Pads -> Amounts] /\ padsSent \in [Pads -> Amounts]
    /\ buttons \subseteq Buttons /\ was \subseteq Modifiers /\ left \subseteq Buttons
    /\ chan \in Seq(Event) /\ Len(chan) <= ChanCap
    /\ bank \in Groups /\ profile \in Profiles /\ shift \in BOOLEAN /\ ctrl \in BOOLEAN
    /\ host \in [Addrs -> [Controls -> Amounts \cup {0, 1}]]
    /\ took \in [Controls -> Amounts \cup {0, 1}]
    /\ at \in [Controls -> Addrs \cup {Silenced}]
    /\ lost \subseteq Controls /\ stranded \subseteq Addrs \X Controls
    /\ reports \in 0 .. MaxReports

Concerns(e, c) == (e.kind = "pad" /\ e.pad = c) \/ (e.kind = "button" /\ e.button = c)
Settled(c) == c \notin left \cup lost /\ \A i \in DOMAIN chan : ~Concerns(chan[i], c)

(* Once no event of a control is underway and its last one was not dropped,*)
(* the engine's modifiers are the ones held, and what the host heard last  *)
(* at the address the control was last sent to is the device's state: a    *)
(* button exactly, a pad up to the gate, but a pad at rest exactly         *)
(* (pads_sent and diff, usb.rs:201 and 171).  A control whose last event   *)
(* was silenced is excepted: nobody was told (emit, osc.rs:201).           *)
HostFollowsDevice ==
    /\ \A c \in Controls : Settled(c) /\ at[c] # Silenced =>
          LET heardOf == host[at[c]][c]
          IN  IF c \in Pads
              THEN /\ Distance(heardOf, press[c]) < Gate
                   /\ press[c] = 0 => heardOf = 0
              ELSE heardOf = Level(c \in buttons)
    /\ Settled(Shift) => (shift <=> Shift \in buttons)
    /\ Settled(Control) => (ctrl <=> Control \in buttons)

AtRest(c) == IF c \in Pads THEN press[c] = 0 ELSE c \notin buttons

(* A control that was let go sounds at no address, however often the bank  *)
(* and the profile were changed and edited meanwhile, but where it sounded *)
(* at the very moment such a change gave it another place or silenced it,  *)
(* and only until it is sent there again (the address is made when the     *)
(* engine takes the event, osc.rs:242).                                    *)
NothingStuck ==
    \A c \in Controls : Settled(c) /\ AtRest(c) =>
        \A a \in Addrs : host[a][c] # 0 => <<a, c>> \in stranded

TakesGroup(m) ==
    /\ chan # <<>> /\ Head(chan).kind = "button"
    /\ Head(chan).button \in Groups /\ Head(chan).down
    /\ m \in Head(chan).held

(* The bank changes only for a group whose report showed Shift held, the   *)
(* profile only for one pressed with Control or for a reload, whatever else*)
(* the report changed and however long its events waited; unless the       *)
(* modifier's last event before had been dropped (on_button, osc.rs:264).  *)
ChordsOnly ==
    [][/\ bank' # bank => TakesGroup(Shift) \/ Shift \in Head(chan).blind
       /\ profile' # profile => \/ Head(chan) = Reload
                                \/ TakesGroup(Control)
                                \/ Control \in Head(chan).blind]_vars

=============================================================================
