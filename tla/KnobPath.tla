------------------------------ MODULE KnobPath -------------------------------
(***************************************************************************)
(* One endless knob, from its position in the reports of the controller to *)
(* the position the host is sent: the dead band of handle_ep1 (usb.rs), the*)
(* event channel that drops what it has no room for, and the engine        *)
(* (on_event of osc.rs), which integrates the deltas of knobs 1 to 8 in one*)
(* virtual position per bank, with the scale and the mode the profile has  *)
(* for the knob in that bank, and passes the position of the three master  *)
(* knobs on.                                                               *)
(*                                                                         *)
(* A virtual position counts steps of 1 / Full, of which scale 1 makes one *)
(* per raw position when Full is 999, and any multiple of a smaller step   *)
(* when it is a multiple of 999; the engine's f32 is taken for exact.      *)
(***************************************************************************)
EXTENDS Integers, Sequences

CONSTANTS
    Rev,        \* raw positions of one revolution: 1000
    Dead,       \* the dead band: 4
    Full,       \* steps of the virtual range: 999
    Banks, First,
    Profiles,   \* what a profile may have for the knob in each bank: its
                \* scale in steps per raw position, and whether its mode is
                \* "wrap"
    Moves,      \* how far the knob turns from one report to the next
    ChanCap,    \* slots of the event channel: 64
    MaxReports, \* bound: reports of a knob that moved
    MaxSwitches \* bound: bank switches and reloads

ASSUME KnobAssumption ==
    /\ Rev \in Nat \ {0} /\ Dead \in Nat /\ 2 * Dead < Rev
    /\ Full \in Nat \ {0} /\ Moves \subseteq Int /\ First \in Banks
    /\ Profiles \subseteq [Banks -> [scale : Int, wrap : BOOLEAN]]
ASSUME BoundAssumption == ChanCap \in Nat \ {0} /\ MaxReports \in Nat /\ MaxSwitches \in Nat

None == -1   \* Option::None: no raw position

VARIABLES
    master,    \* it is volume, tempo or swing: its index is not below 8
    pos,       \* how far the knob was turned by the last report
    knob,      \* SESSION.knobs
    chan,
    bank,
    profile,   \* the entries of the active profile
    prev,      \* Engine.prev_raw
    virt,      \* Engine.virt
    told,      \* what emit was last given of a master knob; whether the
               \* profile silences it is told in InputPath
    \* history
    lost,      \* the knob's last event was dropped
    to,        \* where the knob was at the last event taken
    due,       \* where a bank that wraps would be had it no end: it goes on
               \* from where a reload made it one
    astray,    \* two events taken were half a revolution apart
    reports, switches   \* bounded by MaxReports and MaxSwitches

client == <<pos, knob>>
engine == <<master, bank, profile, prev, virt, told>>
history == <<to, due, astray>>
vars == <<client, chan, engine, lost, history, reports, switches>>

(* at is history: how far the knob was turned.                             *)
KnobEvent(p) == [kind |-> "knob", raw |-> p % Rev, at |-> p]
BankEvent(b) == [kind |-> "bank", bank |-> b]
Reload == [kind |-> "reload"]

Room == Len(chan) < ChanCap

(* The knob may be turned before the first report.                         *)
Init ==
    /\ pos = 0 /\ knob = None
    /\ chan = <<>>
    /\ master \in BOOLEAN /\ bank = First /\ prev = None /\ virt = [b \in Banks |-> 0] /\ told = None
    /\ profile \in Profiles
    /\ lost = FALSE /\ to = 0 /\ due = virt /\ astray = FALSE
    /\ reports = 0 /\ switches = 0

-----------------------------------------------------------------------------
Distance(a, b) == IF a > b THEN a - b ELSE b - a

(* handle_ep1: the first report only sets the mark.                        *)
Moved(raw) == knob # None /\ Distance(raw, knob) > Dead

(* The knob was turned by m since the last report.                         *)
Turned(m) ==
    /\ reports' = IF m = 0 THEN reports ELSE reports + 1
    /\ reports' <= MaxReports
    /\ pos' = pos + m

(* Mutant of ReportKnob: the mark follows every report.                    *)
ReportFollows(m) ==
    /\ Turned(m)
    /\ knob' = pos' % Rev
    /\ IF Moved(pos' % Rev)
       THEN /\ chan' = IF Room THEN Append(chan, KnobEvent(pos')) ELSE chan
            /\ lost' = ~Room
       ELSE UNCHANGED <<chan, lost>>
    /\ UNCHANGED <<engine, history, switches>>

(* The mark moves whether or not the event finds room.                     *)
ReportKnob(m) ==
    /\ Turned(m)
    /\ knob' = IF knob = None \/ Moved(pos' % Rev) THEN pos' % Rev ELSE knob
    /\ IF Moved(pos' % Rev)
       THEN /\ chan' = IF Room THEN Append(chan, KnobEvent(pos')) ELSE chan
            /\ lost' = ~Room
       ELSE UNCHANGED <<chan, lost>>
    /\ UNCHANGED <<engine, history, switches>>

(* Another event: one that has the engine switch banks, or a reload.       *)
ReportOther(e) ==
    /\ Room /\ switches < MaxSwitches
    /\ switches' = switches + 1
    /\ chan' = Append(chan, e)
    /\ UNCHANGED <<client, engine, lost, history, reports>>

-----------------------------------------------------------------------------
(* on_event: the shortest way around.                                      *)
Half == Rev \div 2

(* Mutant of Delta: no way around.                                         *)
DeltaStraight(raw) == IF prev = None THEN 0 ELSE raw - prev

Delta(raw) ==
    IF prev = None THEN 0
    ELSE LET d == raw - prev
         IN  IF d > Half THEN d - Rev ELSE IF d < -Half THEN d + Rev ELSE d

Clamp(v) == IF v < 0 THEN 0 ELSE IF v > Full THEN Full ELSE v

(* Mutants of Advanced: no rails, and rails for nobody.                    *)
AdvancedFreely(b, d) == virt[b] + d * profile[b].scale
AdvancedAround(b, d) == (virt[b] + d * profile[b].scale) % Full

(* A negative scale turns the knob around.                                 *)
Advanced(b, d) ==
    LET v == virt[b] + d * profile[b].scale
    IN  IF profile[b].wrap THEN v % Full ELSE Clamp(v)

TakeKnob ==
    /\ ~master /\ chan # <<>> /\ Head(chan).kind = "knob"
    /\ LET e == Head(chan)
       IN  /\ prev' = e.raw
           /\ virt' = [virt EXCEPT ![bank] = Advanced(bank, Delta(e.raw))]
           /\ to' = e.at
           /\ due' = IF prev # None /\ profile[bank].wrap
                     THEN [due EXCEPT ![bank] = @ + (e.at - to) * profile[bank].scale]
                     ELSE due
           /\ astray' = (astray \/ (prev # None /\ 2 * Distance(e.at, to) >= Rev))
    /\ chan' = Tail(chan)
    /\ UNCHANGED <<client, master, bank, profile, told, lost, reports, switches>>

(* A master knob: its raw position goes to the host as it is.              *)
TakeMaster ==
    /\ master /\ chan # <<>> /\ Head(chan).kind = "knob"
    /\ told' = Head(chan).raw
    /\ chan' = Tail(chan)
    /\ UNCHANGED <<client, master, bank, profile, prev, virt, lost, history, reports, switches>>

TakeOther ==
    /\ chan # <<>> /\ Head(chan).kind = "bank"
    /\ bank' = Head(chan).bank
    /\ chan' = Tail(chan)
    /\ UNCHANGED <<client, master, profile, prev, virt, told, lost, history, reports, switches>>

(* reload takes whatever the page has saved; positions and marks stay.     *)
TakeReload ==
    /\ chan # <<>> /\ Head(chan).kind = "reload"
    /\ profile' \in Profiles
    /\ due' = [b \in Banks |-> IF profile[b].wrap THEN due[b] ELSE virt[b]]
    /\ chan' = Tail(chan)
    /\ UNCHANGED <<client, master, bank, prev, virt, told, lost, to, astray, reports, switches>>

Next ==
    \/ \E m \in Moves : ReportKnob(m)
    \/ \E e \in {BankEvent(b) : b \in Banks} \cup {Reload} : ReportOther(e)
    \/ TakeKnob \/ TakeMaster \/ TakeOther \/ TakeReload

Spec == Init /\ [][Next]_vars

-----------------------------------------------------------------------------
Raws == 0 .. Rev - 1
Event ==
    [kind : {"knob"}, raw : Raws, at : Int] \cup [kind : {"bank"}, bank : Banks] \cup {Reload}

(* Every variable has its type; a virtual position stays within its range. *)
TypeOK ==
    /\ pos \in Int /\ knob \in Raws \cup {None}
    /\ chan \in Seq(Event) /\ Len(chan) <= ChanCap
    /\ master \in BOOLEAN /\ told \in Raws \cup {None}
    /\ bank \in Banks /\ profile \in Profiles
    /\ prev \in Raws \cup {None} /\ virt \in [Banks -> 0 .. Full]
    /\ lost \in BOOLEAN /\ to \in Int /\ due \in [Banks -> Int]
    /\ astray \in BOOLEAN /\ reports \in 0 .. MaxReports /\ switches \in 0 .. MaxSwitches

Underway == \E i \in DOMAIN chan : chan[i].kind = "knob"

(* Whatever was dropped before: with nothing underway and the last event   *)
(* not dropped the engine has the position against which the client thread *)
(* judges the next move (usb.rs:160), so that no turn, however slow, is    *)
(* lost in the dead band; and a master knob was passed on as it stands.    *)
EngineKnowsKnob ==
    ~Underway /\ ~lost =>
        (prev # None => prev = knob) /\ (told # None => told = knob)

(* Every step the knob is turned from one event the engine takes to the    *)
(* next ends up in the position of the bank that is active then, times its *)
(* scale, and in no other: also when the raw position passes its wrap, when*)
(* events between were dropped, the bank switched or the profile reloaded  *)
(* on the way; as long as the knob is not turned by half a revolution      *)
(* unheard (osc.rs:212).  For the banks that wrap.                         *)
TravelConserved ==
    ~astray => \A b \in Banks : profile[b].wrap => (virt[b] - due[b]) % Full = 0

(* A position with rails goes the way the knob was turned in the sense of  *)
(* its scale, and at most as far, at the rails and at the wrap of the raw  *)
(* position as elsewhere (osc.rs:234).                                     *)
MovesAsScaled ==
    [][~astray' => \A b \in Banks :
          profile[b].wrap \/ LET d == (to' - to) * profile[b].scale
                             IN  IF d >= 0
                                 THEN virt[b] <= virt'[b] /\ virt'[b] <= virt[b] + d
                                 ELSE virt[b] + d <= virt'[b] /\ virt'[b] <= virt[b]]_vars

=============================================================================
