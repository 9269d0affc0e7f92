----------------------------- MODULE ProfileSync -----------------------------
(***************************************************************************)
(* Profiles: eight slots and the number of the active one in flash         *)
(* (firmware-rs/src/profile.rs), the web server that edits and activates   *)
(* them (web.rs), and the engine that works with the copy it loaded        *)
(* (reload and set_slot of osc.rs).  The web server's thread and the       *)
(* engine's meet in the flash and in the engine's bounded event channel,   *)
(* which every pad, knob, button and OSC packet goes through as well.      *)
(*                                                                         *)
(* Each flash access is one step, so that the other thread and a power cut *)
(* come between any two.  Requests that are refused (no slot number, too   *)
(* large, not JSON) and writes that fail change nothing and are left out,  *)
(* but for the write whose failure the engine passes over.  Reads that fail*)
(* are passed over everywhere: the active slot is then taken to be 0       *)
(* (profile.rs:90-94), a profile to be the default one (osc.rs:314).       *)
(***************************************************************************)
EXTENDS Naturals, Sequences

CONSTANTS
    Slots,     \* 0 .. 7
    First,     \* the slot that is active in a new unit, 0
    ChanCap,   \* slots of the event channel: 64
    MaxSaves,  \* bound: how many profiles the page saves
    MaxOps     \* bound: how often a slot is activated

ASSUME SlotAssumption == First \in Slots
ASSUME BoundAssumption == ChanCap \in Nat \ {0} /\ MaxSaves \in Nat /\ MaxOps \in Nat

VARIABLES
    active,   \* NVS "prof"
    version,  \* NVS "p0".."p7", as the number of the save that wrote it
    saves, ops,
    web,      \* the web thread: its pc and the slot of its request
    chan,     \* the engine's event channel
    eng,      \* the engine: its pc, its slot and its copy of the profile
    dropped,  \* history: a Reload was dropped and no reload began since
    misread   \* history: a failed read misled a thread, no reload began since

flash == <<active, version>>
bounds == <<saves, ops>>
history == <<dropped, misread>>
syncVars == <<flash, bounds, web, chan, eng, history>>

Reload == [event |-> "reload"]
Other == [event |-> "other"]
Switch(s) == [event |-> "switch", slot |-> s]   \* Control + group
Event == {Reload, Other} \cup {Switch(s) : s \in Slots}

Default == 0   \* the default profile; also what a slot never written holds

(* What a read of the active slot may return: the slot, or 0 when it fails.*)
SlotRead == {active, First}

SyncInit ==
    /\ active = First /\ version = [s \in Slots |-> Default]
    /\ saves = 0 /\ ops = 0
    /\ web = [pc |-> "idle", slot |-> First]
    /\ chan = <<>> /\ dropped = FALSE /\ misread = FALSE
    /\ eng = [pc |-> "active", slot |-> First, profile |-> Default]

-----------------------------------------------------------------------------
(* The web thread: one request after another                               *)

(* POST /profile: save_json, ...                                           *)
Save(s) ==
    /\ web.pc = "idle" /\ saves < MaxSaves
    /\ saves' = saves + 1
    /\ version' = [version EXCEPT ![s] = saves + 1]
    /\ web' = [pc |-> "compare", slot |-> s]
    /\ UNCHANGED <<active, ops, chan, eng, history>>

(* ... and only then a look at which slot is active.                       *)
Compare ==
    /\ web.pc = "compare"
    /\ \E seen \in SlotRead :
        /\ web' = [web EXCEPT !.pc = IF web.slot = seen THEN "publish" ELSE "idle"]
        /\ misread' = (misread \/ (web.slot = active /\ seen # active))
    /\ UNCHANGED <<flash, bounds, chan, eng, dropped>>

(* Mutant of Activate: the engine is not told.                             *)
ActivateQuietly(s) ==
    /\ web.pc = "idle" /\ ops < MaxOps
    /\ ops' = ops + 1
    /\ active' = s
    /\ UNCHANGED <<version, saves, web, chan, eng, history>>

(* POST /activate: set_active                                              *)
Activate(s) ==
    /\ web.pc = "idle" /\ ops < MaxOps
    /\ ops' = ops + 1
    /\ active' = s
    /\ web' = [pc |-> "publish", slot |-> s]
    /\ UNCHANGED <<version, saves, chan, eng, history>>

(* publish drops the event when the channel is full; the page hears        *)
(* "saved" or "activated" either way.                                      *)
Full == Len(chan) >= ChanCap

(* Mutant of Publish: the channel has no bound.                            *)
PublishAlways ==
    /\ web.pc = "publish"
    /\ web' = [web EXCEPT !.pc = "idle"]
    /\ chan' = Append(chan, Reload)
    /\ UNCHANGED <<flash, bounds, eng, history>>

Publish ==
    /\ web.pc = "publish"
    /\ web' = [web EXCEPT !.pc = "idle"]
    /\ chan' = IF Full THEN chan ELSE Append(chan, Reload)
    /\ dropped' = (dropped \/ Full)
    /\ UNCHANGED <<flash, bounds, eng, misread>>

-----------------------------------------------------------------------------
(* The engine                                                              *)

(* The other publishers: the USB client thread and the OSC listener.       *)
Elsewhere(e) ==
    /\ ~Full
    /\ chan' = Append(chan, e)
    /\ UNCHANGED <<flash, bounds, web, eng, history>>

(* An event that does not concern profiles.                                *)
TakeOther ==
    /\ eng.pc = "idle" /\ chan # <<>> /\ Head(chan).event = "other"
    /\ chan' = Tail(chan)
    /\ UNCHANGED <<flash, bounds, web, eng, history>>

TakeReload ==
    /\ eng.pc = "idle" /\ chan # <<>> /\ Head(chan).event = "reload"
    /\ chan' = Tail(chan)
    /\ eng' = [eng EXCEPT !.pc = "active"]
    /\ UNCHANGED <<flash, bounds, web, history>>

(* Mutant of TakeSwitch: the slot is taken for active though it may not    *)
(* have been persisted.                                                    *)
TakeSwitchUnread ==
    /\ eng.pc = "idle" /\ chan # <<>> /\ Head(chan).event = "switch"
    /\ chan' = Tail(chan)
    /\ active' \in {active, Head(chan).slot}
    /\ eng' = [eng EXCEPT !.pc = "load", !.slot = Head(chan).slot]
    /\ UNCHANGED <<version, bounds, web, history>>

(* set_slot: a set_active that fails is only logged; reload in either case.*)
TakeSwitch ==
    /\ eng.pc = "idle" /\ chan # <<>> /\ Head(chan).event = "switch"
    /\ chan' = Tail(chan)
    /\ active' \in {active, Head(chan).slot}
    /\ eng' = [eng EXCEPT !.pc = "active"]
    /\ UNCHANGED <<version, bounds, web, history>>

(* reload reads which slot is active, ...                                  *)
ReadActive ==
    /\ eng.pc = "active"
    /\ \E seen \in SlotRead :
        /\ eng' = [eng EXCEPT !.pc = "load", !.slot = seen]
        /\ misread' = (seen # active)
    /\ dropped' = FALSE
    /\ UNCHANGED <<flash, bounds, web, chan>>

(* ... then that slot.                                                     *)
LoadProfile ==
    /\ eng.pc = "load"
    /\ \E read \in {version[eng.slot], Default} :
        /\ eng' = [eng EXCEPT !.pc = "idle", !.profile = read]
        /\ misread' = (misread \/ read # version[eng.slot])
    /\ UNCHANGED <<flash, bounds, web, chan, dropped>>

(* The power is cut; flash alone survives.  The engine reloads first.      *)
PowerCycle ==
    /\ web' = [pc |-> "idle", slot |-> First]
    /\ chan' = <<>> /\ dropped' = FALSE /\ misread' = FALSE
    /\ eng' = [pc |-> "active", slot |-> First, profile |-> Default]
    /\ UNCHANGED <<flash, bounds>>

WebStep == Compare \/ Publish
EngineStep == TakeOther \/ TakeReload \/ TakeSwitch \/ ReadActive \/ LoadProfile
Request == \E s \in Slots : Save(s) \/ Activate(s)

SyncNext ==
    \/ WebStep \/ EngineStep \/ Request \/ PowerCycle
    \/ \E e \in Event \ {Reload} : Elsewhere(e)

SyncSpec == SyncInit /\ [][SyncNext]_syncVars

-----------------------------------------------------------------------------
(* Every variable has its type.                                            *)
SyncTypeOK ==
    /\ active \in Slots /\ version \in [Slots -> 0 .. MaxSaves]
    /\ saves \in 0 .. MaxSaves /\ ops \in 0 .. MaxOps
    /\ web \in [pc : {"idle", "compare", "publish"}, slot : Slots]
    /\ chan \in Seq(Event) /\ Len(chan) <= ChanCap
    /\ eng \in [pc : {"idle", "active", "load"}, slot : Slots, profile : 0 .. MaxSaves]
    /\ dropped \in BOOLEAN /\ misread \in BOOLEAN

(* A reload that is on its way to the engine.                              *)
Pending == web.pc = "publish" \/ \E i \in DOMAIN chan : chan[i] = Reload

(* Once the page's request is answered and no reload is on its way, the    *)
(* engine works with the profile that flash has as active, in the version  *)
(* that was saved last: whatever the page saves or activates while the unit*)
(* itself switches profiles, and wherever the power is cut; unless a Reload*)
(* was dropped, or a read failed and its outcome stands (web.rs:121 and    *)
(* 145, osc.rs:305 and 312).  The next reload that reads flash well ends   *)
(* either exception.                                                       *)
EngineFollowsFlash ==
    web.pc = "idle" /\ eng.pc = "idle" /\ ~Pending /\ ~dropped /\ ~misread
        => eng.slot = active /\ eng.profile = version[active]

(* The threads run, and so does the power most of the time.                *)
Fairness == WF_syncVars(WebStep) /\ WF_syncVars(EngineStep)
FairSpec == SyncSpec /\ Fairness

(* A slot the page activated becomes the engine's, or another one is       *)
(* activated, or the Reload is dropped, or the read that follows it fails: *)
(* the engine works through whatever else is in its channel (osc.rs:457).  *)
ActivatedOrDropped ==
    \A s \in Slots : active = s ~> (eng.slot = s \/ active # s \/ dropped \/ misread)

=============================================================================
