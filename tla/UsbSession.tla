---------------------------- MODULE UsbSession ------------------------------
(***************************************************************************)
(* The USB session of the bridge (firmware-rs/src/usb.rs): the client      *)
(* thread with its callbacks, the LED state it shares with nobody, the LED *)
(* channel it drains, the display thread that feeds that channel, and the  *)
(* controller at the other end of the cable.                               *)
(*                                                                         *)
(* Every callback runs inside usb_host_client_handle_events, so it is one  *)
(* atomic action, enabled at pc = "events".  Between two rounds of         *)
(* callbacks the client loop drains the LED channel one message at a time  *)
(* (other threads send meanwhile) and looks for a new device.  The cable   *)
(* may be pulled between any two steps.                                    *)
(*                                                                         *)
(* The LED-relevant part of every handler is complete; what the input      *)
(* reports make the OSC side do is left out here.                          *)
(***************************************************************************)
EXTENDS Ep1Ops

CONSTANTS
    Pads,         \* pad LEDs, all in the low bank
    Softkeys,     \* the other LEDs of the low bank
    Backlight,    \* the LED of the high bank
    MaxLevel,     \* MAX_BRIGHTNESS, 63
    BacklightOn,  \* 0x2e
    Levels,       \* brightnesses the OSC side asks for
    Pressures,    \* raw pressures of a pad report
    FlushLimit,   \* depth at which led_flush gives up: 6
    LedCap,       \* slots of the LED channel: 64
    MaxPlugs,     \* bound: how often the cable is plugged in
    MaxFaults     \* bound: callbacks in which a submit or claim fails though
                  \* the device is there

Leds == Pads \cup Softkeys \cup {Backlight}
Banks == {"low", "high"}
BankOf(l) == IF l = Backlight THEN "high" ELSE "low"
Bank(b) == {l \in Leds : BankOf(l) = b}

ASSUME LevelAssumption ==
    /\ MaxLevel \in Nat
    /\ BacklightOn \in 0 .. MaxLevel
    /\ Levels \subseteq Nat
    /\ Pressures \subseteq Nat

ASSUME LedAssumption == Pads \cap Softkeys = {} /\ Backlight \notin Pads \cup Softkeys

(* led_flush leaves room for both of its frames.                           *)
ASSUME FlushAssumption == FlushLimit \in Nat /\ FlushLimit + 2 <= QCap

ASSUME BoundAssumption == LedCap \in Nat \ {0} /\ MaxPlugs \in Nat /\ MaxFaults \in Nat

VARIABLES
    \* the cable and the controller
    port,       \* what is plugged in: "none", "mk1", "other"
    plugs,      \* how often something was
    devLeds,    \* what the controller shows
    asked,      \* it was sent GET_DEVICE_INFO since it has power
    painted,    \* history: the banks it was sent a frame for since then
    replies,    \* its answers EP1 IN has not fetched yet
    \* the transfers
    q,          \* EP1 OUT and its ring
    ack,        \* the command on EP1 OUT was taken by the controller
    ctrl,       \* "idle", "sub"mitted
    ep1in,      \* "idle", "sub", "reply" (a DeviceInfo awaits its callback)
    ep4in,      \* "idle", "sub"
    \* usb.rs
    evt,        \* client event that awaits its callback: "none", "new", "gone"
    newAddr,    \* NEW_ADDR # 0
    dev,        \* DEV is not null
    sessionUp,  \* SESSION_UP
    leds, dirty,\* SESSION.leds
    base,       \* SESSION.pad_led_base
    touched,    \* SESSION.pad_touched
    ledq,       \* the LED channel
    any,        \* local of the client loop
    pc,         \* where the client thread is
    disp,       \* where the display thread is: "wait", "test", "assert"
    faults      \* bounded by MaxFaults

cable == <<port, plugs>>
device == <<devLeds, asked, painted, replies>>
inputs == <<ctrl, ep1in, ep4in>>
transfers == <<q, ack, inputs>>
ledState == <<leds, dirty, base, touched>>
client == <<evt, newAddr, dev, sessionUp>>
loop == <<any, pc>>
vars == <<cable, device, transfers, client, ledState, ledq, loop, disp, faults>>

-----------------------------------------------------------------------------
(* Commands on EP1 OUT                                                     *)

GetDeviceInfo == [cmd |-> "device_info"]
AutoMsg == [cmd |-> "auto_msg"]
Frame(b, st) == [cmd |-> "dimm_leds", bank |-> b, vals |-> [l \in Bank(b) |-> st[l]]]

Frames == {Frame(b, st) : b \in Banks, st \in [Leds -> 0 .. MaxLevel]}
Command == {GetDeviceInfo, AutoMsg} \cup Frames

ASSUME NoMsgAssumption == NoMsg \notin Command

(* What the submits of one handler may answer: an error for a device that  *)
(* is gone, success for one that is there unless a fault strikes.          *)
Present == port = "mk1" /\ dev
Outcomes(S) ==
    {r \in [S -> BOOLEAN] :
        IF Present THEN faults < MaxFaults \/ \A s \in S : r[s] ELSE \A s \in S : ~r[s]}
CountFaults(r) ==
    faults' = IF Present /\ \E s \in DOMAIN r : ~r[s] THEN faults + 1 ELSE faults

(* A transfer that is still in flight cannot be submitted again.           *)
Submitted(t, ok) == IF t = "idle" /\ ok THEN "sub" ELSE t
Resubmit(ok) == IF dev /\ ok THEN "sub" ELSE "idle"

(* LedState::set for the LEDs want names: a brightness that does not change*)
(* an LED does not dirty its bank.                                         *)
Clamp(v) == IF v > MaxLevel THEN MaxLevel ELSE v
Set(want) == [l \in Leds |-> IF l \in DOMAIN want THEN Clamp(want[l]) ELSE leds[l]]
DirtyBy(want) == dirty \cup {b \in Banks : \E l \in Bank(b) : Set(want)[l] # leds[l]}

(* led_flush on queue fq, LEDs st and dirty banks d: skip when the queue is*)
(* backed up, else frames() clears both flags and each frame is sent.      *)
Flushes(fq) == Len(fq.pend) < FlushLimit
SendFrame(fq, st, d, b, r) == IF b \in d THEN Send(fq, Frame(b, st), r[b]) ELSE fq
FlushQueue(fq, st, d, r) ==
    IF Flushes(fq)
    THEN SendFrame(SendFrame(fq, st, d, "low", r), st, d, "high", r)
    ELSE fq

(* Mutant of FlushDirty: the flags are cleared before the flush gives up.  *)
FlushForgets(fq, d) == {}

FlushDirty(fq, d) == IF Flushes(fq) THEN {} ELSE d

(* What the handlers that light LEDs share: set, then flush.               *)
SetAndFlush(want, fq, r) ==
    /\ leds' = Set(want)
    /\ dirty' = FlushDirty(fq, DirtyBy(want))
    /\ q' = FlushQueue(fq, Set(want), DirtyBy(want), r)

-----------------------------------------------------------------------------
Dark == [l \in Leds |-> 0]

Init ==
    /\ port = "none" /\ plugs = 0 /\ evt = "none" /\ faults = 0
    /\ devLeds = Dark /\ asked = FALSE /\ painted = {} /\ replies = 0
    /\ q = EmptyQueue /\ ack = FALSE
    /\ ctrl = "idle" /\ ep1in = "idle" /\ ep4in = "idle"
    /\ newAddr = FALSE /\ dev = FALSE /\ sessionUp = FALSE
    /\ leds = Dark /\ dirty = Banks
    /\ base = [p \in Pads |-> 0] /\ touched = [p \in Pads |-> FALSE]
    /\ ledq = <<>> /\ any = FALSE /\ pc = "events" /\ disp = "wait"

-----------------------------------------------------------------------------
(* The cable and the controller                                            *)

(* The host library enumerates a new device once the old one was closed.   *)
PlugIn(kind) ==
    /\ port = "none" /\ plugs < MaxPlugs
    /\ ~dev /\ evt = "none" /\ ~newAddr
    /\ port' = kind /\ plugs' = plugs + 1
    /\ evt' = "new"
    /\ UNCHANGED <<device, transfers, newAddr, dev, sessionUp, ledState, ledq, loop, disp, faults>>

(* Only a client that has the device open hears that it is gone.           *)
Unplug ==
    /\ port # "none"
    /\ port' = "none"
    /\ devLeds' = Dark /\ asked' = FALSE /\ painted' = {} /\ replies' = 0
    /\ evt' = IF dev THEN "gone" ELSE evt
    /\ UNCHANGED <<plugs, transfers, newAddr, dev, sessionUp, ledState, ledq, loop, disp, faults>>

(* The controller takes the command on EP1 OUT.                            *)
DeviceTakes ==
    /\ port = "mk1" /\ q.fly # NoMsg /\ ~ack
    /\ ack' = TRUE
    /\ \/ /\ q.fly = GetDeviceInfo
          /\ asked' = TRUE /\ replies' = replies + 1
          /\ UNCHANGED <<devLeds, painted>>
       \/ /\ q.fly = AutoMsg
          /\ UNCHANGED device
       \/ /\ q.fly \notin {GetDeviceInfo, AutoMsg}
          /\ devLeds' = [l \in Leds |-> IF l \in Bank(q.fly.bank)
                                        THEN q.fly.vals[l] ELSE devLeds[l]]
          /\ painted' = painted \cup {q.fly.bank}
          /\ UNCHANGED <<asked, replies>>
    /\ UNCHANGED <<cable, q, inputs, client, ledState, ledq, loop, disp, faults>>

DeviceReplies ==
    /\ port = "mk1" /\ replies > 0 /\ ep1in = "sub"
    /\ replies' = replies - 1
    /\ ep1in' = "reply"
    /\ UNCHANGED <<cable, devLeds, asked, painted, q, ack, ctrl, ep4in, client, ledState, ledq, loop,
                   disp, faults>>

-----------------------------------------------------------------------------
(* Callbacks, dispatched by the client thread                              *)

(* ep1_out_cb looks at no status: the command was taken, or the device left*)
(* with it, or the transfer failed.                                        *)
Ep1OutCb ==
    /\ pc = "events" /\ q.fly # NoMsg
    /\ \E r \in Outcomes({"sent", "cmd"}) :
        /\ Present => r["sent"] = ack
        /\ q' = Done(q, r["cmd"])
        /\ CountFaults(r)
    /\ ack' = FALSE
    /\ UNCHANGED <<cable, device, inputs, client, ledState, ledq, loop, disp>>

(* ctrl_cb looks at no status either.                                      *)
CtrlCb ==
    /\ pc = "events" /\ ctrl = "sub"
    /\ ctrl' = "idle"
    /\ \E r \in Outcomes({"in", "cmd"}) :
        /\ ep1in' = Submitted(ep1in, r["in"])
        /\ q' = Send(q, GetDeviceInfo, r["cmd"])
        /\ CountFaults(r)
    /\ UNCHANGED <<cable, device, ack, ep4in, client, ledState, ledq, loop, disp>>

(* ep1_in_cb with the answer to GET_DEVICE_INFO: enable the input streams, *)
(* light the backlight, flush, read the pads, and the session is up.       *)
Ep1Hello ==
    /\ pc = "events" /\ ep1in = "reply"
    /\ \E r \in Outcomes({"cmd", "pads", "in"} \cup Banks) :
        /\ SetAndFlush([l \in {Backlight} |-> BacklightOn], Send(q, AutoMsg, r["cmd"]), r)
        /\ ep4in' = Submitted(ep4in, r["pads"])
        /\ ep1in' = Resubmit(r["in"])
        /\ CountFaults(r)
    /\ sessionUp' = TRUE
    /\ UNCHANGED <<cable, device, ack, ctrl, evt, newAddr, dev, base, touched, ledq, loop, disp>>

(* ep1_in_cb with any other report, or with a status other than completed. *)
Ep1Other ==
    /\ pc = "events" /\ ep1in = "sub"
    /\ \E r \in Outcomes({"in"}) : ep1in' = Resubmit(r["in"]) /\ CountFaults(r)
    /\ UNCHANGED <<cable, device, q, ack, ctrl, ep4in, client, ledState, ledq, loop, disp>>

(* ep4_in_cb: a report carries the pressure of every pad.  A pressed pad   *)
(* echoes its pressure, a released one shows its base brightness again.    *)
Deadzone(p) == IF p < 6 THEN 0 ELSE p

(* Mutant of Echo: a released pad goes dark.                               *)
EchoForgets(pad, p) == Deadzone(p) \div 64

Echo(pad, p) == IF Deadzone(p) > 0 THEN p \div 64 ELSE base[pad]

Ep4Report ==
    /\ pc = "events" /\ ep4in = "sub"
    /\ \E rep \in [Pads -> Pressures], r \in Outcomes({"in"} \cup Banks) :
        /\ touched' = [p \in Pads |-> Deadzone(rep[p]) > 0]
        /\ SetAndFlush([p \in Pads |-> Echo(p, rep[p])], q, r)
        /\ ep4in' = Resubmit(r["in"])
        /\ CountFaults(r)
    /\ UNCHANGED <<cable, device, ack, ctrl, ep1in, client, base, ledq, loop, disp>>

(* ep4_in_cb with a status other than completed.                           *)
Ep4Other ==
    /\ pc = "events" /\ ep4in = "sub"
    /\ \E r \in Outcomes({"in"}) : ep4in' = Resubmit(r["in"]) /\ CountFaults(r)
    /\ UNCHANGED <<cable, device, q, ack, ctrl, ep1in, client, ledState, ledq, loop, disp>>

(* client_cb, NEW_DEV                                                      *)
NewDev ==
    /\ pc = "events" /\ evt = "new"
    /\ evt' = "none" /\ newAddr' = TRUE
    /\ UNCHANGED <<cable, device, transfers, dev, sessionUp, ledState, ledq, loop, disp, faults>>

(* Mutant of DevGone: SESSION_UP is left as it is.                         *)
DevGoneKeepsSession ==
    /\ pc = "events" /\ evt = "gone"
    /\ q.fly = NoMsg /\ ctrl = "idle" /\ ep1in = "idle" /\ ep4in = "idle"
    /\ evt' = "none"
    /\ dev' = FALSE
    /\ UNCHANGED <<cable, device, transfers, newAddr, sessionUp, ledState, ledq, loop, disp, faults>>

(* Mutant of DevGone: DEV is closed but not nulled.                        *)
DevGoneKeepsDev ==
    /\ pc = "events" /\ evt = "gone"
    /\ q.fly = NoMsg /\ ctrl = "idle" /\ ep1in = "idle" /\ ep4in = "idle"
    /\ evt' = "none"
    /\ sessionUp' = FALSE
    /\ UNCHANGED <<cable, device, transfers, newAddr, dev, ledState, ledq, loop, disp, faults>>

(* client_cb, DEV_GONE: the host library gave back every transfer before.  *)
(* Neither the ring nor SESSION is reset.                                  *)
DevGone ==
    /\ pc = "events" /\ evt = "gone"
    /\ q.fly = NoMsg /\ ctrl = "idle" /\ ep1in = "idle" /\ ep4in = "idle"
    /\ evt' = "none"
    /\ sessionUp' = FALSE /\ dev' = FALSE
    /\ UNCHANGED <<cable, device, transfers, newAddr, ledState, ledq, loop, disp, faults>>

-----------------------------------------------------------------------------
(* The rest of the client loop                                             *)

Tick ==
    /\ pc = "events"
    /\ pc' = IF sessionUp THEN "drain" ELSE "swap"
    /\ any' = FALSE
    /\ UNCHANGED <<cable, device, transfers, client, ledState, ledq, disp, faults>>

(* A write to a pad that is held is remembered and shown on release.       *)
DrainOne ==
    /\ pc = "drain" /\ ledq # <<>>
    /\ LET m == Head(ledq)
           shown == IF m.led \in Pads THEN ~touched[m.led] ELSE TRUE
           want == [l \in (IF shown THEN {m.led} ELSE {}) |-> m.level]
       IN  /\ base' = [p \in Pads |-> IF p = m.led THEN m.level ELSE base[p]]
           /\ leds' = Set(want) /\ dirty' = DirtyBy(want)
    /\ any' = TRUE
    /\ ledq' = Tail(ledq)
    /\ UNCHANGED <<cable, device, transfers, client, touched, pc, disp, faults>>

(* Mutant of DrainEnd: the loop does not flush what it drained.            *)
DrainEndQuietly ==
    /\ pc = "drain" /\ ledq = <<>>
    /\ pc' = "swap"
    /\ UNCHANGED <<cable, device, transfers, client, ledState, ledq, any, disp, faults>>

DrainEnd ==
    /\ pc = "drain" /\ ledq = <<>>
    /\ pc' = "swap"
    /\ \E r \in Outcomes(Banks) :
        IF any
        THEN SetAndFlush(<<>>, q, r) /\ CountFaults(r)
        ELSE UNCHANGED <<leds, dirty, q, faults>>
    /\ UNCHANGED <<cable, device, ack, inputs, client, base, touched, ledq, any, disp>>

(* The address is consumed whether or not it can be used: an open that     *)
(* fails is not tried again.                                               *)
TakeAddr ==
    /\ pc = "swap"
    /\ newAddr' = FALSE
    /\ \E opened \in BOOLEAN :
        LET found == newAddr /\ ~dev /\ port = "mk1"
        IN  /\ found /\ ~opened => faults < MaxFaults
            /\ dev' = (dev \/ (found /\ opened))
            /\ pc' = IF found /\ opened THEN "claim" ELSE "events"
            /\ faults' = IF found /\ ~opened THEN faults + 1 ELSE faults
    /\ UNCHANGED <<cable, device, transfers, evt, sessionUp, ledState, ledq, any, disp>>

(* attach, in the steps between which the cable can be pulled: the claims, *)
(* whose failure leaves DEV open without a session, ...                    *)
Claim ==
    /\ pc = "claim"
    /\ \E r \in Outcomes({"claim"}) :
        /\ pc' = IF r["claim"] THEN "submit" ELSE "events"
        /\ CountFaults(r)
    /\ UNCHANGED <<cable, device, transfers, client, ledState, ledq, any, disp>>

(* ... and SET_INTERFACE, whose result is unwrapped.                       *)
SetInterface ==
    /\ pc = "submit"
    /\ \E r \in Outcomes({"ctrl"}) :
        /\ ctrl' = Submitted(ctrl, r["ctrl"])
        /\ pc' = IF r["ctrl"] THEN "events" ELSE "panic"
        /\ CountFaults(r)
    /\ UNCHANGED <<cable, device, q, ack, ep1in, ep4in, client, ledState, ledq, any, disp>>

(* A panic aborts and the board restarts with the statics as they were     *)
(* initialised; the host library finds what is plugged in.                 *)
Reboot ==
    /\ pc = "panic"
    /\ q' = EmptyQueue /\ ack' = FALSE
    /\ ctrl' = "idle" /\ ep1in' = "idle" /\ ep4in' = "idle"
    /\ newAddr' = FALSE /\ dev' = FALSE /\ sessionUp' = FALSE
    /\ leds' = Dark /\ dirty' = Banks
    /\ base' = [p \in Pads |-> 0] /\ touched' = [p \in Pads |-> FALSE]
    /\ ledq' = <<>> /\ any' = FALSE /\ pc' = "events" /\ disp' = "wait"
    /\ evt' = IF port = "none" THEN "none" ELSE "new"
    /\ asked' = FALSE /\ replies' = 0
    /\ UNCHANGED <<cable, devLeds, painted, faults>>

-----------------------------------------------------------------------------
(* The other threads                                                       *)

(* Mutant of TrySend: the channel has no bound.                            *)
SendAlways(l, v) == ledq' = Append(ledq, [led |-> l, level |-> v])

(* try_send: a full channel drops the write.                               *)
TrySend(l, v) ==
    ledq' = IF Len(ledq) < LedCap THEN Append(ledq, [led |-> l, level |-> v]) ELSE ledq

(* The OSC engine sends the client a brightness.                           *)
LedWrite(l, v) ==
    /\ TrySend(l, v)
    /\ UNCHANGED <<cable, device, transfers, client, ledState, loop, disp, faults>>

(* The display thread: wait for the session, draw the test pictures, then  *)
(* reassert the backlight until it sees the session down.                  *)
DispWake ==
    /\ disp = "wait" /\ sessionUp
    /\ disp' = "test"
    /\ UNCHANGED <<cable, device, transfers, client, ledState, ledq, loop, faults>>

DispTested ==
    /\ disp = "test"
    /\ disp' = "assert"
    /\ UNCHANGED <<cable, device, transfers, client, ledState, ledq, loop, faults>>

DispAssert ==
    /\ disp = "assert" /\ sessionUp
    /\ TrySend(Backlight, BacklightOn)
    /\ UNCHANGED <<cable, device, transfers, client, ledState, loop, disp, faults>>

DispQuit ==
    /\ disp = "assert" /\ ~sessionUp
    /\ disp' = "wait"
    /\ UNCHANGED <<cable, device, transfers, client, ledState, ledq, loop, faults>>

-----------------------------------------------------------------------------
Callback == Ep1OutCb \/ CtrlCb \/ Ep1Hello \/ Ep1Other \/ Ep4Report \/ Ep4Other \/ NewDev \/ DevGone
ClientLoop == Tick \/ DrainOne \/ DrainEnd \/ TakeAddr \/ Claim \/ SetInterface \/ Reboot
Display == DispWake \/ DispTested \/ DispAssert \/ DispQuit
Engine == \E l \in Leds, v \in Levels : LedWrite(l, v)
Controller == DeviceTakes \/ DeviceReplies
Cable == Unplug \/ \E kind \in {"mk1", "other"} : PlugIn(kind)

Next == Callback \/ ClientLoop \/ Display \/ Engine \/ Controller \/ Cable

Spec == Init /\ [][Next]_vars

-----------------------------------------------------------------------------
(* Safety                                                                  *)

LedMsg == [led : Leds, level : Levels \cup {BacklightOn}]

(* Every variable has its type and the counters stay within their bounds.  *)
TypeOK ==
    /\ port \in {"none", "mk1", "other"} /\ plugs \in 0 .. MaxPlugs
    /\ devLeds \in [Leds -> 0 .. MaxLevel] /\ asked \in BOOLEAN /\ painted \subseteq Banks
    /\ replies \in Nat
    /\ q \in QueueOf(Command) /\ ack \in BOOLEAN
    /\ ctrl \in {"idle", "sub"} /\ ep1in \in {"idle", "sub", "reply"}
    /\ ep4in \in {"idle", "sub"}
    /\ evt \in {"none", "new", "gone"} /\ newAddr \in BOOLEAN
    /\ dev \in BOOLEAN /\ sessionUp \in BOOLEAN
    /\ leds \in [Leds -> 0 .. MaxLevel] /\ dirty \subseteq Banks
    /\ base \in [Pads -> Levels \cup {0, BacklightOn}] /\ touched \in [Pads -> BOOLEAN]
    /\ ledq \in Seq(LedMsg)
    /\ Len(ledq) <= LedCap
    /\ any \in BOOLEAN /\ pc \in {"events", "drain", "swap", "claim", "submit", "panic"}
    /\ disp \in {"wait", "test", "assert"} /\ faults \in 0 .. MaxFaults

(* Commands the controller has not taken yet, oldest first.                *)
Underway == (IF q.fly # NoMsg /\ ~ack THEN <<q.fly>> ELSE <<>>) \o q.pend
FramesUnderway(b) ==
    {i \in DOMAIN Underway : Underway[i].cmd = "dimm_leds" /\ Underway[i].bank = b}

(* The controller shows the bank as SESSION.leds has it, or will once the  *)
(* last frame underway for it arrives.                                     *)
Settled(b) ==
    \/ FramesUnderway(b) = {} /\ \A l \in Bank(b) : devLeds[l] = leds[l]
    \/ \E i \in FramesUnderway(b) :
          Underway[i] = Frame(b, leds) /\ \A j \in FramesUnderway(b) : j <= i

(* However pad reports, LED writes, skipped flushes, transfer callbacks and*)
(* replugs interleave, a bank that is not dirty has its latest state on the*)
(* way or shown: frames() clears the flag of a frame that is then never    *)
(* dropped, reordered or built from a stale state (led_flush, usb.rs:113), *)
(* and what an earlier session left in the ring is followed by what came   *)
(* later.  The exception is a bank the controller was sent nothing for     *)
(* since it has power: its flag may have been cleared for the controller   *)
(* before it.  Without a failed transfer.                                  *)
Untouched(b) == b \notin painted /\ FramesUnderway(b) = {}
LedsInSync ==
    port = "mk1" /\ faults = 0 => \A b \in Banks \ dirty : Settled(b) \/ Untouched(b)

(* Once the controller has taken what was sent, each of its pads at rest   *)
(* shows the brightness the host last gave it, also when the host wrote it *)
(* while the pad was held or while no controller was there to show it      *)
(* (ep4_in_cb and the drain loop, usb.rs:184 and 505).  A controller that  *)
(* was sent no pads since it has power stays dark: see LedsInSync.         *)
PadsTaken ==
    port = "mk1" /\ faults = 0 /\ "low" \notin dirty /\ "low" \in painted
        /\ FramesUnderway("low") = {}
RestingPadShowsBase ==
    PadsTaken => \A p \in Pads : ~touched[p] => devLeds[p] = Clamp(base[p])

(* The two commands that open a session find room in the ring, whatever an *)
(* earlier session left in it and however often the cable was pulled: with *)
(* either one dropped (ep1_send, usb.rs:102) the session would never come  *)
(* up, for nothing sends it again.                                         *)
RoomForHandshake ==
    /\ ctrl = "sub" => Len(q.pend) < QCap
    /\ ep1in = "reply" /\ ~sessionUp => Len(q.pend) < QCap

(* SESSION_UP is only ever raised for an open device that was asked and has*)
(* answered, or that left after answering and whose departure the client is*)
(* about to hear of (handle_ep1 and client_cb, usb.rs:154 and 241): a      *)
(* session never outlives its device into the next one.                    *)
SessionBelongsToDevice ==
    sessionUp => dev /\ (asked \/ evt = "gone") /\ (port = "mk1" \/ evt = "gone")

-----------------------------------------------------------------------------
(* Refinement                                                              *)

Life == INSTANCE SessionLife
        WITH port <- port = "mk1", gone <- evt = "gone", up <- sessionUp

(* However the cable is pulled, transfers fail and the board restarts, the *)
(* client thread opens a device only when the one before is closed and its *)
(* session over, raises SESSION_UP only for an open one, lowers it with the*)
(* departure, and panics in no session (client_cb, the address swap and    *)
(* attach, usb.rs:235, 525, 367): what Display assumes of it.              *)
ImplementsLife == Life!Spec

-----------------------------------------------------------------------------
(* Liveness                                                                *)

(* The client thread runs, and each handle_events dispatches the callbacks *)
(* that wait: strong fairness for those, as the loop leaves pc = "events"  *)
(* in every round, and for the end of the drain, whose loop is faster than *)
(* the writers.  The display thread runs, its test ends (every EP 0x08     *)
(* write times out), a controller that is there takes and answers commands.*)
(* Nobody has to touch a pad, write an LED or move the cable.              *)
Fairness ==
    /\ SF_vars(Ep1OutCb) /\ SF_vars(CtrlCb) /\ SF_vars(Ep1Hello)
    /\ SF_vars(Ep1Other) /\ SF_vars(Ep4Other) /\ SF_vars(NewDev) /\ SF_vars(DevGone)
    /\ SF_vars(DrainEnd)
    /\ WF_vars(Tick) /\ WF_vars(DrainOne) /\ WF_vars(TakeAddr) /\ WF_vars(Claim)
    /\ WF_vars(SetInterface) /\ WF_vars(Reboot)
    /\ WF_vars(DispWake) /\ WF_vars(DispTested) /\ WF_vars(DispAssert) /\ WF_vars(DispQuit)
    /\ WF_vars(DeviceTakes) /\ WF_vars(DeviceReplies)

FairSpec == Spec /\ Fairness

(* A controller that stays plugged in gets a session, also after the cable *)
(* was pulled at any point of an earlier attach or session.                *)
SessionComesUp == port = "mk1" ~> (sessionUp \/ port # "mk1")

(* While a session lasts no bank stays dirty for ever: a flush that was    *)
(* skipped because the ring was backed up is made up for by a later one    *)
(* (led_flush, usb.rs:114: "skip and let the next event flush the latest").*)
(* The 2 s reassert of the display thread is what guarantees a next event. *)
DirtyIsFlushed ==
    \A b \in Banks : (sessionUp /\ b \in dirty) ~> (b \notin dirty \/ ~sessionUp)

-----------------------------------------------------------------------------
(* What comments and docs say of the program and it does not do            *)

(* usb.rs:472: "Reassert every 2s for the life of the session; a stray EP1 *)
(* message that often is free": in a session that lasts, a frame for the   *)
(* bank of the backlight goes out again and again.                         *)
ReassertReachesWire ==
    <>[](sessionUp /\ disp = "assert") => []<>(q.fly \in {m \in Frames : m.bank = "high"})

=============================================================================
