# Verification of maschine-mk1

TLA+ models of the Maschine Mk1 bridge firmware (`firmware-rs/` with
`crates/mk1-protocol/`), their TLC configurations, and TLAPS proofs.  Paths are
relative to the repository (`src/`).

Run from this directory:

    tlc -config MCUsbSession.cfg MCUsbSession     # any MC*.cfg; PROJECT.json names its module
    tlapm UsbSession_proofs.tla                   # any *_proofs module

## 1. The system

The firmware runs on an ESP32-S3 between a Native Instruments Maschine Mk1 (USB)
and a host (OSC over WiFi).

| Part | Code | State | Operations | Talks to |
|---|---|---|---|---|
| EP1 command queue | `usb.rs` 40–130 | ring of 8 commands, head and tail as `u8`, busy flag | send, pump, OUT callback | controller |
| USB session | `usb.rs` 132–248, 270–368, 499–545 | DEV, NEW_ADDR, SESSION_UP, SESSION (LEDs, pads, buttons, knobs) | client loop, seven callbacks, attach | queue, controller, LED and event channels |
| LED state | `leds.rs` | 64 brightnesses, a dirty flag per bank | set, frames | USB session |
| Display thread | `usb.rs` 371–414, 456–477, `display.rs` | EP 0x08 transfer, completion channel | draw a test picture per session, reassert the backlight every 2 s | controller, LED channel |
| OSC engine, inputs | `osc.rs` 196–285 | bank, slot, Shift, Control, virtual knob positions | one handler per event | host, LED channel |
| OSC engine, LEDs | `osc.rs` 287–413 | banked LED memory | paint, set_bank, apply_led, reload | LED channel, flash |
| OSC listener | `osc.rs` 465–491 | — | parse, answer ping, publish | event channel |
| Profiles | `profile.rs`, `web.rs` | eight profiles and the active slot in NVS flash | save, activate, load | engine (Reload event) |
| Codecs | `lib.rs`, `input.rs`, `leds.rs`, `display.rs`; in `osc.rs`, `portal.rs`, `mk1-bridge` | — | reports, LED frames, pixels and picture messages, OSC packets and names, forms, DNS | all of the above |
| Boot and portal | `main.rs`, `config.rs`, `portal.rs` | WiFi and target config in NVS | boot decision, save and reboot | everything |
| Linux bridge | `mk1-bridge/src/main.rs` | LED state behind a mutex | reader, pads and OSC threads | controller, host |

Two bounded channels join the threads, both of 64 messages and both written with
`try_send`, which **drops** what does not fit: the LED channel (engine and display
thread → client thread) and the event channel (client thread, OSC listener and web
server → engine).  Flash joins the web server and the engine.

### What is hard

* All USB callbacks and the client loop share one thread, but the cable can be pulled
  between any two of their steps, transfers fail, and nothing of the ring or of SESSION
  is reset between one device and the next.
* LED changes coalesce: dirty flags are cleared when frames are *built*, the ring may
  be backed up, and `led_flush` then gives up without a timer that tries again.
* Dropped messages are never sent again.
* Banks, profiles and modifiers are interpreted when the engine takes an event, not
  when the control was moved.
* The web server and the engine access flash in several steps each.
* The display thread and the client thread share a transfer, its buffer and a channel of
  one completion; nothing tells one write's completion from another's, a write is given up
  after two seconds while its transfer stays in flight, and a replug swaps the transfer.

What makes each part correct is stated in section 3; `PROJECT.json` lists each
hazard at its line with the properties that cover it.

## 2. Modules

| Module | Models | Proofs |
|---|---|---|
| `Ep1Ops` | queue operations on a value: `Pump`, `Send`, `Done` | |
| `Ep1Fifo` | abstract specification: a bounded FIFO with one command on the transfer | |
| `Ep1Queue` | the ring as written, with wrapping counters; implements `Ep1Fifo` | `Ep1Queue_proofs` |
| `UsbSession` | client thread, callbacks, attach, LED state, display thread, controller, cable; uses `Ep1Ops` | `UsbSession_proofs` |
| `SessionLife` | abstract specification: a device opened and lost, its session, and when the display thread draws; implemented by `UsbSession` and by `Display` | |
| `LedPaint` | LED side of the engine, the LED channel | `LedPaint_proofs` |
| `ProfileSync` | flash, web server, engine's reload | `Flash_proofs` |
| `InputPath` | pads and buttons from report to host | `InputPath_proofs` |
| `KnobPath` | one endless knob, of a bank or master, from report to host | `KnobPath_proofs` |
| `Display` | display thread, EP 0x08 transfer and completion channel, replug; uses `PanelOps` | `Display_proofs` |
| `PanelOps` | pixels and picture messages (`display.rs`) | |
| `InputOps` | reports, EP1 messages, pad numbers, LED places and frames (`lib.rs`, `input.rs`, `leds.rs`) | |
| `TextOps` | OSC packets and names, form, DNS reply (`osc.rs`, `portal.rs`, `mk1-bridge`) | |
| `Codec` | calls every operator of the last three and holds the result against a reference | |
| `Boot` | boot decision, configuration in flash, the portal's save and restart, power cuts | `Flash_proofs` |
| `Bridge` | the Linux bridge: three threads, LED mutex, retried writes | `Bridge_proofs` |

`Flash_proofs` holds the proofs of both modules about what flash keeps; `ProfileSync` says
`SyncInit`, `SyncTypeOK`, ... for it to extend both.

`MC<module>` instantiates a module for TLC.  Operators marked "Mutant of ..." are
variants of the definition they precede, with a plausible bug; no specification uses
them.  Each was put in place of its original to see the property named in
`PROJECT.json` fail.

The composition is by the channels: `UsbSession` takes any LED write (what `LedPaint`
sends), `LedPaint` takes any event in any order (what `InputPath` publishes), and
`ProfileSync` reduces all events that do not concern profiles to one.  So each module
over-approximates its neighbours, and `Ep1Queue`'s refinement of `Ep1Fifo`, whose steps
are the operators of `Ep1Ops`, is what entitles `UsbSession` to a plain sequence for
the ring.  `UsbSession` and `Display` split the two threads that meet in SESSION_UP and DEV:
each has one of them in every step and the other in a few.  Both implement `SessionLife`, so
that the three places `UsbSession` has of the display thread, and the attaches, sessions and
departures `Display` has of the client thread, are those of the other module.  (A panicking
attach restarts the board and with it `Display`, which has no step for it.)  `Boot` is the
time before and beside all of them: it ends where the engine
starts.  `Bridge` is a program of its own, an alternative to the firmware that shares
`leds.rs` and `input.rs` with it.

### State and actions

**Ep1Queue.** `buf` is `q.buf` with `q.len`, `head`, `tail` and `busy` the fields of
`TxQueue`, `xfer` the transfer's data buffer.  A submit succeeds or fails (`ok`).

**UsbSession.** Atomicity follows the code's threads: every callback runs inside
`usb_host_client_handle_events` on the client thread, so one callback is one action
(with every call it makes: an `Ep1Hello` sends, sets the backlight, flushes, submits
both IN transfers and raises SESSION_UP).  The client loop is split where another thread
or the cable can come between: each LED message it drains, the flush, the address
swap with open (which may fail), the claims, SET_INTERFACE.  `Outcomes` is what the submits of one
handler may answer.  `PlugIn`, `Unplug`, `DeviceTakes` and `DeviceReplies` are the
cable and the controller.  The display thread is three locations; its test picture is
one step of any length.  `SET_INTERFACE`'s unwrapped error is a panic, `Reboot` the
restart of the board.  `painted` is history: the banks this controller was sent.

**LedPaint.** A handler changes the engine's private state at once and queues in `todo`
the brightnesses it sends one by one while the client thread drains.

**ProfileSync.** Every flash access of either thread is a step; `PowerCycle` keeps
only flash.  A read may fail: `active` then says slot 0 and `load` the default profile.

**InputPath.** Every pad word and every published button event is a step.  A report may
hold any set of buttons.  A profile is what
it makes of each control in each bank: an address, which two controls may share, or
nothing (`Silenced`, a mapped entry without an `osc`).  A switch or a Reload brings any of
`Profiles`, also another one in the slot that was active, since the page may have saved it
there.  `host` is what the OSC host last heard of a control at each address; `held`, `blind`,
`was`, `took`, `at`, `lost` and `stranded` are history.

**KnobPath.** `pos` is how far the knob has been turned in all, the raw position in a
report is `pos % Rev`.  A knob is one of the eight or, with `master`, volume, tempo or
swing, whose raw position is passed on as it is (`told`).  A profile has a scale and a mode
for the knob in each bank; a Reload brings any of `Profiles`, and leaves positions and marks
alone.  Scales are integer multiples of a step of the virtual position, of either sign: a
scale of 0.15 is 15 steps where `Full` is 99900.  Rounding of the engine's `f32` is left out.
`to`, `due` and `astray` are history.

**Display.** `pc` is where the thread is.  `ep8_write` is four steps (drop what is in the
channel, fill the buffer, submit, wait), since completions, DEV_GONE and the next attach come
between them.  `st` is the transfer, `data` what its buffer holds: messages are named by
screen and place; `Torn` stands for a buffer filled while in flight, whatever the controller
then reads.  `attach` allocates and claims in one step.  `got` has the places of the messages
each screen took in this test, `last` the latest of them; `sent`, `odd`, `woke` and `due` are history, and `odd` names the cases in which
the code really goes wrong (findings below).  The backlight write of the loop behind the
test is `UsbSession`'s `DispAssert`.

**PanelOps, InputOps, TextOps, Codec.** A packet is a sequence of bytes, a picture a
sequence in which byte *i* is written *i*, so that what a panel is sent says where it came
from.  Pixels are bytes.  A number in a packet is its type and its four bytes.
Keys and names are records of their parts (bank, kind, number or
button), a form is a sequence of characters, a DNS packet its counts and records.  `Codec` is a
star: one call per action, then `Again`.  The other side of each conversion is defined in
`Codec`: the tapers of a knob (triangles, a quarter of a revolution apart), the unit's
reports and what it shows for a frame, a browser's encoding, an OSC reader, a DNS client.

**Boot.** `nvs` is flash, `ram` everything a restart loses: where the main thread is, the
configuration it loaded, the form the handler of `/save` is writing and how far it has
got, and whether an answered form's restart thread sleeps.  Each poll of the escape
hatch, each key `Config::save` writes and each decision of `main` is a step, and power
may be cut between any two.  A key that cannot be written ends the handler.  A form is a
record of values; the kinds that matter are an empty one, one longer than the 96 bytes
`Config::load` reads into, and an address that parses or does not.  A port that is
no number is stored as the default, so forms carry ports only.  `stored` and `torn` are
history.

**Bridge.** `at` is where each thread is: in its blocking read, waiting for the mutex,
or writing its frames while it holds it.  A report is worked on, sent to the host, and its
LED set in one step under the lock, since nobody else sees these variables meanwhile;
every *attempt* of `write_ep1_retry` is a step of its own, and comes to success, a timeout
that did or did not take effect, or an error for a controller that is gone.  The reader
goes on reading while main waits for its handshake reply, sweeps and sets up the displays (one
step, a failure is a panic).  A read that fails ends its thread; main's `recv_from`
failing, or any of its `expect`s, ends the process.  One pad of the first bank, a button
and the backlight of the second stand for the LEDs.

### What the models assume about code outside the repository

The USB host library gives every transfer back before it reports DEV_GONE; it
enumerates a new device after the old handle is closed; only a client that has a device
open hears that it is gone; a submit to an absent device fails; a transfer in
flight cannot be submitted again.  `usb_host_transfer_alloc` and the descriptor reads do not
fail.  The second of the two claims `attach` makes on a full-speed host may fail with the
only effect that pads and displays are dead, so both are one step.  The HTTP server
handles one request at a time.  NVS writes one key atomically and keeps it; starting the
portal's and the engine's servers does not fail.  A bulk write that timed out may or may not have
taken effect.  A pad report names every pad (`usb.rs` 65).

## 3. What the runs check

| Run | Expect | Shows |
|---|---|---|
| `MCEp1Queue` | pass | the ring never overruns (`NoOverrun`) and is a FIFO (`Refinement`) |
| `MCUsbSession` | pass | `LedsInSync`, `RestingPadShowsBase`, `RoomForHandshake`, `SessionBelongsToDevice`, `ImplementsLife` |
| `MCUsbLive` | pass | `SessionComesUp`, `DirtyIsFlushed` |
| `MCUsbReassert` | violation | the backlight reassert sends nothing |
| `MCLedPaint` | pass | `PanelFollowsEngine` |
| `MCProfileSync` | pass | `EngineFollowsFlash`, `ActivatedOrDropped` |
| `MCInputPath` | pass | `HostFollowsDevice`, `NothingStuck`, `ChordsOnly` |
| `MCKnobPath` | pass | `EngineKnowsKnob`, `TravelConserved`, `MovesAsScaled` |
| `MCBoot` | pass | `EngineRunsStored`, `StopsOnBadForm` |
| `MCBridge` | pass | `ControllerShowsState`, `HostFollowsController`, `ReaderReturns` |
| `MCDisplay` | pass | `OkMeansTaken`, `PictureWhole`, `ImplementsLife`, `TestEnds`, `SessionDrawn` |
| `MCCodec` | pass | `ReportsRead`, `ShownAsMeant`, `TextsUnderstood` |

Every passing run but `MCUsbLive` and `MCCodec` also checks its module's type invariant.

### The properties

* `LedsInSync`: a bank that is not dirty is shown by the controller, or its latest
  frame is the last one underway for it, over any number of replugs: what an earlier session
  left in the ring never ends up on top.  Two exceptions, both real (findings below): after a
  failed transfer, and for a bank that this controller was sent nothing for (`Untouched`),
  whose dirty flag the controller before it took.
* `RestingPadShowsBase`: LED writes to a held pad, or while no controller is there, are
  remembered; once the controller has taken its pads (`PadsTaken`), it shows them at rest as
  the host last wrote them, across dead zone, skipped flushes and replug.  `devLeds`, what the
  controller shows, is compared, not the firmware's copy.
* `RoomForHandshake`: the two commands nothing ever repeats are never dropped by a full
  ring.  It holds because `led_flush` gives up two short of the ring, and because whatever
  ends a transfer takes the next command off the ring, so that an idle transfer, which
  every new session starts with, means a free slot.
* `SessionBelongsToDevice`: no session outlives its device.
* `ImplementsLife` (`UsbSession`): a device is opened with no session left and no departure to
  be reported, SESSION_UP rises for an open one only, and no panic ends a session.
  `ImplementsLife` (`Display`): however a write ends, the thread goes on to the loop that
  watches the session, and from there alone back to waiting.
* `SessionComesUp`, `DirtyIsFlushed`: liveness, see fairness.
* `PanelFollowsEngine`: bank switch, group paint, profile switch and host writes send
  the same LEDs from different handlers; with all that is underway delivered, each LED
  not hit by a drop shows what the engine's state says.
* `EngineFollowsFlash`: the page's save-then-compare and the engine's
  read-active-then-load race, and end in the right profile all the same, unless a Reload
  was dropped or a read failed.
* `HostFollowsDevice`, `NothingStuck`, `ChordsOnly`: inputs reach the host as the device
  has them, at the address they were last sent to; a control that was let go sounds on only
  where it sounded when a bank switch, a profile switch or an edit of the active profile gave
  it another place or silenced it, or when its last event was dropped; a chord is judged by
  the report it came in.  The exception of `NothingStuck` is the code's own: it does not
  release a held control before it changes addresses.
* `TravelConserved`: deltas telescope, so that a dropped event costs nothing as long as
  the knob does not turn half a revolution unheard; each bank that wraps has what was turned
  while it was active, times the scale of that moment.
* `MovesAsScaled`: a position with rails goes the way of the turn times its scale (against
  the knob if the scale is negative) and at most as far.
* `EngineRunsStored`: the engine runs all of one form and the last one stored, across
  restarts and cuts, unless a later one was left between two keys.
* `StopsOnBadForm`: neither engine nor portal only on account of what a form said, never
  because WiFi does not join.
* `ControllerShowsState`: frames of three threads never overtake each other; only a frame
  that was given up leaves a bank wrong.
* `HostFollowsController`: the host's pad is less than a band off and at rest exactly 0,
  whatever small steps it came to rest in.
* `ReaderReturns`: the thread that has to drain EP1 IN gets the mutex and finishes its
  writes, whatever the other threads' writes come to.
* `OkMeansTaken`: the write that is told its message went through is the one whose message
  the controller took last, also after writes that timed out.
* `PictureWhole`: a panel logged as drawn took the init sequence in order and then messages
  that draw every byte of the buffer once and in order, each in one packet; also when the
  other panel's picture failed before.
* `TestEnds`: no controller, cable or lost completion holds the display thread.
* `SessionDrawn`: a session that lasts, and comes up for a thread that is awake, is drawn.
* `ReportsRead`: all eleven knobs of a report read as where they stand to half a place of
  1000, around the clipped peaks and across the zero, and noise of 1 on a taper costs one place
  (`KnobsReadAngles`, at every angle); buttons, pads and messages are read as sent, past reserved
  bits and odd bytes (`ButtonsFollowed`, `PadsRead`, `MidiFits`); what is cut is refused
  (`CutRefused`), except that missing button bytes read as released.
* `ShownAsMeant`: feedback for the key a control is published under lights the LED under
  that control, through three different ways of counting (`LedUnderControl`); no name lights
  a group's LED (`GroupsDeviceOwned`); two LEDs set and flushed appear at their places
  (`LedsShown`); pixels in shared bytes do not disturb each other (`PixelsApart`); both
  chunkings draw the whole buffer at its real size, with right lengths in their headers
  (`FramesDraw`).
* `TextsUnderstood`: firmware and bridge build the same packets, read the address, and the
  value of a float, in each other's, and both refuse an address that is not UTF-8; any OSC
  reader that heeds the tag reads them (`OscAgrees`); what is typed in is what is stored
  (`FormArrives`); a DNS client finds the answer it is told of (`DnsAnswers`).  An integer is
  not read as it was sent: `osc_parse` takes its bits for a float's.

### Bounds

| Bound | Value | Why it is enough |
|---|---|---|
| ring (`QCap`), `CtrMod` | 4 of 8, 8 of 256 | every alignment of head and tail, both wraps |
| ring in `UsbSession` | `QCap` 3, `FlushLimit` 1 | keeps the code's gap of two between 6 and 8 |
| LED channel | 1 of 64 (`UsbSession`), 5 (`LedPaint`: one bank switch fits, two do not, as 32 in 64) | full channel reached |
| event channel | 2 of 64 | full channel, and two events in order |
| `MaxPlugs` | 3, 2 for liveness | leftovers of two earlier sessions |
| `MaxFaults` | 1, 0 for `MCUsbLive` | one transient failure of a submit, an open or a claim anywhere |
| pads, softkeys | 1 each | LEDs of a bank do not influence each other |
| banks, slots | 2 | active and other |
| `MaxEvents` 4, `MaxReports` 4 and 5, `MaxSaves`, `MaxOps` 2, `MaxChanges` 2, `MaxSwitches` 2 | | a chord, a held control, a switch and a release; more than a revolution of a knob of 8 positions, with two switches or reloads |
| `Profiles` | 2 (`InputPath`): by bank, and edited to move every control or silence it; 3 (`KnobPath`): both banks wrap, one, none, scales -2 to 3 | every change of address, mode and sense |
| levels and pressures | below dead zone, below gate, pressed dark, pressed lit | each branch |
| `Polls`, `MaxForms`, `MaxCuts` | 2 of 20, 4, 3 | the hatch used or not; a form cut by the restart of another, and a third that mends it |
| `Attempts`, `HandshakeTries`, `Ep1Depth` | 2 of 3, 2 of 5, 1 | a retry that succeeds and one that does not; a late handshake reply |
| `InitLen`, `Packet`, `BufSize` | 2 of 22, 6 of 64, 7 of 10880 | a first message, a full and a short continuation; `MCCodec` cuts at the real sizes |
| `Display`'s `MaxAttach`, `MaxFaults` | 3, 1 | a replug within a test and one within a nap; one failed transfer anywhere |
| `MCCodec` | every angle, noise up to 2; every control, bank and two buttons of 48; texts of up to 3 of 7 characters; address lengths 1 to 9, and six endings of an address in UTF-8 or not; a panel of 6 by 2 | every branch, residue and boundary of the functions |
| `Bridge`'s `MaxEvents`, `MaxFaults` | 3, 1 | one report for each thread's LED, or three of one; one frame given up or one thread ended |

The proofs of section 4 hold for all values of these constants.

### Fairness

`FairSpec` of `UsbSession`: the client thread runs and every `handle_events`
dispatches what waits (strong fairness of callbacks, since the loop leaves
`pc = "events"` in each round, 10 ms at most); the drain loop ends because
it is faster than the writers; the display thread runs and its test ends since every
EP 0x08 write times out after 2 s; a controller that is plugged in takes and answers
commands.  Nobody is assumed to touch a control, write an LED or move the cable, so it
is the reassert of the display thread that makes `DirtyIsFlushed` hold.
`ProfileSync` assumes that both threads run.

`FairSpec` of `Display`: the display thread alone runs (weak fairness), since every sleep and
every wait of it ends.  Nothing is assumed of the client thread, the controller or the cable.

`FairSpec` of `Bridge`: a write ends within its timeout and a wait after two seconds, so
each thread goes on with what it has begun (weak fairness).  The reader's lock has strong
fairness: the pads thread and main go back to a blocking read between two locks, so the
mutex is not taken over and over before a waiter gets it.  Nothing is assumed of the
controller, the host, or the outcome of a write.

### Findings

1. **The backlight reassert does nothing** (`MCUsbReassert`).  `usb.rs` 464–476
   describes a fight against something that turns the backlight off and reasserts it every 2 s.
   The message ends in `LedState::set`, which finds the brightness unchanged and dirties
   nothing, so no frame is sent.

Known from the models as well, without a run of their own:

* No LED sync after a replug: `DEV_GONE` leaves LED state and dirty flags, the next
  controller starts dark, and only banks that change are sent, though `leds.rs` 110 says of
  the flags "force initial sync" (`Untouched` and `PadsTaken` except it).
* An open that fails is not tried again: the address was consumed by the `swap`
  (`usb.rs` 525–528).
* A failed read of the active slot or of a profile is passed over (`profile.rs` 90–94,
  `osc.rs` 314): the engine works with slot 0 or the default profile until the next reload.
* A control held across a bank switch, a profile switch or an edit of the active profile is
  never told released at the address it was pressed at.
* A failed submit can wedge the LEDs: with the ring backed up and the transfer idle,
  `led_flush` returns before anything pumps, and no event "flushes the latest" (`usb.rs` 114).
  With `MaxPlugs = 1` and `MaxFaults = 1` in `MCUsbLive.cfg` TLC finds `DirtyIsFlushed`
  violated.
* `profile.rs` 49 (and `design.md` 59) calls 5/999 of a revolution the minimum published knob
  step, but `usb.rs` 160 compares raw positions without the wrap, so a step of 1 between 999
  and 0 is published.
* A completion that arrives between the drop of "any stale completion" (`usb.rs` 372) and the
  submit is taken for the new message's.
* A replug within the display test: the loop goes on with the new controller, whose init
  gets no settle time; screen 0 stays as it is; `EP8_OUT` changes under the display
  thread, contrary to `usb.rs` 29–31.  A replug within one 2 s nap is never drawn.
* After a replug the commands left in the ring precede GET_DEVICE_INFO.
* Two bank switches in one tick, or switches while no controller is plugged in, overrun the
  LED channel and leave pads unpainted.
* A Reload dropped by a full event channel leaves the engine on the old profile though the
  page says "activated".

The passing properties except exactly these cases (`odd`, `due`, `lost`, `dropped`, `misread`,
`stranded`, `faults`).

Seen while modelling, and stated by the properties only as an exception or not at all:

* `osc.rs` 265 says a bare group press does nothing; when the event of Shift's release was
  dropped, it still switches the bank.
* `Config::load` is evaluated before the escape hatch is looked at (`main.rs` 55), so a
  value that does not load keeps the portal shut though both buttons are held.
* A target that is no address, typed in or left by a cut first save, ends `main` after the
  join: neither engine nor portal runs until the escape hatch is used.
* The portal's restart, a second after an answered form, can cut the next form in two.
* The bridge says at `main.rs` 135 that EP1 IN must be drained continuously, yet the reader
  may wait for the LED mutex during the 400 ms hello sweep and others' retried writes.
  `ReaderReturns` shows that this always ends.
* The DNS reply keeps a query's additional record (EDNS) in front of the answer while it zeroes
  its count (`portal.rs` 163–170), so that such a client reads its own record as the answer,
  although "every query" is to be answered (`portal.rs` 145).
* `osc_parse` takes an OSC message without an argument for one with a tiny value when its
  address has a multiple of four bytes, and an `,i` argument for the bits of a float.
* A frame the bridge gives up leaves its bank clean, so it is only sent again when another LED
  of the bank changes.

## 4. Proofs

Checked by TLAPS for all values of the constants that satisfy the assumptions named in
the modules.

| Theorem | States |
|---|---|
| `Ep1Queue_proofs!TypeCorrect`, `RingNeverOverruns` | `Spec => []TypeOK`, `Spec => []NoOverrun` |
| `Ep1Queue_proofs!RingIsFifo` | `Spec => Refinement` |
| `UsbSession_proofs!TypeCorrect` | `Spec => []TypeOK` |
| `UsbSession_proofs!HandshakeFindsRoom` | `Spec => []RoomForHandshake` |
| `UsbSession_proofs!SessionKeepsDevice` | `Spec => []SessionBelongsToDevice` |
| `UsbSession_proofs!RestingPads` | `Spec => []RestingPadShowsBase` |
| `UsbSession_proofs!LedsStayInSync` | `Spec => []LedsInSync` |
| `LedPaint_proofs!TypeCorrect`, `PanelFollows` | `Spec => []TypeOK`, `Spec => []PanelFollowsEngine` |
| `InputPath_proofs!TypeCorrect`, `HostFollows`, `NeverStuck` | `Spec => []TypeOK`, `Spec => []HostFollowsDevice`, `Spec => []NothingStuck` |
| `InputPath_proofs!OnlyChords` | `Spec => ChordsOnly`, an action property |
| `KnobPath_proofs!TypeCorrect`, `EngineKnows` | `Spec => []TypeOK`, `Spec => []EngineKnowsKnob` |
| `KnobPath_proofs!MovesWithKnob` | `Spec => MovesAsScaled`, an action property |
| `KnobPath_proofs!TravelKept` | `Spec => []TravelConserved` |
| `Flash_proofs!SyncTypeCorrect`, `EngineFollows` | `SyncSpec => []SyncTypeOK`, `SyncSpec => []EngineFollowsFlash` |
| `Flash_proofs!TypeCorrect`, `EngineRuns`, `StopsExplained` | `Spec => []TypeOK`, `Spec => []EngineRunsStored`, `Spec => []StopsOnBadForm` |
| `UsbSession_proofs!SessionIsLife`, `Display_proofs!ThreadIsLife` | `Spec => ImplementsLife` of either module |
| `Display_proofs!TypeCorrect`, `OkTaken`, `PictureTaken` | `Spec => []TypeOK`, `Spec => []OkMeansTaken`, `Spec => []PictureWhole` |
| `Bridge_proofs!TypeCorrect`, `ShowsState`, `HostFollows` | `Spec => []TypeOK`, `Spec => []ControllerShowsState`, `Spec => []HostFollowsController` |

**Ring.** `RingAssumption` (the ring size divides the counter range) is what makes
`Slot(Inc(c))` the next slot also at the wrap.  With `NoOverrun` the slot `Ep1Send`
writes is not one of the pending ones, so the view `Pending` grows by exactly the new
command; a pump takes its head.  These are the lemmas the refinement rests on.

**Session.** `RoomForHandshake` is not inductive.  `HInv` adds:

* `RingRoom`: the ring never exceeds `QCap`, and an idle transfer means a free slot;
* `AnswerRoom`: while there is no session, the commands in the ring and the answers still
  to come (replies, and GET_DEVICE_INFO not yet taken) fit in the ring together;
* `QuietBeforeSession`: no pads are read and nothing is drained before the session;
* `AttachIdle`: transfers are idle, and there are no replies and no session, while a device is
  attached;
* `DeviceKnown`: only a controller that is present replies, an open device is present or its
  departure is still to be reported, and what was answered had been asked or is gone.

`SessionBelongsToDevice` follows from the same invariant.

`LedsInSync` is not inductive either: a flush needs room in the ring, the first command
sent needs an idle transfer that has nothing waiting behind it, and a handler needs the
device it submits to.  `SyncInv` adds:

* `Orderly`: without a failed transfer, queue and transfer are one line for the controller
  that is there (`InOrder`).  A command sent goes to its end, the controller takes its first, a
  callback leaves it alone, and commands are lost only at its head and only while no controller
  is there.  So of each clean bank the last frame in the line is the latest, or none is left
  and the controller shows it, or it was sent none (`Kept`, which survives all of these);
  a flush that does not give up settles both banks, which needs the gap of two in
  `FlushAssumption`;
* `OpenForTransfers`: a transfer is in flight for an open device only, so that without a fault
  every submit of a callback succeeds;
* `PaintedKnown`: a controller starts with nothing painted.

`RestingPadShowsBase` takes `ShadowRests` besides: SESSION.leds of a pad at rest is what the host
last wrote, an invariant of its own, also under faults.

**Life.** A step of `UsbSession` is one of `SessionLife` or changes none of its variables.  That
takes `HInv` (`DeviceKnown`: a departure is only reported of an open device; `AttachIdle`: no
session while none is open) and `PanicInv`, that only an attach panics.  `Display` needs
`OpenInv`, which says the same of its own client thread.

**Profiles.** The invariant is `Followed`: either a refresh is on its way (a Reload is in the
channel, or the engine is about to read), or it was dropped or a read failed, or the engine's slot is
the active one and its copy is current: being loaded, equal to what flash has, or of a
slot the web thread has saved but not yet compared with the active one.

**Panel.** `PanelFollowsEngine` speaks of what the channel will make of an LED, but a handler
of the engine queues in `todo` first.  `PanelInv` says of every LED but the backlight's button
that `todo` brings it to what the engine's state says (`TodoRight`), and that channel and panel
bring it to what `todo` does not mention (`ChanRight`), unless a message was dropped.  The
lemmas are about sequences of messages: one appended, one taken from the front, two joined.

**Inputs.** `PathInv` has seven conjuncts.  `SentArrives` and `SentNear`: what the engine took
and what is underway come to what the client thread sent last, and that is near the pressure;
`HeardTook`: at the address a control was last sent to the host heard what the engine took
last (`HostFollowsDevice`).  `ModifiersTook`: Shift and Control of the engine are what it took
last of them, whether or not the profile silences them.  `LeftWas` and `GroupsUnheld`: a group
pressed without a modifier, and without a dropped event of one, finds the modifier up when its
turn comes (`ChordsOnly`).  `OnePlace`: a control sounds only where it was last sent, or where
it is stranded (`NothingStuck`).
`ChordsOnly` needs that a report tells of Shift before it tells of a group:
`OrderAssumption`, which is the order of `Button::ALL` (`input.rs` 145), in which the changes
of a report are published.  Without it the chord could be judged by the report before.

**Knob.** `KnobInv`: with the last event not dropped, the last one underway has the mark of the
client thread, or with none underway the engine has it (`MarkArrives`); the raw positions are
those of the history (`RawsTrue`).  `DeltaTrue` is the arithmetic of the wrap: for
every `Rev` the shortest way between two positions less than half a revolution apart is the
way the knob went.  `MovesAsScaled` follows from it, with the sign of the scale.  So does
`TravelInv`, that each bank that wraps and the place its turns are due to have taken it differ
by whole rounds: `RoundLemma` says that this survives a turn, and a reload that makes a bank
wrap starts it anew.

**Boot.** `FlashIsStored`: unless torn, flash holds the form stored last; `KeysWritten`: of
the form being written, flash has the keys written so far, so that the last key makes it the
one stored; `LoadedIsStored`: from its load to the engine's start a boot works with what is
stored, which nothing can change meanwhile, as only the portal writes.
`BridgeAssumption` and `FormsAssumption` ask
only that "nothing" differs from every value, and that pressures, levels and bounds are numbers.

**Bridge.** `ControllerShowsState` speaks of quiet moments only.  `LedInv` says why they
come out right: the mutex is held by exactly the thread between lock and unlock, and only it
has frames (`MutexInv`); so all frames still to be written have the LedState's present content
(`FramesCurrent`); and each bank is lost, still dirty, pending in some frame, or shown
(`Accounted`).  A thread that locks therefore finds no frames, what it changes it sends, and
what it does not send it has not changed (`Follows`).  `DirtyEarly`, `RequestInHand` and
`PadsUnborn` tie dirty flags, main's request and the pads thread to where main is.

`HostFollowsController` has its own invariant, `FollowInv`: what the host was told is what the
threads know (`HostToldKnown`), reports in EP1 IN bring what is known, or the button a thread
waits for the mutex with, to what the controller reported (`EndsKnown`), and the pad known is
within the band of the pressure reported, or exactly 0 at rest (`PadKnown`).

**Display.** `OkMeansTaken` follows from `WriteInv`: as long as nothing odd happened, a write
finds the channel empty when it fills the buffer and the transfer idle when it submits, and of
the four states it can wait in, the one with an Ok in the channel has its message taken last.
`HeardInv` follows the pictures: a screen written to its end took the messages 1 to `Steps`
(`SentInv`), the screen at work those up to the one being written (`WorkInv`), and what a write
that timed out left in flight goes to a screen already given up (`LateInv`).

That those messages draw the buffer is a fact about `PanelOps` (`FrameDraws`), for every packet of
at least six bytes (`SizeAssumption`: a window message takes six; the code's is 64) and every
picture that fills one.  Message *k* carries the bytes from where *k* - 1 ended (`Offsets`, the
arithmetic of the division rounded up), so the payloads join to a slice that begins at 0
(`SliceConcat`), by induction over the number of messages; the last one ends at `BufSize`.

Each of these invariants was checked by TLC as an invariant of its module's run before it was
proved.

Model-checked only:

* all liveness, which needs ENABLED and fairness;
* the properties of `Codec`, which are about data and call recursive definitions: bounded inputs
  are what can be checked of them, but for the frame of a full-speed picture (`FrameDraws`).

## 5. Not modelled, and the plan

What the plan had is modelled, checked and, but for the properties section 4 leaves to TLC,
proved.  Worth stating next: that `LedPaint` and `InputPath` implement an abstract
panel and an abstract keyboard, as `Ep1Queue` does `Ep1Fifo`; what they would promise is for
now in `PanelFollowsEngine` and `HostFollowsDevice`.

Without a property: `buttons_held` reads SESSION from the main thread (`usb.rs` 424), which
`Boot` takes as any value; the bridge's replies to earlier requests that stay in the channel
(`mk1-bridge/src/main.rs` 190), which only lengthen its start.

Not planned: the web pages' HTML and GET handlers, the parsing of profile JSON (serde), the
portal's DHCP options (calls into esp-netif), `bridge-python/` and `tools/` (scripts for
measurement and a retired shim), and the C spike in `firmware/`, whose session logic
`usb.rs` takes over.
