------------------------------- MODULE Bridge -------------------------------
(***************************************************************************)
(* The userspace bridge, crates/mk1-bridge: three threads around one USB   *)
(* handle and one LedState behind a mutex.                                 *)
(*                                                                         *)
(*   reader  drains EP1 IN: handshake reply, knobs, buttons; echoes a      *)
(*           button to its LED                                             *)
(*   pads    drains the pad stream; echoes pressure to the pad's LED       *)
(*   main    handshake, hello sweep, displays, then LEDs over OSC          *)
(*                                                                         *)
(* A thread that changes LEDs holds the mutex until its frames are         *)
(* written, and a write of up to a second may time out and be retried.     *)
(* One LED stands for each kind of writer: a pad of the first bank, and a  *)
(* button and the backlight of the second.  OSC to the host is what was    *)
(* sent (external: the network).                                           *)
(***************************************************************************)
EXTENDS Naturals, Sequences

CONSTANTS
  Pressures,      \* pressures a pad report carries
  KnobValues,     \* positions a knob report carries
  HostLevels,     \* brightnesses the host asks for
  None,           \* nothing
  Attempts,       \* of write_ep1_retry (3)
  HandshakeTries, \* requests for device info (5)
  Ep1Depth,       \* reports the controller keeps for EP1 IN
  MaxEvents,      \* bound: button, knob and pad reports, and LED messages
  MaxFaults       \* bound: LED frames given up and reads that fail with the
                  \* controller there

MaxBrightness  == 63
DeadZone       == 6
Band           == 32    \* pressure changes below it are not sent

Leds      == {"pad", "button", "backlight"}
Banks     == {0, 1}
BankOf(l) == IF l = "pad" THEN 0 ELSE 1
Levels    == 0 .. MaxBrightness
Threads   == {"main", "reader", "pads"}

ASSUME BridgeAssumption ==
  /\ None \notin Threads
  /\ Pressures \subseteq Nat
  /\ HostLevels \subseteq Nat
  /\ Attempts \in Nat \ {0}
  /\ MaxEvents \in Nat /\ MaxFaults \in Nat

VARIABLES
  at,       \* [Threads -> where the thread is]
  tries,    \* [Threads -> attempts the write underway has used]
  asked,    \* requests for device info main has made
  inHand,   \* [main |-> the OSC request, reader, pads |-> the report] underway
  known,    \* thread locals: knobs, buttons of the reader, last of the pads
  infos,    \* replies in the channel from reader to main
  mutex,    \* the thread that holds the LedState, or None
  leds,     \* LedState: brightness of each LED ...
  dirty,    \* ... and the banks that changed
  frames,   \* [Threads -> frames still to write]: content of a bank
  lost,     \* banks whose latest frame was given up
  host,     \* what the host was told last of button, knob and pad
  dev,      \* the controller: plugged, streaming, asked, told (its last
            \* reports), ep1in and padIn (reports not yet read)
  shown,    \* the controller's LEDs
  budget    \* bound: what is left of events and faults

threadVars == <<at, tries, asked, inHand, known, infos>>
ledVars    == <<mutex, leds, dirty, frames, lost>>
vars       == <<threadVars, ledVars, host, dev, shown, budget>>

Frame == [bank : Banks, content : [Leds -> Levels]]
Report ==      [kind : {"info"}]
          \cup [kind : {"button"}, value : BOOLEAN]
          \cup [kind : {"knob"}, value : KnobValues]

(* what a stream has said last of each input *)
Told   == [button : BOOLEAN, knob : KnobValues \cup {None}, pad : Pressures \cup {0}]
Untold == [button |-> FALSE, knob |-> None, pad |-> 0]

At == [main : {"ask", "wait", "stream", "greet", "sweep", "sweep2",
               "display", "serve", "lock", "flush", "exited"},
       reader : {"read", "lock", "flush", "ended"},
       pads : {"unborn", "read", "lock", "flush", "ended"}]

InHand == [main : [led : Leds, level : HostLevels] \cup {None},
           reader : BOOLEAN,
           pads : Pressures \cup {0}]

Dev == [plugged : BOOLEAN, streaming : BOOLEAN, asked : Nat, told : Told,
        ep1in : Seq(Report), padIn : Seq(Pressures)]

(***************************************************************************)
(* Each thread is at one of its program points, with locals, LedState and  *)
(* channels of their types.                                                *)
(***************************************************************************)
TypeOK ==
  /\ at \in At
  /\ tries \in [Threads -> 0 .. Attempts - 1]
  /\ asked \in Nat
  /\ inHand \in InHand
  /\ known \in Told
  /\ infos \in Nat
  /\ mutex \in Threads \cup {None}
  /\ leds \in [Leds -> Levels]
  /\ dirty \in [Banks -> BOOLEAN]
  /\ frames \in [Threads -> Seq(Frame)]
  /\ lost \in [Banks -> BOOLEAN]
  /\ host \in Told
  /\ dev \in Dev
  /\ shown \in [Leds -> Levels]
  /\ budget \in [events : 0 .. MaxEvents, faults : 0 .. MaxFaults]

Init ==
  /\ at = [main |-> "ask", reader |-> "read", pads |-> "unborn"]
  /\ tries = [t \in Threads |-> 0]
  /\ asked = 0
  /\ inHand = [main |-> None, reader |-> FALSE, pads |-> 0]
  /\ known = Untold
  /\ infos = 0
  /\ mutex = None
  /\ leds = [l \in Leds |-> 0]
  /\ dirty = [b \in Banks |-> TRUE]      \* force initial sync
  /\ frames = [t \in Threads |-> <<>>]
  /\ lost = [b \in Banks |-> FALSE]
  /\ host = Untold
  /\ dev = [plugged |-> TRUE, streaming |-> FALSE, asked |-> 0,
            told |-> Untold,
            ep1in |-> <<>>, padIn |-> <<>>]
  /\ shown = [l \in Leds |-> 0]
  /\ budget = [events |-> MaxEvents, faults |-> MaxFaults]

Running == at.main # "exited"     \* the process ends with its main thread

-----------------------------------------------------------------------------
(* LedState *)

(* Mutant: the brightness is not clamped. *)
Unclamped(v) == v

Least(v) == IF v > MaxBrightness THEN MaxBrightness ELSE v

(* LedState::set on a LedState s *)
Set(s, l, v) ==
  IF s.leds[l] = Least(v) THEN s
  ELSE [leds  |-> [s.leds EXCEPT ![l] = Least(v)],
        dirty |-> [s.dirty EXCEPT ![BankOf(l)] = TRUE]]

SetAll(v) == [leds  |-> [l \in Leds |-> Least(v)],
              dirty |-> [b \in Banks |-> TRUE]]

LedState == [leds |-> leds, dirty |-> dirty]

(* LedState::frames: one frame for each dirty bank, in order *)
FramesOf(s) ==
  LET F(b) == IF s.dirty[b] THEN <<[bank |-> b, content |-> s.leds]>> ELSE <<>>
  IN  F(0) \o F(1)

(* Thread t has changed the LedState to s and starts to flush it: frames() *)
(* clears what is dirty before a byte is written.                          *)
StartFlush(t, s) ==
  /\ leds' = s.leds
  /\ dirty' = [b \in Banks |-> FALSE]
  /\ frames' = [frames EXCEPT ![t] = FramesOf(s)]

(* Mutant: the mutex is not held while the frames are written. *)
LockBriefly(t) == mutex = None /\ UNCHANGED mutex

Lock(t) == mutex = None /\ mutex' = t

-----------------------------------------------------------------------------
(* Writes to EP1 OUT *)

(* What one write may come to: done, timed out (with or without effect),   *)
(* or refused because the controller is gone.                              *)
WriteOutcomes ==
  IF dev.plugged
  THEN {[result |-> "ok",      landed |-> TRUE],
        [result |-> "timeout", landed |-> TRUE],
        [result |-> "timeout", landed |-> FALSE]}
  ELSE {[result |-> "gone", landed |-> FALSE]}

(* write_ep1_retry: only a timeout is tried again *)
TriesAgain(t, o) == o.result = "timeout" /\ tries[t] + 1 < Attempts

Retried(t, o) == tries' = [tries EXCEPT ![t] = IF TriesAgain(t, o) THEN @ + 1 ELSE 0]

Show(f) == [l \in Leds |-> IF BankOf(l) = f.bank THEN f.content[l] ELSE shown[l]]

Flushing(t) == frames[t] # <<>>

(* Mutant: a frame that was given up is started again. *)
GoesOnWritten(t, o) == o.result # "timeout"

(* flush_leds is done with a frame when it is written or given up. *)
GoesOn(t, o) == ~TriesAgain(t, o)

Event == budget.events > 0 /\ budget' = [budget EXCEPT !.events = @ - 1]
Fault == budget.faults > 0 /\ budget' = [budget EXCEPT !.faults = @ - 1]

(* flush_leds: one attempt at the first frame left.  When the attempts are *)
(* used up the frame is dropped with a message, and nobody sends it again. *)
WriteFrame(t) ==
  /\ Running
  /\ Flushing(t)
  /\ LET f == Head(frames[t]) IN
     \E o \in WriteOutcomes :
       /\ shown' = IF o.landed THEN Show(f) ELSE shown
       /\ Retried(t, o)
       /\ IF GoesOn(t, o)
          THEN /\ IF o.result = "timeout" THEN Fault ELSE UNCHANGED budget
               /\ frames' = [frames EXCEPT ![t] = Tail(@)]
               /\ lost' = [lost EXCEPT ![f.bank] = o.result # "ok"]
          ELSE UNCHANGED <<frames, lost, budget>>
  /\ UNCHANGED <<at, asked, inHand, known, infos, mutex, leds, dirty, host, dev>>

(* The guard is dropped when all frames are written. *)
Flushed(t, next) ==
  /\ Running
  /\ at[t] = "flush"
  /\ ~Flushing(t)
  /\ mutex' = None
  /\ at' = [at EXCEPT ![t] = next]
  /\ UNCHANGED <<tries, asked, inHand, known, infos, leds, dirty, frames, lost,
                 host, dev, shown, budget>>

-----------------------------------------------------------------------------
(* The reader thread *)

ReadInfo ==
  /\ Head(dev.ep1in).kind = "info"
  /\ infos' = infos + 1
  /\ UNCHANGED <<at, inHand, known, host>>

ReadKnobs ==
  LET now == Head(dev.ep1in).value IN
  /\ Head(dev.ep1in).kind = "knob"
  /\ host' = IF known.knob = None \/ now # known.knob
             THEN [host EXCEPT !.knob = now] ELSE host
  /\ known' = [known EXCEPT !.knob = now]
  /\ UNCHANGED <<at, inHand, infos>>

ReadButtons ==
  /\ Head(dev.ep1in).kind = "button"
  /\ inHand' = [inHand EXCEPT !.reader = Head(dev.ep1in).value]
  /\ at' = [at EXCEPT !.reader = "lock"]
  /\ UNCHANGED <<known, infos, host>>

ReadEp1 ==
  /\ Running
  /\ at.reader = "read"
  /\ dev.ep1in # <<>>
  /\ ReadInfo \/ ReadKnobs \/ ReadButtons
  /\ dev' = [dev EXCEPT !.ep1in = Tail(@)]
  /\ UNCHANGED <<tries, asked, ledVars, shown, budget>>

(* A button report is worked on under the lock: what changed goes to the   *)
(* host and to the button's LED.                                           *)
EchoButtons ==
  LET now == inHand.reader IN
  /\ Running
  /\ at.reader = "lock"
  /\ Lock("reader")
  /\ IF now # known.button
     THEN /\ host' = [host EXCEPT !.button = now]
          /\ StartFlush("reader",
                        Set(LedState, "button", IF now THEN MaxBrightness ELSE 0))
     ELSE /\ UNCHANGED host
          /\ StartFlush("reader", LedState)
  /\ known' = [known EXCEPT !.button = now]
  /\ inHand' = [inHand EXCEPT !.reader = FALSE]
  /\ at' = [at EXCEPT !.reader = "flush"]
  /\ UNCHANGED <<tries, asked, infos, lost, dev, shown, budget>>

ReaderUnlocks == Flushed("reader", "read")

(* Any error but a timeout ends the thread and its locals; the process     *)
(* goes on.                                                                *)
ReadFails(t) ==
  /\ Running
  /\ at[t] = "read"
  /\ IF dev.plugged THEN Fault ELSE UNCHANGED budget
  /\ at' = [at EXCEPT ![t] = "ended"]
  /\ known' = IF t = "reader" THEN [known EXCEPT !.knob = None, !.button = FALSE]
              ELSE [known EXCEPT !.pad = 0]
  /\ UNCHANGED <<tries, asked, inHand, infos, ledVars, host, dev, shown>>

-----------------------------------------------------------------------------
(* The pads thread *)

ReadPads ==
  /\ Running
  /\ at.pads = "read"
  /\ dev.padIn # <<>>
  /\ inHand' = [inHand EXCEPT !.pads = Head(dev.padIn)]
  /\ dev' = [dev EXCEPT !.padIn = Tail(@)]
  /\ at' = [at EXCEPT !.pads = "lock"]
  /\ UNCHANGED <<tries, asked, known, infos, ledVars, host, shown, budget>>

Settled(p) == IF p < DeadZone THEN 0 ELSE p

Apart(p, q) == IF p > q THEN p - q ELSE q - p

(* Mutant: a release within the band is left out as well. *)
SkippedAlways(p, before) == Apart(p, before) < Band

(* A small change is left out, but a release never is.                     *)
Skipped(p, before) == Apart(p, before) < Band /\ ~(p = 0 /\ before # 0)

EchoPads ==
  LET p == Settled(inHand.pads) IN
  /\ Running
  /\ at.pads = "lock"
  /\ Lock("pads")
  /\ IF Skipped(p, known.pad)
     THEN /\ UNCHANGED <<known, host>>
          /\ StartFlush("pads", LedState)
     ELSE /\ known' = [known EXCEPT !.pad = p]
          /\ host' = [host EXCEPT !.pad = p]
          /\ StartFlush("pads", Set(LedState, "pad", p \div 64))
  /\ inHand' = [inHand EXCEPT !.pads = 0]
  /\ at' = [at EXCEPT !.pads = "flush"]
  /\ UNCHANGED <<tries, asked, infos, lost, dev, shown, budget>>

PadsUnlock == Flushed("pads", "read")

-----------------------------------------------------------------------------
(* The main thread *)

(* GET_DEVICE_INFO is written once a round; whether it failed is ignored.  *)
AskInfo ==
  /\ at.main = "ask"
  /\ asked' = asked + 1
  /\ \E o \in WriteOutcomes :
       dev' = IF o.landed THEN [dev EXCEPT !.asked = @ + 1] ELSE dev
  /\ at' = [at EXCEPT !.main = "wait"]
  /\ UNCHANGED <<tries, inHand, known, infos, ledVars, host, shown, budget>>

(* The reply that ends the wait may be one to an earlier request.          *)
GotInfo ==
  /\ at.main = "wait"
  /\ infos > 0
  /\ infos' = infos - 1
  /\ asked' = 0                  \* the loop is left
  /\ at' = [at EXCEPT !.main = "stream"]
  /\ UNCHANGED <<tries, inHand, known, ledVars, host, dev, shown, budget>>

(* Two seconds without a reply; after the last of them main panics.        *)
NoInfo ==
  /\ at.main = "wait"
  /\ infos = 0
  /\ at' = [at EXCEPT !.main = IF asked < HandshakeTries THEN "ask" ELSE "exited"]
  /\ UNCHANGED <<tries, asked, inHand, known, infos, ledVars, host, dev, shown, budget>>

(* auto_msg with retries; main panics when it does not get through.        *)
EnableStreaming ==
  /\ at.main = "stream"
  /\ \E o \in WriteOutcomes :
       /\ dev' = IF o.landed THEN [dev EXCEPT !.streaming = TRUE] ELSE dev
       /\ Retried("main", o)
       /\ at' = [at EXCEPT !.main = IF TriesAgain("main", o) THEN "stream"
                                    ELSE IF o.result = "ok" THEN "greet" ELSE "exited"]
  /\ UNCHANGED <<asked, inHand, known, infos, ledVars, host, shown, budget>>

(* The hello sweep: all LEDs, 400 ms, backlight only, under one lock.      *)
Greet ==
  /\ at.main = "greet"
  /\ Lock("main")
  /\ StartFlush("main", SetAll(MaxBrightness))
  /\ at' = [at EXCEPT !.main = "sweep"]
  /\ UNCHANGED <<tries, asked, inHand, known, infos, lost, host, dev, shown, budget>>

SweepEnds ==
  /\ at.main = "sweep"
  /\ ~Flushing("main")
  /\ StartFlush("main", Set(SetAll(0), "backlight", 92))   \* 0x5c
  /\ at' = [at EXCEPT !.main = "sweep2"]
  /\ UNCHANGED <<tries, asked, inHand, known, infos, mutex, lost, host, dev, shown, budget>>

SweepUnlocks ==
  /\ at.main = "sweep2"
  /\ ~Flushing("main")
  /\ mutex' = None
  /\ at' = [at EXCEPT !.main = "display"]
  /\ UNCHANGED <<tries, asked, inHand, known, infos, leds, dirty, frames, lost,
                 host, dev, shown, budget>>

(* Panels and first frames go over EP8 (a failure panics); then the pads   *)
(* thread starts.                                                          *)
InitDisplays ==
  /\ at.main = "display"
  /\ \/ dev.plugged /\ at' = [at EXCEPT !.main = "serve", !.pads = "read"]
     \/ at' = [at EXCEPT !.main = "exited"]
  /\ UNCHANGED <<tries, asked, inHand, known, infos, ledVars, host, dev, shown, budget>>

ReceiveOsc ==
  /\ at.main = "serve"
  /\ Event
  /\ \E l \in Leds, v \in HostLevels :
       inHand' = [inHand EXCEPT !.main = [led |-> l, level |-> v]]
  /\ at' = [at EXCEPT !.main = "lock"]
  /\ UNCHANGED <<tries, asked, known, infos, ledVars, host, dev, shown>>

ApplyOsc ==
  /\ at.main = "lock"
  /\ Lock("main")
  /\ StartFlush("main", Set(LedState, inHand.main.led, inHand.main.level))
  /\ at' = [at EXCEPT !.main = "flush"]
  /\ inHand' = [inHand EXCEPT !.main = None]
  /\ UNCHANGED <<tries, asked, known, infos, lost, host, dev, shown, budget>>

MainUnlocks == Flushed("main", "serve")

(* recv_from fails: main returns.                                          *)
ServeEnds ==
  /\ at.main = "serve"
  /\ at' = [at EXCEPT !.main = "exited"]
  /\ UNCHANGED <<tries, asked, inHand, known, infos, ledVars, host, dev, shown, budget>>

Main == \/ AskInfo \/ GotInfo \/ NoInfo \/ EnableStreaming
        \/ Greet \/ SweepEnds \/ SweepUnlocks \/ InitDisplays
        \/ ApplyOsc \/ MainUnlocks

-----------------------------------------------------------------------------
(* The controller (external): answers, reports in order while its buffer   *)
(* has room, and may be pulled out.                                        *)

Answer ==
  /\ dev.asked > 0
  /\ Len(dev.ep1in) < Ep1Depth
  /\ dev' = [dev EXCEPT !.asked = @ - 1, !.ep1in = Append(@, [kind |-> "info"])]
  /\ UNCHANGED <<threadVars, ledVars, host, shown, budget>>

Reports ==
  /\ dev.streaming
  /\ Event
  /\ \/ /\ Len(dev.ep1in) < Ep1Depth
        /\ \/ \E b \in BOOLEAN :
                dev' = [dev EXCEPT !.told.button = b,
                          !.ep1in = Append(@, [kind |-> "button", value |-> b])]
           \/ \E k \in KnobValues :
                dev' = [dev EXCEPT !.told.knob = k,
                          !.ep1in = Append(@, [kind |-> "knob", value |-> k])]
     \/ /\ dev.padIn = <<>>
        /\ \E p \in Pressures :
             dev' = [dev EXCEPT !.told.pad = p, !.padIn = <<p>>]
  /\ UNCHANGED <<threadVars, ledVars, host, shown>>

Unplug ==
  /\ dev.plugged
  /\ dev' = [dev EXCEPT !.plugged = FALSE, !.streaming = FALSE, !.asked = 0,
                        !.told = Untold, !.ep1in = <<>>, !.padIn = <<>>]
  /\ UNCHANGED <<threadVars, ledVars, host, shown, budget>>

Controller == Answer \/ Reports \/ Unplug

Exited == ~Running /\ UNCHANGED vars

Next ==
  \/ \E t \in Threads : WriteFrame(t)
  \/ ReadEp1 \/ EchoButtons \/ ReaderUnlocks
  \/ ReadPads \/ EchoPads \/ PadsUnlock
  \/ \E t \in {"reader", "pads"} : ReadFails(t)
  \/ Main \/ ReceiveOsc \/ ServeEnds
  \/ Running /\ Controller
  \/ Exited

Spec == Init /\ [][Next]_vars

(* A thread goes on with what it has begun: a write ends within its        *)
(* timeout, a wait after two seconds.  A thread that waits for the mutex   *)
(* gets it when it is free again and again, because the others go back to  *)
(* a blocking read between two locks.  Nothing is assumed of the           *)
(* controller, the host or what a write comes to.                          *)
FairSpec ==
  /\ Spec
  /\ \A t \in Threads : WF_vars(WriteFrame(t))
  /\ WF_vars(ReaderUnlocks) /\ WF_vars(PadsUnlock) /\ WF_vars(Main)
  /\ SF_vars(EchoButtons)

-----------------------------------------------------------------------------
(* Properties *)

(***************************************************************************)
(* With no frame left to write, the controller shows the LedState: three   *)
(* threads change it, and their frames reach the controller in the order   *)
(* of the changes, because the mutex is held until the last frame is       *)
(* written.  A timeout, retried, does no harm even when the first attempt  *)
(* had taken effect.  Only a bank whose latest frame was given up may      *)
(* differ, and a bank is left unsent only before the first flush.          *)
(***************************************************************************)
ControllerShowsState ==
  (dev.plugged /\ \A t \in Threads : ~Flushing(t)) =>
    \A b \in Banks :
      \/ lost[b]
      \/ dirty[b] /\ at.main \in {"ask", "wait", "stream", "greet", "exited"}
      \/ ~dirty[b] /\ \A l \in Leds : BankOf(l) = b => shown[l] = leds[l]

(***************************************************************************)
(* With all reports worked on, the host was told the button and the knob   *)
(* as the controller has them, the pad less than 32 off, and a pad at rest *)
(* as 0, however slowly it came to rest below the steps the bridge sends.  *)
(***************************************************************************)
HostFollowsController ==
  /\ (dev.plugged /\ dev.ep1in = <<>> /\ at.reader \in {"read", "flush"}) =>
       /\ host.button = dev.told.button
       /\ host.knob = dev.told.knob
  /\ (dev.plugged /\ dev.padIn = <<>> /\ at.pads \in {"read", "flush"}) =>
       /\ Apart(host.pad, Settled(dev.told.pad)) < Band
       /\ Settled(dev.told.pad) = 0 => host.pad = 0

(***************************************************************************)
(* EP1 IN is drained again: a reader that waits for the LedState, or       *)
(* writes LEDs itself, returns to its read whatever the writes of all      *)
(* threads come to.  The controller wedges when it is not read, so no      *)
(* thread may keep the mutex as long as writes time out.                   *)
(***************************************************************************)
ReaderReturns ==
  at.reader \in {"lock", "flush"} ~> (at.reader = "read" \/ ~Running)

=============================================================================
