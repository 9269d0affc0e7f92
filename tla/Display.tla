------------------------------ MODULE Display -------------------------------
(***************************************************************************)
(* The display thread of firmware-rs/src/usb.rs, the one EP 0x08 transfer  *)
(* it shares with the client thread, the channel through which completions *)
(* reach it, and the two panels.                                           *)
(*                                                                         *)
(* A write (ep8_write) is four steps: it drops what is left in the channel,*)
(* copies its message into the transfer's buffer, submits the transfer, and*)
(* waits two seconds for the completion.  Completions, the loss of the     *)
(* device and the next attach happen in the client thread between any two  *)
(* of these steps.  Nothing tells a write from the completion of which     *)
(* write it was woken, and nothing keeps it off a buffer still in flight.  *)
(***************************************************************************)
EXTENDS PanelOps

CONSTANTS
    InitLen,    \* INIT_COMMANDS.len(), 22
    Packet,     \* bytes of a full-speed packet, 64
    BufSize,    \* bytes of a picture, 10880
    MaxAttach,  \* bound: how often a controller is attached
    MaxFaults   \* bound: failed transfers though the controller is there

ASSUME SizeAssumption ==
    /\ InitLen \in Nat \ {0} /\ Packet \in Nat \ 0 .. 5
    /\ BufSize \in Nat /\ BufSize >= FsFirst(Packet)
    /\ MaxAttach \in Nat /\ MaxFaults \in Nat

VARIABLES
    \* the controller and what the client thread knows of it
    port,       \* it is plugged in
    dev,        \* DEV is not null
    gone,       \* the DEV_GONE event awaits its callback
    up,         \* SESSION_UP
    gen,        \* attaches so far; the transfer EP8_OUT points to
    got, last,  \* history: places of the messages each screen was sent since
                \* the test began, by the controller attached last, and the
                \* last of them (not kept on once odd)
    faults,     \* bounded by MaxFaults
    \* the transfer
    data,       \* what its buffer holds
    st,         \* "idle", "sub"mitted, "taken" by the controller
    chan,       \* EP8_DONE: at most one completion
    \* the display thread
    pc, screen,
    step,       \* which message of the screen
    t,          \* the transfer whose buffer the write filled
    \* history
    sent,       \* screens whose "test gradient sent" was logged
    odd,        \* in this test a completion came between drain and submit, a
                \* controller was attached, or a buffer was filled (or left) in
                \* flight
    woke,       \* the thread left its nap since the session went down
    due         \* the session came up for a thread that is awake

heard == <<got, last>>
controller == <<port, dev, gone, up, gen, heard, faults>>
transfer == <<data, st, chan>>
thread == <<pc, screen, step, t>>
history == <<sent, odd, woke, due>>
vars == <<controller, transfer, thread, history>>

-----------------------------------------------------------------------------
(* Messages are named by screen and place; what cannot be named is the     *)
(* buffer of a new transfer (num_bytes = 0) and one written in flight.     *)
Empty == <<2, 0>>
Torn == <<2, 1>>

Frame == FrameFs(Packet, BufSize)
Steps == InitLen + Len(Frame)
Msg == <<screen, step>>

(* No screen was sent a message; 2 stands for those that cannot be named.  *)
Nothing == [s \in 0 .. 2 |-> <<>>]

Testing == {"pause", "drain", "copy", "submit", "recv"}

Init ==
    /\ port = FALSE /\ dev = FALSE /\ gone = FALSE /\ up = FALSE
    /\ gen = 0 /\ got = Nothing /\ last = Empty /\ faults = 0
    /\ data = Empty /\ st = "idle" /\ chan = <<>>
    /\ pc = "wait" /\ screen = 0 /\ step = 1 /\ t = 0
    /\ sent = {} /\ odd = FALSE /\ woke = FALSE /\ due = FALSE

-----------------------------------------------------------------------------
(* The controller                                                          *)

PlugIn ==
    /\ ~port /\ ~dev /\ ~gone
    /\ port' = TRUE
    /\ UNCHANGED <<dev, gone, up, gen, heard, faults, transfer, thread, history>>

Unplug ==
    /\ port
    /\ port' = FALSE /\ gone' = dev
    /\ UNCHANGED <<dev, up, gen, heard, faults, transfer, thread, history>>

(* It takes the message in the buffer, as the buffer is now.               *)
Take ==
    /\ port /\ st = "sub"
    /\ st' = "taken"
    /\ IF odd THEN UNCHANGED heard
       ELSE got' = [got EXCEPT ![data[1]] = Append(@, data[2])] /\ last' = data
    /\ UNCHANGED <<port, dev, gone, up, gen, faults, data, chan, thread, history>>

-----------------------------------------------------------------------------
(* The client thread                                                       *)

(* attach allocates every transfer anew.  It asks nothing of the display   *)
(* thread, which may be in a write of the session before.                  *)
Attach ==
    /\ port /\ ~dev /\ gen < MaxAttach
    /\ dev' = TRUE /\ gen' = gen + 1 /\ got' = Nothing /\ last' = Empty
    /\ data' = Empty /\ st' = "idle"
    /\ sent' = {} /\ odd' = (odd \/ pc \in Testing)
    /\ UNCHANGED <<port, gone, up, faults, chan, thread, woke, due>>

SessionUp ==
    /\ dev /\ ~up
    /\ up' = TRUE
    /\ due' = (pc = "wait" \/ (pc = "assert" /\ woke))
    /\ UNCHANGED <<port, dev, gone, gen, heard, faults, transfer, thread, sent, odd, woke>>

(* client_cb, DEV_GONE: the host library gave back the transfer before.    *)
DevGone ==
    /\ gone /\ st = "idle"
    /\ gone' = FALSE /\ dev' = FALSE /\ up' = FALSE
    /\ woke' = FALSE /\ due' = FALSE
    /\ UNCHANGED <<port, gen, heard, faults, transfer, thread, sent, odd>>

(* Mutant of Completed: the callback looks at no status.                   *)
CompletedBlindly(s) == {TRUE}

(* Whether the status is COMPLETED: so for a message that was taken, except*)
(* one taken just before the device left.                                  *)
Completed(s) == IF s # "taken" THEN {FALSE} ELSE IF port THEN {TRUE} ELSE BOOLEAN

(* Mutant of TrySend: the channel has room for everything.                 *)
TrySendAlways(ok) == Append(chan, ok)

(* try_send of ep8_out_cb: what finds the channel full is dropped.         *)
TrySend(ok) == IF chan = <<>> THEN <<ok>> ELSE chan

Ep8OutCb ==
    /\ st = "taken" \/ (st = "sub" /\ (~port \/ faults < MaxFaults))
    /\ faults' = IF port /\ st = "sub" THEN faults + 1 ELSE faults
    /\ st' = "idle"
    /\ \E ok \in Completed(st) : chan' = TrySend(ok)
    /\ odd' = (odd \/ pc \in {"copy", "submit"})
    /\ UNCHANGED <<port, dev, gone, up, gen, heard, data, thread, sent, woke, due>>

-----------------------------------------------------------------------------
(* The display thread                                                      *)

(* The session is up: display_test, which first gives the panels time.     *)
Begin ==
    /\ pc = "wait" /\ up
    /\ pc' = "pause" /\ screen' = 0 /\ step' = 1
    /\ got' = Nothing /\ last' = Empty /\ sent' = {} /\ odd' = (st = "sub") /\ due' = FALSE
    /\ UNCHANGED <<port, dev, gone, up, gen, faults, transfer, t, woke>>

Pause ==
    /\ pc = "pause"
    /\ pc' = "drain"
    /\ UNCHANGED <<controller, transfer, screen, step, t, history>>

(* Mutant of Drain: a stale completion is left in the channel.             *)
DrainNothing ==
    /\ pc = "drain"
    /\ pc' = "copy"
    /\ UNCHANGED <<controller, transfer, screen, step, t, history>>

Drain ==
    /\ pc = "drain"
    /\ chan' = <<>>
    /\ pc' = "copy"
    /\ UNCHANGED <<controller, data, st, screen, step, t, history>>

(* The buffer is filled whether or not the controller still has to take    *)
(* what a write that timed out put there.                                  *)
Copy ==
    /\ pc = "copy"
    /\ t' = gen
    /\ data' = IF st = "sub" THEN Torn ELSE Msg
    /\ odd' = (odd \/ st # "idle")
    /\ pc' = "submit"
    /\ UNCHANGED <<controller, st, chan, screen, step, sent, woke, due>>

(* The next screen, or the end of display_test.                            *)
NextScreen ==
    IF screen = 0
    THEN screen' = 1 /\ step' = 1 /\ pc' = "pause"
    ELSE pc' = "assert" /\ UNCHANGED <<screen, step>>

WriteOk ==
    IF step < Steps
    THEN step' = step + 1 /\ pc' = "drain" /\ UNCHANGED <<screen, sent>>
    ELSE NextScreen /\ sent' = sent \cup {screen}

(* Mutant of WriteErr: a failed message is skipped, not the rest of its    *)
(* picture.                                                                *)
WriteErrGoesOn == WriteOk

(* Mutant of WriteErr: an error in the init sequence ends the thread's     *)
(* round, with nothing that looks whether the session is over.             *)
WriteErrWaits ==
    /\ IF step <= InitLen THEN pc' = "wait" /\ UNCHANGED <<screen, step>> ELSE NextScreen
    /\ UNCHANGED sent

(* An error ends the test during init, and only the picture during a frame.*)
WriteErr ==
    /\ IF step <= InitLen THEN pc' = "assert" /\ UNCHANGED <<screen, step>> ELSE NextScreen
    /\ UNCHANGED sent

(* A submit fails for a controller that is gone or a transfer in flight,   *)
(* and may fail before the endpoint is claimed.                            *)
CanSubmit == port /\ dev /\ st = "idle"

(* The transfer submitted is the one EP8_OUT points to now.                *)
Submit ==
    /\ pc = "submit"
    /\ \/ /\ CanSubmit
          /\ st' = "sub" /\ pc' = "recv"
          /\ UNCHANGED <<screen, step, sent, faults>>
       \/ /\ ~CanSubmit \/ ~up \/ faults < MaxFaults
          /\ faults' = IF CanSubmit /\ up THEN faults + 1 ELSE faults
          /\ WriteErr
          /\ UNCHANGED st
    /\ UNCHANGED <<port, dev, gone, up, gen, heard, data, chan, t, odd, woke, due>>

Recv ==
    /\ pc = "recv" /\ chan # <<>>
    /\ chan' = <<>>
    /\ IF Head(chan) THEN WriteOk ELSE WriteErr
    /\ UNCHANGED <<controller, data, st, t, odd, woke, due>>

(* Mutant of Timeout: the wait has no end.                                 *)
TimeoutNever == FALSE /\ UNCHANGED vars

(* Two seconds without a completion; the transfer stays in flight.         *)
Timeout ==
    /\ pc = "recv" /\ chan = <<>>
    /\ WriteErr
    /\ UNCHANGED <<controller, transfer, t, odd, woke, due>>

(* Mutant of Reassert: it goes on whether or not the session lasts.        *)
ReassertForEver ==
    /\ pc = "assert"
    /\ woke' = TRUE
    /\ UNCHANGED <<controller, transfer, thread, sent, odd, due>>

(* The loop behind the test: while the session is up, send the backlight   *)
(* (a write to the LED channel, UsbSession's) and sleep two seconds.       *)
Reassert ==
    /\ pc = "assert"
    /\ pc' = IF up THEN "assert" ELSE "wait"
    /\ woke' = TRUE
    /\ UNCHANGED <<controller, transfer, screen, step, t, sent, odd, due>>

-----------------------------------------------------------------------------
Client == Attach \/ SessionUp \/ DevGone \/ Ep8OutCb
Thread == Begin \/ Pause \/ Drain \/ Copy \/ Submit \/ Recv \/ Timeout \/ Reassert
Next == PlugIn \/ Unplug \/ Take \/ Client \/ Thread

Spec == Init /\ [][Next]_vars

(* Only the display thread is assumed to run: its sleeps and waits end,    *)
(* whatever the controller, the cable and the client thread do or do not.  *)
FairSpec == Spec /\ WF_vars(Thread)

-----------------------------------------------------------------------------
Messages == (0 .. 1) \X (1 .. Steps) \cup {Empty, Torn}

(* Every variable has its type.                                            *)
TypeOK ==
    /\ port \in BOOLEAN /\ dev \in BOOLEAN /\ gone \in BOOLEAN /\ up \in BOOLEAN
    /\ gen \in 0 .. MaxAttach /\ faults \in 0 .. MaxFaults
    /\ got \in [0 .. 2 -> Seq(0 .. Steps)] /\ last \in Messages /\ data \in Messages
    /\ st \in {"idle", "sub", "taken"} /\ chan \in Seq(BOOLEAN) /\ Len(chan) <= 1
    /\ pc \in Testing \cup {"wait", "assert"} /\ screen \in 0 .. 1 /\ step \in 1 .. Steps
    /\ t \in 0 .. gen
    /\ sent \subseteq 0 .. 1 /\ odd \in BOOLEAN /\ woke \in BOOLEAN /\ due \in BOOLEAN

(* The write that is told its message went through is the one whose message*)
(* the controller took last, also after writes that timed out: a late      *)
(* completion is dropped before the next write (ep8_write, usb.rs:372)     *)
(* unless it comes between the drop and the submit.                        *)
OkMeansTaken ==
    pc = "recv" /\ chan = <<TRUE>> /\ ~odd => last = Msg

(* What a screen was sent for its picture.                                 *)
Drawing(s) == [k \in 1 .. Len(got[s]) - InitLen |-> Frame[got[s][k + InitLen] - InitLen]]

(* A panel whose "test gradient sent" was logged (display_test, usb.rs:409)*)
(* took the init sequence in order and then messages that draw the whole   *)
(* buffer, each in one packet: also when a transfer failed or timed out on *)
(* the other panel before.                                                 *)
PictureWhole ==
    \A s \in sent : ~odd =>
        /\ Len(got[s]) >= InitLen + 3
        /\ \A k \in 1 .. InitLen : got[s][k] = k
        /\ \A k \in InitLen + 1 .. Len(got[s]) : got[s][k] > InitLen
        /\ DrawsBuffer(Drawing(s), Packet, BufSize)

Life == INSTANCE SessionLife
        WITH disp <- IF pc \in Testing THEN "test" ELSE pc

(* However its writes end, the thread goes from its test to the loop that  *)
(* watches the session and from there alone back to waiting for one        *)
(* (usb.rs:459): what UsbSession has of it.                                *)
ImplementsLife == Life!Spec

(* Whatever becomes of the controller and its completions, the display     *)
(* thread gets through its test (usb.rs:381 bounds every write).           *)
TestEnds == pc \in Testing ~> pc \notin Testing

(* A session that came up for a thread that is awake (not in its test, and *)
(* not in the nap it was in when the session before went down) is drawn, if*)
(* it lasts (the loops at usb.rs:460 and 473).                             *)
SessionDrawn == due ~> ~due

=============================================================================
