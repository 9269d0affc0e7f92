---------------------------- MODULE SessionLife -----------------------------
(***************************************************************************)
(* The life of USB sessions, as the two threads of usb.rs that meet in     *)
(* SESSION_UP and DEV owe it to each other.  UsbSession has the client     *)
(* thread in every step and of the display thread three places, Display it *)
(* is the other way round.  Both implement this module, so that what either*)
(* leaves out of the other's thread does no more than is said here.        *)
(***************************************************************************)
VARIABLES
    port,       \* a controller is plugged in
    dev,        \* DEV is not null
    gone,       \* its departure is still to be reported
    up,         \* SESSION_UP
    disp        \* the display thread: "wait", "test", "assert"

life == <<port, dev, gone, up, disp>>

Init == port = FALSE /\ dev = FALSE /\ gone = FALSE /\ up = FALSE /\ disp = "wait"

-----------------------------------------------------------------------------
(* The next controller comes when the one before is closed.                *)
PlugIn ==
    /\ ~port /\ ~dev /\ ~gone
    /\ port' = TRUE
    /\ UNCHANGED <<dev, gone, up, disp>>

Unplug ==
    /\ port
    /\ port' = FALSE /\ gone' = dev
    /\ UNCHANGED <<dev, up, disp>>

(* It is opened with no session left and no departure to be reported.      *)
Attach ==
    /\ port /\ ~dev /\ ~gone /\ ~up
    /\ dev' = TRUE
    /\ UNCHANGED <<port, gone, up, disp>>

SessionUp ==
    /\ dev /\ ~up
    /\ up' = TRUE
    /\ UNCHANGED <<port, dev, gone, disp>>

DevGone ==
    /\ gone
    /\ dev' = FALSE /\ gone' = FALSE /\ up' = FALSE
    /\ UNCHANGED <<port, disp>>

(* An attach may panic, but no session is ended by it.                     *)
Restart ==
    /\ dev /\ ~up
    /\ dev' = FALSE /\ gone' = FALSE /\ disp' = "wait"
    /\ UNCHANGED <<port, up>>

-----------------------------------------------------------------------------
(* The thread draws when a session is up and waits when it sees none.  It  *)
(* need not see every session.                                             *)
Wake ==
    /\ disp = "wait" /\ up
    /\ disp' = "test"
    /\ UNCHANGED <<port, dev, gone, up>>

Tested ==
    /\ disp = "test"
    /\ disp' = "assert"
    /\ UNCHANGED <<port, dev, gone, up>>

Quit ==
    /\ disp = "assert" /\ ~up
    /\ disp' = "wait"
    /\ UNCHANGED <<port, dev, gone, up>>

-----------------------------------------------------------------------------
Client == Attach \/ SessionUp \/ DevGone \/ Restart
Thread == Wake \/ Tested \/ Quit
Next == PlugIn \/ Unplug \/ Client \/ Thread

Spec == Init /\ [][Next]_life

=============================================================================
