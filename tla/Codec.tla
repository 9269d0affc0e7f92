------------------------------- MODULE Codec --------------------------------
(***************************************************************************)
(* The pure functions of the system, called one at a time with inputs from *)
(* small sets: what goes in is what a unit, a host, a browser or a client  *)
(* on the network can send, what comes out is held against a reference.    *)
(* One action per kind of call; Again makes room for the next.             *)
(***************************************************************************)
EXTENDS PanelOps, TextOps, SequencesExt

CONSTANTS
    Angles,     \* where the knobs stand, of 0 .. 549
    Noises,     \* by how much a taper may read too high
    Pressures,  \* of 0 .. 4095
    Brightness, \* of 0 .. 255
    Grays,      \* of 0 .. 255
    Width, Height,   \* pixels of a panel, 255 by 64
    AddrLens, TextLens, MidiLens,   \* lengths of addresses, texts, messages
    Texts,      \* what is typed into the form
    Others      \* what stands in its other field

ASSUME CodecAssumption ==
    /\ Angles \subseteq 0 .. 549 /\ Noises \subseteq Int /\ Width % 3 = 0
    /\ Pressures \subseteq 0 .. 4095 /\ Brightness \subseteq 0 .. 255 /\ Grays \subseteq 0 .. 255

VARIABLES op, in, out
vars == <<op, in, out>>

Ready == op = "none"
Call(name, input, output) == op' = name /\ in' = input /\ out' = output

-----------------------------------------------------------------------------
(* The unit's side.  An endless knob has two tapers, triangles between the *)
(* peaks and a quarter of a revolution apart, read in a byte each.         *)
Taper(p) == IF p <= 275 THEN p - 7 ELSE 543 - p
Reading(p, noise) == Within(Taper(p % 550) + noise, 0, 255)

(* The report lists the knobs column by column, b before a.  Here each one *)
(* is turned by 50 against the one before.                                 *)
Columns == <<8, 4, 11, 7, 3, 10, 6, 2, 9, 5, 1>>
AngleOf(p, knob) == (p + 50 * knob) % 550
KnobReport(p, m, n) ==
    [i \in 1 .. 22 |->
        IF i % 2 = 1 THEN Reading(AngleOf(p, Columns[(i + 1) \div 2]) + 138, n)
        ELSE Reading(AngleOf(p, Columns[i \div 2]), m)]

ReadKnobs ==
    /\ Ready
    /\ \E p \in Angles, m \in Noises, n \in Noises :
           Call("knobs", <<p, m, n>>, ParseErp(KnobReport(p, m, n)))

(* The buttons that are down, in so many bytes.                            *)
ButtonBytes(down, len) ==
    [i \in 1 .. len |-> MapThenSumSet(LAMBDA j : IF 8 * (i - 1) + j \in down THEN 2^j ELSE 0, 0 .. 7)]

ReadButtons ==
    /\ Ready
    /\ \E a \in 0 .. 47, b \in 0 .. 47, len \in {5, 6, 8} :
           LET before == {a, 11}
               now == {b, 40}
           IN  Call("buttons", <<before, now, len>>,
                    Diff(ParseButtons(ButtonBytes(now, len)), ParseButtons(ButtonBytes(before, 6))))

ReadPads ==
    /\ Ready
    /\ \E pad \in 0 .. 15, p, q \in Pressures, odd \in BOOLEAN :
           LET word(i, v) == <<v % 256, 16 * i + (v \div 256)>>
           IN  Call("pads", <<<<pad, p>>, <<15 - pad, q>>>>,
                    ParsePads(word(pad, p) \o word(15 - pad, q) \o (IF odd THEN <<2>> ELSE <<>>)))

(* Messages of the unit, whole and cut short after some bytes.             *)
Messages == [
    info |-> <<CmdDeviceInfo>> \o [i \in 1 .. 13 |-> i],
    knobs |-> <<CmdReadErp>> \o KnobReport(0, 0, 0),
    midi |-> <<CmdMidiRead, 0, 3, 144, 60, 100>>]

ReadCut ==
    /\ Ready
    /\ \E kind \in DOMAIN Messages : \E n \in 0 .. Len(Messages[kind]) :
           Call("cut", <<kind, n>>, Ep1Parse(SubSeq(Messages[kind], 1, n)))

WriteMidi ==
    /\ Ready
    /\ \E n \in MidiLens : Call("midi", n, MidiWrite([i \in 1 .. n |-> i]))

-----------------------------------------------------------------------------
(* LEDs: two are set, and what is flushed after each goes to the unit,     *)
(* whose second bank is the one with identifier 30.                        *)
Shown(panel, frames) ==
    [i \in 0 .. 63 |->
        LET bank == IF i < 32 THEN 0 ELSE 30
            mine == {k \in DOMAIN frames : frames[k] # <<>> /\ frames[k][2] = bank}
        IN  IF mine = {} THEN panel[i] ELSE frames[Min(mine)][3 + (i % 32)]]

WriteLeds ==
    /\ Ready
    /\ \E a \in Leds, b \in {3, 29, 32, Backlight}, v, w \in Brightness :
           LET one == SetLed(Flushed(NewLeds), a, v)
               two == SetLed(Flushed(one), b, w)
               dark == [i \in 0 .. 63 |-> 0]
           IN  Call("leds", <<a, b, v, w>>, Shown(Shown(dark, FramesOf(one)), FramesOf(two)))

(* A control's key and the LED a message for that key lights.              *)
Pad(raw) == [kind |-> "pad", raw |-> raw]
Button(bit) == [kind |-> "button", bit |-> bit]
Controls == {Pad(raw) : raw \in 0 .. 15} \cup {Button(AllButtons[i]) : i \in 1 .. 41}
Key(c, bank) == IF c.kind = "pad" THEN PadKey(c.raw, bank) ELSE ButtonKey(c.bit, bank)
Lit(slot, active) == IF slot = None THEN -1 ELSE ShownAt(slot, active)

NameKey ==
    /\ Ready
    /\ \E c \in Controls, bank, active \in 0 .. 7 :
           LET key == Key(c, bank)
           IN  Call("key", <<c, bank, active>>,
                    IF key = None THEN -1 ELSE Lit(LedSlot(key), active))

(* The names a host may write to, those of groups too.                     *)
Names ==
    {[form |-> "backlight"]} \cup {[form |-> "pad", n |-> n] : n \in 0 .. 17}
    \cup {[form |-> f, b |-> AllButtons[i]] : f \in {"button", "name"}, i \in 1 .. 41}
    \cup {[form |-> "banked", bank |-> k, what |-> w, n |-> n] :
             k \in {0, 7, 8}, w \in {"pad", "softkey"}, n \in 0 .. 17}

NameLed ==
    /\ Ready
    /\ \E name \in Names, active \in {0, 7} :
           Call("name", <<name, active>>, Lit(LedNameSlot(name, active), active))

-----------------------------------------------------------------------------
Places == (0 .. Width) \X (0 .. Height)
DrawPixels ==
    /\ Ready
    /\ \E back \in Grays, p, q \in Places, g, h \in Grays :
           Call("pixels", <<back, p, g, q, h>>,
                SetPixel(SetPixel(Fill(NewDisplay(Width, Height), back), p[1], p[2], g), q[1], q[2], h))

SendFrame ==
    /\ Ready
    /\ \/ Call("frame", 64, FrameFs(64, 10880))
       \/ Call("frame", 512, FrameHs(10880))

-----------------------------------------------------------------------------
Text(len, first) == [i \in 1 .. len |-> first + i]
Values == [type : {"f32", "i32"}, bytes : {<<0, 0, 0, 0>>, <<63, 128, 0, 0>>, <<0, 0, 0, 1>>}]

(* What an address ends with: characters of one to three bytes, or bytes   *)
(* that are none, from a host that does not write UTF-8.                   *)
Written == {<<>>, <<195, 169>>, <<226, 130, 172>>}
Broken == {<<195>>, <<169>>, <<224, 130, 172>>}

(* The firmware's packet, the bridge's, and what each reads in it.         *)
SendOsc ==
    /\ Ready
    /\ \E len \in AddrLens, tail \in Written \cup Broken, v \in Values :
           LET addr == Text(len, 46) \o tail
               packet == OscMsg(addr, v)
           IN  Call("osc", <<addr, v, tail>>,
                    [packet |-> packet, bridge |-> BridgeOsc(addr, v),
                     parsed |-> OscParse(packet), decoded |-> BridgeDecode(packet)])

SendText ==
    /\ Ready
    /\ \E len \in AddrLens, n \in TextLens :
           Call("text", <<Text(len, 46), Text(n, 96)>>, OscMsgS(Text(len, 46), Text(n, 96)))

-----------------------------------------------------------------------------
(* The browser's encoding of a field.                                      *)
Escaped(c) ==
    IF c = " " THEN <<"+">>
    ELSE IF \E pair \in DOMAIN Hex : Hex[pair] = c
    THEN <<"%">> \o (CHOOSE pair \in DOMAIN Hex : Hex[pair] = c)
    ELSE <<c>>
Encoded(s) == FlattenSeq([i \in DOMAIN s |-> Escaped(s[i])])

SubmitForm ==
    /\ Ready
    /\ \E s \in Texts, other \in Others :
           LET form == <<"o", "=">> \o Encoded(other) \o <<"&", "k", "=">> \o Encoded(s)
           IN  Call("form", <<s, other>>, <<FormValue(form, <<"k">>), FormValue(form, <<"o">>)>>)

(* What a client sends: a query with a question and, for one that speaks   *)
(* EDNS, a record behind it; or a reply that strayed here, or rubbish.     *)
Queries ==
    [short : BOOLEAN, qr : BOOLEAN, qd : {1}, an : {0}, ns : {0}, ar : {0}, records : {<<"question">>}]
    \cup [short : {FALSE}, qr : BOOLEAN, qd : {1}, an : {0}, ns : {0}, ar : {1},
          records : {<<"question", "OPT">>}]

AskDns == Ready /\ \E q \in Queries : Call("dns", q, DnsReply(q))

-----------------------------------------------------------------------------
Again ==
    /\ ~Ready
    /\ op' = "none" /\ in' = None /\ out' = None

Init == op = "none" /\ in = None /\ out = None

Next ==
    \/ ReadKnobs \/ ReadButtons \/ ReadPads \/ ReadCut \/ WriteMidi
    \/ WriteLeds \/ NameKey \/ NameLed
    \/ DrawPixels \/ SendFrame
    \/ SendOsc \/ SendText \/ SubmitForm \/ AskDns
    \/ Again

Spec == Init /\ [][Next]_vars

-----------------------------------------------------------------------------
(* Every knob of a report reads as where it stands, also around the peaks  *)
(* where a taper is clipped and across the zero; noise of one on a taper   *)
(* costs no more than the place it stands for (decode_erp, input.rs:8, and *)
(* ERP_OFFSETS).                                                           *)
KnobsReadAngles ==
    op = "knobs" =>
        \A k \in 1 .. 11 :
            LET apart == Abs(550 * out.vals[k] - 1000 * AngleOf(in[1], k))
                noise == FoldSet(LAMBDA a, b : IF a > b THEN a ELSE b, 0, {Abs(in[2]), Abs(in[3])})
            IN  /\ out.vals[k] \in 0 .. 999
                /\ AtMost(apart, 550000 - apart) <= 500 + 1000 * noise

(* Who follows the differences that are reported knows which buttons are   *)
(* down, whatever the reserved bits do and however long the report is      *)
(* (ButtonStates::diff, input.rs:226).                                     *)
ButtonsFollowed ==
    op = "buttons" =>
        LET real == (0 .. 41) \ {8}
            off == {out[i][1] : i \in {j \in DOMAIN out : ~out[j][2]}}
            on == {out[i][1] : i \in {j \in DOMAIN out : out[j][2]}}
        IN  /\ ((in[1] \cap real) \ off) \cup on = in[2] \cap real \cap 0 .. 8 * in[3] - 1
            /\ on \cap off = {} /\ Len(out) = Cardinality(on \cup off)

(* Pads and pressures are read as they were sent (parse_pads,              *)
(* input.rs:268).                                                          *)
PadsRead == op = "pads" => out = in

(* A message that is cut short is not taken for a shorter one (input.rs:   *)
(* 247).                                                                   *)
CutRefused ==
    op = "cut" =>
        LET whole == in[2] = Len(Messages[in[1]])
        IN  (out = None) = ~whole /\ (whole => out.kind = in[1])

(* A MIDI message goes out with as much as one message holds, and says how *)
(* much that is: read as one from the unit it is this much, unchanged      *)
(* (midi_write, lib.rs:50).                                                *)
MidiFits ==
    op = "midi" =>
        /\ Len(out) <= Ep1BufSize
        /\ ParseMidi(Tail(out)) # None
        /\ ParseMidi(Tail(out)).bytes = Slice(1, 1 + AtMost(in, 61))

(* After two LEDs were set and flushed, each at its own place in its bank, *)
(* the unit shows both and nothing else (LedState::frames, leds.rs:131).   *)
LedsShown ==
    op = "leds" =>
        out = [i \in 0 .. 63 |->
                  IF i = in[2] THEN AtMost(in[4], 63)
                  ELSE IF i = in[1] THEN AtMost(in[3], 63) ELSE 0]

(* Feedback sent to the key a control is published under lights the LED    *)
(* under that control if its bank is active, and no other; buttons have no *)
(* bank, groups no key.  Pads are counted from the top left in reports,    *)
(* from the bottom left in keys, and right to left in rows of LEDs         *)
(* (pad_number, input.rs:277; led_slot, osc.rs:150; Led::pad).             *)
LedUnderControl ==
    op = "key" =>
        LET c == in[1]
            banked == c.kind = "pad" \/ IsSoftkey(c.bit)
        IN  out = CASE banked /\ in[2] # in[3] -> -1
                    [] c.kind = "pad" -> 15 - c.raw
                    [] c.kind = "button" /\ IsGroup(c.bit) -> -1
                    [] OTHER -> ButtonLed(c.bit)

(* No name a host may write to lights a group's LED, which is the unit's   *)
(* own, and a name that is none lights nothing (led_name_slot,             *)
(* osc.rs:374).                                                            *)
GroupsDeviceOwned ==
    op = "name" =>
        LET name == in[1]
            badNumber == (name.form = "pad" /\ name.n \notin 1 .. 16)
                         \/ (name.form = "banked" /\ (name.bank = 8 \/ name.n \notin 1 .. (IF name.what = "pad" THEN 16 ELSE 8)))
        IN  /\ out \notin {ButtonLed(GroupBits[i]) : i \in 1 .. 8}
            /\ badNumber => out = -1

(* How bright a panel shows a pixel.                                       *)
Gray(d, x, y) ==
    LET i == y * RowBytes(d.w) + (x \div 3) * 2
        one == d.buf[i]
        two == d.buf[i + 1]
    IN  31 - CASE x % 3 = 0 -> one \div 8
               [] x % 3 = 1 -> (one % 8) * 4 + (two \div 64)
               [] x % 3 = 2 -> two % 32

(* Of three pixels in two bytes each can be set without the others, and    *)
(* one off the panel changes nothing (set_pixel, display.rs:86).           *)
PixelsApart ==
    op = "pixels" =>
        \A x \in 0 .. Width - 1, y \in 0 .. Height - 1 :
            Gray(out, x, y) =
                Smaller(31, IF <<x, y>> = in[4] THEN in[5]
                            ELSE IF <<x, y>> = in[2] THEN in[3] ELSE in[1])

(* Both ways of cutting a picture up draw all of it, in messages that fit  *)
(* a packet and tell their length (send_frame_fs and send_frame,           *)
(* display.rs:123, 152).                                                   *)
FramesDraw == op = "frame" => DrawsBuffer(out, in, 10880)

(* What an OSC reader makes of a packet: a text ends at a zero, the next   *)
(* one begins at the next multiple of four.                                *)
EndAt(d, i) == Min({j \in i .. Len(d) : d[j] = 0})
TextAt(d, i) == SubSeq(d, i, EndAt(d, i) - 1)
After(d, i) == i + 4 * ((EndAt(d, i) - i) \div 4) + 4

(* Firmware and bridge pad a message in different ways to the same packet, *)
(* and both read in it the address, and of a float the value, that was     *)
(* sent; a packet whose address is not UTF-8 neither takes (osc.rs:50, 85; *)
(* osc and osc_decode of mk1-bridge).  They do not read an integer as it   *)
(* was sent: its bytes are taken for those of a float (osc.rs:91).  Any    *)
(* OSC reader that heeds the tag finds address, tag and number or text,    *)
(* each text ended by a zero also when it fills its last four bytes.       *)
OscAgrees ==
    /\ op = "osc" =>
        /\ out.decoded = out.parsed
        /\ (out.parsed = None) = (in[3] \in Broken)
        /\ out.parsed # None => out.parsed.addr = in[1]
        /\ in[2].type = "f32" =>
            /\ out.packet = out.bridge
            /\ out.parsed # None => out.parsed.value = in[2]
    /\ op \in {"osc", "text"} =>
        LET d == IF op = "osc" THEN out.packet ELSE out
            tag == After(d, 1)
            arg == After(d, tag)
        IN  /\ Len(d) % 4 = 0 /\ TextAt(d, 1) = in[1]
            /\ TextAt(d, tag) = IF op = "osc" THEN TagOf[in[2].type] ELSE TagS
            /\ IF op = "osc" THEN SubSeq(d, arg, Len(d)) = in[2].bytes
               ELSE TextAt(d, arg) = in[2] /\ After(d, arg) = Len(d) + 1

(* What is typed into the form arrives (form_value, portal.rs:176), with   *)
(* escapes, separators and escapes at the end, in either field.            *)
FormArrives ==
    op = "form" => out[1].text = in[1] /\ out[2].text = in[2]

(* The first record a client finds behind the question is the one answer   *)
(* it was told of (dns_catch_all, portal.rs:163).  Not so for a query with *)
(* a record of its own behind the question, which is kept in front of the  *)
(* answer.                                                                 *)
DnsAnswers ==
    op = "dns" /\ ~in.short /\ ~in.qr =>
        /\ out # None /\ out.qr /\ out.an = 1 /\ out.ns + out.ar = 0
        /\ in.ar = 0 => out.records = <<"question", DnsAnswer>>

-----------------------------------------------------------------------------
(* What the controller reports is read as it was sent: all the knobs as    *)
(* where they stand, buttons past reserved bits and missing bytes, pads    *)
(* past an odd byte, no message that was cut, and MIDI in as much as one   *)
(* message holds (input.rs:8, 226, 247, 268; lib.rs:50).                   *)
ReportsRead == KnobsReadAngles /\ ButtonsFollowed /\ PadsRead /\ CutRefused /\ MidiFits

(* What is lit and drawn is what the controller shows.  A brightness sent  *)
(* for a control, by its key or by a name, ends up at the LED under that   *)
(* control and nowhere else, through the keys (osc.rs:150, 374), the order *)
(* of the LEDs (leds.rs:11, 31) and the two banks in which they are sent   *)
(* (leds.rs:131).  Pixels that share bytes do not disturb each other       *)
(* (display.rs:86), and either way of cutting a picture up sends all of it *)
(* (display.rs:123, 152).                                                  *)
ShownAsMeant == LedUnderControl /\ GroupsDeviceOwned /\ LedsShown /\ PixelsApart /\ FramesDraw

(* Who talks to the firmware in OSC, a form or DNS understands it and is   *)
(* understood, but for integers sent to it (osc.rs:50, 85; portal.rs:163,  *)
(* 176).                                                                   *)
TextsUnderstood == OscAgrees /\ FormArrives /\ DnsAnswers

=============================================================================
