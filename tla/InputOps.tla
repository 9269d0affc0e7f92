----------------------------- MODULE InputOps -------------------------------
(***************************************************************************)
(* The codecs of crates/mk1-protocol for EP1 messages, pads, buttons and   *)
(* LEDs (lib.rs, input.rs, leds.rs).  A packet is a sequence of bytes; an  *)
(* Option is a value or None.  Buttons are their bits, LEDs their places.  *)
(***************************************************************************)
EXTENDS Integers, Sequences, FiniteSetsExt

None == [kind |-> "none"]

AtMost(a, b) == IF a < b THEN a ELSE b
Abs(a) == IF a < 0 THEN -a ELSE a
Within(a, low, high) == IF a < low THEN low ELSE AtMost(a, high)

(* Integer division of Rust, towards zero, and a number in two bytes.      *)
Quotient(n, d) == IF n < 0 THEN -((-n) \div d) ELSE n \div d
Le16(low, high) == low + 256 * high

-----------------------------------------------------------------------------
(* decode_erp: two tapers, a quarter of a revolution apart, give the place *)
(* of an endless knob.  Each is used where it is steep, and around its     *)
(* peaks, where it is clipped, the other one is.                           *)
LowPeak == -7
HighPeak == 268
Deg180 == HighPeak - LowPeak
Deg90 == Deg180 \div 2
Deg270 == Deg90 + Deg180
Deg360 == 2 * Deg180
Mid == Quotient(HighPeak + LowPeak, 2)

WeightB(a) == Within(Abs(Mid - a) - Quotient(Deg180 \div 2 - 100, 2), 0, 100)

(* Mutant of PosB: the quarter before the zero is not wrapped.             *)
PosBUnwrapped(a, b) ==
    IF a < Mid THEN b - LowPeak + Deg270 ELSE HighPeak - b + Deg90

PosB(a, b) ==
    LET p == b - LowPeak + Deg270
    IN  IF a >= Mid THEN HighPeak - b + Deg90
        ELSE IF p >= Deg360 THEN p - Deg360 ELSE p

PosA(a, b) == IF b > Mid THEN a - LowPeak ELSE HighPeak - a + Deg180

DecodeErp(a, b) ==
    LET ret == Quotient((PosA(a, b) * (100 - WeightB(a)) + PosB(a, b) * WeightB(a)) * 10, Deg360)
        up == IF ret < 0 THEN ret + 1000 ELSE ret
    IN  IF up >= 1000 THEN up - 1000 ELSE up

(* The tapers of knobs 1 to 8, volume, tempo and swing, as byte offsets of *)
(* a; b is in the byte before.                                             *)
ErpOffsets == <<21, 15, 9, 3, 19, 13, 7, 1, 17, 11, 5>>

ParseErp(p) ==
    IF Len(p) < 22 THEN None
    ELSE [kind |-> "knobs",
          vals |-> [k \in 1 .. 11 |-> DecodeErp(p[ErpOffsets[k] + 1], p[ErpOffsets[k]])]]

-----------------------------------------------------------------------------
(* ButtonStates.  ALL lists the buttons in the order of their bits but for *)
(* the softkeys, whose bits run from right to left; bit 8 is reserved.     *)
AllButtons ==
    [i \in 1 .. 41 |-> IF i <= 8 THEN i - 1
                       ELSE IF i <= 31 \/ i > 39 THEN i
                       ELSE 71 - i]

Bit(byte, j) == (byte \div 2^j) % 2 = 1

(* Six bytes at most; a bit of a byte that is missing reads as released.   *)
ParseButtons(p) == {x \in 0 .. 47 : x \div 8 < Len(p) /\ Bit(p[(x \div 8) + 1], x % 8)}

(* Mutant of Diff: only presses are reported.                              *)
DiffPresses(now, prev) ==
    LET changed == SelectSeq(AllButtons, LAMBDA b : b \in now \ prev)
    IN  [i \in DOMAIN changed |-> <<changed[i], changed[i] \in now>>]

Diff(now, prev) ==
    LET changed == SelectSeq(AllButtons, LAMBDA b : (b \in now) # (b \in prev))
    IN  [i \in DOMAIN changed |-> <<changed[i], changed[i] \in now>>]

-----------------------------------------------------------------------------
(* EP1 messages                                                            *)
Ep1BufSize == 64
CmdDeviceInfo == 1
CmdReadErp == 2
CmdReadIo == 4
CmdMidiRead == 6
CmdMidiWrite == 7
CmdDimmLeds == 12

(* The fields of the reply, which passes over four of its bytes.           *)
ParseDeviceInfo(p) ==
    IF Len(p) < 13 THEN None
    ELSE [kind |-> "info", version |-> Le16(p[1], p[2]),
          counts |-> SubSeq(p, 3, 7) \o SubSeq(p, 12, 13)]

(* Mutant of ParseMidi: a message that is cut short is taken as it is.     *)
ParseMidiCut(p) ==
    IF Len(p) < 2 THEN None
    ELSE [kind |-> "midi", port |-> p[1], bytes |-> SubSeq(p, 3, Len(p))]

ParseMidi(p) ==
    IF Len(p) < 2 \/ Len(p) - 2 < p[2] THEN None
    ELSE [kind |-> "midi", port |-> p[1], bytes |-> SubSeq(p, 3, 2 + p[2])]

Ep1Parse(buf) ==
    IF buf = <<>> THEN None
    ELSE LET p == Tail(buf)
         IN  CASE Head(buf) = CmdDeviceInfo -> ParseDeviceInfo(p)
               [] Head(buf) = CmdReadErp -> ParseErp(p)
               [] Head(buf) = CmdReadIo -> [kind |-> "buttons", down |-> ParseButtons(p)]
               [] Head(buf) = CmdMidiRead -> ParseMidi(p)
               [] OTHER -> [kind |-> "unknown", cmd |-> Head(buf)]

(* Mutant of MidiWrite: the length says what was asked for.                *)
MidiWriteLong(bytes) ==
    <<CmdMidiWrite, 0, Len(bytes)>> \o SubSeq(bytes, 1, AtMost(Len(bytes), Ep1BufSize - 3))

(* What does not fit one message is the caller's to split.                 *)
MidiWrite(bytes) ==
    LET n == AtMost(Len(bytes), Ep1BufSize - 3)
    IN  <<CmdMidiWrite, 0, n>> \o SubSeq(bytes, 1, n)

-----------------------------------------------------------------------------
(* Pads: a word of two bytes tells pad and pressure; pads are counted from *)
(* the top left in reports and from the bottom left on the unit.           *)

(* Mutant of PadWord: the bytes of a word are swapped.                     *)
PadWordBig(low, high) == <<Le16(high, low) \div 4096, Le16(high, low) % 4096>>

PadWord(low, high) == <<Le16(low, high) \div 4096, Le16(low, high) % 4096>>

(* An odd byte at the end is no word.                                      *)
ParsePads(p) == [i \in 1 .. Len(p) \div 2 |-> PadWord(p[2 * i - 1], p[2 * i])]

(* Mutant of PadNumber: rows from the top.                                 *)
PadNumberFromTop(raw) == raw + 1

PadNumber(raw) == (3 - raw \div 4) * 4 + (raw % 4) + 1

-----------------------------------------------------------------------------
(* LEDs: Led::pad, and Led::for_button by bit, where the reserved bit has  *)
(* none (-1).                                                              *)
PadLed(index) == <<3, 2, 1, 0, 7, 6, 5, 4, 11, 10, 9, 8, 15, 14, 13, 12>>[index + 1]
Backlight == 59

ButtonLed(bit) ==
    <<16, 17, 18, 19, 20, 21, 22, 23, -1, 28, 25, 24, 26, 27, 32, 33,
      39, 38, 35, 34, 36, 37, 40, 41, 49, 47, 45, 43, 42, 44, 46, 48,
      50, 51, 52, 53, 54, 55, 56, 57, 58, 29>>[bit + 1]

Leds == {PadLed(i) : i \in 0 .. 15} \cup {ButtonLed(AllButtons[i]) : i \in 1 .. 41} \cup {Backlight}

MaxBrightness == 63
BankSize == 32
BankIds == <<0, 30>>

NewLeds == [state |-> [i \in 0 .. 63 |-> 0], dirty |-> {0, 1}]

SetLed(s, led, brightness) ==
    LET v == AtMost(brightness, MaxBrightness)
    IN  IF s.state[led] = v THEN s
        ELSE [state |-> [s.state EXCEPT ![led] = v], dirty |-> s.dirty \cup {led \div BankSize}]

(* Mutant of FrameOf: the second bank starts where its identifier says.    *)
FrameFromId(s, bank) ==
    <<CmdDimmLeds, BankIds[bank + 1]>> \o
    [i \in 1 .. BankSize |-> s.state[BankIds[bank + 1] + i - 1]]

FrameOf(s, bank) ==
    <<CmdDimmLeds, BankIds[bank + 1]>> \o
    [i \in 1 .. BankSize |-> s.state[bank * BankSize + i - 1]]

(* frames() also clears the dirty flags of the banks it encodes.           *)
FramesOf(s) == [i \in 1 .. 2 |-> IF i - 1 \in s.dirty THEN FrameOf(s, i - 1) ELSE <<>>]
Flushed(s) == [s EXCEPT !.dirty = {}]

=============================================================================
