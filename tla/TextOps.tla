------------------------------ MODULE TextOps -------------------------------
(***************************************************************************)
(* The firmware's text and network formats: OSC packets and the names of   *)
(* LEDs (firmware-rs/src/osc.rs), the portal's form and its DNS replies    *)
(* (portal.rs).  Packets are sequences of bytes.  Names are records of     *)
(* their parts, forms sequences of characters.                             *)
(***************************************************************************)
EXTENDS InputOps

-----------------------------------------------------------------------------
(* OSC: text is ended by a zero and filled up with zeros to four bytes.    *)
Zeros(n) == [i \in 1 .. n |-> 0]

(* Mutant of Pad4: text of four bytes is not ended.                        *)
Pad4Bare(s) == s \o Zeros((4 - (Len(s) % 4)) % 4)

Pad4(s) == LET b == Append(s, 0) IN b \o Zeros((4 - (Len(b) % 4)) % 4)

OscHead(addr, tag) == Pad4(Pad4(addr) \o tag)

(* osc_msg and osc_msg_i write a number in four bytes, osc_msg_s text.  A  *)
(* number is its type and these bytes.                                     *)
TagOf == [f32 |-> <<44, 102>>, i32 |-> <<44, 105>>]
TagS == <<44, 115>>
OscMsg(addr, v) == OscHead(addr, TagOf[v.type]) \o v.bytes
OscMsgS(addr, text) == Pad4(OscHead(addr, TagS) \o text)

(* Both readers take the four bytes a packet ends with for a float,        *)
(* whatever its tag says.                                                  *)
FloatAtEnd(d) == [type |-> "f32", bytes |-> SubSeq(d, Len(d) - 3, Len(d))]

(* from_utf8: every character is led by a byte that tells its length, and  *)
(* neither written longer than it need be nor outside of Unicode.          *)
CharLen(b) ==
    CASE b \in 0 .. 127 -> 1 [] b \in 194 .. 223 -> 2 [] b \in 224 .. 239 -> 3
      [] b \in 240 .. 244 -> 4 [] OTHER -> 0
Second(b) ==
    CASE b = 224 -> 160 .. 191 [] b = 237 -> 128 .. 159
      [] b = 240 -> 144 .. 191 [] b = 244 -> 128 .. 143 [] OTHER -> 128 .. 191
CharAt(s, i) ==
    LET n == CharLen(s[i])
    IN  /\ n > 0 /\ i + n - 1 <= Len(s)
        /\ \A j \in i + 1 .. i + n - 1 : s[j] \in (IF j = i + 1 THEN Second(s[i]) ELSE 128 .. 191)
Utf8(s) ==
    LET from[i \in 1 .. Len(s) + 1] == i > Len(s) \/ (CharAt(s, i) /\ from[i + CharLen(s[i])])
    IN  from[1]

(* osc_parse: the address ends at the first zero.                          *)
OscParse(d) ==
    LET zeros == {i \in DOMAIN d : d[i] = 0}
        addr == SubSeq(d, 1, Min(zeros) - 1)
    IN  IF zeros = {} \/ ~Utf8(addr) \/ Len(d) < Len(addr) + 8 THEN None
        ELSE [kind |-> "osc", addr |-> addr, value |-> FloatAtEnd(d)]

(* osc of the bridge pads the other way round, by four minus the rest, and *)
(* writes floats only.                                                     *)
BridgePad(s) == s \o Zeros(4 - (Len(s) % 4))
BridgeOsc(addr, v) == BridgePad(BridgePad(addr) \o TagOf.f32) \o v.bytes

(* osc_decode has no lower limit but the four bytes of the value.          *)
BridgeDecode(d) ==
    LET zeros == {i \in DOMAIN d : d[i] = 0}
        addr == SubSeq(d, 1, IF zeros = {} THEN Len(d) ELSE Min(zeros) - 1)
    IN  IF ~Utf8(addr) THEN None
        ELSE [kind |-> "osc", addr |-> addr, value |-> FloatAtEnd(d)]

-----------------------------------------------------------------------------
(* Names.  Groups A to H and softkeys 1 to 8 by their bits.                *)
GroupBits == <<23, 22, 21, 20, 16, 17, 18, 19>>
IsGroup(b) == 16 <= b /\ b <= 23
IsSoftkey(b) == 32 <= b /\ b <= 39
SoftkeyIndex(b) == 39 - b
SoftkeyLed(i) == ButtonLed(39 - i)

PadSlot(bank, i) == [kind |-> "pad", bank |-> bank, i |-> i]
SoftkeySlot(bank, i) == [kind |-> "softkey", bank |-> bank, i |-> i]
ButtonSlot(led) == [kind |-> "button", led |-> led]

(* The key a control is published under in the active bank, None for a     *)
(* group button (on_event, on_button).                                     *)
PadKey(raw, bank) == [form |-> "banked", bank |-> bank, what |-> "pad", n |-> PadNumber(raw)]
ButtonKey(b, bank) ==
    IF IsGroup(b) THEN None
    ELSE IF IsSoftkey(b)
    THEN [form |-> "banked", bank |-> bank, what |-> "softkey", n |-> SoftkeyIndex(b) + 1]
    ELSE [form |-> "button", b |-> b]

(* Mutant of LedSlot: the number in a name is taken for an index.          *)
LedSlotFromOne(key) ==
    CASE key.form = "button" ->
            IF IsGroup(key.b) \/ IsSoftkey(key.b) THEN None ELSE ButtonSlot(ButtonLed(key.b))
      [] key.form = "banked" /\ key.bank \in 0 .. 7 /\ key.what = "pad" /\ key.n \in 1 .. 15 ->
            PadSlot(key.bank, key.n)
      [] key.form = "banked" /\ key.bank \in 0 .. 7 /\ key.what = "softkey" /\ key.n \in 1 .. 7 ->
            SoftkeySlot(key.bank, key.n)
      [] OTHER -> None

(* led_slot: "button/<name>" and "<bank>/pad|softkey/<n>".                 *)
LedSlot(key) ==
    CASE key.form = "button" ->
            IF IsGroup(key.b) \/ IsSoftkey(key.b) THEN None ELSE ButtonSlot(ButtonLed(key.b))
      [] key.form = "banked" /\ key.bank \in 0 .. 7 /\ key.what = "pad" /\ key.n \in 1 .. 16 ->
            PadSlot(key.bank, key.n - 1)
      [] key.form = "banked" /\ key.bank \in 0 .. 7 /\ key.what = "softkey" /\ key.n \in 1 .. 8 ->
            SoftkeySlot(key.bank, key.n - 1)
      [] OTHER -> None

(* Mutant of LedNameSlot: the name of a group button is not refused.       *)
LedNameSlotGroups(name, active) ==
    CASE LedSlot(name) # None -> LedSlot(name)
      [] name.form = "backlight" -> ButtonSlot(Backlight)
      [] name.form = "pad" /\ name.n \in 1 .. 16 -> PadSlot(active, name.n - 1)
      [] name.form = "name" /\ IsSoftkey(name.b) -> SoftkeySlot(active, SoftkeyIndex(name.b))
      [] name.form = "name" -> ButtonSlot(ButtonLed(name.b))
      [] OTHER -> None

(* led_name_slot: also "backlight" and the unbanked "pad/<n>" and "<name>",*)
(* which mean the active bank.                                             *)
LedNameSlot(name, active) ==
    CASE LedSlot(name) # None -> LedSlot(name)
      [] name.form = "backlight" -> ButtonSlot(Backlight)
      [] name.form = "pad" /\ name.n \in 1 .. 16 -> PadSlot(active, name.n - 1)
      [] name.form = "name" /\ IsSoftkey(name.b) -> SoftkeySlot(active, SoftkeyIndex(name.b))
      [] name.form = "name" /\ ~IsGroup(name.b) -> ButtonSlot(ButtonLed(name.b))
      [] OTHER -> None

(* The LED apply_led sends for a slot, -1 when its bank is not active.     *)
ShownAt(slot, active) ==
    CASE slot.kind = "button" -> slot.led
      [] slot.kind \in {"pad", "softkey"} /\ slot.bank # active -> -1
      [] slot.kind = "pad" -> PadLed(slot.i)
      [] slot.kind = "softkey" -> SoftkeyLed(slot.i)

-----------------------------------------------------------------------------
(* percent_decode.  Hex is the digits of the characters that occur.        *)
Hex == [pair \in {<<"2", "5">>, <<"2", "6">>, <<"3", "D">>, <<"2", "B">>} |->
            CASE pair = <<"2", "5">> -> "%"
              [] pair = <<"2", "6">> -> "&"
              [] pair = <<"3", "D">> -> "="
              [] pair = <<"2", "B">> -> "+"]

(* Mutant of IsEscape: an escape that ends the value is left as it is.     *)
IsEscapeInside(s, i) == s[i] = "%" /\ i + 2 < Len(s) /\ SubSeq(s, i + 1, i + 2) \in DOMAIN Hex

IsEscape(s, i) == s[i] = "%" /\ i + 2 <= Len(s) /\ SubSeq(s, i + 1, i + 2) \in DOMAIN Hex

PercentDecode(s) ==
    LET from[i \in 1 .. Len(s) + 3] ==
            IF i > Len(s) THEN <<>>
            ELSE IF IsEscape(s, i) THEN <<Hex[SubSeq(s, i + 1, i + 2)]>> \o from[i + 3]
            ELSE <<IF s[i] = "+" THEN " " ELSE s[i]>> \o from[i + 1]
    IN  from[1]

(* form_value: the first field with this key; a field without "=" is none. *)
Fields(form) ==
    LET cuts == {i \in DOMAIN form : form[i] = "&"} \cup {0, Len(form) + 1}
    IN  {<<i, SubSeq(form, i + 1, Min({j \in cuts : j > i}) - 1)>> : i \in cuts \ {Len(form) + 1}}

Equals(field) == {i \in DOMAIN field[2] : field[2][i] = "="}
KeyOf(field) == SubSeq(field[2], 1, Min(Equals(field)) - 1)
ValueOf(field) == SubSeq(field[2], Min(Equals(field)) + 1, Len(field[2]))

FormValue(form, key) ==
    LET hits == {f \in Fields(form) : Equals(f) # {} /\ KeyOf(f) = key}
    IN  IF hits = {} THEN None
        ELSE [kind |-> "text",
              text |-> PercentDecode(ValueOf(CHOOSE f \in hits : \A g \in hits : f[1] <= g[1]))]

-----------------------------------------------------------------------------
(* dns_catch_all.  A packet is its header and the records behind it; what  *)
(* is shorter than a header is "short".  A reply keeps all that followed   *)
(* the header of the query and adds its answer behind.                     *)
DnsAnswer == "A record of the access point"

(* Mutant of DnsReply: the counts of the query are kept.                   *)
DnsReplyKeepsCounts(q) ==
    IF q.short \/ q.qr THEN None
    ELSE [q EXCEPT !.qr = TRUE, !.records = Append(q.records, DnsAnswer)]

DnsReply(q) ==
    IF q.short \/ q.qr THEN None
    ELSE [q EXCEPT !.qr = TRUE, !.an = 1, !.ns = 0, !.ar = 0,
                   !.records = Append(q.records, DnsAnswer)]

=============================================================================
