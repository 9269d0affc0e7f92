----------------------------- MODULE PanelOps -------------------------------
(***************************************************************************)
(* The pictures and EP 0x08 messages of crates/mk1-protocol/src/display.rs.*)
(* Of a picture that is sent, the byte at place i of its buffer is written *)
(* i, so that what a panel is sent says where it came from.  A message is  *)
(* [start, len, op, data]: in its header the display, whose lowest bit is  *)
(* clear for a message that starts a command (start), and a length; then   *)
(* the command byte (op, absent from a continuation), then data.           *)
(***************************************************************************)
EXTENDS Integers, Sequences

Smaller(a, b) == IF a < b THEN a ELSE b
Slice(from, to) == [i \in 1 .. to - from |-> from + i - 1]

Command(op, len, data) == [start |-> TRUE, len |-> len, op |-> op, data |-> data]
Continuation(len, data) == [start |-> FALSE, len |-> len, op |-> "none", data |-> data]

(* The bytes behind the header, and those of the whole message.            *)
Payload(m) == Len(m.data) + (IF m.start THEN 1 ELSE 0)
Bytes(m) == 3 + Payload(m)

-----------------------------------------------------------------------------
(* Pictures: w pixels in a row and h rows, three pixels in two bytes, five *)
(* bits each, stored inverted, one bit unused.                             *)
RowBytes(w) == (w \div 3) * 2
Inverted(gray) == 31 - Smaller(gray, 31)

NewDisplay(w, h) == [w |-> w, h |-> h, buf |-> [i \in 0 .. RowBytes(w) * h - 1 |-> 255]]

(* Mutant of Packed: the first pixel takes its byte for itself.            *)
PackedAlone(slot, v, one, two) ==
    CASE slot = 0 -> <<8 * v, two>>
      [] slot = 1 -> <<one - (one % 8) + (v \div 4), (two % 64) + 64 * (v % 4)>>
      [] slot = 2 -> <<one, two - (two % 32) + v>>

(* What set_pixel makes of the two bytes of its three pixels.              *)
Packed(slot, v, one, two) ==
    CASE slot = 0 -> <<(one % 8) + 8 * v, two>>
      [] slot = 1 -> <<one - (one % 8) + (v \div 4), (two % 64) + 64 * (v % 4)>>
      [] slot = 2 -> <<one, two - (two % 32) + v>>

SetPixel(d, x, y, gray) ==
    IF x >= d.w \/ y >= d.h THEN d
    ELSE LET i == y * RowBytes(d.w) + (x \div 3) * 2
             bytes == Packed(x % 3, Inverted(gray), d.buf[i], d.buf[i + 1])
         IN  [d EXCEPT !.buf[i] = bytes[1], !.buf[i + 1] = bytes[2]]

Fill(d, gray) ==
    LET v == Inverted(gray)
    IN  [d EXCEPT !.buf = [i \in DOMAIN d.buf |->
            IF i % 2 = 0 THEN 8 * v + (v \div 4) ELSE 64 * (v % 4) + v]]

-----------------------------------------------------------------------------
(* The row and column windows that precede a picture.                      *)
Windows == <<Command("row", 3, <<0, 63>>), Command("col", 3, <<0, 84>>)>>

(* send_frame_fs: each message fits one packet, so the first takes four    *)
(* bytes less than a packet and the others three.                          *)
FsFirst(packet) == packet - 4

(* Mutant of FsCont: the length of the header is left out of the count.    *)
FsContLong(packet) == packet - 2

FsCont(packet) == packet - 3

(* Mutant of FsOffset: the first message is taken for a full one.          *)
FsOffsetSkips(packet, k) == FsCont(packet) * k

(* Where the k-th continuation starts.                                     *)
FsOffset(packet, k) == FsFirst(packet) + FsCont(packet) * (k - 1)

FsConts(packet, size) ==
    (size - FsFirst(packet) + FsCont(packet) - 1) \div FsCont(packet)

FrameFs(packet, size) ==
    Windows \o <<Command("write", 1 + FsFirst(packet), Slice(0, FsFirst(packet)))>> \o
    [k \in 1 .. FsConts(packet, size) |->
        LET from == FsOffset(packet, k)
            n == Smaller(FsCont(packet), size - from)
        IN  Continuation(n, Slice(from, from + n))]

(* send_frame, for a high-speed host: full continuations as long as the    *)
(* last bytes stay, then a message for those.  The lengths are written out.*)
Chunk == 502
LastChunk == 338

(* Mutant of FrameHs: the command byte is not counted.                     *)
FrameHsShort(size) ==
    LET fulls == (size - LastChunk - Chunk) \div Chunk
    IN  Windows \o <<Command("write", 502, Slice(0, Chunk))>> \o
        [k \in 1 .. fulls |-> Continuation(502, Slice(Chunk * k, Chunk * (k + 1)))] \o
        <<Continuation(338, Slice(Chunk * (fulls + 1), size))>>

FrameHs(size) ==
    LET fulls == (size - LastChunk - Chunk) \div Chunk
    IN  Windows \o <<Command("write", 503, Slice(0, Chunk))>> \o
        [k \in 1 .. fulls |-> Continuation(502, Slice(Chunk * k, Chunk * (k + 1)))] \o
        <<Continuation(338, Slice(Chunk * (fulls + 1), size))>>

-----------------------------------------------------------------------------
(* What a panel makes of messages, from docs/protocol.md: it sets windows, *)
(* starts a picture at the first write command, and adds the bytes of      *)
(* continuations to it.                                                    *)
Picture(ms) ==
    LET add[k \in 0 .. Len(ms)] ==
            IF k = 0 THEN <<>>
            ELSE IF ms[k].op = "write" THEN ms[k].data
            ELSE IF ms[k].start THEN add[k - 1]
            ELSE add[k - 1] \o ms[k].data
    IN  add[Len(ms)]

(* Reference: messages that draw the whole buffer, in order and each byte  *)
(* once, in messages of at most one packet that tell their length.         *)
DrawsBuffer(ms, packet, size) ==
    /\ SubSeq(ms, 1, 2) = Windows
    /\ ms[3].op = "write" /\ \A k \in 4 .. Len(ms) : ~ms[k].start
    /\ Picture(ms) = Slice(0, size)
    /\ \A k \in DOMAIN ms : ms[k].len = Payload(ms[k]) /\ Bytes(ms[k]) <= packet

=============================================================================
