--------------------------- MODULE Display_proofs ----------------------------
(***************************************************************************)
(* Display, for any number of init commands, any size of packets and of    *)
(* pictures: a write that went through is the one the controller took, and *)
(* a picture that was logged as sent was taken whole.                      *)
(***************************************************************************)
EXTENDS Display, SequenceTheorems, WellFoundedInduction, TLAPS

-----------------------------------------------------------------------------
(* Arithmetic and induction                                                *)

LEMMA ModLemma ==
    ASSUME NEW a \in Int, NEW n \in Nat \ {0}
    PROVE  a % n \in 0 .. n - 1 /\ a \div n \in Int /\ a = n * (a \div n) + (a % n)
OBVIOUS

LEMMA RoundUp ==
    ASSUME NEW x \in Nat, NEW c \in Nat \ {0}, NEW n, n = (x + c - 1) \div c
    PROVE  n \in Nat /\ c * n >= x /\ c * n < x + c
<1> DEFINE r == (x + c - 1) % c
<1>1. x + c - 1 \in Int
    OBVIOUS
<1>2. r \in 0 .. c - 1 /\ n \in Int /\ x + c - 1 = c * n + r
    BY <1>1, ModLemma
<1> HIDE DEF r
<1>3. c * n >= x /\ c * n < x + c
    BY <1>2
<1>4. n >= 0
    <2> SUFFICES ASSUME n <= -1 PROVE FALSE
        BY <1>2
    <2>1. c * (-1 - n) >= 0
        BY <1>2
    <2>2. c * (-1 - n) = -c - c * n
        BY <1>2
    <2> QED BY <1>2, <1>3, <2>1, <2>2
<1> QED BY <1>2, <1>3, <1>4

LEMMA Monotone ==
    ASSUME NEW c \in Nat, NEW j \in Int, NEW k \in Int, j <= k
    PROVE  c * j <= c * k
<1>1. c * (k - j) >= 0
    OBVIOUS
<1>2. c * (k - j) = c * k - c * j
    OBVIOUS
<1> DEFINE cj == c * j
           ck == c * k
<1>3. cj \in Int /\ ck \in Int
    OBVIOUS
<1> HIDE DEF cj, ck
<1>4. ck - cj >= 0
    BY <1>1, <1>2 DEF cj, ck
<1>5. cj <= ck
    BY <1>3, <1>4
<1> QED BY <1>5 DEF cj, ck

Below == {ss \in Nat \X Nat : ss[1] < ss[2]}

(* Induction for a set of numbers, the order being well-founded.           *)
LEMMA NatSetInduction ==
    ASSUME NEW T, T \subseteq Nat, 0 \in T, \A n \in T : n + 1 \in T
    PROVE  T = Nat
<1>1. IsWellFoundedOn(Below, Nat)
    BY NatLessThanWellFounded DEF OpToRel, Below
<1> SUFFICES ASSUME Nat \ T # {} PROVE FALSE
    OBVIOUS
<1>2. PICK n \in Nat \ T : \A m \in Nat \ T : ~(<<m, n>> \in Below)
    <2>1. Nat \ T \subseteq Nat
        OBVIOUS
    <2> QED BY <1>1, <2>1, WFMin
<1>3. n # 0 /\ n - 1 \in Nat
    BY <1>2
<1>4. n - 1 \notin T
    <2>1. (n - 1) + 1 = n
        BY <1>2
    <2> QED BY <1>2, <2>1
<1>5. <<n - 1, n>> \in Below
    BY <1>2, <1>3 DEF Below
<1> QED BY <1>2, <1>3, <1>4, <1>5

-----------------------------------------------------------------------------
(* The messages of a picture: what each says and where it ends.            *)

RawMessage ==
    [start : BOOLEAN, len : Int, op : {"row", "col", "write", "none"}, data : Seq(Int)]

LEMMA SliceLemma ==
    ASSUME NEW a \in Int, NEW b \in Int, a <= b
    PROVE  Slice(a, b) \in Seq(Int) /\ Len(Slice(a, b)) = b - a
BY DEF Slice

LEMMA SliceConcat ==
    ASSUME NEW a \in Nat, NEW b \in Nat, a <= b
    PROVE  Slice(0, a) \o Slice(a, b) = Slice(0, b)
<1> DEFINE x == Slice(0, a)
           y == Slice(a, b)
           z == Slice(0, b)
<1>1. x \in Seq(Int) /\ y \in Seq(Int) /\ z \in Seq(Int)
    BY SliceLemma
<1>2. Len(x) = a /\ Len(y) = b - a /\ Len(z) = b
    <2>1. 0 \in Int /\ a \in Int /\ b \in Int /\ 0 <= a /\ 0 <= b
        OBVIOUS
    <2>2. Len(x) = a - 0
        BY <2>1, SliceLemma
    <2>3. Len(y) = b - a
        BY <2>1, SliceLemma
    <2>4. Len(z) = b - 0
        BY <2>1, SliceLemma
    <2> QED BY <2>2, <2>3, <2>4
<1>3. /\ \A i \in 1 .. a : x[i] = i - 1
      /\ \A i \in 1 .. b - a : y[i] = a + i - 1
      /\ \A i \in 1 .. b : z[i] = i - 1
    BY DEF Slice
<1> HIDE DEF x, y, z
<1>4. /\ x \o y \in Seq(Int) /\ Len(x \o y) = b
      /\ \A i \in 1 .. b : (x \o y)[i] = IF i <= a THEN x[i] ELSE y[i - a]
    BY <1>1, <1>2, ConcatProperties
<1>5. \A i \in 1 .. b : (x \o y)[i] = z[i]
    <2> SUFFICES ASSUME NEW i \in 1 .. b PROVE (x \o y)[i] = z[i]
        OBVIOUS
    <2>1. CASE i <= a
        BY <1>3, <1>4, <2>1
    <2>2. CASE ~(i <= a)
        <3>1. i - a \in 1 .. b - a
            BY <2>2
        <3>2. y[i - a] = a + (i - a) - 1
            BY <1>3, <3>1
        <3> QED BY <1>3, <1>4, <2>2, <3>2
    <2> QED BY <2>1, <2>2
<1>6. x \o y = z
    BY <1>1, <1>2, <1>4, <1>5, SeqEqual
<1> QED BY <1>6 DEF x, y, z

(* Where the bytes end that the first message and j continuations carry.   *)
End(p, size, j) == IF j = FsConts(p, size) THEN size ELSE FsOffset(p, j + 1)

LEMMA Offsets ==
    ASSUME NEW p \in Nat, NEW size \in Nat, p >= 6, size >= FsFirst(p)
    PROVE  /\ FsConts(p, size) \in Nat
           /\ End(p, size, 0) = FsFirst(p) /\ End(p, size, FsConts(p, size)) = size
           /\ \A k \in 1 .. FsConts(p, size) :
                 /\ End(p, size, k - 1) \in Nat /\ End(p, size, k) \in Nat
                 /\ End(p, size, k - 1) = FsOffset(p, k)
                 /\ FsOffset(p, k) + Smaller(FsCont(p), size - FsOffset(p, k)) = End(p, size, k)
                 /\ Smaller(FsCont(p), size - FsOffset(p, k)) \in 0 .. FsCont(p)
<1> DEFINE n == FsConts(p, size)
           c == FsCont(p)
           f == FsFirst(p)
<1>1. c \in Nat \ {0} /\ f \in Nat /\ size - f \in Nat
    BY DEF FsCont, FsFirst
<1>2. n = (size - f + c - 1) \div c
    BY DEF FsConts
<1> HIDE DEF n, c, f
<1>3. n \in Nat /\ c * n >= size - f /\ c * n < size - f + c
    BY <1>1, <1>2, RoundUp
<1>4. End(p, size, n) = size
    BY DEF End, n
<1>5. FsOffset(p, 1) = f
    <2>1. FsOffset(p, 1) = f + c * (1 - 1)
        BY DEF FsOffset, f, c
    <2> QED BY <1>1, <2>1
<1>6. End(p, size, 0) = f
    <2>1. CASE n = 0
        <3>1. c * n = 0
            BY <1>1, <2>1
        <3>2. size = f
            BY <1>1, <1>3, <3>1
        <3> QED BY <1>4, <2>1, <3>2
    <2>2. CASE n # 0
        <3>1. End(p, size, 0) = FsOffset(p, 0 + 1)
            BY <2>2 DEF End, n
        <3> QED BY <1>5, <3>1
    <2> QED BY <2>1, <2>2
<1>7. ASSUME NEW k \in 1 .. n
      PROVE  /\ End(p, size, k - 1) \in Nat /\ End(p, size, k) \in Nat
             /\ End(p, size, k - 1) = FsOffset(p, k)
             /\ FsOffset(p, k) + Smaller(c, size - FsOffset(p, k)) = End(p, size, k)
             /\ Smaller(c, size - FsOffset(p, k)) \in 0 .. c
    <2> DEFINE o == FsOffset(p, k)
    <2>1. k \in Int /\ 1 <= k /\ k <= n
        BY <1>3
    <2>2. o = f + c * (k - 1)
        BY DEF FsOffset, f, c
    <2>3. c * (k - 1) >= 0 /\ c * (k - 1) <= c * (n - 1) /\ c * (k - 1) \in Int
        <3>1. c * 0 <= c * (k - 1) /\ c * (k - 1) <= c * (n - 1)
            BY <1>1, <1>3, <2>1, Monotone
        <3>2. c * 0 = 0
            BY <1>1
        <3> QED BY <1>1, <2>1, <3>1, <3>2
    <2>4. c * (n - 1) = c * n - c
        BY <1>1, <1>3
    <2>5. o \in Nat /\ o < size
        <3> DEFINE x == c * (k - 1)
                   y == c * (n - 1)
                   z == c * n
        <3>1. x \in Int /\ y \in Int /\ z \in Int /\ o = f + x /\ x >= 0 /\ x <= y /\ y = z - c
              /\ z < size - f + c
            BY <1>1, <1>3, <2>1, <2>2, <2>3, <2>4
        <3> HIDE DEF x, y, z, o
        <3>2. o >= 0 /\ o < size /\ o \in Int
            BY <1>1, <3>1
        <3> QED BY <3>2 DEF o
    <2>6. End(p, size, k - 1) = o
        <3>1. k - 1 # n /\ (k - 1) + 1 = k
            BY <1>3, <2>1
        <3> QED BY <3>1 DEF End, n
    <2> HIDE DEF o
    <2>7. CASE k = n
        <3>1. c * n = c * (k - 1) + c
            BY <1>1, <2>1, <2>4, <2>7
        <3>2. size - o <= c
            <4> DEFINE x == c * (k - 1)
                       z == c * n
            <4>1. x \in Int /\ z \in Int /\ o = f + x /\ z = x + c /\ z >= size - f
                BY <1>1, <1>3, <2>2, <2>3, <3>1
            <4> HIDE DEF x, z
            <4> QED BY <1>1, <4>1
        <3>3. Smaller(c, size - o) = size - o
            BY <1>1, <2>5, <3>2 DEF Smaller
        <3>4. End(p, size, k) = size
            BY <1>4, <2>7
        <3> QED BY <1>1, <2>5, <2>6, <3>2, <3>3, <3>4 DEF o
    <2>8. CASE k # n
        <3>1. End(p, size, k) = FsOffset(p, k + 1)
            BY <2>8 DEF End, n
        <3>2. FsOffset(p, k + 1) = f + c * k
            <4>1. FsOffset(p, k + 1) = f + c * ((k + 1) - 1)
                BY DEF FsOffset, f, c
            <4>2. (k + 1) - 1 = k
                BY <2>1
            <4> QED BY <4>1, <4>2
        <3>3. c * k = c * (k - 1) + c
            BY <1>1, <2>1
        <3>4. c * k <= c * (n - 1)
            BY <1>1, <1>3, <2>1, <2>8, Monotone
        <3>5. End(p, size, k) = o + c /\ o + c < size
            <4> DEFINE x == c * (k - 1)
                       y == c * k
                       w == c * (n - 1)
                       z == c * n
            <4>1. x \in Int /\ y \in Int /\ w \in Int /\ z \in Int /\ o = f + x /\ y = x + c
                  /\ y <= w /\ w = z - c /\ z < size - f + c /\ FsOffset(p, k + 1) = f + y
                BY <1>1, <1>3, <2>1, <2>2, <2>4, <3>2, <3>3, <3>4
            <4> HIDE DEF x, y, w, z
            <4> QED BY <1>1, <3>1, <4>1
        <3>6. Smaller(c, size - o) = c
            BY <1>1, <2>5, <3>5 DEF Smaller
        <3> QED BY <1>1, <2>5, <2>6, <3>5, <3>6 DEF o
    <2> QED BY <2>7, <2>8
<1> QED BY <1>3, <1>4, <1>6, <1>7 DEF n, c, f

(* What FrameFs makes of a buffer, message by message.                     *)
LEMMA FrameShape ==
    ASSUME NEW p \in Nat, NEW size \in Nat, p >= 6, size >= FsFirst(p),
           NEW F, F = FrameFs(p, size)
    PROVE  /\ F \in Seq(RawMessage) /\ Len(F) = 3 + FsConts(p, size)
           /\ F[1] = Windows[1] /\ F[2] = Windows[2]
           /\ F[3] = Command("write", 1 + FsFirst(p), Slice(0, FsFirst(p)))
           /\ \A k \in 4 .. Len(F) :
                 F[k] = Continuation(End(p, size, k - 3) - End(p, size, k - 4),
                                     Slice(End(p, size, k - 4), End(p, size, k - 3)))
<1> DEFINE n == FsConts(p, size)
           first == Command("write", 1 + FsFirst(p), Slice(0, FsFirst(p)))
           Cont(k) == Continuation(Smaller(FsCont(p), size - FsOffset(p, k)),
                          Slice(FsOffset(p, k),
                                FsOffset(p, k) + Smaller(FsCont(p), size - FsOffset(p, k))))
           conts == [k \in 1 .. n |-> Cont(k)]
<1>1. F = Windows \o <<first>> \o conts
    BY Zenon DEF FrameFs
<1>2. /\ n \in Nat
      /\ \A k \in 1 .. n :
            /\ End(p, size, k - 1) \in Nat /\ End(p, size, k) \in Nat
            /\ End(p, size, k - 1) = FsOffset(p, k)
            /\ FsOffset(p, k) + Smaller(FsCont(p), size - FsOffset(p, k)) = End(p, size, k)
            /\ Smaller(FsCont(p), size - FsOffset(p, k)) \in 0 .. FsCont(p)
    BY Offsets
<1> HIDE DEF n
<1>3. ASSUME NEW k \in 1 .. n
      PROVE  /\ Cont(k) = Continuation(End(p, size, k) - End(p, size, k - 1),
                                       Slice(End(p, size, k - 1), End(p, size, k)))
             /\ Cont(k) \in RawMessage
    <2> DEFINE a == End(p, size, k - 1)
               b == End(p, size, k)
               m == Smaller(FsCont(p), size - FsOffset(p, k))
    <2>1. a \in Nat /\ b \in Nat /\ a = FsOffset(p, k) /\ a + m = b /\ m \in 0 .. FsCont(p)
        BY <1>2
    <2>2. m \in Nat
        BY <2>1 DEF FsCont
    <2>3. Cont(k) = Continuation(m, Slice(a, b))
        BY <2>1
    <2> HIDE DEF a, b, m, Cont
    <2>4. m = b - a /\ a <= b
        BY <2>1, <2>2
    <2>5. Slice(a, b) \in Seq(Int)
        BY <2>1, <2>4, SliceLemma
    <2>6. Continuation(m, Slice(a, b)) \in RawMessage
        BY <2>2, <2>5 DEF Continuation, RawMessage
    <2> QED BY <2>3, <2>4, <2>6 DEF a, b
<1>4. first \in RawMessage
    <2>1. FsFirst(p) \in Int /\ 0 \in Int /\ 0 <= FsFirst(p)
        BY DEF FsFirst
    <2>2. Slice(0, FsFirst(p)) \in Seq(Int)
        BY <2>1, SliceLemma
    <2> QED BY <2>1, <2>2 DEF Command, RawMessage
<1>5. Windows \in Seq(RawMessage) /\ Len(Windows) = 2
    <2>1. <<0, 63>> \in Seq(Int) /\ <<0, 84>> \in Seq(Int)
        OBVIOUS
    <2> DEFINE r == Command("row", 3, <<0, 63>>)
               c == Command("col", 3, <<0, 84>>)
    <2>2. r \in RawMessage /\ c \in RawMessage
        BY <2>1 DEF Command, RawMessage
    <2>3. Windows = <<r, c>>
        BY DEF Windows
    <2> HIDE DEF r, c
    <2> QED BY <2>2, <2>3
<1>6. conts \in Seq(RawMessage) /\ Len(conts) = n /\ \A k \in 1 .. n : conts[k] = Cont(k)
    <2>1. \A k \in 1 .. n : Cont(k) \in RawMessage
        BY <1>3
    <2> HIDE DEF Cont
    <2>2. conts \in [1 .. n -> RawMessage] /\ \A k \in 1 .. n : conts[k] = Cont(k)
        BY <2>1
    <2> HIDE DEF conts
    <2> QED BY <1>2, <2>2
<1> HIDE DEF first, conts, Cont
<1>7. <<first>> \in Seq(RawMessage) /\ Len(<<first>>) = 1 /\ <<first>>[1] = first
    BY <1>4
<1> DEFINE h == Windows \o <<first>>
<1>8. /\ h \in Seq(RawMessage) /\ Len(h) = 3
      /\ h[1] = Windows[1] /\ h[2] = Windows[2] /\ h[3] = first
    BY <1>5, <1>7, ConcatProperties
<1> HIDE DEF h
<1>9. F = h \o conts
    BY <1>1 DEF h
<1>10. /\ F \in Seq(RawMessage) /\ Len(F) = 3 + n
       /\ \A i \in 1 .. 3 + n : F[i] = IF i <= 3 THEN h[i] ELSE conts[i - 3]
    <2>1. /\ h \o conts \in Seq(RawMessage) /\ Len(h \o conts) = Len(h) + Len(conts)
          /\ \A i \in 1 .. Len(h) + Len(conts) :
                (h \o conts)[i] = IF i <= Len(h) THEN h[i] ELSE conts[i - Len(h)]
        BY <1>6, <1>8, ConcatProperties
    <2> QED BY <1>2, <1>6, <1>8, <1>9, <2>1
<1>11. F[1] = Windows[1] /\ F[2] = Windows[2] /\ F[3] = first
    BY <1>2, <1>8, <1>10
<1>12. ASSUME NEW k \in 4 .. Len(F)
       PROVE  F[k] = Continuation(End(p, size, k - 3) - End(p, size, k - 4),
                                  Slice(End(p, size, k - 4), End(p, size, k - 3)))
    <2>1. k \in Int /\ k - 3 \in 1 .. n /\ (k - 3) - 1 = k - 4 /\ k \in 1 .. 3 + n /\ ~(k <= 3)
        BY <1>2, <1>10
    <2>2. F[k] = Cont(k - 3)
        BY <1>6, <1>10, <2>1
    <2>3. Cont(k - 3) = Continuation(End(p, size, k - 3) - End(p, size, (k - 3) - 1),
                                     Slice(End(p, size, (k - 3) - 1), End(p, size, k - 3)))
        BY <1>3, <2>1
    <2> QED BY <2>1, <2>2, <2>3
<1> QED BY <1>10, <1>11, <1>12 DEF n, first

(* What a panel makes of one message more, A being what it had made.       *)
Added(A, ms, k) ==
    IF k = 0 THEN <<>>
    ELSE IF ms[k].op = "write" THEN ms[k].data
    ELSE IF ms[k].start THEN A[k - 1]
    ELSE A[k - 1] \o ms[k].data

Adds(ms) == CHOOSE A : A = [k \in 0 .. Len(ms) |-> Added(A, ms, k)]

(* From the messages of a picture the panel makes the buffer: what it has  *)
(* after each of them is known, and nothing else fits the recursion.       *)
LEMMA PictureOfFrame ==
    ASSUME NEW p \in Nat, NEW size \in Nat, p >= 6, size >= FsFirst(p)
    PROVE  Picture(FrameFs(p, size)) = Slice(0, size)
<1> DEFINE F == FrameFs(p, size)
           n == FsConts(p, size)
           N == 3 + n
           Has(k) == IF k < 3 THEN <<>> ELSE Slice(0, End(p, size, k - 3))
           A == [k \in 0 .. N |-> Has(k)]
           B == Adds(F)
<1>1. /\ F \in Seq(RawMessage) /\ Len(F) = 3 + n /\ F[1] = Windows[1] /\ F[2] = Windows[2]
      /\ F[3] = Command("write", 1 + FsFirst(p), Slice(0, FsFirst(p)))
      /\ \A k \in 4 .. Len(F) :
            F[k] = Continuation(End(p, size, k - 3) - End(p, size, k - 4),
                                Slice(End(p, size, k - 4), End(p, size, k - 3)))
    BY FrameShape
<1>2. /\ n \in Nat /\ End(p, size, 0) = FsFirst(p) /\ End(p, size, n) = size
      /\ \A k \in 1 .. n :
            /\ End(p, size, k - 1) \in Nat /\ End(p, size, k) \in Nat
            /\ End(p, size, k - 1) = FsOffset(p, k)
            /\ FsOffset(p, k) + Smaller(FsCont(p), size - FsOffset(p, k)) = End(p, size, k)
            /\ Smaller(FsCont(p), size - FsOffset(p, k)) \in 0 .. FsCont(p)
    BY Offsets
<1> HIDE DEF F, n
<1>3. /\ F[1].op = "row" /\ F[1].start /\ F[2].op = "col" /\ F[2].start
      /\ F[3].op = "write" /\ F[3].data = Slice(0, FsFirst(p))
    BY <1>1 DEF Windows, Command
<1>4. ASSUME NEW k \in 4 .. N
      PROVE  /\ F[k].op = "none" /\ ~F[k].start
             /\ F[k].data = Slice(End(p, size, k - 4), End(p, size, k - 3))
             /\ End(p, size, k - 4) \in Nat /\ End(p, size, k - 3) \in Nat
             /\ End(p, size, k - 4) <= End(p, size, k - 3)
    <2> DEFINE j == k - 3
    <2>1. j \in 1 .. n /\ j - 1 = k - 4 /\ k \in 4 .. Len(F)
        BY <1>1, <1>2
    <2>2. F[k] = Continuation(End(p, size, k - 3) - End(p, size, k - 4),
                              Slice(End(p, size, k - 4), End(p, size, k - 3)))
        BY <1>1, <2>1
    <2>3. /\ F[k].op = "none" /\ F[k].start = FALSE
          /\ F[k].data = Slice(End(p, size, k - 4), End(p, size, k - 3))
        BY <2>2 DEF Continuation
    <2> DEFINE m == Smaller(FsCont(p), size - FsOffset(p, j))
               a == End(p, size, k - 4)
               b == End(p, size, k - 3)
    <2>4. a \in Nat /\ b \in Nat /\ a + m = b /\ m \in 0 .. FsCont(p)
        <3>1. End(p, size, j - 1) \in Nat /\ End(p, size, j) \in Nat
              /\ End(p, size, j - 1) = FsOffset(p, j) /\ FsOffset(p, j) + m = End(p, size, j)
              /\ m \in 0 .. FsCont(p)
            BY <1>2, <2>1
        <3> QED BY <2>1, <3>1
    <2>5. m \in Nat
        BY <2>4 DEF FsCont
    <2> HIDE DEF a, b, m
    <2>6. a <= b
        BY <2>4, <2>5
    <2> QED BY <2>3, <2>4, <2>6 DEF a, b
<1>5. ASSUME NEW k \in 0 .. N PROVE Has(k) = Added(A, F, k)
    <2>1. CASE k = 0
        BY <2>1 DEF Added
    <2>2. CASE k \in {1, 2}
        <3>1. A[k - 1] = <<>> /\ Has(k) = <<>>
            BY <1>2, <2>2
        <3>2. F[k].op # "write" /\ F[k].start /\ k # 0
            BY <1>3, <2>2
        <3> QED BY <3>1, <3>2 DEF Added
    <2>3. CASE k = 3
        <3>1. Has(k) = Slice(0, FsFirst(p))
            BY <1>2, <2>3
        <3> QED BY <1>3, <2>3, <3>1 DEF Added
    <2>4. CASE k \in 4 .. N
        <3>1. A[k - 1] = Slice(0, End(p, size, k - 4))
            <4>1. k - 1 \in 0 .. N /\ ~(k - 1 < 3) /\ (k - 1) - 3 = k - 4
                BY <1>2, <2>4
            <4> QED BY <4>1
        <3>2. Added(A, F, k) = A[k - 1] \o F[k].data
            <4>1. k # 0 /\ F[k].op # "write" /\ ~F[k].start
                BY <1>4, <2>4
            <4> HIDE DEF A
            <4> QED BY <4>1 DEF Added
        <3>3. Has(k) = Slice(0, End(p, size, k - 3))
            BY <2>4
        <3> HIDE DEF A, Has
        <3> QED BY <1>4, <2>4, <3>1, <3>2, <3>3, SliceConcat
    <2>5. k = 0 \/ k \in {1, 2} \/ k = 3 \/ k \in 4 .. N
        BY <1>2
    <2> HIDE DEF A, Has, N
    <2> QED BY <2>1, <2>2, <2>3, <2>4, <2>5
<1>6. A = [k \in 0 .. Len(F) |-> Added(A, F, k)]
    <2> HIDE DEF Has
    <2>1. A = [k \in 0 .. N |-> Has(k)]
        OBVIOUS
    <2>2. Len(F) = N
        BY <1>1
    <2> HIDE DEF A, N
    <2> QED BY <1>5, <2>1, <2>2
<1> HIDE DEF A
<1>7. B = [k \in 0 .. Len(F) |-> Added(B, F, k)]
    BY <1>6, Zenon DEF Adds
<1> HIDE DEF B
<1>8. ASSUME NEW k \in 0 .. N PROVE B[k] = Added(B, F, k) /\ A[k] = Added(A, F, k)
    BY <1>1, <1>6, <1>7
<1>9. \A k \in 0 .. N : A[k] = B[k]
    <2> DEFINE T == {k \in Nat : k <= N => A[k] = B[k]}
    <2>1. 0 \in T
        <3>1. 0 \in 0 .. N
            BY <1>2
        <3>2. A[0] = B[0]
            BY <1>8, <3>1 DEF Added
        <3> QED BY <3>2
    <2>2. ASSUME NEW k \in T PROVE k + 1 \in T
        <3> SUFFICES ASSUME k + 1 <= N PROVE A[k + 1] = B[k + 1]
            OBVIOUS
        <3>1. k + 1 \in 0 .. N /\ (k + 1) - 1 = k /\ k <= N /\ k + 1 # 0
            BY <1>2
        <3>2. A[k] = B[k]
            BY <3>1
        <3>3. A[(k + 1) - 1] = B[(k + 1) - 1]
            BY <3>1, <3>2
        <3> DEFINE l == k + 1
        <3>4. l \in 0 .. N /\ A[l - 1] = B[l - 1]
            BY <3>1, <3>3
        <3> HIDE DEF l
        <3>5. Added(A, F, l) = Added(B, F, l)
            BY <3>4 DEF Added
        <3>6. A[l] = B[l]
            BY <1>8, <3>4, <3>5
        <3> QED BY <3>6 DEF l
    <2>3. T \subseteq Nat
        OBVIOUS
    <2> HIDE DEF T
    <2>4. T = Nat
        BY <2>1, <2>2, <2>3, NatSetInduction
    <2>5. \A k \in 0 .. N : k \in T
        BY <1>2, <2>4
    <2> QED BY <2>5 DEF T
<1>10. B[N] = Slice(0, size)
    <2>1. N \in 0 .. N /\ ~(N < 3) /\ N - 3 = n
        BY <1>2
    <2>2. A[N] = Slice(0, End(p, size, N - 3))
        BY <2>1 DEF A
    <2> QED BY <1>2, <1>9, <2>1, <2>2
<1>11. Picture(F) = B[Len(F)]
    BY Zenon DEF Picture, Adds, Added, B
<1> QED BY <1>1, <1>10, <1>11 DEF F

(* The messages of a picture draw it, each in one packet.                  *)
LEMMA FrameDraws ==
    ASSUME NEW p \in Nat, NEW size \in Nat, p >= 6, size >= FsFirst(p)
    PROVE  /\ FrameFs(p, size) \in Seq(RawMessage)
           /\ Len(FrameFs(p, size)) \in Nat /\ Len(FrameFs(p, size)) >= 3
           /\ DrawsBuffer(FrameFs(p, size), p, size)
<1> DEFINE F == FrameFs(p, size)
           n == FsConts(p, size)
<1>1. /\ F \in Seq(RawMessage) /\ Len(F) = 3 + n /\ F[1] = Windows[1] /\ F[2] = Windows[2]
      /\ F[3] = Command("write", 1 + FsFirst(p), Slice(0, FsFirst(p)))
      /\ \A k \in 4 .. Len(F) :
            F[k] = Continuation(End(p, size, k - 3) - End(p, size, k - 4),
                                Slice(End(p, size, k - 4), End(p, size, k - 3)))
    BY FrameShape
<1>2. /\ n \in Nat
      /\ \A k \in 1 .. n :
            /\ End(p, size, k - 1) \in Nat /\ End(p, size, k) \in Nat
            /\ End(p, size, k - 1) = FsOffset(p, k)
            /\ FsOffset(p, k) + Smaller(FsCont(p), size - FsOffset(p, k)) = End(p, size, k)
            /\ Smaller(FsCont(p), size - FsOffset(p, k)) \in 0 .. FsCont(p)
    BY Offsets
<1>3. Picture(F) = Slice(0, size)
    BY PictureOfFrame
<1> HIDE DEF F, n
<1>4. Len(F) \in Nat /\ Len(F) >= 3
    BY <1>1, <1>2
<1>5. SubSeq(F, 1, 2) = Windows
    <2> DEFINE w == SubSeq(F, 1, 2)
    <2>1. \A i \in 1 .. 2 : F[i] \in RawMessage
        BY <1>1, <1>4, ElementOfSeq
    <2>2. /\ w \in Seq(RawMessage)
          /\ Len(w) = IF 1 <= 2 THEN 2 - 1 + 1 ELSE 0
          /\ \A i \in 1 .. 2 - 1 + 1 : w[i] = F[1 + i - 1]
        <3>1. 1 \in Int /\ 2 \in Int
            OBVIOUS
        <3> QED BY <2>1, <3>1, SubSeqProperties
    <2>3. Len(w) = 2 /\ w[1] = F[1] /\ w[2] = F[2]
        BY <2>2
    <2> HIDE DEF w
    <2>4. w = <<F[1], F[2]>>
        BY <2>2, <2>3
    <2> QED BY <1>1, <2>4 DEF Windows, w
<1>6. F[3].op = "write"
    BY <1>1 DEF Command
<1>7. ASSUME NEW k \in 4 .. Len(F)
      PROVE  ~F[k].start /\ F[k].len = Payload(F[k]) /\ Bytes(F[k]) <= p
    <2> DEFINE j == k - 3
               a == End(p, size, k - 4)
               b == End(p, size, k - 3)
               m == Smaller(FsCont(p), size - FsOffset(p, j))
    <2>1. j \in 1 .. n /\ j - 1 = k - 4
        BY <1>1, <1>2
    <2>2. a \in Nat /\ b \in Nat /\ a + m = b /\ m \in 0 .. FsCont(p)
        <3>1. End(p, size, j - 1) \in Nat /\ End(p, size, j) \in Nat
              /\ End(p, size, j - 1) = FsOffset(p, j) /\ FsOffset(p, j) + m = End(p, size, j)
              /\ m \in 0 .. FsCont(p)
            BY <1>2, <2>1
        <3> QED BY <2>1, <3>1
    <2>3. m \in Nat /\ m <= p - 3
        BY <2>2 DEF FsCont
    <2>4. F[k] = Continuation(b - a, Slice(a, b))
        BY <1>1
    <2> HIDE DEF a, b, m
    <2>5. a <= b /\ b - a <= p - 3 /\ b - a \in Nat
        BY <2>2, <2>3
    <2>6. Len(Slice(a, b)) = b - a
        BY <2>2, <2>5, SliceLemma
    <2>7. F[k].start = FALSE /\ F[k].len = b - a /\ Len(F[k].data) = b - a
        BY <2>4, <2>6 DEF Continuation
    <2>8. Payload(F[k]) = b - a
        BY <2>5, <2>7 DEF Payload
    <2> QED BY <2>5, <2>7, <2>8 DEF Bytes
<1>8. ASSUME NEW k \in 1 .. 3
      PROVE  F[k].len = Payload(F[k]) /\ Bytes(F[k]) <= p
    <2>1. CASE k \in {1, 2}
        <3>1. F[k].start = TRUE /\ F[k].len = 3 /\ Len(F[k].data) = 2
            BY <1>1, <2>1 DEF Windows, Command
        <3>2. Payload(F[k]) = 3
            BY <3>1 DEF Payload
        <3> QED BY <3>1, <3>2 DEF Bytes
    <2>2. CASE k = 3
        <3>1. 0 \in Int /\ FsFirst(p) \in Int /\ 0 <= FsFirst(p) /\ FsFirst(p) = p - 4
            BY DEF FsFirst
        <3>2. Len(Slice(0, FsFirst(p))) = FsFirst(p) - 0
            BY <3>1, SliceLemma
        <3>3. F[k].start = TRUE /\ F[k].len = 1 + FsFirst(p) /\ Len(F[k].data) = FsFirst(p) - 0
            BY <1>1, <2>2, <3>2 DEF Command
        <3>4. Payload(F[k]) = 1 + FsFirst(p)
            BY <3>1, <3>3 DEF Payload
        <3> QED BY <3>1, <3>3, <3>4 DEF Bytes
    <2> QED BY <2>1, <2>2
<1>9. \A k \in DOMAIN F : k \in 1 .. 3 \/ k \in 4 .. Len(F)
    BY <1>1, <1>4
<1>10. DrawsBuffer(F, p, size)
    BY <1>3, <1>5, <1>6, <1>7, <1>8, <1>9 DEF DrawsBuffer
<1> QED BY <1>1, <1>4, <1>10 DEF F

-----------------------------------------------------------------------------
(* Types                                                                   *)

LEMMA StepsType ==
    /\ InitLen \in Nat \ {0} /\ Len(Frame) \in Nat /\ Len(Frame) >= 3
    /\ Steps \in Nat /\ Steps = InitLen + Len(Frame) /\ 1 \in 1 .. Steps
<1>1. InitLen \in Nat \ {0} /\ Packet \in Nat /\ Packet >= 6
      /\ BufSize \in Nat /\ BufSize >= FsFirst(Packet)
    BY SizeAssumption
<1>2. Len(Frame) \in Nat /\ Len(Frame) >= 3
    BY <1>1, FrameDraws DEF Frame
<1>3. Steps = InitLen + Len(Frame)
    BY DEF Steps
<1> HIDE DEF Frame
<1> QED BY <1>1, <1>2, <1>3

LEMMA MessagesType ==
    /\ \A m \in Messages : m[1] \in 0 .. 2 /\ m[2] \in 0 .. Steps
    /\ Empty \in Messages /\ Torn \in Messages
    /\ \A s \in 0 .. 1, k \in 1 .. Steps : <<s, k>> \in Messages
<1>1. Steps \in Nat /\ 1 \in 1 .. Steps
    BY StepsType
<1>2. ASSUME NEW m \in Messages PROVE m[1] \in 0 .. 2 /\ m[2] \in 0 .. Steps
    <2>1. CASE m \in (0 .. 1) \X (1 .. Steps)
        BY <1>1, <2>1
    <2>2. CASE m \in {Empty, Torn}
        BY <1>1, <2>2 DEF Empty, Torn
    <2> QED BY <2>1, <2>2 DEF Messages
<1> QED BY <1>2 DEF Messages

LEMMA TypeInit == Init => TypeOK
<1> SUFFICES ASSUME Init PROVE TypeOK
    OBVIOUS
<1>1. got \in [0 .. 2 -> Seq(0 .. Steps)]
    BY DEF Init, Nothing
<1>2. last \in Messages /\ data \in Messages
    BY MessagesType DEF Init
<1>3. chan \in Seq(BOOLEAN) /\ Len(chan) <= 1
    BY DEF Init
<1>4. gen \in 0 .. MaxAttach /\ faults \in 0 .. MaxFaults /\ t \in 0 .. gen
    BY SizeAssumption DEF Init
<1>5. step \in 1 .. Steps
    BY StepsType DEF Init
<1>6. /\ port \in BOOLEAN /\ dev \in BOOLEAN /\ gone \in BOOLEAN /\ up \in BOOLEAN
      /\ odd \in BOOLEAN /\ woke \in BOOLEAN /\ due \in BOOLEAN
    BY Zenon DEF Init
<1>7. /\ pc \in Testing \cup {"wait", "assert"} /\ screen \in 0 .. 1
      /\ sent \subseteq 0 .. 1 /\ st \in {"idle", "sub", "taken"}
    BY DEF Init
<1> QED BY <1>1, <1>2, <1>3, <1>4, <1>5, <1>6, <1>7, Zenon DEF TypeOK

(* Where the thread goes when a write went well or did not.                *)
LEMMA WriteType ==
    ASSUME TypeOK, WriteOk \/ WriteErr
    PROVE  /\ pc' \in Testing \cup {"assert"} /\ screen' \in 0 .. 1
           /\ step' \in 1 .. Steps /\ sent' \subseteq 0 .. 1
<1>1. Steps \in Nat /\ 1 \in 1 .. Steps
    BY StepsType
<1>2. screen \in 0 .. 1 /\ step \in 1 .. Steps /\ sent \subseteq 0 .. 1
    BY DEF TypeOK
<1>3. CASE WriteOk
    <2>1. CASE step < Steps
        <3>1. step' = step + 1 /\ pc' = "drain" /\ screen' = screen /\ sent' = sent
            BY <1>3, <2>1 DEF WriteOk
        <3> QED BY <1>1, <1>2, <2>1, <3>1 DEF Testing
    <2>2. CASE ~(step < Steps)
        <3>1. NextScreen /\ sent' = sent \cup {screen}
            BY <1>3, <2>2 DEF WriteOk
        <3> QED BY <1>1, <1>2, <3>1 DEF NextScreen, Testing
    <2> QED BY <2>1, <2>2
<1>4. CASE WriteErr
    BY <1>1, <1>2, <1>4 DEF WriteErr, NextScreen, Testing
<1> QED BY <1>3, <1>4

LEMMA TypeStep == TypeOK /\ [Next]_vars => TypeOK'
<1> SUFFICES ASSUME TypeOK, [Next]_vars PROVE TypeOK'
    OBVIOUS
<1> USE DEF controller, heard, transfer, thread, history
<1>a. MaxAttach \in Nat /\ MaxFaults \in Nat
    BY SizeAssumption
<1>b. gen \in 0 .. MaxAttach /\ faults \in 0 .. MaxFaults /\ t \in 0 .. gen
    BY DEF TypeOK
<1>1. CASE PlugIn
    BY <1>1 DEF PlugIn, TypeOK
<1>2. CASE Unplug
    BY <1>2 DEF Unplug, TypeOK
<1>3. CASE Take
    <2>1. got' \in [0 .. 2 -> Seq(0 .. Steps)] /\ last' \in Messages
        <3>1. CASE odd
            BY <1>3, <3>1 DEF Take, TypeOK
        <3>2. CASE ~odd
            <4>1. got' = [got EXCEPT ![data[1]] = Append(@, data[2])] /\ last' = data
                BY <1>3, <3>2 DEF Take
            <4>2. data \in Messages /\ got \in [0 .. 2 -> Seq(0 .. Steps)]
                BY DEF TypeOK
            <4>3. data[1] \in 0 .. 2 /\ data[2] \in 0 .. Steps
                BY <4>2, MessagesType
            <4>4. Append(got[data[1]], data[2]) \in Seq(0 .. Steps)
                BY <4>2, <4>3, AppendProperties
            <4> QED BY <4>1, <4>2, <4>4
        <3> QED BY <3>1, <3>2
    <2>2. st' \in {"idle", "sub", "taken"}
        BY <1>3 DEF Take
    <2>3. UNCHANGED <<port, dev, gone, up, gen, faults, data, chan, thread, history>>
        BY <1>3 DEF Take
    <2> QED BY <2>1, <2>2, <2>3 DEF TypeOK
<1>4. CASE Attach
    <2>1. got' \in [0 .. 2 -> Seq(0 .. Steps)] /\ last' \in Messages /\ data' \in Messages
        BY <1>4, MessagesType DEF Attach, Nothing
    <2>2. gen' \in 0 .. MaxAttach /\ t' \in 0 .. gen'
        BY <1>4, <1>a, <1>b DEF Attach
    <2>3. odd' \in BOOLEAN
        BY <1>4, Zenon DEF Attach, TypeOK
    <2>4. dev' = TRUE /\ st' = "idle" /\ sent' = {}
          /\ UNCHANGED <<port, gone, up, faults, chan, thread, woke, due>>
        BY <1>4 DEF Attach
    <2> QED BY <2>1, <2>2, <2>3, <2>4 DEF TypeOK
<1>5. CASE SessionUp
    BY <1>5, Zenon DEF SessionUp, TypeOK
<1>6. CASE DevGone
    BY <1>6 DEF DevGone, TypeOK
<1>7. CASE Ep8OutCb
    <2>1. faults' \in 0 .. MaxFaults
        BY <1>7, <1>a, <1>b DEF Ep8OutCb
    <2>2. chan' \in Seq(BOOLEAN) /\ Len(chan') <= 1
        <3>1. PICK ok \in Completed(st) : chan' = TrySend(ok)
            BY <1>7 DEF Ep8OutCb
        <3>2. ok \in BOOLEAN
            BY DEF Completed
        <3>3. <<ok>> \in Seq(BOOLEAN) /\ Len(<<ok>>) = 1
            BY <3>2
        <3>4. chan \in Seq(BOOLEAN) /\ Len(chan) <= 1
            BY DEF TypeOK
        <3>5. chan' = <<ok>> \/ chan' = chan
            BY <3>1, Zenon DEF TrySend
        <3>6. CASE chan' = <<ok>>
            <4>1. chan' \in Seq(BOOLEAN) /\ Len(chan') = 1
                BY <3>3, <3>6, Zenon
            <4> QED BY <4>1
        <3>7. CASE chan' = chan
            BY <3>4, <3>7
        <3> QED BY <3>5, <3>6, <3>7, Zenon
    <2>3. odd' \in BOOLEAN
        BY <1>7, Zenon DEF Ep8OutCb, TypeOK
    <2>4. st' = "idle" /\ UNCHANGED <<port, dev, gone, up, gen, heard, data, thread, sent, woke, due>>
        BY <1>7 DEF Ep8OutCb
    <2> QED BY <2>1, <2>2, <2>3, <2>4 DEF TypeOK
<1>8. CASE Begin
    <2>1. got' \in [0 .. 2 -> Seq(0 .. Steps)] /\ last' \in Messages
        BY <1>8, MessagesType DEF Begin, Nothing
    <2>2. odd' \in BOOLEAN
        BY <1>8, Zenon DEF Begin
    <2>3. pc' = "pause" /\ screen' = 0 /\ step' = 1 /\ sent' = {} /\ due' = FALSE
          /\ UNCHANGED <<port, dev, gone, up, gen, faults, transfer, t, woke>>
        BY <1>8 DEF Begin
    <2>4. pc' \in Testing \cup {"wait", "assert"} /\ screen' \in 0 .. 1 /\ sent' \subseteq 0 .. 1
        BY <2>3 DEF Testing
    <2>6. due' \in BOOLEAN
        BY <2>3, Zenon
    <2>5. step' \in 1 .. Steps
        BY <2>3, StepsType, Zenon
    <2> QED BY <2>1, <2>2, <2>3, <2>4, <2>5, <2>6 DEF TypeOK
<1>9. CASE Pause
    BY <1>9 DEF Pause, TypeOK, Testing
<1>10. CASE Drain
    BY <1>10 DEF Drain, TypeOK, Testing
<1>11. CASE Copy
    <2>1. data' \in Messages
        <3>1. data' = IF st = "sub" THEN Torn ELSE <<screen, step>>
            BY <1>11 DEF Copy, Msg
        <3> QED BY <3>1, MessagesType DEF TypeOK
    <2>2. odd' \in BOOLEAN
        BY <1>11, Zenon DEF Copy, TypeOK
    <2>3. t' \in 0 .. gen
        BY <1>11, <1>b DEF Copy
    <2>4. pc' = "submit" /\ UNCHANGED <<controller, st, chan, screen, step, sent, woke, due>>
        BY <1>11 DEF Copy
    <2> QED BY <2>1, <2>2, <2>3, <2>4 DEF TypeOK, Testing
<1>12. CASE Submit
    <2>1. UNCHANGED <<port, dev, gone, up, gen, got, last, data, chan, t, odd, woke, due>>
        BY <1>12 DEF Submit
    <2>2. /\ pc' \in Testing \cup {"wait", "assert"} /\ screen' \in 0 .. 1
          /\ step' \in 1 .. Steps /\ sent' \subseteq 0 .. 1
          /\ st' \in {"idle", "sub", "taken"} /\ faults' \in 0 .. MaxFaults
        <3>1. CASE /\ st' = "sub" /\ pc' = "recv"
                   /\ UNCHANGED <<screen, step, sent, faults>>
            BY <3>1 DEF TypeOK, Testing
        <3>2. CASE /\ CanSubmit /\ up => faults < MaxFaults
                   /\ faults' = IF CanSubmit /\ up THEN faults + 1 ELSE faults
                   /\ WriteErr
                   /\ UNCHANGED st
            <4>1. faults' \in 0 .. MaxFaults
                <5>1. faults' = faults \/ (faults < MaxFaults /\ faults' = faults + 1)
                    BY <3>2
                <5> QED BY <1>a, <1>b, <5>1
            <4>2. st' \in {"idle", "sub", "taken"}
                BY <3>2 DEF TypeOK
            <4> QED BY <3>2, <4>1, <4>2, WriteType
        <3> QED BY <1>12, <3>1, <3>2 DEF Submit
    <2> QED BY <2>1, <2>2 DEF TypeOK
<1>13. CASE Recv
    <2>1. chan' = <<>> /\ UNCHANGED <<controller, data, st, t, odd, woke, due>>
        BY <1>13, Zenon DEF Recv
    <2>3. WriteOk \/ WriteErr
        BY <1>13, Zenon DEF Recv
    <2>2. chan' \in Seq(BOOLEAN) /\ Len(chan') <= 1
        BY <2>1
    <2> QED BY <2>1, <2>2, <2>3, WriteType DEF TypeOK
<1>14. CASE Timeout
    <2>1. WriteErr /\ UNCHANGED <<controller, transfer, t, odd, woke, due>>
        BY <1>14 DEF Timeout
    <2> QED BY <2>1, WriteType DEF TypeOK
<1>15. CASE Reassert
    BY <1>15 DEF Reassert, TypeOK, Testing
<1>16. CASE UNCHANGED vars
    BY <1>16 DEF vars, TypeOK
<1> QED
    BY <1>1, <1>2, <1>3, <1>4, <1>5, <1>6, <1>7, <1>8, <1>9, <1>10, <1>11, <1>12, <1>13,
       <1>14, <1>15, <1>16 DEF Next, Client, Thread

(***************************************************************************)
(* Every variable has its type, for pictures and packets of any size.      *)
(***************************************************************************)
THEOREM TypeCorrect == Spec => []TypeOK
BY TypeInit, TypeStep, PTL DEF Spec

-----------------------------------------------------------------------------
(* One message at a time, while nothing odd happened: a write finds the    *)
(* channel empty and the transfer idle, and what completes is its own.     *)
WriteInv ==
    ~odd =>
        /\ pc = "copy" => chan = <<>>
        /\ pc = "submit" => chan = <<>> /\ st = "idle" /\ data = Msg
        /\ pc = "recv" => \/ chan = <<>> /\ st = "sub" /\ data = Msg
                          \/ chan = <<>> /\ st = "taken" /\ last = Msg
                          \/ chan = <<TRUE>> /\ st = "idle" /\ last = Msg
                          \/ chan = <<FALSE>> /\ st = "idle"

(* A write that ended goes to the next message, screen or loop.            *)
LEMMA WriteEnds == WriteOk \/ WriteErr => pc' \in {"drain", "pause", "assert"}
BY Zenon DEF WriteOk, WriteErr, NextScreen

LEMMA WriteInit == Init => WriteInv
BY DEF Init, WriteInv

LEMMA WriteStep == TypeOK /\ WriteInv /\ [Next]_vars => WriteInv'
<1> SUFFICES ASSUME TypeOK, WriteInv, [Next]_vars, ~odd'
             PROVE  /\ pc' = "copy" => chan' = <<>>
                    /\ pc' = "submit" => chan' = <<>> /\ st' = "idle" /\ data' = Msg'
                    /\ pc' = "recv" => \/ chan' = <<>> /\ st' = "sub" /\ data' = Msg'
                                       \/ chan' = <<>> /\ st' = "taken" /\ last' = Msg'
                                       \/ chan' = <<TRUE>> /\ st' = "idle" /\ last' = Msg'
                                       \/ chan' = <<FALSE>> /\ st' = "idle"
    BY Zenon DEF WriteInv
<1> USE DEF controller, heard, transfer, thread, history
<1>1. CASE PlugIn \/ Unplug \/ SessionUp \/ DevGone
    <2>1. UNCHANGED <<odd, pc, screen, step, chan, st, data, last>>
        BY <1>1, Zenon DEF PlugIn, Unplug, SessionUp, DevGone
    <2> QED BY <2>1 DEF WriteInv, Msg
<1>2. CASE Take
    <2>1. /\ st = "sub" /\ st' = "taken" /\ UNCHANGED <<odd, pc, screen, step, chan>>
          /\ last' = data
        BY <1>2, Zenon DEF Take
    <2> QED BY <2>1 DEF WriteInv, Msg
<1>3. CASE Attach
    <2>1. pc \notin Testing /\ pc' = pc
        BY <1>3, Zenon DEF Attach
    <2> QED BY <2>1 DEF Testing
<1>4. CASE Ep8OutCb
    <2>1. /\ ~odd /\ pc \notin {"copy", "submit"} /\ st' = "idle"
          /\ UNCHANGED <<data, pc, screen, step, last>>
        BY <1>4, Zenon DEF Ep8OutCb
    <2>2. st \in {"taken", "sub"}
        BY <1>4, Zenon DEF Ep8OutCb
    <2>3. PICK ok \in Completed(st) : chan' = TrySend(ok)
        BY <1>4, Zenon DEF Ep8OutCb
    <2>4. CASE pc = "recv"
        <3>1. chan = <<>> /\ (st = "sub" \/ (st = "taken" /\ last = Msg))
            BY <2>1, <2>2, <2>4 DEF WriteInv
        <3>2. chan' = <<ok>>
            BY <2>3, <3>1, Zenon DEF TrySend
        <3>3. CASE st = "sub"
            <4>1. ok = FALSE
                BY <3>3 DEF Completed
            <4>2. chan' = <<FALSE>>
                BY <3>2, <4>1, Zenon
            <4> QED BY <2>1, <2>4, <4>2
        <3>4. CASE st = "taken" /\ last = Msg
            <4>1. chan' = <<TRUE>> \/ chan' = <<FALSE>>
                <5>1. ok = TRUE \/ ok = FALSE
                    BY DEF Completed
                <5> QED BY <3>2, <5>1, Zenon
            <4>2. last' = Msg'
                BY <2>1, <3>4 DEF Msg
            <4> QED BY <2>1, <2>4, <4>1, <4>2
        <3> QED BY <3>1, <3>3, <3>4
    <2>5. CASE pc # "recv"
        BY <2>1, <2>5
    <2> QED BY <2>4, <2>5
<1>5. CASE Begin \/ Pause \/ Reassert
    <2>1. pc' \in {"pause", "drain", "assert", "wait"}
        BY <1>5, Zenon DEF Begin, Pause, Reassert
    <2> QED BY <2>1
<1>6. CASE Drain
    <2>1. pc' = "copy" /\ chan' = <<>>
        BY <1>6, Zenon DEF Drain
    <2> QED BY <2>1
<1>7. CASE Copy
    <2>1. /\ ~odd /\ st = "idle" /\ pc = "copy" /\ pc' = "submit"
          /\ UNCHANGED <<st, chan, screen, step>>
        BY <1>7, Zenon DEF Copy
    <2>2. data' = Msg
        BY <1>7, <2>1 DEF Copy
    <2> QED BY <2>1, <2>2 DEF WriteInv, Msg
<1>8. CASE Submit
    <2>1. pc = "submit" /\ UNCHANGED <<odd, data, chan, last>>
        BY <1>8, Zenon DEF Submit
    <2>2. CASE st' = "sub" /\ pc' = "recv" /\ UNCHANGED <<screen, step, sent, faults>>
        BY <2>1, <2>2 DEF WriteInv, Msg
    <2>3. CASE WriteErr
        BY <2>3, WriteEnds
    <2> QED BY <1>8, <2>2, <2>3, Zenon DEF Submit
<1>9. CASE Recv \/ Timeout
    <2>1. WriteOk \/ WriteErr
        BY <1>9, Zenon DEF Recv, Timeout
    <2> QED BY <2>1, WriteEnds
<1>10. CASE UNCHANGED vars
    <2>1. UNCHANGED <<odd, pc, screen, step, chan, st, data, last>>
        BY <1>10 DEF vars
    <2> QED BY <2>1 DEF WriteInv, Msg
<1> QED
    BY <1>1, <1>2, <1>3, <1>4, <1>5, <1>6, <1>7, <1>8, <1>9, <1>10, Zenon
    DEF Next, Client, Thread

LEMMA WriteAlways == Spec => [](TypeOK /\ WriteInv)
BY TypeInit, TypeStep, WriteInit, WriteStep, PTL DEF Spec

(***************************************************************************)
(* A write that is told its message went through is told so of its own     *)
(* message: the completion of a write that timed out never counts for the  *)
(* next one, unless it comes between the drop and the submit               *)
(* (ep8_write, usb.rs:372).                                                *)
(***************************************************************************)
THEOREM OkTaken == Spec => []OkMeansTaken
<1>1. WriteInv => OkMeansTaken
    <2> SUFFICES ASSUME WriteInv, pc = "recv", chan = <<TRUE>>, ~odd PROVE last = Msg
        BY Zenon DEF OkMeansTaken
    <2>1. <<TRUE>> # <<>>
        OBVIOUS
    <2>2. <<TRUE>> # <<FALSE>>
        <3>1. <<TRUE>>[1] # <<FALSE>>[1]
            OBVIOUS
        <3> QED BY <3>1, Zenon
    <2> QED BY <2>1, <2>2, Zenon DEF WriteInv
<1> QED BY <1>1, WriteAlways, PTL

-----------------------------------------------------------------------------
(* What each screen was sent, while nothing odd happened                   *)

Upto(n) == [k \in 1 .. n |-> k]

(* The messages of screen s written to its end.                            *)
SentInv == \A s \in sent : got[s] = Upto(Steps)

(* Those of the screen at work, up to the one written now.                 *)
WorkInv ==
    pc \in Testing =>
        /\ screen \notin sent /\ (pc = "pause" => step = 1)
        /\ screen = 0 => sent = {} /\ got[1] = <<>>
        /\ pc # "recv" \/ st = "sub" => got[screen] = Upto(step - 1)
        /\ pc = "recv" /\ (st = "taken" \/ chan = <<TRUE>>) => got[screen] = Upto(step)

(* A message of a write that timed out goes to a screen given up.          *)
LateInv ==
    pc # "recv" /\ st = "sub" =>
        data[1] \notin sent /\ (pc \in Testing => screen = 1 /\ data[1] = 0)

HeardInv == ~odd => SentInv /\ WorkInv /\ LateInv

LEMMA UptoLemma ==
    /\ Upto(0) = <<>>
    /\ \A n \in Nat \ {0} : Append(Upto(n - 1), n) = Upto(n)
<1>1. Upto(0) = <<>>
    BY DEF Upto
<1>2. ASSUME NEW n \in Nat \ {0} PROVE Append(Upto(n - 1), n) = Upto(n)
    <2> DEFINE u == Upto(n - 1)
               v == Upto(n)
    <2>1. u \in Seq(Nat) /\ Len(u) = n - 1 /\ \A k \in 1 .. n - 1 : u[k] = k
        <3>1. n - 1 \in Nat /\ u = [k \in 1 .. n - 1 |-> k]
            BY DEF Upto
        <3>2. u \in [1 .. n - 1 -> Nat]
            BY <3>1
        <3> QED BY <3>1, <3>2
    <2>2. v \in Seq(Nat) /\ Len(v) = n /\ \A k \in 1 .. n : v[k] = k
        <3>1. n \in Nat /\ v = [k \in 1 .. n |-> k]
            BY DEF Upto
        <3>2. v \in [1 .. n -> Nat]
            BY <3>1
        <3> QED BY <3>1, <3>2
    <2> HIDE DEF u, v
    <2>3. /\ Append(u, n) \in Seq(Nat) /\ Len(Append(u, n)) = n
          /\ \A k \in 1 .. n - 1 : Append(u, n)[k] = u[k]
          /\ Append(u, n)[n] = n
        BY <2>1, AppendProperties
    <2>4. \A k \in 1 .. n : Append(u, n)[k] = v[k]
        BY <2>1, <2>2, <2>3
    <2>5. Append(u, n) = v
        BY <2>2, <2>3, <2>4, SeqEqual
    <2> QED BY <2>5 DEF u, v
<1> QED BY <1>1, <1>2

LEMMA HeardInit == Init => HeardInv
<1> SUFFICES ASSUME Init PROVE SentInv /\ WorkInv /\ LateInv
    BY Zenon DEF HeardInv
<1>1. sent = {} /\ pc = "wait" /\ st = "idle"
    BY DEF Init
<1> QED BY <1>1 DEF SentInv, WorkInv, LateInv, Testing

(* A write that failed gives its picture or the test up.                   *)
LEMMA GiveUp ==
    ASSUME TypeOK, SentInv, WorkInv, pc \in Testing, WriteErr, UNCHANGED <<got, st, chan, data>>
    PROVE  /\ SentInv' /\ WorkInv' /\ pc' # "recv"
           /\ pc' \in Testing => screen = 0 /\ screen' = 1
<1>1. sent' = sent
    BY DEF WriteErr
<1>2. SentInv'
    BY <1>1 DEF SentInv
<1>3. CASE pc' = "assert"
    BY <1>2, <1>3 DEF WorkInv, Testing
<1>4. CASE pc' # "assert"
    <2>1. screen = 0 /\ screen' = 1 /\ step' = 1 /\ pc' = "pause"
        BY <1>4, Zenon DEF WriteErr, NextScreen
    <2>2. sent = {} /\ got[1] = <<>>
        BY <2>1 DEF WorkInv
    <2>3. got'[screen'] = Upto(step' - 1)
        BY <2>1, <2>2, UptoLemma
    <2> QED BY <1>1, <1>2, <2>1, <2>2, <2>3 DEF WorkInv
<1> QED BY <1>3, <1>4

(* The controller takes a message: that of the write at work, or one of a  *)
(* write that timed out.                                                   *)
LEMMA HeardTake ==
    ASSUME TypeOK, WriteInv, SentInv, WorkInv, LateInv, ~odd, Take
    PROVE  SentInv' /\ WorkInv' /\ LateInv'
<1> USE DEF controller, heard, transfer, thread, history
<1>1. /\ st = "sub" /\ st' = "taken" /\ got' = [got EXCEPT ![data[1]] = Append(@, data[2])]
      /\ UNCHANGED <<pc, screen, step, chan, data, sent>>
    BY Zenon DEF Take
<1>2. got \in [0 .. 2 -> Seq(0 .. Steps)] /\ data \in Messages /\ screen \in 0 .. 1
      /\ step \in 1 .. Steps /\ sent \subseteq 0 .. 1
    BY DEF TypeOK
<1>3. data[1] \in 0 .. 2 /\ Steps \in Nat
    BY <1>2, MessagesType, StepsType
<1>4. \A s \in 0 .. 2 : s # data[1] => got'[s] = got[s]
    BY <1>1, <1>2
<1>5. LateInv'
    BY <1>1 DEF LateInv
<1>6. data[1] \notin sent
    <2>1. CASE pc = "recv"
        <3>1. data = <<screen, step>>
            BY <1>1, <2>1 DEF WriteInv, Msg
        <3>2. screen \notin sent
            BY <2>1 DEF WorkInv, Testing
        <3> QED BY <3>1, <3>2
    <2>2. CASE pc # "recv"
        BY <1>1, <2>2 DEF LateInv
    <2> QED BY <2>1, <2>2
<1>7. SentInv'
    <2>1. \A s \in sent : s \in 0 .. 2 /\ s # data[1]
        BY <1>2, <1>6
    <2> QED BY <1>1, <1>4, <2>1 DEF SentInv
<1>8. WorkInv'
    <2>1. CASE pc = "recv"
        <3>1. data = <<screen, step>> /\ chan = <<>>
            BY <1>1, <2>1 DEF WriteInv, Msg
        <3>2. data[1] = screen /\ data[2] = step
            BY <3>1
        <3>3. got[screen] = Upto(step - 1)
            BY <1>1, <2>1 DEF WorkInv, Testing
        <3>4. got'[screen] = Append(got[screen], step)
            BY <1>1, <1>2, <3>2
        <3>5. got'[screen] = Upto(step)
            <4>1. step \in Nat \ {0}
                BY <1>2, <1>3
            <4> QED BY <3>3, <3>4, <4>1, UptoLemma, Zenon
        <3>6. screen = 0 => sent = {} /\ got'[1] = <<>>
            BY <1>4, <2>1, <3>2 DEF WorkInv, Testing
        <3>7. screen \notin sent
            BY <2>1 DEF WorkInv, Testing
        <3> QED BY <1>1, <2>1, <3>5, <3>6, <3>7 DEF WorkInv
    <2>2. CASE pc # "recv"
        <3>1. pc \in Testing => screen = 1 /\ data[1] = 0
            BY <1>1, <2>2 DEF LateInv
        <3>2. pc \in Testing => got'[screen] = got[screen]
            BY <1>4, <3>1
        <3> QED BY <1>1, <2>2, <3>1, <3>2 DEF WorkInv
    <2> QED BY <2>1, <2>2
<1> QED BY <1>5, <1>7, <1>8

(* A write went well: its message is the last of those the screen took.    *)
LEMMA HeardRecv ==
    ASSUME TypeOK, WriteInv, SentInv, WorkInv, ~odd, Recv
    PROVE  SentInv' /\ WorkInv' /\ LateInv'
<1> USE DEF controller, heard, transfer, thread, history
<1>1. /\ pc = "recv" /\ chan # <<>> /\ chan' = <<>>
      /\ UNCHANGED <<got, data, st>>
    BY Zenon DEF Recv
<1>2. screen \in 0 .. 1 /\ step \in 1 .. Steps /\ sent \subseteq 0 .. 1 /\ Steps \in Nat
    BY StepsType DEF TypeOK
<1>3. st = "idle" /\ (chan = <<TRUE>> \/ chan = <<FALSE>>)
    BY <1>1 DEF WriteInv
<1>4. LateInv'
    BY <1>1, <1>3 DEF LateInv
<1>5. screen \notin sent /\ (screen = 0 => sent = {} /\ got[1] = <<>>)
    BY <1>1 DEF WorkInv, Testing
<1>6. pc' \in {"drain", "pause", "assert"}
    <2>1. WriteOk \/ WriteErr
        BY Zenon DEF Recv
    <2> QED BY <2>1, WriteEnds
<1>7. CASE Head(chan)
    <2>1. WriteOk
        BY <1>7, Zenon DEF Recv
    <2>2. chan = <<TRUE>>
        <3>1. ASSUME NEW x PROVE Head(<<x>>) = x
            OBVIOUS
        <3>2. Head(<<FALSE>>) = FALSE
            BY <3>1, Zenon
        <3> QED BY <1>3, <1>7, <3>2, Zenon
    <2>3. got[screen] = Upto(step)
        BY <1>1, <2>2 DEF WorkInv, Testing
    <2>4. CASE step < Steps
        <3>1. step' = step + 1 /\ pc' = "drain" /\ screen' = screen /\ sent' = sent
            BY <2>1, <2>4 DEF WriteOk
        <3>2. got'[screen'] = Upto(step' - 1)
            BY <1>1, <1>2, <2>3, <3>1
        <3> QED BY <1>1, <1>4, <1>5, <3>1, <3>2 DEF SentInv, WorkInv
    <2>5. CASE ~(step < Steps)
        <3>1. step = Steps
            BY <1>2, <2>5
        <3>2. NextScreen /\ sent' = sent \cup {screen}
            BY <2>1, <2>5, Zenon DEF WriteOk
        <3>3. SentInv'
            BY <1>1, <2>3, <3>1, <3>2 DEF SentInv
        <3>4. CASE screen = 0
            <4>1. screen' = 1 /\ step' = 1 /\ pc' = "pause"
                BY <3>2, <3>4 DEF NextScreen
            <4>2. got'[screen'] = Upto(step' - 1)
                BY <1>1, <1>5, <3>4, <4>1, UptoLemma
            <4> QED BY <1>4, <1>5, <3>2, <3>3, <3>4, <4>1, <4>2 DEF WorkInv
        <3>5. CASE screen # 0
            <4>1. pc' = "assert"
                BY <3>2, <3>5 DEF NextScreen
            <4> QED BY <1>4, <3>3, <4>1 DEF WorkInv, Testing
        <3> QED BY <3>4, <3>5
    <2> QED BY <2>4, <2>5
<1>8. CASE ~Head(chan)
    <2>1. WriteErr
        BY <1>8, Zenon DEF Recv
    <2>2. sent' = sent
        BY <2>1 DEF WriteErr
    <2>3. SentInv'
        BY <1>1, <2>2 DEF SentInv
    <2>4. CASE pc' = "assert"
        BY <1>4, <2>3, <2>4 DEF WorkInv, Testing
    <2>5. CASE pc' # "assert"
        <3>1. screen = 0 /\ screen' = 1 /\ step' = 1 /\ pc' = "pause"
            BY <2>1, <2>5, Zenon DEF WriteErr, NextScreen
        <3>2. got'[screen'] = Upto(step' - 1)
            BY <1>1, <1>5, <3>1, UptoLemma
        <3> QED BY <1>4, <1>5, <2>2, <2>3, <3>1, <3>2 DEF WorkInv
    <2> QED BY <2>4, <2>5
<1> QED BY <1>7, <1>8, Zenon

LEMMA HeardStep == TypeOK /\ WriteInv /\ HeardInv /\ [Next]_vars => HeardInv'
<1> SUFFICES ASSUME TypeOK, WriteInv, HeardInv, [Next]_vars, ~odd'
             PROVE  SentInv' /\ WorkInv' /\ LateInv'
    BY Zenon DEF HeardInv
<1> USE DEF controller, heard, transfer, thread, history
<1>0. ~odd => SentInv /\ WorkInv /\ LateInv
    BY DEF HeardInv
<1>1. CASE PlugIn \/ Unplug \/ SessionUp \/ DevGone
    <2>1. UNCHANGED <<odd, pc, screen, step, chan, st, data, got, sent>>
        BY <1>1, Zenon DEF PlugIn, Unplug, SessionUp, DevGone
    <2>2. ~odd
        BY <2>1
    <2> QED BY <1>0, <2>1, <2>2 DEF SentInv, WorkInv, LateInv
<1>2. CASE Take
    <2>1. ~odd
        BY <1>2, Zenon DEF Take
    <2> QED BY <1>0, <1>2, <2>1, HeardTake, Zenon
<1>3. CASE Attach
    <2>1. pc \notin Testing /\ pc' = pc /\ st' = "idle" /\ sent' = {}
        BY <1>3, Zenon DEF Attach
    <2> QED BY <2>1 DEF SentInv, WorkInv, LateInv
<1>4. CASE Ep8OutCb
    <2>1. /\ ~odd /\ st' = "idle" /\ UNCHANGED <<data, pc, screen, step, got, sent>>
          /\ st \in {"taken", "sub"}
        BY <1>4, Zenon DEF Ep8OutCb
    <2>2. SentInv /\ WorkInv
        BY <1>0, <2>1, Zenon
    <2>3. SentInv' /\ LateInv'
        BY <2>1, <2>2 DEF SentInv, LateInv
    <2>4. CASE pc = "recv"
        <3>1. ASSUME chan' = <<TRUE>> PROVE got[screen] = Upto(step)
            <4>1. CASE st = "taken"
                BY <2>2, <2>4, <4>1 DEF WorkInv, Testing
            <4>2. CASE st = "sub"
                <5>1. chan = <<>>
                    BY <2>1, <2>4, <4>2 DEF WriteInv
                <5>2. PICK ok \in Completed(st) : chan' = TrySend(ok)
                    BY <1>4, Zenon DEF Ep8OutCb
                <5>3. ok = FALSE
                    BY <4>2, <5>2 DEF Completed
                <5>4. chan' = <<FALSE>>
                    BY <5>1, <5>2, <5>3, Zenon DEF TrySend
                <5>5. <<TRUE>>[1] # <<FALSE>>[1]
                    OBVIOUS
                <5> QED BY <3>1, <5>4, <5>5, Zenon
            <4> QED BY <2>1, <4>1, <4>2
        <3>2. /\ screen \notin sent
              /\ screen = 0 => sent = {} /\ got[1] = <<>>
            BY <2>2, <2>4 DEF WorkInv, Testing
        <3> QED BY <2>1, <2>3, <2>4, <3>1, <3>2 DEF WorkInv
    <2>5. CASE pc # "recv"
        BY <2>1, <2>2, <2>3, <2>5 DEF WorkInv
    <2> QED BY <2>4, <2>5
<1>5. CASE Begin
    <2>1. /\ pc' = "pause" /\ screen' = 0 /\ step' = 1 /\ sent' = {} /\ got' = Nothing
          /\ st' = st /\ st # "sub"
        BY <1>5, Zenon DEF Begin
    <2>2. got'[0] = <<>> /\ got'[1] = <<>>
        BY <2>1 DEF Nothing
    <2>3. got'[screen'] = Upto(step' - 1)
        BY <2>1, <2>2, UptoLemma
    <2> QED BY <2>1, <2>2, <2>3 DEF SentInv, WorkInv, LateInv
<1>6. CASE Pause \/ Drain
    <2>1. /\ pc \in {"pause", "drain"} /\ pc' \in {"drain", "copy"}
          /\ UNCHANGED <<odd, screen, step, st, data, got, sent>>
        BY <1>6, Zenon DEF Pause, Drain
    <2>2. ~odd
        BY <2>1
    <2> QED BY <1>0, <2>1, <2>2 DEF SentInv, WorkInv, LateInv, Testing
<1>7. CASE Copy
    <2>1. /\ ~odd /\ st = "idle" /\ pc = "copy" /\ pc' = "submit"
          /\ UNCHANGED <<st, screen, step, got, sent>>
        BY <1>7, Zenon DEF Copy
    <2> QED BY <1>0, <2>1 DEF SentInv, WorkInv, LateInv, Testing
<1>8. CASE Submit
    <2>1. pc = "submit" /\ UNCHANGED <<odd, data, chan, got>>
        BY <1>8, Zenon DEF Submit
    <2>2. ~odd /\ pc \in Testing
        BY <2>1 DEF Testing
    <2>3. SentInv /\ WorkInv /\ chan = <<>> /\ st = "idle"
        BY <1>0, <2>1, <2>2 DEF WriteInv
    <2>4. CASE st' = "sub" /\ pc' = "recv" /\ UNCHANGED <<screen, step, sent, faults>>
        <3>1. chan' # <<TRUE>>
            BY <2>1, <2>3
        <3> QED BY <2>1, <2>3, <2>4, <3>1 DEF SentInv, WorkInv, LateInv, Testing
    <2>5. CASE WriteErr /\ UNCHANGED st
        <3>1. SentInv' /\ WorkInv'
            BY <2>1, <2>2, <2>3, <2>5, GiveUp
        <3> QED BY <2>3, <2>5, <3>1 DEF LateInv
    <2> QED BY <1>8, <2>4, <2>5, Zenon DEF Submit
<1>9. CASE Recv
    <2>1. ~odd
        BY <1>9, Zenon DEF Recv
    <2> QED BY <1>0, <1>9, <2>1, HeardRecv, Zenon
<1>10. CASE Timeout
    <2>1. /\ pc = "recv" /\ chan = <<>> /\ WriteErr
          /\ UNCHANGED <<odd, got, st, chan, data>>
        BY <1>10, Zenon DEF Timeout
    <2>2. ~odd /\ pc \in Testing
        BY <2>1 DEF Testing
    <2>3. SentInv /\ WorkInv
        BY <1>0, <2>2
    <2>4. /\ SentInv' /\ WorkInv' /\ pc' # "recv"
          /\ pc' \in Testing => screen = 0 /\ screen' = 1
        BY <2>1, <2>2, <2>3, GiveUp
    <2>5. ASSUME st' = "sub"
          PROVE  data'[1] \notin sent' /\ (pc' \in Testing => screen' = 1 /\ data'[1] = 0)
        <3>1. data = <<screen, step>>
            BY <2>1, <2>2, <2>5 DEF WriteInv, Msg
        <3>2. data'[1] = screen /\ sent' = sent
            BY <2>1, <3>1 DEF WriteErr
        <3>3. screen \notin sent
            BY <2>2, <2>3 DEF WorkInv
        <3> QED BY <2>4, <3>2, <3>3
    <2> QED BY <2>4, <2>5 DEF LateInv
<1>11. CASE Reassert
    <2>1. /\ pc = "assert" /\ pc' \in {"assert", "wait"}
          /\ UNCHANGED <<odd, st, data, got, sent>>
        BY <1>11, Zenon DEF Reassert
    <2> QED BY <1>0, <2>1 DEF SentInv, WorkInv, LateInv, Testing
<1>12. CASE UNCHANGED vars
    <2>1. UNCHANGED <<odd, pc, screen, step, chan, st, data, got, sent>>
        BY <1>12 DEF vars
    <2> QED BY <1>0, <2>1 DEF SentInv, WorkInv, LateInv
<1> QED
    BY <1>1, <1>2, <1>3, <1>4, <1>5, <1>6, <1>7, <1>8, <1>9, <1>10, <1>11, <1>12, Zenon
    DEF Next, Client, Thread

(* The whole sequence of a screen's messages draws its picture.            *)
LEMMA SentDrawn ==
    ASSUME TypeOK, NEW s \in sent, got[s] = Upto(Steps)
    PROVE  /\ Len(got[s]) >= InitLen + 3
           /\ \A k \in 1 .. InitLen : got[s][k] = k
           /\ \A k \in InitLen + 1 .. Len(got[s]) : got[s][k] > InitLen
           /\ DrawsBuffer(Drawing(s), Packet, BufSize)
<1>1. /\ InitLen \in Nat \ {0} /\ Len(Frame) \in Nat /\ Len(Frame) >= 3
      /\ Steps \in Nat /\ Steps = InitLen + Len(Frame)
    BY StepsType
<1>2. Frame \in Seq(RawMessage) /\ DrawsBuffer(Frame, Packet, BufSize)
    <2>1. Packet \in Nat /\ Packet >= 6 /\ BufSize \in Nat /\ BufSize >= FsFirst(Packet)
        BY SizeAssumption
    <2> QED BY <2>1, FrameDraws DEF Frame
<1> DEFINE u == Upto(Steps)
<1>3. u \in [1 .. Steps -> Nat] /\ \A k \in 1 .. Steps : u[k] = k
    BY <1>1 DEF Upto
<1>4. Len(u) = Steps
    BY <1>1, <1>3
<1> HIDE DEF u
<1>5. Drawing(s) = [k \in 1 .. Len(u) - InitLen |-> Frame[u[k + InitLen] - InitLen]]
    BY DEF Drawing, u
<1>6. Drawing(s) = [k \in 1 .. Len(Frame) |-> Frame[k]]
    <2>1. Len(u) - InitLen = Len(Frame)
        BY <1>1, <1>4
    <2>2. \A k \in 1 .. Len(Frame) : u[k + InitLen] - InitLen = k
        BY <1>1, <1>3
    <2> QED BY <1>5, <2>1, <2>2
<1>7. Frame = [k \in 1 .. Len(Frame) |-> Frame[k]]
    BY <1>2, LenProperties
<1>8. DrawsBuffer(Drawing(s), Packet, BufSize)
    BY <1>2, <1>6, <1>7, Zenon
<1>9. got[s] = u
    BY DEF u
<1>10. /\ Len(u) >= InitLen + 3
       /\ \A k \in 1 .. InitLen : u[k] = k
       /\ \A k \in InitLen + 1 .. Len(u) : u[k] > InitLen
    BY <1>1, <1>3, <1>4
<1> QED BY <1>8, <1>9, <1>10, Zenon

(***************************************************************************)
(* A panel whose test was logged as sent took the init sequence and then   *)
(* messages that draw its whole buffer, for every length of the init       *)
(* sequence, every packet of at least six bytes and every picture that     *)
(* fills the first of them (display_test, usb.rs:409).                     *)
(***************************************************************************)
THEOREM PictureTaken == Spec => []PictureWhole
<1>1. TypeOK /\ HeardInv => PictureWhole
    <2> SUFFICES ASSUME TypeOK, HeardInv, NEW s \in sent, ~odd
                 PROVE  /\ Len(got[s]) >= InitLen + 3
                        /\ \A k \in 1 .. InitLen : got[s][k] = k
                        /\ \A k \in InitLen + 1 .. Len(got[s]) : got[s][k] > InitLen
                        /\ DrawsBuffer(Drawing(s), Packet, BufSize)
        BY Zenon DEF PictureWhole
    <2>1. got[s] = Upto(Steps)
        BY DEF HeardInv, SentInv
    <2> QED BY <2>1, SentDrawn, Zenon
<1>2. Spec => []HeardInv
    BY WriteAlways, HeardInit, HeardStep, PTL DEF Spec
<1> QED BY <1>1, <1>2, TypeCorrect, PTL

-----------------------------------------------------------------------------
(* The thread among its sessions                                           *)

(* Only an open device has a session, or a departure to be reported.       *)
OpenInv == (gone => dev) /\ (up => dev)

LEMMA OpenStep == OpenInv /\ [Next]_vars => OpenInv'
<1> SUFFICES ASSUME OpenInv, [Next]_vars PROVE OpenInv'
    OBVIOUS
<1> USE DEF controller, OpenInv
<1>1. CASE Unplug
    BY <1>1, Zenon DEF Unplug
<1>2. CASE Attach
    BY <1>2, Zenon DEF Attach
<1>3. CASE SessionUp
    BY <1>3, Zenon DEF SessionUp
<1>4. CASE DevGone
    BY <1>4, Zenon DEF DevGone
<1>5. CASE PlugIn \/ Take \/ Ep8OutCb
    <2>1. UNCHANGED <<dev, gone, up>>
        BY <1>5, Zenon DEF PlugIn, Take, Ep8OutCb
    <2> QED BY <2>1, Zenon
<1>6. CASE Thread
    <2>1. UNCHANGED <<dev, gone, up>>
        BY <1>6, Zenon DEF Thread, Begin, Pause, Drain, Copy, Submit, Recv, Timeout, Reassert
    <2> QED BY <2>1, Zenon
<1>7. CASE UNCHANGED vars
    BY <1>7, Zenon DEF vars
<1> QED BY <1>1, <1>2, <1>3, <1>4, <1>5, <1>6, <1>7, Zenon DEF Next, Client

LEMMA LifeStep == OpenInv /\ [Next]_vars => [Life!Next]_(Life!life)
<1> SUFFICES ASSUME OpenInv, [Next]_vars PROVE [Life!Next]_(Life!life)
    OBVIOUS
<1> DEFINE disp == IF pc \in Testing THEN "test" ELSE pc
<1> USE DEF controller, thread
<1>1. CASE PlugIn
    <2>1. Life!PlugIn
        BY <1>1, Zenon DEF PlugIn, Life!PlugIn
    <2> QED BY <2>1, Zenon DEF Life!Next
<1>2. CASE Unplug
    <2>1. Life!Unplug
        BY <1>2, Zenon DEF Unplug, Life!Unplug
    <2> QED BY <2>1, Zenon DEF Life!Next
<1>3. CASE Attach
    <2>1. Life!Attach
        BY <1>3, Zenon DEF Attach, Life!Attach, OpenInv
    <2> QED BY <2>1, Zenon DEF Life!Next, Life!Client
<1>4. CASE SessionUp
    <2>1. Life!SessionUp
        BY <1>4, Zenon DEF SessionUp, Life!SessionUp
    <2> QED BY <2>1, Zenon DEF Life!Next, Life!Client
<1>5. CASE DevGone
    <2>1. Life!DevGone
        BY <1>5, Zenon DEF DevGone, Life!DevGone
    <2> QED BY <2>1, Zenon DEF Life!Next, Life!Client
<1>6. CASE Take \/ Ep8OutCb \/ UNCHANGED vars
    <2>1. UNCHANGED <<port, dev, gone, up, pc>>
        BY <1>6, Zenon DEF Take, Ep8OutCb, vars
    <2> QED BY <2>1, Zenon DEF Life!life
<1>7. CASE Begin
    <2>1. disp = "wait" /\ disp' = "test"
        BY <1>7, Zenon DEF Begin, Testing
    <2>2. up /\ UNCHANGED <<port, dev, gone, up>>
        BY <1>7, Zenon DEF Begin
    <2>3. Life!Wake
        BY <2>1, <2>2, Zenon DEF Life!Wake
    <2> QED BY <2>3, Zenon DEF Life!Next, Life!Thread
<1>8. CASE Pause \/ Drain \/ Copy \/ Submit \/ Recv \/ Timeout
    <2>1. UNCHANGED <<port, dev, gone, up>>
        BY <1>8, Zenon DEF Pause, Drain, Copy, Submit, Recv, Timeout
    <2>2. disp = "test"
        BY <1>8, Zenon DEF Pause, Drain, Copy, Submit, Recv, Timeout, Testing
    <2>3. disp' = "test" \/ disp' = "assert"
        <3>1. pc' \in {"drain", "copy", "submit", "recv", "pause", "assert"}
            BY <1>8, WriteEnds, Zenon DEF Pause, Drain, Copy, Submit, Recv, Timeout
        <3> QED BY <3>1 DEF Testing
    <2>4. Life!Tested \/ UNCHANGED Life!life
        BY <2>1, <2>2, <2>3, Zenon DEF Life!Tested, Life!life
    <2> QED BY <2>4, Zenon DEF Life!Next, Life!Thread
<1>9. CASE Reassert
    <2>1. UNCHANGED <<port, dev, gone, up>> /\ disp = "assert"
        BY <1>9, Zenon DEF Reassert, Testing
    <2>2. disp' = IF up THEN "assert" ELSE "wait"
        <3>1. pc' = IF up THEN "assert" ELSE "wait"
            BY <1>9, Zenon DEF Reassert
        <3> QED BY <3>1 DEF Testing
    <2>3. Life!Quit \/ UNCHANGED Life!life
        BY <2>1, <2>2, Zenon DEF Life!Quit, Life!life
    <2> QED BY <2>3, Zenon DEF Life!Next, Life!Thread
<1> QED
    BY <1>1, <1>2, <1>3, <1>4, <1>5, <1>6, <1>7, <1>8, <1>9, Zenon DEF Next, Client, Thread

(***************************************************************************)
(* The display thread with each step of its writes is the thread of three  *)
(* places that UsbSession has, and all it asks of the client thread is what*)
(* SessionLife says (usb.rs:459).                                          *)
(***************************************************************************)
THEOREM ThreadIsLife == Spec => ImplementsLife
<1>1. Init => OpenInv /\ Life!Init
    BY DEF Init, OpenInv, Life!Init, Testing
<1> QED BY <1>1, OpenStep, LifeStep, PTL DEF Spec, ImplementsLife, Life!Spec

=============================================================================
