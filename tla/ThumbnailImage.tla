--------------------------- MODULE ThumbnailImage ---------------------------
(***************************************************************************)
(* The placeholder picture (PlaceholderThumbnailGenerator) and the PNG     *)
(* file it is written to (MiniPng), as functions.  Rectangles are given by *)
(* the pixels from <<x0, y0>> up to, not including, <<x1, y1>>.            *)
(***************************************************************************)
EXTENDS Integers, Sequences, SequencesExt

CONSTANTS
  Word,     \* 2^32: std::uint32_t counts modulo this
  kMax      \* 65535: the most bytes of a stored block

ASSUME ImageAssumption == Word \in Nat \ {0} /\ kMax \in 1..65535

Minus(x, y) == (x - y) % Word
Plus(x, y)  == (x + y) % Word

Least(x, y)    == IF x < y THEN x ELSE y
Greatest(x, y) == IF x < y THEN y ELSE x
-----------------------------------------------------------------------------
(* The picture is a square of `size' pixels. *)

\* HashToTint: the lightest and the darkest a channel can get.
Tints == {80, 80 + 127}

\* PaintGradient, at distance t from the dark corner.
Gradient(size, tint, t) ==
  LET dark == tint \div 6
  IN  dark + ((tint - dark) * t) \div (size + size)

FillRect(size, x0, y0, rw, rh) ==
  [x0 |-> x0, y0 |-> y0, x1 |-> Least(size, Plus(x0, rw)), y1 |-> Least(size, Plus(y0, rh))]

Empty(r) == r.x0 >= r.x1 \/ r.y0 >= r.y1

\* The frame: top, bottom, left, right.
Border(size) ==
  LET b == Greatest(2, size \div 64)
  IN  {FillRect(size, 0, 0, size, b), FillRect(size, 0, Minus(size, b), size, b),
       FillRect(size, 0, 0, b, size), FillRect(size, Minus(size, b), 0, b, size)}

\* All the cells of a character.
Solid == (0..2) \X (0..4)

\* The shapes a character can have.  "a", "Z" and "7" stand for the small and the
\* capital letters and the digits.
GlyphFor(ch) ==
  IF ch \in {"a", "Z", "7", ".", "-", "_"} THEN SUBSET Solid \ {{}, Solid}
  ELSE IF ch = " " THEN {{}} ELSE {Solid}

\* The characters PrepareLabel keeps.
IsLabelChar(c) == c \in {"a", "Z", "7"} \cup {".", "-", "_", " "}

\* What can be drawn of a text, cut to a length.
PrepareLabel(text, max) ==
  LET out == SelectSeq(text, IsLabelChar)
  IN  SubSeq(out, 1, Least(Len(out), max))

\* The default prim of a layer, or else its first prim; "USD" if there is none or the
\* layer cannot be read.
DescribeUsdFile(layer) ==
  IF ~layer.opens THEN <<"Z", "Z", "Z">>
  ELSE IF layer.defaultPrim # <<>> THEN layer.defaultPrim
  ELSE IF layer.roots # <<>> THEN Head(layer.roots) ELSE <<"Z", "Z", "Z">>

\* DrawChar with every cell of the glyph set, as GlyphFor has it for a character it
\* does not know.
DrawChar(size, x0, y0, scale) ==
  {FillRect(size, Plus(x0, col * scale), Plus(y0, row * scale), scale, scale) :
     col \in 0..2, row \in 0..4}

\* DrawStringCentered, for a text of n characters.
DrawStringCentered(size, y0, scale, n) ==
  LET width == (n * 3 * scale + (n - 1) * scale) % Word
      x     == Minus(size, width) \div 2
  IN  IF n = 0 \/ width >= size THEN {}
      ELSE UNION {DrawChar(size, Plus(x, i * 4 * scale), y0, scale) : i \in 0..(n - 1)}

\* The largest scale at which n characters take 80% of the width.
MaxScale(size, n) ==
  IF n = 0 THEN 0 ELSE Greatest(1, (((size * 4) % Word) \div 5) \div (4 * n - 1))

\* Generate: where the two lines, of n1 and n2 characters, go.
Layout(size, n1, n2) ==
  LET s1  == MaxScale(size, n1)
      s2  == MaxScale(size, n2)
      gap == Greatest(s1, s2)
      y1  == Minus(Minus(Minus(size, 5 * s1), 5 * s2), gap) \div 2
  IN  [s1 |-> s1, s2 |-> s2, height |-> 5 * s1 + gap + 5 * s2,
       y1 |-> y1, y2 |-> Plus(y1, 5 * s1 + gap)]

Lines(size, n1, n2) ==
  LET l == Layout(size, n1, n2)
  IN  <<DrawStringCentered(size, l.y1, l.s1, n1), DrawStringCentered(size, l.y2, l.s2, n2)>>
-----------------------------------------------------------------------------
(* MiniPng.  A word that the CRC works on is the set of its bits that are 1. *)

Xor(a, b) == (a \ b) \cup (b \ a)

ShiftRight(a, k) == {i - k : i \in {j \in a : j >= k}}

FromByte(n) == {i \in 0..7 : (n \div 2^i) % 2 = 1}

ByteOf(a, k) == SumSet({2^(i - 8 * k) : i \in a \cap (8 * k)..(8 * k + 7)})

AllOnes == 0..31

\* 0xEDB88320.
Polynomial == {5, 8, 9, 15, 19, 20, 21, 23, 24, 26, 27, 29, 30, 31}

DivideStep(c, low) == IF low THEN Xor(Polynomial, ShiftRight(c, 1)) ELSE ShiftRight(c, 1)

Crc32Table ==
  [n \in 0..255 |->
     LET c[k \in 0..8] == IF k = 0 THEN FromByte(n)
                          ELSE LET before == c[k - 1] IN DivideStep(before, 0 \in before)
     IN  c[8]]

\* One turn of the loop of Crc32.
TableStep(c, byte) == Xor(Crc32Table[ByteOf(Xor(c, FromByte(byte)), 0)], ShiftRight(c, 8))

BE32(x) == <<x \div 2^24, (x \div 2^16) % 256, (x \div 2^8) % 256, x % 256>>

Adler32(data) ==
  FoldLeft(LAMBDA s, d : LET a == (s.a + d) % 65521 IN [a |-> a, b |-> (s.b + a) % 65521],
           [a |-> 1, b |-> 0], data)

\* WriteChunk: the length of the data, the type and the data, and the CRC of both.
Chunk(payload, crc) ==
  LET c == Xor(AllOnes, crc)
  IN  BE32(Len(payload) - 4) \o payload
        \o <<ByteOf(c, 3), ByteOf(c, 2), ByteOf(c, 1), ByteOf(c, 0)>>

\* One stored block: whether it is the last, its length and the complement of that,
\* least byte first, and its bytes.
StoredBlock(raw, offset, chunk) ==
  LET nlen == 65535 - chunk
  IN  <<IF offset + chunk = Len(raw) THEN 1 ELSE 0,
        chunk % 256, chunk \div 256, nlen % 256, nlen \div 256>>
        \o SubSeq(raw, offset + 1, offset + chunk)

\* Faulty: a block more when the bytes fill the last one.
StoredBlocks_Extra(raw) ==
  FlattenSeq([k \in 1..(Len(raw) \div kMax + 1) |->
                StoredBlock(raw, kMax * (k - 1), Least(kMax, Len(raw) - kMax * (k - 1)))])

\* The loop of ZlibWrapStored: full blocks as long as more than kMax bytes remain.
StoredBlocks(raw) ==
  FlattenSeq([k \in 1..Greatest(1, (Len(raw) + kMax - 1) \div kMax) |->
                StoredBlock(raw, kMax * (k - 1), Least(kMax, Len(raw) - kMax * (k - 1)))])

ZlibWrapStored(raw) ==
  LET s == Adler32(raw)
  IN  <<120, 1>> \o StoredBlocks(raw) \o <<s.b \div 256, s.b % 256, s.a \div 256, s.a % 256>>

Signature == <<137, 80, 78, 71, 13, 10, 26, 10>>
IHDR == <<73, 72, 68, 82>>
IDAT == <<73, 68, 65, 84>>
IEND == <<73, 69, 78, 68>>

\* What Write puts into the chunks of an image that is given by its rows of bytes: a
\* header, the rows with no filter, and nothing.
Chunks(width, rows) ==
  LET raw == FlattenSeq([y \in 1..Len(rows) |-> <<0>> \o rows[y]])
  IN  <<IHDR \o BE32(width) \o BE32(Len(rows)) \o <<8, 2, 0, 0, 0>>,
        IDAT \o ZlibWrapStored(raw),
        IEND>>
-----------------------------------------------------------------------------
(* What a reader of PNG files makes of it, from the formats' definitions. *)

\* The CRC of one byte more, bit by bit and without a table.
SerialStep(c, byte) ==
  LET e[k \in 0..8] ==
        IF k = 0 THEN c
        ELSE LET d == e[k - 1] IN DivideStep(d, (0 \in d) # (k - 1 \in FromByte(byte)))
  IN  e[8]

\* Adler-32 as two sums, each reduced once.
AdlerOf(data) ==
  LET n == Len(data)
  IN  [a |-> (1 + FoldLeft(+, 0, data)) % 65521,
       b |-> (n + FoldLeft(+, 0, [i \in 1..n |-> (n - i + 1) * data[i]])) % 65521]

Number(bytes) == FoldLeft(LAMBDA x, d : 256 * x + d, 0, bytes)

\* The chunk at `at': where it ends, or 0 when it is cut short.
ChunkEnd(file, at) ==
  IF at + 11 > Len(file) THEN 0
  ELSE LET end == at + 11 + Number(SubSeq(file, at, at + 3))
       IN  IF end <= Len(file) THEN end ELSE 0

ChunkType(file, at) == SubSeq(file, at + 4, at + 7)
ChunkData(file, at) == SubSeq(file, at + 8, ChunkEnd(file, at) - 4)

\* The stored blocks from `at' on: their bytes, and where the last one ends.
RECURSIVE Inflate(_, _)
Inflate(z, at) ==
  LET len   == z[at + 1] + 256 * z[at + 2]
      bytes == SubSeq(z, at + 5, at + 4 + len)
      rest  == Inflate(z, at + 5 + len)
  IN  IF z[at] \notin {0, 1} \/ len + z[at + 3] + 256 * z[at + 4] # 65535
      THEN [bytes |-> <<>>, end |-> 0]
      ELSE IF z[at] = 1 THEN [bytes |-> bytes, end |-> at + 4 + len]
      ELSE [bytes |-> bytes \o rest.bytes, end |-> rest.end]

\* The rows of a file with the three chunks, nothing after them, and no filter.
Decode(file) ==
  LET ihdr == 9
      idat == ChunkEnd(file, ihdr) + 1
      iend == ChunkEnd(file, idat) + 1
      z    == ChunkData(file, idat)
      raw  == Inflate(z, 3)
      sums == AdlerOf(raw.bytes)
      w    == Number(SubSeq(file, 17, 20))
      h    == Number(SubSeq(file, 21, 24))
  IN  IF /\ SubSeq(file, 1, 8) = Signature
         /\ ChunkEnd(file, ihdr) # 0 /\ ChunkType(file, ihdr) = IHDR
         /\ ChunkEnd(file, idat) # 0 /\ ChunkType(file, idat) = IDAT
         /\ ChunkEnd(file, iend) = Len(file) /\ ChunkType(file, iend) = IEND
         /\ (256 * z[1] + z[2]) % 31 = 0
         /\ raw.end + 4 = Len(z)
         /\ SubSeq(z, raw.end + 1, Len(z)) =
              <<sums.b \div 256, sums.b % 256, sums.a \div 256, sums.a % 256>>
         /\ Len(raw.bytes) = h * (1 + 3 * w)
         /\ \A y \in 1..h : raw.bytes[(y - 1) * (1 + 3 * w) + 1] = 0
      THEN [y \in 1..h |-> SubSeq(raw.bytes, (y - 1) * (1 + 3 * w) + 2, y * (1 + 3 * w))]
      ELSE <<>>
=============================================================================
