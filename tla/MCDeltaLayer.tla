---------------------------- MODULE MCDeltaLayer ----------------------------
EXTENDS DeltaLayer

Piece == [offset : 0 .. 6, size : 1 .. 2]

Sorted(s) == \A i \in 1 .. Len(s) - 1 : s[i].offset <= s[i + 1].offset

\* Up to four files: adjacent, a gap apart, overlapping or equal ranges.
Lists == {s \in UNION {[1 .. n -> Piece] : n \in 0 .. 4} : Sorted(s)}

\* Eight bytes of files, a frame header, two bytes of table, the footer.
At(offset, comp, type) == [offset |-> offset, comp |-> comp, uncomp |-> comp, type |-> type]
Table == At(9, 2, 1)

Chunked(files) ==
  [size |-> 13, footer |-> Table, info |-> Table,
   toc |-> [offset |-> 9, comp |-> 2], files |-> files]

TwoFiles == <<[offset |-> 1, size |-> 2], [offset |-> 6, size |-> 2]>>

\* Offsets and lengths that end the layer, overflow an int64, or exceed the maximum.
Odd == {At(o, c, t) : o \in {0, 9, 11, 15, 16, 27, 31}, c \in {0, 2, 4, 16, 31}, t \in {0, 1}}

\* What a broken builder or registry may have in the place of each part.
Broken ==
  {[Chunked(TwoFiles) EXCEPT !.footer = f, !.info = i] :
      f \in Odd \cup {NoValue}, i \in {NoValue, Table, At(9, 2, 0), At(9, 4, 1)}}

\* Layers without a table, one of them shorter than a footer, some with a footer's bytes.
NoTable ==
  {[size |-> n, footer |-> f, info |-> i, toc |-> NoValue, files |-> << >>] :
      n \in {1, 2, 13}, f \in {NoValue, Table}, i \in {NoValue, Table}}

\* The first byte is the header of a file at the next two, which the database has;
\* the missing file is as long as both.
KnownThenMissing == {Chunked(<<[offset |-> 3, size |-> 3]>>)}

AllLayers == {Chunked(files) : files \in Lists} \cup Broken \cup NoTable
=============================================================================
