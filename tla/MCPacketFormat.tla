--------------------------- MODULE MCPacketFormat ---------------------------
(***************************************************************************)
(* Bytes of one bit: all widths but that of a text are reached by a few    *)
(* numbers, the least and the greatest among them.                         *)
(***************************************************************************)
EXTENDS PacketFormat

\* A hash that tells all lists of values apart.
NoCollision(values) == values

EdgeTimes == {0, 10, 15}
EdgeTypes == {0, 3, 6}
ShortTexts == UNION {[1 .. n -> 0 .. 1] : n \in 0 .. 3}

=============================================================================
