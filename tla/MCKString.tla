------------------------------ MODULE MCKString ------------------------------
(***************************************************************************)
(* KString and KPrint.  Eight bytes in words of four: block lengths that   *)
(* are and are not multiples of a word, up to two words, at aligned        *)
(* addresses and others, and strings of the terminator, the least other    *)
(* byte and the greatest.                                                  *)
(* Formats of up to three pieces, with every conversion, an unknown one,   *)
(* and arguments that look like conversions; every int of 12 bits and      *)
(* every pointer of 8.                                                     *)
(***************************************************************************)
EXTENDS KPrint

MCInts == {-1, 0, 1, 2, 3, 256, 258}

Piece(spec, arg) == [spec |-> spec, arg |-> arg]

MCPieces ==
  { Piece(Literal, Ch.d), Piece(Ch.percent, 0), Piece(Ch.x, 0), Piece(Ch.c, Ch.percent),
    Piece(Ch.c, 256 + Ch.s), Piece(Ch.s, <<>>), Piece(Ch.s, <<Ch.percent, Ch.d>>),
    Piece(Ch.d, Least), Piece(Ch.d, -10), Piece(Ch.p, 175) }
=============================================================================
