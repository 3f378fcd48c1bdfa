---------------------------- MODULE MCBitsetWire ----------------------------
(***************************************************************************)
(* BitsetWire for TLC: a bitset of five bits (bitmaps with up to three     *)
(* runs), bytes of three values (a uint16 counts to 8, past the size),     *)
(* forged messages of two pages and of three fields; records of up to two  *)
(* fields, a field an element or an array of up to two elements, elements  *)
(* of one and of two bytes.                                                *)
(***************************************************************************)
EXTENDS BitsetWire

MCForgedNum == {0, 1, Size - 1, Size, NaN}

=============================================================================
