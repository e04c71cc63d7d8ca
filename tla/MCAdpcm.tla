------------------------------- MODULE MCAdpcm --------------------------------
(***************************************************************************)
(* Frames of 7 bytes with the default header of 4, in both nibble orders,  *)
(* and a frame that is all header.                                         *)
(***************************************************************************)
EXTENDS Adpcm

MCFormats ==
  [frame: {7}, header: {4}, hl: BOOLEAN] \cup {[frame |-> 3, header |-> 4, hl |-> FALSE]}
=============================================================================
