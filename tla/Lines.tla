------------------------------- MODULE Lines -------------------------------
(* Characters and lines as a serial terminal needs them.                   *)
EXTENDS Sequences, SequencesExt

LF == "lf"
CR == "cr"

AsLines(str) ==
  FlattenSeq([k \in DOMAIN str |-> IF str[k] = LF THEN <<CR, LF>> ELSE <<str[k]>>])
=============================================================================
