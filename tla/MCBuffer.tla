------------------------------ MODULE MCBuffer ------------------------------
(* Instances of Buffer for TLC: every string of up to MaxLen bytes.        *)
EXTENDS Buffer, SequencesExt

CONSTANT MaxLen

MCStrings == BoundedSeq(Byte, MaxLen)
=============================================================================
