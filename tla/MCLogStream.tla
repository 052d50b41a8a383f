----------------------------- MODULE MCLogStream -----------------------------
(* A small instance of LogStream: integers of six bits, for which          *)
(* kMaxNumericSize is as tight as it can be ("0x3F" and a '\0').           *)
EXTENDS LogStream
=============================================================================
