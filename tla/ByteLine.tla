------------------------------- MODULE ByteLine -------------------------------
(***************************************************************************)
(* What a serial port promises to the one that uses it: the bytes leave in *)
(* the order in which they were handed over, each exactly once, and all of *)
(* them leave.  Bytes are numbered as they are handed over.                *)
(***************************************************************************)
EXTENDS Naturals

VARIABLES accepted,     \* the number of the last byte handed over
          emitted       \* the number of the last byte put on the line

byteLineVars == <<accepted, emitted>>

ByteLineInit == accepted = 0 /\ emitted = 0

Accept == accepted' = accepted + 1 /\ UNCHANGED emitted

Emit == /\ emitted < accepted
        /\ emitted' = emitted + 1
        /\ UNCHANGED accepted

ByteLineSafety == ByteLineInit /\ [][Accept \/ Emit]_byteLineVars

ByteLineSpec == ByteLineSafety /\ WF_byteLineVars(Emit)
=============================================================================
