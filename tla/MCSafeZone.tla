------------------------------- MODULE MCSafeZone -------------------------------
(***************************************************************************)
(* Two zones for TLC: with coordinates that a register holds exactly or    *)
(* may hold one unit short, with a remainder, and one east of Greenwich.   *)
(***************************************************************************)
EXTENDS SafeZone

MCZones == { [latitude |-> -6, longitude |-> 15, radius |-> 1],
             [latitude |-> -9, longitude |-> -4, radius |-> 2] }
=============================================================================
