--------------------------- MODULE MCAcquisition ----------------------------
(***************************************************************************)
(* Small instances of Acquisition: an object with three versions.          *)
(***************************************************************************)
EXTENDS Acquisition

CONSTANTS v1, v2, v3, short, damaged
=============================================================================
