--------------------------- MODULE MCDraftRelease ---------------------------
(***************************************************************************)
(* Small instances of DraftRelease: a few calls for one tag.               *)
(***************************************************************************)
EXTENDS DraftRelease

CONSTANTS c1, c2, r1, r2, r3
=============================================================================
