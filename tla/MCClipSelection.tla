---------------------------- MODULE MCClipSelection ----------------------------
(***************************************************************************)
(* ClipSelection on small instances.                                       *)
(***************************************************************************)
EXTENDS ClipSelection
=============================================================================
