----------------------------- MODULE MCVoiceLoop -----------------------------
(***************************************************************************)
(* Instances of VoiceLoop, with and without a wake word; the waits and     *)
(* limits, in the .cfg files, are all different.                           *)
(***************************************************************************)
EXTENDS VoiceLoop
=============================================================================
