-------------------------- MODULE MCSequencerLive --------------------------
(* The statements and registries of MCSequencer, for SequencerLive. *)
EXTENDS MCSequencer, SequencerLive
=============================================================================
