------------------------------ MODULE MCTempo ------------------------------
(* Instance of TempoSync for TLC, in quarters of a BPM: 40 is 10 BPM.        *)
EXTENDS TempoSync
=============================================================================
