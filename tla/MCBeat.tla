------------------------------- MODULE MCBeat -------------------------------
(* Instance of BeatFlash for TLC: two beats at once, three off tasks.        *)
EXTENDS BeatFlash
=============================================================================
