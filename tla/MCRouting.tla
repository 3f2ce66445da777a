----------------------------- MODULE MCRouting ------------------------------
(* Instance of DataPointRouting for TLC.  Each fader has one position more    *)
(* than the range of the connection from it: it clamps to the highest.       *)
EXTENDS DataPointRouting

MCControlValues == 0 .. 2
MCDeskValues    == 0 .. 2
MCToDesk    == [u \in MCControlValues |-> IF u > 1 THEN 1 ELSE u]
MCToControl == [d \in MCDeskValues |-> IF d > 1 THEN 1 ELSE d]
=============================================================================
