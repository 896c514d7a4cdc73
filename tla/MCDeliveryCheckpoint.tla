------------------------ MODULE MCDeliveryCheckpoint ------------------------
(* Small instances of DeliveryCheckpoint for TLC.                          *)
EXTENDS DeliveryCheckpoint

CONSTANTS a1, a2, a3        \* attempts, as model values
=============================================================================
