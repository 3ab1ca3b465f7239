------------------------------ MODULE MCCapture ------------------------------
(* Instances of ImageCapture for TLC.                                       *)
EXTENDS ImageCapture

MCBoth == {"snapshot", "port"}
==============================================================================
