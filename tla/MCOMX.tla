-------------------------------- MODULE MCOMX --------------------------------
(* Instances of OMXEvents for TLC.                                          *)
EXTENDS OMXEvents

MCAllFail  == Exchanges
MCNoneFail == {}
==============================================================================
