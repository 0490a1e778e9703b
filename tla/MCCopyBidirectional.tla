------------------------ MODULE MCCopyBidirectional ------------------------
(* Instances of CopyBidirectional for TLC.                                  *)
EXTENDS CopyBidirectional

Wide    == <<2, 1>>     (* buffers of 2 bytes and of 1                      *)
Both    == <<2, 2>>     (* 2 bytes in either direction                     *)
=============================================================================
