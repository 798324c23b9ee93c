--------------------------- MODULE MCNativeHandle ---------------------------
(***************************************************************************)
(* NativeHandle for TLC: two entries overflow the queue and the first      *)
(* buffer holds one, so every retry and the last buffer's failure happen.  *)
(***************************************************************************)
EXTENDS NativeHandle
=============================================================================
