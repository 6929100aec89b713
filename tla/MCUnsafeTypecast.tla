------------------------- MODULE MCUnsafeTypecast --------------------------
EXTENDS UnsafeTypecast

(* Bool, a narrow and a wide integer type: enough for a cast to narrow.  *)
MCElemTypes == {"Bool", "uint8", "uint256"}
=============================================================================
