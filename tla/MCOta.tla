-------------------------------- MODULE MCOta --------------------------------
(* Three versions, so that an image can be replaced by one that is neither *)
(* the running nor the recorded one; an image of two reads, so that a      *)
(* download can stop half-way and a read error can come before or after    *)
(* the last data.                                                          *)
EXTENDS Ota, TLC

CONSTANTS v1, v2, v3, A, B
Symmetric == Permutations({v1, v2, v3}) \cup Permutations({A, B})
=============================================================================
