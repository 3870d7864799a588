------------------------------ MODULE MCLogFrame ------------------------------
(* Two tasks and four lines: one that fits a frame, one that is too long   *)
(* for it, one whose length the cast to uint8_t makes fit again, and one   *)
(* the buffer has no room for.  It holds exactly the text two tasks leave  *)
(* in it together with the second; two of the third overrun it.            *)
EXTENDS LogFrame, TLC

CONSTANTS t1, t2
Symmetric == Permutations({t1, t2})
=============================================================================
