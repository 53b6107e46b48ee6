--------------------------- MODULE MCMessageQueue ---------------------------
(* Model-checking instances of MessageQueue.                               *)
EXTENDS MessageQueue

CONSTANTS m1, m2, m3, m4

ThreeMessages == {m1, m2, m3}
FourMessages == {m1, m2, m3, m4}
=============================================================================
