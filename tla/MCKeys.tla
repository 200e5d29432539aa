------------------------------- MODULE MCKeys -------------------------------
(* An instance of WampKeys for TLC: two literals with the same text and one
   with a byte beyond 127; in messages and realms also the empty text and one
   with a NUL inside.                                                      *)
EXTENDS WampKeys

MCTextAt == [p \in Literals |-> IF p = 3 THEN <<228, 98>> ELSE <<97>>]
MCTexts == {<<>>, <<97>>, <<97, 0, 98>>, <<228, 98>>}
MCBuffers == <<11, 12>>
=============================================================================
