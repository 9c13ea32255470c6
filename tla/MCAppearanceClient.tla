------------------------- MODULE MCAppearanceClient -------------------------
(* Two calls of an application that may do everything, or nothing.         *)
EXTENDS AppearanceClient

AllOrNothing == {[systemApp |-> b, granted |-> b] : b \in BOOLEAN}
=============================================================================
