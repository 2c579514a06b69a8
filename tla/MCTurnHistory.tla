--------------------------- MODULE MCTurnHistory ---------------------------
(* Instances of TurnHistory for TLC: small windows and a few messages.     *)
EXTENDS TurnHistory, TLC

MCWeights == {1, 3}
MCLimits == {4, 7}
=============================================================================
