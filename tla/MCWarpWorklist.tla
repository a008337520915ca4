-------------------------- MODULE MCWarpWorklist ---------------------------
(* Two lanes and four one-state words: each lane owns two words and every  *)
(* edge between states of different parity crosses lanes.                  *)
EXTENDS WarpWorklist, MCAutomata

MCAutomataSet == FourState \cup EveryClosure
MCInputs      == Strings(2)
MCLeftovers   == {0 .. 3}
=============================================================================
