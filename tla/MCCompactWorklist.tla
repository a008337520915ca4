------------------------- MODULE MCCompactWorklist -------------------------
(* Six four-state automata whose closures chain, cycle, join and run dry,  *)
(* on every string of up to three bytes.                                   *)
EXTENDS CompactWorklist, MCAutomata

MCAutomataSet == FourState \cup EveryClosure
MCInputs      == Strings(3)
=============================================================================
