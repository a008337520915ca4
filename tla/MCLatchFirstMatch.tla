------------------------- MODULE MCLatchFirstMatch -------------------------
(* Every two-state automaton over {a, any}, every string of up to 2 bytes. *)
EXTENDS LatchFirstMatch, MCAutomata

MCAutomataSet == TwoState({a, any})
MCInputs      == Strings(2)
=============================================================================
