--------------------------- MODULE AnmlSimulation ---------------------------
(***************************************************************************)
(* An ANML document all the way to a verdict: read, built into CSR arrays, *)
(* and run by each of the simulators.                                      *)
(***************************************************************************)
EXTENDS SequentialSimulators, AnmlReader

(* Every simulator reports the first position at which an element of the   *)
(* document reports, for each document load_anml takes; and a document it  *)
(* takes is one it has read whole ("a partially-understood file never      *)
(* produces a wrong automaton").  Left out: a class that names the code    *)
(* point of the wildcard, which no atom is checked for.                    *)
AnmlFaithful ==
  pc = "done" =>
    \A load \in Loaded :
      load[2] = nfa /\ ~NamesWildcard(load[1]) =>
        /\ HasMeaning(load[1])
        /\ verdict = FirstReport(load[1], input)
=============================================================================
