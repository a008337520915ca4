---------------------------- MODULE MCAutomata -----------------------------
(***************************************************************************)
(* Small automata and inputs for the model checker, shared by the MC       *)
(* modules of the simulators.                                              *)
(***************************************************************************)
EXTENDS Naturals, Sequences

CONSTANTS a, b, any   (* two bytes and the wildcard, as model values *)

MCBytes == {a, b}

Strings(n) == UNION {[1 .. k -> MCBytes] : k \in 0 .. n}

Nfa(n, acc, sym, eps) ==
  [states |-> 0 .. n - 1, start |-> 0, accept |-> acc, sym |-> sym, eps |-> eps]

(* Every automaton on two states with edges labelled from syms. *)
TwoState(syms) ==
  {Nfa(2, acc, sym, eps) :
     acc \in {{}, {1}},
     sym \in SUBSET ({0, 1} \X syms \X {0, 1}),
     eps \in SUBSET {<<0, 1>>, <<1, 0>>}}

(* An epsilon chain that must be followed to its end before the symbol     *)
(* edge fires, numbered against the order the states are scanned in.       *)
ReverseChain ==
  Nfa(4, {2}, {<<1, a, 0>>, <<1, b, 2>>}, {<<0, 3>>, <<3, 2>>, <<2, 1>>})

ReverseChainQuiet ==
  Nfa(4, {1}, {<<0, a, 0>>, <<0, b, 3>>}, {<<3, 2>>, <<2, 1>>})

(* An epsilon cycle through the start state, left by the wildcard.         *)
EpsCycle ==
  Nfa(4, {3}, {<<1, any, 2>>, <<2, b, 3>>}, {<<0, 1>>, <<1, 0>>, <<2, 0>>, <<2, 2>>})

(* "a*b" with both edges of a state firing on the same byte.               *)
Ambiguous ==
  Nfa(4, {3}, {<<0, any, 0>>, <<0, a, 1>>, <<1, b, 2>>, <<0, a, 2>>}, {<<2, 3>>})

(* Two epsilon paths of different length into one accepting state.         *)
Diamond ==
  Nfa(4, {3}, {<<0, a, 1>>, <<1, b, 3>>, <<2, b, 0>>}, {<<1, 2>>, <<0, 2>>})

(* Nothing fires on b: the active set empties and must stay empty.         *)
DeadEnd ==
  Nfa(4, {3}, {<<0, a, 1>>, <<1, a, 2>>, <<2, a, 3>>}, {<<1, 0>>})

(* Every epsilon relation on three states, self loops aside.              *)
EveryClosure ==
  {Nfa(3, {2}, {<<0, a, 1>>, <<1, b, 0>>, <<1, any, 1>>}, eps) :
     eps \in SUBSET {e \in (0 .. 2) \X (0 .. 2) : e[1] # e[2]}}

(* Every DFA on two states, an unset transition standing for the dead one. *)
TwoStateDfas ==
  {Nfa(2, acc, {<<p[1], p[2], f[p]>> : p \in {q \in DOMAIN f : f[q] < 2}}, {}) :
     acc \in {{1}, {0, 1}}, f \in [{0, 1} \X MCBytes -> 0 .. 2]}

FourState ==
  {ReverseChain, ReverseChainQuiet, EpsCycle, Ambiguous, Diamond, DeadEnd}
=============================================================================
