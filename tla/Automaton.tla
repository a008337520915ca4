----------------------------- MODULE Automaton -----------------------------
(***************************************************************************)
(* What every simulator of the package runs: an immutable NFA.             *)
(*                                                                         *)
(* core/nfa.py keeps the automaton as two CSR arrays.  CSR fixes an order  *)
(* on the edges of a state; no simulator's verdict may depend on it, so an *)
(* edge set replaces it here and the modules that walk edges one by one do *)
(* so in every order.                                                      *)
(*                                                                         *)
(* An automaton is a record:                                               *)
(*   states   the states 0 .. num_states-1                                 *)
(*   start    the start state                                              *)
(*   accept   the accepting states                                         *)
(*   sym      the symbol edges <<source, symbol, target>>; the symbol is a *)
(*            byte or AnySymbol                                            *)
(*   eps      the epsilon edges <<source, target>>                         *)
(***************************************************************************)
EXTENDS Naturals, Sequences, FiniteSets

CONSTANTS
  Bytes,        (* the input alphabet: 0..255 in the code, a few values here *)
  AnySymbol     (* the wildcard: ANY_SYMBOL = 256, which is not a byte       *)

ASSUME WildcardAssumption == AnySymbol \notin Bytes

(* NFABuilder checks every state an edge names, so a built NFA has no      *)
(* dangling edge and at least one state.                                   *)
IsAutomaton(a) ==
  /\ a.start \in a.states
  /\ a.accept \subseteq a.states
  /\ a.sym \subseteq a.states \X (Bytes \cup {AnySymbol}) \X a.states
  /\ a.eps \subseteq a.states \X a.states

(* NFABuilder numbers the states in the order they are added. *)
IsNumbered(a) == IsFiniteSet(a.states) /\ a.states = 0 .. Cardinality(a.states) - 1

(* An edge labelled sym is taken on byte b. *)
Fires(sym, b) == sym = b \/ sym = AnySymbol

(* The states one symbol edge away from X on byte b. *)
Move(a, X, b) == {e[3] : e \in {f \in a.sym : f[1] \in X /\ Fires(f[2], b)}}

(* The states one epsilon edge away from X. *)
EpsSucc(a, X) == {e[2] : e \in {f \in a.eps : f[1] \in X}}

EpsClosed(a, Z) == \A e \in a.eps : e[1] \in Z => e[2] \in Z

(***************************************************************************)
(* The epsilon closure, as the least set that contains X and that no       *)
(* epsilon edge leaves.  Every simulator computes it by a loop of its own  *)
(* (a DFS stack, frontier rounds, an in-place queue, repeated passes); the *)
(* modules of those loops are checked against this definition.             *)
(***************************************************************************)
Closure(a, X) ==
  {s \in a.states :
     \A Z \in SUBSET a.states : X \subseteq Z /\ EpsClosed(a, Z) => s \in Z}

Accepting(a, X) == X \cap a.accept # {}
=============================================================================
