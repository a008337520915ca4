-------------------- MODULE SequentialSimulatorsProofs --------------------
(***************************************************************************)
(* Every sequential simulator implements the contract, for every automaton *)
(* and input: whatever way it closes a set, it takes the steps of          *)
(* LatchFirstMatch and no other.                                           *)
(*                                                                         *)
(* What has to be known of a closure in progress depends on the way it     *)
(* goes.  A stack or a frontier holds every state whose epsilon edges are  *)
(* still to be followed.  The passes hold no such record: after `it` of    *)
(* them the set is closed or has more than `it` states, so that num_states *)
(* passes are enough.  A table has no epsilon edges to follow.             *)
(*                                                                         *)
(* The sections behind the refinement follow an ANML document to its       *)
(* verdict: what the calls of NFABuilder and the CSR arrays make of a list *)
(* of edges, what the loops of load_anml make of the elements, and what    *)
(* the run of that automaton makes of them, byte by byte.                  *)
(***************************************************************************)
EXTENDS AnmlSimulation, FiniteSetTheorems, TLAPS

-----------------------------------------------------------------------------
(* The inductive invariant. *)

(* The set the closure in progress began with. *)
Base ==
  IF taken = 0 THEN {nfa.start}
  ELSE IF sim.closing = "table" THEN {Trans(s, input[taken]) : s \in cur}
  ELSE Move(nfa, cur, input[taken])

(* What the stack and the rounds have left to follow is pending ...        *)
WorklistInv ==
  /\ pending \subseteq nxt
  /\ expanded \subseteq nxt
  /\ pending \cap expanded = {}
  /\ EpsSucc(nfa, nxt \ pending) \subseteq nxt

(* ... and the passes get ahead of their counter until nothing is left.    *)
PassesInv ==
  /\ pending = {}
  /\ \/ EpsClosed(nfa, nxt)
     \/ Cardinality(nxt) > scan[1] + 1
     \/ /\ Cardinality(nxt) > scan[1]
        /\ \A e \in nfa.eps : e[1] \in nxt /\ e[1] < scan[2] => e[2] \in nxt

ClosureInv ==
  /\ Base \subseteq nxt
  /\ sim.closing # "table" => nxt \subseteq Closure(nfa, Base)
  /\ sim.closing \in {"stack", "rounds"} => WorklistInv
  /\ sim.closing = "passes" => PassesInv
  /\ sim.closing = "table" => nxt = Base /\ pending = {} /\ nfa.eps = {}

(* The loop around the closures. *)
LoopInv ==
  /\ nfa \in Automata
  /\ sim.closing = "table" => IsDeterministic(nfa)
  /\ sim.closing # "table" => cur \cup nxt \subseteq nfa.states
  /\ ~Latched => verdict = NoMatch
  /\ Latched => pc = "done" \/ (pc = "head" /\ sim.runsOn)
  /\ InPrologue => cur = {}
  /\ pc = "seed" => taken = 0
  /\ pc = "close" /\ taken > 0 => /\ ~Accepting(nfa, cur)
                                  /\ Breaks => Move(nfa, cur, input[taken]) # {}
  /\ pc = "head" => Latched \/ ~Accepting(nfa, cur)

IInv ==
  /\ TypeOK
  /\ LoopInv
  /\ pc = "close" => ClosureInv

-----------------------------------------------------------------------------
(* Closures. *)

(* The epsilon successors of a set, one by one.                            *)
LEMMA EpsSuccFacts ==
  ASSUME NEW aut, IsAutomaton(aut), NEW X
  PROVE  /\ EpsSucc(aut, X) \subseteq aut.states
         /\ \A e \in aut.eps : e[1] \in X => e[2] \in EpsSucc(aut, X)
         /\ \A t \in EpsSucc(aut, X) : \E e \in aut.eps : e[1] \in X /\ e[2] = t
  BY DEF EpsSucc, IsAutomaton

(* Following edges inside a closure does not lead out of it.               *)
LEMMA ClosureStays ==
  ASSUME NEW aut, IsAutomaton(aut), NEW X, NEW Y, Y \subseteq Closure(aut, X)
  PROVE  EpsSucc(aut, Y) \subseteq Closure(aut, X)
<1> SUFFICES ASSUME NEW e \in aut.eps, e[1] \in Y
             PROVE  e[2] \in Closure(aut, X)
  BY EpsSuccFacts
<1>1. e[2] \in aut.states /\ e[1] \in Closure(aut, X)
  BY DEF IsAutomaton
<1>2. ASSUME NEW Z \in SUBSET aut.states, X \subseteq Z, EpsClosed(aut, Z)
      PROVE  e[2] \in Z
  BY <1>1, <1>2 DEF Closure, EpsClosed
<1>3. QED
  BY <1>1, <1>2 DEF Closure

(* A closure holds the set it is of, and only states.                      *)
LEMMA ClosureExtends ==
  ASSUME NEW aut, NEW X \in SUBSET aut.states
  PROVE  X \subseteq Closure(aut, X) /\ Closure(aut, X) \subseteq aut.states
  BY DEF Closure

(* A closed set between X and its closure is the closure.                  *)
LEMMA ClosureReached ==
  ASSUME NEW aut, NEW X, NEW Z, X \subseteq Z, Z \subseteq Closure(aut, X), EpsClosed(aut, Z)
  PROVE  Z = Closure(aut, X)
  BY DEF Closure

-----------------------------------------------------------------------------
(* The simulators and the automata they are given. *)

(* What the proofs know of each simulator.                                 *)
LEMMA SimulatorFacts ==
  ASSUME NEW s \in Simulators
  PROVE  /\ s.closing \in {"stack", "rounds", "passes", "table"}
         /\ s.breaks \in BOOLEAN /\ s.runsOn \in BOOLEAN
         /\ s.breaks => s.closing # "table" /\ ~s.runsOn
<1>1. s \in {simulate, BitmapProgram, Kernel("rounds", FALSE), Kernel("rounds", TRUE),
              Kernel("passes", FALSE), Kernel("passes", TRUE),
              Kernel("table", FALSE), Kernel("table", TRUE)}
  BY DEF Simulators, worklist_global_kernel, simulate_one_worklist, triton_worklist,
         dense_nfa_kernel, simulate_one, triton_dense, triton_bitpacked, triton_multistream,
         warp_multistream, simulate_dfa, dfa_kernel, triton_dfa, warp_dfa
<1>2. ASSUME s = simulate \/ s = BitmapProgram
      PROVE  s.closing \in {"stack", "rounds"} /\ s.breaks = TRUE /\ s.runsOn = FALSE
  BY <1>2 DEF simulate, BitmapProgram
<1>3. ASSUME NEW how, NEW runsOn, s = Kernel(how, runsOn)
      PROVE  s.closing = how /\ s.breaks = FALSE /\ s.runsOn = runsOn
  BY <1>3 DEF Kernel
<1>4. QED
  BY <1>1, <1>2, <1>3

(* What NFABuilder and the types of an input give a call.                  *)
LEMMA CallFacts ==
  ASSUME nfa \in Automata, input \in Inputs
  PROVE  /\ IsAutomaton(nfa) /\ IsNumbered(nfa)
         /\ NumStates \in Nat \ {0}
         /\ nfa.states = 0 .. NumStates - 1
         /\ nfa.start \in nfa.states
         /\ Dead \notin nfa.states
         /\ Len(input) \in Nat
         /\ \A k \in 1 .. Len(input) : input[k] \in Bytes
<1>1. IsAutomaton(nfa) /\ IsNumbered(nfa) /\ input \in Seq(Bytes)
  BY AutomataAssumption, InputsAssumption
<1>2. nfa.start \in nfa.states /\ IsFiniteSet(nfa.states) /\ nfa.states = 0 .. NumStates - 1
  BY <1>1 DEF IsAutomaton, IsNumbered, NumStates
<1>3. NumStates \in Nat
  BY <1>2, FS_CardinalityType DEF NumStates
<1>4. QED
  BY <1>1, <1>2, <1>3 DEF Dead

(* Symbol edges stay inside the automaton. *)
LEMMA MoveType ==
  ASSUME NEW aut, IsAutomaton(aut), NEW X, NEW byte
  PROVE  Move(aut, X, byte) \subseteq aut.states
  BY DEF Move, IsAutomaton

(* The table of a DFA leads where its edges lead, and from there, or from  *)
(* the dead state, to the dead state.                                      *)
LEMMA TableMoves ==
  ASSUME nfa \in Automata, input \in Inputs, IsDeterministic(nfa),
         NEW X \in SUBSET (nfa.states \cup {Dead}), NEW byte \in Bytes
  PROVE  /\ {Trans(s, byte) : s \in X} \subseteq nfa.states \cup {Dead}
         /\ {Trans(s, byte) : s \in X} \ {Dead} = Move(nfa, X \ {Dead}, byte)
<1> DEFINE Set(s) == {e \in nfa.sym : e[1] = s /\ e[2] = byte}
<1>0. IsAutomaton(nfa) /\ Dead \notin nfa.states
  BY CallFacts
<1>1. \A e \in nfa.sym : e[1] \in nfa.states /\ e[3] \in nfa.states /\ (Fires(e[2], byte) <=> e[2] = byte)
  BY <1>0, WildcardAssumption DEF IsAutomaton, Fires, IsDeterministic
<1>2. ASSUME NEW s, NEW e \in Set(s)
      PROVE  Trans(s, byte) = e[3]
  <2>1. (CHOOSE f \in Set(s) : TRUE) \in Set(s)
    BY <1>2
  <2>2. (CHOOSE f \in Set(s) : TRUE) = e
    BY <1>2, <2>1 DEF IsDeterministic
  <2>3. QED
    BY <1>2, <2>2 DEF Trans
<1>3. \A s : Set(s) = {} => Trans(s, byte) = Dead
  BY DEF Trans
<1>4. ASSUME NEW s \in X
      PROVE  \/ Trans(s, byte) = Dead
             \/ /\ s \in nfa.states
                /\ \E e \in nfa.sym : e[1] = s /\ e[2] = byte /\ Trans(s, byte) = e[3]
  <2>1. CASE Set(s) = {}
    BY <1>3, <2>1
  <2>2. CASE Set(s) # {}
    <3>1. PICK e \in Set(s) : TRUE
      BY <2>2
    <3>2. QED
      BY <1>1, <1>2, <3>1
  <2>3. QED
    BY <2>1, <2>2
<1>5. {Trans(s, byte) : s \in X} \subseteq nfa.states \cup {Dead}
  BY <1>1, <1>4
<1>6. {Trans(s, byte) : s \in X} \ {Dead} \subseteq Move(nfa, X \ {Dead}, byte)
  <2> SUFFICES ASSUME NEW s \in X, Trans(s, byte) # Dead
               PROVE  Trans(s, byte) \in Move(nfa, X \ {Dead}, byte)
    OBVIOUS
  <2>1. PICK e \in nfa.sym : e[1] = s /\ e[2] = byte /\ Trans(s, byte) = e[3]
    BY <1>4
  <2>2. s \in X \ {Dead} /\ Fires(e[2], byte)
    BY <1>0, <1>1, <2>1
  <2>3. QED
    BY <2>1, <2>2 DEF Move
<1>7. Move(nfa, X \ {Dead}, byte) \subseteq {Trans(s, byte) : s \in X} \ {Dead}
  <2> SUFFICES ASSUME NEW e \in nfa.sym, e[1] \in X \ {Dead}, Fires(e[2], byte)
               PROVE  e[3] \in {Trans(s, byte) : s \in X} \ {Dead}
    BY DEF Move
  <2>1. e \in Set(e[1]) /\ e[3] # Dead
    BY <1>0, <1>1
  <2>2. Trans(e[1], byte) = e[3]
    BY <1>2, <2>1
  <2>3. QED
    BY <2>1, <2>2
<1>8. QED
  BY <1>5, <1>6, <1>7

-----------------------------------------------------------------------------
(* The steps of a closure. *)

(* Expanding part of the stack or of the frontier. *)
LEMMA WorklistStep ==
  ASSUME IsAutomaton(nfa), WorklistInv, NEW Y \in SUBSET pending,
         nfa' = nfa,
         nxt' = nxt \cup NewFrom(Y),
         pending' = (pending \ Y) \cup NewFrom(Y),
         expanded' = expanded \cup Y
  PROVE  WorklistInv'
<1>1. /\ pending' \subseteq nxt' /\ expanded' \subseteq nxt'
      /\ pending' \cap expanded' = {}
  BY DEF WorklistInv, NewFrom
<1>2. nxt' \ pending' \subseteq (nxt \ pending) \cup Y
  OBVIOUS
<1>3. ASSUME NEW e \in nfa.eps, e[1] \in nxt' \ pending'
      PROVE  e[2] \in nxt'
  <2>1. CASE e[1] \in nxt \ pending
    BY <2>1, EpsSuccFacts DEF WorklistInv
  <2>2. CASE e[1] \in Y
    BY <2>2, EpsSuccFacts DEF NewFrom
  <2>3. QED
    BY <1>2, <1>3, <2>1, <2>2
<1>4. EpsSucc(nfa, nxt' \ pending') \subseteq nxt'
  BY <1>3, EpsSuccFacts
<1>5. QED
  BY <1>1, <1>4 DEF WorklistInv

(* A state of a pass: the set grows and gets ahead of the counter, or the  *)
(* edges of one more state are known to lead nowhere new.                  *)
LEMMA PassesStep ==
  ASSUME nfa \in Automata, input \in Inputs, PassesInv, ScanState,
         nxt \subseteq nfa.states,
         scan \in (0 .. NumStates) \X (0 .. NumStates - 1)
  PROVE  PassesInv' /\ scan' \in (0 .. NumStates) \X (0 .. NumStates - 1)
<1> DEFINE it == scan[1]
           s  == scan[2]
<1>0. /\ IsAutomaton(nfa) /\ NumStates \in Nat \ {0} /\ IsFiniteSet(nfa.states)
      /\ nfa.states = 0 .. NumStates - 1
      /\ it \in 0 .. NumStates - 1 /\ s \in 0 .. NumStates - 1
  BY CallFacts DEF IsNumbered, ScanState
<1>1. /\ nfa' = nfa /\ pending' = pending
      /\ scan' = IF s + 1 = NumStates THEN <<it + 1, 0>> ELSE <<it, s + 1>>
      /\ nxt' = IF s \in nxt THEN nxt \cup EpsSucc(nfa, {s}) ELSE nxt
  BY DEF ScanState
<1>2. scan' \in (0 .. NumStates) \X (0 .. NumStates - 1)
  BY <1>0, <1>1
<1>3. /\ nxt \subseteq nxt' /\ nxt' \subseteq nfa.states
      /\ IsFiniteSet(nxt') /\ Cardinality(nxt) \in Nat /\ Cardinality(nxt') \in Nat
      /\ Cardinality(nxt) <= Cardinality(nxt')
      /\ Cardinality(nxt) = Cardinality(nxt') => nxt = nxt'
  <2>1. nxt \subseteq nxt' /\ nxt' \subseteq nfa.states
    BY <1>0, <1>1, EpsSuccFacts
  <2>2. IsFiniteSet(nxt')
    BY <1>0, <2>1, FS_Subset
  <2>3. QED
    BY <2>1, <2>2, FS_Subset, FS_CardinalityType
<1>4. nxt' = nxt => \A e \in nfa.eps : e[1] \in nxt /\ e[1] = s => e[2] \in nxt
  BY <1>0, <1>1, EpsSuccFacts
<1>5. \A e \in nfa.eps : e[1] \in 0 .. NumStates - 1
  BY <1>0 DEF IsAutomaton
<1>6. CASE EpsClosed(nfa, nxt)
  <2>1. nxt' = nxt
    BY <1>0, <1>1, <1>6, EpsSuccFacts DEF EpsClosed
  <2>2. QED
    BY <1>1, <1>2, <1>6, <2>1 DEF PassesInv
<1>7. CASE Cardinality(nxt) > it + 1
  <2>1. CASE s + 1 = NumStates
    <3>1. scan'[1] = it + 1 /\ scan'[2] = 0
      BY <1>1, <2>1
    <3>2. Cardinality(nxt') > scan'[1]
      BY <1>0, <1>3, <1>7, <3>1
    <3>3. \A e \in nfa.eps : ~(e[1] < scan'[2])
      BY <1>5, <3>1
    <3>4. QED
      BY <1>1, <1>2, <3>2, <3>3 DEF PassesInv
  <2>2. CASE s + 1 # NumStates
    <3>1. scan'[1] = it
      BY <1>1, <2>2
    <3>2. Cardinality(nxt') > scan'[1] + 1
      BY <1>0, <1>3, <1>7, <3>1
    <3>3. QED
      BY <1>1, <1>2, <3>2 DEF PassesInv
  <2>3. QED
    BY <2>1, <2>2
<1>8. CASE /\ Cardinality(nxt) > it
           /\ \A e \in nfa.eps : e[1] \in nxt /\ e[1] < s => e[2] \in nxt
  <2>1. CASE nxt' = nxt
    <3>1. \A e \in nfa.eps : e[1] \in nxt /\ e[1] < s + 1 => e[2] \in nxt
      BY <1>0, <1>4, <1>5, <1>8, <2>1
    <3>2. CASE s + 1 = NumStates
      <4>1. EpsClosed(nfa, nxt')
        BY <1>0, <1>5, <2>1, <3>1, <3>2 DEF EpsClosed
      <4>2. QED
        BY <1>1, <1>2, <4>1 DEF PassesInv
    <3>3. CASE s + 1 # NumStates
      <4>1. scan'[1] = it /\ scan'[2] = s + 1
        BY <1>1, <3>3
      <4>2. QED
        BY <1>1, <1>2, <1>8, <2>1, <3>1, <4>1 DEF PassesInv
    <3>4. QED
      BY <3>2, <3>3
  <2>2. CASE nxt' # nxt
    <3>1. Cardinality(nxt') > it + 1
      BY <1>0, <1>3, <1>8, <2>2
    <3>2. CASE s + 1 = NumStates
      <4>1. scan'[1] = it + 1 /\ scan'[2] = 0
        BY <1>1, <3>2
      <4>2. \A e \in nfa.eps : ~(e[1] < scan'[2])
        BY <1>5, <4>1
      <4>3. QED
        BY <1>1, <1>2, <3>1, <4>1, <4>2 DEF PassesInv
    <3>3. CASE s + 1 # NumStates
      <4>1. scan'[1] = it
        BY <1>1, <3>3
      <4>2. QED
        BY <1>1, <1>2, <3>1, <4>1 DEF PassesInv
    <3>4. QED
      BY <3>2, <3>3
  <2>3. QED
    BY <2>1, <2>2
<1>9. QED
  BY <1>2, <1>6, <1>7, <1>8 DEF PassesInv

(* What a finished closure has computed. *)
LEMMA ClosureDone ==
  ASSUME TypeOK, LoopInv, ClosureInv, pc = "close", Closed
  PROVE  /\ sim.closing # "table" => nxt = Closure(nfa, Base)
         /\ sim.closing = "table" => nxt = Base
<1>0. /\ nfa \in Automata /\ input \in Inputs /\ sim \in Simulators
      /\ IsAutomaton(nfa) /\ NumStates \in Nat \ {0} /\ IsFiniteSet(nfa.states)
      /\ sim.closing # "table" => nxt \subseteq nfa.states
  BY CallFacts DEF TypeOK, LoopInv, IsNumbered
<1>1. CASE sim.closing \in {"stack", "rounds"}
  <2>1. EpsClosed(nfa, nxt)
    BY <1>0, <1>1, EpsSuccFacts DEF Closed, ClosureInv, WorklistInv, EpsClosed
  <2>2. QED
    BY <1>1, <2>1, ClosureReached DEF ClosureInv
<1>2. CASE sim.closing = "passes"
  <2>1. scan[1] = NumStates
    BY <1>2 DEF Closed
  <2>2. Cardinality(nxt) <= NumStates /\ Cardinality(nxt) \in Nat
    BY <1>0, <1>2, FS_Subset, FS_CardinalityType DEF NumStates
  <2>3. EpsClosed(nfa, nxt)
    BY <1>0, <1>2, <2>1, <2>2 DEF ClosureInv, PassesInv
  <2>4. QED
    BY <1>2, <2>3, ClosureReached DEF ClosureInv
<1>3. CASE sim.closing = "table"
  BY <1>3 DEF ClosureInv
<1>4. QED
  BY <1>0, <1>1, <1>2, <1>3, SimulatorFacts

(* What every closure starts with. *)
LEMMA ClosureStarts ==
  ASSUME TypeOK, LoopInv, NEW X, StartClosure(X),
         nfa' = nfa, sim' = sim, Base' = X,
         sim.closing # "table" => X \subseteq nfa.states
  PROVE  ClosureInv'
<1>0. /\ IsAutomaton(nfa) /\ IsFiniteSet(nfa.states)
      /\ nfa.states = 0 .. NumStates - 1 /\ NumStates \in Nat
      /\ sim.closing = "table" => nfa.eps = {}
  BY CallFacts DEF TypeOK, LoopInv, IsNumbered, IsDeterministic
<1>1. /\ nxt' = X /\ scan' = <<0, 0>> /\ expanded' = {}
      /\ sim.closing \in {"passes", "table"} => pending' = {}
      /\ sim.closing \notin {"passes", "table"} => pending' = X
  BY DEF StartClosure
<1>2. sim.closing # "table" => nxt' \subseteq Closure(nfa, X)
  BY <1>0, <1>1, ClosureExtends
<1>3. sim.closing \in {"stack", "rounds"} => WorklistInv'
  BY <1>0, <1>1, EpsSuccFacts DEF WorklistInv
<1>4. CASE sim.closing = "passes"
  <2>1. X = {} => EpsClosed(nfa, X)
    BY DEF EpsClosed
  <2>2. X # {} => Cardinality(X) > 0
    <3>1. IsFiniteSet(X)
      BY <1>0, <1>4, FS_Subset
    <3>2. QED
      BY <3>1, FS_EmptySet, FS_CardinalityType
  <2>3. \A e \in nfa.eps : ~(e[1] < 0)
    BY <1>0 DEF IsAutomaton
  <2>4. PassesInv'
    BY <1>1, <1>4, <2>1, <2>2, <2>3 DEF PassesInv
  <2>5. QED
    BY <1>1, <1>2, <1>4, <2>4 DEF ClosureInv
<1>5. CASE sim.closing # "passes"
  BY <1>0, <1>1, <1>2, <1>3, <1>5 DEF ClosureInv
<1>6. QED
  BY <1>4, <1>5

(* A step of a closure that is not finished. *)
Closing == PopStack \/ FrontierRound \/ ScanState

(* A step inside a closure keeps what is known of it, and changes nothing  *)
(* else.                                                                   *)
LEMMA ClosureGoesOn ==
  ASSUME TypeOK, LoopInv, ClosureInv, Closing
  PROVE  /\ ClosureInv'
         /\ pending' \cup expanded' \cup nxt' \subseteq nfa.states
         /\ scan' \in (0 .. NumStates) \X (0 .. NumStates - 1)
         /\ pc = "close" /\ sim.closing # "table"
         /\ UNCHANGED <<nfa, input, sim, pc, taken, cur, verdict>>
<1>0. /\ nfa \in Automata /\ input \in Inputs /\ sim \in Simulators
      /\ IsAutomaton(nfa) /\ IsFiniteSet(nfa.states)
      /\ pending \subseteq nfa.states /\ expanded \subseteq nfa.states
      /\ scan \in (0 .. NumStates) \X (0 .. NumStates - 1)
  BY CallFacts DEF TypeOK, LoopInv, IsNumbered
<1>1. /\ pc = "close" /\ sim.closing # "table"
      /\ UNCHANGED <<nfa, input, sim, pc, taken, cur, verdict>>
  BY DEF Closing, PopStack, FrontierRound, ScanState
<1>2. Base' = Base
  BY <1>1 DEF Base
<1>3. nxt \subseteq nfa.states /\ Base \subseteq nxt /\ nxt \subseteq Closure(nfa, Base)
  BY <1>1 DEF LoopInv, ClosureInv
<1>4. ASSUME NEW Y \in SUBSET pending, sim.closing \in {"stack", "rounds"},
             nxt' = nxt \cup NewFrom(Y), pending' = (pending \ Y) \cup NewFrom(Y),
             expanded' = expanded \cup Y, scan' = scan
      PROVE  ClosureInv' /\ pending' \cup expanded' \cup nxt' \subseteq nfa.states
  <2>1. WorklistInv /\ Y \subseteq nxt
    BY <1>4 DEF ClosureInv, WorklistInv
  <2>2. WorklistInv'
    BY <1>0, <1>1, <1>4, <2>1, WorklistStep
  <2>3. nxt' \subseteq Closure(nfa, Base)
    BY <1>0, <1>3, <1>4, <2>1, ClosureStays DEF NewFrom
  <2>4. pending' \cup expanded' \cup nxt' \subseteq nfa.states
    BY <1>0, <1>3, <1>4, EpsSuccFacts DEF NewFrom
  <2>5. QED
    BY <1>1, <1>2, <1>3, <1>4, <2>2, <2>3, <2>4 DEF ClosureInv
<1>5. CASE PopStack
  <2>1. PICK s \in pending : /\ nxt' = nxt \cup NewFrom({s})
                             /\ pending' = (pending \ {s}) \cup NewFrom({s})
                             /\ expanded' = expanded \cup {s}
    BY <1>5 DEF PopStack
  <2>2. sim.closing = "stack" /\ scan' = scan
    BY <1>5 DEF PopStack
  <2>3. QED
    BY <1>0, <1>1, <1>4, <2>1, <2>2
<1>6. CASE FrontierRound
  <2>1. /\ nxt' = nxt \cup NewFrom(pending)
        /\ pending' = (pending \ pending) \cup NewFrom(pending)
        /\ expanded' = expanded \cup pending
        /\ sim.closing = "rounds" /\ scan' = scan
    BY <1>6 DEF FrontierRound
  <2>2. QED
    BY <1>0, <1>1, <1>4, <2>1
<1>7. CASE ScanState
  <2>1. PassesInv /\ sim.closing = "passes" /\ pending' = pending
    BY <1>7 DEF ScanState, ClosureInv
  <2>2. PassesInv' /\ scan' \in (0 .. NumStates) \X (0 .. NumStates - 1)
    BY <1>0, <1>3, <1>7, <2>1, PassesStep
  <2>3. /\ nxt \subseteq nxt' /\ nxt' \subseteq Closure(nfa, Base) /\ nxt' \subseteq nfa.states
    BY <1>0, <1>3, <1>7, EpsSuccFacts, ClosureStays DEF ScanState
  <2>4. expanded' \subseteq nfa.states
    BY <1>0, <1>3, <1>7 DEF ScanState
  <2>5. QED
    BY <1>0, <1>1, <1>2, <1>3, <2>1, <2>2, <2>3, <2>4 DEF ClosureInv
<1>8. QED
  BY <1>1, <1>5, <1>6, <1>7 DEF Closing

-----------------------------------------------------------------------------
(* The invariant. *)

(* A flag and a length make a verdict. *)
LEMMA VerdictType ==
  ASSUME NEW n \in Nat, NEW flag \in BOOLEAN, NEW len \in 0 .. n
  PROVE  <<flag, len>> \in BOOLEAN \X (0 .. n)
  BY Zenon

(* The invariant holds when a simulator is called.                         *)
LEMMA InitIInv == Init => IInv
<1> SUFFICES ASSUME Init
             PROVE  IInv
  OBVIOUS
<1>1. /\ nfa \in Automata /\ input \in Inputs
      /\ IsAutomaton(nfa) /\ IsNumbered(nfa) /\ NumStates \in Nat \ {0} /\ Len(input) \in Nat
  BY CallFacts DEF Init
<1>2. verdict \in BOOLEAN \X (0 .. Len(input)) /\ ~Latched /\ verdict = NoMatch
  <2>1. 0 \in 0 .. Len(input)
    BY <1>1
  <2>2. NoMatch \in BOOLEAN \X (0 .. Len(input))
    BY <1>1, <2>1, VerdictType, Zenon DEF NoMatch
  <2>3. ~NoMatch[1]
    BY DEF NoMatch
  <2>4. QED
    BY <2>2, <2>3 DEF Init, Latched
<1>3. TypeOK
  BY <1>1, <1>2 DEF Init, TypeOK
<1>4. LoopInv
  BY <1>1, <1>2 DEF Init, LoopInv, InPrologue
<1>5. QED
  BY <1>3, <1>4 DEF IInv, Init

(* Each step keeps the invariant.                                          *)
LEMMA NextIInv == IInv /\ [Next]_vars => IInv'
<1> SUFFICES ASSUME IInv, [Next]_vars
             PROVE  IInv'
  OBVIOUS
<1> USE DEF closure
<1>0. /\ TypeOK /\ LoopInv /\ nfa \in Automata /\ input \in Inputs /\ sim \in Simulators
      /\ IsAutomaton(nfa) /\ IsNumbered(nfa) /\ NumStates \in Nat \ {0} /\ Len(input) \in Nat
      /\ taken \in 0 .. Len(input)
      /\ \A k \in 1 .. Len(input) : input[k] \in Bytes
      /\ nfa.start \in nfa.states
  BY CallFacts DEF IInv, TypeOK, LoopInv
<1>a. ASSUME UNCHANGED <<nfa, input, sim>>
      PROVE  NumStates' = NumStates /\ Dead' = Dead /\ Breaks' = Breaks
  BY <1>a DEF NumStates, Dead, Breaks
<1>1. ASSUME NEW X, StartClosure(X), UNCHANGED <<nfa, input, sim, cur, verdict>>,
             X = Base', ~Latched, taken' \in 0 .. Len(input),
             X \subseteq nfa.states \cup {Dead},
             sim.closing # "table" => X \subseteq nfa.states,
             taken' = 0 => cur = {},
             taken' > 0 => /\ ~Accepting(nfa, cur)
                           /\ Breaks => Move(nfa, cur, input[taken']) # {}
      PROVE  IInv'
  <2>1. ClosureInv'
    BY <1>0, <1>1, ClosureStarts
  <2>2. /\ pc' = "close" /\ nxt' = X /\ expanded' = {} /\ scan' = <<0, 0>>
        /\ pending' \subseteq nfa.states
    BY <1>0, <1>1, SimulatorFacts DEF StartClosure
  <2>3. TypeOK'
    BY <1>0, <1>1, <1>a, <2>2 DEF TypeOK
  <2>4. LoopInv'
    BY <1>0, <1>1, <1>a, <2>2 DEF LoopInv, InPrologue, Latched
  <2>5. QED
    BY <2>1, <2>3, <2>4 DEF IInv
<1>2. CASE Seed
  <2>1. taken = 0 /\ cur = {} /\ ~Latched
    BY <1>0, <1>2 DEF Seed, LoopInv, InPrologue
  <2>2. Base' = {nfa.start}
    BY <1>2, <2>1 DEF Seed, Base
  <2>3. QED
    BY <1>0, <1>1, <1>2, <2>1, <2>2 DEF Seed
<1>3. CASE TakeByte
  <2>1. /\ taken' = taken + 1 /\ taken' \in 1 .. Len(input) /\ input[taken'] \in Bytes
        /\ UNCHANGED <<nfa, input, sim, cur, verdict>> /\ pc = "head" /\ ~Latched
        /\ StartClosure(Moved) /\ (Breaks => Moved # {})
    BY <1>0, <1>3 DEF TakeByte
  <2>2. ~Accepting(nfa, cur)
    BY <1>0, <2>1 DEF LoopInv
  <2>3. Moved = Base'
    BY <2>1 DEF Moved, NextByte, Base, Trans, Dead, NumStates
  <2>4. Breaks => Move(nfa, cur, input[taken']) # {}
    BY <1>0, <2>1, SimulatorFacts DEF Moved, NextByte, Breaks
  <2>5. /\ Moved \subseteq nfa.states \cup {Dead}
        /\ sim.closing # "table" => Moved \subseteq nfa.states
    <3>1. CASE sim.closing = "table"
      BY <1>0, <2>1, <3>1, TableMoves DEF Moved, NextByte, LoopInv, TypeOK
    <3>2. CASE sim.closing # "table"
      BY <1>0, <3>2, MoveType DEF Moved
    <3>3. QED
      BY <3>1, <3>2
  <2>6. taken' # 0 /\ taken' \in 0 .. Len(input)
    BY <1>0, <2>1
  <2>7. QED
    BY <1>1, <2>1, <2>2, <2>3, <2>4, <2>5, <2>6
<1>4. CASE Closing
  <2>1. ClosureInv
    BY <1>4 DEF IInv, Closing, PopStack, FrontierRound, ScanState
  <2>2. /\ ClosureInv'
        /\ pending' \cup expanded' \cup nxt' \subseteq nfa.states
        /\ scan' \in (0 .. NumStates) \X (0 .. NumStates - 1)
        /\ pc = "close" /\ sim.closing # "table"
        /\ UNCHANGED <<nfa, input, sim, pc, taken, cur, verdict>>
    BY <1>0, <1>4, <2>1, ClosureGoesOn
  <2>3. TypeOK'
    BY <1>0, <1>a, <2>2 DEF TypeOK
  <2>4. LoopInv'
    BY <1>0, <1>a, <2>2 DEF LoopInv, InPrologue, Latched
  <2>5. QED
    BY <2>2, <2>3, <2>4 DEF IInv
<1>5. CASE CloseDone
  <2>1. /\ pc = "close" /\ pc' = "check" /\ cur' = nxt
        /\ UNCHANGED <<nfa, input, sim, taken, nxt, pending, scan, expanded, verdict>>
    BY <1>5 DEF CloseDone
  <2>2. TypeOK'
    BY <1>0, <1>a, <2>1 DEF TypeOK
  <2>3. LoopInv'
    BY <1>0, <1>a, <2>1 DEF LoopInv, InPrologue, Latched
  <2>4. QED
    BY <2>1, <2>2, <2>3 DEF IInv
<1>6. CASE Check
  <2>1. /\ pc = "check"
        /\ UNCHANGED <<nfa, input, sim, taken, cur, nxt, pending, scan, expanded>>
        /\ \/ /\ Accepting(nfa, cur) /\ verdict' = <<TRUE, taken>>
              /\ pc' = IF sim.runsOn THEN "head" ELSE "done"
           \/ ~Accepting(nfa, cur) /\ pc' = "head" /\ verdict' = verdict
    BY <1>6 DEF Check, MatchLen
  <2>2. verdict' \in BOOLEAN \X (0 .. Len(input))
    BY <1>0, <2>1, VerdictType DEF TypeOK
  <2>3. TypeOK'
    BY <1>0, <1>a, <2>1, <2>2 DEF TypeOK
  <2>4. ~Latched /\ verdict = NoMatch
    BY <1>0, <2>1 DEF LoopInv
  <2>5. CASE Accepting(nfa, cur)
    <3>1. Latched' /\ (pc' = "done" \/ (pc' = "head" /\ sim.runsOn))
      <4>1. verdict' = <<TRUE, taken>> /\ (sim.runsOn => pc' = "head") /\ (~sim.runsOn => pc' = "done")
        BY <2>1, <2>5
      <4>2. Latched'
        BY <4>1 DEF Latched
      <4>3. QED
        BY <4>1, <4>2
    <3>2. LoopInv'
      BY <1>0, <1>a, <2>1, <3>1 DEF LoopInv, InPrologue
    <3>3. QED
      BY <2>1, <2>3, <3>1, <3>2 DEF IInv
  <2>6. CASE ~Accepting(nfa, cur)
    <3>1. ~Latched' /\ verdict' = NoMatch /\ pc' = "head"
      BY <2>1, <2>4, <2>6 DEF Latched
    <3>2. LoopInv'
      BY <1>0, <1>a, <2>1, <2>6, <3>1 DEF LoopInv, InPrologue, NoMatch
    <3>3. QED
      BY <2>1, <2>3, <3>1, <3>2 DEF IInv
  <2>7. QED
    BY <2>5, <2>6
<1>7. CASE Break \/ Stop
  <2>1. /\ pc = "head" /\ pc' = "done"
        /\ UNCHANGED <<nfa, input, sim, taken, cur, nxt, pending, scan, expanded, verdict>>
    BY <1>7 DEF Break, Stop
  <2>2. TypeOK'
    BY <1>0, <1>a, <2>1 DEF TypeOK
  <2>3. LoopInv'
    BY <1>0, <1>a, <2>1 DEF LoopInv, InPrologue, Latched
  <2>4. QED
    BY <2>1, <2>2, <2>3 DEF IInv
<1>8. CASE SkipByte
  <2>1. /\ pc = "head" /\ Latched /\ taken' \in 0 .. Len(input)
        /\ UNCHANGED <<nfa, input, sim, pc, cur, nxt, pending, scan, expanded, verdict>>
    BY <1>0, <1>8 DEF SkipByte
  <2>2. TypeOK'
    BY <1>0, <1>a, <2>1 DEF TypeOK
  <2>3. LoopInv'
    BY <1>0, <1>a, <2>1 DEF LoopInv, InPrologue, Latched
  <2>4. QED
    BY <2>1, <2>2, <2>3 DEF IInv
<1>9. CASE UNCHANGED vars
  <2>1. /\ UNCHANGED <<nfa, input, sim, pc, taken, cur, nxt, pending, scan, expanded, verdict>>
    BY <1>9 DEF vars
  <2>2. TypeOK'
    BY <1>0, <1>a, <2>1 DEF TypeOK
  <2>3. LoopInv'
    BY <1>0, <1>a, <2>1 DEF LoopInv, InPrologue, Latched
  <2>4. ClosureInv' <=> ClosureInv
    BY <1>a, <2>1 DEF ClosureInv, WorklistInv, PassesInv, Base, Trans
  <2>5. QED
    BY <2>1, <2>2, <2>3, <2>4 DEF IInv
<1>10. QED
  BY <1>2, <1>3, <1>4, <1>5, <1>6, <1>7, <1>8, <1>9 DEF Next, Closing

(* The invariant always holds.                                             *)
LEMMA Invariance == Spec => []IInv
  BY InitIInv, NextIInv, PTL DEF Spec

(* Every value stays in its type, for every automaton and input.           *)
THEOREM TypeCorrect == Spec => []TypeOK
<1>1. IInv => TypeOK
  BY DEF IInv
<1>2. QED
  BY <1>1, Invariance, PTL

(* No closure follows the epsilon edges of a state twice, whatever edges   *)
(* lead to it (the stack of reference.simulate, the frontier of the        *)
(* worklist kernels).                                                      *)
THEOREM WorkEfficient == Spec => []ExpandedOnce
<1>1. IInv => ExpandedOnce
  BY SimulatorFacts DEF IInv, TypeOK, ClosureInv, WorklistInv, PassesInv, ExpandedOnce
<1>2. QED
  BY <1>1, Invariance, PTL

-----------------------------------------------------------------------------
(* The refinement. *)

(* The contract's own copies of the operators of Automaton. *)
LEMMA SameOperators ==
  /\ \A X : Contract!Closure(nfa, X) = Closure(nfa, X)
  /\ \A X, byte : Contract!Move(nfa, X, byte) = Move(nfa, X, byte)
  /\ \A X : Contract!Accepting(nfa, X) <=> Accepting(nfa, X)
  /\ Contract!NoMatch = NoMatch
  BY DEF Contract!Closure, Closure, Contract!EpsClosed, EpsClosed, Contract!Move, Move,
         Contract!Fires, Fires, Contract!Accepting, Accepting, Contract!NoMatch, NoMatch

(* Where in the contract a simulator is. *)
Image ==
  /\ InPrologue => AbsPc = "idle" /\ AbsPos = 0
  /\ ~InPrologue /\ ~Latched /\ pc # "done" =>
       AbsPc = "run" /\ AbsPos = (IF pc = "close" THEN taken - 1 ELSE taken)
  /\ Latched => AbsPc = "done" /\ AbsPos = verdict[2]
  /\ ~Latched /\ pc = "done" => AbsPc = "done" /\ AbsPos = taken

(* Where the contract stands while the simulator is between its lines.     *)
LEMMA Images == LoopInv /\ taken \in Nat => Image
<1> SUFFICES ASSUME LoopInv, taken \in Nat
             PROVE  Image
  OBVIOUS
<1>1. CASE InPrologue
  <2>1. ~Latched /\ taken = 0 /\ pc # "done"
    BY <1>1 DEF InPrologue, LoopInv
  <2>2. AbsPc = "idle" /\ AbsPos = 0
    BY <1>1, <2>1 DEF AbsPc, AbsPos
  <2>3. QED
    BY <1>1, <2>1, <2>2 DEF Image
<1>2. CASE ~InPrologue /\ ~Latched /\ pc # "done"
  <2>1. AbsPc = "run"
    BY <1>2 DEF AbsPc
  <2>2. pc = "close" => taken > 0
    BY <1>2 DEF InPrologue
  <2>3. AbsPos = IF pc = "close" THEN taken - 1 ELSE taken
    BY <1>2, <2>2 DEF AbsPos
  <2>4. QED
    BY <1>2, <2>1, <2>3 DEF Image
<1>3. CASE Latched
  <2>1. ~InPrologue
    BY <1>3 DEF InPrologue, LoopInv
  <2>2. QED
    BY <1>3, <2>1 DEF AbsPc, AbsPos, Image
<1>4. CASE ~Latched /\ pc = "done"
  <2>1. ~InPrologue
    BY <1>4 DEF InPrologue
  <2>2. QED
    BY <1>4, <2>1 DEF AbsPc, AbsPos, Image
<1>5. QED
  BY <1>1, <1>2, <1>3, <1>4

(* A simulator begins as the contract does.                                *)
LEMMA InitRefines == Init => Contract!Init
<1> SUFFICES ASSUME Init
             PROVE  Contract!Init
  OBVIOUS
<1>1. LoopInv /\ taken = 0 /\ InPrologue /\ sim \in Simulators /\ cur = {}
  BY InitIInv DEF IInv, Init, InPrologue
<1>2. AbsPc = "idle" /\ AbsPos = 0
  BY <1>1, Images DEF Image
<1>3. QED
  BY <1>1, <1>2, SimulatorFacts DEF Init, Contract!Init, Contract!NoMatch, NoMatch, Breaks

(* Each step of a simulator is a step of the contract or changes nothing   *)
(* of it.                                                                  *)
LEMMA NextRefines ==
  ASSUME IInv, IInv', [Next]_vars
  PROVE  [Contract!Next]_(Contract!vars)
<1> USE DEF closure
<1> DEFINE Stays == UNCHANGED Contract!vars
<1>0. /\ TypeOK /\ LoopInv /\ nfa \in Automata /\ input \in Inputs /\ sim \in Simulators
      /\ IsAutomaton(nfa) /\ Dead \notin nfa.states /\ Len(input) \in Nat
      /\ taken \in 0 .. Len(input)
      /\ \A k \in 1 .. Len(input) : input[k] \in Bytes
      /\ nfa.start \in nfa.states
  BY CallFacts DEF IInv, TypeOK, LoopInv
<1>1. Image /\ Image'
  <2>1. (LoopInv /\ taken \in Nat => Image)'
    BY Images, PTL
  <2>2. taken' \in Nat /\ LoopInv'
    BY DEF IInv, TypeOK
  <2>3. QED
    BY <1>0, <2>1, <2>2, Images
<1>2. ASSUME UNCHANGED <<nfa, input, sim, cur, verdict>>, AbsPc' = AbsPc, AbsPos' = AbsPos
      PROVE  Stays
  BY <1>2 DEF Contract!vars, Dead, NumStates, Breaks
<1>3. CASE Seed
  <2>1. pc = "seed" /\ pc' = "close" /\ taken = 0 /\ UNCHANGED <<nfa, input, sim, taken, cur, verdict>>
    BY <1>0, <1>3 DEF Seed, StartClosure, LoopInv
  <2>2. InPrologue /\ InPrologue'
    BY <2>1 DEF InPrologue
  <2>3. QED
    BY <1>1, <1>2, <2>1, <2>2 DEF Image
<1>4. CASE TakeByte
  <2>1. /\ pc = "head" /\ pc' = "close" /\ taken' = taken + 1 /\ ~Latched
        /\ UNCHANGED <<nfa, input, sim, cur, verdict>>
    BY <1>4 DEF TakeByte, StartClosure
  <2>2. /\ ~InPrologue /\ ~InPrologue' /\ ~Latched' /\ pc # "done" /\ pc' # "done"
    BY <1>0, <2>1 DEF InPrologue, Latched
  <2>3. AbsPc = "run" /\ AbsPos = taken /\ AbsPc' = "run" /\ AbsPos' = taken' - 1
    BY <1>1, <2>1, <2>2 DEF Image
  <2>4. QED
    BY <1>0, <1>2, <2>1, <2>3
<1>5. CASE Closing \/ UNCHANGED vars
  <2>1. UNCHANGED <<nfa, input, sim, pc, taken, cur, verdict>>
    BY <1>5 DEF Closing, PopStack, FrontierRound, ScanState, vars
  <2>2. QED
    BY <1>2, <2>1 DEF AbsPc, AbsPos, InPrologue, Latched
<1>6. CASE CloseDone
  <2>1. /\ pc = "close" /\ Closed /\ pc' = "check" /\ cur' = nxt /\ ~Latched /\ ~Latched'
        /\ UNCHANGED <<nfa, input, sim, taken, verdict>>
    BY <1>0, <1>6 DEF CloseDone, LoopInv, Latched
  <2>2. /\ sim.closing # "table" => nxt = Closure(nfa, Base) /\ nxt \subseteq nfa.states
        /\ sim.closing = "table" => nxt = Base /\ nfa.eps = {}
    BY <1>0, <2>1, ClosureDone DEF IInv, ClosureInv, LoopInv
  <2>3. Dead' = Dead /\ Breaks' = Breaks
    BY <2>1 DEF Dead, NumStates, Breaks
  <2>4. /\ AbsPc' = "run" /\ AbsPos' = taken
    BY <1>1, <2>1 DEF Image, InPrologue
  <2>5. ASSUME nfa.eps = {}, NEW X \in SUBSET nfa.states
        PROVE  Closure(nfa, X) = X
    BY <2>5, ClosureReached, ClosureExtends DEF EpsClosed
  <2>6. CASE taken = 0
    <3>1. AbsPc = "idle" /\ AbsPos = 0 /\ cur = {} /\ Base = {nfa.start}
      BY <1>0, <1>1, <2>1, <2>6 DEF Image, InPrologue, LoopInv, Base
    <3>2. nxt \ {Dead} = Closure(nfa, {nfa.start})
      BY <1>0, <2>2, <2>5, <3>1
    <3>3. Contract!Begin
      BY <2>1, <2>3, <2>4, <2>6, <3>1, <3>2, SameOperators DEF Contract!Begin
    <3>4. QED
      BY <3>3 DEF Contract!Next
  <2>7. CASE taken > 0
    <3>1. /\ AbsPc = "run" /\ AbsPos = taken - 1 /\ AbsPos + 1 = taken /\ AbsPos < Len(input)
          /\ input[taken] \in Bytes
      BY <1>0, <1>1, <2>1, <2>7 DEF Image, InPrologue
    <3>2. /\ ~Accepting(nfa, cur)
          /\ Breaks => Move(nfa, cur, input[taken]) # {}
      BY <1>0, <2>1, <2>7 DEF LoopInv
    <3>3. /\ nxt \ {Dead} = Closure(nfa, Move(nfa, cur \ {Dead}, input[taken]))
          /\ Breaks => Move(nfa, cur \ {Dead}, input[taken]) # {}
      <4>1. CASE sim.closing # "table"
        <5>1. cur \ {Dead} = cur /\ nxt \ {Dead} = nxt
          BY <1>0, <2>2, <4>1 DEF LoopInv
        <5>2. Base = Move(nfa, cur, input[taken])
          BY <1>0, <2>7, <4>1 DEF Base
        <5>3. QED
          BY <2>2, <3>2, <4>1, <5>1, <5>2
      <4>2. CASE sim.closing = "table"
        <5>a. IsDeterministic(nfa) /\ cur \in SUBSET (nfa.states \cup {Dead})
          BY <1>0, <4>2 DEF LoopInv, TypeOK
        <5>b. nxt = {Trans(s, input[taken]) : s \in cur}
          BY <1>0, <2>2, <2>7, <4>2 DEF Base
        <5>1. nxt \ {Dead} = Move(nfa, cur \ {Dead}, input[taken])
          BY <1>0, <3>1, <5>a, <5>b, TableMoves
        <5>2. QED
          BY <1>0, <2>2, <2>5, <4>2, <5>1, MoveType, SimulatorFacts DEF Breaks
      <4>3. QED
        BY <4>1, <4>2
    <3>4. ~Accepting(nfa, cur \ {Dead})
      BY <3>2 DEF Accepting
    <3>5. Contract!Consume
      BY <2>1, <2>3, <2>4, <3>1, <3>3, <3>4, SameOperators DEF Contract!Consume, Contract!NextByte
    <3>6. QED
      BY <3>5 DEF Contract!Next
  <2>8. QED
    BY <1>0, <2>6, <2>7
<1>7. CASE Check
  <2>1. /\ pc = "check" /\ ~Latched /\ UNCHANGED <<nfa, input, sim, taken, cur>>
        /\ AbsPc = "run" /\ AbsPos = taken
    BY <1>0, <1>1, <1>7 DEF Check, LoopInv, Image, InPrologue
  <2>2. Dead' = Dead /\ Breaks' = Breaks
    BY <2>1 DEF Dead, NumStates, Breaks
  <2>3. CASE Accepting(nfa, cur)
    <3>1. verdict' = <<TRUE, taken>>
      BY <1>7, <2>3 DEF Check, MatchLen
    <3>2. Latched'
      BY <3>1 DEF Latched
    <3>3. AbsPc' = "done" /\ AbsPos' = taken
      BY <1>1, <3>1, <3>2 DEF Image
    <3>4. Accepting(nfa, cur \ {Dead})
      BY <1>0, <2>3 DEF Accepting, IsAutomaton
    <3>5. Contract!Latch
      BY <2>1, <2>2, <3>1, <3>3, <3>4, SameOperators DEF Contract!Latch
    <3>6. QED
      BY <3>5 DEF Contract!Next
  <2>4. CASE ~Accepting(nfa, cur)
    <3>1. pc' = "head" /\ verdict' = verdict
      BY <1>7, <2>4 DEF Check
    <3>2. AbsPc' = "run" /\ AbsPos' = taken
      BY <1>1, <2>1, <3>1 DEF Image, InPrologue, Latched
    <3>3. QED
      BY <1>2, <2>1, <3>1, <3>2
  <2>5. QED
    BY <2>3, <2>4
<1>8. CASE Break
  <2>1. /\ pc = "head" /\ pc' = "done" /\ taken < Len(input) /\ Breaks /\ Moved = {}
        /\ UNCHANGED <<nfa, input, sim, taken, cur, verdict>>
    BY <1>8 DEF Break
  <2>2. ~Latched /\ ~Latched' /\ verdict = NoMatch /\ ~Accepting(nfa, cur) /\ sim.closing # "table"
    BY <1>0, <2>1, SimulatorFacts DEF LoopInv, Breaks, Latched
  <2>3. AbsPc = "run" /\ AbsPos = taken /\ AbsPc' = "done" /\ AbsPos' = taken
    BY <1>1, <2>1, <2>2 DEF Image, InPrologue
  <2>4. Dead' = Dead /\ Breaks' = Breaks /\ cur \ {Dead} = cur
    BY <1>0, <2>1, <2>2 DEF Dead, NumStates, Breaks, LoopInv
  <2>5. Move(nfa, cur, input[taken + 1]) = {}
    BY <2>1, <2>2 DEF Moved, NextByte
  <2>6. Contract!Break
    BY <2>1, <2>2, <2>3, <2>4, <2>5, SameOperators DEF Contract!Break, Contract!NextByte
  <2>7. QED
    BY <2>6 DEF Contract!Next
<1>9. CASE SkipByte
  <2>1. Latched /\ Latched' /\ UNCHANGED <<nfa, input, sim, cur, verdict>>
    BY <1>9 DEF SkipByte, closure, Latched
  <2>2. QED
    BY <1>1, <1>2, <2>1 DEF Image
<1>10. CASE Stop
  <2>1. /\ pc = "head" /\ pc' = "done" /\ taken = Len(input)
        /\ UNCHANGED <<nfa, input, sim, taken, cur, verdict>>
    BY <1>10 DEF Stop
  <2>2. CASE Latched
    <3>1. Latched'
      BY <2>1, <2>2 DEF Latched
    <3>2. QED
      BY <1>1, <1>2, <2>1, <2>2, <3>1 DEF Image
  <2>3. CASE ~Latched
    <3>1. ~Latched' /\ verdict = NoMatch /\ ~Accepting(nfa, cur)
      BY <1>0, <2>1, <2>3 DEF LoopInv, Latched
    <3>2. AbsPc = "run" /\ AbsPos = taken /\ AbsPc' = "done" /\ AbsPos' = taken
      BY <1>1, <2>1, <2>3, <3>1 DEF Image, InPrologue
    <3>3. Dead' = Dead /\ Breaks' = Breaks /\ ~Accepting(nfa, cur \ {Dead})
      BY <2>1, <3>1 DEF Dead, NumStates, Breaks, Accepting
    <3>4. Contract!Exhaust
      BY <2>1, <3>1, <3>2, <3>3, SameOperators DEF Contract!Exhaust
    <3>5. QED
      BY <3>4 DEF Contract!Next
  <2>4. QED
    BY <2>2, <2>3
<1>11. QED
  BY <1>3, <1>4, <1>5, <1>6, <1>7, <1>8, <1>9, <1>10 DEF Next, Closing

(* Every sequential simulator, whatever its closure, makes the moves of    *)
(* the contract and no other: reference.simulate, the bitmap program, the  *)
(* CUDA, Triton and Warp kernels and the table walks agree on every        *)
(* automaton and input ("Every backend must reproduce simulate exactly").  *)
THEOREM Refinement == Spec => Contract!Spec
<1>1. IInv /\ IInv' /\ [Next]_vars => [Contract!Next]_(Contract!vars)
  BY NextRefines
<1>2. QED
  BY <1>1, InitRefines, Invariance, PTL DEF Spec, Contract!Spec
-----------------------------------------------------------------------------
(* What the refinement brings: the theorems of the contract.               *)

ContractProofs == INSTANCE LatchFirstMatchProofs WITH
  pc <- AbsPc, pos <- AbsPos, active <- cur \ {Dead}, breaks <- Breaks

(* The contract whose theorems these are is the one refined.               *)
LEMMA SameContract ==
  /\ Contract!Spec <=> ContractProofs!Spec
  /\ Contract!ShortestMatch <=> ContractProofs!ShortestMatch
<1> USE DEF Contract!NoMatch, Contract!Fires, Contract!Accepting,
            ContractProofs!NoMatch, ContractProofs!Fires, ContractProofs!Accepting
<1>1. Contract!Spec <=> ContractProofs!Spec
  BY DEF Contract!Spec, Contract!Init, Contract!Next, Contract!vars, Contract!Begin,
         Contract!Latch, Contract!Consume, Contract!Break, Contract!Exhaust,
         Contract!NextByte, Contract!Closure, Contract!EpsClosed, Contract!Move,
         ContractProofs!Spec, ContractProofs!Init, ContractProofs!Next, ContractProofs!vars,
         ContractProofs!Begin, ContractProofs!Latch, ContractProofs!Consume,
         ContractProofs!Break, ContractProofs!Exhaust, ContractProofs!NextByte,
         ContractProofs!Closure, ContractProofs!EpsClosed, ContractProofs!Move
<1>2. Contract!ShortestMatch <=> ContractProofs!ShortestMatch
  BY DEF Contract!ShortestMatch, Contract!MatchesAt, Contract!Slice, Contract!Reached,
         Contract!Configs, Contract!PathClosed,
         ContractProofs!ShortestMatch, ContractProofs!MatchesAt, ContractProofs!Slice,
         ContractProofs!Reached, ContractProofs!Configs, ContractProofs!PathClosed
<1> QED  BY <1>1, <1>2

(* Every sequential simulator reports the shortest matching prefix: the    *)
(* early exit of a loop, the iterations behind a latch and the dead state  *)
(* of a table change nothing of it.                                        *)
THEOREM ReportsShortestMatch == Spec => []Contract!ShortestMatch
<1>1. \A a \in Automata : ContractProofs!IsAutomaton(a)
  BY AutomataAssumption DEF IsAutomaton, ContractProofs!IsAutomaton
<1>2. ContractProofs!Spec => []ContractProofs!ShortestMatch
  BY <1>1, WildcardAssumption, InputsAssumption, ContractProofs!VerdictCorrect
<1> QED  BY <1>2, Refinement, SameContract, PTL

-----------------------------------------------------------------------------
(* Recursion on a number, by induction over sets of numbers. *)

(* A set that holds 0 and, with a number, the next one holds every number: *)
(* the induction the other lemmas use, a set in the place of an operator.  *)
LEMMA NatSetInduction ==
  ASSUME NEW S, 0 \in S, \A n \in Nat : n \in S => n + 1 \in S
  PROVE  \A n \in Nat : n \in S
<1> DEFINE T == Nat \ S
<1> SUFFICES ASSUME T # {}
             PROVE  FALSE
  OBVIOUS
<1>1. PICK x \in T : \A y \in T : ~ (<<y, x>> \in OpToRel(<, Nat))
  <2>1. IsWellFoundedOn(OpToRel(<, Nat), Nat)
    BY NatLessThanWellFounded
  <2>2. T \subseteq Nat
    OBVIOUS
  <2> HIDE DEF T
  <2> QED  BY <2>1, <2>2, WFMin
<1>2. x \in Nat /\ x # 0 /\ x - 1 \in Nat
  <2>1. x \in Nat /\ x # 0
    OBVIOUS
  <2> QED  BY <2>1
<1>3. x - 1 \notin T
  <2>1. x - 1 < x
    BY <1>2
  <2>2. <<x - 1, x>> \in OpToRel(<, Nat)
    BY <1>2, <2>1 DEF OpToRel
  <2> QED  BY <1>1, <2>2
<1>4. (x - 1) + 1 = x
  BY <1>2
<1> QED  BY <1>1, <1>2, <1>3, <1>4

(* Recursion on a number: a step that is a function has its iteration. *)
IsStep(step, N, V) == step \in [(1 .. N) \X V -> V]

Iterates(g, N, V, b, step) ==
  /\ g \in [0 .. N -> V]
  /\ g[0] = b
  /\ \A n \in 1 .. N : g[n] = step[<<n, g[n - 1]>>]

(* There is a function that gives the value after each of N rounds, so     *)
(* that a recursive function definition has a solution to be unfolded to.  *)
LEMMA Iteration ==
  ASSUME NEW N \in Nat, NEW V, NEW b \in V, NEW step, IsStep(step, N, V)
  PROVE  \E g : Iterates(g, N, V, b, step)
<1> USE DEF IsStep
<1> DEFINE Upto(k, g) == g[0] = b /\ \A n \in 1 .. k : g[n] = step[<<n, g[n - 1]>>]
           S == {k \in Nat : k <= N => \E g \in [0 .. k -> V] : Upto(k, g)}
<1>1. 0 \in S
  <2>1. [n \in 0 .. 0 |-> b] \in [0 .. 0 -> V]
    OBVIOUS
  <2>2. Upto(0, [n \in 0 .. 0 |-> b])
    OBVIOUS
  <2> QED  BY <2>1, <2>2
<1>2. ASSUME NEW k \in Nat, k \in S
      PROVE  k + 1 \in S
  <2> SUFFICES ASSUME k + 1 <= N
               PROVE  \E g \in [0 .. k + 1 -> V] : Upto(k + 1, g)
    BY <1>2
  <2>1. PICK g \in [0 .. k -> V] : Upto(k, g)
    BY <1>2
  <2> DEFINE h == [n \in 0 .. k + 1 |-> IF n = k + 1 THEN step[<<k + 1, g[k]>>] ELSE g[n]]
  <2>2. <<k + 1, g[k]>> \in (1 .. N) \X V
    BY <2>1
  <2>3. h \in [0 .. k + 1 -> V]
    BY <2>1, <2>2
  <2>4. \A n \in 0 .. k : h[n] = g[n]
    BY <2>1
  <2>5. h[k + 1] = step[<<k + 1, h[k]>>]
    <3>1. k + 1 \in 0 .. k + 1 /\ k \in 0 .. k
      OBVIOUS
    <3>2. h[k + 1] = step[<<k + 1, g[k]>>]
      BY <3>1
    <3>3. h[k] = g[k]
      BY <3>1, <2>4
    <3> HIDE DEF h
    <3> QED  BY <3>2, <3>3
  <2>6. h[0] = b
    BY <2>1, <2>4
  <2>7. ASSUME NEW n \in 1 .. k + 1
        PROVE  h[n] = step[<<n, h[n - 1]>>]
    <3>1. CASE n = k + 1
      BY <3>1, <2>5
    <3>2. CASE n # k + 1
      <4>1. n \in 1 .. k /\ n - 1 \in 0 .. k /\ n \in 0 .. k
        BY <3>2
      <4> QED  BY <4>1, <2>1, <2>4
    <3> QED  BY <3>1, <3>2
  <2> HIDE DEF h
  <2> QED  BY <2>3, <2>6, <2>7
<1>3. N \in S
  <2> HIDE DEF S
  <2> QED  BY <1>1, <1>2, NatSetInduction
<1> QED  BY <1>3 DEF Iterates

-----------------------------------------------------------------------------
(* The CSR arrays: rows laid one behind the other. *)

(* Row n of the lists begins where row n - 1 ends. *)
LEMMA RowPtrFacts ==
  ASSUME NEW T, NEW lists \in Seq(Seq(T))
  PROVE  /\ RowPtr(lists) \in [0 .. Len(lists) -> Nat]
         /\ RowPtr(lists)[0] = 0
         /\ \A n \in 1 .. Len(lists) : RowPtr(lists)[n] = RowPtr(lists)[n - 1] + Len(lists[n])
<1> DEFINE N == Len(lists)
           IsPtr(p) == p = [n \in 0 .. N |-> IF n = 0 THEN 0 ELSE p[n - 1] + Len(lists[n])]
           step == [q \in (1 .. N) \X Nat |-> q[2] + Len(lists[q[1]])]
<1>1. N \in Nat /\ \A n \in 1 .. N : Len(lists[n]) \in Nat
  OBVIOUS
<1>2. step \in [(1 .. N) \X Nat -> Nat]
  BY <1>1
<1>3. PICK g : Iterates(g, N, Nat, 0, step)
  <2>1. 0 \in Nat /\ N \in Nat /\ IsStep(step, N, Nat)
    BY <1>1, <1>2 DEF IsStep
  <2> HIDE DEF N, step
  <2> QED  BY <2>1, Iteration
<1>4. IsPtr(g)
  <2> USE <1>3 DEF Iterates
  <2>1. \A n \in 1 .. N : g[n] = g[n - 1] + Len(lists[n])
    <3> TAKE n \in 1 .. N
    <3>1. n - 1 \in 0 .. N
      BY <1>1
    <3>2. g[n - 1] \in Nat
      BY <1>3, <3>1
    <3>3. <<n, g[n - 1]>> \in (1 .. N) \X Nat
      BY <3>2
    <3> QED  BY <3>3, <1>3
  <2> HIDE DEF N
  <2> QED  BY <1>1, <1>3, <2>1
<1>5. RowPtr(lists) = CHOOSE p : IsPtr(p)
  BY DEF RowPtr
<1>6. IsPtr(RowPtr(lists))
  <2> HIDE DEF IsPtr
  <2> QED  BY <1>4, <1>5
<1> DEFINE P == RowPtr(lists)
<1>7. P = [n \in 0 .. N |-> IF n = 0 THEN 0 ELSE P[n - 1] + Len(lists[n])]
  BY <1>6
<1>8. P[0] = 0 /\ \A n \in 1 .. N : P[n] = P[n - 1] + Len(lists[n])
  <2> HIDE DEF P, N
  <2> QED  BY <1>1, <1>7
<1>9. DOMAIN P = 0 .. N /\ P = [n \in 0 .. N |-> P[n]]
  <2> HIDE DEF P, N
  <2> QED  BY <1>7
<1>10. \A n \in 0 .. N : P[n] \in Nat
  <2> DEFINE S == {n \in Nat : n <= N => P[n] \in Nat}
  <2>1. 0 \in S
    BY <1>8
  <2>2. \A n \in Nat : n \in S => n + 1 \in S
    <3> SUFFICES ASSUME NEW n \in Nat, n \in S, n + 1 <= N
                 PROVE  P[n + 1] \in Nat
      OBVIOUS
    <3>1. P[n + 1] = P[n] + Len(lists[n + 1])
      <4> HIDE DEF P, N
      <4>1. n + 1 \in 1 .. N /\ (n + 1) - 1 = n
        BY <1>1
      <4> QED  BY <4>1, <1>8
    <3> HIDE DEF P, N
    <3> QED  BY <3>1, <1>1
  <2>3. \A n \in Nat : n \in S
    <3> HIDE DEF S
    <3> QED  BY <2>1, <2>2, NatSetInduction
  <2> QED  BY <2>3
<1> HIDE DEF P
<1>11. P \in [0 .. N -> Nat]
  BY <1>9, <1>10
<1> QED  BY <1>8, <1>11 DEF P

(* Rows lie one behind the other. *)
LEMMA RowPtrMonotone ==
  ASSUME NEW T, NEW lists \in Seq(Seq(T)),
         NEW m \in 0 .. Len(lists), NEW n \in 0 .. Len(lists), m <= n
  PROVE  RowPtr(lists)[m] <= RowPtr(lists)[n]
<1> DEFINE P == RowPtr(lists)
           N == Len(lists)
           S == {k \in Nat : m + k <= N => P[m] <= P[m + k]}
<1>1. /\ P \in [0 .. N -> Nat] /\ N \in Nat
      /\ \A i \in 1 .. N : P[i] = P[i - 1] + Len(lists[i]) /\ Len(lists[i]) \in Nat
  BY RowPtrFacts
<1> HIDE DEF P
<1>2. 0 \in S
  <2>1. m \in 0 .. N /\ P[m] \in Nat
    BY <1>1
  <2>2. m + 0 = m /\ P[m] <= P[m + 0]
    BY <2>1
  <2> QED  BY <2>2
<1>3. ASSUME NEW k \in Nat, k \in S
      PROVE  k + 1 \in S
  <2> SUFFICES ASSUME m + (k + 1) <= N
               PROVE  P[m] <= P[m + (k + 1)]
    OBVIOUS
  <2> HIDE DEF N
  <2>1. m \in 0 .. N /\ m + k \in 0 .. N /\ m + (k + 1) \in 1 .. N /\ (m + (k + 1)) - 1 = m + k
    BY <1>1 DEF N
  <2>2. P[m + (k + 1)] = P[m + k] + Len(lists[m + (k + 1)]) /\ Len(lists[m + (k + 1)]) \in Nat
    BY <2>1, <1>1
  <2>3. P[m] \in Nat /\ P[m + k] \in Nat /\ P[m] <= P[m + k]
    BY <1>1, <1>3, <2>1
  <2> QED  BY <2>2, <2>3
<1>4. n - m \in S
  <2> HIDE DEF S
  <2>1. n - m \in Nat
    OBVIOUS
  <2> QED  BY <1>2, <1>3, <2>1, NatSetInduction
<1>5. m + (n - m) = n /\ n - m \in Nat /\ n <= N
  OBVIOUS
<1> QED  BY <1>4, <1>5 DEF P

(* Entry k of the array is the entry of the list whose row holds k.        *)
LEMMA PlaceFacts ==
  ASSUME NEW T, NEW lists \in Seq(Seq(T)), NEW s \in 1 .. Len(lists),
         NEW k \in RowPtr(lists)[s - 1] .. RowPtr(lists)[s] - 1
  PROVE  /\ k \in DOMAIN Place(lists)
         /\ k - RowPtr(lists)[s - 1] + 1 \in 1 .. Len(lists[s])
         /\ Place(lists)[k] = lists[s][k - RowPtr(lists)[s - 1] + 1]
<1> DEFINE P == RowPtr(lists)
           N == Len(lists)
           Holds(t) == P[t - 1] <= k /\ k < P[t]
           owner == CHOOSE t \in 1 .. N : Holds(t)
<1>1. /\ P \in [0 .. N -> Nat] /\ P[0] = 0 /\ N \in Nat
      /\ \A n \in 1 .. N : P[n] = P[n - 1] + Len(lists[n]) /\ Len(lists[n]) \in Nat
  BY RowPtrFacts
<1>2. \A m, n \in 0 .. N : m <= n => P[m] <= P[n]
  BY RowPtrMonotone
<1>3. Place(lists) = [i \in 0 .. P[N] - 1 |->
        lists[CHOOSE t \in 1 .. N : P[t - 1] <= i /\ i < P[t]]
             [i - P[(CHOOSE t \in 1 .. N : P[t - 1] <= i /\ i < P[t]) - 1] + 1]]
  BY DEF Place
<1>4. k \in P[s - 1] .. P[s] - 1 /\ s \in 1 .. N
  OBVIOUS
<1> HIDE DEF P, N
<1>5. /\ s - 1 \in 0 .. N /\ s \in 0 .. N /\ 0 \in 0 .. N /\ N \in 0 .. N
      /\ P[s - 1] \in Nat /\ P[s] \in Nat /\ P[N] \in Nat
  <2>1. s - 1 \in 0 .. N /\ s \in 0 .. N /\ 0 \in 0 .. N /\ N \in 0 .. N
    BY <1>1, <1>4
  <2> QED  BY <2>1, <1>1
<1>6. k \in Nat /\ Holds(s)
  BY <1>4, <1>5
<1>7. k \in 0 .. P[N] - 1
  <2>1. P[s] <= P[N]
    BY <1>2, <1>4, <1>5
  <2> QED  BY <2>1, <1>5, <1>6
<1>8. ASSUME NEW t \in 1 .. N, Holds(t)
      PROVE  t = s
  <2>1. t - 1 \in 0 .. N /\ t \in 0 .. N
    BY <1>1
  <2>2. P[t] \in Nat /\ P[t - 1] \in Nat
    BY <2>1, <1>1
  <2>3. CASE t < s
    <3>1. t <= s - 1
      BY <2>3, <1>4, <1>1
    <3>2. P[t] <= P[s - 1]
      BY <3>1, <2>1, <1>2, <1>5
    <3> QED  BY <3>2, <2>2, <1>5, <1>6, <1>8
  <2>4. CASE s < t
    <3>1. s <= t - 1
      BY <2>4, <1>4, <1>1
    <3>2. P[s] <= P[t - 1]
      BY <3>1, <2>1, <1>2, <1>5
    <3> QED  BY <3>2, <2>2, <1>5, <1>6, <1>8
  <2> QED  BY <2>3, <2>4, <1>4, <1>1
<1>9. owner = s
  <2> HIDE DEF Holds
  <2> QED  BY <1>4, <1>6, <1>8
<1>10. DOMAIN Place(lists) = 0 .. P[N] - 1 /\ Place(lists)[k] = lists[owner][k - P[owner - 1] + 1]
  BY <1>3, <1>7
<1>11. k - P[s - 1] + 1 \in 1 .. Len(lists[s])
  <2>1. P[s] = P[s - 1] + Len(lists[s]) /\ Len(lists[s]) \in Nat
    BY <1>1, <1>4
  <2>2. P[s - 1] <= k /\ k < P[s]
    BY <1>6
  <2>3. \A from, to, len, at \in Nat :
          to = from + len /\ from <= at /\ at < to => at - from + 1 \in 1 .. len
    OBVIOUS
  <2>4. P[s - 1] \in Nat /\ P[s] \in Nat /\ k \in Nat
    BY <1>5, <1>6
  <2> HIDE DEF Holds, owner
  <2> QED  BY <2>1, <2>2, <2>3, <2>4
<1>12. Place(lists)[k] = lists[s][k - P[s - 1] + 1]
  <2> HIDE DEF owner
  <2> QED  BY <1>9, <1>10
<1> QED  BY <1>7, <1>10, <1>11, <1>12 DEF P

(* Read by its row pointers, the array holds list s in row s.              *)
LEMMA RowHolds ==
  ASSUME NEW T, NEW lists \in Seq(Seq(T)), NEW s \in 0 .. Len(lists) - 1
  PROVE  /\ \A k \in Row(RowPtr(lists), s) :
              /\ k \in DOMAIN Place(lists)
              /\ \E m \in 1 .. Len(lists[s + 1]) : Place(lists)[k] = lists[s + 1][m]
         /\ \A m \in 1 .. Len(lists[s + 1]) :
              \E k \in Row(RowPtr(lists), s) : Place(lists)[k] = lists[s + 1][m]
<1> DEFINE P == RowPtr(lists)
<1>1. /\ s + 1 \in 1 .. Len(lists) /\ (s + 1) - 1 = s /\ Len(lists[s + 1]) \in Nat
      /\ Row(P, s) = P[s] .. P[s + 1] - 1
  BY DEF Row
<1>2. P[s] \in Nat /\ P[s + 1] = P[s] + Len(lists[s + 1])
  <2>1. P \in [0 .. Len(lists) -> Nat] /\ \A n \in 1 .. Len(lists) : P[n] = P[n - 1] + Len(lists[n])
    BY RowPtrFacts
  <2>2. s \in 0 .. Len(lists)
    OBVIOUS
  <2> HIDE DEF P
  <2> QED  BY <2>1, <2>2, <1>1
<1>3. ASSUME NEW k \in Row(P, s)
      PROVE  /\ k \in DOMAIN Place(lists)
             /\ k - P[s] + 1 \in 1 .. Len(lists[s + 1])
             /\ Place(lists)[k] = lists[s + 1][k - P[s] + 1]
  <2>1. k \in P[(s + 1) - 1] .. P[s + 1] - 1
    BY <1>1
  <2>2. /\ k \in DOMAIN Place(lists)
        /\ k - P[(s + 1) - 1] + 1 \in 1 .. Len(lists[s + 1])
        /\ Place(lists)[k] = lists[s + 1][k - P[(s + 1) - 1] + 1]
    BY <2>1, <1>1, PlaceFacts
  <2> QED  BY <2>2, <1>1
<1>4. ASSUME NEW m \in 1 .. Len(lists[s + 1])
      PROVE  \E k \in Row(P, s) : Place(lists)[k] = lists[s + 1][m]
  <2> DEFINE k == P[s] + (m - 1)
  <2>1. k \in Row(P, s) /\ k - P[s] + 1 = m
    <3> HIDE DEF P
    <3> QED  BY <1>1, <1>2
  <2>2. Place(lists)[k] = lists[s + 1][k - P[s] + 1]
    <3> HIDE DEF k
    <3> QED  BY <2>1, <1>3
  <2> QED  BY <2>1, <2>2
<1> QED  BY <1>3, <1>4

-----------------------------------------------------------------------------
(* What a builder stands for, and the round trip through the arrays. *)

(* What an edge may carry: a byte or the wildcard. *)
Symbols == Bytes \cup {AnySymbol}

(* The builders the calls of NFABuilder lead to. *)
States(bld) == 0 .. Len(bld.accept) - 1

IsBuilder(bld) ==
  /\ bld \in [accept : Seq(BOOLEAN), sym : Seq(Seq(Symbols \X Nat)), eps : Seq(Seq(Nat)),
              start : Nat, raised : BOOLEAN]
  /\ Len(bld.sym) = Len(bld.accept) /\ Len(bld.eps) = Len(bld.accept)
  /\ bld.start \in States(bld) \cup {0}
  /\ \A s \in States(bld) :
       /\ \A m \in 1 .. Len(bld.sym[s + 1]) : bld.sym[s + 1][m][2] \in States(bld)
       /\ \A m \in 1 .. Len(bld.eps[s + 1]) : bld.eps[s + 1][m] \in States(bld)

(* The automaton a builder stands for, with no array in between. *)
AcceptStates(bld) == {s \in States(bld) : bld.accept[s + 1]}
SymEdges(bld) ==
  {e \in States(bld) \X Symbols \X States(bld) :
     \E m \in 1 .. Len(bld.sym[e[1] + 1]) : bld.sym[e[1] + 1][m] = <<e[2], e[3]>>}
EpsEdges(bld) ==
  {e \in States(bld) \X States(bld) :
     \E m \in 1 .. Len(bld.eps[e[1] + 1]) : bld.eps[e[1] + 1][m] = e[2]}

Denoted(bld) ==
  [states |-> States(bld), start |-> bld.start, accept |-> AcceptStates(bld),
   sym |-> SymEdges(bld), eps |-> EpsEdges(bld)]

(* Flattened to the CSR arrays and read back row by row, a builder gives   *)
(* the edges it was given, no more and no fewer, whatever rows are empty.  *)
THEOREM CsrRoundTrip ==
  ASSUME NEW bld, IsBuilder(bld)
  PROVE  ReadBack(build(bld)) = Denoted(bld)
<1> DEFINE csr == build(bld)
           n == Len(bld.accept)
<1>1. /\ bld.sym \in Seq(Seq(Symbols \X Nat)) /\ bld.eps \in Seq(Seq(Nat))
      /\ Len(bld.sym) = n /\ Len(bld.eps) = n /\ n \in Nat
  BY DEF IsBuilder
<1>2. /\ csr.num_states = n /\ csr.start_state = bld.start /\ csr.accept = bld.accept
      /\ csr.sym_row_ptr = RowPtr(bld.sym) /\ csr.eps_row_ptr = RowPtr(bld.eps)
      /\ csr.sym_symbols = [i \in DOMAIN Place(bld.sym) |-> Place(bld.sym)[i][1]]
      /\ csr.sym_targets = [i \in DOMAIN Place(bld.sym) |-> Place(bld.sym)[i][2]]
      /\ csr.eps_targets = Place(bld.eps)
  BY DEF build
<1> DEFINE sym == UNION {{<<s, csr.sym_symbols[k], csr.sym_targets[k]>> :
                            k \in Row(csr.sym_row_ptr, s)} : s \in States(bld)}
           eps == UNION {{<<s, csr.eps_targets[k]>> :
                            k \in Row(csr.eps_row_ptr, s)} : s \in States(bld)}
<1> HIDE DEF csr
<1>3. sym = SymEdges(bld)
  <2>1. ASSUME NEW s \in States(bld), NEW k \in Row(csr.sym_row_ptr, s)
        PROVE  <<s, csr.sym_symbols[k], csr.sym_targets[k]>> \in SymEdges(bld)
    <3>1. s \in 0 .. Len(bld.sym) - 1
      BY <1>1 DEF States
    <3>2. k \in Row(RowPtr(bld.sym), s)
      BY <1>2
    <3>3. /\ k \in DOMAIN Place(bld.sym)
          /\ \E m \in 1 .. Len(bld.sym[s + 1]) : Place(bld.sym)[k] = bld.sym[s + 1][m]
      BY <1>1, <3>1, <3>2, RowHolds
    <3>4. PICK m \in 1 .. Len(bld.sym[s + 1]) : Place(bld.sym)[k] = bld.sym[s + 1][m]
      BY <3>3
    <3>5. bld.sym[s + 1] \in Seq(Symbols \X Nat)
      BY <1>1, <3>1
    <3>6. bld.sym[s + 1][m] \in Symbols \X Nat /\ bld.sym[s + 1][m][2] \in States(bld)
      <4>1. bld.sym[s + 1][m] \in Symbols \X Nat
        BY <3>5
      <4>2. bld.sym[s + 1][m][2] \in States(bld)
        BY DEF IsBuilder
      <4> QED  BY <4>1, <4>2
    <3>7. /\ csr.sym_symbols[k] = bld.sym[s + 1][m][1]
          /\ csr.sym_targets[k] = bld.sym[s + 1][m][2]
      BY <1>2, <3>3, <3>4
    <3>8. bld.sym[s + 1][m] = <<csr.sym_symbols[k], csr.sym_targets[k]>>
      BY <3>6, <3>7
    <3>9. <<s, csr.sym_symbols[k], csr.sym_targets[k]>> \in States(bld) \X Symbols \X States(bld)
      BY <3>6, <3>7
    <3> QED  BY <3>8, <3>9 DEF SymEdges
  <2>2. ASSUME NEW e \in SymEdges(bld)
        PROVE  e \in sym
    <3>1. PICK s \in States(bld), c \in Symbols, t \in States(bld) : e = <<s, c, t>>
      BY DEF SymEdges
    <3>2. PICK m \in 1 .. Len(bld.sym[s + 1]) : bld.sym[s + 1][m] = <<c, t>>
      BY <3>1 DEF SymEdges
    <3>3. s \in 0 .. Len(bld.sym) - 1
      BY <1>1 DEF States
    <3>4. PICK k \in Row(RowPtr(bld.sym), s) : Place(bld.sym)[k] = bld.sym[s + 1][m]
      BY <1>1, <3>3, RowHolds
    <3>5. k \in DOMAIN Place(bld.sym)
      BY <1>1, <3>3, RowHolds
    <3>6. csr.sym_symbols[k] = c /\ csr.sym_targets[k] = t /\ k \in Row(csr.sym_row_ptr, s)
      BY <1>2, <3>2, <3>4, <3>5
    <3> QED  BY <3>1, <3>6
  <2> QED  BY <2>1, <2>2
<1>4. eps = EpsEdges(bld)
  <2>1. ASSUME NEW s \in States(bld), NEW k \in Row(csr.eps_row_ptr, s)
        PROVE  <<s, csr.eps_targets[k]>> \in EpsEdges(bld)
    <3>1. s \in 0 .. Len(bld.eps) - 1
      BY <1>1 DEF States
    <3>2. k \in Row(RowPtr(bld.eps), s)
      BY <1>2
    <3>3. PICK m \in 1 .. Len(bld.eps[s + 1]) : Place(bld.eps)[k] = bld.eps[s + 1][m]
      BY <1>1, <3>1, <3>2, RowHolds
    <3>4. bld.eps[s + 1][m] \in States(bld)
      BY DEF IsBuilder
    <3>5. csr.eps_targets[k] = bld.eps[s + 1][m]
      BY <1>2, <3>3
    <3> QED  BY <3>4, <3>5 DEF EpsEdges
  <2>2. ASSUME NEW e \in EpsEdges(bld)
        PROVE  e \in eps
    <3>1. PICK s \in States(bld), t \in States(bld) : e = <<s, t>>
      BY DEF EpsEdges
    <3>2. PICK m \in 1 .. Len(bld.eps[s + 1]) : bld.eps[s + 1][m] = t
      BY <3>1 DEF EpsEdges
    <3>3. s \in 0 .. Len(bld.eps) - 1
      BY <1>1 DEF States
    <3>4. PICK k \in Row(RowPtr(bld.eps), s) : Place(bld.eps)[k] = bld.eps[s + 1][m]
      BY <1>1, <3>3, RowHolds
    <3>5. csr.eps_targets[k] = t /\ k \in Row(csr.eps_row_ptr, s)
      BY <1>2, <3>2, <3>4
    <3> QED  BY <3>1, <3>5
  <2> QED  BY <2>1, <2>2
<1>5. ReadBack(csr) = [states |-> States(bld), start |-> bld.start,
                       accept |-> AcceptStates(bld), sym |-> sym, eps |-> eps]
  BY <1>2 DEF ReadBack, States, AcceptStates
<1> HIDE DEF sym, eps
<1> QED  BY <1>3, <1>4, <1>5 DEF csr, Denoted

-----------------------------------------------------------------------------
(* What the calls of NFABuilder do to the automaton it stands for. *)

(* An automaton with other states. *)
WithStates(aut, S) == [aut EXCEPT !.states = S]

(* A new NFABuilder stands for the automaton of no state. *)
LEMMA NewBuilderDenotes ==
  /\ IsBuilder(NewBuilder)
  /\ Denoted(NewBuilder) =
       [states |-> {}, start |-> 0, accept |-> {}, sym |-> {}, eps |-> {}]
  /\ NewBuilder.raised = FALSE
<1>1. States(NewBuilder) = {}
  BY DEF States, NewBuilder
<1>2. SymEdges(NewBuilder) = {} /\ EpsEdges(NewBuilder) = {} /\ AcceptStates(NewBuilder) = {}
  BY <1>1 DEF SymEdges, EpsEdges, AcceptStates
<1>3. IsBuilder(NewBuilder)
  BY <1>1 DEF IsBuilder, NewBuilder
<1> QED  BY <1>1, <1>2, <1>3 DEF Denoted, NewBuilder

(* add_state gives the next number to a state that neither accepts nor has *)
(* an edge, and touches nothing else.                                      *)
LEMMA AddStateDenotes ==
  ASSUME NEW bld, IsBuilder(bld)
  PROVE  /\ IsBuilder(add_state(bld))
         /\ add_state(bld).raised = bld.raised
         /\ Len(add_state(bld).accept) = Len(bld.accept) + 1
         /\ Denoted(add_state(bld)) = WithStates(Denoted(bld), 0 .. Len(bld.accept))
<1> DEFINE new == add_state(bld)
           n == Len(bld.accept)
<1>1. /\ bld.accept \in Seq(BOOLEAN) /\ bld.sym \in Seq(Seq(Symbols \X Nat))
      /\ bld.eps \in Seq(Seq(Nat)) /\ n \in Nat /\ Len(bld.sym) = n /\ Len(bld.eps) = n
      /\ bld.start \in States(bld) \cup {0} /\ bld.raised \in BOOLEAN /\ bld.start \in Nat
  BY DEF IsBuilder
<1>2. /\ new.accept = Append(bld.accept, FALSE) /\ new.sym = Append(bld.sym, <<>>)
      /\ new.eps = Append(bld.eps, <<>>) /\ new.start = bld.start /\ new.raised = bld.raised
      /\ new = [accept |-> new.accept, sym |-> new.sym, eps |-> new.eps,
                start |-> new.start, raised |-> new.raised]
  <2>1. new = [[[bld EXCEPT !.accept = Append(bld.accept, FALSE)]
                       EXCEPT !.sym = Append(bld.sym, <<>>)]
                       EXCEPT !.eps = Append(bld.eps, <<>>)]
    BY DEF add_state
  <2>2. bld \in [accept : Seq(BOOLEAN), sym : Seq(Seq(Symbols \X Nat)), eps : Seq(Seq(Nat)),
                 start : Nat, raised : BOOLEAN]
    BY DEF IsBuilder
  <2> HIDE DEF new
  <2> QED  BY <2>1, <2>2
<1> HIDE DEF new
<1>3. /\ Len(new.accept) = n + 1 /\ Len(new.sym) = n + 1 /\ Len(new.eps) = n + 1
      /\ new.accept \in Seq(BOOLEAN) /\ new.sym \in Seq(Seq(Symbols \X Nat))
      /\ new.eps \in Seq(Seq(Nat))
  BY <1>1, <1>2
<1>4. States(new) = 0 .. n /\ States(bld) = 0 .. n - 1 /\ States(bld) \subseteq States(new)
  BY <1>1, <1>3 DEF States
<1>5. \A s \in States(bld) : /\ new.accept[s + 1] = bld.accept[s + 1]
                             /\ new.sym[s + 1] = bld.sym[s + 1]
                             /\ new.eps[s + 1] = bld.eps[s + 1]
  <2> SUFFICES ASSUME NEW s \in 0 .. n - 1
               PROVE  /\ new.accept[s + 1] = bld.accept[s + 1]
                      /\ new.sym[s + 1] = bld.sym[s + 1]
                      /\ new.eps[s + 1] = bld.eps[s + 1]
    BY <1>4
  <2>1. s + 1 \in 1 .. n
    BY <1>1
  <2> QED  BY <2>1, <1>1, <1>2
<1>6. /\ new.accept[n + 1] = FALSE /\ new.sym[n + 1] = <<>> /\ new.eps[n + 1] = <<>>
      /\ \A s \in States(new) : s \in States(bld) \/ s = n
  BY <1>1, <1>2, <1>4
<1>7. IsBuilder(new)
  <2>1. new \in [accept : Seq(BOOLEAN), sym : Seq(Seq(Symbols \X Nat)), eps : Seq(Seq(Nat)),
                 start : Nat, raised : BOOLEAN]
    BY <1>1, <1>2, <1>3
  <2>2. new.start \in States(new) \cup {0}
    BY <1>1, <1>2, <1>4
  <2>3. ASSUME NEW s \in States(new)
        PROVE  /\ \A m \in 1 .. Len(new.sym[s + 1]) : new.sym[s + 1][m][2] \in States(new)
               /\ \A m \in 1 .. Len(new.eps[s + 1]) : new.eps[s + 1][m] \in States(new)
    <3>1. CASE s \in States(bld)
      BY <3>1, <1>4, <1>5 DEF IsBuilder
    <3>2. CASE s = n
      <4>1. Len(new.sym[s + 1]) = 0 /\ Len(new.eps[s + 1]) = 0
        BY <3>2, <1>6
      <4> QED  BY <4>1
    <3> QED  BY <3>1, <3>2, <1>6
  <2> QED  BY <2>1, <2>2, <2>3, <1>3 DEF IsBuilder
<1>8. AcceptStates(new) = AcceptStates(bld)
  BY <1>4, <1>5, <1>6 DEF AcceptStates
<1>9. SymEdges(new) = SymEdges(bld)
  <2>1. ASSUME NEW e \in SymEdges(new)
        PROVE  e \in SymEdges(bld)
    <3>1. PICK s \in States(new), c \in Symbols, t \in States(new) : e = <<s, c, t>>
      BY DEF SymEdges
    <3>2. PICK m \in 1 .. Len(new.sym[s + 1]) : new.sym[s + 1][m] = <<c, t>>
      BY <3>1 DEF SymEdges
    <3>3. s \in States(bld)
      <4>1. Len(<<>>) = 0
        OBVIOUS
      <4> QED  BY <3>2, <4>1, <1>6
    <3>4. m \in 1 .. Len(bld.sym[s + 1]) /\ bld.sym[s + 1][m] = <<c, t>> /\ bld.sym[s + 1][m][2] = t
      BY <3>2, <3>3, <1>5
    <3>5. t \in States(bld)
      BY <3>3, <3>4 DEF IsBuilder
    <3> QED  BY <3>1, <3>3, <3>4, <3>5 DEF SymEdges
  <2>2. SymEdges(bld) \subseteq SymEdges(new)
    BY <1>4, <1>5 DEF SymEdges
  <2> QED  BY <2>1, <2>2
<1>10. EpsEdges(new) = EpsEdges(bld)
  <2>1. ASSUME NEW e \in EpsEdges(new)
        PROVE  e \in EpsEdges(bld)
    <3>1. PICK s \in States(new), t \in States(new) : e = <<s, t>>
      BY DEF EpsEdges
    <3>2. PICK m \in 1 .. Len(new.eps[s + 1]) : new.eps[s + 1][m] = t
      BY <3>1 DEF EpsEdges
    <3>3. s \in States(bld)
      <4>1. Len(<<>>) = 0
        OBVIOUS
      <4> QED  BY <3>2, <4>1, <1>6
    <3>4. m \in 1 .. Len(bld.eps[s + 1]) /\ bld.eps[s + 1][m] = t
      BY <3>2, <3>3, <1>5
    <3>5. t \in States(bld)
      BY <3>3, <3>4 DEF IsBuilder
    <3> QED  BY <3>1, <3>3, <3>4, <3>5 DEF EpsEdges
  <2>2. EpsEdges(bld) \subseteq EpsEdges(new)
    BY <1>4, <1>5 DEF EpsEdges
  <2> QED  BY <2>1, <2>2
<1>11. Denoted(new) = [Denoted(bld) EXCEPT !.states = 0 .. n]
  BY <1>2, <1>4, <1>8, <1>9, <1>10 DEF Denoted
<1> QED  BY <1>2, <1>3, <1>7, <1>11 DEF new, WithStates

(* A call that raises keeps the lists, and no later call takes it back; if *)
(* it does not raise it leaves a builder for aut.                          *)
Becomes(bld, new, aut) ==
  /\ IsBuilder(new)
  /\ bld.raised => new.raised
  /\ ~new.raised => Denoted(new) = aut

(* An automaton with more of one part. *)
WithSym(aut, E)    == [aut EXCEPT !.sym = @ \cup E]
WithEps(aut, E)    == [aut EXCEPT !.eps = @ \cup E]
WithAccept(aut, A) == [aut EXCEPT !.accept = @ \cup A]

(* The lists a builder is made of, and that _check lets through exactly    *)
(* the states there are.                                                   *)
LEMMA BuilderRecord ==
  ASSUME NEW bld, IsBuilder(bld)
  PROVE  /\ bld \in [accept : Seq(BOOLEAN), sym : Seq(Seq(Symbols \X Nat)), eps : Seq(Seq(Nat)),
                     start : Nat, raised : BOOLEAN]
         /\ Len(bld.accept) \in Nat /\ States(bld) = 0 .. Len(bld.accept) - 1
         /\ \A s : Known(bld, s) <=> s \in States(bld)
  BY DEF IsBuilder, States, Known

(* A call that raises leaves the lists alone. *)
LEMMA RaisedDenotes ==
  ASSUME NEW bld, IsBuilder(bld), NEW aut
  PROVE  Becomes(bld, [bld EXCEPT !.raised = TRUE], aut)
<1> DEFINE new == [bld EXCEPT !.raised = TRUE]
<1>1. /\ new.accept = bld.accept /\ new.sym = bld.sym /\ new.eps = bld.eps
      /\ new.start = bld.start /\ new.raised = TRUE
      /\ new \in [accept : Seq(BOOLEAN), sym : Seq(Seq(Symbols \X Nat)), eps : Seq(Seq(Nat)),
                  start : Nat, raised : BOOLEAN]
  <2>1. bld \in [accept : Seq(BOOLEAN), sym : Seq(Seq(Symbols \X Nat)), eps : Seq(Seq(Nat)),
                 start : Nat, raised : BOOLEAN]
    BY BuilderRecord
  <2> QED  BY <2>1
<1> HIDE DEF new
<1>2. States(new) = States(bld)
  BY <1>1 DEF States
<1>3. IsBuilder(new)
  BY <1>1, <1>2 DEF IsBuilder
<1> QED  BY <1>1, <1>3 DEF Becomes, new

(* add_transition adds the one edge it is given or raises. *)
LEMMA AddTransitionDenotes ==
  ASSUME NEW bld, IsBuilder(bld), NEW src, NEW sym, NEW dst
  PROVE  Becomes(bld, add_transition(bld, src, sym, dst),
                 WithSym(Denoted(bld), {<<src, sym, dst>>}))
<1> DEFINE legal == Known(bld, src) /\ Known(bld, dst) /\ IsSymbol(sym)
           new == [bld EXCEPT !.sym[src + 1] = Append(@, <<sym, dst>>)]
           n == Len(bld.accept)
<1>1. CASE ~legal
  BY <1>1, RaisedDenotes DEF add_transition, Unless
<1>2. CASE legal
  <2>1. src \in States(bld) /\ dst \in States(bld) /\ sym \in Symbols /\ n \in Nat
        /\ States(bld) = 0 .. n - 1
    BY <1>2, BuilderRecord DEF IsSymbol, Symbols
  <2>2. /\ bld \in [accept : Seq(BOOLEAN), sym : Seq(Seq(Symbols \X Nat)), eps : Seq(Seq(Nat)),
                    start : Nat, raised : BOOLEAN]
        /\ Len(bld.sym) = n
    BY DEF IsBuilder
  <2>3. src + 1 \in 1 .. n /\ <<sym, dst>> \in Symbols \X Nat
    BY <2>1
  <2> DEFINE row == bld.sym[src + 1]
             rows == [bld.sym EXCEPT ![src + 1] = Append(row, <<sym, dst>>)]
  <2>4. row \in Seq(Symbols \X Nat)
    BY <2>2, <2>3
  <2>5. rows \in Seq(Seq(Symbols \X Nat)) /\ Len(rows) = n
    <3>1. Append(row, <<sym, dst>>) \in Seq(Symbols \X Nat)
      BY <2>3, <2>4
    <3>2. bld.sym \in Seq(Seq(Symbols \X Nat))
      BY <2>2
    <3> HIDE DEF row
    <3> QED  BY <2>2, <2>3, <3>1, <3>2
  <2>6. /\ new.sym = rows /\ new.accept = bld.accept /\ new.eps = bld.eps
        /\ new.start = bld.start /\ new.raised = bld.raised
    BY <2>2
  <2>7. new \in [accept : Seq(BOOLEAN), sym : Seq(Seq(Symbols \X Nat)), eps : Seq(Seq(Nat)),
                 start : Nat, raised : BOOLEAN]
    <3> HIDE DEF rows
    <3> QED  BY <2>2, <2>5, <2>6
  <2>8. add_transition(bld, src, sym, dst) = new
    BY <1>2 DEF add_transition, Unless
  <2> HIDE DEF new
  <2>9. States(new) = States(bld)
    BY <2>6 DEF States
  <2>10. \A s \in States(bld) : s # src => new.sym[s + 1] = bld.sym[s + 1]
    <3> SUFFICES ASSUME NEW s \in 0 .. n - 1, s # src
                 PROVE  new.sym[s + 1] = bld.sym[s + 1]
      BY <2>1
    <3>1. s + 1 \in 1 .. n /\ s + 1 # src + 1
      BY <2>1
    <3> QED  BY <2>2, <2>6, <3>1
  <2>11. /\ new.sym[src + 1] = Append(row, <<sym, dst>>)
         /\ Len(new.sym[src + 1]) = Len(row) + 1
         /\ new.sym[src + 1][Len(row) + 1] = <<sym, dst>>
         /\ \A m \in 1 .. Len(row) : new.sym[src + 1][m] = row[m]
         /\ Len(row) \in Nat
    <3>1. new.sym[src + 1] = Append(row, <<sym, dst>>)
      BY <2>2, <2>3, <2>6
    <3> HIDE DEF row
    <3> QED  BY <3>1, <2>4
  <2> HIDE DEF rows
  <2>12. IsBuilder(new)
    <3>1. ASSUME NEW s \in States(new), NEW m \in 1 .. Len(new.sym[s + 1])
          PROVE  new.sym[s + 1][m][2] \in States(new)
      <4>1. CASE s # src
        BY <4>1, <2>9, <2>10 DEF IsBuilder
      <4>2. CASE s = src /\ m = Len(row) + 1
        BY <4>2, <2>1, <2>9, <2>11
      <4>3. CASE s = src /\ m # Len(row) + 1
        <5>1. m \in 1 .. Len(row)
          BY <4>3, <2>11
        <5> QED  BY <4>3, <5>1, <2>1, <2>9, <2>11 DEF IsBuilder
      <4> QED  BY <4>1, <4>2, <4>3
    <3>2. Len(new.sym) = Len(new.accept) /\ Len(new.eps) = Len(new.accept)
      BY <2>5, <2>6 DEF IsBuilder
    <3> QED  BY <2>6, <2>7, <2>9, <3>1, <3>2 DEF IsBuilder
  <2>13. SymEdges(new) = SymEdges(bld) \cup {<<src, sym, dst>>}
    <3>1. ASSUME NEW e \in SymEdges(new)
          PROVE  e \in SymEdges(bld) \cup {<<src, sym, dst>>}
      <4>1. PICK s \in States(bld), c \in Symbols, t \in States(bld) : e = <<s, c, t>>
        BY <2>9 DEF SymEdges
      <4>2. PICK m \in 1 .. Len(new.sym[s + 1]) : new.sym[s + 1][m] = <<c, t>>
        BY <4>1 DEF SymEdges
      <4>3. CASE s # src
        BY <4>1, <4>2, <4>3, <2>10 DEF SymEdges
      <4>4. CASE s = src /\ m = Len(row) + 1
        <5>1. <<c, t>> = <<sym, dst>>
          BY <4>2, <4>4, <2>11
        <5>2. c = sym /\ t = dst
          BY <5>1
        <5> QED  BY <4>1, <4>4, <5>2
      <4>5. CASE s = src /\ m # Len(row) + 1
        <5>1. m \in 1 .. Len(row) /\ row[m] = <<c, t>>
          BY <4>2, <4>5, <2>11
        <5> QED  BY <4>1, <4>5, <5>1 DEF SymEdges
      <4> QED  BY <4>3, <4>4, <4>5
    <3>2. ASSUME NEW e \in SymEdges(bld)
          PROVE  e \in SymEdges(new)
      <4>1. PICK s \in States(bld), c \in Symbols, t \in States(bld) : e = <<s, c, t>>
        BY DEF SymEdges
      <4>2. PICK m \in 1 .. Len(bld.sym[s + 1]) : bld.sym[s + 1][m] = <<c, t>>
        BY <4>1 DEF SymEdges
      <4>3. m \in 1 .. Len(new.sym[s + 1]) /\ new.sym[s + 1][m] = <<c, t>>
        <5>1. CASE s # src
          BY <5>1, <4>2, <2>10
        <5>2. CASE s = src
          BY <5>2, <4>2, <2>11
        <5> QED  BY <5>1, <5>2
      <4> QED  BY <4>1, <4>3, <2>9 DEF SymEdges
    <3>3. <<src, sym, dst>> \in SymEdges(new)
      <4>1. Len(row) + 1 \in 1 .. Len(new.sym[src + 1])
        BY <2>11
      <4> QED  BY <4>1, <2>1, <2>9, <2>11 DEF SymEdges
    <3> QED  BY <3>1, <3>2, <3>3
  <2>14. EpsEdges(new) = EpsEdges(bld) /\ AcceptStates(new) = AcceptStates(bld)
    BY <2>6, <2>9 DEF EpsEdges, AcceptStates
  <2>15. Denoted(new) = WithSym(Denoted(bld), {<<src, sym, dst>>})
    BY <2>6, <2>9, <2>13, <2>14 DEF Denoted, WithSym
  <2> QED  BY <2>6, <2>8, <2>12, <2>15 DEF Becomes
<1> QED  BY <1>1, <1>2

(* add_epsilon adds the one epsilon edge it is given or raises. *)
LEMMA AddEpsilonDenotes ==
  ASSUME NEW bld, IsBuilder(bld), NEW src, NEW dst
  PROVE  Becomes(bld, add_epsilon(bld, src, dst), WithEps(Denoted(bld), {<<src, dst>>}))
<1> DEFINE legal == Known(bld, src) /\ Known(bld, dst)
           new == [bld EXCEPT !.eps[src + 1] = Append(@, dst)]
           n == Len(bld.accept)
<1>1. CASE ~legal
  BY <1>1, RaisedDenotes DEF add_epsilon, Unless
<1>2. CASE legal
  <2>1. src \in States(bld) /\ dst \in States(bld) /\ n \in Nat /\ States(bld) = 0 .. n - 1
    BY <1>2, BuilderRecord
  <2>2. /\ bld \in [accept : Seq(BOOLEAN), sym : Seq(Seq(Symbols \X Nat)), eps : Seq(Seq(Nat)),
                    start : Nat, raised : BOOLEAN]
        /\ Len(bld.eps) = n
    BY DEF IsBuilder
  <2>3. src + 1 \in 1 .. n /\ dst \in Nat
    BY <2>1
  <2> DEFINE row == bld.eps[src + 1]
             rows == [bld.eps EXCEPT ![src + 1] = Append(row, dst)]
  <2>4. row \in Seq(Nat)
    BY <2>2, <2>3
  <2>5. rows \in Seq(Seq(Nat)) /\ Len(rows) = n
    <3>1. Append(row, dst) \in Seq(Nat)
      BY <2>3, <2>4
    <3>2. bld.eps \in Seq(Seq(Nat))
      BY <2>2
    <3> HIDE DEF row
    <3> QED  BY <2>2, <2>3, <3>1, <3>2
  <2>6. /\ new.eps = rows /\ new.accept = bld.accept /\ new.sym = bld.sym
        /\ new.start = bld.start /\ new.raised = bld.raised
    BY <2>2
  <2>7. new \in [accept : Seq(BOOLEAN), sym : Seq(Seq(Symbols \X Nat)), eps : Seq(Seq(Nat)),
                 start : Nat, raised : BOOLEAN]
    <3> HIDE DEF rows
    <3> QED  BY <2>2, <2>5, <2>6
  <2>8. add_epsilon(bld, src, dst) = new
    BY <1>2 DEF add_epsilon, Unless
  <2> HIDE DEF new
  <2>9. States(new) = States(bld)
    BY <2>6 DEF States
  <2>10. \A s \in States(bld) : s # src => new.eps[s + 1] = bld.eps[s + 1]
    <3> SUFFICES ASSUME NEW s \in 0 .. n - 1, s # src
                 PROVE  new.eps[s + 1] = bld.eps[s + 1]
      BY <2>1
    <3>1. s + 1 \in 1 .. n /\ s + 1 # src + 1
      BY <2>1
    <3> QED  BY <2>2, <2>6, <3>1
  <2>11. /\ new.eps[src + 1] = Append(row, dst)
         /\ Len(new.eps[src + 1]) = Len(row) + 1
         /\ new.eps[src + 1][Len(row) + 1] = dst
         /\ \A m \in 1 .. Len(row) : new.eps[src + 1][m] = row[m]
         /\ Len(row) \in Nat
    <3>1. new.eps[src + 1] = Append(row, dst)
      BY <2>2, <2>3, <2>6
    <3> HIDE DEF row
    <3> QED  BY <3>1, <2>3, <2>4
  <2> HIDE DEF rows
  <2>12. IsBuilder(new)
    <3>1. ASSUME NEW s \in States(new), NEW m \in 1 .. Len(new.eps[s + 1])
          PROVE  new.eps[s + 1][m] \in States(new)
      <4>1. CASE s # src
        BY <4>1, <2>9, <2>10 DEF IsBuilder
      <4>2. CASE s = src /\ m = Len(row) + 1
        BY <4>2, <2>1, <2>9, <2>11
      <4>3. CASE s = src /\ m # Len(row) + 1
        <5>1. m \in 1 .. Len(row)
          BY <4>3, <2>11
        <5> QED  BY <4>3, <5>1, <2>1, <2>9, <2>11 DEF IsBuilder
      <4> QED  BY <4>1, <4>2, <4>3
    <3>2. Len(new.sym) = Len(new.accept) /\ Len(new.eps) = Len(new.accept)
      BY <2>5, <2>6 DEF IsBuilder
    <3> QED  BY <2>6, <2>7, <2>9, <3>1, <3>2 DEF IsBuilder
  <2>13. EpsEdges(new) = EpsEdges(bld) \cup {<<src, dst>>}
    <3>1. ASSUME NEW e \in EpsEdges(new)
          PROVE  e \in EpsEdges(bld) \cup {<<src, dst>>}
      <4>1. PICK s \in States(bld), t \in States(bld) : e = <<s, t>>
        BY <2>9 DEF EpsEdges
      <4>2. PICK m \in 1 .. Len(new.eps[s + 1]) : new.eps[s + 1][m] = t
        BY <4>1 DEF EpsEdges
      <4>3. CASE s # src
        BY <4>1, <4>2, <4>3, <2>10 DEF EpsEdges
      <4>4. CASE s = src /\ m = Len(row) + 1
        BY <4>1, <4>2, <4>4, <2>11
      <4>5. CASE s = src /\ m # Len(row) + 1
        <5>1. m \in 1 .. Len(row) /\ row[m] = t
          BY <4>2, <4>5, <2>11
        <5> QED  BY <4>1, <4>5, <5>1 DEF EpsEdges
      <4> QED  BY <4>3, <4>4, <4>5
    <3>2. ASSUME NEW e \in EpsEdges(bld)
          PROVE  e \in EpsEdges(new)
      <4>1. PICK s \in States(bld), t \in States(bld) : e = <<s, t>>
        BY DEF EpsEdges
      <4>2. PICK m \in 1 .. Len(bld.eps[s + 1]) : bld.eps[s + 1][m] = t
        BY <4>1 DEF EpsEdges
      <4>3. m \in 1 .. Len(new.eps[s + 1]) /\ new.eps[s + 1][m] = t
        <5>1. CASE s # src
          BY <5>1, <4>2, <2>10
        <5>2. CASE s = src
          BY <5>2, <4>2, <2>11
        <5> QED  BY <5>1, <5>2
      <4> QED  BY <4>1, <4>3, <2>9 DEF EpsEdges
    <3>3. <<src, dst>> \in EpsEdges(new)
      <4>1. Len(row) + 1 \in 1 .. Len(new.eps[src + 1])
        BY <2>11
      <4> QED  BY <4>1, <2>1, <2>9, <2>11 DEF EpsEdges
    <3> QED  BY <3>1, <3>2, <3>3
  <2>14. SymEdges(new) = SymEdges(bld) /\ AcceptStates(new) = AcceptStates(bld)
    BY <2>6, <2>9 DEF SymEdges, AcceptStates
  <2>15. Denoted(new) = WithEps(Denoted(bld), {<<src, dst>>})
    BY <2>6, <2>9, <2>13, <2>14 DEF Denoted, WithEps
  <2> QED  BY <2>6, <2>8, <2>12, <2>15 DEF Becomes
<1> QED  BY <1>1, <1>2

(* set_accept adds the one accepting state it is given or raises. *)
LEMMA SetAcceptDenotes ==
  ASSUME NEW bld, IsBuilder(bld), NEW s
  PROVE  Becomes(bld, set_accept(bld, s), WithAccept(Denoted(bld), {s}))
<1> DEFINE new == [bld EXCEPT !.accept[s + 1] = TRUE]
           n == Len(bld.accept)
<1>1. CASE ~Known(bld, s)
  BY <1>1, RaisedDenotes DEF set_accept, Unless
<1>2. CASE Known(bld, s)
  <2>1. s \in States(bld) /\ n \in Nat /\ States(bld) = 0 .. n - 1 /\ s + 1 \in 1 .. n
    BY <1>2, BuilderRecord
  <2>2. bld \in [accept : Seq(BOOLEAN), sym : Seq(Seq(Symbols \X Nat)), eps : Seq(Seq(Nat)),
                 start : Nat, raised : BOOLEAN]
    BY DEF IsBuilder
  <2> DEFINE flags == [bld.accept EXCEPT ![s + 1] = TRUE]
  <2>3. flags \in Seq(BOOLEAN) /\ Len(flags) = n
    <3>1. bld.accept \in Seq(BOOLEAN) /\ TRUE \in BOOLEAN
      BY <2>2
    <3> QED  BY <2>1, <3>1
  <2>4. /\ new.accept = flags /\ new.sym = bld.sym /\ new.eps = bld.eps
        /\ new.start = bld.start /\ new.raised = bld.raised
    BY <2>2
  <2>5. new \in [accept : Seq(BOOLEAN), sym : Seq(Seq(Symbols \X Nat)), eps : Seq(Seq(Nat)),
                 start : Nat, raised : BOOLEAN]
    <3> HIDE DEF flags
    <3> QED  BY <2>2, <2>3, <2>4
  <2>6. set_accept(bld, s) = new
    BY <1>2 DEF set_accept, Unless
  <2>7. /\ flags[s + 1] = TRUE
        /\ \A t \in States(bld) : t # s => flags[t + 1] = bld.accept[t + 1]
    <3>1. flags[s + 1] = TRUE
      BY <2>1, <2>2
    <3>2. ASSUME NEW t \in 0 .. n - 1, t # s
          PROVE  flags[t + 1] = bld.accept[t + 1]
      <4>1. t + 1 \in 1 .. n /\ t + 1 # s + 1
        BY <2>1, <3>2
      <4> QED  BY <4>1, <2>2
    <3> QED  BY <3>1, <3>2, <2>1
  <2> HIDE DEF new, flags
  <2>8. States(new) = States(bld)
    BY <2>3, <2>4 DEF States
  <2>9. IsBuilder(new)
    <3>1. Len(new.sym) = Len(new.accept) /\ Len(new.eps) = Len(new.accept)
      BY <2>3, <2>4 DEF IsBuilder
    <3> QED  BY <3>1, <2>4, <2>5, <2>8 DEF IsBuilder
  <2>10. AcceptStates(new) = AcceptStates(bld) \cup {s}
    BY <2>1, <2>4, <2>7, <2>8 DEF AcceptStates
  <2>11. SymEdges(new) = SymEdges(bld) /\ EpsEdges(new) = EpsEdges(bld)
    BY <2>4, <2>8 DEF SymEdges, EpsEdges
  <2>12. Denoted(new) = WithAccept(Denoted(bld), {s})
    BY <2>4, <2>8, <2>10, <2>11 DEF Denoted, WithAccept
  <2> QED  BY <2>4, <2>6, <2>9, <2>12 DEF Becomes
<1> QED  BY <1>1, <1>2

(* set_start moves the start state to the one it is given or raises. *)
LEMMA SetStartDenotes ==
  ASSUME NEW bld, IsBuilder(bld), NEW s
  PROVE  Becomes(bld, set_start(bld, s), [Denoted(bld) EXCEPT !.start = s])
<1> DEFINE new == [bld EXCEPT !.start = s]
<1>1. CASE ~Known(bld, s)
  BY <1>1, RaisedDenotes DEF set_start, Unless
<1>2. CASE Known(bld, s)
  <2>1. s \in States(bld) /\ s \in Nat
    BY <1>2, BuilderRecord
  <2>2. bld \in [accept : Seq(BOOLEAN), sym : Seq(Seq(Symbols \X Nat)), eps : Seq(Seq(Nat)),
                 start : Nat, raised : BOOLEAN]
    BY DEF IsBuilder
  <2>3. /\ new.accept = bld.accept /\ new.sym = bld.sym /\ new.eps = bld.eps
        /\ new.start = s /\ new.raised = bld.raised
    BY <2>2
  <2>4. new \in [accept : Seq(BOOLEAN), sym : Seq(Seq(Symbols \X Nat)), eps : Seq(Seq(Nat)),
                 start : Nat, raised : BOOLEAN]
    BY <2>1, <2>2
  <2>5. set_start(bld, s) = new
    BY <1>2 DEF set_start, Unless
  <2> HIDE DEF new
  <2>6. States(new) = States(bld)
    BY <2>3 DEF States
  <2>7. IsBuilder(new)
    BY <2>1, <2>3, <2>4, <2>6 DEF IsBuilder
  <2>8. SymEdges(new) = SymEdges(bld) /\ EpsEdges(new) = EpsEdges(bld)
        /\ AcceptStates(new) = AcceptStates(bld)
    BY <2>3, <2>6 DEF SymEdges, EpsEdges, AcceptStates
  <2>9. Denoted(new) = [Denoted(bld) EXCEPT !.start = s]
    BY <2>3, <2>6, <2>8 DEF Denoted
  <2> QED  BY <2>3, <2>5, <2>7, <2>9 DEF Becomes
<1> QED  BY <1>1, <1>2

-----------------------------------------------------------------------------
(* Folds over finite sets and sequences, unfolded. *)

(* A set of subsets that holds {} and gains a set from one of one element  *)
(* less holds every finite set.                                            *)
LEMMA SubsetInduction ==
  ASSUME NEW S, IsFiniteSet(S), NEW F, {} \in F,
         \A s \in SUBSET S : s # {} => \E x \in s : s \ {x} \in F => s \in F
  PROVE  \A s \in SUBSET S : s \in F
<1> DEFINE K == {k \in Nat : \A s \in SUBSET S : Cardinality(s) = k => s \in F}
<1>1. \A s \in SUBSET S : IsFiniteSet(s) /\ Cardinality(s) \in Nat
  BY FS_Subset, FS_CardinalityType
<1>2. 0 \in K
  BY <1>1, FS_EmptySet
<1>3. ASSUME NEW k \in Nat, k \in K
      PROVE  k + 1 \in K
  <2> SUFFICES ASSUME NEW s \in SUBSET S, Cardinality(s) = k + 1
               PROVE  s \in F
    OBVIOUS
  <2>1. s # {}
    <3>1. Cardinality({}) = 0 /\ k + 1 # 0
      BY FS_EmptySet
    <3> QED  BY <3>1
  <2>2. PICK x \in s : s \ {x} \in F => s \in F
    BY <2>1
  <2>3. Cardinality(s \ {x}) = k
    <3>1. Cardinality(s \ {x}) = Cardinality(s) - 1
      BY <1>1, <2>2, FS_RemoveElement
    <3> QED  BY <3>1
  <2>4. s \ {x} \in SUBSET S
    OBVIOUS
  <2> QED  BY <1>3, <2>2, <2>3, <2>4
<1>4. \A k \in Nat : k \in K
  <2> HIDE DEF K
  <2> QED  BY <1>2, <1>3, NatSetInduction
<1> QED  BY <1>1, <1>4

(* Recursion on a finite set, an element of which is taken away each time. *)
IsPick(pick, S) ==
  pick \in [(SUBSET S) \ {{}} -> S] /\ \A s \in (SUBSET S) \ {{}} : pick[s] \in s

IsSetStep(step, S, V) == step \in [S \X V -> V]

SetIterates(g, S, V, b, step, pick) ==
  /\ g \in [SUBSET S -> V]
  /\ g[{}] = b
  /\ \A s \in (SUBSET S) \ {{}} : g[s] = step[<<pick[s], g[s \ {pick[s]}]>>]

(* There is a function that gives the value after the elements of each     *)
(* subset have been gone through.                                          *)
LEMMA SetIteration ==
  ASSUME NEW S, IsFiniteSet(S), NEW V, NEW b \in V,
         NEW step, IsSetStep(step, S, V), NEW pick, IsPick(pick, S)
  PROVE  \E g : SetIterates(g, S, V, b, step, pick)
<1> DEFINE Small(k) == {s \in SUBSET S : Cardinality(s) <= k}
           Upto(k, g) ==
             /\ g \in [Small(k) -> V]
             /\ {} \in Small(k) => g[{}] = b
             /\ \A s \in Small(k) : s # {} => g[s] = step[<<pick[s], g[s \ {pick[s]}]>>]
           K == {k \in Nat : \E g : Upto(k, g)}
<1>1. \A s \in SUBSET S : IsFiniteSet(s) /\ Cardinality(s) \in Nat
  BY FS_Subset, FS_CardinalityType
<1>2. \A s \in SUBSET S : s # {} =>
        /\ pick[s] \in s /\ s \ {pick[s]} \in SUBSET S
        /\ Cardinality(s \ {pick[s]}) = Cardinality(s) - 1
  <2> TAKE s \in SUBSET S
  <2> HAVE s # {}
  <2>1. pick[s] \in s
    BY DEF IsPick
  <2>2. Cardinality(s \ {pick[s]}) = Cardinality(s) - 1
    BY <1>1, <2>1, FS_RemoveElement
  <2> QED  BY <2>1, <2>2
<1>3. 0 \in K
  <2> DEFINE g == [s \in Small(0) |-> b]
  <2>1. \A s \in Small(0) : s = {}
    BY <1>1, FS_EmptySet
  <2>2. Upto(0, g)
    BY <2>1
  <2> HIDE DEF Upto, g
  <2> QED  BY <2>2
<1>4. ASSUME NEW k \in Nat, k \in K
      PROVE  k + 1 \in K
  <2>1. PICK g : Upto(k, g)
    BY <1>4
  <2> DEFINE next(s) == step[<<pick[s], g[s \ {pick[s]}]>>]
             h == [s \in Small(k + 1) |-> IF s \in Small(k) THEN g[s] ELSE next(s)]
  <2>2. \A s \in Small(k) : s \in Small(k + 1)
    BY <1>1
  <2>3. \A s \in Small(k + 1) : s # {} =>
          s \ {pick[s]} \in Small(k) /\ s \ {pick[s]} \in Small(k + 1) /\ next(s) \in V
    <3> TAKE s \in Small(k + 1)
    <3> HAVE s # {}
    <3>1. s \in SUBSET S /\ Cardinality(s) <= k + 1 /\ Cardinality(s) \in Nat
      BY <1>1
    <3>2. pick[s] \in S /\ s \ {pick[s]} \in SUBSET S
          /\ Cardinality(s \ {pick[s]}) = Cardinality(s) - 1
      BY <1>2, <3>1
    <3>3. s \ {pick[s]} \in Small(k)
      BY <3>1, <3>2
    <3>4. g[s \ {pick[s]}] \in V
      BY <2>1, <3>3
    <3>5. <<pick[s], g[s \ {pick[s]}]>> \in S \X V
      BY <3>2, <3>4
    <3>6. next(s) \in V
      BY <3>5 DEF IsSetStep
    <3> QED  BY <2>2, <3>3, <3>6
  <2>4. {} \in Small(k)
    BY FS_EmptySet
  <2>5. h \in [Small(k + 1) -> V]
    <3> SUFFICES ASSUME NEW s \in Small(k + 1)
                 PROVE  (IF s \in Small(k) THEN g[s] ELSE next(s)) \in V
      OBVIOUS
    <3> HIDE DEF Small, next
    <3>1. g \in [Small(k) -> V]
      BY <2>1
    <3> QED  BY <2>3, <2>4, <3>1
  <2>6. \A s \in Small(k) : h[s] = g[s]
    BY <2>2
  <2>7. h[{}] = b
    BY <2>1, <2>4, <2>6
  <2>8. ASSUME NEW s \in Small(k + 1), s # {}
        PROVE  h[s] = step[<<pick[s], h[s \ {pick[s]}]>>]
    <3>1. h[s \ {pick[s]}] = g[s \ {pick[s]}]
      <4> HIDE DEF Small, next, h
      <4> QED  BY <2>3, <2>6, <2>8
    <3>2. h[s] = next(s)
      <4>1. CASE s \in Small(k)
        BY <4>1, <2>1, <2>6, <2>8
      <4>2. CASE s \notin Small(k)
        <5> HIDE DEF Small, next
        <5> QED  BY <4>2
      <4> QED  BY <4>1, <4>2
    <3> QED  BY <3>1, <3>2
  <2>9. Upto(k + 1, h)
    <3> HIDE DEF h, Small
    <3> QED  BY <2>5, <2>7, <2>8
  <2> HIDE DEF Upto, h
  <2> QED  BY <2>9
<1>5. Cardinality(S) \in K
  <2>1. Cardinality(S) \in Nat
    BY FS_CardinalityType
  <2> HIDE DEF K
  <2> QED  BY <1>3, <1>4, <2>1, NatSetInduction
<1>6. Small(Cardinality(S)) = SUBSET S
  BY FS_Subset
<1>7. PICK g : Upto(Cardinality(S), g)
  BY <1>5
<1>8. g \in [SUBSET S -> V] /\ g[{}] = b
      /\ \A s \in SUBSET S : s # {} => g[s] = step[<<pick[s], g[s \ {pick[s]}]>>]
  <2> HIDE DEF Small
  <2> QED  BY <1>6, <1>7
<1> QED  BY <1>8 DEF SetIterates

(* What a fold over a finite set satisfies where its values stay in V, and *)
(* so everywhere.                                                          *)
SetFolds(f, S, V, b, step, pick) ==
  /\ f[{}] = b
  /\ \A s \in (SUBSET S) \ {{}} :
       f[s \ {pick[s]}] \in V => f[s] = step[<<pick[s], f[s \ {pick[s]}]>>]

(* A fold over a finite set stays in V and takes its step at every subset. *)
LEMMA SetFolded ==
  ASSUME NEW S, IsFiniteSet(S), NEW V, NEW b \in V, NEW step, IsSetStep(step, S, V),
         NEW pick, IsPick(pick, S), NEW f, SetFolds(f, S, V, b, step, pick)
  PROVE  \A s \in SUBSET S :
           /\ f[s] \in V
           /\ s # {} => f[s] = step[<<pick[s], f[s \ {pick[s]}]>>]
<1> DEFINE F == {s \in SUBSET S : f[s] \in V}
<1>1. {} \in F
  BY DEF SetFolds
<1>2. ASSUME NEW s \in SUBSET S, s # {}
      PROVE  \E x \in s : s \ {x} \in F => s \in F
  <2>1. pick[s] \in s
    BY <1>2 DEF IsPick
  <2> SUFFICES ASSUME s \ {pick[s]} \in F
               PROVE  s \in F
    BY <2>1
  <2>2. f[s] = step[<<pick[s], f[s \ {pick[s]}]>>]
    BY <1>2 DEF SetFolds
  <2>3. <<pick[s], f[s \ {pick[s]}]>> \in S \X V
    BY <2>1
  <2> QED  BY <2>2, <2>3 DEF IsSetStep
<1>3. \A s \in SUBSET S : s \in F
  <2>1. \A s \in SUBSET S : s # {} => \E x \in s : s \ {x} \in F => s \in F
    <3> HIDE DEF F
    <3> QED  BY <1>2
  <2> HIDE DEF F
  <2> QED  BY <1>1, <2>1, SubsetInduction
<1>4. ASSUME NEW s \in SUBSET S, s # {}
      PROVE  f[s] = step[<<pick[s], f[s \ {pick[s]}]>>]
  <2>1. s \ {pick[s]} \in F
    BY <1>3
  <2> QED  BY <2>1, <1>4 DEF SetFolds
<1> QED  BY <1>3, <1>4

(* What a fold over a sequence of N elements leaves of each prefix.        *)
SeqFolds(f, N, V, b, step) ==
  /\ f[{}] = b
  /\ \A s \in (SUBSET (1 .. N)) \ {{}} :
       f[s \ {Max(s)}] \in V => f[s] = step[<<Max(s), f[s \ {Max(s)}]>>]

(* The greatest of 1 .. n is n. *)
LEMMA MaxOfRange ==
  ASSUME NEW n \in Nat, n # 0
  PROVE  Max(1 .. n) = n /\ (1 .. n) \ {n} = 1 .. n - 1
<1>1. n \in 1 .. n /\ \A y \in 1 .. n : y <= n
  OBVIOUS
<1>2. ASSUME NEW x \in 1 .. n, \A y \in 1 .. n : y <= x
      PROVE  x = n
  BY <1>2
<1> QED  BY <1>1, <1>2 DEF Max

(* A set of indices that is not empty holds its greatest one. *)
LEMMA MaxOfSet ==
  ASSUME NEW N \in Nat, NEW s \in (SUBSET (1 .. N)) \ {{}}
  PROVE  Max(s) \in s
<1> DEFINE T == {N - x : x \in s}
<1>1. PICK t \in T : \A y \in T : ~ (<<y, t>> \in OpToRel(<, Nat))
  <2>1. T \subseteq Nat /\ T # {}
    OBVIOUS
  <2>2. IsWellFoundedOn(OpToRel(<, Nat), Nat)
    BY NatLessThanWellFounded
  <2> HIDE DEF T
  <2> QED  BY <2>1, <2>2, WFMin
<1>2. PICK x \in s : t = N - x
  OBVIOUS
<1>3. ASSUME NEW y \in s
      PROVE  y <= x
  <2>1. N - y \in T /\ N - y \in Nat /\ N - x \in Nat /\ x \in Nat /\ y \in Nat
    OBVIOUS
  <2>2. ~ (N - y < N - x)
    <3> HIDE DEF T
    <3> QED  BY <1>1, <1>2, <2>1 DEF OpToRel
  <2> QED  BY <2>1, <2>2
<1> QED  BY <1>3 DEF Max

(* A fold over a sequence is an iteration over its prefixes. *)
LEMMA SeqFolded ==
  ASSUME NEW N \in Nat, NEW V, NEW b \in V, NEW step, IsStep(step, N, V),
         NEW f, SeqFolds(f, N, V, b, step)
  PROVE  Iterates([n \in 0 .. N |-> f[1 .. n]], N, V, b, step)
<1> DEFINE g == [n \in 0 .. N |-> f[1 .. n]]
           S == {n \in Nat : n <= N => f[1 .. n] \in V}
<1>1. ASSUME NEW n \in 1 .. N, f[1 .. n - 1] \in V
      PROVE  f[1 .. n] = step[<<n, f[1 .. n - 1]>>]
  <2>1. Max(1 .. n) = n /\ (1 .. n) \ {n} = 1 .. n - 1
    BY MaxOfRange
  <2>2. 1 .. n \in (SUBSET (1 .. N)) \ {{}}
    OBVIOUS
  <2> QED  BY <1>1, <2>1, <2>2 DEF SeqFolds
<1>2. f[1 .. 0] = b
  <2>1. 1 .. 0 = {}
    OBVIOUS
  <2> QED  BY <2>1 DEF SeqFolds
<1>3. 0 \in S
  BY <1>2
<1>4. ASSUME NEW n \in Nat, n \in S
      PROVE  n + 1 \in S
  <2> SUFFICES ASSUME n + 1 <= N
               PROVE  f[1 .. n + 1] \in V
    OBVIOUS
  <2>1. n + 1 \in 1 .. N /\ (n + 1) - 1 = n
    OBVIOUS
  <2>2. f[1 .. n] \in V
    BY <1>4
  <2>3. f[1 .. n + 1] = step[<<n + 1, f[1 .. n]>>]
    BY <1>1, <2>1, <2>2
  <2>4. <<n + 1, f[1 .. n]>> \in (1 .. N) \X V
    BY <2>1, <2>2
  <2> QED  BY <2>3, <2>4 DEF IsStep
<1>5. \A n \in 0 .. N : f[1 .. n] \in V
  <2>1. \A n \in Nat : n \in S
    <3> HIDE DEF S
    <3> QED  BY <1>3, <1>4, NatSetInduction
  <2> QED  BY <2>1
<1>6. g \in [0 .. N -> V]
  BY <1>5
<1>7. g[0] = b
  BY <1>2
<1>8. ASSUME NEW n \in 1 .. N
      PROVE  g[n] = step[<<n, g[n - 1]>>]
  <2>1. n \in 0 .. N /\ n - 1 \in 0 .. N
    OBVIOUS
  <2>2. f[1 .. n - 1] \in V
    BY <1>5, <2>1
  <2>3. f[1 .. n] = step[<<n, f[1 .. n - 1]>>]
    BY <1>1, <2>2
  <2> QED  BY <2>1, <2>3
<1> HIDE DEF g
<1> QED  BY <1>6, <1>7, <1>8 DEF Iterates, g

-----------------------------------------------------------------------------
(* Calls in a row, and the loops load_anml makes of them. *)

(* Calls that only add symbol edges and accepting states, and what several *)
(* of them in a row add.                                                   *)
With(aut, E, A) ==
  [states |-> aut.states, start |-> aut.start, accept |-> aut.accept \cup A,
   sym |-> aut.sym \cup E, eps |-> aut.eps]

Grows(bld, new, E, A) == Becomes(bld, new, With(Denoted(bld), E, A))

(* To call nothing adds nothing. *)
LEMMA GrowsNot ==
  ASSUME NEW bld, IsBuilder(bld)
  PROVE  Grows(bld, bld, {}, {})
<1>1. With(Denoted(bld), {}, {}) = Denoted(bld)
  BY DEF With, Denoted
<1> QED  BY <1>1 DEF Grows, Becomes

(* Two calls in a row add what either adds, and raise if one of them does. *)
LEMMA GrowsTwice ==
  ASSUME NEW b0, NEW b1, NEW b2, NEW E1, NEW E2, NEW A1, NEW A2,
         Grows(b0, b1, E1, A1), Grows(b1, b2, E2, A2)
  PROVE  Grows(b0, b2, E1 \cup E2, A1 \cup A2)
<1>1. IsBuilder(b2) /\ (b0.raised => b2.raised)
  BY DEF Grows, Becomes
<1>2. ASSUME ~b2.raised
      PROVE  Denoted(b2) = With(Denoted(b0), E1 \cup E2, A1 \cup A2)
  <2>1. ~b1.raised
    BY <1>2 DEF Grows, Becomes
  <2>2. Denoted(b1) = With(Denoted(b0), E1, A1) /\ Denoted(b2) = With(Denoted(b1), E2, A2)
    BY <2>1, <1>2 DEF Grows, Becomes
  <2>3. With(With(Denoted(b0), E1, A1), E2, A2) = With(Denoted(b0), E1 \cup E2, A1 \cup A2)
    <3>1. (SymEdges(b0) \cup E1) \cup E2 = SymEdges(b0) \cup (E1 \cup E2)
      OBVIOUS
    <3>2. (AcceptStates(b0) \cup A1) \cup A2 = AcceptStates(b0) \cup (A1 \cup A2)
      OBVIOUS
    <3> QED  BY <3>1, <3>2 DEF With, Denoted
  <2> QED  BY <2>2, <2>3
<1> QED  BY <1>1, <1>2 DEF Grows, Becomes

(* add_transition as a call that adds one edge and no accepting state. *)
LEMMA AddTransitionGrows ==
  ASSUME NEW bld, IsBuilder(bld), NEW src, NEW sym, NEW dst
  PROVE  Grows(bld, add_transition(bld, src, sym, dst), {<<src, sym, dst>>}, {})
<1>1. WithSym(Denoted(bld), {<<src, sym, dst>>}) = With(Denoted(bld), {<<src, sym, dst>>}, {})
  BY DEF WithSym, With, Denoted
<1> QED  BY <1>1, AddTransitionDenotes DEF Grows

(* set_accept as a call that adds one accepting state and no edge. *)
LEMMA SetAcceptGrows ==
  ASSUME NEW bld, IsBuilder(bld), NEW s
  PROVE  Grows(bld, set_accept(bld, s), {}, {s})
<1>1. WithAccept(Denoted(bld), {s}) = With(Denoted(bld), {}, {s})
  BY DEF WithAccept, With, Denoted
<1> QED  BY <1>1, SetAcceptDenotes DEF Grows

(* All the builders there are, as a set for folds to stay in. *)
Builders ==
  {bld \in [accept : Seq(BOOLEAN), sym : Seq(Seq(Symbols \X Nat)), eps : Seq(Seq(Nat)),
            start : Nat, raised : BOOLEAN] : IsBuilder(bld)}

(* A builder is a member of the set of builders. *)
LEMMA IsBuilders == \A bld : IsBuilder(bld) <=> bld \in Builders
  BY DEF Builders, IsBuilder

(* for c in symset[target_id]: an edge for each of the symbols.            *)
EdgeFold(bld, S, src, dst) ==
  CHOOSE iter : iter =
    [s \in SUBSET S |->
       IF s = {} THEN bld
       ELSE add_transition(iter[s \ {CHOOSE x \in s : TRUE}], src, CHOOSE x \in s : TRUE, dst)]

(* An edge from src to dst on each of the symbols of S. *)
EdgesOf(src, S, dst) == {<<src, c, dst>> : c \in S}

(* The loop over a symbol set adds the edge of each of its symbols, in     *)
(* whatever order the set is gone through, or raises.                      *)
LEMMA AddEdgesGrows ==
  ASSUME NEW bld, IsBuilder(bld), NEW S, IsFiniteSet(S), NEW src, NEW dst
  PROVE  Grows(bld, add_edges(bld, S, src, dst), EdgesOf(src, S, dst), {})
<1> DEFINE f == EdgeFold(bld, S, src, dst)
           pick == [s \in (SUBSET S) \ {{}} |-> CHOOSE x \in s : TRUE]
           step == [q \in S \X Builders |-> add_transition(q[2], src, q[1], dst)]
           Eqn(iter) == iter =
             [s \in SUBSET S |->
                IF s = {} THEN bld
                ELSE add_transition(iter[s \ {CHOOSE x \in s : TRUE}], src,
                                    CHOOSE x \in s : TRUE, dst)]
<1>1. IsPick(pick, S)
  <2>1. \A s \in (SUBSET S) \ {{}} : (CHOOSE x \in s : TRUE) \in s
    OBVIOUS
  <2> QED  BY <2>1 DEF IsPick
<1>2. IsSetStep(step, S, Builders)
  <2> SUFFICES ASSUME NEW c \in S, NEW v \in Builders
               PROVE  add_transition(v, src, c, dst) \in Builders
    BY DEF IsSetStep
  <2>1. IsBuilder(v)
    BY IsBuilders
  <2> QED  BY <2>1, IsBuilders, AddTransitionGrows DEF Grows, Becomes
<1>3. bld \in Builders
  BY IsBuilders
<1>4. PICK g : SetIterates(g, S, Builders, bld, step, pick)
  <2> HIDE DEF pick, step
  <2> QED  BY <1>1, <1>2, <1>3, SetIteration
<1>5. \A s \in (SUBSET S) \ {{}} :
        /\ pick[s] = (CHOOSE x \in s : TRUE) /\ pick[s] \in s
        /\ \A v \in Builders : step[<<pick[s], v>>] = add_transition(v, src, pick[s], dst)
  <2> TAKE s \in (SUBSET S) \ {{}}
  <2>1. pick[s] = (CHOOSE x \in s : TRUE) /\ pick[s] \in S /\ pick[s] \in s
    OBVIOUS
  <2> HIDE DEF pick
  <2> QED  BY <2>1
<1>6. Eqn(g)
  <2>1. g \in [SUBSET S -> Builders] /\ g[{}] = bld
    BY <1>4 DEF SetIterates
  <2>2. ASSUME NEW s \in SUBSET S, s # {}
        PROVE  g[s] = add_transition(g[s \ {CHOOSE x \in s : TRUE}], src,
                                     CHOOSE x \in s : TRUE, dst)
    <3>1. g[s] = step[<<pick[s], g[s \ {pick[s]}]>>]
      BY <2>2, <1>4 DEF SetIterates
    <3>2. g[s \ {pick[s]}] \in Builders
      <4>1. s \ {pick[s]} \in SUBSET S
        OBVIOUS
      <4> HIDE DEF pick
      <4> QED  BY <2>1, <4>1
    <3> HIDE DEF pick, step
    <3> QED  BY <1>5, <2>2, <3>1, <3>2
  <2> QED  BY <2>1, <2>2
<1>7. Eqn(f)
  BY <1>6 DEF EdgeFold
<1> HIDE DEF f
<1>8. f[{}] = bld
  BY <1>7
<1>9. SetFolds(f, S, Builders, bld, step, pick)
  <2>1. ASSUME NEW s \in (SUBSET S) \ {{}}, f[s \ {pick[s]}] \in Builders
        PROVE  f[s] = step[<<pick[s], f[s \ {pick[s]}]>>]
    <3>1. f[s] = add_transition(f[s \ {CHOOSE x \in s : TRUE}], src,
                                CHOOSE x \in s : TRUE, dst)
      BY <1>7
    <3> HIDE DEF pick, step
    <3> QED  BY <1>5, <2>1, <3>1
  <2> HIDE DEF pick, step
  <2> QED  BY <1>8, <2>1 DEF SetFolds
<1>10. \A s \in SUBSET S :
         /\ f[s] \in Builders
         /\ s # {} => f[s] = add_transition(f[s \ {pick[s]}], src, pick[s], dst)
  <2>1. \A s \in SUBSET S :
          /\ f[s] \in Builders
          /\ s # {} => f[s] = step[<<pick[s], f[s \ {pick[s]}]>>]
    <3> HIDE DEF pick, step
    <3> QED  BY <1>1, <1>2, <1>3, <1>9, SetFolded
  <2> HIDE DEF pick, step
  <2>2. \A s \in SUBSET S : s \ {pick[s]} \in SUBSET S
    OBVIOUS
  <2> QED  BY <1>5, <2>1, <2>2
<1> DEFINE F == {s \in SUBSET S : Grows(bld, f[s], EdgesOf(src, s, dst), {})}
<1>11. {} \in F
  <2>1. EdgesOf(src, {}, dst) = {}
    BY DEF EdgesOf
  <2> QED  BY <1>8, <2>1, GrowsNot
<1>12. \A s \in SUBSET S : s # {} => \E x \in s : s \ {x} \in F => s \in F
  <2> SUFFICES ASSUME NEW s \in SUBSET S, s # {}
               PROVE  \E x \in s : s \ {x} \in F => s \in F
    OBVIOUS
  <2> HIDE DEF pick, step
  <2>1. pick[s] \in s
    BY <1>5
  <2>2. ASSUME s \ {pick[s]} \in F
        PROVE  s \in F
    <3> DEFINE r == s \ {pick[s]}
    <3>1. r \in SUBSET S /\ IsBuilder(f[r])
      BY <1>10, IsBuilders
    <3>2. f[s] = add_transition(f[r], src, pick[s], dst)
      BY <1>10
    <3>3. Grows(bld, f[r], EdgesOf(src, r, dst), {})
      BY <2>2
    <3>4. Grows(f[r], f[s], {<<src, pick[s], dst>>}, {})
      BY <3>1, <3>2, AddTransitionGrows
    <3>5. EdgesOf(src, r, dst) \cup {<<src, pick[s], dst>>} = EdgesOf(src, s, dst)
      BY <2>1 DEF EdgesOf
    <3>6. Grows(bld, f[s], EdgesOf(src, s, dst), {} \cup {})
      <4> HIDE DEF r
      <4> QED  BY <3>3, <3>4, <3>5, GrowsTwice
    <3>7. {} \cup {} = {}
      OBVIOUS
    <3> QED  BY <3>6, <3>7
  <2> QED  BY <2>1, <2>2
<1>13. S \in F
  <2> HIDE DEF F
  <2>1. \A s \in SUBSET S : s \in F
    BY <1>11, <1>12, SubsetInduction
  <2> QED  BY <2>1
<1>14. add_edges(bld, S, src, dst) = f[S]
  BY DEF add_edges, EdgeFold, FoldSet, MapThenFoldSet, f
<1> QED  BY <1>13, <1>14

-----------------------------------------------------------------------------
(* What load_anml has made sure of, and what one element adds. *)

(* A symbol set is finite: it is a union of finitely many ranges.          *)
LEMMA SymbolSetFinite ==
  ASSUME NEW s \in SymbolSetForms
  PROVE  IsFiniteSet(parse_symbol_set(s))
<1> DEFINE range == [i \in DOMAIN s.items |-> s.items[i][1] .. s.items[i][2]]
           out == UNION {s.items[i][1] .. s.items[i][2] : i \in DOMAIN s.items}
           ranges == {range[i] : i \in DOMAIN s.items}
<1>1. s.items \in Seq(Nat \X Nat) /\ DOMAIN s.items = 1 .. Len(s.items) /\ Len(s.items) \in Nat
  BY DEF SymbolSetForms
<1>2. \A i \in DOMAIN s.items : s.items[i][1] \in Nat /\ s.items[i][2] \in Nat
  BY <1>1
<1>3. \A i \in DOMAIN s.items : IsFiniteSet(range[i])
  BY <1>2, FS_Interval
<1>4. IsFiniteSet(ranges)
  <2>1. IsFiniteSet(DOMAIN s.items)
    BY <1>1, FS_Interval
  <2>2. range \in Surjection(DOMAIN s.items, ranges)
    BY DEF Surjection
  <2> HIDE DEF range, ranges
  <2> QED  BY <2>1, <2>2, FS_Surjection
<1>5. IsFiniteSet(UNION ranges)
  <2>1. \A T \in ranges : IsFiniteSet(T)
    <3> HIDE DEF range
    <3> QED  BY <1>3
  <2> HIDE DEF range, ranges
  <2> QED  BY <1>4, <2>1, FS_UNION
<1>6. out = UNION ranges
  OBVIOUS
<1>7. IsFiniteSet((0 .. LastByte) \ out)
  <2>1. IsFiniteSet(0 .. LastByte)
    BY AlphabetAssumption, FS_Interval
  <2> HIDE DEF out
  <2> QED  BY <2>1, FS_Difference
<1>8. IsFiniteSet({AnySymbol})
  BY FS_Singleton
<1>9. parse_symbol_set(s) = {AnySymbol} \/ parse_symbol_set(s) = (0 .. LastByte) \ out
      \/ parse_symbol_set(s) = out
  BY DEF parse_symbol_set
<1> HIDE DEF out, ranges
<1> QED  BY <1>5, <1>6, <1>7, <1>8, <1>9

(* A document load_anml has taken so far: every refusal of its own is      *)
(* behind it.                                                              *)
Readable(doc) == IsDocument(doc) /\ ~DocumentRaises(doc)

(* The symbols element j fires on, as load_anml keeps them. *)
Symset(doc, j) == parse_symbol_set(doc.stes[j].symbols)

(* What the refusals of load_anml leave: the names are read, unique and    *)
(* not missing, and no symbol set raises.                                  *)
LEMMA ReadableFacts ==
  ASSUME NEW doc, Readable(doc)
  PROVE  /\ Len(doc.stes) \in Nat /\ Len(doc.stes) # 0
         /\ DOMAIN doc.stes = 1 .. Len(doc.stes)
         /\ \A j \in DOMAIN doc.stes :
              /\ doc.stes[j] \in Elements /\ doc.stes[j].id # NoName
              /\ ~SymbolSetRaises(doc.stes[j].symbols)
              /\ doc.stes[j].symbols \in SymbolSetForms
              /\ IsFiniteSet(Symset(doc, j))
              /\ doc.stes[j].activates \in Seq(Seq(STRING))
              /\ Len(doc.stes[j].activates) \in Nat
              /\ DOMAIN doc.stes[j].activates = 1 .. Len(doc.stes[j].activates)
              /\ doc.stes[j].reports \in BOOLEAN
         /\ \A i, j \in DOMAIN doc.stes : doc.stes[i].id = doc.stes[j].id => i = j
<1>1. doc.stes \in Seq(Elements)
  BY DEF Readable, IsDocument
<1>2. Len(doc.stes) \in Nat /\ DOMAIN doc.stes = 1 .. Len(doc.stes) /\ Len(doc.stes) # 0
  <2>1. doc.stes # <<>>
    BY DEF Readable, DocumentRaises
  <2> QED  BY <1>1, <2>1
<1>3. ASSUME NEW j \in DOMAIN doc.stes
      PROVE  /\ doc.stes[j] \in Elements
             /\ doc.stes[j].symbols \in SymbolSetForms
             /\ doc.stes[j].activates \in Seq(Seq(STRING))
             /\ Len(doc.stes[j].activates) \in Nat
             /\ DOMAIN doc.stes[j].activates = 1 .. Len(doc.stes[j].activates)
             /\ doc.stes[j].reports \in BOOLEAN
             /\ IsFiniteSet(Symset(doc, j))
  <2>1. doc.stes[j] \in Elements
    BY <1>1, <1>2
  <2>2. /\ doc.stes[j].symbols \in SymbolSetForms
        /\ doc.stes[j].activates \in Seq(Seq(STRING))
        /\ doc.stes[j].reports \in BOOLEAN
    <3> DEFINE ste == doc.stes[j]
    <3>1. ste \in Elements
      BY <2>1
    <3> HIDE DEF ste
    <3>2. ste.symbols \in SymbolSetForms /\ ste.activates \in Seq(Seq(STRING))
          /\ ste.reports \in BOOLEAN
      BY <3>1 DEF Elements
    <3> QED  BY <3>2 DEF ste
  <2>3. IsFiniteSet(Symset(doc, j))
    BY <2>2, SymbolSetFinite DEF Symset
  <2> QED  BY <2>1, <2>2, <2>3
<1>4. \A j \in DOMAIN doc.stes : doc.stes[j].id # NoName /\ ~SymbolSetRaises(doc.stes[j].symbols)
  BY DEF Readable, DocumentRaises, ElementRaises
<1>5. \A i, j \in DOMAIN doc.stes : doc.stes[i].id = doc.stes[j].id => i = j
  BY DEF Readable, DocumentRaises
<1> QED  BY <1>2, <1>3, <1>4, <1>5

(* ste_state gives each element a state of its own.                        *)
LEMMA StateOf ==
  ASSUME NEW doc, Readable(doc), NEW j \in DOMAIN doc.stes
  PROVE  /\ ste_state(doc, doc.stes[j].id) = 2 + j
         /\ symset(doc, doc.stes[j].id) = Symset(doc, j)
<1>1. (CHOOSE i \in DOMAIN doc.stes : doc.stes[i].id = doc.stes[j].id) = j
  BY ReadableFacts
<1>2. j \in Nat
  BY ReadableFacts
<1>3. ste_state(doc, doc.stes[j].id) = 2 + j
  BY <1>1 DEF ste_state
<1>4. (2 + j) - 2 = j
  BY <1>2
<1> QED  BY <1>3, <1>4 DEF symset, Symset

(* What a name resolves to is the element it names.                        *)
LEMMA ResolveNames ==
  ASSUME NEW doc, NEW name, NEW j \in DOMAIN doc.stes
  PROVE  Names(doc, name, doc.stes[j].id) <=> Resolve(doc, name) = doc.stes[j].id
<1>1. doc.stes[j].id \in Ids(doc)
  BY DEF Ids
<1>2. Head(name) = name[1]
  OBVIOUS
<1> QED  BY <1>1, <1>2 DEF Names, Resolve

(* Each name an element activates belongs to an element: load_anml has     *)
(* raised on the others.                                                   *)
LEMMA EveryNameResolves ==
  ASSUME NEW doc, Readable(doc), NEW i \in DOMAIN doc.stes,
         NEW k \in DOMAIN doc.stes[i].activates
  PROVE  \E j \in DOMAIN doc.stes :
           Resolve(doc, doc.stes[i].activates[k]) = doc.stes[j].id
<1>1. Resolve(doc, doc.stes[i].activates[k]) \in Ids(doc)
  BY DEF Readable, DocumentRaises, ElementRaises
<1> QED  BY <1>1 DEF Ids

(* To lead into an element adds an edge for each of the element's own      *)
(* symbols.                                                                *)
LEMMA EdgesIntoGrows ==
  ASSUME NEW doc, Readable(doc), NEW j \in DOMAIN doc.stes,
         NEW bld, IsBuilder(bld), NEW src
  PROVE  Grows(bld, add_edges_into(bld, doc, doc.stes[j].id, src),
               EdgesOf(src, Symset(doc, j), 2 + j), {})
<1>1. IsFiniteSet(Symset(doc, j))
  BY ReadableFacts
<1> QED  BY <1>1, StateOf, AddEdgesGrows DEF add_edges_into

(* The edges from the start states into element j. *)
SeedEdges(doc, j) ==
  CASE doc.stes[j].start = "all-input"     -> EdgesOf(q_all, Symset(doc, j), 2 + j)
    [] doc.stes[j].start = "start-of-data" -> EdgesOf(q_first, Symset(doc, j), 2 + j)
    [] OTHER                               -> {}

(* The seed of an element adds the edges its start attribute asks for. *)
LEMMA SeededGrows ==
  ASSUME NEW doc, Readable(doc), NEW j \in DOMAIN doc.stes, NEW bld, IsBuilder(bld)
  PROVE  Grows(bld, Seeded(bld, doc, doc.stes[j]), SeedEdges(doc, j), {})
<1>1. CASE doc.stes[j].start = "all-input"
  BY <1>1, EdgesIntoGrows DEF Seeded, SeedEdges
<1>2. CASE doc.stes[j].start = "start-of-data"
  BY <1>2, EdgesIntoGrows DEF Seeded, SeedEdges
<1>3. CASE doc.stes[j].start \notin {"all-input", "start-of-data"}
  BY <1>3, GrowsNot DEF Seeded, SeedEdges
<1> QED  BY <1>1, <1>2, <1>3

(* The accepting state of element j, if it reports. *)
ReportStates(doc, j) == IF doc.stes[j].reports THEN {2 + j} ELSE {}

(* An element that reports has its state accepting, another adds nothing.  *)
LEMMA ReportingGrows ==
  ASSUME NEW doc, Readable(doc), NEW j \in DOMAIN doc.stes, NEW bld, IsBuilder(bld)
  PROVE  Grows(bld, Reporting(bld, doc, doc.stes[j]), {}, ReportStates(doc, j))
  BY StateOf, SetAcceptGrows, GrowsNot DEF Reporting, ReportStates

-----------------------------------------------------------------------------
(* The loops over the activations and over the elements. *)

(* A loop over N elements, each of which adds E[k] and A[k].               *)
AllOf(E, N) == UNION {E[m] : m \in 1 .. N}

(* The loop adds what its rounds add. *)
LEMMA LoopGrows ==
  ASSUME NEW N \in Nat, NEW bld \in Builders, NEW step, NEW g,
         Iterates(g, N, Builders, bld, step), NEW E, NEW A,
         \A k \in 1 .. N, v \in Builders : Grows(v, step[<<k, v>>], E[k], A[k])
  PROVE  Grows(bld, g[N], AllOf(E, N), AllOf(A, N))
<1> DEFINE EU(k) == UNION {E[m] : m \in 1 .. k}
           AU(k) == UNION {A[m] : m \in 1 .. k}
           S == {k \in Nat : k <= N => Grows(bld, g[k], EU(k), AU(k))}
<1>1. 0 \in S
  <2>1. EU(0) = {} /\ AU(0) = {}
    OBVIOUS
  <2>2. g[0] = bld /\ IsBuilder(bld)
    BY IsBuilders DEF Iterates
  <2>3. Grows(bld, g[0], EU(0), AU(0))
    BY <2>1, <2>2, GrowsNot
  <2> HIDE DEF EU, AU
  <2> QED  BY <2>3
<1>2. ASSUME NEW k \in Nat, k \in S
      PROVE  k + 1 \in S
  <2> SUFFICES ASSUME k + 1 <= N
               PROVE  Grows(bld, g[k + 1], EU(k + 1), AU(k + 1))
    OBVIOUS
  <2>1. k + 1 \in 1 .. N /\ (k + 1) - 1 = k /\ k \in 0 .. N
    OBVIOUS
  <2>2. g[k + 1] = step[<<k + 1, g[k]>>] /\ g[k] \in Builders
    BY <2>1 DEF Iterates
  <2>3. Grows(g[k], g[k + 1], E[k + 1], A[k + 1])
    BY <2>1, <2>2
  <2>4. Grows(bld, g[k], EU(k), AU(k))
    <3> HIDE DEF EU, AU
    <3> QED  BY <1>2
  <2>5. 1 .. k + 1 = (1 .. k) \cup {k + 1}
    OBVIOUS
  <2>6. EU(k + 1) = EU(k) \cup E[k + 1] /\ AU(k + 1) = AU(k) \cup A[k + 1]
    BY <2>5
  <2> HIDE DEF EU, AU
  <2> QED  BY <2>3, <2>4, <2>6, GrowsTwice
<1>3. N \in S
  <2> HIDE DEF S
  <2> QED  BY <1>1, <1>2, NatSetInduction
<1> QED  BY <1>3 DEF AllOf

(* The library folds a sequence on its index set, the greatest index last. *)
MaxOf(N) == [s \in (SUBSET (1 .. N)) \ {{}} |-> Max(s)]

(* The greatest index can be taken away each time. *)
LEMMA MaxPicks ==
  ASSUME NEW N \in Nat
  PROVE  /\ IsPick(MaxOf(N), 1 .. N)
         /\ \A s \in (SUBSET (1 .. N)) \ {{}} : MaxOf(N)[s] = Max(s) /\ Max(s) \in 1 .. N
  BY MaxOfSet DEF IsPick, MaxOf

(* What the library's fold computes at every set of rounds gone through. *)
IsLoop(g, N, bld, step) ==
  /\ g \in [SUBSET (1 .. N) -> Builders]
  /\ g[{}] = bld
  /\ \A s \in (SUBSET (1 .. N)) \ {{}} : g[s] = step[<<Max(s), g[s \ {Max(s)}]>>]

(* There is a function that gives the builder after each set of rounds. *)
LEMMA LoopIterates ==
  ASSUME NEW N \in Nat, NEW bld \in Builders, NEW step, IsStep(step, N, Builders)
  PROVE  \E g : IsLoop(g, N, bld, step)
<1>1. IsFiniteSet(1 .. N)
  BY FS_Interval
<1>2. IsSetStep(step, 1 .. N, Builders)
  BY DEF IsSetStep, IsStep
<1>3. PICK g : SetIterates(g, 1 .. N, Builders, bld, step, MaxOf(N))
  BY <1>1, <1>2, MaxPicks, SetIteration
<1> QED  BY <1>3, MaxPicks DEF SetIterates, IsLoop

(* The activations of one element.                                         *)
ActivateFold(bld, doc, ste) ==
  CHOOSE iter : iter =
    [s \in SUBSET DOMAIN ste.activates |->
       IF s = {} THEN bld
       ELSE add_edges_into(iter[s \ {Max(s)}], doc, Resolve(doc, ste.activates[Max(s)]),
                           ste_state(doc, ste.id))]

(* The edges from element i into the elements it precedes. *)
ActivationEdges(doc, i) ==
  UNION {EdgesOf(2 + i, Symset(doc, j), 2 + j) : j \in {h \in DOMAIN doc.stes : Precedes(doc, i, h)}}

(* The activations of an element add an edge into each element it          *)
(* precedes, for each of that element's symbols.                           *)
LEMMA ActivatedGrows ==
  ASSUME NEW doc, Readable(doc), NEW i \in DOMAIN doc.stes, NEW bld, IsBuilder(bld)
  PROVE  Grows(bld, Activated(bld, doc, doc.stes[i]), ActivationEdges(doc, i), {})
<1> DEFINE ste == doc.stes[i]
           names == ste.activates
           N == Len(names)
           f == ActivateFold(bld, doc, ste)
           Op(v, k) == add_edges_into(v, doc, Resolve(doc, names[k]), ste_state(doc, ste.id))
           step == [q \in (1 .. N) \X Builders |-> Op(q[2], q[1])]
           Target(k) == CHOOSE j \in DOMAIN doc.stes : Resolve(doc, names[k]) = doc.stes[j].id
           E == [k \in 1 .. N |-> EdgesOf(2 + i, Symset(doc, Target(k)), 2 + Target(k))]
           A == [k \in 1 .. N |-> {}]
           Eqn(iter) == iter =
             [s \in SUBSET DOMAIN names |-> IF s = {} THEN bld ELSE Op(iter[s \ {Max(s)}], Max(s))]
<1>1. N \in Nat /\ DOMAIN names = 1 .. N
  BY ReadableFacts
<1>2. \A k \in 1 .. N : Target(k) \in DOMAIN doc.stes
                        /\ Resolve(doc, names[k]) = doc.stes[Target(k)].id
  BY <1>1, EveryNameResolves
<1>3. ASSUME NEW k \in 1 .. N, NEW v \in Builders
      PROVE  Op(v, k) \in Builders /\ Grows(v, Op(v, k), E[k], A[k])
  <2>1. IsBuilder(v)
    BY IsBuilders
  <2>2. ste_state(doc, ste.id) = 2 + i
    BY StateOf
  <2>3. Grows(v, Op(v, k), EdgesOf(2 + i, Symset(doc, Target(k)), 2 + Target(k)), {})
    <3> HIDE DEF ste, names, Target
    <3> QED  BY <1>2, <2>1, <2>2, EdgesIntoGrows
  <2>4. E[k] = EdgesOf(2 + i, Symset(doc, Target(k)), 2 + Target(k)) /\ A[k] = {}
    OBVIOUS
  <2> HIDE DEF Op, E, A
  <2> QED  BY <2>3, <2>4, IsBuilders DEF Grows, Becomes
<1>4. IsStep(step, N, Builders) /\ \A k \in 1 .. N, v \in Builders : step[<<k, v>>] = Op(v, k)
  <2> HIDE DEF Op, N
  <2> QED  BY <1>3 DEF IsStep
<1>5. bld \in Builders
  BY IsBuilders
<1>6. \E g : Eqn(g)
  <2>1. PICK g : IsLoop(g, N, bld, step)
    <3> HIDE DEF step, N
    <3> QED  BY <1>1, <1>4, <1>5, LoopIterates
  <2> USE DEF IsLoop
  <2>2. ASSUME NEW s \in SUBSET (1 .. N), s # {}
        PROVE  g[s] = Op(g[s \ {Max(s)}], Max(s))
    <3>1. Max(s) \in 1 .. N
      BY <1>1, <2>2, MaxPicks
    <3>2. g[s \ {Max(s)}] \in Builders
      <4>1. s \ {Max(s)} \in SUBSET (1 .. N)
        OBVIOUS
      <4> QED  BY <2>1, <4>1
    <3> HIDE DEF step, Op, N
    <3> QED  BY <1>4, <2>1, <2>2, <3>1, <3>2
  <2>3. Eqn(g)
    <3> HIDE DEF Op, step, names, N
    <3> QED  BY <1>1, <2>1, <2>2
  <2> QED  BY <2>3
<1>7. Eqn(f)
  BY <1>6 DEF ActivateFold
<1> HIDE DEF f
<1>8. SeqFolds(f, N, Builders, bld, step)
  <2>1. f[{}] = bld
    BY <1>7
  <2>2. ASSUME NEW s \in (SUBSET (1 .. N)) \ {{}}, f[s \ {Max(s)}] \in Builders
        PROVE  f[s] = step[<<Max(s), f[s \ {Max(s)}]>>]
    <3>1. f[s] = Op(f[s \ {Max(s)}], Max(s))
      <4> HIDE DEF Op, names, N
      <4> QED  BY <1>1, <1>7
    <3>2. Max(s) \in 1 .. N
      BY <1>1, MaxPicks
    <3> HIDE DEF step, Op, N
    <3> QED  BY <1>4, <2>2, <3>1, <3>2
  <2> HIDE DEF step, N
  <2> QED  BY <2>1, <2>2 DEF SeqFolds
<1> DEFINE h == [n \in 0 .. N |-> f[1 .. n]]
<1>9. Iterates(h, N, Builders, bld, step)
  <2> HIDE DEF step, N
  <2> QED  BY <1>1, <1>4, <1>5, <1>8, SeqFolded
<1>10. h[N] = f[DOMAIN names]
  BY <1>1
<1>11. f[DOMAIN names] = Activated(bld, doc, ste)
  BY DEF Activated, ActivateFold, FoldLeft, MapThenFoldSet, f
<1>12. Grows(bld, h[N], AllOf(E, N), AllOf(A, N))
  <2>1. \A k \in 1 .. N, v \in Builders : Grows(v, step[<<k, v>>], E[k], A[k])
    <3> HIDE DEF step, Op, N, E, A
    <3> QED  BY <1>3, <1>4
  <2> HIDE DEF step, N, E, A, h
  <2> QED  BY <1>1, <1>5, <1>9, <2>1, LoopGrows
<1>13. AllOf(A, N) = {}
  BY DEF AllOf
<1>14. AllOf(E, N) = ActivationEdges(doc, i)
  <2>1. \A k \in 1 .. N, j \in DOMAIN doc.stes :
          Names(doc, names[k], doc.stes[j].id) <=> j = Target(k)
    <3> SUFFICES ASSUME NEW k \in 1 .. N, NEW j \in DOMAIN doc.stes
                 PROVE  Resolve(doc, names[k]) = doc.stes[j].id <=> j = Target(k)
      BY ResolveNames
    <3> HIDE DEF Target, names, N
    <3> QED  BY <1>2, ReadableFacts
  <2>2. {h2 \in DOMAIN doc.stes : Precedes(doc, i, h2)} = {Target(k) : k \in 1 .. N}
    <3> HIDE DEF Target
    <3> QED  BY <1>1, <1>2, <2>1 DEF Precedes
  <2>3. ActivationEdges(doc, i) =
          UNION {EdgesOf(2 + i, Symset(doc, j), 2 + j) : j \in {Target(k) : k \in 1 .. N}}
    <3> HIDE DEF Target, N
    <3> QED  BY <2>2 DEF ActivationEdges
  <2> HIDE DEF Target, N
  <2> QED  BY <2>3 DEF AllOf
<1> QED  BY <1>10, <1>11, <1>12, <1>13, <1>14

(* An automaton from its parts. *)
Parts(S, q, A, sym, eps) ==
  [states |-> S, start |-> q, accept |-> A, sym |-> sym, eps |-> eps]

(* More states leave the other parts alone. *)
LEMMA MoreStates ==
  \A S, T, q, A, sym, eps :
    WithStates(Parts(S, q, A, sym, eps), T) = Parts(T, q, A, sym, eps)
  BY DEF Parts, WithStates

(* More edges and accepting states leave the states and the start alone. *)
LEMMA WithParts ==
  \A S, q, A0, sym0, eps, E, A :
    With(Parts(S, q, A0, sym0, eps), E, A) = Parts(S, q, A0 \cup A, sym0 \cup E, eps)
  BY DEF Parts, With

(* The three start states.                                                 *)
LEMMA StartStatesDenote ==
  /\ IsBuilder(StartStates)
  /\ ~StartStates.raised =>
       Denoted(StartStates) =
         [states |-> 0 .. 2, start |-> q_root, accept |-> {},
          sym |-> {<<q_all, AnySymbol, q_all>>}, eps |-> {<<q_root, q_all>>, <<q_root, q_first>>}]
<1> DEFINE b1 == add_state(NewBuilder)
           b2 == add_state(b1)
           b3 == add_state(b2)
           c1 == set_start(b3, q_root)
           c2 == add_epsilon(c1, q_root, q_all)
           c3 == add_epsilon(c2, q_root, q_first)
           aut == [states |-> 0 .. 2, start |-> 0, accept |-> {}, sym |-> {}, eps |-> {}]
<1>0. StartStates = add_transition(c3, q_all, AnySymbol, q_all)
  BY DEF StartStates
<1>1. IsBuilder(b3) /\ Denoted(b3) = aut
  <2>1. IsBuilder(b1) /\ Len(b1.accept) = 1
    <3>1. Len(NewBuilder.accept) = 0 /\ 0 + 1 = 1
      BY DEF NewBuilder
    <3>2. Len(b1.accept) = Len(NewBuilder.accept) + 1 /\ IsBuilder(b1)
      BY NewBuilderDenotes, AddStateDenotes
    <3> HIDE DEF b1
    <3> QED  BY <3>1, <3>2
  <2>2. Denoted(b1) = WithStates(Denoted(NewBuilder), 0 .. Len(NewBuilder.accept))
    BY NewBuilderDenotes, AddStateDenotes
  <2> HIDE DEF b1
  <2>3. IsBuilder(b2) /\ Len(b2.accept) = 2
    <3>1. Len(b2.accept) = Len(b1.accept) + 1 /\ IsBuilder(b2)
      BY <2>1, AddStateDenotes
    <3> HIDE DEF b2
    <3> QED  BY <2>1, <3>1
  <2>4. Denoted(b2) = WithStates(Denoted(b1), 0 .. 1)
    BY <2>1, AddStateDenotes
  <2> HIDE DEF b2
  <2>5. IsBuilder(b3) /\ Denoted(b3) = WithStates(Denoted(b2), 0 .. 2)
    BY <2>3, AddStateDenotes
  <2> HIDE DEF b3
  <2>6. Denoted(NewBuilder) = [states |-> {}, start |-> 0, accept |-> {}, sym |-> {}, eps |-> {}]
    BY NewBuilderDenotes
  <2>7. Denoted(NewBuilder) = Parts({}, 0, {}, {}, {})
    BY <2>6 DEF Parts
  <2>8. Denoted(b1) = Parts(0 .. Len(NewBuilder.accept), 0, {}, {}, {})
    BY <2>2, <2>7, MoreStates
  <2>9. Denoted(b2) = Parts(0 .. 1, 0, {}, {}, {})
    BY <2>4, <2>8, MoreStates
  <2>10. Denoted(b3) = Parts(0 .. 2, 0, {}, {}, {})
    BY <2>5, <2>9, MoreStates
  <2>11. Denoted(b3) = aut
    BY <2>10 DEF Parts
  <2> QED  BY <2>5, <2>11
<1> HIDE DEF b3
<1>2. Becomes(b3, c1, [aut EXCEPT !.start = q_root])
  BY <1>1, SetStartDenotes
<1> HIDE DEF c1
<1>3. Becomes(c1, c2, WithEps(Denoted(c1), {<<q_root, q_all>>}))
  BY <1>2, AddEpsilonDenotes DEF Becomes
<1> HIDE DEF c2
<1>4. Becomes(c2, c3, WithEps(Denoted(c2), {<<q_root, q_first>>}))
  BY <1>3, AddEpsilonDenotes DEF Becomes
<1> HIDE DEF c3
<1>5. Becomes(c3, StartStates, WithSym(Denoted(c3), {<<q_all, AnySymbol, q_all>>}))
  BY <1>0, <1>4, AddTransitionDenotes DEF Becomes
<1>6. ASSUME ~StartStates.raised
      PROVE  Denoted(StartStates) =
         [states |-> 0 .. 2, start |-> q_root, accept |-> {},
          sym |-> {<<q_all, AnySymbol, q_all>>}, eps |-> {<<q_root, q_all>>, <<q_root, q_first>>}]
  <2>1. ~c3.raised /\ ~c2.raised /\ ~c1.raised
    BY <1>6, <1>3, <1>4, <1>5 DEF Becomes
  <2>2. Denoted(c1) = [aut EXCEPT !.start = q_root]
    BY <1>2, <2>1 DEF Becomes
  <2>3. Denoted(c2) = WithEps(Denoted(c1), {<<q_root, q_all>>})
    BY <1>3, <2>1 DEF Becomes
  <2>4. Denoted(c3) = WithEps(Denoted(c2), {<<q_root, q_first>>})
    BY <1>4, <2>1 DEF Becomes
  <2>5. Denoted(StartStates) = WithSym(Denoted(c3), {<<q_all, AnySymbol, q_all>>})
    BY <1>5, <1>6 DEF Becomes
  <2>6. Denoted(c2) = [aut EXCEPT !.start = q_root, !.eps = {<<q_root, q_all>>}]
    BY <2>2, <2>3 DEF WithEps
  <2>7. Denoted(c3) = [aut EXCEPT !.start = q_root,
                                  !.eps = {<<q_root, q_all>>, <<q_root, q_first>>}]
    <3>1. {<<q_root, q_all>>} \cup {<<q_root, q_first>>} = {<<q_root, q_all>>, <<q_root, q_first>>}
      OBVIOUS
    <3> QED  BY <2>4, <2>6, <3>1 DEF WithEps
  <2>8. Denoted(StartStates) = [aut EXCEPT !.start = q_root,
                                  !.eps = {<<q_root, q_all>>, <<q_root, q_first>>},
                                  !.sym = {<<q_all, AnySymbol, q_all>>}]
    BY <2>5, <2>7 DEF WithSym
  <2> QED  BY <2>8
<1> QED  BY <1>5, <1>6 DEF Becomes

(* Behind them, one state for each element.                                *)
StatesFold(doc) ==
  CHOOSE iter : iter =
    [s \in SUBSET DOMAIN doc.stes |->
       IF s = {} THEN StartStates ELSE add_state(iter[s \ {Max(s)}])]

(* Behind the start states come the states of the elements, with no edge   *)
(* yet.                                                                    *)
LEMMA ElementStatesDenote ==
  ASSUME NEW doc, Readable(doc)
  PROVE  /\ IsBuilder(ElementStates(doc))
         /\ ~ElementStates(doc).raised =>
              Denoted(ElementStates(doc)) =
                [states |-> 0 .. 2 + Len(doc.stes), start |-> q_root, accept |-> {},
                 sym |-> {<<q_all, AnySymbol, q_all>>},
                 eps |-> {<<q_root, q_all>>, <<q_root, q_first>>}]
<1> DEFINE N == Len(doc.stes)
           f == StatesFold(doc)
           step == [q \in (1 .. N) \X Builders |-> add_state(q[2])]
           Eqn(iter) == iter =
             [s \in SUBSET DOMAIN doc.stes |->
                IF s = {} THEN StartStates ELSE add_state(iter[s \ {Max(s)}])]
           L == Len(StartStates.accept)
<1>1. N \in Nat /\ DOMAIN doc.stes = 1 .. N
  BY ReadableFacts
<1>2. StartStates \in Builders /\ IsBuilder(StartStates)
  BY StartStatesDenote, IsBuilders
<1>3. IsStep(step, N, Builders) /\ \A k \in 1 .. N, v \in Builders : step[<<k, v>>] = add_state(v)
  <2>1. \A v \in Builders : add_state(v) \in Builders
    BY IsBuilders, AddStateDenotes
  <2> HIDE DEF N
  <2> QED  BY <2>1 DEF IsStep
<1>4. \E g : Eqn(g)
  <2>1. PICK g : IsLoop(g, N, StartStates, step)
    <3> HIDE DEF step, N
    <3> QED  BY <1>1, <1>2, <1>3, LoopIterates
  <2>2. ASSUME NEW s \in SUBSET (1 .. N), s # {}
        PROVE  g[s] = add_state(g[s \ {Max(s)}])
    <3>1. Max(s) \in 1 .. N
      BY <1>1, <2>2, MaxPicks
    <3>2. g[s \ {Max(s)}] \in Builders
      <4>1. s \ {Max(s)} \in SUBSET (1 .. N)
        OBVIOUS
      <4> QED  BY <2>1, <4>1 DEF IsLoop
    <3> HIDE DEF step, N
    <3> QED  BY <1>3, <2>1, <2>2, <3>1, <3>2 DEF IsLoop
  <2>3. Eqn(g)
    <3> HIDE DEF step, N
    <3> QED  BY <1>1, <2>1, <2>2 DEF IsLoop
  <2> QED  BY <2>3
<1>5. Eqn(f)
  BY <1>4 DEF StatesFold
<1> HIDE DEF f
<1>6. SeqFolds(f, N, Builders, StartStates, step)
  <2>1. f[{}] = StartStates
    BY <1>5
  <2>2. ASSUME NEW s \in (SUBSET (1 .. N)) \ {{}}, f[s \ {Max(s)}] \in Builders
        PROVE  f[s] = step[<<Max(s), f[s \ {Max(s)}]>>]
    <3>1. f[s] = add_state(f[s \ {Max(s)}])
      <4> HIDE DEF N
      <4> QED  BY <1>1, <1>5
    <3>2. Max(s) \in 1 .. N
      BY <1>1, MaxPicks
    <3> HIDE DEF step, N
    <3> QED  BY <1>3, <2>2, <3>1, <3>2
  <2> HIDE DEF step, N
  <2> QED  BY <2>1, <2>2 DEF SeqFolds
<1> DEFINE h == [n \in 0 .. N |-> f[1 .. n]]
<1>7. Iterates(h, N, Builders, StartStates, step)
  <2> HIDE DEF step, N
  <2> QED  BY <1>1, <1>2, <1>3, <1>6, SeqFolded
<1>8. h[N] = ElementStates(doc)
  <2>1. h[N] = f[DOMAIN doc.stes]
    BY <1>1
  <2>2. f[DOMAIN doc.stes] = ElementStates(doc)
    BY DEF ElementStates, StatesFold, FoldLeft, MapThenFoldSet, f
  <2> QED  BY <2>1, <2>2
<1> DEFINE S == {k \in Nat : k <= N =>
                   /\ IsBuilder(h[k]) /\ h[k].raised = StartStates.raised
                   /\ Len(h[k].accept) = L + k
                   /\ Denoted(h[k]) = WithStates(Denoted(StartStates), 0 .. L + k - 1)}
<1>9. L \in Nat /\ Denoted(StartStates).states = 0 .. L - 1
  BY <1>2, BuilderRecord DEF Denoted
<1>10. 0 \in S
  <2>1. h[0] = StartStates
    <3> HIDE DEF h, step
    <3> QED  BY <1>7 DEF Iterates
  <2>2. WithStates(Denoted(StartStates), 0 .. L + 0 - 1) = Denoted(StartStates)
    <3>1. L + 0 - 1 = L - 1 /\ L + 0 = L
      BY <1>9
    <3> QED  BY <1>9, <3>1 DEF Denoted, WithStates
  <2>3. L + 0 = L
    BY <1>9
  <2> HIDE DEF h, L, N
  <2> QED  BY <1>2, <2>1, <2>2, <2>3 DEF L
<1>11. ASSUME NEW k \in Nat, k \in S
       PROVE  k + 1 \in S
  <2> SUFFICES ASSUME k + 1 <= N
               PROVE  /\ IsBuilder(h[k + 1]) /\ h[k + 1].raised = StartStates.raised
                      /\ Len(h[k + 1].accept) = L + (k + 1)
                      /\ Denoted(h[k + 1]) =
                           WithStates(Denoted(StartStates), 0 .. L + (k + 1) - 1)
    <3> HIDE DEF h, L, N
    <3> QED  OBVIOUS
  <2>1. k + 1 \in 1 .. N /\ (k + 1) - 1 = k /\ k \in 0 .. N /\ k <= N
    BY <1>1
  <2> HIDE DEF N
  <2>2. /\ IsBuilder(h[k]) /\ h[k].raised = StartStates.raised
        /\ Len(h[k].accept) = L + k
        /\ Denoted(h[k]) = WithStates(Denoted(StartStates), 0 .. L + k - 1)
    <3> HIDE DEF h, L
    <3> QED  BY <1>11, <2>1
  <2>3. h[k + 1] = add_state(h[k])
    <3> HIDE DEF h, step
    <3>1. h[k + 1] = step[<<k + 1, h[k]>>] /\ h[k] \in Builders
      BY <1>7, <2>1 DEF Iterates
    <3> QED  BY <1>3, <2>1, <3>1
  <2> HIDE DEF h, L
  <2>4. /\ IsBuilder(h[k + 1]) /\ h[k + 1].raised = StartStates.raised
        /\ Len(h[k + 1].accept) = (L + k) + 1
        /\ Denoted(h[k + 1]) = WithStates(Denoted(h[k]), 0 .. L + k)
    BY <2>2, <2>3, AddStateDenotes
  <2>5. (L + k) + 1 = L + (k + 1) /\ L + k = L + (k + 1) - 1
    BY <1>9
  <2>6. WithStates(Denoted(h[k]), 0 .. L + k) =
          WithStates(Denoted(StartStates), 0 .. L + k)
    BY <2>2 DEF Denoted, WithStates
  <2> QED  BY <2>4, <2>5, <2>6
<1>12. N \in S
  <2> HIDE DEF S, N
  <2> QED  BY <1>1, <1>10, <1>11, NatSetInduction
<1>13. /\ IsBuilder(h[N]) /\ h[N].raised = StartStates.raised
       /\ Denoted(h[N]) = WithStates(Denoted(StartStates), 0 .. L + N - 1)
  <2> HIDE DEF h, L, N
  <2> QED  BY <1>1, <1>12
<1>14. ASSUME ~StartStates.raised
       PROVE  L + N - 1 = 2 + N
  <2>1. 0 .. L - 1 = 0 .. 2
    <3>1. Denoted(StartStates).states = 0 .. 2
      <4>1. Denoted(StartStates) =
              [states |-> 0 .. 2, start |-> q_root, accept |-> {},
               sym |-> {<<q_all, AnySymbol, q_all>>},
               eps |-> {<<q_root, q_all>>, <<q_root, q_first>>}]
        BY <1>14, StartStatesDenote
      <4> QED  BY <4>1
    <3> QED  BY <1>9, <3>1
  <2>2. L = 3
    <3> HIDE DEF L
    <3>1. 2 \in 0 .. L - 1 /\ 3 \notin 0 .. L - 1
      BY <2>1
    <3> QED  BY <1>9, <3>1
  <2> HIDE DEF L, N
  <2> QED  BY <1>1, <2>2
<1>15. ASSUME ~h[N].raised
       PROVE  Denoted(h[N]) =
                [states |-> 0 .. 2 + N, start |-> q_root, accept |-> {},
                 sym |-> {<<q_all, AnySymbol, q_all>>},
                 eps |-> {<<q_root, q_all>>, <<q_root, q_first>>}]
  <2> HIDE DEF h, L, N
  <2>1. ~StartStates.raised
    BY <1>13, <1>15
  <2>2. Denoted(StartStates) =
          [states |-> 0 .. 2, start |-> q_root, accept |-> {},
           sym |-> {<<q_all, AnySymbol, q_all>>},
           eps |-> {<<q_root, q_all>>, <<q_root, q_first>>}]
    BY <2>1, StartStatesDenote
  <2>3. Denoted(h[N]) = WithStates(Denoted(StartStates), 0 .. 2 + N)
    BY <1>13, <1>14, <2>1
  <2> DEFINE Whole(T) == Parts(T, q_root, {}, {<<q_all, AnySymbol, q_all>>},
                              {<<q_root, q_all>>, <<q_root, q_first>>})
  <2>4. Denoted(StartStates) = Whole(0 .. 2)
    BY <2>2 DEF Parts
  <2>5. Denoted(h[N]) = Whole(0 .. 2 + N)
    BY <2>3, <2>4, MoreStates
  <2> QED  BY <2>5 DEF Parts
<1> HIDE DEF h
<1> QED  BY <1>8, <1>13, <1>15

-----------------------------------------------------------------------------
(* What load_anml returns. *)

(* The automaton a document describes, with no builder in between.         *)
AutomatonOf(doc) ==
  [states |-> 0 .. 2 + Len(doc.stes),
   start  |-> q_root,
   accept |-> {2 + j : j \in {h \in DOMAIN doc.stes : doc.stes[h].reports}},
   sym    |-> {<<q_all, AnySymbol, q_all>>}
                \cup UNION {SeedEdges(doc, j) \cup ActivationEdges(doc, j) : j \in DOMAIN doc.stes},
   eps    |-> {<<q_root, q_all>>, <<q_root, q_first>>}]

(* The loop over the elements.                                             *)
ElementFold(doc) ==
  CHOOSE iter : iter =
    [s \in SUBSET DOMAIN doc.stes |->
       IF s = {} THEN ElementStates(doc)
       ELSE Reporting(Activated(Seeded(iter[s \ {Max(s)}], doc, doc.stes[Max(s)]),
                                doc, doc.stes[Max(s)]),
                      doc, doc.stes[Max(s)])]

(* One round of that loop. *)
ElementStep(v, doc, j) ==
  Reporting(Activated(Seeded(v, doc, doc.stes[j]), doc, doc.stes[j]), doc, doc.stes[j])

(* One round adds the seed, the activations and the report of its element. *)
LEMMA ElementGrows ==
  ASSUME NEW doc, Readable(doc), NEW j \in DOMAIN doc.stes, NEW bld, IsBuilder(bld)
  PROVE  Grows(bld, ElementStep(bld, doc, j),
               SeedEdges(doc, j) \cup ActivationEdges(doc, j), ReportStates(doc, j))
<1> DEFINE b1 == Seeded(bld, doc, doc.stes[j])
           b2 == Activated(b1, doc, doc.stes[j])
           b3 == Reporting(b2, doc, doc.stes[j])
<1>1. Grows(bld, b1, SeedEdges(doc, j), {})
  BY SeededGrows
<1> HIDE DEF b1
<1>2. Grows(b1, b2, ActivationEdges(doc, j), {})
  BY <1>1, ActivatedGrows DEF Grows, Becomes
<1> HIDE DEF b2
<1>3. Grows(b2, b3, {}, ReportStates(doc, j))
  BY <1>2, ReportingGrows DEF Grows, Becomes
<1>4. Grows(bld, b2, SeedEdges(doc, j) \cup ActivationEdges(doc, j), {} \cup {})
  BY <1>1, <1>2, GrowsTwice
<1> HIDE DEF b3
<1>5. Grows(bld, b3, (SeedEdges(doc, j) \cup ActivationEdges(doc, j)) \cup {},
            ({} \cup {}) \cup ReportStates(doc, j))
  BY <1>3, <1>4, GrowsTwice
<1>6. (SeedEdges(doc, j) \cup ActivationEdges(doc, j)) \cup {}
        = SeedEdges(doc, j) \cup ActivationEdges(doc, j)
      /\ ({} \cup {}) \cup ReportStates(doc, j) = ReportStates(doc, j)
  OBVIOUS
<1>7. b3 = ElementStep(bld, doc, j)
  BY DEF ElementStep, b1, b2, b3
<1> QED  BY <1>5, <1>6, <1>7

(* All the rounds add the seeds, activations and reports of all elements.  *)
LEMMA BuiltGrows ==
  ASSUME NEW doc, Readable(doc)
  PROVE  Grows(ElementStates(doc), Built(doc),
               UNION {SeedEdges(doc, j) \cup ActivationEdges(doc, j) : j \in DOMAIN doc.stes},
               UNION {ReportStates(doc, j) : j \in DOMAIN doc.stes})
<1> DEFINE N == Len(doc.stes)
           base == ElementStates(doc)
           f == ElementFold(doc)
           step == [q \in (1 .. N) \X Builders |-> ElementStep(q[2], doc, q[1])]
           E == [j \in 1 .. N |-> SeedEdges(doc, j) \cup ActivationEdges(doc, j)]
           A == [j \in 1 .. N |-> ReportStates(doc, j)]
           Eqn(iter) == iter =
             [s \in SUBSET DOMAIN doc.stes |->
                IF s = {} THEN base ELSE ElementStep(iter[s \ {Max(s)}], doc, Max(s))]
<1>1. N \in Nat /\ DOMAIN doc.stes = 1 .. N
  BY ReadableFacts
<1>2. ASSUME NEW j \in 1 .. N, NEW v \in Builders
      PROVE  ElementStep(v, doc, j) \in Builders /\ Grows(v, ElementStep(v, doc, j), E[j], A[j])
  <2>1. IsBuilder(v)
    BY IsBuilders
  <2>2. Grows(v, ElementStep(v, doc, j),
              SeedEdges(doc, j) \cup ActivationEdges(doc, j), ReportStates(doc, j))
    BY <1>1, <2>1, ElementGrows
  <2>3. E[j] = SeedEdges(doc, j) \cup ActivationEdges(doc, j) /\ A[j] = ReportStates(doc, j)
    OBVIOUS
  <2> HIDE DEF E, A
  <2> QED  BY <2>2, <2>3, IsBuilders DEF Grows, Becomes
<1>3. IsStep(step, N, Builders)
      /\ \A j \in 1 .. N, v \in Builders : step[<<j, v>>] = ElementStep(v, doc, j)
  <2> HIDE DEF N
  <2> QED  BY <1>2 DEF IsStep
<1>4. base \in Builders
  BY ElementStatesDenote, IsBuilders
<1>5. \E g : Eqn(g)
  <2>1. PICK g : IsLoop(g, N, base, step)
    <3> HIDE DEF step, N, base
    <3> QED  BY <1>1, <1>3, <1>4, LoopIterates
  <2>2. ASSUME NEW s \in SUBSET (1 .. N), s # {}
        PROVE  g[s] = ElementStep(g[s \ {Max(s)}], doc, Max(s))
    <3>1. Max(s) \in 1 .. N
      BY <1>1, <2>2, MaxPicks
    <3>2. g[s \ {Max(s)}] \in Builders
      <4>1. s \ {Max(s)} \in SUBSET (1 .. N)
        OBVIOUS
      <4> QED  BY <2>1, <4>1 DEF IsLoop
    <3> HIDE DEF step, N
    <3> QED  BY <1>3, <2>1, <2>2, <3>1, <3>2 DEF IsLoop
  <2>3. Eqn(g)
    <3> HIDE DEF step, N, base
    <3> QED  BY <1>1, <2>1, <2>2 DEF IsLoop
  <2> QED  BY <2>3
<1>6. Eqn(f)
  BY <1>5 DEF ElementFold, ElementStep
<1> HIDE DEF f
<1>7. SeqFolds(f, N, Builders, base, step)
  <2>1. f[{}] = base
    BY <1>6
  <2>2. ASSUME NEW s \in (SUBSET (1 .. N)) \ {{}}, f[s \ {Max(s)}] \in Builders
        PROVE  f[s] = step[<<Max(s), f[s \ {Max(s)}]>>]
    <3>1. f[s] = ElementStep(f[s \ {Max(s)}], doc, Max(s))
      <4> HIDE DEF N
      <4> QED  BY <1>1, <1>6
    <3>2. Max(s) \in 1 .. N
      BY <1>1, MaxPicks
    <3> HIDE DEF step, N
    <3> QED  BY <1>3, <2>2, <3>1, <3>2
  <2> HIDE DEF step, N, base
  <2> QED  BY <2>1, <2>2 DEF SeqFolds
<1> DEFINE h == [n \in 0 .. N |-> f[1 .. n]]
<1>8. Iterates(h, N, Builders, base, step)
  <2> HIDE DEF step, N, base
  <2> QED  BY <1>1, <1>3, <1>4, <1>7, SeqFolded
<1>9. h[N] = Built(doc)
  <2>1. h[N] = f[DOMAIN doc.stes]
    BY <1>1
  <2>2. f[DOMAIN doc.stes] = Built(doc)
    BY DEF Built, ElementFold, FoldLeft, MapThenFoldSet, f
  <2> QED  BY <2>1, <2>2
<1>10. Grows(base, h[N], AllOf(E, N), AllOf(A, N))
  <2>1. \A k \in 1 .. N, v \in Builders : Grows(v, step[<<k, v>>], E[k], A[k])
    <3> HIDE DEF step, N, E, A
    <3> QED  BY <1>2, <1>3
  <2> HIDE DEF step, N, E, A, h, base
  <2> QED  BY <1>1, <1>4, <1>8, <2>1, LoopGrows
<1>11. AllOf(E, N) = UNION {SeedEdges(doc, j) \cup ActivationEdges(doc, j) : j \in DOMAIN doc.stes}
       /\ AllOf(A, N) = UNION {ReportStates(doc, j) : j \in DOMAIN doc.stes}
  <2> HIDE DEF N
  <2> QED  BY <1>1 DEF AllOf
<1> HIDE DEF h
<1> QED  BY <1>9, <1>10, <1>11

(* The builder load_anml ends with stands for the automaton of the         *)
(* document, unless a call raised.                                         *)
LEMMA BuiltDenotes ==
  ASSUME NEW doc, Readable(doc)
  PROVE  /\ IsBuilder(Built(doc))
         /\ ~Built(doc).raised => Denoted(Built(doc)) = AutomatonOf(doc)
<1> DEFINE E == UNION {SeedEdges(doc, j) \cup ActivationEdges(doc, j) : j \in DOMAIN doc.stes}
           A == UNION {ReportStates(doc, j) : j \in DOMAIN doc.stes}
<1>1. Grows(ElementStates(doc), Built(doc), E, A)
  BY BuiltGrows
<1>2. A = {2 + j : j \in {h \in DOMAIN doc.stes : doc.stes[h].reports}}
  BY DEF ReportStates
<1>3. ASSUME ~Built(doc).raised
      PROVE  Denoted(Built(doc)) = AutomatonOf(doc)
  <2> HIDE DEF E, A
  <2>1. ~ElementStates(doc).raised
    BY <1>1, <1>3 DEF Grows, Becomes
  <2>2. Denoted(Built(doc)) = With(Denoted(ElementStates(doc)), E, A)
    BY <1>1, <1>3 DEF Grows, Becomes
  <2> DEFINE start == {<<q_root, q_all>>, <<q_root, q_first>>}
             loop  == {<<q_all, AnySymbol, q_all>>}
             all   == 0 .. 2 + Len(doc.stes)
  <2>3. Denoted(ElementStates(doc)) = Parts(all, q_root, {}, loop, start)
    BY <2>1, ElementStatesDenote DEF Parts
  <2> HIDE DEF start, loop, all
  <2>4. {} \cup A = A
    OBVIOUS
  <2>5. Denoted(Built(doc)) = Parts(all, q_root, A, loop \cup E, start)
    BY <2>2, <2>3, <2>4, WithParts
  <2> QED  BY <2>5, <1>2 DEF AutomatonOf, Parts, E, start, loop, all
<1> QED  BY <1>1, <1>3 DEF Grows, Becomes

(* What load_anml returns is the automaton the document describes: the     *)
(* three start states, a state for each element, its symbols on every edge *)
(* into it, and no edge more.                                              *)
THEOREM ReaderCorrect ==
  ASSUME NEW doc, IsDocument(doc), Loads(doc)
  PROVE  ReadBack(load_anml(doc)) = AutomatonOf(doc)
<1>1. Readable(doc) /\ ~Built(doc).raised
  BY DEF Readable, Loads, BuildRaises
<1>2. IsBuilder(Built(doc)) /\ Denoted(Built(doc)) = AutomatonOf(doc)
  BY <1>1, BuiltDenotes
<1> QED  BY <1>2, CsrRoundTrip DEF load_anml

-----------------------------------------------------------------------------
(* The automaton of a document is well formed, and its edges are read back *)
(* from the document.                                                      *)

(* NFABuilder checks every state and symbol it is given, so what it builds *)
(* is an automaton without dangling edges, its states numbered from 0.     *)
THEOREM BuiltIsAutomaton ==
  ASSUME NEW bld, IsBuilder(bld), ~BuildRaises(bld)
  PROVE  /\ IsAutomaton(ReadBack(build(bld)))
         /\ IsNumbered(ReadBack(build(bld)))
<1>1. ReadBack(build(bld)) = Denoted(bld)
  BY CsrRoundTrip
<1>2. Len(bld.accept) \in Nat /\ Len(bld.accept) # 0 /\ States(bld) = 0 .. Len(bld.accept) - 1
  <2>1. bld.accept \in Seq(BOOLEAN) /\ bld.accept # <<>>
    BY DEF IsBuilder, BuildRaises
  <2> QED  BY <2>1, BuilderRecord
<1>3. IsAutomaton(Denoted(bld))
  <2>1. bld.start \in States(bld)
    <3>1. 0 \in States(bld)
      BY <1>2
    <3> QED  BY <3>1 DEF IsBuilder
  <2>2. AcceptStates(bld) \subseteq States(bld)
    BY DEF AcceptStates
  <2>3. SymEdges(bld) \subseteq States(bld) \X (Bytes \cup {AnySymbol}) \X States(bld)
    BY DEF SymEdges, Symbols
  <2>4. EpsEdges(bld) \subseteq States(bld) \X States(bld)
    BY DEF EpsEdges
  <2>5. /\ Denoted(bld).states = States(bld) /\ Denoted(bld).start = bld.start
        /\ Denoted(bld).accept = AcceptStates(bld) /\ Denoted(bld).sym = SymEdges(bld)
        /\ Denoted(bld).eps = EpsEdges(bld)
    BY DEF Denoted
  <2> QED  BY <2>1, <2>2, <2>3, <2>4, <2>5 DEF IsAutomaton
<1>4. IsNumbered(Denoted(bld))
  <2>1. IsFiniteSet(States(bld)) /\ Cardinality(States(bld)) = Len(bld.accept)
    <3> DEFINE n == Len(bld.accept)
    <3>1. n \in Nat /\ n # 0 /\ n - 1 \in Int /\ ~(0 > n - 1) /\ (n - 1) - 0 + 1 = n
      BY <1>2
    <3> HIDE DEF n
    <3>2. IsFiniteSet(0 .. n - 1) /\ Cardinality(0 .. n - 1) = n
      BY <3>1, FS_Interval
    <3> QED  BY <1>2, <3>2 DEF n
  <2> QED  BY <1>2, <2>1 DEF IsNumbered, Denoted
<1> QED  BY <1>1, <1>3, <1>4

-----------------------------------------------------------------------------

(* The edges of the automaton of a document, one by one.                   *)
EdgeInto(doc, e, j) ==
  \E c \in Symset(doc, j) :
    \/ doc.stes[j].start = "all-input" /\ e = <<q_all, c, 2 + j>>
    \/ doc.stes[j].start = "start-of-data" /\ e = <<q_first, c, 2 + j>>
    \/ \E i \in DOMAIN doc.stes : Precedes(doc, i, j) /\ e = <<2 + i, c, 2 + j>>

(* An edge of the automaton of a document is the loop of q_all or leads    *)
(* into an element.                                                        *)
LEMMA EdgesOfAutomaton ==
  ASSUME NEW doc, NEW e
  PROVE  e \in AutomatonOf(doc).sym <=>
           \/ e = <<q_all, AnySymbol, q_all>>
           \/ \E j \in DOMAIN doc.stes : EdgeInto(doc, e, j)
<1> DEFINE D == DOMAIN doc.stes
<1>1. e \in AutomatonOf(doc).sym <=>
        \/ e = <<q_all, AnySymbol, q_all>>
        \/ \E j \in D : e \in SeedEdges(doc, j) \/ e \in ActivationEdges(doc, j)
  BY DEF AutomatonOf
<1>2. \A j \in D : e \in SeedEdges(doc, j) <=>
        \E c \in Symset(doc, j) :
          \/ doc.stes[j].start = "all-input" /\ e = <<q_all, c, 2 + j>>
          \/ doc.stes[j].start = "start-of-data" /\ e = <<q_first, c, 2 + j>>
  BY DEF SeedEdges, EdgesOf
<1>3. \A i \in D : e \in ActivationEdges(doc, i) <=>
        \E j \in D : \E c \in Symset(doc, j) : Precedes(doc, i, j) /\ e = <<2 + i, c, 2 + j>>
  BY DEF ActivationEdges, EdgesOf
<1> QED  BY <1>1, <1>2, <1>3 DEF EdgeInto

(* An edge into an element fires on the bytes its symbol set denotes.      *)
LEMMA FiresDenotes ==
  ASSUME NEW doc, Readable(doc), ~NamesWildcard(doc), NEW j \in DOMAIN doc.stes,
         NEW byte \in Bytes
  PROVE  (\E c \in Symset(doc, j) : Fires(c, byte)) <=> Denotes(doc.stes[j].symbols, byte)
<1> DEFINE s == doc.stes[j].symbols
           out == UNION {s.items[i][1] .. s.items[i][2] : i \in DOMAIN s.items}
           Covers == \E i \in DOMAIN s.items : s.items[i][1] <= byte /\ byte <= s.items[i][2]
<1>1. s \in SymbolSetForms /\ ~SymbolSetRaises(s)
  BY ReadableFacts
<1> HIDE DEF s
<1>2. s.form \in {"star", "class"} /\ s.negate \in BOOLEAN /\ s.items \in Seq(Nat \X Nat)
  BY <1>1 DEF SymbolSetForms, SymbolSetRaises
<1>3. byte \in Nat /\ byte \in 0 .. LastByte /\ AnySymbol \notin 0 .. LastByte
  BY AlphabetAssumption
<1>4. byte \in out <=> Covers
  <2>1. \A i \in DOMAIN s.items : s.items[i][1] \in Nat /\ s.items[i][2] \in Nat
    BY <1>2
  <2>2. \A i \in DOMAIN s.items : byte \in s.items[i][1] .. s.items[i][2] <=>
          s.items[i][1] <= byte /\ byte <= s.items[i][2]
    BY <1>3, <2>1
  <2> QED  BY <2>2
<1>5. Symset(doc, j) = parse_symbol_set(s)
  BY DEF Symset, s
<1>6. CASE s.form = "star"
  <2>1. Symset(doc, j) = {AnySymbol}
    BY <1>5, <1>6 DEF parse_symbol_set
  <2> QED  BY <2>1, <1>6 DEF Fires, Denotes, s
<1>7. CASE s.form = "class" /\ s.negate
  <2>1. Symset(doc, j) = (0 .. LastByte) \ out
    BY <1>5, <1>7 DEF parse_symbol_set
  <2>2. Denotes(s, byte) <=> ~Covers
    BY <1>7 DEF Denotes
  <2>3. (\E c \in Symset(doc, j) : Fires(c, byte)) <=> byte \notin out
    <3> HIDE DEF out
    <3> QED  BY <2>1, <1>3 DEF Fires
  <2> QED  BY <1>4, <2>2, <2>3 DEF s
<1>8. CASE s.form = "class" /\ ~s.negate
  <2>1. Symset(doc, j) = out
    BY <1>5, <1>8 DEF parse_symbol_set
  <2>2. Denotes(s, byte) <=> Covers
    BY <1>2, <1>8 DEF Denotes
  <2>3. AnySymbol \notin out
    <3>1. s # Star
      BY <1>8 DEF Star
    <3>2. AnySymbol \notin parse_symbol_set(s)
      BY <1>8, <3>1 DEF NamesWildcard, s
    <3> QED  BY <1>5, <2>1, <3>2
  <2>4. (\E c \in Symset(doc, j) : Fires(c, byte)) <=> byte \in out
    <3> HIDE DEF out
    <3> QED  BY <2>1, <2>3, <1>3 DEF Fires
  <2> QED  BY <1>4, <2>2, <2>4 DEF s
<1> QED  BY <1>2, <1>6, <1>7, <1>8

-----------------------------------------------------------------------------
(* One byte moves the run of the automaton as it moves the elements. *)

(* The states that stand for a set of elements, behind the first byte:     *)
(* q_all stays with them.                                                  *)
OnStates(S) == {q_all} \cup {2 + j : j \in S}

(* The elements active behind byte number p, given those before it. *)
NextOn(doc, p, S, byte) ==
  {j \in DOMAIN doc.stes :
     /\ Denotes(doc.stes[j].symbols, byte)
     /\ \/ doc.stes[j].start = "all-input"
        \/ doc.stes[j].start = "start-of-data" /\ p = 1
        \/ \E i \in S : Precedes(doc, i, j)}

(* A set of elements and the set of states that stands for it determine    *)
(* each other, and hold no seed state but q_all.                           *)
LEMMA OnStatesFacts ==
  ASSUME NEW doc, Readable(doc), NEW S \in SUBSET DOMAIN doc.stes
  PROVE  /\ OnStates(S) \subseteq AutomatonOf(doc).states
         /\ q_root \notin OnStates(S) /\ q_first \notin OnStates(S)
         /\ \A j \in DOMAIN doc.stes : 2 + j \in OnStates(S) <=> j \in S
<1>1. Len(doc.stes) \in Nat /\ DOMAIN doc.stes = 1 .. Len(doc.stes)
  BY ReadableFacts
<1>2. AutomatonOf(doc).states = 0 .. 2 + Len(doc.stes)
  BY DEF AutomatonOf
<1>3. \A j \in S : j \in Nat /\ j # 0 /\ j <= Len(doc.stes)
  BY <1>1
<1>4. OnStates(S) \subseteq AutomatonOf(doc).states
  BY <1>1, <1>2, <1>3 DEF OnStates, q_all
<1>5. q_root \notin OnStates(S) /\ q_first \notin OnStates(S)
  BY <1>3 DEF OnStates, q_all, q_root, q_first
<1>6. \A j \in DOMAIN doc.stes : 2 + j \in OnStates(S) <=> j \in S
  BY <1>1, <1>3 DEF OnStates, q_all
<1> QED  BY <1>4, <1>5, <1>6

(* The run begins in all three start states. *)
LEMMA SeedClosure ==
  ASSUME NEW doc, Readable(doc)
  PROVE  Closure(AutomatonOf(doc), {AutomatonOf(doc).start}) = {q_root, q_all, q_first}
<1> DEFINE A == AutomatonOf(doc)
           T == {q_root, q_all, q_first}
<1>1. /\ A.states = 0 .. 2 + Len(doc.stes) /\ A.start = q_root
      /\ A.eps = {<<q_root, q_all>>, <<q_root, q_first>>}
  BY DEF AutomatonOf
<1>2. Len(doc.stes) \in Nat
  BY ReadableFacts
<1> HIDE DEF A
<1>3. T \subseteq A.states
  BY <1>1, <1>2 DEF q_root, q_all, q_first
<1>4. EpsClosed(A, T)
  BY <1>1 DEF EpsClosed
<1>5. Closure(A, {A.start}) \subseteq T
  BY <1>1, <1>3, <1>4 DEF Closure
<1>6. ASSUME NEW Z \in SUBSET A.states, {A.start} \subseteq Z, EpsClosed(A, Z)
      PROVE  T \subseteq Z
  BY <1>1, <1>6 DEF EpsClosed
<1>7. T \subseteq Closure(A, {A.start})
  BY <1>3, <1>6 DEF Closure
<1> QED  BY <1>5, <1>7 DEF A

(* Only q_root has epsilon edges, and the run never comes back to it. *)
LEMMA ElementClosure ==
  ASSUME NEW doc, NEW X \in SUBSET AutomatonOf(doc).states, q_root \notin X
  PROVE  Closure(AutomatonOf(doc), X) = X
<1> DEFINE A == AutomatonOf(doc)
<1>1. A.eps = {<<q_root, q_all>>, <<q_root, q_first>>}
  BY DEF AutomatonOf
<1> HIDE DEF A
<1>2. EpsClosed(A, X)
  BY <1>1 DEF EpsClosed
<1> QED  BY <1>2 DEF Closure, A

(* A byte takes the states that stand for a set of elements to the ones    *)
(* that stand for the elements active next.                                *)
LEMMA MoveIsNextOn ==
  ASSUME NEW doc, Readable(doc), ~NamesWildcard(doc), NEW byte \in Bytes,
         NEW S \in SUBSET DOMAIN doc.stes, NEW p,
         NEW X \in SUBSET AutomatonOf(doc).states, q_all \in X, q_first \in X <=> p = 1,
         \A j \in DOMAIN doc.stes : 2 + j \in X <=> j \in S
  PROVE  Move(AutomatonOf(doc), X, byte) = OnStates(NextOn(doc, p, S, byte))
<1> DEFINE A == AutomatonOf(doc)
           D == DOMAIN doc.stes
<1>1. \A e : e \in A.sym <=>
         e = <<q_all, AnySymbol, q_all>> \/ \E j \in D : EdgeInto(doc, e, j)
  BY EdgesOfAutomaton
<1>2. \A j \in D : (\E c \in Symset(doc, j) : Fires(c, byte)) <=> Denotes(doc.stes[j].symbols, byte)
  BY FiresDenotes
<1> HIDE DEF A
<1>3. ASSUME NEW t \in Move(A, X, byte)
      PROVE  t \in OnStates(NextOn(doc, p, S, byte))
  <2>1. PICK e \in A.sym : e[1] \in X /\ Fires(e[2], byte) /\ e[3] = t
    BY DEF Move
  <2>2. CASE e = <<q_all, AnySymbol, q_all>>
    BY <2>1, <2>2 DEF OnStates
  <2>3. ASSUME NEW j \in D, EdgeInto(doc, e, j)
        PROVE  t \in OnStates(NextOn(doc, p, S, byte))
    <3>1. PICK c \in Symset(doc, j) :
            \/ doc.stes[j].start = "all-input" /\ e = <<q_all, c, 2 + j>>
            \/ doc.stes[j].start = "start-of-data" /\ e = <<q_first, c, 2 + j>>
            \/ \E i \in D : Precedes(doc, i, j) /\ e = <<2 + i, c, 2 + j>>
      BY <2>3 DEF EdgeInto
    <3>2. e[2] = c /\ e[3] = 2 + j
      BY <3>1
    <3>3. Denotes(doc.stes[j].symbols, byte)
      BY <1>2, <2>1, <3>2
    <3>4. \/ doc.stes[j].start = "all-input"
          \/ doc.stes[j].start = "start-of-data" /\ p = 1
          \/ \E i \in S : Precedes(doc, i, j)
      <4>1. CASE doc.stes[j].start = "all-input"
        BY <4>1
      <4>2. CASE doc.stes[j].start = "start-of-data" /\ e = <<q_first, c, 2 + j>>
        BY <4>2, <2>1
      <4>3. ASSUME NEW i \in D, Precedes(doc, i, j), e = <<2 + i, c, 2 + j>>
            PROVE  i \in S /\ Precedes(doc, i, j)
        BY <4>3, <2>1
      <4> QED  BY <3>1, <4>1, <4>2, <4>3
    <3>5. j \in NextOn(doc, p, S, byte)
      BY <3>3, <3>4 DEF NextOn
    <3> QED  BY <2>1, <3>2, <3>5 DEF OnStates
  <2> QED  BY <1>1, <2>1, <2>2, <2>3
<1>4. q_all \in Move(A, X, byte)
  <2> DEFINE e == <<q_all, AnySymbol, q_all>>
  <2>1. e \in A.sym /\ e[1] \in X /\ Fires(e[2], byte) /\ e[3] = q_all
    BY <1>1 DEF Fires
  <2> HIDE DEF e
  <2> QED  BY <2>1 DEF Move
<1>5. ASSUME NEW j \in NextOn(doc, p, S, byte)
      PROVE  2 + j \in Move(A, X, byte)
  <2>1. j \in D /\ Denotes(doc.stes[j].symbols, byte)
        /\ \/ doc.stes[j].start = "all-input"
           \/ doc.stes[j].start = "start-of-data" /\ p = 1
           \/ \E i \in S : Precedes(doc, i, j)
    BY DEF NextOn
  <2>2. PICK c \in Symset(doc, j) : Fires(c, byte)
    BY <1>2, <2>1
  <2>3. \E src \in X : EdgeInto(doc, <<src, c, 2 + j>>, j)
    <3>1. CASE doc.stes[j].start = "all-input"
      <4>1. EdgeInto(doc, <<q_all, c, 2 + j>>, j)
        BY <3>1 DEF EdgeInto
      <4> QED  BY <4>1
    <3>2. CASE doc.stes[j].start = "start-of-data" /\ p = 1
      <4>1. EdgeInto(doc, <<q_first, c, 2 + j>>, j)
        BY <3>2 DEF EdgeInto
      <4> QED  BY <3>2, <4>1
    <3>3. ASSUME NEW i \in S, Precedes(doc, i, j)
          PROVE  2 + i \in X /\ EdgeInto(doc, <<2 + i, c, 2 + j>>, j)
      <4>1. i \in D /\ 2 + i \in X
        OBVIOUS
      <4> QED  BY <3>3, <4>1 DEF EdgeInto
    <3> QED  BY <2>1, <3>1, <3>2, <3>3
  <2>4. PICK src \in X : EdgeInto(doc, <<src, c, 2 + j>>, j)
    BY <2>3
  <2> DEFINE e == <<src, c, 2 + j>>
  <2>5. e \in A.sym /\ e[1] \in X /\ Fires(e[2], byte) /\ e[3] = 2 + j
    BY <1>1, <2>1, <2>2, <2>4
  <2> HIDE DEF e
  <2> QED  BY <2>5 DEF Move
<1>6. OnStates(NextOn(doc, p, S, byte)) \subseteq Move(A, X, byte)
  BY <1>4, <1>5 DEF OnStates
<1> QED  BY <1>3, <1>6 DEF A

-----------------------------------------------------------------------------

(* The elements active after each byte, by the equations that define them. *)
IsOn(o, doc, w) ==
  o = [p \in 0 .. Len(w) |->
         IF p = 0 THEN {}
         ELSE {j \in DOMAIN doc.stes :
                 /\ Denotes(doc.stes[j].symbols, w[p])
                 /\ \/ doc.stes[j].start = "all-input"
                    \/ doc.stes[j].start = "start-of-data" /\ p = 1
                    \/ \E i \in o[p - 1] : Precedes(doc, i, j)}]

(* The recursive definition of the active elements, unfolded. *)
LEMMA ActiveElementsFacts ==
  ASSUME NEW doc, NEW w \in Seq(Bytes)
  PROVE  /\ ActiveElements(doc, w)[0] = {}
         /\ \A p \in 1 .. Len(w) :
              /\ ActiveElements(doc, w)[p] \in SUBSET DOMAIN doc.stes
              /\ ActiveElements(doc, w)[p] =
                   NextOn(doc, p, ActiveElements(doc, w)[p - 1], w[p])
<1> DEFINE N == Len(w)
           V == SUBSET DOMAIN doc.stes
           step == [q \in (1 .. N) \X V |-> NextOn(doc, q[1], q[2], w[q[1]])]
           on == ActiveElements(doc, w)
<1>1. N \in Nat
  OBVIOUS
<1>2. IsStep(step, N, V) /\ \A p \in 1 .. N, S \in V : step[<<p, S>>] = NextOn(doc, p, S, w[p])
  <2>1. \A p, S : NextOn(doc, p, S, w[p]) \in V
    BY DEF NextOn
  <2> HIDE DEF N, V
  <2> QED  BY <2>1 DEF IsStep
<1>3. PICK g : Iterates(g, N, V, {}, step)
  <2>1. {} \in V
    OBVIOUS
  <2> HIDE DEF N, V, step
  <2> QED  BY <1>1, <1>2, <2>1, Iteration
<1>4. IsOn(g, doc, w)
  <2>1. g \in [0 .. N -> V] /\ g[0] = {}
    <3> HIDE DEF N, V, step
    <3> QED  BY <1>3 DEF Iterates
  <2>2. ASSUME NEW p \in 1 .. N
        PROVE  g[p] = NextOn(doc, p, g[p - 1], w[p])
    <3>1. g[p] = step[<<p, g[p - 1]>>]
      <4> HIDE DEF N, V, step
      <4> QED  BY <1>3 DEF Iterates
    <3>2. g[p - 1] \in V
      <4>1. p - 1 \in 0 .. N
        BY <1>1
      <4> HIDE DEF N, V
      <4> QED  BY <2>1, <4>1
    <3> HIDE DEF N, V, step
    <3> QED  BY <1>2, <3>1, <3>2
  <2>3. g = [p \in 0 .. N |-> IF p = 0 THEN {} ELSE NextOn(doc, p, g[p - 1], w[p])]
    <3> HIDE DEF N, V
    <3> QED  BY <1>1, <2>1, <2>2
  <2> QED  BY <2>3 DEF IsOn, NextOn
<1>5. IsOn(on, doc, w)
  <2>1. on = CHOOSE o : IsOn(o, doc, w)
    BY DEF ActiveElements, IsOn
  <2> QED  BY <1>4, <2>1
<1>6. on = [p \in 0 .. N |-> IF p = 0 THEN {} ELSE NextOn(doc, p, on[p - 1], w[p])]
  BY <1>5 DEF IsOn, NextOn
<1> HIDE DEF on
<1>7. on[0] = {} /\ \A p \in 1 .. N : on[p] = NextOn(doc, p, on[p - 1], w[p])
  <2> DEFINE next(p) == NextOn(doc, p, on[p - 1], w[p])
  <2>1. on = [p \in 0 .. N |-> IF p = 0 THEN {} ELSE next(p)]
    BY <1>6
  <2>2. on[0] = {} /\ \A p \in 1 .. N : on[p] = next(p)
    <3> HIDE DEF N, next
    <3> QED  BY <1>1, <2>1
  <2> QED  BY <2>2
<1>8. \A p \in 1 .. N : on[p] \in V
  <2> TAKE p \in 1 .. N
  <2>1. NextOn(doc, p, on[p - 1], w[p]) \in V
    BY DEF NextOn
  <2> HIDE DEF V, N
  <2> QED  BY <1>7, <2>1, Zenon
<1>9. /\ on[0] = {}
      /\ \A p \in 1 .. Len(w) :
           on[p] \in SUBSET DOMAIN doc.stes /\ on[p] = NextOn(doc, p, on[p - 1], w[p])
  BY <1>7, <1>8, Zenon
<1> QED  BY <1>9, Zenon DEF on

-----------------------------------------------------------------------------
(* What loads has been read whole. *)

(* A document that loads is readable, and its automaton well formed.       *)
LEMMA LoadedFacts ==
  ASSUME NEW doc, IsDocument(doc), Loads(doc)
  PROVE  /\ Readable(doc)
         /\ ReadBack(load_anml(doc)) = AutomatonOf(doc)
         /\ IsAutomaton(AutomatonOf(doc)) /\ IsNumbered(AutomatonOf(doc))
<1>1. Readable(doc) /\ ~BuildRaises(Built(doc))
  BY DEF Readable, Loads
<1>2. ReadBack(load_anml(doc)) = AutomatonOf(doc)
  BY ReaderCorrect
<1>3. IsBuilder(Built(doc))
  BY <1>1, BuiltDenotes
<1>4. IsAutomaton(ReadBack(build(Built(doc)))) /\ IsNumbered(ReadBack(build(Built(doc))))
  BY <1>1, <1>3, BuiltIsAutomaton
<1> QED  BY <1>1, <1>2, <1>4 DEF load_anml

(* Every id is kept, none merged with another.                             *)
LEMMA IdsCounted ==
  ASSUME NEW doc, Readable(doc)
  PROVE  Cardinality(Ids(doc) \ {NoName}) = Len(doc.stes)
<1> DEFINE n == Len(doc.stes)
           id == [j \in 1 .. n |-> doc.stes[j].id]
<1>1. n \in Nat /\ DOMAIN doc.stes = 1 .. n
  BY ReadableFacts
<1>2. Ids(doc) \ {NoName} = Ids(doc)
  BY ReadableFacts DEF Ids
<1>3. id \in Bijection(1 .. n, Ids(doc))
  <2>1. \A j \in 1 .. n : id[j] = doc.stes[j].id
    OBVIOUS
  <2>2. id \in [1 .. n -> Ids(doc)]
    <3> HIDE DEF n
    <3> QED  BY <1>1 DEF Ids
  <2>3. \A i, j \in 1 .. n : id[i] = id[j] => i = j
    <3> HIDE DEF n, id
    <3> QED  BY <1>1, <2>1, ReadableFacts
  <2>4. \A x \in Ids(doc) : \E j \in 1 .. n : id[j] = x
    <3> HIDE DEF n, id
    <3> QED  BY <1>1, <2>1 DEF Ids
  <2> HIDE DEF n, id
  <2> QED  BY <2>2, <2>3, <2>4 DEF Bijection, Injection, Surjection, IsInjective
<1>4. ExistsBijection(1 .. n, Ids(doc))
  <2> HIDE DEF n, id
  <2> QED  BY <1>3 DEF ExistsBijection
<1>5. IsFiniteSet(1 .. n) /\ Cardinality(1 .. n) = n
  <2> HIDE DEF n
  <2>1. n = 0 \/ ~(1 > n)
    BY <1>1
  <2>2. n - 1 + 1 = n
    BY <1>1
  <2> QED  BY <1>1, <2>1, <2>2, FS_Interval
<1> HIDE DEF n
<1>6. Cardinality(Ids(doc)) = n
  BY <1>4, <1>5, FS_Bijection
<1> QED  BY <1>2, <1>6 DEF n

(* A class that raises neither as empty nor as inverted names something.   *)
LEMMA ClassNamesSymbol ==
  ASSUME NEW s \in SymbolSetForms, ~SymbolSetRaises(s), s.form = "class", ~s.negate
  PROVE  parse_symbol_set(s) # {}
<1>1. s.items \in Seq(Nat \X Nat) /\ s.items # <<>>
  BY DEF SymbolSetForms, SymbolSetRaises
<1>2. 1 \in DOMAIN s.items /\ s.items[1] \in Nat \X Nat
  BY <1>1
<1>3. ~(s.items[1][2] < s.items[1][1])
  BY <1>2 DEF SymbolSetRaises
<1>4. s.items[1][1] \in s.items[1][1] .. s.items[1][2]
  BY <1>2, <1>3
<1>5. parse_symbol_set(s) = UNION {s.items[i][1] .. s.items[i][2] : i \in DOMAIN s.items}
  BY DEF parse_symbol_set
<1> QED  BY <1>2, <1>4, <1>5

(* An element some edge leads into can fire: the builder refuses a symbol  *)
(* that is no byte.                                                        *)
LEMMA EnteredCanFire ==
  ASSUME NEW doc, IsDocument(doc), Loads(doc), ~NamesWildcard(doc),
         NEW j \in DOMAIN doc.stes, Entered(doc, j)
  PROVE  doc.stes[j].symbols.negate \/ \E byte \in Bytes : Denotes(doc.stes[j].symbols, byte)
<1> DEFINE s == doc.stes[j].symbols
<1>1. Readable(doc) /\ IsAutomaton(AutomatonOf(doc))
  BY LoadedFacts
<1>2. s \in SymbolSetForms /\ ~SymbolSetRaises(s) /\ Symset(doc, j) = parse_symbol_set(s)
  BY <1>1, ReadableFacts DEF Symset
<1>3. s.form \in {"star", "class"} /\ s.negate \in BOOLEAN
  <2> HIDE DEF s
  <2> QED  BY <1>2 DEF SymbolSetForms, SymbolSetRaises
<1>4. CASE s.form = "star"
  <2>1. 0 \in Bytes
    BY AlphabetAssumption
  <2> QED  BY <2>1, <1>4 DEF Denotes
<1>5. CASE s.form = "class" /\ ~s.negate
  <2>1. PICK c \in Symset(doc, j) : TRUE
    <3> HIDE DEF s
    <3> QED  BY <1>2, <1>5, ClassNamesSymbol
  <2>2. c # AnySymbol
    <3>1. s # Star
      BY <1>5 DEF Star
    <3> QED  BY <1>2, <1>5, <2>1, <3>1 DEF NamesWildcard
  <2>3. \E src : EdgeInto(doc, <<src, c, 2 + j>>, j)
    <3>1. CASE doc.stes[j].start = "all-input"
      BY <3>1 DEF EdgeInto
    <3>2. CASE doc.stes[j].start = "start-of-data"
      BY <3>2 DEF EdgeInto
    <3>3. ASSUME NEW i \in DOMAIN doc.stes, Precedes(doc, i, j)
          PROVE  EdgeInto(doc, <<2 + i, c, 2 + j>>, j)
      BY <3>3 DEF EdgeInto
    <3> QED  BY <3>1, <3>2, <3>3 DEF Entered
  <2>4. PICK src : <<src, c, 2 + j>> \in AutomatonOf(doc).sym
    BY <2>3, EdgesOfAutomaton
  <2>5. c \in Bytes
    BY <1>1, <2>2, <2>4 DEF IsAutomaton
  <2>6. Denotes(s, c)
    BY <1>1, <2>1, <2>5, FiresDenotes DEF Fires
  <2> QED  BY <2>5, <2>6
<1> QED  BY <1>3, <1>4, <1>5

(* A document that loads has a meaning: nothing in it was passed over. *)
LEMMA ReadWhole ==
  ASSUME NEW doc, IsDocument(doc), Loads(doc), ~NamesWildcard(doc)
  PROVE  HasMeaning(doc)
<1>1. Readable(doc)
  BY LoadedFacts
<1>2. doc.tags \cap {"counter", "and", "or", "nor", "inverter"} = {}
  BY <1>1 DEF Readable, DocumentRaises, AllowedTags
<1>3. \A i \in DOMAIN doc.stes : \A k \in DOMAIN doc.stes[i].activates :
        \E j \in DOMAIN doc.stes : Names(doc, doc.stes[i].activates[k], doc.stes[j].id)
  BY <1>1, EveryNameResolves, ResolveNames
<1> QED  BY <1>1, <1>2, <1>3, IdsCounted, EnteredCanFire DEF HasMeaning

-----------------------------------------------------------------------------
(* The run of the automaton of a document, and the verdict. *)

(* The configurations of the contract, one byte after the other.           *)
LEMMA SliceFacts ==
  ASSUME IsAutomaton(nfa), input \in Seq(Bytes)
  PROVE  /\ Contract!Slice(0) = Closure(nfa, {nfa.start})
         /\ \A p \in Nat : p < Len(input) =>
              Contract!Slice(p + 1) = Closure(nfa, Move(nfa, Contract!Slice(p), input[p + 1]))
<1> USE DEF Contract!Fires, ContractProofs!Fires, Fires
<1>1. ContractProofs!WellFormed
  BY DEF ContractProofs!WellFormed, ContractProofs!IsAutomaton, IsAutomaton
<1>2. \A a \in Automata : ContractProofs!IsAutomaton(a)
  BY AutomataAssumption DEF IsAutomaton, ContractProofs!IsAutomaton
<1>3. ContractProofs!Slice(0) = ContractProofs!Closure(nfa, {nfa.start})
  BY <1>1, <1>2, WildcardAssumption, InputsAssumption, ContractProofs!FirstSlice
<1>4. \A p \in Nat : p < Len(input) =>
        ContractProofs!Slice(p + 1) =
          ContractProofs!Closure(nfa, ContractProofs!Move(nfa, ContractProofs!Slice(p), input[p + 1]))
  BY <1>1, <1>2, WildcardAssumption, InputsAssumption, ContractProofs!NextSlice
<1>5. \A X : ContractProofs!Closure(nfa, X) = Closure(nfa, X)
  BY DEF ContractProofs!Closure, ContractProofs!EpsClosed, Closure, EpsClosed
<1>6. \A X, b : ContractProofs!Move(nfa, X, b) = Move(nfa, X, b)
  BY DEF ContractProofs!Move, Move
<1>7. \A p : ContractProofs!Slice(p) = Contract!Slice(p)
  BY DEF Contract!Slice, Contract!Reached, Contract!Configs, Contract!PathClosed,
         ContractProofs!Slice, ContractProofs!Reached, ContractProofs!Configs,
         ContractProofs!PathClosed
<1> QED  BY <1>3, <1>4, <1>5, <1>6, <1>7

(* Behind p bytes of the input the contract's configuration is the set of  *)
(* elements active there.                                                  *)
LEMMA DocumentSlices ==
  ASSUME NEW doc, Readable(doc), ~NamesWildcard(doc),
         nfa = AutomatonOf(doc), IsAutomaton(nfa), input \in Seq(Bytes)
  PROVE  /\ Contract!Slice(0) = {q_root, q_all, q_first}
         /\ \A p \in 1 .. Len(input) :
              Contract!Slice(p) = OnStates(ActiveElements(doc, input)[p])
<1> DEFINE on == ActiveElements(doc, input)
           Sl(p) == Contract!Slice(p)
           N == Len(input)
           T == {p \in Nat : p < N => Sl(p + 1) = OnStates(on[p + 1])}
<1>1. N \in Nat
  OBVIOUS
<1>2. Sl(0) = {q_root, q_all, q_first}
  BY SliceFacts, SeedClosure
<1>3. on[0] = {} /\ \A p \in 1 .. N : on[p] \in SUBSET DOMAIN doc.stes
                                       /\ on[p] = NextOn(doc, p, on[p - 1], input[p])
  BY ActiveElementsFacts
<1> HIDE DEF on, Sl
<1>4. ASSUME NEW p \in Nat, p < N,
             on[p] \in SUBSET DOMAIN doc.stes,
             Sl(p) \in SUBSET nfa.states, q_all \in Sl(p), q_first \in Sl(p) <=> p = 0,
             \A j \in DOMAIN doc.stes : 2 + j \in Sl(p) <=> j \in on[p]
      PROVE  Sl(p + 1) = OnStates(on[p + 1])
  <2>1. p + 1 \in 1 .. N /\ (p + 1) - 1 = p /\ (p + 1 = 1 <=> p = 0) /\ input[p + 1] \in Bytes
    BY <1>1, <1>4
  <2>2. Sl(p + 1) = Closure(nfa, Move(nfa, Sl(p), input[p + 1]))
    BY <1>4, SliceFacts DEF Sl
  <2>3. Move(nfa, Sl(p), input[p + 1]) = OnStates(NextOn(doc, p + 1, on[p], input[p + 1]))
    <3> HIDE DEF N
    <3> QED  BY <1>4, <2>1, MoveIsNextOn
  <2>4. on[p + 1] = NextOn(doc, p + 1, on[p], input[p + 1])
    BY <1>3, <2>1
  <2>6. Move(nfa, Sl(p), input[p + 1]) = OnStates(on[p + 1])
    BY <2>3, <2>4
  <2>7. on[p + 1] \in SUBSET DOMAIN doc.stes
    BY <1>3, <2>1
  <2>8. OnStates(on[p + 1]) \in SUBSET AutomatonOf(doc).states /\ q_root \notin OnStates(on[p + 1])
    BY <2>7, OnStatesFacts
  <2> QED  BY <2>2, <2>6, <2>8, ElementClosure
<1>5. 0 \in T
  <2> SUFFICES ASSUME 0 < N
               PROVE  Sl(0 + 1) = OnStates(on[0 + 1])
    OBVIOUS
  <2>1. Sl(0) \in SUBSET nfa.states
    BY DEF Sl, Contract!Slice
  <2>2. q_all \in Sl(0) /\ q_first \in Sl(0)
    BY <1>2
  <2>3. \A j \in DOMAIN doc.stes : 2 + j \in Sl(0) <=> j \in on[0]
    <3>1. \A j \in DOMAIN doc.stes : j \in Nat /\ j # 0
      BY ReadableFacts
    <3> QED  BY <1>2, <1>3, <3>1 DEF q_root, q_all, q_first
  <2>4. on[0] \in SUBSET DOMAIN doc.stes
    BY <1>3
  <2> HIDE DEF N
  <2> QED  BY <1>4, <2>1, <2>2, <2>3, <2>4
<1>6. ASSUME NEW p \in Nat, p \in T
      PROVE  p + 1 \in T
  <2> SUFFICES ASSUME p + 1 < N
               PROVE  Sl((p + 1) + 1) = OnStates(on[(p + 1) + 1])
    OBVIOUS
  <2>1. p + 1 \in Nat /\ p + 1 \in 1 .. N /\ p < N /\ p + 1 # 0
    BY <1>1
  <2> HIDE DEF N
  <2>2. Sl(p + 1) = OnStates(on[p + 1])
    BY <1>6, <2>1
  <2>3. on[p + 1] \in SUBSET DOMAIN doc.stes
    BY <1>3, <2>1
  <2>4. /\ OnStates(on[p + 1]) \subseteq AutomatonOf(doc).states
        /\ q_first \notin OnStates(on[p + 1])
        /\ \A j \in DOMAIN doc.stes : 2 + j \in OnStates(on[p + 1]) <=> j \in on[p + 1]
    BY <2>3, OnStatesFacts
  <2>5. q_all \in OnStates(on[p + 1])
    BY DEF OnStates
  <2>6. /\ Sl(p + 1) \in SUBSET nfa.states /\ q_all \in Sl(p + 1)
        /\ q_first \in Sl(p + 1) <=> p + 1 = 0
        /\ \A j \in DOMAIN doc.stes : 2 + j \in Sl(p + 1) <=> j \in on[p + 1]
    BY <2>1, <2>2, <2>4, <2>5
  <2> QED  BY <1>4, <2>1, <2>3, <2>6
<1>7. \A p \in Nat : p \in T
  <2> HIDE DEF T
  <2> QED  BY <1>5, <1>6, NatSetInduction
<1>8. ASSUME NEW p \in 1 .. N
      PROVE  Sl(p) = OnStates(on[p])
  <2>1. p - 1 \in Nat /\ p - 1 < N /\ (p - 1) + 1 = p
    BY <1>1
  <2>2. p - 1 \in T
    BY <1>7, <2>1
  <2> HIDE DEF N
  <2> QED  BY <2>1, <2>2
<1> QED  BY <1>2, <1>8 DEF Sl, on

(* A prefix matches when some element active behind it reports.            *)
LEMMA MatchIsReport ==
  ASSUME NEW doc, Readable(doc), ~NamesWildcard(doc),
         nfa = AutomatonOf(doc), IsAutomaton(nfa), input \in Seq(Bytes)
  PROVE  /\ ~Contract!MatchesAt(0)
         /\ \A p \in 1 .. Len(input) :
              Contract!MatchesAt(p) <=>
                \E j \in ActiveElements(doc, input)[p] : doc.stes[j].reports
<1> DEFINE on == ActiveElements(doc, input)
           D == DOMAIN doc.stes
<1>1. nfa.accept = {2 + j : j \in {h \in D : doc.stes[h].reports}}
  BY DEF AutomatonOf
<1>2. \A j \in D : j \in Nat /\ j # 0
  BY ReadableFacts
<1>3. \A X : Contract!Accepting(nfa, X) <=> X \cap nfa.accept # {}
  BY DEF Contract!Accepting
<1>4. ~Contract!MatchesAt(0)
  <2>1. Contract!Slice(0) = {q_root, q_all, q_first}
    BY DocumentSlices
  <2>2. {q_root, q_all, q_first} \cap nfa.accept = {}
    BY <1>1, <1>2 DEF q_root, q_all, q_first
  <2> QED  BY <1>3, <2>1, <2>2 DEF Contract!MatchesAt
<1>5. ASSUME NEW p \in 1 .. Len(input)
      PROVE  Contract!MatchesAt(p) <=> \E j \in on[p] : doc.stes[j].reports
  <2>1. Contract!Slice(p) = OnStates(on[p]) /\ on[p] \in SUBSET D
    BY DocumentSlices, ActiveElementsFacts
  <2> HIDE DEF on
  <2>2. \A j \in D : 2 + j \in OnStates(on[p]) <=> j \in on[p]
    BY <2>1, OnStatesFacts
  <2>3. OnStates(on[p]) \cap nfa.accept # {} <=> \E j \in on[p] : doc.stes[j].reports
    BY <1>1, <2>1, <2>2
  <2> QED  BY <1>3, <2>1, <2>3 DEF Contract!MatchesAt
<1> QED  BY <1>4, <1>5

(* The shortest match of the automaton is the first report of the          *)
(* document.                                                               *)
LEMMA VerdictIsFirstReport ==
  ASSUME NEW doc, Readable(doc), ~NamesWildcard(doc),
         nfa = AutomatonOf(doc), IsAutomaton(nfa), input \in Seq(Bytes),
         pc = "done", Contract!ShortestMatch
  PROVE  verdict = FirstReport(doc, input)
<1> DEFINE on == ActiveElements(doc, input)
           N == Len(input)
           ends == {p \in 1 .. N : \E j \in on[p] : doc.stes[j].reports}
           first == CHOOSE p \in ends : \A q \in ends : p <= q
<1>1. N \in Nat
  OBVIOUS
<1>2. AbsPc = "done"
  BY DEF AbsPc, InPrologue
<1>3. \A p \in 1 .. N : Contract!MatchesAt(p) <=> p \in ends
  BY MatchIsReport
<1>4. ~Contract!MatchesAt(0)
  BY MatchIsReport
<1>5. FirstReport(doc, input) = IF ends = {} THEN <<FALSE, 0>> ELSE <<TRUE, first>>
  BY DEF FirstReport
<1>6. \/ /\ verdict = <<FALSE, 0>>
         /\ \A i \in 0 .. N : ~Contract!MatchesAt(i)
      \/ \E i \in 0 .. N :
           /\ verdict = <<TRUE, i>>
           /\ Contract!MatchesAt(i)
           /\ \A j \in 0 .. i - 1 : ~Contract!MatchesAt(j)
  BY <1>2 DEF Contract!ShortestMatch, Contract!NoMatch
<1>7. ends \subseteq 1 .. N
  OBVIOUS
<1> HIDE DEF ends, first, N
<1>8. CASE verdict = <<FALSE, 0>> /\ \A i \in 0 .. N : ~Contract!MatchesAt(i)
  <2>1. ends = {}
    <3> SUFFICES ASSUME NEW p \in ends
                 PROVE  FALSE
      OBVIOUS
    <3>1. p \in 1 .. N /\ p \in 0 .. N
      BY <1>1, <1>7
    <3> QED  BY <1>3, <1>8, <3>1
  <2> QED  BY <1>5, <1>8, <2>1
<1>9. ASSUME NEW i \in 0 .. N, verdict = <<TRUE, i>>, Contract!MatchesAt(i),
             \A j \in 0 .. i - 1 : ~Contract!MatchesAt(j)
      PROVE  verdict = FirstReport(doc, input)
  <2>1. i # 0
    BY <1>4, <1>9
  <2>2. i \in 1 .. N
    BY <1>1, <2>1
  <2>3. i \in ends
    BY <1>3, <1>9, <2>2
  <2>4. ASSUME NEW q \in ends
        PROVE  i <= q
    <3>1. q \in 1 .. N /\ q \in Nat
      BY <1>1, <1>7
    <3>2. Contract!MatchesAt(q)
      BY <1>3, <3>1
    <3>3. q \notin 0 .. i - 1
      BY <1>9, <3>2
    <3> QED  BY <2>2, <3>1, <3>3
  <2>5. \A p \in ends : (\A q \in ends : p <= q) => p = i
    <3> SUFFICES ASSUME NEW p \in ends, p <= i
                 PROVE  p = i
      BY <2>3
    <3>1. i <= p /\ p \in Nat /\ i \in Nat
      BY <1>1, <1>7, <2>4
    <3> QED  BY <3>1
  <2>6. first = i
    BY <2>3, <2>4, <2>5 DEF first
  <2> QED  BY <1>5, <1>9, <2>3, <2>6
<1> QED  BY <1>6, <1>8, <1>9

(* A document goes all the way to its verdict: whatever it says, and with  *)
(* whichever simulator, the position reported is the first at which one of *)
(* its elements reports, and nothing of a document that loads is unread.   *)
THEOREM DocumentsFaithful == Spec => []AnmlFaithful
<1>1. TypeOK /\ Contract!ShortestMatch => AnmlFaithful
  <2> SUFFICES ASSUME TypeOK, Contract!ShortestMatch, pc = "done",
                      NEW load \in Loaded, load[2] = nfa, ~NamesWildcard(load[1])
               PROVE  HasMeaning(load[1]) /\ verdict = FirstReport(load[1], input)
    BY DEF AnmlFaithful
  <2>1. PICK doc \in Documents : Loads(doc) /\ load = <<doc, ReadBack(load_anml(doc))>>
    BY DEF Loaded
  <2>2. IsDocument(doc) /\ ~NamesWildcard(doc)
    BY <2>1, DocumentsAssumption
  <2>3. nfa = AutomatonOf(doc) /\ Readable(doc)
    BY <2>1, <2>2, LoadedFacts
  <2>4. IsAutomaton(nfa) /\ input \in Seq(Bytes)
    BY InputsAssumption DEF TypeOK
  <2>5. verdict = FirstReport(doc, input)
    BY <2>2, <2>3, <2>4, VerdictIsFirstReport
  <2>6. HasMeaning(doc)
    BY <2>1, <2>2, ReadWhole
  <2> QED  BY <2>1, <2>5, <2>6
<1> QED  BY <1>1, TypeCorrect, ReportsShortestMatch, PTL
=============================================================================
