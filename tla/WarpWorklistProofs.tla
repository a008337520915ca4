------------------------ MODULE WarpWorklistProofs -------------------------
(***************************************************************************)
(* The lanes of a warp race on no word, their closures are complete, and   *)
(* together they make the moves of the contract: for every automaton and   *)
(* input, any number of lanes, and any number of states per word.          *)
(*                                                                         *)
(* Because every meeting is of all the lanes, they are always in the same  *)
(* phase, and each is at a word of its own.  What a phase has achieved is  *)
(* therefore said once for the whole warp: it holds of the words that      *)
(* their lanes have passed.  When the lanes meet, these are all words.     *)
(***************************************************************************)
EXTENDS WarpWorklist, FiniteSetTheorems, TLAPS

-----------------------------------------------------------------------------
(* The inductive invariant. *)

(* The lanes are in one phase, each at a word of its own; the seed is lane *)
(* 0's alone.                                                              *)
LanesInv ==
  /\ \E ph \in Phases : At(ph)
  /\ \A l \in Lanes : IF At("seed") /\ l # 0 THEN Swept(l) ELSE w[l] % NLanes = l

(* Where in the loop of the string the phases are.                         *)
LoopInv ==
  /\ At("zeroC") \/ At("seed") => taken = 0
  /\ At("zeroN") \/ At("scatterN") \/ At("copyC") => taken > 0
  /\ ~At("done") => verdict = NoMatch
  /\ taken > 0 /\ ~At("copyC") /\ ~At("testC") /\ ~At("done") => ~Accepting(nfa, cur)

(* The lane that owns the word of state s has worked on it.                *)
Passed(s) == WordOf(s) < w[WordOf(s) % NLanes]
PassedOf(X) == {s \in X : Passed(s)}

(* What the closure starts from: the bitmap it does not work on keeps it.  *)
Base == IF taken = 0 THEN {nfa.start} ELSE Move(nfa, cur, input[taken])

(* The epsilon edges that are still to be followed leave the frontier.     *)
DebtInv ==
  /\ frontier \subseteq Closing
  /\ EpsSucc(nfa, Closing \ frontier) \subseteq Closing

ClosureInv ==
  /\ Base \subseteq Closing
  /\ Closing \subseteq Closure(nfa, Base)
  /\ At("copyF") => \A s \in nfa.states : Passed(s) => (s \in frontier <=> s \in Closing)
  /\ At("zeroB") => DebtInv /\ \A s \in nfa.states : Passed(s) => s \notin newb
  /\ At("scatterB") =>
       /\ DebtInv
       /\ EpsSucc(nfa, PassedOf(frontier)) \subseteq newb
       /\ newb \subseteq Closure(nfa, Base)
  /\ At("fold") =>
       /\ frontier \subseteq Closing
       /\ newb \subseteq Closure(nfa, Base)
       /\ PassedOf(newb) \subseteq Closing
       /\ EpsSucc(nfa, Closing \ PassedOf(frontier)) \subseteq Closing \cup newb
       /\ PassedOf(frontier) # {} => Ballot

(* The phases outside the closure.                                         *)
PhaseInv ==
  /\ At("zeroC") => \A s \in nfa.states : Passed(s) => s \notin cur
  /\ At("seed") => cur \subseteq {nfa.start} /\ (w[0] > 0 => nfa.start \in cur)
  /\ At("zeroN") => \A s \in nfa.states : Passed(s) => s \notin nxt
  /\ At("scatterN") =>
       /\ nxt \subseteq Base
       /\ Move(nfa, PassedOf(cur), input[taken]) \subseteq nxt
  /\ At("copyC") => \A s \in nfa.states : Passed(s) => (s \in cur <=> s \in nxt)
  /\ At("testC") =>
       /\ Ballot => Accepting(nfa, cur)
       /\ Accepting(nfa, PassedOf(cur)) => Ballot

InClosure == \E ph \in ClosurePhases : At(ph)

IInv ==
  /\ TypeOK
  /\ LanesInv
  /\ LoopInv
  /\ InClosure => ClosureInv
  /\ PhaseInv

-----------------------------------------------------------------------------
(* Facts about words, lanes and states. *)

(* Between a word of a lane and the next one it sweeps there is none that  *)
(* it owns.                                                                *)
LEMMA NextOfResidue ==
  ASSUME NEW a \in Nat, NEW b \in Nat \ {0}
  PROVE  /\ (a + b) % b = a % b
         /\ \A e \in Nat : e % b = a % b /\ e < a + b => e < a \/ e = a
<1> DEFINE q == a \div b
           r == a % b
<1>1. q \in Nat /\ r \in 0 .. b - 1 /\ a = b * q + r
  OBVIOUS
<1>2. a + b = b * (q + 1) + r
  <2> HIDE DEF q, r
  <2> QED  BY <1>1
<1>3. (a + b) % b = r
  <2> DEFINE p == (a + b) \div b
             v == (a + b) % b
  <2>1. p \in Nat /\ v \in 0 .. b - 1 /\ a + b = b * p + v
    OBVIOUS
  <2> HIDE DEF p, v, q, r
  <2>2. b * p + v = b * (q + 1) + r
    BY <2>1, <1>2
  <2>3. p = q + 1
    <3>1. CASE p > q + 1
      <4>1. b * p >= b * (q + 2)
        BY <3>1, <2>1, <1>1
      <4> QED  BY <4>1, <2>1, <2>2, <1>1
    <3>2. CASE p < q + 1
      <4>1. b * (p + 1) <= b * (q + 1)
        BY <3>2, <2>1, <1>1
      <4> QED  BY <4>1, <2>1, <2>2, <1>1
    <3> QED  BY <3>1, <3>2, <2>1, <1>1
  <2>4. v = r
    BY <2>1, <2>2, <2>3, <1>1
  <2> QED  BY <2>4 DEF v
<1>4. ASSUME NEW e \in Nat, e % b = r, e < a + b
      PROVE  e < a \/ e = a
  <2> DEFINE p == e \div b
  <2>1. p \in Nat /\ e = b * p + r
    BY <1>4
  <2> HIDE DEF p, q, r
  <2>2. b * p < b * (q + 1)
    BY <2>1, <1>1, <1>2, <1>4
  <2>3. p <= q
    <3> SUFFICES ASSUME p >= q + 1 PROVE FALSE
      BY <2>1, <1>1
    <3>1. b * p >= b * (q + 1)
      BY <2>1, <1>1
    <3> QED  BY <3>1, <2>1, <2>2, <1>1
  <2>4. b * p <= b * q
    BY <2>1, <2>3, <1>1
  <2> QED  BY <2>1, <2>4, <1>1
<1> QED  BY <1>3, <1>4

(* What the assumptions say of the automaton and input of a warp. *)
LEMMA WarpFacts ==
  ASSUME TypeOK
  PROVE  /\ IsAutomaton(nfa)
         /\ nfa.start \in nfa.states
         /\ nfa.states \subseteq Nat
         /\ Len(input) \in Nat
         /\ taken \in Nat
         /\ 0 \in Lanes
         /\ Lanes \subseteq Nat
<1>1. IsAutomaton(nfa) /\ IsNumbered(nfa) /\ Len(input) \in Nat
  BY AutomataAssumption, InputsAssumption DEF TypeOK
<1>2. nfa.start \in nfa.states /\ nfa.states \subseteq Nat
  <2>1. IsFiniteSet(nfa.states) /\ nfa.states = 0 .. Cardinality(nfa.states) - 1
    BY <1>1 DEF IsNumbered
  <2>2. Cardinality(nfa.states) \in Nat
    BY <2>1, FS_CardinalityType
  <2> QED  BY <1>1, <2>1, <2>2 DEF IsAutomaton
<1>3. taken \in Nat
  BY <1>1 DEF TypeOK
<1>4. 0 \in Lanes /\ Lanes \subseteq Nat
  BY WarpAssumption DEF Lanes
<1> QED  BY <1>1, <1>2, <1>3, <1>4

(* Every state has a word, and every word an owner. *)
LEMMA WordFacts ==
  ASSUME TypeOK, NEW s \in nfa.states
  PROVE  /\ WordOf(s) \in Nat
         /\ WordOf(s) < NumWords
         /\ WordOf(s) % NLanes \in Lanes
         /\ NumWords \in Nat
<1> DEFINE n == Cardinality(nfa.states)
           b == WordBits
           q == (n + b - 1) \div b
           v == s \div b
<1>1. IsFiniteSet(nfa.states) /\ nfa.states = 0 .. n - 1
  BY AutomataAssumption DEF TypeOK, IsNumbered
<1>2. n \in Nat /\ b \in Nat \ {0} /\ s \in Nat /\ s < n
  BY <1>1, FS_CardinalityType, WarpAssumption
<1>3. q \in Nat /\ (n + b - 1) % b \in 0 .. b - 1 /\ n + b - 1 = b * q + ((n + b - 1) % b)
  <2> HIDE DEF n, b
  <2> QED  BY <1>2
<1>4. n <= b * q
  <2> HIDE DEF n, b, q
  <2> QED  BY <1>2, <1>3
<1>5. v \in Nat /\ b * v <= s
  <2> HIDE DEF n, b
  <2> QED  BY <1>2
<1>6. v < q
  <2> HIDE DEF n, b, q, v
  <2> SUFFICES ASSUME v >= q PROVE FALSE
    BY <1>3, <1>5
  <2>1. b * v >= b * q
    BY <1>2, <1>3, <1>5
  <2> QED  BY <2>1, <1>2, <1>3, <1>4, <1>5
<1>7. v % NLanes \in 0 .. NLanes - 1
  BY <1>5, WarpAssumption
<1>8. WordOf(s) = v /\ NumWords = q
  BY DEF WordOf, NumWords
<1> QED  BY <1>3, <1>5, <1>6, <1>7, <1>8 DEF Lanes

(* The words of a state set are passed all at once when the lanes have     *)
(* swept, and none is when a phase begins.                                 *)
LEMMA AllPassed ==
  ASSUME TypeOK, \A l \in Lanes : Swept(l)
  PROVE  \A s \in nfa.states : Passed(s)
<1> SUFFICES ASSUME NEW s \in nfa.states
             PROVE  Passed(s)
  OBVIOUS
<1>1. /\ WordOf(s) \in Nat /\ NumWords \in Nat
      /\ WordOf(s) < NumWords /\ WordOf(s) % NLanes \in Lanes
  BY WordFacts
<1>2. w[WordOf(s) % NLanes] \in Nat
  BY <1>1 DEF TypeOK
<1> QED  BY <1>1, <1>2 DEF Passed, Swept

(* At the start of a phase no lane has passed a word.                      *)
LEMMA NonePassed ==
  ASSUME TypeOK, \A l \in Lanes : w[l] = l
  PROVE  \A s \in nfa.states : ~Passed(s)
<1> SUFFICES ASSUME NEW s \in nfa.states
             PROVE  ~Passed(s)
  OBVIOUS
<1>1. WordOf(s) \in Nat /\ WordOf(s) % NLanes \in Lanes
  BY WordFacts
<1>2. w[WordOf(s) % NLanes] = WordOf(s) % NLanes
  BY <1>1
<1>3. PICK v \in Nat : v = WordOf(s)
  BY <1>1
<1>4. v % NLanes \in 0 .. NLanes - 1 /\ v % NLanes <= v
  BY WarpAssumption
<1>5. ~(v < v % NLanes)
  BY <1>4, WarpAssumption
<1> QED  BY <1>1, <1>2, <1>3, <1>5 DEF Passed

-----------------------------------------------------------------------------
(* The lanes. *)

(* The phase of the warp is that of any of its lanes. *)
LEMMA PhaseIs == TypeOK /\ LanesInv => \A ph : At(ph) <=> pc[0] = ph
<1> SUFFICES ASSUME TypeOK, LanesInv, NEW ph
             PROVE  At(ph) <=> pc[0] = ph
  OBVIOUS
<1>1. 0 \in Lanes
  BY WarpFacts
<1>2. PICK x \in Phases : At(x)
  BY DEF LanesInv
<1>3. \A l \in Lanes : pc[l] = x
  BY <1>2 DEF At
<1> QED  BY <1>1, <1>3 DEF At

(* What the work of a lane on a word leaves, and the words it has passed   *)
(* then: that word has joined them.                                        *)
LEMMA LaneFacts ==
  ASSUME TypeOK, LanesInv, NEW l \in Lanes, NEW ph, Sweep(l, ph)
  PROVE  /\ pc[0] = ph
         /\ UNCHANGED <<nfa, input, pc, taken, verdict>>
         /\ w[l] \in Nat /\ w[l] < NumWords
         /\ w' \in [Lanes -> Nat]
         /\ LanesInv'
         /\ \A x : At(x)' <=> At(x)
         /\ \A s \in nfa.states :
              ph # "seed" => (Passed(s)' <=> Passed(s) \/ s \in Word(w[l]))
<1>1. /\ pc[l] = ph /\ ~Swept(l) /\ w' = [w EXCEPT ![l] = @ + NLanes]
      /\ UNCHANGED <<nfa, input, pc, taken, verdict>>
  BY DEF Sweep
<1>2. pc[0] = ph
  <2>1. PICK x \in Phases : At(x)
    BY DEF LanesInv
  <2> QED  BY <1>1, <2>1, WarpFacts DEF At
<1>3. w \in [Lanes -> Nat] /\ w[l] \in Nat /\ w[l] + NLanes \in Nat
  BY WarpAssumption DEF TypeOK
<1>4. w' \in [Lanes -> Nat]
  BY <1>1, <1>3
<1>5. NumWords \in Nat /\ NumWords' = NumWords
  BY <1>1, WarpFacts, WordFacts DEF NumWords
<1>6. w[l] < NumWords
  BY <1>1, <1>3, <1>5 DEF Swept
<1>7. \A x : At(x)' <=> At(x)
  BY <1>1 DEF At
<1>8. w[l] % NLanes = l
  BY <1>1 DEF LanesInv
<1>9. LanesInv'
  <2>1. \E x \in Phases : At(x)'
    BY <1>7 DEF LanesInv
  <2>2. ASSUME NEW m \in Lanes
        PROVE  IF At("seed")' /\ m # 0 THEN Swept(m)' ELSE w'[m] % NLanes = m
    <3>1. CASE m = l
      <4>1. w'[m] = w[l] + NLanes
        BY <3>1, <1>1, <1>3
      <4>2. (w[l] + NLanes) % NLanes = w[l] % NLanes
        BY <1>3, WarpAssumption, NextOfResidue
      <4>3. ~(At("seed")' /\ l # 0)
        BY <1>1, <1>7 DEF LanesInv
      <4> QED  BY <3>1, <4>1, <4>2, <4>3, <1>8
    <3>2. CASE m # l
      <4>1. w'[m] = w[m]
        BY <3>2, <1>1, <1>3
      <4>2. Swept(m)' <=> Swept(m)
        BY <4>1, <1>5 DEF Swept
      <4> QED  BY <4>1, <4>2, <1>7 DEF LanesInv
    <3> QED  BY <3>1, <3>2
  <2> QED  BY <2>1, <2>2 DEF LanesInv
<1>10. ASSUME NEW s \in nfa.states
       PROVE  Passed(s)' <=> Passed(s) \/ s \in Word(w[l])
  <2>1. WordOf(s) \in Nat /\ WordOf(s) % NLanes \in Lanes
    BY WordFacts
  <2>2. s \in Word(w[l]) <=> WordOf(s) = w[l]
    BY DEF Word
  <2>3. Passed(s)' <=> WordOf(s) < w'[WordOf(s) % NLanes]
    BY DEF Passed, WordOf
  <2>4. CASE WordOf(s) % NLanes # l
    <3>1. w'[WordOf(s) % NLanes] = w[WordOf(s) % NLanes]
      BY <2>1, <2>4, <1>1, <1>3
    <3> QED  BY <3>1, <2>2, <2>3, <2>4, <1>8 DEF Passed
  <2>5. CASE WordOf(s) % NLanes = l
    <3>1. w'[l] = w[l] + NLanes
      BY <1>1, <1>3
    <3>2. Passed(s) <=> WordOf(s) < w[l]
      BY <2>5 DEF Passed
    <3>3. PICK a \in Nat, e \in Nat : a = w[l] /\ e = WordOf(s)
      BY <1>3, <2>1
    <3>4. e < a + NLanes => e < a \/ e = a
      BY <3>3, <2>5, <1>8, WarpAssumption, NextOfResidue
    <3>5. e < a \/ e = a => e < a + NLanes
      BY WarpAssumption
    <3> QED  BY <2>2, <2>3, <2>5, <3>1, <3>2, <3>3, <3>4, <3>5
  <2> QED  BY <2>4, <2>5
<1> QED  BY <1>1, <1>2, <1>3, <1>4, <1>6, <1>7, <1>9, <1>10

(* A meeting of the lanes: every word is passed, and the next phase starts *)
(* each lane at its first word.                                            *)
LEMMA MeetFacts ==
  ASSUME TypeOK, LanesInv, NEW ph, NEW to \in Phases, Meet(ph, to)
  PROVE  /\ pc[0] = ph
         /\ UNCHANGED <<nfa, input, cur, nxt, frontier, newb>>
         /\ \A s \in nfa.states : Passed(s)
         /\ pc' = [l \in Lanes |-> to]
         /\ w' = [l \in Lanes |-> FirstWord(to, l)]
         /\ vote' = [l \in Lanes |-> FALSE]
         /\ \A l \in Lanes : Swept(l)
         /\ LanesInv'
         /\ \A x : At(x)' <=> x = to
<1>1. /\ \A l \in Lanes : pc[l] = ph /\ Swept(l)
      /\ pc' = [l \in Lanes |-> to]
      /\ w' = [l \in Lanes |-> FirstWord(to, l)]
      /\ vote' = [l \in Lanes |-> FALSE]
      /\ UNCHANGED <<nfa, input, cur, nxt, frontier, newb>>
  BY DEF Meet, SyncGroups, bitmaps
<1>2. pc[0] = ph
  BY <1>1, WarpFacts
<1>3. \A x : At(x)' <=> x = to
  BY <1>1, WarpFacts DEF At
<1>4. NumWords' = NumWords
  BY <1>1 DEF NumWords
<1>5. ASSUME NEW l \in Lanes
      PROVE  IF At("seed")' /\ l # 0 THEN Swept(l)' ELSE w'[l] % NLanes = l
  <2>1. CASE to = "seed" /\ l # 0
    <3>1. w'[l] = NumWords /\ NumWords \in Nat
      BY <1>1, <2>1, WarpFacts, WordFacts DEF FirstWord
    <3>2. w'[l] >= NumWords'
      BY <3>1, <1>4
    <3> QED  BY <2>1, <3>2, <1>3 DEF Swept
  <2>2. CASE ~(to = "seed" /\ l # 0)
    <3>1. w'[l] = l
      BY <1>1, <2>2 DEF FirstWord
    <3>2. l % NLanes = l
      BY WarpAssumption DEF Lanes
    <3> QED  BY <2>2, <3>1, <3>2, <1>3
  <2> QED  BY <2>1, <2>2
<1>6. LanesInv'
  BY <1>3, <1>5 DEF LanesInv
<1> QED  BY <1>1, <1>2, <1>3, <1>6, AllPassed

-----------------------------------------------------------------------------
(* Edges and closures. *)

(* The edges stay in the automaton, and each leaves one state of a set. *)
LEMMA EdgeFacts ==
  ASSUME IsAutomaton(nfa)
  PROVE  /\ \A X : EpsSucc(nfa, X) \subseteq nfa.states
         /\ \A X, byte : Move(nfa, X, byte) \subseteq nfa.states
         /\ \A X, Y : EpsSucc(nfa, X \cup Y) = EpsSucc(nfa, X) \cup EpsSucc(nfa, Y)
         /\ \A X, Y : X \subseteq Y => EpsSucc(nfa, X) \subseteq EpsSucc(nfa, Y)
         /\ \A X, Y, byte : Move(nfa, X \cup Y, byte) = Move(nfa, X, byte) \cup Move(nfa, Y, byte)
         /\ \A X, Y, byte : X \subseteq Y => Move(nfa, X, byte) \subseteq Move(nfa, Y, byte)
<1>1. \A X : EpsSucc(nfa, X) \subseteq nfa.states
  BY DEF EpsSucc, IsAutomaton
<1>2. \A X, byte : Move(nfa, X, byte) \subseteq nfa.states
  BY DEF Move, IsAutomaton
<1>3. \A X, Y : EpsSucc(nfa, X \cup Y) = EpsSucc(nfa, X) \cup EpsSucc(nfa, Y)
  BY DEF EpsSucc
<1>4. \A X, Y : X \subseteq Y => EpsSucc(nfa, X) \subseteq EpsSucc(nfa, Y)
  BY DEF EpsSucc
<1>5. \A X, Y, byte : Move(nfa, X \cup Y, byte) = Move(nfa, X, byte) \cup Move(nfa, Y, byte)
  BY DEF Move
<1>6. \A X, Y, byte : X \subseteq Y => Move(nfa, X, byte) \subseteq Move(nfa, Y, byte)
  BY DEF Move
<1> QED  BY <1>1, <1>2, <1>3, <1>4, <1>5, <1>6

(* The closure holds what it is the closure of, no epsilon edge leads out  *)
(* of it, and a part of it that no epsilon edge leaves is all of it.       *)
LEMMA ClosureFacts ==
  ASSUME IsAutomaton(nfa), NEW X \in SUBSET nfa.states
  PROVE  /\ X \subseteq Closure(nfa, X)
         /\ Closure(nfa, X) \subseteq nfa.states
         /\ \A Y : Y \subseteq Closure(nfa, X) => EpsSucc(nfa, Y) \subseteq Closure(nfa, X)
         /\ \A Y : /\ X \subseteq Y /\ Y \subseteq Closure(nfa, X)
                   /\ EpsSucc(nfa, Y) \subseteq Y
                   => Y = Closure(nfa, X)
<1>1. X \subseteq Closure(nfa, X) /\ Closure(nfa, X) \subseteq nfa.states
  BY DEF Closure
<1>2. ASSUME NEW Y, Y \subseteq Closure(nfa, X)
      PROVE  EpsSucc(nfa, Y) \subseteq Closure(nfa, X)
  <2> SUFFICES ASSUME NEW e \in nfa.eps, e[1] \in Y
               PROVE  e[2] \in Closure(nfa, X)
    BY DEF EpsSucc
  <2>1. e[2] \in nfa.states /\ e[1] \in Closure(nfa, X)
    BY <1>2 DEF IsAutomaton
  <2>2. ASSUME NEW Z \in SUBSET nfa.states, X \subseteq Z, EpsClosed(nfa, Z)
        PROVE  e[2] \in Z
    BY <2>1, <2>2 DEF Closure, EpsClosed
  <2> QED  BY <2>1, <2>2 DEF Closure
<1>3. ASSUME NEW Y, X \subseteq Y, Y \subseteq Closure(nfa, X), EpsSucc(nfa, Y) \subseteq Y
      PROVE  Y = Closure(nfa, X)
  <2>1. EpsClosed(nfa, Y) /\ Y \in SUBSET nfa.states
    BY <1>1, <1>3 DEF EpsClosed, EpsSucc
  <2> QED  BY <2>1, <1>3 DEF Closure
<1> QED  BY <1>1, <1>2, <1>3

(* A word joins those that have been passed. *)
LEMMA PassedStep ==
  ASSUME TypeOK, LanesInv, NEW l \in Lanes, NEW ph, ph # "seed", Sweep(l, ph)
  PROVE  \A X \in SUBSET nfa.states :
           {s \in X : Passed(s)'} = PassedOf(X) \cup (X \cap Word(w[l]))
BY LaneFacts DEF PassedOf

-----------------------------------------------------------------------------
(* The work of a lane keeps the invariant. *)

(* A step of a lane keeps the types.                                       *)
LEMMA TypeLane ==
  ASSUME IInv, NEW l \in Lanes, LaneStep(l)
  PROVE  TypeOK'
<1>1. TypeOK /\ LanesInv /\ IsAutomaton(nfa) /\ nfa.start \in nfa.states
  BY WarpFacts DEF IInv
<1>2. PICK ph : Sweep(l, ph)
  BY DEF LaneStep, ZeroC, Seed, CopyF, ZeroB, ScatterB, Fold, ZeroN, ScatterN, CopyC, TestC
<1>3. UNCHANGED <<nfa, input, pc, taken, verdict>> /\ w' \in [Lanes -> Nat]
  BY <1>1, <1>2, LaneFacts
<1>4. /\ Word(w[l]) \subseteq nfa.states
      /\ \A X : EpsSucc(nfa, X) \subseteq nfa.states
      /\ \A X, byte : Move(nfa, X, byte) \subseteq nfa.states
  BY <1>1, EdgeFacts DEF Word
<1>5. \A X \in {cur, nxt, frontier, newb} : X \subseteq nfa.states
  BY <1>1 DEF TypeOK
<1>6. \A X \in {cur, nxt, frontier, newb}' : X \subseteq nfa.states
  BY <1>1, <1>4, <1>5
  DEF LaneStep, ZeroC, Seed, CopyF, ZeroB, ScatterB, Fold, ZeroN, ScatterN, CopyC, TestC, Closing,
      bitmaps
<1>7. vote' \in [Lanes -> BOOLEAN]
  <2>1. vote \in [Lanes -> BOOLEAN]
    BY <1>1 DEF TypeOK
  <2>2. \/ UNCHANGED vote
        \/ \E x \in BOOLEAN : vote' = [vote EXCEPT ![l] = x]
    <3>1. CASE Fold(l)
      <4>1. vote' = [vote EXCEPT ![l] = @ \/ ((newb \ Closing) \cap Word(w[l])) # {}]
        BY <3>1 DEF Fold
      <4> QED  BY <4>1
    <3>2. CASE TestC(l)
      <4>1. vote' = [vote EXCEPT ![l] = @ \/ Accepting(nfa, cur \cap Word(w[l]))]
        BY <3>2 DEF TestC
      <4> QED  BY <4>1
    <3> QED
      BY <3>1, <3>2 DEF LaneStep, ZeroC, Seed, CopyF, ZeroB, ScatterB, ZeroN, ScatterN, CopyC
  <2> QED  BY <2>1, <2>2
<1> QED  BY <1>1, <1>3, <1>6, <1>7 DEF TypeOK

(* What the lane steps have in common: the parts of the invariant that a   *)
(* step leaves to show.                                                    *)
Rest == LoopInv /\ (InClosure => ClosureInv) /\ PhaseInv

(* A step of a lane keeps the rest of the invariant, whatever the other    *)
(* lanes are at.                                                           *)
LEMMA LaneInv ==
  ASSUME IInv, NEW l \in Lanes, LaneStep(l)
  PROVE  Rest'
<1>1. /\ TypeOK /\ LanesInv /\ LoopInv /\ PhaseInv /\ (InClosure => ClosureInv)
      /\ IsAutomaton(nfa) /\ nfa.start \in nfa.states /\ 0 \in Lanes /\ Lanes \subseteq Nat
  BY WarpFacts DEF IInv
<1>2. /\ cur \subseteq nfa.states /\ nxt \subseteq nfa.states /\ frontier \subseteq nfa.states
      /\ newb \subseteq nfa.states /\ vote \in [Lanes -> BOOLEAN] /\ w \in [Lanes -> Nat]
  BY <1>1 DEF TypeOK
<1>3. \A x : At(x) <=> pc[0] = x
  BY <1>1, PhaseIs
<1>4. PICK ph : Sweep(l, ph)
  BY DEF LaneStep, ZeroC, Seed, CopyF, ZeroB, ScatterB, Fold, ZeroN, ScatterN, CopyC, TestC
<1>5. /\ pc[0] = ph
      /\ UNCHANGED <<nfa, input, taken, verdict>>
      /\ \A x : At(x)' <=> ph = x
      /\ \A s \in nfa.states :
           ph # "seed" => (Passed(s)' <=> Passed(s) \/ s \in Word(w[l]))
  BY <1>1, <1>3, <1>4, LaneFacts
<1> DEFINE W == Word(w[l])
<1>6. W \subseteq nfa.states
  BY DEF Word
<1> HIDE DEF W
<1>7. CASE ZeroC(l)
  <2>1. ph = "zeroC" /\ cur' = cur \ W
    BY <1>7, <1>4, <1>5, <1>1, LaneFacts DEF ZeroC, W
  <2>2. LoopInv' /\ ~InClosure'
    BY <2>1, <1>1, <1>3, <1>5 DEF LoopInv, InClosure, ClosurePhases
  <2>3. PhaseInv'
    BY <2>1, <1>1, <1>3, <1>5 DEF PhaseInv, W
  <2> QED  BY <2>2, <2>3 DEF Rest
<1>8. CASE Seed(l)
  <2>1. ph = "seed" /\ cur' = cur \cup {nfa.start}
    BY <1>8, <1>4, <1>5, <1>1, LaneFacts DEF Seed
  <2>2. LoopInv' /\ ~InClosure'
    BY <2>1, <1>1, <1>3, <1>5 DEF LoopInv, InClosure, ClosurePhases
  <2>3. PhaseInv'
    BY <2>1, <1>1, <1>3, <1>5 DEF PhaseInv
  <2> QED  BY <2>2, <2>3 DEF Rest
<1>9. CASE ZeroN(l)
  <2>1. ph = "zeroN" /\ nxt' = nxt \ W /\ UNCHANGED cur
    BY <1>9, <1>4, <1>5, <1>1, LaneFacts DEF ZeroN, W
  <2>2. LoopInv' /\ ~InClosure'
    BY <2>1, <1>1, <1>3, <1>5 DEF LoopInv, InClosure, ClosurePhases
  <2>3. PhaseInv'
    BY <2>1, <1>1, <1>3, <1>5 DEF PhaseInv, W
  <2> QED  BY <2>2, <2>3 DEF Rest
<1>10. CASE ScatterN(l)
  <2>1. ph = "scatterN" /\ nxt' = nxt \cup Move(nfa, cur \cap W, input[taken]) /\ UNCHANGED cur
    BY <1>10, <1>4, <1>5, <1>1, LaneFacts DEF ScatterN, W
  <2>2. LoopInv' /\ ~InClosure'
    BY <2>1, <1>1, <1>3, <1>5 DEF LoopInv, InClosure, ClosurePhases
  <2>3. PassedOf(cur)' = PassedOf(cur) \cup (cur \cap W)
    BY <2>1, <1>1, <1>2, <1>4, PassedStep DEF PassedOf, W
  <2>4. taken > 0 /\ Base = Move(nfa, cur, input[taken]) /\ Base' = Base
    BY <2>1, <1>1, <1>3, <1>5 DEF LoopInv, Base
  <2>5. nxt' \subseteq Base
    <3>1. nxt \subseteq Base
      BY <2>1, <1>1, <1>3, <1>5 DEF PhaseInv
    <3>2. cur \cap W \subseteq cur
      OBVIOUS
    <3> QED  BY <3>1, <3>2, <2>1, <2>4, <1>1, EdgeFacts
  <2>6. Move(nfa, PassedOf(cur)', input[taken]) \subseteq nxt'
    <3>1. Move(nfa, PassedOf(cur), input[taken]) \subseteq nxt
      BY <2>1, <1>1, <1>3, <1>5 DEF PhaseInv
    <3> QED  BY <3>1, <2>1, <2>3, <1>1, EdgeFacts
  <2>7. PhaseInv'
    <3>1. nxt' \subseteq Base' /\ Move(nfa, PassedOf(cur), input[taken])' \subseteq nxt'
      <4>1. nfa' = nfa /\ input' = input /\ taken' = taken
        BY <1>5
      <4> QED  BY <4>1, <2>4, <2>5, <2>6
    <3>2. /\ ~At("zeroC")' /\ ~At("seed")' /\ ~At("zeroN")'
          /\ ~At("copyC")' /\ ~At("testC")'
      BY <2>1, <1>5
    <3> QED  BY <3>1, <3>2 DEF PhaseInv
  <2> QED  BY <2>2, <2>7 DEF Rest
<1>11. CASE CopyC(l)
  <2>1. ph = "copyC" /\ cur' = (cur \ W) \cup (nxt \cap W) /\ UNCHANGED nxt
    BY <1>11, <1>4, <1>5, <1>1, LaneFacts DEF CopyC, W
  <2>2. LoopInv' /\ ~InClosure'
    BY <2>1, <1>1, <1>3, <1>5 DEF LoopInv, InClosure, ClosurePhases
  <2>3. PhaseInv'
    BY <2>1, <1>1, <1>3, <1>5 DEF PhaseInv, W
  <2> QED  BY <2>2, <2>3 DEF Rest
<1>12. CASE TestC(l)
  <2>1. /\ ph = "testC" /\ UNCHANGED cur
        /\ vote' = [vote EXCEPT ![l] = @ \/ Accepting(nfa, cur \cap W)]
    BY <1>12, <1>4, <1>5, <1>1, LaneFacts DEF TestC, W, bitmaps
  <2>2. LoopInv' /\ ~InClosure'
    BY <2>1, <1>1, <1>3, <1>5 DEF LoopInv, InClosure, ClosurePhases
  <2>3. PassedOf(cur)' = PassedOf(cur) \cup (cur \cap W)
    BY <2>1, <1>1, <1>2, <1>4, PassedStep DEF PassedOf, W
  <2>4. Ballot' <=> Ballot \/ Accepting(nfa, cur \cap W)
    BY <2>1, <1>2 DEF Ballot
  <2>5. Accepting(nfa, PassedOf(cur)') <=>
          Accepting(nfa, PassedOf(cur)) \/ Accepting(nfa, cur \cap W)
    BY <2>3 DEF Accepting
  <2>6. Accepting(nfa, cur \cap W) => Accepting(nfa, cur)
    BY DEF Accepting
  <2>7. PhaseInv'
    <3>1. /\ Ballot => Accepting(nfa, cur)
          /\ Accepting(nfa, PassedOf(cur)) => Ballot
      BY <2>1, <1>1, <1>3, <1>5 DEF PhaseInv
    <3>2. /\ Ballot' => Accepting(nfa, cur)'
          /\ Accepting(nfa, PassedOf(cur))' => Ballot'
      <4>1. nfa' = nfa /\ cur' = cur
        BY <2>1, <1>5
      <4> QED  BY <4>1, <3>1, <2>4, <2>5, <2>6
    <3> QED  BY <3>2, <2>1, <1>5 DEF PhaseInv
  <2> QED  BY <2>2, <2>7 DEF Rest
<1>13. CASE CopyF(l) \/ ZeroB(l) \/ ScatterB(l) \/ Fold(l)
  <2>1. ph \in ClosurePhases
    BY <1>13, <1>4, <1>5, <1>1, LaneFacts DEF CopyF, ZeroB, ScatterB, Fold, ClosurePhases
  <2>2. InClosure /\ ClosureInv
    BY <2>1, <1>1, <1>3, <1>5 DEF InClosure
  <2> DEFINE Closed == Closure(nfa, Base)
  <2>3. Base' = Base /\ Closed' = Closed /\ Closing \subseteq nfa.states
    BY <1>13, <1>2, <1>5 DEF CopyF, ZeroB, ScatterB, Fold, Base, Closing
  <2>4. Base \subseteq nfa.states
    BY <1>1, EdgeFacts DEF Base
  <2>5. /\ Base \subseteq Closed
        /\ Closed \subseteq nfa.states
        /\ \A Y : Y \subseteq Closed => EpsSucc(nfa, Y) \subseteq Closed
    BY <2>4, <1>1, ClosureFacts
  <2>6. taken > 0 => ~Accepting(nfa, cur)
    BY <2>1, <1>1, <1>3, <1>5 DEF LoopInv, ClosurePhases
  <2>7. PhaseInv' /\ verdict = NoMatch
    BY <2>1, <1>1, <1>3, <1>5 DEF PhaseInv, LoopInv, ClosurePhases
  <2>8. ASSUME taken > 0 => cur' = cur
        PROVE  LoopInv'
    <3>1. ~At("zeroC")' /\ ~At("seed")' /\ ~At("zeroN")' /\ ~At("scatterN")' /\ ~At("copyC")'
      BY <2>1, <1>5 DEF ClosurePhases
    <3>2. taken' = taken /\ nfa' = nfa /\ verdict' = NoMatch
      BY <2>7, <1>5
    <3>3. taken > 0 => ~Accepting(nfa', cur')
      BY <3>2, <2>6, <2>8
    <3> QED  BY <3>1, <3>2, <3>3 DEF LoopInv, NoMatch
  <2>9. Base \subseteq Closing /\ Closing \subseteq Closed
    BY <2>2 DEF ClosureInv
  <2> HIDE DEF Closed
  <2>10. CASE CopyF(l)
    <3>1. /\ ph = "copyF" /\ UNCHANGED <<cur, nxt>>
          /\ frontier' = (frontier \ W) \cup (Closing \cap W)
      BY <2>10, <1>4, <1>5, <1>1, LaneFacts DEF CopyF, W
    <3>2. Closing' = Closing
      BY <3>1, <1>5 DEF Closing
    <3>3. At("copyF") /\ ~At("zeroB")' /\ ~At("scatterB")' /\ ~At("fold")'
      BY <3>1, <1>3, <1>5
    <3>4. \A s \in nfa.states : Passed(s) => (s \in frontier <=> s \in Closing)
      BY <3>3, <2>2 DEF ClosureInv
    <3>5. \A s \in nfa.states : Passed(s)' => (s \in frontier' <=> s \in Closing)
      BY <3>1, <3>4, <1>5 DEF W
    <3>6. ClosureInv'
      BY <3>2, <3>3, <3>5, <2>3, <2>9, <1>5 DEF ClosureInv, Closed
    <3> QED  BY <3>1, <3>6, <2>7, <2>8 DEF Rest
  <2>a. CASE ZeroB(l)
    <3>1. ph = "zeroB" /\ UNCHANGED <<cur, nxt, frontier>> /\ newb' = newb \ W
      BY <2>a, <1>4, <1>5, <1>1, LaneFacts DEF ZeroB, W
    <3>2. Closing' = Closing
      BY <3>1, <1>5 DEF Closing
    <3>3. At("zeroB") /\ ~At("copyF")' /\ ~At("scatterB")' /\ ~At("fold")'
      BY <3>1, <1>3, <1>5
    <3>4. DebtInv /\ \A s \in nfa.states : Passed(s) => s \notin newb
      BY <3>3, <2>2 DEF ClosureInv
    <3>5. \A s \in nfa.states : Passed(s)' => s \notin newb'
      BY <3>1, <3>4, <1>5 DEF W
    <3>6. DebtInv'
      BY <3>1, <3>2, <3>4, <1>5 DEF DebtInv
    <3>7. ClosureInv'
      BY <3>2, <3>3, <3>5, <3>6, <2>3, <2>9, <1>5 DEF ClosureInv, Closed
    <3> QED  BY <3>1, <3>7, <2>7, <2>8 DEF Rest
  <2>12. CASE ScatterB(l)
    <3>1. /\ ph = "scatterB" /\ UNCHANGED <<cur, nxt, frontier>>
          /\ newb' = newb \cup EpsSucc(nfa, frontier \cap W)
      BY <2>12, <1>4, <1>5, <1>1, LaneFacts DEF ScatterB, W
    <3>2. Closing' = Closing
      BY <3>1, <1>5 DEF Closing
    <3>3. At("scatterB") /\ ~At("copyF")' /\ ~At("zeroB")' /\ ~At("fold")'
      BY <3>1, <1>3, <1>5
    <3>4. DebtInv /\ EpsSucc(nfa, PassedOf(frontier)) \subseteq newb /\ newb \subseteq Closed
      BY <3>3, <2>2 DEF ClosureInv, Closed
    <3>5. PassedOf(frontier)' = PassedOf(frontier) \cup (frontier \cap W)
      BY <3>1, <1>1, <1>2, <1>4, PassedStep DEF PassedOf, W
    <3>6. EpsSucc(nfa, PassedOf(frontier)') \subseteq newb'
      BY <3>1, <3>4, <3>5, <1>1, EdgeFacts
    <3>7. newb' \subseteq Closed
      <4>1. frontier \cap W \subseteq Closed
        BY <3>4, <2>9 DEF DebtInv
      <4> QED  BY <4>1, <3>1, <3>4, <2>5
    <3>8. DebtInv'
      BY <3>1, <3>2, <3>4, <1>5 DEF DebtInv
    <3>9. EpsSucc(nfa, PassedOf(frontier))' \subseteq newb' /\ newb' \subseteq Closed'
      BY <3>6, <3>7, <2>3, <1>5
    <3>10. ClosureInv'
      BY <3>2, <3>3, <3>8, <3>9, <2>3, <2>9, <1>5 DEF ClosureInv, Closed
    <3> QED  BY <3>1, <3>10, <2>7, <2>8 DEF Rest
  <2>13. CASE Fold(l)
    <3> DEFINE nb == (newb \ Closing) \cap W
    <3>1. /\ ph = "fold" /\ UNCHANGED newb
          /\ IF taken = 0 THEN cur' = cur \cup nb /\ UNCHANGED nxt
                          ELSE nxt' = nxt \cup nb /\ UNCHANGED cur
          /\ frontier' = (frontier \ W) \cup nb
          /\ vote' = [vote EXCEPT ![l] = @ \/ nb # {}]
      BY <2>13, <1>4, <1>5, <1>1, LaneFacts DEF Fold, W
    <3>2. Closing' = Closing \cup nb
      BY <3>1, <1>5 DEF Closing
    <3>3. At("fold") /\ ~At("copyF")' /\ ~At("zeroB")' /\ ~At("scatterB")'
      BY <3>1, <1>3, <1>5
    <3>4. /\ frontier \subseteq Closing
          /\ newb \subseteq Closed
          /\ PassedOf(newb) \subseteq Closing
          /\ EpsSucc(nfa, Closing \ PassedOf(frontier)) \subseteq Closing \cup newb
          /\ PassedOf(frontier) # {} => Ballot
      BY <3>3, <2>2 DEF ClosureInv, Closed
    <3>5. PassedOf(newb)' = PassedOf(newb) \cup (newb \cap W)
      BY <3>1, <1>1, <1>2, <1>4, PassedStep DEF PassedOf, W
    <3>6. \A s \in nfa.states : Passed(s)' <=> Passed(s) \/ s \in W
      BY <3>1, <1>5 DEF W
    <3>7. PassedOf(frontier)' = (PassedOf(frontier) \ W) \cup nb
      <4>1. frontier' \subseteq nfa.states /\ PassedOf(frontier)' = {s \in frontier' : Passed(s)'}
        BY <3>1, <1>2 DEF PassedOf
      <4> QED  BY <4>1, <3>1, <3>6, <1>2, <1>6 DEF PassedOf
    <3>8. frontier' \subseteq Closing' /\ PassedOf(newb)' \subseteq Closing'
      BY <3>1, <3>2, <3>4, <3>5
    <3>9. Base \subseteq Closing' /\ Closing' \subseteq Closed
      BY <3>2, <3>4, <2>9
    <3>10. EpsSucc(nfa, Closing' \ PassedOf(frontier)') \subseteq Closing' \cup newb
      <4>1. Closing' \ PassedOf(frontier)' \subseteq Closing \ PassedOf(frontier)
        <5>1. ASSUME NEW s \in W
              PROVE  ~Passed(s)
          <6>1. WordOf(s) = w[l] /\ w[l] % NLanes = l /\ w[l] \in Nat
            BY <3>3, <1>1, <1>2, <1>3 DEF W, Word, LanesInv
          <6> QED  BY <6>1 DEF Passed
        <5> QED  BY <5>1, <3>2, <3>7 DEF PassedOf
      <4>2. EpsSucc(nfa, Closing' \ PassedOf(frontier)')
              \subseteq EpsSucc(nfa, Closing \ PassedOf(frontier))
        BY <4>1, <1>1, EdgeFacts
      <4> QED  BY <4>2, <3>2, <3>4
    <3>11. PassedOf(frontier)' # {} => Ballot'
      <4>1. Ballot' <=> Ballot \/ nb # {}
        BY <3>1, <1>2 DEF Ballot
      <4> QED  BY <4>1, <3>4, <3>7
    <3>12. EpsSucc(nfa, Closing \ PassedOf(frontier))' \subseteq (Closing \cup newb)'
      BY <3>10, <3>1, <1>5
    <3>13. ClosureInv'
      BY <3>1, <3>3, <3>4, <3>8, <3>9, <3>11, <3>12, <2>3, <1>5 DEF ClosureInv, Closed
    <3>14. taken > 0 => cur' = cur
      BY <3>1
    <3> QED  BY <3>13, <3>14, <2>7, <2>8 DEF Rest
  <2> QED  BY <1>13, <2>10, <2>a, <2>12, <2>13
<1> QED
  BY <1>7, <1>8, <1>9, <1>10, <1>11, <1>12, <1>13 DEF LaneStep

-----------------------------------------------------------------------------
(* A meeting of the lanes keeps the invariant. *)

(* All words have been passed, none has in the next phase, and no lane has *)
(* voted in it.                                                            *)
LEMMA FreshPhase ==
  ASSUME TypeOK, LanesInv, NEW ph, NEW to \in Phases, Meet(ph, to)
  PROVE  /\ \A X \in SUBSET nfa.states : PassedOf(X) = X
         /\ ~Ballot'
         /\ to # "seed" => /\ \A s \in nfa.states : ~Passed(s)'
                           /\ \A X : X \subseteq nfa.states => {s \in X : Passed(s)'} = {}
         /\ pc' \in [Lanes -> Phases]
         /\ w' \in [Lanes -> Nat]
         /\ vote' \in [Lanes -> BOOLEAN]
<1>1. /\ \A s \in nfa.states : Passed(s)
      /\ pc' = [l \in Lanes |-> to]
      /\ w' = [l \in Lanes |-> FirstWord(to, l)]
      /\ vote' = [l \in Lanes |-> FALSE]
  BY MeetFacts
<1>2. \A X \in SUBSET nfa.states : PassedOf(X) = X
  BY <1>1 DEF PassedOf
<1>3. ~Ballot'
  BY <1>1 DEF Ballot
<1>4. ASSUME to # "seed", NEW s \in nfa.states
      PROVE  ~Passed(s)'
  <2>1. WordOf(s) \in Nat /\ WordOf(s) % NLanes \in Lanes
    BY WordFacts
  <2>2. w'[WordOf(s) % NLanes] = WordOf(s) % NLanes
    BY <1>1, <1>4, <2>1 DEF FirstWord
  <2>3. PICK v \in Nat : v = WordOf(s)
    BY <2>1
  <2>4. v % NLanes \in 0 .. NLanes - 1 /\ v % NLanes <= v
    BY WarpAssumption
  <2>5. ~(v < v % NLanes)
    BY <2>4, WarpAssumption
  <2>6. Passed(s)' <=> WordOf(s) < w'[WordOf(s) % NLanes]
    BY DEF Passed, WordOf
  <2> QED  BY <2>2, <2>3, <2>5, <2>6
<1>5. \A l \in Lanes : FirstWord(to, l) \in Nat
  <2>1. NumWords \in Nat
    BY WarpFacts, WordFacts
  <2> QED  BY <2>1, WarpFacts DEF FirstWord
<1> QED  BY <1>1, <1>2, <1>3, <1>4, <1>5

(* A meeting of the lanes keeps the types.                                 *)
LEMMA TypeMeet ==
  ASSUME TypeOK, LanesInv, NEW ph, NEW to \in Phases, Meet(ph, to),
         taken' \in 0 .. Len(input), verdict' \in BOOLEAN \X (0 .. Len(input))
  PROVE  TypeOK'
<1>1. UNCHANGED <<nfa, input, cur, nxt, frontier, newb>>
  BY MeetFacts
<1>2. pc' \in [Lanes -> Phases] /\ w' \in [Lanes -> Nat] /\ vote' \in [Lanes -> BOOLEAN]
  BY FreshPhase
<1>3. \A X \in {cur, nxt, frontier, newb}' : X \subseteq nfa.states
  BY <1>1 DEF TypeOK
<1> QED  BY <1>1, <1>2, <1>3 DEF TypeOK

(* A meeting keeps the invariant: what all lanes have done is what the     *)
(* next phase begins with.                                                 *)
LEMMA SyncInv ==
  ASSUME IInv, SyncWarp
  PROVE  IInv'
<1>1. /\ TypeOK /\ LanesInv /\ LoopInv /\ PhaseInv /\ (InClosure => ClosureInv)
      /\ IsAutomaton(nfa) /\ nfa.start \in nfa.states /\ 0 \in Lanes /\ taken \in Nat
  BY WarpFacts DEF IInv
<1>2. /\ cur \subseteq nfa.states /\ nxt \subseteq nfa.states /\ frontier \subseteq nfa.states
      /\ newb \subseteq nfa.states /\ taken \in 0 .. Len(input)
      /\ verdict \in BOOLEAN \X (0 .. Len(input))
  BY <1>1 DEF TypeOK
<1>3. \A x : At(x) <=> pc[0] = x
  BY <1>1, PhaseIs
<1>4. PICK ph, to \in Phases \ {"done"} :
        /\ Meet(ph, to)
        /\ <<ph, to>> \in
             {<<"zeroC", "seed">>, <<"seed", "copyF">>, <<"copyF", "zeroB">>,
              <<"zeroB", "scatterB">>, <<"scatterB", "fold">>, <<"zeroN", "scatterN">>,
              <<"scatterN", "copyF">>, <<"copyC", "testC">>}
  BY DEF SyncWarp, Phases, ClosurePhases
<1>5. /\ taken' = taken /\ verdict' = verdict
      /\ pc[0] = ph
      /\ UNCHANGED <<nfa, input, cur, nxt, frontier, newb>>
      /\ \A s \in nfa.states : Passed(s)
      /\ \A l \in Lanes : Swept(l)
      /\ LanesInv'
      /\ \A x : At(x)' <=> x = to
  BY <1>1, <1>4, MeetFacts DEF SyncWarp
<1>6. /\ \A X \in SUBSET nfa.states : PassedOf(X) = X
      /\ ~Ballot'
      /\ to # "seed" => /\ \A s \in nfa.states : ~Passed(s)'
                        /\ \A X : X \subseteq nfa.states => {s \in X : Passed(s)'} = {}
  BY <1>1, <1>4, FreshPhase
<1>7. TypeOK'
  BY <1>1, <1>2, <1>4, <1>5, TypeMeet
<1>8. verdict' = NoMatch
  BY <1>1, <1>3, <1>4, <1>5 DEF LoopInv
<1>9. Base' = Base /\ Closing' = Closing
  BY <1>5 DEF Base, Closing
<1>10. LoopInv'
  <2>1. taken' > 0 /\ ~At("copyC")' /\ ~At("testC")' /\ ~At("done")' => ~Accepting(nfa, cur)'
    <3>1. to # "testC" => ph \notin {"copyC", "testC", "done"}
      BY <1>4
    <3> QED  BY <3>1, <1>1, <1>3, <1>5 DEF LoopInv
  <2>2. At("zeroC")' \/ At("seed")' => taken' = 0
    BY <1>1, <1>3, <1>4, <1>5 DEF LoopInv
  <2>3. At("zeroN")' \/ At("scatterN")' \/ At("copyC")' => taken' > 0
    BY <1>1, <1>3, <1>4, <1>5 DEF LoopInv
  <2> QED  BY <2>1, <2>2, <2>3, <1>8 DEF LoopInv, NoMatch
<1>11. ph \in ClosurePhases => /\ ClosureInv
                               /\ Base \subseteq Closing
                               /\ Closing \subseteq Closure(nfa, Base)
  BY <1>1, <1>3, <1>5 DEF InClosure, ClosureInv
<1>12. ASSUME to = "copyF"
       PROVE  ClosureInv'
  <2>1. Closing = Base
    <3>1. CASE ph = "seed"
      <4>1. cur \subseteq {nfa.start} /\ (w[0] > 0 => nfa.start \in cur) /\ taken = 0
        BY <3>1, <1>1, <1>3, <1>5 DEF PhaseInv, LoopInv
      <4>2. w[0] > 0
        <5>1. WordOf(nfa.start) \in Nat /\ WordOf(nfa.start) < NumWords /\ NumWords \in Nat
          BY <1>1, WordFacts
        <5>2. w[0] \in Nat /\ w[0] >= NumWords
          BY <1>1, <1>5 DEF TypeOK, Swept
        <5> QED  BY <5>1, <5>2
      <4> QED  BY <4>1, <4>2 DEF Base, Closing
    <3>2. CASE ph = "scatterN"
      <4>1. /\ taken > 0 /\ nxt \subseteq Base
            /\ Move(nfa, PassedOf(cur), input[taken]) \subseteq nxt
        BY <3>2, <1>1, <1>3, <1>5 DEF PhaseInv, LoopInv
      <4>2. PassedOf(cur) = cur
        BY <1>2, <1>6
      <4>3. Base = Move(nfa, cur, input[taken]) /\ Closing = nxt
        BY <4>1, <1>1 DEF Base, Closing
      <4>4. Move(nfa, cur, input[taken]) \subseteq nxt
        BY <4>1, <4>2
      <4> QED  BY <4>1, <4>3, <4>4
    <3> QED  BY <3>1, <3>2, <1>4, <1>12
  <2>2. Base \in SUBSET nfa.states
    BY <1>1, EdgeFacts DEF Base
  <2>3. Base \subseteq Closure(nfa, Base)
    BY <2>2, <1>1, ClosureFacts
  <2>4. ~At("zeroB")' /\ ~At("scatterB")' /\ ~At("fold")'
    BY <1>5, <1>12
  <2>5. Base' \subseteq Closing' /\ Closing' \subseteq Closure(nfa, Base)'
    BY <2>1, <2>3, <1>5, <1>9
  <2>6. \A s \in nfa.states' : ~Passed(s)'
    BY <1>5, <1>6, <1>12
  <2> QED  BY <2>4, <2>5, <2>6 DEF ClosureInv
<1>13. ASSUME to = "zeroB"
       PROVE  ClosureInv'
  <2>1. ph = "copyF"
    BY <1>4, <1>13
  <2>2. Base \subseteq Closing /\ Closing \subseteq Closure(nfa, Base)
    BY <2>1, <1>11 DEF ClosurePhases
  <2>3. \A s \in nfa.states : s \in frontier <=> s \in Closing
    BY <2>1, <1>3, <1>5, <1>11 DEF ClosureInv, ClosurePhases
  <2>4. Closing = frontier
    BY <2>3, <1>2 DEF Closing
  <2>5. DebtInv'
    BY <2>4, <1>5, <1>9 DEF DebtInv, EpsSucc
  <2>6. ~At("copyF")' /\ ~At("scatterB")' /\ ~At("fold")'
    BY <1>5, <1>13
  <2>7. \A s \in nfa.states' : ~Passed(s)'
    BY <1>5, <1>6, <1>13
  <2>8. Base' \subseteq Closing' /\ Closing' \subseteq Closure(nfa, Base)'
    BY <2>2, <1>5, <1>9
  <2> QED  BY <2>5, <2>6, <2>7, <2>8 DEF ClosureInv
<1>14. ASSUME to = "scatterB"
       PROVE  ClosureInv'
  <2>1. ph = "zeroB"
    BY <1>4, <1>14
  <2>2. Base \subseteq Closing /\ Closing \subseteq Closure(nfa, Base)
    BY <2>1, <1>11 DEF ClosurePhases
  <2>3. DebtInv /\ \A s \in nfa.states : s \notin newb
    BY <2>1, <1>3, <1>5, <1>11 DEF ClosureInv, ClosurePhases
  <2>4. newb = {}
    BY <2>3, <1>2
  <2>5. DebtInv'
    BY <2>3, <1>5, <1>9 DEF DebtInv
  <2>6. ~At("copyF")' /\ ~At("zeroB")' /\ ~At("fold")'
    BY <1>5, <1>14
  <2>7. PassedOf(frontier)' = {}
    <3>1. PassedOf(frontier)' = {s \in frontier' : Passed(s)'} /\ frontier' \subseteq nfa.states
      BY <1>2, <1>5 DEF PassedOf
    <3> QED  BY <3>1, <1>6, <1>14
  <2>8. EpsSucc(nfa, PassedOf(frontier))' \subseteq newb' /\ newb' = {}
    BY <2>4, <2>7, <1>5 DEF EpsSucc
  <2>9. Base' \subseteq Closing' /\ Closing' \subseteq Closure(nfa, Base)'
    BY <2>2, <1>5, <1>9
  <2> QED  BY <2>5, <2>6, <2>8, <2>9 DEF ClosureInv
<1>15. ASSUME to = "fold"
       PROVE  ClosureInv'
  <2>1. ph = "scatterB"
    BY <1>4, <1>15
  <2>2. Base \subseteq Closing /\ Closing \subseteq Closure(nfa, Base)
    BY <2>1, <1>11 DEF ClosurePhases
  <2>3. /\ DebtInv /\ newb \subseteq Closure(nfa, Base)
        /\ EpsSucc(nfa, PassedOf(frontier)) \subseteq newb
    BY <2>1, <1>3, <1>5, <1>11 DEF ClosureInv, ClosurePhases
  <2>4. EpsSucc(nfa, frontier) \subseteq newb
    BY <2>3, <1>2, <1>6
  <2>5. EpsSucc(nfa, Closing) \subseteq Closing \cup newb
    <3>1. Closing = (Closing \ frontier) \cup frontier
      BY <2>3 DEF DebtInv
    <3>2. EpsSucc(nfa, Closing) = EpsSucc(nfa, Closing \ frontier) \cup EpsSucc(nfa, frontier)
      BY <3>1, <1>1, EdgeFacts
    <3> QED  BY <3>2, <2>3, <2>4 DEF DebtInv
  <2>6. ~At("copyF")' /\ ~At("zeroB")' /\ ~At("scatterB")'
    BY <1>5, <1>15
  <2>7. PassedOf(frontier)' = {} /\ PassedOf(newb)' = {}
    <3>1. /\ PassedOf(frontier)' = {s \in frontier' : Passed(s)'} /\ frontier' \subseteq nfa.states
          /\ PassedOf(newb)' = {s \in newb' : Passed(s)'} /\ newb' \subseteq nfa.states
      BY <1>2, <1>5 DEF PassedOf
    <3> QED  BY <3>1, <1>6, <1>15
  <2>8. EpsSucc(nfa, Closing \ PassedOf(frontier))' \subseteq (Closing \cup newb)'
    <3>1. Closing' \ PassedOf(frontier)' = Closing /\ nfa' = nfa /\ newb' = newb
      BY <2>7, <1>5, <1>9
    <3> QED  BY <3>1, <2>5, <1>9
  <2>9. /\ Base' \subseteq Closing' /\ Closing' \subseteq Closure(nfa, Base)'
        /\ newb' \subseteq Closure(nfa, Base)' /\ frontier' \subseteq Closing'
    BY <2>2, <2>3, <1>5, <1>9 DEF DebtInv
  <2>10. PassedOf(newb)' \subseteq Closing' /\ ~(PassedOf(frontier)' # {})
    BY <2>7
  <2> QED  BY <2>6, <2>8, <2>9, <2>10 DEF ClosureInv
<1>16. InClosure' => ClosureInv'
  <2>1. InClosure' => to \in ClosurePhases
    BY <1>5 DEF InClosure
  <2> QED  BY <2>1, <1>12, <1>13, <1>14, <1>15 DEF ClosurePhases
<1>17. PhaseInv'
  <2>1. CASE to \in ClosurePhases
    BY <2>1, <1>5 DEF PhaseInv, ClosurePhases
  <2>2. CASE to = "seed"
    <3>1. ph = "zeroC"
      BY <2>2, <1>4
    <3>2. cur = {}
      BY <3>1, <1>1, <1>2, <1>3, <1>5 DEF PhaseInv
    <3>3. w'[0] = 0
      BY <2>2, <1>1, <1>4, MeetFacts DEF FirstWord
    <3> QED  BY <2>2, <3>2, <3>3, <1>5 DEF PhaseInv
  <2>3. CASE to = "scatterN"
    <3>1. ph = "zeroN"
      BY <2>3, <1>4
    <3>2. nxt = {}
      BY <3>1, <1>1, <1>2, <1>3, <1>5 DEF PhaseInv
    <3>3. PassedOf(cur)' = {}
      <4>1. PassedOf(cur)' = {s \in cur' : Passed(s)'} /\ cur' \subseteq nfa.states
        BY <1>2, <1>5 DEF PassedOf
      <4> QED  BY <4>1, <1>6, <2>3
    <3>4. nxt' \subseteq Base' /\ Move(nfa, PassedOf(cur), input[taken])' \subseteq nxt'
      BY <3>2, <3>3, <1>5 DEF Move
    <3>5. ~At("zeroC")' /\ ~At("seed")' /\ ~At("zeroN")' /\ ~At("copyC")' /\ ~At("testC")'
      BY <2>3, <1>5
    <3> QED  BY <3>4, <3>5 DEF PhaseInv
  <2>4. CASE to = "testC"
    <3>1. PassedOf(cur)' = {}
      <4>1. PassedOf(cur)' = {s \in cur' : Passed(s)'} /\ cur' \subseteq nfa.states
        BY <1>2, <1>5 DEF PassedOf
      <4> QED  BY <4>1, <1>6, <2>4
    <3>2. ~Accepting(nfa, PassedOf(cur))'
      BY <3>1 DEF Accepting
    <3>3. ~At("zeroC")' /\ ~At("seed")' /\ ~At("zeroN")' /\ ~At("copyC")' /\ ~At("scatterN")'
      BY <2>4, <1>5
    <3> QED  BY <3>2, <3>3, <1>6 DEF PhaseInv
  <2> QED  BY <2>1, <2>2, <2>3, <2>4, <1>4 DEF ClosurePhases
<1> QED  BY <1>5, <1>7, <1>10, <1>16, <1>17 DEF IInv

(* The ballot that ends a round of the closure.  When no lane has voted    *)
(* the frontier is empty, and the closure is complete.                     *)
LEMMA ClosureBallotInv ==
  ASSUME IInv, ClosureBallot
  PROVE  /\ IInv'
         /\ ~Ballot => Closing = Closure(nfa, Base)
<1>1. /\ TypeOK /\ LanesInv /\ LoopInv /\ PhaseInv /\ (InClosure => ClosureInv)
      /\ IsAutomaton(nfa) /\ nfa.start \in nfa.states /\ 0 \in Lanes /\ taken \in Nat
  BY WarpFacts DEF IInv
<1>2. /\ cur \subseteq nfa.states /\ nxt \subseteq nfa.states /\ frontier \subseteq nfa.states
      /\ newb \subseteq nfa.states /\ taken \in 0 .. Len(input)
      /\ verdict \in BOOLEAN \X (0 .. Len(input))
  BY <1>1 DEF TypeOK
<1>3. \A x : At(x) <=> pc[0] = x
  BY <1>1, PhaseIs
<1>4. PICK to \in Phases :
        /\ Meet("fold", to)
        /\ to = IF Ballot THEN "zeroB" ELSE IF taken = 0 THEN "testC" ELSE "copyC"
  BY DEF ClosureBallot, Phases, ClosurePhases
<1>5. /\ taken' = taken /\ verdict' = verdict
      /\ pc[0] = "fold"
      /\ UNCHANGED <<nfa, input, cur, nxt, frontier, newb>>
      /\ LanesInv'
      /\ \A x : At(x)' <=> x = to
  BY <1>1, <1>4, MeetFacts DEF ClosureBallot
<1>6. /\ \A X \in SUBSET nfa.states : PassedOf(X) = X
      /\ ~Ballot'
      /\ \A s \in nfa.states : ~Passed(s)'
      /\ \A X : X \subseteq nfa.states => {s \in X : Passed(s)'} = {}
  BY <1>1, <1>4, FreshPhase
<1>7. TypeOK'
  BY <1>1, <1>2, <1>4, <1>5, TypeMeet
<1>8. verdict' = NoMatch /\ (taken > 0 => ~Accepting(nfa, cur))
  BY <1>1, <1>3, <1>5 DEF LoopInv
<1>9. Base' = Base /\ Closing' = Closing
  BY <1>5 DEF Base, Closing
<1>10. At("fold") /\ InClosure
  BY <1>3, <1>5 DEF InClosure, ClosurePhases
<1>11. /\ Base \subseteq Closing /\ Closing \subseteq Closure(nfa, Base)
       /\ frontier \subseteq Closing
       /\ newb \subseteq Closing
       /\ EpsSucc(nfa, Closing \ frontier) \subseteq Closing
       /\ frontier # {} => Ballot
  <2>1. /\ frontier \subseteq Closing
        /\ PassedOf(newb) \subseteq Closing
        /\ EpsSucc(nfa, Closing \ PassedOf(frontier)) \subseteq Closing \cup newb
        /\ PassedOf(frontier) # {} => Ballot
        /\ Base \subseteq Closing /\ Closing \subseteq Closure(nfa, Base)
    BY <1>1, <1>10 DEF ClosureInv
  <2>2. PassedOf(frontier) = frontier /\ PassedOf(newb) = newb
    BY <1>2, <1>6
  <2> QED  BY <2>1, <2>2
<1>12. LoopInv'
  <2>1. to \in {"zeroB", "testC", "copyC"} /\ (to = "copyC" => taken > 0)
    BY <1>1, <1>4
  <2>2. ~At("zeroC")' /\ ~At("seed")' /\ ~At("zeroN")' /\ ~At("scatterN")' /\ (At("copyC")' => taken' > 0)
    BY <2>1, <1>5
  <2>3. taken' > 0 => ~Accepting(nfa, cur)'
    BY <1>5, <1>8
  <2> QED  BY <2>2, <2>3, <1>8 DEF LoopInv, NoMatch
<1>13. InClosure' => ClosureInv'
  <2> SUFFICES ASSUME to = "zeroB"
               PROVE  ClosureInv'
    BY <1>4, <1>5 DEF InClosure, ClosurePhases
  <2>1. DebtInv'
    BY <1>5, <1>9, <1>11 DEF DebtInv
  <2>2. ~At("copyF")' /\ ~At("scatterB")' /\ ~At("fold")'
    BY <1>5
  <2>3. \A s \in nfa.states' : ~Passed(s)'
    BY <1>5, <1>6
  <2>4. Base' \subseteq Closing' /\ Closing' \subseteq Closure(nfa, Base)'
    BY <1>5, <1>9, <1>11
  <2> QED  BY <2>1, <2>2, <2>3, <2>4 DEF ClosureInv
<1>14. PhaseInv'
  <2>1. to \in {"zeroB", "testC", "copyC"}
    BY <1>4
  <2>2. ~At("zeroC")' /\ ~At("seed")' /\ ~At("zeroN")' /\ ~At("scatterN")'
    BY <2>1, <1>5
  <2>3. \A s \in nfa.states' : ~Passed(s)'
    BY <1>5, <1>6
  <2>4. PassedOf(cur)' = {}
    <3>1. PassedOf(cur)' = {s \in cur' : Passed(s)'} /\ cur' \subseteq nfa.states
      BY <1>2, <1>5 DEF PassedOf
    <3> QED  BY <3>1, <1>6
  <2>5. ~Accepting(nfa, PassedOf(cur))'
    BY <2>4 DEF Accepting
  <2> QED  BY <2>2, <2>3, <2>5, <1>6 DEF PhaseInv
<1>15. ASSUME ~Ballot
       PROVE  Closing = Closure(nfa, Base)
  <2>1. frontier = {}
    BY <1>11, <1>15
  <2>2. EpsSucc(nfa, Closing) \subseteq Closing
    <3>1. Closing \ frontier = Closing
      BY <2>1
    <3> QED  BY <3>1, <1>11
  <2>3. Base \in SUBSET nfa.states
    BY <1>1, EdgeFacts DEF Base
  <2> QED  BY <2>2, <2>3, <1>1, <1>11, ClosureFacts
<1> QED  BY <1>5, <1>7, <1>12, <1>13, <1>14, <1>15 DEF IInv

(* The three outcomes of the accept ballot: a match, another byte, and the  *)
(* end of the input.                                                       *)
LEMMA AcceptBallotSteps ==
  ASSUME AcceptBallot
  PROVE  \E to \in Phases :
           /\ Meet("testC", to)
           /\ \/ Ballot /\ to = "done" /\ verdict' = <<TRUE, taken>> /\ taken' = taken
              \/ ~Ballot /\ taken < Len(input) /\ to = "zeroN" /\ taken' = taken + 1 /\ verdict' = verdict
              \/ ~Ballot /\ taken = Len(input) /\ to = "done" /\ taken' = taken /\ verdict' = verdict
<1>1. CASE Ballot /\ Meet("testC", "done") /\ verdict' = <<TRUE, MatchLen>> /\ UNCHANGED taken
  BY <1>1 DEF MatchLen, Phases
<1>2. CASE /\ ~Ballot /\ taken < Len(input) /\ Meet("testC", "zeroN")
           /\ taken' = taken + 1 /\ UNCHANGED verdict
  BY <1>2 DEF Phases
<1>3. CASE /\ ~Ballot /\ taken = Len(input) /\ Meet("testC", "done")
           /\ UNCHANGED <<taken, verdict>>
  BY <1>3 DEF Phases
<1> QED  BY <1>1, <1>2, <1>3 DEF AcceptBallot

(* The accept ballot.  It tells whether the set accepts.                   *)
LEMMA AcceptBallotInv ==
  ASSUME IInv, AcceptBallot
  PROVE  /\ IInv'
         /\ Ballot <=> Accepting(nfa, cur)
<1>1. /\ TypeOK /\ LanesInv /\ LoopInv /\ PhaseInv
      /\ taken \in Nat /\ Len(input) \in Nat
  BY WarpFacts DEF IInv
<1>2. /\ cur \subseteq nfa.states /\ taken \in 0 .. Len(input)
      /\ verdict \in BOOLEAN \X (0 .. Len(input))
  BY <1>1 DEF TypeOK
<1>3. \A x : At(x) <=> pc[0] = x
  BY <1>1, PhaseIs
<1>4. PICK to \in Phases :
        /\ Meet("testC", to)
        /\ \/ Ballot /\ to = "done" /\ verdict' = <<TRUE, taken>> /\ taken' = taken
           \/ ~Ballot /\ taken < Len(input) /\ to = "zeroN" /\ taken' = taken + 1 /\ verdict' = verdict
           \/ ~Ballot /\ taken = Len(input) /\ to = "done" /\ taken' = taken /\ verdict' = verdict
  BY AcceptBallotSteps
<1>5. /\ pc[0] = "testC"
      /\ UNCHANGED <<nfa, input, cur, nxt, frontier, newb>>
      /\ LanesInv'
      /\ \A x : At(x)' <=> x = to
  BY <1>1, <1>4, MeetFacts
<1>6. /\ PassedOf(cur) = cur
      /\ \A s \in nfa.states : ~Passed(s)'
  BY <1>1, <1>2, <1>4, FreshPhase
<1>7. Ballot <=> Accepting(nfa, cur)
  <2>1. At("testC")
    BY <1>3, <1>5
  <2> QED  BY <2>1, <1>1, <1>6 DEF PhaseInv
<1>8. taken' \in 0 .. Len(input) /\ verdict' \in BOOLEAN \X (0 .. Len(input))
  <2>1. taken' \in 0 .. Len(input)
    <3>1. taken' = taken \/ (taken < Len(input) /\ taken' = taken + 1)
      BY <1>4
    <3>2. PICK n \in Nat : n = Len(input)
      BY <1>1
    <3> QED  BY <3>1, <3>2, <1>1, <1>2
  <2>2. <<TRUE, taken>> \in BOOLEAN \X (0 .. Len(input))
    BY <1>2, Zenon
  <2> QED  BY <2>1, <2>2, <1>2, <1>4
<1>9. TypeOK'
  BY <1>1, <1>4, <1>8, TypeMeet
<1>10. LoopInv'
  <2>1. CASE to = "done"
    BY <2>1, <1>5 DEF LoopInv
  <2>2. CASE to = "zeroN"
    <3>1. ~Accepting(nfa, cur) /\ taken' > 0 /\ verdict' = NoMatch
      BY <2>2, <1>1, <1>3, <1>4, <1>5, <1>7 DEF LoopInv
    <3> QED  BY <2>2, <3>1, <1>5 DEF LoopInv, NoMatch
  <2> QED  BY <2>1, <2>2, <1>4
<1>11. PhaseInv' /\ ~InClosure'
  <2>1. /\ ~At("zeroC")' /\ ~At("seed")' /\ ~At("scatterN")' /\ ~At("copyC")' /\ ~At("testC")'
        /\ ~InClosure'
    <3>1. to \in {"done", "zeroN"}
      BY <1>4
    <3>2. InClosure' => to \in ClosurePhases
      BY <1>5 DEF InClosure
    <3> QED  BY <3>1, <3>2, <1>5 DEF ClosurePhases
  <2>2. \A s \in nfa.states' : ~Passed(s)'
    BY <1>5, <1>6
  <2> QED  BY <2>1, <2>2 DEF PhaseInv
<1> QED  BY <1>5, <1>7, <1>9, <1>10, <1>11 DEF IInv

-----------------------------------------------------------------------------
(* The theorems. *)

(* The invariant holds when the kernel begins, with whatever the bitmaps   *)
(* hold.                                                                   *)
LEMMA InitInv == Init => IInv
<1> SUFFICES ASSUME Init
             PROVE  IInv
  OBVIOUS
<1>1. /\ pc = [l \in Lanes |-> "zeroC"] /\ w = [l \in Lanes |-> l]
      /\ vote = [l \in Lanes |-> FALSE] /\ taken = 0 /\ verdict = NoMatch
      /\ 0 \in Lanes /\ Lanes \subseteq Nat
  BY WarpAssumption DEF Init, Lanes
<1>2. TypeOK
  <2>1. Len(input) \in Nat
    BY InputsAssumption DEF Init
  <2>2. verdict \in BOOLEAN \X (0 .. Len(input))
    BY <2>1, <1>1 DEF NoMatch
  <2>3. pc \in [Lanes -> Phases] /\ w \in [Lanes -> Nat] /\ vote \in [Lanes -> BOOLEAN]
    BY <1>1 DEF Phases
  <2>4. taken \in 0 .. Len(input)
    BY <2>1, <1>1
  <2> QED  BY <2>2, <2>3, <2>4 DEF Init, TypeOK
<1>3. \A x : At(x) <=> x = "zeroC"
  BY <1>1 DEF At
<1>4. LanesInv
  <2>1. \A l \in Lanes : l % NLanes = l
    BY WarpAssumption DEF Lanes
  <2> QED  BY <2>1, <1>1, <1>3 DEF LanesInv, Phases
<1>5. LoopInv /\ ~InClosure
  BY <1>1, <1>3 DEF LoopInv, InClosure, ClosurePhases
<1>6. \A s \in nfa.states : ~Passed(s)
  BY <1>1, <1>2, NonePassed
<1>7. PhaseInv
  BY <1>3, <1>6 DEF PhaseInv
<1> QED  BY <1>2, <1>4, <1>5, <1>7 DEF IInv

(* Each step keeps the invariant.                                          *)
LEMMA StepInv == IInv /\ [Next]_vars => IInv'
<1> SUFFICES ASSUME IInv, [Next]_vars
             PROVE  IInv'
  OBVIOUS
<1>1. ASSUME NEW l \in Lanes, LaneStep(l)
      PROVE  IInv'
  <2>1. TypeOK'
    BY <1>1, TypeLane
  <2>2. LanesInv'
    <3>1. PICK ph : Sweep(l, ph)
      BY <1>1 DEF LaneStep, ZeroC, Seed, CopyF, ZeroB, ScatterB, Fold, ZeroN, ScatterN, CopyC, TestC
    <3> QED  BY <3>1, LaneFacts DEF IInv
  <2>3. Rest'
    BY <1>1, LaneInv
  <2> QED  BY <2>1, <2>2, <2>3 DEF IInv, Rest
<1>2. CASE SyncWarp
  BY <1>2, SyncInv
<1>3. CASE ClosureBallot
  BY <1>3, ClosureBallotInv
<1>4. CASE AcceptBallot
  BY <1>4, AcceptBallotInv
<1>5. CASE UNCHANGED vars
  <2>1. UNCHANGED <<nfa, input, cur, nxt, frontier, newb, pc, w, vote, taken, verdict>>
    BY <1>5 DEF vars, bitmaps, control
  <2>2. TypeOK' /\ LanesInv' /\ LoopInv'
    BY <2>1 DEF IInv, TypeOK, LanesInv, LoopInv, At, Swept, NumWords
  <2>3. /\ Base' = Base /\ Closing' = Closing /\ DebtInv' = DebtInv /\ InClosure' = InClosure
        /\ \A x : At(x)' = At(x)
        /\ \A s : Passed(s)' = Passed(s)
        /\ PassedOf(frontier)' = PassedOf(frontier) /\ PassedOf(newb)' = PassedOf(newb)
        /\ PassedOf(cur)' = PassedOf(cur)
        /\ Ballot' = Ballot
    BY <2>1 DEF Base, Closing, DebtInv, InClosure, At, Passed, PassedOf, Ballot
  <2>4. ClosureInv' = ClosureInv
    BY <2>1, <2>3 DEF ClosureInv
  <2>5. PhaseInv' = PhaseInv
    BY <2>1, <2>3 DEF PhaseInv
  <2> QED  BY <2>2, <2>3, <2>4, <2>5 DEF IInv
<1> QED  BY <1>1, <1>2, <1>3, <1>4, <1>5 DEF Next

(* The invariant always holds.                                             *)
LEMMA Inductive == Spec => []IInv
BY InitInv, StepInv, PTL DEF Spec

(* The type invariant, for every automaton and input, number of lanes and  *)
(* word size: every phase leaves the bitmaps inside the automaton.         *)
THEOREM TypeCorrect == Spec => []TypeOK
<1>1. IInv => TypeOK
  BY DEF IInv
<1> QED  BY <1>1, Inductive, PTL

(* No round of the closure starts with an edge to follow that does not     *)
(* leave the frontier (eps_closure_warp, while (any)).                     *)
THEOREM FrontierComplete == Spec => []FrontierCoversDebt
<1>1. IInv => FrontierCoversDebt
  <2> SUFFICES ASSUME IInv, At("zeroB")
               PROVE  DebtInv
    BY DEF FrontierCoversDebt, DebtInv, At
  <2> QED  BY DEF IInv, InClosure, ClosurePhases, ClosureInv
<1> QED  BY <1>1, Inductive, PTL

(* The barriers and the ownership of words leave no data race in           *)
(* simulate_one_warp: two lanes that touch a word of a bitmap with nothing *)
(* ordering them both read it or both use atomicOr.  The accept ballot     *)
(* counts as ordering nothing.                                             *)
THEOREM RaceFree == Spec => []NoDataRace
<1>1. IInv => NoDataRace
  <2> SUFFICES ASSUME IInv, NEW l \in Lanes, NEW m \in Lanes, l # m,
                      NEW x \in Accesses(l) \cup Unordered(l),
                      NEW y \in Accesses(m) \cup Unordered(m),
                      x[1] = y[1], x[2] = y[2]
               PROVE  x[3] = y[3] /\ x[3] # "w"
    BY DEF NoDataRace
  <2>1. TypeOK /\ LanesInv
    BY DEF IInv
  <2>3. PICK ph \in Phases : At(ph)
    BY <2>1 DEF LanesInv
  <2>4. pc[l] = ph /\ pc[m] = ph
    BY <2>3 DEF At
  <2>a. CASE ~(x \in Accesses(l) /\ y \in Accesses(m))
    <3>1. ASSUME NEW k \in {l, m}, NEW z \in Unordered(k)
          PROVE  ph = "zeroN" /\ z[1] = "cur" /\ z[3] = "r"
      BY <3>1, <2>4 DEF Unordered
    <3>2. ASSUME NEW k \in {l, m}, NEW z \in Accesses(k), ph = "zeroN"
          PROVE  z[1] = "nxt"
      BY <3>2, <2>4 DEF Accesses, Own
    <3>3. x \in Unordered(l) \/ y \in Unordered(m)
      BY <2>a
    <3> QED  BY <3>1, <3>2, <3>3
  <2> SUFFICES ASSUME x \in Accesses(l), y \in Accesses(m)
               PROVE  x[3] = y[3] /\ x[3] # "w"
    BY <2>a
  <2>2. ~Swept(l) /\ ~Swept(m)
    BY DEF Accesses
  <2>5. ph # "seed"
    BY <2>1, <2>2, <2>3 DEF LanesInv
  <2>6. w[l] # w[m]
    <3>1. ~At("seed")
      BY <2>4, <2>5 DEF At
    <3> QED  BY <3>1, <2>1 DEF LanesInv
  <2>7. CASE ph \in {"zeroC", "copyF", "zeroB", "fold", "zeroN", "copyC", "testC"}
    <3>1. ASSUME NEW k \in {l, m}, NEW z \in Accesses(k)
          PROVE  z[2] = w[k]
      BY <3>1, <2>2, <2>4, <2>7 DEF Accesses, Own
    <3> QED  BY <3>1, <2>6
  <2>8. CASE ph = "scatterB"
    <3>1. ASSUME NEW k \in {l, m}, NEW z \in Accesses(k)
          PROVE  \/ z[1] = "frontier" /\ z[3] = "r"
                 \/ z[1] = "newb" /\ z[3] = "a"
      BY <3>1, <2>2, <2>4, <2>8 DEF Accesses, Own, Scatter
    <3> QED  BY <3>1
  <2>9. CASE ph = "scatterN"
    <3>1. ASSUME NEW k \in {l, m}, NEW z \in Accesses(k)
          PROVE  \/ z[1] = "cur" /\ z[3] = "r"
                 \/ z[1] = "nxt" /\ z[3] = "a"
      BY <3>1, <2>2, <2>4, <2>9 DEF Accesses, Own, Scatter
    <3> QED  BY <3>1
  <2>10. ph # "done"
    BY <2>2, <2>4 DEF Accesses
  <2> QED  BY <2>5, <2>7, <2>8, <2>9, <2>10 DEF Phases, ClosurePhases
<1> QED  BY <1>1, Inductive, PTL

-----------------------------------------------------------------------------
(* The refinement of the contract. *)

(* The contract module makes its own copy of the operators on automata. *)
LEMMA SameOperators ==
  /\ \A X : Contract!Closure(nfa, X) = Closure(nfa, X)
  /\ \A X, byte : Contract!Move(nfa, X, byte) = Move(nfa, X, byte)
  /\ \A X : Contract!Accepting(nfa, X) <=> Accepting(nfa, X)
  /\ Contract!NoMatch = NoMatch
  BY DEF Contract!Closure, Closure, Contract!EpsClosed, EpsClosed, Contract!Move, Move,
         Contract!Fires, Fires, Contract!Accepting, Accepting, Contract!NoMatch, NoMatch

(* Where in the contract the warp is. *)
Image ==
  /\ pc[0] = "done" => AbsPc = "done" /\ AbsPos = taken /\ AbsActive = cur
  /\ pc[0] = "testC" => AbsPc = "run" /\ AbsPos = taken /\ AbsActive = cur
  /\ pc[0] = "copyC" => AbsPc = "run" /\ AbsPos = taken /\ AbsActive = nxt
  /\ pc[0] \notin {"done", "testC", "copyC"} =>
       IF taken = 0 THEN AbsPc = "idle" /\ AbsPos = 0 /\ AbsActive = {}
                    ELSE AbsPc = "run" /\ AbsPos = taken - 1 /\ AbsActive = cur

(* Where the contract stands while the lanes are inside a phase.           *)
LEMMA Images == IInv => Image
<1> SUFFICES ASSUME IInv
             PROVE  Image
  OBVIOUS
<1>1. TypeOK /\ LanesInv /\ LoopInv
  BY DEF IInv
<1>2. \A x : At(x) <=> pc[0] = x
  BY <1>1, PhaseIs
<1>3. pc[0] = "copyC" => taken > 0
  BY <1>1, <1>2 DEF LoopInv
<1>4. CASE pc[0] = "done"
  BY <1>2, <1>4 DEF Image, AbsPc, AbsPos, AbsActive
<1>5. CASE pc[0] = "testC"
  BY <1>2, <1>5 DEF Image, AbsPc, AbsPos, AbsActive
<1>6. CASE pc[0] = "copyC"
  <2>1. taken # 0
    BY <1>1, <1>3, <1>6, WarpFacts
  <2> QED  BY <2>1, <1>2, <1>6 DEF Image, AbsPc, AbsPos, AbsActive
<1>7. CASE pc[0] \notin {"done", "testC", "copyC"}
  BY <1>2, <1>7 DEF Image, AbsPc, AbsPos, AbsActive
<1> QED  BY <1>4, <1>5, <1>6, <1>7

(* The warp begins as the contract does.                                   *)
LEMMA InitRefines == Init => Contract!Init
<1> SUFFICES ASSUME Init
             PROVE  Contract!Init
  OBVIOUS
<1>1. Image
  BY InitInv, Images
<1>2. pc[0] = "zeroC" /\ taken = 0
  BY WarpAssumption DEF Init, Lanes
<1>3. AbsPc = "idle" /\ AbsPos = 0 /\ AbsActive = {}
  BY <1>1, <1>2 DEF Image
<1> QED  BY <1>3, SameOperators DEF Init, Contract!Init, NoMatch, Contract!NoMatch

(* Each step of the warp is a step of the contract or changes nothing of   *)
(* it.                                                                     *)
LEMMA NextRefines ==
  ASSUME IInv, IInv', [Next]_vars
  PROVE  [Contract!Next]_(Contract!vars)
<1>1. /\ TypeOK /\ LanesInv /\ LoopInv /\ PhaseInv /\ IsAutomaton(nfa)
      /\ taken \in Nat /\ Len(input) \in Nat /\ nfa.start \in nfa.states
      /\ taken \in 0 .. Len(input) /\ cur \subseteq nfa.states /\ nxt \subseteq nfa.states
      /\ 0 \in Lanes
  BY WarpFacts DEF IInv, TypeOK
<1>2. Image /\ Image'
  <2>1. (IInv => Image)'
    BY Images, PTL
  <2> QED  BY <2>1, Images
<1>3. \A x : At(x) <=> pc[0] = x
  BY <1>1, PhaseIs
<1>4. ASSUME UNCHANGED <<nfa, input, verdict>>,
             AbsPc' = AbsPc, AbsPos' = AbsPos, AbsActive' = AbsActive
      PROVE  UNCHANGED Contract!vars
  BY <1>4 DEF Contract!vars
<1>5. ASSUME NEW l \in Lanes, LaneStep(l)
      PROVE  UNCHANGED Contract!vars
  <2>1. PICK ph : Sweep(l, ph)
    BY <1>5 DEF LaneStep, ZeroC, Seed, CopyF, ZeroB, ScatterB, Fold, ZeroN, ScatterN, CopyC, TestC
  <2>2. pc[0] = ph /\ UNCHANGED <<nfa, input, pc, taken, verdict>>
    BY <1>1, <2>1, <1>5, LaneFacts
  <2>3. /\ ph = "done" \/ ph = "testC" \/ (ph # "copyC" /\ taken # 0) => cur' = cur
        /\ ph = "copyC" => nxt' = nxt
    <3>1. pc[l] = ph
      BY <2>1 DEF Sweep
    <3>2. /\ pc[l] = "zeroC" \/ pc[l] = "seed" => taken = 0
      BY <3>1, <2>2, <1>1, <1>3 DEF LoopInv
    <3> QED  BY <3>1, <3>2, <1>5
         DEF LaneStep, ZeroC, Seed, CopyF, ZeroB, ScatterB, Fold, ZeroN, ScatterN, CopyC, TestC,
             Sweep, bitmaps
  <2>4. AbsPc' = AbsPc /\ AbsPos' = AbsPos /\ AbsActive' = AbsActive
    <3>1. pc'[0] = pc[0] /\ taken' = taken
      BY <2>2
    <3>2. CASE pc[0] \in {"done", "testC"}
      BY <3>1, <3>2, <2>2, <2>3, <1>2 DEF Image
    <3>3. CASE pc[0] = "copyC"
      BY <3>1, <3>3, <2>2, <2>3, <1>2 DEF Image
    <3>4. CASE pc[0] \notin {"done", "testC", "copyC"}
      BY <3>1, <3>4, <2>2, <2>3, <1>2 DEF Image
    <3> QED  BY <3>2, <3>3, <3>4
  <2> QED  BY <2>2, <2>4, <1>4
<1>6. CASE SyncWarp
  <2>1. PICK ph, to \in Phases \ {"done"} :
          /\ Meet(ph, to)
          /\ ph \notin {"done", "testC"}
          /\ to # "copyC"
          /\ to = "testC" <=> ph = "copyC"
    BY <1>6 DEF SyncWarp, Phases, ClosurePhases
  <2>2. /\ pc[0] = ph /\ pc'[0] = to
        /\ UNCHANGED <<nfa, input, cur, nxt, taken, verdict>>
        /\ \A s \in nfa.states : Passed(s)
    BY <1>1, <1>6, <2>1, MeetFacts DEF SyncWarp
  <2>3. CASE ph = "copyC"
    <3>1. nxt = cur
      <4>1. \A s \in nfa.states : s \in cur <=> s \in nxt
        BY <2>2, <2>3, <1>1, <1>3 DEF PhaseInv
      <4> QED  BY <4>1, <1>1
    <3>2. AbsPc' = AbsPc /\ AbsPos' = AbsPos /\ AbsActive' = AbsActive
      BY <2>1, <2>2, <2>3, <3>1, <1>2 DEF Image
    <3> QED  BY <2>2, <3>2, <1>4
  <2>4. CASE ph # "copyC"
    <3>1. pc[0] \notin {"done", "testC", "copyC"} /\ pc'[0] \notin {"done", "testC", "copyC"}
      BY <2>1, <2>2, <2>4
    <3>2. AbsPc' = AbsPc /\ AbsPos' = AbsPos /\ AbsActive' = AbsActive
      BY <2>2, <3>1, <1>2 DEF Image
    <3> QED  BY <2>2, <3>2, <1>4
  <2> QED  BY <2>3, <2>4
<1>7. CASE ClosureBallot
  <2>1. PICK to \in Phases :
          /\ Meet("fold", to)
          /\ to = IF Ballot THEN "zeroB" ELSE IF taken = 0 THEN "testC" ELSE "copyC"
    BY <1>7 DEF ClosureBallot, Phases, ClosurePhases
  <2>2. /\ pc[0] = "fold" /\ pc'[0] = to
        /\ UNCHANGED <<nfa, input, cur, nxt, taken, verdict>>
    BY <1>1, <1>7, <2>1, MeetFacts DEF ClosureBallot
  <2>3. CASE Ballot
    <3>1. AbsPc' = AbsPc /\ AbsPos' = AbsPos /\ AbsActive' = AbsActive
      BY <2>1, <2>2, <2>3, <1>2 DEF Image
    <3> QED  BY <2>2, <3>1, <1>4
  <2>4. CASE ~Ballot /\ taken = 0
    <3>1. cur' = Closure(nfa, {nfa.start})
      BY <1>7, <2>2, <2>4, ClosureBallotInv DEF Closing, Base
    <3>2. AbsPc = "idle" /\ AbsPos = 0 /\ AbsPc' = "run" /\ AbsPos' = 0 /\ AbsActive' = cur'
      BY <2>1, <2>2, <2>4, <1>2 DEF Image
    <3>3. Contract!Begin
      BY <2>2, <3>1, <3>2, SameOperators DEF Contract!Begin
    <3> QED  BY <3>3 DEF Contract!Next
  <2>5. CASE ~Ballot /\ taken # 0
    <3>1. nxt' = Closure(nfa, Move(nfa, cur, input[taken]))
      BY <1>7, <2>2, <2>5, ClosureBallotInv DEF Closing, Base
    <3>2. /\ AbsPc = "run" /\ AbsPos = taken - 1 /\ AbsActive = cur
          /\ AbsPc' = "run" /\ AbsPos' = taken /\ AbsActive' = nxt'
      BY <2>1, <2>2, <2>5, <1>2 DEF Image
    <3>3. ~Accepting(nfa, cur)
      BY <2>2, <2>5, <1>1, <1>3 DEF LoopInv
    <3>4. AbsPos + 1 = taken /\ AbsPos < Len(input)
      BY <3>2, <1>1
    <3>5. Contract!Consume
      BY <2>2, <3>1, <3>2, <3>3, <3>4, SameOperators DEF Contract!Consume, Contract!NextByte
    <3> QED  BY <3>5 DEF Contract!Next
  <2> QED  BY <2>3, <2>4, <2>5
<1>8. CASE AcceptBallot
  <2>1. PICK to \in Phases :
          /\ Meet("testC", to)
          /\ \/ Ballot /\ to = "done" /\ verdict' = <<TRUE, taken>> /\ taken' = taken
             \/ ~Ballot /\ taken < Len(input) /\ to = "zeroN" /\ taken' = taken + 1 /\ verdict' = verdict
             \/ ~Ballot /\ taken = Len(input) /\ to = "done" /\ taken' = taken /\ verdict' = verdict
    BY <1>8, AcceptBallotSteps
  <2>2. /\ pc[0] = "testC" /\ pc'[0] = to
        /\ UNCHANGED <<nfa, input, cur, nxt>>
        /\ verdict = NoMatch
    <3>1. pc[0] = "testC" /\ pc'[0] = to /\ UNCHANGED <<nfa, input, cur, nxt>>
      BY <1>1, <2>1, MeetFacts
    <3> QED  BY <3>1, <1>1, <1>3 DEF LoopInv
  <2>3. AbsPc = "run" /\ AbsPos = taken /\ AbsActive = cur
    BY <2>2, <1>2 DEF Image
  <2>4. Ballot <=> Accepting(nfa, cur)
    BY <1>8, AcceptBallotInv
  <2>5. CASE Ballot
    <3>1. AbsPc' = "done" /\ AbsPos' = AbsPos /\ AbsActive' = AbsActive /\ verdict' = <<TRUE, taken>>
      BY <2>1, <2>2, <2>3, <2>5, <1>2 DEF Image
    <3>2. Contract!Latch
      BY <2>2, <2>3, <2>4, <2>5, <3>1, SameOperators DEF Contract!Latch
    <3> QED  BY <3>2 DEF Contract!Next
  <2>6. CASE ~Ballot /\ to = "zeroN"
    <3>1. taken' = taken + 1 /\ verdict' = verdict /\ taken' # 0
      BY <2>1, <2>6, <1>1
    <3>2. AbsPc' = "run" /\ AbsPos' = taken' - 1 /\ AbsActive' = cur'
      BY <2>2, <2>6, <3>1, <1>2 DEF Image
    <3> QED  BY <2>2, <2>3, <3>1, <3>2, <1>1, <1>4
  <2>7. CASE ~Ballot /\ to # "zeroN"
    <3>1. taken = Len(input) /\ to = "done" /\ taken' = taken /\ verdict' = NoMatch
      BY <2>1, <2>2, <2>7
    <3>2. AbsPc' = "done" /\ AbsPos' = AbsPos /\ AbsActive' = AbsActive
      BY <2>2, <2>3, <3>1, <1>2 DEF Image
    <3>3. Contract!Exhaust
      BY <2>2, <2>3, <2>4, <2>7, <3>1, <3>2, SameOperators DEF Contract!Exhaust
    <3> QED  BY <3>3 DEF Contract!Next
  <2> QED  BY <2>5, <2>6, <2>7
<1>9. CASE UNCHANGED vars
  <2>1. UNCHANGED <<nfa, input, verdict, pc, taken, cur, nxt>>
    BY <1>9 DEF vars, bitmaps, control
  <2> QED  BY <2>1, <1>4 DEF AbsPc, AbsPos, AbsActive, At
<1> QED  BY <1>5, <1>6, <1>7, <1>8, <1>9 DEF Next

(* The warp makes the moves of the contract and no other, in every order   *)
(* of its lanes: simulate_one_warp agrees with reference.simulate on every *)
(* automaton and input.                                                    *)
THEOREM Refinement == Spec => Contract!Spec
<1>1. IInv /\ IInv' /\ [Next]_vars => [Contract!Next]_(Contract!vars)
  BY NextRefines
<1> QED  BY <1>1, InitRefines, Inductive, PTL DEF Spec, Contract!Spec
-----------------------------------------------------------------------------
(* What the refinement brings: the theorems of the contract.               *)

ContractProofs == INSTANCE LatchFirstMatchProofs WITH
  pc <- AbsPc, pos <- AbsPos, active <- AbsActive, breaks <- FALSE

(* The contract whose theorems these are is the one refined.               *)
LEMMA SameContract ==
  /\ Contract!Spec <=> ContractProofs!Spec
  /\ Contract!ShortestMatch <=> ContractProofs!ShortestMatch
<1> USE DEF Contract!NoMatch, Contract!Fires, Contract!Accepting,
            ContractProofs!NoMatch, ContractProofs!Fires, ContractProofs!Accepting
<1>1. Contract!Spec <=> ContractProofs!Spec
  BY DEF Contract!Spec, Contract!Init, Contract!Next, Contract!vars, Contract!Begin,
         Contract!Latch, Contract!Consume, Contract!Break, Contract!Exhaust,
         Contract!NextByte, Contract!Closure, Contract!EpsClosed, Contract!Move,
         ContractProofs!Spec, ContractProofs!Init, ContractProofs!Next, ContractProofs!vars,
         ContractProofs!Begin, ContractProofs!Latch, ContractProofs!Consume,
         ContractProofs!Break, ContractProofs!Exhaust, ContractProofs!NextByte,
         ContractProofs!Closure, ContractProofs!EpsClosed, ContractProofs!Move
<1>2. Contract!ShortestMatch <=> ContractProofs!ShortestMatch
  BY DEF Contract!ShortestMatch, Contract!MatchesAt, Contract!Slice, Contract!Reached,
         Contract!Configs, Contract!PathClosed,
         ContractProofs!ShortestMatch, ContractProofs!MatchesAt, ContractProofs!Slice,
         ContractProofs!Reached, ContractProofs!Configs, ContractProofs!PathClosed
<1> QED  BY <1>1, <1>2

(* The warp reports the shortest matching prefix, however its lanes        *)
(* interleave and whatever its memory held: what reference.simulate is     *)
(* proved to report, with no loop of either in the statement.              *)
THEOREM ReportsShortestMatch == Spec => []Contract!ShortestMatch
<1>1. \A a \in Automata : ContractProofs!IsAutomaton(a)
  BY AutomataAssumption DEF IsAutomaton, ContractProofs!IsAutomaton
<1>2. ContractProofs!Spec => []ContractProofs!ShortestMatch
  BY <1>1, WildcardAssumption, InputsAssumption, ContractProofs!VerdictCorrect
<1> QED  BY <1>2, Refinement, SameContract, PTL
=============================================================================
