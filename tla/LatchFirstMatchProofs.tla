----------------------- MODULE LatchFirstMatchProofs -----------------------
(***************************************************************************)
(* The contract computes the shortest match, for every automaton and       *)
(* input, with the early exit and without it.  States need not be finite:  *)
(* the closure and the reached configurations are least fixed points, so   *)
(* both directions of every equality are one use of leastness.             *)
(***************************************************************************)
EXTENDS LatchFirstMatch, TLAPS

-----------------------------------------------------------------------------
(* The epsilon closure is a closure operator. *)

(* The closure holds what it is the closure of. *)
LEMMA ClosureExtends ==
  ASSUME NEW aut, NEW X \in SUBSET aut.states
  PROVE  X \subseteq Closure(aut, X) /\ Closure(aut, X) \subseteq aut.states
  BY DEF Closure

(* No epsilon edge leaves the closure. *)
LEMMA ClosureClosed ==
  ASSUME NEW aut, IsAutomaton(aut), NEW X
  PROVE  EpsClosed(aut, Closure(aut, X))
<1> SUFFICES ASSUME NEW e \in aut.eps, e[1] \in Closure(aut, X)
             PROVE  e[2] \in Closure(aut, X)
  BY DEF EpsClosed
<1>1. e[2] \in aut.states
  BY DEF IsAutomaton
<1>2. ASSUME NEW Z \in SUBSET aut.states, X \subseteq Z, EpsClosed(aut, Z)
      PROVE  e[2] \in Z
  <2>1. e[1] \in Z
    BY <1>2 DEF Closure
  <2>2. QED
    BY <2>1, <1>2 DEF EpsClosed
<1>3. QED
  BY <1>1, <1>2 DEF Closure

(* The closure is the least such set. *)
LEMMA ClosureLeast ==
  ASSUME NEW aut, NEW X, NEW Z \in SUBSET aut.states,
         X \subseteq Z, EpsClosed(aut, Z)
  PROVE  Closure(aut, X) \subseteq Z
  BY DEF Closure

(* Symbol edges stay inside the automaton. *)
LEMMA MoveType ==
  ASSUME NEW aut, IsAutomaton(aut), NEW X, NEW byte
  PROVE  Move(aut, X, byte) \subseteq aut.states
  BY DEF Move, IsAutomaton

-----------------------------------------------------------------------------
(* Reached is closed under the paths of the automaton, and least. *)

WellFormed == IsAutomaton(nfa) /\ input \in Seq(Bytes)

(* The reached configurations hold the start, and no edge leaves them. *)
LEMMA ReachedClosed ==
  ASSUME WellFormed
  PROVE  PathClosed(Reached)
<1> USE DEF WellFormed
<1>0. Len(input) \in Nat
  OBVIOUS
<1>1. <<0, nfa.start>> \in Reached
  <2>1. <<0, nfa.start>> \in Configs
    BY <1>0 DEF Configs, IsAutomaton
  <2>2. QED
    BY <2>1 DEF Reached, PathClosed
<1>2. ASSUME NEW c \in Reached, NEW e \in nfa.eps, e[1] = c[2]
      PROVE  <<c[1], e[2]>> \in Reached
  <2>1. <<c[1], e[2]>> \in Configs
    BY DEF Reached, Configs, IsAutomaton
  <2>2. ASSUME NEW R \in SUBSET Configs, PathClosed(R)
        PROVE  <<c[1], e[2]>> \in R
    <3>1. c \in R
      BY <2>2 DEF Reached
    <3>2. QED
      BY <3>1, <2>2, <1>2 DEF PathClosed
  <2>3. QED
    BY <2>1, <2>2 DEF Reached
<1>3. ASSUME NEW c \in Reached, NEW e \in nfa.sym,
             c[1] < Len(input), e[1] = c[2], Fires(e[2], input[c[1] + 1])
      PROVE  <<c[1] + 1, e[3]>> \in Reached
  <2>1. <<c[1] + 1, e[3]>> \in Configs
    <3>1. c[1] \in 0 .. Len(input)
      BY DEF Reached, Configs
    <3>2. c[1] + 1 \in 0 .. Len(input)
      BY <3>1, <1>0, <1>3
    <3>3. e[3] \in nfa.states
      BY DEF IsAutomaton
    <3>4. QED
      BY <3>2, <3>3 DEF Configs
  <2>2. ASSUME NEW R \in SUBSET Configs, PathClosed(R)
        PROVE  <<c[1] + 1, e[3]>> \in R
    <3>1. c \in R
      BY <2>2 DEF Reached
    <3>2. QED
      BY <3>1, <2>2, <1>3 DEF PathClosed
  <2>3. QED
    BY <2>1, <2>2 DEF Reached
<1>4. QED
  BY <1>1, <1>2, <1>3 DEF PathClosed

(* A slice is eps-closed. *)
LEMMA SliceEpsClosed ==
  ASSUME WellFormed, NEW i
  PROVE  EpsClosed(nfa, Slice(i))
<1> SUFFICES ASSUME NEW e \in nfa.eps, e[1] \in Slice(i)
             PROVE  e[2] \in Slice(i)
  BY DEF EpsClosed
<1>1. <<i, e[1]>> \in Reached
  BY DEF Slice
<1>2. <<i, e[2]>> \in Reached
  BY <1>1, ReachedClosed DEF PathClosed
<1>3. QED
  BY <1>2 DEF Slice, WellFormed, IsAutomaton

(* Before any byte, the start closure is reached and nothing else. *)
LEMMA FirstSlice ==
  ASSUME WellFormed
  PROVE  Slice(0) = Closure(nfa, {nfa.start})
<1> DEFINE K == Closure(nfa, {nfa.start})
<1> DEFINE R == {c \in Reached : c[1] = 0 => c[2] \in K}
<1>0. IsAutomaton(nfa) /\ nfa.start \in nfa.states /\ Len(input) \in Nat
  BY DEF WellFormed, IsAutomaton
<1>1. K \subseteq Slice(0)
  <2>1. nfa.start \in Slice(0)
    BY <1>0, ReachedClosed DEF PathClosed, Slice
  <2>2. Slice(0) \in SUBSET nfa.states
    BY DEF Slice
  <2>3. QED
    BY <2>1, <2>2, SliceEpsClosed, ClosureLeast
<1>2. PathClosed(R)
  <2>1. <<0, nfa.start>> \in R
    BY <1>0, ReachedClosed, ClosureExtends DEF PathClosed
  <2>2. ASSUME NEW c \in R, NEW e \in nfa.eps, e[1] = c[2]
        PROVE  <<c[1], e[2]>> \in R
    <3>1. <<c[1], e[2]>> \in Reached
      BY <2>2, ReachedClosed DEF PathClosed
    <3>2. c[1] = 0 => e[2] \in K
      BY <2>2, <1>0, ClosureClosed DEF EpsClosed
    <3>3. QED
      BY <3>1, <3>2
  <2>3. ASSUME NEW c \in R, NEW e \in nfa.sym,
               c[1] < Len(input), e[1] = c[2], Fires(e[2], input[c[1] + 1])
        PROVE  <<c[1] + 1, e[3]>> \in R
    <3>1. <<c[1] + 1, e[3]>> \in Reached
      BY <2>3, ReachedClosed DEF PathClosed
    <3>2. c[1] + 1 # 0
      BY <1>0 DEF Reached, Configs
    <3>3. QED
      BY <3>1, <3>2
  <2>4. QED
    BY <2>1, <2>2, <2>3 DEF PathClosed
<1>3. Slice(0) \subseteq K
  <2>1. R \in SUBSET Configs
    BY DEF Reached
  <2>2. Reached \subseteq R
    BY <1>2, <2>1 DEF Reached
  <2>3. QED
    BY <2>2 DEF Slice
<1>4. QED
  BY <1>1, <1>3

(* One byte further, what is reached is the closure of the move. *)
LEMMA NextSlice ==
  ASSUME WellFormed, NEW i \in Nat, i < Len(input)
  PROVE  Slice(i + 1) = Closure(nfa, Move(nfa, Slice(i), input[i + 1]))
<1> DEFINE M == Move(nfa, Slice(i), input[i + 1])
<1> DEFINE K == Closure(nfa, M)
<1> DEFINE R == {c \in Reached : c[1] = i + 1 => c[2] \in K}
<1>0. IsAutomaton(nfa) /\ Len(input) \in Nat /\ M \in SUBSET nfa.states
  BY MoveType DEF WellFormed
<1>1. K \subseteq Slice(i + 1)
  <2>1. ASSUME NEW t \in M
        PROVE  t \in Slice(i + 1)
    <3>1. PICK e \in nfa.sym : e[1] \in Slice(i) /\ Fires(e[2], input[i + 1]) /\ e[3] = t
      BY DEF Move
    <3>2. <<i, e[1]>> \in Reached
      BY <3>1 DEF Slice
    <3>3. <<i + 1, t>> \in Reached
      BY <3>1, <3>2, ReachedClosed DEF PathClosed
    <3>4. QED
      BY <3>3, <1>0 DEF Slice
  <2>2. Slice(i + 1) \in SUBSET nfa.states
    BY DEF Slice
  <2>3. QED
    BY <2>1, <2>2, SliceEpsClosed, ClosureLeast
<1>2. PathClosed(R)
  <2>1. <<0, nfa.start>> \in R
    BY ReachedClosed DEF PathClosed
  <2>2. ASSUME NEW c \in R, NEW e \in nfa.eps, e[1] = c[2]
        PROVE  <<c[1], e[2]>> \in R
    <3>1. <<c[1], e[2]>> \in Reached
      BY <2>2, ReachedClosed DEF PathClosed
    <3>2. c[1] = i + 1 => e[2] \in K
      BY <2>2, <1>0, ClosureClosed DEF EpsClosed
    <3>3. QED
      BY <3>1, <3>2
  <2>3. ASSUME NEW c \in R, NEW e \in nfa.sym,
               c[1] < Len(input), e[1] = c[2], Fires(e[2], input[c[1] + 1])
        PROVE  <<c[1] + 1, e[3]>> \in R
    <3>1. <<c[1] + 1, e[3]>> \in Reached
      BY <2>3, ReachedClosed DEF PathClosed
    <3>2. ASSUME c[1] + 1 = i + 1
          PROVE  e[3] \in K
      <4>1. c \in Configs /\ c \in Reached
        BY DEF Reached
      <4>2. c[1] = i /\ c = <<c[1], c[2]>> /\ c[2] \in nfa.states
        BY <4>1, <3>2 DEF Configs
      <4>3. c[2] \in Slice(i)
        BY <4>1, <4>2 DEF Slice
      <4>4. e[3] \in M
        BY <4>2, <4>3, <2>3 DEF Move
      <4>5. QED
        BY <4>4, <1>0, ClosureExtends
    <3>3. QED
      BY <3>1, <3>2
  <2>4. QED
    BY <2>1, <2>2, <2>3 DEF PathClosed
<1>3. Slice(i + 1) \subseteq K
  <2>1. R \in SUBSET Configs
    BY DEF Reached
  <2>2. Reached \subseteq R
    BY <1>2, <2>1 DEF Reached
  <2>3. QED
    BY <2>2 DEF Slice
<1>4. QED
  BY <1>1, <1>3

(* When nothing fires, nothing is reached any more: leaving the loop early *)
(* loses no match.                                                         *)
LEMMA DeadSlices ==
  ASSUME WellFormed, NEW i \in Nat, i < Len(input),
         Move(nfa, Slice(i), input[i + 1]) = {},
         NEW j \in Nat, i < j
  PROVE  Slice(j) = {}
<1> DEFINE R == {c \in Reached : c[1] <= i}
<1>0. Len(input) \in Nat
  BY DEF WellFormed
<1>1. PathClosed(R)
  <2>1. <<0, nfa.start>> \in R
    BY ReachedClosed DEF PathClosed
  <2>2. ASSUME NEW c \in R, NEW e \in nfa.eps, e[1] = c[2]
        PROVE  <<c[1], e[2]>> \in R
    BY <2>2, ReachedClosed DEF PathClosed
  <2>3. ASSUME NEW c \in R, NEW e \in nfa.sym,
               c[1] < Len(input), e[1] = c[2], Fires(e[2], input[c[1] + 1])
        PROVE  <<c[1] + 1, e[3]>> \in R
    <3>1. <<c[1] + 1, e[3]>> \in Reached
      BY <2>3, ReachedClosed DEF PathClosed
    <3>2. c \in Configs /\ c \in Reached
      BY DEF Reached
    <3>3. c[1] \in Nat /\ c = <<c[1], c[2]>> /\ c[2] \in nfa.states
      BY <3>2, <1>0 DEF Configs
    <3>4. c[1] # i
      <4> SUFFICES ASSUME c[1] = i PROVE FALSE
        OBVIOUS
      <4>1. c[2] \in Slice(i)
        BY <3>2, <3>3 DEF Slice
      <4>2. e[3] \in Move(nfa, Slice(i), input[i + 1])
        BY <4>1, <2>3 DEF Move
      <4>3. QED
        BY <4>2
    <3>5. c[1] + 1 <= i
      BY <3>3, <3>4
    <3>6. QED
      BY <3>1, <3>5
  <2>4. QED
    BY <2>1, <2>2, <2>3 DEF PathClosed
<1>2. R \in SUBSET Configs
  BY DEF Reached
<1>3. Reached \subseteq R
  BY <1>1, <1>2 DEF Reached
<1>4. QED
  BY <1>3 DEF Slice

-----------------------------------------------------------------------------
(* The call never leaves its types. *)
LEMMA WellFormedCall ==
  ASSUME TypeOK
  PROVE  WellFormed /\ Len(input) \in Nat
  BY AutomataAssumption, InputsAssumption DEF TypeOK, WellFormed

(* The verdict of a call that found nothing has the type of a verdict. *)
LEMMA NoMatchType ==
  ASSUME NEW n \in Nat
  PROVE  NoMatch \in BOOLEAN \X (0 .. n)
<1>1. 0 \in 0 .. n
  OBVIOUS
<1>2. QED
  BY <1>1, Zenon DEF NoMatch

(* Every step keeps the types of the call's variables. *)
THEOREM TypeCorrect == Spec => []TypeOK
<1>1. Init => TypeOK
  <2> SUFFICES ASSUME Init PROVE TypeOK
    OBVIOUS
  <2>1. Len(input) \in Nat
    BY InputsAssumption DEF Init
  <2>2. QED
    BY <2>1, NoMatchType DEF Init, TypeOK
<1>2. TypeOK /\ [Next]_vars => TypeOK'
  <2> SUFFICES ASSUME TypeOK, [Next]_vars
               PROVE  TypeOK'
    OBVIOUS
  <2>0. WellFormed /\ Len(input) \in Nat
    BY WellFormedCall
  <2>1. CASE Begin
    BY <2>1 DEF Begin, TypeOK, Closure
  <2>2. CASE Latch
    BY <2>2, <2>0 DEF Latch, TypeOK
  <2>3. CASE Consume
    <3>1. active' \subseteq nfa.states
      BY <2>3 DEF Consume, Closure
    <3>2. pos' \in 0 .. Len(input)
      BY <2>3, <2>0 DEF Consume, TypeOK
    <3>3. QED
      BY <2>3, <3>1, <3>2 DEF Consume, TypeOK
  <2>4. CASE Break
    BY <2>4, <2>0, NoMatchType DEF Break, TypeOK
  <2>5. CASE Exhaust
    BY <2>5, <2>0, NoMatchType DEF Exhaust, TypeOK
  <2>6. CASE UNCHANGED vars
    BY <2>6 DEF vars, TypeOK
  <2>7. QED
    BY <2>1, <2>2, <2>3, <2>4, <2>5, <2>6 DEF Next
<1>3. QED
  BY <1>1, <1>2, PTL DEF Spec

-----------------------------------------------------------------------------
(* ShortestMatch is not inductive: that the latched prefix is the shortest *)
(* needs that no earlier one matched, and that needs that the active set   *)
(* is what is reached.                                                     *)
NoEarlierMatch ==
  /\ pc = "idle" => pos = 0
  /\ pc = "run" => \A j \in 0 .. pos - 1 : ~MatchesAt(j)

IInv == TypeOK /\ ActiveIsReached /\ NoEarlierMatch /\ ShortestMatch

(* What is reached depends on the automaton and the input alone. *)
LEMMA ReachedRigid ==
  ASSUME UNCHANGED <<nfa, input>>
  PROVE  \A i : Slice(i)' = Slice(i) /\ MatchesAt(i)' = MatchesAt(i)
  BY DEF Slice, MatchesAt, Reached, PathClosed, Configs

(* A call begins with the start closure, before any match. *)
LEMMA InitIInv == Init => IInv
<1> SUFFICES ASSUME Init PROVE IInv
  OBVIOUS
<1>1. Len(input) \in Nat
  BY InputsAssumption DEF Init
<1>2. TypeOK
  BY <1>1, NoMatchType DEF Init, TypeOK
<1>3. QED
  BY <1>2 DEF Init, IInv, ActiveIsReached, NoEarlierMatch, ShortestMatch

(* Every step of the loop keeps the invariant. *)
LEMMA NextIInv == TypeOK' /\ IInv /\ [Next]_vars => IInv'
<1> SUFFICES ASSUME TypeOK', IInv, [Next]_vars
             PROVE  IInv'
  OBVIOUS
<1>0. WellFormed /\ Len(input) \in Nat /\ pos \in 0 .. Len(input)
  BY WellFormedCall DEF IInv, TypeOK
<1>1. CASE Begin
  <2>1. Slice(0)' = Slice(0)
    BY <1>1, ReachedRigid DEF Begin
  <2>2. pos = 0 /\ pos' = 0 /\ pc' = "run"
    BY <1>1 DEF Begin, IInv, NoEarlierMatch
  <2>3. active' = Slice(0)
    BY <1>0, <1>1, FirstSlice DEF Begin
  <2>4. ActiveIsReached'
    BY <2>1, <2>2, <2>3 DEF ActiveIsReached
  <2>5. NoEarlierMatch' /\ ShortestMatch'
    BY <2>2 DEF NoEarlierMatch, ShortestMatch
  <2>6. QED
    BY <2>4, <2>5 DEF IInv
<1>2. CASE Latch
  <2>1. \A i : Slice(i)' = Slice(i) /\ MatchesAt(i)' = MatchesAt(i)
    BY <1>2, ReachedRigid DEF Latch
  <2>2. /\ pc' = "done" /\ pos' = pos /\ active' = active
        /\ verdict' = <<TRUE, pos>> /\ input' = input
    BY <1>2 DEF Latch
  <2>3. active = Slice(pos) /\ \A j \in 0 .. pos - 1 : ~MatchesAt(j)
    BY <1>2 DEF Latch, IInv, ActiveIsReached, NoEarlierMatch
  <2>4. MatchesAt(pos)
    BY <1>2, <2>3 DEF Latch, MatchesAt
  <2>5. ActiveIsReached' /\ NoEarlierMatch'
    BY <2>1, <2>2, <2>3 DEF ActiveIsReached, NoEarlierMatch
  <2>6. ShortestMatch'
    BY <1>0, <2>1, <2>2, <2>3, <2>4 DEF ShortestMatch
  <2>7. QED
    BY <2>5, <2>6 DEF IInv
<1>3. CASE Consume
  <2>1. \A i : Slice(i)' = Slice(i) /\ MatchesAt(i)' = MatchesAt(i)
    BY <1>3, ReachedRigid DEF Consume
  <2>2. /\ pc = "run" /\ pc' = "run" /\ pos' = pos + 1 /\ pos < Len(input)
        /\ active = Slice(pos) /\ pos \in Nat
    BY <1>0, <1>3 DEF Consume, IInv, ActiveIsReached
  <2>3. active' = Slice(pos + 1)
    BY <1>0, <1>3, <2>2, NextSlice DEF Consume, NextByte
  <2>4. ActiveIsReached'
    BY <2>1, <2>2, <2>3 DEF ActiveIsReached
  <2>5. ~MatchesAt(pos)
    BY <1>3, <2>2 DEF Consume, MatchesAt
  <2>6. \A j \in 0 .. pos : ~MatchesAt(j)
    BY <2>2, <2>5 DEF IInv, NoEarlierMatch
  <2>7. NoEarlierMatch' /\ ShortestMatch'
    BY <2>1, <2>2, <2>6 DEF NoEarlierMatch, ShortestMatch
  <2>8. QED
    BY <2>4, <2>7 DEF IInv
<1>4. CASE Break
  <2>1. \A i : Slice(i)' = Slice(i) /\ MatchesAt(i)' = MatchesAt(i)
    BY <1>4, ReachedRigid DEF Break
  <2>2. /\ pc = "run" /\ pc' = "done" /\ pos' = pos /\ pos < Len(input)
        /\ active' = active /\ active = Slice(pos) /\ pos \in Nat
        /\ verdict' = NoMatch /\ input' = input
    BY <1>0, <1>4 DEF Break, IInv, ActiveIsReached
  <2>3. \A j \in 0 .. pos : ~MatchesAt(j)
    <3>1. ~MatchesAt(pos)
      BY <1>4, <2>2 DEF Break, MatchesAt
    <3>2. QED
      BY <2>2, <3>1 DEF IInv, NoEarlierMatch
  <2>4. ASSUME NEW j \in Nat, pos < j
        PROVE  ~MatchesAt(j)
    <3>1. Slice(j) = {}
      BY <1>0, <1>4, <2>2, <2>4, DeadSlices DEF Break, NextByte
    <3>2. QED
      BY <3>1 DEF MatchesAt, Accepting
  <2>5. \A j \in 0 .. Len(input) : ~MatchesAt(j)
    BY <1>0, <2>2, <2>3, <2>4
  <2>6. QED
    BY <2>1, <2>2, <2>5
    DEF IInv, ActiveIsReached, NoEarlierMatch, ShortestMatch
<1>5. CASE Exhaust
  <2>1. \A i : Slice(i)' = Slice(i) /\ MatchesAt(i)' = MatchesAt(i)
    BY <1>5, ReachedRigid DEF Exhaust
  <2>2. /\ pc = "run" /\ pc' = "done" /\ pos' = pos /\ pos = Len(input)
        /\ active' = active /\ active = Slice(pos) /\ verdict' = NoMatch
        /\ input' = input
    BY <1>5 DEF Exhaust, IInv, ActiveIsReached
  <2>3. ~MatchesAt(pos)
    BY <1>5, <2>2 DEF Exhaust, MatchesAt
  <2>4. \A j \in 0 .. Len(input) : ~MatchesAt(j)
    BY <1>0, <2>2, <2>3 DEF IInv, NoEarlierMatch
  <2>5. QED
    BY <2>1, <2>2, <2>4
    DEF IInv, ActiveIsReached, NoEarlierMatch, ShortestMatch
<1>6. CASE UNCHANGED vars
  <2>1. \A i : Slice(i)' = Slice(i) /\ MatchesAt(i)' = MatchesAt(i)
    BY <1>6, ReachedRigid DEF vars
  <2>2. QED
    BY <1>6, <2>1
    DEF vars, IInv, ActiveIsReached, NoEarlierMatch, ShortestMatch
<1>7. QED
  BY <1>1, <1>2, <1>3, <1>4, <1>5, <1>6 DEF Next

(* The invariant holds throughout every call of simulate. *)
THEOREM Invariance == Spec => []IInv
<1>1. IInv /\ [Next]_vars /\ TypeOK' => IInv'
  BY NextIInv
<1>2. QED
  BY <1>1, InitIInv, TypeCorrect, PTL DEF Spec

(* The active set of a running call is what the automaton reaches on the   *)
(* bytes consumed, for every automaton and input.                          *)
THEOREM ActiveSetCorrect == Spec => []ActiveIsReached
<1>1. IInv => ActiveIsReached
  BY DEF IInv
<1>2. QED
  BY <1>1, Invariance, PTL

(* A finished call reports the shortest matching prefix, or no match when  *)
(* there is none, for every automaton and input, with the early exit of    *)
(* the reference and without it.                                           *)
THEOREM VerdictCorrect == Spec => []ShortestMatch
<1>1. IInv => ShortestMatch
  BY DEF IInv
<1>2. QED
  BY <1>1, Invariance, PTL
=============================================================================
