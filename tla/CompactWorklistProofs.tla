----------------------- MODULE CompactWorklistProofs -----------------------
(***************************************************************************)
(* The arrays and the bitmap of worklist_compact_kernel agree, no frontier *)
(* overruns its slots, and the kernel makes the moves of the contract, for *)
(* every automaton and input.                                              *)
(*                                                                         *)
(* VisitedMirrorsFrontier alone is not inductive: clearing the bits of the *)
(* old frontier leaves V empty only if the array being filled is empty     *)
(* then, and an append keeps the array free of duplicates only because the *)
(* bit it tests says whether the state is already in it.  For the contract *)
(* it has to be known besides which edges a scan has followed so far.      *)
(***************************************************************************)
EXTENDS CompactWorklist, FiniteSetTheorems, TLAPS

-----------------------------------------------------------------------------
(* Facts about appending to a sequence without duplicates. *)

NoDuplicates(q) == \A m, n \in DOMAIN q : q[m] = q[n] => m = n

(* The range of the empty sequence ... *)
LEMMA RangeOfEmpty == Range(<<>>) = {}
  BY DEF Range

(* ... of a singleton, which has no duplicate ... *)
LEMMA RangeOfOne == ASSUME NEW s PROVE Range(<<s>>) = {s} /\ NoDuplicates(<<s>>)
  BY DEF Range, NoDuplicates

(* ... which is a sequence over what it holds ... *)
LEMMA OneInSeq == ASSUME NEW S, NEW s \in S PROVE <<s>> \in Seq(S)
<1>1. <<s>> = Append(<<>>, s) /\ <<>> \in Seq(S)
  OBVIOUS
<1>2. QED
  BY <1>1

(* ... and of an append. *)
LEMMA RangeOfAppend ==
  ASSUME NEW S, NEW q \in Seq(S), NEW t \in S
  PROVE  /\ Append(q, t) \in Seq(S)
         /\ Range(Append(q, t)) = Range(q) \cup {t}
<1>1. /\ Append(q, t) \in Seq(S)
      /\ Len(q) \in Nat
      /\ DOMAIN q = 1 .. Len(q)
      /\ DOMAIN Append(q, t) = 1 .. Len(q) + 1
  OBVIOUS
<1>2. \A k \in 1 .. Len(q) : Append(q, t)[k] = q[k]
  OBVIOUS
<1>3. Append(q, t)[Len(q) + 1] = t
  OBVIOUS
<1>4. Range(Append(q, t)) \subseteq Range(q) \cup {t}
  <2>1. SUFFICES ASSUME NEW k \in 1 .. Len(q) + 1
                 PROVE  Append(q, t)[k] \in Range(q) \cup {t}
    BY <1>1 DEF Range
  <2>2. CASE k \in 1 .. Len(q)
    BY <2>2, <1>1, <1>2 DEF Range
  <2>3. CASE k = Len(q) + 1
    BY <2>3, <1>3
  <2>4. QED
    BY <2>2, <2>3, <1>1
<1>5. Range(q) \cup {t} \subseteq Range(Append(q, t))
  <2>1. ASSUME NEW k \in 1 .. Len(q)
        PROVE  q[k] \in Range(Append(q, t))
    <3>1. k \in DOMAIN Append(q, t)
      BY <1>1
    <3>2. QED
      BY <3>1, <1>2 DEF Range
  <2>2. t \in Range(Append(q, t))
    <3>1. Len(q) + 1 \in DOMAIN Append(q, t)
      BY <1>1
    <3>2. QED
      BY <3>1, <1>3 DEF Range
  <2>3. QED
    BY <2>1, <2>2, <1>1 DEF Range
<1>6. QED
  BY <1>1, <1>4, <1>5

(* Appending what is not there yet makes no duplicate. *)
LEMMA AppendNoDuplicates ==
  ASSUME NEW S, NEW q \in Seq(S), NEW t \in S, NoDuplicates(q), t \notin Range(q)
  PROVE  NoDuplicates(Append(q, t))
<1>1. /\ Len(q) \in Nat
      /\ DOMAIN q = 1 .. Len(q)
      /\ DOMAIN Append(q, t) = 1 .. Len(q) + 1
  OBVIOUS
<1>2. \A k \in 1 .. Len(q) : Append(q, t)[k] = q[k] /\ q[k] # t
  <2>1. \A k \in 1 .. Len(q) : Append(q, t)[k] = q[k]
    OBVIOUS
  <2>2. \A k \in 1 .. Len(q) : q[k] \in Range(q)
    BY <1>1 DEF Range
  <2>3. QED
    BY <2>1, <2>2
<1>3. Append(q, t)[Len(q) + 1] = t
  OBVIOUS
<1>4. SUFFICES ASSUME NEW m \in 1 .. Len(q) + 1, NEW n \in 1 .. Len(q) + 1,
                      Append(q, t)[m] = Append(q, t)[n]
               PROVE  m = n
  BY <1>1 DEF NoDuplicates
<1>5. CASE m \in 1 .. Len(q) /\ n \in 1 .. Len(q)
  BY <1>5, <1>4, <1>2, <1>1 DEF NoDuplicates
<1>6. CASE m = Len(q) + 1 \/ n = Len(q) + 1
  BY <1>6, <1>4, <1>2, <1>3, <1>1
<1>7. QED
  BY <1>5, <1>6, <1>1

(* A sequence without duplicates is no longer than the set it draws from. *)
LEMMA NoDuplicatesBound ==
  ASSUME NEW S, IsFiniteSet(S), NEW q \in Seq(S), NoDuplicates(q)
  PROVE  Len(q) <= Cardinality(S)
<1>1. Len(q) \in Nat /\ DOMAIN q = 1 .. Len(q) /\ q \in [1 .. Len(q) -> S]
  OBVIOUS
<1>2. IsFiniteSet(1 .. Len(q)) /\ Cardinality(1 .. Len(q)) = Len(q)
  BY <1>1, FS_Interval
<1>3. q \in Injection(1 .. Len(q), S)
  BY <1>1 DEF NoDuplicates, Injection, IsInjective
<1>4. QED
  BY <1>2, <1>3, FS_Injection

-----------------------------------------------------------------------------
(* The inductive invariant. *)

QueueEmptyAtHead == pc = "head" => queue = <<>>

IInv ==
  /\ TypeOK
  /\ VisitedMirrorsFrontier
  /\ QueueEmptyAtHead
  /\ NoDuplicates(queue)
  /\ NoDuplicates(front)

(* What the assumptions say of the automaton and input of a thread. *)
LEMMA WellFormedThread ==
  ASSUME TypeOK
  PROVE  IsAutomaton(nfa) /\ IsFiniteSet(nfa.states) /\ Len(input) \in Nat
  BY AutomataAssumption, InputsAssumption DEF TypeOK, IsNumbered

(* A flag and a length make a verdict. *)
LEMMA VerdictType ==
  ASSUME NEW n \in Nat, NEW flag \in BOOLEAN, NEW len \in 0 .. n
  PROVE  <<flag, len>> \in BOOLEAN \X (0 .. n)
  BY Zenon

(* A thread starts with the invariant, whatever its memory holds. *)
LEMMA InitIInv == Init => IInv
<1> SUFFICES ASSUME Init PROVE IInv
  OBVIOUS
<1>1. Len(input) \in Nat
  BY InputsAssumption DEF Init
<1>2. <<>> \in Seq(nfa.states)
  OBVIOUS
<1>3. TypeOK
  <2>1. verdict \in BOOLEAN \X (0 .. Len(input))
    <3>1. 0 \in 0 .. Len(input)
      BY <1>1
    <3>2. <<FALSE, 0>> \in BOOLEAN \X (0 .. Len(input))
      BY <1>1, <3>1, VerdictType
    <3>3. QED
      BY <3>2 DEF Init, NoMatch
  <2>2. QED
    BY <1>1, <1>2, <2>1 DEF Init, TypeOK
<1>4. QED
  BY <1>3 DEF Init, IInv, VisitedMirrorsFrontier, QueueEmptyAtHead, NoDuplicates

(* Inserting a state that is not marked keeps array and bitmap in step. *)
LEMMA InsertMirrors ==
  ASSUME IInv, NEW t \in nfa.states, Insert(t), visited = Range(queue)
  PROVE  /\ queue' \in Seq(nfa.states)
         /\ visited' = Range(queue')
         /\ visited' \subseteq nfa.states
         /\ NoDuplicates(queue')
<1>1. queue \in Seq(nfa.states) /\ visited \subseteq nfa.states
  BY DEF IInv, TypeOK
<1>2. t \notin Range(queue) /\ queue' = Append(queue, t) /\ visited' = visited \cup {t}
  BY DEF Insert
<1>3. QED
  BY <1>1, <1>2, RangeOfAppend, AppendNoDuplicates DEF IInv

(* Every step of the kernel keeps the invariant. *)
LEMMA NextIInv == IInv /\ [Next]_vars => IInv'
<1> SUFFICES ASSUME IInv, [Next]_vars PROVE IInv'
  OBVIOUS
<1>0. IsAutomaton(nfa) /\ Len(input) \in Nat
  BY WellFormedThread DEF IInv
<1>1. CASE Seed
  <2>1. nfa.start \in nfa.states
    BY <1>0 DEF IsAutomaton
  <2>2. queue' \in Seq(nfa.states)
    BY <2>1, <1>1, OneInSeq DEF Seed
  <2>3. TypeOK'
    BY <1>1, <2>1, <2>2 DEF Seed, IInv, TypeOK
  <2>4. visited' = Range(queue') /\ NoDuplicates(queue')
    BY <1>1, RangeOfOne DEF Seed
  <2>5. QED
    BY <1>1, <2>3, <2>4
    DEF Seed, IInv, VisitedMirrorsFrontier, QueueEmptyAtHead, NoDuplicates
<1>2. CASE CloseInsert
  <2>1. PICK t \in EpsSucc(nfa, {queue[j]}) : Insert(t)
    BY <1>2 DEF CloseInsert
  <2>2. t \in nfa.states
    BY <2>1, <1>0 DEF EpsSucc, IsAutomaton
  <2>3. visited = Range(queue)
    BY <1>2 DEF CloseInsert, IInv, VisitedMirrorsFrontier
  <2>4. /\ queue' \in Seq(nfa.states)
        /\ visited' = Range(queue') /\ visited' \subseteq nfa.states
        /\ NoDuplicates(queue')
    BY <2>1, <2>2, <2>3, InsertMirrors
  <2>5. TypeOK'
    BY <1>2, <2>4 DEF CloseInsert, IInv, TypeOK
  <2>6. QED
    BY <1>2, <2>4, <2>5
    DEF CloseInsert, IInv, VisitedMirrorsFrontier, QueueEmptyAtHead, NoDuplicates
<1>3. CASE CloseNext
  BY <1>3
  DEF CloseNext, IInv, TypeOK, VisitedMirrorsFrontier, QueueEmptyAtHead, NoDuplicates
<1>4. CASE CloseDone
  BY <1>4
  DEF CloseDone, IInv, TypeOK, VisitedMirrorsFrontier, QueueEmptyAtHead, NoDuplicates
<1>5. CASE Check
  <2>1. visited = Range(queue) /\ queue \in Seq(nfa.states)
    BY <1>5 DEF Check, IInv, TypeOK, VisitedMirrorsFrontier
  <2>2. <<>> \in Seq(nfa.states) /\ NoDuplicates(<<>>)
    BY DEF NoDuplicates
  <2>3. pc' \in {"head", "done"} /\ verdict' \in BOOLEAN \X (0 .. Len(input))
    <3>1. <<TRUE, taken>> \in BOOLEAN \X (0 .. Len(input))
      BY <1>0, VerdictType DEF IInv, TypeOK
    <3>2. verdict' = <<TRUE, taken>> \/ verdict' = verdict
      BY <1>5 DEF Check, MatchLen
    <3>3. QED
      BY <1>5, <3>1, <3>2 DEF Check, IInv, TypeOK
  <2>4. TypeOK'
    BY <1>5, <2>1, <2>2, <2>3 DEF Check, IInv, TypeOK
  <2>5. QED
    BY <1>5, <2>1, <2>2, <2>3, <2>4
    DEF Check, IInv, VisitedMirrorsFrontier, QueueEmptyAtHead, NoDuplicates
<1>6. CASE TakeByte
  <2>1. visited' = {} /\ queue' = <<>>
    BY <1>6 DEF TakeByte, IInv, VisitedMirrorsFrontier, QueueEmptyAtHead
  <2>2. taken' \in 0 .. Len(input)
    BY <1>6, <1>0 DEF TakeByte, IInv, TypeOK
  <2>3. TypeOK'
    BY <1>6, <2>1, <2>2 DEF TakeByte, IInv, TypeOK
  <2>4. QED
    BY <1>6, <2>1, <2>3, RangeOfEmpty
    DEF TakeByte, IInv, VisitedMirrorsFrontier, QueueEmptyAtHead, NoDuplicates
<1>7. CASE Stop
  BY <1>7 DEF Stop, IInv, TypeOK, VisitedMirrorsFrontier, QueueEmptyAtHead, NoDuplicates
<1>8. CASE MoveInsert
  <2>1. PICK t \in Move(nfa, {front[j]}, Sym) : Insert(t)
    BY <1>8 DEF MoveInsert
  <2>2. t \in nfa.states
    BY <2>1, <1>0 DEF Move, IsAutomaton
  <2>3. visited = Range(queue)
    BY <1>8 DEF MoveInsert, IInv, VisitedMirrorsFrontier
  <2>4. /\ queue' \in Seq(nfa.states)
        /\ visited' = Range(queue') /\ visited' \subseteq nfa.states
        /\ NoDuplicates(queue')
    BY <2>1, <2>2, <2>3, InsertMirrors
  <2>5. TypeOK'
    BY <1>8, <2>4 DEF MoveInsert, IInv, TypeOK
  <2>6. QED
    BY <1>8, <2>4, <2>5
    DEF MoveInsert, IInv, VisitedMirrorsFrontier, QueueEmptyAtHead, NoDuplicates
<1>9. CASE MoveNext
  BY <1>9
  DEF MoveNext, IInv, TypeOK, VisitedMirrorsFrontier, QueueEmptyAtHead, NoDuplicates
<1>10. CASE MoveDone
  BY <1>10
  DEF MoveDone, IInv, TypeOK, VisitedMirrorsFrontier, QueueEmptyAtHead, NoDuplicates
<1>11. CASE UNCHANGED vars
  BY <1>11
  DEF vars, IInv, TypeOK, VisitedMirrorsFrontier, QueueEmptyAtHead, NoDuplicates
<1>12. QED
  BY <1>1, <1>2, <1>3, <1>4, <1>5, <1>6, <1>7, <1>8, <1>9, <1>10, <1>11 DEF Next

(* The invariant holds throughout every call. *)
THEOREM Invariance == Spec => []IInv
<1>1. QED
  BY InitIInv, NextIInv, PTL DEF Spec

(* Every value stays in its type, the bitmap among the states of the       *)
(* automaton and the arrays of ids within them.                            *)
THEOREM TypeCorrect == Spec => []TypeOK
<1>1. IInv => TypeOK
  BY DEF IInv
<1>2. QED
  BY <1>1, Invariance, PTL

(* For every automaton and input, the visited bitmap holds exactly the     *)
(* live frontier: clearing only the touched bits clears all of them.       *)
THEOREM BitmapExact == Spec => []VisitedMirrorsFrontier
<1>1. IInv => VisitedMirrorsFrontier
  BY DEF IInv
<1>2. QED
  BY <1>1, Invariance, PTL

(* For every automaton and input, neither frontier outgrows the num_states *)
(* ids the host allocates for each string.                                 *)
THEOREM FrontierFits == Spec => []NoOverrun
<1>1. IInv => NoOverrun
  <2> SUFFICES ASSUME IInv PROVE NoOverrun
    OBVIOUS
  <2>1. IsFiniteSet(nfa.states)
    BY WellFormedThread DEF IInv
  <2>2. /\ queue \in Seq(nfa.states) /\ NoDuplicates(queue)
        /\ front \in Seq(nfa.states) /\ NoDuplicates(front)
    BY DEF IInv, TypeOK
  <2>3. /\ Len(queue) <= Cardinality(nfa.states)
        /\ Len(front) <= Cardinality(nfa.states)
    BY <2>1, <2>2, NoDuplicatesBound
  <2>4. QED
    BY <2>2, <2>3 DEF NoOverrun, NoDuplicates
<1>2. QED
  BY <1>1, Invariance, PTL

-----------------------------------------------------------------------------
(* The refinement of the contract. *)

(* What the scan of an array has reached before index n. *)
Scanned(q, n) == {q[m] : m \in {k \in DOMAIN q : k < n}}

(* The part of an array that is scanned grows by one id at a time, and an  *)
(* id appended is not in it yet.                                           *)
LEMMA ScanFacts ==
  ASSUME NEW S, NEW q \in Seq(S), NEW n \in Nat \ {0}
  PROVE  /\ n = 1 => Scanned(q, n) = {}
         /\ n > Len(q) => Scanned(q, n) = Range(q)
         /\ n <= Len(q) =>
              /\ q[n] \in Range(q)
              /\ q[n] \in S
              /\ Scanned(q, n + 1) = Scanned(q, n) \cup {q[n]}
              /\ \A t \in S : Scanned(Append(q, t), n) = Scanned(q, n)
<1>1. Len(q) \in Nat /\ DOMAIN q = 1 .. Len(q) /\ \A k \in 1 .. Len(q) : q[k] \in S
  OBVIOUS
<1>2. n = 1 => Scanned(q, n) = {}
  BY <1>1 DEF Scanned
<1>3. ASSUME n > Len(q)
      PROVE  Scanned(q, n) = Range(q)
  <2>1. {k \in DOMAIN q : k < n} = DOMAIN q
    BY <1>1, <1>3
  <2> QED  BY <2>1 DEF Scanned, Range
<1>4. ASSUME n <= Len(q)
      PROVE  /\ q[n] \in Range(q)
             /\ q[n] \in S
             /\ Scanned(q, n + 1) = Scanned(q, n) \cup {q[n]}
             /\ \A t \in S : Scanned(Append(q, t), n) = Scanned(q, n)
  <2>1. n \in DOMAIN q
    BY <1>1, <1>4
  <2>2. {k \in DOMAIN q : k < n + 1} = {k \in DOMAIN q : k < n} \cup {n}
    BY <1>1, <2>1
  <2>3. Scanned(q, n + 1) = Scanned(q, n) \cup {q[n]}
    BY <2>2 DEF Scanned
  <2>4. ASSUME NEW t \in S
        PROVE  Scanned(Append(q, t), n) = Scanned(q, n)
    <3>1. DOMAIN Append(q, t) = 1 .. Len(q) + 1 /\ \A k \in 1 .. Len(q) : Append(q, t)[k] = q[k]
      BY <1>1
    <3>2. {k \in DOMAIN Append(q, t) : k < n} = {k \in DOMAIN q : k < n}
      BY <3>1, <1>1, <1>4
    <3>3. \A k \in {x \in DOMAIN q : x < n} : Append(q, t)[k] = q[k]
      BY <3>1, <1>1
    <3> QED  BY <3>2, <3>3 DEF Scanned
  <2> QED  BY <1>1, <2>1, <2>3, <2>4 DEF Range
<1> QED  BY <1>2, <1>3, <1>4

(* The edges of the automaton: each leaves one state of a set. *)
LEMMA EdgeFacts ==
  ASSUME IsAutomaton(nfa)
  PROVE  /\ \A X : EpsSucc(nfa, X) \subseteq nfa.states
         /\ \A X, byte : Move(nfa, X, byte) \subseteq nfa.states
         /\ \A X, Y : EpsSucc(nfa, X \cup Y) = EpsSucc(nfa, X) \cup EpsSucc(nfa, Y)
         /\ \A X, Y, byte : Move(nfa, X \cup Y, byte) = Move(nfa, X, byte) \cup Move(nfa, Y, byte)
         /\ \A X, Y : X \subseteq Y => EpsSucc(nfa, X) \subseteq EpsSucc(nfa, Y)
         /\ \A X, Y, byte : X \subseteq Y => Move(nfa, X, byte) \subseteq Move(nfa, Y, byte)
         /\ EpsSucc(nfa, {}) = {} /\ \A byte : Move(nfa, {}, byte) = {}
<1>1. /\ \A X : EpsSucc(nfa, X) \subseteq nfa.states
      /\ \A X, byte : Move(nfa, X, byte) \subseteq nfa.states
  BY DEF EpsSucc, Move, IsAutomaton
<1>2. /\ \A X, Y : EpsSucc(nfa, X \cup Y) = EpsSucc(nfa, X) \cup EpsSucc(nfa, Y)
      /\ \A X, Y : X \subseteq Y => EpsSucc(nfa, X) \subseteq EpsSucc(nfa, Y)
      /\ EpsSucc(nfa, {}) = {}
  BY DEF EpsSucc
<1>3. \A X, Y, byte : Move(nfa, X \cup Y, byte) = Move(nfa, X, byte) \cup Move(nfa, Y, byte)
  BY DEF Move
<1>4. /\ \A X, Y, byte : X \subseteq Y => Move(nfa, X, byte) \subseteq Move(nfa, Y, byte)
      /\ \A byte : Move(nfa, {}, byte) = {}
  BY DEF Move
<1> QED  BY <1>1, <1>2, <1>3, <1>4

(* The closure holds what it is the closure of and all its epsilon         *)
(* successors, and a part of it that no epsilon edge leaves is all of it.  *)
LEMMA ClosureFacts ==
  ASSUME IsAutomaton(nfa), NEW X \in SUBSET nfa.states
  PROVE  /\ X \subseteq Closure(nfa, X)
         /\ \A Y : Y \subseteq Closure(nfa, X) => EpsSucc(nfa, Y) \subseteq Closure(nfa, X)
         /\ \A Y : /\ X \subseteq Y /\ Y \subseteq Closure(nfa, X)
                   /\ EpsSucc(nfa, Y) \subseteq Y
                   => Y = Closure(nfa, X)
<1>1. X \subseteq Closure(nfa, X) /\ Closure(nfa, X) \subseteq nfa.states
  BY DEF Closure
<1>2. ASSUME NEW Y, Y \subseteq Closure(nfa, X), NEW e \in nfa.eps, e[1] \in Y
      PROVE  e[2] \in Closure(nfa, X)
  <2>1. e[2] \in nfa.states /\ e[1] \in Closure(nfa, X)
    BY <1>2 DEF IsAutomaton
  <2>2. ASSUME NEW Z \in SUBSET nfa.states, X \subseteq Z, EpsClosed(nfa, Z)
        PROVE  e[2] \in Z
    BY <2>1, <2>2 DEF Closure, EpsClosed
  <2> QED  BY <2>1, <2>2 DEF Closure
<1>3. ASSUME NEW Y, X \subseteq Y, Y \subseteq Closure(nfa, X), EpsSucc(nfa, Y) \subseteq Y
      PROVE  Y = Closure(nfa, X)
  <2>1. EpsClosed(nfa, Y) /\ Y \in SUBSET nfa.states
    BY <1>1, <1>3 DEF EpsClosed, EpsSucc
  <2> QED  BY <2>1, <1>3 DEF Closure
<1> QED  BY <1>1, <1>2, <1>3 DEF EpsSucc

(* What the closure starts from: the array the moves have filled. *)
Base == IF taken = 0 THEN {nfa.start} ELSE Move(nfa, Range(front), Sym)

(* How far the loop is: the edges of what a scan has passed have been      *)
(* followed, and the array holds nothing it should not.                    *)
ScanInv ==
  /\ pc = "seed" => taken = 0 /\ j = 1
  /\ pc = "move" => taken > 0
  /\ pc # "done" => verdict = NoMatch
  /\ pc \in {"head", "move"} \/ (pc = "close" /\ taken > 0) => ~Accepting(nfa, Range(front))
  /\ pc = "move" => /\ Range(queue) \subseteq Base
                    /\ Move(nfa, Scanned(front, j), Sym) \subseteq Range(queue)
  /\ pc = "close" => /\ Base \subseteq Range(queue)
                     /\ Range(queue) \subseteq Closure(nfa, Base)
                     /\ EpsSucc(nfa, Scanned(queue, j)) \subseteq Range(queue)

(* Each step keeps what the scan knows of the edges it has followed.       *)
LEMMA NextScanInv == IInv /\ IInv' /\ ScanInv /\ [Next]_vars => ScanInv'
<1> SUFFICES ASSUME IInv, IInv', ScanInv, [Next]_vars
             PROVE  ScanInv'
  OBVIOUS
<1>0. /\ IsAutomaton(nfa) /\ Len(input) \in Nat /\ taken \in Nat /\ j \in Nat \ {0}
      /\ nfa.start \in nfa.states
      /\ front \in Seq(nfa.states) /\ queue \in Seq(nfa.states)
  BY WellFormedThread DEF IInv, TypeOK, IsAutomaton
<1>1. Base \in SUBSET nfa.states
  BY <1>0, EdgeFacts DEF Base
<1>2. CASE Seed
  <2>1. /\ pc' = "close" /\ taken' = 0 /\ taken = 0 /\ j' = 1 /\ verdict' = NoMatch /\ nfa' = nfa
        /\ queue' = <<nfa.start>>
    BY <1>2 DEF Seed, ScanInv
  <2>2. Base' = {nfa.start} /\ Range(queue') = {nfa.start}
    BY <2>1, RangeOfOne DEF Base
  <2>3. Scanned(queue', 1) = {}
    <3>1. queue' \in Seq(nfa.states)
      BY <2>1, <1>0, OneInSeq
    <3> QED  BY <3>1, ScanFacts
  <2>4. {nfa.start} \subseteq Closure(nfa, {nfa.start})
    BY <1>0, ClosureFacts
  <2>5. /\ Base' \subseteq Range(queue)'
        /\ Range(queue)' \subseteq Closure(nfa, Base)'
        /\ EpsSucc(nfa, Scanned(queue, j))' \subseteq Range(queue)'
    BY <2>1, <2>2, <2>3, <2>4, <1>0, EdgeFacts
  <2> QED  BY <2>1, <2>5 DEF ScanInv, NoMatch
<1>3. CASE CloseInsert
  <2>1. PICK t \in EpsSucc(nfa, {queue[j]}) : Insert(t)
    BY <1>3 DEF CloseInsert
  <2>2. /\ pc = "close" /\ j <= Len(queue) /\ queue' = Append(queue, t)
        /\ UNCHANGED <<nfa, input, pc, taken, front, j, verdict>>
        /\ t \in nfa.states
    BY <2>1, <1>0, <1>3, EdgeFacts DEF CloseInsert, Insert
  <2>3. /\ Range(queue') = Range(queue) \cup {t}
        /\ queue[j] \in Range(queue)
        /\ Scanned(queue', j) = Scanned(queue, j)
    BY <2>2, <1>0, RangeOfAppend, ScanFacts
  <2>4. /\ Base \subseteq Range(queue)
        /\ Range(queue) \subseteq Closure(nfa, Base)
        /\ EpsSucc(nfa, Scanned(queue, j)) \subseteq Range(queue)
    BY <2>2 DEF ScanInv
  <2>5. t \in Closure(nfa, Base)
    <3>1. {queue[j]} \subseteq Closure(nfa, Base)
      BY <2>3, <2>4
    <3> QED  BY <3>1, <2>1, <1>0, <1>1, ClosureFacts
  <2>6. Base' = Base
    BY <2>2 DEF Base, Sym
  <2>7. /\ Base' \subseteq Range(queue)'
        /\ Range(queue)' \subseteq Closure(nfa, Base)'
        /\ EpsSucc(nfa, Scanned(queue, j))' \subseteq Range(queue)'
    BY <2>2, <2>3, <2>4, <2>5, <2>6
  <2>8. verdict' = NoMatch /\ (taken' > 0 => ~Accepting(nfa, Range(front))')
    BY <2>2 DEF ScanInv
  <2> QED  BY <2>2, <2>7, <2>8 DEF ScanInv, NoMatch
<1>4. CASE CloseNext
  <2>1. /\ pc = "close" /\ j <= Len(queue) /\ j' = j + 1
        /\ UNCHANGED <<nfa, input, pc, taken, front, queue, visited, verdict>>
        /\ EpsSucc(nfa, {queue[j]}) \subseteq visited
    BY <1>4 DEF CloseNext
  <2>2. visited = Range(queue)
    BY <2>1 DEF IInv, VisitedMirrorsFrontier
  <2>3. /\ Base \subseteq Range(queue)
        /\ Range(queue) \subseteq Closure(nfa, Base)
        /\ EpsSucc(nfa, Scanned(queue, j)) \subseteq Range(queue)
    BY <2>1 DEF ScanInv
  <2>4. Scanned(queue, j') = Scanned(queue, j) \cup {queue[j]}
    BY <2>1, <1>0, ScanFacts
  <2>5. EpsSucc(nfa, Scanned(queue, j')) \subseteq Range(queue)
    BY <2>1, <2>2, <2>3, <2>4, <1>0, EdgeFacts
  <2>6. Base' = Base
    BY <2>1 DEF Base, Sym
  <2>7. /\ Base' \subseteq Range(queue)'
        /\ Range(queue)' \subseteq Closure(nfa, Base)'
        /\ EpsSucc(nfa, Scanned(queue, j))' \subseteq Range(queue)'
    BY <2>1, <2>3, <2>5, <2>6
  <2>8. verdict' = NoMatch /\ (taken' > 0 => ~Accepting(nfa, Range(front))')
    BY <2>1 DEF ScanInv
  <2> QED  BY <2>1, <2>7, <2>8 DEF ScanInv, NoMatch
<1>5. CASE CloseDone
  BY <1>5 DEF CloseDone, ScanInv, NoMatch
<1>6. CASE Check
  <2>1. /\ pc = "check" /\ front' = queue /\ pc' \in {"head", "done"} /\ nfa' = nfa
        /\ pc' = "head" => ~Accepting(nfa, Range(queue)) /\ verdict' = NoMatch
    BY <1>6 DEF Check, ScanInv
  <2>2. pc' = "head" => ~Accepting(nfa, Range(front))'
    BY <2>1
  <2> QED  BY <2>1, <2>2 DEF ScanInv, NoMatch
<1>7. CASE TakeByte
  <2>1. /\ pc = "head" /\ pc' = "move" /\ taken' = taken + 1 /\ j' = 1 /\ queue' = <<>>
        /\ UNCHANGED <<nfa, input, front, verdict>>
    BY <1>7 DEF TakeByte, IInv, QueueEmptyAtHead
  <2>2. taken' > 0 /\ verdict' = NoMatch /\ ~Accepting(nfa, Range(front))
    BY <2>1, <1>0 DEF ScanInv
  <2>3. Scanned(front, 1) = {}
    BY <1>0, ScanFacts
  <2>4. Move(nfa, Scanned(front, j), Sym)' = {} /\ Range(queue)' = {}
    BY <2>1, <2>3, <1>0, EdgeFacts, RangeOfEmpty
  <2>5. ~Accepting(nfa, Range(front))'
    BY <2>1, <2>2
  <2> QED  BY <2>1, <2>2, <2>4, <2>5 DEF ScanInv, NoMatch
<1>8. CASE Stop
  BY <1>8 DEF Stop, ScanInv
<1>9. CASE MoveInsert
  <2>1. PICK t \in Move(nfa, {front[j]}, Sym) : Insert(t)
    BY <1>9 DEF MoveInsert
  <2>2. /\ pc = "move" /\ j <= Len(front) /\ queue' = Append(queue, t)
        /\ UNCHANGED <<nfa, input, pc, taken, front, j, verdict>>
        /\ t \in nfa.states
    BY <2>1, <1>0, <1>9, EdgeFacts DEF MoveInsert, Insert
  <2>3. Range(queue') = Range(queue) \cup {t} /\ front[j] \in Range(front)
    BY <2>2, <1>0, RangeOfAppend, ScanFacts
  <2>4. /\ Range(queue) \subseteq Base
        /\ Move(nfa, Scanned(front, j), Sym) \subseteq Range(queue)
        /\ taken > 0 /\ verdict' = NoMatch /\ ~Accepting(nfa, Range(front))
    BY <2>2 DEF ScanInv
  <2>5. t \in Base
    <3>1. Base = Move(nfa, Range(front), Sym) /\ {front[j]} \subseteq Range(front)
      BY <2>3, <2>4, <1>0 DEF Base
    <3> QED  BY <3>1, <2>1, <1>0, EdgeFacts
  <2>6. Base' = Base /\ Sym' = Sym
    BY <2>2 DEF Base, Sym
  <2>7. /\ Range(queue)' \subseteq Base'
        /\ Move(nfa, Scanned(front, j), Sym)' \subseteq Range(queue)'
        /\ ~Accepting(nfa, Range(front))'
    BY <2>2, <2>3, <2>4, <2>5, <2>6
  <2> QED  BY <2>2, <2>4, <2>7 DEF ScanInv, NoMatch
<1>10. CASE MoveNext
  <2>1. /\ pc = "move" /\ j <= Len(front) /\ j' = j + 1
        /\ UNCHANGED <<nfa, input, pc, taken, front, queue, visited, verdict>>
        /\ Move(nfa, {front[j]}, Sym) \subseteq visited
    BY <1>10 DEF MoveNext
  <2>2. visited = Range(queue)
    BY <2>1 DEF IInv, VisitedMirrorsFrontier
  <2>3. /\ Range(queue) \subseteq Base
        /\ Move(nfa, Scanned(front, j), Sym) \subseteq Range(queue)
        /\ taken > 0 /\ verdict' = NoMatch /\ ~Accepting(nfa, Range(front))
    BY <2>1 DEF ScanInv
  <2>4. Scanned(front, j') = Scanned(front, j) \cup {front[j]}
    BY <2>1, <1>0, ScanFacts
  <2>5. Move(nfa, Scanned(front, j'), Sym) \subseteq Range(queue)
    BY <2>1, <2>2, <2>3, <2>4, <1>0, EdgeFacts
  <2>6. Base' = Base /\ Sym' = Sym
    BY <2>1 DEF Base, Sym
  <2>7. /\ Range(queue)' \subseteq Base'
        /\ Move(nfa, Scanned(front, j), Sym)' \subseteq Range(queue)'
        /\ ~Accepting(nfa, Range(front))'
    BY <2>1, <2>3, <2>5, <2>6
  <2> QED  BY <2>1, <2>3, <2>7 DEF ScanInv, NoMatch
<1>11. CASE MoveDone
  <2>1. /\ pc = "move" /\ j > Len(front) /\ pc' = "close" /\ j' = 1
        /\ UNCHANGED <<nfa, input, taken, front, queue, verdict>>
    BY <1>11 DEF MoveDone
  <2>2. /\ Range(queue) \subseteq Base
        /\ Move(nfa, Scanned(front, j), Sym) \subseteq Range(queue)
        /\ taken > 0 /\ verdict' = NoMatch /\ ~Accepting(nfa, Range(front))
    BY <2>1 DEF ScanInv
  <2>3. Base \subseteq Range(queue)
    <3>1. Scanned(front, j) = Range(front)
      BY <2>1, <1>0, ScanFacts
    <3> QED  BY <3>1, <2>2, <1>0 DEF Base
  <2>4. Scanned(queue, 1) = {}
    BY <1>0, ScanFacts
  <2>5. Base' = Base
    BY <2>1 DEF Base, Sym
  <2>6. Base \subseteq Closure(nfa, Base)
    BY <1>0, <1>1, ClosureFacts
  <2>7. /\ Base' \subseteq Range(queue)'
        /\ Range(queue)' \subseteq Closure(nfa, Base)'
        /\ EpsSucc(nfa, Scanned(queue, j))' \subseteq Range(queue)'
        /\ ~Accepting(nfa, Range(front))'
    BY <2>1, <2>2, <2>3, <2>4, <2>5, <2>6, <1>0, EdgeFacts
  <2> QED  BY <2>1, <2>2, <2>7 DEF ScanInv, NoMatch
<1>12. CASE UNCHANGED vars
  BY <1>12 DEF vars, ScanInv, Base, Sym, Scanned, Range
<1> QED
  BY <1>2, <1>3, <1>4, <1>5, <1>6, <1>7, <1>8, <1>9, <1>10, <1>11, <1>12 DEF Next

(* The contract module makes its own copy of the operators on automata. *)
LEMMA SameOperators ==
  /\ \A X : Contract!Closure(nfa, X) = Closure(nfa, X)
  /\ \A X, byte : Contract!Move(nfa, X, byte) = Move(nfa, X, byte)
  /\ \A X : Contract!Accepting(nfa, X) <=> Accepting(nfa, X)
  /\ Contract!NoMatch = NoMatch
  BY DEF Contract!Closure, Closure, Contract!EpsClosed, EpsClosed, Contract!Move, Move,
         Contract!Fires, Fires, Contract!Accepting, Accepting, Contract!NoMatch, NoMatch

(* A kernel begins as the contract does.                                   *)
LEMMA InitRefines == Init => Contract!Init /\ ScanInv
<1> SUFFICES ASSUME Init
             PROVE  Contract!Init /\ ScanInv
  OBVIOUS
<1>1. AbsPc = "idle" /\ AbsPos = 0 /\ AbsActive = {}
  BY RangeOfEmpty DEF Init, AbsPc, AbsPos, AbsActive, InPrologue
<1>2. Contract!Init
  BY <1>1, SameOperators DEF Init, Contract!Init, NoMatch, Contract!NoMatch
<1> QED  BY <1>2 DEF Init, ScanInv

(* The closure that completes is the contract's step: it begins before the *)
(* loop and consumes a byte in it.                                         *)
LEMMA CloseDoneRefines ==
  ASSUME IInv, ScanInv, CloseDone
  PROVE  Contract!Begin \/ Contract!Consume
<1>1. /\ IsAutomaton(nfa) /\ Len(input) \in Nat /\ taken \in 0 .. Len(input) /\ j \in Nat \ {0}
      /\ queue \in Seq(nfa.states) /\ nfa.start \in nfa.states
  BY WellFormedThread DEF IInv, TypeOK, IsAutomaton
<1>2. /\ pc = "close" /\ j > Len(queue) /\ pc' = "check"
      /\ UNCHANGED <<nfa, input, taken, front, queue, verdict>>
  BY DEF CloseDone
<1>3. Range(queue) = Closure(nfa, Base)
  <2>1. Base \in SUBSET nfa.states
    BY <1>1, EdgeFacts DEF Base
  <2>2. /\ Base \subseteq Range(queue)
        /\ Range(queue) \subseteq Closure(nfa, Base)
        /\ EpsSucc(nfa, Scanned(queue, j)) \subseteq Range(queue)
    BY <1>2 DEF ScanInv
  <2>3. Scanned(queue, j) = Range(queue)
    BY <1>1, <1>2, ScanFacts
  <2> QED  BY <2>1, <2>2, <2>3, <1>1, ClosureFacts
<1>4. AbsPc' = "run" /\ AbsPos' = taken /\ AbsActive' = Range(queue)
  BY <1>2 DEF AbsPc, AbsPos, AbsActive, InPrologue
<1>5. CASE taken = 0
  <2>1. AbsPc = "idle" /\ AbsPos = 0
    BY <1>2, <1>5 DEF AbsPc, AbsPos, InPrologue
  <2>2. Range(queue) = Closure(nfa, {nfa.start})
    BY <1>3, <1>5 DEF Base
  <2>3. Contract!Begin
    BY <1>2, <1>4, <1>5, <2>1, <2>2, SameOperators DEF Contract!Begin
  <2> QED  BY <2>3
<1>6. CASE taken # 0
  <2>1. AbsPc = "run" /\ AbsPos = taken - 1 /\ AbsActive = Range(front)
    BY <1>1, <1>2, <1>6 DEF AbsPc, AbsPos, AbsActive, InPrologue
  <2>2. AbsPos + 1 = taken /\ AbsPos < Len(input)
    BY <1>1, <2>1
  <2>3. Range(queue) = Closure(nfa, Move(nfa, Range(front), input[taken]))
    BY <1>3, <1>6 DEF Base, Sym
  <2>4. ~Accepting(nfa, Range(front))
    BY <1>1, <1>2, <1>6 DEF ScanInv
  <2>5. Contract!Consume
    BY <1>2, <1>4, <2>1, <2>2, <2>3, <2>4, SameOperators DEF Contract!Consume, Contract!NextByte
  <2> QED  BY <2>5
<1> QED  BY <1>5, <1>6

(* Each step of the kernel is a step of the contract or changes nothing of *)
(* it.                                                                     *)
LEMMA NextRefines ==
  ASSUME IInv, ScanInv, [Next]_vars
  PROVE  [Contract!Next]_(Contract!vars)
<1>0. Len(input) \in Nat /\ taken \in 0 .. Len(input)
  BY WellFormedThread DEF IInv, TypeOK
<1>1. ASSUME UNCHANGED <<nfa, input, verdict>>,
             AbsPc' = AbsPc, AbsPos' = AbsPos, AbsActive' = AbsActive
      PROVE  UNCHANGED Contract!vars
  BY <1>1 DEF Contract!vars
<1>2. CASE CloseInsert \/ CloseNext \/ MoveInsert \/ MoveNext \/ UNCHANGED vars
  <2>1. UNCHANGED <<nfa, input, verdict, pc, taken, front>>
        /\ (pc = "check" => UNCHANGED queue)
    BY <1>2 DEF CloseInsert, CloseNext, MoveInsert, MoveNext, vars
  <2>2. AbsPc' = AbsPc /\ AbsPos' = AbsPos /\ AbsActive' = AbsActive
    BY <2>1 DEF AbsPc, AbsPos, AbsActive, InPrologue
  <2> QED  BY <1>1, <2>1, <2>2
<1>3. CASE Seed
  <2>1. /\ pc = "seed" /\ pc' = "close" /\ taken = 0
        /\ UNCHANGED <<nfa, input, verdict, taken, front>>
    BY <1>3 DEF Seed, ScanInv
  <2>2. AbsPc' = AbsPc /\ AbsPos' = AbsPos /\ AbsActive' = AbsActive
    BY <2>1 DEF AbsPc, AbsPos, AbsActive, InPrologue
  <2> QED  BY <1>1, <2>1, <2>2
<1>4. CASE CloseDone
  BY <1>4, CloseDoneRefines DEF Contract!Next
<1>5. CASE Check
  <2>1. /\ pc = "check" /\ front' = queue /\ UNCHANGED <<nfa, input, taken>>
        /\ verdict = NoMatch /\ pc' \in {"head", "done"}
    BY <1>5 DEF Check, ScanInv
  <2>2. /\ AbsPc = "run" /\ AbsPos = taken /\ AbsActive = Range(queue)
        /\ AbsPos' = taken /\ AbsActive' = Range(queue)
    BY <2>1 DEF AbsPc, AbsPos, AbsActive, InPrologue
  <2>3. CASE Accepting(nfa, Range(queue))
    <3>1. pc' = "done" /\ verdict' = <<TRUE, taken>>
      BY <1>5, <2>3 DEF Check, MatchLen
    <3>2. AbsPc' = "done"
      BY <3>1 DEF AbsPc, InPrologue
    <3>3. Contract!Latch
      BY <2>1, <2>2, <2>3, <3>1, <3>2, SameOperators DEF Contract!Latch
    <3> QED  BY <3>3 DEF Contract!Next
  <2>4. CASE ~Accepting(nfa, Range(queue))
    <3>1. pc' = "head" /\ verdict' = verdict
      BY <1>5, <2>4 DEF Check
    <3>2. AbsPc' = "run"
      BY <3>1 DEF AbsPc, InPrologue
    <3> QED  BY <1>1, <2>1, <2>2, <3>1, <3>2
  <2> QED  BY <2>3, <2>4
<1>6. CASE TakeByte
  <2>1. /\ pc = "head" /\ pc' = "move" /\ taken' = taken + 1
        /\ UNCHANGED <<nfa, input, verdict, front>>
    BY <1>6 DEF TakeByte
  <2>2. taken' > 0 /\ taken' # 0 /\ taken' - 1 = taken
    BY <1>0, <2>1
  <2>3. AbsPc' = AbsPc /\ AbsPos' = AbsPos /\ AbsActive' = AbsActive
    BY <2>1, <2>2 DEF AbsPc, AbsPos, AbsActive, InPrologue
  <2> QED  BY <1>1, <2>1, <2>3
<1>7. CASE Stop
  <2>1. /\ pc = "head" /\ pc' = "done" /\ taken = Len(input) /\ verdict = NoMatch
        /\ UNCHANGED <<nfa, input, verdict, taken, front>>
        /\ ~Accepting(nfa, Range(front))
    BY <1>7 DEF Stop, ScanInv
  <2>2. /\ AbsPc = "run" /\ AbsPos = taken /\ AbsActive = Range(front)
        /\ AbsPc' = "done" /\ AbsPos' = taken /\ AbsActive' = Range(front)
    BY <2>1 DEF AbsPc, AbsPos, AbsActive, InPrologue
  <2>3. Contract!Exhaust
    BY <2>1, <2>2, SameOperators DEF Contract!Exhaust
  <2> QED  BY <2>3 DEF Contract!Next
<1>8. CASE MoveDone
  <2>1. /\ pc = "move" /\ pc' = "close" /\ taken > 0
        /\ UNCHANGED <<nfa, input, verdict, taken, front>>
    BY <1>8 DEF MoveDone, ScanInv
  <2>2. taken # 0
    BY <1>0, <2>1
  <2>3. AbsPc' = AbsPc /\ AbsPos' = AbsPos /\ AbsActive' = AbsActive
    BY <2>1, <2>2 DEF AbsPc, AbsPos, AbsActive, InPrologue
  <2> QED  BY <1>1, <2>1, <2>3
<1> QED  BY <1>2, <1>3, <1>4, <1>5, <1>6, <1>7, <1>8 DEF Next

(* The kernel makes the moves of the contract and no other: its frontiers, *)
(* built in whatever order the edges are stored, hold the active sets of   *)
(* reference.simulate, and its verdict is simulate's.                      *)
THEOREM Refinement == Spec => Contract!Spec
<1>1. IInv /\ ScanInv /\ [Next]_vars => [Contract!Next]_(Contract!vars)
  BY NextRefines
<1> QED
  BY <1>1, InitRefines, NextScanInv, Invariance, PTL DEF Spec, Contract!Spec
-----------------------------------------------------------------------------
(* What the refinement brings: the theorems of the contract.               *)

ContractProofs == INSTANCE LatchFirstMatchProofs WITH
  pc <- AbsPc, pos <- AbsPos, active <- AbsActive, breaks <- FALSE

(* The contract whose theorems these are is the one refined.               *)
LEMMA SameContract ==
  /\ Contract!Spec <=> ContractProofs!Spec
  /\ Contract!ShortestMatch <=> ContractProofs!ShortestMatch
<1> USE DEF Contract!NoMatch, Contract!Fires, Contract!Accepting,
            ContractProofs!NoMatch, ContractProofs!Fires, ContractProofs!Accepting
<1>1. Contract!Spec <=> ContractProofs!Spec
  BY DEF Contract!Spec, Contract!Init, Contract!Next, Contract!vars, Contract!Begin,
         Contract!Latch, Contract!Consume, Contract!Break, Contract!Exhaust,
         Contract!NextByte, Contract!Closure, Contract!EpsClosed, Contract!Move,
         ContractProofs!Spec, ContractProofs!Init, ContractProofs!Next, ContractProofs!vars,
         ContractProofs!Begin, ContractProofs!Latch, ContractProofs!Consume,
         ContractProofs!Break, ContractProofs!Exhaust, ContractProofs!NextByte,
         ContractProofs!Closure, ContractProofs!EpsClosed, ContractProofs!Move
<1>2. Contract!ShortestMatch <=> ContractProofs!ShortestMatch
  BY DEF Contract!ShortestMatch, Contract!MatchesAt, Contract!Slice, Contract!Reached,
         Contract!Configs, Contract!PathClosed,
         ContractProofs!ShortestMatch, ContractProofs!MatchesAt, ContractProofs!Slice,
         ContractProofs!Reached, ContractProofs!Configs, ContractProofs!PathClosed
<1> QED  BY <1>1, <1>2

(* The thread reports the shortest matching prefix, in whatever order it   *)
(* walks the edges: what reference.simulate is proved to report, with no   *)
(* loop of either in the statement.                                        *)
THEOREM ReportsShortestMatch == Spec => []Contract!ShortestMatch
<1>1. \A a \in Automata : ContractProofs!IsAutomaton(a)
  BY AutomataAssumption DEF IsAutomaton, ContractProofs!IsAutomaton
<1>2. ContractProofs!Spec => []ContractProofs!ShortestMatch
  BY <1>1, WildcardAssumption, InputsAssumption, ContractProofs!VerdictCorrect
<1> QED  BY <1>2, Refinement, SameContract, PTL
=============================================================================
