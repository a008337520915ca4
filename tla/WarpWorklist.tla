--------------------------- MODULE WarpWorklist ----------------------------
(***************************************************************************)
(* simulate_one_warp: the lanes of one warp simulate one string together.  *)
(* worklist_warp_kernel runs it on global memory, worklist_shared_kernel   *)
(* on dynamic shared memory; the body is the same.                         *)
(*                                                                         *)
(* The state sets are bitmaps of words.  A lane sweeps the words w with    *)
(* w % 32 = lane; a symbol or epsilon edge may lead into any word, so the  *)
(* scatter phases OR atomically into words other lanes own.  What keeps    *)
(* the plain reads and writes apart is the __syncwarp between the phases,  *)
(* and what keeps the lanes in the same loop iteration is that its exits   *)
(* are decided by a ballot (__any_sync).                                   *)
(*                                                                         *)
(* One action is one lane's work on one word in one phase.  The ballot of  *)
(* the closure and the __syncwarp that follows it are one meeting of the   *)
(* lanes here.  No __syncwarp follows the accept ballot: no lane passes it *)
(* before all have come, but it orders none of their accesses to memory.   *)
(***************************************************************************)
EXTENDS Automaton

CONSTANTS
  Automata, Inputs,
  NLanes,      (* lanes of a warp: 32 in the code                          *)
  WordBits,    (* states per word: WORD_BITS = 64 in the code              *)
  Leftovers    (* what fresh device memory may hold, as sets of states     *)

ASSUME AutomataAssumption ==
  \A a \in Automata : IsAutomaton(a) /\ IsNumbered(a)
ASSUME InputsAssumption   == Inputs \subseteq Seq(Bytes)
ASSUME WarpAssumption     == NLanes \in Nat \ {0} /\ WordBits \in Nat \ {0}

VARIABLES
  nfa, input,                  (* fixed for the warp                       *)
  cur, nxt, frontier, newb,    (* the bitmaps C, N, F, B, shared           *)
  pc,                          (* the phase each lane is in                *)
  w,                           (* the word each lane sweeps next           *)
  vote,                        (* any_local / acc_local / m_local          *)
  taken,                       (* bytes taken by the loop so far           *)
  verdict                      (* out_flags[warp], out_lens[warp]          *)

bitmaps == <<cur, nxt, frontier, newb>>
control == <<pc, w, vote>>
vars == <<nfa, input, bitmaps, control, taken, verdict>>

NoMatch == <<FALSE, 0>>

Lanes == 0 .. NLanes - 1

(* word_of, words_for. *)
WordOf(s)  == s \div WordBits
NumWords   == (Cardinality(nfa.states) + WordBits - 1) \div WordBits
Word(i)    == {s \in nfa.states : WordOf(s) = i}

ClosurePhases == {"copyF", "zeroB", "scatterB", "fold"}
Phases == {"zeroC", "seed", "zeroN", "scatterN", "copyC", "testC", "done"}
          \cup ClosurePhases

(* Lane 0 alone seeds; every other phase starts a lane at its own word.    *)
FirstWord(ph, l) == IF ph = "seed" /\ l # 0 THEN NumWords ELSE l

Init ==
  /\ nfa \in Automata
  /\ input \in Inputs
  /\ cur \in {nfa.states \cap L : L \in Leftovers}
  /\ nxt \in {nfa.states \cap L : L \in Leftovers}
  /\ frontier \in {nfa.states \cap L : L \in Leftovers}
  /\ newb \in {nfa.states \cap L : L \in Leftovers}
  /\ pc = [l \in Lanes |-> "zeroC"]
  /\ w = [l \in Lanes |-> l]
  /\ vote = [l \in Lanes |-> FALSE]
  /\ taken = 0
  /\ verdict = NoMatch

-----------------------------------------------------------------------------
(* The work of a lane on its next word. *)

Swept(l) == w[l] >= NumWords

(* for (int w = lane; w < nwords; w += 32) *)
SweepNeighbourMutant(l, ph) ==
  /\ pc[l] = ph
  /\ ~Swept(l)
  /\ w' = [w EXCEPT ![l] = @ + 1]
  /\ UNCHANGED <<nfa, input, pc, taken, verdict>>

Sweep(l, ph) ==
  /\ pc[l] = ph
  /\ ~Swept(l)
  /\ w' = [w EXCEPT ![l] = @ + NLanes]
  /\ UNCHANGED <<nfa, input, pc, taken, verdict>>

ZeroC(l) ==
  /\ Sweep(l, "zeroC")
  /\ cur' = cur \ Word(w[l])
  /\ UNCHANGED <<nxt, frontier, newb, vote>>

Seed(l) ==
  /\ Sweep(l, "seed")
  /\ cur' = cur \cup {nfa.start}
  /\ UNCHANGED <<nxt, frontier, newb, vote>>

(* eps_closure_warp runs on C before the loop and on N inside it. *)
Closing == IF taken = 0 THEN cur ELSE nxt

CopyF(l) ==
  /\ Sweep(l, "copyF")
  /\ frontier' = (frontier \ Word(w[l])) \cup (Closing \cap Word(w[l]))
  /\ UNCHANGED <<cur, nxt, newb, vote>>

ZeroB(l) ==
  /\ Sweep(l, "zeroB")
  /\ newb' = newb \ Word(w[l])
  /\ UNCHANGED <<cur, nxt, frontier, vote>>

ScatterB(l) ==
  /\ Sweep(l, "scatterB")
  /\ newb' = newb \cup EpsSucc(nfa, frontier \cap Word(w[l]))
  /\ UNCHANGED <<cur, nxt, frontier, vote>>

(* Only what is new stays in the frontier of the next round. *)
Fold(l) ==
  LET nb == (newb \ Closing) \cap Word(w[l])
  IN /\ Sweep(l, "fold")
     /\ IF taken = 0
          THEN cur' = cur \cup nb /\ UNCHANGED nxt
          ELSE nxt' = nxt \cup nb /\ UNCHANGED cur
     /\ frontier' = (frontier \ Word(w[l])) \cup nb
     /\ vote' = [vote EXCEPT ![l] = @ \/ nb # {}]
     /\ UNCHANGED newb

ZeroN(l) ==
  /\ Sweep(l, "zeroN")
  /\ nxt' = nxt \ Word(w[l])
  /\ UNCHANGED <<cur, frontier, newb, vote>>

ScatterN(l) ==
  /\ Sweep(l, "scatterN")
  /\ nxt' = nxt \cup Move(nfa, cur \cap Word(w[l]), input[taken])
  /\ UNCHANGED <<cur, frontier, newb, vote>>

CopyC(l) ==
  /\ Sweep(l, "copyC")
  /\ cur' = (cur \ Word(w[l])) \cup (nxt \cap Word(w[l]))
  /\ UNCHANGED <<nxt, frontier, newb, vote>>

TestC(l) ==
  /\ Sweep(l, "testC")
  /\ vote' = [vote EXCEPT ![l] = @ \/ Accepting(nfa, cur \cap Word(w[l]))]
  /\ UNCHANGED bitmaps

LaneStep(l) ==
  \/ ZeroC(l) \/ Seed(l)
  \/ CopyF(l) \/ ZeroB(l) \/ ScatterB(l) \/ Fold(l)
  \/ ZeroN(l) \/ ScatterN(l) \/ CopyC(l) \/ TestC(l)

-----------------------------------------------------------------------------
(* The meetings of the lanes. *)

(* The groups of lanes that wait for one another at the end of a phase: the
   full mask at every barrier and ballot. *)
NoSyncAfterScatterMutant(ph) ==
  IF ph = "scatterN" THEN {{l} : l \in Lanes} ELSE {Lanes}
NoSyncAfterZeroMutant(ph) ==
  IF ph = "zeroB" THEN {{l} : l \in Lanes} ELSE {Lanes}
SyncGroups(ph) == {Lanes}

(* A group whose lanes have all finished phase ph goes on to phase `to`. *)
Meet(ph, to) ==
  \E G \in SyncGroups(ph) :
    /\ \A l \in G : pc[l] = ph /\ Swept(l)
    /\ pc' = [l \in Lanes |-> IF l \in G THEN to ELSE pc[l]]
    /\ w' = [l \in Lanes |-> IF l \in G THEN FirstWord(to, l) ELSE w[l]]
    /\ vote' = [l \in Lanes |-> IF l \in G THEN FALSE ELSE vote[l]]
    /\ UNCHANGED <<nfa, input, bitmaps>>

(* __any_sync over the full mask. *)
Ballot == \E l \in Lanes : vote[l]

(* A barrier whose next phase does not depend on the data. *)
SyncWarp ==
  /\ \/ Meet("zeroC", "seed")
     \/ Meet("seed", "copyF")
     \/ Meet("copyF", "zeroB")
     \/ Meet("zeroB", "scatterB")
     \/ Meet("scatterB", "fold")
     \/ Meet("zeroN", "scatterN")
     \/ Meet("scatterN", "copyF")
     \/ Meet("copyC", "testC")
  /\ UNCHANGED <<taken, verdict>>

(* while (any): another round of the closure, or on to what follows it. *)
ClosureBallot ==
  /\ Meet("fold",
          IF Ballot THEN "zeroB" ELSE IF taken = 0 THEN "testC" ELSE "copyC")
  /\ UNCHANGED <<taken, verdict>>

(* The loop variable is zero-based: the prefix ends after the byte taken. *)
MatchLenOffByOneMutant == taken + 1
MatchLen == taken

(* The accept ballot.  The loop condition is pos < input_len && !done; lane 0
   stores the verdict when the loop is left. *)
AcceptBallot ==
  \/ /\ Ballot
     /\ Meet("testC", "done")
     /\ verdict' = <<TRUE, MatchLen>>
     /\ UNCHANGED taken
  \/ /\ ~Ballot
     /\ taken < Len(input)
     /\ Meet("testC", "zeroN")
     /\ taken' = taken + 1
     /\ UNCHANGED verdict
  \/ /\ ~Ballot
     /\ taken = Len(input)
     /\ Meet("testC", "done")
     /\ UNCHANGED <<taken, verdict>>

Next == (\E l \in Lanes : LaneStep(l)) \/ SyncWarp \/ ClosureBallot \/ AcceptBallot

Spec == Init /\ [][Next]_vars

(* Some lane of a resident warp that can go on does; no lane is favoured.  *)
FairSpec == Spec /\ WF_vars(Next)

-----------------------------------------------------------------------------
TypeOK ==
  /\ nfa \in Automata
  /\ input \in Inputs
  /\ \A X \in {cur, nxt, frontier, newb} : X \subseteq nfa.states
  /\ pc \in [Lanes -> Phases]
  /\ w \in [Lanes -> Nat]
  /\ vote \in [Lanes -> BOOLEAN]
  /\ taken \in 0 .. Len(input)
  /\ verdict \in BOOLEAN \X (0 .. Len(input))

(* The words lane l is about to read ("r"), write ("w") or OR atomically   *)
(* into ("a").                                                             *)
ClosingName == IF taken = 0 THEN "cur" ELSE "nxt"
Own(l, array, kind) == <<array, w[l], kind>>
Scatter(array, X) == {<<array, WordOf(t), "a">> : t \in X}

Accesses(l) ==
  IF Swept(l) THEN {} ELSE
  CASE pc[l] = "zeroC"    -> {Own(l, "cur", "w")}
    [] pc[l] = "seed"     -> {<<"cur", WordOf(nfa.start), "w">>}
    [] pc[l] = "copyF"    -> {Own(l, ClosingName, "r"), Own(l, "frontier", "w")}
    [] pc[l] = "zeroB"    -> {Own(l, "newb", "w")}
    [] pc[l] = "scatterB" -> {Own(l, "frontier", "r")}
          \cup Scatter("newb", EpsSucc(nfa, frontier \cap Word(w[l])))
    [] pc[l] = "fold"     -> {Own(l, "newb", "r"), Own(l, ClosingName, "w"),
                              Own(l, "frontier", "w")}
    [] pc[l] = "zeroN"    -> {Own(l, "nxt", "w")}
    [] pc[l] = "scatterN" -> {Own(l, "cur", "r")}
          \cup Scatter("nxt", Move(nfa, cur \cap Word(w[l]), input[taken]))
    [] pc[l] = "copyC"    -> {Own(l, "nxt", "r"), Own(l, "cur", "w")}
    [] pc[l] = "testC"    -> {Own(l, "cur", "r")}
    [] OTHER              -> {}

(* What lane l may still be reading when it has begun to zero N: the accept
   ballot between the two phases orders no accesses. *)
Unordered(l) ==
  IF pc[l] = "zeroN"
    THEN {<<"cur", i, "r">> : i \in {j \in 0 .. NumWords - 1 : j % NLanes = l}}
    ELSE {}

(* No two lanes may touch the same word of the same bitmap with nothing    *)
(* ordering them, unless both read or both use atomicOr: the barriers and  *)
(* the ownership of words leave no data race in simulate_one_warp, nor     *)
(* does the missing barrier behind its accept ballot.                      *)
NoDataRace ==
  \A l, m \in Lanes : l # m =>
    \A x \in Accesses(l) \cup Unordered(l), y \in Accesses(m) \cup Unordered(m) :
      x[1] = y[1] /\ x[2] = y[2] => x[3] = y[3] /\ x[3] # "w"

(* Whenever a round of the closure starts, the states whose epsilon edges  *)
(* are still to be followed are all in the frontier, and the frontier is   *)
(* part of the set: a state dropped from the frontier too early would      *)
(* leave the closure incomplete and the ballot would still end the loop    *)
(* (eps_closure_warp, while (any)).                                        *)
FrontierCoversDebt ==
  (\A l \in Lanes : pc[l] = "zeroB") =>
    /\ frontier \subseteq Closing
    /\ EpsSucc(nfa, Closing \ frontier) \subseteq Closing

(* The warp implements the contract of reference.simulate: what the lanes  *)
(* leave in the bitmaps at the end of a closure is the active set of the   *)
(* sequential loop, and the stored verdict is its verdict.                 *)
At(ph) == \A l \in Lanes : pc[l] = ph
AbsPc ==
  IF At("done") THEN "done"
  ELSE IF taken = 0 /\ ~At("testC") THEN "idle" ELSE "run"
AbsPos == IF taken = 0 \/ At("copyC") \/ At("testC") \/ At("done")
            THEN taken ELSE taken - 1
AbsActive == IF AbsPc = "idle" THEN {} ELSE IF At("copyC") THEN nxt ELSE cur

Contract == INSTANCE LatchFirstMatch WITH
  pc <- AbsPc, pos <- AbsPos, active <- AbsActive, breaks <- FALSE

ImplementsContract == Contract!FairSpec
=============================================================================
