-------------------------- MODULE LatchFirstMatch --------------------------
(***************************************************************************)
(* The contract of the package: latch-first-match simulation of an NFA, as *)
(* reference.simulate runs it.  "Every backend must reproduce simulate     *)
(* exactly, accepted and match_len, on every benchmark" (reference.py).    *)
(*                                                                         *)
(* One behaviour is one call on one automaton and one input.  The active   *)
(* set is closed in one step here; SequentialSimulators, CompactWorklist   *)
(* and WarpWorklist refine that step into the loops of the code and are    *)
(* checked to implement this module.                                       *)
(***************************************************************************)
EXTENDS Automaton

CONSTANTS
  Automata,     (* the automata a call may be given *)
  Inputs        (* the inputs a call may be given   *)

ASSUME AutomataAssumption == \A a \in Automata : IsAutomaton(a)
ASSUME InputsAssumption   == Inputs \subseteq Seq(Bytes)

VARIABLES
  nfa,       (* the automaton, fixed for the call                        *)
  input,     (* the input bytes, fixed for the call                      *)
  breaks,    (* fixed: whether the loop is left when nothing fires, as
                reference.simulate and BitmapProgram.run do and the device
                kernels do not                                           *)
  pc,        (* "idle" before the start closure, "run", "done"           *)
  pos,       (* bytes consumed so far                                    *)
  active,    (* the active set after those bytes                         *)
  verdict    (* <<accepted, match_len>>                                  *)

vars == <<nfa, input, breaks, pc, pos, active, verdict>>

NoMatch == <<FALSE, 0>>

Init ==
  /\ nfa \in Automata
  /\ input \in Inputs
  /\ breaks \in BOOLEAN
  /\ pc = "idle"
  /\ pos = 0
  /\ active = {}
  /\ verdict = NoMatch

(* The start closure. *)
Begin ==
  /\ pc = "idle"
  /\ active' = Closure(nfa, {nfa.start})
  /\ pc' = "run"
  /\ UNCHANGED <<nfa, input, breaks, pos, verdict>>

(* An accepting state is active: report the prefix consumed so far. *)
LatchOffByOneMutant ==
  /\ pc = "run"
  /\ Accepting(nfa, active)
  /\ verdict' = <<TRUE, pos + 1>>
  /\ pc' = "done"
  /\ UNCHANGED <<nfa, input, breaks, pos, active>>

Latch ==
  /\ pc = "run"
  /\ Accepting(nfa, active)
  /\ verdict' = <<TRUE, pos>>
  /\ pc' = "done"
  /\ UNCHANGED <<nfa, input, breaks, pos, active>>

NextByte == input[pos + 1]

(* One byte: move along the symbol edges that fire, then close. *)
ConsumeNoClosureMutant ==
  LET nxt == Move(nfa, active, NextByte)
  IN /\ pc = "run"
     /\ ~Accepting(nfa, active)
     /\ pos < Len(input)
     /\ breaks => nxt # {}
     /\ active' = nxt
     /\ pos' = pos + 1
     /\ UNCHANGED <<nfa, input, breaks, pc, verdict>>

ConsumePastMatchMutant ==
  LET nxt == Move(nfa, active, NextByte)
  IN /\ pc = "run"
     /\ pos < Len(input)
     /\ breaks => nxt # {}
     /\ active' = Closure(nfa, nxt)
     /\ pos' = pos + 1
     /\ UNCHANGED <<nfa, input, breaks, pc, verdict>>

Consume ==
  LET nxt == Move(nfa, active, NextByte)
  IN /\ pc = "run"
     /\ ~Accepting(nfa, active)
     /\ pos < Len(input)
     /\ breaks => nxt # {}
     /\ active' = Closure(nfa, nxt)
     /\ pos' = pos + 1
     /\ UNCHANGED <<nfa, input, breaks, pc, verdict>>

(* Nothing fires on the next byte: the loop is left early. *)
BreakOnEmptySetMutant ==
  /\ breaks
  /\ pc = "run"
  /\ ~Accepting(nfa, active)
  /\ pos < Len(input)
  /\ active = {}
  /\ verdict' = NoMatch
  /\ pc' = "done"
  /\ UNCHANGED <<nfa, input, breaks, pos, active>>

Break ==
  /\ breaks
  /\ pc = "run"
  /\ ~Accepting(nfa, active)
  /\ pos < Len(input)
  /\ Move(nfa, active, NextByte) = {}
  /\ verdict' = NoMatch
  /\ pc' = "done"
  /\ UNCHANGED <<nfa, input, breaks, pos, active>>

(* The input is exhausted without a match. *)
Exhaust ==
  /\ pc = "run"
  /\ ~Accepting(nfa, active)
  /\ pos = Len(input)
  /\ verdict' = NoMatch
  /\ pc' = "done"
  /\ UNCHANGED <<nfa, input, breaks, pos, active>>

Next == Begin \/ Latch \/ Consume \/ Break \/ Exhaust

(* A call runs to its end: the loop is sequential code that nothing blocks. *)
Spec == Init /\ [][Next]_vars
FairSpec == Spec /\ WF_vars(Next)

-----------------------------------------------------------------------------
(***************************************************************************)
(* What the verdict should be, said without the loop.  A configuration     *)
(* <<i, s>> is "state s after i bytes"; Reached is the least set of them   *)
(* that holds the start and that no epsilon edge and no firing symbol edge *)
(* leaves, that is, the configurations some path of the automaton reaches. *)
(***************************************************************************)
Configs == (0 .. Len(input)) \X nfa.states

PathClosed(R) ==
  /\ <<0, nfa.start>> \in R
  /\ \A c \in R, e \in nfa.eps : e[1] = c[2] => <<c[1], e[2]>> \in R
  /\ \A c \in R, e \in nfa.sym :
       /\ c[1] < Len(input)
       /\ e[1] = c[2]
       /\ Fires(e[2], input[c[1] + 1])
       => <<c[1] + 1, e[3]>> \in R

Reached == {c \in Configs : \A R \in SUBSET Configs : PathClosed(R) => c \in R}

Slice(i) == {s \in nfa.states : <<i, s>> \in Reached}

MatchesAt(i) == Accepting(nfa, Slice(i))

-----------------------------------------------------------------------------
TypeOK ==
  /\ nfa \in Automata
  /\ input \in Inputs
  /\ breaks \in BOOLEAN
  /\ pc \in {"idle", "run", "done"}
  /\ pos \in 0 .. Len(input)
  /\ active \subseteq nfa.states
  /\ verdict \in BOOLEAN \X (0 .. Len(input))

(* While the loop runs, the active set is exactly the set of states some   *)
(* path of the automaton reaches on the bytes consumed so far              *)
(* (reference.simulate: active after i iterations).                        *)
ActiveIsReached == pc # "idle" => active = Slice(pos)

(* The verdict of a finished call is the shortest matching prefix of the   *)
(* input, 0 for a match of the start closure, and "no match" only when no  *)
(* prefix matches, whether the loop ended on the last byte or early        *)
(* because nothing fired (reference.simulate).                             *)
ShortestMatch ==
  pc = "done" =>
    \/ /\ verdict = NoMatch
       /\ \A i \in 0 .. Len(input) : ~MatchesAt(i)
    \/ \E i \in 0 .. Len(input) :
         /\ verdict = <<TRUE, i>>
         /\ MatchesAt(i)
         /\ \A j \in 0 .. i - 1 : ~MatchesAt(j)

(* A call that starts returns (reference.simulate has no unbounded loop).  *)
Returns == <>(pc = "done")
=============================================================================
