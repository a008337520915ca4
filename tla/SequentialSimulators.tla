------------------------ MODULE SequentialSimulators -----------------------
(***************************************************************************)
(* The simulators that run one string on one thread.  They share the       *)
(* latch-first-match loop and differ in how they close a set under the     *)
(* epsilon edges, and in whether they leave the loop when nothing fires.   *)
(*                                                                         *)
(*   "stack"   a DFS over a stack of states                                *)
(*   "rounds"  rounds that expand a whole frontier                         *)
(*   "passes"  num_states passes over all states, in place                 *)
(*   "table"   no closure: the one active state of a DFA is looked up in   *)
(*             the dense table that DFABuilder.build made of its edges     *)
(*                                                                         *)
(* One action is one pop, one round, or one state of a pass.               *)
(***************************************************************************)
EXTENDS Automaton

CONSTANTS Automata, Inputs

ASSUME AutomataAssumption ==
  \A a \in Automata : IsAutomaton(a) /\ IsNumbered(a)
ASSUME InputsAssumption == Inputs \subseteq Seq(Bytes)

(***************************************************************************)
(* The simulators of the package, by what tells their loops apart: how     *)
(* they close a set, whether they leave the loop when nothing fires, and   *)
(* whether they run on to the end of the input behind `done == 0`, as      *)
(* Triton kernels must ("Triton forbids return inside loops").             *)
(***************************************************************************)
Kernel(closing, runsOn) == [closing |-> closing, breaks |-> FALSE, runsOn |-> runsOn]

simulate      == [closing |-> "stack",  breaks |-> TRUE, runsOn |-> FALSE]
BitmapProgram == [closing |-> "rounds", breaks |-> TRUE, runsOn |-> FALSE]

worklist_global_kernel == Kernel("rounds", FALSE)
simulate_one_worklist  == Kernel("rounds", FALSE)
triton_worklist        == Kernel("rounds", TRUE)

dense_nfa_kernel       == Kernel("passes", FALSE)
simulate_one           == Kernel("passes", FALSE)
triton_dense           == Kernel("passes", TRUE)
triton_bitpacked       == Kernel("passes", TRUE)
triton_multistream     == Kernel("passes", TRUE)
warp_multistream       == Kernel("passes", FALSE)

simulate_dfa == Kernel("table", FALSE)
dfa_kernel   == Kernel("table", FALSE)
triton_dfa   == Kernel("table", TRUE)
warp_dfa     == Kernel("table", FALSE)

Simulators ==
  {simulate_dfa, dfa_kernel, triton_dfa, warp_dfa,
   simulate, BitmapProgram,
   worklist_global_kernel, simulate_one_worklist, triton_worklist,
   dense_nfa_kernel, simulate_one,
   triton_dense, triton_bitpacked, triton_multistream, warp_multistream}

VARIABLES
  nfa, input, sim,  (* fixed for the call                                  *)
  pc,               (* "seed", "close", "check", "head", "done"            *)
  taken,            (* bytes taken by the loop so far                      *)
  cur,              (* the active set                                      *)
  nxt,              (* the set being closed                                *)
  pending,          (* the stack, or the frontier                          *)
  scan,             (* <<it, s>> of the passes                             *)
  expanded,         (* history: the states whose epsilon edges this
                       closure has followed                                *)
  verdict

closure == <<nxt, pending, scan, expanded>>
vars == <<nfa, input, sim, pc, taken, cur, closure, verdict>>

NoMatch == <<FALSE, 0>>

Breaks == sim.breaks
Latched == verdict[1]
NumStates == Cardinality(nfa.states)

-----------------------------------------------------------------------------
(* DFABuilder: at most one target per state and byte (a dict per state), no
   wildcard and no epsilon edge. *)
IsDeterministic(a) ==
  /\ a.eps = {}
  /\ \A e \in a.sym : e[2] \in Bytes
  /\ \A e, f \in a.sym : e[1] = f[1] /\ e[2] = f[2] => e = f

(* The dead state build() adds behind the last one: it accepts nothing, and
   every transition nobody set leads to it, its own included. *)
DeadIsLastStateMutant == NumStates - 1
Dead == NumStates

(* trans[s * 256 + c] *)
Trans(s, c) ==
  LET set == {e \in nfa.sym : e[1] = s /\ e[2] = c}
  IN IF set = {} THEN Dead ELSE (CHOOSE e \in set : TRUE)[3]
-----------------------------------------------------------------------------

Init ==
  /\ nfa \in Automata
  /\ input \in Inputs
  /\ sim \in Simulators
  /\ sim.closing = "table" => IsDeterministic(nfa)
  /\ pc = "seed"
  /\ taken = 0
  /\ cur = {}
  /\ nxt = {}
  /\ pending = {}
  /\ scan = <<0, 0>>
  /\ expanded = {}
  /\ verdict = NoMatch

(* Every closure starts from scratch on the set it is given. *)
StartClosure(X) ==
  /\ nxt' = X
  /\ pending' = IF sim.closing \in {"passes", "table"} THEN {} ELSE X
  /\ scan' = <<0, 0>>
  /\ expanded' = {}
  /\ pc' = "close"

Seed ==
  /\ pc = "seed"
  /\ StartClosure({nfa.start})
  /\ UNCHANGED <<nfa, input, sim, taken, cur, verdict>>

(* The successors of X that the set does not hold yet. *)
NewFromUnfilteredMutant(X) == EpsSucc(nfa, X)
NewFrom(X) == EpsSucc(nfa, X) \ nxt

(* while stack: a state leaves the stack, its new successors enter it. *)
PopStack ==
  /\ sim.closing = "stack"
  /\ pc = "close"
  /\ \E s \in pending :
       /\ nxt' = nxt \cup NewFrom({s})
       /\ pending' = (pending \ {s}) \cup NewFrom({s})
       /\ expanded' = expanded \cup {s}
  /\ UNCHANGED <<nfa, input, sim, pc, taken, cur, scan, verdict>>

(* A round: the whole frontier is expanded, what is new is the next one. *)
FrontierRound ==
  /\ sim.closing = "rounds"
  /\ pc = "close"
  /\ pending # {}
  /\ nxt' = nxt \cup NewFrom(pending)
  /\ pending' = NewFrom(pending)
  /\ expanded' = expanded \cup pending
  /\ UNCHANGED <<nfa, input, sim, pc, taken, cur, scan, verdict>>

(* One state of a pass; the set is updated in place. *)
ScanState ==
  LET it == scan[1]
      s  == scan[2]
  IN /\ sim.closing = "passes"
     /\ pc = "close"
     /\ it < NumStates
     /\ nxt' = IF s \in nxt THEN nxt \cup EpsSucc(nfa, {s}) ELSE nxt
     /\ scan' = IF s + 1 = NumStates THEN <<it + 1, 0>> ELSE <<it, s + 1>>
     /\ expanded' = IF s \in nxt THEN expanded \cup {s} ELSE expanded
     /\ UNCHANGED <<nfa, input, sim, pc, taken, cur, pending, verdict>>

(* "num_states passes guarantee convergence". *)
ClosedTwoPassesMutant ==
  IF sim.closing = "passes" THEN scan[1] = 2 ELSE pending = {}
Closed == IF sim.closing = "passes" THEN scan[1] = NumStates ELSE pending = {}

CloseDone ==
  /\ pc = "close"
  /\ Closed
  /\ cur' = nxt
  /\ pc' = "check"
  /\ UNCHANGED <<nfa, input, sim, taken, closure, verdict>>

(* The loop variable is zero-based: the prefix ends after the byte taken. *)
MatchLenOffByOneMutant == taken + 1
MatchLen == taken

(* any(s in accept for s in active), and its counterparts. *)
Check ==
  /\ pc = "check"
  /\ IF Accepting(nfa, cur)
       THEN /\ verdict' = <<TRUE, MatchLen>>
            /\ pc' = IF sim.runsOn THEN "head" ELSE "done"
       ELSE /\ pc' = "head"
            /\ UNCHANGED verdict
  /\ UNCHANGED <<nfa, input, sim, taken, cur, closure>>

NextByte == input[taken + 1]
Moved ==
  IF sim.closing = "table"
    THEN {Trans(s, NextByte) : s \in cur}
    ELSE Move(nfa, cur, NextByte)

TakeByte ==
  /\ pc = "head"
  /\ taken < Len(input)
  /\ ~Latched
  /\ Breaks => Moved # {}
  /\ StartClosure(Moved)
  /\ taken' = taken + 1
  /\ UNCHANGED <<nfa, input, sim, cur, verdict>>

Break ==
  /\ pc = "head"
  /\ taken < Len(input)
  /\ Breaks
  /\ Moved = {}
  /\ pc' = "done"
  /\ UNCHANGED <<nfa, input, sim, taken, cur, closure, verdict>>

(* if done == 0: an iteration behind the latch touches nothing. *)
SkipByte ==
  /\ pc = "head"
  /\ taken < Len(input)
  /\ Latched
  /\ taken' = taken + 1
  /\ UNCHANGED <<nfa, input, sim, pc, cur, closure, verdict>>

Stop ==
  /\ pc = "head"
  /\ taken = Len(input)
  /\ pc' = "done"
  /\ UNCHANGED <<nfa, input, sim, taken, cur, closure, verdict>>

Next ==
  \/ Seed
  \/ PopStack \/ FrontierRound \/ ScanState \/ CloseDone
  \/ Check
  \/ TakeByte \/ Break \/ SkipByte \/ Stop

Spec == Init /\ [][Next]_vars

(* Sequential code that nothing blocks. *)
FairSpec == Spec /\ WF_vars(Next)

-----------------------------------------------------------------------------
TypeOK ==
  /\ IsAutomaton(nfa) /\ IsNumbered(nfa)
  /\ input \in Inputs
  /\ sim \in Simulators
  /\ pc \in {"seed", "close", "check", "head", "done"}
  /\ taken \in 0 .. Len(input)
  /\ \A X \in {cur, nxt} : X \subseteq nfa.states \cup {Dead}
  /\ \A X \in {pending, expanded} : X \subseteq nfa.states
  /\ scan \in (0 .. NumStates) \X (0 .. NumStates - 1)
  /\ verdict \in BOOLEAN \X (0 .. Len(input))

(* The stack and the frontier are work-efficient: a closure follows the    *)
(* epsilon edges of a state once, however many edges lead to it            *)
(* (worklist_register.cu: "O(active) per symbol instead of O(n^2)").       *)
ExpandedOnce == pc = "close" => pending \cap expanded = {}

(* Each simulator implements the contract: whatever order its closure goes *)
(* in, and with num_states passes or an empty frontier as its only test of *)
(* completion, it runs through the active sets of the contract and reports *)
(* its verdict.  A table walk does so on the partial automaton the caller  *)
(* built: in the dead state the contract has no active state left.         *)
InPrologue == taken = 0 /\ pc \in {"seed", "close"}
AbsPc ==
  CASE InPrologue -> "idle"
    [] pc = "done" \/ Latched -> "done"
    [] OTHER -> "run"
AbsPos ==
  CASE Latched -> verdict[2]
    [] ~Latched /\ pc = "close" /\ taken > 0 -> taken - 1
    [] OTHER -> taken

Contract == INSTANCE LatchFirstMatch WITH
  pc <- AbsPc, pos <- AbsPos, active <- cur \ {Dead}, breaks <- Breaks

ImplementsContract == Contract!FairSpec
=============================================================================
