-------------------------- MODULE CompactWorklist --------------------------
(***************************************************************************)
(* worklist_compact_kernel: the worklist whose frontier is an array of     *)
(* state ids.  One thread runs one string.  `visited` is a bitmap that     *)
(* keeps duplicates out of the frontier being built; it is zeroed once and *)
(* afterwards only the bits of the finished frontier are cleared, so a bit *)
(* that survives a byte would hide a state from every later frontier, and  *)
(* a duplicate would overrun the num_states slots each string owns.        *)
(*                                                                         *)
(* The arrays keep only their live prefix: front is FA[0..nf), queue is    *)
(* the array being filled.  The code fills FA before the loop and FB in    *)
(* it, and swaps the two at the end of an iteration; here the filled array *)
(* is always queue and becomes front when it has been examined.            *)
(***************************************************************************)
EXTENDS Automaton, Functions

CONSTANTS Automata, Inputs

ASSUME AutomataAssumption ==
  \A a \in Automata : IsAutomaton(a) /\ IsNumbered(a)
ASSUME InputsAssumption   == Inputs \subseteq Seq(Bytes)

VARIABLES
  nfa, input,  (* fixed for the thread                                    *)
  pc,          (* "seed", "close", "check", "head", "move", "done"        *)
  taken,       (* bytes of the input taken by the loop so far             *)
  front,       (* the frontier the next byte moves                        *)
  queue,       (* the frontier being built, and the queue of its closure  *)
  visited,     (* V, the bits set                                         *)
  j,           (* index into the array being scanned, 1-based             *)
  verdict      (* <<out_flags[i], out_lens[i]>>                           *)

vars == <<nfa, input, pc, taken, front, queue, visited, j, verdict>>

NoMatch == <<FALSE, 0>>

Init ==
  /\ nfa \in Automata
  /\ input \in Inputs
  /\ pc = "seed"
  /\ taken = 0
  /\ front = <<>>
  /\ queue = <<>>
  /\ visited \in SUBSET nfa.states
  /\ j = 1
  /\ verdict = NoMatch

(* V is zeroed, then the start state goes into FA with its bit. *)
SeedNoZeroMutant ==
  /\ pc = "seed"
  /\ visited' = visited \cup {nfa.start}
  /\ queue' = <<nfa.start>>
  /\ pc' = "close"
  /\ UNCHANGED <<nfa, input, taken, front, j, verdict>>

Seed ==
  /\ pc = "seed"
  /\ visited' = {nfa.start}
  /\ queue' = <<nfa.start>>
  /\ pc' = "close"
  /\ UNCHANGED <<nfa, input, taken, front, j, verdict>>

(* A target whose bit is clear is appended and its bit set. *)
InsertUnmarkedMutant(t) ==
  /\ t \notin visited
  /\ queue' = Append(queue, t)
  /\ UNCHANGED visited

Insert(t) ==
  /\ t \notin visited
  /\ queue' = Append(queue, t)
  /\ visited' = visited \cup {t}

(* eps_closure_compact: queue[j] is expanded in place ... *)
CloseInsert ==
  /\ pc = "close"
  /\ j <= Len(queue)
  /\ \E t \in EpsSucc(nfa, {queue[j]}) : Insert(t)
  /\ UNCHANGED <<nfa, input, pc, taken, front, j, verdict>>

(* ... and left when all its epsilon targets are marked. *)
CloseNext ==
  /\ pc = "close"
  /\ j <= Len(queue)
  /\ EpsSucc(nfa, {queue[j]}) \subseteq visited
  /\ j' = j + 1
  /\ UNCHANGED <<nfa, input, pc, taken, front, queue, visited, verdict>>

CloseDone ==
  /\ pc = "close"
  /\ j > Len(queue)
  /\ pc' = "check"
  /\ UNCHANGED <<nfa, input, taken, front, queue, visited, j, verdict>>

(* The loop variable is zero-based: the prefix ends after the byte taken. *)
MatchLenOffByOneMutant == taken + 1
MatchLen == taken

(* The accept scan of the new frontier, then the swap. *)
Check ==
  /\ pc = "check"
  /\ IF Accepting(nfa, Range(queue))
       THEN /\ verdict' = <<TRUE, MatchLen>>
            /\ pc' = "done"
       ELSE /\ pc' = "head"
            /\ UNCHANGED verdict
  /\ front' = queue
  /\ queue' = <<>>
  /\ UNCHANGED <<nfa, input, taken, visited, j>>

(* The next byte: the bits of the frontier are cleared, nothing else. *)
TakeByteKeepLastMutant ==
  /\ pc = "head"
  /\ taken < Len(input)
  /\ taken' = taken + 1
  /\ visited' = visited \ {front[k] : k \in 1 .. Len(front) - 1}
  /\ j' = 1
  /\ pc' = "move"
  /\ UNCHANGED <<nfa, input, front, queue, verdict>>

TakeByte ==
  /\ pc = "head"
  /\ taken < Len(input)
  /\ taken' = taken + 1
  /\ visited' = visited \ Range(front)
  /\ j' = 1
  /\ pc' = "move"
  /\ UNCHANGED <<nfa, input, front, queue, verdict>>

(* The input is exhausted. *)
Stop ==
  /\ pc = "head"
  /\ taken = Len(input)
  /\ pc' = "done"
  /\ UNCHANGED <<nfa, input, taken, front, queue, visited, j, verdict>>

Sym == input[taken]

MoveInsert ==
  /\ pc = "move"
  /\ j <= Len(front)
  /\ \E t \in Move(nfa, {front[j]}, Sym) : Insert(t)
  /\ UNCHANGED <<nfa, input, pc, taken, front, j, verdict>>

MoveNext ==
  /\ pc = "move"
  /\ j <= Len(front)
  /\ Move(nfa, {front[j]}, Sym) \subseteq visited
  /\ j' = j + 1
  /\ UNCHANGED <<nfa, input, pc, taken, front, queue, visited, verdict>>

(* The moved states are the seeds of the next closure. *)
MoveDone ==
  /\ pc = "move"
  /\ j > Len(front)
  /\ j' = 1
  /\ pc' = "close"
  /\ UNCHANGED <<nfa, input, taken, front, queue, visited, verdict>>

Next ==
  \/ Seed
  \/ CloseInsert \/ CloseNext \/ CloseDone
  \/ Check
  \/ TakeByte \/ Stop
  \/ MoveInsert \/ MoveNext \/ MoveDone

Spec == Init /\ [][Next]_vars

(* A launched thread runs to the end of its kernel. *)
FairSpec == Spec /\ WF_vars(Next)

-----------------------------------------------------------------------------
TypeOK ==
  /\ nfa \in Automata
  /\ input \in Inputs
  /\ pc \in {"seed", "close", "check", "head", "move", "done"}
  /\ taken \in 0 .. Len(input)
  /\ front \in Seq(nfa.states)
  /\ queue \in Seq(nfa.states)
  /\ visited \subseteq nfa.states
  /\ j \in Nat \ {0}
  /\ verdict \in BOOLEAN \X (0 .. Len(input))

(* The marked bits are exactly the states of the frontier that is live: no *)
(* bit of an earlier byte survives to hide a state, and none is missing to *)
(* let a state in twice (worklist_compact_kernel: "we clear only the       *)
(* touched bits", "V all-zero").                                           *)
VisitedMirrorsFrontier ==
  /\ pc \in {"close", "check", "move"} => visited = Range(queue)
  /\ pc \in {"head", "done"} => visited = Range(front)

(* A frontier never holds a state twice, so it never outgrows the          *)
(* num_states slots of its string in frontier_a / frontier_b               *)
(* (run_worklist_compact allocates num_strings * num_states ids).          *)
NoOverrun ==
  /\ \A m, n \in DOMAIN queue : queue[m] = queue[n] => m = n
  /\ \A m, n \in DOMAIN front : front[m] = front[n] => m = n
  /\ Len(queue) <= Cardinality(nfa.states)
  /\ Len(front) <= Cardinality(nfa.states)

(* The kernel implements the contract: its closures and moves over arrays  *)
(* and bits give the active sets of reference.simulate and its verdict.    *)
(* The contract's active set changes when a frontier's closure completes.  *)
InPrologue == taken = 0 /\ pc \in {"seed", "close"}
AbsPc ==
  CASE InPrologue -> "idle"
    [] pc = "done" -> "done"
    [] OTHER -> "run"
AbsPos == IF pc \in {"move", "close"} /\ taken > 0 THEN taken - 1 ELSE taken
AbsActive == IF pc = "check" THEN Range(queue) ELSE Range(front)

Contract == INSTANCE LatchFirstMatch WITH
  pc <- AbsPc, pos <- AbsPos, active <- AbsActive, breaks <- FALSE

ImplementsContract == Contract!FairSpec
=============================================================================
