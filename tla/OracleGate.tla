----------------------------- MODULE OracleGate -----------------------------
(***************************************************************************)
(* scripts/oracle_gate.py: the run of every registered kernel against the  *)
(* CPU reference, on the registry that the package import left behind.     *)
(*                                                                         *)
(* The gate asks is_available of every backend once (and fails with 2 when *)
(* a required one is missing), then walks the registered triples, asking   *)
(* is_available again before each: a triple is verified, fails, or is      *)
(* skipped.  The order of the walk does not matter and is left open.       *)
(*                                                                         *)
(* `gpufsm verify` (cli.py) is the quick form of the same check: it lists  *)
(* the available backends once, requires none, runs their techniques       *)
(* without asking again, and compares the reference itself with the        *)
(* answers the examples expect.                                            *)
(***************************************************************************)
EXTENDS BackendRegistry

CONSTANTS
  RequireNames   (* the names --require may be given; not all of them need
                    be backends                                            *)

VARIABLES
  command,      (* fixed: "gate" or "verify"                               *)
  required,     (* fixed: the names given to --require                     *)
  correct,      (* fixed: the techniques whose kernel agrees with the
                   reference                                               *)
  reference,    (* fixed: whether the reference answers the examples right *)
  flapped,      (* history: the device has come or gone since the start    *)
  asked,        (* backends the gate has asked before the walk             *)
  missing,      (* required backends found missing                         *)
  todo,         (* triples of the walk not reached yet                     *)
  admitted,     (* the triple whose kernel is about to run, as a set       *)
  ok, failed, skipped,
  exit          (* the exit code, NotYet while the gate runs              *)

NotYet == 4

arguments == <<command, required, correct, reference>>
results == <<ok, failed, skipped>>
gate == <<asked, missing, todo, admitted, results, exit>>
vars == <<registryVars, arguments, flapped, gate>>

Init ==
  /\ RegistryInit
  /\ command \in {"gate", "verify"}
  /\ required \in IF command = "gate" THEN SUBSET RequireNames ELSE {{}}
  /\ correct \in SUBSET UNION {AllTechniques(b) : b \in Backends}
  /\ reference \in IF command = "gate" THEN {TRUE} ELSE BOOLEAN
  /\ flapped = FALSE
  /\ asked = {}
  /\ missing = {}
  /\ todo = {}
  /\ admitted = {}
  /\ ok = {}
  /\ failed = {}
  /\ skipped = {}
  /\ exit = NotYet

Running == Loaded /\ exit = NotYet
Walking == Running /\ asked = Backends /\ missing = {}

Load ==
  /\ LoaderNext
  /\ UNCHANGED <<arguments, flapped, gate>>

(* for b in Backend: is it there, and did --require name it?  The walk that
   follows is over what is registered. *)
AskIgnoreRequireMutant(b) ==
  /\ Running
  /\ command = "gate"
  /\ b \in Backends \ asked
  /\ asked' = asked \cup {b}
  /\ todo' = IF asked' = Backends THEN registry ELSE {}
  /\ UNCHANGED <<registryVars, arguments, flapped, missing, admitted, results, exit>>

AskNotRequiredMutant(b) ==
  /\ Running
  /\ command = "gate"
  /\ b \in Backends \ asked
  /\ asked' = asked \cup {b}
  /\ missing' = IF ~IsAvailable(b) THEN missing \cup {b} ELSE missing
  /\ todo' = IF asked' = Backends THEN registry ELSE {}
  /\ UNCHANGED <<registryVars, arguments, flapped, admitted, results, exit>>

Ask(b) ==
  /\ Running
  /\ command = "gate"
  /\ b \in Backends \ asked
  /\ asked' = asked \cup {b}
  /\ missing' = IF b \in required /\ ~IsAvailable(b) THEN missing \cup {b} ELSE missing
  /\ todo' = IF asked' = Backends THEN registry ELSE {}
  /\ UNCHANGED <<registryVars, arguments, flapped, admitted, results, exit>>

(* verify: available_backends(), once. *)
ListAvailable ==
  LET listed == {r \in registry : IsAvailable(r[1])}
  IN /\ Running
     /\ command = "verify"
     /\ asked = {}
     /\ asked' = Backends
     /\ todo' = listed
     /\ skipped' = registry \ listed
     /\ UNCHANGED <<registryVars, arguments, flapped, missing, admitted, ok, failed, exit>>

MissingRequired ==
  /\ Running
  /\ asked = Backends
  /\ missing # {}
  /\ exit' = 2
  /\ UNCHANGED <<registryVars, arguments, flapped, asked, missing, todo, admitted, results>>

(* is_available(backend) says no. *)
Skip(r) ==
  /\ Walking
  /\ command = "gate"
  /\ admitted = {}
  /\ r \in todo
  /\ ~IsAvailable(r[1])
  /\ skipped' = skipped \cup {r}
  /\ todo' = todo \ {r}
  /\ UNCHANGED <<registryVars, arguments, flapped, asked, missing, admitted, ok, failed, exit>>

(* It says yes, or verify does not ask: the kernel is called ... *)
Admit(r) ==
  /\ Walking
  /\ admitted = {}
  /\ r \in todo
  /\ command = "gate" => IsAvailable(r[1])
  /\ admitted' = {r}
  /\ todo' = todo \ {r}
  /\ UNCHANGED <<registryVars, arguments, flapped, asked, missing, results, exit>>

(* ... and runs on the device as it is then.  Both commands count an
   exception as a failure. *)
RequireErrorSkipsMutant(r) ==
  /\ r \in admitted
  /\ IF device /\ r \in correct
       THEN ok' = ok \cup {r} /\ UNCHANGED <<failed, skipped>>
       ELSE skipped' = skipped \cup {r} /\ UNCHANGED <<ok, failed>>
  /\ admitted' = {}
  /\ UNCHANGED <<registryVars, arguments, flapped, asked, missing, todo, exit>>

Require(r) ==
  /\ r \in admitted
  /\ IF device /\ r \in correct
       THEN ok' = ok \cup {r} /\ UNCHANGED failed
       ELSE failed' = failed \cup {r} /\ UNCHANGED ok
  /\ admitted' = {}
  /\ UNCHANGED <<registryVars, arguments, flapped, asked, missing, todo, skipped, exit>>

(* Nothing checked is 3 for the gate; any failure is 1. *)
ExitCodeIgnoresReferenceMutant ==
  CASE command = "gate" /\ ok = {} /\ failed = {} -> 3
    [] failed # {}                                 -> 1
    [] OTHER                                       -> 0

ExitCode ==
  CASE command = "gate" /\ ok = {} /\ failed = {} -> 3
    [] failed # {} \/ ~reference                   -> 1
    [] OTHER                                       -> 0

Report ==
  /\ Walking
  /\ todo = {} /\ admitted = {}
  /\ exit' = ExitCode
  /\ UNCHANGED <<registryVars, arguments, flapped, asked, missing, todo, admitted, results>>

Flap ==
  /\ exit = NotYet
  /\ DeviceChange
  /\ flapped' = TRUE
  /\ UNCHANGED <<arguments, gate>>

Next ==
  \/ Load
  \/ \E b \in Backends : Ask(b)
  \/ ListAvailable
  \/ MissingRequired
  \/ \E r \in registry : Skip(r) \/ Admit(r) \/ Require(r)
  \/ Report
  \/ Flap

Spec == Init /\ [][Next]_vars

-----------------------------------------------------------------------------
TypeOK ==
  /\ RegistryTypeOK
  /\ command \in {"gate", "verify"}
  /\ required \subseteq RequireNames
  /\ reference \in BOOLEAN
  /\ flapped \in BOOLEAN
  /\ asked \subseteq Backends
  /\ missing \subseteq required
  /\ \A X \in {todo, admitted, ok, failed, skipped} : X \subseteq registry
  /\ exit \in 0 .. NotYet

(* A green gate checked something, and every registered kernel it passed   *)
(* over belongs to a backend that was not there: no kernel that is wrong,  *)
(* or that raised, is counted as a skip, and a run that verified nothing   *)
(* is not green ("the vacuous green this script exists to prevent").       *)
GreenIsEarned ==
  exit = 0 /\ command = "gate" =>
    /\ ok # {} /\ ok \subseteq correct
    /\ \A r \in registry \ ok : r \in skipped /\ (flapped \/ ~IsAvailable(r[1]))

(* A green `gpufsm verify` has run every technique of every backend that   *)
(* was available when it listed them, on a device that was there each      *)
(* time, found each right, and found the reference right: "a kernel that   *)
(* raises is a failure to report" (_cmd_verify).  It may have run none.    *)
VerifyIsComplete ==
  exit = 0 /\ command = "verify" =>
    /\ reference
    /\ ok \subseteq correct
    /\ \A r \in registry \ ok : flapped \/ ~IsAvailable(r[1])
    /\ \A b \in Backends : Published(b) \cap ok # {} => Published(b) \subseteq ok

(* On a machine whose device stays as it is, a green gate has verified     *)
(* every technique of every required backend, unless that backend's import *)
(* broke half way ("a backend that is expected and missing is a FAILURE,   *)
(* not a skip", oracle_gate.py).                                           *)
GreenCoversRequired ==
  exit = 0 /\ ~flapped =>
    \A b \in required \cap Backends :
      b \in importErrors \/ AllTechniques(b) \subseteq ok

(* oracle_gate.py: "Exit code 0 only when every triple checked agreed with *)
(* the CPU reference and every required backend was present."  A required  *)
(* name was present if some backend of that name was asked and found.      *)
RequiredWasPresent ==
  exit = 0 => required \subseteq asked \ missing
=============================================================================
