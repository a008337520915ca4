-------------------------- MODULE BackendRegistry --------------------------
(***************************************************************************)
(* How the technique registry is populated when gpufsm.backends is         *)
(* imported, and what is_available answers afterwards.                     *)
(*                                                                         *)
(* backends/__init__.py imports one subpackage per GPU backend, in order.  *)
(* A subpackage asks its probe, imports its technique modules (each        *)
(* @register line publishes one technique), and registers the probe LAST.  *)
(* An exception anywhere in between leaves what was published in the       *)
(* registry, skips the probe, and is recorded in IMPORT_ERRORS.            *)
(*                                                                         *)
(* The CPU backend is always there and is left out, and the techniques are *)
(* those of one kind of automaton.                                         *)
(***************************************************************************)
EXTENDS Naturals, Sequences, FiniteSets, Functions

CONSTANTS
  LoadOrder,    (* the backends in the order they are imported            *)
  Publishes,    (* per backend, the techniques its modules publish        *)
  NeedsDevice,  (* the backends whose probe asks for a device: Triton and
                   Warp; the CUDA probe only imports the extension        *)
  Markings      (* the sets of techniques that may carry default=True     *)

Backends == Range(LoadOrder)

(* No technique named (the code's None), and what an unknown one raises. *)
NoDefault == "none"
Error == "KeyError"

ASSUME LoadAssumption ==
  /\ LoadOrder \in Seq(Backends)
  /\ \A m, n \in DOMAIN LoadOrder : LoadOrder[m] = LoadOrder[n] => m = n
  /\ \A b \in Backends :
       Publishes[b] \in Seq(Range(Publishes[b]) \ {NoDefault, Error})
  /\ NeedsDevice \subseteq Backends

VARIABLES
  installed,    (* fixed: the backends whose dependencies import           *)
  marked,       (* fixed: the techniques registered with default=True      *)
  device,       (* whether a device is visible; the machine may change it  *)
  registry,     (* _REGISTRY: the <<backend, technique>> published         *)
  defaults,     (* _DEFAULTS: the technique each backend resolves to       *)
  probes,       (* _AVAILABILITY: the backends with a registered probe     *)
  importErrors, (* IMPORT_ERRORS                                           *)
  loading,      (* index into LoadOrder of the subpackage being imported   *)
  importing,    (* whether its technique modules are being imported        *)
  published     (* the techniques it has published so far                  *)

machine == <<installed, marked, device>>
loader == <<registry, defaults, probes, importErrors, loading, importing, published>>
registryVars == <<machine, loader>>

AllTechniques(b) == {<<b, t>> : t \in Range(Publishes[b])}
Published(b)     == {r \in registry : r[1] = b}

RegistryInit ==
  /\ installed \in SUBSET Backends
  /\ marked \in Markings
  /\ device \in BOOLEAN
  /\ registry = {}
  /\ defaults = [b \in Backends |-> NoDefault]
  /\ probes = {}
  /\ importErrors = {}
  /\ loading = 1
  /\ importing = FALSE
  /\ published = 0

(* What a backend's own probe answers now. *)
ProbeSays(b) == b \in installed /\ (b \in NeedsDevice => device)

(* is_available: without a probe, any registered technique will do. *)
IsAvailable(b) == IF b \in probes THEN ProbeSays(b) ELSE Published(b) # {}

Loaded == loading > Len(LoadOrder)
Current == LoadOrder[loading]

NextSubpackage ==
  /\ loading' = loading + 1
  /\ importing' = FALSE
  /\ published' = 0

(* The probe says no: nothing is imported, the probe is registered. *)
DeclineImport ==
  /\ ~Loaded
  /\ ~importing
  /\ ~ProbeSays(Current)
  /\ probes' = probes \cup {Current}
  /\ NextSubpackage
  /\ UNCHANGED <<machine, registry, defaults, importErrors>>

StartImport ==
  /\ ~Loaded
  /\ ~importing
  /\ ProbeSays(Current)
  /\ importing' = TRUE
  /\ UNCHANGED <<machine, registry, defaults, probes, importErrors, loading, published>>

(* One @register line: the technique enters the registry, and then becomes
   the default if it is marked and none is declared. *)
Line == <<Current, Publishes[Current][published + 1]>>
Conflicts == Line \in marked /\ defaults[Current] \notin {NoDefault, Line[2]}
Publish == registry' = registry \cup {Line}

RegisterLastDefaultWinsMutant ==
  /\ ~Loaded
  /\ importing
  /\ published < Len(Publishes[Current])
  /\ Publish
  /\ defaults' = IF Line \in marked THEN [defaults EXCEPT ![Current] = Line[2]] ELSE defaults
  /\ published' = published + 1
  /\ UNCHANGED <<machine, probes, importErrors, loading, importing>>

Register ==
  /\ ~Loaded
  /\ importing
  /\ published < Len(Publishes[Current])
  /\ ~Conflicts
  /\ Publish
  /\ defaults' = IF Line \in marked THEN [defaults EXCEPT ![Current] = Line[2]] ELSE defaults
  /\ published' = published + 1
  /\ UNCHANGED <<machine, probes, importErrors, loading, importing>>

(* "two defaults declared": raised after the technique has been inserted,
   and caught like any other exception of an import. *)
RefuseDefault ==
  /\ ~Loaded
  /\ importing
  /\ published < Len(Publishes[Current])
  /\ Conflicts
  /\ Publish
  /\ importErrors' = importErrors \cup {Current}
  /\ NextSubpackage
  /\ UNCHANGED <<machine, defaults, probes>>

(* All technique modules are in: the probe is registered. *)
FinishImport ==
  /\ ~Loaded
  /\ importing
  /\ published = Len(Publishes[Current])
  /\ probes' = probes \cup {Current}
  /\ NextSubpackage
  /\ UNCHANGED <<machine, registry, defaults, importErrors>>

(* A technique module raises, before its first @register line, between two
   or after the last: the loop records it and goes on. *)
ImportRaisesSwallowedMutant ==
  /\ ~Loaded
  /\ importing
  /\ NextSubpackage
  /\ UNCHANGED <<machine, registry, defaults, probes, importErrors>>

ImportRaises ==
  /\ ~Loaded
  /\ importing
  /\ importErrors' = importErrors \cup {Current}
  /\ NextSubpackage
  /\ UNCHANGED <<machine, registry, defaults, probes>>

LoaderNext ==
  \/ DeclineImport \/ StartImport \/ Register \/ RefuseDefault
  \/ FinishImport \/ ImportRaises

(* The machine loses its device or gets it back. *)
DeviceChange == device' = ~device /\ UNCHANGED <<installed, marked, loader>>

(* get_factory: what a call that names technique t, or none, is given; or
   an error. *)
GetFactory(b, t) ==
  LET wanted == IF t = NoDefault THEN defaults[b] ELSE t
  IN IF <<b, wanted>> \in registry THEN wanted ELSE Error

RegistrySpec == RegistryInit /\ [][LoaderNext \/ DeviceChange]_registryVars

-----------------------------------------------------------------------------
RegistryTypeOK ==
  /\ installed \subseteq Backends
  /\ device \in BOOLEAN
  /\ registry \subseteq UNION {AllTechniques(b) : b \in Backends}
  /\ defaults \in [Backends -> (UNION {Range(Publishes[b]) : b \in Backends}) \cup {NoDefault}]
  /\ probes \subseteq Backends
  /\ importErrors \subseteq Backends
  /\ loading \in 1 .. Len(LoadOrder) + 1
  /\ importing \in BOOLEAN
  /\ ~Loaded => published \in 0 .. Len(Publishes[Current])

(* Once the package is imported, a backend that is only half registered is *)
(* recorded as an import error: "swallowing that silently is how a sweep   *)
(* comes to report three backends where there should be four"              *)
(* (backends/__init__.py, IMPORT_ERRORS).                                  *)
HalfRegisteredIsRecorded ==
  Loaded => \A b \in Backends :
    \/ Published(b) = AllTechniques(b)
    \/ b \in importErrors
    \/ b \in probes /\ Published(b) = {}

(* A call that names no technique runs one whose @register line says it is *)
(* the default, or is refused.  If the source marks several, the answer    *)
(* depends on the import order, and that is on record as an import error:  *)
(* the default "has to be declared rather than emergent" (register).       *)
DefaultIsDeclared ==
  \A b \in Backends :
    LET given == GetFactory(b, NoDefault) IN
      /\ given # Error => <<b, given>> \in marked
      /\ b \in probes /\ Published(b) # {} =>
           marked \cap AllTechniques(b) \in {{}, {<<b, given>>}}

(* docs/ARCHITECTURE.md: "A backend whose import failed still reports as   *)
(* unavailable rather than vanishing."                                     *)
FailedImportUnavailable == \A b \in importErrors : ~IsAvailable(b)
=============================================================================
