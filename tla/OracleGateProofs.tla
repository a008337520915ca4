-------------------------- MODULE OracleGateProofs --------------------------
(***************************************************************************)
(* The registry and the two gates on it, for any import order, any         *)
(* techniques and any --require names.                                     *)
(***************************************************************************)
EXTENDS OracleGate, TLAPS

-----------------------------------------------------------------------------
(* The inductive invariant. *)

(* What the import loop has made of the subpackages behind it, at it and   *)
(* ahead of it.                                                            *)
PublishedSoFar(b) == {<<b, Publishes[b][k]>> : k \in 1 .. published}

LoaderInv ==
  /\ published \in Nat
  /\ ~importing => published = 0
  /\ probes \cap importErrors = {}
  /\ \A n \in DOMAIN LoadOrder : n >= loading =>
       /\ LoadOrder[n] \notin probes \cup importErrors
       /\ n > loading => Published(LoadOrder[n]) = {}
       /\ n = loading => Published(LoadOrder[n]) = PublishedSoFar(LoadOrder[n])
  /\ \A n \in DOMAIN LoadOrder : n < loading =>
       \/ LoadOrder[n] \in importErrors
       \/ LoadOrder[n] \in probes /\ Published(LoadOrder[n]) = {}
       \/ LoadOrder[n] \in probes /\ Published(LoadOrder[n]) = AllTechniques(LoadOrder[n])

(* A default was declared by a line that is there, and by the only marked  *)
(* one that is, unless the import of its backend broke.                    *)
DefaultInv ==
  \A b \in Backends :
    /\ defaults[b] # NoDefault => <<b, defaults[b]>> \in registry \cap marked
    /\ b \notin importErrors => marked \cap Published(b) \subseteq {<<b, defaults[b]>>}

(* While the device stays, a subpackage that was declined still would be. *)
DeclinedInv ==
  ~flapped => \A b \in probes :
    Published(b) = {} => AllTechniques(b) = {} \/ ~ProbeSays(b)

(* Where every technique of the registry is in the walk. *)
WalkInv ==
  /\ ~Loaded \/ (exit = NotYet /\ asked # Backends) =>
       todo = {} /\ admitted = {} /\ ok = {} /\ failed = {} /\ skipped = {}
  /\ ~Loaded => asked = {} /\ exit = NotYet
  /\ Loaded /\ asked = Backends =>
       registry \subseteq todo \cup admitted \cup ok \cup failed \cup skipped
  /\ exit # NotYet => asked = Backends
  /\ \A r, s \in admitted : r = s

(* What is known of the techniques that are done with. *)
VerdictInv ==
  /\ ok \subseteq correct
  /\ \A r \in skipped : flapped \/ ~IsAvailable(r[1])
  /\ ~flapped => \A b \in (asked \cap required) \ missing : IsAvailable(b)
  /\ command = "verify" =>
       /\ skipped \cap (todo \cup admitted \cup ok \cup failed) = {}
       /\ \A r \in registry, s \in skipped : r[1] = s[1] => r \in skipped

(* What an exit code says of the walk. *)
ExitInv ==
  /\ exit = 0 =>
       /\ todo = {} /\ admitted = {} /\ failed = {} /\ missing = {}
       /\ command = "gate" => ok # {}
       /\ command = "verify" => reference
  /\ command = "verify" => required = {}

IInv ==
  /\ TypeOK
  /\ LoaderInv
  /\ DefaultInv
  /\ DeclinedInv
  /\ WalkInv
  /\ VerdictInv
  /\ ExitInv

-----------------------------------------------------------------------------
(* The import loop. *)

(* The subpackage being imported is a backend, at one place of the order. *)
LEMMA CurrentIsBackend ==
  ASSUME RegistryTypeOK, ~Loaded
  PROVE  /\ loading \in DOMAIN LoadOrder
         /\ Current \in Backends
         /\ Publishes[Current] \in Seq(Range(Publishes[Current]) \ {NoDefault, Error})
         /\ \A n \in DOMAIN LoadOrder : LoadOrder[n] = Current => n = loading
<1>1. loading \in DOMAIN LoadOrder
  BY LoadAssumption DEF RegistryTypeOK, Loaded
<1>2. Current \in Backends
  BY <1>1 DEF Current, Backends, Range
<1>3. Publishes[Current] \in Seq(Range(Publishes[Current]) \ {NoDefault, Error})
  BY <1>2, LoadAssumption
<1>4. QED
  BY <1>1, <1>2, <1>3, LoadAssumption DEF Current

(* An import line names a technique of the subpackage. *)
LEMMA LineIsTechnique ==
  ASSUME RegistryTypeOK, ~Loaded, published < Len(Publishes[Current])
  PROVE  /\ published \in Nat
         /\ published + 1 \in 1 .. Len(Publishes[Current])
         /\ Line = <<Current, Line[2]>>
         /\ Line[2] = Publishes[Current][published + 1]
         /\ Line[2] \in Range(Publishes[Current])
         /\ Line \in AllTechniques(Current)
<1>1. published \in Nat /\ published + 1 \in 1 .. Len(Publishes[Current])
  BY CurrentIsBackend DEF RegistryTypeOK
<1>2. Line[2] = Publishes[Current][published + 1] /\ Line = <<Current, Line[2]>>
  BY DEF Line
<1>3. Publishes[Current][published + 1] \in Range(Publishes[Current])
  BY <1>1, CurrentIsBackend DEF Range
<1>4. QED
  BY <1>1, <1>2, <1>3 DEF AllTechniques

(* The names a backend publishes are techniques, never the two markers. *)
LEMMA TechniqueNames ==
  ASSUME NEW b \in Backends, NEW t \in Range(Publishes[b])
  PROVE  t # NoDefault /\ t # Error
<1>1. PICK k \in DOMAIN Publishes[b] : t = Publishes[b][k]
  BY DEF Range
<1>2. Publishes[b] \in Seq(Range(Publishes[b]) \ {NoDefault, Error})
  BY LoadAssumption
<1>3. QED
  BY <1>1, <1>2

(* The next subpackage starts well-typed. *)
LEMMA NextSubpackageType ==
  ASSUME RegistryTypeOK, ~Loaded, NextSubpackage
  PROVE  /\ loading' \in 1 .. Len(LoadOrder) + 1
         /\ importing' \in BOOLEAN
         /\ ~Loaded' => published' \in 0 .. Len(Publishes[Current'])
<1>1. loading' \in 1 .. Len(LoadOrder) + 1
  BY LoadAssumption DEF RegistryTypeOK, Loaded, NextSubpackage
<1>2. ASSUME ~Loaded'
      PROVE  published' \in 0 .. Len(Publishes[Current'])
  <2>1. loading' \in DOMAIN LoadOrder
    BY <1>1, <1>2, LoadAssumption DEF Loaded
  <2>2. Current' \in Backends
    BY <2>1 DEF Current, Backends, Range
  <2>3. Len(Publishes[Current']) \in Nat
    BY <2>2, LoadAssumption
  <2>4. QED
    BY <2>3 DEF NextSubpackage
<1>3. QED
  BY <1>1, <1>2 DEF NextSubpackage

(* Every step of the import loop keeps the registry well-typed. *)
LEMMA LoaderType ==
  ASSUME RegistryTypeOK, LoaderNext
  PROVE  RegistryTypeOK'
<1> USE DEF RegistryTypeOK, machine
<1>0. ~Loaded
  BY DEF LoaderNext, DeclineImport, StartImport, Register, RefuseDefault,
         FinishImport, ImportRaises
<1>1. CASE DeclineImport
  BY <1>0, <1>1, CurrentIsBackend, NextSubpackageType DEF DeclineImport
<1>2. CASE StartImport
  BY <1>0, <1>2 DEF StartImport, Loaded, Current
<1>3. CASE Register
  <2>1. registry' \subseteq UNION {AllTechniques(b) : b \in Backends}
    BY <1>0, <1>3, CurrentIsBackend, LineIsTechnique DEF Register, Publish
  <2>2. Line[2] \in UNION {Range(Publishes[b]) : b \in Backends}
    BY <1>0, <1>3, CurrentIsBackend, LineIsTechnique DEF Register
  <2>3. defaults' \in [Backends -> (UNION {Range(Publishes[b]) : b \in Backends}) \cup {NoDefault}]
    BY <1>3, <2>2 DEF Register
  <2>4. published' \in 0 .. Len(Publishes[Current]) /\ Current' = Current /\ ~Loaded'
    BY <1>0, <1>3, CurrentIsBackend, LineIsTechnique DEF Register, Current, Loaded
  <2>5. QED
    BY <1>3, <2>1, <2>3, <2>4 DEF Register
<1>4. CASE RefuseDefault
  <2>1. registry' \subseteq UNION {AllTechniques(b) : b \in Backends}
    BY <1>0, <1>4, CurrentIsBackend, LineIsTechnique DEF RefuseDefault, Publish
  <2>2. QED
    BY <1>0, <1>4, <2>1, CurrentIsBackend, NextSubpackageType DEF RefuseDefault
<1>5. CASE FinishImport
  BY <1>0, <1>5, CurrentIsBackend, NextSubpackageType DEF FinishImport
<1>6. CASE ImportRaises
  BY <1>0, <1>6, CurrentIsBackend, NextSubpackageType DEF ImportRaises
<1>7. QED
  BY <1>1, <1>2, <1>3, <1>4, <1>5, <1>6 DEF LoaderNext

(* A line adds one technique to the backend being imported, none to the    *)
(* others.                                                                 *)
LEMMA PublishAdds ==
  ASSUME RegistryTypeOK, ~Loaded, published < Len(Publishes[Current]), Publish,
         NEW b
  PROVE  Published(b)' = IF b = Current THEN Published(b) \cup {Line} ELSE Published(b)
<1>1. Line[1] = Current
  BY LineIsTechnique
<1>2. QED
  BY <1>1 DEF Publish, Published

(* What is published after one line more. *)
LEMMA OneLineMore ==
  ASSUME RegistryTypeOK, ~Loaded, published < Len(Publishes[Current]),
         Published(Current) = PublishedSoFar(Current)
  PROVE  Published(Current) \cup {Line} =
           {<<Current, Publishes[Current][k]>> : k \in 1 .. published + 1}
<1>1. 1 .. published + 1 = (1 .. published) \cup {published + 1}
  BY LineIsTechnique
<1>2. Line = <<Current, Publishes[Current][published + 1]>>
  BY DEF Line
<1>3. QED
  BY <1>1, <1>2 DEF PublishedSoFar

(* When the last line has run, all techniques of the backend are there. *)
LEMMA AllPublished ==
  ASSUME RegistryTypeOK, ~Loaded, published = Len(Publishes[Current]),
         Published(Current) = PublishedSoFar(Current)
  PROVE  Published(Current) = AllTechniques(Current)
<1>1. DOMAIN Publishes[Current] = 1 .. published
  BY CurrentIsBackend
<1>2. QED
  BY <1>1 DEF PublishedSoFar, AllTechniques, Range

(* The loop goes on behind a subpackage that is done with: it was declined *)
(* or finished, or is recorded as broken.                                  *)
LEMMA LoaderMovesOn ==
  ASSUME RegistryTypeOK, LoaderInv, ~Loaded, NextSubpackage,
         \A b : b # Current => Published(b)' = Published(b),
         \/ /\ importErrors' = importErrors \cup {Current}
            /\ probes' = probes
         \/ /\ importErrors' = importErrors
            /\ probes' = probes \cup {Current}
            /\ \A b : b = Current => Published(b)' \in {{}, AllTechniques(b)}
  PROVE  LoaderInv'
<1>1. /\ loading \in DOMAIN LoadOrder
      /\ \A n \in DOMAIN LoadOrder : LoadOrder[n] = Current => n = loading
  BY CurrentIsBackend
<1>2. loading \in Nat /\ loading' = loading + 1 /\ \A n \in DOMAIN LoadOrder : n \in Nat
  BY LoadAssumption DEF RegistryTypeOK, NextSubpackage
<1>3. published' \in Nat /\ (~importing' => published' = 0)
  BY DEF NextSubpackage
<1>4. probes' \cap importErrors' = {}
  BY <1>1, <1>2 DEF LoaderInv, Current
<1>5. ASSUME NEW n \in DOMAIN LoadOrder, n >= loading'
      PROVE  /\ LoadOrder[n] \notin probes' \cup importErrors'
             /\ n > loading' => Published(LoadOrder[n])' = {}
             /\ n = loading' => Published(LoadOrder[n])' = PublishedSoFar(LoadOrder[n])'
  <2>1. n > loading /\ LoadOrder[n] # Current
    BY <1>1, <1>2, <1>5
  <2>2. LoadOrder[n] \notin probes \cup importErrors /\ Published(LoadOrder[n]) = {}
    BY <2>1, <1>2 DEF LoaderInv
  <2>3. PublishedSoFar(LoadOrder[n])' = {}
    BY DEF NextSubpackage, PublishedSoFar
  <2>4. QED
    BY <2>1, <2>2, <2>3
<1>6. ASSUME NEW n \in DOMAIN LoadOrder, n < loading'
      PROVE  \/ LoadOrder[n] \in importErrors'
             \/ LoadOrder[n] \in probes' /\ Published(LoadOrder[n])' = {}
             \/ LoadOrder[n] \in probes' /\ Published(LoadOrder[n])' = AllTechniques(LoadOrder[n])
  <2>1. CASE n = loading
    BY <2>1 DEF Current
  <2>2. CASE n # loading
    <3>1. n < loading /\ LoadOrder[n] # Current
      BY <1>1, <1>2, <1>6, <2>2
    <3>2. QED
      BY <3>1 DEF LoaderInv
  <2>3. QED
    BY <2>1, <2>2
<1>7. QED
  BY <1>3, <1>4, <1>5, <1>6 DEF LoaderInv

(* The import loop keeps its books. *)
LEMMA LoaderStep ==
  ASSUME RegistryTypeOK, LoaderInv, LoaderNext
  PROVE  LoaderInv'
<1>0. ~Loaded
  BY DEF LoaderNext, DeclineImport, StartImport, Register, RefuseDefault,
         FinishImport, ImportRaises
<1>1. /\ loading \in DOMAIN LoadOrder /\ loading \in Nat
      /\ \A n \in DOMAIN LoadOrder : LoadOrder[n] = Current => n = loading
      /\ Published(Current) = PublishedSoFar(Current)
  BY <1>0, CurrentIsBackend, LoadAssumption DEF LoaderInv, RegistryTypeOK, Current
<1>2. CASE DeclineImport
  <2>1. Published(Current) = {}
    BY <1>1, <1>2 DEF LoaderInv, DeclineImport, PublishedSoFar
  <2>2. \A b : Published(b)' = Published(b)
    BY <1>2 DEF DeclineImport, Published
  <2>3. QED
    BY <1>0, <1>2, <2>1, <2>2, LoaderMovesOn DEF DeclineImport
<1>3. CASE StartImport
  BY <1>3 DEF StartImport, LoaderInv, machine, Published, PublishedSoFar
<1>4. CASE Register
  <2>0. published < Len(Publishes[Current]) /\ Publish
    BY <1>4 DEF Register
  <2>1. \A b : Published(b)' = IF b = Current THEN Published(b) \cup {Line} ELSE Published(b)
    BY <1>0, <2>0, PublishAdds
  <2>2. published' = published + 1 /\ published \in Nat /\ importing'
    BY <1>0, <2>0, <1>4, LineIsTechnique DEF Register
  <2>3. Published(Current)' = PublishedSoFar(Current)'
    BY <1>0, <1>1, <2>0, <2>1, <2>2, OneLineMore, <1>4
       DEF PublishedSoFar, Current, Register
  <2>4. UNCHANGED <<probes, importErrors, loading>> /\ Current' = Current
    BY <1>4 DEF Register, Current
  <2>5. \A n \in DOMAIN LoadOrder : n # loading => LoadOrder[n] # Current
    BY <1>1
  <2>6. \A n \in DOMAIN LoadOrder : n # loading =>
          Published(LoadOrder[n])' = Published(LoadOrder[n])
    BY <2>1, <2>5
  <2>7. \A n \in DOMAIN LoadOrder : n \in Nat
    BY LoadAssumption
  <2>8. \A n \in DOMAIN LoadOrder : n >= loading' =>
          /\ LoadOrder[n] \notin probes' \cup importErrors'
          /\ n > loading' => Published(LoadOrder[n])' = {}
          /\ n = loading' => Published(LoadOrder[n])' = PublishedSoFar(LoadOrder[n])'
    BY <1>1, <2>3, <2>4, <2>6, <2>7 DEF LoaderInv, Current
  <2>9. \A n \in DOMAIN LoadOrder : n < loading' =>
          \/ LoadOrder[n] \in importErrors'
          \/ LoadOrder[n] \in probes' /\ Published(LoadOrder[n])' = {}
          \/ LoadOrder[n] \in probes' /\ Published(LoadOrder[n])' = AllTechniques(LoadOrder[n])
    BY <1>1, <2>4, <2>6, <2>7 DEF LoaderInv
  <2>10. QED
    BY <2>2, <2>4, <2>8, <2>9 DEF LoaderInv
<1>5. CASE RefuseDefault
  <2>1. \A b : b # Current => Published(b)' = Published(b)
    BY <1>0, <1>5, PublishAdds DEF RefuseDefault
  <2>2. QED
    BY <1>0, <1>5, <2>1, LoaderMovesOn DEF RefuseDefault
<1>6. CASE FinishImport
  <2>1. \A b : Published(b)' = Published(b)
    BY <1>6 DEF FinishImport, Published
  <2>2. Published(Current) = AllTechniques(Current)
    BY <1>0, <1>1, <1>6, AllPublished DEF FinishImport
  <2>3. QED
    BY <1>0, <1>6, <2>1, <2>2, LoaderMovesOn DEF FinishImport
<1>7. CASE ImportRaises
  <2>1. \A b : Published(b)' = Published(b)
    BY <1>7 DEF ImportRaises, Published
  <2>2. QED
    BY <1>0, <1>7, <2>1, LoaderMovesOn DEF ImportRaises
<1>8. QED
  BY <1>2, <1>3, <1>4, <1>5, <1>6, <1>7 DEF LoaderNext

(* A declared default was declared once, by a line that ran. *)
LEMMA DefaultStep ==
  ASSUME RegistryTypeOK, DefaultInv, LoaderNext
  PROVE  DefaultInv'
<1> USE DEF machine
<1>0. ~Loaded
  BY DEF LoaderNext, DeclineImport, StartImport, Register, RefuseDefault,
         FinishImport, ImportRaises
<1>1. CASE UNCHANGED <<registry, defaults, marked>> /\ importErrors \subseteq importErrors'
  BY <1>1 DEF DefaultInv, Published
<1>2. CASE Register
  <2>0. published < Len(Publishes[Current]) /\ Publish /\ Current \in Backends
    BY <1>0, <1>2, CurrentIsBackend DEF Register
  <2>1. Line = <<Current, Line[2]>> /\ defaults \in [Backends -> (UNION {Range(Publishes[b]) : b \in Backends}) \cup {NoDefault}]
    BY <1>0, <2>0, LineIsTechnique DEF RegistryTypeOK
  <2>2. \A b : Published(b)' = IF b = Current THEN Published(b) \cup {Line} ELSE Published(b)
    BY <1>0, <2>0, PublishAdds
  <2>3. marked' = marked /\ importErrors' = importErrors /\ registry' = registry \cup {Line}
    BY <1>2, <2>0 DEF Register, Publish
  <2>4. ASSUME NEW b \in Backends, b # Current
        PROVE  /\ defaults'[b] = defaults[b]
               /\ Published(b)' = Published(b)
    BY <1>2, <2>1, <2>2, <2>4 DEF Register
  <2>5. ASSUME NEW b, b = Current
        PROVE  /\ defaults'[b] # NoDefault => <<b, defaults'[b]>> \in registry' \cap marked'
               /\ b \notin importErrors' => marked' \cap Published(b)' \subseteq {<<b, defaults'[b]>>}
    <3>1. Published(b)' = Published(b) \cup {Line}
      BY <2>2, <2>5
    <3>2. CASE Line \notin marked
      <4>1. defaults' = defaults
        BY <1>2, <3>2 DEF Register
      <4>2. QED
        BY <2>0, <2>3, <2>5, <3>1, <3>2, <4>1 DEF DefaultInv
    <3>3. CASE Line \in marked
      <4>1. defaults[b] \in {NoDefault, Line[2]} /\ <<b, defaults'[b]>> = Line
        BY <1>2, <2>0, <2>1, <2>5, <3>3 DEF Register, Conflicts
      <4>2. Published(b) \subseteq AllTechniques(b)
        BY DEF Published, RegistryTypeOK, AllTechniques
      <4>3. <<b, NoDefault>> \notin Published(b)
        BY <2>0, <2>5, <4>2, TechniqueNames DEF AllTechniques
      <4>4. <<b, Line[2]>> = Line
        BY <2>1, <2>5
      <4>5. b \notin importErrors => marked \cap Published(b) \subseteq {Line}
        BY <2>0, <2>5, <4>1, <4>3, <4>4 DEF DefaultInv
      <4>6. QED
        BY <2>3, <3>1, <3>3, <4>1, <4>5
    <3>4. QED
      BY <3>2, <3>3
  <2>6. QED
    BY <2>3, <2>4, <2>5 DEF DefaultInv
<1>3. CASE RefuseDefault
  <2>1. /\ importErrors' = importErrors \cup {Current}
        /\ defaults' = defaults /\ marked' = marked
        /\ registry \subseteq registry'
    BY <1>3 DEF RefuseDefault, Publish
  <2>2. \A b : b # Current => Published(b)' = Published(b)
    BY <1>0, <1>3, PublishAdds DEF RefuseDefault
  <2>3. QED
    BY <2>1, <2>2 DEF DefaultInv
<1>4. QED
  <2>1. DeclineImport \/ StartImport \/ FinishImport \/ ImportRaises =>
          UNCHANGED <<registry, defaults, marked>> /\ importErrors \subseteq importErrors'
    BY DEF DeclineImport, StartImport, FinishImport, ImportRaises
  <2>2. QED
    BY <1>1, <1>2, <1>3, <2>1 DEF LoaderNext

(* A probe is registered behind a subpackage that was declined, or whose   *)
(* techniques are all there.                                               *)
LEMMA DeclinedStep ==
  ASSUME RegistryTypeOK, LoaderInv, DeclinedInv, LoaderNext, UNCHANGED flapped
  PROVE  DeclinedInv'
<1> USE DEF machine
<1>0. ~Loaded
  BY DEF LoaderNext, DeclineImport, StartImport, Register, RefuseDefault,
         FinishImport, ImportRaises
<1>1. /\ Current \notin probes
      /\ Published(Current) = PublishedSoFar(Current)
  BY <1>0, CurrentIsBackend, LoadAssumption DEF LoaderInv, RegistryTypeOK, Current
<1>2. \A b : (ProbeSays(b)' <=> ProbeSays(b)) /\ (b # Current => Published(b)' = Published(b))
  <2>1. UNCHANGED <<installed, device>>
    BY DEF LoaderNext, DeclineImport, StartImport, Register, RefuseDefault,
           FinishImport, ImportRaises
  <2>2. CASE UNCHANGED registry
    BY <2>1, <2>2 DEF ProbeSays, Published
  <2>3. CASE published < Len(Publishes[Current]) /\ Publish
    BY <1>0, <2>1, <2>3, PublishAdds DEF ProbeSays
  <2>4. QED
    BY <2>2, <2>3 DEF LoaderNext, DeclineImport, StartImport, Register, RefuseDefault,
                      FinishImport, ImportRaises
<1>3. CASE probes' = probes
  BY <1>1, <1>2, <1>3 DEF DeclinedInv
<1>4. CASE DeclineImport
  <2>1. ~ProbeSays(Current) /\ probes' = probes \cup {Current}
    BY <1>4 DEF DeclineImport
  <2>2. QED
    BY <1>1, <1>2, <2>1 DEF DeclinedInv
<1>5. CASE FinishImport
  <2>1. probes' = probes \cup {Current}
    BY <1>5 DEF FinishImport
  <2>2. Published(Current) = AllTechniques(Current)
    BY <1>0, <1>1, <1>5, AllPublished DEF FinishImport
  <2>3. \A b : Published(b)' = Published(b)
    BY <1>5 DEF FinishImport, Published
  <2>4. QED
    BY <1>1, <1>2, <2>1, <2>2, <2>3 DEF DeclinedInv
<1>6. QED
  BY <1>3, <1>4, <1>5 DEF LoaderNext, StartImport, Register, RefuseDefault, ImportRaises

-----------------------------------------------------------------------------
(* The walk. *)

(* While packages are still loading there is a backend, so the gates have  *)
(* not asked yet and the walk has not begun.                               *)
LEMMA LoadingMeansNothingAsked ==
  ASSUME TypeOK, WalkInv, ~Loaded
  PROVE  /\ asked = {} /\ Backends # {} /\ exit = NotYet
         /\ todo = {} /\ admitted = {} /\ ok = {} /\ failed = {} /\ skipped = {}
  BY CurrentIsBackend DEF TypeOK, WalkInv

(* Before the walk begins nothing has been sorted. *)
LEMMA NothingSortedYet ==
  ASSUME TypeOK, WalkInv, Running, asked # Backends \/ asked = {}
  PROVE  todo = {} /\ admitted = {} /\ ok = {} /\ failed = {} /\ skipped = {}
<1>1. CASE asked # Backends
  BY <1>1 DEF WalkInv, Running
<1>2. CASE Backends = {}
  <2>1. registry = {}
    BY <1>2 DEF TypeOK, RegistryTypeOK
  <2>2. QED
    BY <2>1 DEF TypeOK
<1>3. QED
  BY <1>1, <1>2

(* What is_available answers depends on the device and on the registry. *)
LEMMA AvailabilityStable ==
  ASSUME UNCHANGED registryVars, NEW b
  PROVE  IsAvailable(b)' <=> IsAvailable(b)
  BY DEF registryVars, machine, loader, IsAvailable, ProbeSays, Published

(* The steps of the two gates leave the registry alone. *)
GateStep ==
  \/ \E b \in Backends : Ask(b)
  \/ ListAvailable
  \/ MissingRequired
  \/ \E r \in registry : Skip(r) \/ Admit(r) \/ Require(r)
  \/ Report

(* The gate reads the registry and writes nothing into it.                 *)
LEMMA GateKeepsRegistry ==
  ASSUME GateStep
  PROVE  UNCHANGED <<registryVars, arguments, flapped>>
  BY DEF GateStep, Ask, ListAvailable, MissingRequired, Skip, Admit, Require, Report

(* What is known of the registry depends on nothing else.                  *)
LEMMA RegistryKept ==
  ASSUME UNCHANGED <<registryVars, arguments, flapped>>,
         RegistryTypeOK, LoaderInv, DefaultInv, DeclinedInv
  PROVE  RegistryTypeOK' /\ LoaderInv' /\ DefaultInv' /\ DeclinedInv'
<1>1. RegistryTypeOK'
  BY DEF registryVars, machine, loader, RegistryTypeOK, Loaded, Current
<1>2. LoaderInv'
  BY DEF registryVars, machine, loader, LoaderInv, Published, PublishedSoFar
<1>3. DefaultInv'
  BY DEF registryVars, machine, loader, DefaultInv, Published
<1>4. DeclinedInv'
  BY DEF registryVars, machine, loader, DeclinedInv, Published, ProbeSays
<1>5. QED
  BY <1>1, <1>2, <1>3, <1>4

(* The gates keep their own variables well-typed. *)
LEMMA GateType ==
  ASSUME TypeOK, GateStep
  PROVE  TypeOK'
<1> USE DEF arguments, results, registryVars, machine, loader
<1>1. RegistryTypeOK'
  BY GateKeepsRegistry DEF TypeOK, RegistryTypeOK, Loaded, Current
<1>2. UNCHANGED <<command, required, reference, flapped, registry>>
  BY GateKeepsRegistry
<1> USE <1>1, <1>2
<1>3. ASSUME NEW b \in Backends, Ask(b)
      PROVE  TypeOK'
  BY <1>3 DEF TypeOK, Ask
<1>4. CASE ListAvailable
  BY <1>4 DEF TypeOK, ListAvailable
<1>5. CASE MissingRequired
  BY <1>5 DEF TypeOK, MissingRequired, NotYet
<1>6. ASSUME NEW r \in registry, Skip(r)
      PROVE  TypeOK'
  BY <1>6 DEF TypeOK, Skip
<1>7. ASSUME NEW r \in registry, Admit(r)
      PROVE  TypeOK'
  BY <1>7 DEF TypeOK, Admit
<1>8. ASSUME NEW r \in registry, Require(r)
      PROVE  TypeOK'
  BY <1>8 DEF TypeOK, Require
<1>9. CASE Report
  BY <1>9 DEF TypeOK, Report, ExitCode, NotYet
<1>10. QED
  BY <1>3, <1>4, <1>5, <1>6, <1>7, <1>8, <1>9 DEF GateStep

(* Nothing of the registry is lost in the walk. *)
LEMMA WalkStep ==
  ASSUME TypeOK, WalkInv, GateStep
  PROVE  WalkInv'
<1> USE DEF arguments, results, registryVars, machine, loader
<1>1. UNCHANGED registry /\ (Loaded' <=> Loaded)
  BY GateKeepsRegistry DEF Loaded
<1>2. Loaded
  BY LoadingMeansNothingAsked
     DEF GateStep, Ask, ListAvailable, MissingRequired, Skip, Admit, Require, Report,
         Walking, Running
<1>3. ASSUME NEW b \in Backends, Ask(b)
      PROVE  WalkInv'
  <2>1. todo = {} /\ admitted = {} /\ ok = {} /\ failed = {} /\ skipped = {}
    BY <1>3, NothingSortedYet DEF Ask
  <2>2. UNCHANGED <<admitted, ok, failed, skipped, exit>> /\ exit = NotYet
    BY <1>3 DEF Ask, Running
  <2>3. todo' = IF asked' = Backends THEN registry ELSE {}
    BY <1>3 DEF Ask
  <2>4. QED
    BY <1>1, <1>2, <2>1, <2>2, <2>3 DEF WalkInv
<1>4. CASE ListAvailable
  <2>1. todo = {} /\ admitted = {} /\ ok = {} /\ failed = {} /\ skipped = {}
    BY <1>4, NothingSortedYet DEF ListAvailable
  <2>2. UNCHANGED <<admitted, ok, failed, exit>> /\ exit = NotYet /\ asked' = Backends
    BY <1>4 DEF ListAvailable, Running
  <2>3. registry = todo' \cup skipped'
    BY <1>4 DEF ListAvailable
  <2>4. QED
    BY <1>1, <1>2, <2>1, <2>2, <2>3 DEF WalkInv
<1>5. CASE MissingRequired
  BY <1>1, <1>2, <1>5 DEF WalkInv, MissingRequired
<1>6. ASSUME NEW r \in registry, Skip(r)
      PROVE  WalkInv'
  BY <1>1, <1>2, <1>6 DEF WalkInv, Skip, Walking
<1>7. ASSUME NEW r \in registry, Admit(r)
      PROVE  WalkInv'
  BY <1>1, <1>2, <1>7 DEF WalkInv, Admit, Walking
<1>8. ASSUME NEW r \in registry, Require(r)
      PROVE  WalkInv'
  <2>1. admitted = {r}
    BY <1>8 DEF Require, WalkInv
  <2>2. QED
    BY <1>1, <1>2, <1>8, <2>1 DEF WalkInv, Require
<1>9. CASE Report
  BY <1>1, <1>2, <1>9 DEF WalkInv, Report, Walking
<1>10. QED
  BY <1>3, <1>4, <1>5, <1>6, <1>7, <1>8, <1>9 DEF GateStep

(* What is known of the techniques done with stays true: a verdict is the  *)
(* kernel's own, a skip is the backend's.                                  *)
LEMMA VerdictStep ==
  ASSUME TypeOK, WalkInv, VerdictInv, ExitInv, GateStep
  PROVE  VerdictInv'
<1> USE DEF arguments, results
<1>1. UNCHANGED <<registry, command, required, correct, flapped>>
  BY GateKeepsRegistry DEF registryVars, loader
<1>2. \A b : IsAvailable(b)' <=> IsAvailable(b)
  BY GateKeepsRegistry, AvailabilityStable
<1>3. ASSUME NEW b \in Backends, Ask(b)
      PROVE  VerdictInv'
  <2>1. skipped = {} /\ skipped' = {} /\ ok' = ok
    BY <1>3, NothingSortedYet DEF Ask
  <2>2. asked' = asked \cup {b}
        /\ missing' = IF b \in required /\ ~IsAvailable(b) THEN missing \cup {b} ELSE missing
    BY <1>3 DEF Ask
  <2>3. ~flapped => \A d \in (asked' \cap required) \ missing' : IsAvailable(d)
    BY <2>2 DEF VerdictInv
  <2>4. command # "verify"
    BY <1>3 DEF Ask
  <2>5. QED
    BY <1>1, <1>2, <2>1, <2>3, <2>4 DEF VerdictInv
<1>4. CASE ListAvailable
  <2>1. admitted = {} /\ ok = {} /\ failed = {}
    BY <1>4, NothingSortedYet DEF ListAvailable
  <2>2. /\ UNCHANGED <<admitted, ok, failed>>
        /\ todo' = {r \in registry : IsAvailable(r[1])}
        /\ skipped' = registry \ todo'
        /\ required = {}
    BY <1>4 DEF ListAvailable, ExitInv
  <2>3. QED
    BY <1>1, <1>2, <2>1, <2>2 DEF VerdictInv
<1>5. CASE MissingRequired
  BY <1>1, <1>2, <1>5 DEF MissingRequired, VerdictInv
<1>6. ASSUME NEW r \in registry, Skip(r)
      PROVE  VerdictInv'
  BY <1>1, <1>2, <1>6 DEF Skip, VerdictInv
<1>7. ASSUME NEW r \in registry, Admit(r)
      PROVE  VerdictInv'
  BY <1>1, <1>2, <1>7 DEF Admit, VerdictInv
<1>8. ASSUME NEW r \in registry, Require(r)
      PROVE  VerdictInv'
  BY <1>1, <1>2, <1>8 DEF Require, VerdictInv
<1>9. CASE Report
  BY <1>1, <1>2, <1>9 DEF Report, VerdictInv
<1>10. QED
  BY <1>3, <1>4, <1>5, <1>6, <1>7, <1>8, <1>9 DEF GateStep

(* Exit code 0 is given at the end of a walk in which nothing failed, and  *)
(* nothing is done after it.                                               *)
LEMMA ExitStep ==
  ASSUME TypeOK, WalkInv, ExitInv, GateStep
  PROVE  ExitInv'
<1> USE DEF arguments, results, NotYet
<1>1. UNCHANGED <<command, required, reference>>
  BY GateKeepsRegistry
<1>2. CASE exit = NotYet /\ exit' = NotYet
  BY <1>1, <1>2 DEF ExitInv
<1>3. CASE MissingRequired
  BY <1>1, <1>3 DEF MissingRequired, ExitInv
<1>4. CASE Report
  BY <1>1, <1>4 DEF Report, Walking, ExitCode, ExitInv
<1>5. ASSUME NEW r \in registry, Require(r)
      PROVE  ExitInv'
  BY <1>1, <1>5 DEF Require, ExitInv
<1>6. QED
  BY <1>2, <1>3, <1>4, <1>5
     DEF GateStep, Ask, ListAvailable, Skip, Admit, Walking, Running

-----------------------------------------------------------------------------
(* The invariant holds of every behaviour. *)

(* The invariant holds before the first import.                            *)
LEMMA InitIInv ==
  Init => IInv
<1> SUFFICES ASSUME Init
             PROVE  IInv
  OBVIOUS
<1> USE DEF Init, RegistryInit
<1>1. TypeOK
  <2>1. Len(LoadOrder) \in Nat
    BY LoadAssumption
  <2>2. ~Loaded => 0 \in 0 .. Len(Publishes[Current])
    <3>1. ~Loaded => 1 \in DOMAIN LoadOrder
      BY <2>1, LoadAssumption DEF Loaded
    <3>2. ~Loaded => Current \in Backends
      BY <3>1 DEF Current, Backends, Range
    <3>3. QED
      BY <3>2, LoadAssumption
  <2>3. RegistryTypeOK
    <3>1. defaults \in [Backends -> (UNION {Range(Publishes[b]) : b \in Backends}) \cup {NoDefault}]
      OBVIOUS
    <3>2. loading \in 1 .. Len(LoadOrder) + 1
      BY <2>1
    <3>3. QED
      BY <2>2, <3>1, <3>2 DEF RegistryTypeOK
  <2>4. required \subseteq RequireNames /\ reference \in BOOLEAN
    <3>1. CASE command = "gate"
      BY <3>1
    <3>2. CASE command # "gate"
      BY <3>2
    <3>3. QED
      BY <3>1, <3>2
  <2>5. \A X \in {todo, admitted, ok, failed, skipped} : X \subseteq registry
    OBVIOUS
  <2>6. exit \in 0 .. NotYet
    BY DEF NotYet
  <2>7. QED
    BY <2>3, <2>4, <2>5, <2>6 DEF TypeOK
<1>2. LoaderInv
  <2>1. \A n \in DOMAIN LoadOrder : n \in Nat /\ n >= 1
    BY LoadAssumption
  <2>2. QED
    BY <2>1 DEF LoaderInv, Published, PublishedSoFar
<1>3. DefaultInv
  BY DEF DefaultInv, Published
<1>4. DeclinedInv
  BY DEF DeclinedInv
<1>5. WalkInv
  BY DEF WalkInv, NotYet
<1>6. VerdictInv
  BY DEF VerdictInv
<1>7. ExitInv
  BY DEF ExitInv, NotYet
<1>8. QED
  BY <1>1, <1>2, <1>3, <1>4, <1>5, <1>6, <1>7 DEF IInv

(* Each step of the import and of either command keeps the invariant.      *)
LEMMA NextIInv ==
  IInv /\ [Next]_vars => IInv'
<1> SUFFICES ASSUME IInv, [Next]_vars
             PROVE  IInv'
  OBVIOUS
<1> USE DEF IInv
<1>1. CASE Load
  <2>1. LoaderNext /\ UNCHANGED <<arguments, flapped, gate>> /\ ~Loaded
    BY <1>1 DEF Load, LoaderNext, DeclineImport, StartImport, Register, RefuseDefault,
                FinishImport, ImportRaises
  <2>2. RegistryTypeOK' /\ LoaderInv' /\ DefaultInv' /\ DeclinedInv'
    BY <2>1, LoaderType, LoaderStep, DefaultStep, DeclinedStep DEF TypeOK
  <2>3. /\ asked' = {} /\ Backends # {} /\ exit' = NotYet
        /\ todo' = {} /\ admitted' = {} /\ ok' = {} /\ failed' = {} /\ skipped' = {}
    BY <2>1, LoadingMeansNothingAsked DEF gate, results
  <2>4. TypeOK'
    BY <2>1, <2>2, <2>3 DEF TypeOK, arguments, gate
  <2>5. WalkInv'
    BY <2>3 DEF WalkInv
  <2>6. VerdictInv'
    BY <2>3 DEF VerdictInv
  <2>7. ExitInv'
    BY <2>1, <2>3 DEF ExitInv, arguments, NotYet
  <2>8. QED
    BY <2>2, <2>4, <2>5, <2>6, <2>7
<1>2. CASE GateStep
  <2>1. RegistryTypeOK' /\ LoaderInv' /\ DefaultInv' /\ DeclinedInv'
    BY <1>2, GateKeepsRegistry, RegistryKept DEF TypeOK
  <2>2. QED
    BY <1>2, <2>1, GateType, WalkStep, VerdictStep, ExitStep
<1>3. CASE Flap
  <2> USE <1>3 DEF Flap, DeviceChange, loader, arguments, gate, results
  <2>1. TypeOK'
    BY DEF TypeOK, RegistryTypeOK, Loaded, Current
  <2>2. LoaderInv' /\ DefaultInv' /\ DeclinedInv'
    BY DEF LoaderInv, DefaultInv, DeclinedInv, Published, PublishedSoFar
  <2>3. WalkInv' /\ ExitInv'
    BY DEF WalkInv, ExitInv, Loaded
  <2>4. VerdictInv'
    BY DEF VerdictInv
  <2>5. QED
    BY <2>1, <2>2, <2>3, <2>4
<1>4. CASE UNCHANGED vars
  <2>1. UNCHANGED <<registryVars, arguments, flapped, gate>>
    BY <1>4 DEF vars
  <2>2. RegistryTypeOK' /\ LoaderInv' /\ DefaultInv' /\ DeclinedInv'
    BY <2>1, RegistryKept DEF TypeOK
  <2>3. TypeOK'
    BY <2>1, <2>2 DEF TypeOK, arguments, gate, results, registryVars, loader
  <2>4. WalkInv' /\ ExitInv'
    BY <2>1 DEF WalkInv, ExitInv, Loaded, arguments, gate, results, registryVars, loader
  <2>5. VerdictInv'
    <3>1. \A b : IsAvailable(b)' <=> IsAvailable(b)
      BY <2>1, AvailabilityStable
    <3>2. QED
      BY <2>1, <3>1 DEF VerdictInv, arguments, gate, results, registryVars, loader
  <2>6. QED
    BY <2>2, <2>3, <2>4, <2>5
<1>5. QED
  BY <1>1, <1>2, <1>3, <1>4 DEF Next, GateStep

(* The invariant always holds.                                             *)
LEMMA Invariance ==
  Spec => []IInv
  BY InitIInv, NextIInv, PTL DEF Spec

-----------------------------------------------------------------------------
(* The import loop and both gates keep every variable in its type.         *)
THEOREM TypeCorrect ==
  Spec => []TypeOK
  BY Invariance, PTL DEF IInv

(* Every backend has one place in the import order.                        *)
LEMMA PlaceOf ==
  ASSUME NEW b \in Backends, Loaded, TypeOK
  PROVE  \E n \in DOMAIN LoadOrder : LoadOrder[n] = b /\ n < loading
<1>1. PICK n \in DOMAIN LoadOrder : LoadOrder[n] = b
  BY DEF Backends, Range
<1>2. n < loading
  BY LoadAssumption DEF Loaded, TypeOK, RegistryTypeOK
<1>3. QED
  BY <1>1, <1>2

(* However an import breaks (backends/__init__.py catches everything), a   *)
(* backend of which only a part is registered is in IMPORT_ERRORS when the *)
(* package is loaded, for any backends, techniques and import order.       *)
THEOREM HalfRegistrationRecorded ==
  Spec => []HalfRegisteredIsRecorded
<1>1. IInv => HalfRegisteredIsRecorded
  BY PlaceOf DEF IInv, LoaderInv, HalfRegisteredIsRecorded
<1>2. QED
  BY <1>1, Invariance, PTL

(* The technique a call without one is given (get_factory) is one that was *)
(* declared the default, and the only one of its backend that was.         *)
THEOREM DefaultDeclared ==
  Spec => []DefaultIsDeclared
<1>1. IInv => DefaultIsDeclared
  <2> SUFFICES ASSUME IInv, NEW b \in Backends
               PROVE  /\ GetFactory(b, NoDefault) # Error => <<b, GetFactory(b, NoDefault)>> \in marked
                      /\ b \in probes /\ Published(b) # {} =>
                           marked \cap AllTechniques(b) \in {{}, {<<b, GetFactory(b, NoDefault)>>}}
    BY DEF DefaultIsDeclared
  <2> USE DEF IInv
  <2>1. <<b, NoDefault>> \notin registry
    BY TechniqueNames DEF TypeOK, RegistryTypeOK, AllTechniques
  <2>2. GetFactory(b, NoDefault) =
          IF defaults[b] # NoDefault THEN defaults[b] ELSE Error
    BY <2>1 DEF GetFactory, DefaultInv
  <2>3. defaults[b] # NoDefault => <<b, defaults[b]>> \in marked
    BY DEF DefaultInv
  <2>4. ASSUME b \in probes, Published(b) # {}
        PROVE  marked \cap AllTechniques(b) \in {{}, {<<b, GetFactory(b, NoDefault)>>}}
    <3>1. PICK n \in DOMAIN LoadOrder : LoadOrder[n] = b
      BY DEF Backends, Range
    <3>2. n \in Nat /\ loading \in Nat
      BY LoadAssumption DEF TypeOK, RegistryTypeOK
    <3>3. n < loading /\ b \notin importErrors
      BY <2>4, <3>1, <3>2 DEF LoaderInv
    <3>4. Published(b) = AllTechniques(b)
      BY <2>4, <3>1, <3>3 DEF LoaderInv
    <3>5. marked \cap AllTechniques(b) \subseteq {<<b, defaults[b]>>}
      BY <3>3, <3>4 DEF DefaultInv
    <3>6. <<b, NoDefault>> \notin AllTechniques(b)
      BY TechniqueNames DEF AllTechniques
    <3>7. QED
      BY <2>2, <3>5, <3>6
  <2>5. QED
    BY <2>2, <2>3, <2>4
<1>2. QED
  BY <1>1, Invariance, PTL

(* Exit code 0 of scripts/oracle_gate.py means that some kernel was        *)
(* verified, that none failed, and that what was passed over belongs to a  *)
(* backend that was not there.                                             *)
THEOREM GreenEarned ==
  Spec => []GreenIsEarned
<1>1. IInv => GreenIsEarned
  BY DEF IInv, WalkInv, VerdictInv, ExitInv, GreenIsEarned, NotYet
<1>2. QED
  BY <1>1, Invariance, PTL

(* Exit code 0 of `gpufsm verify` means that every technique of every      *)
(* backend that was listed ran and was right.                              *)
THEOREM VerifyComplete ==
  Spec => []VerifyIsComplete
<1>1. IInv => VerifyIsComplete
  <2> SUFFICES ASSUME IInv, exit = 0, command = "verify"
               PROVE  /\ reference
                      /\ ok \subseteq correct
                      /\ \A r \in registry \ ok : flapped \/ ~IsAvailable(r[1])
                      /\ \A b \in Backends : Published(b) \cap ok # {} => Published(b) \subseteq ok
    BY DEF VerifyIsComplete
  <2> USE DEF IInv
  <2>1. registry = ok \cup skipped /\ skipped \cap ok = {}
    BY DEF TypeOK, WalkInv, VerdictInv, ExitInv, NotYet
  <2>2. ASSUME NEW b \in Backends, NEW r \in Published(b) \cap ok, NEW s \in Published(b)
        PROVE  s \in ok
    BY <2>1, <2>2 DEF Published, VerdictInv
  <2>3. QED
    BY <2>1, <2>2 DEF VerdictInv, ExitInv
<1>2. QED
  BY <1>1, Invariance, PTL

(* While the device stays as it is, exit code 0 means that every technique *)
(* of every backend named to --require was verified, except of a backend   *)
(* whose import is on record as broken.                                    *)
THEOREM RequiredCovered ==
  Spec => []GreenCoversRequired
<1>1. IInv => GreenCoversRequired
  <2> SUFFICES ASSUME IInv, exit = 0, ~flapped, NEW b \in required \cap Backends,
                      b \notin importErrors
               PROVE  AllTechniques(b) \subseteq ok
    BY DEF GreenCoversRequired
  <2> USE DEF IInv
  <2>1. /\ asked = Backends /\ missing = {} /\ Loaded
        /\ registry \subseteq ok \cup skipped
    BY DEF WalkInv, ExitInv, NotYet
  <2>2. IsAvailable(b)
    BY <2>1 DEF VerdictInv
  <2>3. Published(b) \subseteq ok
    BY <2>1, <2>2 DEF VerdictInv, Published
  <2>4. CASE Published(b) = AllTechniques(b)
    BY <2>3, <2>4
  <2>5. CASE b \in probes /\ Published(b) = {}
    BY <2>2, <2>5 DEF DeclinedInv, IsAvailable
  <2>6. QED
    BY <2>1, <2>4, <2>5, PlaceOf DEF LoaderInv
<1>2. QED
  BY <1>1, Invariance, PTL
=============================================================================
