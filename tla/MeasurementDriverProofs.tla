---------------------- MODULE MeasurementDriverProofs ----------------------
(***************************************************************************)
(* What the results files hold, for any machines, any grid and any number  *)
(* of runs of each of the ten drivers.                                     *)
(***************************************************************************)
EXTENDS MeasurementDriver, TLAPS

-----------------------------------------------------------------------------
(* The inductive invariant. *)

Pairs == ((0 .. NUnits) \X {0, 1}) \X Backends

FileRecords ==
  [exists : BOOLEAN, whole : BOOLEAN, empty : BOOLEAN,
   gpus : SUBSET Recordable,
   measuredOn : SUBSET (Names \cup UNION {c.measuredOn : c \in Committed})]

(* Where the driver is in its plan.  A driver whose file is named after    *)
(* the device does not get past its guard without a name.                  *)
PlanInv ==
  /\ files \in [Paths -> FileRecords]
  /\ rows \in [FileNames -> SUBSET Pairs]
  /\ pc \in {"plan", "unit", "write", "open"} => ~Missing
  /\ pc = "unit" => stage <= Len(driver.plan) /\ driver.plan[stage][1] = "measure"
  /\ pc \in {"write", "open"} => stage <= Len(driver.plan) /\ driver.plan[stage][1] = "write"

(* What is timed has agreed, or will be compared first. *)
Gate(f, p) == <<f, GatedOn(p[1]), p[2]>>

RowsGated == \A f \in FileNames : \A r \in rows[f] : Gate(f, r) \in agreed

UnitGated(f) ==
  /\ \A p \in toTime : <<GatedOn(p[1]), p[2]>> \in toGate \/ Gate(f, p) \in agreed
  /\ driver.gate = "probe" =>
       /\ toGate \subseteq {Probe} \X Backends
       /\ toGate = {} \/ toTime = {}
       /\ \A b \in usable : <<Probe, b>> \in toGate \/ <<f, Probe, b>> \in agreed

GateInv ==
  driver.gate # "none" => RowsGated /\ (pc = "unit" => UnitGated(File))

(* Until the run ends, a file is only ever cut short between its truncation *)
(* and its rows. *)
WholeOrKept(p) == files[p] = before[p] \/ (files[p].exists /\ files[p].whole)

FilesInv ==
  /\ pc = "open" => \A p \in Paths \ {Path(File)} : WholeOrKept(p)
  /\ pc \notin {"open", "idle"} => \A p \in Paths : WholeOrKept(p)
  /\ LossConfined

(* sweep_techniques knows its context is poisoned only where it aborts,    *)
(* and it writes only after its last measurement.                          *)
SweepInv ==
  driver = SweepTechniques =>
    /\ fault = "known" => pc = "idle" /\ files = before
    /\ pc \in {"guard", "unit"} \/ (pc = "plan" /\ stage = 1) => files = before

(* A driver that writes its file whatever it holds has a row of the first  *)
(* unit of every grid behind it, or is about to measure one.               *)
HasFirst(pairs) == \E q \in pairs : q[1][1] = 1

FirstUnitInv ==
  driver.empty = "write" /\ driver # SweepDfa =>
    /\ usable = Backends
    /\ pc = "unit" /\ unit = 1 => HasFirst(toTime \cup rows[File])
    /\ pc = "unit" /\ unit > 1 => HasFirst(rows[File])
    /\ pc # "idle" => \A k \in 1 .. stage - 1 :
         driver.plan[k][1] = "measure" => rows[driver.plan[k][2]] # {}

(* The other drivers do not begin to write a file without rows.            *)
WriteInv == pc \in {"write", "open"} => rows[File] # {} \/ driver.empty = "write"

(* Whose results the files hold.  A whole file was measured on the devices *)
(* it names, one named after a device on that device, and the outputs of a *)
(* run past its guard are the machine's own, or cut short.                 *)
Recorded(f) ==
  \A name \in f.gpus, m \in Machines :
    LiveName(m) # NoName /\ SameDevice(name, LiveName(m)) => m.gpu \in f.measuredOn

OutputOwned(f) ==
  \/ ~files[Path(f)].whole
  \/ files[Path(f)].gpus = {}
  \/ run.machine.gpu \in files[Path(f)].measuredOn
  \/ OutOfReach

OwnerInv ==
  /\ \A p \in Paths : files[p].whole => Recorded(files[p])
  /\ \A f \in FileNames, n \in Names \ {<<>>} :
       files[<<f, n>>].gpus = {} \/ n \in files[<<f, n>>].measuredOn
  /\ pc \in {"plan", "unit", "write"} => \A f \in Outputs : OutputOwned(f)
  /\ pc = "open" => /\ files[Path(File)].gpus = {}
                    /\ \A f \in Outputs \ {File} : OutputOwned(f)

IInv ==
  /\ TypeOK
  /\ PlanInv
  /\ GateInv
  /\ FilesInv
  /\ SweepInv
  /\ FirstUnitInv
  /\ WriteInv
  /\ OnlyDfaSweepErases

-----------------------------------------------------------------------------
(* The drivers. *)

(* Every plan is a sequence of measurements and writes of named files, and *)
(* a file is measured once, before it is written.                          *)
LEMMA Plans ==
  ASSUME NEW d \in Drivers
  PROVE  /\ Len(d.plan) \in Nat /\ DOMAIN d.plan = 1 .. Len(d.plan)
         /\ \A k \in 1 .. Len(d.plan) :
              d.plan[k][1] \in {"measure", "write"} /\ d.plan[k][2] \in FileNames
         /\ \A k \in 1 .. Len(d.plan) : d.plan[k][1] = "write" =>
              \E j \in 1 .. k - 1 : d.plan[j][1] = "measure" /\ d.plan[j][2] = d.plan[k][2]
         /\ \A k \in 1 .. Len(d.plan), j \in 1 .. Len(d.plan) :
              j < k /\ d.plan[j][1] = "measure" /\ d.plan[k][1] = "measure" =>
                d.plan[j][2] # d.plan[k][2]
<1>1. d.plan \in {OneFile, BenchWorklistWarp.plan, SecondGpu.plan}
  <2>1. /\ Usual.plan = OneFile /\ DfaLatchControl.plan = OneFile
        /\ RegretMultiseed.plan = OneFile /\ SweepDfa.plan = OneFile
        /\ SweepTechniques.plan = OneFile /\ RunAnmlzoo.plan = OneFile
        /\ AblateScalarControl.plan = OneFile /\ CliSweep.plan = OneFile
    BY DEF Usual, DfaLatchControl, RegretMultiseed, SweepDfa, SweepTechniques,
           RunAnmlzoo, AblateScalarControl, CliSweep
  <2>2. QED
    BY <2>1 DEF Drivers, BenchWorklistShared
<1>2. CASE d.plan = OneFile
  BY <1>2 DEF OneFile, FileNames
<1>3. CASE d.plan = BenchWorklistWarp.plan
  <2>1. d.plan = <<<<"measure", "batch">>, <<"measure", "main">>,
                   <<"write", "main">>, <<"write", "batch">>>>
    BY <1>3 DEF BenchWorklistWarp, Usual
  <2>2. QED
    BY <2>1 DEF FileNames
<1>4. CASE d.plan = SecondGpu.plan
  <2>1. d.plan = <<<<"measure", "main">>, <<"write", "main">>,
                   <<"measure", "dfa">>, <<"write", "dfa">>>>
    BY <1>4 DEF SecondGpu, Usual
  <2>2. QED
    BY <2>1 DEF FileNames
<1>5. QED
  BY <1>1, <1>2, <1>3, <1>4

(* What the drivers have in common, and which of them goes its own way.    *)
Typical(d) ==
  /\ d.guards \in BOOLEAN
  /\ d.seeds \subseteq {0, 1}
  /\ d.lenient \in Nat /\ d.lenient >= 2
  /\ d.gate \in {"own", "seed", "probe", "none"}
  /\ d.naming \in {"canonical", "slug", "slug or out"}
  /\ d.fails \in {"raise", "skip", "exclude"}
  /\ d.differs \in {"raise", "skip", "exclude"}
  /\ d.column \in {"name", "none"}
  /\ d.naming # "canonical" => d.needs = "name" /\ ~d.guards
  /\ d.naming = "slug" => d.column = "none"
  /\ d.gate = "probe" <=> d.fails = "exclude"
  /\ d.gate = "probe" <=> d.differs = "exclude"
  /\ d.gate = "probe" => d.lenient = NUnits + 1 /\ d.empty = "omit"
  /\ d.fails = "skip" => d.lenient = NUnits + 1 /\ d.gate = "own" /\ d.empty = "exit"

Peculiar(d) ==
  /\ d.naming = "slug or out" => d = RunAnmlzoo
  /\ d.naming = "canonical" /\ ~d.guards => d = CliSweep
  /\ d.differs = "skip" => d = SweepDfa

(* What the proofs know of each driver, one driver after the other.        *)
LEMMA DriverFacts ==
  ASSUME NEW d \in Drivers
  PROVE  Typical(d) /\ Peculiar(d)
<1>1. Typical(Usual) /\ Peculiar(Usual)
  BY DriverAssumption DEF Usual, Typical, Peculiar
<1>2. Typical(DfaLatchControl) /\ Peculiar(DfaLatchControl)
  BY DriverAssumption DEF Usual, Typical, Peculiar, DfaLatchControl
<1>3. Typical(RegretMultiseed) /\ Peculiar(RegretMultiseed)
  BY DriverAssumption DEF Usual, Typical, Peculiar, RegretMultiseed
<1>4. Typical(SweepDfa) /\ Peculiar(SweepDfa)
  BY DriverAssumption DEF Usual, Typical, Peculiar, SweepDfa
<1>5. Typical(SweepTechniques) /\ Peculiar(SweepTechniques)
  BY DriverAssumption DEF Usual, Typical, Peculiar, SweepTechniques
<1>6. Typical(BenchWorklistWarp) /\ Peculiar(BenchWorklistWarp)
  BY DriverAssumption DEF Usual, Typical, Peculiar, BenchWorklistWarp
<1>7. Typical(RunAnmlzoo) /\ Peculiar(RunAnmlzoo)
  BY DriverAssumption DEF Usual, Typical, Peculiar, RunAnmlzoo
<1>8. Typical(SecondGpu) /\ Peculiar(SecondGpu)
  BY DriverAssumption DEF Usual, Typical, Peculiar, SecondGpu
<1>9. Typical(AblateScalarControl) /\ Peculiar(AblateScalarControl)
  BY DriverAssumption DEF Usual, Typical, Peculiar, AblateScalarControl
<1>10. Typical(CliSweep) /\ Peculiar(CliSweep)
  BY DriverAssumption DEF Usual, Typical, Peculiar, CliSweep
<1>11. QED
  BY <1>1, <1>2, <1>3, <1>4, <1>5, <1>6, <1>7, <1>8, <1>9, <1>10
     DEF Drivers, BenchWorklistShared

(* How sweep_techniques differs from the others.                           *)
LEMMA SweepTechniquesFacts ==
  /\ SweepTechniques.plan = OneFile
  /\ SweepTechniques.lenient = NUnits + 1
  /\ SweepTechniques.fails = "skip" /\ SweepTechniques.differs = "raise"
  BY DEF SweepTechniques, Usual

-----------------------------------------------------------------------------
(* Files and paths. *)

(* A machine has a name of its own or none, and none is a place.           *)
LEMMA NamesAreNotPlaces ==
  ASSUME NEW m \in Machines
  PROVE  /\ LiveName(m) \in Names \cup {NoName}
         /\ LiveName(m) # NoName => LiveName(m) = m.gpu /\ m.gpu # <<>>
         /\ m.gpu \notin {<<"canonical">>, <<"elsewhere">>, NoName}
<1>1. m.gpu = <<>> \/ Len(m.gpu) > 1
  BY DriverAssumption
<1>2. m.gpu \notin {<<"canonical">>, <<"elsewhere">>, <<"none">>}
  <2>1. \A w : Len(<<w>>) = 1
    OBVIOUS
  <2>2. \A w : <<>> # <<w>>
    OBVIOUS
  <2>3. \A w : m.gpu # <<w>>
    <3> SUFFICES ASSUME NEW w, m.gpu = <<w>>
                 PROVE  FALSE
      OBVIOUS
    <3>1. Len(m.gpu) = 1 /\ m.gpu # <<>>
      BY <2>1, <2>2
    <3>2. QED
      BY <1>1, <3>1
  <2>4. QED
    BY <2>3
<1>3. QED
  BY <1>2 DEF LiveName, Names, NoName

(* The file a stage is about is one of the driver's outputs. *)
LEMMA FileIsOutput ==
  ASSUME TypeOK, stage <= Len(driver.plan)
  PROVE  /\ stage \in 1 .. Len(driver.plan)
         /\ File \in FileNames /\ File \in Outputs
         /\ Outputs \subseteq FileNames
<1>1. driver \in Drivers /\ stage \in 1 .. Len(driver.plan)
  BY Plans DEF TypeOK
<1>2. QED
  BY <1>1, Plans DEF File, Outputs

(* Past the guard every output has a path, and no two the same.            *)
LEMMA PathIsPlace ==
  ASSUME TypeOK, ~Missing, NEW f \in FileNames
  PROVE  /\ Path(f) \in Paths
         /\ \A g : Path(g) = Path(f) => g = f
<1>1. driver \in Drivers /\ run.machine \in Machines
  BY DEF TypeOK
<1>2. Typical(driver)
  BY <1>1, DriverFacts
<1>3. driver.naming # "canonical" => LiveName(run.machine) \in Names
  BY <1>1, <1>2, NamesAreNotPlaces DEF Missing, Typical
<1>4. CASE driver.naming = "slug"
  BY <1>3, <1>4 DEF Path, Paths, Places
<1>5. CASE driver.naming = "slug or out" /\ ~run.explicit
  BY <1>3, <1>5 DEF Path, Paths, Places
<1>6. CASE driver.naming = "slug or out" /\ run.explicit
  BY <1>6 DEF Path, Paths, Places
<1>7. CASE driver.naming = "canonical"
  BY <1>7 DEF Path, Paths, Places
<1>8. QED
  BY <1>2, <1>4, <1>5, <1>6, <1>7 DEF Typical

(* A gated automaton is one of the grid. *)
LEMMA GatedOnAutomaton ==
  ASSUME NEW a \in (0 .. NUnits) \X {0, 1}, driver \in Drivers, driver.gate # "none"
  PROVE  GatedOn(a) \in (0 .. NUnits) \X {0, 1}
<1>1. driver.gate \in {"own", "seed", "probe"}
  BY DriverFacts DEF Typical
<1>2. NUnits \in Nat
  BY DriverAssumption
<1>3. CASE driver.gate = "own"
  BY <1>3 DEF GatedOn
<1>4. CASE driver.gate = "seed"
  BY <1>4 DEF GatedOn
<1>5. CASE driver.gate = "probe"
  BY <1>2, <1>5 DEF GatedOn, Probe
<1>6. QED
  BY <1>1, <1>3, <1>4, <1>5

-----------------------------------------------------------------------------
(* The steps, by what they leave alone. *)

(* The process ends where it stands. *)
Leaving ==
  /\ pc \notin {"idle", "open"}
  /\ \E how \in {"raised", "exit 0", "exit 1", "OSError", "crashed"} : Leave(how)
  /\ UNCHANGED files

(* It stays in the unit. *)
Measuring ==
  \/ BeginUnit
  \/ \E p \in toGate : Agree(p)
  \/ \E p \in toGate : Disagree(p) /\ pc' = "unit"
  \/ \E p \in toGate \cup toTime : Fail(p)
  \/ \E p \in toTime : Measure(p)

(* It moves on in its plan. *)
Omit ==
  /\ Writing /\ NoRows /\ driver.empty = "omit"
  /\ stage' = stage + 1
  /\ UNCHANGED <<driver, run, pc, unit, toGate, toTime, usable, agreed, rows, fault,
                 before, outcome, runs, files>>

(* The steps of a driver, grouped by what they may change.                 *)
LEMMA Steps ==
  ASSUME TypeOK, Next
  PROVE  \/ \E m \in Machines, explicit \in BOOLEAN : Start(m, explicit)
         \/ Leaving \/ Proceed \/ BeginStage \/ Measuring \/ FinishStage \/ Abort
         \/ Omit \/ BeginWrite \/ Open \/ WriteRows \/ BreakOff
<1>1. ASSUME Refuse \/ SkipRun \/ AllDegenerate \/ Raise \/ OnlyPrint \/ RefuseRow \/ OpenFails \/ Finish
      PROVE  Leaving
  BY <1>1 DEF Refuse, SkipRun, AllDegenerate, Raise, OnlyPrint, RefuseRow, OpenFails, Finish,
              Leaving, UnitDone, Writing
<1>2. ASSUME Crash
      PROVE  Leaving
  BY <1>2 DEF Crash, Leaving
<1>3. ASSUME NothingToWrite
      PROVE  Leaving \/ Omit
  BY <1>3 DEF NothingToWrite, Leaving, Omit, Writing
<1>4. ASSUME NEW p \in toGate, Disagree(p)
      PROVE  Leaving \/ pc' = "unit"
  BY <1>4 DEF Disagree, Leaving
<1>5. QED
  BY <1>1, <1>2, <1>3, <1>4 DEF Next, Measuring

(* A write that breaks off ends the run. *)
LEMMA BrokenOff ==
  ASSUME BreakOff
  PROVE  /\ pc = "open" /\ pc' = "idle" /\ NothingCollected
         /\ outcome' \in {"OSError", "crashed"} \/ driver' = CliSweep
         /\ UNCHANGED <<driver, run, fault, before, runs>>
         /\ \E names \in CutColumns : files' = [files EXCEPT ![Path(File)] = CutShort(names)]
  BY DEF BreakOff, Leave

(* A disagreement that does not end the run drops the unit, the backend or *)
(* what is left of the stage.                                              *)
LEMMA DisagreeKeeps ==
  ASSUME TypeOK, NEW p, Disagree(p), pc' = "unit"
  PROVE  /\ p \in toGate
         /\ \/ /\ driver.differs = "skip"
               /\ DropUnit /\ UNCHANGED <<unit, usable>>
            \/ /\ driver.differs = "exclude"
               /\ usable' = usable \ {p[2]}
               /\ toGate' = toGate \ {p}
               /\ UNCHANGED <<unit, toTime, rows>>
            \/ /\ Lenient
               /\ EndStage /\ UNCHANGED usable
         /\ UNCHANGED <<driver, run, pc, stage, agreed, fault, before, outcome, runs>>
<1>1. Typical(driver)
  BY DriverFacts DEF TypeOK
<1>2. ~Leave("raised")
  BY DEF Leave
<1>3. ~(driver.differs = "raise" /\ ~Lenient)
  BY <1>2 DEF Disagree
<1>4. QED
  BY <1>1, <1>3 DEF Disagree, Typical

(* What a step inside a unit leaves alone, and what it may take away.      *)
LEMMA MeasuringKeeps ==
  ASSUME TypeOK, PlanInv, Measuring
  PROVE  /\ pc = "unit" /\ pc' = "unit"
         /\ UNCHANGED <<driver, files, run, stage, before, outcome, runs>>
         /\ File' = File
<1> DEFINE Kept ==
      pc = "unit" /\ pc' = "unit" /\ UNCHANGED <<driver, files, run, stage, before, outcome, runs>>
<1>1. Kept
  <2>1. CASE BeginUnit
    BY <2>1 DEF BeginUnit, UnitDone
  <2>2. ASSUME NEW p \in toGate, Agree(p)
        PROVE  Kept
    BY <2>2 DEF Agree
  <2>3. ASSUME NEW p \in toGate, Disagree(p), pc' = "unit"
        PROVE  Kept
    BY <2>3 DEF Disagree, Leave
  <2>4. ASSUME NEW p, Fail(p)
        PROVE  Kept
    BY <2>4 DEF Fail
  <2>5. ASSUME NEW p, Measure(p)
        PROVE  Kept
    BY <2>5 DEF Measure
  <2>6. QED
    BY <2>1, <2>2, <2>3, <2>4, <2>5 DEF Measuring
<1>2. QED
  BY <1>1 DEF File

-----------------------------------------------------------------------------
(* Types and the place in the plan. *)

(* The pairs of a unit are pairs of the grid. *)
LEMMA UnitPairs ==
  ASSUME TypeOK, PlanInv, BeginUnit
  PROVE  toGate' \cup toTime' \subseteq Pairs /\ unit' \in 0 .. NUnits
<1>1. unit \in 0 .. NUnits /\ unit # NUnits /\ NUnits \in Nat
  BY DriverAssumption DEF TypeOK, BeginUnit, StageOver
<1>2. unit + 1 \in 0 .. NUnits
  BY <1>1
<1>3. driver \in Drivers /\ driver.seeds \subseteq {0, 1} /\ usable \subseteq Backends
  BY DriverFacts DEF TypeOK, Typical
<1>4. PICK kept \in SUBSET Automata(unit + 1) : toTime' = kept \X usable
  BY DEF BeginUnit
<1>5. kept \subseteq (0 .. NUnits) \X {0, 1}
  BY <1>2, <1>3 DEF Automata
<1>6. toTime' \subseteq Pairs
  BY <1>3, <1>4, <1>5 DEF Pairs
<1>7. toGate' \subseteq Pairs
  <2>1. CASE driver.gate \in {"own", "seed"}
    <3>1. toGate' = {<<GatedOn(p[1]), p[2]>> : p \in toTime'}
      BY <2>1 DEF BeginUnit
    <3>2. \A p \in toTime' : p[1] \in (0 .. NUnits) \X {0, 1} /\ p[2] \in Backends
      BY <1>6 DEF Pairs
    <3>3. \A p \in toTime' : GatedOn(p[1]) \in (0 .. NUnits) \X {0, 1}
      BY <1>3, <2>1, <3>2, GatedOnAutomaton
    <3>4. QED
      BY <3>1, <3>2, <3>3 DEF Pairs
  <2>2. CASE driver.gate \notin {"own", "seed"}
    BY <2>2 DEF BeginUnit
  <2>3. QED
    BY <2>1, <2>2
<1>8. QED
  BY <1>2, <1>6, <1>7 DEF BeginUnit

(* Types of what a measurement changes.                                    *)
LEMMA MeasuringType ==
  ASSUME TypeOK, PlanInv, Measuring
  PROVE  /\ toGate' \cup toTime' \subseteq Pairs
         /\ unit' \in 0 .. NUnits
         /\ usable' \subseteq usable
         /\ fault' \in {"none", "known", "other"}
         /\ rows' \in [FileNames -> SUBSET Pairs]
<1> DEFINE Typed == /\ toGate' \cup toTime' \subseteq Pairs
                    /\ unit' \in 0 .. NUnits
                    /\ usable' \subseteq usable
                    /\ fault' \in {"none", "known", "other"}
                    /\ rows' \in [FileNames -> SUBSET Pairs]
<1>0. /\ File \in FileNames /\ toGate \cup toTime \subseteq Pairs /\ rows \in [FileNames -> SUBSET Pairs]
      /\ unit \in 0 .. NUnits /\ NUnits \in 0 .. NUnits /\ fault \in {"none", "known", "other"}
  BY MeasuringKeeps, FileIsOutput, DriverAssumption DEF TypeOK, PlanInv, Pairs
<1>1. ASSUME DropUnit
      PROVE  toGate' \cup toTime' \subseteq Pairs /\ rows' \in [FileNames -> SUBSET Pairs]
  BY <1>0, <1>1 DEF DropUnit
<1>2. CASE BeginUnit
  <2>1. UNCHANGED <<usable, fault, rows>>
    BY <1>2 DEF BeginUnit
  <2>2. QED
    BY <1>0, <1>2, <2>1, UnitPairs
<1>3. ASSUME NEW p \in toGate, Agree(p)
      PROVE  Typed
  BY <1>0, <1>3 DEF Agree
<1>4. ASSUME NEW p \in toGate, Disagree(p), pc' = "unit"
      PROVE  Typed
  <2>1. UNCHANGED fault
    BY <1>4 DEF Disagree, Leave
  <2>2. \/ DropUnit /\ UNCHANGED <<unit, usable>>
        \/ /\ usable' = usable \ {p[2]}
           /\ toGate' = toGate \ {p}
           /\ UNCHANGED <<unit, toTime, rows>>
        \/ EndStage /\ UNCHANGED usable
    BY <1>4, DisagreeKeeps
  <2>3. QED
    BY <1>0, <1>1, <2>1, <2>2 DEF EndStage
<1>5. ASSUME NEW p, Fail(p)
      PROVE  Typed
  BY <1>0, <1>1, <1>5 DEF Fail, EndStage, DropPair, Faults
<1>6. ASSUME NEW p \in toTime, Measure(p)
      PROVE  Typed
  BY <1>0, <1>6 DEF Measure
<1>7. QED
  BY <1>2, <1>3, <1>4, <1>5, <1>6 DEF Measuring

(* What a file cut short names can be recorded. *)
LEMMA CutRecords ==
  ASSUME TypeOK, NEW names \in CutColumns
  PROVE  CutShort(names) \in FileRecords
<1>1. run.machine \in Machines /\ run.machine.gpu \in Names
  BY DEF TypeOK, Names
<1>2. DeviceColumn \subseteq Names \cup {NoName, <<>>}
  BY <1>1, NamesAreNotPlaces DEF DeviceColumn
<1>3. ASSUME NEW n \in DeviceColumn
      PROVE  Cuts(n) \subseteq Recordable
  <2>1. CASE n = <<>>
    BY <2>1 DEF Cuts
  <2>2. CASE n \in Names \cup {NoName}
    BY <2>2 DEF Recordable
  <2>3. QED
    BY <1>2, <2>1, <2>2
<1>4. DeviceColumn \subseteq Recordable
  BY <1>2 DEF Recordable
<1>5. names \subseteq Recordable
  BY <1>3, <1>4 DEF CutColumns
<1>6. QED
  BY <1>1, <1>5 DEF CutShort, Truncated, FileRecords

(* What is written is a file like the committed ones: cut short, or whole. *)
LEMMA WrittenFile ==
  ASSUME TypeOK, PlanInv, Open \/ WriteRows \/ BreakOff
  PROVE  /\ \E record \in FileRecords :
              files' = [files EXCEPT ![Path(File)] = record]
         /\ files' \in [Paths -> FileRecords]
         /\ Path(File) \in Paths /\ File \in FileNames
<1>1. pc \in {"write", "open"}
  BY DEF Open, WriteRows, BreakOff
<1>2. File \in FileNames /\ Path(File) \in Paths
  BY <1>1, FileIsOutput, PathIsPlace DEF PlanInv
<1>3. PICK record \in FileRecords : files' = [files EXCEPT ![Path(File)] = record]
  <2>1. CASE Open
    <3>1. Truncated \in FileRecords
      BY DEF Truncated, FileRecords
    <3>2. QED
      BY <2>1, <3>1 DEF Open
  <2>2. CASE WriteRows
    <3> DEFINE written == [exists |-> TRUE, whole |-> TRUE,
                           gpus |-> IF NoRows THEN {} ELSE DeviceColumn,
                           measuredOn |-> IF NoRows THEN {} ELSE {run.machine.gpu},
                           empty |-> NoRows]
    <3>1. run.machine \in Machines
      BY DEF TypeOK
    <3>2. DeviceColumn \subseteq Names \cup {NoName, <<>>}
      BY <3>1, NamesAreNotPlaces DEF DeviceColumn
    <3>3. run.machine.gpu \in Names
      BY <3>1 DEF Names
    <3>4. NoRows \in BOOLEAN
      BY DEF NoRows
    <3>5. written \in FileRecords
      BY <3>2, <3>3, <3>4 DEF FileRecords, Recordable
    <3>6. QED
      BY <2>2, <3>5 DEF WriteRows
  <2>3. CASE BreakOff
    BY <2>3, BrokenOff, CutRecords
  <2>4. QED
    BY <2>1, <2>2, <2>3
<1>4. QED
  BY <1>2, <1>3 DEF PlanInv

(* The files of TypeOK. *)
LEMMA FilesTyped ==
  ASSUME NEW fs \in [Paths -> FileRecords], NEW p \in Paths
  PROVE  /\ fs[p].gpus \subseteq Recordable
         /\ {fs[p].exists, fs[p].whole, fs[p].empty} \subseteq BOOLEAN
  BY DEF FileRecords

(* Each step keeps the types and the plan of the driver that runs.         *)
LEMMA StepType ==
  ASSUME TypeOK, PlanInv, Next
  PROVE  TypeOK' /\ PlanInv'
<1> USE DEF progress
<1>0. /\ driver \in Drivers /\ Len(driver.plan) \in Nat
      /\ NUnits \in Nat /\ MaxRuns \in Nat
      /\ Probe \in (0 .. NUnits) \X {0, 1}
      /\ stage \in 1 .. Len(driver.plan) + 1
  BY Plans, DriverAssumption DEF TypeOK, Probe
<1>1. \A p \in Paths :
        /\ files[p].gpus \subseteq Recordable
        /\ {files[p].exists, files[p].whole, files[p].empty} \subseteq BOOLEAN
  BY FilesTyped DEF PlanInv
<1>2. ASSUME NEW m \in Machines, NEW explicit \in BOOLEAN, Start(m, explicit)
      PROVE  TypeOK' /\ PlanInv'
  <2>1. runs' \in 0 .. MaxRuns
    BY <1>0, <1>2 DEF Start, TypeOK
  <2>2. rows' \in [FileNames -> SUBSET Pairs]
    BY <1>2 DEF Start, NothingCollected
  <2>3. run'.machine \in Machines
    BY <1>2 DEF Start
  <2>4. pc' = "guard" /\ UNCHANGED <<driver, files>>
    BY <1>2 DEF Start
  <2>5. TypeOK'
    BY <1>0, <1>2, <2>1, <2>3 DEF TypeOK, Start, NothingCollected
  <2>6. QED
    BY <2>2, <2>4, <2>5 DEF PlanInv
<1>a. ASSUME pc' = "idle", NothingCollected, UNCHANGED <<driver, run, runs>>,
             fault' \in {"none", "known", "other"}, files' \in [Paths -> FileRecords]
      PROVE  TypeOK' /\ PlanInv'
  <2>1. rows' \in [FileNames -> SUBSET Pairs]
    BY <1>a DEF NothingCollected
  <2>2. TypeOK'
    BY <1>0, <1>a, FilesTyped DEF TypeOK, NothingCollected
  <2>3. QED
    BY <1>a, <2>1, <2>2 DEF PlanInv
<1>3. CASE Leaving \/ Abort
  <2>1. /\ pc' = "idle" /\ NothingCollected /\ UNCHANGED <<driver, run, runs, files>>
        /\ fault' \in {fault, "known"}
    BY <1>3 DEF Leaving, Leave, Abort
  <2>2. QED
    BY <1>a, <2>1 DEF TypeOK, PlanInv
<1>4. CASE Proceed
  <2>1. pc' = "plan" /\ ~Missing /\ UNCHANGED <<driver, files, run, progress, before, runs>>
    BY <1>4 DEF Proceed
  <2>2. QED
    BY <2>1 DEF TypeOK, PlanInv, Missing
<1>5. CASE BeginStage
  <2>1. toGate' \cup toTime' \subseteq Pairs
    BY <1>0, <1>5 DEF BeginStage, Pairs
  <2>2. TypeOK'
    BY <1>0, <1>5, <2>1 DEF TypeOK, BeginStage, Pairs
  <2>3. PlanInv'
    BY <1>5 DEF PlanInv, BeginStage, Missing
  <2>4. QED
    BY <2>2, <2>3
<1>6. CASE Measuring
  <2>1. /\ pc = "unit" /\ pc' = "unit"
        /\ UNCHANGED <<driver, files, run, stage, before, outcome, runs>>
    BY <1>6, MeasuringKeeps
  <2>2. TypeOK'
    BY <1>6, <2>1, MeasuringType DEF TypeOK, Pairs
  <2>3. PlanInv'
    BY <1>6, <2>1, MeasuringType DEF PlanInv, Missing
  <2>4. QED
    BY <2>2, <2>3
<1>7. CASE FinishStage
  <2>1. /\ pc = "unit" /\ pc' = "plan" /\ stage' = stage + 1
        /\ UNCHANGED <<driver, files, run, unit, toGate, toTime, usable, agreed, rows,
                       fault, before, outcome, runs>>
    BY <1>7 DEF FinishStage, UnitDone
  <2>2. stage' \in 1 .. Len(driver.plan) + 1
    BY <1>0, <2>1 DEF PlanInv
  <2>3. QED
    BY <2>1, <2>2 DEF TypeOK, PlanInv, Missing
<1>8. CASE BreakOff
  BY <1>a, <1>8, BrokenOff, WrittenFile DEF TypeOK
<1>9. CASE Omit
  <2>1. stage' \in 1 .. Len(driver.plan) + 1
    BY <1>0, <1>9 DEF Omit, Writing
  <2>2. TypeOK'
    BY <1>9, <2>1 DEF Omit, TypeOK
  <2>3. PlanInv'
    BY <1>9 DEF Omit, Writing, PlanInv, Missing
  <2>4. QED
    BY <2>2, <2>3
<1>10. CASE BeginWrite
  <2>1. /\ pc' = "write" /\ Writing
        /\ UNCHANGED <<driver, files, run, progress, before, outcome, runs>>
    BY <1>10 DEF BeginWrite
  <2>2. QED
    BY <2>1 DEF TypeOK, PlanInv, Writing, Missing
<1>11. CASE Open
  <2>1. /\ pc = "write" /\ pc' = "open"
        /\ UNCHANGED <<driver, run, progress, before, outcome, runs>>
    BY <1>11 DEF Open
  <2>2. files' \in [Paths -> FileRecords]
    BY <1>11, WrittenFile
  <2>3. TypeOK'
    BY <2>1, <2>2, FilesTyped DEF TypeOK
  <2>4. PlanInv'
    BY <2>1, <2>2 DEF PlanInv, Missing
  <2>5. QED
    BY <2>3, <2>4
<1>12. CASE WriteRows
  <2>1. /\ pc = "open" /\ pc' = "plan" /\ stage' = stage + 1
        /\ UNCHANGED <<driver, run, unit, toGate, toTime, usable, agreed, rows,
                       fault, before, outcome, runs>>
    BY <1>12 DEF WriteRows
  <2>2. files' \in [Paths -> FileRecords]
    BY <1>12, WrittenFile
  <2>3. stage' \in 1 .. Len(driver.plan) + 1
    BY <1>0, <2>1 DEF PlanInv
  <2>4. TypeOK'
    BY <2>1, <2>2, <2>3, FilesTyped DEF TypeOK
  <2>5. PlanInv'
    BY <2>1, <2>2 DEF PlanInv, Missing
  <2>6. QED
    BY <2>4, <2>5
<1>13. QED
  BY <1>2, <1>3, <1>4, <1>5, <1>6, <1>7, <1>8, <1>9, <1>10, <1>11, <1>12, Steps

-----------------------------------------------------------------------------
(* Nothing is measured ungated. *)

(* A step in a unit keeps GateInv: a comparison turns a pair that waits    *)
(* into one that agreed, what is dropped takes its measurements along, and *)
(* only pairs that agreed get a row.                                       *)
LEMMA MeasuringGated ==
  ASSUME TypeOK, PlanInv, RowsGated, NEW f, f = File, UnitGated(f), Measuring,
         driver.gate # "none"
  PROVE  RowsGated' /\ UnitGated(f)'
<1>0. /\ f \in FileNames /\ UNCHANGED driver /\ Typical(driver) /\ Peculiar(driver)
      /\ toGate \cup toTime \subseteq Pairs
      /\ rows \in [FileNames -> SUBSET Pairs]
      /\ unit \in 0 .. NUnits /\ NUnits \in Nat
  BY MeasuringKeeps, FileIsOutput, DriverFacts, DriverAssumption DEF TypeOK, PlanInv, Pairs
<1>a. driver.gate = "probe" \/ driver.fails = "skip" => ~(unit >= driver.lenient)
  <2>1. driver.gate = "probe" \/ driver.fails = "skip" => driver.lenient = NUnits + 1
    BY <1>0 DEF Typical
  <2>2. QED
    BY <1>0, <2>1
<1>1. \A a : GatedOn(a)' = GatedOn(a)
  BY <1>0 DEF GatedOn
<1>2. ASSUME DropUnit, agreed' = agreed, usable' \subseteq usable, driver.gate # "probe"
      PROVE  RowsGated' /\ UnitGated(f)'
  <2>1. \A g \in FileNames : rows'[g] \subseteq rows[g]
    BY <1>0, <1>2 DEF DropUnit
  <2>2. RowsGated'
    BY <1>1, <1>2, <2>1 DEF RowsGated, Gate
  <2>3. QED
    BY <1>0, <1>2, <2>2 DEF UnitGated, DropUnit
<1>3. ASSUME NEW p \in toGate, driver.gate = "probe",
             usable' = usable \ {p[2]}, toGate' = toGate \ {p},
             UNCHANGED <<toTime, rows, agreed>>
      PROVE  RowsGated' /\ UnitGated(f)'
  <2>1. p = <<Probe, p[2]>> /\ toTime = {}
    BY <1>3 DEF UnitGated
  <2>2. RowsGated'
    BY <1>1, <1>3 DEF RowsGated, Gate
  <2>3. QED
    BY <1>0, <1>3, <2>1, <2>2 DEF UnitGated, Probe
<1>4. CASE BeginUnit
  <2>1. /\ toGate = {} /\ UNCHANGED <<rows, agreed, usable>>
        /\ toGate' = IF driver.gate \in {"own", "seed"}
                       THEN {<<GatedOn(p[1]), p[2]>> : p \in toTime'} ELSE {}
    BY <1>4 DEF BeginUnit, UnitDone
  <2>2. RowsGated'
    BY <1>1, <2>1 DEF RowsGated, Gate
  <2>3. CASE driver.gate \in {"own", "seed"}
    BY <1>0, <1>1, <2>1, <2>2, <2>3 DEF UnitGated
  <2>4. CASE driver.gate = "probe"
    <3>1. \A b \in usable : <<f, Probe, b>> \in agreed
      BY <2>1, <2>4 DEF UnitGated
    <3>2. \A p \in toTime' : p[2] \in usable
      BY <1>4 DEF BeginUnit
    <3>3. \A p \in toTime' : Gate(f, p)' \in agreed
      BY <1>1, <2>4, <3>1, <3>2 DEF Gate, GatedOn
    <3>4. QED
      BY <1>0, <1>1, <2>1, <2>2, <2>4, <3>1, <3>3 DEF UnitGated, Gate, Probe
  <2>5. QED
    BY <1>0, <2>3, <2>4 DEF Typical
<1>5. ASSUME NEW p \in toGate, Agree(p)
      PROVE  RowsGated' /\ UnitGated(f)'
  <2>1. /\ toGate' = toGate \ {p} /\ agreed' = agreed \cup {<<f, p[1], p[2]>>}
        /\ UNCHANGED <<toTime, usable, rows>>
    BY <1>5 DEF Agree
  <2>2. RowsGated'
    BY <1>1, <2>1 DEF RowsGated, Gate
  <2>3. \A q \in toTime : <<GatedOn(q[1]), q[2]>> = p => Gate(f, q) \in agreed'
    BY <2>1 DEF Gate
  <2>4. \A b \in usable : <<Probe, b>> = p => <<f, Probe, b>> \in agreed'
    BY <2>1
  <2>5. QED
    BY <1>0, <1>1, <2>1, <2>2, <2>3, <2>4 DEF UnitGated, Gate, Probe
<1>6. ASSUME NEW p \in toGate, Disagree(p), pc' = "unit"
      PROVE  RowsGated' /\ UnitGated(f)'
  <2>1. agreed' = agreed
    BY <1>6, DisagreeKeeps
  <2>2. CASE driver.gate = "probe"
    <3>1. ~Lenient
      BY <1>a, <2>2 DEF Lenient
    <3>2. usable' = usable \ {p[2]} /\ toGate' = toGate \ {p} /\ UNCHANGED <<toTime, rows>>
      BY <1>0, <1>6, <2>2, <3>1, DisagreeKeeps DEF Typical
    <3>3. QED
      BY <1>3, <2>1, <2>2, <3>2
  <2>3. CASE driver.gate # "probe"
    <3>1. DropUnit /\ usable' = usable
      BY <1>0, <1>6, <2>3, DisagreeKeeps DEF Typical, EndStage
    <3>2. QED
      BY <1>2, <2>1, <2>3, <3>1
  <2>4. QED
    BY <2>2, <2>3
<1>7. ASSUME NEW p \in toGate \cup toTime, Fail(p)
      PROVE  RowsGated' /\ UnitGated(f)'
  <2>1. agreed' = agreed
    BY <1>7 DEF Fail
  <2>2. CASE driver.fails = "skip"
    <3>a. ~Lenient
      BY <1>a, <2>2 DEF Lenient
    <3>0. DropPair(p) /\ UNCHANGED <<unit, usable, rows>>
      BY <1>7, <2>2, <3>a DEF Fail
    <3>1. /\ toGate' = toGate \ {p} /\ toTime' = toTime \ {p}
          /\ UNCHANGED <<usable, rows>>
      BY <3>0 DEF DropPair
    <3>2. \A q \in Pairs : <<GatedOn(q[1]), q[2]>> = q
      <4>1. driver.gate = "own"
        BY <1>0, <2>2 DEF Typical
      <4>2. \A a : GatedOn(a) = a
        BY <4>1 DEF GatedOn
      <4>3. QED
        BY <4>2 DEF Pairs
    <3>3. RowsGated'
      BY <1>1, <2>1, <3>1 DEF RowsGated, Gate
    <3>4. QED
      BY <1>0, <1>1, <2>1, <2>2, <3>1, <3>2, <3>3 DEF UnitGated, Gate, Typical
  <2>3. CASE driver.gate = "probe"
    <3>0. ~Lenient
      BY <1>a, <2>3 DEF Lenient
    <3>1. ~Lenient /\ driver.fails = "exclude"
      BY <1>0, <2>3, <3>0 DEF Typical
    <3>2. /\ p \in toGate
          /\ usable' = usable \ {p[2]} /\ toGate' = toGate \ {p}
          /\ UNCHANGED <<toTime, rows>>
      BY <1>7, <3>1 DEF Fail
    <3>3. QED
      BY <1>3, <2>1, <2>3, <3>2
  <2>4. CASE driver.fails = "raise"
    <3>1. DropUnit /\ usable' = usable /\ driver.gate # "probe"
      BY <1>0, <1>7, <2>4 DEF Fail, EndStage, Typical
    <3>2. QED
      BY <1>2, <2>1, <3>1
  <2>5. QED
    BY <1>0, <2>2, <2>3, <2>4 DEF Typical
<1>8. ASSUME NEW p \in toTime, Measure(p)
      PROVE  RowsGated' /\ UnitGated(f)'
  <2>1. /\ toTime' = toTime \ {p} /\ rows' = [rows EXCEPT ![f] = @ \cup {p}]
        /\ UNCHANGED <<toGate, usable, agreed>>
        /\ p \notin toGate /\ (driver.gate = "own" \/ toGate = {})
    BY <1>8 DEF Measure, Ready
  <2>2. Gate(f, p) \in agreed
    <3>1. driver.gate = "own" => <<GatedOn(p[1]), p[2]>> = p
      BY <1>0 DEF GatedOn, Pairs
    <3>2. <<GatedOn(p[1]), p[2]>> \in toGate \/ Gate(f, p) \in agreed
      BY DEF UnitGated
    <3>3. QED
      BY <2>1, <3>1, <3>2
  <2>3. RowsGated'
    BY <1>0, <1>1, <2>1, <2>2 DEF RowsGated, Gate
  <2>4. QED
    BY <1>0, <1>1, <2>1, <2>3 DEF UnitGated, Gate, Probe
<1>9. QED
  BY <1>4, <1>5, <1>6, <1>7, <1>8 DEF Measuring

(* No step gives a row that was not gated before.                          *)
LEMMA StepGate ==
  ASSUME TypeOK, PlanInv, GateInv, Next
  PROVE  GateInv'
<1> USE DEF progress
<1> SUFFICES ASSUME driver'.gate # "none"
             PROVE  RowsGated' /\ (pc' = "unit" => UnitGated(File)')
  BY DEF GateInv
<1>a. ASSUME UNCHANGED <<driver, rows, agreed>>
      PROVE  RowsGated'
  <2>1. driver.gate # "none" /\ \A a : GatedOn(a)' = GatedOn(a)
    BY <1>a DEF GatedOn
  <2>2. QED
    BY <1>a, <2>1 DEF GateInv, RowsGated, Gate
<1>0. ASSUME UNCHANGED <<driver, rows, agreed>>, pc' # "unit"
      PROVE  RowsGated' /\ (pc' = "unit" => UnitGated(File)')
  BY <1>0, <1>a
<1>1. ASSUME NEW m \in Machines, NEW explicit \in BOOLEAN, Start(m, explicit)
      PROVE  RowsGated' /\ (pc' = "unit" => UnitGated(File)')
  <2>1. pc' = "guard" /\ rows' = [f \in FileNames |-> {}]
    BY <1>1 DEF Start, NothingCollected
  <2>2. QED
    BY <2>1 DEF RowsGated
<1>2. CASE Leaving \/ Abort \/ BreakOff
  <2>1. pc' = "idle" /\ rows' = [f \in FileNames |-> {}]
    BY <1>2, BrokenOff DEF Leaving, Leave, Abort, NothingCollected
  <2>2. QED
    BY <2>1 DEF RowsGated
<1>3. CASE Proceed \/ FinishStage \/ Omit \/ BeginWrite \/ Open \/ WriteRows
  BY <1>0, <1>3 DEF Proceed, FinishStage, Omit, BeginWrite, Open, WriteRows, Writing
<1>4. CASE BeginStage
  <2>1. UNCHANGED <<driver, rows, agreed>>
    BY <1>4 DEF BeginStage
  <2>2. RowsGated'
    BY <1>a, <2>1
  <2>3. /\ toTime' = {} /\ usable' = Backends
        /\ driver.gate = "probe" => toGate' = {Probe} \X Backends
    BY <1>4 DEF BeginStage
  <2>4. UnitGated(File)'
    BY <2>1, <2>3 DEF UnitGated, Probe
  <2>5. QED
    BY <2>2, <2>4
<1>5. CASE Measuring
  <2>1. pc = "unit" /\ driver' = driver /\ File' = File
    BY <1>5, MeasuringKeeps
  <2>2. RowsGated /\ UnitGated(File) /\ driver.gate # "none"
    BY <2>1 DEF GateInv
  <2>3. \A f : f = File => RowsGated' /\ UnitGated(f)'
    BY <1>5, <2>2, MeasuringGated
  <2>4. QED
    BY <2>1, <2>3 DEF UnitGated, Gate
<1>6. QED
  BY <1>1, <1>2, <1>3, <1>4, <1>5, Steps

-----------------------------------------------------------------------------
(* Files cut short. *)

(* Only the file being written is ever cut short.                          *)
LEMMA StepFiles ==
  ASSUME TypeOK, PlanInv, FilesInv, Next
  PROVE  FilesInv'
<1> USE DEF progress
<1>1. ASSUME NEW m \in Machines, NEW explicit \in BOOLEAN, Start(m, explicit)
      PROVE  FilesInv'
  <2>1. before' = files' /\ pc' = "guard"
    BY <1>1 DEF Start
  <2>2. QED
    BY <2>1 DEF FilesInv, WholeOrKept, LossConfined
<1>b. Paths # {}
  <2>1. <<"main", <<"canonical">>>> \in Paths
    BY DEF Paths, FileNames, Places
  <2>2. QED
    BY <2>1
<1>2. CASE Leaving \/ Abort
  <2>1. UNCHANGED <<files, before>> /\ pc' = "idle" /\ pc \notin {"idle", "open"}
    BY <1>2 DEF Leaving, Leave, Abort
  <2>2. \A p \in Paths : WholeOrKept(p)'
    BY <2>1 DEF FilesInv, WholeOrKept
  <2>3. LossConfined'
    BY <1>b, <2>2 DEF LossConfined, WholeOrKept
  <2>4. QED
    BY <2>1, <2>3 DEF FilesInv
<1>3. ASSUME UNCHANGED <<files, before>>, pc \notin {"open", "idle"}, pc' \notin {"open", "idle"}
      PROVE  FilesInv'
  BY <1>3 DEF FilesInv, WholeOrKept, LossConfined
<1>4. CASE Proceed \/ BeginStage \/ FinishStage \/ Omit \/ BeginWrite
  BY <1>3, <1>4 DEF Proceed, BeginStage, FinishStage, UnitDone, Omit, BeginWrite, Writing
<1>5. CASE Measuring
  BY <1>3, <1>5, MeasuringKeeps
<1>6. CASE Open
  <2>1. /\ pc = "write" /\ pc' = "open" /\ before' = before /\ Path(File)' = Path(File)
        /\ files' = [files EXCEPT ![Path(File)] = Truncated]
    BY <1>6 DEF Open, Path, File
  <2>2. \A p \in Paths \ {Path(File)} : files'[p] = files[p]
    BY <2>1 DEF PlanInv
  <2>3. QED
    BY <2>1, <2>2 DEF FilesInv, WholeOrKept, LossConfined
<1>7. CASE WriteRows
  <2>1. pc = "open" /\ pc' = "plan" /\ before' = before
    BY <1>7 DEF WriteRows
  <2>2. Path(File) \in Paths
    BY <1>7, WrittenFile
  <2>3. files'[Path(File)].exists /\ files'[Path(File)].whole
    BY <1>7, <2>2 DEF WriteRows, PlanInv
  <2>4. \A p \in Paths \ {Path(File)} : files'[p] = files[p]
    BY <1>7 DEF WriteRows, PlanInv
  <2>5. QED
    BY <2>1, <2>2, <2>3, <2>4 DEF FilesInv, WholeOrKept, LossConfined
<1>8. CASE BreakOff
  <2>1. /\ pc = "open" /\ pc' = "idle" /\ before' = before
        /\ outcome' \in {"OSError", "crashed"} \/ driver' = CliSweep
    BY <1>8, BrokenOff
  <2>2. Path(File) \in Paths
    BY <1>8, WrittenFile
  <2>3. \A p \in Paths \ {Path(File)} : files'[p] = files[p]
    BY <1>8, BrokenOff DEF PlanInv
  <2>4. \A p \in Paths \ {Path(File)} : WholeOrKept(p)'
    BY <2>1, <2>3 DEF FilesInv, WholeOrKept
  <2>5. LossConfined'
    BY <2>1, <2>2, <2>4 DEF LossConfined, WholeOrKept
  <2>6. QED
    BY <2>1, <2>5 DEF FilesInv
<1>9. QED
  BY <1>1, <1>2, <1>4, <1>5, <1>6, <1>7, <1>8, Steps

-----------------------------------------------------------------------------
(* The sweep that aborts. *)

(* A sweep that knows its context is lost writes nothing more.             *)
LEMMA StepSweep ==
  ASSUME TypeOK, PlanInv, SweepInv, Next
  PROVE  SweepInv'
<1> USE DEF progress
<1> SUFFICES ASSUME driver' = SweepTechniques
             PROVE  /\ fault' = "known" => pc' = "idle" /\ files' = before'
                    /\ pc' \in {"guard", "unit"} \/ (pc' = "plan" /\ stage' = 1) => files' = before'
  BY DEF SweepInv
<1>a. ASSUME driver = SweepTechniques
      PROVE  /\ Len(driver.plan) = 2
             /\ driver.plan[1][1] = "measure" /\ driver.plan[2][1] = "write"
             /\ stage \in 1 .. 3
  BY <1>a, SweepTechniquesFacts DEF OneFile, TypeOK
<1>1. ASSUME NEW m \in Machines, NEW explicit \in BOOLEAN, Start(m, explicit)
      PROVE  fault' = "none" /\ files' = before'
  BY <1>1 DEF Start
<1>2. CASE Leaving
  <2>1. UNCHANGED <<driver, files, before, fault>> /\ pc' = "idle" /\ pc # "idle"
    BY <1>2 DEF Leaving, Leave
  <2>2. QED
    BY <2>1 DEF SweepInv
<1>3. CASE Proceed
  BY <1>3 DEF Proceed, SweepInv
<1>4. CASE BeginStage
  <2>1. /\ UNCHANGED <<driver, files, before, fault, stage>> /\ pc = "plan" /\ pc' = "unit"
        /\ driver.plan[stage][1] = "measure" /\ stage <= Len(driver.plan)
    BY <1>4 DEF BeginStage
  <2>2. driver = SweepTechniques /\ stage = 1
    BY <1>a, <2>1
  <2>3. QED
    BY <2>1, <2>2 DEF SweepInv
<1>5. CASE Measuring
  <2>1. pc = "unit" /\ pc' = "unit" /\ UNCHANGED <<driver, files, before>>
    BY <1>5, MeasuringKeeps
  <2>2. fault # "known" /\ files = before
    BY <2>1 DEF SweepInv
  <2>3. fault' # "known"
    <3>1. ASSUME NEW p, Fail(p)
          PROVE  fault' # "known"
      BY <2>1, <3>1 DEF Fail
    <3>2. ASSUME NEW p, Disagree(p), pc' = "unit"
          PROVE  fault' = fault
      BY <3>2, DisagreeKeeps
    <3>3. QED
      BY <1>5, <2>2, <3>1, <3>2 DEF Measuring, BeginUnit, Agree, Measure
  <2>4. QED
    BY <2>1, <2>2, <2>3
<1>6. CASE FinishStage
  <2>1. /\ UNCHANGED <<driver, files, before, fault>> /\ pc = "unit" /\ pc' = "plan"
        /\ stage' = stage + 1
    BY <1>6 DEF FinishStage, UnitDone
  <2>2. stage' # 1
    BY <1>a, <2>1
  <2>3. QED
    BY <2>1, <2>2 DEF SweepInv
<1>7. CASE Abort
  BY <1>7 DEF Abort, SweepInv
<1>8. CASE Omit \/ WriteRows
  <2>1. /\ UNCHANGED <<driver, before, fault>> /\ pc # "idle" /\ pc' = "plan"
        /\ stage' = stage + 1
    BY <1>8 DEF Omit, WriteRows, Writing
  <2>2. stage' # 1
    BY <1>a, <2>1
  <2>3. QED
    BY <2>1, <2>2 DEF SweepInv
<1>9. CASE BeginWrite \/ Open
  <2>1. UNCHANGED <<driver, before, fault>> /\ pc # "idle" /\ pc' \in {"write", "open"}
    BY <1>9 DEF BeginWrite, Open, Writing
  <2>2. QED
    BY <2>1 DEF SweepInv
<1>10. CASE BreakOff
  <2>1. UNCHANGED <<driver, fault>> /\ pc = "open" /\ pc' = "idle"
    BY <1>10, BrokenOff
  <2>2. QED
    BY <2>1 DEF SweepInv
<1>11. QED
  BY <1>1, <1>2, <1>3, <1>4, <1>5, <1>6, <1>7, <1>8, <1>9, <1>10, Steps

-----------------------------------------------------------------------------
(* Files without rows. *)

Writer(d) == d.empty = "write" /\ d # SweepDfa

(* A step in a unit does not lose the rows of the first unit, nor those of *)
(* a file that was measured before.                                        *)
LEMMA MeasuringFirst ==
  ASSUME TypeOK, PlanInv, FirstUnitInv, Measuring, Writer(driver)
  PROVE  /\ usable' = Backends
         /\ unit' = 1 => HasFirst(toTime' \cup rows'[File])
         /\ unit' > 1 => HasFirst(rows'[File])
         /\ \A f \in FileNames \ {File} : rows'[f] = rows[f]
<1> DEFINE Goal == /\ usable' = Backends
                   /\ unit' = 1 => HasFirst(toTime' \cup rows'[File])
                   /\ unit' > 1 => HasFirst(rows'[File])
                   /\ \A f \in FileNames \ {File} : rows'[f] = rows[f]
<1>0. /\ File \in FileNames /\ driver \in Drivers /\ Typical(driver) /\ Peculiar(driver)
      /\ pc = "unit" /\ usable = Backends
      /\ unit = 1 => HasFirst(toTime \cup rows[File])
      /\ unit > 1 => HasFirst(rows[File])
      /\ rows \in [FileNames -> SUBSET Pairs]
      /\ unit \in 0 .. NUnits /\ NUnits \in Nat /\ NUnits > 1
  BY MeasuringKeeps, FileIsOutput, DriverFacts, DriverAssumption
     DEF TypeOK, PlanInv, FirstUnitInv, Writer
<1>1. driver.gate # "probe" /\ driver.fails = "raise" /\ driver.differs = "raise"
  BY <1>0 DEF Typical, Peculiar, Writer
<1>2. CASE BeginUnit
  <2>1. PICK kept \in SUBSET Automata(unit + 1) : kept # {} /\ toTime' = kept \X usable
    BY <1>2 DEF BeginUnit
  <2>2. toTime = {} /\ unit' = unit + 1 /\ UNCHANGED <<usable, rows>>
    BY <1>2 DEF BeginUnit, UnitDone
  <2>3. unit' = 1 => HasFirst(toTime')
    <3>1. PICK a \in kept : TRUE
      BY <2>1
    <3>2. a[1] = unit + 1 /\ <<a, "cuda">> \in toTime'
      BY <1>0, <2>1, DriverAssumption DEF Automata
    <3>3. QED
      BY <2>2, <3>2 DEF HasFirst
  <2>4. unit' > 1 => HasFirst(rows[File])
    BY <1>0, <2>2
  <2>5. QED
    BY <1>0, <2>2, <2>3, <2>4 DEF HasFirst
<1>3. ASSUME EndStage, Lenient, usable' = usable
      PROVE  Goal
  <2>1. /\ unit' = NUnits /\ unit > 1
        /\ rows' = [rows EXCEPT ![File] = {q \in @ : q[1][1] # unit}]
    <3>1. driver.lenient \in Nat /\ driver.lenient >= 2 /\ unit >= driver.lenient
      BY <1>0, <1>3 DEF Lenient, Typical
    <3>2. unit > 1
      BY <1>0, <3>1
    <3>3. QED
      BY <1>3, <3>2 DEF EndStage, DropUnit
  <2>2. HasFirst(rows'[File])
    BY <1>0, <2>1 DEF HasFirst
  <2>3. QED
    BY <1>0, <1>3, <2>1, <2>2
<1>4. ASSUME NEW p \in toGate, Agree(p)
      PROVE  Goal
  BY <1>0, <1>4 DEF Agree
<1>5. ASSUME NEW p \in toGate, Disagree(p), pc' = "unit"
      PROVE  Goal
  BY <1>1, <1>3, <1>5, DisagreeKeeps
<1>6. ASSUME NEW p \in toGate \cup toTime, Fail(p)
      PROVE  Goal
  BY <1>1, <1>3, <1>6 DEF Fail
<1>7. ASSUME NEW p \in toTime, Measure(p)
      PROVE  Goal
  <2>1. /\ toTime' = toTime \ {p} /\ rows' = [rows EXCEPT ![File] = @ \cup {p}]
        /\ UNCHANGED <<unit, usable>>
    BY <1>7 DEF Measure
  <2>2. rows'[File] = rows[File] \cup {p}
    BY <1>0, <2>1
  <2>3. QED
    BY <1>0, <2>1, <2>2 DEF HasFirst
<1>8. QED
  BY <1>2, <1>4, <1>5, <1>6, <1>7 DEF Measuring

(* A driver that writes what it holds has a row of its first unit.         *)
LEMMA StepFirstUnit ==
  ASSUME TypeOK, PlanInv, FirstUnitInv, Next
  PROVE  FirstUnitInv'
<1> USE DEF progress
<1> DEFINE Earlier == \A k \in 1 .. stage - 1 :
                        driver.plan[k][1] = "measure" => rows[driver.plan[k][2]] # {}
<1> SUFFICES ASSUME Writer(driver')
             PROVE  /\ usable' = Backends
                    /\ pc' = "unit" /\ unit' = 1 => HasFirst(toTime \cup rows[File])'
                    /\ pc' = "unit" /\ unit' > 1 => HasFirst(rows[File])'
                    /\ pc' # "idle" => Earlier'
  BY DEF FirstUnitInv, Writer
<1>0. /\ driver \in Drivers /\ Typical(driver) /\ NUnits \in Nat /\ NUnits > 1
      /\ unit \in 0 .. NUnits
      /\ stage \in 1 .. Len(driver.plan) + 1 /\ Len(driver.plan) \in Nat
  BY DriverFacts, Plans, DriverAssumption DEF TypeOK
<1>a. ASSUME driver' = driver
      PROVE  Writer(driver) /\ usable = Backends /\ (pc # "idle" => Earlier)
  BY <1>a DEF FirstUnitInv, Writer
<1>b. ASSUME UNCHANGED <<driver, usable, rows, stage>>, pc # "idle", pc' # "unit"
      PROVE  /\ usable' = Backends
             /\ pc' # "idle" => Earlier'
  BY <1>a, <1>b
<1>c. ASSUME stage' = stage + 1
      PROVE  \A k \in 1 .. stage' - 1 : k \in 1 .. stage - 1 \/ k = stage
  BY <1>0, <1>c
<1>1. ASSUME NEW m \in Machines, NEW explicit \in BOOLEAN, Start(m, explicit)
      PROVE  usable' = Backends /\ pc' = "guard" /\ Earlier'
  <2>1. stage' = 1 /\ usable' = Backends /\ pc' = "guard"
    BY <1>1 DEF Start, NothingCollected
  <2>2. QED
    BY <2>1
<1>2. CASE Leaving \/ Abort \/ BreakOff
  <2>1. usable' = Backends /\ pc' = "idle"
    BY <1>2, BrokenOff DEF Leaving, Leave, Abort, NothingCollected
  <2>2. QED
    BY <2>1
<1>3. CASE Proceed \/ BeginWrite \/ Open
  <2>1. UNCHANGED <<driver, usable, rows, stage>> /\ pc # "idle" /\ pc' # "unit"
    BY <1>3 DEF Proceed, BeginWrite, Open, Writing
  <2>2. QED
    BY <1>b, <2>1
<1>4. CASE BeginStage
  <2>1. /\ UNCHANGED <<driver, rows, stage>> /\ usable' = Backends /\ pc # "idle"
        /\ pc' = "unit" /\ unit' = 0
    BY <1>4 DEF BeginStage
  <2>2. QED
    BY <1>a, <2>1
<1>5. CASE Measuring
  <2>1. /\ pc = "unit" /\ pc' = "unit" /\ UNCHANGED <<driver, stage>> /\ File' = File
        /\ stage <= Len(driver.plan) /\ driver.plan[stage][1] = "measure"
    BY <1>5, MeasuringKeeps DEF PlanInv
  <2>2. Writer(driver) /\ Earlier
    BY <1>a, <2>1
  <2>3. /\ usable' = Backends
        /\ unit' = 1 => HasFirst(toTime' \cup rows'[File])
        /\ unit' > 1 => HasFirst(rows'[File])
        /\ \A f \in FileNames \ {File} : rows'[f] = rows[f]
    BY <1>5, <2>2, MeasuringFirst
  <2>4. ASSUME NEW k \in 1 .. stage - 1, driver.plan[k][1] = "measure"
        PROVE  rows'[driver.plan[k][2]] # {}
    <3>1. /\ k \in 1 .. Len(driver.plan) /\ stage \in 1 .. Len(driver.plan) /\ k < stage
      BY <1>0, <2>1
    <3>2. driver.plan[k][2] \in FileNames \ {File}
      BY <1>0, <2>1, <2>4, <3>1, Plans DEF File
    <3>3. QED
      BY <2>2, <2>3, <2>4, <3>2
  <2>5. QED
    BY <2>1, <2>3, <2>4 DEF HasFirst
<1>6. CASE FinishStage
  <2>1. /\ pc = "unit" /\ pc' = "plan" /\ stage' = stage + 1 /\ StageOver
        /\ UNCHANGED <<driver, usable, rows>>
    BY <1>6 DEF FinishStage, UnitDone
  <2>2. Writer(driver) /\ Earlier /\ usable = Backends
    BY <1>a, <2>1
  <2>3. unit = NUnits
    BY <1>0, <2>1, <2>2 DEF StageOver, Typical, Writer
  <2>4. rows[File] # {}
    BY <1>0, <2>1, <2>2, <2>3 DEF FirstUnitInv, Writer, HasFirst
  <2>5. Earlier'
    BY <1>c, <2>1, <2>2, <2>4 DEF File
  <2>6. QED
    BY <2>1, <2>2, <2>5
<1>7. CASE Omit \/ WriteRows
  <2>1. /\ pc # "idle" /\ pc' = "plan" /\ stage' = stage + 1
        /\ UNCHANGED <<driver, usable, rows>>
        /\ driver.plan[stage][1] = "write"
    BY <1>7 DEF Omit, WriteRows, Writing, PlanInv
  <2>2. Earlier'
    BY <1>a, <1>c, <2>1
  <2>3. QED
    BY <1>a, <2>1, <2>2
<1>8. QED
  BY <1>1, <1>2, <1>3, <1>4, <1>5, <1>6, <1>7, Steps

(* No step begins to write a file without rows, but for the drivers that   *)
(* write whatever they hold.                                               *)
LEMMA StepWrite ==
  ASSUME TypeOK, PlanInv, WriteInv, Next
  PROVE  WriteInv'
<1> USE DEF progress
<1>1. ASSUME pc' \notin {"write", "open"}
      PROVE  WriteInv'
  BY <1>1 DEF WriteInv
<1>2. CASE \E m \in Machines, explicit \in BOOLEAN : Start(m, explicit)
  BY <1>1, <1>2 DEF Start
<1>3. CASE Leaving \/ Proceed \/ BeginStage \/ FinishStage \/ Abort \/ Omit \/ WriteRows \/ BreakOff
  BY <1>1, <1>3, BrokenOff DEF Leaving, Leave, Proceed, BeginStage, FinishStage, Abort, Omit, Writing,
                    WriteRows
<1>4. CASE Measuring
  BY <1>1, <1>4, MeasuringKeeps
<1>5. CASE BeginWrite
  BY <1>5 DEF BeginWrite, NoRows, WriteInv, File
<1>6. CASE Open
  BY <1>6 DEF Open, WriteInv, File
<1>7. QED
  BY <1>2, <1>3, <1>4, <1>5, <1>6, Steps

(* Only sweep_dfa leaves a header with nothing below it.                   *)
LEMMA StepErases ==
  ASSUME TypeOK, PlanInv, FirstUnitInv, WriteInv, OnlyDfaSweepErases, Next
  PROVE  OnlyDfaSweepErases'
<1> USE DEF progress
<1>1. ASSUME UNCHANGED <<files, driver>>
      PROVE  OnlyDfaSweepErases'
  BY <1>1 DEF OnlyDfaSweepErases
<1>2. CASE \E m \in Machines, explicit \in BOOLEAN : Start(m, explicit)
  BY <1>1, <1>2 DEF Start
<1>3. CASE Leaving \/ Proceed \/ BeginStage \/ FinishStage \/ Abort \/ Omit \/ BeginWrite
  BY <1>1, <1>3 DEF Leaving, Leave, Proceed, BeginStage, FinishStage, Abort, Omit, Writing,
                    BeginWrite
<1>4. CASE Measuring
  BY <1>1, <1>4, MeasuringKeeps
<1>5. CASE Open
  BY <1>5, WrittenFile DEF Open, OnlyDfaSweepErases, Truncated, PlanInv
<1>6. CASE WriteRows
  <2>1. /\ pc = "open" /\ UNCHANGED driver
        /\ stage <= Len(driver.plan) /\ driver.plan[stage][1] = "write"
    BY <1>6 DEF WriteRows, PlanInv
  <2>2. \A p \in Paths \ {Path(File)} : files'[p] = files[p]
    BY <1>6 DEF WriteRows, PlanInv
  <2>3. files'[Path(File)].empty = NoRows
    BY <1>6, WrittenFile DEF WriteRows, PlanInv
  <2>4. NoRows => driver = SweepDfa
    <3>1. SUFFICES ASSUME rows[File] = {}, driver # SweepDfa
                   PROVE  FALSE
      BY DEF NoRows
    <3>2. driver.empty = "write"
      BY <2>1, <3>1 DEF WriteInv
    <3>3. driver \in Drivers /\ stage \in 1 .. Len(driver.plan)
      BY <2>1, FileIsOutput DEF TypeOK
    <3>4. PICK k \in 1 .. stage - 1 :
            driver.plan[k][1] = "measure" /\ driver.plan[k][2] = File
      BY <2>1, <3>3, Plans DEF File
    <3>5. QED
      BY <2>1, <3>1, <3>2, <3>4 DEF FirstUnitInv
  <2>5. QED
    BY <2>1, <2>2, <2>3, <2>4 DEF OnlyDfaSweepErases
<1>7. CASE BreakOff
  <2>1. driver' = driver /\ \A p \in Paths \ {Path(File)} : files'[p] = files[p]
    BY <1>7, BrokenOff DEF PlanInv
  <2>2. ~files'[Path(File)].whole
    <3>1. PICK names \in CutColumns : files' = [files EXCEPT ![Path(File)] = CutShort(names)]
      BY <1>7, BrokenOff
    <3>2. files'[Path(File)] = CutShort(names)
      BY <1>7, <3>1, WrittenFile DEF PlanInv
    <3>3. CutShort(names).whole = FALSE
      BY DEF CutShort, Truncated
    <3>4. QED
      BY <3>2, <3>3
  <2>3. QED
    BY <2>1, <2>2 DEF OnlyDfaSweepErases
<1>8. QED
  BY <1>2, <1>3, <1>4, <1>5, <1>6, <1>7, Steps

-----------------------------------------------------------------------------
(* The invariant. *)

(* What the committed files name can be recorded.                          *)
LEMMA CommittedRecordable ==
  ASSUME NEW recorded \in Committed
  PROVE  recorded.gpus \subseteq Recordable
  BY DEF Recordable

(* The invariant holds before the first run.                               *)
LEMMA InitIInv == Init => IInv
<1> SUFFICES ASSUME Init
             PROVE  IInv
  OBVIOUS
<1>1. /\ driver \in Drivers /\ pc = "idle" /\ stage = 1 /\ unit = 0 /\ toGate = {} /\ toTime = {}
      /\ usable = Backends /\ rows = [f \in FileNames |-> {}] /\ fault = "none"
      /\ before = files /\ outcome = "none" /\ runs = 0
      /\ Len(driver.plan) \in Nat /\ NUnits \in Nat /\ MaxRuns \in Nat
  BY Plans, DriverAssumption DEF Init
<1>2. PICK c \in Committed \cup {NoFile} :
        files = [p \in Paths |-> IF p[2] = <<"canonical">> THEN c ELSE NoFile]
  BY DEF Init
<1>3. NoFile \in FileRecords /\ NoFile.exists = FALSE
  BY DEF NoFile, FileRecords
<1>4. c \in FileRecords /\ (c.exists => c.empty = FALSE)
  <2>1. CASE c \in Committed
    <3>1. c \in [exists : {TRUE}, whole : {TRUE}, empty : {FALSE},
                 gpus : SUBSET c.gpus, measuredOn : SUBSET c.measuredOn]
      BY <2>1, DriverAssumption
    <3>2. c.measuredOn \subseteq UNION {d.measuredOn : d \in Committed}
      BY <2>1
    <3>3. c.gpus \subseteq Recordable
      BY <2>1, CommittedRecordable
    <3>4. QED
      BY <3>1, <3>2, <3>3 DEF FileRecords
  <2>2. QED
    BY <1>3, <2>1
<1>5. files \in [Paths -> FileRecords]
  BY <1>2, <1>3, <1>4
<1>6. \A p \in Paths : files[p].exists => files[p].empty = FALSE
  BY <1>2, <1>3, <1>4
<1>7. run.machine \in Machines
  BY DriverAssumption DEF Init
<1>8. TypeOK
  BY <1>1, <1>5, <1>7, FilesTyped DEF TypeOK
<1>9. PlanInv
  BY <1>1, <1>5 DEF PlanInv
<1>10. GateInv
  BY <1>1 DEF GateInv, RowsGated
<1>11. FilesInv
  <2>1. <<"main", <<"canonical">>>> \in Paths
    BY DEF Paths, FileNames, Places
  <2>2. QED
    BY <1>1, <2>1 DEF FilesInv, WholeOrKept, LossConfined
<1>12. SweepInv /\ WriteInv
  BY <1>1 DEF SweepInv, WriteInv
<1>13. FirstUnitInv
  BY <1>1 DEF FirstUnitInv
<1>14. OnlyDfaSweepErases
  BY <1>6 DEF OnlyDfaSweepErases
<1>15. QED
  BY <1>8, <1>9, <1>10, <1>11, <1>12, <1>13, <1>14 DEF IInv

(* Each step keeps the invariant.                                          *)
LEMMA NextIInv == IInv /\ [Next]_vars => IInv'
<1>1. ASSUME IInv, Next
      PROVE  IInv'
  BY <1>1, StepType, StepGate, StepFiles, StepSweep, StepFirstUnit, StepWrite, StepErases
     DEF IInv
<1>2. ASSUME IInv, UNCHANGED vars
      PROVE  IInv'
  <2> USE <1>2 DEF IInv, vars, progress
  <2>1. TypeOK'
    BY DEF TypeOK
  <2>2. PlanInv'
    BY DEF PlanInv, Missing
  <2>3. GateInv'
    <3>1. \A a : GatedOn(a)' = GatedOn(a)
      BY DEF GatedOn
    <3>2. QED
      BY <3>1 DEF GateInv, RowsGated, UnitGated, Gate, File
  <2>4. FilesInv'
    BY DEF FilesInv, WholeOrKept, Path, File, LossConfined
  <2>5. SweepInv' /\ WriteInv'
    BY DEF SweepInv, WriteInv, File
  <2>6. FirstUnitInv'
    BY DEF FirstUnitInv, File
  <2>7. OnlyDfaSweepErases'
    BY DEF OnlyDfaSweepErases
  <2>8. QED
    BY <2>1, <2>2, <2>3, <2>4, <2>5, <2>6, <2>7
<1>3. QED
  BY <1>1, <1>2

(* The invariant always holds.                                             *)
LEMMA Invariance == Spec => []IInv
  BY InitIInv, NextIInv, PTL DEF Spec

-----------------------------------------------------------------------------
(* What the driver promises. *)

(* The variables keep their types, for any grid and any number of runs.    *)
THEOREM TypeCorrect == Spec => []TypeOK
<1>1. IInv => TypeOK
  BY DEF IInv
<1>2. QED
  BY <1>1, Invariance, PTL

(* No driver that compares at all writes a row whose kernel did not agree  *)
(* with the reference in the same run, whatever disagreed, failed or was   *)
(* dropped on the way (the calls of oracle.compare in scripts/).           *)
THEOREM RowsGatedFirst == Spec => []RowsWereGated
<1>1. IInv => RowsWereGated
  BY FileIsOutput DEF IInv, RowsWereGated, PlanInv, GateInv, RowsGated, Gate
<1>2. QED
  BY <1>1, Invariance, PTL

(* However a run ends, at most one file is neither as it was nor whole:    *)
(* the one that was being written when the output failed or the process    *)
(* was killed, or, of `gpufsm sweep`, when a row was refused               *)
(* (csvio.write_rows checks the schema before it opens).                   *)
THEOREM FailedRunLoss == Spec => []LossConfined
<1>1. IInv => LossConfined
  BY DEF IInv, FilesInv
<1>2. QED
  BY <1>1, Invariance, PTL

(* sweep_techniques writes nothing once it knows its context is poisoned.  *)
THEOREM PoisonedSweepSilent == Spec => []PoisonedSweepWritesNothing
<1>1. IInv => PoisonedSweepWritesNothing
  BY DEF IInv, SweepInv, PoisonedSweepWritesNothing
<1>2. QED
  BY <1>1, Invariance, PTL

(* sweep_dfa alone can replace a file by one without rows: every other     *)
(* driver that writes unconditionally has kept the rows of its first unit. *)
THEOREM OnlyDfaErases == Spec => []OnlyDfaSweepErases
<1>1. IInv => OnlyDfaSweepErases
  BY DEF IInv
<1>2. QED
  BY <1>1, Invariance, PTL

-----------------------------------------------------------------------------
(* Results measured on another device. *)

(* csvio's comparison of names tells the machines apart: names that it     *)
(* takes for the same belong to the same GPU, no GPU is called "none", and *)
(* the committed files were measured on the devices they name.  Two models *)
(* of a series, "RTX 4070" and "RTX 4070 Ti", break it.                    *)
NamesTellApart ==
  /\ \A m1, m2 \in Machines :
       /\ LiveName(m1) # NoName /\ LiveName(m2) # NoName
       /\ SameDevice(LiveName(m1), LiveName(m2))
       => m1.gpu = m2.gpu
  /\ \A m \in Machines : LiveName(m) # NoName => ~SameDevice(NoName, LiveName(m))
  /\ \A c \in Committed : Recorded(c)

(* A run past its guard has only outputs of its own machine before it.     *)
LEMMA GuardedOutputs ==
  ASSUME TypeOK, OwnerInv, ~Missing,
         driver.guards => \A f \in Outputs : GuardAllows(f),
         NEW f \in Outputs
  PROVE  OutputOwned(f)
<1>0. /\ driver \in Drivers /\ Typical(driver) /\ Peculiar(driver)
      /\ run.machine \in Machines /\ f \in FileNames
  BY DriverFacts, Plans DEF TypeOK, Outputs
<1>1. Path(f) \in Paths
  BY <1>0, PathIsPlace
<1> SUFFICES ASSUME ~OutOfReach
             PROVE  OutputOwned(f)
  BY DEF OutputOwned
<1>2. LiveName(run.machine) # NoName /\ driver # CliSweep
  BY DEF OutOfReach
<1>3. LiveName(run.machine) = run.machine.gpu /\ run.machine.gpu \in Names \ {<<>>}
  BY <1>0, <1>2, NamesAreNotPlaces DEF Names
<1>4. CASE driver.guards
  <2>1. GuardAllows(f)
    BY <1>4
  <2>2. \/ files[Path(f)].gpus = {}
        \/ \E recorded \in files[Path(f)].gpus : SameDevice(recorded, LiveName(run.machine))
    BY <1>2, <2>1 DEF GuardAllows
  <2>3. files[Path(f)].whole => Recorded(files[Path(f)])
    BY <1>1 DEF OwnerInv
  <2>4. QED
    BY <1>0, <1>2, <2>2, <2>3 DEF Recorded, OutputOwned
<1>5. CASE ~driver.guards
  <2>1. driver.naming # "canonical"
    BY <1>0, <1>2, <1>5 DEF Peculiar
  <2>2. Path(f) = <<f, run.machine.gpu>>
    <3>1. CASE driver.naming = "slug"
      BY <1>3, <3>1 DEF Path
    <3>2. CASE driver.naming = "slug or out"
      <4>1. ~run.explicit
        BY <1>0, <3>2 DEF Peculiar, OutOfReach
      <4>2. QED
        BY <1>3, <3>2, <4>1 DEF Path
    <3>3. QED
      BY <1>0, <2>1, <3>1, <3>2 DEF Typical
  <2>3. QED
    BY <1>0, <1>3, <2>2 DEF OwnerInv, OutputOwned
<1>6. QED
  BY <1>4, <1>5

(* The committed files were measured by the machines they name.            *)
LEMMA InitOwner == NamesTellApart /\ Init => OwnerInv
<1> SUFFICES ASSUME NamesTellApart, Init
             PROVE  OwnerInv
  OBVIOUS
<1>1. PICK c \in Committed \cup {NoFile} :
        files = [p \in Paths |-> IF p[2] = <<"canonical">> THEN c ELSE NoFile]
  BY DEF Init
<1>2. Recorded(c) /\ Recorded(NoFile)
  BY DEF NamesTellApart, Recorded, NoFile
<1>3. \A p \in Paths : Recorded(files[p])
  BY <1>1, <1>2
<1>4. ASSUME NEW f \in FileNames, NEW n \in Names \ {<<>>}
      PROVE  files[<<f, n>>].gpus = {}
  <2>1. n # <<"canonical">>
    BY NamesAreNotPlaces DEF Names
  <2>2. <<f, n>> \in Paths /\ <<f, n>>[2] # <<"canonical">>
    BY <2>1 DEF Paths, Places
  <2>3. QED
    BY <1>1, <2>2 DEF NoFile
<1>5. pc = "idle"
  BY DEF Init
<1>6. QED
  BY <1>3, <1>4, <1>5 DEF OwnerInv

(* What a run leaves behind names no device but its own.                   *)
LEMMA WrittenOwned ==
  ASSUME NamesTellApart, TypeOK, PlanInv, OwnerInv, Open \/ WriteRows \/ BreakOff
  PROVE  /\ \A p \in Paths : files'[p].whole => Recorded(files'[p])
         /\ \A f \in FileNames, n \in Names \ {<<>>} :
              files'[<<f, n>>].gpus = {} \/ n \in files'[<<f, n>>].measuredOn
         /\ files'[Path(File)].gpus = {} \/ run.machine.gpu \in files'[Path(File)].measuredOn
<1>0. /\ driver \in Drivers /\ Typical(driver)
      /\ run.machine \in Machines /\ Path(File) \in Paths
  BY DriverFacts, WrittenFile DEF TypeOK
<1>1. /\ \A p \in Paths \ {Path(File)} : files'[p] = files[p]
      /\ files'[Path(File)].gpus = {} \/ run.machine.gpu \in files'[Path(File)].measuredOn
      /\ files'[Path(File)].whole =>
           /\ files'[Path(File)].gpus = (IF NoRows THEN {} ELSE DeviceColumn)
           /\ files'[Path(File)].measuredOn = (IF NoRows THEN {} ELSE {run.machine.gpu})
  <2>1. CASE Open
    BY <1>0, <2>1 DEF Open, PlanInv, Truncated
  <2>2. CASE WriteRows
    BY <1>0, <2>2 DEF WriteRows, PlanInv
  <2>3. CASE BreakOff
    <3>1. PICK names \in CutColumns : files' = [files EXCEPT ![Path(File)] = CutShort(names)]
      BY <2>3, BrokenOff
    <3>2. /\ files'[Path(File)] = CutShort(names)
          /\ \A p \in Paths \ {Path(File)} : files'[p] = files[p]
      BY <1>0, <3>1 DEF PlanInv
    <3>3. /\ CutShort(names).whole = FALSE
          /\ CutShort(names).gpus = names
          /\ names # {} => CutShort(names).measuredOn = {run.machine.gpu}
      BY DEF CutShort, Truncated
    <3>4. QED
      BY <3>2, <3>3
  <2>4. QED
    BY <2>1, <2>2, <2>3
<1>2. ASSUME NEW name \in DeviceColumn, NEW m \in Machines,
             LiveName(m) # NoName, SameDevice(name, LiveName(m))
      PROVE  m.gpu = run.machine.gpu
  <2>1. name = <<>> \/ name = LiveName(run.machine)
    BY DEF DeviceColumn
  <2>2. name # <<>>
    BY <1>2 DEF SameDevice
  <2>3. LiveName(run.machine) # NoName
    BY <1>2, <2>1, <2>2 DEF NamesTellApart
  <2>4. QED
    BY <1>0, <1>2, <2>1, <2>2, <2>3 DEF NamesTellApart
<1>3. files'[Path(File)].whole => Recorded(files'[Path(File)])
  BY <1>1, <1>2 DEF Recorded
<1>4. \A p \in Paths : files'[p].whole => Recorded(files'[p])
  BY <1>1, <1>3 DEF OwnerInv
<1>5. ASSUME NEW f \in FileNames, NEW n \in Names \ {<<>>}
      PROVE  files'[<<f, n>>].gpus = {} \/ n \in files'[<<f, n>>].measuredOn
  <2>1. <<f, n>> \in Paths
    BY DEF Paths, Places
  <2>2. CASE <<f, n>> # Path(File)
    BY <1>1, <2>1, <2>2 DEF OwnerInv
  <2>3. CASE <<f, n>> = Path(File)
    <3>1. n \notin {<<"canonical">>, <<"elsewhere">>, NoName}
      BY NamesAreNotPlaces DEF Names
    <3>2. /\ driver.naming \in {"slug", "slug or out"}
          /\ n = LiveName(run.machine)
      <4>1. Path(File)[2] = n
        BY <2>3
      <4>2. QED
        BY <1>0, <3>1, <4>1 DEF Path, Typical
    <3>3. n = run.machine.gpu
      BY <1>0, <3>1, <3>2, NamesAreNotPlaces
    <3>4. QED
      BY <1>1, <2>3, <3>3
  <2>4. QED
    BY <2>2, <2>3
<1>6. QED
  BY <1>1, <1>4, <1>5

(* Each step keeps what is known of whose results a file holds.            *)
LEMMA StepOwner ==
  ASSUME NamesTellApart, TypeOK, PlanInv, OwnerInv, [Next]_vars
  PROVE  OwnerInv'
<1> USE DEF progress
<1>a. ASSUME UNCHANGED <<driver, files, run>>, pc' \notin {"plan", "unit", "write", "open"}
      PROVE  OwnerInv'
  BY <1>a DEF OwnerInv
<1>c. ASSUME UNCHANGED <<driver, files, run>>
      PROVE  Outputs' = Outputs /\ \A f : OutputOwned(f)' <=> OutputOwned(f)
  <2>1. Outputs' = Outputs /\ (OutOfReach' <=> OutOfReach) /\ \A f : Path(f)' = Path(f)
    BY <1>c DEF Outputs, OutOfReach, Path
  <2>2. QED
    BY <1>c, <2>1 DEF OutputOwned
<1>b. ASSUME UNCHANGED <<driver, files, run>>,
             pc \in {"plan", "unit", "write"}, pc' \in {"plan", "unit", "write"}
      PROVE  OwnerInv'
  BY <1>b, <1>c DEF OwnerInv
<1>1. ASSUME NEW m \in Machines, NEW explicit \in BOOLEAN, Start(m, explicit)
      PROVE  OwnerInv'
  <2>1. UNCHANGED files /\ pc' = "guard"
    BY <1>1 DEF Start
  <2>2. QED
    BY <2>1 DEF OwnerInv
<1>2. CASE Leaving \/ Abort
  BY <1>a, <1>2 DEF Leaving, Leave, Abort
<1>3. CASE Proceed
  <2>1. /\ UNCHANGED <<driver, files, run>> /\ pc' = "plan" /\ ~Missing
        /\ driver.guards => \A f \in Outputs : GuardAllows(f)
    BY <1>3 DEF Proceed
  <2>2. \A f \in Outputs : OutputOwned(f)
    BY <2>1, GuardedOutputs
  <2>3. QED
    BY <1>c, <2>1, <2>2 DEF OwnerInv
<1>4. CASE BeginStage \/ FinishStage \/ Omit \/ BeginWrite
  BY <1>b, <1>4 DEF BeginStage, FinishStage, UnitDone, Omit, BeginWrite, Writing
<1>5. CASE Measuring
  BY <1>b, <1>5, MeasuringKeeps
<1>d. CASE BreakOff
  BY <1>d, BrokenOff, WrittenOwned DEF OwnerInv, Recorded
<1>6. ASSUME Open \/ WriteRows
      PROVE  /\ UNCHANGED <<driver, run>> /\ Outputs' = Outputs /\ OutOfReach' = OutOfReach
             /\ \A f : Path(f)' = Path(f)
             /\ File \in Outputs /\ Path(File) \in Paths
             /\ \A f \in Outputs \ {File} : Path(f) \in Paths \ {Path(File)}
             /\ \A p \in Paths \ {Path(File)} : files'[p] = files[p]
  <2>1. UNCHANGED <<driver, run>> /\ pc \in {"write", "open"}
    BY <1>6 DEF Open, WriteRows
  <2>2. /\ File \in Outputs /\ Path(File) \in Paths
        /\ \A f \in Outputs \ {File} : Path(f) \in Paths \ {Path(File)}
    BY <2>1, FileIsOutput, PathIsPlace DEF PlanInv
  <2>3. \A p \in Paths \ {Path(File)} : files'[p] = files[p]
    BY <1>6 DEF Open, WriteRows, PlanInv
  <2>4. QED
    BY <2>1, <2>2, <2>3 DEF Path, Outputs, OutOfReach
<1>7. CASE Open
  <2>1. /\ pc = "write" /\ pc' = "open" /\ File' = File
    BY <1>7 DEF Open, File
  <2>2. files'[Path(File)] = Truncated
    BY <1>6, <1>7 DEF Open, PlanInv
  <2>5. \A f \in Outputs \ {File} : OutputOwned(f)'
    BY <1>6, <1>7, <2>1 DEF OwnerInv, OutputOwned
  <2>6. QED
    BY <1>6, <1>7, <2>1, <2>2, <2>5, WrittenOwned DEF OwnerInv, Recorded, Truncated
<1>8. CASE WriteRows
  <2>1. pc = "open" /\ pc' = "plan"
    BY <1>8 DEF WriteRows
  <2>2. \A f \in Outputs : OutputOwned(f)'
    BY <1>6, <1>8, <2>1, WrittenOwned DEF OwnerInv, OutputOwned
  <2>3. QED
    BY <1>6, <1>8, <2>1, <2>2, WrittenOwned DEF OwnerInv, Recorded
<1>9. CASE UNCHANGED vars
  <2>1. UNCHANGED <<driver, files, run>> /\ pc' = pc /\ File' = File /\ Path(File)' = Path(File)
    BY <1>9 DEF vars, File, Path
  <2>2. QED
    BY <1>c, <2>1 DEF OwnerInv
<1>10. QED
  BY <1>1, <1>2, <1>3, <1>4, <1>5, <1>7, <1>8, <1>9, <1>d, Steps

(* Only the three steps of a write change a file.                          *)
LEMMA FilesChange ==
  ASSUME TypeOK, PlanInv, [Next]_vars
  PROVE  Open \/ WriteRows \/ BreakOff \/ UNCHANGED files
<1>1. \A m \in Machines, explicit \in BOOLEAN : Start(m, explicit) => UNCHANGED files
  BY DEF Start
<1>2. Leaving \/ Proceed \/ BeginStage \/ FinishStage \/ Abort \/ Omit \/ BeginWrite
        => UNCHANGED files
  BY DEF Leaving, Proceed, BeginStage, FinishStage, Abort, Omit, BeginWrite
<1>3. Measuring => UNCHANGED files
  BY MeasuringKeeps
<1>4. UNCHANGED vars => UNCHANGED files
  BY DEF vars
<1>5. QED
  BY <1>1, <1>2, <1>3, <1>4, Steps

(* When the names tell the machines apart, no sequence of runs overwrites  *)
(* results measured on another GPU, but for the three ways round the guard *)
(* that OutOfReach names (csvio.guard_device).                             *)
THEOREM ForeignResults ==
  ASSUME NamesTellApart
  PROVE  Spec => ForeignResultKept
<1> DEFINE Kept == \A p \in Paths :
                     files'[p] # files[p] /\ files[p].whole /\ files[p].gpus # {} =>
                       run.machine.gpu \in files[p].measuredOn \/ OutOfReach
<1>1. Init => IInv /\ OwnerInv
  BY InitIInv, InitOwner
<1>2. IInv /\ OwnerInv /\ [Next]_vars => IInv' /\ OwnerInv'
  BY NextIInv, StepOwner DEF IInv
<1>3. IInv /\ OwnerInv /\ [Next]_vars => [Kept]_files
  <2> SUFFICES ASSUME IInv, OwnerInv, Next, NEW p \in Paths,
                      files'[p] # files[p], files[p].whole, files[p].gpus # {}
               PROVE  run.machine.gpu \in files[p].measuredOn \/ OutOfReach
    BY DEF vars
  <2> USE DEF progress
  <2>1. TypeOK /\ PlanInv
    BY DEF IInv
  <2>2. Open \/ WriteRows \/ BreakOff
    BY <2>1, FilesChange
  <2>3. p = Path(File)
    BY <2>1, <2>2, BrokenOff DEF Open, WriteRows, PlanInv
  <2>4. Open
    BY <2>2, <2>3 DEF WriteRows, BreakOff, OwnerInv
  <2>5. OutputOwned(File)
    BY <2>1, <2>4, FileIsOutput DEF Open, PlanInv, OwnerInv
  <2>6. QED
    BY <2>3, <2>5 DEF OutputOwned
<1>4. QED
  BY <1>1, <1>2, <1>3, PTL DEF Spec, ForeignResultKept
-----------------------------------------------------------------------------
(* Results measured on one's own device. *)

(* A file that records a device names, of each machine it was measured on, *)
(* something same_device recognises.                                       *)
AllowsOwner(f) ==
  \A m \in Machines :
    /\ LiveName(m) # NoName /\ m.gpu \in f.measuredOn
    /\ f.gpus # {} /\ f.gpus \cap {NoName, <<>>} = {}
    => \E recorded \in f.gpus : SameDevice(recorded, LiveName(m))

(* Names are sequences, and the committed files name their devices so that *)
(* same_device recognises them, however shortly.                           *)
CommittedRecognised ==
  /\ \E pieces : \A m \in Machines : m.gpu \in Seq(pieces)
  /\ \A c \in Committed : AllowsOwner(c)

(* The beginning of a name, and the name itself, is contained in it.       *)
LEMMA CutWithin ==
  ASSUME NEW pieces, NEW name \in Seq(pieces), NEW k \in 1 .. Len(name)
  PROVE  /\ Within(SubSeq(name, 1, k), name) /\ SubSeq(name, 1, k) # <<>>
         /\ Within(name, name)
<1>1. Len(name) \in Nat /\ k \in Nat /\ k >= 1 /\ k <= Len(name)
  OBVIOUS
<1>2. Len(SubSeq(name, 1, k)) = k /\ Len(SubSeq(name, 1, Len(name))) = Len(name)
  BY <1>1
<1>3. SubSeq(name, 1, Len(name)) = name
  OBVIOUS
<1>4. Within(SubSeq(name, 1, k), name)
  <2>1. 0 \in 0 .. Len(name) - Len(SubSeq(name, 1, k))
    BY <1>1, <1>2
  <2>2. SubSeq(name, 0 + 1, 0 + Len(SubSeq(name, 1, k))) = SubSeq(name, 1, k)
    BY <1>1, <1>2
  <2>3. QED
    BY <2>1, <2>2 DEF Within
<1>5. Within(name, name)
  <2>1. 0 \in 0 .. Len(name) - Len(name)
    BY <1>1
  <2>2. SubSeq(name, 0 + 1, 0 + Len(name)) = name
    BY <1>1, <1>3
  <2>3. QED
    BY <2>1, <2>2 DEF Within
<1>6. QED
  BY <1>1, <1>2, <1>4, <1>5

(* What a run leaves behind does not lock its own machine out.             *)
LEMMA WrittenAllowsOwner ==
  ASSUME CommittedRecognised, TypeOK, NEW f,
         \/ f.gpus = {}
         \/ f.gpus = DeviceColumn /\ f.measuredOn = {run.machine.gpu}
         \/ NoRows = FALSE /\ f.gpus \in CutColumns /\ f.measuredOn = {run.machine.gpu}
  PROVE  AllowsOwner(f)
<1> SUFFICES ASSUME NEW m \in Machines, LiveName(m) # NoName, m.gpu \in f.measuredOn,
                    f.gpus # {}, f.gpus \cap {NoName, <<>>} = {}
             PROVE  \E recorded \in f.gpus : SameDevice(recorded, LiveName(m))
  BY DEF AllowsOwner
<1>1. m.gpu = run.machine.gpu /\ LiveName(m) = m.gpu /\ m.gpu # <<>> /\ run.machine \in Machines
  BY NamesAreNotPlaces DEF TypeOK
<1>2. PICK pieces : \A n \in Machines : n.gpu \in Seq(pieces)
  BY DEF CommittedRecognised
<1>3. PICK recorded \in f.gpus :
        recorded \in DeviceColumn \/ \E n \in DeviceColumn : recorded \in Cuts(n)
  <2>1. CASE f.gpus = DeviceColumn
    BY <2>1
  <2>2. CASE NoRows = FALSE /\ f.gpus \in CutColumns
    <3> DEFINE lasts == {{}} \cup {{c} : c \in UNION {Cuts(n) : n \in DeviceColumn}}
    <3>0. CutColumns = {complete \cup last : complete \in {{}, DeviceColumn}, last \in lasts}
      BY <2>2 DEF CutColumns
    <3> HIDE DEF lasts
    <3>a. PICK complete \in {{}, DeviceColumn}, last \in lasts : f.gpus = complete \cup last
      BY <2>2, <3>0
    <3> USE DEF lasts
    <3>1. f.gpus = complete \cup last /\ last \in lasts /\ complete \in {{}, DeviceColumn}
      BY <3>a
    <3>2. \A c \in last : \E n \in DeviceColumn : c \in Cuts(n)
      BY <3>1
    <3>3. QED
      BY <3>1, <3>2
  <2>3. QED
    BY <2>1, <2>2
<1>4. PICK n \in DeviceColumn : recorded = n \/ recorded \in Cuts(n)
  BY <1>3
<1>5. n = m.gpu
  <2>1. n \in {<<>>, NoName, m.gpu}
    BY <1>1 DEF DeviceColumn, LiveName
  <2>2. n # <<>>
    <3>1. Cuts(<<>>) = {}
      BY DEF Cuts
    <3>2. QED
      BY <1>4, <3>1
  <2>3. n # NoName
    <3>1. NoName \in Seq({"none"})
      BY DEF NoName
    <3>2. Len(NoName) = 1
      BY DEF NoName
    <3>3. \A s \in Seq({"none"}) : SubSeq(s, 1, Len(s)) = s
      OBVIOUS
    <3>4. SubSeq(NoName, 1, 1) = NoName
      BY <3>1, <3>2, <3>3
    <3>5. \A k \in 1 .. 1 : k = 1
      OBVIOUS
    <3>6. Cuts(NoName) = {NoName}
      BY <3>2, <3>4, <3>5 DEF Cuts
    <3>7. QED
      BY <1>4, <3>6
  <2>4. QED
    BY <2>1, <2>2, <2>3
<1>6. m.gpu \in Seq(pieces) /\ Len(m.gpu) \in 1 .. Len(m.gpu)
  BY <1>1, <1>2
<1>7. recorded # <<>> /\ Within(recorded, m.gpu)
  BY <1>1, <1>4, <1>5, <1>6, CutWithin DEF Cuts
<1>8. QED
  BY <1>1, <1>7 DEF SameDevice

(* Each step keeps every file open to the machine that wrote it.           *)
LEMMA StepAllowsOwner ==
  ASSUME CommittedRecognised, IInv, \A p \in Paths : AllowsOwner(files[p]), [Next]_vars
  PROVE  \A p \in Paths : AllowsOwner(files'[p])
<1> USE DEF progress
<1>0. TypeOK /\ PlanInv
  BY DEF IInv
<1>1. ASSUME Open \/ WriteRows \/ BreakOff
      PROVE  \A p \in Paths : AllowsOwner(files'[p])
  <2>0. Path(File) \in Paths
    BY <1>0, <1>1, WrittenFile
  <2>1. \A p \in Paths \ {Path(File)} : files'[p] = files[p]
    BY <1>0, <1>1, BrokenOff DEF Open, WriteRows, PlanInv
  <2>2. AllowsOwner(files'[Path(File)])
    <3>1. CASE Open
      BY <1>0, <2>0, <3>1, WrittenAllowsOwner DEF Open, PlanInv, Truncated
    <3>2. CASE WriteRows
      <4>1. \/ files'[Path(File)].gpus = {}
            \/ /\ files'[Path(File)].gpus = DeviceColumn
               /\ files'[Path(File)].measuredOn = {run.machine.gpu}
        BY <1>0, <2>0, <3>2 DEF WriteRows, PlanInv
      <4>2. QED
        BY <1>0, <4>1, WrittenAllowsOwner
    <3>3. CASE BreakOff
      <4>1. PICK names \in CutColumns : files' = [files EXCEPT ![Path(File)] = CutShort(names)]
        BY <3>3, BrokenOff
      <4>2. files'[Path(File)] = CutShort(names)
        BY <1>0, <2>0, <4>1 DEF PlanInv
      <4>3. /\ CutShort(names).gpus = names
            /\ names # {} => CutShort(names).measuredOn = {run.machine.gpu}
        BY DEF CutShort, Truncated
      <4>4. names # {} => NoRows = FALSE
        BY DEF CutColumns, NoRows
      <4>5. QED
        BY <1>0, <4>2, <4>3, <4>4, WrittenAllowsOwner
    <3>4. QED
      BY <1>1, <3>1, <3>2, <3>3
  <2>3. QED
    BY <2>1, <2>2
<1>2. CASE UNCHANGED files
  BY <1>2
<1>3. Open \/ WriteRows \/ BreakOff \/ UNCHANGED files
  BY <1>0, FilesChange
<1>4. QED
  BY <1>1, <1>2, <1>3

(* On any machines, however the committed files spell their devices, no    *)
(* guarded driver is refused a file of its own device, a cut one included  *)
(* (csvio.same_device).                                                    *)
THEOREM OwnFilesAllowed ==
  ASSUME CommittedRecognised
  PROVE  Spec => []OwnFileAllowed
<1> DEFINE NobodyLockedOut == \A p \in Paths : AllowsOwner(files[p])
<1>1. Init => IInv /\ NobodyLockedOut
  <2> SUFFICES ASSUME Init
               PROVE  NobodyLockedOut
    BY InitIInv
  <2>1. PICK c \in Committed \cup {NoFile} :
          files = [p \in Paths |-> IF p[2] = <<"canonical">> THEN c ELSE NoFile]
    BY DEF Init
  <2>2. AllowsOwner(c) /\ AllowsOwner(NoFile)
    BY DEF CommittedRecognised, AllowsOwner, NoFile
  <2>3. QED
    BY <2>1, <2>2
<1>2. IInv /\ NobodyLockedOut /\ [Next]_vars => IInv' /\ NobodyLockedOut'
  BY NextIInv, StepAllowsOwner DEF AllowsOwner
<1>3. IInv /\ NobodyLockedOut => OwnFileAllowed
  <2> SUFFICES ASSUME IInv, NobodyLockedOut, pc = "guard", driver.guards, NEW f \in Outputs,
                      run.machine.gpu \in files[Path(f)].measuredOn,
                      files[Path(f)].gpus \cap {NoName, <<>>} = {}
               PROVE  GuardAllows(f)
    BY DEF OwnFileAllowed
  <2>1. /\ driver \in Drivers /\ Typical(driver) /\ run.machine \in Machines /\ f \in FileNames
    BY DriverFacts, Plans DEF IInv, TypeOK, Outputs
  <2>2. Path(f) \in Paths
    BY <2>1 DEF Typical, Path, Paths, Places
  <2>3. AllowsOwner(files[Path(f)])
    BY <2>2
  <2>4. QED
    BY <2>1, <2>3 DEF AllowsOwner, GuardAllows
<1>4. QED
  BY <1>1, <1>2, <1>3, PTL DEF Spec
=============================================================================
