------------------------- MODULE MeasurementDriver -------------------------
(***************************************************************************)
(* The measurement drivers of scripts/ and the results files they write    *)
(* through bench/csvio.py.                                                 *)
(*                                                                         *)
(* A driver guards its output file, walks a grid of automata, compares     *)
(* each backend with the CPU reference (bench/oracle.py) before it times   *)
(* it, and replaces its file with the rows it collected.  Its runs follow  *)
(* one another, on one machine or on several that share the files through  *)
(* the repository.  A unit of the grid is what a driver decides about at   *)
(* once: one size, or one automaton; the order of comparisons and          *)
(* measurements inside a unit is left open.                                *)
(*                                                                         *)
(* csvio compares device names reduced to their letters and digits.  A     *)
(* name is that reduction, cut into pieces: into its characters, or into   *)
(* longer pieces where the names of an instance do not begin, end or meet  *)
(* inside one.  Then one name's pieces occur in another's exactly when its *)
(* characters do.                                                          *)
(***************************************************************************)
EXTENDS Naturals, Sequences, FiniteSets

CONSTANTS
  Machines,   (* records [gpu, torch]: the name of the device, <<>> without
                 one, and whether torch is installed to say it            *)
  Committed,  (* what the canonical files may hold at the start           *)
  Backends,   (* the GPU backends; "cuda" is the 1.0x reference           *)
  NUnits,     (* bound on the units of a driver's grid                    *)
  MaxRuns     (* bound on the runs                                        *)

ASSUME DriverAssumption ==
  /\ "cuda" \in Backends
  /\ NUnits \in Nat \ {0, 1}
  /\ MaxRuns \in Nat
  /\ Machines # {}
  /\ \A m \in Machines : m.gpu = <<>> \/ Len(m.gpu) > 1
  /\ \A c \in Committed :
       c \in [exists : {TRUE}, whole : {TRUE}, empty : {FALSE},
              gpus : SUBSET c.gpus, measuredOn : SUBSET c.measuredOn]

-----------------------------------------------------------------------------
(***************************************************************************)
(* The drivers, by what tells their main functions apart:                  *)
(*   guards   guard_device is called on every output file first            *)
(*   naming   "canonical", or "slug": the file is named after the device   *)
(*   needs    leaves with 0 without: the device's "name", a "backend" or   *)
(*            "nothing"                                                    *)
(*   gate     the automaton that is compared before one is timed: its      *)
(*            "own", the first "seed" of its size, a "probe", or "none"    *)
(*   seeds    the automata of a unit                                       *)
(*   differs  what a disagreement does: "raise", "skip" the unit,          *)
(*            "exclude" the backend                                        *)
(*   fails    what an exception of a kernel does: "raise", "skip" the      *)
(*            measurement, "exclude" the backend if it is being compared   *)
(*   lenient  the unit from which anything that goes wrong ends the stage  *)
(*   empty    what no rows do: "write" them, "exit" with 1, "omit" the file*)
(*   column   what the rows record as the device: "name", "none" of it     *)
(*   plan     the order in which its files are measured and written        *)
(***************************************************************************)
OneFile == <<<<"measure", "main">>, <<"write", "main">>>>

Usual ==
  [guards |-> TRUE, naming |-> "canonical", needs |-> "nothing",
   gate |-> "own", seeds |-> {0}, differs |-> "raise", fails |-> "raise",
   lenient |-> NUnits + 1, empty |-> "write", column |-> "name", plan |-> OneFile]

BenchWorklistShared == Usual
DfaLatchControl     == [Usual EXCEPT !.needs = "name"]
RegretMultiseed     == [Usual EXCEPT !.seeds = {0, 1}]
SweepDfa == [Usual EXCEPT !.gate = "seed", !.seeds = {0, 1}, !.differs = "skip"]
SweepTechniques ==
  [Usual EXCEPT !.needs = "backend", !.fails = "skip", !.empty = "exit"]

BenchWorklistWarp ==
  [Usual EXCEPT !.lenient = 2,
     !.plan = <<<<"measure", "batch">>, <<"measure", "main">>,
                <<"write", "main">>, <<"write", "batch">>>>]

RunAnmlzoo == [Usual EXCEPT !.guards = FALSE, !.naming = "slug or out", !.needs = "name"]

SecondGpu ==
  [Usual EXCEPT !.guards = FALSE, !.naming = "slug", !.needs = "name",
     !.gate = "probe", !.seeds = {0, 1}, !.differs = "exclude", !.fails = "exclude",
     !.empty = "omit", !.column = "none",
     !.plan = <<<<"measure", "main">>, <<"write", "main">>,
                <<"measure", "dfa">>, <<"write", "dfa">>>>]

(* Two Triton kernels of its own, with no automaton to compare them on. *)
AblateScalarControl == [Usual EXCEPT !.needs = "name", !.gate = "none"]

(* gpufsm sweep --out: times whatever is available, the CPU included. *)
CliSweep == [Usual EXCEPT !.guards = FALSE, !.gate = "none", !.column = "none"]

Drivers ==
  {BenchWorklistShared, DfaLatchControl, RegretMultiseed, SweepDfa, SweepTechniques,
   BenchWorklistWarp, RunAnmlzoo, SecondGpu, AblateScalarControl, CliSweep}

-----------------------------------------------------------------------------
VARIABLES
  driver,     (* fixed: the driver whose runs these are                    *)
  files,      (* the results files, by path; "whole": not cut short        *)
  run,        (* what is fixed for the run: [machine, explicit]            *)
  pc,         (* "idle", "guard", "unit", "plan", "write", "open"          *)
  stage,      (* index into the plan                                       *)
  unit,       (* the unit being measured                                   *)
  toGate,     (* its <<automaton, backend>> still to be compared           *)
  toTime,     (* its <<automaton, backend>> still to be timed              *)
  usable,     (* the backends that take part                               *)
  agreed,     (* history: the <<file, automaton, backend>> that agreed     *)
  rows,       (* per file, the <<automaton, backend>> behind its rows      *)
  fault,      (* "none", or a sticky fault of the CUDA context, "known" or
                 "other" by whether its message is one main looks for      *)
  before,     (* history: the files when the run began                     *)
  outcome,    (* how the last run ended: with an exit code, an exception   *)
              (* of the program's own, an OSError of its output, or killed *)
  runs        (* the runs so far                                           *)

progress == <<stage, unit, toGate, toTime, usable, agreed, rows, fault>>
vars == <<driver, files, run, pc, progress, before, outcome, runs>>

NoFile == [exists |-> FALSE, whole |-> TRUE, gpus |-> {}, measuredOn |-> {}, empty |-> TRUE]

FileNames == {"main", "batch", "dfa"}
Names == {m.gpu : m \in Machines}
Places == Names \cup {<<"canonical">>, <<"elsewhere">>}
Paths == FileNames \X Places

(* environment()["gpu"]: the name of device 0 as torch gives it. *)
NoName == <<"none">>
LiveName(m) == IF m.torch /\ m.gpu # <<>> THEN m.gpu ELSE NoName

(* driver_out, and the paths built from the device's slug. *)
Path(f) ==
  <<f, CASE driver.naming = "slug"                            -> LiveName(run.machine)
         [] driver.naming = "slug or out" /\ ~run.explicit    -> LiveName(run.machine)
         [] driver.naming = "slug or out" /\ run.explicit     -> <<"elsewhere">>
         [] driver.naming = "canonical"                       ->
              IF run.explicit THEN <<"elsewhere">> ELSE <<"canonical">>>>

Outputs == {driver.plan[k][2] : k \in DOMAIN driver.plan}

(* same_device: one reduction is contained in the other. *)
Within(s, t) ==
  \E k \in 0 .. Len(t) - Len(s) : SubSeq(t, k + 1, k + Len(s)) = s
SameDeviceInsideOnlyMutant(recorded, live) ==
  /\ recorded # <<>> /\ live # <<>>
  /\ Within(live, recorded)

SameDevice(recorded, live) ==
  /\ recorded # <<>> /\ live # <<>>
  /\ Within(recorded, live) \/ Within(live, recorded)

(* guard_device lets the run overwrite the file. *)
GuardChecksNothingMutant(f) == TRUE
GuardAllows(f) ==
  LET gpus == files[Path(f)].gpus
      live == LiveName(run.machine)
  IN \/ live = NoName
     \/ gpus = {}
     \/ \E recorded \in gpus : SameDevice(recorded, live)

(* What the rows say of the device.  sweep_techniques asks torch itself and
   writes "?", which has neither letters nor digits. *)
DeviceColumn ==
  IF driver.column = "none" THEN {}
  ELSE IF driver = SweepTechniques /\ LiveName(run.machine) = NoName THEN {<<>>}
  ELSE {LiveName(run.machine)}

Init ==
  /\ driver \in Drivers
  /\ files \in {[p \in Paths |-> IF p[2] = <<"canonical">> THEN c ELSE NoFile] :
                  c \in Committed \cup {NoFile}}
  /\ run = [machine |-> CHOOSE m \in Machines : TRUE, explicit |-> FALSE]
  /\ pc = "idle"
  /\ stage = 1
  /\ unit = 0
  /\ toGate = {}
  /\ toTime = {}
  /\ usable = Backends
  /\ agreed = {}
  /\ rows = [f \in FileNames |-> {}]
  /\ fault = "none"
  /\ before = files
  /\ outcome = "none"
  /\ runs = 0

(* A process begins with nothing collected; what it collects goes with it. *)
NothingCollected ==
  /\ stage' = 1
  /\ unit' = 0
  /\ toGate' = {}
  /\ toTime' = {}
  /\ usable' = Backends
  /\ agreed' = {}
  /\ rows' = [f \in FileNames |-> {}]

Start(m, explicit) ==
  /\ pc = "idle"
  /\ runs < MaxRuns
  /\ run' = [machine |-> m, explicit |-> explicit]
  /\ pc' = "guard"
  /\ NothingCollected
  /\ fault' = "none"
  /\ before' = files
  /\ outcome' = "none"
  /\ runs' = runs + 1
  /\ UNCHANGED <<driver, files>>

Leave(how) ==
  /\ pc' = "idle"
  /\ outcome' = how
  /\ NothingCollected
  /\ UNCHANGED <<driver, run, fault, before, runs>>

(* WrongDevice. *)
Refuse ==
  /\ pc = "guard"
  /\ driver.guards
  /\ \E f \in Outputs : ~GuardAllows(f)
  /\ Leave("raised")
  /\ UNCHANGED files

Missing ==
  \/ driver.needs = "name" /\ LiveName(run.machine) = NoName
  \/ driver.needs = "backend" /\ run.machine.gpu = <<>>

(* "SKIP: no CUDA device", "no GPU backend". *)
SkipRun ==
  /\ pc = "guard"
  /\ driver.guards => \A f \in Outputs : GuardAllows(f)
  /\ Missing
  /\ Leave("exit 0")
  /\ UNCHANGED files

Proceed ==
  /\ pc = "guard"
  /\ driver.guards => \A f \in Outputs : GuardAllows(f)
  /\ ~Missing
  /\ pc' = "plan"
  /\ UNCHANGED <<driver, files, run, progress, before, outcome, runs>>

-----------------------------------------------------------------------------
(* The grid. *)

File == driver.plan[stage][2]
Probe == <<0, 0>>
Lenient == File = "main" /\ unit >= driver.lenient

Automata(n) == {<<n, s>> : s \in driver.seeds}

(* The automaton an automaton's timing is gated on. *)
GatedOn(a) ==
  CASE driver.gate = "own"   -> a
    [] driver.gate = "seed"  -> <<a[1], 0>>
    [] driver.gate = "probe" -> Probe

(* The stage begins: _usable compares every backend on the probe. *)
BeginStage ==
  /\ pc = "plan"
  /\ stage <= Len(driver.plan)
  /\ driver.plan[stage][1] = "measure"
  /\ pc' = "unit"
  /\ unit' = 0
  /\ usable' = Backends
  /\ toGate' = IF driver.gate = "probe" THEN {Probe} \X Backends ELSE {}
  /\ toTime' = {}
  /\ UNCHANGED <<driver, files, run, stage, agreed, rows, fault, before, outcome, runs>>

UnitDone == pc = "unit" /\ toGate = {} /\ toTime = {}

StageOverPastEndMutant ==
  \/ unit > NUnits
  \/ driver.gate = "probe" /\ File = "main" /\ "cuda" \notin usable

(* "CUDA is the 1.0x reference and is not usable here". *)
StageOver ==
  \/ unit = NUnits
  \/ driver.gate = "probe" /\ File = "main" /\ "cuda" \notin usable

(* The next unit: what it compares and what it times.  regret_multiseed
   draws its automata again and drops the degenerate ones. *)
BeginUnit ==
  /\ UnitDone
  /\ ~StageOver
  /\ unit' = unit + 1
  /\ \E kept \in SUBSET Automata(unit + 1) :
       /\ driver # RegretMultiseed => kept = Automata(unit + 1)
       /\ kept # {}
       /\ toTime' = kept \X usable
  /\ toGate' = IF driver.gate \in {"own", "seed"}
                 THEN {<<GatedOn(p[1]), p[2]>> : p \in toTime'} ELSE {}
  /\ UNCHANGED <<driver, files, run, pc, stage, usable, agreed, rows, fault, before, outcome, runs>>

(* "every seed drew a degenerate automaton": exit 1. *)
AllDegenerate ==
  /\ UnitDone
  /\ ~StageOver
  /\ driver = RegretMultiseed
  /\ Leave("exit 1")
  /\ UNCHANGED files

(* The stage goes on without the unit, or ends; earlier units keep their
   rows. *)
DropUnit ==
  /\ toGate' = {}
  /\ toTime' = {}
  /\ rows' = [rows EXCEPT ![File] = {q \in @ : q[1][1] # unit}]
EndStage == DropUnit /\ unit' = NUnits

Agree(p) ==
  /\ pc = "unit"
  /\ p \in toGate
  /\ fault = "none" /\ run.machine.gpu # <<>>
  /\ toGate' = toGate \ {p}
  /\ agreed' = agreed \cup {<<File, p[1], p[2]>>}
  /\ UNCHANGED <<driver, files, run, pc, stage, unit, toTime, usable, rows, fault, before, outcome, runs>>

(* compare finds a verdict that differs. *)
DisagreeKeptMutant(p) ==
  /\ pc = "unit"
  /\ p \in toGate
  /\ fault = "none" /\ run.machine.gpu # <<>>
  /\ IF driver.differs = "raise" /\ ~Lenient
       THEN Leave("raised")
       ELSE /\ toGate' = toGate \ {p}
            /\ UNCHANGED <<driver, run, pc, stage, unit, toTime, usable, agreed, rows, fault, before, outcome, runs>>
  /\ UNCHANGED files

Disagree(p) ==
  /\ pc = "unit"
  /\ p \in toGate
  /\ fault = "none" /\ run.machine.gpu # <<>>
  /\ IF driver.differs = "raise" /\ ~Lenient
       THEN Leave("raised")
       ELSE /\ CASE driver.differs = "skip"    -> DropUnit /\ UNCHANGED <<unit, usable>>
                 [] driver.differs = "exclude" -> /\ usable' = usable \ {p[2]}
                                                  /\ toGate' = toGate \ {p}
                                                  /\ UNCHANGED <<unit, toTime, rows>>
                 [] Lenient                    -> EndStage /\ UNCHANGED usable
            /\ UNCHANGED <<driver, run, pc, stage, agreed, fault, before, outcome, runs>>
  /\ UNCHANGED files

(* Where each automaton is its own gate, comparing and timing alternate. *)
Ready(p) == p \in toTime \ toGate /\ (driver.gate = "own" \/ toGate = {})
Reached(p) == p \in toGate \/ Ready(p)

(* A kernel raises, because of a fault it meets or an earlier one left. *)
Faults == IF fault = "none" THEN {"none", "known", "other"} ELSE {fault}

DropPair(p) == toGate' = toGate \ {p} /\ toTime' = toTime \ {p}

FailIgnoresPoisonMutant(p) ==
  /\ pc = "unit"
  /\ Reached(p)
  /\ fault' \in Faults
  /\ CASE driver.fails = "skip" -> DropPair(p) /\ UNCHANGED <<unit, usable, rows>>
       [] driver.fails = "exclude" /\ p \in toGate ->
            /\ usable' = usable \ {p[2]}
            /\ toGate' = toGate \ {p}
            /\ UNCHANGED <<unit, toTime, rows>>
       [] Lenient -> EndStage /\ UNCHANGED usable
       [] OTHER   -> FALSE
  /\ UNCHANGED <<driver, files, run, pc, stage, agreed, before, outcome, runs>>

Fail(p) ==
  /\ pc = "unit"
  /\ Reached(p)
  /\ fault' \in Faults
  /\ ~(driver = SweepTechniques /\ fault' = "known")
  /\ CASE driver.fails = "skip" -> DropPair(p) /\ UNCHANGED <<unit, usable, rows>>
       [] driver.fails = "exclude" /\ p \in toGate ->
            /\ usable' = usable \ {p[2]}
            /\ toGate' = toGate \ {p}
            /\ UNCHANGED <<unit, toTime, rows>>
       [] Lenient -> EndStage /\ UNCHANGED usable
       [] OTHER   -> FALSE
  /\ UNCHANGED <<driver, files, run, pc, stage, agreed, before, outcome, runs>>

(* Nobody catches it, or it is of a type sweep_techniques does not catch. *)
Raise ==
  /\ pc = "unit"
  /\ toGate \cup toTime # {}
  /\ driver.fails = "exclude" => toGate = {}
  /\ ~Lenient
  /\ Leave("raised")
  /\ UNCHANGED files

(* "ABORT: CUDA context poisoned": sweep_techniques recognises the message. *)
Abort ==
  /\ pc = "unit"
  /\ driver = SweepTechniques
  /\ toGate \cup toTime # {}
  /\ fault \in {"none", "known"}
  /\ pc' = "idle"
  /\ outcome' = "exit 1"
  /\ NothingCollected
  /\ fault' = "known"
  /\ UNCHANGED <<driver, files, run, before, runs>>

(* A measurement; sweep_techniques drops one without a positive sample. *)
Measure(p) ==
  /\ pc = "unit"
  /\ Ready(p)
  /\ fault = "none" /\ (run.machine.gpu # <<>> \/ driver.gate = "none")
  /\ toTime' = toTime \ {p}
  /\ rows' = [rows EXCEPT ![File] = @ \cup {p}]
  /\ UNCHANGED <<driver, files, run, pc, stage, unit, toGate, usable, agreed, fault, before, outcome, runs>>

FinishStage ==
  /\ UnitDone
  /\ StageOver
  /\ pc' = "plan"
  /\ stage' = stage + 1
  /\ UNCHANGED <<driver, files, run, unit, toGate, toTime, usable, agreed, rows, fault, before, outcome, runs>>

-----------------------------------------------------------------------------
(* Writing.  write_rows checks the schema of every row, then opens the file,
   which truncates it, then writes. *)

Writing == pc = "plan" /\ stage <= Len(driver.plan) /\ driver.plan[stage][1] = "write"
NoRows == rows[File] = {}

(* --no-csv, --only, and `gpufsm sweep` without --out. *)
OnlyPrint ==
  /\ Writing
  /\ driver \in {RunAnmlzoo, CliSweep}
  /\ Leave("exit 0")
  /\ UNCHANGED files

(* "no rows measured" is exit 1; second_gpu leaves the file out. *)
NothingToWrite ==
  /\ Writing
  /\ NoRows
  /\ \/ driver.empty = "exit" /\ Leave("exit 1")
     \/ /\ driver.empty = "omit"
        /\ stage' = stage + 1
        /\ UNCHANGED <<driver, run, pc, unit, toGate, toTime, usable, agreed, rows, fault, before, outcome, runs>>
  /\ UNCHANGED files

BeginWriteEmptyMutant ==
  /\ Writing
  /\ pc' = "write"
  /\ UNCHANGED <<driver, files, run, progress, before, outcome, runs>>

BeginWrite ==
  /\ Writing
  /\ ~NoRows \/ driver.empty = "write"
  /\ pc' = "write"
  /\ UNCHANGED <<driver, files, run, progress, before, outcome, runs>>

Truncated ==
  [exists |-> TRUE, whole |-> FALSE, gpus |-> {}, measuredOn |-> {}, empty |-> TRUE]

(* write_rows meets a row with a key outside the schema. *)
RefuseRowAfterOpenMutant ==
  /\ pc = "write"
  /\ driver # CliSweep
  /\ files' = [files EXCEPT ![Path(File)] = Truncated]
  /\ Leave("raised")

RefuseRow ==
  /\ pc = "write"
  /\ driver # CliSweep
  /\ Leave("raised")
  /\ UNCHANGED files

(* No directory, or no file in it that can be written. *)
OpenFails ==
  /\ pc = "write"
  /\ Leave("OSError")
  /\ UNCHANGED files

Open ==
  /\ pc = "write"
  /\ files' = [files EXCEPT ![Path(File)] = Truncated]
  /\ pc' = "open"
  /\ UNCHANGED <<driver, run, progress, before, outcome, runs>>

WriteRows ==
  /\ pc = "open"
  /\ files' = [files EXCEPT ![Path(File)] =
       [exists |-> TRUE, whole |-> TRUE,
        gpus |-> IF NoRows THEN {} ELSE DeviceColumn,
        measuredOn |-> IF NoRows THEN {} ELSE {run.machine.gpu},
        empty |-> NoRows]]
  /\ pc' = "plan"
  /\ stage' = stage + 1
  /\ UNCHANGED <<driver, run, unit, toGate, toTime, usable, agreed, rows, fault, before, outcome, runs>>

(* What a file cut short names as its device: nothing, or the device of its
   complete rows, and perhaps the first pieces of it in the row it ends in. *)
Cuts(name) == {SubSeq(name, 1, k) : k \in 1 .. Len(name)}
CutColumns ==
  IF NoRows THEN {{}}
  ELSE {complete \cup last : complete \in {{}, DeviceColumn},
                            last \in {{}} \cup {{c} : c \in UNION {Cuts(n) : n \in DeviceColumn}}}

CutShort(names) ==
  [Truncated EXCEPT !.gpus = names,
                    !.measuredOn = IF names = {} THEN {} ELSE {run.machine.gpu}]

(* The disk is full, the file does not flush, or the process is killed, when
   any part of the file is out.  write_csv has not checked its rows before. *)
BreakOff ==
  /\ pc = "open"
  /\ \E names \in CutColumns :
       files' = [files EXCEPT ![Path(File)] = CutShort(names)]
  /\ \/ Leave("OSError")
     \/ Leave("crashed")
     \/ driver = CliSweep /\ Leave("raised")

Finish ==
  /\ pc = "plan"
  /\ stage > Len(driver.plan)
  /\ Leave("exit 0")
  /\ UNCHANGED files

(* The process is killed with no file open. *)
Crash ==
  /\ pc \notin {"idle", "open"}
  /\ Leave("crashed")
  /\ UNCHANGED files

Next ==
  \/ \E m \in Machines, explicit \in BOOLEAN : Start(m, explicit)
  \/ Refuse \/ SkipRun \/ Proceed
  \/ BeginStage \/ BeginUnit \/ AllDegenerate \/ FinishStage
  \/ \E p \in toGate : Agree(p) \/ Disagree(p)
  \/ \E p \in toGate \cup toTime : Fail(p)
  \/ Raise \/ Abort
  \/ \E p \in toTime : Measure(p)
  \/ OnlyPrint \/ NothingToWrite \/ BeginWrite \/ RefuseRow \/ OpenFails \/ Open \/ WriteRows
  \/ Finish \/ BreakOff \/ Crash

Spec == Init /\ [][Next]_vars

-----------------------------------------------------------------------------
Recordable ==
  Names \cup {NoName, <<>>} \cup (UNION {c.gpus : c \in Committed})
        \cup (UNION {Cuts(n) : n \in Names \cup {NoName}})

TypeOK ==
  /\ driver \in Drivers
  /\ \A p \in Paths :
       /\ files[p].gpus \subseteq Recordable
       /\ {files[p].exists, files[p].whole, files[p].empty} \subseteq BOOLEAN
  /\ run.machine \in Machines
  /\ pc \in {"idle", "guard", "plan", "unit", "write", "open"}
  /\ stage \in 1 .. Len(driver.plan) + 1
  /\ unit \in 0 .. NUnits
  /\ toGate \cup toTime \subseteq ((0 .. NUnits) \X {0, 1}) \X Backends
  /\ usable \subseteq Backends
  /\ fault \in {"none", "known", "other"}
  /\ runs \in 0 .. MaxRuns

(* What a driver is about to write was measured with a kernel that agreed  *)
(* with the CPU reference in this run, on the automaton the driver gates   *)
(* on: its own automaton, the first seed of its size (sweep_dfa), or one   *)
(* probe for the whole grid (second_gpu).  oracle.py: "nothing reports a   *)
(* throughput before it agrees with the oracle".  `gpufsm sweep` and       *)
(* ablate_scalar_control, whose kernels simulate no automaton, compare     *)
(* nothing.                                                                *)
RowsWereGated ==
  pc \in {"write", "open"} /\ driver.gate # "none" =>
    \A r \in rows[File] : <<File, GatedOn(r[1]), r[2]>> \in agreed

(* A run on one GPU does not touch a whole file of results measured on     *)
(* another, however runs on several machines follow one another            *)
(* (guard_device: "Refuse to overwrite a committed result that was         *)
(* measured on another GPU").  Outside the guard's reach: a machine whose  *)
(* device nobody names, the two commands that write wherever --out says,   *)
(* a file that records no device, and one cut short inside the device's    *)
(* name, whose beginning other names may contain.                          *)
OutOfReach ==
  \/ LiveName(run.machine) = NoName
  \/ driver = CliSweep
  \/ driver = RunAnmlzoo /\ run.explicit
ForeignResultKept ==
  [][\A p \in Paths :
       files'[p] # files[p] /\ files[p].whole /\ files[p].gpus # {} =>
         run.machine.gpu \in files[p].measuredOn \/ OutOfReach]_files

(* However a run ends, every file is as the run found it or completely     *)
(* rewritten, but for one: the file it was writing when the output failed  *)
(* with an OSError or the process was killed.  An exception of the         *)
(* program's own, WrongDevice, a mismatch, a kernel or a row outside the   *)
(* schema ("a row with an unexpected key is an error", csvio.py), costs    *)
(* nothing, and a driver of two files never loses both.  `gpufsm sweep`    *)
(* writes through write_csv, which opens before its rows are checked.      *)
LossConfined ==
  pc = "idle" =>
    \E q \in Paths :
      \A p \in Paths :
        \/ files[p] = before[p]
        \/ files[p].exists /\ files[p].whole
        \/ p = q /\ (outcome \in {"OSError", "crashed"} \/ driver = CliSweep)

(* The guard refuses no machine the file it wrote itself, whole or cut     *)
(* short wherever a write broke off, when the file says anything of its    *)
(* device (same_device: equality "would call the same card two devices").  *)
(* A file from before torch was installed, which records "(none)" or "?",  *)
(* is another matter.                                                      *)
OwnFileAllowed ==
  pc = "guard" /\ driver.guards =>
    \A f \in Outputs :
      /\ run.machine.gpu \in files[Path(f)].measuredOn
      /\ files[Path(f)].gpus \cap {NoName, <<>>} = {}
      => GuardAllows(f)

(* A sweep whose CUDA context is poisoned by a fault it recognises writes  *)
(* nothing at all: "Abort the sweep ... rather than emit a half/empty CSV" *)
(* (sweep_techniques.main).                                                *)
PoisonedSweepWritesNothing ==
  driver = SweepTechniques /\ fault = "known" => files = before

(* A finished file without rows replaces results only when sweep_dfa found *)
(* every size of its grid in disagreement with the reference: its main     *)
(* writes what is left, which then is nothing, and exits with 0.           *)
OnlyDfaSweepErases ==
  \A p \in Paths :
    files[p].exists /\ files[p].whole /\ files[p].empty => driver = SweepDfa
=============================================================================
