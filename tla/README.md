# Verification of gpufsm

TLA+ models of the finite-automaton simulators of `gpufsm` (the package under
`src/gpufsm`), of the machinery that decides which of them run and whether they are
right, with proofs for every instance of the safety properties that model checking finds
on small ones. A path below is relative to the repository.

## 1. Inventory

`gpufsm` runs one algorithm, *latch-first-match* simulation of an NFA (or DFA), on many
backends, and measures what each costs. Nothing it reports means anything unless every
backend gives the verdict of the oracle, `reference.simulate`: `(accepted, match_len)`,
where `match_len` is the number of bytes consumed when an accepting state is first active.

| Component | State | Operations | Interacts with | What makes it correct |
|---|---|---|---|---|
| NFA and builder (`core/nfa.py`) | states, edges, start; frozen CSR after `build` | `add_state`, `add_transition`, `add_epsilon`, `set_*`, `build` | consumed by every simulator | no dangling edge; CSR holds exactly the added edges |
| Oracle (`reference.py`) | active set, position | `simulate`, `epsilon_closure` | everything is compared with it | active set = what the graph reaches; shortest match |
| CPU bitmap spec (`core/bitmap.py`) | big-int masks | `BitmapProgram.run` | executor of the CPU backend | equals the oracle |
| CUDA full scan (`dense.cu`, `bitpacked.cu`) | bitmaps per string | kernels, single and batched, shared-CSR and asynchronous hosts | `backends/cuda/nfa.py` through pybind | equals the oracle; `num_states` passes suffice; staging barrier; pipeline complete |
| CUDA worklists (`worklist_register.cu`, `worklist_global.cu`) | bitmaps or id arrays, frontier, visited | thread-, warp- and block-level kernels | as above | equals the oracle; no race between lanes; arrays within their slots |
| CUDA scopes (`include/common.cuh`) | device pointers, pinned pages, streams | RAII `own`/`create`, destructors, `CUDA_CHECK` | every host function | nothing leaked or freed too early on any error path |
| Triton kernels (`backends/triton`) | as the CUDA ones | four NFA kernels, one DFA kernel | torch, Triton | equals the oracle; the latch survives a loop that cannot be left |
| Warp kernels (`backends/warp`) | one 64-bit set | one NFA kernel, one DFA kernel | Warp | equals the oracle |
| Registry (`core/registry.py`, `backends/*/__init__.py`) | `_REGISTRY`, `_AVAILABILITY`, `_DEFAULTS`, `IMPORT_ERRORS` | import, `register`, `register_availability`, `is_available`, `get_factory` | `api`, `cli`, the gate | a broken backend is reported, never half present in silence |
| Oracle gate (`scripts/oracle_gate.py`, `bench/oracle.py`) | counters, missing list | availability pass, walk, exit code | registry, every kernel | green only for what was verified |
| Dataset cache (`io/datasets.py`) | `<name>`, `<name>.part` on disk | `ensure`, `verify` | network, other processes, tests and scripts | returns only the pinned bytes; survives crashes |
| DFA (`core/dfa.py`, `dfa.cu`, `*/dfa.py`) | dense table | `DFABuilder`, gather kernels | as the NFA | equals `simulate_dfa`; unset edges go to the dead state |
| Packing (`core/packing.py`) | flat input, offsets, words | `pack_inputs`, `pack_accept` | every batched executor | string i keeps its bytes; int32 is wide enough |
| API and results (`api.py`, `core/result.py`) | executor, batch results | `run`, `run_batch`, `benchmark` | registry, executors | one kernel time per batch |
| ANML reader (`io/anml.py`) | element graph | `parse_symbol_set`, `load_anml` | NFA builder | byte sets; no byte mistaken for the wildcard |
| Results files (`bench/csvio.py`, `bench/sweep.py`) | CSV on disk | `guard_device`, `same_device`, `write_rows`, `write_csv` | every driver; other machines through the repository | results of another device survive; a failed run destroys nothing |
| Experiment scripts (`scripts/*.py`) | usable backends, rows, the CUDA context | guard, gate, measure, write | oracle gate, executors, results files | only gated numbers are written; a poisoned sweep writes nothing |
| Command line (`cli.py`) | text | `verify`, `sweep`; `env`, `list`, `bench` print | registry, oracle, results files | `verify` is green only for what it ran |
| Timing, cost model, generators, figures | floats, random inputs | | | numeric; not discrete behaviour |

What is hard here:

- **interleaving**: the 32 lanes of a warp over shared bitmaps; four CUDA streams against
  the host; two processes in one cache directory;
- **incremental state**: the compact worklist clears only the bits it believes are set;
- **error paths**: a throw while copies are in flight; an import that fails half way;
- **crash and restart**: a download killed at any block, a driver killed at any line;
- **shared results**: one set of CSV files, written from several machines;
- **two paths, one contract**: executors with a `run_batch` of their own and the loop that
  stands in for it must return the same thing, times included;
- **many loops, one verdict**: fifteen hand-written simulation loops with three different
  closure algorithms, a table, and three ways of leaving the loop.

`PROJECT.json` lists each hazard at the line where it bites.

## 2. Modules

```
   Automaton <--- NfaBuilder <--- AnmlReader ---+
       |                                        |
 LatchFirstMatch <- implemented by - SequentialSimulators <--- AnmlSimulation
 (the contract)  <------------------ CompactWorklist
                 <------------------ WarpWorklist

 BackendRegistry <--- OracleGate        AsyncPipeline <--- BatchCall
 DatasetCache                           MeasurementDriver
```

The proofs about a module `M` are in `MProofs`, which extends it: `LatchFirstMatch`,
`SequentialSimulators`, `CompactWorklist`, `WarpWorklist`, `OracleGate` (with the registry),
`BatchCall` (with the pipeline), `DatasetCache` and `MeasurementDriver` have one. What is
proved of `NfaBuilder`, `AnmlReader` and `AnmlSimulation` is in `SequentialSimulatorsProofs`,
behind the refinement it rests on.

**Automaton** is the built NFA as edge sets, with `Move`, `EpsSucc` and the epsilon
closure *defined* as the least closed superset. CSR order is not kept: the modules that
follow edges one at a time do so in every order.

**LatchFirstMatch** is `reference.simulate`, one action per line of its loop: `Begin` (the
start closure), `Latch`, `Consume`, `Break` (nothing fires), `Exhaust`. `breaks` says
whether the early exit exists: the oracle and `BitmapProgram.run` have it, kernels do not.
It is the abstract specification. It is itself judged against a definition that does not
simulate: `Reached`, the least set of (state, position) pairs closed under the edges.

**SequentialSimulators** refines the closure step into the three loops of the one-thread
simulators, chosen by a record that names each function: a DFS stack (`reference`),
frontier rounds (`bitmap`, `worklist_global_kernel`, the register worklist, Triton
`worklist`), and `num_states` in-place passes (`dense.cu`, `bitpacked.cu`, Triton `dense`,
`bitpacked`, `multistream`, Warp). Triton's kernels also run on behind `done == 0` after
the first match (`SkipByte`). A fourth kind walks the dense table that `DFABuilder.build`
makes: `Trans` is the table with its dead state, which is one past the states the caller
added, and a table walk implements the contract on the *partial* automaton the caller
built: in the dead state the contract has an empty active set.

**CompactWorklist** is `worklist_compact_kernel` edge by edge: the frontier arrays FA and
FB, the in-place queue of `eps_closure_compact`, the visited bitmap that is zeroed once.
The swap of FA and FB is a change of role: the array being filled is `queue`, the one that
was examined is `front`. The bitmap starts with arbitrary contents.

**WarpWorklist** is `simulate_one_warp`, shared by the global- and shared-memory kernels.
An action is one lane's work on one word in one phase; lanes meet at `__syncwarp` and
`__any_sync`. `SyncGroups` is the mask of the meetings. The bitmaps start dirty.
`Accesses` lists the words the next action of a lane touches and how, so that a data race
is a state predicate. A ballot (`__any_sync`) lets the lanes agree on a value and orders no
access to memory; `Unordered` adds to a lane's accesses those it made in front of a ballot
no `__syncwarp` has followed yet, which still race with what another lane does behind it.

**NfaBuilder** is the builder as a record of its lists, its refusals, and the CSR arrays
`build` flattens them into; `ReadBack` is what a simulator sees of the arrays. **AnmlReader**
is `load_anml` on a document given as a record: each refusal, the three start states, the
symbol sets pushed onto incoming edges, names with a port. Beside it stands what a document
*means*, on its elements (`ActiveElements`, `FirstReport`): an element is active after a
byte of its set if a predecessor was active before or its start mode seeds it.
**AnmlSimulation** puts reader, builder and all simulators in a row. The loops of the reader
are folds of the community modules and the row pointers a recursive function, so that they
can be unfolded in a proof.

**BackendRegistry** is the import of `gpufsm.backends`: per subpackage probe, technique
imports, and the probe registered last; an exception may come after any registration.
`IsAvailable` is `is_available` with its fallback on the registry. `register` publishes a
technique *before* it refuses a second default, and `GetFactory` is `get_factory`.
**OracleGate** composes it with the two commands that check kernels: the gate asks every
backend, fails with 2, walks the triples, exits with 0, 1 or 3; `gpufsm verify` lists the
available backends once and also judges the reference by the answers the examples expect.
The device may come and go at any step of either.

**DatasetCache** is `ensure`, run by several processes over names, inodes and open files:
a writer follows its inode through a rename. The network and the operating system are
external: blocks may be wrong, transfers cut, processes killed. The digest of a file is
taken in one step, although the code reads it in pieces.

**AsyncPipeline** is the native half of `run_multistream_async`: the host's program order,
the work queued on each stream, and the destructors that run on the way out. The CUDA
runtime is external: a stream runs in order, streams in any order, a fault stops
everything, `cudaFree` waits for the device, `cudaStreamDestroy` does not.

**BatchCall** is the whole of `api.run_batch` around it. An executor is a record of what
tells the fifteen executor classes apart (host, batched or not, where a too large automaton
is refused). `Construct`, `Pack`, `RunNext`, `SumUp`, `TakeResult` and `Propagate` are the
Python; `CopyIn` to `CopyOut` the synchronous host every other CUDA function follows (and
the Triton and Warp launches); `Stage`, `Simulate` and `KernelEnds` the threads of
`multistream_shared`, which copy the automaton into shared memory, meet at
`__syncthreads`, and only then drop out if they have no string.

**MeasurementDriver** is the drivers of `scripts/` and `gpufsm sweep`. They share one
shape, so a driver is a record of the ten points where their `main` functions differ:
whether they guard, how they name their file, what they leave for, on which automaton they
gate, what a disagreement and an exception do, from where a broad `except` applies, what no
rows do, what the rows say of the device, and in which order files are measured and
written. Where each automaton is its own gate, comparing and timing alternate. `write_rows`
is three steps (validate, truncate, write), each with its own way to end the run: a row
outside the schema raises before the file is open (`RefuseRow`; `gpufsm sweep`, through
`write_csv`, only after), opening may fail, and once the file is truncated an `OSError` or a
kill leaves any beginning of it (`BreakOff`), which names no device, the device, or the
beginning of its name (`Cuts`). A fault of the CUDA context is sticky. Runs follow one
another on several machines. The code compares device names as strings of letters and
digits; a name is here such a string cut into pieces ("nvidia", "geforce", "rtx4070",
"ti"), chosen so that containment by pieces is containment by characters.

## 3. Runs

| Run | Checks | Bounds |
|---|---|---|
| `contract` | types; `ActiveIsReached`; `ShortestMatch`; every call `Returns` | all 2048 two-state automata over {a, any} with epsilon edges, all strings of two letters up to length 2 |
| `sequential` | `ExpandedOnce`; `AnmlFaithful`; implements the contract with its liveness | all 64 epsilon relations on three states, six four-state automata, all DFAs on two states, 32 documents; strings up to 3 |
| `compact` | `VisitedMirrorsFrontier`; `NoOverrun`; implements the contract | three- and four-state automata as above; every initial bitmap |
| `warp` | `NoDataRace`; `FrontierCoversDebt`; implements the contract | the same automata, strings up to 2; 2 lanes, 1 state per word; bitmaps full of leftovers |
| `gate` | `HalfRegisteredIsRecorded`; `DefaultIsDeclared`; `GreenIsEarned`; `GreenCoversRequired`; `VerifyIsComplete` | two backends (with and without a device probe), three techniques, defaults marked once, twice or not at all, three names for `--require`, unlimited device changes |
| `dataset` | `UndisturbedCopyVerified`; `HonestDownloadSucceeds` | two processes, two blocks, three inodes, unlimited crashes and retries |
| `async` | `BatchFaithful`; `OneTimePerBatch`; `NoWriteAfterDrop`; `NothingStaysPinned`; `Ends` | fifteen executors, three streams, batches of up to 5 strings, any of them empty on the asynchronous host; blocks of 2 threads staging 3 entries |
| `measure` | `RowsWereGated`; `LossConfined`; `OwnFileAllowed`; `PoisonedSweepWritesNothing`; `OnlyDfaSweepErases`; `ForeignResultKept` | ten drivers, four machines, two backends, two units (grid points), two runs in a row, a crash at every step, a write broken off anywhere |
| `failed_import`, `required_name`, `shared_dataset`, `foreign_device` | one stated promise each, violated | as `gate`, `dataset` and `measure` |

Why the bounds are enough. The closure algorithms depend only on the epsilon relation and
its numbering; three states hold chains, cycles, self-joins and orders against the scan,
and the four-state automata add a chain that needs the last of the `num_states` passes, a
diamond, a cycle through the start, and a set that runs dry. With two lanes and four
words each lane owns two words and every edge between states of different parity
crosses lanes, so each scatter conflicts with each neighbouring phase if a barrier is
missing. Three streams and up to five strings give a full pipeline, a short last chunk
(2, 2, 1) and streams without a chunk. Five strings in blocks of two give a last block with
a thread that has no string, and three entries for two threads make a thread stage twice
while its neighbour is done. Two processes and two blocks are the
least that can interleave within a download. Two units let a driver lose a backend or its
context in one and go on with the next; two runs let a second one meet what the first left,
crashed or complete, from the same machine or another. The documents hold every start mode
against every kind of symbol set, self-activation, names that resolve with and without
their port, and one document for each refusal.

Each property of a passing run has a mutant, an operator in the model that edits one
mapped definition the way a slip in the code would (a barrier dropped, a bit not cleared,
the launch check omitted), and TLC finds the property violated with it.

Fairness. The simulators are code that nothing blocks: weak fairness of the next step.
In the warp some lane that can go on does, and no lane is favoured; at a barrier the
others are the ones that can. In `async` the host is weakly fair except that it is never
*made* to fail: it throws by fairness only after a fault, a failed launch or too many
states; each stream or kernel with work runs it. `Ends` needs all of these (`BatchCall.FairSpec`:
`HostGoesOn`, `Kernel`, each `Asynchronous(s)`). Every simulator's refinement includes the
contract's fairness, so each of them ends. The gate, the cache and the drivers
state no liveness and so no fairness: they may be killed at any line.

`CHECK_DEADLOCK FALSE` is set where the system ends: a simulation that has its verdict, a
gate with its exit code, a call that has returned, a driver that has used its runs
(`MaxRuns`). The cache never stops.

## 4. What the violated runs show

1. `failed_import`. `docs/ARCHITECTURE.md` says that a backend whose import failed
   "still reports as unavailable rather than vanishing". When the import raises after its first
   `@register`, no probe is registered and `is_available` falls back on "some technique is
   registered": it reports *available*. `gate` shows what still holds: the failure is
   recorded in `IMPORT_ERRORS`, and the gate counts kernels that do not run as failures.
2. `required_name`. The gate promises exit 0 only when "every required backend was
   present"; a `--require` name that is no backend is never looked for.
3. `shared_dataset`. `ensure` promises "a checksum-verified local copy"; two concurrent
   calls share `<name>.part`, and one can truncate what the other is about to rename.
   `dataset` shows that a call nobody runs beside is safe after any crash.

4. `foreign_device`. `guard_device` promises to "refuse to overwrite a committed result that
   was measured on another GPU"; names are compared by containment, so a file that says RTX
   4070 is overwritten on an RTX 4070 Ti. `measure` shows what holds for devices of which
   none contains the other's name.

What the properties of the passing runs leave out, each a limit of the code:

- `AnmlFaithful` leaves out a class that names the code point 256 (`NamesWildcard`).
  `_parse_atom` returns `ord` of any character, although `parse_symbol_set` promises byte
  values; 256 is `ANY_SYMBOL`, and the element then matches every byte. `_coerce_symbol` has a
  comment on having closed this hole for strings; the reader passes ints. Without the
  exemption TLC reports the property violated at once. Larger code points raise, if an edge
  leads to the element.
- `GreenIsEarned` and `GreenCoversRequired` except a machine whose device came or went
  (`flapped`): a required device that disappears *between* the availability pass and the
  walk is skipped, and the gate can still exit 0. `GreenCoversRequired` also excepts a
  backend recorded in `IMPORT_ERRORS`. Note that `gpufsm env` prints such an error only for a
  backend that is not available, and a half-imported one claims to be.
- `VerifyIsComplete`: `gpufsm verify` without any GPU backend runs no kernel and is green.
- `ForeignResultKept` excepts a run whose device nobody names (a GPU without torch) and the
  two commands that write wherever `--out` says (`OutOfReach`). It speaks of whole files that
  record a device: the guard trusts what a file says, and lets any machine overwrite one that
  says nothing, as one cut short before its first row does, or one cut inside the name, whose
  beginning other names contain.
- `LossConfined` does not say that a failed run loses nothing. `write_rows` truncates the file
  and then writes, so a full disk, a failed flush or a kill in between ends the run with the
  old results gone; what holds is that this is the only file lost, and that no exception of
  the program's own costs one. `gpufsm sweep`, through `write_csv`, opens before its rows are
  checked. `OwnFileAllowed` adds that what is left locks nobody out: the machine that cut a
  file short may write it again. It excepts a file that records "(none)" or "?".
- `BatchFaithful` claims no verdict for a single string of 2 GiB or more under the `dense` and
  the `bitpacked` CUDA technique (`Unchecked`): `dense.cu` and `bitpacked.cu` cast its length
  to `int` without the check that `pack_inputs` makes for the batched executors.
- `RowsWereGated` takes each driver's own idea of a gate: one seed stands for all in
  `sweep_dfa`, one probe for a whole grid in `second_gpu`; `gpufsm sweep` and
  `ablate_scalar_control` compare nothing, although `bench/oracle.py` says that nothing
  reports a throughput before it agrees with the oracle. `bench_worklist_warp` swallows an
  `OracleMismatch` on the real automata in a broad `except` and reports what it had, although
  `bench/oracle.py` says that such a run must not report timings; the rows it keeps were gated
  each on its own automaton, and no property says more of them.
- `PoisonedSweepWritesNothing` holds for the messages `sweep_techniques` looks for; after a
  fault with another message every later measurement raises, and it writes what it had.
- `OnlyDfaSweepErases` names the one driver that replaces its file by a bare header:
  `sweep_dfa`, when every size disagrees.

Four hazards of `PROJECT.json` are therefore listed without a property: the device that is
asked for twice (`oracle_gate.py:81`), the code point 256 (`anml.py:48`), a file that does
not name its device (`csvio.py:146`), and the swallowed mismatch
(`bench_worklist_warp.py:159`). In each the code does what the hazard says, so that the
property that would catch it does not hold; the bullets above say what does.

## 5. Proofs

Every invariant of the passing runs is proved for all values of the constants, and so are
`ForeignResultKept` and the safety part of every refinement. In each proof module `IInv` is
the inductive invariant, the conjunction of the type invariant and named parts; the lemmas
`...Init...` and `...Next...` (or one per action) prove that it holds at first and is kept,
and each theorem follows from it. Every `IInv` was also model-checked on the run of its module.

### The contract

`LatchFirstMatchProofs` (for every set of automata, however large, and all inputs):

- `TypeCorrect`, by itself inductive;
- `ActiveSetCorrect`: the active set is the slice of `Reached` at the current position;
- `VerdictCorrect`: the verdict is the shortest match, or there is none.

The inductive invariant adds `NoEarlierMatch` (no slice before the position accepts) to
the two properties: without it `Latch` could not know that its prefix is the shortest.
The lemmas say what the code relies on in silence: the start closure is the first slice
(`FirstSlice`), moving and closing takes one slice to the next (`NextSlice`), and once
nothing fires every later slice is empty (`DeadSlices`), which is why leaving the loop
early loses nothing and why kernels that do not leave it agree.

### The simulators implement it

`SequentialSimulatorsProofs`, `CompactWorklistProofs` and `WarpWorklistProofs` each prove
`Refinement == Spec => Contract!Spec`: initial states map to initial states, and each step
to a step of the contract or a stutter. What that brings is `ReportsShortestMatch` of each
module, `Spec => []Contract!ShortestMatch`: `ContractProofs` instantiates
`LatchFirstMatchProofs` under the refinement mapping, and `SameContract` shows that its
specification and property are those of `Contract`, so that `VerdictCorrect` applies. (The
fairness in `ImplementsContract` is checked by TLC.)

- *Sequential.* `LoopInv` says what the set holds between two closures; `ClosureInv`, what
  is known inside one, which depends on the way it goes. A stack or a frontier holds every
  state whose edges are still to be followed (`WorklistInv`). The passes keep no such
  record: after `it` passes the set is closed or has more than `it` states (`PassesInv`), so
  that `num_states` passes are enough, in whatever order a pass scans and although it
  updates the set in place. A table walk has no closure; that its dead state stands for an
  empty active set is `TableMoves`. `WorkEfficient` proves `ExpandedOnce` of the worklists.
- *Compact.* `BitmapExact`: clearing only the touched bits clears all of them.
  `FrontierFits`: no frontier outgrows the `num_states` ids allocated for it.
  `VisitedMirrorsFrontier` is not inductive alone. It needs that the array being filled is
  empty when a byte is taken (else the bits of its states would outlive the clearing) and
  that neither array has duplicates; the bound on the length is then the pigeonhole
  principle, through an injection into the states. The refinement adds `ScanInv`: the edges
  of what the scan has passed have been followed, and nothing foreign is in the array.
- *Warp.* For any number of lanes and any word size. Every meeting is of all lanes, so they
  are in one phase and each unswept lane is at a word of its own (`LanesInv`); `RaceFree`
  follows. What a phase has achieved so far is said of the words their lanes have passed
  (`Passed`): that a lane which leaves word `w` for `w + 32` skips no word it owns is
  `NextOfResidue`. `ClosureInv` says of each of the four closure phases which edges are
  still to be followed. Inside `fold`, where frontier, set and vote are rewritten word by
  word, these are the edges into `newb` and of the passed part of the frontier; at a ballot
  all words are passed, and `FrontierComplete` is what remains. If nobody voted the frontier
  is empty, and a set no edge leaves, between the base and its closure, is the closure.

### From a document to a verdict

`SequentialSimulatorsProofs` goes on with an ANML document, in four theorems, for any
elements, names, symbol sets and number of bytes:

- `CsrRoundTrip`: the arrays `build` makes, read back by their row pointers, hold the edges
  of the builder's lists, no more and no fewer, whichever rows are empty;
- `BuiltIsAutomaton`: what is built has no dangling edge and its states are numbered from 0.
  This is what the simulators' proofs assume of `Automata`;
- `ReaderCorrect`: if a document loads, the automaton `load_anml` returns is `AutomatonOf`
  the document, which is written down without a builder;
- `DocumentsFaithful`: `Spec => []AnmlFaithful`, for all documents, simulators and inputs.

Most of this is not about steps of the system but about recursion over lists, which is
proved by induction over *sets* (`NatSetInduction`, from the well-foundedness of the
naturals, and `SubsetInduction`, from finite sets). `Iteration` and `SetIteration` give a
recursive function and a fold of the library a solution, so that its `CHOOSE` can be
unfolded: `RowPtrFacts` for the row pointers, `SetFolded` and `SeqFolded` for the folds. A
row then begins where the one before ends, and each index lies in one row (`PlaceFacts`).

What a builder stands for is `Denoted`; `AddTransitionDenotes` and its like say what each
call adds to it, or that it raises. Loops only ever add symbol edges and accepting states
(`Grows`), and additions compose (`GrowsTwice`, `LoopGrows`), so that the loops of
`load_anml` add the union of what their rounds add: `SeedEdges`, `ActivationEdges` and
`ReportStates` of every element. That a target name finds the element it names, and that
element's own symbols, is `ResolveNames` and `StateOf`; the latter needs that load_anml
refuses repeated ids (`ReadableFacts`).

The run of `AutomatonOf(doc)` then follows the elements byte by byte: behind `p` bytes the
contract's slice is `q_all` and the states of the elements active there
(`DocumentSlices`, by `MoveIsNextOn`). `q_all` survives through its loop, `q_first` is
gone after one byte, and nothing else leads to either. An edge fires on the bytes the
symbol set denotes (`FiresDenotes`); here the hypothesis that no class names the code point
256 is used, and it is used nowhere else but for `HasMeaning`. Hence a prefix matches when
an active element reports, and `ReportsShortestMatch` makes the verdict `FirstReport`.

### What decides which of them run

`OracleGateProofs` (any backends, techniques, import order and `--require` names): the six
theorems cover each invariant of `gate`. `LoaderInv` follows the import loop: behind it a
backend is registered in full or recorded as broken, ahead of it nothing is registered.
`WalkInv`, `VerdictInv` and `ExitInv` follow a command from the availability pass to the
exit code; that a skipped kernel belongs to a backend that was absent, or to a machine whose
device came or went, needs that at most one kernel is admitted and not yet judged.

### What a batch returns

`BatchCallProofs` (any number of strings, streams, block threads and staged entries):

- `FaithfulBatch`, `TimedOnce`, `ArraysLeftAlone`, `PagesReleased`.

The heart is `StreamInv`: what a stream still holds are the operations of its chunk from the
first that is not done to the last issued, in order, and each done one has had its effect on
the whole chunk. That the chunks cover all strings without overlap, though rounded up and
cut off at the end, is `ChunkBounds` and `ChunksCover`; that the strided loop of a block's
threads stages every entry before the barrier opens is `StageInv` with `NextOfResidue`. On
the error path pages are released with the streams full, so `PagesReleased` and
`ArraysLeftAlone` rest on `PlaceInv`, which ties the host's place to what is pinned.

### What is on disk

`DatasetCacheProofs` (any number of processes, blocks and inodes): `CopyVerified` and
`HonestDownload`. `UndisturbedCopyVerified` speaks of what a call returned; inductively one
must say what a call that is still alone knows of `.part` while it writes, hashes and
renames (`OwnPartInv`), and that a call not marked as overlapped is the only one
(`AloneInv`).

`MeasurementDriverProofs` (any machines, grid and number of runs):

- `RowsGatedFirst`, `FailedRunLoss` (`Spec => []LossConfined`), `PoisonedSweepSilent`,
  `OnlyDfaErases`;
- `ForeignResults`: under `NamesTellApart`, `Spec => ForeignResultKept`;
- `OwnFilesAllowed`: under `CommittedRecognised`, `Spec => []OwnFileAllowed`.

`NamesTellApart` is the hypothesis the guard needs and the repository does not state: names
that `same_device` takes for the same belong to the same GPU. It holds of the machines of
`measure` and not of those of `foreign_device`, whose run shows that it cannot be dropped.
The invariant (`OwnerInv`) is then that a machine the guard would take for one a whole file
names is one the file was measured on, and that past its guard a driver's outputs are cut
short or its own machine's, also between the truncation and the rows, when the file names
nobody. `CommittedRecognised` is the converse for the committed files, that they name their
devices so that `same_device` recognises them; names need not tell machines apart. What is
kept is that a file which names a device is allowed to the machines it was measured on
(`AllowsOwner`): the beginning of a name is contained in the name (`CutWithin`).
For `FailedRunLoss` the hard part is that in a run that writes two files only the one being
written is cut short (`FilesInv`); for `RowsGatedFirst`, which comparison the rows of a
unit rest on when the gate runs on another automaton (`GateInv`); for `OnlyDfaErases`, that
a driver which writes whatever it holds has a row of its first unit by then
(`FirstUnitInv`).

### Assumptions, and what is left to TLC

The proofs assume what the modules' `ASSUME`s say, and TLC evaluates: that automata are what
`NFABuilder` builds (`IsAutomaton`, `IsNumbered`) and inputs are byte strings; that a
registry is loaded in some order without repetition and no technique bears the name of the
missing default; at least one lane, stream, block thread, entry, string and block; inodes
enough for every process; for the drivers at least two grid points, a backend `cuda`, device
names of more than one word, and committed files that are whole. Of a document only its
shape is assumed (`IsDocument`): any names, classes and tags, sensible or not. The bytes are
`0 .. LastByte` and the wildcard is the number behind them.

Model-checked only:

- liveness: `Returns`, `Ends`, and the fairness in `ImplementsContract`, which are out of the
  prover's reach.

The violated promises of section 4 have a counterexample and no theorem; what is proved is
the property each of them leaves.

## 6. Not modelled

- Timing statistics, the cost model and its two scripts, the figures: floating-point
  functions without discrete state. The generators and examples are inputs: the runs
  enumerate small ones instead. `gluon_probe` and `profile_target` write no results.
  `api.benchmark` repeats `run` and averages.
- XML parsing and the splitting of a symbol class into atoms; symbols given to `NFABuilder`
  as strings; the int32 width of CSR arrays. The int32 *offsets* of a batch, and the length
  of a single string, are modelled as one bit (`tooLong`), the grid size of a warp launch is
  not.
- The refusals of `DFABuilder`, the build of the CUDA extension, the wording of the
  unavailable reasons, and the choice of warps per block and shared-memory budget of
  `worklist_shared`.
- The order in which a Triton program's threads see each other's stores in global memory
  (`backends/triton/dense.py`) is the compiler's; the models take program order. What
  `cudaHostUnregister` does to copies in flight is the driver's; the model lets them finish.
  The timing events of `run_multistream_async` have no scope guard and leak on a throw.
- Two drivers running at once in one directory: nothing in the code expects it.

## 7. Plan

1. Check the invariants of `BatchCall` and `MeasurementDriver` against new executors and
   drivers as they are added: both proofs go through the executors and drivers one by one.
2. `worklist_shared`'s launch parameters.
