----------------------------- MODULE BatchCall -----------------------------
(***************************************************************************)
(* run_batch, from the list of strings the caller hands over to the list   *)
(* of results it gets back.                                                *)
(*                                                                         *)
(* api.run_batch builds an executor.  One that has a run_batch of its own  *)
(* packs the batch and makes one native call; for any other the strings    *)
(* are run one by one and their times added up.  On both paths the first   *)
(* result carries the time of the whole batch.                             *)
(*                                                                         *)
(* A native call runs on one of three hosts: the asynchronous pipeline of  *)
(* AsyncPipeline; the synchronous host of all other CUDA functions, which  *)
(* copies in, launches, waits, and copies out; and that same host with the *)
(* kernel that first stages the automaton into shared memory.  Triton and  *)
(* Warp launches follow the synchronous host.                              *)
(***************************************************************************)
EXTENDS AsyncPipeline

CONSTANTS
  BlockThreads, (* threads of a block: 256 in the code                     *)
  Entries       (* entries of the automaton that a block stages            *)

ASSUME BlockAssumption == BlockThreads \in Nat \ {0} /\ Entries \in Nat \ {0}

(***************************************************************************)
(* The executors, by the host of their calls, by whether they take a whole *)
(* batch, and by where an automaton that is too large for them is refused. *)
(***************************************************************************)
Executor(onHost, batched, limit) == [host |-> onHost, batched |-> batched, limit |-> limit]

CPUExecutor               == Executor("cpu", FALSE, "none")
CUDADense                 == Executor("sync", FALSE, "none")
CUDABitpacked             == Executor("sync", FALSE, "launch")
CUDABatchExecutor         == Executor("sync", TRUE, "launch")
CUDAWorklistGlobal        == Executor("sync", TRUE, "none")
CUDADFAExecutor           == Executor("sync", TRUE, "none")
CUDAMultistreamShared     == Executor("staged", TRUE, "launch")
CUDAMultistreamAsync      == Executor("async", TRUE, "launch")
TritonDenseExecutor       == Executor("sync", FALSE, "none")
TritonBitpackedExecutor   == Executor("sync", FALSE, "none")
TritonMultistreamExecutor == Executor("sync", TRUE, "none")
TritonWorklistExecutor    == Executor("sync", TRUE, "constructor")
TritonDFAExecutor         == Executor("sync", TRUE, "none")
WarpMultistreamExecutor   == Executor("sync", TRUE, "constructor")
WarpDFAExecutor           == Executor("sync", TRUE, "none")

Executors ==
  {CPUExecutor, CUDADense, CUDABitpacked, CUDABatchExecutor, CUDAWorklistGlobal,
   CUDADFAExecutor, CUDAMultistreamShared, CUDAMultistreamAsync,
   TritonDenseExecutor, TritonBitpackedExecutor, TritonMultistreamExecutor,
   TritonWorklistExecutor, TritonDFAExecutor, WarpMultistreamExecutor, WarpDFAExecutor}

VARIABLES
  executor,    (* fixed: the technique's executor                          *)
  tooLong,     (* fixed: the strings together exceed the int32 offsets,    *)
               (* or one by one the int of their kernel's input_len        *)
  py,          (* where run_batch is                                       *)
  perInput,    (* the results of the strings run one by one                *)
  results,     (* what run_batch returns                                   *)
  shared,      (* per block, the entries staged in its shared memory       *)
  at,          (* per thread, the next entry it stages                     *)
  left         (* the threads that have returned from the kernel           *)

python == <<py, perInput, results>>
blocks == <<shared, at, left>>
fixed == <<call, executor, tooLong>>
vars == <<fixed, python, native, blocks>>

(* The verdict of a string is the string itself; a slot of the output
   arrays that holds anything else holds garbage, and so does every slot
   when the offsets, or the length, have wrapped. *)
Garbage == MaxStrings
Slot(k) == IF ~tooLong /\ \A b \in Buffers : k \in out[b] THEN k ELSE Garbage

(* run_dense and run_bitpacked cast the length of their one string to int;
   Triton takes it as it is. *)
Int32Sizes == executor.batched \/ executor \in {CUDADense, CUDABitpacked}

Init ==
  /\ executor \in Executors
  /\ num \in 0 .. MaxStrings
  /\ empty \in IF executor.host = "async" THEN SUBSET Strings ELSE {{}}
  /\ tooLarge \in IF executor.limit = "none" THEN {FALSE} ELSE BOOLEAN
  /\ tooLong \in IF Int32Sizes /\ ~(Strings \subseteq empty) THEN BOOLEAN ELSE {FALSE}
  /\ py = "construct"
  /\ perInput = <<>>
  /\ results = <<>>
  /\ HostInit
  /\ shared = [b \in 0 .. MaxStrings |-> {}]
  /\ at = [t \in 0 .. MaxStrings + BlockThreads |-> t % BlockThreads]
  /\ left = {}

-----------------------------------------------------------------------------
(* Python. *)

(* factory(automaton, technique); loading the extension or uploading the
   automaton may raise as well. *)
Construct ==
  /\ py = "construct"
  /\ \/ /\ executor.limit = "constructor" => ~tooLarge
        /\ py' = IF ~executor.batched THEN "loop" ELSE "pack"
     \/ py' = "raised"
  /\ UNCHANGED <<fixed, perInput, results, native, blocks>>

CallNative ==
  /\ py' = "native"
  /\ host' = IF executor.host = "async" THEN "pin" ELSE "copy in"
  /\ UNCHANGED <<c, device, launchError, pinned>>

(* An empty batch returns at once; pack_inputs refuses what int32 offsets
   cannot index. *)
PackUncheckedMutant ==
  /\ py = "pack"
  /\ IF num = 0 THEN py' = "returned" /\ UNCHANGED native ELSE CallNative
  /\ UNCHANGED <<fixed, perInput, results, blocks>>

Pack ==
  /\ py = "pack"
  /\ CASE num = 0            -> py' = "returned" /\ UNCHANGED native
       [] num > 0 /\ tooLong -> py' = "raised" /\ UNCHANGED native
       [] OTHER              -> CallNative
  /\ UNCHANGED <<fixed, perInput, results, blocks>>

(* [executor.run(b) for b in inputs] *)
RunNext ==
  /\ py = "loop"
  /\ Len(perInput) < num
  /\ IF executor.host = "cpu"
       THEN /\ perInput' = Append(perInput, [verdict |-> Len(perInput), ms |-> {Len(perInput)}])
            /\ UNCHANGED <<py, native>>
       ELSE CallNative /\ UNCHANGED perInput
  /\ UNCHANGED <<fixed, results, blocks>>

(* batch_results: the whole time on the first result, none on the rest. *)
batch_results(verdicts, ms) ==
  [k \in DOMAIN verdicts |-> [verdict |-> verdicts[k], ms |-> IF k = 1 THEN ms ELSE {}]]

SumUpPerStringMutant ==
  /\ py = "loop"
  /\ Len(perInput) = num
  /\ results' = perInput
  /\ py' = "returned"
  /\ UNCHANGED <<fixed, perInput, native, blocks>>

SumUp ==
  /\ py = "loop"
  /\ Len(perInput) = num
  /\ results' = batch_results([k \in DOMAIN perInput |-> perInput[k].verdict],
                              UNION {perInput[k].ms : k \in DOMAIN perInput})
  /\ py' = "returned"
  /\ UNCHANGED <<fixed, perInput, native, blocks>>

(* The strings of the native call that is running. *)
Called == IF executor.batched THEN Strings ELSE {Len(perInput)}

(* The native call returns: a batch is wrapped, a single result kept. *)
TakeResult ==
  /\ py = "native"
  /\ host = "returned"
  /\ IF executor.batched
       THEN /\ results' = batch_results([k \in 1 .. num |-> Slot(k - 1)], Called)
            /\ py' = "returned"
            /\ UNCHANGED <<perInput, host>>
       ELSE /\ perInput' = Append(perInput, [verdict |-> Slot(Len(perInput)), ms |-> Called])
            /\ py' = "loop"
            /\ host' = "idle"
            /\ UNCHANGED results
  /\ UNCHANGED <<fixed, c, device, launchError, pinned, blocks>>

(* The exception of a native call reaches the caller. *)
Propagate ==
  /\ py = "native"
  /\ host = "raised"
  /\ py' = "raised"
  /\ UNCHANGED <<fixed, perInput, results, native, blocks>>

Python == Construct \/ Pack \/ RunNext \/ SumUp \/ TakeResult \/ Propagate

-----------------------------------------------------------------------------
(* The synchronous host.  The default stream is stream 0. *)

CopyIn ==
  /\ host = "copy in"
  /\ ~fault
  /\ arrived' = arrived \cup Called
  /\ Goto("launch one")
  /\ UNCHANGED <<call, c, stream, fault, computed, out, launchError, pinned>>

LaunchOne ==
  /\ host = "launch one"
  /\ ~tooLarge
  /\ \/ ~fault /\ Enqueue("kernel") /\ UNCHANGED launchError
     \/ launchError' = TRUE /\ UNCHANGED stream
  /\ Goto("check")
  /\ UNCHANGED <<call, c, pinned, fault, arrived, computed, out>>

(* CUDA_CHECK(cudaGetLastError()), right behind the launch. *)
CheckLaunch ==
  /\ host = "check"
  /\ ~launchError
  /\ ~fault
  /\ Goto("wait")
  /\ UNCHANGED <<call, c, device, launchError, pinned>>

(* cudaEventSynchronize, cudaDeviceSynchronize. *)
Wait ==
  /\ host = "wait"
  /\ ~Queued
  /\ ~fault
  /\ Goto("copy out")
  /\ UNCHANGED <<call, c, device, launchError, pinned>>

CopyOut ==
  /\ host = "copy out"
  /\ ~fault
  /\ out' = [b \in Buffers |-> out[b] \cup (Called \cap computed)]
  /\ Goto("returned")
  /\ UNCHANGED <<call, c, stream, fault, arrived, computed, launchError, pinned>>

(* Only DeviceScope is there to be unwound. *)
ThrowOne ==
  /\ \/ host \in {"copy in", "check", "wait", "copy out"}
     \/ host = "launch one" /\ tooLarge
  /\ Goto("unwind device")
  /\ UNCHANGED <<call, c, device, launchError, pinned>>

NativeHost ==
  Host \/ CopyIn \/ LaunchOne \/ CheckLaunch \/ Wait \/ CopyOut \/ ThrowOne

-----------------------------------------------------------------------------
(* The kernel of a synchronous host. *)

Running(onHost) ==
  executor.host = onHost /\ ~fault /\ stream[0] # <<>>

(* No thread depends on another. *)
RunKernel ==
  /\ Running("sync")
  /\ computed' = computed \cup (Called \cap arrived)
  /\ stream' = [stream EXCEPT ![0] = <<>>]
  /\ UNCHANGED <<fixed, python, host, c, fault, arrived, out, launchError, pinned, blocks>>

BlockOf(t) == t \div BlockThreads
Threads == 0 .. BlockThreads * ((num + BlockThreads - 1) \div BlockThreads) - 1

(* A thread copies every BlockThreads-th entry into the block's memory. *)
Stage(t) ==
  /\ Running("staged")
  /\ at[t] < Entries
  /\ shared' = [shared EXCEPT ![BlockOf(t)] = @ \cup {at[t]}]
  /\ at' = [at EXCEPT ![t] = @ + BlockThreads]
  /\ UNCHANGED <<fixed, python, native, left>>

(* __syncthreads, and only then the bounds check: the thread simulates its
   string on what its block has staged. *)
SimulateNoBarrierMutant(t) ==
  /\ Running("staged")
  /\ t \notin left
  /\ at[t] >= Entries
  /\ left' = left \cup {t}
  /\ computed' = IF t < num /\ Cardinality(shared[BlockOf(t)]) = Entries
                   THEN computed \cup ({t} \cap arrived) ELSE computed
  /\ UNCHANGED <<fixed, python, host, c, stream, fault, arrived, out, launchError, pinned, shared, at>>

Simulate(t) ==
  /\ Running("staged")
  /\ t \notin left
  /\ \A u \in Threads : BlockOf(u) = BlockOf(t) => at[u] >= Entries
  /\ left' = left \cup {t}
  /\ computed' = IF t < num /\ Cardinality(shared[BlockOf(t)]) = Entries
                   THEN computed \cup ({t} \cap arrived) ELSE computed
  /\ UNCHANGED <<fixed, python, host, c, stream, fault, arrived, out, launchError, pinned, shared, at>>

KernelEnds ==
  /\ Running("staged")
  /\ left = Threads
  /\ stream' = [stream EXCEPT ![0] = <<>>]
  /\ UNCHANGED <<fixed, python, host, c, fault, arrived, computed, out, launchError, pinned, blocks>>

Kernel == RunKernel \/ KernelEnds \/ \E t \in Threads : Stage(t) \/ Simulate(t)

Unchanged == UNCHANGED <<executor, tooLong, python, blocks>>
Asynchronous(s) == executor.host = "async" /\ Run(s) /\ Unchanged

Next ==
  \/ Python
  \/ NativeHost /\ Unchanged
  \/ Kernel
  \/ \E s \in DOMAIN stream : Asynchronous(s)
  \/ Fault /\ Unchanged

Spec == Init /\ [][Next]_vars

(* The host is never preempted for good, and a device with work runs it.   *)
(* A call need not fail for no reason: fairness only makes the host throw  *)
(* where it has to.                                                        *)
MustThrow == fault \/ launchError \/ tooLarge
HostGoesOn ==
  \/ Python
  \/ NativeHost /\ (Throw \/ ThrowOne => MustThrow) /\ Unchanged

FairSpec ==
  /\ Spec
  /\ WF_vars(HostGoesOn)
  /\ WF_vars(Kernel)
  /\ \A s \in 0 .. NStreams - 1 : WF_vars(Asynchronous(s))

-----------------------------------------------------------------------------
Finished == py \in {"returned", "raised"}

TypeOK ==
  /\ NativeTypeOK
  /\ executor \in Executors
  /\ tooLong \in BOOLEAN
  /\ py \in {"construct", "pack", "loop", "native", "returned", "raised"}
  /\ Len(perInput) <= num
  /\ Len(results) \in {0, num}
  /\ \A b \in DOMAIN shared : shared[b] \subseteq 0 .. Entries - 1
  /\ left \subseteq Threads

(* run_batch returns one result per string, in the order of the strings,   *)
(* each the verdict of its own string: on every path, whatever streams and *)
(* threads interleave, no string falls between two chunks, no array is     *)
(* read before it is written, no thread simulates on an automaton that its *)
(* block has not finished staging, and no failed launch or fault is taken  *)
(* for a verdict (api.run_batch: "one Result per input").  One verdict is  *)
(* not claimed: that of a single string of 2 GiB or more which the dense   *)
(* and the bitpacked technique take without a check of its length.         *)
Unchecked == ~executor.batched /\ tooLong
BatchFaithful ==
  py = "returned" =>
    /\ Len(results) = num
    /\ Unchecked \/ \A k \in Strings : results[k + 1].verdict = k

(* "The timing contract is the same on both paths": the first result       *)
(* accounts for the time of every string exactly once, the others for none *)
(* (api.run_batch).                                                        *)
OneTimePerBatch ==
  py = "returned" =>
    \A k \in DOMAIN results : results[k].ms = IF k = 1 THEN Strings ELSE {}

(* Every call of run_batch ends, by returning or by raising. *)
Ends == <>Finished
=============================================================================
