-------------------------- MODULE BatchCallProofs --------------------------
(***************************************************************************)
(* Every string gets its own verdict, and the call leaves nothing behind,  *)
(* for any number of strings, streams, threads and entries.                *)
(*                                                                         *)
(* The streams of the asynchronous host are the heart of it.  A stream is  *)
(* given the four operations of its chunk in order, and works them off in  *)
(* order: what it still holds are the operations numbered from the first   *)
(* that is not done to the last the host has issued, and what is done has  *)
(* had its effect on the whole chunk.                                      *)
(***************************************************************************)
EXTENDS BatchCall, FiniteSetTheorems, TLAPS

-----------------------------------------------------------------------------
(* The inductive invariant. *)

AsyncHosts ==
  {"pin", "upload", "launch", "flags", "lens", "next", "lastError", "sync", "return"}
SyncHosts  == {"copy in", "launch one", "check", "wait", "copy out"}
Pinning    == AsyncHosts \cup {"unwind streams", "unwind pins"}
Hosts      == Pinning \cup SyncHosts
                \cup {"idle", "unwind device", "unwind arrays", "returned", "raised"}

(* Where the caller and the host are in relation to one another.           *)
PlaceInv ==
  /\ host \in Hosts
  /\ py \in {"construct", "pack", "loop"} => host = "idle"
  /\ py = "native" => /\ host # "idle" /\ num > 0
                      /\ executor.batched => ~tooLong
                      /\ ~executor.batched => Len(perInput) < num
  /\ py = "returned" => host \in {"idle", "returned"}
  /\ py = "raised" => host \in {"idle", "raised"}
  /\ py = "pack" => executor.batched
  /\ py = "loop" => ~executor.batched
  /\ host \in Pinning => executor.host = "async"
  /\ host \in SyncHosts => executor.host \in {"sync", "staged"}
  /\ executor.host = "cpu" => host = "idle"
  /\ executor.host # "async" => c = 0 /\ \A s \in DOMAIN stream : s # 0 => stream[s] = <<>>
  /\ pinned # {} => host \in Pinning

(* When nothing is in flight, and nothing has failed.                      *)
Quiet == {"idle", "pin", "copy in", "launch one", "copy out", "return", "returned"}

QuietInv ==
  /\ host \in Quiet \cup {"unwind arrays", "raised"} => ~Queued
  /\ host \in Quiet => ~fault
  /\ host \in Quiet \cup {"wait", "sync"} => ~launchError

(* A synchronous host: its strings are uploaded before its kernel runs,    *)
(* computed when it has run, and then copied.                              *)
SyncInv ==
  executor.host \in {"sync", "staged"} =>
    /\ stream[0] # <<>> \/ host \in {"launch one", "check", "wait"} => Called \subseteq arrived
    /\ ~fault =>
         /\ host \in {"check", "wait"} /\ ~launchError =>
              stream[0] # <<>> \/ Called \subseteq computed
         /\ host = "copy out" => Called \subseteq computed
         /\ host = "returned" => \A b \in Buffers : Called \subseteq out[b]

(* The asynchronous host: how many operations it has issued on stream s    *)
(* when it is at step h of chunk d, how many of them are done, and what    *)
(* they did.                                                               *)
Operations == <<"upload", "kernel", "flags", "lens">>

Issued(h, d, s) ==
  IF h = "pin" \/ s > d THEN 0
  ELSE IF s < d \/ h \notin {"upload", "launch", "flags", "lens"} THEN 4
  ELSE IF h = "upload" THEN 0
  ELSE IF h = "launch" THEN 1
  ELSE IF h = "flags" THEN 2
  ELSE 3

Effects(s, done) ==
  /\ done >= 1 => Chunk(s) \subseteq arrived \cup empty
  /\ done >= 2 => Chunk(s) \subseteq computed
  /\ done >= 3 => Chunk(s) \subseteq out["flags"]
  /\ done >= 4 => Chunk(s) \subseteq out["lens"]

StreamInv(s, issued) ==
  /\ Len(stream[s]) <= issued
  /\ \A k \in 1 .. Len(stream[s]) : stream[s][k] = Operations[issued - Len(stream[s]) + k]
  /\ Effects(s, issued - Len(stream[s]))

AsyncInv ==
  executor.host = "async" =>
    /\ host \in {"idle", "pin"} => c = 0
    /\ host \in AsyncHosts /\ ~fault /\ ~launchError =>
         \A s \in DOMAIN stream : StreamInv(s, Issued(host, c, s))
    /\ host \in {"lastError", "sync", "return"} => c + 1 = NStreams \/ Lo(c + 1) >= num
    /\ host \in {"return", "returned"} => \A b \in Buffers : Strings \subseteq out[b]

(* The staging kernel: a thread has copied every entry of its residue      *)
(* below the one it is at, and one that has left has a right verdict.      *)
StageInv ==
  /\ shared \in [0 .. MaxStrings -> SUBSET (0 .. Entries - 1)]
  /\ at \in [0 .. MaxStrings + BlockThreads -> Nat]
  /\ executor.host = "staged" => executor.batched
  /\ \A t \in Threads :
       /\ at[t] % BlockThreads = t % BlockThreads
       /\ \A e \in 0 .. Entries - 1 :
            e % BlockThreads = t % BlockThreads /\ e < at[t] => e \in shared[BlockOf(t)]
  /\ \A t \in left : t < num => t \in computed

(* The results of the strings run one by one, and the results of the call. *)
ResultInv ==
  /\ perInput \in Seq([verdict : Nat, ms : SUBSET Nat])
  /\ \A k \in DOMAIN perInput : perInput[k].ms = {k - 1}
  /\ ~tooLong => \A k \in DOMAIN perInput : perInput[k].verdict = k - 1
  /\ py # "returned" => results = <<>>
  /\ BatchFaithful
  /\ OneTimePerBatch

IInv ==
  /\ TypeOK
  /\ PlaceInv
  /\ QuietInv
  /\ SyncInv
  /\ AsyncInv
  /\ StageInv
  /\ ResultInv

-----------------------------------------------------------------------------
(* Facts about the sizes. *)

(* The executors of the asynchronous and of the staging host take a whole  *)
(* batch, and only the oracle's executor runs without a native call.       *)
LEMMA ExecutorFacts ==
  ASSUME NEW e \in Executors
  PROVE  /\ e.host \in {"cpu", "sync", "staged", "async"}
         /\ e.batched \in BOOLEAN
         /\ e.host \in {"async", "staged"} => e.batched
         /\ e.host = "cpu" => ~e.batched
  <1>1. \A h, b, l : Executor(h, b, l).host = h /\ Executor(h, b, l).batched = b
    BY DEF Executor
  <1>2. PICK h \in {"cpu", "sync", "staged", "async"}, b \in BOOLEAN :
          /\ \E l : e = Executor(h, b, l)
          /\ h \in {"async", "staged"} => b
          /\ h = "cpu" => ~b
    BY DEF Executors, CPUExecutor, CUDADense, CUDABitpacked, CUDABatchExecutor,
           CUDAWorklistGlobal, CUDADFAExecutor, CUDAMultistreamShared, CUDAMultistreamAsync,
           TritonDenseExecutor, TritonBitpackedExecutor, TritonMultistreamExecutor,
           TritonWorklistExecutor, TritonDFAExecutor, WarpMultistreamExecutor, WarpDFAExecutor
  <1> QED  BY <1>1, <1>2

(* Min of two numbers is the smaller one. *)
LEMMA MinOfTwo ==
  ASSUME NEW a \in Int, NEW b \in Int
  PROVE  /\ Min({a, b}) \in {a, b}
         /\ Min({a, b}) <= a
         /\ Min({a, b}) <= b
  <1>1. \E x \in {a, b} : \A y \in {a, b} : x <= y
    <2>1. CASE a <= b  BY <2>1
    <2>2. CASE b <= a  BY <2>2
    <2> QED  BY <2>1, <2>2
  <1>2. Min({a, b}) \in {a, b} /\ \A y \in {a, b} : Min({a, b}) <= y
    BY <1>1 DEF Min
  <1> QED  BY <1>2

(* Rounding a quotient up. *)
LEMMA RoundedUp ==
  ASSUME NEW a \in Nat, NEW b \in Nat \ {0}
  PROVE  /\ (a + b - 1) \div b \in Nat
         /\ a <= b * ((a + b - 1) \div b)
         /\ b * ((a + b - 1) \div b) <= a + b - 1
  <1> DEFINE q == (a + b - 1) \div b
             r == (a + b - 1) % b
  <1>1. q \in Int /\ r \in 0 .. b - 1 /\ a + b - 1 = b * q + r
    OBVIOUS
  <1>2. q >= 0
    OBVIOUS
  <1> QED  BY <1>1, <1>2

(* The chunks lie within the batch, and the chunks up to the last one that *)
(* is enqueued cover it: no string falls between two of them.              *)
LEMMA ChunkBounds ==
  ASSUME num \in Nat, NEW s \in Nat
  PROVE  /\ ChunkSize \in Nat
         /\ Chunk(s) = {k \in Strings : Lo(s) <= k /\ k < Lo(s) + ChunkSize}
  <1>1. ChunkSize \in Nat
    BY SizesAssumption, RoundedUp DEF ChunkSize
  <1> DEFINE l == s * ChunkSize
  <1>2. l \in Nat
    BY <1>1
  <1>3. /\ ChunkHi(s) \in {l + ChunkSize, num}
        /\ ChunkHi(s) <= l + ChunkSize
        /\ ChunkHi(s) <= num
    BY <1>1, <1>2, MinOfTwo DEF ChunkHi, Lo
  <1>4. Chunk(s) = l .. ChunkHi(s) - 1 /\ Lo(s) = l
    BY DEF Chunk, Lo
  <1> HIDE DEF l
  <1> QED  BY <1>1, <1>2, <1>3, <1>4 DEF Strings

(* Once a chunk reaches the end of the batch every string is in a chunk:   *)
(* none is left behind by rounding.                                        *)
LEMMA ChunksCover ==
  ASSUME num \in Nat, NEW d \in 0 .. NStreams - 1,
         d + 1 = NStreams \/ Lo(d + 1) >= num,
         NEW k \in Strings
  PROVE  \E s \in 0 .. d : k \in Chunk(s)
  <1>1. k \in Nat /\ k < num /\ d \in Nat
    BY SizesAssumption DEF Strings
  <1>2. ChunkSize \in Nat /\ num <= NStreams * ChunkSize
    BY SizesAssumption, RoundedUp DEF ChunkSize
  <1>3. num <= (d + 1) * ChunkSize
    BY <1>1, <1>2, SizesAssumption DEF Lo
  <1>4. ChunkSize \in Nat \ {0}
    <2> SUFFICES ASSUME ChunkSize = 0 PROVE FALSE
      BY <1>2
    <2>1. (d + 1) * ChunkSize = 0
      BY <1>1
    <2> QED  BY <2>1, <1>1, <1>3
  <1> DEFINE s == k \div ChunkSize
  <1>5. s \in Nat /\ s * ChunkSize <= k /\ k < s * ChunkSize + ChunkSize
    BY <1>1, <1>4
  <1>6. s <= d
    <2> SUFFICES ASSUME s >= d + 1 PROVE FALSE
      BY <1>1, <1>5
    <2>1. s * ChunkSize >= (d + 1) * ChunkSize
      BY <1>1, <1>4, <1>5
    <2> HIDE DEF s
    <2>2. s * ChunkSize \in Nat /\ (d + 1) * ChunkSize \in Nat
      BY <1>1, <1>4, <1>5
    <2> QED  BY <2>1, <2>2, <1>1, <1>3, <1>5
  <1>7. k \in Chunk(s)
    BY <1>1, <1>5, ChunkBounds DEF Lo
  <1> QED  BY <1>1, <1>5, <1>6, <1>7

(* The blocks of the staging kernel: they are blocks of shared memory, and *)
(* each has a thread for every residue, so that its threads together copy  *)
(* every entry.                                                            *)
LEMMA ThreadBounds ==
  ASSUME num \in 0 .. MaxStrings
  PROVE  /\ Strings \subseteq Threads
         /\ \A t \in Threads : /\ t \in 0 .. MaxStrings + BlockThreads
                               /\ BlockOf(t) \in 0 .. MaxStrings
  <1> DEFINE q == (num + BlockThreads - 1) \div BlockThreads
             last == BlockThreads * q
  <1>1. q \in Nat /\ last \in Nat /\ num <= last /\ last <= num + BlockThreads - 1
    BY BlockAssumption, SizesAssumption, RoundedUp
  <1>2. Threads = 0 .. last - 1
    BY DEF Threads
  <1>3. ASSUME NEW t \in Threads
        PROVE  t \in 0 .. MaxStrings + BlockThreads /\ BlockOf(t) \in 0 .. MaxStrings
    <2> DEFINE b == BlockOf(t)
    <2>1. t \in Nat /\ t <= num + BlockThreads - 2
      BY <1>1, <1>2, <1>3, BlockAssumption, SizesAssumption
    <2>2. b \in Nat /\ b * BlockThreads <= t
      BY <2>1, BlockAssumption DEF BlockOf
    <2>3. b <= num
      <3> SUFFICES ASSUME b >= num + 1 PROVE FALSE
        BY <2>2, SizesAssumption
      <3> HIDE DEF b
      <3>1. b * BlockThreads >= (num + 1) * BlockThreads
        BY <2>2, BlockAssumption, SizesAssumption
      <3>2. (num + 1) * BlockThreads >= num + BlockThreads
        BY BlockAssumption, SizesAssumption
      <3> QED  BY <2>1, <2>2, <3>1, <3>2, BlockAssumption, SizesAssumption
    <2> QED  BY <2>1, <2>2, <2>3, SizesAssumption, BlockAssumption
  <1> HIDE DEF last
  <1> QED  BY <1>1, <1>2, <1>3, SizesAssumption DEF Strings

(* Each entry to stage falls to some thread of the block: threads without  *)
(* a string stage as well.                                                 *)
LEMMA ThreadOfResidue ==
  ASSUME num \in 0 .. MaxStrings, NEW t \in Threads, NEW e \in Nat
  PROVE  \E u \in Threads : BlockOf(u) = BlockOf(t)
                              /\ u % BlockThreads = e % BlockThreads
  <1> DEFINE q == (num + BlockThreads - 1) \div BlockThreads
             b == BlockOf(t)
             r == e % BlockThreads
             u == b * BlockThreads + r
  <1>1. q \in Nat /\ t \in Nat /\ t < BlockThreads * q
    BY BlockAssumption, SizesAssumption, RoundedUp DEF Threads
  <1>2. b \in Nat /\ b * BlockThreads <= t
    BY <1>1, BlockAssumption DEF BlockOf
  <1>3. r \in 0 .. BlockThreads - 1
    BY BlockAssumption
  <1>4. b < q
    <2> SUFFICES ASSUME b >= q PROVE FALSE
      BY <1>1, <1>2
    <2> HIDE DEF b, q
    <2>1. b * BlockThreads >= q * BlockThreads
      BY <1>1, <1>2, BlockAssumption
    <2> QED  BY <2>1, <1>1, <1>2, BlockAssumption
  <1> HIDE DEF b, r
  <1>5. u \in Nat /\ u < BlockThreads * q
    <2> HIDE DEF q
    <2>1. (b + 1) * BlockThreads <= q * BlockThreads
      BY <1>1, <1>2, <1>4, BlockAssumption
    <2> QED  BY <2>1, <1>1, <1>2, <1>3, BlockAssumption
  <1>6. u \div BlockThreads = b /\ u % BlockThreads = r
    BY <1>2, <1>3, BlockAssumption
  <1>7. u \in Threads
    BY <1>1, <1>5, BlockAssumption DEF Threads
  <1>8. BlockOf(u) = b
    BY <1>6 DEF BlockOf
  <1> QED  BY <1>6, <1>7, <1>8 DEF r, b

(* Between an entry of a thread and the next one it copies there is none   *)
(* of its residue.                                                         *)
LEMMA NextOfResidue ==
  ASSUME NEW a \in Nat, NEW b \in Nat \ {0}
  PROVE  /\ (a + b) % b = a % b
         /\ \A e \in Nat : e % b = a % b /\ e < a + b => e < a \/ e = a
  <1> DEFINE q == a \div b
             r == a % b
  <1>1. q \in Nat /\ r \in 0 .. b - 1 /\ a = b * q + r
    OBVIOUS
  <1>2. a + b = b * (q + 1) + r
    <2> HIDE DEF q, r
    <2> QED  BY <1>1
  <1>3. (a + b) % b = r
    <2> DEFINE p == (a + b) \div b
               w == (a + b) % b
    <2>1. p \in Nat /\ w \in 0 .. b - 1 /\ a + b = b * p + w
      OBVIOUS
    <2> HIDE DEF p, w, q, r
    <2>2. b * p + w = b * (q + 1) + r
      BY <2>1, <1>2
    <2>3. p = q + 1
      <3>1. CASE p > q + 1
        <4>1. b * p >= b * (q + 2)
          BY <3>1, <2>1, <1>1
        <4> QED  BY <4>1, <2>1, <2>2, <1>1
      <3>2. CASE p < q + 1
        <4>1. b * (p + 1) <= b * (q + 1)
          BY <3>2, <2>1, <1>1
        <4> QED  BY <4>1, <2>1, <2>2, <1>1
      <3> QED  BY <3>1, <3>2, <2>1, <1>1
    <2>4. w = r
      BY <2>1, <2>2, <2>3, <1>1
    <2> QED  BY <2>4 DEF w
  <1>4. ASSUME NEW e \in Nat, e % b = r, e < a + b
        PROVE  e < a \/ e = a
    <2> DEFINE p == e \div b
    <2>1. p \in Nat /\ e = b * p + r
      BY <1>4
    <2> HIDE DEF p, q, r
    <2>2. b * p < b * (q + 1)
      BY <2>1, <1>1, <1>2, <1>4
    <2>3. p <= q
      <3> SUFFICES ASSUME p >= q + 1 PROVE FALSE
        BY <2>1, <1>1
      <3>1. b * p >= b * (q + 1)
        BY <2>1, <1>1
      <3> QED  BY <3>1, <2>1, <2>2, <1>1
    <2>4. b * p <= b * q
      BY <2>1, <2>3, <1>1
    <2> QED  BY <2>1, <2>4, <1>1
  <1> QED  BY <1>3, <1>4

-----------------------------------------------------------------------------
(* What every step leaves alone. *)
LEMMA FixedStep ==
  ASSUME [Next]_vars
  PROVE  /\ UNCHANGED <<num, empty, tooLarge, executor, tooLong>>
         /\ Strings' = Strings
         /\ Threads' = Threads
         /\ ChunkSize' = ChunkSize
         /\ \A s : Chunk(s)' = Chunk(s)
  <1>1. UNCHANGED <<num, empty, tooLarge, executor, tooLong>>
    <2>1. CASE UNCHANGED vars
      BY <2>1 DEF vars, fixed, call
    <2>2. CASE Python
      BY <2>2 DEF Python, Construct, Pack, RunNext, SumUp, TakeResult, Propagate, fixed, call
    <2>3. CASE NativeHost /\ Unchanged
      BY <2>3 DEF NativeHost, Host, Pin, Upload, Launch, Download, NextChunk, CheckLaunches,
                  Synchronize, Return, Throw, DestroyStreams, Unpin, FreeDevice, DropArrays,
                  CopyIn, LaunchOne, CheckLaunch, Wait, CopyOut, ThrowOne, Unchanged, call
    <2>4. CASE Kernel
      BY <2>4 DEF Kernel, RunKernel, KernelEnds, Stage, Simulate, fixed, call
    <2>5. CASE (\E s \in DOMAIN stream : Asynchronous(s)) \/ (Fault /\ Unchanged)
      BY <2>5 DEF Asynchronous, Run, Fault, Unchanged, call
    <2> QED  BY <2>1, <2>2, <2>3, <2>4, <2>5 DEF Next
  <1> QED  BY <1>1 DEF Strings, Threads, ChunkSize, Chunk, Lo, ChunkHi

(* The strings of a native call are strings of the batch. *)
LEMMA CalledStrings ==
  ASSUME TypeOK, PlaceInv, ResultInv, py = "native"
  PROVE  Called \subseteq Strings
  <1>1. num \in Nat /\ Len(perInput) \in Nat
    BY SizesAssumption DEF TypeOK, NativeTypeOK, ResultInv
  <1>2. ~executor.batched => Len(perInput) < num
    BY DEF PlaceInv
  <1> QED  BY <1>1, <1>2 DEF Called, Strings

(* While the host is in a call, or work is queued, the caller is in it. *)
LEMMA InCall ==
  ASSUME TypeOK, PlaceInv, QuietInv,
         host \notin {"idle", "returned", "raised"} \/ Queued
  PROVE  py = "native" /\ host # "idle" /\ num > 0
  BY DEF TypeOK, PlaceInv, QuietInv, Quiet

(* Types at the start of a call.                                           *)
LEMMA StartType ==
  ASSUME Init
  PROVE  TypeOK
  <1>1. NativeTypeOK
    <2>1. empty \subseteq Strings
      BY DEF Init
    <2>2. stream \in [0 .. NStreams - 1 -> Seq({"upload", "kernel"} \cup Buffers)]
      BY DEF Init, HostInit
    <2>3. out \in [Buffers -> SUBSET Strings]
      BY DEF Init, HostInit
    <2>4. tooLarge \in BOOLEAN
      BY DEF Init
    <2>5. c \in 0 .. NStreams - 1
      BY SizesAssumption DEF Init, HostInit
    <2> QED  BY <2>1, <2>2, <2>3, <2>4, <2>5 DEF Init, HostInit, NativeTypeOK
  <1>2. executor \in Executors /\ tooLong \in BOOLEAN
    BY DEF Init
  <1>3. Len(perInput) <= num /\ Len(results) \in {0, num}
    BY SizesAssumption DEF Init
  <1>4. \A b \in DOMAIN shared : shared[b] \subseteq 0 .. Entries - 1
    BY DEF Init
  <1> QED  BY <1>1, <1>2, <1>3, <1>4 DEF Init, TypeOK

(* What is queued on a stream keeps its type.                              *)
LEMMA EnqueueType ==
  ASSUME NativeTypeOK, NEW op \in {"upload", "kernel"} \cup Buffers, Enqueue(op)
  PROVE  stream' \in [0 .. NStreams - 1 -> Seq({"upload", "kernel"} \cup Buffers)]
  <1>1. Append(stream[c], op) \in Seq({"upload", "kernel"} \cup Buffers)
    BY DEF NativeTypeOK
  <1> QED  BY <1>1 DEF NativeTypeOK, Enqueue

(* The types are preserved: TypeOK, by its part for the device and its     *)
(* part for the caller and the blocks.                                     *)
LEMMA NativeTypeStep ==
  ASSUME IInv, [Next]_vars
  PROVE  NativeTypeOK'
  <1> USE DEF Buffers
  <1>1. NativeTypeOK /\ TypeOK /\ PlaceInv /\ QuietInv /\ ResultInv
    BY DEF IInv, TypeOK
  <1>2. /\ UNCHANGED <<num, empty, tooLarge>>
        /\ Strings' = Strings
    BY FixedStep
  <1>3. \A s \in 0 .. NStreams - 1 : Chunk(s) \subseteq Strings
    BY <1>1, ChunkBounds, SizesAssumption DEF NativeTypeOK
  <1>4. py = "native" => Called \subseteq Strings
    BY <1>1, CalledStrings
  <1>5. host \notin {"idle", "returned", "raised"} \/ Queued => py = "native"
    BY <1>1, InCall
  <1>6. 0 \in 0 .. NStreams - 1
    BY SizesAssumption
  <1>7. SUFFICES /\ c' \in 0 .. NStreams - 1
                 /\ stream' \in [0 .. NStreams - 1 -> Seq({"upload", "kernel"} \cup Buffers)]
                 /\ launchError' \in BOOLEAN /\ fault' \in BOOLEAN
                 /\ pinned' \subseteq Buffers \cup {"input"}
                 /\ arrived' \subseteq Strings /\ computed' \subseteq Strings
                 /\ out' \in [Buffers -> SUBSET Strings]
    BY <1>1, <1>2 DEF NativeTypeOK
  <1>8. CASE UNCHANGED vars \/ Python
    BY <1>1, <1>8 DEF NativeTypeOK, vars, native, device, Python, Construct, Pack, RunNext,
                      SumUp, TakeResult, Propagate, CallNative
  <1>9. CASE Host
    <2>1. CASE Pin
      BY <2>1, <1>1 DEF Pin, NativeTypeOK, device
    <2>2. CASE Upload \/ Launch \/ Download
      <3>1. stream' \in [0 .. NStreams - 1 -> Seq({"upload", "kernel"} \cup Buffers)]
        <4>1. UNCHANGED stream \/ \E op \in {"upload", "kernel"} \cup Buffers : Enqueue(op)
          BY <2>2 DEF Upload, Launch, Download
        <4> QED  BY <4>1, <1>1, EnqueueType DEF NativeTypeOK
      <3> QED  BY <2>2, <3>1, <1>1 DEF Upload, Launch, Download, NativeTypeOK
    <2>3. CASE NextChunk
      BY <2>3, <1>1, SizesAssumption DEF NextChunk, NativeTypeOK, device
    <2>4. CASE CheckLaunches \/ Synchronize \/ Return \/ Throw \/ DestroyStreams \/ Unpin
                 \/ FreeDevice \/ DropArrays
      BY <2>4, <1>1 DEF CheckLaunches, Synchronize, Return, Throw, DestroyStreams, Unpin,
                        FreeDevice, DropArrays, NativeTypeOK, device
    <2> QED  BY <1>9, <2>1, <2>2, <2>3, <2>4 DEF Host
  <1>10. CASE CopyIn \/ LaunchOne \/ CheckLaunch \/ Wait \/ CopyOut \/ ThrowOne
    <2>1. CASE CopyIn
      BY <2>1, <1>1, <1>4, <1>5 DEF CopyIn, NativeTypeOK
    <2>2. CASE LaunchOne
      <3>1. stream' \in [0 .. NStreams - 1 -> Seq({"upload", "kernel"} \cup Buffers)]
        BY <2>2, <1>1, EnqueueType DEF LaunchOne, NativeTypeOK
      <3> QED  BY <2>2, <3>1, <1>1 DEF LaunchOne, NativeTypeOK
    <2>3. CASE CopyOut
      BY <2>3, <1>1, <1>4, <1>5 DEF CopyOut, NativeTypeOK
    <2>4. CASE CheckLaunch \/ Wait \/ ThrowOne
      BY <2>4, <1>1 DEF CheckLaunch, Wait, ThrowOne, NativeTypeOK, device
    <2> QED  BY <1>10, <2>1, <2>2, <2>3, <2>4
  <1>11. CASE Kernel
    <2>1. CASE RunKernel \/ KernelEnds
      <3>1. stream' \in [0 .. NStreams - 1 -> Seq({"upload", "kernel"} \cup Buffers)]
        <4>1. stream' = [stream EXCEPT ![0] = <<>>]
          BY <2>1 DEF RunKernel, KernelEnds
        <4> DEFINE Work == Seq({"upload", "kernel"} \cup Buffers)
        <4>2. <<>> \in Work
          OBVIOUS
        <4>3. stream \in [0 .. NStreams - 1 -> Work]
          BY <1>1 DEF NativeTypeOK
        <4> HIDE DEF Work
        <4>4. stream' \in [0 .. NStreams - 1 -> Work]
          BY <4>1, <4>2, <4>3
        <4> QED  BY <4>4 DEF Work
      <3> QED  BY <2>1, <3>1, <1>1 DEF RunKernel, KernelEnds, NativeTypeOK
    <2>2. ASSUME NEW t \in Threads, Stage(t)  PROVE NativeTypeOK'
      BY <2>2, <1>1, <1>2 DEF Stage, native, device, NativeTypeOK
    <2>3. CASE \E t \in Threads : Simulate(t)
      BY <2>3, <1>1 DEF Simulate, NativeTypeOK
    <2> QED  BY <1>11, <2>1, <2>2, <2>3, <1>2 DEF Kernel, NativeTypeOK
  <1>12. ASSUME NEW s \in DOMAIN stream, Run(s)  PROVE NativeTypeOK'
    <2>1. s \in 0 .. NStreams - 1 /\ stream[s] \in Seq({"upload", "kernel"} \cup Buffers)
      BY <1>1 DEF NativeTypeOK
    <2>2. Tail(stream[s]) \in Seq({"upload", "kernel"} \cup Buffers)
      BY <2>1, <1>12 DEF Run
    <2>3. out' \in [Buffers -> SUBSET Strings]
      BY <2>1, <1>1, <1>12 DEF Run, NativeTypeOK
    <2>4. arrived' \subseteq Strings /\ computed' \subseteq Strings
      BY <2>1, <1>1, <1>3, <1>12 DEF Run, NativeTypeOK
    <2> QED  BY <2>2, <2>3, <2>4, <1>1, <1>2, <1>12 DEF Run, NativeTypeOK
  <1>13. CASE Fault
    BY <1>13, <1>1 DEF Fault, NativeTypeOK
  <1> QED
    BY <1>2, <1>8, <1>9, <1>10, <1>11, <1>12, <1>13
    DEF Next, NativeHost, Asynchronous, NativeTypeOK

(* What batch_results returns for n verdicts: one result per verdict, and  *)
(* the time of all of them on the first.                                   *)
LEMMA BatchResults ==
  ASSUME NEW n \in Nat, NEW v, NEW ms, NEW r,
         DOMAIN v = 1 .. n,
         r = batch_results(v, ms)
  PROVE  /\ DOMAIN r = 1 .. n
         /\ Len(r) = n
         /\ \A k \in 1 .. n : r[k].verdict = v[k]
         /\ \A k \in DOMAIN r : r[k].ms = IF k = 1 THEN ms ELSE {}
  <1> DEFINE Result == {[verdict |-> v[k], ms |-> IF k = 1 THEN ms ELSE {}] : k \in 1 .. n}
  <1>1. /\ DOMAIN r = 1 .. n
        /\ \A k \in 1 .. n : r[k] = [verdict |-> v[k], ms |-> IF k = 1 THEN ms ELSE {}]
    BY DEF batch_results
  <1>2. r \in [1 .. n -> Result]
    <2>1. r = [k \in 1 .. n |-> [verdict |-> v[k], ms |-> IF k = 1 THEN ms ELSE {}]]
      BY DEF batch_results
    <2> HIDE DEF Result
    <2>2. \A k \in 1 .. n : [verdict |-> v[k], ms |-> IF k = 1 THEN ms ELSE {}] \in Result
      BY DEF Result
    <2> QED  BY <2>1, <2>2
  <1> HIDE DEF Result
  <1>3. r \in Seq(Result)
    BY <1>2
  <1>4. Len(r) = n
    BY <1>1, <1>3
  <1>5. \A k \in 1 .. n : r[k].verdict = v[k]
    BY <1>1
  <1>6. ASSUME NEW k \in 1 .. n  PROVE r[k].ms = IF k = 1 THEN ms ELSE {}
    <2> DEFINE time == IF k = 1 THEN ms ELSE {}
    <2>1. r[k] = [verdict |-> v[k], ms |-> time]
      BY <1>1
    <2> HIDE DEF time
    <2>2. r[k].ms = time
      BY <2>1
    <2> QED  BY <2>2 DEF time
  <1> QED  BY <1>1, <1>4, <1>5, <1>6

(* What a native call returns is right: every string of it is in the       *)
(* output arrays.                                                          *)
LEMMA SlotRight ==
  ASSUME IInv, py = "native", host = "returned", ~tooLong
  PROVE  \A k \in Called : Slot(k) = k
  <1>1. TypeOK /\ PlaceInv /\ QuietInv /\ SyncInv /\ AsyncInv
    BY DEF IInv
  <1>2. ~fault /\ executor.host # "cpu"
    BY <1>1 DEF PlaceInv, QuietInv, Quiet
  <1>3. \A b \in Buffers : Called \subseteq out[b]
    BY <1>1, <1>2, ExecutorFacts DEF TypeOK, SyncInv, AsyncInv, Called
  <1> QED  BY <1>2, <1>3 DEF Slot

(* The Python loop adds one result at a time, each with its own string's   *)
(* verdict and time.                                                       *)
LEMMA ResultStep ==
  ASSUME IInv, [Next]_vars
  PROVE  ResultInv'
  <1> DEFINE Result == [verdict : Nat, ms : SUBSET Nat]
  <1>1. TypeOK /\ PlaceInv /\ QuietInv /\ ResultInv
    BY DEF IInv
  <1>2. UNCHANGED <<num, executor, tooLong>> /\ Strings' = Strings
    BY FixedStep
  <1>3. num \in Nat /\ Len(perInput) \in Nat
    BY <1>1, SizesAssumption DEF TypeOK, NativeTypeOK, ResultInv
  <1> DEFINE PerInputOK ==
               /\ perInput \in Seq(Result)
               /\ \A k \in DOMAIN perInput : perInput[k].ms = {k - 1}
               /\ ~tooLong => \A k \in DOMAIN perInput : perInput[k].verdict = k - 1
             Appended(x) == /\ perInput' = Append(perInput, x)
                            /\ x \in Result /\ x.ms = {Len(perInput)}
                            /\ ~tooLong => x.verdict = Len(perInput)
  <1>4. PerInputOK
    BY <1>1 DEF ResultInv
  <1>5. ASSUME NEW x, Appended(x)  PROVE PerInputOK'
    <2> HIDE DEF Result
    <2>1. perInput' \in Seq(Result) /\ DOMAIN perInput' = 1 .. Len(perInput) + 1
      BY <1>4, <1>5
    <2>2. ASSUME NEW k \in DOMAIN perInput'
          PROVE  \/ k \in DOMAIN perInput /\ perInput'[k] = perInput[k]
                 \/ k - 1 = Len(perInput) /\ perInput'[k] = x
      BY <2>1, <1>4, <1>5
    <2>3. \A k \in DOMAIN perInput' : perInput'[k].ms = {k - 1}
      BY <2>2, <1>4, <1>5
    <2>4. ~tooLong => \A k \in DOMAIN perInput' : perInput'[k].verdict = k - 1
      BY <2>2, <1>4, <1>5
    <2> QED  BY <2>1, <2>3, <2>4, <1>2
  <1>6. CASE UNCHANGED python
    BY <1>6, <1>1, <1>2 DEF python, ResultInv, BatchFaithful, OneTimePerBatch, Unchecked
  <1>7. CASE Construct \/ Propagate
    BY <1>7, <1>1, <1>2 DEF Construct, Propagate, ResultInv, BatchFaithful, OneTimePerBatch, Unchecked
  <1>8. CASE Pack
    <2>1. CASE num = 0
      <3>1. UNCHANGED <<perInput, results>>
        BY <1>8 DEF Pack
      <3>2. results' = <<>>
        BY <3>1, <1>1, <1>8 DEF Pack, ResultInv
      <3>3. Len(results') = num' /\ DOMAIN results' = {} /\ Strings' = {}
        BY <3>2, <2>1, <1>2 DEF Strings
      <3> QED  BY <3>1, <3>2, <3>3, <1>1, <1>2 DEF ResultInv, BatchFaithful, OneTimePerBatch, Unchecked
    <2>2. CASE num # 0
      <3>1. py' # "returned"
        BY <1>8, <2>2, <1>3 DEF Pack, CallNative
      <3> QED  BY <3>1, <1>8, <1>1, <1>2 DEF Pack, ResultInv, BatchFaithful, OneTimePerBatch, Unchecked
    <2> QED  BY <2>1, <2>2
  <1>9. CASE RunNext
    <2>1. py' # "returned" /\ results' = <<>>
      BY <1>9, <1>1 DEF RunNext, CallNative, ResultInv
    <2>2. UNCHANGED perInput \/ Appended([verdict |-> Len(perInput), ms |-> {Len(perInput)}])
      BY <1>9, <1>3 DEF RunNext
    <2>3. PerInputOK'
      BY <2>2, <1>2, <1>4, <1>5
    <2> QED  BY <2>1, <2>3 DEF ResultInv, BatchFaithful, OneTimePerBatch
  <1>10. CASE SumUp
    <2> DEFINE v == [k \in DOMAIN perInput |-> perInput[k].verdict]
               ms == UNION {perInput[k].ms : k \in DOMAIN perInput}
    <2>1. /\ Len(perInput) = num /\ UNCHANGED perInput
          /\ results' = batch_results(v, ms)
      BY <1>10 DEF SumUp
    <2>2. DOMAIN perInput = 1 .. num
      BY <2>1, <1>4
    <2>3. DOMAIN v = 1 .. num /\ (~tooLong => \A k \in 1 .. num : v[k] = k - 1)
      BY <2>2, <1>4
    <2>4. ms = Strings
      <3>1. \A k \in 1 .. num : perInput[k].ms = {k - 1}
        BY <2>2, <1>4
      <3>2. \A x \in Strings : x + 1 \in 1 .. num /\ x \in {(x + 1) - 1}
        BY <1>3 DEF Strings
      <3>3. \A k \in 1 .. num : k - 1 \in Strings
        BY <1>3 DEF Strings
      <3> QED  BY <2>2, <3>1, <3>2, <3>3
    <2> HIDE DEF v, ms
    <2>5. /\ DOMAIN results' = 1 .. num
          /\ Len(results') = num
          /\ \A k \in 1 .. num : results'[k].verdict = v[k]
          /\ \A k \in DOMAIN results' : results'[k].ms = IF k = 1 THEN Strings ELSE {}
      BY <2>1, <2>3, <2>4, <1>3, BatchResults
    <2>6. py' = "returned" /\ PerInputOK'
      BY <1>10, <2>1, <1>2, <1>4 DEF SumUp
    <2>7. ~tooLong => \A k \in Strings : results'[k + 1].verdict = k
      BY <2>3, <2>5, <1>3 DEF Strings
    <2>8. ~executor.batched
      BY <1>10, <1>1 DEF SumUp, PlaceInv
    <2> QED  BY <2>5, <2>6, <2>7, <2>8, <1>2 DEF ResultInv, BatchFaithful, OneTimePerBatch, Unchecked
  <1>11. CASE TakeResult
    <2>1. ~tooLong => \A k \in Called : Slot(k) = k
      BY <1>11, SlotRight DEF TakeResult
    <2>2. CASE executor.batched
      <3> DEFINE v == [k \in 1 .. num |-> Slot(k - 1)]
      <3>1. results' = batch_results(v, Strings) /\ py' = "returned" /\ UNCHANGED perInput
        BY <1>11, <2>2 DEF TakeResult, Called
      <3>2. DOMAIN v = 1 .. num /\ \A k \in 1 .. num : v[k] = k - 1
        <4>1. \A k \in 1 .. num : k - 1 \in Called
          BY <2>2, <1>3 DEF Called, Strings
        <4>2. ~tooLong
          BY <1>11, <2>2, <1>1 DEF TakeResult, PlaceInv
        <4> QED  BY <4>1, <4>2, <2>1
      <3> HIDE DEF v
      <3>3. /\ DOMAIN results' = 1 .. num
            /\ Len(results') = num
            /\ \A k \in 1 .. num : results'[k].verdict = v[k]
            /\ \A k \in DOMAIN results' : results'[k].ms = IF k = 1 THEN Strings ELSE {}
        BY <3>1, <3>2, <1>3, BatchResults
      <3>4. \A k \in Strings : results'[k + 1].verdict = k
        BY <3>2, <3>3, <1>3 DEF Strings
      <3>5. PerInputOK'
        BY <3>1, <1>2, <1>4
      <3> QED  BY <3>1, <3>3, <3>4, <3>5, <1>2 DEF ResultInv, BatchFaithful, OneTimePerBatch
    <2>3. CASE ~executor.batched
      <3> DEFINE x == [verdict |-> Slot(Len(perInput)), ms |-> {Len(perInput)}]
      <3>1. perInput' = Append(perInput, x) /\ py' # "returned" /\ results' = <<>>
        BY <1>11, <2>3, <1>1 DEF TakeResult, Called, ResultInv
      <3>2. x \in Result
        <4>1. Slot(Len(perInput)) \in Nat
          BY <1>3, SizesAssumption DEF Slot, Garbage
        <4> QED  BY <4>1, <1>3
      <3>3. ~tooLong => x.verdict = Len(perInput)
        BY <2>1, <2>3 DEF Called
      <3>4. PerInputOK'
        <4>1. x.ms = {Len(perInput)}
          OBVIOUS
        <4> HIDE DEF x, PerInputOK
        <4> QED  BY <3>1, <3>2, <3>3, <4>1, <1>5
      <3> QED  BY <3>1, <3>4 DEF ResultInv, BatchFaithful, OneTimePerBatch
    <2> QED  BY <2>2, <2>3
  <1> QED
    BY <1>6, <1>7, <1>8, <1>9, <1>10, <1>11
    DEF Next, vars, Python, Kernel, RunKernel, KernelEnds, Stage, Simulate, Asynchronous,
        Unchanged

(* Each step of the call keeps the types.                                  *)
LEMMA TypeStep ==
  ASSUME IInv, [Next]_vars
  PROVE  TypeOK'
  <1>1. TypeOK /\ PlaceInv /\ StageInv /\ ResultInv
    BY DEF IInv
  <1>2. /\ UNCHANGED <<num, executor, tooLong>>
        /\ Strings' = Strings /\ Threads' = Threads
    BY FixedStep
  <1>3. num \in Nat
    BY <1>1, SizesAssumption DEF TypeOK, NativeTypeOK
  <1>4. UNCHANGED blocks \/ \E t \in Threads : Stage(t) \/ Simulate(t)
    BY DEF Next, vars, Python, Construct, Pack, RunNext, SumUp, TakeResult, Propagate,
           Kernel, RunKernel, KernelEnds, Asynchronous, Unchanged, blocks
  <1>5. /\ \A b \in DOMAIN shared' : shared'[b] \subseteq 0 .. Entries - 1
        /\ left' \subseteq Threads
    <2>1. CASE UNCHANGED blocks
      BY <2>1, <1>1 DEF blocks, TypeOK
    <2>2. ASSUME NEW t \in Threads, Stage(t)
          PROVE  <1>5!1 /\ left' \subseteq Threads
      <3>1. at[t] \in Nat /\ at[t] < Entries
        BY <2>2, <1>1, ThreadBounds DEF Stage, StageInv, TypeOK, NativeTypeOK
      <3>2. at[t] \in 0 .. Entries - 1
        BY <3>1, BlockAssumption
      <3>3. shared' = [shared EXCEPT ![BlockOf(t)] = @ \cup {at[t]}] /\ UNCHANGED left
        BY <2>2 DEF Stage
      <3> QED  BY <3>2, <3>3, <1>1 DEF StageInv, TypeOK
    <2>3. CASE \E t \in Threads : Simulate(t)
      BY <2>3, <1>1 DEF Simulate, TypeOK
    <2> QED  BY <1>4, <2>1, <2>2, <2>3
  <1>6. /\ py' \in {"construct", "pack", "loop", "native", "returned", "raised"}
        /\ Len(perInput') <= num
        /\ Len(results') \in {0, num}
    <2>1. CASE UNCHANGED python
      BY <2>1, <1>1 DEF python, TypeOK
    <2>2. CASE Construct \/ Pack \/ Propagate
      BY <2>2, <1>1 DEF Construct, Pack, Propagate, CallNative, TypeOK
    <2>3. CASE RunNext \/ SumUp \/ TakeResult
      <3>1. py' \in {"loop", "native", "returned"} /\ py # "returned"
        BY <2>3 DEF RunNext, SumUp, TakeResult, CallNative
      <3>2. Len(results') \in {0, num}
        <4>1. results' = <<>> \/ Len(results') = num'
          BY <3>1, ResultStep DEF ResultInv, BatchFaithful
        <4> QED  BY <4>1, <1>2
      <3>3. perInput' = perInput \/ \E x : perInput' = Append(perInput, x)
        BY <2>3 DEF RunNext, SumUp, TakeResult
      <3>4. Len(perInput) < num \/ perInput' = perInput
        BY <2>3, <1>1 DEF RunNext, SumUp, TakeResult, PlaceInv
      <3>5. Len(perInput) \in Nat /\ \A x : Len(Append(perInput, x)) = Len(perInput) + 1
        BY <1>1 DEF ResultInv
      <3> QED  BY <3>1, <3>2, <3>3, <3>4, <3>5, <1>1, <1>3 DEF TypeOK
    <2> QED
      BY <2>1, <2>2, <2>3
      DEF Next, vars, Python, Kernel, RunKernel, KernelEnds, Stage, Simulate, Asynchronous,
          Unchanged
  <1> QED  BY <1>1, <1>2, <1>5, <1>6, NativeTypeStep DEF TypeOK

(* The caller and the host keep step.                                      *)
LEMMA PlaceStep ==
  ASSUME IInv, [Next]_vars
  PROVE  PlaceInv'
  <1>1. TypeOK /\ PlaceInv /\ QuietInv /\ ResultInv
    BY DEF IInv
  <1>2. UNCHANGED <<num, empty, tooLarge, executor, tooLong>>
    BY FixedStep
  <1>3. /\ executor.host \in {"cpu", "sync", "staged", "async"}
        /\ executor.batched \in BOOLEAN
        /\ executor.host = "cpu" => ~executor.batched
        /\ executor.host \in {"async", "staged"} => executor.batched
    BY <1>1, ExecutorFacts DEF TypeOK
  <1>4. num \in Nat /\ DOMAIN stream = 0 .. NStreams - 1 /\ c \in 0 .. NStreams - 1
    BY <1>1, SizesAssumption DEF TypeOK, NativeTypeOK
  <1> USE DEF PlaceInv, Hosts, Pinning, AsyncHosts, SyncHosts
  <1>5. CASE UNCHANGED vars
    BY <1>5, <1>1 DEF vars, fixed, call, python, native, device
  <1>6. CASE Construct
    BY <1>6, <1>1, <1>2 DEF Construct, native, device
  <1>7. CASE Pack
    <2>1. host = "idle" /\ executor.batched /\ executor.host # "cpu"
      BY <1>7, <1>1, <1>3 DEF Pack
    <2>2. UNCHANGED <<c, stream, pinned, perInput>>
      BY <1>7 DEF Pack, CallNative, native, device
    <2>3. CASE py' # "native"
      BY <2>1, <2>2, <2>3, <1>7, <1>1, <1>2, <1>4 DEF Pack, CallNative, native
    <2>4. CASE py' = "native"
      <3>1. num > 0 /\ ~tooLong /\ CallNative
        BY <2>4, <1>7, <1>4 DEF Pack
      <3> QED  BY <3>1, <2>1, <2>2, <2>4, <1>1, <1>2, <1>3, <1>4 DEF CallNative
    <2> QED  BY <2>3, <2>4
  <1>8. CASE RunNext
    <2>1. host = "idle" /\ ~executor.batched /\ Len(perInput) < num
      BY <1>8, <1>1 DEF RunNext
    <2>2. UNCHANGED <<c, stream, pinned>>
      BY <1>8 DEF RunNext, CallNative, native, device
    <2>3. CASE executor.host = "cpu"
      BY <2>1, <2>2, <2>3, <1>8, <1>1, <1>2 DEF RunNext, native
    <2>4. CASE executor.host # "cpu"
      <3>1. CallNative /\ UNCHANGED perInput
        BY <2>4, <1>8 DEF RunNext
      <3>2. num > 0
        BY <2>1, <1>1, <1>4 DEF ResultInv
      <3> QED  BY <3>1, <3>2, <2>1, <2>2, <2>4, <1>1, <1>2, <1>3 DEF CallNative
    <2> QED  BY <2>3, <2>4
  <1>9. CASE SumUp \/ Propagate
    BY <1>9, <1>1, <1>2 DEF SumUp, Propagate, native, device
  <1>10. CASE TakeResult
    BY <1>10, <1>1, <1>2 DEF TakeResult, device
  <1>11. CASE Host /\ Unchanged
    <2>1. host \in Pinning \cup {"unwind device", "unwind arrays"}
      BY <1>11, <1>1
      DEF Host, Pin, Upload, Launch, Download, NextChunk, CheckLaunches, Synchronize, Return,
          Throw, DestroyStreams, Unpin, FreeDevice, DropArrays, Buffers
    <2>2. py = "native" /\ UNCHANGED <<py, perInput, results>>
      BY <2>1, <1>1, <1>11, InCall DEF Unchanged, python
    <2>3. CASE executor.host = "async"
      <3>1. CASE Pin \/ Upload \/ Launch \/ Download \/ NextChunk
        BY <3>1, <2>2, <2>3, <1>1, <1>2, <1>3
        DEF Pin, Upload, Launch, Download, NextChunk, Goto, Buffers, device
      <3>2. CASE CheckLaunches \/ Synchronize \/ Return \/ Throw \/ DestroyStreams \/ Unpin
                   \/ FreeDevice \/ DropArrays
        BY <3>2, <2>2, <2>3, <1>1, <1>2, <1>3
        DEF CheckLaunches, Synchronize, Return, Throw, DestroyStreams, Unpin, FreeDevice,
            DropArrays, Goto, Buffers, device
      <3> QED  BY <3>1, <3>2, <1>11 DEF Host
    <2>4. CASE executor.host # "async"
      <3>1. FreeDevice \/ DropArrays
        BY <2>4, <1>1, <1>11
        DEF Host, Pin, Upload, Launch, Download, NextChunk, CheckLaunches, Synchronize, Return,
            Throw, DestroyStreams, Unpin, Buffers
      <3> QED  BY <3>1, <2>2, <2>4, <1>1, <1>2 DEF FreeDevice, DropArrays, Goto, device
    <2> QED  BY <2>3, <2>4
  <1>12. CASE (CopyIn \/ LaunchOne \/ CheckLaunch \/ Wait \/ CopyOut \/ ThrowOne) /\ Unchanged
    <2>1. host \in SyncHosts
      BY <1>12 DEF CopyIn, LaunchOne, CheckLaunch, Wait, CopyOut, ThrowOne
    <2>2. py = "native" /\ UNCHANGED <<py, perInput, results>>
      BY <2>1, <1>1, <1>12, InCall DEF Unchanged, python
    <2>3. /\ UNCHANGED <<c, pinned>> /\ host # "idle" /\ pinned = {}
          /\ executor.host \in {"sync", "staged"}
          /\ host' \in (SyncHosts \ {"copy in"}) \cup {"returned", "unwind device"}
      BY <1>12, <2>1, <1>1
      DEF CopyIn, LaunchOne, CheckLaunch, Wait, CopyOut, ThrowOne, Goto
    <2>4. UNCHANGED stream \/ Enqueue("kernel")
      BY <1>12 DEF CopyIn, LaunchOne, CheckLaunch, Wait, CopyOut, ThrowOne, device
    <2>5. c' = 0 /\ \A s \in DOMAIN stream' : s # 0 => stream'[s] = <<>>
      BY <2>3, <2>4, <1>1, <1>4 DEF Enqueue
    <2> QED  BY <2>1, <2>2, <2>3, <2>5, <1>1, <1>2
  <1>13. CASE Kernel
    <2>1. UNCHANGED <<py, perInput, results, host, c, pinned>>
      BY <1>13
      DEF Kernel, RunKernel, KernelEnds, Stage, Simulate, python, native, device
    <2>2. UNCHANGED stream \/ stream' = [stream EXCEPT ![0] = <<>>]
      BY <1>13
      DEF Kernel, RunKernel, KernelEnds, Stage, Simulate, native, device
    <2> QED  BY <2>1, <2>2, <1>1, <1>2, <1>4
  <1>14. CASE \E s \in DOMAIN stream : Asynchronous(s)
    BY <1>14, <1>1, <1>2 DEF Asynchronous, Run, Unchanged, python
  <1>15. CASE Fault /\ Unchanged
    <2>1. UNCHANGED <<py, perInput, host, c, pinned>>
      BY <1>15 DEF Fault, Unchanged, python
    <2>2. \A s \in DOMAIN stream' : stream'[s] = <<>>
      BY <1>15 DEF Fault
    <2> QED  BY <2>1, <2>2, <1>1, <1>2
  <1> QED
    BY <1>5, <1>6, <1>7, <1>8, <1>9, <1>10, <1>11, <1>12, <1>13, <1>14, <1>15
    DEF Next, Python, NativeHost

(* When nothing is in flight, and nothing has failed, stays so.            *)
LEMMA QuietStep ==
  ASSUME IInv, [Next]_vars
  PROVE  QuietInv'
  <1>1. TypeOK /\ PlaceInv /\ QuietInv /\ StageInv
    BY DEF IInv
  <1>2. DOMAIN stream = 0 .. NStreams - 1
    BY <1>1 DEF TypeOK, NativeTypeOK
  <1> USE DEF QuietInv, Quiet
  <1>3. CASE UNCHANGED vars
    BY <1>3, <1>1 DEF vars, native, device, Queued
  <1>4. CASE Python
    <2>1. UNCHANGED <<stream, fault, launchError>> /\ (UNCHANGED host \/ host' \in Quiet)
      BY <1>4
      DEF Python, Construct, Pack, RunNext, SumUp, TakeResult, Propagate, CallNative, native,
          device
    <2>2. UNCHANGED host \/ host \in {"idle", "returned"}
      BY <1>4, <1>1
      DEF Python, Construct, Pack, RunNext, SumUp, TakeResult, Propagate, CallNative, native,
          PlaceInv
    <2> QED  BY <2>1, <2>2, <1>1 DEF Queued
  <1>5. CASE NativeHost
    <2>1. CASE Pin
      BY <2>1, <1>1 DEF Pin, Goto, device, Queued
    <2>2. CASE Upload \/ Launch \/ Download \/ NextChunk
      BY <2>2, <1>1 DEF Upload, Launch, Download, NextChunk, Goto, device, Buffers
    <2>3. CASE CheckLaunches
      BY <2>3, <1>1 DEF CheckLaunches, Goto, device
    <2>4. CASE Synchronize
      BY <2>4, <1>1 DEF Synchronize, Goto, device, Queued
    <2>5. CASE Return
      BY <2>5, <1>1 DEF Return, Goto, device, Queued
    <2>6. CASE Throw \/ DestroyStreams \/ Unpin \/ FreeDevice \/ DropArrays
      BY <2>6, <1>1 DEF Throw, DestroyStreams, Unpin, FreeDevice, DropArrays, Goto, device, Queued
    <2>7. CASE CopyIn
      BY <2>7, <1>1 DEF CopyIn, Goto, Queued
    <2>8. CASE LaunchOne \/ ThrowOne
      BY <2>8, <1>1 DEF LaunchOne, ThrowOne, Goto
    <2>9. CASE CheckLaunch
      BY <2>9, <1>1 DEF CheckLaunch, Goto
    <2>10. CASE Wait
      BY <2>10, <1>1 DEF Wait, Goto, device, Queued
    <2>11. CASE CopyOut
      BY <2>11, <1>1 DEF CopyOut, Goto, Queued
    <2> QED
      BY <1>5, <2>1, <2>2, <2>3, <2>4, <2>5, <2>6, <2>7, <2>8, <2>9, <2>10, <2>11
      DEF NativeHost, Host
  <1>6. CASE Kernel \/ (\E s \in DOMAIN stream : Run(s)) \/ Fault
    <2>1. Queued
      <3>1. 0 \in DOMAIN stream
        BY <1>2, SizesAssumption
      <3> QED
        BY <3>1, <1>6
        DEF Kernel, RunKernel, KernelEnds, Stage, Simulate, Running, Run, Fault, Queued
    <2>2. host' = host /\ launchError' = launchError
      BY <1>6
      DEF Kernel, RunKernel, KernelEnds, Stage, Simulate, Run, Fault, native
    <2> QED  BY <2>1, <2>2, <1>1
  <1> QED
    BY <1>3, <1>4, <1>5, <1>6 DEF Next, Asynchronous

(* The threads of the staging kernel.                                      *)
LEMMA StageStep ==
  ASSUME IInv, [Next]_vars
  PROVE  StageInv'
  <1>1. TypeOK /\ PlaceInv /\ QuietInv /\ SyncInv /\ StageInv
    BY DEF IInv
  <1>2. /\ UNCHANGED <<num, executor>>
        /\ Threads' = Threads
    BY FixedStep
  <1>3. num \in 0 .. MaxStrings /\ num \in Nat
    BY <1>1, SizesAssumption DEF TypeOK, NativeTypeOK
  <1>4. \A t \in Threads : /\ t \in 0 .. MaxStrings + BlockThreads
                           /\ t \in Nat
                           /\ BlockOf(t) \in 0 .. MaxStrings
                           /\ at[t] \in Nat
    BY <1>1, <1>3, ThreadBounds DEF StageInv
  <1>5. CASE UNCHANGED blocks
    <2>1. UNCHANGED <<shared, at, left>>
      BY <1>5 DEF blocks
    <2>2. computed \subseteq computed'
      BY <1>5
      DEF Next, vars, Python, Construct, Pack, RunNext, SumUp, TakeResult, Propagate, CallNative,
          NativeHost, Host, Pin, Upload, Launch, Download, NextChunk, CheckLaunches,
          Synchronize, Return, Throw, DestroyStreams, Unpin, FreeDevice, DropArrays, CopyIn,
          LaunchOne, CheckLaunch, Wait, CopyOut, ThrowOne, Kernel, RunKernel, KernelEnds,
          Stage, Simulate, Asynchronous, Run, Fault, native, device
    <2> QED  BY <2>1, <2>2, <1>1, <1>2 DEF StageInv, BlockOf
  <1>6. ASSUME NEW u \in Threads, Stage(u)  PROVE StageInv'
    <2>1. /\ at[u] < Entries
          /\ shared' = [shared EXCEPT ![BlockOf(u)] = @ \cup {at[u]}]
          /\ at' = [at EXCEPT ![u] = @ + BlockThreads]
          /\ UNCHANGED <<left, computed>>
      BY <1>6 DEF Stage, native, device
    <2>2. at[u] \in 0 .. Entries - 1
      BY <2>1, <1>4, BlockAssumption
    <2>3. /\ shared' \in [0 .. MaxStrings -> SUBSET (0 .. Entries - 1)]
          /\ at' \in [0 .. MaxStrings + BlockThreads -> Nat]
      BY <2>1, <2>2, <1>1, <1>4, BlockAssumption DEF StageInv
    <2>4. \A t \in Threads : shared[BlockOf(t)] \subseteq shared'[BlockOf(t)]
      BY <2>1, <1>1, <1>4 DEF StageInv
    <2>5. ASSUME NEW t \in Threads
          PROVE  /\ at'[t] % BlockThreads = t % BlockThreads
                 /\ \A e \in 0 .. Entries - 1 :
                      e % BlockThreads = t % BlockThreads /\ e < at'[t]
                        => e \in shared'[BlockOf(t)]
      <3>1. CASE t # u
        <4>1. at'[t] = at[t]
          BY <3>1, <2>1, <1>1, <1>4 DEF StageInv
        <4> QED  BY <4>1, <2>4, <1>1 DEF StageInv
      <3>2. CASE t = u
        <4>1. at'[t] = at[t] + BlockThreads /\ shared'[BlockOf(t)] = shared[BlockOf(t)] \cup {at[t]}
          BY <3>2, <2>1, <1>1, <1>4 DEF StageInv
        <4>2. at[t] % BlockThreads = t % BlockThreads
          BY <1>1 DEF StageInv
        <4>3. (at[t] + BlockThreads) % BlockThreads = at[t] % BlockThreads
          BY <1>4, BlockAssumption, NextOfResidue
        <4>4. ASSUME NEW e \in 0 .. Entries - 1,
                     e % BlockThreads = t % BlockThreads, e < at[t] + BlockThreads
              PROVE  e < at[t] \/ e = at[t]
          <5>1. e \in Nat /\ at[t] \in Nat /\ e % BlockThreads = at[t] % BlockThreads
            BY <4>2, <4>4, <1>4, BlockAssumption
          <5> QED  BY <5>1, <4>4, BlockAssumption, NextOfResidue
        <4> QED  BY <4>1, <4>2, <4>3, <4>4, <1>1 DEF StageInv
      <3> QED  BY <3>1, <3>2
    <2> QED  BY <2>1, <2>3, <2>5, <1>1, <1>2 DEF StageInv, BlockOf
  <1>7. ASSUME NEW u \in Threads, Simulate(u)  PROVE StageInv'
    <2>1. /\ \A t \in Threads : BlockOf(t) = BlockOf(u) => at[t] >= Entries
          /\ left' = left \cup {u}
          /\ UNCHANGED <<shared, at>>
          /\ computed \subseteq computed'
          /\ u < num /\ Cardinality(shared[BlockOf(u)]) = Entries =>
               {u} \cap arrived \subseteq computed'
      BY <1>7 DEF Simulate
    <2>2. shared[BlockOf(u)] = 0 .. Entries - 1
      <3>1. shared[BlockOf(u)] \subseteq 0 .. Entries - 1
        BY <1>1, <1>4 DEF StageInv
      <3>2. ASSUME NEW e \in 0 .. Entries - 1  PROVE e \in shared[BlockOf(u)]
        <4>1. e \in Nat /\ e < Entries
          BY BlockAssumption
        <4>2. PICK t \in Threads : BlockOf(t) = BlockOf(u) /\ t % BlockThreads = e % BlockThreads
          BY <4>1, <1>3, ThreadOfResidue
        <4>3. e < at[t]
          BY <4>1, <4>2, <2>1, <1>4, BlockAssumption
        <4> QED  BY <4>2, <4>3, <1>1 DEF StageInv
      <3> QED  BY <3>1, <3>2
    <2>3. Cardinality(0 .. Entries - 1) = Entries
      BY BlockAssumption, FS_Interval
    <2>4. u < num => u \in computed'
      <3>1. Called \subseteq arrived /\ executor.batched
        BY <1>7, <1>1 DEF Simulate, Running, SyncInv, StageInv
      <3>2. u < num => u \in arrived
        BY <3>1, <1>3, <1>4 DEF Called, Strings
      <3> QED  BY <2>1, <2>2, <2>3, <3>2
    <2> QED  BY <2>1, <2>4, <1>1, <1>2 DEF StageInv, BlockOf
  <1> QED
    BY <1>5, <1>6, <1>7
    DEF Next, vars, Python, Construct, Pack, RunNext, SumUp, TakeResult, Propagate,
        Kernel, RunKernel, KernelEnds, Asynchronous, Unchanged, blocks

(* The synchronous hosts: upload, kernel, copy.                            *)
LEMMA SyncStep ==
  ASSUME IInv, [Next]_vars, executor.host \in {"sync", "staged"}
  PROVE  SyncInv'
  <1>1. TypeOK /\ PlaceInv /\ QuietInv /\ SyncInv /\ StageInv /\ ResultInv
    BY DEF IInv
  <1>2. /\ UNCHANGED <<num, executor>>
        /\ Strings' = Strings /\ Threads' = Threads
    BY FixedStep
  <1>3. 0 \in DOMAIN stream /\ c = 0 /\ Len(stream[0]) \in Nat
    BY <1>1, SizesAssumption DEF TypeOK, NativeTypeOK, PlaceInv
  <1>4. host \in Quiet \cup {"unwind arrays", "raised"} => stream[0] = <<>>
    BY <1>1, <1>3 DEF QuietInv, Queued
  <1>5. UNCHANGED perInput => Called' = Called
    BY <1>2 DEF Called
  <1>6. CASE UNCHANGED vars
    BY <1>6, <1>1, <1>5 DEF vars, python, native, device, SyncInv
  <1>7. CASE Construct \/ Pack \/ RunNext \/ SumUp \/ Propagate
    <2>1. UNCHANGED <<stream, fault, arrived, computed, out, launchError>>
      BY <1>7 DEF Construct, Pack, RunNext, SumUp, Propagate, CallNative, native, device
    <2>2. \/ host = "idle" /\ host' \in {"idle", "pin", "copy in"}
          \/ UNCHANGED <<perInput, host>>
      BY <1>7, <1>1
      DEF Construct, Pack, RunNext, SumUp, Propagate, CallNative, native, PlaceInv
    <2>3. CASE UNCHANGED <<perInput, host>>
      BY <2>1, <2>3, <1>1, <1>5 DEF SyncInv
    <2>4. CASE host = "idle" /\ host' \in {"idle", "pin", "copy in"}
      BY <2>1, <2>4, <1>4 DEF SyncInv, Quiet
    <2> QED  BY <2>2, <2>3, <2>4
  <1>8. CASE TakeResult
    <2>1. UNCHANGED <<stream, fault, arrived, computed, out, launchError>>
      BY <1>8 DEF TakeResult, device
    <2>2. stream[0] = <<>> /\ (host' = "idle" \/ UNCHANGED <<perInput, host>>)
      BY <1>8, <1>4 DEF TakeResult, Quiet
    <2> QED  BY <2>1, <2>2, <1>1, <1>5 DEF SyncInv
  <1>9. CASE Host /\ Unchanged
    <2>1. FreeDevice \/ DropArrays
      BY <1>9, <1>1
      DEF Host, Pin, Upload, Launch, Download, NextChunk, CheckLaunches, Synchronize, Return,
          Throw, DestroyStreams, Unpin, Buffers, PlaceInv, Pinning, AsyncHosts
    <2> QED
      BY <1>9, <2>1, <1>1, <1>5 DEF FreeDevice, DropArrays, Goto, device, Unchanged, python, SyncInv
  <1>10. CASE (CopyIn \/ LaunchOne \/ CheckLaunch \/ Wait \/ CopyOut \/ ThrowOne) /\ Unchanged
    <2>1. Called' = Called
      BY <1>10, <1>5 DEF Unchanged, python
    <2>2. CASE CopyIn
      BY <2>1, <2>2, <1>1 DEF CopyIn, Goto, SyncInv
    <2>3. CASE LaunchOne
      <3>1. launchError' \/ stream'[0] # <<>>
        <4>1. launchError' \/ stream'[0] = Append(stream[0], "kernel")
          BY <2>3, <1>3 DEF LaunchOne, Enqueue
        <4>2. stream[0] \in Seq({"upload", "kernel"} \cup Buffers)
          BY <1>1, <1>3 DEF TypeOK, NativeTypeOK
        <4>3. Append(stream[0], "kernel") # <<>>
          BY <4>2
        <4> QED  BY <4>1, <4>3
      <3> QED  BY <3>1, <2>1, <2>3, <1>1 DEF LaunchOne, Goto, SyncInv
    <2>4. CASE CheckLaunch \/ ThrowOne
      BY <2>1, <2>4, <1>1 DEF CheckLaunch, ThrowOne, Goto, device, SyncInv
    <2>5. CASE Wait
      <3>1. stream[0] = <<>> /\ ~launchError
        BY <2>5, <1>1, <1>3 DEF Wait, Queued, QuietInv
      <3> QED  BY <3>1, <2>1, <2>5, <1>1 DEF Wait, Goto, device, SyncInv
    <2>6. CASE CopyOut
      <3>1. Called \subseteq computed
        BY <2>6, <1>1 DEF CopyOut, SyncInv
      <3>2. \A b \in Buffers : Called \subseteq out'[b]
        BY <3>1, <2>6 DEF CopyOut
      <3> QED  BY <3>2, <2>1, <2>6, <1>1, <1>4 DEF CopyOut, Goto, Quiet, SyncInv
    <2> QED  BY <1>10, <2>2, <2>3, <2>4, <2>5, <2>6
  <1>11. CASE RunKernel \/ KernelEnds
    <2>1. /\ stream[0] # <<>>
          /\ stream' = [stream EXCEPT ![0] = <<>>]
          /\ UNCHANGED <<perInput, host, launchError, fault, arrived, out>>
      BY <1>11 DEF RunKernel, KernelEnds, Running, python
    <2>2. Called \subseteq arrived /\ Called' = Called
      BY <2>1, <1>1, <1>5 DEF SyncInv
    <2>3. Called \subseteq computed'
      <3>1. CASE RunKernel
        BY <3>1, <2>2 DEF RunKernel
      <3>2. CASE KernelEnds
        <4>1. left = Threads /\ computed' = computed /\ executor.batched
          BY <3>2, <1>1 DEF KernelEnds, Running, StageInv
        <4>2. Strings \subseteq Threads
          BY <1>1, ThreadBounds DEF TypeOK, NativeTypeOK
        <4>3. \A t \in Strings : t < num
          BY <1>1, SizesAssumption DEF TypeOK, NativeTypeOK, Strings
        <4> QED  BY <4>1, <4>2, <4>3, <1>1 DEF StageInv, Called
      <3> QED  BY <1>11, <3>1, <3>2
    <2>4. stream'[0] = <<>>
      BY <2>1, <1>3
    <2>5. host # "returned"
      BY <2>1, <1>4 DEF Quiet
    <2> QED  BY <2>1, <2>2, <2>3, <2>4, <2>5, <1>1 DEF SyncInv
  <1>12. ASSUME NEW t \in Threads, Stage(t) \/ Simulate(t)  PROVE SyncInv'
    <2>1. /\ UNCHANGED <<perInput, host, launchError, fault, stream, arrived, out>>
          /\ computed \subseteq computed'
      BY <1>12 DEF Stage, Simulate, python, native, device
    <2> QED  BY <2>1, <1>1, <1>5 DEF SyncInv
  <1>13. CASE Fault /\ Unchanged
    <2>1. /\ UNCHANGED <<perInput, host, launchError, arrived, computed, out>>
          /\ fault' = TRUE /\ stream'[0] = <<>>
      BY <1>13, <1>3 DEF Fault, Unchanged, python
    <2> QED  BY <2>1, <1>1, <1>5 DEF SyncInv
  <1> QED
    BY <1>6, <1>7, <1>8, <1>9, <1>10, <1>11, <1>12, <1>13
    DEF Next, Python, NativeHost, Kernel, Asynchronous

(* The asynchronous host: a stream on which the host issues nothing, one   *)
(* on which it issues the next operation, and one that works one off.      *)
LEMMA OperationAt ==
  /\ Operations[1] = "upload" /\ Operations[2] = "kernel"
  /\ Operations[3] = "flags" /\ Operations[4] = "lens"
  BY DEF Operations

(* A stream nothing is queued on and nothing runs on stays as it was,      *)
(* whatever the others do.                                                 *)
LEMMA StreamKept ==
  ASSUME IInv, [Next]_vars, NEW s \in DOMAIN stream, NEW i \in 0 .. 4, StreamInv(s, i),
         stream'[s] = stream[s],
         arrived \subseteq arrived', computed \subseteq computed',
         \A b \in Buffers : out[b] \subseteq out'[b]
  PROVE  StreamInv(s, i)'
  <1>1. Chunk(s)' = Chunk(s) /\ empty' = empty
    BY FixedStep
  <1>2. out["flags"] \subseteq out'["flags"] /\ out["lens"] \subseteq out'["lens"]
    BY DEF Buffers
  <1>3. \A n : Effects(s, n) => Effects(s, n)'
    BY <1>1, <1>2 DEF Effects
  <1> QED  BY <1>3 DEF StreamInv

(* To queue the next operation of a chunk is one more issued.              *)
LEMMA StreamIssued ==
  ASSUME IInv, [Next]_vars, c \in DOMAIN stream, NEW i \in 0 .. 3, StreamInv(c, i),
         Enqueue(Operations[i + 1]), UNCHANGED <<arrived, computed, out, c>>
  PROVE  StreamInv(c, i + 1)'
  <1> DEFINE q == stream[c]
             op == Operations[i + 1]
  <1>1. \A n : Effects(c, n) => Effects(c, n)'
    <2>1. Chunk(c)' = Chunk(c)
      BY FixedStep DEF Chunk, Lo, ChunkHi, ChunkSize
    <2> QED  BY <2>1, FixedStep DEF Effects
  <1>2. q \in Seq({"upload", "kernel"} \cup Buffers)
    BY DEF IInv, TypeOK, NativeTypeOK
  <1>3. stream'[c] = Append(q, op)
    BY DEF Enqueue
  <1>4. /\ Len(q) \in Nat /\ Len(stream'[c]) = Len(q) + 1
        /\ \A k \in 1 .. Len(q) : stream'[c][k] = q[k]
        /\ stream'[c][Len(q) + 1] = op
    BY <1>2, <1>3
  <1>5. (i + 1) - Len(stream'[c]) = i - Len(q)
    BY <1>4
  <1>6. ASSUME NEW k \in 1 .. Len(stream'[c])
        PROVE  stream'[c][k] = Operations[(i - Len(q)) + k]
    <2>1. CASE k = Len(q) + 1
      <3>1. (i - Len(q)) + k = i + 1
        BY <2>1, <1>4
      <3> QED  BY <3>1, <2>1, <1>4
    <2>2. CASE k # Len(q) + 1
      <3>1. k \in 1 .. Len(q)
        BY <2>2, <1>4
      <3> QED  BY <3>1, <1>4 DEF StreamInv
    <2> QED  BY <2>1, <2>2
  <1>7. Len(q) <= i /\ Effects(c, i - Len(q))
    BY DEF StreamInv
  <1> QED  BY <1>1, <1>4, <1>5, <1>6, <1>7 DEF StreamInv

(* A stream that runs its first operation has its effect on the whole      *)
(* chunk, and the rest is still in order.                                  *)
LEMMA StreamRuns ==
  ASSUME IInv, [Next]_vars, NEW s \in DOMAIN stream, NEW i \in 0 .. 4, StreamInv(s, i), Run(s)
  PROVE  StreamInv(s, i)'
  <1> DEFINE q == stream[s]
             op == Head(q)
  <1>1. Chunk(s)' = Chunk(s) /\ empty' = empty
    BY FixedStep
  <1>2. q \in Seq({"upload", "kernel"} \cup Buffers) /\ q # <<>>
    BY DEF IInv, TypeOK, NativeTypeOK, Run
  <1>3. stream'[s] = Tail(q) /\ op = q[1]
    BY <1>2 DEF Run
  <1>4. /\ Len(q) \in Nat \ {0}
        /\ Len(Tail(q)) = Len(q) - 1
        /\ \A k \in 1 .. Len(q) - 1 : Tail(q)[k] = q[k + 1]
    BY <1>2
  <1>5. PICK d \in Int : d = i - Len(q)
    BY <1>4
  <1>6. /\ Len(q) <= i
        /\ \A k \in 1 .. Len(q) : q[k] = Operations[d + k]
        /\ Effects(s, d)
    BY <1>5 DEF StreamInv
  <1>7. d \in 0 .. 3 /\ i - Len(stream'[s]) = d + 1 /\ Len(stream'[s]) <= i
    <2>1. Len(stream'[s]) = Len(q) - 1
      BY <1>3, <1>4
    <2>2. PICK n \in Nat : n = Len(q) /\ n # 0 /\ n <= i /\ d = i - n
      BY <1>4, <1>5, <1>6
    <2>3. PICK m \in Nat : m = Len(stream'[s]) /\ m = n - 1
      BY <2>1, <2>2
    <2>4. d \in 0 .. 3 /\ i - m = d + 1 /\ m <= i
      BY <2>2, <2>3
    <2> QED  BY <2>3, <2>4
  <1>8. op = Operations[d + 1]
    BY <1>3, <1>4, <1>6
  <1>9. ASSUME NEW k \in 1 .. Len(stream'[s])
        PROVE  stream'[s][k] = Operations[(d + 1) + k]
    <2>1. k \in 1 .. Len(q) - 1 /\ k + 1 \in 1 .. Len(q) /\ d + (k + 1) = (d + 1) + k
      BY <1>3, <1>4, <1>7
    <2>2. q[k + 1] = Operations[d + (k + 1)]
      BY <2>1, <1>6
    <2> QED  BY <2>1, <2>2, <1>3, <1>4
  <1>10. Effects(s, d + 1)'
    <2>1. out \in [Buffers -> SUBSET Strings]
      BY DEF IInv, TypeOK, NativeTypeOK
    <2> HIDE DEF op
    <2>2. CASE d = 0
      <3>1. op = "upload"
        BY <2>2, <1>8, OperationAt
      <3>2. arrived' = arrived \cup Chunk(s)
        BY <3>1 DEF Run, op
      <3> QED  BY <3>2, <2>2, <1>1 DEF Effects
    <2>3. CASE d = 1
      <3>1. op = "kernel"
        BY <2>3, <1>8, OperationAt
      <3>2. computed' = computed \cup (Chunk(s) \cap (arrived \cup empty)) /\ arrived' = arrived
        BY <3>1 DEF Run, op, Buffers
      <3> QED  BY <3>2, <2>3, <1>1, <1>6 DEF Effects
    <2>4. CASE d = 2
      <3>1. op = "flags"
        BY <2>4, <1>8, OperationAt
      <3>2. /\ out' = [out EXCEPT !["flags"] = @ \cup (Chunk(s) \cap computed)]
            /\ UNCHANGED <<arrived, computed>>
        BY <3>1 DEF Run, op, Buffers
      <3> QED  BY <3>2, <2>1, <2>4, <1>1, <1>6 DEF Effects, Buffers
    <2>5. CASE d = 3
      <3>1. op = "lens"
        BY <2>5, <1>8, OperationAt
      <3>2. /\ out' = [out EXCEPT !["lens"] = @ \cup (Chunk(s) \cap computed)]
            /\ UNCHANGED <<arrived, computed>>
        BY <3>1 DEF Run, op, Buffers
      <3> QED  BY <3>2, <2>1, <2>5, <1>1, <1>6 DEF Effects, Buffers
    <2> QED  BY <2>2, <2>3, <2>4, <2>5, <1>7
  <1> QED  BY <1>7, <1>9, <1>10 DEF StreamInv

(* How many operations of a stream the host has issued, at each of its     *)
(* steps.                                                                  *)
LEMMA IssuedAt ==
  ASSUME NEW h \in AsyncHosts, NEW d \in Nat
  PROVE  /\ \A s \in Nat : Issued(h, d, s) \in 0 .. 4
         /\ \A s \in Nat : h = "pin" \/ s > d => Issued(h, d, s) = 0
         /\ \A s \in Nat : h # "pin" /\ s < d => Issued(h, d, s) = 4
         /\ h = "upload" => Issued(h, d, d) = 0
         /\ h = "launch" => Issued(h, d, d) = 1
         /\ h = "flags"  => Issued(h, d, d) = 2
         /\ h = "lens"   => Issued(h, d, d) = 3
         /\ h \in {"next", "lastError", "sync", "return"} => Issued(h, d, d) = 4
  BY DEF Issued, AsyncHosts

(* A step of the host that issues nothing, and one that does.              *)
LEMMA NothingIssued ==
  ASSUME IInv, [Next]_vars, executor.host = "async",
         host \in AsyncHosts, host' \in AsyncHosts, ~fault, ~launchError,
         UNCHANGED <<stream, arrived, computed, out>>,
         \A s \in DOMAIN stream : Issued(host', c', s) = Issued(host, c, s)
  PROVE  \A s \in DOMAIN stream' : StreamInv(s, Issued(host, c, s))'
  <1> SUFFICES ASSUME NEW s \in DOMAIN stream
               PROVE  StreamInv(s, Issued(host, c, s))'
    OBVIOUS
  <1>1. s \in Nat /\ c \in Nat
    BY SizesAssumption DEF IInv, TypeOK, NativeTypeOK
  <1>2. PICK i \in 0 .. 4 : i = Issued(host, c, s)
    BY <1>1, IssuedAt
  <1>3. StreamInv(s, i)
    BY <1>2 DEF IInv, AsyncInv
  <1>4. StreamInv(s, i)'
    BY <1>3, StreamKept
  <1> QED  BY <1>2, <1>4

(* A host step that issues the next operation of its chunk, or has none to *)
(* issue, leaves every stream in order.                                    *)
LEMMA OneIssued ==
  ASSUME IInv, [Next]_vars, executor.host = "async",
         host \in {"upload", "launch", "flags", "lens"}, host' \in AsyncHosts,
         ~fault, ~launchError, c' = c,
         Issued(host', c, c) = Issued(host, c, c) + 1, host' # "pin",
         \/ Enqueue(Operations[Issued(host, c, c) + 1])
         \/ UNCHANGED stream /\ StreamInv(c, Issued(host, c, c) + 1),
         UNCHANGED <<arrived, computed, out>>
  PROVE  \A s \in DOMAIN stream' : StreamInv(s, Issued(host, c, s))'
  <1>1. /\ c \in DOMAIN stream /\ DOMAIN stream' = DOMAIN stream
        /\ DOMAIN stream \subseteq Nat
    BY SizesAssumption, NativeTypeStep DEF IInv, TypeOK, NativeTypeOK
  <1>2. host \in AsyncHosts
    BY DEF AsyncHosts
  <1>3. PICK i \in 0 .. 3 : i = Issued(host, c, c)
    BY <1>1, <1>2, IssuedAt
  <1>4. StreamInv(c, i + 1)'
    <2>1. CASE Enqueue(Operations[i + 1])
      <3>1. StreamInv(c, i)
        BY <1>1, <1>2, <1>3 DEF IInv, AsyncInv
      <3> QED  BY <2>1, <3>1, <1>1, StreamIssued
    <2>2. CASE UNCHANGED stream /\ StreamInv(c, i + 1)
      <3>1. PICK s \in DOMAIN stream : s = c
        BY <1>1
      <3>2. StreamInv(s, i + 1) /\ i + 1 \in 0 .. 4
        BY <2>2, <3>1
      <3>3. StreamInv(s, i + 1)'
        BY <2>2, <3>2, StreamKept
      <3>4. c' = s
        BY <3>1
      <3> QED  BY <3>3, <3>4 DEF StreamInv, Effects, Chunk, Lo, ChunkHi
    <2> QED  BY <1>3, <2>1, <2>2
  <1>5. ASSUME NEW s \in DOMAIN stream, s # c
        PROVE  StreamInv(s, Issued(host, c, s))'
    <2>1. PICK n \in 0 .. 4 : n = Issued(host, c, s) /\ n = Issued(host', c', s)
      BY <1>1, <1>2, <1>5, IssuedAt
    <2>2. StreamInv(s, n)
      BY <2>1, <1>2 DEF IInv, AsyncInv
    <2>3. stream'[s] = stream[s]
      BY <1>5 DEF Enqueue
    <2>4. StreamInv(s, n)'
      BY <2>2, <2>3, StreamKept
    <2> QED  BY <2>1, <2>4
  <1>6. StreamInv(c, Issued(host, c, c))'
    BY <1>3, <1>4
  <1>7. ASSUME NEW s \in DOMAIN stream, s = c
        PROVE  StreamInv(s, Issued(host, c, s))'
    <2>1. c' = s
      BY <1>7
    <2>2. Issued(host, c, s)' = Issued(host, c, c)'
      BY <2>1
    <2>3. StreamInv(s, i + 1)'
      BY <2>1, <1>4 DEF StreamInv, Effects, Chunk, Lo, ChunkHi
    <2> QED  BY <2>1, <2>3, <1>3, <1>7
  <1> QED  BY <1>1, <1>5, <1>7

(* Each step keeps what is known of the asynchronous pipeline.             *)
LEMMA AsyncStep ==
  ASSUME IInv, [Next]_vars, executor.host = "async"
  PROVE  AsyncInv'
  <1> DEFINE Streams == \A s \in DOMAIN stream : StreamInv(s, Issued(host, c, s))
             Copied == \A b \in Buffers : Strings \subseteq out[b]
  <1>1. TypeOK /\ PlaceInv /\ QuietInv /\ AsyncInv
    BY DEF IInv
  <1>2. /\ UNCHANGED <<num, executor>>
        /\ Strings' = Strings
        /\ ChunkSize' = ChunkSize
        /\ executor.batched
    BY <1>1, FixedStep, ExecutorFacts DEF TypeOK
  <1>3. /\ DOMAIN stream = 0 .. NStreams - 1 /\ DOMAIN stream \subseteq Nat
        /\ c \in DOMAIN stream /\ c \in Nat
        /\ DOMAIN stream' = DOMAIN stream /\ c' \in Nat
        /\ num \in Nat
    BY <1>1, SizesAssumption, NativeTypeStep DEF TypeOK, NativeTypeOK
  <1>4. /\ host \in {"idle", "pin"} => c = 0
        /\ host \in AsyncHosts /\ ~fault /\ ~launchError => Streams
        /\ host \in {"lastError", "sync", "return"} => c + 1 = NStreams \/ Lo(c + 1) >= num
        /\ host \in {"return", "returned"} => Copied
    BY <1>1 DEF AsyncInv
  <1>5. \A s \in DOMAIN stream :
          host \in AsyncHosts => Issued(host, c, s) \in 0 .. 4
    BY <1>3, IssuedAt
  <1>6. SUFFICES /\ host' \in {"idle", "pin"} => c' = 0
                 /\ host' \in AsyncHosts /\ ~fault' /\ ~launchError' => Streams'
                 /\ host' \in {"lastError", "sync", "return"} =>
                      c' + 1 = NStreams \/ Lo(c + 1)' >= num
                 /\ host' \in {"return", "returned"} => Copied'
    BY <1>2 DEF AsyncInv
  <1> DEFINE Goal == <1>6!1
  <1>7. CASE UNCHANGED <<host, c, stream, fault, launchError, arrived, computed, out>>
    <2>1. host \in AsyncHosts /\ ~fault /\ ~launchError => Streams'
      BY <1>7, <1>3, <1>1, NothingIssued
    <2> QED  BY <2>1, <1>7, <1>2, <1>4 DEF Lo
  <1>8. CASE Python
    <2>1. Construct \/ Propagate \/ TakeResult \/ Pack
      BY <1>8, <1>1, <1>2 DEF Python, RunNext, SumUp, PlaceInv
    <2>2. \/ UNCHANGED host
          \/ host = "idle" /\ host' = "pin"
      <3>1. CASE Construct \/ Propagate \/ TakeResult
        BY <3>1, <1>2 DEF Construct, Propagate, TakeResult, native
      <3>2. CASE Pack
        <4>1. host = "idle" /\ (UNCHANGED native \/ CallNative)
          BY <3>2, <1>1, <1>3 DEF Pack, PlaceInv
        <4> QED  BY <4>1 DEF CallNative, native
      <3> QED  BY <2>1, <3>1, <3>2
    <2>3. UNCHANGED <<c, stream, fault, launchError, arrived, computed, out>>
      BY <2>1 DEF Construct, Propagate, TakeResult, Pack, CallNative, native, device
    <2>4. CASE host = "idle" /\ host' = "pin"
      <3>1. \A s \in DOMAIN stream : stream[s] = <<>>
        BY <2>4, <1>1 DEF QuietInv, Quiet, Queued
      <3>2. Streams'
        <4> SUFFICES ASSUME NEW s \in DOMAIN stream PROVE StreamInv(s, Issued(host, c, s))'
          BY <1>3
        <4>1. Issued(host, c, s)' = 0
          BY <2>4 DEF Issued
        <4>2. stream'[s] = <<>> /\ Len(<<>>) = 0
          BY <3>1, <2>3
        <4>3. StreamInv(s, 0)'
          BY <4>2 DEF StreamInv, Effects
        <4> QED  BY <4>1, <4>3
      <3> QED  BY <3>2, <2>3, <2>4, <1>4 DEF AsyncHosts
    <2> QED  BY <2>2, <2>3, <2>4, <1>7
  <1>9. CASE Host /\ Unchanged
    <2>1. CASE Pin
      <3>1. /\ host = "pin" /\ host' \in {"pin", "upload"}
            /\ UNCHANGED <<c, stream, fault, launchError, arrived, computed, out>>
        BY <2>1 DEF Pin, Goto, device
      <3>2. \A s \in DOMAIN stream : Issued(host', c', s) = Issued(host, c, s)
        BY <3>1, <1>3, <1>4 DEF Issued
      <3>3. ~fault /\ ~launchError => Streams'
        BY <3>1, <3>2, <1>1, NothingIssued DEF AsyncHosts
      <3> QED  BY <3>1, <3>3, <1>4
    <2>2. CASE Upload
      <3>1. /\ host = "upload" /\ host' = "launch" /\ ~fault
            /\ UNCHANGED <<c, fault, launchError, arrived, computed, out>>
            /\ IF Chunk(c) \subseteq empty THEN UNCHANGED stream ELSE Enqueue("upload")
        BY <2>2 DEF Upload, Goto
      <3>2. Issued(host, c, c) = 0 /\ Issued(host', c, c) = 1
        BY <3>1, <1>3 DEF Issued
      <3>3. ASSUME Chunk(c) \subseteq empty, ~launchError
            PROVE  StreamInv(c, 1)
        <4>1. StreamInv(c, 0)
          BY <3>1, <3>2, <3>3, <1>3, <1>4 DEF AsyncHosts
        <4>2. Len(stream[c]) = 0
          <5>1. Len(stream[c]) \in Nat
            BY <1>1, <1>3 DEF TypeOK, NativeTypeOK
          <5> QED  BY <5>1, <4>1 DEF StreamInv
        <4> QED  BY <4>2, <3>3 DEF StreamInv, Effects
      <3>4. ~launchError => Streams'
        <4> SUFFICES ASSUME ~launchError PROVE Streams'
          OBVIOUS
        <4>1. \/ Enqueue(Operations[Issued(host, c, c) + 1])
              \/ UNCHANGED stream /\ StreamInv(c, Issued(host, c, c) + 1)
          BY <3>1, <3>2, <3>3, OperationAt
        <4>2. Issued(host', c, c) = Issued(host, c, c) + 1
          BY <3>2
        <4> QED  BY <3>1, <4>1, <4>2, <1>1, OneIssued DEF AsyncHosts
      <3> QED  BY <3>1, <3>4
    <2>3. CASE Launch
      <3>1. /\ host = "launch" /\ host' = "flags"
            /\ UNCHANGED <<c, fault, arrived, computed, out>>
            /\ \/ ~fault /\ Enqueue("kernel") /\ UNCHANGED launchError
               \/ launchError' = TRUE
        BY <2>3 DEF Launch, Goto
      <3>2. Issued(host, c, c) = 1 /\ Issued(host', c, c) = Issued(host, c, c) + 1
        BY <3>1, <1>3 DEF Issued
      <3>3. ~launchError' => Streams'
        <4> SUFFICES ASSUME ~launchError' PROVE Streams'
          OBVIOUS
        <4>1. Enqueue(Operations[Issued(host, c, c) + 1]) /\ ~launchError /\ ~fault
          BY <3>1, <3>2, OperationAt
        <4> QED  BY <3>1, <3>2, <4>1, <1>1, OneIssued DEF AsyncHosts
      <3> QED  BY <3>1, <3>3
    <2>4. CASE Download
      <3>1. /\ host \in Buffers /\ host' = (IF host = "flags" THEN "lens" ELSE "next") /\ ~fault
            /\ UNCHANGED <<c, fault, launchError, arrived, computed, out>>
            /\ Enqueue(host)
        BY <2>4 DEF Download, Goto
      <3>2. /\ Issued(host', c, c) = Issued(host, c, c) + 1
            /\ Operations[Issued(host, c, c) + 1] = host
        <4>1. CASE host = "flags"
          BY <4>1, <3>1, <1>3, OperationAt DEF Issued
        <4>2. CASE host = "lens"
          BY <4>2, <3>1, <1>3, OperationAt DEF Issued
        <4> QED  BY <4>1, <4>2, <3>1 DEF Buffers
      <3>3. ~launchError => Streams'
        BY <3>1, <3>2, <1>1, OneIssued DEF AsyncHosts, Buffers
      <3> QED  BY <3>1, <3>3 DEF Buffers
    <2>5. CASE NextChunk
      <3>1. /\ host = "next"
            /\ UNCHANGED <<stream, fault, launchError, arrived, computed, out>>
            /\ IF c + 1 < NStreams /\ Lo(c + 1) < num
                 THEN c' = c + 1 /\ host' = "upload"
                 ELSE c' = c /\ host' = "lastError"
        BY <2>5 DEF NextChunk, Goto, device
      <3>2. \A s \in DOMAIN stream : Issued(host', c', s) = Issued(host, c, s)
        BY <3>1, <1>3 DEF Issued
      <3>3. ~fault /\ ~launchError => Streams'
        BY <3>1, <3>2, <1>1, NothingIssued DEF AsyncHosts
      <3>4. host' = "lastError" => c' + 1 = NStreams \/ Lo(c + 1)' >= num
        <4> SUFFICES ASSUME host' = "lastError" PROVE c' + 1 = NStreams \/ Lo(c + 1)' >= num
          OBVIOUS
        <4>1. c' = c /\ ~(c + 1 < NStreams /\ Lo(c + 1) < num)
          BY <3>1
        <4>2. Lo(c + 1)' = Lo(c + 1)
          BY <4>1, <1>2 DEF Lo
        <4>3. Lo(c + 1) \in Nat
          BY <1>3, ChunkBounds DEF Lo
        <4> QED  BY <4>1, <4>2, <4>3, <1>3, SizesAssumption
      <3> QED  BY <3>1, <3>3, <3>4
    <2>6. CASE CheckLaunches
      <3>1. /\ host = "lastError" /\ host' = "sync"
            /\ UNCHANGED <<c, stream, fault, launchError, arrived, computed, out>>
        BY <2>6 DEF CheckLaunches, Goto, device
      <3>2. \A s \in DOMAIN stream : Issued(host', c', s) = Issued(host, c, s)
        BY <3>1 DEF Issued
      <3>3. ~fault /\ ~launchError => Streams'
        BY <3>1, <3>2, <1>1, NothingIssued DEF AsyncHosts
      <3> QED  BY <3>1, <3>3, <1>2, <1>4 DEF Lo
    <2>7. CASE Synchronize
      <3>1. /\ host = "sync" /\ host' = "return" /\ ~Queued /\ ~fault /\ ~launchError
            /\ UNCHANGED <<c, stream, fault, launchError, arrived, computed, out>>
        BY <2>7, <1>1 DEF Synchronize, Goto, device, QuietInv
      <3>2. \A s \in DOMAIN stream : Issued(host', c', s) = Issued(host, c, s)
        BY <3>1 DEF Issued
      <3>3. Streams'
        BY <3>1, <3>2, <1>1, NothingIssued DEF AsyncHosts
      <3>4. \A s \in DOMAIN stream : s <= c => \A b \in Buffers : Chunk(s) \subseteq out[b]
        <4> SUFFICES ASSUME NEW s \in DOMAIN stream, s <= c
                     PROVE  \A b \in Buffers : Chunk(s) \subseteq out[b]
          OBVIOUS
        <4>1. Issued(host, c, s) = 4
          BY <3>1, <1>3 DEF Issued
        <4>2. StreamInv(s, 4)
          BY <4>1, <3>1, <1>4 DEF AsyncHosts
        <4>3. stream[s] = <<>> /\ Len(<<>>) = 0
          BY <3>1 DEF Queued
        <4>4. Effects(s, 4)
          BY <4>2, <4>3 DEF StreamInv
        <4> QED  BY <4>4 DEF Effects, Buffers
      <3>5. Copied
        <4> SUFFICES ASSUME NEW k \in Strings
                     PROVE  \A b \in Buffers : k \in out[b]
          OBVIOUS
        <4>1. c + 1 = NStreams \/ Lo(c + 1) >= num
          BY <3>1, <1>4
        <4>2. PICK s \in 0 .. c : k \in Chunk(s)
          BY <4>1, <1>3, ChunksCover
        <4>3. s \in DOMAIN stream /\ s <= c
          BY <1>3, SizesAssumption
        <4> QED  BY <4>2, <4>3, <3>4
      <3> QED  BY <3>1, <3>3, <3>5, <1>2, <1>4 DEF Lo
    <2>8. CASE Return
      <3>1. host = "return" /\ host' = "returned" /\ UNCHANGED out
        BY <2>8 DEF Return, Goto, device
      <3> QED  BY <3>1, <1>2, <1>4 DEF AsyncHosts
    <2>9. CASE Throw \/ DestroyStreams \/ Unpin \/ FreeDevice \/ DropArrays
      BY <2>9
      DEF Throw, DestroyStreams, Unpin, FreeDevice, DropArrays, Goto, AsyncHosts
    <2> QED  BY <1>9, <2>1, <2>2, <2>3, <2>4, <2>5, <2>6, <2>7, <2>8, <2>9 DEF Host
  <1>10. CASE CopyIn \/ LaunchOne \/ CheckLaunch \/ Wait \/ CopyOut \/ ThrowOne
    BY <1>10, <1>1
    DEF CopyIn, LaunchOne, CheckLaunch, Wait, CopyOut, ThrowOne, PlaceInv, SyncHosts
  <1>11. CASE Kernel
    BY <1>11 DEF Kernel, RunKernel, KernelEnds, Stage, Simulate, Running
  <1>12. ASSUME NEW s \in DOMAIN stream, Run(s)  PROVE Goal
    <2>1. /\ UNCHANGED <<host, c, fault, launchError>>
          /\ \A r \in DOMAIN stream : r # s => stream'[r] = stream[r]
          /\ arrived \subseteq arrived' /\ computed \subseteq computed'
      BY <1>12 DEF Run
    <2>2. \A b \in Buffers : out[b] \subseteq out'[b]
      <3>1. out \in [Buffers -> SUBSET Strings]
        BY <1>1 DEF TypeOK, NativeTypeOK
      <3>2. \/ out' = out
            \/ \E b \in Buffers : \E x : out' = [out EXCEPT ![b] = @ \cup x]
        BY <1>12 DEF Run
      <3> QED  BY <3>1, <3>2
    <2>3. host \in AsyncHosts /\ ~fault /\ ~launchError => Streams'
      <3> SUFFICES ASSUME host \in AsyncHosts, ~fault, ~launchError, NEW r \in DOMAIN stream
                   PROVE  StreamInv(r, Issued(host, c, r))'
        BY <1>3
      <3>1. PICK i \in 0 .. 4 : i = Issued(host, c, r)
        BY <1>5
      <3>2. StreamInv(r, i)
        BY <3>1, <1>4
      <3>3. StreamInv(r, i)'
        <4>1. CASE r = s
          BY <4>1, <3>2, <1>12, StreamRuns
        <4>2. CASE r # s
          BY <4>2, <3>2, <2>1, <2>2, StreamKept
        <4> QED  BY <4>1, <4>2
      <3> QED  BY <3>1, <3>3, <2>1
    <2> QED  BY <2>1, <2>2, <2>3, <1>2, <1>4 DEF Lo
  <1>13. CASE Fault
    <2>1. UNCHANGED <<host, c, out>> /\ fault'
      BY <1>13 DEF Fault
    <2> QED  BY <2>1, <1>2, <1>4 DEF Lo
  <1>14. CASE UNCHANGED vars
    BY <1>14, <1>7 DEF vars, native, device
  <1> QED
    BY <1>8, <1>9, <1>10, <1>11, <1>12, <1>13, <1>14 DEF Next, NativeHost, Asynchronous

-----------------------------------------------------------------------------
(* The theorems. *)

(* The invariant holds when a call begins.                                 *)
LEMMA Start ==
  ASSUME Init
  PROVE  IInv
  <1>1. TypeOK
    BY StartType
  <1>2. \A s \in DOMAIN stream : stream[s] = <<>>
    BY DEF Init, HostInit
  <1>3. host = "idle" /\ c = 0 /\ pinned = {} /\ ~fault /\ ~launchError /\ py = "construct"
        /\ left = {} /\ perInput = <<>> /\ results = <<>>
    BY DEF Init, HostInit
  <1>4. PlaceInv
    BY <1>2, <1>3 DEF PlaceInv, Hosts, Pinning, AsyncHosts, SyncHosts
  <1>5. QuietInv
    BY <1>2, <1>3 DEF QuietInv, Queued
  <1>6. SyncInv /\ AsyncInv
    <2>1. 0 \in DOMAIN stream
      BY SizesAssumption DEF Init, HostInit
    <2> QED  BY <1>2, <1>3, <2>1 DEF SyncInv, AsyncInv, AsyncHosts
  <1>7. StageInv
    <2>1. num \in 0 .. MaxStrings
      BY <1>1 DEF TypeOK, NativeTypeOK
    <2>2. shared \in [0 .. MaxStrings -> SUBSET (0 .. Entries - 1)]
      BY DEF Init
    <2>3. at = [t \in 0 .. MaxStrings + BlockThreads |-> t % BlockThreads]
      BY DEF Init
    <2>4. at \in [0 .. MaxStrings + BlockThreads -> Nat]
      BY <2>3, BlockAssumption, SizesAssumption
    <2>5. executor.host = "staged" => executor.batched
      BY <1>1, ExecutorFacts DEF TypeOK
    <2>6. ASSUME NEW t \in Threads
          PROVE  /\ at[t] % BlockThreads = t % BlockThreads
                 /\ \A e \in 0 .. Entries - 1 :
                      e % BlockThreads = t % BlockThreads /\ e < at[t]
                        => e \in shared[BlockOf(t)]
      <3>1. t \in 0 .. MaxStrings + BlockThreads /\ t \in Nat
        BY <2>1, ThreadBounds, SizesAssumption, BlockAssumption
      <3>2. at[t] = t % BlockThreads
        BY <2>3, <3>1
      <3>3. (t % BlockThreads) % BlockThreads = t % BlockThreads
        BY <3>1, BlockAssumption
      <3>4. \A e \in 0 .. Entries - 1 :
              ~(e % BlockThreads = t % BlockThreads /\ e < t % BlockThreads)
        BY <3>1, BlockAssumption
      <3> QED  BY <3>2, <3>3, <3>4
    <2> QED  BY <1>3, <2>2, <2>4, <2>5, <2>6 DEF StageInv
  <1>8. ResultInv
    BY <1>3 DEF ResultInv, BatchFaithful, OneTimePerBatch
  <1> QED  BY <1>1, <1>4, <1>5, <1>6, <1>7, <1>8 DEF IInv

(* Each step of the call keeps the invariant.                              *)
LEMMA Step ==
  ASSUME IInv, [Next]_vars
  PROVE  IInv'
  <1>1. executor \in Executors /\ executor' = executor
    BY FixedStep DEF IInv, TypeOK
  <1>2. SyncInv'
    BY <1>1, SyncStep DEF SyncInv
  <1>3. AsyncInv'
    BY <1>1, AsyncStep DEF AsyncInv
  <1> QED
    BY <1>2, <1>3, TypeStep, PlaceStep, QuietStep, StageStep, ResultStep DEF IInv

(* The invariant holds in every reachable state. *)
THEOREM Inductive == Spec => []IInv
  <1>1. Init => IInv
    BY Start
  <1>2. IInv /\ [Next]_vars => IInv'
    BY Step
  <1> QED  BY <1>1, <1>2, PTL DEF Spec

(* Every variable has its type.                                            *)
THEOREM TypeCorrect == Spec => []TypeOK
  <1>1. IInv => TypeOK
    BY DEF IInv
  <1> QED  BY <1>1, Inductive, PTL

(* A batch that returns has one result per string, each the verdict of its *)
(* own string (but for a single one too long for the int of its kernel's   *)
(* input_len): on every executor, whatever streams and threads interleave, *)
(* and for any number of strings, streams, threads and entries.            *)
THEOREM FaithfulBatch == Spec => []BatchFaithful
  <1>1. IInv => BatchFaithful
    BY DEF IInv, ResultInv
  <1> QED  BY <1>1, Inductive, PTL

(* The first result accounts for the time of every string exactly once,    *)
(* the others for none.                                                    *)
THEOREM TimedOnce == Spec => []OneTimePerBatch
  <1>1. IInv => OneTimePerBatch
    BY DEF IInv, ResultInv
  <1> QED  BY <1>1, Inductive, PTL

(* Once a call has ended, and its arrays are dropped or returned, nothing  *)
(* is in flight that could write to them.                                  *)
THEOREM ArraysLeftAlone == Spec => []NoWriteAfterDrop
  <1>1. IInv => NoWriteAfterDrop
    BY DEF IInv, QuietInv, Quiet, NoWriteAfterDrop
  <1> QED  BY <1>1, Inductive, PTL

(* However a call ends, no buffer of the caller stays pinned.              *)
THEOREM PagesReleased == Spec => []NothingStaysPinned
  <1>1. IInv => NothingStaysPinned
    BY DEF IInv, PlaceInv, Pinning, AsyncHosts, NothingStaysPinned
  <1> QED  BY <1>1, Inductive, PTL
=============================================================================
