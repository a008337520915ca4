--------------------------- MODULE AsyncPipeline ---------------------------
(***************************************************************************)
(* run_multistream_async: a batch cut into one chunk per stream, so that   *)
(* the upload of one chunk overlaps the kernel of another.                 *)
(*                                                                         *)
(* The host enqueues, per chunk, the upload of its input, its kernel and   *)
(* the downloads of its two outputs, all on the chunk's own stream, then   *)
(* waits once for the device.  The downloads write the numpy arrays the    *)
(* function returns.  CUDA_CHECK throws on any call that fails, and what   *)
(* was acquired is released by destructors in reverse order of             *)
(* declaration, while earlier chunks may still be in flight.               *)
(*                                                                         *)
(* External: the CUDA runtime.  The work of a stream runs in order, that   *)
(* of different streams in any order; after a fault nothing more runs;     *)
(* cudaStreamDestroy does not wait, cudaFree waits for the device.         *)
(***************************************************************************)
EXTENDS Naturals, Sequences, FiniteSets, FiniteSetsExt

CONSTANTS
  NStreams,     (* N_STREAMS = 4 in the code                              *)
  MaxStrings    (* bound on the batch                                     *)

ASSUME SizesAssumption == NStreams \in Nat \ {0} /\ MaxStrings \in Nat \ {0}

VARIABLES
  num,         (* fixed: num_strings, at least 1 when the function is called *)
  empty,       (* fixed: the strings of length 0                           *)
  tooLarge,    (* fixed: num_states is over the limit of the technique, here
                  BITPACKED_MAX_WORDS * 64                                 *)
  host,        (* what the host does next; "idle" outside of a call        *)
  c,           (* the chunk it is enqueueing                               *)
  stream,      (* the work queued on each stream                           *)
  launchError, (* the error a failed launch leaves for cudaGetLastError    *)
  fault,       (* a fault of the device: sticky                            *)
  pinned,      (* the host buffers registered with the driver              *)
  arrived,     (* strings whose input is on the device                     *)
  computed,    (* strings whose verdict is right in d_flags and d_lens     *)
  out          (* strings whose verdict is right in the numpy arrays, per
                  array                                                    *)

call == <<num, empty, tooLarge>>
device == <<stream, fault, arrived, computed, out>>
native == <<host, c, device, launchError, pinned>>

Strings == 0 .. num - 1
Buffers == {"flags", "lens"}

(* The chunks: ceil(num / NStreams) strings each, the last ones shorter or
   missing. *)
ChunkSize == (num + NStreams - 1) \div NStreams
Lo(k) == k * ChunkSize
ChunkHi(k) == Min({Lo(k) + ChunkSize, num})
Chunk(k) == Lo(k) .. ChunkHi(k) - 1

HostInit ==
  /\ host = "idle"
  /\ c = 0
  /\ stream = [s \in 0 .. NStreams - 1 |-> <<>>]
  /\ launchError = FALSE
  /\ fault = FALSE
  /\ pinned = {}
  /\ arrived = {}
  /\ computed = {}
  /\ out = [b \in Buffers |-> {}]

Queued == \E s \in DOMAIN stream : stream[s] # <<>>

Enqueue(op) == stream' = [stream EXCEPT ![c] = Append(@, op)]
Goto(step) == host' = step

-----------------------------------------------------------------------------
(* The host.  A CUDA_CHECKed call can succeed only while there is no fault. *)

(* HostRegistration::own, buffer by buffer; an empty input is not pinned. *)
Pin ==
  /\ host = "pin"
  /\ ~fault
  /\ LET wanted == Buffers \cup (IF Strings \subseteq empty THEN {} ELSE {"input"})
     IN IF pinned = wanted
          THEN Goto("upload") /\ UNCHANGED pinned
          ELSE /\ \E b \in wanted \ pinned : pinned' = pinned \cup {b}
               /\ UNCHANGED host
  /\ UNCHANGED <<call, c, device, launchError>>

(* The upload of a chunk that has any input byte. *)
Upload ==
  /\ host = "upload"
  /\ ~fault
  /\ IF Chunk(c) \subseteq empty
       THEN UNCHANGED stream
       ELSE Enqueue("upload")
  /\ Goto("launch")
  /\ UNCHANGED <<call, c, launchError, pinned, fault, arrived, computed, out>>

(* A launch returns nothing: one that fails is only seen by cudaGetLastError. *)
Launch ==
  /\ host = "launch"
  /\ ~tooLarge
  /\ \/ ~fault /\ Enqueue("kernel") /\ UNCHANGED launchError
     \/ launchError' = TRUE /\ UNCHANGED stream
  /\ Goto("flags")
  /\ UNCHANGED <<call, c, pinned, fault, arrived, computed, out>>

(* The downloads of the chunk, one for each output. *)
Download ==
  /\ host \in Buffers
  /\ ~fault
  /\ Enqueue(host)
  /\ Goto(IF host = "flags" THEN "lens" ELSE "next")
  /\ UNCHANGED <<call, c, launchError, pinned, fault, arrived, computed, out>>

(* for (c < N_STREAMS), left when lo >= num_strings. *)
NextChunkPastEndMutant ==
  /\ host = "next"
  /\ IF c < NStreams
       THEN c' = c + 1 /\ Goto("upload")
       ELSE Goto("lastError") /\ UNCHANGED c
  /\ UNCHANGED <<call, device, launchError, pinned>>

NextChunk ==
  /\ host = "next"
  /\ IF c + 1 < NStreams /\ Lo(c + 1) < num
       THEN c' = c + 1 /\ Goto("upload")
       ELSE Goto("lastError") /\ UNCHANGED c
  /\ UNCHANGED <<call, device, launchError, pinned>>

(* CUDA_CHECK(cudaGetLastError()). *)
CheckLaunchesDroppedMutant ==
  /\ host = "lastError"
  /\ ~fault
  /\ Goto("sync")
  /\ UNCHANGED <<call, c, device, launchError, pinned>>

CheckLaunches ==
  /\ host = "lastError"
  /\ ~launchError
  /\ ~fault
  /\ Goto("sync")
  /\ UNCHANGED <<call, c, device, launchError, pinned>>

(* CUDA_CHECK(cudaDeviceSynchronize()). *)
Synchronize ==
  /\ host = "sync"
  /\ ~Queued
  /\ ~fault
  /\ Goto("return")
  /\ UNCHANGED <<call, c, device, launchError, pinned>>

(* Any checked call may fail, and does after a fault or a failed launch; so
   does the switch on the number of words. *)
ThrowNotFromSyncMutant ==
  /\ \/ host \in {"pin", "upload", "lastError", "return"} \cup Buffers
     \/ host = "launch" /\ tooLarge
  /\ Goto("unwind streams")
  /\ UNCHANGED <<call, c, device, launchError, pinned>>

Throw ==
  /\ \/ host \in {"pin", "upload", "lastError", "sync", "return"} \cup Buffers
     \/ host = "launch" /\ tooLarge
  /\ Goto("unwind streams")
  /\ UNCHANGED <<call, c, device, launchError, pinned>>

-----------------------------------------------------------------------------
(* Destructors, the last declared first: StreamScope, HostRegistration,
   DeviceScope, and at the end the numpy arrays. *)

(* cudaStreamDestroy lets the queued work run. *)
DestroyStreams ==
  /\ host = "unwind streams"
  /\ Goto("unwind pins")
  /\ UNCHANGED <<call, c, device, launchError, pinned>>

UnpinSkippedMutant ==
  /\ host = "unwind pins"
  /\ Goto("unwind device")
  /\ UNCHANGED <<call, c, device, launchError, pinned>>

UnpinLeaksDeviceMutant ==
  /\ host = "unwind pins"
  /\ pinned' = {}
  /\ Goto("unwind arrays")
  /\ UNCHANGED <<call, c, device, launchError>>

Unpin ==
  /\ host = "unwind pins"
  /\ pinned' = {}
  /\ Goto("unwind device")
  /\ UNCHANGED <<call, c, device, launchError>>

(* cudaFree waits for the device. *)
FreeDevice ==
  /\ host = "unwind device"
  /\ ~Queued
  /\ Goto("unwind arrays")
  /\ UNCHANGED <<call, c, device, launchError, pinned>>

DropArrays ==
  /\ host = "unwind arrays"
  /\ Goto("raised")
  /\ UNCHANGED <<call, c, device, launchError, pinned>>

(* The happy path runs the same destructors; the arrays are returned. *)
Return ==
  /\ host = "return"
  /\ pinned' = {}
  /\ Goto("returned")
  /\ UNCHANGED <<call, c, device, launchError>>

Host ==
  \/ Pin \/ Upload \/ Launch \/ Download \/ NextChunk
  \/ CheckLaunches \/ Synchronize \/ Return
  \/ Throw \/ DestroyStreams \/ Unpin \/ FreeDevice \/ DropArrays

-----------------------------------------------------------------------------
(* The device. *)

(* The first operation of a stream runs.  A kernel decides a string right
   when the string's input has arrived, or it has none. *)
Run(s) ==
  /\ ~fault
  /\ stream[s] # <<>>
  /\ stream' = [stream EXCEPT ![s] = Tail(@)]
  /\ LET op == Head(stream[s]) IN
       /\ arrived' = IF op = "upload" THEN arrived \cup Chunk(s) ELSE arrived
       /\ computed' = IF op = "kernel"
                        THEN computed \cup (Chunk(s) \cap (arrived \cup empty))
                        ELSE computed
       /\ out' = IF op \in Buffers
                   THEN [out EXCEPT ![op] = @ \cup (Chunk(s) \cap computed)]
                   ELSE out
  /\ UNCHANGED <<call, host, c, launchError, pinned, fault>>

(* An operation faults: nothing that is queued runs any more. *)
Fault ==
  /\ Queued
  /\ fault' = TRUE
  /\ stream' = [s \in DOMAIN stream |-> <<>>]
  /\ UNCHANGED <<call, host, c, launchError, pinned, arrived, computed, out>>

-----------------------------------------------------------------------------
NativeTypeOK ==
  /\ num \in 0 .. MaxStrings
  /\ empty \subseteq Strings
  /\ tooLarge \in BOOLEAN
  /\ c \in 0 .. NStreams - 1
  /\ stream \in [0 .. NStreams - 1 -> Seq({"upload", "kernel"} \cup Buffers)]
  /\ launchError \in BOOLEAN
  /\ fault \in BOOLEAN
  /\ pinned \subseteq Buffers \cup {"input"}
  /\ arrived \subseteq Strings
  /\ computed \subseteq Strings
  /\ out \in [Buffers -> SUBSET Strings]

(* Once the arrays are dropped on the error path, nothing is in flight     *)
(* that could write to them, although the throw left the streams full: the *)
(* arrays outlive DeviceScope, whose cudaFree waits.                       *)
NoWriteAfterDrop == host \in {"raised", "returned"} => ~Queued

(* However the call ends, the driver holds no mapping of the caller's      *)
(* pages (bitpacked.cu: "a throw anywhere below must not leave the driver  *)
(* holding page-locked mappings").                                         *)
NothingStaysPinned == host \in {"raised", "returned"} => pinned = {}

=============================================================================
