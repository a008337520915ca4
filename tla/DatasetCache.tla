---------------------------- MODULE DatasetCache ----------------------------
(***************************************************************************)
(* io/datasets.py, ensure: the local copy of one pinned dataset.           *)
(*                                                                         *)
(* Each process that wants the dataset runs ensure: a copy whose SHA-256   *)
(* is the pinned one is returned; otherwise the file is downloaded to      *)
(* <name>.part, hashed, and renamed over <name>.  The .part name is the    *)
(* same for every process.  A file opened for writing follows its inode,   *)
(* not its name: a rename moves the file under a writer.                   *)
(*                                                                         *)
(* A file is NBlocks blocks, each "good" (the pinned content), "bad" or    *)
(* "hole"; its hash is the pinned one when all are good.  The network is   *)
(* external: it may serve good or bad blocks and may fail at any block.    *)
(***************************************************************************)
EXTENDS Naturals, FiniteSets, Functions

CONSTANTS
  Procs,     (* the processes that may call ensure                        *)
  NBlocks,   (* blocks a download is written in                           *)
  Inodes,    (* enough for <name> and one open file per process          *)
  NoFile     (* not an inode                                              *)

ASSUME BlocksAssumption == NBlocks \in Nat \ {0}
ASSUME InodesAssumption ==
  NoFile \notin Inodes /\ Cardinality(Inodes) >= Cardinality(Procs) + 1

VARIABLES
  dest, tmp,  (* the inodes <name> and <name>.part stand for, or NoFile    *)
  content,    (* the blocks of each inode                                  *)
  pc,         (* "idle", "fetch", "write", "hash", "rename", "returned",
                 "raised"                                                  *)
  fd,         (* the inode a process has open for writing, or NoFile       *)
  written,    (* blocks it has written                                     *)
  overlapped, (* history: the processes whose last call ran while another's
                 did                                                       *)
  letDown     (* history: the processes whose last call the network failed
                 or served a bad block                                     *)

history == <<overlapped, letDown>>
vars == <<dest, tmp, content, pc, fd, written, history>>

Active == {p \in Procs : pc[p] \in {"fetch", "write", "hash", "rename"}}

Blocks == 1 .. NBlocks
Hollow == [k \in Blocks |-> "hole"]
Pinned == [k \in Blocks |-> "good"]
Spoilt == [k \in Blocks |-> "bad"]

Init ==
  /\ tmp = NoFile
  /\ dest \in {NoFile} \cup Inodes
  /\ \E c \in {Hollow, Pinned, Spoilt} :
       content = [i \in Inodes |-> IF i = dest THEN c ELSE Hollow]
  /\ pc = [p \in Procs |-> "idle"]
  /\ fd = [p \in Procs |-> NoFile]
  /\ written = [p \in Procs |-> 0]
  /\ overlapped = {}
  /\ letDown = {}

IsPinned(file) == file # NoFile /\ content[file] = Pinned

(* verify: the file is there and hashes to the pinned value. *)
Verify(file) == IsPinned(file)

Goto(p, label) == pc' = [pc EXCEPT ![p] = label]
Leave(p, label) ==
  /\ Goto(p, label)
  /\ fd' = [fd EXCEPT ![p] = NoFile]
  /\ written' = [written EXCEPT ![p] = 0]

(* ensure is called; a finished call may be made again. *)
Ensure(p) ==
  /\ pc[p] \in {"idle", "returned", "raised"}
  /\ Goto(p, IF Verify(dest) THEN "returned" ELSE "fetch")
  /\ overlapped' = IF Active = {} THEN overlapped \ {p}
                                  ELSE overlapped \cup {p} \cup Active
  /\ letDown' = letDown \ {p}
  /\ UNCHANGED <<dest, tmp, content, fd, written>>

(* urlretrieve opens .part for writing, which truncates what is there. *)
OpenResumesMutant(p) ==
  /\ pc[p] = "fetch"
  /\ \E i \in IF tmp # NoFile THEN {tmp} ELSE Inodes \ ({dest} \cup Range(fd)) :
       /\ tmp' = i
       /\ fd' = [fd EXCEPT ![p] = i]
       /\ written' = [written EXCEPT ![p] =
            IF tmp # NoFile
              THEN Cardinality({k \in Blocks : content[i][k] # "hole"}) ELSE 0]
       /\ content' = IF tmp # NoFile THEN content ELSE [content EXCEPT ![i] = Hollow]
  /\ Goto(p, "write")
  /\ UNCHANGED <<dest, history>>

Open(p) ==
  /\ pc[p] = "fetch"
  /\ \E i \in IF tmp # NoFile THEN {tmp} ELSE Inodes \ ({dest} \cup Range(fd)) :
       /\ tmp' = i
       /\ fd' = [fd EXCEPT ![p] = i]
       /\ content' = [content EXCEPT ![i] = Hollow]
  /\ Goto(p, "write")
  /\ UNCHANGED <<dest, written, history>>

(* The next block arrives, and is what was pinned or is not. *)
WriteOneMoreMutant(p) ==
  /\ pc[p] = "write"
  /\ written[p] <= NBlocks
  /\ \E served \in {"good", "bad"} :
       /\ content' = [content EXCEPT ![fd[p]][written[p] + 1] = served]
       /\ letDown' = IF served = "bad" THEN letDown \cup {p} ELSE letDown
  /\ written' = [written EXCEPT ![p] = @ + 1]
  /\ UNCHANGED <<dest, tmp, pc, fd, overlapped>>

Write(p) ==
  /\ pc[p] = "write"
  /\ written[p] < NBlocks
  /\ \E served \in {"good", "bad"} :
       /\ content' = [content EXCEPT ![fd[p]][written[p] + 1] = served]
       /\ letDown' = IF served = "bad" THEN letDown \cup {p} ELSE letDown
  /\ written' = [written EXCEPT ![p] = @ + 1]
  /\ UNCHANGED <<dest, tmp, pc, fd, overlapped>>

(* All blocks are in: the file is closed. *)
Close(p) ==
  /\ pc[p] = "write"
  /\ written[p] = NBlocks
  /\ Leave(p, "hash")
  /\ UNCHANGED <<dest, tmp, content, history>>

(* The connection is refused or cut: urlretrieve raises, .part stays. *)
FetchFails(p) ==
  /\ pc[p] \in {"fetch", "write"}
  /\ Leave(p, "raised")
  /\ letDown' = letDown \cup {p}
  /\ UNCHANGED <<dest, tmp, content, overlapped>>

(* sha256_file(tmp): the hash is right ... *)
HashMatches(p) ==
  /\ pc[p] = "hash"
  /\ Verify(tmp)
  /\ Goto(p, "rename")
  /\ UNCHANGED <<dest, tmp, content, fd, written, history>>

(* ... or wrong: .part is removed and ensure raises.  Hashing a .part that
   another process has renamed away raises as well. *)
HashDiffersRenamesMutant(p) ==
  /\ pc[p] = "hash"
  /\ ~Verify(tmp)
  /\ Goto(p, "rename")
  /\ UNCHANGED <<dest, tmp, content, fd, written, history>>

HashDiffers(p) ==
  /\ pc[p] = "hash"
  /\ ~Verify(tmp)
  /\ tmp' = NoFile
  /\ Goto(p, "raised")
  /\ UNCHANGED <<dest, content, fd, written, history>>

(* tmp.replace(dest), and the path is returned; a .part that is gone raises. *)
Rename(p) ==
  /\ pc[p] = "rename"
  /\ dest' = IF tmp = NoFile THEN dest ELSE tmp
  /\ tmp' = NoFile
  /\ Goto(p, IF tmp = NoFile THEN "raised" ELSE "returned")
  /\ UNCHANGED <<content, fd, written, history>>

(* The process is killed; what it left in .part stays. *)
Crash(p) ==
  /\ pc[p] \in {"fetch", "write", "hash", "rename"}
  /\ Leave(p, "idle")
  /\ UNCHANGED <<dest, tmp, content, history>>

Next == \E p \in Procs :
  \/ Ensure(p)
  \/ Open(p) \/ Write(p) \/ Close(p) \/ FetchFails(p)
  \/ HashMatches(p) \/ HashDiffers(p)
  \/ Rename(p)
  \/ Crash(p)

Spec == Init /\ [][Next]_vars

-----------------------------------------------------------------------------
TypeOK ==
  /\ dest \in Inodes \cup {NoFile}
  /\ tmp \in Inodes \cup {NoFile}
  /\ content \in [Inodes -> [Blocks -> {"good", "bad", "hole"}]]
  /\ pc \in [Procs -> {"idle", "fetch", "write", "hash", "rename",
                       "returned", "raised"}]
  /\ fd \in [Procs -> Inodes \cup {NoFile}]
  /\ written \in [Procs -> 0 .. NBlocks]
  /\ overlapped \subseteq Procs
  /\ letDown \subseteq Procs

(* ensure's docstring: "Return a checksum-verified local copy".  The file  *)
(* at a returned path is the pinned one.                                   *)
ReturnedCopyVerified ==
  \A p \in Procs : pc[p] = "returned" => IsPinned(dest)

(* It is for every call that no other call ran beside, whatever crashes,   *)
(* cut connections, bad downloads and left-over .part files came before    *)
(* (ensure hashes what it renames).                                        *)
UndisturbedCopyVerified ==
  \A p \in Procs \ overlapped : pc[p] = "returned" => IsPinned(dest)

(* Nothing that went before can fail a call that ran alone and whose       *)
(* network was honest: the .part another call left behind, half written,   *)
(* is written afresh (ensure removes .part only on a checksum mismatch).   *)
HonestDownloadSucceeds ==
  \A p \in Procs \ (overlapped \cup letDown) : pc[p] # "raised"
=============================================================================
