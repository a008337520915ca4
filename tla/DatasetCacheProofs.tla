------------------------- MODULE DatasetCacheProofs -------------------------
(***************************************************************************)
(* A call of ensure that no other call runs beside, for any number of      *)
(* processes, files of any length and any crashes and downloads before it. *)
(***************************************************************************)
EXTENDS DatasetCache, TLAPS

-----------------------------------------------------------------------------
(* The inductive invariant. *)

(* A process writes to an open file, and counts only while it does. *)
WriterInv ==
  \A p \in Procs :
    /\ pc[p] = "write" => fd[p] \in Inodes
    /\ pc[p] # "write" => written[p] = 0

(* A call that is not known to overlap another one is the only one. *)
AloneInv ==
  \A p \in Active \ overlapped : Active = {p}

(* It has .part to itself: while it writes, .part holds what it was served *)
(* so far; when it hashes, the whole download; when it renames, the pinned *)
(* file.                                                                   *)
OwnPartInv ==
  \A p \in Active \ overlapped :
    /\ pc[p] = "write" =>
         /\ fd[p] = tmp
         /\ p \in letDown \/ \A k \in 1 .. written[p] : content[tmp][k] = "good"
    /\ pc[p] = "hash" => tmp # NoFile /\ (p \in letDown \/ IsPinned(tmp))
    /\ pc[p] = "rename" => IsPinned(tmp)

(* Once it has returned the file is there, and every later call finds it   *)
(* and returns at once.                                                    *)
ReturnedInv ==
  \A p \in Procs \ overlapped : pc[p] = "returned" => IsPinned(dest) /\ Active = {}

IInv ==
  /\ TypeOK
  /\ WriterInv
  /\ AloneInv
  /\ OwnPartInv
  /\ ReturnedInv
  /\ HonestDownloadSucceeds

-----------------------------------------------------------------------------
(* The steps. *)

(* Everything a process does inside a call. *)
Inside(p) ==
  \/ Open(p) \/ Write(p) \/ Close(p) \/ FetchFails(p)
  \/ HashMatches(p) \/ HashDiffers(p) \/ Rename(p) \/ Crash(p)

(* It is active then, stays active or becomes the first not to be, and     *)
(* touches nobody else's state.                                            *)
LEMMA InsideIsLocal ==
  ASSUME TypeOK, NEW p \in Procs, Inside(p)
  PROVE  /\ p \in Active
         /\ Active' = Active \/ Active' = Active \ {p}
         /\ overlapped' = overlapped
         /\ \A q \in Procs \ {p} :
              pc'[q] = pc[q] /\ fd'[q] = fd[q] /\ written'[q] = written[q]
<1> USE DEF TypeOK, Active, Goto, Leave, history
<1>1. CASE Open(p)
  BY <1>1 DEF Open
<1>2. CASE Write(p)
  BY <1>2 DEF Write
<1>3. CASE Close(p)
  BY <1>3 DEF Close
<1>4. CASE FetchFails(p)
  BY <1>4 DEF FetchFails
<1>5. CASE HashMatches(p)
  BY <1>5 DEF HashMatches
<1>6. CASE HashDiffers(p)
  BY <1>6 DEF HashDiffers
<1>7. CASE Rename(p)
  <2>1. PICK label \in {"raised", "returned"} : Goto(p, label)
    BY <1>7 DEF Rename
  <2>2. QED
    BY <1>7, <2>1 DEF Rename
<1>8. CASE Crash(p)
  BY <1>8 DEF Crash
<1>9. QED
  BY <1>1, <1>2, <1>3, <1>4, <1>5, <1>6, <1>7, <1>8 DEF Inside

(* A step of a call keeps the types.                                       *)
LEMMA StepType ==
  ASSUME TypeOK, NEW p \in Procs, Ensure(p) \/ Inside(p)
  PROVE  TypeOK'
<1> USE BlocksAssumption DEF TypeOK, Goto, Leave, history
<1>1. CASE Ensure(p)
  <2>1. PICK label \in {"returned", "fetch"} : Goto(p, label)
    BY <1>1 DEF Ensure
  <2>2. overlapped' \subseteq Procs
    BY <1>1 DEF Ensure, Active
  <2>3. QED
    BY <1>1, <2>1, <2>2 DEF Ensure
<1>2. CASE Open(p)
  <2>1. PICK i \in Inodes : /\ tmp' = i
                            /\ fd' = [fd EXCEPT ![p] = i]
                            /\ content' = [content EXCEPT ![i] = Hollow]
    <3>1. CASE tmp # NoFile
      BY <1>2, <3>1 DEF Open
    <3>2. CASE tmp = NoFile
      BY <1>2, <3>2 DEF Open
    <3>3. QED
      BY <3>1, <3>2
  <2>2. Hollow \in [Blocks -> {"good", "bad", "hole"}]
    BY DEF Hollow
  <2>3. content' \in [Inodes -> [Blocks -> {"good", "bad", "hole"}]]
    BY <2>1, <2>2
  <2>4. QED
    BY <1>2, <2>1, <2>3 DEF Open
<1>3. CASE Write(p)
  <2>1. PICK served \in {"good", "bad"} :
          /\ content' = [content EXCEPT ![fd[p]][written[p] + 1] = served]
          /\ letDown' = IF served = "bad" THEN letDown \cup {p} ELSE letDown
    BY <1>3 DEF Write
  <2>2. content' \in [Inodes -> [Blocks -> {"good", "bad", "hole"}]]
    BY <2>1
  <2>3. written' \in [Procs -> 0 .. NBlocks]
    BY <1>3 DEF Write
  <2>4. QED
    BY <1>3, <2>1, <2>2, <2>3 DEF Write
<1>4. CASE Close(p)
  BY <1>4 DEF Close
<1>5. CASE FetchFails(p)
  BY <1>5 DEF FetchFails
<1>6. CASE HashMatches(p)
  BY <1>6 DEF HashMatches
<1>7. CASE HashDiffers(p)
  BY <1>7 DEF HashDiffers
<1>8. CASE Rename(p)
  <2>1. PICK label \in {"raised", "returned"} : Goto(p, label)
    BY <1>8 DEF Rename
  <2>2. QED
    BY <1>8, <2>1 DEF Rename
<1>9. CASE Crash(p)
  BY <1>9 DEF Crash
<1>10. QED
  BY <1>1, <1>2, <1>3, <1>4, <1>5, <1>6, <1>7, <1>8, <1>9 DEF Inside

(* A step keeps a file open for the calls that write, and nothing written  *)
(* for the others.                                                         *)
LEMMA StepWriter ==
  ASSUME TypeOK, WriterInv, NEW p \in Procs, Ensure(p) \/ Inside(p)
  PROVE  WriterInv'
<1> USE DEF TypeOK, WriterInv, Goto, Leave
<1>1. CASE Ensure(p)
  <2>1. PICK label \in {"returned", "fetch"} : Goto(p, label)
    BY <1>1 DEF Ensure
  <2>2. QED
    BY <1>1, <2>1 DEF Ensure
<1>2. CASE Inside(p)
  <2>1. \A q \in Procs \ {p} : pc'[q] = pc[q] /\ fd'[q] = fd[q] /\ written'[q] = written[q]
    BY <1>2, InsideIsLocal
  <2>2. (pc'[p] = "write" => fd'[p] \in Inodes) /\ (pc'[p] # "write" => written'[p] = 0)
    <3>1. CASE Open(p)
      BY <3>1 DEF Open
    <3>2. CASE Write(p)
      BY <3>2 DEF Write
    <3>3. CASE Close(p) \/ FetchFails(p) \/ Crash(p)
      BY <3>3 DEF Close, FetchFails, Crash
    <3>4. CASE HashMatches(p) \/ HashDiffers(p) \/ Rename(p)
      <4>1. PICK label \in {"rename", "raised", "returned"} : Goto(p, label)
        BY <3>4 DEF HashMatches, HashDiffers, Rename
      <4>2. QED
        BY <3>4, <4>1 DEF HashMatches, HashDiffers, Rename
    <3>5. QED
      BY <1>2, <3>1, <3>2, <3>3, <3>4 DEF Inside
  <2>3. QED
    BY <2>1, <2>2
<1>3. QED
  BY <1>1, <1>2

(* A call that is marked as never overlapped stays the only one.           *)
LEMMA StepAlone ==
  ASSUME TypeOK, AloneInv, NEW p \in Procs, Ensure(p) \/ Inside(p)
  PROVE  AloneInv'
<1>1. CASE Ensure(p)
  <2>1. PICK label \in {"returned", "fetch"} : Goto(p, label)
    BY <1>1 DEF Ensure
  <2>2. Active' \subseteq Active \cup {p}
    BY <2>1 DEF TypeOK, Goto, Active
  <2>3. CASE Active = {}
    BY <2>2, <2>3 DEF AloneInv
  <2>4. CASE Active # {}
    <3>1. overlapped' = overlapped \cup {p} \cup Active
      BY <1>1, <2>4 DEF Ensure
    <3>2. QED
      BY <2>2, <3>1 DEF AloneInv
  <2>5. QED
    BY <2>3, <2>4
<1>2. CASE Inside(p)
  BY <1>2, InsideIsLocal DEF AloneInv
<1>3. QED
  BY <1>1, <1>2

(* A download whose every block was good is the pinned file. *)
LEMMA AllGoodIsPinned ==
  ASSUME TypeOK, NEW i \in Inodes, \A k \in 1 .. NBlocks : content[i][k] = "good"
  PROVE  content[i] = Pinned
<1>1. content[i] \in [Blocks -> {"good", "bad", "hole"}]
  BY DEF TypeOK
<1>2. \A k \in Blocks : content[i][k] = "good"
  BY DEF Blocks
<1>3. QED
  BY <1>1, <1>2 DEF Pinned

(* What a call that runs alone knows of .part after its own step. *)
LEMMA OwnStep ==
  ASSUME TypeOK, WriterInv, OwnPartInv, NEW p \in Procs \ overlapped, Inside(p)
  PROVE  /\ pc'[p] = "write" =>
              /\ fd'[p] = tmp'
              /\ p \in letDown' \/ \A k \in 1 .. written'[p] : content'[tmp'][k] = "good"
         /\ pc'[p] = "hash" => tmp' # NoFile /\ (p \in letDown' \/ IsPinned(tmp)')
         /\ pc'[p] = "rename" => IsPinned(tmp)'
<1> USE InodesAssumption, BlocksAssumption DEF Goto, Leave, history
<1>1. p \in Active
  BY InsideIsLocal
<1>2. CASE Open(p)
  <2>1. written'[p] = 0 /\ pc'[p] = "write" /\ fd'[p] = tmp'
    BY <1>2 DEF Open, WriterInv, TypeOK
  <2>2. QED
    BY <2>1
<1>3. CASE Write(p)
  <2>1. pc[p] = "write" /\ pc' = pc /\ fd' = fd /\ tmp' = tmp /\ fd[p] = tmp /\ tmp \in Inodes
    BY <1>1, <1>3 DEF Write, OwnPartInv, WriterInv
  <2>2. written[p] \in Nat /\ written[p] < NBlocks /\ written'[p] = written[p] + 1
    BY <1>3 DEF Write, TypeOK
  <2>3. PICK served \in {"good", "bad"} :
          /\ content' = [content EXCEPT ![fd[p]][written[p] + 1] = served]
          /\ letDown' = IF served = "bad" THEN letDown \cup {p} ELSE letDown
    BY <1>3 DEF Write
  <2>4. ASSUME p \notin letDown'
        PROVE  \A k \in 1 .. written'[p] : content'[tmp'][k] = "good"
    <3>1. served = "good" /\ p \notin letDown
      BY <2>3, <2>4
    <3>2. \A k \in 1 .. written[p] : content[tmp][k] = "good"
      BY <1>1, <2>1, <3>1 DEF OwnPartInv
    <3>3. content'[tmp] = [content[tmp] EXCEPT ![written[p] + 1] = "good"]
      BY <2>1, <2>3, <3>1 DEF TypeOK
    <3>4. content[tmp] \in [Blocks -> {"good", "bad", "hole"}] /\ written[p] + 1 \in Blocks
      BY <2>1, <2>2 DEF TypeOK, Blocks
    <3>5. ASSUME NEW k \in 1 .. written[p] + 1
          PROVE  content'[tmp][k] = "good"
      <4>1. k = written[p] + 1 \/ k \in 1 .. written[p]
        BY <2>2
      <4>2. k \in Blocks
        BY <2>2, <3>4, <4>1 DEF Blocks
      <4>3. QED
        BY <3>2, <3>3, <3>4, <4>1, <4>2
    <3>6. QED
      BY <2>1, <2>2, <3>5
  <2>5. QED
    BY <2>1, <2>4
<1>4. CASE Close(p)
  <2>1. /\ pc[p] = "write" /\ written[p] = NBlocks /\ pc'[p] = "hash"
        /\ UNCHANGED <<tmp, content, letDown>>
    BY <1>4 DEF Close, TypeOK
  <2>2. tmp \in Inodes
    BY <1>1, <2>1 DEF OwnPartInv, WriterInv
  <2>3. p \notin letDown => content[tmp] = Pinned
    BY <1>1, <2>1, <2>2, AllGoodIsPinned DEF OwnPartInv
  <2>4. QED
    BY <2>1, <2>2, <2>3 DEF IsPinned
<1>5. CASE FetchFails(p) \/ HashDiffers(p) \/ Crash(p)
  BY <1>5 DEF FetchFails, HashDiffers, Crash, TypeOK
<1>6. CASE HashMatches(p)
  BY <1>6 DEF HashMatches, Verify, IsPinned, TypeOK
<1>7. CASE Rename(p)
  BY <1>7 DEF Rename, TypeOK
<1>8. QED
  BY <1>2, <1>3, <1>4, <1>5, <1>6, <1>7 DEF Inside

(* What a call alone knows of its .part survives each of its own steps.    *)
LEMMA StepOwnPart ==
  ASSUME TypeOK, WriterInv, AloneInv, OwnPartInv, NEW p \in Procs, Ensure(p) \/ Inside(p)
  PROVE  OwnPartInv'
<1>1. CASE Ensure(p)
  <2>1. PICK label \in {"returned", "fetch"} : Goto(p, label)
    BY <1>1 DEF Ensure
  <2>2. UNCHANGED <<dest, tmp, content, fd, written>> /\ letDown' = letDown \ {p}
    BY <1>1 DEF Ensure
  <2>3. Active' \subseteq Active \cup {p} /\ pc'[p] = label
        /\ \A q \in Procs \ {p} : pc'[q] = pc[q]
    BY <2>1 DEF TypeOK, Goto, Active
  <2>4. CASE Active = {}
    BY <2>1, <2>3, <2>4 DEF OwnPartInv
  <2>5. CASE Active # {}
    <3>1. Active' \subseteq overlapped'
      BY <1>1, <2>3, <2>5 DEF Ensure
    <3>2. QED
      BY <3>1 DEF OwnPartInv
  <2>6. QED
    BY <2>4, <2>5
<1>2. CASE Inside(p)
  <2>1. ASSUME NEW q \in Active' \ overlapped'
        PROVE  q = p
    BY <1>2, <2>1, InsideIsLocal DEF AloneInv
  <2>2. Active' \subseteq Procs
    BY DEF Active
  <2>3. QED
    BY <1>2, <2>1, <2>2, OwnStep, InsideIsLocal DEF OwnPartInv
<1>3. QED
  BY <1>1, <1>2

(* What a call alone returns is the pinned file.                           *)
LEMMA StepReturned ==
  ASSUME TypeOK, AloneInv, OwnPartInv, ReturnedInv, NEW p \in Procs, Ensure(p) \/ Inside(p)
  PROVE  ReturnedInv'
<1>1. CASE Ensure(p)
  <2>1. PICK label \in {"returned", "fetch"} :
          Goto(p, label) /\ label = IF IsPinned(dest) THEN "returned" ELSE "fetch"
    BY <1>1 DEF Ensure, Verify
  <2>2. UNCHANGED <<dest, content>> /\ (IsPinned(dest)' <=> IsPinned(dest))
    BY <1>1 DEF Ensure, IsPinned
  <2>3. /\ pc'[p] = label
        /\ \A q \in Procs \ {p} : pc'[q] = pc[q]
        /\ Active \subseteq Procs
    BY <2>1 DEF TypeOK, Goto, Active
  <2>4. p \notin Active
    BY <1>1 DEF Ensure, Active
  <2>5. label = "returned" => Active' = Active
    BY <2>3, <2>4 DEF Active
  <2>6. ASSUME NEW q \in Procs \ overlapped', pc'[q] = "returned"
        PROVE  IsPinned(dest)' /\ Active' = {}
    <3>1. CASE q = p
      <4>1. label = "returned" /\ Active = {}
        BY <1>1, <2>3, <2>6, <3>1 DEF Ensure
      <4>2. QED
        BY <2>1, <2>2, <2>5, <4>1
    <3>2. CASE q # p
      <4>1. pc[q] = "returned" /\ q \notin overlapped
        BY <1>1, <2>3, <2>6, <3>2 DEF Ensure
      <4>2. IsPinned(dest) /\ Active = {}
        BY <4>1 DEF ReturnedInv
      <4>3. QED
        BY <2>1, <2>2, <2>5, <4>2
    <3>3. QED
      BY <3>1, <3>2
  <2>7. QED
    BY <2>6 DEF ReturnedInv
<1>2. CASE Inside(p)
  <2>1. ASSUME NEW q \in Procs \ overlapped', pc'[q] = "returned"
        PROVE  IsPinned(dest)' /\ Active' = {}
    <3>1. q = p /\ p \notin overlapped
      BY <1>2, <2>1, InsideIsLocal DEF ReturnedInv
    <3>2. Active = {p}
      BY <1>2, <3>1, InsideIsLocal DEF AloneInv
    <3>3. Rename(p)
      BY <1>2, <2>1, <3>1
         DEF Inside, Open, Write, Close, FetchFails, HashMatches, HashDiffers, Crash,
             Goto, Leave, TypeOK
    <3>4. IsPinned(tmp)
      BY <3>1, <3>2, <3>3 DEF OwnPartInv, Rename
    <3>5. dest' = tmp /\ content' = content
      BY <3>3, <3>4 DEF Rename, IsPinned
    <3>6. p \notin Active'
      BY <2>1, <3>1 DEF Active
    <3>7. QED
      BY <1>2, <3>2, <3>4, <3>5, <3>6, InsideIsLocal DEF IsPinned
  <2>2. QED
    BY <2>1 DEF ReturnedInv
<1>3. QED
  BY <1>1, <1>2

(* A step of a call alone on an honest network does not raise.             *)
LEMMA StepHonest ==
  ASSUME TypeOK, OwnPartInv, HonestDownloadSucceeds, NEW p \in Procs, Ensure(p) \/ Inside(p)
  PROVE  HonestDownloadSucceeds'
<1>1. CASE Ensure(p)
  <2>1. PICK label \in {"returned", "fetch"} : Goto(p, label)
    BY <1>1 DEF Ensure
  <2>2. /\ overlapped \ {p} \subseteq overlapped'
        /\ letDown' = letDown \ {p}
    BY <1>1 DEF Ensure
  <2>3. pc'[p] = label /\ \A q \in Procs \ {p} : pc'[q] = pc[q]
    BY <2>1 DEF TypeOK, Goto
  <2>4. QED
    BY <2>1, <2>2, <2>3 DEF HonestDownloadSucceeds
<1>2. CASE Inside(p)
  <2>1. letDown \subseteq letDown' /\ overlapped' = overlapped
    BY <1>2 DEF Inside, Open, Write, Close, FetchFails, HashMatches, HashDiffers,
                Rename, Crash, history
  <2>2. ASSUME p \notin overlapped' \cup letDown'
        PROVE  pc'[p] # "raised"
    <3>1. p \in Active
      BY <1>2, InsideIsLocal
    <3>2. CASE HashDiffers(p)
      BY <2>1, <2>2, <3>1, <3>2 DEF HashDiffers, OwnPartInv, Verify
    <3>3. CASE Rename(p)
      <4>1. tmp # NoFile
        BY <2>1, <2>2, <3>1, <3>3 DEF Rename, OwnPartInv, IsPinned
      <4>2. Goto(p, "returned")
        BY <3>3, <4>1 DEF Rename
      <4>3. QED
        BY <4>2 DEF Goto, TypeOK
    <3>4. CASE ~(HashDiffers(p) \/ Rename(p))
      BY <1>2, <2>2, <3>4
         DEF Inside, Open, Write, Close, FetchFails, HashMatches, Crash, Goto, Leave, TypeOK
    <3>5. QED
      BY <3>2, <3>3, <3>4
  <2>3. QED
    BY <1>2, <2>1, <2>2, InsideIsLocal DEF HonestDownloadSucceeds
<1>3. QED
  BY <1>1, <1>2

-----------------------------------------------------------------------------
(* The invariant holds of every behaviour. *)

(* The invariant holds of a cache nobody has called yet.                   *)
LEMMA InitIInv ==
  Init => IInv
<1> SUFFICES ASSUME Init
             PROVE  IInv
  OBVIOUS
<1> USE DEF Init
<1>1. TypeOK
  <2>1. content \in [Inodes -> [Blocks -> {"good", "bad", "hole"}]]
    BY DEF Hollow, Pinned, Spoilt
  <2>2. QED
    BY <2>1, BlocksAssumption DEF TypeOK
<1>2. Active = {}
  BY DEF Active
<1>3. QED
  BY <1>1, <1>2
     DEF IInv, WriterInv, AloneInv, OwnPartInv, ReturnedInv, HonestDownloadSucceeds

(* Each step, the crashes included, keeps the invariant.                   *)
LEMMA NextIInv ==
  IInv /\ [Next]_vars => IInv'
<1> SUFFICES ASSUME IInv, [Next]_vars
             PROVE  IInv'
  OBVIOUS
<1>1. ASSUME NEW p \in Procs, Ensure(p) \/ Inside(p)
      PROVE  IInv'
  BY <1>1, StepType, StepWriter, StepAlone, StepOwnPart, StepReturned, StepHonest DEF IInv
<1>2. CASE UNCHANGED vars
  BY <1>2 DEF vars, history, IInv, TypeOK, WriterInv, AloneInv, OwnPartInv, ReturnedInv,
              HonestDownloadSucceeds, Active, IsPinned
<1>3. QED
  BY <1>1, <1>2 DEF Next, Inside

(* The invariant always holds.                                             *)
LEMMA Invariance ==
  Spec => []IInv
  BY InitIInv, NextIInv, PTL DEF Spec

-----------------------------------------------------------------------------
(* The processes, their files and the two histories keep their types.      *)
THEOREM TypeCorrect ==
  Spec => []TypeOK
  BY Invariance, PTL DEF IInv

(* ensure's "checksum-verified local copy", for any number of processes,   *)
(* of blocks and of crashes: a call no other call ran beside has returned  *)
(* the pinned file, and it stays that file as long as the call is the      *)
(* process's last.                                                         *)
THEOREM CopyVerified ==
  Spec => []UndisturbedCopyVerified
<1>1. IInv => UndisturbedCopyVerified
  BY DEF IInv, ReturnedInv, UndisturbedCopyVerified
<1>2. QED
  BY <1>1, Invariance, PTL

(* A call that ran alone on an honest network does not raise, whatever     *)
(* .part it found: urlretrieve truncates it.                               *)
THEOREM HonestDownload ==
  Spec => []HonestDownloadSucceeds
  BY Invariance, PTL DEF IInv
=============================================================================
