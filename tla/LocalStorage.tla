---------------------------- MODULE LocalStorage ----------------------------
(***************************************************************************)
(* The filesystem backend (internal/storage/local.go), one system call at  *)
(* a time, for one artifact: artifacts live under different names and do   *)
(* not meet.  Every Put of the artifact writes the same bytes, Size blocks *)
(* of them.                                                                *)
(*                                                                         *)
(* A writer is one call of Put, a reader one call of Get together with the *)
(* io.Copy that reads the file it opened.  A name is linked to an inode,   *)
(* named by the Put that created it; an inode outlives its name as long as *)
(* it is open.  Every writer has its own offset, so an inode is the set of *)
(* the blocks written to it: a block missing below the last one is a hole, *)
(* which reads as zeros.                                                   *)
(***************************************************************************)
EXTENDS Integers

CONSTANTS
    Writers,            \* calls of Put
    Readers,            \* calls of Get
    Size,               \* length of the artifact
    None,               \* no inode, no answer
    DiskMayFail,        \* create, write, close and rename may fail
    WritersTakeTurns,   \* a Put begins only when no other Put is in progress
    MaxCrashes          \* bound on the restarts a behaviour has

ASSUME SizeIsLength == Size \in Nat
ASSUME FlagsAndBounds ==
    /\ {DiskMayFail, WritersTakeTurns} \subseteq BOOLEAN
    /\ MaxCrashes \in Nat
ASSUME NilIsNoInode == None \notin Writers
ASSUME NilIsNoAnswer ==
    None \notin {"ok", "error", "missing", "whole", "torn", "lost"}

VARIABLES
    final,      \* inode of <checksum>
    tmp,        \* inode of <checksum>.tmp
    data,       \* blocks written to an inode
    wpc,        \* where a Put is
    fd,         \* the inode a Put has open
    off,        \* blocks a Put has written
    put,        \* what Put returned: nil or an error
    rfd,        \* the inode a reader has open
    pos,        \* blocks a reader has read
    got,        \* what a reader got in the end
    crashes     \* restarts so far

names   == <<final, tmp>>
writing == <<wpc, fd, off, put>>
reading == <<rfd, pos, got>>
vars == <<names, data, writing, reading, crashes>>

Blocks == 1..Size

InPut(w) == wpc[w] \notin {"idle", "done"}

Init ==
    /\ final = None
    /\ tmp = None
    /\ data = [i \in Writers |-> {}]
    /\ wpc = [w \in Writers |-> "idle"]
    /\ fd = [w \in Writers |-> None]
    /\ off = [w \in Writers |-> 0]
    /\ put = [w \in Writers |-> None]
    /\ rfd = [r \in Readers |-> None]
    /\ pos = [r \in Readers |-> 0]
    /\ got = [r \in Readers |-> None]
    /\ crashes = 0

-----------------------------------------------------------------------------
(* Put.                                                                    *)
Returns(w, answer) ==
    /\ wpc' = [wpc EXCEPT ![w] = "done"]
    /\ put' = [put EXCEPT ![w] = answer]

Goes(w, label) == wpc' = [wpc EXCEPT ![w] = label] /\ UNCHANGED put

\* os.Stat: an artifact that is there is not written again.
Stat(w) ==
    /\ wpc[w] = "idle"
    /\ WritersTakeTurns => \A v \in Writers : ~InPut(v)
    /\ IF final # None THEN Returns(w, "ok") ELSE Goes(w, "create")
    /\ UNCHANGED <<names, data, fd, off, reading, crashes>>

(* Definitions whose comment begins with "Mutant" are no part of the       *)
(* model: each is a form that the definition below it could have taken by  *)
(* a mistake in the code, and breaks a property that a run checks.         *)

\* Mutant: the artifact is written under its final name.
CreateInPlace(w) ==
    /\ wpc[w] = "create"
    /\ \/ /\ final' = w
          /\ fd' = [fd EXCEPT ![w] = w]
          /\ data' = [data EXCEPT ![w] = {}]
          /\ Goes(w, "write")
       \/ /\ DiskMayFail
          /\ Returns(w, "error")
          /\ UNCHANGED <<final, fd, data>>
    /\ UNCHANGED <<tmp, off, reading, crashes>>

\* Mutant: O_EXCL, an error when the temporary file is there.
CreateExclusively(w) ==
    /\ wpc[w] = "create"
    /\ \/ /\ tmp = None
          /\ tmp' = w
          /\ fd' = [fd EXCEPT ![w] = w]
          /\ data' = [data EXCEPT ![w] = {}]
          /\ Goes(w, "write")
       \/ /\ tmp # None \/ DiskMayFail
          /\ Returns(w, "error")
          /\ UNCHANGED <<tmp, fd, data>>
    /\ UNCHANGED <<final, off, reading, crashes>>

\* os.Create truncates the file when the name is there.
Create(w) ==
    /\ wpc[w] = "create"
    /\ \/ LET inode == IF tmp = None THEN w ELSE tmp IN
          /\ tmp' = inode
          /\ fd' = [fd EXCEPT ![w] = inode]
          /\ data' = [data EXCEPT ![inode] = {}]
          /\ Goes(w, "write")
       \/ /\ DiskMayFail
          /\ Returns(w, "error")
          /\ UNCHANGED <<tmp, fd, data>>
    /\ UNCHANGED <<final, off, reading, crashes>>

\* Mutant: a copy that fails leaves the temporary file behind.
WriteAndLeave(w) ==
    /\ wpc[w] = "write"
    /\ off[w] < Size
    /\ \/ /\ off' = [off EXCEPT ![w] = @ + 1]
          /\ data' = [data EXCEPT ![fd[w]] = @ \cup {off[w] + 1}]
          /\ UNCHANGED <<wpc, put>>
       \/ /\ DiskMayFail
          /\ Returns(w, "error")
          /\ UNCHANGED <<off, data>>
    /\ UNCHANGED <<names, fd, reading, crashes>>

\* io.Copy; when it fails the temporary file is removed.
Write(w) ==
    /\ wpc[w] = "write"
    /\ off[w] < Size
    /\ \/ /\ off' = [off EXCEPT ![w] = @ + 1]
          /\ data' = [data EXCEPT ![fd[w]] = @ \cup {off[w] + 1}]
          /\ UNCHANGED wpc
       \/ /\ DiskMayFail
          /\ wpc' = [wpc EXCEPT ![w] = "remove"]
          /\ UNCHANGED <<off, data>>
    /\ UNCHANGED <<names, fd, put, reading, crashes>>

\* Mutant: the file is closed with a block still in a buffer.
CloseUnflushed(w) ==
    /\ wpc[w] = "write"
    /\ off[w] >= Size - 1
    /\ \/ Goes(w, "rename")
       \/ DiskMayFail /\ Goes(w, "remove")
    /\ UNCHANGED <<names, data, fd, off, reading, crashes>>

Close(w) ==
    /\ wpc[w] = "write"
    /\ off[w] = Size
    /\ \/ Goes(w, "rename")
       \/ DiskMayFail /\ Goes(w, "remove")
    /\ UNCHANGED <<names, data, fd, off, reading, crashes>>

\* Mutant: the error of os.Rename is not looked at.
RenameUnchecked(w) ==
    /\ wpc[w] = "rename"
    /\ Returns(w, "ok")
    /\ \/ tmp # None /\ final' = tmp /\ tmp' = None
       \/ (tmp = None \/ DiskMayFail) /\ UNCHANGED names
    /\ UNCHANGED <<data, fd, off, reading, crashes>>

\* os.Rename replaces <checksum>; it fails when <checksum>.tmp is gone.
Rename(w) ==
    /\ wpc[w] = "rename"
    /\ \/ /\ tmp # None
          /\ final' = tmp
          /\ tmp' = None
          /\ Returns(w, "ok")
       \/ /\ tmp = None \/ DiskMayFail
          /\ Goes(w, "remove")
          /\ UNCHANGED names
    /\ UNCHANGED <<data, fd, off, reading, crashes>>

\* os.Remove(tmp) on the way out of a Put that failed.
RemoveTmp(w) ==
    /\ wpc[w] = "remove"
    /\ tmp' = None
    /\ Returns(w, "error")
    /\ UNCHANGED <<final, data, fd, off, reading, crashes>>

-----------------------------------------------------------------------------
(* Get and the copy to the client; Delete.                                 *)
Open(r) ==
    /\ rfd[r] = None
    /\ got[r] = None
    /\ IF final # None
       THEN rfd' = [rfd EXCEPT ![r] = final] /\ UNCHANGED got
       ELSE got' = [got EXCEPT ![r] = "missing"] /\ UNCHANGED rfd
    /\ UNCHANGED <<names, data, writing, pos, crashes>>

Read(r) ==
    /\ rfd[r] # None
    /\ LET written == data[rfd[r]] IN
       \/ /\ pos[r] + 1 \in written
          /\ pos' = [pos EXCEPT ![r] = @ + 1]
          /\ UNCHANGED <<rfd, got>>
       \/ /\ pos[r] + 1 \notin written      \* end of file, or a hole
          /\ got' = [got EXCEPT ![r] = IF pos[r] = Size THEN "whole" ELSE "torn"]
          /\ rfd' = [rfd EXCEPT ![r] = None]
          /\ UNCHANGED pos
    /\ UNCHANGED <<names, data, writing, crashes>>

\* A file that is not there is no error.
Delete ==
    /\ final' = None
    /\ UNCHANGED <<tmp, data, writing, reading, crashes>>

-----------------------------------------------------------------------------
\* The process dies: its names and inodes stay, a temporary file included.
Crash ==
    /\ crashes < MaxCrashes
    /\ crashes' = crashes + 1
    /\ wpc' = [w \in Writers |-> IF InPut(w) THEN "done" ELSE wpc[w]]
    /\ put' = [w \in Writers |-> IF InPut(w) THEN "error" ELSE put[w]]
    /\ rfd' = [r \in Readers |-> None]
    /\ got' = [r \in Readers |-> IF rfd[r] # None THEN "lost" ELSE got[r]]
    /\ UNCHANGED <<names, data, fd, off, pos>>

Next ==
    \/ \E w \in Writers :
          Stat(w) \/ Create(w) \/ Write(w) \/ Close(w) \/ Rename(w) \/ RemoveTmp(w)
    \/ \E r \in Readers : Open(r) \/ Read(r)
    \/ Delete
    \/ Crash

Spec == Init /\ [][Next]_vars

-----------------------------------------------------------------------------
(* Every variable has its type.                                            *)
TypeOK ==
    /\ final \in Writers \cup {None}
    /\ tmp \in Writers \cup {None}
    /\ data \in [Writers -> SUBSET Blocks]
    /\ wpc \in [Writers -> {"idle", "create", "write", "rename", "remove", "done"}]
    /\ fd \in [Writers -> Writers \cup {None}]
    /\ off \in [Writers -> 0..Size]
    /\ put \in [Writers -> {None, "ok", "error"}]
    /\ rfd \in [Readers -> Writers \cup {None}]
    /\ pos \in [Readers -> 0..Size]
    /\ got \in [Readers -> {None, "missing", "whole", "torn", "lost"}]
    /\ crashes \in 0..MaxCrashes

(* "artifacts are written to a `.tmp` file first, then renamed, preventing *)
(* partial reads" (README.md:111): who finds the artifact reads all of it. *)
(* It holds as long as the Puts of an artifact take turns, whatever fails. *)
WholeReads == \A r \in Readers : got[r] # "torn"

(* Where nothing fails, concurrent Puts of one artifact can show it before *)
(* it is complete, but then a Put that will complete it is still writing   *)
(* (local.go:58-76): the damage does not last.                             *)
WillBeWhole ==
    final # None =>
        \A b \in Blocks \ data[final] :
            \E w \in Writers : wpc[w] = "write" /\ fd[w] = final /\ off[w] < b

(* Without a restart, no temporary file stays behind: the name is gone     *)
(* when the last Put is over, whichever of them failed (local.go:65-79).   *)
NoTmpLeft ==
    crashes = 0 /\ tmp # None => \E w \in Writers : InPut(w)

(* Where nothing fails, a Put returns an error only for having lost a race *)
(* against a Put of the same artifact that succeeded: its temporary file   *)
(* was renamed, or removed, under its feet.                                *)
ErrorsLoseRaces ==
    \A w \in Writers : put[w] = "error" => \E v \in Writers : put[v] = "ok"

-----------------------------------------------------------------------------
(* The inductive invariant behind the theorems of LocalStorageProofs,      *)
(* while the Puts of an artifact take turns.                               *)
InTurn ==               \* at most one Put is in progress
    \A v, w \in Writers : InPut(v) /\ InPut(w) => v = w

Complete(i) == data[i] = Blocks

ShownWhole ==           \* what has the final name, or is being read, is complete
    /\ final # None => Complete(final)
    /\ \A r \in Readers : rfd[r] # None => Complete(rfd[r])

Aside ==                \* the temporary file is nobody's artifact yet
    tmp # None => tmp # final /\ \A r \in Readers : rfd[r] # tmp

OwnTmp ==               \* a Put has the temporary file open, and nobody else has
    \A w \in Writers :
        /\ wpc[w] \in {"write", "rename"} =>
              tmp # None /\ fd[w] = tmp /\ data[tmp] = 1..off[w]
        /\ wpc[w] = "rename" => off[w] = Size

NewInodes ==            \* a Put that has created nothing finds nothing of its own
    \A w \in Writers : wpc[w] \in {"idle", "create"} =>
        /\ off[w] = 0
        /\ w \notin {final, tmp}
        /\ \A r \in Readers : rfd[r] # w

Answered ==             \* Put has returned exactly when it is over
    \A w \in Writers : put[w] # None <=> wpc[w] = "done"

(* An inode gets the final name only when the one Put at work has written  *)
(* all of it, and no Put opens an inode that has, or had, that name.       *)
TurnsInv ==
    /\ TypeOK /\ InTurn /\ ShownWhole /\ Aside /\ OwnTmp /\ NewInodes
    /\ Answered /\ WholeReads

-----------------------------------------------------------------------------
(* The inductive invariants behind those theorems of LocalStorageProofs    *)
(* that let Puts overlap.                                                  *)

\* A temporary file has a Put that will rename or remove it, until a restart.
TmpHasPut ==
    crashes = 0 /\ tmp # None =>
        \E w \in Writers : wpc[w] \in {"write", "rename", "remove"}

(* On a disk that works, a Put that will fail has lost its temporary file, *)
(* and that only ever happens when some Put succeeds.                      *)
LosesTmp(w) ==
    \/ wpc[w] \in {"write", "rename"} /\ tmp = None
    \/ wpc[w] = "remove" \/ put[w] = "error"

LosersHaveWinner ==
    \A w \in Writers : LosesTmp(w) => \E v \in Writers : put[v] = "ok"

\* Each block that an inode misses is still to be written by a Put at work.
BeingCompleted(i) ==
    \A b \in Blocks \ data[i] :
        \E w \in Writers : wpc[w] = "write" /\ fd[w] = i /\ off[w] < b

\* A Put writes from the first block on, to a file that is open.
Offsets ==
    \A w \in Writers :
        /\ wpc[w] \in {"idle", "create"} => off[w] = 0
        /\ wpc[w] = "write" => fd[w] # None

(* Puts that share a temporary file truncate, rename and remove it under   *)
(* each other, but what has either name is always being completed.         *)
RacesInv ==
    /\ TypeOK /\ Answered /\ Offsets /\ LosersHaveWinner
    /\ \A i \in {final, tmp} \ {None} : BeingCompleted(i)

-----------------------------------------------------------------------------
Atomic == INSTANCE AtomicStore WITH
    present <- final # None,
    holding <- {r \in Readers : rfd[r] # None}

(* While the Puts of an artifact take turns, the backend is the atomic     *)
(* store that module CacheProxy takes it for.                              *)
ImplementsAtomicStore == Atomic!Spec
=============================================================================
