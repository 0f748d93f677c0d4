------------------------- MODULE LocalStorageProofs -------------------------
(***************************************************************************)
(* Proofs about LocalStorage for any number of writers and readers, any    *)
(* artifact, any fault of the disk and any number of restarts: while the   *)
(* Puts of an artifact take turns, no reader gets a part of it, and the    *)
(* backend is an atomic store.                                             *)
(***************************************************************************)
EXTENDS LocalStorage, TLAPS

USE NilIsNoInode, NilIsNoAnswer

(* The initial states satisfy the invariant.                               *)
LEMMA InitTurnsInv == Init => TurnsInv
<1>1. SUFFICES ASSUME Init PROVE TurnsInv
  OBVIOUS
<1>2. TypeOK
  BY <1>1, SizeIsLength, FlagsAndBounds DEF Init, TypeOK, Blocks
<1>3. InTurn
  BY <1>1 DEF Init, InTurn, InPut
<1>4. ShownWhole /\ Aside /\ WholeReads
  BY <1>1 DEF Init, ShownWhole, Aside, WholeReads
<1>5. OwnTmp /\ NewInodes /\ Answered
  BY <1>1 DEF Init, OwnTmp, NewInodes, Answered
<1>6. QED
  BY <1>2, <1>3, <1>4, <1>5 DEF TurnsInv

(* Every step of a writer, a reader, the eviction worker's Delete and the  *)
(* restart keep the type invariant.                                        *)
LEMMA TypeStep == TypeOK /\ [Next]_vars => TypeOK'
<1> SUFFICES ASSUME TypeOK, [Next]_vars PROVE TypeOK'
  OBVIOUS
<1> USE SizeIsLength, FlagsAndBounds DEF TypeOK, Blocks
<1>1. ASSUME NEW w \in Writers, Stat(w) PROVE TypeOK'
  BY <1>1 DEF Stat, Returns, Goes, names, reading
<1>2. ASSUME NEW w \in Writers, Create(w) PROVE TypeOK'
  <2>1. CASE DiskMayFail /\ Returns(w, "error") /\ UNCHANGED <<tmp, fd, data>>
    BY <1>2, <2>1 DEF Create, Returns, reading
  <2>2. CASE ~(DiskMayFail /\ Returns(w, "error") /\ UNCHANGED <<tmp, fd, data>>)
    <3> DEFINE inode == IF tmp = None THEN w ELSE tmp
    <3>1. inode \in Writers
      OBVIOUS
    <3>2. /\ tmp' = inode
          /\ fd' = [fd EXCEPT ![w] = inode]
          /\ data' = [data EXCEPT ![inode] = {}]
          /\ Goes(w, "write")
          /\ UNCHANGED <<final, off, reading, crashes>>
      BY <1>2, <2>2 DEF Create
    <3> HIDE DEF inode
    <3>3. QED
      BY <3>1, <3>2 DEF Goes, reading
  <2>3. QED
    BY <2>1, <2>2
<1>3. ASSUME NEW w \in Writers, Write(w) PROVE TypeOK'
  <2>1. off[w] + 1 \in Blocks /\ off[w] + 1 \in 0..Size
    BY <1>3 DEF Write
  <2>2. data' \in [Writers -> SUBSET Blocks]
    BY <1>3, <2>1 DEF Write
  <2>3. QED
    BY <1>3, <2>1, <2>2 DEF Write, names, reading
<1>4. ASSUME NEW w \in Writers, Close(w) PROVE TypeOK'
  BY <1>4 DEF Close, Goes, names, reading
<1>5. ASSUME NEW w \in Writers, Rename(w) PROVE TypeOK'
  BY <1>5 DEF Rename, Returns, Goes, names, reading
<1>6. ASSUME NEW w \in Writers, RemoveTmp(w) PROVE TypeOK'
  BY <1>6 DEF RemoveTmp, Returns, reading
<1>7. ASSUME NEW r \in Readers, Open(r) PROVE TypeOK'
  BY <1>7 DEF Open, names, writing
<1>8. ASSUME NEW r \in Readers, Read(r) PROVE TypeOK'
  <2>1. CASE pos[r] + 1 \in data[rfd[r]]
    BY <1>8, <2>1 DEF Read, names, writing
  <2>2. CASE pos[r] + 1 \notin data[rfd[r]]
    BY <1>8, <2>2 DEF Read, names, writing
  <2>3. QED
    BY <2>1, <2>2
<1>9. CASE Delete
  BY <1>9 DEF Delete, writing, reading
<1>10. CASE Crash
  BY <1>10 DEF Crash, names
<1>11. CASE UNCHANGED vars
  BY <1>11 DEF vars, names, writing, reading
<1>12. QED
  BY <1>1, <1>2, <1>3, <1>4, <1>5, <1>6, <1>7, <1>8, <1>9, <1>10, <1>11 DEF Next

-----------------------------------------------------------------------------
(* While the Puts of the artifact take turns, each step of a Put keeps the *)
(* rest of the invariant: what concerns the writers first.                 *)
LEMMA WriterStep ==
    ASSUME TurnsInv, TypeOK', WritersTakeTurns, NEW w \in Writers,
           Stat(w) \/ Create(w) \/ Write(w) \/ Close(w) \/ Rename(w) \/ RemoveTmp(w)
    PROVE  TurnsInv'
<1> USE DEF TypeOK
<1>0. /\ TypeOK /\ InTurn /\ ShownWhole /\ Aside /\ OwnTmp /\ NewInodes /\ Answered /\ WholeReads
      /\ UNCHANGED reading
  BY DEF TurnsInv, Stat, Create, Write, Close, Rename, RemoveTmp
<1>1. ASSUME NEW v \in Writers, InPut(v), v # w PROVE Stat(w) /\ FALSE
  <2>1. ~InPut(w)
    BY <1>0, <1>1 DEF InTurn
  <2>2. wpc[w] = "idle"
    BY <2>1 DEF InPut, Stat, Create, Write, Close, Rename, RemoveTmp
  <2>3. QED
    BY <1>1, <2>2 DEF Stat, Create, Write, Close, Rename, RemoveTmp
<1>2. \A v \in Writers : InPut(v) => v = w
  BY <1>1
<1>3. \A v \in Writers : v # w => wpc'[v] = wpc[v]
  BY DEF Stat, Create, Write, Close, Rename, RemoveTmp, Returns, Goes
<1>4. InTurn'
  BY <1>2, <1>3 DEF InTurn, InPut
<1>5. WholeReads' /\ Answered'
  <2>1. WholeReads'
    BY <1>0 DEF WholeReads, reading
  <2>2. Answered'
    BY <1>0 DEF Answered, Stat, Create, Write, Close, Rename, RemoveTmp, Returns, Goes
  <2>3. QED
    BY <2>1, <2>2
<1>6. CASE Stat(w)
  BY <1>0, <1>2, <1>4, <1>5, <1>6
     DEF Stat, TurnsInv, ShownWhole, Complete, Aside, OwnTmp, NewInodes, Returns, Goes,
         names, reading
<1>7. CASE Create(w)
  <2>1. CASE DiskMayFail /\ Returns(w, "error") /\ UNCHANGED <<tmp, fd, data>>
    BY <1>0, <1>2, <1>4, <1>5, <1>7, <2>1
       DEF Create, TurnsInv, ShownWhole, Complete, Aside, OwnTmp, NewInodes, Returns, reading
  <2>2. CASE ~(DiskMayFail /\ Returns(w, "error") /\ UNCHANGED <<tmp, fd, data>>)
    <3> DEFINE inode == IF tmp = None THEN w ELSE tmp
    <3>1. /\ inode \in Writers
          /\ inode # final
          /\ \A r \in Readers : rfd[r] # inode
          /\ \A v \in Writers : v # w /\ wpc[v] \in {"idle", "create"} => v # inode
      BY <1>0, <1>7 DEF Create, Aside, NewInodes
    <3>2. /\ tmp' = inode
          /\ fd' = [fd EXCEPT ![w] = inode]
          /\ data' = [data EXCEPT ![inode] = {}]
          /\ Goes(w, "write")
          /\ UNCHANGED <<final, off, reading, crashes>>
          /\ off[w] = 0
      BY <1>0, <1>7, <2>2 DEF Create, NewInodes
    <3> HIDE DEF inode
    <3>3. ShownWhole'
      BY <1>0, <3>1, <3>2 DEF ShownWhole, Complete, Blocks, reading
    <3>4. Aside'
      BY <3>1, <3>2 DEF Aside, reading
    <3>5. OwnTmp'
      <4>1. data'[tmp'] = 1..off'[w]
        BY <3>1, <3>2
      <4>2. ASSUME NEW v \in Writers PROVE wpc'[v] \in {"write", "rename"} => v = w
        BY <1>2, <1>3, <4>2 DEF InPut
      <4>3. wpc'[w] = "write" /\ fd'[w] = tmp' /\ tmp' # None
        BY <3>1, <3>2 DEF Goes
      <4>4. QED
        BY <4>1, <4>2, <4>3 DEF OwnTmp
    <3>6. NewInodes'
      BY <1>0, <3>1, <3>2 DEF NewInodes, Goes, reading
    <3>7. QED
      BY <1>4, <1>5, <3>3, <3>4, <3>5, <3>6 DEF TurnsInv
  <2>3. QED
    BY <2>1, <2>2
<1>8. CASE Write(w)
  <2>1. fd[w] = tmp /\ tmp # None /\ data[tmp] = 1..off[w] /\ off[w] < Size
    BY <1>0, <1>8 DEF Write, OwnTmp
  <2>2. ShownWhole' /\ Aside' /\ NewInodes'
    BY <1>0, <1>8, <2>1 DEF Write, ShownWhole, Complete, Blocks, Aside, NewInodes, names, reading
  <2>3. OwnTmp'
    <3>1. ASSUME NEW v \in Writers PROVE wpc'[v] \in {"write", "rename"} => v = w
      BY <1>2, <1>3, <3>1 DEF InPut
    <3>2. CASE wpc' = wpc
      <4>0. /\ off' = [off EXCEPT ![w] = @ + 1]
            /\ data' = [data EXCEPT ![fd[w]] = @ \cup {off[w] + 1}]
        BY <1>0, <1>8, <3>2 DEF Write
      <4>1. data'[tmp] = 1..off'[w]
        <5>1. off[w] \in Nat /\ off'[w] = off[w] + 1
          BY <1>0, <4>0, SizeIsLength
        <5>2. data'[tmp] = (1..off[w]) \cup {off[w] + 1}
          BY <1>0, <2>1, <4>0
        <5>3. QED
          BY <5>1, <5>2
      <4>2. QED
        BY <1>8, <2>1, <3>1, <3>2, <4>1 DEF Write, OwnTmp, names
    <3>3. CASE wpc' = [wpc EXCEPT ![w] = "remove"]
      BY <3>1, <3>3 DEF OwnTmp
    <3>4. QED
      BY <1>8, <3>2, <3>3 DEF Write
  <2>4. QED
    BY <1>4, <1>5, <2>2, <2>3 DEF TurnsInv
<1>9. CASE Close(w)
  BY <1>0, <1>2, <1>4, <1>5, <1>9
     DEF Close, TurnsInv, ShownWhole, Complete, Aside, OwnTmp, NewInodes, Goes, names, reading
<1>10. CASE Rename(w)
  <2>1. data[tmp] = Blocks /\ tmp # None
    BY <1>0, <1>10 DEF Rename, OwnTmp, Blocks
  <2>2. ShownWhole' /\ Aside' /\ NewInodes'
    BY <1>0, <1>10, <2>1
       DEF Rename, ShownWhole, Complete, Aside, NewInodes, Returns, Goes, names, reading
  <2>3. OwnTmp'
    <3>1. ASSUME NEW v \in Writers PROVE wpc'[v] \notin {"write", "rename"}
      BY <1>2, <1>3, <1>10, <3>1 DEF InPut, Rename, Returns, Goes
    <3>2. QED
      BY <3>1 DEF OwnTmp
  <2>4. QED
    BY <1>4, <1>5, <2>2, <2>3 DEF TurnsInv
<1>11. CASE RemoveTmp(w)
  BY <1>0, <1>2, <1>3, <1>4, <1>5, <1>11
     DEF RemoveTmp, TurnsInv, ShownWhole, Complete, Aside, OwnTmp, NewInodes, Returns,
         InPut, reading
<1>12. QED
  BY <1>6, <1>7, <1>8, <1>9, <1>10, <1>11

(* A reader opens what has the final name, and reads all of it.            *)
LEMMA ReaderStep ==
    ASSUME TurnsInv, TypeOK', NEW r \in Readers, Open(r) \/ Read(r)
    PROVE  TurnsInv'
<1> USE DEF TypeOK
<1>0. /\ TypeOK /\ InTurn /\ ShownWhole /\ Aside /\ OwnTmp /\ NewInodes /\ Answered /\ WholeReads
      /\ UNCHANGED <<names, data, writing>>
  BY DEF TurnsInv, Open, Read
<1>1. InTurn' /\ OwnTmp' /\ Answered'
  BY <1>0 DEF InTurn, InPut, OwnTmp, Answered, names, writing
<1>2. \A q \in Readers : rfd'[q] = rfd[q] \/ rfd'[q] = None \/ (rfd'[q] = final /\ final # None)
  BY DEF Open, Read
<1>3. ShownWhole'
  BY <1>0, <1>2 DEF ShownWhole, Complete, names
<1>4. Aside'
  BY <1>0, <1>2 DEF Aside, names
<1>5. NewInodes'
  BY <1>0, <1>2 DEF NewInodes, names, writing
<1>6. WholeReads'
  <2>1. CASE Open(r)
    BY <1>0, <2>1 DEF Open, WholeReads
  <2>2. CASE Read(r)
    <3>1. data[rfd[r]] = 1..Size
      BY <1>0, <2>2 DEF Read, ShownWhole, Complete, Blocks
    <3>2. pos[r] + 1 \notin data[rfd[r]] => pos[r] = Size
      BY <1>0, <3>1, SizeIsLength
    <3>3. QED
      BY <1>0, <2>2, <3>2 DEF Read, WholeReads
  <2>3. QED
    BY <2>1, <2>2
<1>7. QED
  BY <1>1, <1>3, <1>4, <1>5, <1>6 DEF TurnsInv

(* Deleting the artifact takes nothing from those who read it, and a       *)
(* restart leaves at most a temporary file that nobody reads.              *)
LEMMA OtherStep ==
    ASSUME TurnsInv, TypeOK', Delete \/ Crash \/ UNCHANGED vars
    PROVE  TurnsInv'
<1> USE DEF TypeOK
<1>1. CASE Delete
  BY <1>1 DEF Delete, TurnsInv, InTurn, InPut, ShownWhole, Complete, Aside, OwnTmp,
             NewInodes, Answered, WholeReads, writing, reading
<1>2. CASE Crash
  <2>1. \A w \in Writers : /\ ~InPut(w)'
                           /\ wpc'[w] \in {"idle", "create"} => wpc[w] = wpc'[w]
    BY <1>2 DEF Crash, InPut
  <2>2. InTurn' /\ OwnTmp'
    BY <2>1 DEF InTurn, OwnTmp, InPut
  <2>3. ShownWhole' /\ Aside'
    BY <1>2 DEF Crash, TurnsInv, ShownWhole, Complete, Aside, names
  <2>4. NewInodes'
    BY <1>2, <2>1 DEF Crash, TurnsInv, NewInodes, names
  <2>5. WholeReads' /\ Answered'
    BY <1>2 DEF Crash, TurnsInv, WholeReads, Answered, InPut
  <2>6. QED
    BY <2>2, <2>3, <2>4, <2>5 DEF TurnsInv
<1>3. CASE UNCHANGED vars
  BY <1>3 DEF vars, names, writing, reading, TurnsInv, InTurn, InPut, ShownWhole, Complete,
             Aside, OwnTmp, NewInodes, Answered, WholeReads
<1>4. QED
  BY <1>1, <1>2, <1>3

(* While the Puts of an artifact take turns, only complete files get the   *)
(* final name and no temporary file is read.                               *)
THEOREM TurnsInvariant == WritersTakeTurns /\ Spec => []TurnsInv
<1> SUFFICES ASSUME WritersTakeTurns PROVE Spec => []TurnsInv
  OBVIOUS
<1>1. TurnsInv /\ [Next]_vars => TurnsInv'
  <2>1. SUFFICES ASSUME TurnsInv, [Next]_vars PROVE TurnsInv'
    OBVIOUS
  <2>2. TypeOK'
    BY <2>1, TypeStep DEF TurnsInv
  <2>3. QED
    BY <2>1, <2>2, WriterStep, ReaderStep, OtherStep DEF Next
<1>2. QED
  BY <1>1, InitTurnsInv, PTL DEF Spec

(* Every variable of the backend keeps its type, also when Puts of the     *)
(* artifact overlap.                                                       *)
THEOREM TypeCorrect == Spec => []TypeOK
<1>1. Init => TypeOK
  BY InitTurnsInv DEF TurnsInv
<1>2. QED
  BY <1>1, TypeStep, PTL DEF Spec

(* Whoever finds the artifact reads all of it, whatever fails, provided    *)
(* that the Puts of the artifact take turns (README.md:111).               *)
THEOREM NoPartialReads == WritersTakeTurns /\ Spec => []WholeReads
<1>1. TurnsInv => WholeReads
  BY DEF TurnsInv
<1>2. QED
  BY <1>1, TurnsInvariant, PTL

-----------------------------------------------------------------------------
(* A step of the backend is a step of the atomic store, or changes nothing *)
(* that the atomic store has.                                              *)
LEMMA AtomicStep ==
    ASSUME TurnsInv, TurnsInv', WritersTakeTurns, [Next]_vars
    PROVE  [Atomic!Next]_Atomic!vars
<1> USE DEF TypeOK, Atomic!vars
<1> DEFINE holding == {r \in Readers : rfd[r] # None}
<1>0. TypeOK /\ TypeOK' /\ WholeReads' /\ OwnTmp /\ Answered
  BY DEF TurnsInv
<1>1. ASSUME NEW w \in Writers,
             Stat(w) \/ Create(w) \/ Write(w) \/ Close(w) \/ Rename(w) \/ RemoveTmp(w)
      PROVE  [Atomic!Next]_Atomic!vars
  <2>1. holding' = holding /\ got' = got
    BY <1>1 DEF Stat, Create, Write, Close, Rename, RemoveTmp, reading
  <2>2. put[w] = None
    BY <1>0, <1>1 DEF Answered, Stat, Create, Write, Close, Rename, RemoveTmp
  <2>3. \/ put' = put /\ final' = final
        \/ put' = [put EXCEPT ![w] = "ok"] /\ final' # None
        \/ put' = [put EXCEPT ![w] = "error"] /\ final' = final
    BY <1>1 DEF Stat, Create, Write, Close, Rename, RemoveTmp, Returns, Goes, names
  <2>4. CASE put' = put /\ final' = final
    BY <2>1, <2>4
  <2>5. CASE put' = [put EXCEPT ![w] = "ok"] /\ final' # None
    BY <2>1, <2>2, <2>5 DEF Atomic!Next, Atomic!Put
  <2>6. CASE put' = [put EXCEPT ![w] = "error"] /\ final' = final
    BY <2>1, <2>2, <2>6 DEF Atomic!Next, Atomic!PutFails
  <2>7. QED
    BY <2>3, <2>4, <2>5, <2>6
<1>2. ASSUME NEW r \in Readers, Open(r) PROVE [Atomic!Next]_Atomic!vars
  <2>1. UNCHANGED <<final, put>> /\ got[r] = None
    BY <1>2 DEF Open, names, writing
  <2>2. CASE final # None
    <3>1. holding' = holding \cup {r} /\ got' = got
      BY <1>0, <1>2, <2>2 DEF Open
    <3>2. QED
      BY <2>1, <2>2, <3>1 DEF Atomic!Next, Atomic!Find
  <2>3. CASE final = None
    <3>1. holding' = holding /\ got' = [got EXCEPT ![r] = "missing"]
      BY <1>2, <2>3 DEF Open
    <3>2. QED
      BY <2>1, <2>3, <3>1 DEF Atomic!Next, Atomic!Miss
  <2>4. QED
    BY <2>2, <2>3
<1>3. ASSUME NEW r \in Readers, Read(r) PROVE [Atomic!Next]_Atomic!vars
  <2>1. UNCHANGED <<final, put>> /\ r \in holding
    BY <1>3 DEF Read, names, writing
  <2>2. CASE UNCHANGED <<rfd, got>>
    BY <2>1, <2>2
  <2>3. CASE ~UNCHANGED <<rfd, got>>
    <3>1. holding' = holding \ {r}
      BY <1>0, <1>3, <2>3 DEF Read
    <3>2. got' = [got EXCEPT ![r] = "whole"]
      BY <1>0, <1>3, <2>3 DEF Read, WholeReads
    <3>3. QED
      BY <2>1, <3>1, <3>2 DEF Atomic!Next, Atomic!ReadAll
  <2>4. QED
    BY <2>2, <2>3
<1>4. CASE Delete
  BY <1>4 DEF Delete, writing, reading, Atomic!Next, Atomic!Delete
<1>5. CASE Crash
  <2>1. /\ put' \in [Writers -> {None, "ok", "error"}]
        /\ \A w \in Writers : put'[w] # put[w] => put[w] = None /\ put'[w] = "error"
    BY <1>0, <1>5 DEF Crash, Answered, InPut
  <2>2. holding' = {} /\ final' = final
    BY <1>5 DEF Crash, names
  <2>3. got' = [r \in Readers |-> IF r \in holding THEN "lost" ELSE got[r]]
    BY <1>5 DEF Crash
  <2>4. QED
    BY <2>1, <2>2, <2>3 DEF Atomic!Next, Atomic!Die
<1>6. CASE UNCHANGED vars
  BY <1>6 DEF vars, names, writing, reading
<1>7. QED
  BY <1>1, <1>2, <1>3, <1>4, <1>5, <1>6 DEF Next

(* While the Puts of an artifact take turns, the filesystem backend is the *)
(* store with atomic Put, Get and Delete that module CacheProxy has.       *)
THEOREM AtomicInTurns == WritersTakeTurns /\ Spec => ImplementsAtomicStore
<1> SUFFICES ASSUME WritersTakeTurns PROVE Spec => ImplementsAtomicStore
  OBVIOUS
<1>1. Init => Atomic!Init
  BY DEF Init, Atomic!Init
<1>2. TurnsInv /\ TurnsInv' /\ [Next]_vars => [Atomic!Next]_Atomic!vars
  BY AtomicStep
<1>3. Spec => []TurnsInv
  BY TurnsInvariant
<1>4. QED
  BY <1>1, <1>2, <1>3, PTL DEF Spec, ImplementsAtomicStore, Atomic!Spec

-----------------------------------------------------------------------------
(* Overlapping Puts.  What a step that is none of a Put does to them:      *)
(* nothing, until a restart.                                               *)
LEMMA OthersLeavePuts ==
    ASSUME (\E r \in Readers : Open(r) \/ Read(r)) \/ Delete \/ UNCHANGED vars
    PROVE  UNCHANGED <<tmp, data, writing, crashes>> /\ final' \in {final, None}
BY DEF Open, Read, Delete, names, writing, vars

(* The name of a temporary file is given up only by a Put that renames or  *)
(* removes it, and a Put that has created it cannot end without either.    *)
LEMMA TmpStep == TypeOK /\ TmpHasPut /\ [Next]_vars => TmpHasPut'
<1> SUFFICES ASSUME TypeOK, TmpHasPut, [Next]_vars, crashes' = 0, tmp' # None
             PROVE  \E v \in Writers : wpc'[v] \in {"write", "rename", "remove"}
  BY DEF TmpHasPut
<1>1. ASSUME NEW w \in Writers, Create(w), wpc'[w] = "write"
      PROVE  \E v \in Writers : wpc'[v] \in {"write", "rename", "remove"}
  BY <1>1
<1>2. ASSUME UNCHANGED <<tmp, crashes>>,
             \A v \in Writers : wpc[v] \in {"write", "rename", "remove"} =>
                                 wpc'[v] \in {"write", "rename", "remove"}
      PROVE  \E v \in Writers : wpc'[v] \in {"write", "rename", "remove"}
  BY <1>2 DEF TmpHasPut
<1> USE DEF TypeOK, Returns, Goes
<1>3. ASSUME NEW w \in Writers, Stat(w) \/ Write(w) \/ Close(w)
      PROVE  \E v \in Writers : wpc'[v] \in {"write", "rename", "remove"}
  BY <1>2, <1>3 DEF Stat, Write, Close, names
<1>4. ASSUME NEW w \in Writers, Create(w)
      PROVE  \E v \in Writers : wpc'[v] \in {"write", "rename", "remove"}
  BY <1>1, <1>2, <1>4 DEF Create
<1>5. ASSUME NEW w \in Writers, Rename(w) \/ RemoveTmp(w)
      PROVE  \E v \in Writers : wpc'[v] \in {"write", "rename", "remove"}
  BY <1>2, <1>5 DEF Rename, RemoveTmp, names
<1>6. CASE Crash
  BY <1>6, FlagsAndBounds DEF Crash
<1>7. CASE (\E r \in Readers : Open(r) \/ Read(r)) \/ Delete \/ UNCHANGED vars
  BY <1>2, <1>7, OthersLeavePuts DEF writing
<1>8. QED
  BY <1>3, <1>4, <1>5, <1>6, <1>7 DEF Next

(* Until a restart, a temporary file has a Put at work, whether Puts       *)
(* overlap or not and whatever the disk does (local.go:65-79).             *)
THEOREM NoTmpStays == Spec => []NoTmpLeft
<1>1. Init => TypeOK /\ TmpHasPut
  BY InitTurnsInv DEF TurnsInv, Init, TmpHasPut
<1>2. TypeOK /\ TmpHasPut /\ [Next]_vars => TypeOK' /\ TmpHasPut'
  BY TypeStep, TmpStep
<1>3. TmpHasPut => NoTmpLeft
  BY DEF TmpHasPut, NoTmpLeft, InPut
<1>4. QED
  BY <1>1, <1>2, <1>3, PTL DEF Spec

-----------------------------------------------------------------------------
(* Overlapping Puts on a disk that works, until a restart.                 *)

(* The outcomes of Puts: they are returned once.                           *)
LEMMA AnsweredStep ==
    ASSUME TypeOK, Answered, [Next]_vars
    PROVE  /\ Answered'
           /\ \A v \in Writers : put[v] # None => put'[v] = put[v]
<1> USE DEF TypeOK, Answered
<1>1. ASSUME NEW w \in Writers,
             Stat(w) \/ Create(w) \/ Write(w) \/ Close(w) \/ Rename(w) \/ RemoveTmp(w)
      PROVE  /\ Answered'
             /\ \A v \in Writers : put[v] # None => put'[v] = put[v]
  BY <1>1 DEF Stat, Create, Write, Close, Rename, RemoveTmp, Returns, Goes
<1>2. CASE Crash
  BY <1>2 DEF Crash, InPut
<1>3. CASE (\E r \in Readers : Open(r) \/ Read(r)) \/ Delete \/ UNCHANGED vars
  BY <1>3, OthersLeavePuts DEF writing
<1>4. QED
  BY <1>1, <1>2, <1>3 DEF Next

(* A Put loses its temporary file only to one that succeeds, or to one     *)
(* that has lost its own before.                                           *)
LEMMA LosersStep ==
    ASSUME TypeOK, Answered, LosersHaveWinner, ~DiskMayFail, MaxCrashes = 0, [Next]_vars
    PROVE  LosersHaveWinner'
<1> USE DEF TypeOK, Returns, Goes
<1>1. \A v \in Writers : put[v] # None => put'[v] = put[v]
  BY AnsweredStep
<1>2. (\E v \in Writers : put[v] = "ok") => LosersHaveWinner'
  BY <1>1 DEF LosersHaveWinner
<1>3. ASSUME \A v \in Writers : LosesTmp(v)' => LosesTmp(v) PROVE LosersHaveWinner'
  BY <1>2, <1>3 DEF LosersHaveWinner
<1>4. ASSUME NEW w \in Writers, Stat(w) PROVE LosersHaveWinner'
  BY <1>3, <1>4 DEF Stat, LosesTmp, names
<1>5. ASSUME NEW w \in Writers, Create(w) PROVE LosersHaveWinner'
  BY <1>3, <1>5 DEF Create, LosesTmp
<1>6. ASSUME NEW w \in Writers, Write(w) \/ Close(w) PROVE LosersHaveWinner'
  BY <1>3, <1>6 DEF Write, Close, LosesTmp, names
<1>7. ASSUME NEW w \in Writers, Rename(w) PROVE LosersHaveWinner'
  <2>1. CASE tmp # None /\ Returns(w, "ok")
    <3>1. put'[w] = "ok"
      BY <2>1
    <3>2. QED
      BY <3>1 DEF LosersHaveWinner
  <2>2. CASE tmp = None /\ Goes(w, "remove") /\ UNCHANGED names
    BY <1>3, <1>7, <2>2 DEF Rename, LosesTmp, names
  <2>3. QED
    BY <1>7, <2>1, <2>2 DEF Rename
<1>8. ASSUME NEW w \in Writers, RemoveTmp(w) PROVE LosersHaveWinner'
  BY <1>2, <1>8 DEF RemoveTmp, LosersHaveWinner, LosesTmp
<1>9. ~Crash
  BY DEF Crash
<1>10. CASE (\E r \in Readers : Open(r) \/ Read(r)) \/ Delete \/ UNCHANGED vars
  BY <1>3, <1>10, OthersLeavePuts DEF LosesTmp, writing
<1>11. QED
  BY <1>4, <1>5, <1>6, <1>7, <1>8, <1>9, <1>10 DEF Next

(* A Put has its file open and starts at its beginning.                    *)
LEMMA OffsetsStep ==
    ASSUME TypeOK, Offsets, MaxCrashes = 0, [Next]_vars PROVE Offsets'
<1> USE DEF TypeOK, Returns, Goes, Offsets
<1>1. ASSUME NEW w \in Writers, Create(w) PROVE Offsets'
  BY <1>1 DEF Create
<1>2. ASSUME NEW w \in Writers, Write(w) PROVE Offsets'
  BY <1>2 DEF Write
<1>3. ASSUME NEW w \in Writers, Stat(w) \/ Close(w) \/ Rename(w) \/ RemoveTmp(w)
      PROVE  Offsets'
  BY <1>3 DEF Stat, Close, Rename, RemoveTmp
<1>4. ~Crash
  BY DEF Crash
<1>5. CASE (\E r \in Readers : Open(r) \/ Read(r)) \/ Delete \/ UNCHANGED vars
  BY <1>5, OthersLeavePuts DEF writing
<1>6. QED
  BY <1>1, <1>2, <1>3, <1>4, <1>5 DEF Next

(* An inode that is being completed goes on being completed, even when     *)
(* another Put truncates it, for that Put then writes all of it.           *)
LEMMA CompletionStep ==
    ASSUME TypeOK, TypeOK', Offsets, ~DiskMayFail, MaxCrashes = 0, [Next]_vars,
           NEW i \in Writers, BeingCompleted(i)
    PROVE  BeingCompleted(i)'
<1> USE SizeIsLength DEF TypeOK, Returns, Goes, Blocks
<1>1. ASSUME data' = data,
             \A w \in Writers : wpc[w] = "write" /\ off[w] < Size =>
                  wpc'[w] = "write" /\ fd'[w] = fd[w] /\ off'[w] = off[w]
      PROVE  BeingCompleted(i)'
  BY <1>1 DEF BeingCompleted
<1>2. ASSUME NEW w \in Writers, Create(w) PROVE BeingCompleted(i)'
  <2> DEFINE inode == IF tmp = None THEN w ELSE tmp
  <2>1. /\ inode \in Writers
        /\ fd' = [fd EXCEPT ![w] = inode]
        /\ data' = [data EXCEPT ![inode] = {}]
        /\ wpc' = [wpc EXCEPT ![w] = "write"] /\ off' = off
        /\ wpc[w] = "create" /\ off[w] = 0
    BY <1>2 DEF Create, Offsets
  <2> HIDE DEF inode
  <2>2. CASE i = inode
    BY <2>1, <2>2 DEF BeingCompleted
  <2>3. CASE i # inode
    BY <2>1, <2>3 DEF BeingCompleted
  <2>4. QED
    BY <2>2, <2>3
<1>3. ASSUME NEW w \in Writers, Write(w) PROVE BeingCompleted(i)'
  <2>1. /\ wpc[w] = "write" /\ off[w] \in 0..Size /\ fd[w] \in Writers
        /\ off' = [off EXCEPT ![w] = off[w] + 1]
        /\ data' = [data EXCEPT ![fd[w]] = data[fd[w]] \cup {off[w] + 1}]
        /\ wpc' = wpc /\ fd' = fd
    BY <1>3 DEF Write, Offsets
  <2>2. ASSUME NEW b \in 1..Size, b \notin data'[i]
        PROVE  \E v \in Writers : wpc'[v] = "write" /\ fd'[v] = i /\ off'[v] < b
    <3>1. b \notin data[i]
      BY <2>1, <2>2
    <3>2. PICK v \in Writers : wpc[v] = "write" /\ fd[v] = i /\ off[v] < b
      BY <2>2, <3>1 DEF BeingCompleted
    <3>3. CASE v # w
      BY <2>1, <3>2, <3>3
    <3>4. CASE v = w
      <4>1. b # off[w] + 1
        BY <2>1, <2>2, <3>2, <3>4
      <4>2. off'[w] = off[w] + 1 /\ off[w] + 1 < b
        BY <2>1, <2>2, <3>2, <3>4, <4>1
      <4>3. QED
        BY <2>1, <3>2, <3>4, <4>2
    <3>5. QED
      BY <3>3, <3>4
  <2>3. QED
    BY <2>2 DEF BeingCompleted
<1>4. ASSUME NEW w \in Writers, Stat(w) \/ Close(w) \/ Rename(w) \/ RemoveTmp(w)
      PROVE  BeingCompleted(i)'
  BY <1>1, <1>4 DEF Stat, Close, Rename, RemoveTmp
<1>5. ~Crash
  BY DEF Crash
<1>6. CASE (\E r \in Readers : Open(r) \/ Read(r)) \/ Delete \/ UNCHANGED vars
  BY <1>1, <1>6, OthersLeavePuts DEF writing
<1>7. QED
  BY <1>2, <1>3, <1>4, <1>5, <1>6 DEF Next

(* What gets one of the two names had the other one, or is new and empty   *)
(* and its Put is at its beginning.                                        *)
LEMMA NamesStep ==
    ASSUME TypeOK, TypeOK', Offsets, ~DiskMayFail, MaxCrashes = 0, [Next]_vars,
           \A i \in {final, tmp} \ {None} : BeingCompleted(i)
    PROVE  \A i \in {final', tmp'} \ {None} : BeingCompleted(i)'
<1> SUFFICES ASSUME NEW i \in {final', tmp'} \ {None} PROVE BeingCompleted(i)'
  OBVIOUS
<1>1. i \in Writers
  BY DEF TypeOK
<1>2. CASE i \in {final, tmp}
  BY <1>1, <1>2, CompletionStep
<1>3. CASE i \notin {final, tmp}
  <2>1. PICK w \in Writers : Create(w) /\ i = w /\ tmp = None
    <3>1. \E w \in Writers : Create(w) /\ i = tmp'
      BY <1>3, OthersLeavePuts
         DEF Next, Stat, Create, Write, Close, Rename, RemoveTmp, Crash, names
    <3>2. QED
      BY <1>3, <3>1 DEF Create
  <2>2. /\ data'[i] = {} /\ fd'[w] = i /\ wpc'[w] = "write" /\ off'[w] = 0
    BY <1>1, <2>1 DEF Create, Goes, TypeOK, Offsets
  <2>3. QED
    BY <2>2 DEF BeingCompleted, Blocks
<1>4. QED
  BY <1>2, <1>3

(* On a disk that works and until a restart, however Puts overlap, a Put   *)
(* that fails has a winner and a named file has its writers.               *)
THEOREM RacesInvariant ==
    ~DiskMayFail /\ MaxCrashes = 0 /\ Spec => []RacesInv
<1> SUFFICES ASSUME ~DiskMayFail, MaxCrashes = 0 PROVE Spec => []RacesInv
  OBVIOUS
<1>1. Init => RacesInv
  <2> SUFFICES ASSUME Init PROVE RacesInv
    OBVIOUS
  <2>1. TypeOK /\ Answered
    BY InitTurnsInv DEF TurnsInv
  <2>2. Offsets /\ LosersHaveWinner /\ final = None /\ tmp = None
    BY DEF Init, Offsets, LosersHaveWinner, LosesTmp
  <2>3. QED
    BY <2>1, <2>2 DEF RacesInv
<1>2. RacesInv /\ [Next]_vars => RacesInv'
  <2> SUFFICES ASSUME RacesInv, [Next]_vars PROVE RacesInv'
    OBVIOUS
  <2>1. TypeOK'
    BY TypeStep DEF RacesInv
  <2>2. Answered' /\ LosersHaveWinner' /\ Offsets'
    BY AnsweredStep, LosersStep, OffsetsStep DEF RacesInv
  <2>3. \A i \in {final', tmp'} \ {None} : BeingCompleted(i)'
    BY <2>1, NamesStep DEF RacesInv
  <2>4. QED
    BY <2>1, <2>2, <2>3 DEF RacesInv
<1>3. QED
  BY <1>1, <1>2, PTL DEF Spec

(* On a disk that works, an artifact that overlapping Puts show too early  *)
(* is being completed (local.go:58-76).                                    *)
THEOREM DamageHeals == ~DiskMayFail /\ MaxCrashes = 0 /\ Spec => []WillBeWhole
<1>1. RacesInv => WillBeWhole
  BY DEF RacesInv, WillBeWhole, BeingCompleted
<1>2. QED
  BY <1>1, RacesInvariant, PTL

(* On a disk that works, a Put fails only if another one succeeds.         *)
THEOREM LosersLost == ~DiskMayFail /\ MaxCrashes = 0 /\ Spec => []ErrorsLoseRaces
<1>1. RacesInv => ErrorsLoseRaces
  BY DEF RacesInv, ErrorsLoseRaces, LosersHaveWinner, LosesTmp
<1>2. QED
  BY <1>1, RacesInvariant, PTL
=============================================================================
