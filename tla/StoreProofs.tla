---------------------------- MODULE StoreProofs -----------------------------
(***************************************************************************)
(* Proofs about Store for any processes, paths, contents and files.         *)
(* They hold for SerialSpec, where no two processes work on one path.       *)
(***************************************************************************)
EXTENDS Store, TLAPS

(* At most one call in progress per path.                                   *)
OnePerPath == \A p, q \in Procs :
                 Active(p) /\ Active(q) /\ path(p) = path(q) => p = q

(* What each stage of a call may rely on.  Before the store path is cleared *)
(* it is unmarked; from then until the rename it is missing; the staging    *)
(* directory holds exactly the files written so far (cut short where the    *)
(* code could not see it), and a marker only once all of them are there.    *)
Written(p) == Holds(tmp[path(p)], want(p), FilesOf[want(p)] \ todo[p])

StageOK(p) ==
    /\ pc[p] \in {"verify", "clearDir"} => ~ Marked(dir[path(p)])
    /\ pc[p] \in {"clearTmp", "open", "extract", "marker", "publish"} => dir[path(p)] = NoDir
    /\ pc[p] \in {"clearDir", "clearTmp", "open"} /\ path(p) \notin InlinePaths
          => archive[path(p)] = want(p)
    /\ pc[p] = "open" => tmp[path(p)] = NoDir
    /\ pc[p] \in {"extract", "marker", "publish"} => tmp[path(p)].exists
    /\ pc[p] = "extract" => /\ buf[p] = want(p) /\ todo[p] \subseteq FilesOf[want(p)]
                            /\ Written(p)
    /\ pc[p] \in {"marker", "publish"} => Filled(tmp[path(p)], want(p))
    /\ pc[p] = "publish" => tmp[path(p)].marker \in {want(p), Torn}
    /\ pc[p] # "lost"
    /\ pc[p] = "discard" => res[p] \notin Successes

(* A marker is in an existing directory.                                    *)
MarkedExists == \A x \in Paths : Marked(dir[x]) => dir[x].exists

(* A path with a valid marker has the files of its content.                 *)
Complete == \A x \in Paths : Marked(dir[x]) => Filled(dir[x], dir[x].marker)

IInv == /\ TypeOK
        /\ OnePerPath
        /\ Complete
        /\ MarkedExists
        /\ \A p \in Procs : StageOK(p)

-----------------------------------------------------------------------------
(* A call works on a store path, for a content.                             *)
LEMMA JobType ==
    ASSUME TypeOK, NEW p \in Procs
    PROVE  path(p) \in Paths /\ want(p) \in Contents
BY StoreAssumption DEF TypeOK, path, want

(* remove_all never adds anything, and leaves the marker or removes it.     *)
LEMMA RemovalsType ==
    ASSUME NEW d \in Dir, NEW e \in Removals(d)
    PROVE  e \in Dir /\ e.marker \in {d.marker, None}
BY StoreAssumption DEF Dir, Removals

(* A missing directory has nothing to remove.                               *)
LEMMA NoDirIsEmpty == NoDir \in Dir /\ Removals(NoDir) = {} /\ ~ Marked(NoDir)
BY StoreAssumption DEF Dir, NoDir, Removals, Marked

(* How a staging directory is written to.                                   *)
LEMMA DirUpdates ==
    ASSUME NEW d \in Dir
    PROVE  /\ [d EXCEPT !.exists = TRUE] \in Dir
           /\ \A m \in Contents \cup {None, Torn} : [d EXCEPT !.marker = m] \in Dir
           /\ \A i \in Parts, c \in Contents \cup {None, Torn} :
                 [d EXCEPT !.exists = TRUE, !.file[i] = c] \in Dir
BY DEF Dir

(* A file lost when it was closed, and the mark that goes with it.          *)
LEMMA LoseTailFacts ==
    ASSUME NEW d \in Dir, NEW i \in Parts
    PROVE  /\ LoseTail(d, i) \in Dir
           /\ LoseTail(d, i).exists /\ LoseTail(d, i).lossy /\ LoseTail(d, i).file[i] = Torn
           /\ \A j \in Parts \ {i} : LoseTail(d, i).file[j] = d.file[j]
BY DEF Dir, LoseTail

(* Every action keeps the types.                                            *)
LEMMA TypeStep == TypeOK /\ [Next]_vars => TypeOK'
<1> SUFFICES ASSUME TypeOK, [Next]_vars PROVE TypeOK'
  OBVIOUS
<1> USE StoreAssumption DEF TypeOK, At, Goto, Return, Abandon, Mishap, Active,
        path, want, disk, Labels, Failures, Successes
<1>1. ASSUME NEW p \in Procs, NEW r \in Requests, Begin(p, r) PROVE TypeOK'
  BY <1>1 DEF Begin
<1>2. ASSUME NEW p \in Procs, Check(p) PROVE TypeOK'
  BY <1>2 DEF Check
<1>3. ASSUME NEW p \in Procs, Download(p) PROVE TypeOK'
  BY <1>3 DEF Download
<1>4. ASSUME NEW p \in Procs, Fetched(p) PROVE TypeOK'
  BY <1>4 DEF Fetched
<1>5. ASSUME NEW p \in Procs, FetchFails(p) PROVE TypeOK'
  BY <1>5 DEF FetchFails
<1>6. ASSUME NEW p \in Procs, VerifyDownload(p) PROVE TypeOK'
  BY <1>6 DEF VerifyDownload
<1>7. ASSUME NEW p \in Procs, Verify(p) PROVE TypeOK'
  BY <1>7 DEF Verify
<1>8. ASSUME NEW p \in Procs, ClearDir(p) PROVE TypeOK'
  <2>1. dir[path(p)] \in Dir /\ path(p) \in Paths
    OBVIOUS
  <2>2. dir' \in [Paths -> Dir]
    <3>1. ASSUME NEW d \in Removals(dir[path(p)]), dir' = [dir EXCEPT ![path(p)] = d]
          PROVE  dir' \in [Paths -> Dir]
      <4>1. d \in Dir
        BY <2>1, RemovalsType
      <4>2. QED
        BY <3>1, <4>1
    <3>2. QED
      BY <1>8, <3>1, NoDirIsEmpty, ZenonT(40) DEF ClearDir
  <2>3. QED
    BY <1>8, <2>2 DEF ClearDir
<1>9. ASSUME NEW p \in Procs, ClearTmp(p) PROVE TypeOK'
  <2>1. tmp[path(p)] \in Dir /\ path(p) \in Paths
    OBVIOUS
  <2>2. tmp' \in [Paths -> Dir]
    <3>1. ASSUME NEW d \in Removals(tmp[path(p)]), tmp' = [tmp EXCEPT ![path(p)] = d]
          PROVE  tmp' \in [Paths -> Dir]
      <4>1. d \in Dir
        BY <2>1, RemovalsType
      <4>2. QED
        BY <3>1, <4>1
    <3>2. QED
      BY <1>9, <3>1, NoDirIsEmpty DEF ClearTmp
  <2>3. QED
    BY <1>9, <2>2 DEF ClearTmp
<1>10. ASSUME NEW p \in Procs, Open(p) PROVE TypeOK'
  <2>1. path(p) \in Paths /\ want(p) \in Contents /\ tmp[path(p)] \in Dir
    OBVIOUS
  <2>2. CASE Abandon(p, "failed") /\ UNCHANGED <<buf, todo, tmp>>
    BY <1>10, <2>2 DEF Open
  <2>3. CASE \E c \in Contents :
                /\ buf' = [buf EXCEPT ![p] = c]
                /\ todo' = [todo EXCEPT ![p] = FilesOf[c]]
                /\ tmp' = [tmp EXCEPT ![path(p)] = [@ EXCEPT !.exists = TRUE]]
                /\ Goto(p, "extract")
                /\ UNCHANGED res
    <3>1. tmp' \in [Paths -> Dir]
      <4>1. [tmp[path(p)] EXCEPT !.exists = TRUE] \in Dir
        BY <2>1, DirUpdates
      <4>2. tmp' = [tmp EXCEPT ![path(p)] = [tmp[path(p)] EXCEPT !.exists = TRUE]]
        BY <2>1, <2>3
      <4>3. QED
        BY <4>1, <4>2
    <3>2. buf' \in [Procs -> Contents \cup {None}] /\ todo' \in [Procs -> SUBSET Parts]
      BY <2>3
    <3>3. QED
      BY <1>10, <2>3, <3>1, <3>2 DEF Open
  <2>4. QED
    BY <1>10, <2>2, <2>3 DEF Open
<1>11. ASSUME NEW p \in Procs, PutFile(p) PROVE TypeOK'
  <2>1. tmp' \in [Paths -> Dir]
    <3>1. tmp[path(p)] \in Dir /\ path(p) \in Paths
      OBVIOUS
    <3>2. PICK i \in todo[p] :
             \/ tmp' = [tmp EXCEPT ![path(p)] = [@ EXCEPT !.exists = TRUE, !.file[i] = buf[p]]]
             \/ tmp' = [tmp EXCEPT ![path(p)] = LoseTail(tmp[path(p)], i)]
      BY <1>11 DEF PutFile
    <3>3. i \in Parts /\ buf[p] \in Contents \cup {None, Torn}
      OBVIOUS
    <3>4. [tmp[path(p)] EXCEPT !.exists = TRUE, !.file[i] = buf[p]] \in Dir
      BY <3>1, <3>3, DirUpdates
    <3>5. LoseTail(tmp[path(p)], i) \in Dir
      BY <3>1, <3>3, LoseTailFacts
    <3>6. QED
      BY <3>1, <3>2, <3>4, <3>5
  <2>2. mishaps' \in 0 .. MaxMishaps
    BY <1>11 DEF PutFile
  <2>3. QED
    BY <1>11, <2>1, <2>2 DEF PutFile
<1>12. ASSUME NEW p \in Procs, PutFails(p) PROVE TypeOK'
  <2>1. tmp' \in [Paths -> Dir]
    <3>1. tmp[path(p)] \in Dir /\ path(p) \in Paths
      OBVIOUS
    <3>2. PICK i \in todo[p] : \E left \in {tmp[path(p)].file[i], Torn} :
             tmp' = [tmp EXCEPT ![path(p)] = [@ EXCEPT !.exists = TRUE, !.file[i] = left]]
      BY <1>12 DEF PutFails
    <3>3. PICK left \in {tmp[path(p)].file[i], Torn} :
             tmp' = [tmp EXCEPT ![path(p)] =
                       [tmp[path(p)] EXCEPT !.exists = TRUE, !.file[i] = left]]
      BY <3>1, <3>2
    <3>4. i \in Parts /\ left \in Contents \cup {None, Torn}
      BY <3>1 DEF Dir
    <3>5. [tmp[path(p)] EXCEPT !.exists = TRUE, !.file[i] = left] \in Dir
      BY <3>1, <3>4, DirUpdates
    <3>6. QED
      BY <3>1, <3>3, <3>5
  <2>2. QED
    BY <1>12, <2>1 DEF PutFails
<1>13. ASSUME NEW p \in Procs, Extracted(p) PROVE TypeOK'
  BY <1>13 DEF Extracted
<1>14. ASSUME NEW p \in Procs, WriteMarker(p) PROVE TypeOK'
  <2>1. tmp' \in [Paths -> Dir]
    <3>1. tmp[path(p)] \in Dir /\ path(p) \in Paths /\ want(p) \in Contents
      OBVIOUS
    <3>2. CASE UNCHANGED tmp
      BY <3>2
    <3>3. CASE \E m \in {want(p), Torn} : tmp' = [tmp EXCEPT ![path(p)] = [@ EXCEPT !.marker = m]]
      <4>1. PICK m \in {want(p), Torn} :
               tmp' = [tmp EXCEPT ![path(p)] = [tmp[path(p)] EXCEPT !.marker = m]]
        BY <3>1, <3>3
      <4>2. [tmp[path(p)] EXCEPT !.marker = m] \in Dir
        BY <3>1, DirUpdates
      <4>3. QED
        BY <4>1, <4>2
    <3>4. QED
      BY <1>14, <3>2, <3>3 DEF WriteMarker
  <2>2. CASE Abandon(p, "failed") /\ UNCHANGED mishaps
    BY <1>14, <2>1, <2>2 DEF WriteMarker
  <2>3. CASE Goto(p, "publish") /\ UNCHANGED res
    <3>1. mishaps' \in 0 .. MaxMishaps
      BY <1>14, <2>3 DEF WriteMarker
    <3>2. QED
      BY <1>14, <2>1, <2>3, <3>1 DEF WriteMarker
  <2>4. QED
    BY <1>14, <2>2, <2>3 DEF WriteMarker
<1>15. ASSUME NEW p \in Procs, Publish(p) PROVE TypeOK'
  BY <1>15, NoDirIsEmpty DEF Publish, Rename
<1>16. ASSUME NEW p \in Procs, PublishRefused(p) PROVE TypeOK'
  BY <1>16 DEF PublishRefused
<1>17. ASSUME NEW p \in Procs, LostRace(p) PROVE TypeOK'
  BY <1>17 DEF LostRace
<1>18. ASSUME NEW p \in Procs, Discard(p) PROVE TypeOK'
  <2>1. tmp[path(p)] \in Dir /\ path(p) \in Paths
    OBVIOUS
  <2>2. tmp' \in [Paths -> Dir]
    <3>1. ASSUME NEW d \in Removals(tmp[path(p)]), tmp' = [tmp EXCEPT ![path(p)] = d]
          PROVE  tmp' \in [Paths -> Dir]
      <4>1. d \in Dir
        BY <2>1, RemovalsType
      <4>2. QED
        BY <3>1, <4>1
    <3>2. QED
      BY <1>18, <3>1, NoDirIsEmpty DEF Discard
  <2>3. QED
    BY <1>18, <2>2 DEF Discard
<1>19. ASSUME NEW p \in Procs, Crash(p) PROVE TypeOK'
  BY <1>19 DEF Crash
<1>20. CASE UNCHANGED vars
  BY <1>20 DEF vars, local
<1>21. QED
  BY <1>1, <1>2, <1>3, <1>4, <1>5, <1>6, <1>7, <1>8, <1>9, <1>10, <1>11, <1>12, <1>13,
     <1>14, <1>15, <1>16, <1>17, <1>18, <1>19, <1>20 DEF Next, Step

(* However many processes run, fail and die, all state keeps its type.      *)
THEOREM TypeCorrect == Spec => []TypeOK
<1>1. Init => TypeOK
  BY StoreAssumption, NoDirIsEmpty DEF Init, TypeOK, Labels
<1>2. QED
  BY <1>1, TypeStep, PTL DEF Spec

-----------------------------------------------------------------------------
(* A step of p touches p's own variables and p's path, nothing else.        *)
Local(p) ==
    /\ Active(p)
    /\ job' = job
    /\ \A q \in Procs \ {p} : /\ pc'[q] = pc[q] /\ buf'[q] = buf[q]
                              /\ todo'[q] = todo[q] /\ res'[q] = res[q]
    /\ \A x \in Paths \ {path(p)} : /\ dir'[x] = dir[x] /\ tmp'[x] = tmp[x]
                                    /\ archive'[x] = archive[x]

(* Every step of a call, and its death, is local to it.                     *)
LEMMA StepIsLocal ==
    ASSUME TypeOK, NEW p \in Procs, Step(p) \/ Crash(p)
    PROVE  Local(p)
<1> USE DEF TypeOK, Local, Active, At, Goto, Return, Abandon, path, disk
<1>1. CASE Check(p) \/ Verify(p) \/ Extracted(p)
  BY <1>1 DEF Check, Verify, Extracted
<1>2. CASE Download(p) \/ Fetched(p) \/ FetchFails(p) \/ VerifyDownload(p)
  BY <1>2 DEF Download, Fetched, FetchFails, VerifyDownload
<1>3. CASE ClearDir(p)
  BY <1>3 DEF ClearDir
<1>4. CASE ClearTmp(p) \/ Discard(p)
  BY <1>4 DEF ClearTmp, Discard
<1>5. CASE Open(p)
  BY <1>5 DEF Open
<1>6. CASE PutFile(p) \/ PutFails(p)
  BY <1>6 DEF PutFile, PutFails
<1>7. CASE WriteMarker(p)
  BY <1>7 DEF WriteMarker
<1>8. CASE Publish(p)
  BY <1>8 DEF Publish, Rename
<1>9. CASE PublishRefused(p) \/ LostRace(p) \/ Crash(p)
  BY <1>9 DEF PublishRefused, LostRace, Crash
<1>10. QED
  BY <1>1, <1>2, <1>3, <1>4, <1>5, <1>6, <1>7, <1>8, <1>9 DEF Step

(* So no other call's stage is disturbed.                                   *)
LEMMA Frame ==
    ASSUME TypeOK, OnePerPath, NEW p \in Procs, Local(p),
           NEW q \in Procs \ {p}, StageOK(q)
    PROVE  StageOK(q)'
<1>1. CASE ~ Active(q)
  BY <1>1 DEF Local, StageOK, Active
<1>2. CASE Active(q)
  <2>1. path(q) \in Paths \ {path(p)}
    BY <1>2, JobType DEF OnePerPath, Local
  <2>2. /\ dir'[path(q)] = dir[path(q)] /\ tmp'[path(q)] = tmp[path(q)]
        /\ archive'[path(q)] = archive[path(q)] /\ job'[q] = job[q]
        /\ pc'[q] = pc[q] /\ buf'[q] = buf[q] /\ todo'[q] = todo[q] /\ res'[q] = res[q]
    BY <2>1 DEF Local
  <2>3. QED
    BY <2>2 DEF StageOK, Marked, Filled, Holds, Written, path, want
<1>3. QED
  BY <1>1, <1>2

-----------------------------------------------------------------------------
(* What p's step does at p's own path: the stage's facts hold again, and a  *)
(* marker appears at the store path only over complete files.               *)
PathOK(p) == Marked(dir[path(p)]) => /\ Filled(dir[path(p)], dir[path(p)].marker)
                                     /\ dir[path(p)].exists

(* That is what each step, and a crash, of p achieves.                      *)
LEMMA StepKeepsStage ==
    ASSUME IInv, NEW p \in Procs, Step(p) \/ Crash(p)
    PROVE  StageOK(p)' /\ PathOK(p)'
<1>1. /\ path(p) \in Paths /\ want(p) \in Contents /\ StageOK(p) /\ PathOK(p)
      /\ path(p)' = path(p) /\ want(p)' = want(p)
      /\ dir[path(p)] \in Dir /\ tmp[path(p)] \in Dir /\ TypeOK
  <2>1. path(p) \in Paths /\ want(p) \in Contents
    BY JobType DEF IInv
  <2>2. QED
    BY <2>1, StepIsLocal DEF IInv, TypeOK, path, want, Local, Complete, MarkedExists,
                                PathOK
<1> USE <1>1, StoreAssumption DEF At, Goto, Return, Abandon, Successes, disk
<1>2. CASE Check(p)
  <2>1. CASE pc'[p] = "idle"
    BY <1>2, <2>1 DEF Check, StageOK, PathOK, Marked, Filled, Holds
  <2>2. CASE pc'[p] # "idle"
    <3>1. /\ CacheState(dir[path(p)], want(p)) = "Absent"
          /\ pc' = [pc EXCEPT ![p] = IF pc[p] = "recheck" THEN "verify"
                                     ELSE IF path(p) \in InlinePaths THEN "clearDir"
                                     ELSE "download"]
      BY <1>2, <2>2 DEF Check, TypeOK
    <3>2. ~ Marked(dir[path(p)])
      BY <3>1 DEF CacheState, Marked
    <3>3. QED
      BY <1>2, <3>1, <3>2 DEF Check, StageOK, PathOK, Marked, Filled, Holds, TypeOK
  <2>3. QED
    BY <2>1, <2>2
<1>3. CASE Download(p) \/ Fetched(p) \/ FetchFails(p) \/ VerifyDownload(p)
  <2>1. CASE Download(p)
    BY <2>1 DEF Download, StageOK, PathOK, Marked, Filled, Holds, TypeOK
  <2>2. CASE Fetched(p)
    BY <2>2 DEF Fetched, StageOK, PathOK, Marked, Filled, Holds, TypeOK
  <2>3. CASE FetchFails(p)
    BY <2>3 DEF FetchFails, StageOK, PathOK, Marked, Filled, Holds, TypeOK
  <2>4. CASE VerifyDownload(p)
    BY <2>4 DEF VerifyDownload, StageOK, PathOK, Marked, Filled, Holds, TypeOK
  <2>5. QED
    BY <1>3, <2>1, <2>2, <2>3, <2>4
<1>4. CASE Verify(p)
  BY <1>4 DEF Verify, StageOK, PathOK, Marked, Filled, Holds, TypeOK
<1>5. CASE ClearDir(p)
  <2>1. CASE \E d \in Removals(dir[path(p)]) :
                dir' = [dir EXCEPT ![path(p)] = d] /\ UNCHANGED pc
    <3>1. ~ Marked(dir'[path(p)])
      BY <1>5, <2>1, RemovalsType DEF StageOK, Marked, TypeOK, ClearDir
    <3>2. QED
      BY <1>5, <2>1, <3>1 DEF ClearDir, StageOK, PathOK, TypeOK, Marked
  <2>2. CASE dir' = [dir EXCEPT ![path(p)] = NoDir] /\ Goto(p, "clearTmp")
    BY <1>5, <2>2, NoDirIsEmpty DEF ClearDir, StageOK, PathOK, TypeOK, Marked
  <2>3. QED
    BY <1>5, <2>1, <2>2 DEF ClearDir
<1>6. CASE ClearTmp(p)
  BY <1>6 DEF ClearTmp, StageOK, PathOK, Marked, Filled, Holds, TypeOK
<1>7. CASE Open(p)
  <2>1. CASE Abandon(p, "failed") /\ UNCHANGED <<buf, todo, tmp>>
    BY <1>7, <2>1 DEF Open, StageOK, PathOK, Marked, Filled, Holds, TypeOK
  <2>2. CASE ~ (Abandon(p, "failed") /\ UNCHANGED <<buf, todo, tmp>>)
    <3>0. /\ (IF path(p) \in InlinePaths THEN want(p) ELSE archive[path(p)]) = want(p)
          /\ tmp[path(p)] = NoDir /\ dir[path(p)] = NoDir /\ dir' = dir
      BY <1>7 DEF Open, StageOK
    <3>1. /\ buf' = [buf EXCEPT ![p] = want(p)]
          /\ todo' = [todo EXCEPT ![p] = FilesOf[want(p)]]
          /\ tmp' = [tmp EXCEPT ![path(p)] = [@ EXCEPT !.exists = TRUE]]
          /\ pc' = [pc EXCEPT ![p] = "extract"]
      BY <1>7, <2>2, <3>0 DEF Open
    <3>2. /\ buf'[p] = want(p) /\ todo'[p] = FilesOf[want(p)]
          /\ pc'[p] = "extract" /\ dir' = dir
          /\ tmp'[path(p)] = [NoDir EXCEPT !.exists = TRUE]
          /\ dir[path(p)] = NoDir
      BY <3>0, <3>1 DEF TypeOK
    <3>3. tmp'[path(p)].exists /\ Written(p)'
      BY <3>2 DEF NoDir, Written, Holds
    <3>4. QED
      BY <1>7, <3>2, <3>3, NoDirIsEmpty DEF Open, StageOK, PathOK
  <2>3. QED
    BY <2>1, <2>2
<1>8. CASE PutFile(p)
  <2>1. PICK i \in todo[p] :
           /\ \/ tmp' = [tmp EXCEPT ![path(p)] =
                            [@ EXCEPT !.exists = TRUE, !.file[i] = buf[p]]]
              \/ tmp' = [tmp EXCEPT ![path(p)] = LoseTail(tmp[path(p)], i)]
           /\ todo' = [todo EXCEPT ![p] = @ \ {i}]
    BY <1>8 DEF PutFile
  <2>2. /\ i \in Parts /\ i \in FilesOf[want(p)] /\ todo[p] \subseteq FilesOf[want(p)]
        /\ Written(p) /\ buf[p] = want(p)
    BY <1>8 DEF PutFile, StageOK, TypeOK
  <2>3. todo'[p] = todo[p] \ {i}
    BY <2>1 DEF TypeOK
  <2>4. PICK d \in Dir : d = tmp[path(p)]
    OBVIOUS
  <2>5. /\ tmp'[path(p)].exists
        /\ \A j \in Parts \ {i} : tmp'[path(p)].file[j] = d.file[j]
        /\ \/ tmp'[path(p)].file[i] = want(p) /\ tmp'[path(p)].lossy = d.lossy
           \/ tmp'[path(p)].file[i] = Torn /\ tmp'[path(p)].lossy
    <3>1. CASE tmp' = [tmp EXCEPT ![path(p)] =
                         [@ EXCEPT !.exists = TRUE, !.file[i] = buf[p]]]
      <4>1. tmp'[path(p)] = [d EXCEPT !.exists = TRUE, !.file[i] = want(p)]
        BY <2>2, <2>4, <3>1 DEF TypeOK
      <4>2. QED
        BY <2>2, <4>1 DEF Dir
    <3>2. CASE tmp' = [tmp EXCEPT ![path(p)] = LoseTail(tmp[path(p)], i)]
      <4>1. tmp'[path(p)] = LoseTail(d, i)
        BY <2>4, <3>2 DEF TypeOK
      <4>2. QED
        BY <2>2, <2>4, <4>1, LoseTailFacts
    <3>3. QED
      BY <2>1, <3>1, <3>2
  <2>6. Written(p)'
    BY <2>2, <2>3, <2>4, <2>5 DEF Written, Holds
  <2>7. QED
    BY <1>8, <2>2, <2>3, <2>5, <2>6 DEF PutFile, StageOK, PathOK
<1>9. CASE PutFails(p) \/ Crash(p)
  <2>1. CASE PutFails(p)
    BY <2>1 DEF PutFails, StageOK, PathOK, Marked, Filled, Holds, TypeOK
  <2>2. CASE Crash(p)
    BY <2>2 DEF Crash, StageOK, PathOK, Marked, Filled, Holds, TypeOK
  <2>3. QED
    BY <1>9, <2>1, <2>2
<1>10. CASE Extracted(p)
  <2>1. Filled(tmp[path(p)], want(p)) /\ tmp' = tmp /\ dir' = dir
    BY <1>10 DEF Extracted, StageOK, Filled, Written, Holds
  <2>2. QED
    BY <1>10, <2>1 DEF Extracted, StageOK, PathOK, Filled, Holds, TypeOK
<1>11. CASE WriteMarker(p)
  <2>1. PICK m \in {want(p), Torn} :
           /\ tmp' = [tmp EXCEPT ![path(p)] = [@ EXCEPT !.marker = m]]
           /\ pc' = [pc EXCEPT ![p] = "publish"]
    BY <1>11 DEF WriteMarker, StageOK
  <2>2. /\ tmp'[path(p)] = [tmp[path(p)] EXCEPT !.marker = m]
        /\ pc'[p] = "publish" /\ dir' = dir
    BY <1>11, <2>1 DEF WriteMarker, TypeOK
  <2>3. /\ tmp'[path(p)].exists = tmp[path(p)].exists
        /\ tmp'[path(p)].file = tmp[path(p)].file /\ tmp'[path(p)].marker = m
        /\ tmp'[path(p)].lossy = tmp[path(p)].lossy
    BY <2>2 DEF Dir
  <2>4. QED
    BY <1>11, <2>2, <2>3 DEF WriteMarker, StageOK, PathOK, Filled, Holds
<1>12. CASE Publish(p)
  <2>1. dir'[path(p)] = tmp[path(p)] /\ pc'[p] = "idle"
    BY <1>12 DEF Publish, Rename, TypeOK
  <2>2. PathOK(p)'
    BY <1>12, <2>1 DEF Publish, StageOK, PathOK, Marked, Filled, Holds
  <2>3. QED
    BY <2>1, <2>2 DEF StageOK
<1>13. CASE PublishRefused(p) \/ LostRace(p)
  BY <1>13, NoDirIsEmpty DEF PublishRefused, LostRace, CanRename, StageOK
<1>14. CASE Discard(p)
  BY <1>14 DEF Discard, StageOK, PathOK, Marked, Filled, Holds, TypeOK
<1>15. QED
  BY <1>2, <1>3, <1>4, <1>5, <1>6, <1>7, <1>8, <1>9, <1>10, <1>11, <1>12, <1>13, <1>14
  DEF Step

-----------------------------------------------------------------------------
(* Every step of the serialized protocol keeps the strengthened invariant.  *)
LEMMA SerialStep ==
    ASSUME IInv, [SerialNext]_vars
    PROVE  IInv'
<1>1. TypeOK'
  BY TypeStep DEF IInv, SerialNext, Next
<1>2. ASSUME NEW p \in Procs, Step(p) \/ Crash(p) PROVE IInv'
  <2>1. Local(p)
    BY <1>2, StepIsLocal DEF IInv
  <2>2. OnePerPath'
    BY <2>1 DEF IInv, OnePerPath, Local, Active, path
  <2>3. \A q \in Procs : StageOK(q)'
    BY <1>2, <2>1, Frame, StepKeepsStage DEF IInv
  <2>4. Complete' /\ MarkedExists'
    <3>1. PathOK(p)' /\ path(p)' = path(p)
      BY <1>2, <2>1, StepKeepsStage DEF Local, path
    <3>2. QED
      BY <2>1, <3>1 DEF IInv, Complete, MarkedExists, PathOK, Local, Marked, Filled, Holds
  <2>5. QED
    BY <1>1, <2>2, <2>3, <2>4 DEF IInv
<1>3. ASSUME NEW p \in Procs, NEW r \in Requests, Unclaimed(r.path), Begin(p, r) PROVE IInv'
  <2>1. /\ pc[p] = "idle" /\ pc'[p] = "check" /\ job'[p] = r
        /\ UNCHANGED <<dir, tmp, archive, buf, todo>>
        /\ \A q \in Procs \ {p} : pc'[q] = pc[q] /\ job'[q] = job[q] /\ res'[q] = res[q]
    BY <1>3 DEF Begin, At, Goto, IInv, TypeOK, disk
  <2>2. OnePerPath'
    BY <1>3, <2>1 DEF IInv, OnePerPath, Unclaimed, Active, path
  <2>3. StageOK(p)'
    BY <2>1 DEF StageOK
  <2>4. ASSUME NEW q \in Procs \ {p} PROVE StageOK(q)'
    BY <2>1 DEF IInv, StageOK, Marked, Filled, Holds, Written, path, want
  <2>5. Complete' /\ MarkedExists'
    BY <2>1 DEF IInv, Complete, MarkedExists, Marked, Filled, Holds
  <2>6. QED
    BY <1>1, <2>2, <2>3, <2>4, <2>5 DEF IInv
<1>4. CASE UNCHANGED vars
  BY <1>4 DEF vars, disk, local, IInv, TypeOK, OnePerPath, Complete, MarkedExists,
              StageOK,
              Active, path, want, Marked, Filled, Holds, Written
<1>5. QED
  BY <1>2, <1>3, <1>4 DEF SerialNext

(* The strengthened invariant holds whatever crashes and failures occur.    *)
THEOREM SerialInvariant == SerialSpec => []IInv
<1>1. Init => IInv
  <2>1. Init => TypeOK
    BY StoreAssumption, NoDirIsEmpty DEF Init, TypeOK, Labels
  <2>2. Init => OnePerPath /\ Complete /\ MarkedExists /\ \A p \in Procs : StageOK(p)
    BY StoreAssumption, NoDirIsEmpty
    DEF Init, OnePerPath, Complete, MarkedExists, StageOK, Active
  <2>3. QED
    BY <2>1, <2>2 DEF IInv
<1>2. QED
  BY <1>1, SerialStep, PTL DEF SerialSpec

(* With one process per path, a valid marker is only ever seen over all the *)
(* files of the content it names and no others, each of them whole unless   *)
(* an error came when its stream was closed, too late for the code to see.  *)
THEOREM MarkedCompleteHolds == SerialSpec => []MarkedIsComplete
<1>1. IInv => MarkedIsComplete
  BY DEF IInv, Complete, MarkedIsComplete
<1>2. QED
  BY <1>1, SerialInvariant, PTL

(* Only ClearDir and Publish write a store path, both only an unmarked one. *)
LEMMA MarkedUntouched ==
    ASSUME IInv, [SerialNext]_vars, NEW x \in Paths, Marked(dir[x])
    PROVE  dir'[x] = dir[x]
<1>1. ASSUME NEW p \in Procs, Step(p) \/ Crash(p), x = path(p) PROVE dir'[x] = dir[x]
  <2>1. StageOK(p)
    BY DEF IInv
  <2>2. ~ ClearDir(p) /\ ~ Publish(p)
    BY <1>1, <2>1, NoDirIsEmpty DEF StageOK, ClearDir, Publish, At
  <2>3. QED
    BY <1>1, <2>2
    DEF Step, Check, Download, Fetched, FetchFails, VerifyDownload, Verify, ClearTmp, Open,
        PutFile, PutFails, Extracted, WriteMarker, PublishRefused, LostRace, Discard, Crash,
        disk
<1>2. ASSUME NEW p \in Procs, Step(p) \/ Crash(p), x # path(p) PROVE dir'[x] = dir[x]
  BY <1>2, StepIsLocal DEF IInv, Local
<1>3. QED
  BY <1>1, <1>2 DEF SerialNext, Begin, vars, disk

(* With one process per path, a published path is never modified again.     *)
THEOREM PublishedImmutableHolds == SerialSpec => PublishedIsImmutable
<1>1. IInv /\ [SerialNext]_vars
        => [\A x \in Paths : Marked(dir[x]) => dir'[x] = dir[x]]_vars
  BY MarkedUntouched
<1>2. QED
  BY <1>1, SerialInvariant, PTL DEF SerialSpec, PublishedIsImmutable

(* With one process per path, success is only reported over all the files   *)
(* of the requested content and no others, whole up to the same late error. *)
THEOREM SuccessCompleteHolds == SerialSpec => SuccessIsComplete
<1>1. ASSUME IInv, Next, NEW p \in Procs,
             Active(p), pc'[p] = "idle", res'[p] \in Successes
      PROVE  dir'[path(p)].exists /\ Filled(dir'[path(p)], want(p))
  <2>1. StageOK(p) /\ TypeOK /\ path(p) \in Paths /\ want(p) \in Contents
    BY <1>1, JobType DEF IInv
  <2>2. Check(p) \/ Publish(p) \/ Discard(p)
    <3>1. Step(p) \/ Crash(p)
      <4>1. ASSUME NEW q \in Procs, q # p,
                   Step(q) \/ Crash(q) \/ \E r \in Requests : Begin(q, r)
            PROVE  pc'[p] = pc[p]
        BY <2>1, <4>1, StepIsLocal DEF Local, Begin, Goto, TypeOK
      <4>2. QED
        BY <1>1, <4>1 DEF Next, Begin, At, Active
    <3>2. /\ ~ Download(p) /\ ~ Fetched(p) /\ ~ ClearDir(p) /\ ~ ClearTmp(p) /\ ~ Open(p)
          /\ ~ PutFile(p) /\ ~ PutFails(p) /\ ~ Extracted(p) /\ ~ WriteMarker(p)
          /\ ~ PublishRefused(p) /\ ~ LostRace(p)
      BY <1>1, <2>1
      DEF Download, Fetched, ClearDir, ClearTmp, Open, PutFile, PutFails, Extracted,
          WriteMarker, PublishRefused, LostRace, Goto, Abandon, At, TypeOK
    <3>3. ~ FetchFails(p) /\ ~ VerifyDownload(p) /\ ~ Verify(p) /\ ~ Crash(p)
      BY <1>1, <2>1, StoreAssumption
      DEF FetchFails, VerifyDownload, Verify, Crash, Goto, Return, At, TypeOK, Successes
    <3>4. QED
      BY <3>1, <3>2, <3>3 DEF Step
  <2>3. CASE Check(p)
    <3>1. CacheState(dir[path(p)], want(p)) = "Hit" /\ dir' = dir
      BY <1>1, <2>1, <2>3 DEF Check, Goto, Return, At, TypeOK, Successes, disk
    <3>2. Marked(dir[path(p)]) /\ dir[path(p)].marker = want(p)
      BY <3>1 DEF CacheState, Marked
    <3>3. Filled(dir[path(p)], want(p))
      BY <1>1, <2>1, <3>2 DEF IInv, Complete
    <3>4. dir[path(p)].exists
      BY <1>1, <2>1, <3>2 DEF IInv, MarkedExists
    <3>5. QED
      BY <3>1, <3>3, <3>4
  <2>4. CASE Publish(p)
    BY <2>1, <2>4 DEF Publish, Rename, At, StageOK, TypeOK, Filled, Holds
  <2>5. CASE Discard(p)
    BY <1>1, <2>1, <2>5 DEF Discard, At, StageOK
  <2>6. QED
    BY <2>2, <2>3, <2>4, <2>5
<1>2. IInv /\ [SerialNext]_vars
        => [\A p \in Procs : Active(p) /\ pc'[p] = "idle" /\ res'[p] \in Successes
              => dir'[path(p)].exists /\ Filled(dir'[path(p)], want(p))]_vars
  BY <1>1 DEF SerialNext, Next
<1>3. QED
  BY <1>2, SerialInvariant, PTL DEF SerialSpec, SuccessIsComplete

-----------------------------------------------------------------------------
(* Seen through its markers, the store is a family of write-once registers. *)
THEOREM StoreRefinesContentStore == SerialSpec => ImplementsContentStore
<1>1. Init => Abs!Init
  BY NoDirIsEmpty DEF Init, Abs!Init, Registers
<1>2. ASSUME IInv, [SerialNext]_vars PROVE [Abs!Next]_Registers
  <2>1. ASSUME NEW p \in Procs, Publish(p) PROVE [Abs!Next]_Registers
    <3>1. /\ StageOK(p) /\ path(p) \in Paths /\ want(p) \in Contents
          /\ dir \in [Paths -> Dir] /\ job[p] \in Requests
      BY <1>2, JobType DEF IInv, TypeOK
    <3>2. /\ ~ Marked(dir[path(p)]) /\ tmp[path(p)].marker \in {want(p), Torn}
          /\ dir' = [dir EXCEPT ![path(p)] = tmp[path(p)]]
      BY <2>1, <3>1, NoDirIsEmpty DEF Publish, Rename, At, StageOK
    <3>3. CASE tmp[path(p)].marker = want(p)
      <4>1. Registers[path(p)] = None
        BY <3>1, <3>2 DEF Registers
      <4>2. Registers' = [Registers EXCEPT ![path(p)] = want(p)]
        BY <3>1, <3>2, <3>3 DEF Registers, Marked
      <4>3. Abs!Realize(job[p])
        BY <4>1, <4>2 DEF Abs!Realize, path, want
      <4>4. QED
        BY <3>1, <4>3 DEF Abs!Next
    <3>4. CASE tmp[path(p)].marker = Torn
      BY <3>1, <3>2, <3>4, StoreAssumption DEF Registers, Marked
    <3>5. QED
      BY <3>2, <3>3, <3>4
  <2>2. ASSUME NEW p \in Procs, ClearDir(p) PROVE UNCHANGED Registers
    <3>1. /\ StageOK(p) /\ path(p) \in Paths /\ dir[path(p)] \in Dir /\ dir \in [Paths -> Dir]
      BY <1>2, JobType DEF IInv, TypeOK
    <3>2. ~ Marked(dir[path(p)]) /\ ~ Marked(dir'[path(p)])
      BY <2>2, <3>1, RemovalsType, NoDirIsEmpty, StoreAssumption
      DEF ClearDir, At, StageOK, Marked
    <3>3. \A x \in Paths : x # path(p) => dir'[x] = dir[x]
      BY <2>2, <3>1 DEF ClearDir
    <3>4. QED
      BY <3>2, <3>3 DEF Registers, Marked
  <2>3. CASE UNCHANGED dir
    BY <2>3 DEF Registers, Marked
  <2>4. QED
    BY <1>2, <2>1, <2>2, <2>3
    DEF SerialNext, Step, Check, Download, Fetched, FetchFails, VerifyDownload, Verify,
        ClearTmp, Open, PutFile, PutFails, Extracted, WriteMarker, PublishRefused, LostRace,
        Discard, Crash, Begin, disk, vars
<1>3. QED
  BY <1>1, <1>2, SerialInvariant, PTL DEF SerialSpec, ImplementsContentStore, Abs!Spec
=============================================================================
