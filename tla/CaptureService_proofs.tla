----------------------- MODULE CaptureService_proofs -----------------------
(***************************************************************************)
(* Proofs that the task bookkeeping of CaptureService is right for any     *)
(* number of concurrent tasks and any MaxHistoryTasks, with stops,         *)
(* monitors that outlive their task, shutdown and restart at any time, and *)
(* that the clean-up of files spares the capture under way.                *)
(***************************************************************************)
EXTENDS CaptureService, SequenceTheorems, FiniteSetTheorems, TLAPS

(* The inductive invariant.  While the service runs, being the active      *)
(* capture and being between beginCapture and endCapture are the same; a   *)
(* task that shutdown() stripped of `active' is still capturing, so only   *)
(* one direction survives shutdown.  The history refers to finished tasks  *)
(* only, whose status no step changes any more.  Of the finished tasks in  *)
(* s.tasks there are few when the last recordHistory is over, as each has  *)
(* a snapshot then; later there are only fewer.                            *)
ActiveCaptures == \A t \in Tasks : active = t => Capturing(t)

StatusFollows ==
  \A t \in Tasks :
    /\ at[t] = "returned" => result[t] \in Results
    /\ at[t] \in {"judged"} \cup Over => status[t] \in Final

TasksFew == TasksBounded /\ IsFiniteSet(Finished)

TaskInv == /\ TypeOK /\ SingleCapture /\ ActiveCaptures /\ StatusFollows
           /\ HistoryFinal /\ TasksFew

(* The files and the clean-ups under way are left alone by most steps.     *)
USE DEF fileVars

(* Newest keeps a prefix, of at most k snapshots.                          *)
LEMMA NewestPrefix ==
  ASSUME NEW S, NEW h \in Seq(S), NEW k \in Nat
  PROVE  /\ Newest(h, k) \in Seq(S)
         /\ Len(Newest(h, k)) <= k
         /\ Len(Newest(h, k)) <= Len(h)
         /\ \A i \in 1 .. Len(Newest(h, k)) : Newest(h, k)[i] = h[i]
<1>1. CASE k <= Len(h)
  <2>1. Newest(h, k) = SubSeq(h, 1, k)
    BY <1>1 DEF Newest
  <2>2. /\ SubSeq(h, 1, k) \in Seq(S)
        /\ Len(SubSeq(h, 1, k)) = k
        /\ \A i \in 1 .. k : SubSeq(h, 1, k)[i] = h[i]
    BY <1>1
  <2> QED
    BY <1>1, <2>1, <2>2
<1>2. CASE ~(k <= Len(h))
  <2>1. Newest(h, k) = SubSeq(h, 1, Len(h))
    BY <1>2 DEF Newest
  <2>2. /\ SubSeq(h, 1, Len(h)) \in Seq(S)
        /\ Len(SubSeq(h, 1, Len(h))) = Len(h)
        /\ \A i \in 1 .. Len(h) : SubSeq(h, 1, Len(h))[i] = h[i]
    OBVIOUS
  <2> QED
    BY <1>2, <2>1, <2>2
<1> QED
  BY <1>1, <1>2

(* An empty history names no task.                                         *)
LEMMA EmptyHistory ==
  /\ <<>> \in Seq([id : Tasks, status : Final])
  /\ Len(<<>>) = 0
OBVIOUS

(* An empty directory. *)
LEMMA EmptyDirectory ==
  ASSUME Init
  PROVE  /\ DOMAIN files = {}
         /\ files \in [{} -> SUBSET {}]
BY DEF Init

(* A history names at most as many tasks as it is long.                    *)
LEMMA IdsFew ==
  ASSUME NEW S, NEW h \in Seq(S)
  PROVE  IsFiniteSet(Ids(h)) /\ Cardinality(Ids(h)) <= Len(h)
<1> DEFINE D == 1 .. Len(h)
           f == [i \in D |-> h[i].id]
<1>1. f \in Surjection(D, Ids(h))
  BY DEF Surjection, Ids
<1>2. IsFiniteSet(D) /\ Cardinality(D) = Len(h)
  <2>1. Len(h) \in Nat /\ 1 \in Int /\ Len(h) \in Int
    OBVIOUS
  <2>2. /\ IsFiniteSet(1 .. Len(h))
        /\ Cardinality(1 .. Len(h)) = IF 1 > Len(h) THEN 0 ELSE Len(h) - 1 + 1
    BY <2>1, FS_Interval
  <2> QED
    BY <2>1, <2>2
<1> HIDE DEF D, f
<1>3. IsFiniteSet(Ids(h)) /\ Cardinality(Ids(h)) <= Cardinality(D)
  BY <1>1, <1>2, FS_Surjection
<1> QED
  BY <1>2, <1>3

(* The history is a sequence, so it has a length.                          *)
LEMMA HistoryLength ==
  ASSUME TypeOK
  PROVE  Len(history) \in Nat
<1> DEFINE Snap == [id : Tasks, status : Final]
<1>1. history \in Seq(Snap)
  BY DEF TypeOK
<1> HIDE DEF Snap
<1> QED
  BY <1>1

(* Without new finished tasks the bound stays.                             *)
LEMMA FewerTasks ==
  ASSUME TasksFew, Finished' \subseteq Finished, TypeOK, Len(history') \in Nat,
         Len(history') <= Len(history)
  PROVE  TasksFew'
<1>1. /\ IsFiniteSet(Finished') /\ Cardinality(Finished') <= Cardinality(Finished)
      /\ Cardinality(Finished') \in Nat /\ Cardinality(Finished) \in Nat
  BY FS_Subset, FS_CardinalityType DEF TasksFew
<1>2. /\ Len(history) \in Nat /\ Len(history) <= MaxHistoryTasks
      /\ Cardinality(Finished) <= MaxHistoryTasks
  BY HistoryLength DEF TasksFew, TasksBounded
<1> QED
  BY <1>1, <1>2, ServiceAssumption DEF TasksFew, TasksBounded

(* A step that leaves the history alone and finishes no task.              *)
LEMMA SameHistory ==
  ASSUME TypeOK, TasksFew, Finished' \subseteq Finished, UNCHANGED history
  PROVE  TasksFew'
<1>1. Len(history') \in Nat /\ Len(history') <= Len(history)
  BY HistoryLength
<1> QED
  BY <1>1, FewerTasks

(* cleanupHistory keeps the newest snapshots and adds no task.             *)
LEMMA CleanUpKeeps ==
  ASSUME NEW S, NEW h \in Seq(S), NEW known, NEW young \in Nat,
         CleanUp(h, known, young)
  PROVE  /\ history' \in Seq(S)
         /\ Len(history') <= Len(h)
         /\ \A i \in 1 .. Len(history') : history'[i] = h[i]
         /\ tasks' \subseteq known
<1>1. PICK k \in young .. Len(h) : \E m \in k .. Len(h) :
        /\ history' = Newest(h, k)
        /\ tasks' = known \ {h[i].id : i \in m + 1 .. Len(h)}
  BY DEF CleanUp
<1>2. k \in Nat
  OBVIOUS
<1>3. history' = Newest(h, k) /\ tasks' \subseteq known
  BY <1>1
<1> QED
  BY <1>2, <1>3, NewestPrefix

(* Every snapshot in the history is of a task.                             *)
LEMMA Snapshots ==
  ASSUME TypeOK, NEW i \in 1 .. Len(history)
  PROVE  history[i].id \in Tasks /\ history[i].status \in Final
<1> DEFINE Snap == [id : Tasks, status : Final]
<1>1. history \in Seq(Snap)
  BY DEF TypeOK
<1>2. history[i] \in Snap
  <2> HIDE DEF Snap
  <2> QED
    BY <1>1
<1> QED
  BY <1>2

(* Nothing is capturing and nothing is remembered at the start.            *)
LEMMA TaskInit == Init => TaskInv
<1> SUFFICES ASSUME Init PROVE TaskInv
  OBVIOUS
<1>1. TypeOK
  <2>1. DOMAIN files \subseteq Tasks /\ files \in [DOMAIN files -> SUBSET DOMAIN files]
    BY EmptyDirectory
  <2> QED
    BY <2>1, EmptyHistory, ServiceAssumption DEF Init, TypeOK, Places
<1>2. SingleCapture /\ ActiveCaptures /\ StatusFollows
  BY ServiceAssumption DEF Init, SingleCapture, ActiveCaptures, StatusFollows,
     Capturing, Over
<1>3. Len(history) = 0 /\ tasks = {}
  BY EmptyHistory DEF Init
<1>4. HistoryFinal /\ TasksFew
  <2>1. Finished = {}
    BY <1>3 DEF Finished
  <2> QED
    BY <1>3, <2>1, FS_EmptySet, ServiceAssumption
       DEF HistoryFinal, TasksFew, TasksBounded
<1> QED
  BY <1>1, <1>2, <1>4 DEF TaskInv

(* A step that leaves the tasks and the history alone, and only moves a    *)
(* task that is not yet ended to a place that is not ended, keeps the      *)
(* history final and the tasks bounded.                                    *)
LEMMA HistoryUntouched ==
  ASSUME TypeOK, HistoryFinal, TasksFew,
         UNCHANGED <<tasks, history>>,
         NEW t \in Tasks, at[t] \notin Over,
         at' = [at EXCEPT ![t] = at'[t]], at'[t] \notin Over,
         \A u \in Tasks \ {t} : status'[u] = status[u]
  PROVE  HistoryFinal' /\ TasksFew'
<1>1. \A i \in 1 .. Len(history) : history[i].id \in Tasks \ {t}
  BY Snapshots DEF HistoryFinal
<1>2. HistoryFinal'
  BY <1>1 DEF TypeOK, HistoryFinal
<1>3. Finished' \subseteq Finished
  BY DEF TypeOK, Finished
<1>4. TasksFew'
  BY <1>3, SameHistory
<1> QED
  BY <1>2, <1>4

(* A name nothing refers to any more begins anew: it is in no snapshot, so *)
(* making its task pending again contradicts none.                         *)
LEMMA newTaskStep ==
  ASSUME TaskInv, NEW t \in Tasks, newTask(t)
  PROVE  TaskInv'
<1> USE DEF TaskInv
<1>1. TypeOK'
  BY DEF TypeOK, newTask, Places
<1>2. (SingleCapture /\ ActiveCaptures /\ StatusFollows)'
  BY DEF TypeOK, newTask, Unreferenced, SingleCapture, ActiveCaptures,
     StatusFollows, Capturing, Over
<1>3. \A i \in 1 .. Len(history) : history[i].id \in Tasks \ {t}
  BY Snapshots DEF newTask, Unreferenced
<1>4. HistoryFinal'
  BY <1>3 DEF TypeOK, newTask, HistoryFinal
<1>5. TasksFew'
  <2>1. Finished' \subseteq Finished
    BY DEF TypeOK, newTask, Unreferenced, Finished, Over
  <2> QED
    BY <2>1, SameHistory DEF newTask
<1> QED
  BY <1>1, <1>2, <1>4, <1>5

(* A registered task is not finished, so s.tasks may hold it without a     *)
(* snapshot.                                                               *)
LEMMA registerTaskStep ==
  ASSUME TaskInv, NEW t \in Tasks, registerTask(t)
  PROVE  TaskInv'
<1> USE DEF TaskInv
<1>1. TypeOK'
  BY DEF TypeOK, registerTask, Move, Places, taskVars
<1>2. (SingleCapture /\ ActiveCaptures /\ StatusFollows)'
  BY DEF TypeOK, registerTask, Move, taskVars, SingleCapture, ActiveCaptures,
     StatusFollows, Capturing, Over
<1>3. \A i \in 1 .. Len(history) : history[i].id \in Tasks \ {t}
  BY Snapshots DEF HistoryFinal, registerTask, Move, Over
<1>4. HistoryFinal'
  BY <1>3 DEF TypeOK, registerTask, Move, taskVars, HistoryFinal
<1>5. TasksFew'
  <2>1. Finished' \subseteq Finished
    BY DEF TypeOK, registerTask, Move, Finished, Over
  <2> QED
    BY <2>1, SameHistory DEF registerTask
<1> QED
  BY <1>1, <1>2, <1>4, <1>5

(* The heart of OneCaptureAtATime: a task starts only when active is nil,  *)
(* and by the invariant nothing was capturing then.                        *)
LEMMA beginCaptureStep ==
  ASSUME TaskInv, NEW t \in Tasks, beginCapture(t)
  PROVE  TaskInv'
<1> USE DEF TaskInv
<1>1. TypeOK'
  BY ZenonT(60) DEF TypeOK, beginCapture, Move, Places, taskVars
<1>2. (SingleCapture /\ ActiveCaptures /\ StatusFollows)'
  <2>1. CASE active = NoTask /\ active' = t
    <3>1. /\ at' = [at EXCEPT ![t] = "running"] /\ at[t] = "registered"
          /\ status' = [status EXCEPT ![t] = "running"]
          /\ UNCHANGED <<server, result>>
      BY <2>1, ServiceAssumption DEF beginCapture, Move
    <3>2. SingleCapture'
      BY <2>1, <3>1, ServiceAssumption DEF TypeOK, SingleCapture, Capturing
    <3>3. ActiveCaptures'
      BY <2>1, <3>1 DEF TypeOK, ActiveCaptures, Capturing
    <3>4. StatusFollows'
      BY <2>1, <3>1 DEF TypeOK, StatusFollows, Over
    <3> QED
      BY <3>2, <3>3, <3>4
  <2>2. CASE active # NoTask
    BY <2>2, ZenonT(60) DEF TypeOK, beginCapture, Move, taskVars, SingleCapture,
       ActiveCaptures, StatusFollows, Capturing, Over
  <2> QED
    BY <2>1, <2>2 DEF beginCapture
<1>3. HistoryFinal' /\ TasksFew'
  BY HistoryUntouched, ZenonT(60) DEF TypeOK, Over, beginCapture, Move, taskVars
<1> QED
  BY <1>1, <1>2, <1>3

(* A refused task leaves s.tasks and was never capturing.                  *)
LEMMA dropTaskStep ==
  ASSUME TaskInv, NEW t \in Tasks, dropTask(t)
  PROVE  TaskInv'
<1> USE DEF TaskInv
<1>1. TypeOK'
  BY DEF TypeOK, dropTask, Move, Places, taskVars
<1>2. (SingleCapture /\ ActiveCaptures /\ StatusFollows)'
  BY DEF TypeOK, dropTask, Move, taskVars, SingleCapture, ActiveCaptures,
     StatusFollows, Capturing, Over
<1>3. \A i \in 1 .. Len(history) : history[i].id \in Tasks \ {t}
  BY Snapshots DEF HistoryFinal, dropTask, Move, Over
<1>4. HistoryFinal'
  BY <1>3 DEF TypeOK, dropTask, Move, taskVars, HistoryFinal
<1>5. TasksFew'
  <2>1. Finished' \subseteq Finished
    BY DEF TypeOK, dropTask, Move, Finished, Over
  <2> QED
    BY <2>1, SameHistory DEF dropTask
<1> QED
  BY <1>1, <1>2, <1>4, <1>5

(* When the child returns, the result finalizeTask will judge is known and *)
(* the task is still the active one.                                       *)
LEMMA CaptureContextStep ==
  ASSUME TaskInv, NEW t \in Tasks, CaptureContext(t)
  PROVE  TaskInv'
<1> USE DEF TaskInv
<1>0. PICK r \in Results : result' = [result EXCEPT ![t] = r]
  BY DEF CaptureContext, Possible
<1>1. TypeOK'
  BY <1>0 DEF TypeOK, CaptureContext, Move, Places
<1>2. (SingleCapture /\ ActiveCaptures /\ StatusFollows)'
  <2>1. /\ at[t] = "running" /\ at' = [at EXCEPT ![t] = "returned"]
        /\ at \in [Tasks -> Places] /\ result \in [Tasks -> Results \cup {"none"}]
        /\ UNCHANGED <<server, active, status>>
    BY DEF TypeOK, CaptureContext, Move
  <2>2. SingleCapture' /\ ActiveCaptures'
    BY <2>1 DEF SingleCapture, ActiveCaptures, Capturing
  <2>3. StatusFollows'
    BY <1>0, <2>1 DEF StatusFollows, Over
  <2> QED
    BY <2>2, <2>3
<1>3. HistoryFinal' /\ TasksFew'
  BY HistoryUntouched DEF TypeOK, Over, CaptureContext, Move
<1> QED
  BY <1>1, <1>2, <1>3

(* Every result leads to a final status, set while the task still occupies *)
(* the service.                                                            *)
LEMMA finalizeTaskStep ==
  ASSUME TaskInv, NEW t \in Tasks, finalizeTask(t)
  PROVE  TaskInv'
<1> USE DEF TaskInv
<1>0. StatusOf[result[t]] \in Final
  <2>1. result[t] \in {"cancelled", "error", "empty", "packets"}
    BY DEF StatusFollows, finalizeTask, Move, Results, StatusOf
  <2>2. /\ StatusOf.cancelled = "failed" /\ StatusOf.error = "failed"
        /\ StatusOf.empty = "completed" /\ StatusOf.packets = "completed"
    BY DEF StatusOf
  <2> QED
    BY <2>1, <2>2 DEF Final
<1>1. TypeOK'
  BY <1>0 DEF TypeOK, finalizeTask, Move, Places, StopCodes
<1>2. (SingleCapture /\ ActiveCaptures /\ StatusFollows)'
  BY <1>0, ZenonT(60) DEF TypeOK, finalizeTask, Move, SingleCapture, ActiveCaptures,
     StatusFollows, Capturing, Over
<1>3. HistoryFinal' /\ TasksFew'
  BY HistoryUntouched DEF TypeOK, Over, finalizeTask, Move
<1> QED
  BY <1>1, <1>2, <1>3

(* "completed" becomes "idle" before a snapshot is taken of it.            *)
LEMMA finalizeEmptyStep ==
  ASSUME TaskInv, NEW t \in Tasks, finalizeEmpty(t)
  PROVE  TaskInv'
<1> USE DEF TaskInv
<1>1. TypeOK'
  BY DEF TypeOK, finalizeEmpty, Move, Places, Final
<1>2. (SingleCapture /\ ActiveCaptures /\ StatusFollows)'
  BY ZenonT(60) DEF TypeOK, finalizeEmpty, Move, SingleCapture, ActiveCaptures,
     StatusFollows, Capturing, Final, Over
<1>3. HistoryFinal' /\ TasksFew'
  BY HistoryUntouched DEF TypeOK, Over, finalizeEmpty, Move
<1> QED
  BY <1>1, <1>2, <1>3

(* The one step that writes the history: the new snapshot is the task's    *)
(* final status, and what recordHistory keeps in s.tasks is either running *)
(* or among the snapshots it kept, of which there are at most              *)
(* MaxHistoryTasks.                                                        *)
LEMMA endCaptureStep ==
  ASSUME TaskInv, NEW t \in Tasks, endCapture(t)
  PROVE  TaskInv'
<1> USE DEF TaskInv
<1> DEFINE Snap == [id : Tasks, status : Final]
           new == [id |-> t, status |-> status[t]]
           h == <<new>> \o history
           all == Newest(h, MaxHistoryTasks)
           known == {u \in tasks : status[u] = "running" \/ u \in Ids(all)}
<1>1. CleanUp(all, known, 1)
  BY DEF endCapture
<1>2. new \in Snap /\ history \in Seq(Snap)
  BY DEF endCapture, Move, StatusFollows, TypeOK
<1>3. /\ h \in Seq(Snap)
      /\ Len(h) = Len(history) + 1
      /\ h[1] = new
      /\ \A i \in 1 .. Len(h) : i # 1 => h[i] = history[i - 1]
  <2> HIDE DEF new, Snap
  <2> QED
    BY <1>2
<1> HIDE DEF h
<1>4. /\ all \in Seq(Snap)
      /\ Len(all) <= MaxHistoryTasks
      /\ Len(all) <= Len(h)
      /\ \A i \in 1 .. Len(all) : all[i] = h[i]
  BY <1>3, NewestPrefix, ServiceAssumption
<1>5. Len(all) >= 1
  <2>1. Len(h) >= 1 /\ MaxHistoryTasks \in Nat /\ MaxHistoryTasks >= 1
    BY <1>2, <1>3, ServiceAssumption
  <2>2. all = SubSeq(h, 1, IF MaxHistoryTasks <= Len(h) THEN MaxHistoryTasks
                                                       ELSE Len(h))
    BY DEF Newest
  <2> QED
    BY <1>3, <2>1, <2>2
<1> HIDE DEF all
<1>6. /\ history' \in Seq(Snap)
      /\ Len(history') <= Len(all)
      /\ \A i \in 1 .. Len(history') : history'[i] = all[i]
      /\ tasks' \subseteq known
  <2> HIDE DEF known, Snap
  <2>1. 1 \in Nat
    OBVIOUS
  <2> QED
    BY <1>1, <1>4, <2>1, CleanUpKeeps
<1>7. /\ at[t] = "judged" /\ at' = [at EXCEPT ![t] = "ended"]
      /\ at \in [Tasks -> Places]
      /\ stopCode' = [stopCode EXCEPT ![t] = ""]
      /\ UNCHANGED <<server, status, result, cancelled, monitors, files, doomed>>
      /\ active' = IF active = t THEN NoTask ELSE active
  BY DEF endCapture, Move, TypeOK
<1>8. TypeOK'
  <2>1. /\ at' \in [Tasks -> Places] /\ tasks' \subseteq Tasks
        /\ active' \in Tasks \cup {NoTask}
        /\ stopCode' \in [Tasks -> StopCodes \cup {""}]
    BY <1>6, <1>7 DEF TypeOK, Places
  <2> QED
    BY <1>6, <1>7, <2>1 DEF TypeOK
<1>9. (SingleCapture /\ ActiveCaptures /\ StatusFollows)'
  BY <1>7, ServiceAssumption, ZenonT(60) DEF TypeOK, SingleCapture,
     ActiveCaptures, StatusFollows, Capturing, Over
<1>10. HistoryFinal'
  <2> SUFFICES ASSUME NEW i \in 1 .. Len(history')
               PROVE  /\ at'[history'[i].id] \in Over
                      /\ history'[i].status = status'[history'[i].id]
    BY DEF HistoryFinal
  <2>1. history'[i] = h[i] /\ i \in 1 .. Len(h)
    BY <1>3, <1>4, <1>6
  <2>2. CASE i = 1
    <3>1. history'[i].id = t /\ history'[i].status = status[t]
      BY <1>3, <2>1, <2>2
    <3>2. at'[t] = "ended" /\ status'[t] = status[t]
      BY <1>7
    <3> QED
      BY <3>1, <3>2 DEF Over
  <2>3. CASE i # 1
    <3>1. /\ i - 1 \in 1 .. Len(history)
          /\ history'[i] = history[i - 1]
      BY <1>2, <1>3, <2>1, <2>3
    <3>2. /\ history[i - 1].id \in Tasks
          /\ at[history[i - 1].id] \in Over
          /\ history[i - 1].status = status[history[i - 1].id]
      BY <3>1, Snapshots DEF HistoryFinal
    <3> QED
      BY <1>7, <3>1, <3>2 DEF Over
  <2> QED
    BY <2>2, <2>3
<1>11. Finished' \subseteq Ids(all)
  <2> SUFFICES ASSUME NEW u \in tasks', at'[u] \in Over
               PROVE  u \in Ids(all)
    BY DEF Finished
  <2>1. u \in Tasks /\ (status[u] = "running" \/ u \in Ids(all))
    BY <1>6 DEF TypeOK
  <2>2. at[u] \in {"judged"} \cup Over
    BY <1>7, <2>1
  <2>3. status[u] # "running"
    BY <2>1, <2>2 DEF StatusFollows, Final
  <2> QED
    BY <2>1, <2>3
<1>12. TasksFew'
  <2>1. IsFiniteSet(Ids(all)) /\ Cardinality(Ids(all)) <= Len(all)
    BY <1>4, IdsFew
  <2>2. /\ IsFiniteSet(Finished')
        /\ Cardinality(Finished') <= Cardinality(Ids(all))
        /\ Cardinality(Finished') \in Nat /\ Cardinality(Ids(all)) \in Nat
    BY <1>11, <2>1, FS_Subset, FS_CardinalityType
  <2>3. /\ Len(all) \in Nat /\ Len(history') \in Nat
        /\ Len(history') <= Len(all) /\ Len(all) <= MaxHistoryTasks
    BY <1>4, <1>6
  <2> QED
    BY <2>1, <2>2, <2>3, ServiceAssumption DEF TasksFew, TasksBounded
<1> QED
  BY <1>8, <1>9, <1>10, <1>12

(* Removing files leaves a directory of the files that are left.           *)
LEMMA WithoutTyped ==
  ASSUME TypeOK, NEW gone, files' = Without(gone)
  PROVE  /\ DOMAIN files' \subseteq Tasks
         /\ files' \in [DOMAIN files' -> SUBSET DOMAIN files']
BY DEF TypeOK, Without

(* A step of a task that is over, to another place where it is, changes   *)
(* nothing the history refers to.                                          *)
LEMMA OverStep ==
  ASSUME TaskInv, NEW t \in Tasks, at[t] \in Over, NEW to \in Over,
         at' = [at EXCEPT ![t] = to],
         UNCHANGED <<server, taskVars, cancelled, monitors, active, tasks, history>>,
         DOMAIN files' \subseteq Tasks,
         files' \in [DOMAIN files' -> SUBSET DOMAIN files'],
         doomed' \in [Tasks -> SUBSET Tasks]
  PROVE  TaskInv'
<1> USE DEF TaskInv
<1>1. TypeOK'
  BY DEF TypeOK, taskVars, Over, Places
<1>2. (SingleCapture /\ ActiveCaptures /\ StatusFollows)'
  BY ZenonT(60) DEF TypeOK, taskVars, SingleCapture, ActiveCaptures, StatusFollows,
     Capturing, Over
<1>3. HistoryFinal'
  BY Snapshots DEF TypeOK, taskVars, HistoryFinal
<1>4. TasksFew'
  <2>1. Finished' \subseteq Finished
    BY DEF TypeOK, Finished
  <2> QED
    BY <2>1, SameHistory
<1> QED
  BY <1>1, <1>2, <1>3, <1>4

(* The clean-up of files and closing done are such steps.                  *)
LEMMA closeDoneStep ==
  ASSUME TaskInv, NEW t \in Tasks,
         cleanupCaptureFiles(t) \/ removeFile(t) \/ closeDone(t)
  PROVE  TaskInv'
<1>0. /\ TypeOK /\ at \in [Tasks -> Places]
      /\ DOMAIN files \subseteq Tasks
      /\ files \in [DOMAIN files -> SUBSET DOMAIN files]
      /\ doomed \in [Tasks -> SUBSET Tasks]
  BY DEF TaskInv, TypeOK
<1>1. CASE cleanupCaptureFiles(t)
  <2>1. /\ at[t] = "ended" /\ at' = [at EXCEPT ![t] = "cleaning"]
        /\ UNCHANGED <<server, taskVars, cancelled, monitors, active, tasks,
                       history, files>>
    BY <1>1 DEF cleanupCaptureFiles, Move
  <2>2. doomed' \in [Tasks -> SUBSET Tasks]
    BY <1>0, <1>1 DEF cleanupCaptureFiles, Excess
  <2> QED
    BY <1>0, <2>1, <2>2, OverStep DEF Over
<1>2. CASE removeFile(t)
  <2>1. PICK u \in doomed[t] : /\ doomed' = [doomed EXCEPT ![t] = @ \ {u}]
                               /\ files' = Without({u}) \/ UNCHANGED files
    BY <1>2 DEF removeFile
  <2>2. /\ at[t] = "cleaning" /\ at' = [at EXCEPT ![t] = "cleaning"]
        /\ UNCHANGED <<server, taskVars, cancelled, monitors, active, tasks,
                       history>>
    BY <1>0, <1>2 DEF removeFile
  <2>3. /\ DOMAIN files' \subseteq Tasks
        /\ files' \in [DOMAIN files' -> SUBSET DOMAIN files']
    BY <1>0, <2>1, WithoutTyped
  <2>4. doomed' \in [Tasks -> SUBSET Tasks]
    BY <1>0, <2>1
  <2> QED
    BY <2>2, <2>3, <2>4, OverStep DEF Over
<1>3. CASE closeDone(t)
  <2>1. /\ at[t] = "cleaning" /\ at' = [at EXCEPT ![t] = "done"]
        /\ UNCHANGED <<server, taskVars, cancelled, monitors, active, tasks,
                       history, files, doomed>>
    BY <1>3 DEF closeDone, Move
  <2> QED
    BY <1>0, <2>1, OverStep DEF Over
<1> QED
  BY <1>1, <1>2, <1>3

(* Stopping touches the contexts and the stop codes only.                  *)
LEMMA CancelTyped ==
  ASSUME TypeOK, NEW code \in StopCodes, Cancel(code)
  PROVE  /\ stopCode' \in [Tasks -> StopCodes \cup {""}]
         /\ cancelled' \subseteq Tasks
BY DEF TypeOK, Cancel

(* A step that changes neither the places, the statuses and results nor    *)
(* active, the tasks and the history.                                      *)
LEMMA OnlyStopped ==
  ASSUME TaskInv, UNCHANGED <<server, at, status, result, active, tasks,
                              history, fileVars>>,
         stopCode' \in [Tasks -> StopCodes \cup {""}],
         cancelled' \subseteq Tasks, monitors' \subseteq Tasks
  PROVE  TaskInv'
<1> USE DEF TaskInv
<1>1. TypeOK'
  BY DEF TypeOK
<1>2. (SingleCapture /\ ActiveCaptures /\ StatusFollows)'
  BY DEF SingleCapture, ActiveCaptures, StatusFollows, Capturing
<1>3. HistoryFinal' /\ TasksFew'
  BY DEF HistoryFinal, TasksFew, TasksBounded, Finished
<1> QED
  BY <1>1, <1>2, <1>3

(* A stop by a client, or by the monitor of any task, also of one that has *)
(* ended, leaves the bookkeeping alone.                                    *)
LEMMA stopStep ==
  ASSUME TaskInv,
         stopCapture \/ \E t \in Tasks : stopCaptureByTaskID(t)
                                         \/ monitorCapture(t)
  PROVE  TaskInv'
<1>1. TypeOK
  BY DEF TaskInv
<1>2. /\ "CAPTURE_STOPPED" \in StopCodes
      /\ "CAPTURE_LIMIT" \in StopCodes
  BY DEF StopCodes
<1>3. CASE stopCapture
  BY <1>1, <1>2, <1>3, CancelTyped, OnlyStopped DEF stopCapture, TypeOK
<1>4. CASE \E t \in Tasks : stopCaptureByTaskID(t)
  BY <1>1, <1>2, <1>4, CancelTyped, OnlyStopped
     DEF stopCaptureByTaskID, TypeOK
<1>5. CASE \E t \in Tasks : monitorCapture(t)
  <2> PICK t \in Tasks : monitorCapture(t)
    BY <1>5
  <2>1. /\ stopCode' \in [Tasks -> StopCodes \cup {""}]
        /\ cancelled' \subseteq Tasks
    BY <1>1, <1>2, CancelTyped DEF monitorCapture, TypeOK
  <2>2. monitors' \subseteq Tasks
    BY <1>1 DEF monitorCapture, TypeOK
  <2> QED
    BY <2>1, <2>2, OnlyStopped DEF monitorCapture
<1> QED
  BY <1>3, <1>4, <1>5

(* What the TTL leaves in the history was final already, and no task comes *)
(* to s.tasks; one that is exactly as old as the TTL may stay there.       *)
LEMMA cleanupHistoryStep ==
  ASSUME TaskInv, cleanupHistory
  PROVE  TaskInv'
<1> USE DEF TaskInv
<1> DEFINE Snap == [id : Tasks, status : Final]
<1>1. history \in Seq(Snap)
  BY DEF TypeOK
<1>2. /\ history' \in Seq(Snap)
      /\ Len(history') <= Len(history)
      /\ \A i \in 1 .. Len(history') : history'[i] = history[i]
      /\ tasks' \subseteq tasks
  <2> HIDE DEF Snap
  <2>1. 0 \in Nat
    OBVIOUS
  <2> QED
    BY <1>1, <2>1, CleanUpKeeps DEF cleanupHistory
<1>3. UNCHANGED <<server, at, status, result, stopCode, cancelled, monitors,
                  active, files, doomed>>
  BY DEF cleanupHistory, taskVars
<1>4. TypeOK'
  BY <1>2, <1>3 DEF TypeOK
<1>5. (SingleCapture /\ ActiveCaptures /\ StatusFollows)'
  BY <1>3 DEF SingleCapture, ActiveCaptures, StatusFollows, Capturing
<1>6. HistoryFinal'
  <2> SUFFICES ASSUME NEW i \in 1 .. Len(history')
               PROVE  /\ at'[history'[i].id] \in Over
                      /\ history'[i].status = status'[history'[i].id]
    BY DEF HistoryFinal
  <2>1. i \in 1 .. Len(history) /\ history'[i] = history[i]
    BY <1>1, <1>2
  <2> QED
    BY <1>3, <2>1 DEF HistoryFinal
<1>7. TasksFew'
  <2>1. Finished' \subseteq Finished
    BY <1>2, <1>3 DEF Finished
  <2> QED
    BY <1>2, <2>1, FewerTasks
<1> QED
  BY <1>4, <1>5, <1>6, <1>7

(* shutdown() lets go of the active capture while it still runs:           *)
(* SingleCapture is claimed only of a serving service, and ActiveCaptures  *)
(* holds for no active capture.                                            *)
LEMMA shutdownStep ==
  ASSUME TaskInv, shutdown
  PROVE  TaskInv'
<1> USE DEF TaskInv
<1>1. /\ stopCode' \in [Tasks -> StopCodes \cup {""}]
      /\ cancelled' \subseteq Tasks
  BY CancelTyped DEF shutdown, StopCodes, TypeOK
<1>2. TypeOK'
  BY <1>1 DEF shutdown, TypeOK
<1>3. (SingleCapture /\ ActiveCaptures /\ StatusFollows)'
  BY ServiceAssumption DEF shutdown, SingleCapture, ActiveCaptures,
     StatusFollows
<1>4. HistoryFinal' /\ TasksFew'
  BY DEF shutdown, HistoryFinal, TasksFew, TasksBounded, Finished
<1> QED
  BY <1>2, <1>3, <1>4

(* A file that appears, changes or goes changes no task.                   *)
LEMMA fileStep ==
  ASSUME TaskInv, NEW t \in Tasks, WriteFile(t) \/ DeleteFile(t)
  PROVE  TaskInv'
<1> USE DEF TaskInv
<1>1. UNCHANGED <<server, at, status, result, stopCode, cancelled, monitors,
                  active, tasks, history, doomed>>
  BY DEF WriteFile, DeleteFile, taskVars
<1>2. /\ DOMAIN files' \subseteq Tasks
      /\ files' \in [DOMAIN files' -> SUBSET DOMAIN files']
  <2>1. CASE WriteFile(t)
    BY <2>1 DEF WriteFile, TypeOK
  <2>2. CASE DeleteFile(t)
    BY <2>2, WithoutTyped DEF DeleteFile
  <2> QED
    BY <2>1, <2>2
<1>3. TypeOK'
  BY <1>1, <1>2 DEF TypeOK
<1>4. (SingleCapture /\ ActiveCaptures /\ StatusFollows)'
  BY <1>1 DEF SingleCapture, ActiveCaptures, StatusFollows, Capturing
<1>5. HistoryFinal' /\ TasksFew'
  BY <1>1 DEF HistoryFinal, TasksFew, TasksBounded, Finished
<1> QED
  BY <1>3, <1>4, <1>5

(* A restarted service is a new one; the files stay.                       *)
LEMMA RestartStep == TaskInv /\ Restart => TaskInv'
<1> SUFFICES ASSUME TaskInv, Restart PROVE TaskInv'
  OBVIOUS
<1>1. TypeOK'
  BY EmptyHistory, ServiceAssumption DEF Restart, TaskInv, TypeOK, Places
<1>2. (SingleCapture /\ ActiveCaptures /\ StatusFollows)'
  BY ServiceAssumption DEF Restart, SingleCapture, ActiveCaptures,
     StatusFollows, Capturing, Over
<1>3. Len(history') = 0 /\ tasks' = {}
  BY EmptyHistory DEF Restart
<1>4. HistoryFinal' /\ TasksFew'
  <2>1. Finished' = {}
    BY <1>3 DEF Finished
  <2> QED
    BY <1>3, <2>1, FS_EmptySet, ServiceAssumption
       DEF HistoryFinal, TasksFew, TasksBounded
<1> QED
  BY <1>1, <1>2, <1>4 DEF TaskInv

(* Every step of the service preserves the invariant.                      *)
LEMMA TaskStep == TaskInv /\ [Next]_vars => TaskInv'
<1> SUFFICES ASSUME TaskInv, [Next]_vars PROVE TaskInv'
  OBVIOUS
<1>1. CASE \E t \in Tasks : newTask(t)
  BY <1>1, newTaskStep
<1>2. CASE \E t \in Tasks : Advance(t)
  BY <1>2, registerTaskStep, beginCaptureStep, dropTaskStep,
     CaptureContextStep, finalizeTaskStep, finalizeEmptyStep,
     endCaptureStep, closeDoneStep DEF Advance
<1>3. CASE \E t \in Tasks : monitorCapture(t) \/ stopCaptureByTaskID(t)
  BY <1>3, stopStep
<1>4. CASE stopCapture
  BY <1>4, stopStep
<1>5. CASE cleanupHistory
  BY <1>5, cleanupHistoryStep
<1>6. CASE shutdown
  BY <1>6, shutdownStep
<1>7. CASE Restart
  BY <1>7, RestartStep
<1>8. CASE \E t \in Tasks : WriteFile(t) \/ DeleteFile(t)
  BY <1>8, fileStep
<1>9. CASE UNCHANGED vars
  BY <1>9, OnlyStopped DEF vars, taskVars, TaskInv, TypeOK
<1> QED
  BY <1>1, <1>2, <1>3, <1>4, <1>5, <1>6, <1>7, <1>8, <1>9 DEF Next

(* The invariant holds in every behaviour of the service.                  *)
LEMMA TasksAreSound == Spec => []TaskInv
BY TaskInit, TaskStep, PTL DEF Spec

(* For any number of concurrent handlers, at most one capture runs, and it *)
(* is the one s.active names.                                              *)
THEOREM OneCaptureAtATime == Spec => []SingleCapture
<1>1. TaskInv => SingleCapture
  BY DEF TaskInv
<1> QED
  BY <1>1, TasksAreSound, PTL

(* A closed done channel means a final status and a service that is not    *)
(* kept busy by that task, after shutdown too.                             *)
THEOREM DoneAlwaysFinal == Spec => []DoneIsFinal
<1>1. TaskInv => DoneIsFinal
  BY DEF TaskInv, DoneIsFinal, ActiveCaptures, StatusFollows, Capturing, Over
<1> QED
  BY <1>1, TasksAreSound, PTL

(* The history holds final statuses only.                                  *)
THEOREM HistoryAlwaysFinal == Spec => []HistoryFinal
<1>1. TaskInv => HistoryFinal
  BY DEF TaskInv
<1> QED
  BY <1>1, TasksAreSound, PTL

(* s.tasks never holds more than MaxHistoryTasks finished tasks, for any   *)
(* MaxHistoryTasks and any number of captures, although the TTL may leave  *)
(* a task there whose snapshot it removed.                                 *)
THEOREM TasksStayBounded == Spec => []TasksBounded
<1>1. TaskInv => TasksBounded
  BY DEF TaskInv, TasksFew
<1> QED
  BY <1>1, TasksAreSound, PTL

(* The state of the service keeps its types, the graph of newer files      *)
(* included.                                                               *)
THEOREM ServiceTypes == Spec => []TypeOK
<1>1. TaskInv => TypeOK
  BY DEF TaskInv
<1> QED
  BY <1>1, TasksAreSound, PTL

(* The inductive invariant for the files: while the service runs, no file  *)
(* is newer than that of a task that is capturing, and a task that has not *)
(* begun has none.                                                         *)
FileInv ==
  /\ \A t \in Tasks : at[t] \in {"created", "registered", "refused"}
                        => t \notin DOMAIN files
  /\ server = "serving" =>
       \A t \in Tasks : Capturing(t) => \A u \in DOMAIN files : t \notin files[u]

(* A file that no other one is newer than is not in excess, whatever part  *)
(* of the directory was seen.                                              *)
LEMMA NewestStays ==
  ASSUME NEW t, NEW seen, \A u \in DOMAIN files : t \notin files[u]
  PROVE  t \notin Excess(seen)
<1>1. Newer(t) \cap seen = {}
  BY DEF Newer
<1>2. Cardinality(Newer(t) \cap seen) = 0
  BY <1>1, FS_EmptySet
<1> QED
  BY <1>2, ServiceAssumption DEF Excess

(* Removing files makes no file newer than it was.                         *)
LEMMA WithoutNewer ==
  ASSUME NEW gone, files' = Without(gone)
  PROVE  /\ DOMAIN files' = DOMAIN files \ gone
         /\ \A u \in DOMAIN files' : files'[u] \subseteq files[u]
BY DEF Without

(* The capture that writes is the only one, so the file it makes the       *)
(* newest one pushes no other capture's file back.                         *)
LEMMA FileStep == TaskInv /\ FileInv /\ [Next]_vars => FileInv'
<1> SUFFICES ASSUME TaskInv, FileInv, [Next]_vars PROVE FileInv'
  OBVIOUS
<1> USE DEF FileInv
<1>0. TypeOK /\ SingleCapture
  BY DEF TaskInv
<1>1. CASE \E t \in Tasks : newTask(t)
  <2>1. PICK t \in Tasks : newTask(t)
    BY <1>1
  <2>2. /\ t \notin DOMAIN files /\ UNCHANGED <<server, files>>
        /\ at' = [at EXCEPT ![t] = "created"]
    BY <2>1 DEF newTask, Unreferenced
  <2>3. at \in [Tasks -> Places]
    BY <1>0 DEF TypeOK
  <2>4. \A u \in Tasks : u # t => at'[u] = at[u]
    BY <2>2, <2>3
  <2>5. at'[t] = "created"
    BY <2>2, <2>3
  <2> QED
    BY <2>2, <2>4, <2>5 DEF Capturing
<1>2. CASE \E t \in Tasks : registerTask(t) \/ dropTask(t)
  BY <1>0, <1>2, ZenonT(60) DEF TypeOK, registerTask, dropTask, Move, Capturing
<1>3. ASSUME NEW t \in Tasks, beginCapture(t) PROVE FileInv'
  <2>1. at[t] = "registered" /\ t \notin DOMAIN files
    BY <1>3 DEF beginCapture, Move
  <2>2. \A u \in DOMAIN files : t \notin files[u]
    BY <1>0, <2>1 DEF TypeOK
  <2>3. /\ UNCHANGED <<server, files>>
        /\ \/ at' = [at EXCEPT ![t] = "running"]
           \/ at' = [at EXCEPT ![t] = "refused"]
    BY <1>3 DEF beginCapture, Move
  <2> QED
    BY <1>0, <2>1, <2>2, <2>3 DEF TypeOK, Capturing
<1>4. ASSUME NEW t \in Tasks, \/ CaptureContext(t) \/ finalizeTask(t)
                              \/ finalizeEmpty(t) \/ endCapture(t)
      PROVE  FileInv'
  <2>1. /\ UNCHANGED <<server, files>>
        /\ Capturing(t)
    BY <1>4 DEF CaptureContext, finalizeTask, finalizeEmpty, endCapture, Move,
       Capturing
  <2>2. PICK to \in {"returned", "empty", "judged", "ended"} :
          at' = [at EXCEPT ![t] = to]
    BY <1>4 DEF CaptureContext, finalizeTask, finalizeEmpty, endCapture, Move
  <2> QED
    BY <1>0, <2>1, <2>2 DEF TypeOK, Capturing
<1>5. ASSUME NEW t \in Tasks, cleanupCaptureFiles(t) \/ closeDone(t)
      PROVE  FileInv'
  <2>1. UNCHANGED <<server, files>>
    BY <1>5 DEF cleanupCaptureFiles, closeDone
  <2>2. PICK to \in {"cleaning", "done"} : at' = [at EXCEPT ![t] = to]
    BY <1>5 DEF cleanupCaptureFiles, closeDone, Move
  <2> QED
    BY <1>0, <2>1, <2>2 DEF TypeOK, Capturing
<1>12. ASSUME NEW t \in Tasks, removeFile(t) PROVE FileInv'
  <2>1. /\ UNCHANGED <<server, at>>
        /\ UNCHANGED files \/ \E u \in doomed[t] : files' = Without({u})
    BY <1>12 DEF removeFile
  <2> QED
    BY <2>1, WithoutNewer DEF Capturing
<1>6. ASSUME NEW t \in Tasks, WriteFile(t) PROVE FileInv'
  <2>1. /\ at[t] = "running"
        /\ DOMAIN files' = DOMAIN files \cup {t}
        /\ \A u \in DOMAIN files' :
             files'[u] = IF u = t THEN DOMAIN files \ {t} ELSE files[u] \ {t}
        /\ UNCHANGED <<server, at>>
    BY <1>6 DEF WriteFile
  <2>2. \A u \in Tasks : server = "serving" /\ Capturing(u) => u = t
    BY <1>0, <2>1 DEF SingleCapture, Capturing
  <2> QED
    BY <2>1, <2>2 DEF Capturing
<1>7. ASSUME NEW t \in Tasks, DeleteFile(t) PROVE FileInv'
  <2>1. files' = Without({t}) /\ UNCHANGED <<server, at>>
    BY <1>7 DEF DeleteFile
  <2> QED
    BY <2>1, WithoutNewer DEF Capturing
<1>8. CASE \/ stopCapture \/ cleanupHistory
           \/ \E t \in Tasks : monitorCapture(t) \/ stopCaptureByTaskID(t)
  BY <1>8 DEF stopCapture, cleanupHistory, monitorCapture,
     stopCaptureByTaskID, Capturing
<1>9. CASE shutdown
  BY <1>9 DEF shutdown
<1>10. CASE Restart
  BY <1>10 DEF Restart, Capturing
<1>11. CASE UNCHANGED vars
  BY <1>11 DEF vars, Capturing
<1> QED
  BY <1>1, <1>2, <1>3, <1>4, <1>5, <1>6, <1>7, <1>8, <1>9, <1>10, <1>11,
     <1>12 DEF Next, Advance

(* A file goes only by removeFile, which takes what was listed, or by      *)
(* DeleteFile of a task that is over; and a listing spares the newest one. *)
LEMMA KeepsFileStep ==
  ASSUME TypeOK, FileInv, [Next]_vars, server = "serving",
         NEW t \in Tasks, Capturing(t), t \in DOMAIN files
  PROVE  /\ t \in DOMAIN files' \/ \E u \in Tasks : t \in doomed[u]
         /\ \A u \in Tasks : t \in doomed'[u] => t \in doomed[u]
<1> DEFINE Goal == /\ t \in DOMAIN files' \/ \E u \in Tasks : t \in doomed[u]
                   /\ \A u \in Tasks : t \in doomed'[u] => t \in doomed[u]
<1>0. doomed \in [Tasks -> SUBSET Tasks]
  BY DEF TypeOK
<1>1. ASSUME NEW u \in Tasks, cleanupCaptureFiles(u) PROVE Goal
  <2>1. PICK seen \in SUBSET DOMAIN files :
          doomed' = [doomed EXCEPT ![u] = Excess(seen)]
    BY <1>1 DEF cleanupCaptureFiles
  <2>2. t \notin Excess(seen)
    BY NewestStays DEF FileInv
  <2>3. UNCHANGED files
    BY <1>1 DEF cleanupCaptureFiles
  <2> QED
    BY <1>0, <2>1, <2>2, <2>3
<1>2. ASSUME NEW u \in Tasks, removeFile(u) PROVE Goal
  <2>1. PICK v \in doomed[u] : /\ doomed' = [doomed EXCEPT ![u] = @ \ {v}]
                               /\ files' = Without({v}) \/ UNCHANGED files
    BY <1>2 DEF removeFile
  <2>2. \A w \in Tasks : doomed'[w] \subseteq doomed[w]
    BY <1>0, <2>1
  <2>3. t \in DOMAIN files' \/ t = v
    BY <2>1 DEF Without
  <2> QED
    BY <2>1, <2>2, <2>3
<1>3. ASSUME NEW u \in Tasks, WriteFile(u) \/ DeleteFile(u) PROVE Goal
  BY <1>3 DEF WriteFile, DeleteFile, Without, Capturing
<1>4. CASE UNCHANGED <<files, doomed>>
  BY <1>4
<1>5. \/ UNCHANGED <<files, doomed>>
      \/ \E u \in Tasks : \/ cleanupCaptureFiles(u) \/ removeFile(u)
                           \/ WriteFile(u) \/ DeleteFile(u)
  BY DEF Next, Advance, vars, newTask, registerTask, beginCapture,
     dropTask, CaptureContext, finalizeTask, finalizeEmpty, endCapture,
     closeDone, stopCapture, stopCaptureByTaskID, monitorCapture,
     cleanupHistory, shutdown, Restart
<1> QED
  BY <1>1, <1>2, <1>3, <1>4, <1>5

(* The clean-up of files never picks the file of the capture under way,    *)
(* and takes it only if it had picked an older one of that name, for any   *)
(* number of tasks and any MaxCaptureFiles.                                *)
THEOREM FilesOfCapturesStay == Spec => CaptureKeepsFile
<1>1. Init => FileInv
  BY EmptyDirectory DEF Init, FileInv, Capturing
<1>2. Spec => []FileInv
  BY <1>1, FileStep, TasksAreSound, PTL DEF Spec
<1>3. TaskInv /\ FileInv /\ [Next]_vars
      => [server = "serving" =>
            \A t \in Tasks : Capturing(t) /\ t \in DOMAIN files =>
              /\ t \in DOMAIN files' \/ \E u \in Tasks : t \in doomed[u]
              /\ \A u \in Tasks : t \in doomed'[u] => t \in doomed[u]]_vars
  BY KeepsFileStep DEF TaskInv
<1> QED
  BY <1>2, <1>3, TasksAreSound, PTL DEF Spec, CaptureKeepsFile
=============================================================================
