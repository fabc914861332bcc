--------------------------- MODULE CaptureService ---------------------------
(***************************************************************************)
(* The capture tasks of the service, USBPcapAI/internal/service/server.go: *)
(* concurrent request handlers start tasks, one of which may be the active *)
(* capture; a goroutine per capture runs USBPcapCMD and finalizes the      *)
(* task, another one watches its file, and clients stop it.  A step is a   *)
(* critical section under s.mu or taskMu, or the return of the child       *)
(* process (external: it ends after --duration seconds or when killed).    *)
(*                                                                         *)
(* A task is a name from Tasks.  Task ids are never reused by the code; a  *)
(* name is, once s.tasks, the history and the directory are without it, so *)
(* that behaviours are unbounded.  With the name that of the file is used  *)
(* again, as clients may do (profileDevice always does).                   *)
(*                                                                         *)
(* Definitions named Faulty... are deliberately wrong variants of the one  *)
(* that follows; they show which property would notice the mistake.        *)
(***************************************************************************)
EXTENDS Integers, Sequences, FiniteSets

CONSTANTS
  Tasks,             \* names of tasks
  NoTask,            \* the nil active capture
  MaxHistoryTasks,   \* cfg.MaxHistoryTasks
  MaxCaptureFiles    \* cfg.MaxCaptureFiles

ASSUME ServiceAssumption ==
  /\ NoTask \notin Tasks
  /\ MaxHistoryTasks \in Nat \ {0}          \* Config.Validate
  /\ MaxCaptureFiles \in Nat \ {0}

VARIABLES
  server,      \* "serving", or "returned" once shutdown() has returned
  at,          \* how far the handler and the goroutine of a task have come
  status,      \* task.Status
  result,      \* what the runner returned, until finalizeTask used it
  stopCode,    \* task.stopCode, which nothing reads after endCapture
  cancelled,   \* tasks whose context is cancelled
  monitors,    \* tasks whose monitorCapture goroutine runs
  active,      \* s.active.taskID
  tasks,       \* keys of s.tasks
  history,     \* s.history: snapshots of the tasks, newest first
  files,       \* the .pcap files in cfg.CaptureDir, by task: for each the
               \* files that were last written before it
  doomed       \* what the clean-up of a task has listed and not yet removed

taskVars == <<status, result, stopCode>>
fileVars == <<files, doomed>>
vars == <<server, at, taskVars, cancelled, monitors, active, tasks, history,
          fileVars>>

(* Places of the code: created by newTask, in s.tasks, refused by          *)
(* beginCapture, child running, child ended, status "completed" for no     *)
(* packet, status final, endCapture done, files listed, done closed.       *)
Places == {"none", "created", "registered", "refused", "running",
           "returned", "empty", "judged", "ended", "cleaning", "done"}
Over == {"ended", "cleaning", "done"}

(* CAPTURE_LIMIT is CAPTURE_MAX_FILE_SIZE or CAPTURE_IDLE_TIMEOUT.         *)
StopCodes == {"CAPTURE_LIMIT", "CAPTURE_STOPPED", "SERVICE_STOPPING"}

(* What the runner and the reading of its file tell finalizeTask, and the  *)
(* status it gives the task; "failed" is also stopped, no_device and       *)
(* no_match.                                                               *)
StatusOf == [cancelled |-> "failed", error |-> "failed",
             empty |-> "completed", packets |-> "completed"]
Results == DOMAIN StatusOf
Final == {"failed", "completed", "idle"}

(* A child that fails after its context was cancelled was stopped; one     *)
(* that had succeeded before the kill still counts, and reading its file   *)
(* may fail.                                                               *)
Possible(t) ==
  IF t \in cancelled THEN Results ELSE Results \ {"cancelled"}

Init ==
  /\ server = "serving"
  /\ at = [t \in Tasks |-> "none"]
  /\ status = [t \in Tasks |-> "pending"]
  /\ result = [t \in Tasks |-> "none"]
  /\ stopCode = [t \in Tasks |-> ""]
  /\ cancelled = {}
  /\ monitors = {}
  /\ active = NoTask
  /\ tasks = {}
  /\ history = <<>>
  /\ files = [t \in {} |-> {}]
  /\ doomed = [t \in Tasks |-> {}]

Move(t, from, to) == at[t] = from /\ at' = [at EXCEPT ![t] = to]
-----------------------------------------------------------------------------
(* A request handler: captureOnce, startCapture, smartCapture and          *)
(* profileDevice begin a capture alike.                                    *)

Unreferenced(t) ==
  /\ at[t] \in {"none", "done"}
  /\ t \notin tasks \cup monitors \cup DOMAIN files
  /\ \A i \in 1 .. Len(history) : history[i].id # t

newTask(t) ==
  /\ server = "serving"
  /\ Unreferenced(t)
  /\ at' = [at EXCEPT ![t] = "created"]
  /\ status' = [status EXCEPT ![t] = "pending"]
  /\ result' = [result EXCEPT ![t] = "none"]
  /\ stopCode' = [stopCode EXCEPT ![t] = ""]
  /\ cancelled' = cancelled \ {t}
  /\ UNCHANGED <<server, monitors, active, tasks, history, fileVars>>

registerTask(t) ==
  /\ Move(t, "created", "registered")
  /\ tasks' = tasks \cup {t}
  /\ UNCHANGED <<server, taskVars, cancelled, monitors, active, history, fileVars>>

FaultyBeginCapture(t) ==                    \* does not look at s.active
  /\ Move(t, "registered", "running")
  /\ status' = [status EXCEPT ![t] = "running"]
  /\ active' = t
  /\ monitors' = monitors \cup {t}
  /\ UNCHANGED <<server, result, stopCode, cancelled, tasks, history, fileVars>>

(* The task becomes the active capture and its two goroutines are started, *)
(* or it is refused as CAPTURE_BUSY.                                       *)
beginCapture(t) ==
  \/ /\ active = NoTask
     /\ Move(t, "registered", "running")
     /\ status' = [status EXCEPT ![t] = "running"]
     /\ active' = t
     /\ monitors' = monitors \cup {t}
     /\ UNCHANGED <<server, result, stopCode, cancelled, tasks, history, fileVars>>
  \/ /\ active # NoTask
     /\ Move(t, "registered", "refused")
     /\ UNCHANGED <<server, taskVars, cancelled, monitors, active, tasks,
                    history, fileVars>>

dropTask(t) ==
  /\ Move(t, "refused", "none")
  /\ tasks' = tasks \ {t}
  /\ UNCHANGED <<server, taskVars, cancelled, monitors, active, history, fileVars>>
-----------------------------------------------------------------------------
(* The goroutine of the capture, runStartedTask.                           *)

FaultyCaptureContext(t) ==                  \* the child has no --duration
  /\ t \in cancelled
  /\ Move(t, "running", "returned")
  /\ \E r \in Possible(t) : result' = [result EXCEPT ![t] = r]
  /\ UNCHANGED <<server, status, stopCode, cancelled, monitors, active,
                 tasks, history, fileVars>>

CaptureContext(t) ==
  /\ Move(t, "running", "returned")
  /\ \E r \in Possible(t) : result' = [result EXCEPT ![t] = r]
  /\ UNCHANGED <<server, status, stopCode, cancelled, monitors, active,
                 tasks, history, fileVars>>

FaultyFinalizeReturn(t) ==                  \* returns without endCapture
  /\ Move(t, "returned", IF result[t] = "error" THEN "ended" ELSE "judged")
  /\ status' = [status EXCEPT ![t] = StatusOf[result[t]]]
  /\ result' = [result EXCEPT ![t] = "none"]
  /\ UNCHANGED <<server, stopCode, cancelled, monitors, active, tasks,
                 history, fileVars>>

FaultyFinalizeStatus(t) ==                  \* does not set the status
  /\ Move(t, "returned", "judged")
  /\ result' = [result EXCEPT ![t] = "none"]
  /\ UNCHANGED <<server, status, stopCode, cancelled, monitors, active,
                 tasks, history, fileVars>>

(* finalizeTask up to endCapture.  A task stopped without a reason gets    *)
(* CAPTURE_STOPPED; one without packets is "completed" before it is "idle".*)
finalizeTask(t) ==
  /\ Move(t, "returned", IF result[t] = "empty" THEN "empty" ELSE "judged")
  /\ status' = [status EXCEPT ![t] = StatusOf[result[t]]]
  /\ stopCode' = [stopCode EXCEPT ![t] =
                    IF result[t] = "cancelled" /\ @ = ""
                    THEN "CAPTURE_STOPPED" ELSE @]
  /\ result' = [result EXCEPT ![t] = "none"]
  /\ UNCHANGED <<server, cancelled, monitors, active, tasks, history, fileVars>>

finalizeEmpty(t) ==
  /\ Move(t, "empty", "judged")
  /\ status' = [status EXCEPT ![t] = "idle"]
  /\ UNCHANGED <<server, result, stopCode, cancelled, monitors, active,
                 tasks, history, fileVars>>

FaultyNewest(h, k) == h                     \* truncates nothing

Newest(h, k) == SubSeq(h, 1, IF k <= Len(h) THEN k ELSE Len(h))
Ids(h) == {h[i].id : i \in 1 .. Len(h)}

(* cleanupHistory, from the snapshots h, newest first, and the tasks known.*)
(* A snapshot stays when it is younger than the TTL, a task goes when its  *)
(* snapshot is older: of one that is exactly as old the snapshot goes and  *)
(* the task stays.  The first `young' snapshots are younger.               *)
CleanUp(h, known, young) ==
  \E k \in young .. Len(h) : \E m \in k .. Len(h) :
    /\ history' = Newest(h, k)
    /\ tasks' = known \ {h[i].id : i \in m + 1 .. Len(h)}

(* recordHistory: the snapshot goes to the front, at most MaxHistoryTasks  *)
(* stay, tasks that neither run nor have a snapshot are forgotten, and     *)
(* what is older than the TTL is cleaned up.                               *)
endCapture(t) ==
  LET all == Newest(<<[id |-> t, status |-> status[t]]>> \o history, MaxHistoryTasks) IN
  /\ Move(t, "judged", "ended")
  /\ active' = IF active = t THEN NoTask ELSE active
  /\ CleanUp(all, {u \in tasks : status[u] = "running" \/ u \in Ids(all)}, 1)
  /\ stopCode' = [stopCode EXCEPT ![t] = ""]
  /\ UNCHANGED <<server, status, result, cancelled, monitors, fileVars>>

(* The files among those seen that are not the MaxCaptureFiles written     *)
(* last.                                                                   *)
Newer(t) == {u \in DOMAIN files : t \in files[u]}

FaultyExcess(seen) ==                       \* sorts the newest to the front
  {t \in seen : Cardinality(files[t] \cap seen) >= MaxCaptureFiles}

Excess(seen) == {t \in seen : Cardinality(Newer(t) \cap seen) >= MaxCaptureFiles}

(* cleanupCaptureFiles, after endCapture and without a lock: the files are *)
(* listed, as far as the directory and each of them can be read,           *)
cleanupCaptureFiles(t) ==
  /\ Move(t, "ended", "cleaning")
  /\ \E seen \in SUBSET DOMAIN files : doomed' = [doomed EXCEPT ![t] = Excess(seen)]
  /\ UNCHANGED <<server, taskVars, cancelled, monitors, active, tasks, history, files>>

Without(gone) == [t \in DOMAIN files \ gone |-> files[t] \ gone]

(* and the excess ones are removed one by one.  os.Remove may fail, and    *)
(* does when USBPcapCMD has the file open, which shares it with nobody.    *)
removeFile(t) ==
  /\ at[t] = "cleaning"
  /\ \E u \in doomed[t] :
       /\ doomed' = [doomed EXCEPT ![t] = @ \ {u}]
       /\ \/ at[u] # "running" /\ files' = Without({u})
          \/ UNCHANGED files
  /\ UNCHANGED <<server, at, taskVars, cancelled, monitors, active, tasks, history>>

FaultyCloseDone(t) ==                       \* updates the status too late
  /\ Move(t, "cleaning", "done")
  /\ status' = [status EXCEPT ![t] = "completed"]
  /\ UNCHANGED <<server, result, stopCode, cancelled, monitors, active,
                 tasks, history, fileVars>>

(* The deferred close(task.done) wakes captureOnce and the waiters.        *)
closeDone(t) ==
  /\ Move(t, "cleaning", "done")
  /\ doomed[t] = {}
  /\ UNCHANGED <<server, taskVars, cancelled, monitors, active, tasks, history,
                 fileVars>>

(* USBPcapCMD creates the file of the task (CREATE_NEW) or writes to it.   *)
WriteFile(t) ==
  /\ at[t] = "running"
  /\ files' = [u \in DOMAIN files \cup {t} |->
                 IF u = t THEN DOMAIN files \ {t} ELSE files[u] \ {t}]
  /\ UNCHANGED <<server, at, taskVars, cancelled, monitors, active, tasks,
                 history, doomed>>

(* External: somebody deletes the file of a capture that is over.          *)
DeleteFile(t) ==
  /\ t \in DOMAIN files
  /\ at[t] \in {"none", "done"}
  /\ files' = Without({t})
  /\ UNCHANGED <<server, at, taskVars, cancelled, monitors, active, tasks,
                 history, doomed>>
-----------------------------------------------------------------------------
(* Cancels the active capture and notes why in its task, if it finds it.   *)
Cancel(code) ==
  /\ active # NoTask
  /\ stopCode' = IF active \in tasks
                 THEN [stopCode EXCEPT ![active] = code] ELSE stopCode
  /\ cancelled' = cancelled \cup {active}

(* A client's stopCapture, of whatever is active or of one task.           *)
stopCapture ==
  /\ Cancel("CAPTURE_STOPPED")
  /\ UNCHANGED <<server, at, status, result, monitors, active, tasks, history,
                 fileVars>>

stopCaptureByTaskID(t) ==
  /\ active = t
  /\ Cancel("CAPTURE_STOPPED")
  /\ UNCHANGED <<server, at, status, result, monitors, active, tasks, history,
                 fileVars>>

(* monitorCapture ends with the task's context, or at a tick finds the     *)
(* task's file too large or unchanged for too long and stops the active    *)
(* capture.                                                                *)
monitorCapture(t) ==
  /\ t \in monitors
  /\ monitors' = monitors \ {t}
  /\ \/ /\ t \in cancelled
        /\ UNCHANGED <<stopCode, cancelled>>
     \/ Cancel("CAPTURE_LIMIT")
     \/ /\ active = NoTask
        /\ UNCHANGED <<stopCode, cancelled>>
  /\ UNCHANGED <<server, at, status, result, active, tasks, history, fileVars>>

(* The periodic cleanupHistory, whose ticker ends with the service.        *)
cleanupHistory ==
  /\ server = "serving"
  /\ CleanUp(history, tasks, 0)
  /\ UNCHANGED <<server, at, taskVars, cancelled, monitors, active, fileVars>>

(* The service context is cancelled and ListenAndServeContext returns; the *)
(* select over the done channels has a default case.                       *)
shutdown ==
  /\ server = "serving"
  /\ server' = "returned"
  /\ \/ Cancel("SERVICE_STOPPING")
     \/ active = NoTask /\ UNCHANGED <<stopCode, cancelled>>
  /\ active' = NoTask
  /\ UNCHANGED <<at, status, result, monitors, tasks, history, fileVars>>

(* The process exits, its job object kills the child, and the service is   *)
(* started again.                                                          *)
Restart ==
  /\ server = "returned"
  /\ server' = "serving"
  /\ at' = [t \in Tasks |-> "none"]
  /\ status' = [t \in Tasks |-> "pending"]
  /\ result' = [t \in Tasks |-> "none"]
  /\ stopCode' = [t \in Tasks |-> ""]
  /\ cancelled' = {} /\ monitors' = {} /\ tasks' = {}
  /\ active' = NoTask
  /\ history' = <<>>
  /\ doomed' = [t \in Tasks |-> {}]
  /\ UNCHANGED files

(* What the handler and the goroutine of a task do by themselves.          *)
Advance(t) ==
  \/ registerTask(t) \/ beginCapture(t) \/ dropTask(t)
  \/ CaptureContext(t) \/ finalizeTask(t) \/ finalizeEmpty(t)
  \/ endCapture(t) \/ cleanupCaptureFiles(t) \/ removeFile(t) \/ closeDone(t)

Next ==
  \/ \E t \in Tasks : newTask(t)
  \/ \E t \in Tasks : Advance(t)
  \/ \E t \in Tasks : monitorCapture(t) \/ stopCaptureByTaskID(t)
  \/ \E t \in Tasks : WriteFile(t) \/ DeleteFile(t)
  \/ stopCapture
  \/ cleanupHistory
  \/ shutdown
  \/ Restart

(* Goroutines are scheduled, s.mu is held briefly, and a child ends after  *)
(* its duration; nothing makes a client call.                              *)
Fairness == \A t \in Tasks : WF_vars(Advance(t))

Spec == Init /\ [][Next]_vars /\ Fairness
-----------------------------------------------------------------------------
(* Properties. *)

(* Type invariant. *)
TypeOK ==
  /\ server \in {"serving", "returned"}
  /\ at \in [Tasks -> Places]
  /\ status \in [Tasks -> Final \cup {"pending", "running"}]
  /\ result \in [Tasks -> Results \cup {"none"}]
  /\ stopCode \in [Tasks -> StopCodes \cup {""}]
  /\ cancelled \subseteq Tasks
  /\ monitors \subseteq Tasks
  /\ active \in Tasks \cup {NoTask}
  /\ tasks \subseteq Tasks
  /\ history \in Seq([id : Tasks, status : Final])
  /\ DOMAIN files \subseteq Tasks
  /\ files \in [DOMAIN files -> SUBSET DOMAIN files]
  /\ doomed \in [Tasks -> SUBSET Tasks]

(* Between beginCapture and endCapture. *)
Capturing(t) == at[t] \in {"running", "returned", "empty", "judged"}

(* "Only one capture runs at a time" (defaultHelp): while the service runs *)
(* the task between beginCapture and endCapture is the active one, so two  *)
(* handlers never start two children.                                      *)
SingleCapture ==
  server = "serving" => \A t \in Tasks : Capturing(t) <=> active = t

(* Whoever waited for a task's done channel finds it finished: its status  *)
(* is final, and it no longer makes the service answer CAPTURE_BUSY.       *)
DoneIsFinal ==
  \A t \in Tasks : at[t] = "done" => status[t] \in Final /\ active # t

(* A snapshot in the history is what the task ended with, not a status on  *)
(* the way there ("running", or "completed" before "idle").                *)
HistoryFinal ==
  \A i \in 1 .. Len(history) :
    /\ at[history[i].id] \in Over
    /\ history[i].status = status[history[i].id]

(* The finished tasks that s.tasks still knows. *)
Finished == {t \in tasks : at[t] \in Over}

(* Finished tasks do not pile up in s.tasks: there are never more of them  *)
(* than MaxHistoryTasks, with those whose snapshot the TTL has taken out   *)
(* of the history but not them.                                            *)
TasksBounded ==
  /\ Len(history) <= MaxHistoryTasks
  /\ Cardinality(Finished) <= MaxHistoryTasks

(* cleanupCaptureFiles of a finished task, which runs while the next       *)
(* capture may have begun, never picks the file that a capture is writing  *)
(* or that finalizeTask has yet to summarize, and never takes it.  The     *)
(* exception is exact: a clean-up that had listed an older file of the     *)
(* same name, which was gone when the capture made its own.                *)
CaptureKeepsFile ==
  [][server = "serving" =>
       \A t \in Tasks : Capturing(t) /\ t \in DOMAIN files =>
         /\ t \in DOMAIN files' \/ \E u \in Tasks : t \in doomed[u]
         /\ \A u \in Tasks : t \in doomed'[u] => t \in doomed[u]]_vars

(* A task that was registered is refused or comes to its end: no handler   *)
(* waits on a done channel for ever and no capture keeps the service busy. *)
EveryTaskEnds ==
  \A t \in Tasks : at[t] = "registered" ~> at[t] \in {"none", "done"}

(* "shutdown ... waits for child processes to finish": once it has         *)
(* returned, no child runs.                                                *)
ShutdownWaits ==
  server = "returned" => \A t \in Tasks : at[t] # "running"

(* "capture stopped after idle timeout": a task that was stopped for a     *)
(* limit reached its own limit, which its own monitor saw, and returned.   *)
LimitIsOwn ==
  server = "serving" =>
    \A t \in Tasks : stopCode[t] = "CAPTURE_LIMIT" => t \notin monitors

(* A started capture can be queried by its task id and is told why it was  *)
(* stopped: it is in s.tasks while it runs.                                *)
StartedIsKnown ==
  \A t \in Tasks : at[t] = "running" => t \in tasks
=============================================================================
