----------------------------- MODULE MCService -----------------------------
(* Small instances of CaptureService: two tasks at a time, so that one     *)
(* runs, or its monitor lives on, while another begins; and a history of   *)
(* one task, so that ending a task forgets another.                        *)
EXTENDS CaptureService

CONSTANTS t1, t2

MCTasks == {t1, t2}
=============================================================================
