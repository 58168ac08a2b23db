----------------------- MODULE MCNotificationDispatch -----------------------
(* Small instances of NotificationDispatch for TLC. *)
EXTENDS NotificationDispatch

(* The job and the in-process queue; the job is the one the schedule restarts. *)
JobSweeps == {"job"}
Two == {"job", "queue"}
OneRow == {1}
TwoRows == {1, 2}
SecondRow == {2}
=============================================================================
