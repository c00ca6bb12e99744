------------------------ MODULE MCCancellationToken ------------------------
(* Two threads cancel while two futures, of tasks with two wakers between    *)
(* them, are polled, re-polled under another waker, and dropped.             *)
EXTENDS CancellationToken, TLC
=============================================================================
