--------------------------- MODULE RunLifecycle ---------------------------
(***************************************************************************)
(* What Runner::run promises of the stream it returns: "emits RUN_STARTED   *)
(* first and exactly one of RUN_FINISHED / RUN_ERROR last"                  *)
(* (crates/ag-ui/src/server/run.rs).  `seen` is how far the events yielded  *)
(* so far have come, `stream` whether the stream can still yield.           *)
(***************************************************************************)
VARIABLES seen, stream

vars == <<seen, stream>>

Init == seen = "nothing" /\ stream = "open"

Start ==
    /\ stream = "open" /\ seen = "nothing"
    /\ seen' = "started"
    /\ UNCHANGED stream

\* RUN_FINISHED or RUN_ERROR; the events in between leave no trace.
Conclude ==
    /\ stream = "open" /\ seen = "started"
    /\ seen' \in {"finished", "failed"}
    /\ UNCHANGED stream

\* Only a run that concluded ends its stream.
End ==
    /\ stream = "open" /\ seen \in {"finished", "failed"}
    /\ stream' = "ended"
    /\ UNCHANGED seen

\* The consumer may walk away at any point.
Drop ==
    /\ stream = "open"
    /\ stream' = "dropped"
    /\ UNCHANGED seen

Next == Start \/ Conclude \/ End \/ Drop

Spec == Init /\ [][Next]_vars

=============================================================================
