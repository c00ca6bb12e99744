----------------------------- MODULE ResponseBody -----------------------------
(***************************************************************************)
(* The body of a streaming response (HttpEvents and its DisconnectGuard in   *)
(* crates/ag-ui/src/axum/respond.rs, terminal_error_events in                *)
(* crates/ag-ui/src/server/run.rs): it polls its source, owns it, and cancels *)
(* the run it is tied to when it fails or is dropped.                        *)
(***************************************************************************)
EXTENDS Naturals, Sequences

CONSTANT Plans      \* what a server will do: see Plan

VARIABLES
    plan,       \* fixed for the run
    next,       \* items of the source polled so far
    body,       \* the response body: "none", "open", "failing", "reporting", "reported",
                \* "dropping", or how it ended: "ended", "failed", "dropped", "died"
    source,     \* the stream it owns: "live", "over", "dropped"
    armed,      \* DisconnectGuard
    tripped,    \* the token of the run
    link        \* the connection, as the client left it: "idle", "up", "gone"
server == <<next, body, source, armed, tripped>>
bodyVars == <<plan, server, link>>

(* A plan: the request and its answer, whether the source is a run's own      *)
(* stream or a subscription, whether the response holds the run's token, the  *)
(* style and the items of the source, and the limit of the client's decoder.  *)
(* Another server may answer with something else than events.                *)
Item(kind, value) == [kind |-> kind, value |-> value]
Plan(request, owned, token, style, items, limit) ==
    [request |-> request, owned |-> owned, token |-> token, style |-> style, items |-> items, limit |-> limit]

PlansAssumption == \A p \in Plans : p.token \in BOOLEAN
ASSUME PlansAssumption

BodyInit ==
    /\ plan \in Plans
    /\ next = 0 /\ body = "none" /\ source = "live" /\ armed = TRUE /\ tripped = FALSE
    /\ link = "idle"

----------------------------------------------------------------------------
(* The body.                                                                *)

Polled == plan.items[next + 1]
Cancelling == tripped' = (tripped \/ plan.token)

\* The next item of the source is framed and sent.
\* Fault: the guard is disarmed by the last of them.
SendDisarming ==
    /\ body = "open"
    /\ next < Len(plan.items) /\ Polled.kind \in {"event", "comment"}
    /\ next' = next + 1 /\ armed' = (next' # Len(plan.items))
    /\ UNCHANGED <<plan, body, source, tripped, link>>
Send ==
    /\ body = "open"
    /\ next < Len(plan.items) /\ Polled.kind \in {"event", "comment"}
    /\ next' = next + 1
    /\ UNCHANGED <<plan, body, source, armed, tripped, link>>

\* The source ends: the guard is disarmed.
Complete ==
    /\ body = "open" /\ next = Len(plan.items)
    /\ body' = "ended" /\ source' = "over" /\ armed' = FALSE
    /\ UNCHANGED <<plan, next, tripped, link>>

\* The source fails, or a value does not serialize: the run is cancelled first.  A
\* run's own stream then reports its error, a subscription's body fails.
Fail ==
    /\ body = "open"
    /\ next < Len(plan.items) /\ Polled.kind \in {"error", "unserializable"}
    /\ body' = IF Polled.kind = "error" /\ plan.owned THEN "reporting" ELSE "failing"
    /\ Cancelling
    /\ UNCHANGED <<plan, next, source, armed, link>>
Failed ==
    /\ body = "failing"
    /\ body' = "failed" /\ armed' = FALSE /\ source' = "dropped"
    /\ UNCHANGED <<plan, next, tripped, link>>
Report ==
    /\ body = "reporting"
    /\ body' = "reported" /\ source' = "dropped"
    /\ UNCHANGED <<plan, next, armed, tripped, link>>
Reported ==
    /\ body = "reported"
    /\ body' = "ended" /\ armed' = FALSE
    /\ UNCHANGED <<plan, next, source, tripped, link>>

\* The connection is gone: the body is dropped, its guard before its source.
\* Fault: the source is dropped before its guard.
NoticeLate ==
    /\ link = "gone" /\ body \in {"open", "reported"}
    /\ body' = "dropping" /\ source' = IF source = "live" THEN "dropped" ELSE source
    /\ UNCHANGED <<plan, next, armed, tripped, link>>
Notice ==
    /\ link = "gone" /\ body \in {"open", "reported"}
    /\ body' = "dropping"
    /\ tripped' = (tripped \/ (armed /\ plan.token))
    /\ UNCHANGED <<plan, next, source, armed, link>>
DropBody ==
    /\ body = "dropping"
    /\ body' = "dropped" /\ source' = IF source = "live" THEN "dropped" ELSE source
    /\ UNCHANGED <<plan, next, armed, tripped, link>>

\* The server's process dies.
Die ==
    /\ link = "up" /\ body \in {"open", "failing", "reporting", "reported"}
    /\ body' = "died"
    /\ UNCHANGED <<plan, next, source, armed, tripped, link>>

----------------------------------------------------------------------------
(* The connection.                                                          *)

\* The request is answered with a body that streams, or with none.
Answered(streams) ==
    /\ link = "idle"
    /\ body' = IF streams THEN "open" ELSE "none"
    /\ link' = IF streams THEN "up" ELSE "gone"
    /\ UNCHANGED <<plan, next, source, armed, tripped>>

\* The client leaves, for any reason, at any moment.
HangUp ==
    /\ link = "up"
    /\ link' = "gone"
    /\ UNCHANGED <<plan, server>>

BodyNext ==
    \/ Send \/ Complete \/ Fail \/ Failed \/ Report \/ Reported \/ Notice \/ DropBody \/ Die
    \/ \E streams \in BOOLEAN : Answered(streams)
    \/ HangUp
BodySpec == BodyInit /\ [][BodyNext]_bodyVars

----------------------------------------------------------------------------
(* Properties.                                                              *)

\* Whoever sees the source of a tied run dropped before it ended finds the run
\* cancelled; a run that ended is not cancelled (respond.rs:110-121, 236).
CancelledBeforeDropped ==
    /\ source = "dropped" /\ plan.token => tripped
    /\ source = "over" => ~tripped
=============================================================================
