--------------------------- MODULE ClientVerifier ---------------------------
(***************************************************************************)
(* The consumer's verifier (crates/ag-ui/src/client/verify.rs), a second    *)
(* implementation of the rules on the other side of the wire.  It brackets  *)
(* text, tool and reasoning messages but not reasoning blocks, wants        *)
(* RUN_STARTED first, and never sees a chunk it has to judge: the chunk     *)
(* normalizer runs before it.                                               *)
(***************************************************************************)
EXTENDS Events

Verifier == [started : BOOLEAN, finished : BOOLEAN,
             open : [ChunkKinds -> [Ids -> Owner \cup {Absent}]],
             owner : Owners,
             steps : SUBSET (Owner \X StepNames),
             subagents : SUBSET Subagents,
             closed : SUBSET Subagents]

Fresh == [started |-> FALSE, finished |-> FALSE,
          open |-> [k \in ChunkKinds |-> [i \in Ids |-> Absent]],
          owner |-> NoOwners,
          steps |-> {}, subagents |-> {}, closed |-> {}]

IsOpen(v, k, i) == v.open[k][i] # Absent

\* expect_all_closed
AllClosed(v) ==
    /\ \A k \in ChunkKinds, i \in Ids : ~IsOpen(v, k, i)
    /\ v.steps = {}
    /\ v.subagents = {}

\* expect_owner, on an entity that may not be recorded.
ExpectOwner(owner, tag) == owner = Absent \/ Agrees(tag, owner)

\* claim
Recorded(v, e) == v.owner[BucketOf(e.kind)][e.id]
Claimed(v, e) == IF Recorded(v, e) = Absent THEN e.tag ELSE Recorded(v, e)

\* resolve_tool_call_owner: who carries the call, and what the event asserts.
Carrier(v, e) == IF e.parent = None THEN Absent ELSE v.owner["message"][e.parent]
Asserted(v, e) == IF e.tag # None THEN e.tag ELSE Carrier(v, e)

MayOwnCall(v, e) ==
    /\ ExpectOwner(Carrier(v, e), e.tag)
    /\ \/ Absent \in {Asserted(v, e), v.owner["call"][e.id]}
       \/ Asserted(v, e) = v.owner["call"][e.id]

\* Fault: a call does not inherit from the message that carries it.
CallOwnerByTag(v, e) ==
    IF e.tag # None THEN e.tag
    ELSE IF v.owner["call"][e.id] # Absent THEN v.owner["call"][e.id]
    ELSE None

CallOwner(v, e) ==
    IF Asserted(v, e) # Absent THEN Asserted(v, e)
    ELSE IF v.owner["call"][e.id] # Absent THEN v.owner["call"][e.id]
    ELSE None

MayOwn(v, e) ==
    IF e.kind = "tool" THEN MayOwnCall(v, e) ELSE ExpectOwner(Recorded(v, e), e.tag)
OwnerOf(v, e) == IF e.kind = "tool" THEN CallOwner(v, e) ELSE Claimed(v, e)

\* seed_owners
Seeded(v, history, authoritative) ==
    [b \in Buckets |-> [i \in Ids |->
        IF history[b][i] # Absent /\ (authoritative \/ v.owner[b][i] = Absent)
        THEN history[b][i] ELSE v.owner[b][i]]]

EncryptedOwner(v, e) ==
    IF e.subtype = "tool-call" THEN v.owner["call"][e.id]
    ELSE IF v.owner["message"][e.id] # Absent THEN v.owner["message"][e.id]
    ELSE v.owner["reasoning"][e.id]

-----------------------------------------------------------------------------
(* verify *)

\* Nothing before RUN_STARTED but RAW and CUSTOM, nothing open at RUN_FINISHED.
RunRules(v, e) ==
    /\ e.type # "CUSTOM" => (v.started <=> e.type # "RUN_STARTED")
    /\ e.type = "RUN_FINISHED" => AllClosed(v)

\* A reasoning block is judged by its recorded owner, a message by who opened it.
StreamRules(v, e) ==
    /\ e.type = "START" =>
          MayOwn(v, e) /\ (e.kind = "block" \/ ~IsOpen(v, e.kind, e.id))
    /\ e.type \in {"CONTENT", "END"} /\ e.kind # "block" =>
          IsOpen(v, e.kind, e.id) /\ Agrees(e.tag, v.open[e.kind][e.id])
    /\ e.type = "END" /\ e.kind = "block" => ExpectOwner(Recorded(v, e), e.tag)

ContinuationRules(v, e) ==
    /\ e.type = "TOOL_CALL_RESULT" => ~IsOpen(v, "tool", e.call)
    /\ e.type = "ENCRYPTED" => ExpectOwner(EncryptedOwner(v, e), e.tag)
    /\ e.type = "ACTIVITY_DELTA" => ExpectOwner(v.owner["activity"][e.id], e.tag)

ScopeRules(v, e) ==
    /\ e.type = "STEP_STARTED" => <<e.tag, e.name>> \notin v.steps
    /\ e.type = "STEP_FINISHED" => <<e.tag, e.name>> \in v.steps
    /\ e.type = "SUBAGENT_STARTED" =>
          /\ e.id \notin v.subagents \cup v.closed
          /\ e.parent \in v.subagents \cup v.closed \cup {None}
    /\ e.type \in {"SUBAGENT_FINISHED", "SUBAGENT_ERROR"} => e.id \in v.subagents

Accepts(v, e) ==
    /\ ~v.finished
    /\ RunRules(v, e)
    /\ StreamRules(v, e)
    /\ ContinuationRules(v, e)
    /\ ScopeRules(v, e)

Fold(v, e) ==
    CASE e.type = "RUN_STARTED" ->
            [v EXCEPT !.started = TRUE, !.owner = Seeded(v, e.history, FALSE)]
      [] e.type = "START" /\ e.kind = "block" ->
            [v EXCEPT !.owner["reasoning"][e.id] = OwnerOf(v, e)]
      [] e.type = "START" /\ e.kind # "block" ->
            [v EXCEPT !.open[e.kind][e.id] = OwnerOf(v, e),
                      !.owner[BucketOf(e.kind)][e.id] = OwnerOf(v, e)]
      [] e.type = "END" /\ e.kind # "block" ->
            [v EXCEPT !.open[e.kind][e.id] = Absent]
      [] e.type = "TOOL_CALL_RESULT" -> [v EXCEPT !.owner["message"][e.id] = e.tag]
      [] e.type = "ACTIVITY_SNAPSHOT"
            /\ (e.replace \/ v.owner["activity"][e.id] = Absent) ->
            [v EXCEPT !.owner["activity"][e.id] = e.tag]
      [] e.type = "STEP_STARTED" -> [v EXCEPT !.steps = @ \cup {<<e.tag, e.name>>}]
      [] e.type = "STEP_FINISHED" -> [v EXCEPT !.steps = @ \ {<<e.tag, e.name>>}]
      [] e.type = "SUBAGENT_STARTED" -> [v EXCEPT !.subagents = @ \cup {e.id}]
      [] e.type \in {"SUBAGENT_FINISHED", "SUBAGENT_ERROR"} ->
            [v EXCEPT !.subagents = @ \ {e.id}, !.closed = @ \cup {e.id}]
      [] e.type = "MESSAGES_SNAPSHOT" ->
            [v EXCEPT !.owner = Seeded(v, e.history, TRUE)]
      [] e.type \in {"RUN_FINISHED", "RUN_ERROR"} -> [v EXCEPT !.finished = TRUE]
      [] OTHER -> v

\* RUN_FINISHED is recorded before it is checked; nothing else leaves a trace.
Verify(v, e) ==
    IF Accepts(v, e) THEN Fold(v, e)
    ELSE IF e.type = "RUN_FINISHED" /\ v.started THEN [v EXCEPT !.finished = TRUE]
    ELSE v

=============================================================================
