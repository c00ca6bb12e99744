--------------------------- MODULE ServerVerifier ---------------------------
(***************************************************************************)
(* The ordering state machine of the emitting side                         *)
(* (crates/ag-ui/src/server/verify.rs), as operators over its state `v`:    *)
(* Accepts(v, e) is `observe` returning Ok, Observe(v, e) the state it      *)
(* leaves behind, also when it returns Err.                                 *)
(***************************************************************************)
EXTENDS Events

Verifier == [started : BOOLEAN, ended : BOOLEAN,
             open : [Kinds -> [Ids -> Owner \cup {Absent}]],
             owner : Owners,
             steps : SUBSET (Owner \X StepNames),
             active : SUBSET Subagents,
             closed : SUBSET Subagents]

Fresh == [started |-> FALSE, ended |-> FALSE,
          open |-> [k \in Kinds |-> [i \in Ids |-> Absent]],
          owner |-> NoOwners,
          steps |-> {}, active |-> {}, closed |-> {}]

IsOpen(v, k, i) == v.open[k][i] # Absent

\* first_open
NothingOpen(v) ==
    /\ \A k \in Kinds, i \in Ids : ~IsOpen(v, k, i)
    /\ v.steps = {}
    /\ v.active = {}

-----------------------------------------------------------------------------
(* Ownership *)

\* claim: the first writer owns the id; a tag may not contradict it.
MayClaim(v, e) ==
    LET owner == v.owner[BucketOf(e.kind)][e.id]
    IN  owner = Absent \/ Agrees(e.tag, owner)

Claimed(v, e) ==
    LET owner == v.owner[BucketOf(e.kind)][e.id]
    IN  IF owner = Absent THEN e.tag ELSE owner

\* resolve_tool_call_owner: the tag, else the owner of the carrying message,
\* else whoever introduced the call, else the parent agent.
Inherited(v, e) ==
    IF e.parent = None THEN Absent ELSE v.owner["message"][e.parent]

Asserted(v, e) == IF e.tag # None THEN e.tag ELSE Inherited(v, e)

MayOwnCall(v, e) ==
    /\ Inherited(v, e) = Absent \/ Agrees(e.tag, Inherited(v, e))
    /\ \/ Absent \in {Asserted(v, e), v.owner["call"][e.id]}
       \/ Asserted(v, e) = v.owner["call"][e.id]

CallOwner(v, e) ==
    IF Asserted(v, e) # Absent THEN Asserted(v, e)
    ELSE IF v.owner["call"][e.id] # Absent THEN v.owner["call"][e.id]
    ELSE None

\* seed_owners: replayed history restates ownership, or only adds to it.
Seeded(v, history, authoritative) ==
    [b \in Buckets |-> [i \in Ids |->
        IF history[b][i] = Absent \/ (~authoritative /\ v.owner[b][i] # Absent)
        THEN v.owner[b][i] ELSE history[b][i]]]

MayOwn(v, e) == IF e.kind = "tool" THEN MayOwnCall(v, e) ELSE MayClaim(v, e)

\* Fault: an untagged event hands the entity to the parent.
OwnerByTag(v, e) == e.tag

OwnerOf(v, e) == IF e.kind = "tool" THEN CallOwner(v, e) ELSE Claimed(v, e)

\* The entity a REASONING_ENCRYPTED_VALUE names.
EncryptedOwner(v, e) ==
    IF e.subtype = "tool-call" THEN v.owner["call"][e.id]
    ELSE IF v.owner["message"][e.id] # Absent THEN v.owner["message"][e.id]
    ELSE v.owner["reasoning"][e.id]

-----------------------------------------------------------------------------
(* observe *)

\* RUN_STARTED once, nothing open at RUN_FINISHED; RUN_ERROR is exempt.
RunRules(v, e) ==
    /\ e.type = "RUN_STARTED" => ~v.started
    /\ e.type = "RUN_FINISHED" => NothingOpen(v)

\* open, require and close, and their tool-call twins; a chunk only claims.
StreamRules(v, e) ==
    /\ e.type = "START" => MayOwn(v, e) /\ ~IsOpen(v, e.kind, e.id)
    /\ e.type \in {"CONTENT", "END"} =>
          IsOpen(v, e.kind, e.id) /\ Agrees(e.tag, v.open[e.kind][e.id])
    /\ e.type = "CHUNK" /\ e.id # None => MayOwn(v, e)

\* What continues or answers an entity by its id.
ContinuationRules(v, e) ==
    /\ e.type = "TOOL_CALL_RESULT" =>
          v.owner["call"][e.call] # Absent /\ ~IsOpen(v, "tool", e.call)
    /\ e.type = "ACTIVITY_DELTA" =>
          LET owner == v.owner["activity"][e.id]
          IN  owner = Absent \/ Agrees(e.tag, owner)
    /\ e.type = "ENCRYPTED" =>
          EncryptedOwner(v, e) = Absent \/ Agrees(e.tag, EncryptedOwner(v, e))

\* Steps by owner and name; an id names one subagent invocation.
ScopeRules(v, e) ==
    /\ e.type = "STEP_STARTED" => <<e.tag, e.name>> \notin v.steps
    /\ e.type = "STEP_FINISHED" => <<e.tag, e.name>> \in v.steps
    /\ e.type = "SUBAGENT_STARTED" =>
          /\ e.id \notin v.active \cup v.closed
          /\ e.parent \in v.active \cup v.closed \cup {None}
    /\ e.type \in {"SUBAGENT_FINISHED", "SUBAGENT_ERROR"} => e.id \in v.active

Accepts(v, e) ==
    /\ ~v.ended
    /\ RunRules(v, e)
    /\ StreamRules(v, e)
    /\ ContinuationRules(v, e)
    /\ ScopeRules(v, e)

\* What `observe` folds in when it returns Ok.
Fold(v, e) ==
    CASE e.type = "RUN_STARTED" ->
            [v EXCEPT !.started = TRUE, !.owner = Seeded(v, e.history, FALSE)]
      [] e.type \in {"RUN_FINISHED", "RUN_ERROR"} -> [v EXCEPT !.ended = TRUE]
      [] e.type = "START" ->
            [v EXCEPT !.open[e.kind][e.id] = OwnerOf(v, e),
                      !.owner[BucketOf(e.kind)][e.id] = OwnerOf(v, e)]
      [] e.type = "END" -> [v EXCEPT !.open[e.kind][e.id] = Absent]
      [] e.type = "CHUNK" /\ e.id # None ->
            [v EXCEPT !.open[e.kind][e.id] = Absent,
                      !.owner[BucketOf(e.kind)][e.id] = OwnerOf(v, e)]
      [] e.type = "TOOL_CALL_RESULT" -> [v EXCEPT !.owner["message"][e.id] = e.tag]
      [] e.type = "ACTIVITY_SNAPSHOT" ->
            IF e.replace \/ v.owner["activity"][e.id] = Absent
            THEN [v EXCEPT !.owner["activity"][e.id] = e.tag] ELSE v
      [] e.type = "STEP_STARTED" -> [v EXCEPT !.steps = @ \cup {<<e.tag, e.name>>}]
      [] e.type = "STEP_FINISHED" -> [v EXCEPT !.steps = @ \ {<<e.tag, e.name>>}]
      [] e.type = "SUBAGENT_STARTED" -> [v EXCEPT !.active = @ \cup {e.id}]
      [] e.type \in {"SUBAGENT_FINISHED", "SUBAGENT_ERROR"} ->
            [v EXCEPT !.active = @ \ {e.id}, !.closed = @ \cup {e.id}]
      [] e.type = "MESSAGES_SNAPSHOT" ->
            [v EXCEPT !.owner = Seeded(v, e.history, TRUE)]
      [] OTHER -> v

\* What a rejected event leaves behind: a text or reasoning chunk has already
\* been taken off the open map when its claim is refused.
Residue(v, e) ==
    IF ~v.ended /\ e.type = "CHUNK" /\ e.id # None /\ e.kind # "tool"
    THEN [v EXCEPT !.open[e.kind][e.id] = Absent] ELSE v

Observe(v, e) == IF Accepts(v, e) THEN Fold(v, e) ELSE Residue(v, e)

=============================================================================
