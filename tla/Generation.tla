----------------------------- MODULE Generation -----------------------------
(***************************************************************************)
(* An agent that has a model write A2UI, turn after turn of a conversation   *)
(* (crates/ag-ui-a2ui/src/toolkit: recovery, parser, history, ops, envelope; *)
(* author.rs; agui.rs).  The agent keeps nothing between turns: what the     *)
(* user is looking at is read back from the history.                         *)
(*                                                                         *)
(* `screen` is the renderer, a SurfaceStore fed with every batch that is     *)
(* published.  A model's response is a sequence of blocks between tags, or   *)
(* JSON without any; the characters are left out, and of the text of an      *)
(* error only whether it quotes the tags is kept.                            *)
(***************************************************************************)
EXTENDS Validator

CONSTANTS
    Responses,          \* what the model may write
    Names,              \* surface ids in the order next_surface_id tries them
    MaxAttempts,        \* MAX_A2UI_ATTEMPTS
    Version, Contract,  \* the author's protocol version and catalog id
    EchoPolicy,         \* with_send_data_model: None, TRUE or FALSE
    CarefulHost,        \* an error that quotes the tags is not recorded as text
    MaxEntries          \* bound: entries of history

ASSUME GenerationAssumption ==
    /\ Range(Names) \subseteq SurfaceIds
    /\ MaxAttempts \in Nat \ {0} /\ MaxEntries \in Nat
    /\ CarefulHost \in BOOLEAN /\ Version \in Versions /\ Contract \in CatalogIds

VARIABLES
    history,        \* the conversation, oldest first
    screen,         \* what the renderer shows
    validated,      \* the author's ValidatedSurface for each surface it owns
    turn            \* the generation in progress, or Idle
vars == <<history, screen, validated, turn>>

Catalog(id) == CatalogOf[id]
Operations(messages) == [n \in DOMAIN messages |-> messages[n].operation]
Touched(operations) == {operations[n].surface : n \in DOMAIN operations}
On(s, operations) == SelectSeq(operations, LAMBDA operation : operation.surface = s)
DecodeAll(messages) == \A n \in DOMAIN messages : Decodes(messages[n])

----------------------------------------------------------------------------
(* Responses: parse_response repairs a model's slips, the author and the     *)
(* history read strictly.                                                   *)

Block(messages) == [tag |-> "exact", closed |-> TRUE, slip |-> "none", messages |-> messages]
InBlocks(blocks) == [bare |-> FALSE, blocks |-> blocks]
Bare(messages) == [bare |-> TRUE, blocks |-> <<Block(messages)>>]
Some(response, Test(_)) == \E n \in DOMAIN response.blocks : Test(response.blocks[n])
Messages(response) == FlattenSeq([n \in DOMAIN response.blocks |-> response.blocks[n].messages])

\* unwrap_response: the tags, in any case and with any attributes.
UnwrapFault(response) ==
    CASE response.bare \/ response.blocks = <<>> -> "no tags"
      [] Some(response, LAMBDA b : b.closed /\ b.messages = <<>>) -> "empty"
      [] Some(response, LAMBDA b : ~b.closed) -> "no close tag"
      [] OTHER -> None
ReadFault(response, slips) ==
    IF UnwrapFault(response) # None THEN UnwrapFault(response)
    ELSE IF Some(response, LAMBDA b : b.slip \notin slips) THEN "not JSON" ELSE None
Repaired == {"none", "commas", "quotes"}        \* parse_and_fix
Strict == {"none"}                              \* serde_json
ParseFault(response) == ReadFault(response, Repaired)
DocumentFault(response) == IF response.bare THEN None ELSE ReadFault(response, Strict)

\* The only message that quotes the opening tag.
QuotesTags(errors) == "no tags" \in errors

----------------------------------------------------------------------------
(* History: entries and the operations they hold.  An entry travels as the   *)
(* text of a message or as the structured content of an activity.            *)

Envelope(channel, operations) == [kind |-> "operations", channel |-> channel, operations |-> operations]
ErrorEnvelope(channel, errors) == [kind |-> "error", channel |-> channel, errors |-> errors]
AnswerText(response) == [kind |-> "answer", channel |-> "text", response |-> response]

Extracted(ok, operations) == [ok |-> ok, operations |-> IF ok THEN operations ELSE <<>>]
\* contains(A2UI_OPEN_TAG) asks for the tag exactly as it is written.
FromAnswer(response) ==
    CASE response.bare -> Extracted(DecodeAll(Messages(response)), Operations(Messages(response)))
      [] ~response.bare /\ Some(response, LAMBDA b : b.tag = "exact") ->
           Extracted(ReadFault(response, Strict) = None /\ DecodeAll(Messages(response)),
                     Operations(Messages(response)))
      [] OTHER -> Extracted(TRUE, <<>>)
TryExtract(entry) ==
    CASE entry.kind = "operations" -> Extracted(TRUE, entry.operations)
      [] entry.kind = "error" -> Extracted(entry.channel = "data" \/ ~QuotesTags(entry.errors), <<>>)
      [] entry.kind = "answer" -> FromAnswer(entry.response)

Readable(entries) == \A n \in DOMAIN entries : TryExtract(entries[n]).ok
Said(entries) == FlattenSeq([n \in DOMAIN entries |-> TryExtract(entries[n]).operations])

\* try_find_prior_surface_by_id: one unreadable entry fails the whole replay.
FindById(entries, s) ==
    IF Readable(entries) THEN Replay(EmptyStore, On(s, Said(entries))) ELSE [ok |-> FALSE, store |-> EmptyStore]
Found(entries, s) == FindById(entries, s).ok /\ IsLive(FindById(entries, s).store, s)
\* find_prior_surface: the surface of the last operation.
Latest(entries) == IF Said(entries) = <<>> THEN None ELSE Last(Said(entries)).surface
\* The observed store: every surface the history replays.
Observed(entries) ==
    [s \in {t \in Touched(Said(entries)) : FindById(entries, t).ok} |-> FindById(entries, s).store[s]]

\* What a generation starts from.
Prior(given, operations, store) == [given |-> given, operations |-> operations, store |-> store]
NoPrior == Prior(FALSE, <<>>, EmptyStore)

Unused(entries) == {n \in DOMAIN Names : Names[n] \notin Touched(Said(entries))}
\* Fault: the id is not checked against the history.
FirstSurfaceId(entries) == Names[1]
NextSurfaceId(entries) == Names[Min(Unused(entries))]

----------------------------------------------------------------------------
(* recovery.rs: interpreting one response.                                  *)

Accepted(operations, store) == [ok |-> TRUE, operations |-> operations, errors |-> {}, store |-> store]
Rejected(errors) == [ok |-> FALSE, operations |-> <<>>, errors |-> errors, store |-> EmptyStore]

SelectTarget(operations, store, target) ==
    IF target \in Touched(operations) /\ IsLive(store, target)
    THEN Accepted(operations, store) ELSE Rejected({"invalid_value"})
Judged(messages, prior, target) ==
    IF prior.given
    THEN LET result == ValidateUpdates(Catalog(Contract), IncrementalUpdate, prior.store, Operations(messages))
         IN  IF result.ok THEN SelectTarget(Operations(messages), result.store, target)
             ELSE Rejected({"invalid_value"})
    ELSE LET errors == ValidateMessages(Catalog(Contract), FullSurface, messages)
         IN  IF errors = {}
             THEN SelectTarget(Operations(messages), Replay(EmptyStore, Operations(messages)).store, target)
             ELSE Rejected(CodesOf(errors))
Interpret(response, prior, target) ==
    CASE ParseFault(response) # None -> Rejected({"empty_components", ParseFault(response)})
      [] ParseFault(response) = None /\ ~DecodeAll(Messages(response)) -> Rejected({"empty_components"})
      [] OTHER -> Judged(Messages(response), prior, target)

----------------------------------------------------------------------------
(* author.rs: one surface, one version, one catalog.                        *)

FitsContract(message, s, edit) ==
    /\ SchemaAccepts(Catalog(Contract), message)
    /\ message.version = Version /\ message.operation.surface = s
    /\ message.operation.op \in {"updateComponents", "updateDataModel"}
       \/ /\ message.operation.op = "createSurface" /\ ~edit
          /\ message.operation.catalog = Contract
          /\ EchoPolicy # None => (message.operation.echo = TRUE) = EchoPolicy
Conforms(s, messages, prior) ==
    LET result == Replay(prior.store, Operations(messages))
    IN  /\ messages # <<>>
        /\ \A n \in DOMAIN messages : FitsContract(messages[n], s, prior.given)
        /\ result.ok /\ IsLive(result.store, s)
        /\ SchemaAcceptsSurface(Catalog(Contract), s, result.store[s])
\* An edit validates the retained history again, as a creation.
Rewired(operations) == [n \in DOMAIN operations |-> [Wire(operations[n]) EXCEPT !.version = Version]]
Authored(s, messages, prior) ==
    IF prior.given /\ ~Conforms(s, Rewired(prior.operations), NoPrior) THEN Rejected({"invalid_value"})
    ELSE IF Conforms(s, messages, prior)
         THEN Accepted(Operations(messages), Replay(prior.store, Operations(messages)).store)
         ELSE Rejected({"invalid_value"})
Document(response, s, prior) ==
    IF DocumentFault(response) # None THEN Rejected({"invalid_value", DocumentFault(response)})
    ELSE Authored(s, Messages(response), prior)

----------------------------------------------------------------------------
(* A turn.  `log` is what on_activity was told, with the errors the prompt   *)
(* of each attempt carries.                                                  *)

Idle == [phase |-> "idle"]
Activity(status, attempt, errors) == [status |-> status, attempt |-> attempt, errors |-> errors]
Begun(by, target, prior) ==
    [phase |-> "asking", by |-> by, target |-> target, prior |-> prior, attempt |-> 1, errors |-> {},
     response |-> None, operations |-> <<>>, log |-> <<Activity("started", 1, {})>>]

Init ==
    /\ history = <<>>
    /\ screen = EmptyStore
    /\ validated = <<>>
    /\ turn = Idle

CanBegin == turn = Idle /\ Len(history) < MaxEntries

\* The prompt asks for a new surface under an id nothing in history uses.
Create ==
    /\ CanBegin /\ Unused(history) # {}
    /\ turn' = Begun("recovery", NextSurfaceId(history), NoPrior)
    /\ UNCHANGED <<history, screen, validated>>

\* The prompt asks for changes to what the history says is on screen.
EditLatest ==
    /\ CanBegin /\ Latest(history) \notin {None} \cup DOMAIN validated
    /\ Found(history, Latest(history))
    /\ turn' = Begun("recovery", Latest(history), Prior(TRUE, <<>>, Observed(history)))
    /\ UNCHANGED <<history, screen, validated>>

AuthorCreate ==
    /\ CanBegin /\ Unused(history) # {}
    /\ turn' = Begun("author", NextSurfaceId(history), NoPrior)
    /\ UNCHANGED <<history, screen, validated>>

AuthorEdit(s) ==
    /\ CanBegin /\ s \in DOMAIN validated
    /\ turn' = Begun("author", s, validated[s])
    /\ UNCHANGED <<history, screen, validated>>

Outcome(response) ==
    IF turn.by = "recovery" THEN Interpret(response, turn.prior, turn.target)
    ELSE Document(response, turn.target, turn.prior)

\* The model keeps its hands off the other surfaces that are shown.
Obedient(response) == Touched(Operations(Messages(response))) \cap LiveIn(screen) \subseteq {turn.target}

Log(activities) == IF turn.by = "recovery" THEN turn.log \o activities ELSE turn.log
Succeed(response, outcome) ==
    /\ outcome.ok
    /\ turn' = [turn EXCEPT !.phase = "accepted", !.response = response, !.operations = outcome.operations,
                            !.log = Log(<<Activity("succeeded", turn.attempt, {})>>)]

\* Fault: the prompt of the next attempt still carries the errors before these.
RetryBehind(outcome) ==
    /\ ~outcome.ok /\ turn.attempt < MaxAttempts
    /\ turn' = [turn EXCEPT !.attempt = @ + 1, !.errors = outcome.errors,
                            !.log = Log(<<Activity("retrying", turn.attempt, outcome.errors),
                                          Activity("started", turn.attempt + 1, turn.errors)>>)]
Retry(outcome) ==
    /\ ~outcome.ok /\ turn.attempt < MaxAttempts
    /\ turn' = [turn EXCEPT !.attempt = @ + 1, !.errors = outcome.errors,
                            !.log = Log(<<Activity("retrying", turn.attempt, outcome.errors),
                                          Activity("started", turn.attempt + 1, outcome.errors)>>)]

GiveUp(outcome) ==
    /\ ~outcome.ok /\ turn.attempt >= MaxAttempts
    /\ turn' = [turn EXCEPT !.phase = "exhausted", !.errors = outcome.errors,
                            !.log = Log(<<Activity("failed", turn.attempt, outcome.errors)>>)]

\* The model answers, and the answer is interpreted at once.
Answer(response) ==
    /\ turn.phase = "asking" /\ Obedient(response)
    /\ \E outcome \in {Outcome(response)} : Succeed(response, outcome) \/ Retry(outcome) \/ GiveUp(outcome)
    /\ UNCHANGED <<history, screen, validated>>

\* Whatever `generate` returns as an error ends the turn at once.
ProviderError ==
    /\ turn.phase = "asking"
    /\ turn' = Idle
    /\ UNCHANGED <<history, screen, validated>>

\* The batch goes to the renderer, and into the history as the envelope or, from
\* a model that was strict, as the answer itself.
Recorded(entry) ==
    \/ \E channel \in {"text", "data"} : entry = Envelope(channel, turn.operations)
    \/ entry = AnswerText(turn.response) /\ FromAnswer(turn.response) = Extracted(TRUE, turn.operations)
Owned ==
    Prior(TRUE, turn.prior.operations \o turn.operations, Replay(turn.prior.store, turn.operations).store)
Publish(entry) ==
    /\ turn.phase = "accepted" /\ Recorded(entry)
    /\ history' = Append(history, entry)
    /\ screen' = Replay(screen, turn.operations).store
    /\ validated' = IF turn.by = "author" THEN Set(validated, turn.target, Owned) ELSE validated
    /\ turn' = Idle

ReportFailure(channel) ==
    /\ turn.phase = "exhausted"
    /\ CarefulHost => (channel = "data" \/ ~QuotesTags(turn.errors))
    /\ history' = Append(history, ErrorEnvelope(channel, turn.errors))
    /\ turn' = Idle
    /\ UNCHANGED <<screen, validated>>

Ask == Create \/ EditLatest \/ AuthorCreate \/ \E s \in SurfaceIds : AuthorEdit(s)
Answered == \E response \in Responses : Answer(response)
Entries ==
    {Envelope(channel, turn.operations) : channel \in {"text", "data"}} \cup {AnswerText(turn.response)}
Conclude ==
    \/ turn.phase = "accepted" /\ \E entry \in Entries : Publish(entry)
    \/ \E channel \in {"text", "data"} : ReportFailure(channel)
Next == Ask \/ Answered \/ ProviderError \/ Conclude

Spec == Init /\ [][Next]_vars

----------------------------------------------------------------------------
(* What the agent relies on.                                                *)

\* What the history replays is what the user sees, surface by surface and the
\* deleted ones included, and what the author holds of its surfaces is on screen:
\* no batch that was accepted is refused by the renderer, no entry hides another.
ScreenIsReplayed ==
    /\ Readable(history) /\ Observed(history) = screen
    /\ \A s \in DOMAIN validated : validated[s].store[s] = screen[s]

\* Every surface shown can be drawn: its types are known, no component holds
\* itself however many edits it took, and an item's binding is read under a
\* template only.  Stated over sets of ids, not by the validator's searches.
Shown(s) == Range(screen[s].components)
ShownIds(s) == {c.id : c \in Shown(s)}
Holds(s, id, other, plain) ==
    \E c \in Shown(s) : c.id = id /\ \E ref \in Range(c.children) : ref.to = other /\ (plain => ~IsTemplate(ref))
Acyclic(s) == \A ids \in SUBSET ShownIds(s) \ {{}} : \E id \in ids : \A other \in ids : ~Holds(s, id, other, FALSE)
\* The ids drawn with no template above them.
Outside(s, ids) ==
    /\ \A id \in ShownIds(s) : id = Root \/ (\A other \in ShownIds(s) : ~Holds(s, other, id, FALSE)) => id \in ids
    /\ \A id \in ids, other \in ShownIds(s) : Holds(s, id, other, TRUE) => other \in ids
ItemBindings(c) == {ref \in c.reads \cup {r.each : r \in {q \in Range(c.children) : IsTemplate(q)}} : ~ref.absolute}
InScope(s) ==
    \E ids \in SUBSET ShownIds(s) : Outside(s, ids) /\ \A c \in Shown(s) : c.id \in ids => ItemBindings(c) = {}
Belongs(catalog, parent, child) == Allows(catalog.components[child].allowedParents, parent)
\* On the author's surfaces every type stands where the catalog lets it.
Composed(s, catalog) ==
    \A c \in Shown(s) :
        /\ c.id = Root => Belongs(catalog, "Surface", c.type)
        /\ \A d \in Shown(s) : Holds(s, c.id, d.id, FALSE) => Belongs(catalog, c.type, d.type)
ShownIsSound ==
    \A s \in LiveIn(screen) :
        /\ \A c \in Shown(s) : Defines(Catalog(screen[s].catalog), c.type)
        /\ Cardinality(Shown(s)) = Cardinality(ShownIds(s))
        /\ Acyclic(s) /\ InScope(s)
        /\ s \in DOMAIN validated => Composed(s, Catalog(Contract))

\* The activities of a turn tell it in order: each attempt once, its prompt
\* carrying the errors of the attempt before and no others, and a failure only
\* after the last attempt.
EveryAttemptIsTold ==
    turn # Idle /\ turn.by = "recovery" =>
        /\ \A n \in DOMAIN turn.log :
               /\ turn.log[n].attempt = (n + 1) \div 2 /\ turn.log[n].attempt <= MaxAttempts
               /\ turn.log[n].status = "started" <=> n % 2 = 1
               /\ n % 2 = 1 /\ n > 1 => turn.log[n].errors = turn.log[n - 1].errors
               /\ turn.log[n].status = "retrying" => n < Len(turn.log) /\ turn.log[n].errors # {}
        /\ turn.phase = "exhausted" <=> Last(turn.log) = Activity("failed", MaxAttempts, turn.errors)
        /\ turn.phase = "accepted" <=> Last(turn.log).status = "succeeded"

\* A generation that failed contributes nothing to the history and hides nothing
\* of it (history.rs:21).
FailuresContributeNothing ==
    [][\A channel \in {"text", "data"} : ReportFailure(channel) =>
          \A s \in SurfaceIds : FindById(history', s) = FindById(history, s)]_vars
=============================================================================
