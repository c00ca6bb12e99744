---------------------------- MODULE ClientThread ----------------------------
(***************************************************************************)
(* A local conversation and its runs (crates/ag-ui/src/client/thread.rs):   *)
(* preflight, the lazily dispatched RunStream and its poll loop, answers to *)
(* interrupts and their submission, tool calls owed an answer, the          *)
(* subagents the applier tracks across runs, abort, drop, and restoring a   *)
(* snapshot in another process.  The server may send any event about calls  *)
(* and subagents, restate the conversation, and send nothing; text and      *)
(* state touch nothing that is kept here.  Explicit streams pass the chunk  *)
(* normalizer unchanged, and no update but Done is told apart.              *)
(***************************************************************************)
EXTENDS Events, Sequences, Naturals, FiniteSets

CONSTANTS
    Calls,          \* tool calls, a subset of Ids
    Answers,        \* the ids of tool messages
    Interrupts,     \* interrupt ids
    ApprovalOf,     \* the tool call an interrupt asks about, or None
    Runs,           \* run ids, and so the bound on runs
    Settings        \* what a thread may face, see Setting

\* "<call>-message", which carries a call whose start names no parent.
MessageOf(c) == <<"message of", c>>

Message == [id : Ids \cup {MessageOf(c) : c \in Calls},
            role : {"assistant", "tool"}, calls : SUBSET Calls]

\* The calls, the messages a TOOL_CALL_START may name as their parent, the
\* conversations a MESSAGES_SNAPSHOT may state, the interrupts and the (subagent,
\* parent) pairs a server may come up with; whether it starts a call again after
\* its answer; how many runs, and ThreadBuilder::verify.
Setting == [calls : SUBSET Calls, carriers : SUBSET (Ids \cup {None}),
            restated : SUBSET Seq(Message), interrupts : SUBSET Interrupts,
            announced : SUBSET (Subagents \X Owner), reuses : BOOLEAN, runs : SUBSET Runs, verify : BOOLEAN]

ASSUME ThreadAssumption ==
    /\ Calls \cup Answers \subseteq Ids
    /\ ApprovalOf \in [Interrupts -> Calls \cup {None}]
    /\ None \notin Runs
    /\ Runs \subseteq Nat
    /\ Settings \subseteq Setting

C == INSTANCE ClientVerifier

VARIABLES
    setting,    \* what this thread faces
    thread,     \* what a ThreadSnapshot saves
    expired,    \* pending interrupts whose expiry has passed
    stream,     \* the RunStream borrowing the thread
    pc,         \* poll_next: "out", before the abort "check" of a turn of its
                \* loop, the same with an update "ready", or in the "body"
    woken,      \* the consumer's task will poll the stream
    sends,      \* how often the pending interrupts were answered on the wire
    owed,       \* calls started, or restated or listed as pending without an
                \* answer, since they were last answered or decided
    ends        \* how each run ended, as last_run_end reported it

vars == <<setting, thread, expired, stream, pc, woken, sends, owed, ends>>

-----------------------------------------------------------------------------
(* The thread *)

Statuses == {"announced never", "running", "suspended", "finished", "failed", "aborted"}
Ends == {"none", "success", "interrupted", "failed", "cancelled", "aborted"}

Submission == [run : Runs, entries : SUBSET Interrupts,
               status : {"in flight", "unconfirmed"}]

\* An Option that is None holds nothing.
ASSUME AbsenceAssumption == None \notin Submission /\ None \notin Answers \X Calls

\* `listed` are the pending_tool_call_ids of a SuccessWithPendingToolCalls.
Threads == [interrupts : SUBSET Interrupts,
            decided : SUBSET Calls,
            submission : Submission \cup {None},
            used : SUBSET Runs,
            active : Runs \cup {None},
            last : Ends,
            listed : SUBSET Calls,
            messages : Seq(Message),
            subagents : [Subagents -> [status : Statuses, parent : Owner]]]

NewThread == [interrupts |-> {}, decided |-> {}, submission |-> None, used |-> {},
              active |-> None, last |-> "none", listed |-> {}, messages |-> <<>>,
              subagents |-> [s \in Subagents |->
                                [status |-> "announced never", parent |-> None]]]

\* `answer` is the message and call of a prepared tool message.
Streams == [phase : {"none", "prepared", "open"},
            run : Runs \cup {None}, resume : BOOLEAN,
            answer : (Answers \X Calls) \cup {None},
            verifier : C!Verifier, matched : BOOLEAN, started : SUBSET Calls,
            done : BOOLEAN, yielded : BOOLEAN,
            aborted : BOOLEAN, waking : BOOLEAN, waker : BOOLEAN]

NoStream == [phase |-> "none", run |-> None, resume |-> FALSE, answer |-> None,
             verifier |-> C!Fresh, matched |-> FALSE, started |-> {},
             done |-> FALSE, yielded |-> FALSE,
             aborted |-> FALSE, waking |-> FALSE, waker |-> FALSE]

Init ==
    /\ setting \in Settings
    /\ thread = NewThread
    /\ expired = {}
    /\ stream = NoStream
    /\ pc = "out"
    /\ woken = FALSE
    /\ sends = 0
    /\ owed = {}
    /\ ends = [r \in Runs |-> "none"]

-----------------------------------------------------------------------------
(* Preflight *)

Known(messages) == {messages[n].id : n \in DOMAIN messages}

Distinct(messages) == \A m, n \in DOMAIN messages : messages[m].id = messages[n].id => m = n

Carried(messages) ==
    UNION {messages[n].calls : n \in {k \in DOMAIN messages : messages[k].role = "assistant"}}

\* unanswered_tool_calls reads the transcript in order: an answer counts from
\* its place on, until the call appears again.
Answered(messages) ==
    {c \in Calls : \E n \in DOMAIN messages :
        /\ messages[n].role = "tool" /\ c \in messages[n].calls
        /\ \A k \in n..Len(messages) :
              messages[k].role = "assistant" => c \notin messages[k].calls}

Unanswered(t) ==
    ((Carried(t.messages) \cup t.listed) \ Answered(t.messages)) \ (t.decided \ t.listed)

Approvals(t) == {ApprovalOf[i] : i \in t.interrupts} \ {None}

\* validate_responses with expiry, of a response to every pending interrupt.
Answerable(t) == t.interrupts # {} /\ t.interrupts \cap expired = {}

\* Fault: an earlier submission does not hold another run back.
PreflightForgetful(resume, answering) ==
    /\ IF resume THEN Answerable(thread) ELSE thread.interrupts = {}
    /\ Unanswered(thread) \subseteq
          (IF resume THEN Approvals(thread) ELSE {}) \cup answering

Preflight(resume, answering) ==
    /\ thread.submission = None
    /\ IF resume THEN Answerable(thread) ELSE thread.interrupts = {}
    /\ Unanswered(thread) \subseteq
          (IF resume THEN Approvals(thread) ELSE {}) \cup answering

\* fresh_id, or an explicit run id that was not used before.
Fresh(r) == r \in setting.runs \ thread.used

-----------------------------------------------------------------------------
(* Preparing a run *)

Prepare(resume, answer) ==
    /\ stream.phase = "none"
    /\ \E r \in Runs :
          /\ Fresh(r) /\ \A q \in Runs : Fresh(q) => r <= q
          /\ stream' = [NoStream EXCEPT !.phase = "prepared", !.run = r,
                                        !.resume = resume, !.answer = answer]
    /\ woken' = TRUE
    /\ UNCHANGED <<thread, expired, pc, sends, owed, ends>>

\* run, and send up to the user's text.
Run == Preflight(FALSE, {}) /\ Prepare(FALSE, None)

\* resume_many, resume and decline.
Resume == Preflight(TRUE, {}) /\ Prepare(TRUE, None)

\* send_message with a tool message.
SendAnswer(m, c) ==
    /\ m \notin Known(thread.messages)
    /\ Preflight(FALSE, {c})
    /\ Prepare(FALSE, <<m, c>>)

\* push_message
PushAnswer(m, c) ==
    /\ stream.phase = "none"
    /\ m \notin Known(thread.messages)
    /\ thread' = [thread EXCEPT !.messages =
                    Append(@, [id |-> m, role |-> "tool", calls |-> {c}])]
    /\ owed' = owed \ {c}
    /\ UNCHANGED <<expired, stream, pc, woken, sends, ends>>

-----------------------------------------------------------------------------
(* How a run ends *)

\* unconfirm
Unconfirmed(t) ==
    IF t.submission = None THEN t ELSE [t EXCEPT !.submission.status = "unconfirmed"]

\* Fault: only the subagents at the top are stopped.
StoppedRoots(t) ==
    [t EXCEPT !.subagents = [s \in Subagents |->
        IF t.subagents[s].status = "running" /\ t.subagents[s].parent = None
        THEN [t.subagents[s] EXCEPT !.status = "aborted"] ELSE t.subagents[s]]]

\* abort_subagents
Stopped(t) ==
    [t EXCEPT !.subagents = [s \in Subagents |->
        IF t.subagents[s].status = "running"
        THEN [t.subagents[s] EXCEPT !.status = "aborted"] ELSE t.subagents[s]]]

\* terminate: a run that was never dispatched leaves no trace in the thread.
Terminate(t, end, listed) ==
    /\ stream' = [stream EXCEPT !.done = TRUE]
    /\ thread' = IF stream.phase = "open"
                 THEN [t EXCEPT !.last = end, !.listed = listed, !.active = None] ELSE t
    /\ ends' = IF stream.phase = "open" THEN [ends EXCEPT ![stream.run] = end] ELSE ends

\* fail, and the other ends that confirm nothing.
GiveUp(end) ==
    /\ Terminate(Stopped(Unconfirmed(thread)), end, {})
    /\ UNCHANGED <<expired, sends, owed>>

-----------------------------------------------------------------------------
(* One event, through ingest, handle, the verifier, the applier and emit. *)

\* An event may leave an update to return, once the abort flag was read.
Resumes == pc' \in {"check", "ready"} /\ UNCHANGED woken

Reading == pc = "body" /\ stream.phase = "open" /\ ~stream.done

\* The verifier's word on an event, when there is a verifier.
Passes(e) == setting.verify => C!Accepts(stream.verifier, e)
After(e) == IF setting.verify THEN C!Verify(stream.verifier, e) ELSE stream.verifier

\* RUN_STARTED, naming the requested thread and run.
Started ==
    LET e == RunStarted(NoOwners)
    IN  /\ Reading /\ Passes(e)
        /\ stream' = [stream EXCEPT !.matched = TRUE, !.verifier = After(e)]
        /\ Resumes
        /\ UNCHANGED <<thread, expired, sends, owed, ends>>

\* by_id: of messages with one id, the last is found.
Found(messages, n) == \A k \in DOMAIN messages : messages[k].id = messages[n].id => k <= n

\* tool_call_start: the call joins the message that carries it, unless that
\* message is no assistant's.
Placed(messages, c, parent) ==
    LET id == IF parent = None THEN MessageOf(c) ELSE parent
    IN  IF id \notin Known(messages)
        THEN Append(messages, [id |-> id, role |-> "assistant", calls |-> {c}])
        ELSE [n \in DOMAIN messages |->
                IF /\ messages[n].id = id /\ Found(messages, n)
                   /\ messages[n].role = "assistant"
                THEN [messages[n] EXCEPT !.calls = @ \cup {c}] ELSE messages[n]]

\* Fault: a decision stays good for a call that is started again.
ToolStartedDecided(c, parent) ==
    LET e == StartUnder(parent, c, None)
    IN  /\ Reading /\ Passes(e)
        /\ thread' = [thread EXCEPT !.messages = Placed(@, c, parent)]
        /\ stream' = [stream EXCEPT !.started = @ \cup {c}, !.verifier = After(e)]
        /\ owed' = owed \cup {c}
        /\ Resumes
        /\ UNCHANGED <<expired, sends, ends>>

ToolStarted(c, parent) ==
    LET e == StartUnder(parent, c, None)
    IN  /\ Reading /\ Passes(e)
        /\ setting.reuses \/ \A n \in DOMAIN thread.messages :
                        thread.messages[n].role = "tool" => c \notin thread.messages[n].calls
        /\ thread' = [thread EXCEPT !.messages = Placed(@, c, parent),
                                    !.decided = @ \ {c}]
        /\ stream' = [stream EXCEPT !.started = @ \cup {c}, !.verifier = After(e)]
        /\ owed' = owed \cup {c}
        /\ Resumes
        /\ UNCHANGED <<expired, sends, ends>>

ToolEnded(c) ==
    LET e == End("tool", c, None)
    IN  /\ Reading /\ Passes(e)
        /\ stream' = [stream EXCEPT !.verifier = After(e)]
        /\ Resumes
        /\ UNCHANGED <<thread, expired, sends, owed, ends>>

\* tool_call_result: a message id that is known keeps its place and its call.
ToolAnswered(m, c) ==
    LET e == ToolResult(m, c, None)
    IN  /\ Reading /\ Passes(e)
        /\ thread' = [thread EXCEPT !.messages =
                        IF m \in Known(@) THEN @
                        ELSE Append(@, [id |-> m, role |-> "tool", calls |-> {c}])]
        /\ stream' = [stream EXCEPT !.verifier = After(e)]
        /\ owed' = owed \ {c}
        /\ Resumes
        /\ UNCHANGED <<expired, sends, ends>>

\* What seed_owners reads in a conversation: all of it is the parent agent's.
OwnersIn(history) ==
    [NoOwners EXCEPT
        !["message"] = [i \in Ids |-> IF i \in Known(history) THEN None ELSE Absent],
        !["call"] = [i \in Ids |-> IF i \in Carried(history) THEN None ELSE Absent]]

\* merge_snapshot sorts the slots of a snapshot: the last one of an id takes the place
\* of the first message with that id, every other one is new and comes after them all.
Place(messages, history, k) ==
    IF Found(history, k) /\ history[k].id \in Known(messages)
    THEN CHOOSE n \in DOMAIN messages :
            /\ messages[n].id = history[k].id
            /\ \A m \in DOMAIN messages : messages[m].id = history[k].id => n <= m
    ELSE Len(messages) + k

\* Fault: a slot that took a place is copied, and appended with the new ones.
MergedTwice(messages, history) ==
    {SelectSeq(messages, LAMBDA m : m.id \in Known(history)) \o history}

\* The one sequence of all slots by their places; what has none is dropped.
Merged(messages, history) ==
    {[n \in DOMAIN history |-> history[order[n]]] :
        order \in {o \in [DOMAIN history -> DOMAIN history] :
            \A m, n \in DOMAIN history :
                m < n => Place(messages, history, o[m]) < Place(messages, history, o[n])}}

\* MESSAGES_SNAPSHOT: the server withdraws the calls it leaves out, and asks for those
\* it restates without an answer, unless they were decided.
Restated(history) ==
    LET e == MessagesSnapshot(OwnersIn(history))
    IN  /\ Reading /\ Passes(e)
        /\ \E merged \in Merged(thread.messages, history) :
              /\ thread' = [thread EXCEPT !.messages = merged]
              /\ owed' = (Carried(merged) \ Answered(merged)) \ thread.decided
        /\ stream' = [stream EXCEPT !.verifier = After(e)]
        /\ Resumes
        /\ UNCHANGED <<expired, sends, ends>>

\* subagent_started: an absent parent keeps the one of an earlier announcement.
SubagentAnnounced(s, parent) ==
    LET e == SubagentStarted(s, parent)
    IN  /\ Reading /\ Passes(e)
        /\ thread' = [thread EXCEPT !.subagents[s] =
                        [status |-> "running",
                         parent |-> IF parent = None THEN @.parent ELSE parent]]
        /\ stream' = [stream EXCEPT !.verifier = After(e)]
        /\ Resumes
        /\ UNCHANGED <<expired, sends, owed, ends>>

\* subagent_finished and subagent_error.
SubagentConcluded(s, status) ==
    LET e == IF status = "failed" THEN SubagentError(s) ELSE SubagentFinished(s)
    IN  /\ Reading /\ Passes(e)
        /\ thread' = [thread EXCEPT !.subagents[s].status = status]
        /\ stream' = [stream EXCEPT !.verifier = After(e)]
        /\ Resumes
        /\ UNCHANGED <<expired, sends, owed, ends>>

-----------------------------------------------------------------------------
(* RUN_FINISHED and everything else that ends a run *)

\* confirm_interrupt_tool_decisions, before the submission is cleared: a call
\* started again in this run asks anew.
Confirmed(t) ==
    IF t.submission = None THEN {}
    ELSE {ApprovalOf[i] : i \in t.interrupts \cap t.submission.entries} \ ({None} \cup stream.started)

\* RUN_FINISHED naming the run that RUN_STARTED named.
Closing == Reading /\ stream.matched /\ Passes(RunFinished)

Succeeded(listed) ==
    /\ Closing
    /\ listed \subseteq owed \cup thread.decided
    /\ Terminate([thread EXCEPT !.decided = @ \cup Confirmed(thread),
                                !.submission = None, !.interrupts = {}],
                 "success", listed)
    /\ sends' = 0
    /\ owed' = (owed \ Confirmed(thread)) \cup (listed \ Answered(thread.messages))
    /\ pc' = "check"
    /\ UNCHANGED <<expired, woken>>

\* Fault: new questions leave the submission of the old ones in place.
InterruptedAnew(asked) ==
    /\ Closing
    /\ asked # {}
    /\ Terminate(Unconfirmed([thread EXCEPT !.interrupts = asked]), "interrupted", {})
    /\ sends' = 0
    /\ owed' = owed \ Confirmed(thread)
    /\ expired' = expired \ asked
    /\ pc' = "check"
    /\ UNCHANGED woken

Interrupted(asked) ==
    /\ Closing
    /\ asked # {}
    /\ Terminate([thread EXCEPT !.decided = @ \cup Confirmed(thread),
                                !.submission = None, !.interrupts = asked],
                 "interrupted", {})
    /\ sends' = 0
    /\ owed' = owed \ Confirmed(thread)
    /\ expired' = expired \ asked
    /\ pc' = "check"
    /\ UNCHANGED woken

\* A stop the server confirms says nothing about the submission.
Cancelled == Closing /\ GiveUp("cancelled") /\ pc' = "check" /\ UNCHANGED woken

\* RUN_ERROR, a transport error, the end of the stream before its terminal, an
\* event for another run, and every event the verifier or the applier refuses.
Fail ==
    /\ Reading
    /\ GiveUp("failed")
    /\ pc' = "check"
    /\ UNCHANGED woken

Receive ==
    \/ Started
    \/ \E c \in setting.calls :
          \/ \E p \in setting.carriers : ToolStarted(c, p)
          \/ ToolEnded(c)
          \/ \E m \in Answers : ToolAnswered(m, c)
    \/ \E history \in setting.restated : Restated(history)
    \/ \E s \in Subagents, p \in Owner :
          /\ <<s, p>> \in setting.announced
          /\ \/ SubagentAnnounced(s, p)
             \/ \E status \in {"suspended", "finished", "failed"} : SubagentConcluded(s, status)
    \/ \E listed \in SUBSET setting.calls : Succeeded(listed)
    \/ \E asked \in SUBSET setting.interrupts : Interrupted(asked)
    \/ Cancelled
    \/ Fail

-----------------------------------------------------------------------------
(* poll_next *)

\* The waker is registered before the abort flag is read.
Register ==
    /\ pc = "out" /\ woken /\ stream.phase # "none"
    /\ stream' = [stream EXCEPT !.waker = TRUE]
    /\ woken' = FALSE
    /\ pc' = "check"
    /\ UNCHANGED <<thread, expired, sends, owed, ends>>

\* A terminal already applied wins over a later abort; a consumer that got an
\* update polls again.
Check ==
    /\ pc \in {"check", "ready"}
    /\ pc' = IF pc = "ready" THEN "out" ELSE "body"
    /\ IF stream.aborted /\ ~stream.done
       THEN IF stream.phase = "open" THEN GiveUp("aborted")
            ELSE Terminate(thread, "aborted", {}) /\ UNCHANGED <<expired, sends, owed>>
       ELSE UNCHANGED <<thread, expired, stream, sends, owed, ends>>
    /\ woken' = (woken \/ pc = "ready")

\* The first poll dispatches, unless an interrupt expired since preflight.
Dispatch ==
    /\ pc = "body" /\ stream.phase = "prepared" /\ ~stream.done
    /\ stream.resume => Answerable(thread)
    /\ stream' = [stream EXCEPT !.phase = "open"]
    /\ thread' = [thread EXCEPT
            !.used = @ \cup {stream.run},
            !.active = stream.run,
            !.messages = IF stream.answer = None THEN @
                         ELSE Append(@, [id |-> stream.answer[1], role |-> "tool",
                                         calls |-> {stream.answer[2]}]),
            !.submission = IF stream.resume
                           THEN [run |-> stream.run, entries |-> thread.interrupts,
                                 status |-> "in flight"]
                           ELSE @]
    /\ sends' = IF stream.resume THEN sends + 1 ELSE sends
    /\ owed' = IF stream.answer = None THEN owed ELSE owed \ {stream.answer[2]}
    /\ UNCHANGED <<expired, pc, woken, ends>>

Expired ==
    /\ pc = "body" /\ stream.phase = "prepared" /\ ~stream.done
    /\ stream.resume /\ ~Answerable(thread)
    /\ GiveUp("failed")
    /\ pc' = "check"
    /\ UNCHANGED woken

\* Nothing from the transport yet; it holds the waker too.
Pending ==
    /\ Reading
    /\ pc' = "out"
    /\ UNCHANGED <<thread, expired, stream, woken, sends, owed, ends>>

\* Done, the last update.
Yield ==
    /\ pc = "body" /\ stream.done
    /\ stream' = [stream EXCEPT !.yielded = TRUE]
    /\ pc' = "out"
    /\ UNCHANGED <<thread, expired, woken, sends, owed, ends>>

Poll == Register \/ Check \/ Dispatch \/ Expired \/ Pending \/ Yield \/ Receive

-----------------------------------------------------------------------------
(* Around the poll *)

TransportReady ==
    /\ stream.phase = "open" /\ ~stream.done
    /\ woken' = TRUE
    /\ UNCHANGED <<thread, expired, stream, pc, sends, owed, ends>>

\* Fault: the flag is set and nobody woken.
AbortQuietly ==
    /\ stream.phase # "none" /\ ~stream.aborted
    /\ stream' = [stream EXCEPT !.aborted = TRUE]
    /\ UNCHANGED <<thread, expired, pc, woken, sends, owed, ends>>

\* AbortHandle::abort, on any thread: the flag, then the waker.
Abort ==
    /\ stream.phase # "none" /\ ~stream.aborted
    /\ stream' = [stream EXCEPT !.aborted = TRUE, !.waking = TRUE]
    /\ UNCHANGED <<thread, expired, pc, woken, sends, owed, ends>>

AbortWake ==
    /\ stream.waking
    /\ stream' = [stream EXCEPT !.waking = FALSE, !.waker = FALSE]
    /\ woken' = (woken \/ stream.waker)
    /\ UNCHANGED <<thread, expired, pc, sends, owed, ends>>

\* Fault: dropping a stream that reached its terminal ends the run again.
DropTwice ==
    /\ pc = "out" /\ stream.phase # "none"
    /\ stream' = NoStream
    /\ woken' = FALSE
    /\ IF stream.phase = "open"
       THEN /\ thread' = [Stopped(Unconfirmed(thread)) EXCEPT
                            !.last = "aborted", !.listed = {}, !.active = None]
            /\ ends' = [ends EXCEPT ![stream.run] = "aborted"]
       ELSE UNCHANGED <<thread, ends>>
    /\ UNCHANGED <<expired, pc, sends, owed>>

\* RunStream::drop
Drop ==
    /\ pc = "out" /\ stream.phase # "none"
    /\ stream' = NoStream
    /\ woken' = FALSE
    /\ IF stream.phase = "open" /\ ~stream.done
       THEN /\ thread' = [Stopped(Unconfirmed(thread)) EXCEPT
                            !.last = "aborted", !.listed = {}, !.active = None]
            /\ ends' = [ends EXCEPT ![stream.run] = "aborted"]
       ELSE UNCHANGED <<thread, ends>>
    /\ UNCHANGED <<expired, pc, sends, owed>>

\* The nth ancestor of a subagent.
Ancestor(t, s) ==
    LET up[n \in 0..Cardinality(Subagents)] ==
            IF n = 0 THEN s
            ELSE IF up[n - 1] = None THEN None ELSE t.subagents[up[n - 1]].parent
    IN  up

\* validate_snapshot, of ids, ancestry and the submission.
Restorable(t) ==
    /\ Distinct(t.messages)
    /\ t.active \in t.used \cup {None}
    /\ \A s \in Subagents : t.subagents[s].status # "announced never" =>
          /\ \A n \in 1..Cardinality(Subagents) :
                Ancestor(t, s)[n] # None =>
                   t.subagents[Ancestor(t, s)[n]].status # "announced never"
          /\ Ancestor(t, s)[Cardinality(Subagents)] = None
    /\ t.submission # None =>
          /\ t.submission.status = "in flight" => t.active = t.submission.run
          /\ t.submission.run \in t.used
          /\ t.interrupts # {} /\ t.submission.entries = t.interrupts

\* Another process restores the snapshot of this moment, in the middle of a run
\* or between two; this one is gone, and the new thread verifies.
Restart ==
    /\ pc = "out"
    /\ Restorable(thread)
    /\ thread' = [Stopped(Unconfirmed(thread)) EXCEPT
                    !.active = None,
                    !.last = IF thread.active = None THEN @ ELSE "aborted",
                    !.listed = IF thread.active = None THEN @ ELSE {}]
    /\ ends' = IF thread.active = None THEN ends
               ELSE [ends EXCEPT ![thread.active] = "aborted"]
    /\ stream' = NoStream
    /\ woken' = FALSE
    /\ setting' = [setting EXCEPT !.verify = TRUE]
    /\ UNCHANGED <<expired, pc, sends, owed>>

Expire(i) ==
    /\ i \in thread.interrupts \ expired
    /\ expired' = expired \cup {i}
    /\ UNCHANGED <<thread, stream, pc, woken, sends, owed, ends>>

Step ==
    \/ Run
    \/ Resume
    \/ \E m \in Answers, c \in setting.calls : SendAnswer(m, c) \/ PushAnswer(m, c)
    \/ Poll
    \/ TransportReady
    \/ Abort
    \/ AbortWake
    \/ Drop
    \/ \E i \in Interrupts : Expire(i)

Next == (Step /\ UNCHANGED setting) \/ Restart

Spec == Init /\ [][Next]_vars

\* The executor polls a woken stream, a poll comes to its end, and a call of
\* abort() does; nothing says the server ever sends.
FairSpec ==
    Spec /\ WF_vars(Poll /\ UNCHANGED setting) /\ WF_vars(AbortWake /\ UNCHANGED setting)

-----------------------------------------------------------------------------
(* Properties *)

TypeOK ==
    /\ setting \in Setting
    /\ thread \in Threads
    /\ expired \subseteq Interrupts
    /\ stream \in Streams
    /\ pc \in {"out", "check", "ready", "body"}
    /\ woken \in BOOLEAN
    /\ sends \in Nat
    /\ owed \subseteq Calls
    /\ ends \in [Runs -> Ends]

\* A decision goes out once: the answers to a set of questions are on the wire
\* at most once before a terminal of the server confirms them, whatever fails,
\* is aborted, dropped, cancelled or restored in between.
DecidedOnce == sends <= 1

\* Whatever the snapshot of this moment is, another process can restore it, as long as
\* a server that restates the conversation lists no message twice: the verifier lets
\* it, and merge_snapshot keeps both.
SnapshotRestores == Restorable(thread)

\* Between runs nothing is left in flight: no submission and no subagent.
NothingInFlight ==
    thread.active = None =>
        /\ thread.submission # None => thread.submission.status = "unconfirmed"
        /\ \A s \in Subagents : thread.subagents[s].status # "running"

\* The terminal a run reported stands: a late abort, a drop or a restart does
\* not rewrite how the run ended.
TerminalStands ==
    [][\A r \in Runs : ends[r] # "none" => ends'[r] = ends[r]]_vars

\* Each request carries an answer to every call a server started or restated and left
\* open: a result, a tool message or the decision asked for after the last start; a
\* call withdrawn with its message is owed none.  A call started again after its answer
\* keeps its old place, and its old answer counts.
CallsAnswered ==
    [][thread'.used # thread.used /\ ~setting.reuses =>
          owed' \subseteq (IF stream.resume THEN Approvals(thread) ELSE {})]_vars

\* An abort ends the run for a consumer that keeps polling, also while the
\* server is silent and whichever side of the poll it falls on.
AbortEndsRun ==
    (stream.aborted /\ stream.phase = "open") ~> (stream.yielded \/ stream.phase = "none")

=============================================================================
