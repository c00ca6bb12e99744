-------------------------- MODULE ChunkNormalizer --------------------------
(***************************************************************************)
(* The client's chunk stage (crates/ag-ui/src/client/chunks.rs): expands    *)
(* *_CHUNK events into START / CONTENT / END, remembering per owner the one *)
(* stream in flight.  `open` is the Vec<Open>; a result is what `normalize` *)
(* appends to `out` and the `open` it leaves.                               *)
(***************************************************************************)
EXTENDS Events, Integers, Sequences, SequencesExt

\* `owed`: the normalizer emitted the START and owes the END.
Stream == [kind : ChunkKinds, id : Ids, owed : BOOLEAN, owner : Owner]

Result(ok, out, open) == [ok |-> ok, out |-> out, open |-> open]

-----------------------------------------------------------------------------
(* Bookkeeping *)

\* settle: the END owed for a stream, carrying its attribution.
Settle(stream) ==
    IF stream.owed THEN <<End(stream.kind, stream.id, stream.owner)>> ELSE <<>>

OfOwner(open, owner) == SelectInSeq(open, LAMBDA s : s.owner = owner)
OfId(open, kind, id) == SelectInSeq(open, LAMBDA s : s.kind = kind /\ s.id = id)

\* The removal of one stream, by its index; 0 when there is none.
CloseAt(open, n) ==
    IF n = 0 THEN Result(TRUE, <<>>, open)
    ELSE Result(TRUE, Settle(open[n]), RemoveAt(open, n))

CloseOwner(open, owner) == CloseAt(open, OfOwner(open, owner))

\* Fault: the stream is forgotten, its END not emitted.
ForgetId(open, kind, id) ==
    Result(TRUE, <<>>, SelectSeq(open, LAMBDA s : ~(s.kind = kind /\ s.id = id)))

CloseId(open, kind, id) == CloseAt(open, OfId(open, kind, id))
CloseAll(open) ==
    LET ends[n \in 0..Len(open)] == IF n = 0 THEN <<>> ELSE ends[n - 1] \o Settle(open[n])
    IN  Result(TRUE, ends[Len(open)], <<>>)

\* The streams but those under an id.
Others(open, kind, id) ==
    LET others[n \in 0..Len(open)] ==
            IF n = 0 THEN <<>>
            ELSE IF open[n].kind = kind /\ open[n].id = id THEN others[n - 1]
            ELSE Append(others[n - 1], open[n])
    IN  others[Len(open)]

\* owner_of: the tag, else the owner of the stream open under that id.
OwnerOf(open, kind, id, tag) ==
    LET n == OfId(open, kind, id)
    IN  IF tag # None THEN tag ELSE IF n = 0 THEN None ELSE open[n].owner

\* current: the id of the owner's stream, if it is of this kind.
Current(open, kind, owner) ==
    LET n == OfOwner(open, owner)
    IN  IF n # 0 /\ open[n].kind = kind THEN open[n].id ELSE None

\* stream_id: the stream a chunk continues; None when that is ambiguous.
StreamId(open, chunk) ==
    LET ofKind == {n \in DOMAIN open : open[n].kind = chunk.kind}
        own == Current(open, chunk.kind, chunk.tag)
    IN  IF chunk.id # None THEN chunk.id
        ELSE IF chunk.tag # None \/ own # None THEN own
        ELSE IF \E n \in ofKind : ofKind = {n} THEN open[CHOOSE n \in ofKind : TRUE].id ELSE None

-----------------------------------------------------------------------------
(* text_chunk, tool_chunk, reasoning_chunk: every chunk here has a delta. *)

ExpandChunk(open, chunk) ==
    LET id == StreamId(open, chunk)
        owner == OwnerOf(open, chunk.kind, id, chunk.tag)
        opens == Current(open, chunk.kind, owner) # id
        closed == CloseOwner(open, owner)
        start == [Start(chunk.kind, id, owner) EXCEPT !.parent = chunk.parent]
        content == Content(chunk.kind, id, owner)
        \* Checked before anything is emitted or closed.
        refused == id = None \/ (opens /\ chunk.kind = "tool" /\ ~chunk.named)
    IN  IF refused THEN Result(FALSE, <<>>, open)
        ELSE IF ~opens THEN Result(TRUE, <<content>>, open)
        ELSE Result(TRUE, closed.out \o <<start, content>>,
                    Append(closed.open, [kind |-> chunk.kind, id |-> id,
                                         owed |-> TRUE, owner |-> owner]))

-----------------------------------------------------------------------------
(* observe: what an explicit event does to the streams in flight. *)

\* open_explicit: a stream the producer opened, the producer ends.
OpenExplicit(open, e) ==
    LET owner == OwnerOf(open, e.kind, e.id, e.tag)
        closed == CloseOwner(open, owner)
    IN  IF Current(open, e.kind, owner) = e.id THEN Result(TRUE, <<>>, open)
        ELSE Result(TRUE, closed.out,
                    Append(closed.open, [kind |-> e.kind, id |-> e.id,
                                         owed |-> FALSE, owner |-> owner]))

\* close_explicit: forget the stream without emitting.
CloseExplicit(open, e) == Result(TRUE, <<>>, Others(open, e.kind, e.id))

\* A result ends its call, and whatever else the answering party streams.
CloseForResult(open, e) ==
    LET call == CloseId(open, "tool", e.call)
        rest == CloseOwner(call.open, e.tag)
    IN  Result(TRUE, call.out \o rest.out, rest.open)

ObserveExplicit(open, e) ==
    CASE e.type \in {"START", "CONTENT"} /\ e.kind # "block" -> OpenExplicit(open, e)
      [] e.type = "END" /\ e.kind # "block" -> CloseExplicit(open, e)
      [] e.type = "END" /\ e.kind = "block" -> CloseId(open, "reasoning", e.id)
      [] e.type = "TOOL_CALL_RESULT" -> CloseForResult(open, e)
      [] e.type \in {"RUN_FINISHED", "RUN_ERROR"} -> CloseAll(open)
      [] OTHER -> Result(TRUE, <<>>, open)

\* normalize
Normalize(open, e) ==
    IF e.type = "CHUNK" THEN ExpandChunk(open, e)
    ELSE LET observed == ObserveExplicit(open, e)
         IN  [observed EXCEPT !.out = Append(@, e)]

=============================================================================
