------------------------------ MODULE SseFraming ------------------------------
(***************************************************************************)
(* text/event-stream on both sides of the wire: the frames a server writes   *)
(* (crates/ag-ui/src/encode/sse.rs) and the incremental decoder that reads   *)
(* them (crates/ag-ui/src/client/transport/sse.rs).                          *)
(*                                                                         *)
(* A byte string is a sequence of atoms of one byte each: a field name with   *)
(* its colon, a value of the payload, a line break.  Serialized JSON is "{"   *)
(* and the value, so half of it is no JSON.  The fields id, event and retry   *)
(* are read and not used.                                                    *)
(***************************************************************************)
EXTENDS Integers, SequencesExt

CR == "\r"
LF == "\n"
Bom == "bom"
Invalid == "invalid"        \* a byte that is not UTF-8

----------------------------------------------------------------------------
(* Writing: frame, comment.  A style is how a server breaks its lines, and    *)
(* whether it spreads a payload over two data lines.                         *)

Break(style) == CASE style.break = "lf" -> <<LF>> [] style.break = "cr" -> <<CR>> [] style.break = "crlf" -> <<CR, LF>>
DataLine(style, payload) == <<"data:">> \o payload \o Break(style)
FrameBytes(style, value) ==
    (IF style.split THEN DataLine(style, <<"{">>) \o DataLine(style, <<value>>)
                    ELSE DataLine(style, <<"{", value>>)) \o Break(style)
CommentBytes(style) == <<":">> \o Break(style) \o Break(style)
Preamble(style) == IF style.bom THEN <<Bom>> ELSE <<>>

----------------------------------------------------------------------------
(* Reading: SseDecoder.                                                     *)

NewDecoder == [buffer |-> <<>>, data |-> <<>>, start |-> TRUE]

Breaks(bytes) == {n \in DOMAIN bytes : bytes[n] \in {CR, LF}}
FirstBreak(bytes) == CHOOSE n \in Breaks(bytes) : \A m \in Breaks(bytes) : n <= m
LastBreak(bytes) == IF Breaks(bytes) = {} THEN 0 ELSE CHOOSE n \in Breaks(bytes) : \A m \in Breaks(bytes) : m <= n

\* check_frame_size: what is held of the frame and the bytes that are no line yet.
Oversize(d, limit) == (Len(d.buffer) - LastBreak(d.buffer)) + Len(d.data) > limit
Pushed(d, bytes) == [d EXCEPT !.buffer = @ \o bytes]

\* take_line: a CR at the end may be half of a CRLF and is held back.
HasLine(d, eof) ==
    IF Breaks(d.buffer) = {} THEN eof /\ d.buffer # <<>>
    ELSE eof \/ d.buffer[FirstBreak(d.buffer)] = LF \/ FirstBreak(d.buffer) < Len(d.buffer)
LineEnd(bytes) == IF Breaks(bytes) = {} THEN Len(bytes) + 1 ELSE FirstBreak(bytes)
Width(bytes) ==
    IF LineEnd(bytes) < Len(bytes) /\ bytes[LineEnd(bytes)] = CR /\ bytes[LineEnd(bytes) + 1] = LF THEN 2 ELSE 1
RawLine(d) == SubSeq(d.buffer, 1, LineEnd(d.buffer) - 1)
Line(d) == IF d.start /\ RawLine(d) # <<>> /\ Head(RawLine(d)) = Bom THEN Tail(RawLine(d)) ELSE RawLine(d)
Taken(d) ==
    [d EXCEPT !.buffer = SubSeq(@, LineEnd(@) + Width(@), Len(@)), !.start = FALSE]

\* process and dispatch: frames without data dispatch nothing.
Dispatched(d) == IF d.data = <<>> THEN <<>> ELSE <<Front(d.data)>>
Processed(d, line) ==
    IF line = <<>> THEN [d EXCEPT !.data = <<>>]
    ELSE IF Head(line) = "data:" THEN [d EXCEPT !.data = @ \o Tail(line) \o <<LF>>] ELSE d

\* next_frame until there is none, and finish: the frames, and how it went.
Outcome(d, frames, fault) == [decoder |-> d, frames |-> frames, fault |-> fault]
RECURSIVE Drained(_, _, _, _)
Drained(d, frames, limit, eof) ==
    IF ~HasLine(d, eof) THEN Outcome(d, frames, "none")
    ELSE IF Invalid \in Range(RawLine(d)) THEN Outcome(d, frames, "malformed")
    ELSE LET line == Line(d)
             after == Processed(Taken(d), line)
         IN  IF line = <<>> THEN Drained(after, frames \o Dispatched(d), limit, eof)
             ELSE IF Len(after.data) > limit /\ ~eof THEN Outcome(after, frames, "oversize")
             ELSE Drained(after, frames, limit, eof)

\* One chunk of the body.
Fed(d, bytes, limit) ==
    IF Oversize(Pushed(d, bytes), limit) THEN Outcome(d, <<>>, "oversize")
    ELSE Drained(Pushed(d, bytes), <<>>, limit, FALSE)
\* The end of the body: a last frame without its blank line counts.
Finished(d, limit) ==
    LET rest == Drained(d, <<>>, limit, TRUE)
    IN  IF rest.fault = "none"
        THEN Outcome(NewDecoder, rest.frames \o Dispatched(rest.decoder), "none")
        ELSE Outcome(d, <<>>, rest.fault)

\* into_raw_value: the payload parses to a value, line breaks in it or not.
Payload(frame) == SelectSeq(frame, LAMBDA atom : atom # LF)
Parses(frame) == Len(Payload(frame)) = 2 /\ Payload(frame)[1] = "{"
ValueOf(frame) == Payload(frame)[2]
=============================================================================
