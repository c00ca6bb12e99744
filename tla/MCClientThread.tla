--------------------------- MODULE MCClientThread ---------------------------
(* Settings for ClientThread: each keeps together what interacts, and leaves *)
(* the rest out to stay small.                                               *)
EXTENDS ClientThread, TLC

CONSTANTS i1, i2, c1, c2, m1, t1, s1, s2

\* i1 asks to approve c1; i2 asks something of its own.
AsksAboutCall == [i \in Interrupts |-> IF i = i1 THEN c1 ELSE None]

Quiet == [calls |-> {}, carriers |-> {None}, restated |-> {}, interrupts |-> {},
          announced |-> {}, reuses |-> FALSE, runs |-> {1, 2}, verify |-> TRUE]

\* Questions answered, expired, asked anew, about a call among others.
Asking == [Quiet EXCEPT !.interrupts = {i1, i2}, !.calls = {c1}, !.runs = {1, 2, 3}]

\* A call is asked about, answered, decided and then listed as pending after all.
Relisting == [Quiet EXCEPT !.interrupts = {i1}, !.calls = {c1}, !.runs = {1, 2, 3, 4}]

\* Two calls, both in one message.
Calling == [Quiet EXCEPT !.calls = {c1, c2}, !.carriers = {m1}]

\* s2 works under s1.
Delegating == [Quiet EXCEPT !.interrupts = {i2}, !.announced = {<<s1, None>>, <<s2, s1>>}]

\* A thread that does not verify its streams.
Trusting == [Quiet EXCEPT !.interrupts = {i2}, !.runs = {1, 2, 3}, !.verify = FALSE]

\* A call is started again after it was answered.
Repeating == [Quiet EXCEPT !.interrupts = {i1}, !.calls = {c1}, !.reuses = TRUE]

\* The conversation is cleared, or restated: with a call and no answer, with its answer,
\* with the answer before the call.
Says(id, c) == [id |-> id, role |-> "assistant", calls |-> {c}]
Tells(id, c) == [id |-> id, role |-> "tool", calls |-> {c}]
Restating == [Quiet EXCEPT !.calls = {c1}, !.carriers = {None, m1}, !.interrupts = {i1},
    !.restated = {<<>>, <<Says(m1, c1)>>, <<Says(MessageOf(c1), c1), Tells(t1, c1)>>,
                  <<Tells(t1, c1), Says(m1, c1)>>}]

Ordinary == {Asking, Relisting, Calling, Delegating, Trusting, Repeating, Restating}

\* What SnapshotRestores is about: no message is restated twice.
ASSUME RestatedAssumption == \A s \in Ordinary : \A history \in s.restated : Distinct(history)

\* Anybody works under anybody.
Regrouping == {[Quiet EXCEPT !.announced = Subagents \X Owner]}
=============================================================================
