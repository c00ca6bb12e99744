------------------------- MODULE CancellationProofs -------------------------
(* Cancellation at both ends: the safety of CancellationToken for any number  *)
(* of threads, futures and wakers, and of the response body that trips one    *)
(* when its reader is gone, for any plans of the server.                      *)
EXTENDS CancellationToken, ResponseBody, TLAPS

\* The mutex: exactly the future between acquisition and release holds it.
LockInv == \A f \in Futures : lock = f <=> fpc[f] \in {"recheck", "register"}

\* After the one `mem::take`, the list is empty for good: whoever was about to
\* register held the lock before, and everybody after re-checks the flag.
Drained ==
    cancelled /\ (\A c \in Cancellers : cpc[c] # "take") =>
        wakers = {} /\ \A f \in Futures : fpc[f] # "register"

\* A sleeping future's latest waker is on the list, taken from it, or woken.
Accounted ==
    \A f \in Futures : fpc[f] = "pending" =>
        \/ Latest(f) \in wakers
        \/ \E c \in Cancellers : Latest(f) \in taken[c]
        \/ fwaker[f] \in woken

\* Only a canceller that is waking has waiters in hand.
TakenInv == \A c \in Cancellers : cpc[c] # "waking" => taken[c] = {}

IInv ==
    /\ TypeOK
    /\ LockInv
    /\ Drained
    /\ TakenInv
    /\ Accounted
    /\ OneRegistration

-----------------------------------------------------------------------------
LEMMA InitIInv == Init => IInv
<1> SUFFICES ASSUME Init PROVE IInv
  OBVIOUS
<1>1. TypeOK
  BY DEF Init, TypeOK, CancellerState, FutureState, Waiter
<1>2. LockInv
  BY TokenAssumption DEF Init, LockInv
<1>3. Drained /\ TakenInv /\ Accounted /\ OneRegistration
  BY DEF Init, Drained, TakenInv, Accounted, OneRegistration
<1> QED
  BY <1>1, <1>2, <1>3 DEF IInv

\* Typing is preserved by every step.
LEMMA NextTypeOK == TypeOK /\ [Next]_vars => TypeOK'
<1> SUFFICES ASSUME TypeOK, [Next]_vars PROVE TypeOK'
  OBVIOUS
<1> USE DEF TypeOK, CancellerState, FutureState, Waiter
<1>1. ASSUME NEW c \in Cancellers, Cancel(c) PROVE TypeOK'
  <2>1. CASE Swap(c)
    BY <2>1 DEF Swap
  <2>2. CASE Take(c)
    BY <2>2 DEF Take
  <2>3. CASE \E w \in taken[c] : Wake(c, w)
    BY <2>3 DEF Wake
  <2>4. CASE Return(c)
    BY <2>4 DEF Return
  <2>5. CASE DropInline(c)
    BY <2>5 DEF DropInline, Unregister, Registered
  <2> QED
    BY <1>1, <2>1, <2>2, <2>3, <2>4, <2>5 DEF Cancel
<1>2. ASSUME NEW f \in Futures, PollStep(f) PROVE TypeOK'
  <2>1. CASE Load(f)
    BY <2>1 DEF Load
  <2>2. CASE Lock(f)
    BY <2>2 DEF Lock
  <2>3. CASE Recheck(f)
    BY <2>3 DEF Recheck
  <2>4. CASE Register(f)
    BY <2>4 DEF Register, Registered
  <2> QED
    BY <1>2, <2>1, <2>2, <2>3, <2>4 DEF PollStep
<1>3. ASSUME NEW f \in Futures, Drop(f) PROVE TypeOK'
  BY <1>3 DEF Drop, Unregister, Registered
<1>4. ASSUME NEW f \in Futures, NEW w \in Wakers, Poll(f, w) PROVE TypeOK'
  BY <1>4 DEF Poll
<1>5. CASE UNCHANGED vars
  BY <1>5 DEF vars
<1> QED
  BY <1>1, <1>2, <1>3, <1>4, <1>5 DEF Next, Stopped

\* One lemma per part of the invariant: which actions can disturb it, and why
\* they do not.
LEMMA NextLockInv == TypeOK /\ LockInv /\ [Next]_vars => LockInv'
<1> SUFFICES ASSUME TypeOK, LockInv, [Next]_vars PROVE LockInv'
  OBVIOUS
<1> USE TokenAssumption DEF TypeOK, LockInv
<1>1. ASSUME NEW c \in Cancellers, Cancel(c) PROVE LockInv'
  BY <1>1 DEF Cancel, Swap, Take, Wake, Return, DropInline, Unregister
<1>2. ASSUME NEW f \in Futures, PollStep(f) PROVE LockInv'
  BY <1>2 DEF PollStep, Load, Lock, Recheck, Register
<1>3. ASSUME NEW f \in Futures, Drop(f) PROVE LockInv'
  BY <1>3 DEF Drop, Unregister
<1>4. ASSUME NEW f \in Futures, NEW w \in Wakers, Poll(f, w) PROVE LockInv'
  BY <1>4 DEF Poll
<1>5. CASE UNCHANGED vars
  BY <1>5 DEF vars
<1> QED
  BY <1>1, <1>2, <1>3, <1>4, <1>5 DEF Next, Stopped

\* `Take` needs the lock, so nobody is about to register when it empties the
\* list; `Recheck` lets nobody go on to register once the flag is set.
LEMMA NextDrained ==
  TypeOK /\ LockInv /\ Drained /\ [Next]_vars => Drained'
<1> SUFFICES ASSUME TypeOK, LockInv, Drained, [Next]_vars PROVE Drained'
  OBVIOUS
<1> USE DEF TypeOK, Drained
<1>1. ASSUME NEW c \in Cancellers, Cancel(c) PROVE Drained'
  <2>1. CASE Swap(c)
    BY <2>1 DEF Swap
  <2>2. CASE Take(c)
    BY <2>2, TokenAssumption DEF Take, LockInv
  <2>3. CASE \E w \in taken[c] : Wake(c, w)
    BY <2>3 DEF Wake
  <2>4. CASE Return(c)
    BY <2>4 DEF Return
  <2>5. CASE DropInline(c)
    BY <2>5 DEF DropInline, Unregister, Registered
  <2> QED
    BY <1>1, <2>1, <2>2, <2>3, <2>4, <2>5 DEF Cancel
<1>2. ASSUME NEW f \in Futures, PollStep(f) PROVE Drained'
  BY <1>2 DEF PollStep, Load, Lock, Recheck, Register
<1>3. ASSUME NEW f \in Futures, Drop(f) PROVE Drained'
  BY <1>3 DEF Drop, Unregister, Registered
<1>4. ASSUME NEW f \in Futures, NEW w \in Wakers, Poll(f, w) PROVE Drained'
  BY <1>4 DEF Poll
<1>5. CASE UNCHANGED vars
  BY <1>5 DEF vars
<1> QED
  BY <1>1, <1>2, <1>3, <1>4, <1>5 DEF Next, Stopped

LEMMA NextTakenInv == TypeOK /\ TakenInv /\ [Next]_vars => TakenInv'
<1> SUFFICES ASSUME TypeOK, TakenInv, [Next]_vars PROVE TakenInv'
  OBVIOUS
<1> USE DEF TypeOK, TakenInv
<1>1. ASSUME NEW c \in Cancellers, Cancel(c) PROVE TakenInv'
  BY <1>1 DEF Cancel, Swap, Take, Wake, Return, DropInline
<1>2. ASSUME NEW f \in Futures, PollStep(f) \/ Drop(f) \/ \E w \in Wakers : Poll(f, w)
      PROVE TakenInv'
  BY <1>2 DEF PollStep, Load, Lock, Recheck, Register, Drop, Poll
<1>3. CASE UNCHANGED vars
  BY <1>3 DEF vars
<1> QED
  BY <1>1, <1>2, <1>3 DEF Next, Stopped

\* A waiter leaves the list for `taken` and `taken` for `woken`; a registration
\* is removed only with its own future.
LEMMA NextAccounted ==
  TypeOK /\ TakenInv /\ Accounted /\ [Next]_vars => Accounted'
<1> SUFFICES ASSUME TypeOK, TakenInv, Accounted, [Next]_vars,
                    NEW g \in Futures, fpc'[g] = "pending"
             PROVE  \/ Latest(g)' \in wakers'
                    \/ \E c \in Cancellers : Latest(g)' \in taken'[c]
                    \/ fwaker'[g] \in woken'
  BY DEF Accounted, Latest
<1> DEFINE Goal == \/ Latest(g)' \in wakers'
                   \/ \E c \in Cancellers : Latest(g)' \in taken'[c]
                   \/ fwaker'[g] \in woken'
<1> USE DEF TypeOK, Accounted, Latest
<1>1. ASSUME NEW c \in Cancellers, Cancel(c) PROVE Goal
  <2>1. CASE Swap(c)
    BY <2>1 DEF Swap
  <2>2. CASE Take(c)
    BY <2>2 DEF Take, TakenInv
  <2>3. CASE \E w \in taken[c] : Wake(c, w)
    <3> PICK w \in taken[c] : Wake(c, w)
      BY <2>3
    <3>1. CASE w = Latest(g)
      BY <3>1 DEF Wake
    <3>2. CASE w # Latest(g)
      BY <3>2 DEF Wake
    <3> QED
      BY <3>1, <3>2
  <2>4. CASE Return(c)
    BY <2>4 DEF Return
  <2>5. CASE DropInline(c)
    BY <2>5 DEF DropInline, Unregister, Registered
  <2> QED
    BY <1>1, <2>1, <2>2, <2>3, <2>4, <2>5 DEF Cancel
<1>2. ASSUME NEW f \in Futures, PollStep(f) PROVE Goal
  <2>1. CASE Load(f)
    BY <2>1 DEF Load
  <2>2. CASE Lock(f)
    BY <2>2 DEF Lock
  <2>3. CASE Recheck(f)
    BY <2>3 DEF Recheck
  <2>4. CASE Register(f)
    BY <2>4 DEF Register, Registered
  <2> QED
    BY <1>2, <2>1, <2>2, <2>3, <2>4 DEF PollStep
<1>3. ASSUME NEW f \in Futures, Drop(f) PROVE Goal
  BY <1>3 DEF Drop, Unregister, Registered
<1>4. ASSUME NEW f \in Futures, NEW w \in Wakers, Poll(f, w) PROVE Goal
  BY <1>4 DEF Poll
<1>5. CASE UNCHANGED vars
  BY <1>5 DEF vars
<1> QED
  BY <1>1, <1>2, <1>3, <1>4, <1>5 DEF Next, Stopped

LEMMA NextOneRegistration ==
  TypeOK /\ OneRegistration /\ [Next]_vars => OneRegistration'
<1> SUFFICES ASSUME TypeOK, OneRegistration, [Next]_vars PROVE OneRegistration'
  OBVIOUS
<1> USE DEF TypeOK, Waiter, OneRegistration
<1>1. ASSUME NEW c \in Cancellers, Cancel(c) PROVE OneRegistration'
  BY <1>1 DEF Cancel, Swap, Take, Wake, Return, DropInline, Unregister, Registered
<1>2. ASSUME NEW f \in Futures, PollStep(f) PROVE OneRegistration'
  <2>1. CASE Load(f) \/ Lock(f) \/ Recheck(f)
    BY <2>1 DEF Load, Lock, Recheck
  <2>2. CASE Register(f)
    BY <2>2 DEF Register, Registered
  <2> QED
    BY <1>2, <2>1, <2>2 DEF PollStep
<1>3. ASSUME NEW f \in Futures, Drop(f) PROVE OneRegistration'
  BY <1>3 DEF Drop, Unregister, Registered
<1>4. ASSUME NEW f \in Futures, NEW w \in Wakers, Poll(f, w) PROVE OneRegistration'
  BY <1>4 DEF Poll
<1>5. CASE UNCHANGED vars
  BY <1>5 DEF vars
<1> QED
  BY <1>1, <1>2, <1>3, <1>4, <1>5 DEF Next, Stopped

-----------------------------------------------------------------------------
LEMMA Invariance == Spec => []IInv
<1>1. Init => IInv
  BY InitIInv
<1>2. IInv /\ [Next]_vars => IInv'
  BY NextTypeOK, NextLockInv, NextDrained, NextTakenInv,
     NextAccounted, NextOneRegistration DEF IInv
<1> QED
  BY <1>1, <1>2, PTL DEF Spec

\* The variables of cancel.rs keep their types.
THEOREM TypeCorrect == Spec => []TypeOK
<1>1. IInv => TypeOK
  BY DEF IInv
<1> QED
  BY <1>1, Invariance, PTL

\* `cancel` and `poll` never lose a wakeup between them: a future asleep on a
\* tripped token has been woken, or a thread inside `cancel` will wake it.
THEOREM WakeupSafety == Spec => []NoLostWakeup
<1>1. IInv => NoLostWakeup
  BY DEF IInv, NoLostWakeup, CancelWillWake, Accounted, Drained, TypeOK
<1> QED
  BY <1>1, Invariance, PTL

\* One registration per future, with its latest waker, and none after Drop.
THEOREM RegistrationSafety == Spec => []OneRegistration
<1>1. IInv => OneRegistration
  BY DEF IInv
<1> QED
  BY <1>1, Invariance, PTL

-----------------------------------------------------------------------------
(* The response body: it never lets go of a tied run's stream before the run  *)
(* is cancelled.                                                             *)

Told == plan.token => tripped

\* What the body's state says of its source, its guard and the token.
BodyInv ==
    /\ plan \in Plans
    /\ armed \in BOOLEAN /\ tripped \in BOOLEAN
    /\ source \in {"live", "over", "dropped"}
    /\ link = "idle" => body = "none"
    /\ body \in {"none", "open"} => source = "live" /\ armed /\ ~tripped
    /\ body \in {"failing", "reporting"} => source = "live" /\ armed /\ Told
    /\ body = "reported" => source = "dropped" /\ armed /\ Told
    /\ body = "dropping" => source \in {"live", "dropped"} /\ Told
    /\ source = "dropped" => Told
    /\ source = "over" => body = "ended" /\ ~tripped

LEMMA BodyStarts == BodyInit => BodyInv
BY DEF BodyInit, BodyInv

LEMMA BodyStep == BodyInv /\ [BodyNext]_bodyVars => BodyInv'
<1> SUFFICES ASSUME BodyInv, [BodyNext]_bodyVars
             PROVE  BodyInv'
  OBVIOUS
<1> USE DEF BodyInv, Told
<1>0. plan.token \in BOOLEAN
  BY PlansAssumption DEF PlansAssumption
<1>1. CASE Send
  BY <1>1 DEF Send
<1>2. CASE Complete
  BY <1>2 DEF Complete
<1>3. CASE Fail
  BY <1>0, <1>3 DEF Fail, Cancelling
<1>4. CASE Failed
  BY <1>4 DEF Failed
<1>5. CASE Report
  BY <1>5 DEF Report
<1>6. CASE Reported
  BY <1>6 DEF Reported
<1>7. CASE Notice
  BY <1>0, <1>7 DEF Notice
<1>8. CASE DropBody
  BY <1>8 DEF DropBody
<1>9. CASE Die
  BY <1>9 DEF Die
<1>10. CASE \E streams \in BOOLEAN : Answered(streams)
  BY <1>10 DEF Answered
<1>11. CASE HangUp
  BY <1>11 DEF HangUp, server
<1>12. CASE UNCHANGED bodyVars
  BY <1>12 DEF bodyVars, server
<1> QED
  BY <1>1, <1>2, <1>3, <1>4, <1>5, <1>6, <1>7, <1>8, <1>9, <1>10, <1>11, <1>12 DEF BodyNext

LEMMA BodyInvariance == BodySpec => []BodyInv
<1> QED
  BY BodyStarts, BodyStep, PTL DEF BodySpec

\* CancelledBeforeDropped for all plans: when the source of a tied run is dropped
\* before its end, by a failure, after the report of one, or because the client has
\* left, the run's token has tripped before; a run that ended is not cancelled
\* (HttpEvents and DisconnectGuard of axum/respond.rs).
THEOREM CancellationPrecedesDrop == BodySpec => []CancelledBeforeDropped
<1>1. BodyInv => CancelledBeforeDropped
  BY DEF BodyInv, Told, CancelledBeforeDropped
<1> QED
  BY <1>1, BodyInvariance, PTL
=============================================================================
