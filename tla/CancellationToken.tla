------------------------- MODULE CancellationToken -------------------------
(***************************************************************************)
(* The runtime-free cancellation token of the server half                  *)
(* (crates/ag-ui/src/server/cancel.rs): an atomic flag plus a mutex-guarded *)
(* list of waiters.  Threads call `cancel`; tasks poll `Cancelled` futures  *)
(* and may drop them, also from inside a `wake` callback.                   *)
(*                                                                         *)
(* A step is one access to shared memory: the load of the flag, the        *)
(* acquisition of the lock, the second load under it, the registration with *)
(* the release, the swap in `cancel`, the `mem::take` under the lock, and   *)
(* one `wake`.  A critical section that touches nothing but the list       *)
(* (`mem::take`, the removal in Drop) is one step.                          *)
(***************************************************************************)
EXTENDS FiniteSets

CONSTANTS
    Cancellers,     \* threads that call `cancel`
    Futures,        \* `Cancelled` futures, one registration identity each
    Wakers,         \* wakers of the tasks that poll them
    Nobody          \* the lock is free / nothing is being dropped inline

ASSUME TokenAssumption == Nobody \notin Cancellers \cup Futures

VARIABLES
    cancelled,      \* Inner::cancelled
    wakers,         \* Inner::wakers: a set of [future, waker]
    lock,           \* holder of the mutex around `wakers`
    cpc,            \* where each canceller is
    taken,          \* the waiters a canceller took and has still to wake
    inline,         \* the future a wake callback of this canceller is dropping
    fpc,            \* where each future is
    fwaker,         \* the waker its latest poll was given
    woken           \* wakers whose `wake` has been called

vars == <<cancelled, wakers, lock, cpc, taken, inline, fpc, fwaker, woken>>

Waiter == [future : Futures, waker : Wakers]

CancellerState == {"idle", "take", "waking", "returned"}
FutureState == {"new", "load", "lock", "recheck", "register",
                "pending", "ready", "dropped"}

Init ==
    /\ cancelled = FALSE
    /\ wakers = {}
    /\ lock = Nobody
    /\ cpc = [c \in Cancellers |-> "idle"]
    /\ taken = [c \in Cancellers |-> {}]
    /\ inline = [c \in Cancellers |-> Nobody]
    /\ fpc = [f \in Futures |-> "new"]
    /\ fwaker \in [Futures -> Wakers]
    /\ woken = {}

-----------------------------------------------------------------------------
(* CancellationToken::cancel *)

\* The swap: only the caller that finds the flag clear goes on to wake.
Swap(c) ==
    /\ cpc[c] = "idle"
    /\ cancelled' = TRUE
    /\ cpc' = [cpc EXCEPT ![c] = IF cancelled THEN "returned" ELSE "take"]
    /\ UNCHANGED <<wakers, lock, taken, inline, fpc, fwaker, woken>>

\* Fault: the guard lives on while the waiters are woken.
TakeAndHold(c) ==
    /\ cpc[c] = "take"
    /\ lock = Nobody
    /\ lock' = c
    /\ taken' = [taken EXCEPT ![c] = wakers]
    /\ wakers' = {}
    /\ cpc' = [cpc EXCEPT ![c] = "waking"]
    /\ UNCHANGED <<cancelled, inline, fpc, fwaker, woken>>

\* `std::mem::take(&mut *lock(..))`: the guard is gone before the first wake.
Take(c) ==
    /\ cpc[c] = "take"
    /\ lock = Nobody
    /\ taken' = [taken EXCEPT ![c] = wakers]
    /\ wakers' = {}
    /\ cpc' = [cpc EXCEPT ![c] = "waking"]
    /\ UNCHANGED <<cancelled, lock, inline, fpc, fwaker, woken>>

\* A future that nobody is polling and nobody is dropping.
Owned(f) == \A c \in Cancellers : inline[c] # f
Droppable(f) == fpc[f] \in {"new", "pending", "ready"} /\ Owned(f)

\* One turn of the loop: `wake`, which may begin to drop a future inline.
Wake(c, w) ==
    /\ cpc[c] = "waking"
    /\ inline[c] = Nobody
    /\ w \in taken[c]
    /\ woken' = woken \cup {w.waker}
    /\ taken' = [taken EXCEPT ![c] = @ \ {w}]
    /\ \/ UNCHANGED inline
       \/ \E f \in Futures : Droppable(f) /\ inline' = [inline EXCEPT ![c] = f]
    /\ UNCHANGED <<cancelled, wakers, lock, cpc, fpc, fwaker>>

Return(c) ==
    /\ cpc[c] = "waking"
    /\ inline[c] = Nobody
    /\ taken[c] = {}
    /\ cpc' = [cpc EXCEPT ![c] = "returned"]
    /\ UNCHANGED <<cancelled, wakers, lock, taken, inline, fpc, fwaker, woken>>

-----------------------------------------------------------------------------
(* Cancelled::poll *)

\* The task polls: on its own account the first time, when woken, or spuriously.
Poll(f, w) ==
    /\ fpc[f] \in {"new", "pending"}
    /\ Owned(f)
    /\ fpc' = [fpc EXCEPT ![f] = "load"]
    /\ fwaker' = [fwaker EXCEPT ![f] = w]
    /\ UNCHANGED <<cancelled, wakers, lock, cpc, taken, inline, woken>>

\* The load outside the lock.
Load(f) ==
    /\ fpc[f] = "load"
    /\ fpc' = [fpc EXCEPT ![f] = IF cancelled THEN "ready" ELSE "lock"]
    /\ UNCHANGED <<cancelled, wakers, lock, cpc, taken, inline, fwaker, woken>>

Lock(f) ==
    /\ fpc[f] = "lock"
    /\ lock = Nobody
    /\ lock' = f
    /\ fpc' = [fpc EXCEPT ![f] = "recheck"]
    /\ UNCHANGED <<cancelled, wakers, cpc, taken, inline, fwaker, woken>>

\* Fault: no second load.
RegisterUnchecked(f) ==
    /\ fpc[f] = "recheck"
    /\ fpc' = [fpc EXCEPT ![f] = "register"]
    /\ UNCHANGED <<cancelled, wakers, lock, cpc, taken, inline, fwaker, woken>>

\* The second load; the early return releases the guard.
Recheck(f) ==
    /\ fpc[f] = "recheck"
    /\ fpc' = [fpc EXCEPT ![f] = IF cancelled THEN "ready" ELSE "register"]
    /\ lock' = IF cancelled THEN Nobody ELSE lock
    /\ UNCHANGED <<cancelled, wakers, cpc, taken, inline, fwaker, woken>>

\* Fault: a registration is recognised by its waker.
RegisteredByWaker(f) == {w \in wakers : w.future = f /\ w.waker = fwaker[f]}

\* Push a waiter, or replace the waker of the one this future already has.
Registered(f) == {w \in wakers : w.future = f}

\* Fault: the first waker is kept.
RegisterOnce(f) ==
    /\ fpc[f] = "register"
    /\ wakers' = IF Registered(f) # {} THEN wakers
                 ELSE wakers \cup {[future |-> f, waker |-> fwaker[f]]}
    /\ lock' = Nobody
    /\ fpc' = [fpc EXCEPT ![f] = "pending"]
    /\ UNCHANGED <<cancelled, cpc, taken, inline, fwaker, woken>>

Register(f) ==
    /\ fpc[f] = "register"
    /\ wakers' = (wakers \ Registered(f))
                    \cup {[future |-> f, waker |-> fwaker[f]]}
    /\ lock' = Nobody
    /\ fpc' = [fpc EXCEPT ![f] = "pending"]
    /\ UNCHANGED <<cancelled, cpc, taken, inline, fwaker, woken>>

-----------------------------------------------------------------------------
(* Drop for Cancelled: remove this future's own registration. *)

Unregister(f) ==
    /\ lock = Nobody
    /\ wakers' = wakers \ Registered(f)
    /\ fpc' = [fpc EXCEPT ![f] = "dropped"]

\* By the task that owns it.
Drop(f) ==
    /\ Droppable(f)
    /\ Unregister(f)
    /\ UNCHANGED <<cancelled, lock, cpc, taken, inline, fwaker, woken>>

\* Inside a wake callback, on the canceller's own thread.
DropInline(c) ==
    /\ inline[c] # Nobody
    /\ Unregister(inline[c])
    /\ inline' = [inline EXCEPT ![c] = Nobody]
    /\ UNCHANGED <<cancelled, lock, cpc, taken, fwaker, woken>>

-----------------------------------------------------------------------------
Cancel(c) ==
    Swap(c) \/ Take(c) \/ (\E w \in taken[c] : Wake(c, w)) \/ Return(c) \/ DropInline(c)

PollStep(f) == Load(f) \/ Lock(f) \/ Recheck(f) \/ Register(f)

\* Everything has been cancelled and resolved or dropped.
Stopped ==
    /\ \A c \in Cancellers : cpc[c] = "returned" /\ inline[c] = Nobody
    /\ \A f \in Futures : fpc[f] = "dropped"
    /\ UNCHANGED vars

Next ==
    \/ \E c \in Cancellers : Cancel(c)
    \/ \E f \in Futures : PollStep(f) \/ Drop(f) \/ \E w \in Wakers : Poll(f, w)
    \/ Stopped

\* A thread that called `cancel` keeps running; a poll runs to its end; an
\* executor polls a task again once its waker has been woken.  Nobody is obliged
\* to call `cancel`, to poll for the first time or to drop a future.
Repoll(f) == fwaker[f] \in woken /\ \E w \in Wakers : Poll(f, w)

Fairness ==
    /\ \A c \in Cancellers :
          WF_vars(Take(c) \/ (\E w \in taken[c] : Wake(c, w)) \/ Return(c) \/ DropInline(c))
    /\ \A f \in Futures : WF_vars(PollStep(f)) /\ WF_vars(Repoll(f))

Spec == Init /\ [][Next]_vars
FairSpec == Spec /\ Fairness

-----------------------------------------------------------------------------
(* Properties *)

TypeOK ==
    /\ cancelled \in BOOLEAN
    /\ wakers \subseteq Waiter
    /\ lock \in Futures \cup {Nobody}
    /\ cpc \in [Cancellers -> CancellerState]
    /\ taken \in [Cancellers -> SUBSET Waiter]
    /\ inline \in [Cancellers -> Futures \cup {Nobody}]
    /\ fpc \in [Futures -> FutureState]
    /\ fwaker \in [Futures -> Wakers]
    /\ woken \subseteq Wakers

Latest(f) == [future |-> f, waker |-> fwaker[f]]

CancelWillWake(f) ==
    \E c \in Cancellers :
        \/ cpc[c] = "take" /\ Latest(f) \in wakers
        \/ Latest(f) \in taken[c]

\* No wakeup is lost: once the token is tripped, the waker that the latest poll
\* of a sleeping future was given has been woken, or a thread inside `cancel`
\* has it still to wake (the re-check in `poll` exists for this).
NoLostWakeup ==
    \A f \in Futures :
        cancelled /\ fpc[f] = "pending" => fwaker[f] \in woken \/ CancelWillWake(f)

\* A future has one registration however often and with whatever waker it is
\* polled; while it sleeps that registration holds the latest waker, and none is
\* left once it is dropped (a waiter that outlives its future is a leak in a
\* long-lived token).
OneRegistration ==
    /\ \A v, w \in wakers : v.future = w.future => v = w
    /\ \A w \in wakers :
          /\ fpc[w.future] \notin {"new", "dropped"}
          /\ fpc[w.future] = "pending" => w.waker = fwaker[w.future]

\* A future somebody waits on resolves, or is dropped, once the token is tripped.
CancelReachesWaiters ==
    \A f \in Futures :
        cancelled /\ fpc[f] = "pending" ~> fpc[f] \in {"ready", "dropped"}

\* `cancel` returns, even when a wake callback drops another waiter: it wakes
\* with the lock released.
CancelReturns ==
    \A c \in Cancellers : cpc[c] = "take" ~> cpc[c] = "returned"

=============================================================================
