CONSTANTS
    Cancellers = {c1, c2}
    Futures = {f1, f2}
    Wakers = {w1, w2}
    Nobody = Nobody
SPECIFICATION FairSpec
INVARIANTS NoLostWakeup OneRegistration
PROPERTIES CancelReachesWaiters CancelReturns
