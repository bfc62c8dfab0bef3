-------------------------------- MODULE Mutex --------------------------------
(***************************************************************************)
(* What the kernel's light locks and the guests' mutexes both promise: a   *)
(* lock has at most one holder, who alone releases it.  How waiting        *)
(* threads queue and who is served next is not part of this promise.       *)
(***************************************************************************)
CONSTANTS Threads, Locks

VARIABLE holders    \* the threads inside each lock's critical section

Init == holders = [k \in Locks |-> {}]

Acquire(t, k) ==
    /\ holders[k] = {}
    /\ holders' = [holders EXCEPT ![k] = {t}]

Release(t, k) ==
    /\ holders[k] = {t}
    /\ holders' = [holders EXCEPT ![k] = {}]

\* A thread that ends leaves all its critical sections at once.
Abandon(t) ==
    holders' = [k \in Locks |-> holders[k] \ {t}]

Next ==
    \/ \E t \in Threads, k \in Locks : Acquire(t, k) \/ Release(t, k)
    \/ \E t \in Threads : Abandon(t)

Spec == Init /\ [][Next]_holders

=============================================================================
