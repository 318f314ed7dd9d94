-------------------------------- MODULE Mutex --------------------------------
(* What my_pthread_mutex_t promises: a mutex that is initialised and not        *)
(* destroyed is acquired when it is free, released by the thread that has it,   *)
(* and destroyed or initialised only while nobody has it.                       *)
CONSTANTS Threads, Mutexes

VARIABLES
    owners,     \* [Mutexes -> the threads that have it]
    usable      \* the mutexes initialised and not destroyed

vars == << owners, usable >>

Init ==
    /\ owners = [m \in Mutexes |-> {}]
    /\ usable = {}

Initialise(m) ==
    /\ m \notin usable /\ owners[m] = {}
    /\ usable' = usable \cup {m}
    /\ UNCHANGED owners

Acquire(t, m) ==
    /\ m \in usable /\ owners[m] = {}
    /\ owners' = [owners EXCEPT ![m] = {t}]
    /\ UNCHANGED usable

Relinquish(t, m) ==
    /\ owners[m] = {t}
    /\ owners' = [owners EXCEPT ![m] = {}]
    /\ UNCHANGED usable

Destroy(m) ==
    /\ m \in usable /\ owners[m] = {}
    /\ usable' = usable \ {m}
    /\ UNCHANGED owners

Next ==
    \E m \in Mutexes :
        \/ Initialise(m) \/ Destroy(m)
        \/ \E t \in Threads : Acquire(t, m) \/ Relinquish(t, m)

Spec == Init /\ [][Next]_vars
=============================================================================
