------------------------------ MODULE ThreadIds ------------------------------
(***************************************************************************)
(* How my_pthread_create numbers threads, instruction by instruction.  The *)
(* increment of tid is outside the critical section, so the alarm may      *)
(* preempt a creator between any two of its instructions.  The Makefile    *)
(* asks for no optimisation, and gcc then loads tid, stores it back one    *)
(* larger, and loads it again to pass it to create_tcb.                    *)
(* MyPthread takes them for one step and lets every thread have an id of   *)
(* its own; this module is about what that leaves out.                     *)
(***************************************************************************)
EXTENDS Naturals

CONSTANTS Creators,     \* threads that call my_pthread_create
          Calls         \* bound: calls each of them makes

VARIABLES
    tid,            \* the counter
    pc,             \* [Creators -> the instruction it comes to]
    eax,            \* [Creators -> its register]
    made,           \* [Creators -> calls it has completed]
    all_threads     \* pairs <<id, thread>>; a thread is <<creator, its how manieth>>

vars == << tid, pc, eax, made, all_threads >>

\* The first call, made by main alone, is over: it used ids 1 and 2.
Init ==
    /\ tid = 2
    /\ pc = [c \in Creators |-> "load"]
    /\ eax = [c \in Creators |-> 0]
    /\ made = [c \in Creators |-> 0]
    /\ all_threads = {}

Step(c, from, to) == pc[c] = from /\ pc' = [pc EXCEPT ![c] = to]

Load(c) ==
    /\ made[c] < Calls
    /\ Step(c, "load", "store")
    /\ eax' = [eax EXCEPT ![c] = tid]
    /\ UNCHANGED << tid, made, all_threads >>

Store(c) ==
    /\ Step(c, "store", "reload")
    /\ tid' = eax[c] + 1
    /\ UNCHANGED << eax, made, all_threads >>

Reload(c) ==
    /\ Step(c, "reload", "put")
    /\ eax' = [eax EXCEPT ![c] = tid]
    /\ UNCHANGED << tid, made, all_threads >>

\* The critical section: an id that is in the map already gets the new tcb.
Put(c) ==
    /\ Step(c, "put", "load")
    /\ made' = [made EXCEPT ![c] = @ + 1]
    /\ all_threads' = {entry \in all_threads : entry[1] # eax[c]}
                      \cup {<< eax[c], << c, made[c] + 1 >> >>}
    /\ UNCHANGED << tid, eax >>

Next == \E c \in Creators : Load(c) \/ Store(c) \/ Reload(c) \/ Put(c)

Spec == Init /\ [][Next]_vars

\* "a unique thread id" (asst1/LATEX/main.tex:98): each thread that was created is
\* in the map, under an id that no other thread took.
UniqueIds ==
    \A c \in Creators : \A n \in 1 .. made[c] :
        \E entry \in all_threads : entry[2] = << c, n >>
=============================================================================
