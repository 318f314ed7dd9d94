---------------------------- MODULE MCMyPthread ----------------------------
(* Client programs for model-checking MyPthread: which calls each of the   *)
(* threads makes.  Thread 2 is main.                                       *)
EXTENDS MyPthread, TLC

CONSTANTS m1, m2

\* Threads that create, yield, join one another and exit.
JoiningClient ==
    (1 :> {"yield", "join", "exit"}) @@ (Main :> {"create", "join", "exit"}) @@
    (3 :> {"yield", "join", "exit"})

\* Threads that take a mutex: one may then wait for main, which initialises and
\* destroys the mutex and may exit while it has it.
LockingClient == (1 :> {"lock", "join"}) @@ (Main :> {"init", "destroy", "lock", "exit"})

\* Two threads that make every call.
BusyClient == [t \in Threads |-> AllCalls]
=============================================================================
