---------------------------- MODULE MCBenchmark ----------------------------
(* The program of Benchmark, for model-checking.  Which calls a thread makes *)
(* is the program's to say: the library's model allows them all.             *)
EXTENDS Benchmark

AnyCall == [t \in Threads |-> AllCalls]
=============================================================================
