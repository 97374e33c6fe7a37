------------------------------ MODULE MCFiberVM -----------------------------
(***************************************************************************)
(* FiberVM on a small instance.  The fibers are interchangeable.           *)
(***************************************************************************)
EXTENDS FiberVM, TLC

\* The host allows writing to the console; programs also ask for more.
MCDefaultCapabilities == {"stdio.write"}
MCRequestNames == {"stdio.write", "file", "all", "unknown"}

FiberSymmetry == Permutations(Fibers)
=============================================================================
