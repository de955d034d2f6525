----------------------------- MODULE MCStartup -----------------------------
(* A small instance of Startup.                                            *)
EXTENDS Startup

CONSTANTS a, b

\* `a` wants the aliases and has directories of its own; `b` names no provider.
Paths == [s \in Snapshots |-> IF s = a THEN {"own"} ELSE {}]
Wants == [s \in Snapshots |-> s = a]
=============================================================================
