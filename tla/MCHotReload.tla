---------------------------- MODULE MCHotReload ----------------------------
(* Small instances of HotReload.                                           *)
EXTENDS HotReload

CONSTANTS f1, f2, dDefault, dOther

\* One file in each directory.
OneEach == [f \in Files |-> IF f = f1 THEN dDefault ELSE dOther]
=============================================================================
