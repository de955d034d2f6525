----------------------------- MODULE MCLuaConfig -----------------------------
(* Small instances of LuaConfig.                                           *)
EXTENDS LuaConfig, TLC

\* The runs a file can make: a table of keys and of pins per depot.
Run(keys, gids, complete) ==
  [keys |-> keys, gids |-> gids, codeFunc |-> FALSE, complete |-> complete]

NoPins == [d \in Depots |-> NoGid]
Lists(d, key) == [e \in Depots |-> IF e = d THEN key ELSE Absent]

(* Complete files that list every depot with or without a key, one depot   *)
(* with a key, only pin, or hold nothing; truncated ones that list one     *)
(* depot or nothing.                                                       *)
MCScripts ==
  {Run([d \in Depots |-> k], NoPins, TRUE) : k \in {NoKey} \cup Keys}
    \cup {Run(Lists(d, NoKey), [NoPins EXCEPT ![d] = g], c) :
            d \in Depots, g \in Gids, c \in BOOLEAN}
    \cup {Run(NoScript.keys, [d \in Depots |-> g], TRUE) : g \in Gids}
    \cup {Run(NoScript.keys, NoPins, c) : c \in BOOLEAN}
    \cup {[NoScript EXCEPT !.codeFunc = TRUE]}

\* No definition tells one file, depot, key or gid from another.
Symmetry == Permutations(Files) \cup Permutations(Depots) \cup Permutations(Gids)
=============================================================================
