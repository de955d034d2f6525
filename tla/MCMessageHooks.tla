--------------------------- MODULE MCMessageHooks ---------------------------
(* Small instances of MessageHooks.                                        *)
EXTENDS MessageHooks

CONSTANTS c1, c2, k1, s1, u1, u2, d1, l1, g1

\* All requests that name one game name the same one.
OneGame == [j \in {s1, u1, u2, d1, l1} |-> g1]

\* An achievement is added to the game; then one is unlocked, and the other, its time first.
TwoBits == {"0", "1"}
TwoSchemas == <<{"0"}, {"0", "1"}>>
Unlocking ==
  <<[set |-> {}, timed |-> {}, value |-> "1"],
    [set |-> {"0"}, timed |-> {"0"}, value |-> "2"],
    [set |-> {"0"}, timed |-> {"0", "1"}, value |-> "2"]>>
=============================================================================
