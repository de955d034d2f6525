---------------------------- MODULE MCPatternCache ----------------------------
(* Small instances of PatternCache.                                         *)
EXTENDS PatternCache

CONSTANTS r1, r2, o

Map(a, b, c) == [f \in Functions |-> IF f = r1 THEN a ELSE IF f = r2 THEN b ELSE c]

Lacking == Map("here", "none", "none")
Full == Map("here", "here", "here")
Moved == Map("there", "here", "none")
Stray == Map("here", "here", "outside")
Half == Map("here", "outside", "here")

TwoMirrors == {1, 2}
FirstHttps == {1}

\* A better file first or only without https, one that moves a hook, ones that lead
\* outside, a page without entries, an empty answer.
Serving ==
  {<<Text(Full), Text(Moved)>>, <<Text(Moved), Text(Full)>>, <<Text(Stray), Absent>>,
   <<Text(Half), Text(NoEntries)>>, <<Empty, Text(Full)>>}
Dropping == {Text(Lacking), Text(NoEntries)}
=============================================================================
