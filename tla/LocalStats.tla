----------------------------- MODULE LocalStats -----------------------------
(***************************************************************************)
(* The user's progress as the Steam client keeps it on disk                *)
(* (LocalAchievements, LocalAchievementsLogic): a file of a game's         *)
(* achievements and a file of the user's statistics, both trees of binary  *)
(* KeyValues, are read and joined when a page is rebuilt.  Steam writes    *)
(* them whenever it likes, so that a file may be met half written.         *)
(***************************************************************************)
EXTENDS Naturals, FiniteSets, Sequences, SequencesExt

CONSTANTS
  Bits,       \* the achievements of the game: bits of its one statistic
  SchemaBits, \* per version of the schema file: the bits it names
  Progress    \* per version of the statistics file: the bits set, the bits with a time, the value

ASSUME StatsAssumption ==
  /\ \A v \in DOMAIN SchemaBits : SchemaBits[v] \subseteq Bits
  /\ \A v \in DOMAIN Progress : Progress[v].set \cup Progress[v].timed \subseteq Bits

Blobs == {"schema", "stats"}
Versions(f) == IF f = "schema" THEN DOMAIN SchemaBits ELSE DOMAIN Progress

VARIABLES
  disk,     \* the two files, as far as they are written
  version,  \* what Steam last began to write there
  rest,     \* what it has still to write
  blob,     \* what ReadBlob returned
  opened,   \* the file it has opened, as it was then
  reading,  \* where Read is
  page      \* the page it made last

statsVars == <<disk, version, rest, blob, opened, reading, page>>
diskVars == <<disk, version, rest>>

-----------------------------------------------------------------------------
(* Trees, and files                                                        *)

\* A file is a sequence of what BkvRead takes at a time.  A name or a value that is cut
\* in the middle is one thing, whichever it was.
Section(name) == [tag |-> "section", name |-> name, val |-> ""]
Leaf(name, val) == [tag |-> "value", name |-> name, val |-> val]
End == [tag |-> "end", name |-> "", val |-> ""]
Torn == [tag |-> "torn", name |-> "", val |-> ""]

Nest(name, inner) == <<Section(name)>> \o inner \o <<End>>
EachOf(bits, Part(_)) == FlattenSeq([i \in 1..Cardinality(bits) |-> Part(SetToSeq(bits)[i])])

\* The first bit shows how far its statistic has come.
FirstBit == CHOOSE b \in Bits : TRUE
SchemaFile(v) ==
  LET Named(b) == Nest(b, <<Leaf("name", b)>> \o
                       IF b = FirstBit THEN <<Leaf("progress", "stat")>> ELSE <<>>)
  IN Nest("app", Nest("stats", Nest("1", <<Leaf("name", "stat")>>
                                          \o Nest("bits", EachOf(SchemaBits[v], Named))))) \o <<End>>
StatsFile(v) ==
  LET Timed(b) == <<Leaf(b, "at")>>
  IN Nest("cache", <<Leaf("crc", {})>>
       \o Nest("1", <<Leaf("data", [set |-> Progress[v].set, value |-> Progress[v].value])>>
                    \o Nest("AchievementTimes", EachOf(Progress[v].timed, Timed)))) \o <<End>>
Written(f, v) == IF f = "schema" THEN SchemaFile(v) ELSE StatsFile(v)

\* BkvRead of a section's entries, from a position on: whether they are sound, where they
\* end and their nodes.  A file may do without the end of its root, and only of that.
AnyDepth(depth) == TRUE
RootOnly(depth) == depth = 0
BkvRead(data) ==
  LET Node(entry, inner) == [name |-> entry.name, val |-> entry.val, children |-> inner]
      After(node, others) == [others EXCEPT !.nodes = <<node>> \o @]
      read[from \in (1 .. Len(data) + 1) \X (0 .. Len(data))] ==
        LET pos == from[1]
            depth == from[2]
            inner == read[<<pos + 1, depth + 1>>]
            Ends(ok, next) == [ok |-> ok, pos |-> next, nodes |-> <<>>]
        IN IF pos > Len(data) THEN Ends(RootOnly(depth), pos)
           ELSE CASE data[pos].tag = "end"     -> Ends(TRUE, pos + 1)
                  [] data[pos].tag = "torn"    -> Ends(FALSE, pos)
                  [] data[pos].tag = "section" ->
                       IF inner.ok THEN After(Node(data[pos], inner.nodes), read[<<inner.pos, depth>>])
                       ELSE inner
                  [] data[pos].tag = "value"   -> After(Node(data[pos], <<>>), read[<<pos + 1, depth>>])
  IN read[<<1, 0>>]

\* ParseTree, with no nodes for a blob that is not sound.
ParseTree(data) ==
  LET read == BkvRead(data)
  IN IF data # <<>> /\ read.ok THEN read.nodes ELSE <<>>

\* Find, for children of a node that may itself be missing.
Find(nodes, name) == SelectSeq(nodes, LAMBDA n : n.name = name)
Children(nodes, name) ==
  IF Find(nodes, name) = <<>> THEN <<>> ELSE Find(nodes, name)[1].children
Has(nodes, name) == Find(nodes, name) # <<>>

-----------------------------------------------------------------------------
(* Join                                                                    *)

Locked == [unlocked |-> FALSE, time |-> "", progress |-> "none"]

\* The names of the schema's bits, each locked, unless the file of statistics says more.
NamedBits(schema) ==
  LET stat == Children(Children(Children(ParseTree(schema), "app"), "stats"), "1")
      bits == Children(stat, "bits")
  IN {bits[i] : i \in {k \in DOMAIN bits : Has(bits[k].children, "name")}}

Unlock(node, stat) ==
  LET data == Find(stat, "data")
      timed == Has(Children(stat, "AchievementTimes"), node.name)
      set == data # <<>> /\ node.name \in data[1].val.set
  IN [unlocked |-> set \/ timed, time |-> IF timed THEN "at" ELSE "",
      progress |-> IF data # <<>> /\ Has(node.children, "progress") THEN data[1].val.value ELSE "none"]

Join(schema, stats) ==
  LET stat == Children(Children(ParseTree(stats), "cache"), "1")
      named == NamedBits(schema)
  IN [b \in {n.name : n \in named} |-> Unlock(CHOOSE n \in named : n.name = b, stat)]

\* FillUserAchievements: a line for each achievement of the game's schema reply, locked
\* if the local files do not know it.
FillPage(unlocks) == [b \in Bits |-> IF b \in DOMAIN unlocks THEN unlocks[b] ELSE Locked]

-----------------------------------------------------------------------------
(* Steam writes, a handler reads                                           *)

Closed == [version |-> 0, data |-> <<>>]

StatsInit ==
  /\ version \in [Blobs -> {1}]
  /\ disk = [f \in Blobs |-> Written(f, version[f])]
  /\ rest = [f \in Blobs |-> <<>>]
  /\ blob = [f \in Blobs |-> <<>>]
  /\ opened = Closed
  /\ reading = "idle"
  /\ page = FillPage(<<>>)

\* Steam truncates a file and writes the next version, piece by piece, one file at a time.
Rewrite(f) ==
  /\ \A g \in Blobs : rest[g] = <<>>
  /\ version[f] + 1 \in Versions(f)
  /\ version' = [version EXCEPT ![f] = @ + 1]
  /\ rest' = [rest EXCEPT ![f] = Written(f, version[f] + 1)]
  /\ disk' = [disk EXCEPT ![f] = <<>>]
  /\ UNCHANGED <<blob, opened, reading, page>>

WritePiece(f) ==
  /\ rest[f] # <<>>
  /\ disk' = [disk EXCEPT ![f] = Append(@, Head(rest[f]))]
  /\ rest' = [rest EXCEPT ![f] = Tail(@)]
  /\ UNCHANGED <<version, blob, opened, reading, page>>

\* What the first n pieces of a file can be on disk: part of the next one may be there.
Cuts(f, n) ==
  {SubSeq(disk[f], 1, n)}
    \cup (IF n < Len(disk[f]) \/ rest[f] # <<>> THEN {Append(SubSeq(disk[f], 1, n), Torn)} ELSE {})

\* ReadBlob opens a file at its end; one that is missing or empty is no blob.
OpenBlob(f, next) ==
  /\ \E data \in Cuts(f, Len(disk[f])) :
       IF data = <<>> THEN opened' = Closed /\ reading' = next
       ELSE opened' = [version |-> version[f], data |-> data] /\ reading' = f
  /\ page' = FillPage(<<>>)
  /\ UNCHANGED <<diskVars, blob>>

\* Then it reads, in one go, as many bytes as there were.  Of a file that was written
\* anew these are its beginning, up to anywhere, or more than there are: then no blob.
Bytes(f) ==
  IF version[f] = opened.version THEN {opened.data}
  ELSE {<<>>} \cup UNION {Cuts(f, n) : n \in DOMAIN disk[f]}
TakeBlob(f, next) ==
  /\ reading = f
  /\ \E bytes \in Bytes(f) : blob' = [blob EXCEPT ![f] = bytes]
  /\ opened' = Closed
  /\ reading' = next
  /\ UNCHANGED <<diskVars, page>>

OpenSchema == reading = "idle" /\ OpenBlob("schema", "join")
TakeSchema == TakeBlob("schema", "between")
OpenStats == reading = "between" /\ blob["schema"] # <<>> /\ OpenBlob("stats", "join")
TakeStats == TakeBlob("stats", "join")

\* Read returns what the two blobs say; without a schema nothing.
MakePage ==
  /\ reading = "join" \/ (reading = "between" /\ blob["schema"] = <<>>)
  /\ page' = FillPage(IF blob["schema"] = <<>> THEN <<>> ELSE Join(blob["schema"], blob["stats"]))
  /\ reading' = "idle"
  /\ blob' = [f \in Blobs |-> <<>>]
  /\ UNCHANGED <<diskVars, opened>>

ReadStep == OpenSchema \/ TakeSchema \/ OpenStats \/ TakeStats \/ MakePage
SteamWrites == \E f \in Blobs : Rewrite(f) \/ WritePiece(f)

-----------------------------------------------------------------------------
(* What a page may say                                                     *)

\* The page that a schema and statistics stand for, both whole; no statistics are 0.
PageOf(s, p) ==
  [b \in Bits |->
     IF b \notin SchemaBits[s] THEN Locked
     ELSE [unlocked |-> p # 0 /\ b \in Progress[p].set \cup Progress[p].timed,
           time |-> IF p # 0 /\ b \in Progress[p].timed THEN "at" ELSE "",
           progress |-> IF p # 0 /\ b = FirstBit THEN Progress[p].value ELSE "none"]]
WholePages ==
  {FillPage(<<>>)} \cup {PageOf(s, p) : s \in DOMAIN SchemaBits, p \in {0} \cup DOMAIN Progress}
=============================================================================
