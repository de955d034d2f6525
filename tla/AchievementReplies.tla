------------------------- MODULE AchievementReplies -------------------------
(***************************************************************************)
(* Achievement pages and statistics of listed games                        *)
(* (Hooks_NetPacket_UserStats, AchievementsLogic).  The client asks for a  *)
(* game's achievements and for its user's progress.  The second reply is   *)
(* rebuilt from the first and from the local statistics; one that comes    *)
(* before the schema is held, while a copy aimed at no job goes to Steam.  *)
(* Statistics that were asked for under a donor's id are stripped.         *)
(***************************************************************************)
EXTENDS NetPacket

CONSTANTS
  Games,
  GameOf,      \* the game a job asks about
  SchemaJobs,  \* Player.GetGameAchievements
  UserJobs,    \* Player.GetUserAchievements
  StatsJobs,   \* Player.GetUserStats
  MaxHeld      \* kMaxHeldUserAch

ASSUME AchievementAssumption ==
  /\ SchemaJobs \cup UserJobs \cup StatsJobs \subseteq Jobs
  /\ SchemaJobs \cup UserJobs \cup StatsJobs \subseteq DOMAIN GameOf
  /\ \A j \in DOMAIN GameOf : GameOf[j] \in Games
  /\ SchemaJobs \cap UserJobs = {} /\ (SchemaJobs \cup UserJobs) \cap StatsJobs = {}
  /\ MaxHeld \in Nat

AchievementJobs == SchemaJobs \cup UserJobs \cup StatsJobs

VARIABLES
  listed,        \* games LuaConfig::HasDepot knows
  requested,     \* jobs the client has asked
  jobIdToAppId,  \* jobs in g_JobIdToAppId: schema and statistics
  userAchJobs,   \* jobs in g_UserAchJobs
  own,           \* the jobs recorded there with the account of the user
  schema,        \* g_GameAchSchema: none, blank or full
  heldUserAch,   \* g_HeldUserAch
  overdue,       \* held jobs older than kHoldTimeout
  achPending,    \* g_UserAchPending
  spoofed,       \* history: statistics asked for under the donor's id
  friends,       \* history: jobs asked for another user's page
  unlisted       \* history: games taken from the scripts

achVars == <<listed, requested, jobIdToAppId, userAchJobs, own, schema, heldUserAch, overdue,
             achPending, spoofed, friends, unlisted>>
jobVars == <<requested, jobIdToAppId, userAchJobs, own, spoofed, friends>>
heldVars == <<schema, heldUserAch, overdue, achPending>>
scriptVars == <<listed, unlisted>>

AchievementInit ==
  /\ listed = Games
  /\ requested = {}
  /\ jobIdToAppId = {}
  /\ userAchJobs = {}
  /\ own = {}
  /\ schema = [g \in Games |-> "none"]
  /\ heldUserAch = <<>>
  /\ overdue = {}
  /\ achPending = <<>>
  /\ spoofed = {}
  /\ friends = {}
  /\ unlisted = {}

HasDepot(g) == g \in listed

\* A script stops listing a game.
Unlist(g) ==
  /\ HasDepot(g)
  /\ listed' = listed \ {g}
  /\ unlisted' = unlisted \cup {g}
  /\ UNCHANGED <<packetVars, jobVars, heldVars>>

-----------------------------------------------------------------------------
(* The send hook: a request is recorded if its game is listed, then sent.  *)

RequestSchema(j) ==
  /\ j \in SchemaJobs \ requested
  /\ requested' = requested \cup {j}
  /\ jobIdToAppId' = IF HasDepot(GameOf[j]) THEN jobIdToAppId \cup {j} ELSE jobIdToAppId
  /\ Forward(j)
  /\ UNCHANGED <<layoutVars, hookVars, clientVars, scriptVars, heldVars, userAchJobs, own, spoofed, friends>>

\* The account is that of the user if the page is the user's own.
AnyAccount(j, self) == own \cup {j}
OwnAccount(j, self) == IF self THEN own \cup {j} ELSE own
RequestUser(j, self) ==
  /\ j \in UserJobs \ requested
  /\ requested' = requested \cup {j}
  /\ IF HasDepot(GameOf[j])
     THEN userAchJobs' = userAchJobs \cup {j} /\ own' = OwnAccount(j, self)
     ELSE UNCHANGED <<userAchJobs, own>>
  /\ friends' = IF self THEN friends ELSE friends \cup {j}
  /\ Forward(j)
  /\ UNCHANGED <<layoutVars, hookVars, clientVars, scriptVars, heldVars, jobIdToAppId, spoofed>>

-----------------------------------------------------------------------------
(* The RecvPkt hook                                                        *)

Leaves(t, stage) == at' = [at EXCEPT ![t] = stage]

\* Under g_JobMutex, the job is looked up and forgotten.  A job that is not there was
\* not recorded, and its packet is passed on.
LookUp(t) ==
  LET j == packet[t].job IN
    /\ at[t] = "dispatch"
    /\ packet[t].kind \in {"schema", "user", "stats"}
    /\ jobIdToAppId' = jobIdToAppId \ {j}
    /\ userAchJobs' = userAchJobs \ {j}
    /\ Leaves(t, IF j \in jobIdToAppId \cup userAchJobs THEN packet[t].kind ELSE "original")
    /\ UNCHANGED <<layoutVars, packet, hand, wire, clientVars, scriptVars, heldVars, requested, own,
                   spoofed, friends>>

\* The donor's statistics are stripped if the game is still listed.
StripStats(t) ==
  /\ at[t] = "stats"
  /\ packet' = [packet EXCEPT ![t].about = IF HasDepot(GameOf[packet[t].job]) THEN "stripped" ELSE @]
  /\ Leaves(t, "original")
  /\ UNCHANGED <<layoutVars, hand, wire, clientVars, achVars>>

\* ShouldRebuildReply.
ToRebuild(t) ==
  /\ at[t] = "user"
  /\ Leaves(t, IF packet[t].job \in own /\ HasDepot(GameOf[packet[t].job]) THEN "fill" ELSE "original")
  /\ UNCHANGED <<layoutVars, packet, hand, wire, clientVars, achVars>>

\* Under g_AchMutex: rebuild, hold, or leave the reply alone.  A held reply goes on as
\* a copy for no job.
SameJob(p) == p
HeldCopy(p) == [p EXCEPT !.job = DroppedJob]
Fill(t) ==
  LET j == packet[t].job
      cached == schema[GameOf[j]] # "none"
      hold == ~cached /\ Len(heldUserAch) < MaxHeld
  IN /\ at[t] = "fill"
     /\ heldUserAch' = IF hold THEN Append(heldUserAch, j) ELSE heldUserAch
     /\ packet' = [packet EXCEPT ![t] = CASE cached -> [@ EXCEPT !.about = "rebuilt"]
                                          [] hold   -> HeldCopy(@)
                                          [] OTHER  -> @]
     /\ Leaves(t, "original")
     /\ UNCHANGED <<layoutVars, hand, wire, clientVars, scriptVars, jobVars, schema, overdue,
                    achPending>>

\* The members of a sequence that are in a set, in their order.
Those(sequence, set) ==
  LET kept[i \in 0 .. Len(sequence)] ==
        IF i = 0 THEN <<>>
        ELSE IF sequence[i] \in set THEN Append(kept[i - 1], sequence[i]) ELSE kept[i - 1]
  IN kept[Len(sequence)]

\* QueueHeldUserAch for the jobs of a set, in the order they were held.
Release(jobs) ==
  LET Rebuilt(j) == Packet("user", j, IF schema'[GameOf[j]] = "none" THEN "as is" ELSE "rebuilt")
      ready == Those(heldUserAch, jobs)
  IN /\ achPending' = achPending \o [i \in DOMAIN ready |-> Rebuilt(ready[i])]
     /\ heldUserAch' = Those(heldUserAch, UserJobs \ jobs)
     /\ overdue' = overdue \ jobs

\* An empty reply does not replace a cached schema.  The replies that waited are
\* released either way.
Better(old, content) == IF content = "blank" /\ old # "none" THEN old ELSE content
Waiting(g) == {j \in UserJobs : GameOf[j] = g}
Capture(t) ==
  LET g == GameOf[packet[t].job] IN
    /\ at[t] = "schema"
    /\ schema' = [schema EXCEPT ![g] = Better(@, packet[t].about)]
    /\ Release(Waiting(g))
    /\ Leaves(t, "original")
    /\ UNCHANGED <<layoutVars, packet, hand, wire, clientVars, scriptVars, jobVars>>

\* kHoldTimeout passes.
HoldTimesOut(j) ==
  /\ \E i \in DOMAIN heldUserAch : heldUserAch[i] = j
  /\ j \notin overdue
  /\ overdue' = overdue \cup {j}
  /\ UNCHANGED <<packetVars, scriptVars, jobVars, schema, heldUserAch, achPending>>

\* DrainAchievements: what is overdue is released, then all that is ready delivered.
NothingOverdue == {}
Overdue == overdue
Expire(t) ==
  /\ at[t] = "expire"
  /\ UNCHANGED schema
  /\ Release(Overdue)
  /\ GoOn(t)
  /\ UNCHANGED <<layoutVars, packet, hand, wire, clientVars, scriptVars, jobVars>>

PopHeld(t) ==
  /\ at[t] = "held"
  /\ hand[t] = NoPacket
  /\ achPending # <<>>
  /\ hand' = [hand EXCEPT ![t] = Head(achPending)]
  /\ achPending' = Tail(achPending)
  /\ UNCHANGED <<layoutVars, at, packet, wire, clientVars, scriptVars, jobVars, schema, heldUserAch,
                 overdue>>

HeldDrained(t) ==
  /\ at[t] = "held"
  /\ hand[t] = NoPacket
  /\ achPending = <<>>
  /\ GoOn(t)
  /\ UNCHANGED <<layoutVars, packet, hand, wire, clientVars, achVars>>

AchievementStep(t) ==
  LookUp(t) \/ StripStats(t) \/ ToRebuild(t) \/ Fill(t) \/ Capture(t)
    \/ Expire(t) \/ PopHeld(t) \/ HeldDrained(t)
=============================================================================
