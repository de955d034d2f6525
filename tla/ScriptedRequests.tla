-------------------------- MODULE ScriptedRequests --------------------------
(***************************************************************************)
(* Requests that are sent with values of the scripts: statistics, which    *)
(* are asked for under a donor's id (Hooks_NetPacket_UserStats, StatsClient) *)
(* and whose replies lose what is the donor's, and product information,    *)
(* which is asked for with access tokens (Hooks_NetPacket_AccessToken).    *)
(* Scripts change while the send hook reads one table after the other, and *)
(* while a donor's id is fetched, which no lock is held across.            *)
(***************************************************************************)
EXTENDS LocalReplies, AchievementReplies

CONSTANT LegacyJobs  \* ClientGetUserStats, which is not a call of a service

ASSUME ScriptedAssumption ==
  /\ LegacyJobs \subseteq Jobs \ AchievementJobs
  /\ (CloudJobs \cup KeyJobs) \cap (AchievementJobs \cup LegacyJobs) = {}
  /\ LegacyJobs \subseteq DOMAIN GameOf

VARIABLES
  statsEnableApi, \* Config::GetStatsEnableApi
  pinned,    \* games in StatSteamIdSet; no unload takes one out
  statIds,   \* games in StatsClient's g_cache
  lookup,    \* per job: where its request is in GetStatSteamId
  sentAs,    \* per job: whose id the request went out with
  cached,    \* games CloudRedirect has achievements of
  tokens,    \* games in AccessTokenSet; no unload takes one out
  products,  \* the request for product information under way
  fixedId,   \* history: jobs whose game was pinned when they were asked
  added,     \* history: games that the scripts came to list
  tooLarge   \* history: jobs whose reply could not be rewritten

tokenVars == <<tokens, products>>
donorVars == <<statsEnableApi, pinned, statIds, lookup, sentAs, cached, fixedId, tooLarge>>
scriptedVars == <<donorVars, tokenVars, added>>

StatisticsJobs == StatsJobs \cup LegacyJobs
NoRequest == [step |-> "none", apps |-> {}, left |-> {}, patched |-> {}, steady |-> {}]

ScriptedInit ==
  /\ statsEnableApi \in BOOLEAN
  /\ pinned = {} /\ statIds = {} /\ tokens = {} /\ cached \in SUBSET Games
  /\ lookup = [j \in StatisticsJobs |-> ""]
  /\ sentAs = [j \in StatisticsJobs |-> ""]
  /\ products = NoRequest
  /\ fixedId = {} /\ added = {} /\ tooLarge = {}

-----------------------------------------------------------------------------
(* The scripts                                                             *)

\* A script that lists a game is loaded.
List(g) ==
  /\ ~HasDepot(g)
  /\ listed' = listed \cup {g}
  /\ added' = added \cup {g}
  /\ UNCHANGED <<packetVars, jobVars, heldVars, unlisted, donorVars, tokenVars>>

\* setStat
SetStat(g) ==
  /\ g \notin pinned
  /\ pinned' = pinned \cup {g}
  /\ UNCHANGED <<packetVars, achVars, statsEnableApi, statIds, lookup, sentAs, cached, fixedId,
                 tooLarge, tokenVars, added>>

\* addtoken
AddToken(g) ==
  /\ g \notin tokens
  /\ tokens' = tokens \cup {g}
  /\ UNCHANGED <<packetVars, achVars, donorVars, products, added>>

-----------------------------------------------------------------------------
(* Statistics                                                              *)

\* A request about a listed game is recorded, if its reply will name the job, and looks
\* for the donor's id; another one goes out as it is.
RequestStats(j) ==
  /\ j \in StatisticsJobs \ requested
  /\ \A k \in StatisticsJobs : lookup[k] = ""
  /\ requested' = requested \cup {j}
  /\ IF HasDepot(GameOf[j])
     THEN /\ jobIdToAppId' = jobIdToAppId \cup ({j} \cap StatsJobs)
          /\ lookup' = [lookup EXCEPT ![j] = "pins"]
          /\ fixedId' = IF GameOf[j] \in pinned THEN fixedId \cup {j} ELSE fixedId
          /\ UNCHANGED wire
     ELSE Forward(j) /\ UNCHANGED <<jobIdToAppId, lookup, fixedId>>
  /\ UNCHANGED <<layoutVars, hookVars, clientVars, scriptVars, heldVars, userAchJobs, own, spoofed,
                 friends, statsEnableApi, pinned, statIds, sentAs, cached, tooLarge, tokenVars, added>>

\* The request goes out under the id that was found.
SendsUnder(j, id) ==
  /\ lookup' = [lookup EXCEPT ![j] = ""]
  /\ sentAs' = [sentAs EXCEPT ![j] = id]
  /\ spoofed' = spoofed \cup {j}
  /\ Forward(j)

\* GetStatSteamId, up to the request to the server of donors' ids: the scripts come
\* before what was fetched earlier.
FetchedFirst(j) ==
  IF GameOf[j] \in statIds THEN "fetched"
  ELSE IF GameOf[j] \in pinned THEN "pinned"
  ELSE IF ~statsEnableApi THEN "default" ELSE "unknown"
FirstIn(j) ==
  IF GameOf[j] \in pinned THEN "pinned"
  ELSE IF ~statsEnableApi THEN "default"
  ELSE IF GameOf[j] \in statIds THEN "fetched" ELSE "unknown"
LookUpDonor(j) ==
  /\ lookup[j] = "pins"
  /\ IF FirstIn(j) = "unknown"
     THEN lookup' = [lookup EXCEPT ![j] = "fetch"] /\ UNCHANGED <<sentAs, spoofed, wire>>
     ELSE SendsUnder(j, FirstIn(j))
  /\ UNCHANGED <<layoutVars, hookVars, clientVars, scriptVars, heldVars, requested, jobIdToAppId,
                 userAchJobs, own, friends, statsEnableApi, pinned, statIds, cached, fixedId,
                 tooLarge, tokenVars, added>>

\* FetchStatSteamId: the server answers, or does not.
FetchStatSteamId(j, ok) ==
  /\ lookup[j] = "fetch"
  /\ statIds' = IF ok THEN statIds \cup {GameOf[j]} ELSE statIds
  /\ SendsUnder(j, IF ok THEN "fetched" ELSE "default")
  /\ UNCHANGED <<layoutVars, hookVars, clientVars, scriptVars, heldVars, requested, jobIdToAppId,
                 userAchJobs, own, friends, statsEnableApi, pinned, cached, fixedId, tooLarge,
                 tokenVars, added>>

\* The reply to ClientGetUserStats of a listed game has nothing of the donor's left, and
\* what CloudRedirect knows instead; unless it does not fit the buffer.
AchievementsOf(g) == IF hostActive /\ g \in cached THEN "cloud" ELSE "stripped"
Overlay(t, fits) ==
  LET j == packet[t].job
      mine == HasDepot(GameOf[j])
  IN /\ at[t] = "dispatch"
     /\ packet[t].kind = "legacy"
     /\ packet' = [packet EXCEPT ![t].about = IF mine /\ fits THEN AchievementsOf(GameOf[j]) ELSE @]
     /\ tooLarge' = IF mine /\ ~fits THEN tooLarge \cup {j} ELSE tooLarge
     /\ GoOn(t)
     /\ UNCHANGED <<layoutVars, hand, wire, clientVars, achVars, statsEnableApi, pinned, statIds,
                    lookup, sentAs, cached, fixedId, tokenVars, added>>

-----------------------------------------------------------------------------
(* Product information                                                     *)

\* A script lists the game and has a token for it.
HasToken(g) == HasDepot(g) /\ g \in tokens

Asks(next) ==
  /\ products' = next
  /\ UNCHANGED <<packetVars, achVars, donorVars, tokens, added>>

AskProducts(apps) ==
  /\ products = NoRequest
  /\ Asks([step |-> "search", apps |-> apps, left |-> apps, patched |-> {},
           steady |-> {g \in apps : HasToken(g)}])

\* The first pass stops at a game with a token; without one the request stays as it is.
SearchToken(g) ==
  /\ products.step = "search"
  /\ g \in products.left
  /\ Asks(IF HasToken(g)
          THEN [products EXCEPT !.step = "inject", !.left = products.apps]
          ELSE [products EXCEPT !.step = IF products.left = {g} THEN "sent" ELSE @,
                                !.left = @ \ {g}])

\* The second pass puts in what the scripts say by now.
AddTokenTo(g) ==
  /\ products.step = "inject"
  /\ g \in products.left
  /\ Asks([products EXCEPT !.left = @ \ {g},
                           !.patched = IF HasToken(g) THEN @ \cup {g} ELSE @])

InjectionEnds ==
  /\ products.step = "inject"
  /\ products.left = {}
  /\ Asks([products EXCEPT !.step = "sent"])

ProductStep ==
  (\E g \in Games : SearchToken(g) \/ AddTokenTo(g)) \/ InjectionEnds

DonorStep ==
  \E j \in StatisticsJobs : LookUpDonor(j) \/ (\E ok \in BOOLEAN : FetchStatSteamId(j, ok))
=============================================================================
