---------------------------- MODULE MessageHooks ----------------------------
(***************************************************************************)
(* The message hooks together: what the client asks, what Steam's servers  *)
(* answer and announce, and the handlers on both sides.  Every packet runs *)
(* through all stages of the hook; the handlers meet in those stages, in    *)
(* the layout gate and in the reply a job gets, and share nothing else.    *)
(***************************************************************************)
EXTENDS ScriptedRequests, LocalStats, Presence

VARIABLE scenario  \* what the client is made to do; see Active
vars == <<packetVars, localVars, achVars, scriptedVars, presenceVars, statsVars, scenario>>

CONSTANT Network  \* the receiver that delivers all packets but in the first two scenarios

ASSUME NetworkAssumption == Network \in Receivers

\* The client asks of one family of handlers at a time.  The layout is known already
\* in the scenarios that are not about it.  Where two receivers deliver packets, the
\* handlers' shared state is only what their mutexes guard.
AskedAbout == {GameOf[j] : j \in DOMAIN GameOf}
Scenarios == {"layout", "achievements", "scripts", "statistics", "tokens", "pages", "local", "presence"}
Active(t) ==
  scenario \in {"layout", "achievements"} \/ (t = Network /\ scenario # "pages")

Init ==
  /\ scenario \in Scenarios
  /\ PacketInit(scenario \notin {"layout", "local"})
  /\ LocalInit
  /\ AchievementInit
  /\ ScriptedInit
  /\ cached \subseteq IF scenario = "statistics" THEN AskedAbout ELSE {}
  /\ statsEnableApi => scenario = "statistics"
  /\ PresenceInit
  /\ StatsInit

-----------------------------------------------------------------------------
Rest(others) == UNCHANGED others /\ UNCHANGED <<statsVars, scenario>>

\* What arrives.  The reply to a schema request may be hash_only.
ReplyTo(j) ==
  IF j \in SchemaJobs THEN {Packet("schema", j, a) : a \in {"full", "blank"}}
  ELSE IF j \in UserJobs THEN {Packet("user", j, "valve")}
  ELSE IF j \in StatisticsJobs
       THEN {Packet(IF j \in StatsJobs THEN "stats" ELSE "legacy", j,
                    IF j \in spoofed THEN "donor" ELSE "own")}
  ELSE {Packet("reply", j, "steam")}

MaySurprise == scenario = "layout"
Others == IF MaySurprise THEN {Plain, Foreign} ELSE IF scenario = "statistics" THEN {} ELSE {Plain}
Probes == IF MaySurprise THEN SUBSET Layouts ELSE {{}, {layout} \cap Layouts}

FromServers(t) ==
  \/ \E j \in wire : \E p \in ReplyTo(j), ls \in Probes :
       ArriveReply(t, p, ls) /\ Rest(<<localVars, achVars, scriptedVars, presenceVars>>)
  \/ \E ls \in Probes : ArrivePush(t, ls) /\ Rest(<<localVars, achVars, scriptedVars>>)

Arrival(t) ==
  \/ FromServers(t)
  \/ \E p \in Others, ls \in Probes :
       ArriveOther(t, p, ls) /\ Rest(<<localVars, achVars, scriptedVars, presenceVars>>)

\* A receiver works.
Receive(t) ==
  \/ (LayoutStep(t) \/ Dispatched(t) \/ Original(t) \/ GiveHand(t))
       /\ Rest(<<localVars, achVars, scriptedVars, presenceVars>>)
  \/ (Pop(t) \/ Drained(t)) /\ Rest(<<achVars, scriptedVars, presenceVars>>)
  \/ AchievementStep(t) /\ Rest(<<localVars, scriptedVars, presenceVars>>)
  \/ (\E fits \in BOOLEAN : Overlay(t, fits)) /\ Rest(<<localVars, presenceVars>>)
  \/ PresenceStep(t) /\ Rest(<<localVars, achVars, scriptedVars>>)

\* The send hook works.
Send ==
  \/ SendStep /\ Rest(<<achVars, scriptedVars, presenceVars>>)
  \/ (DonorStep \/ ProductStep) /\ Rest(<<localVars, presenceVars>>)
  \/ SendStepPresence /\ Rest(<<localVars, achVars, scriptedVars>>)

\* What the client asks, and what the scripts come to say.
AsksPages ==
  \/ \E j \in Jobs : RequestSchema(j)
  \/ \E j \in Jobs, self \in BOOLEAN : RequestUser(j, self)

Client ==
  \/ /\ scenario \in {"local", "statistics"}
     /\ \/ ActivateHost
        \/ scenario = "local" /\ \E j \in Jobs, n \in BOOLEAN : Ask(j, n)
     /\ Rest(<<achVars, scriptedVars, presenceVars>>)
  \/ /\ \/ scenario \in {"achievements", "scripts"} /\ AsksPages
        \/ scenario \in {"scripts", "statistics"} /\ \E g \in AskedAbout : Unlist(g)
        \/ scenario = "tokens" /\ \E g \in Games : Unlist(g)
     /\ Rest(<<localVars, scriptedVars, presenceVars>>)
  \/ /\ \/ scenario = "statistics" /\ \E j \in Jobs : RequestStats(j)
        \/ scenario = "statistics" /\ \E g \in AskedAbout : List(g) \/ SetStat(g)
        \/ scenario = "tokens" /\ AskProducts(Games)
        \/ scenario = "tokens" /\ \E g \in Games : List(g) \/ AddToken(g)
     /\ Rest(<<localVars, presenceVars>>)
  \/ /\ scenario = "presence"
     /\ (Refresh \/ \E g \in AllGames : Launch(g) \/ Exit(g) \/ TrackRPSend(g))
     /\ Rest(<<localVars, achVars, scriptedVars>>)

\* Pages are rebuilt while Steam writes the files they are made of.
Pages ==
  /\ scenario = "pages"
  /\ ReadStep \/ SteamWrites
  /\ UNCHANGED <<packetVars, localVars, achVars, scriptedVars, presenceVars, scenario>>

Hold == (\E j \in UserJobs : HoldTimesOut(j)) /\ Rest(<<localVars, scriptedVars, presenceVars>>)

Next ==
  \/ \E t \in Receivers : (Active(t) /\ Arrival(t)) \/ Receive(t)
  \/ Send
  \/ Client
  \/ Pages
  \/ Hold

Spec == Init /\ [][Next]_vars

\* Threads run on, time passes, packets keep arriving, and Steam's servers answer what
\* reaches them, though not in any order.
FairSpec ==
  /\ Spec
  /\ \A t \in Receivers : WF_vars(Receive(t))
  /\ WF_vars(Send)
  /\ WF_vars(Hold)
  /\ WF_vars(\E t \in Receivers : Active(t) /\ Arrival(t))
  /\ SF_vars(\E t \in Receivers : Active(t) /\ FromServers(t))

-----------------------------------------------------------------------------
(* Properties                                                              *)

\* The type invariant.
TypeOK ==
  /\ layout \in Layouts \cup {Other}
  /\ dataOff \in Layouts \cup {Unresolved, Disabled}
  /\ agreed \in Layouts \cup {Unresolved}
  /\ attempts \in 0..(MaxAttempts + Cardinality(Receivers))
  /\ at \in [Receivers -> {"idle", "count", "agree", "latch", "disable", "user", "schema", "stats",
                           "fill", "original"} \cup DOMAIN NextStage]
  /\ matches \in [Receivers -> SUBSET Layouts]
  /\ wire \subseteq Jobs
  /\ replies \in [Jobs -> Nat]
  /\ asked \subseteq Jobs /\ suppressed \subseteq asked /\ lost \subseteq suppressed
  /\ sending \in asked \cup {NoJob}
  /\ \A f \in Families : queue[f] \in Seq(Jobs) /\ Len(queue[f]) <= MaxQueued
  /\ jobIdToAppId \subseteq requested /\ userAchJobs \subseteq requested /\ own \subseteq requested
  /\ lookup \in [StatisticsJobs -> {"", "pins", "fetch"}]
  /\ products.step \in {"none", "search", "inject", "sent"}
  /\ schema \in [Games -> {"none", "blank", "full"}]
  /\ heldUserAch \in Seq(UserJobs) /\ Len(heldUserAch) <= MaxHeld
  /\ overdue \subseteq UserJobs
  /\ tracked \in ListedGames \cup {NoGame}
  /\ rpKvs \in [ListedGames -> AllGames \cup {NoGame}]

\* A packet's fields are only ever touched at the offset the client has: whatever
\* threads deliver packets, and though one packet can look like what it is not, the
\* layout that is latched is the real one.
OnlyTheRealLayout == dataOff \in Layouts => dataOff = layout

\* A job is answered once, by Steam's servers or in their place: a request that is
\* suppressed is not forwarded, an answer is not delivered twice, and a held reply does
\* not reach its job before it is rebuilt.
OneReplyPerJob == \A j \in Jobs : replies[j] <= 1

\* What Steam is given are packets read at the offset that was confirmed, one to a job.
PacketsAreRight == TypeOK /\ OnlyTheRealLayout /\ OneReplyPerJob

\* A job is answered in the end, with the reply of Steam's servers or with a local
\* one, unless a local answer found the queue full.
EveryJobIsAnswered ==
  <>[](\A j \in asked \cup requested : replies[j] = 1 \/ j \in lost)

\* Statistics that were asked for under a donor's id are never shown as the user's, the
\* user's own are not stripped, and progress built from them is shown on the user's
\* page only.  The first two allow for a game that a script stops or starts to list
\* between the request and the reply, and for a reply too large to rewrite.
NobodyElsesProgress ==
  \A j \in Jobs :
    /\ shown[j] = "donor" => GameOf[j] \in unlisted \/ j \in tooLarge
    /\ shown[j] \in {"stripped", "cloud"} => j \in spoofed \/ GameOf[j] \in added
    /\ shown[j] = "rebuilt" => j \notin friends

\* A value a script had set before the send hook saw a request is the one that goes
\* out, whatever else the scripts come to say while the tables are read one after the
\* other: the pinned id wins over an id fetched earlier or meanwhile, and each game that
\* stays listed gets its token.
ScriptValuesAreSent ==
  /\ \A j \in fixedId : sentAs[j] \in {"", "pinned"}
  /\ products.step = "sent" => products.steady \ unlisted \subseteq products.patched

\* A page shows the statistics of one file that Steam wrote, as a whole, or everything
\* locked, at whatever moment of a write the files are read: never half of an unlock.
PagesAreWhole == page \in WholePages

\* When the client's games no longer change, the banner is that of the latest one and
\* CloudRedirect knows it, whichever launches, announcements and injections crossed.
BannerFollows ==
  <>[]( /\ haveSelf => banner = IF running = <<>> THEN NoGame ELSE running[Len(running)]
        /\ crRunning = {tracked} \ {NoGame})
=============================================================================
