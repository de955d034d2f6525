---------------------------- MODULE ManifestCode ----------------------------
(***************************************************************************)
(* Manifest request codes (Hooks_NetPacket_Manifest, ManifestClient).  When *)
(* Steam asks its server for a code of a listed depot, a task fetches one  *)
(* meanwhile: from the scripts' callbacks, else from the configured        *)
(* provider.  The reply is held until the task is done, and gets its code. *)
(* Steam's own codes are captured on the way, if donating is enabled.      *)
(*                                                                         *)
(* Locks: the client's mutex is held for a whole fetch; the Lua mutex is   *)
(* taken inside it for a callback, and let go while a script does HTTP.    *)
(* The state mutex is always taken last and held briefly: not modelled.    *)
(***************************************************************************)
EXTENDS Naturals, FiniteSets

CONSTANTS
  Jobs,        \* job ids of Steam's requests, each used once
  Providers,   \* rows of kProviders
  DepotAware,  \* those with a depot-aware URL
  MaxTracked,  \* kMaxSentTracked
  MaxLoads     \* bound on loads of settings and scripts, for model checking

ASSUME RowsAssumption == DepotAware \subseteq Providers /\ MaxTracked \in Nat /\ MaxLoads \in Nat
ASSUME JobsAssumption == Jobs # {} /\ {"nobody", "lua watcher"} \cap Jobs = {}

\* Who can hold a mutex, besides the task of a job.
Nobody == "nobody"
Watcher == "lua watcher"
Override == "url_template"
Callbacks == {"ex", "plain"}   \* fetch_manifest_code_ex and fetch_manifest_code

\* Codes are told apart by the request they are for and by who gave them.
NoCode == <<"zero">>
Garbage == <<"garbage">>
Own(j) == <<"own", j>>
Code(j) == <<"fetched", j>>
Codes == {NoCode, Garbage} \cup {Own(j) : j \in Jobs} \cup {Code(j) : j \in Jobs}

VARIABLES
  active, urlTemplateOverride,  \* g_active, whether g_urlTemplateOverride is set
  clientOwner,  \* ManifestClient::g_mutex
  luaOwner,     \* g_luaMutex
  donate,       \* [donate] enabled
  configPc, luaPc, loads,
  requested,    \* the jobs whose request was sent
  unanswered,   \* those Steam may still answer
  sent,         \* the jobs in g_SentRequests
  futures,      \* the jobs in g_CodeFutures
  fetch,        \* the task of each job
  recv,         \* HandleRecv on the network thread
  delivered,    \* history: the code Steam was given for a job, when its reply was let through
  captured      \* history: the code that was submitted for a job

clientVars == <<active, urlTemplateOverride, clientOwner>>
loadVars == <<donate, configPc, luaPc, loads>>
netVars == <<requested, unanswered, sent, futures, recv, delivered, captured>>
codeVars == <<clientVars, luaOwner, loadVars, netVars, fetch>>

NoTask == [pc |-> "none", func |-> "ex", url |-> Override, parse |-> Override,
           aware |-> FALSE, code |-> NoCode]
Idle == [pc |-> "idle", job |-> CHOOSE j \in Jobs : TRUE, code |-> NoCode]
Untouched == <<"untouched">>

CodeInit ==
  /\ active \in Providers
  /\ urlTemplateOverride \in BOOLEAN
  /\ clientOwner = Nobody
  /\ luaOwner = Nobody
  /\ donate \in BOOLEAN
  /\ configPc = "idle"
  /\ luaPc = "idle"
  /\ loads = 0
  /\ requested = {}
  /\ unanswered = {}
  /\ sent = {}
  /\ futures = {}
  /\ fetch = [j \in Jobs |-> NoTask]
  /\ recv = Idle
  /\ delivered = [j \in Jobs |-> Untouched]
  /\ captured = [j \in Jobs |-> Untouched]

-----------------------------------------------------------------------------
(* Settings and scripts                                                    *)

\* Config::Load on the config watcher: two critical sections of the client, then the
\* rest of the snapshot.
SetProvider(p) ==
  /\ configPc = "idle"
  /\ loads < MaxLoads
  /\ clientOwner = Nobody
  /\ active' = p
  /\ configPc' = "override"
  /\ loads' = loads + 1
  /\ UNCHANGED <<urlTemplateOverride, clientOwner, luaOwner, donate, luaPc, netVars, fetch>>

SetUnlocked(isSet) ==
  /\ configPc = "override"
  /\ urlTemplateOverride' = isSet
  /\ configPc' = "apply"
  /\ UNCHANGED <<active, clientOwner, luaOwner, donate, luaPc, loads, netVars, fetch>>
SetUrlTemplateOverride(isSet) ==
  /\ configPc = "override"
  /\ clientOwner = Nobody
  /\ urlTemplateOverride' = isSet
  /\ configPc' = "apply"
  /\ UNCHANGED <<active, clientOwner, luaOwner, donate, luaPc, loads, netVars, fetch>>

ApplySnapshot(enabled) ==
  /\ configPc = "apply"
  /\ donate' = enabled
  /\ configPc' = "idle"
  /\ UNCHANGED <<clientVars, luaOwner, luaPc, loads, netVars, fetch>>

\* ParseFile on the Lua watcher: what it does to the Lua mutex.
ParseFile ==
  /\ luaPc = "idle"
  /\ loads < MaxLoads
  /\ luaPc' = "lua"
  /\ loads' = loads + 1
  /\ UNCHANGED <<clientVars, luaOwner, donate, configPc, netVars, fetch>>

ParseEnters ==
  /\ luaPc \in {"lua", "relock"}
  /\ luaOwner = Nobody
  /\ luaOwner' = Watcher
  /\ luaPc' = IF luaPc = "lua" THEN "script" ELSE "scripted"
  /\ UNCHANGED <<clientVars, donate, configPc, loads, netVars, fetch>>

\* http_get in a script, at most once in a run.
ParseHttp ==
  /\ luaPc = "script"
  /\ luaOwner' = Nobody
  /\ luaPc' = "http"
  /\ UNCHANGED <<clientVars, donate, configPc, loads, netVars, fetch>>

ParseAnswered ==
  /\ luaPc = "http"
  /\ luaPc' = "relock"
  /\ UNCHANGED <<clientVars, luaOwner, donate, configPc, loads, netVars, fetch>>

ParseEnds ==
  /\ luaPc \in {"script", "scripted"}
  /\ luaOwner' = Nobody
  /\ luaPc' = "idle"
  /\ UNCHANGED <<clientVars, donate, configPc, loads, netVars, fetch>>

-----------------------------------------------------------------------------
(* FetchManifestRequestCode: one task per request                          *)

At(j, pc) == fetch[j].pc = pc
Goto(j, pc) == fetch' = [fetch EXCEPT ![j].pc = pc]
Frame == UNCHANGED <<active, urlTemplateOverride, loadVars, netVars>>

FinishLocked(j, code) ==
  /\ fetch' = [fetch EXCEPT ![j] = [NoTask EXCEPT !.pc = "done", !.code = code]]
  /\ clientOwner' = clientOwner
Finish(j, code) ==
  /\ fetch' = [fetch EXCEPT ![j] = [NoTask EXCEPT !.pc = "done", !.code = code]]
  /\ clientOwner' = Nobody

Acquire(j) ==
  /\ At(j, "lock")
  /\ clientOwner = Nobody
  /\ clientOwner' = j
  /\ Goto(j, "ask")
  /\ Frame /\ UNCHANGED luaOwner

\* FetchActive: the override with its own parser, or the active provider with its.
Get(j) ==
  LET source == IF urlTemplateOverride THEN Override ELSE active
  IN fetch' = [fetch EXCEPT ![j] = [NoTask EXCEPT !.pc = "http", !.url = source,
                                      !.parse = source, !.aware = source \in DepotAware]]

\* The sources: the ex callback, the plain one, the provider.
NextSource(j) ==
  IF fetch[j].func = "ex"
  THEN fetch' = [fetch EXCEPT ![j].pc = "ask", ![j].func = "plain"]
  ELSE Get(j)

\* A callback is asked if the scripts define it now; the ex one needs the app id.
AskScripts(j, defined) ==
  /\ At(j, "ask")
  /\ IF defined THEN Goto(j, "lua") ELSE NextSource(j)
  /\ Frame /\ UNCHANGED <<clientOwner, luaOwner>>

EnterScript(j) ==
  /\ fetch[j].pc \in {"lua", "relock"}
  /\ luaOwner = Nobody
  /\ luaOwner' = j
  /\ Goto(j, IF At(j, "lua") THEN "script" ELSE "scripted")
  /\ Frame /\ UNCHANGED clientOwner

ScriptHttp(j) ==
  /\ At(j, "script")
  /\ luaOwner' = Nobody
  /\ Goto(j, "scriptHttp")
  /\ Frame /\ UNCHANGED clientOwner

ScriptAnswered(j) ==
  /\ At(j, "scriptHttp")
  /\ Goto(j, "relock")
  /\ Frame /\ UNCHANGED <<clientOwner, luaOwner>>

\* nil, an error or no number is no answer; 0 is one.
ScriptReturns(j, answers, code) ==
  /\ fetch[j].pc \in {"script", "scripted"}
  /\ luaOwner' = Nobody
  /\ IF answers THEN Finish(j, code) ELSE NextSource(j) /\ UNCHANGED clientOwner
  /\ Frame

\* A server's answer, read by the parser chosen at the start.
Parsed(j) == IF fetch[j].url = fetch[j].parse THEN Code(j) ELSE Garbage

HttpAnswers(j, parsable) ==
  /\ At(j, "http")
  /\ Finish(j, IF parsable THEN Parsed(j) ELSE NoCode)
  /\ Frame /\ UNCHANGED luaOwner

\* A depot-aware request that fails is tried once more, by manifest alone.  The
\* template is read again.
HttpFails(j) ==
  /\ At(j, "http")
  /\ IF fetch[j].aware
     THEN /\ fetch' = [fetch EXCEPT ![j].aware = FALSE,
                         ![j].url = IF urlTemplateOverride THEN Override ELSE fetch[j].parse]
          /\ UNCHANGED clientOwner
     ELSE Finish(j, NoCode)
  /\ Frame /\ UNCHANGED luaOwner

-----------------------------------------------------------------------------
(* HandleSend and HandleRecv                                               *)

NetFrame == UNCHANGED <<clientVars, luaOwner, loadVars>>

\* Steam's request goes out unchanged.  It is remembered if donating is enabled, and
\* that of a listed depot starts a task.
HandleSend(j, listed) ==
  /\ j \notin requested
  /\ requested' = requested \cup {j}
  /\ unanswered' = unanswered \cup {j}
  /\ sent' = IF donate /\ Cardinality(sent) < MaxTracked THEN sent \cup {j} ELSE sent
  /\ IF listed
     THEN futures' = futures \cup {j} /\ Goto(j, "lock")
     ELSE UNCHANGED <<futures, fetch>>
  /\ NetFrame /\ UNCHANGED <<recv, delivered, captured>>

\* A code that Steam gives for a request remembered is submitted, if donating is
\* still enabled, before the reply is touched.
Capture(j, code) ==
  /\ sent' = sent \ {j}
  /\ captured' = IF j \in sent /\ donate /\ code # NoCode
                 THEN [captured EXCEPT ![j] = code] ELSE captured

\* The reply: Steam's own code, or a refusal.  The future leaves the table and is
\* waited for.
TakeFuture(j) == futures' = futures \ {j}

HandleRecv(j, refused) ==
  LET code == IF refused THEN NoCode ELSE Own(j)
  IN /\ recv.pc = "idle"
     /\ j \in unanswered
     /\ unanswered' = unanswered \ {j}
     /\ Capture(j, code)
     /\ TakeFuture(j)
     /\ IF j \in futures
        THEN recv' = [pc |-> "wait", job |-> j, code |-> code] /\ UNCHANGED delivered
        ELSE delivered' = [delivered EXCEPT ![j] = code] /\ UNCHANGED recv
     /\ NetFrame /\ UNCHANGED <<requested, fetch>>

LetThrough(code) ==
  /\ delivered' = [delivered EXCEPT ![recv.job] = code]
  /\ recv' = Idle
  /\ NetFrame /\ UNCHANGED <<requested, unanswered, sent, futures, captured, fetch>>

\* The task is done in time: its code replaces Steam's, unless it found none.
Inject ==
  /\ recv.pc = "wait"
  /\ At(recv.job, "done")
  /\ LetThrough(IF fetch[recv.job].code = NoCode THEN recv.code ELSE fetch[recv.job].code)

\* kMaxWaitSeconds are over, and the handler returns ...
TimeOut ==
  /\ recv.pc = "wait"
  /\ ~At(recv.job, "done")
  /\ recv' = [recv EXCEPT !.pc = "drop"]
  /\ NetFrame
  /\ UNCHANGED <<requested, unanswered, sent, futures, delivered, captured, fetch>>

\* ... by destroying the last future of a std::async task, which joins the task.
DropFuture ==
  /\ recv.pc = "drop"
  /\ At(recv.job, "done")
  /\ LetThrough(recv.code)

\* The connection drops: a request in flight is never answered.
Disconnect ==
  /\ unanswered # {}
  /\ unanswered' = {}
  /\ NetFrame
  /\ UNCHANGED <<requested, sent, futures, recv, delivered, captured, fetch>>

-----------------------------------------------------------------------------
ConfigStep ==
  \/ \E isSet \in BOOLEAN : SetUrlTemplateOverride(isSet)
  \/ \E enabled \in BOOLEAN : ApplySnapshot(enabled)
ParseStep == ParseHttp \/ ParseEnds
Enters(j) == Acquire(j) \/ EnterScript(j)

FetchStep(j) ==
  \/ \E defined \in BOOLEAN : AskScripts(j, defined)
  \/ ScriptHttp(j)
  \/ ScriptReturns(j, FALSE, NoCode)
  \/ ScriptReturns(j, TRUE, NoCode)
  \/ ScriptReturns(j, TRUE, Code(j))

\* What the other end of an HTTP connection, or its timeout, does.
HttpStep(j) ==
  \/ ScriptAnswered(j)
  \/ \E parsable \in BOOLEAN : HttpAnswers(j, parsable)
  \/ HttpFails(j)

RecvStep == Inject \/ DropFuture

CodeNext ==
  \/ \E p \in Providers : SetProvider(p)
  \/ ConfigStep
  \/ ParseFile \/ ParseEnters \/ ParseStep \/ ParseAnswered
  \/ \E j \in Jobs : Enters(j) \/ FetchStep(j) \/ HttpStep(j)
  \/ \E j \in Jobs, listed \in BOOLEAN : HandleSend(j, listed)
  \/ \E j \in Jobs, refused \in BOOLEAN : HandleRecv(j, refused)
  \/ RecvStep \/ TimeOut
  \/ Disconnect

CodeSpec == CodeInit /\ [][CodeNext]_codeVars

\* Threads run on and get a mutex that is released again and again.  Nothing is
\* assumed about HTTP.
CodeFairSpec ==
  /\ CodeSpec
  /\ WF_codeVars(ConfigStep)
  /\ WF_codeVars(ParseStep)
  /\ SF_codeVars(ParseEnters)
  /\ WF_codeVars(RecvStep)
  /\ \A j \in Jobs : WF_codeVars(FetchStep(j)) /\ SF_codeVars(Enters(j))

-----------------------------------------------------------------------------
(* Properties                                                              *)

Holders == Jobs \cup {Nobody}
Pcs == {"none", "lock", "ask", "lua", "script", "scriptHttp", "relock", "scripted", "http",
        "done"}

\* The type invariant.  A task holds the client's mutex from "ask" to "done", and
\* the Lua mutex in its script.
CodeTypeOK ==
  /\ active \in Providers /\ urlTemplateOverride \in BOOLEAN
  /\ clientOwner \in Holders
  /\ luaOwner \in Holders \cup {Watcher}
  /\ configPc \in {"idle", "override", "apply"}
  /\ luaPc \in {"idle", "lua", "script", "http", "relock", "scripted"}
  /\ donate \in BOOLEAN
  /\ loads \in 0..MaxLoads
  /\ requested \subseteq Jobs
  /\ unanswered \subseteq requested /\ sent \subseteq Jobs /\ futures \subseteq Jobs
  /\ Cardinality(sent) <= MaxTracked
  /\ fetch \in [Jobs -> [pc : Pcs, func : Callbacks, url : Providers \cup {Override},
                         parse : Providers \cup {Override}, aware : BOOLEAN, code : Codes]]
  /\ recv \in [pc : {"idle", "wait", "drop"}, job : Jobs, code : Codes]
  /\ delivered \in [Jobs -> Codes \cup {Untouched}]
  /\ captured \in [Jobs -> Codes \cup {Untouched}]
  /\ \A j \in Jobs : (fetch[j].pc \notin {"none", "lock", "done"}) <=> clientOwner = j
  /\ \A j \in Jobs : (fetch[j].pc \in {"script", "scripted"}) <=> luaOwner = j
  /\ (luaPc \in {"script", "scripted"}) <=> luaOwner = Watcher

\* Steam gets a code of the manifest it asked for, or none: settings that change
\* between the two tries of a fetch never pair a server with another's parser.
RightCode == \A j \in Jobs : delivered[j] \in {Untouched, NoCode, Own(j), Code(j)}

\* Only codes that Steam itself gave are submitted, never one fetched elsewhere.
OnlyOwnCaptured == \A j \in Jobs : captured[j] \in {Untouched, Own(j)}

\* A table entry is for a request whose reply has not been handled: no future
\* survives its reply, to be handed out again.
FuturesAwaitReplies == \A j \in futures : delivered[j] = Untouched /\ (recv.pc # "idle" => recv.job # j)

\* Codes and futures belong to the request they are handed out for, and the Lua mutex to
\* the thread that runs a script.
CodesAreRight == CodeTypeOK /\ RightCode /\ OnlyOwnCaptured /\ FuturesAwaitReplies

\* A script's HTTP call never keeps the Lua watcher from the interpreter, answered
\* or not: hot reload goes on while a callback waits for its server.
ReloadNeedsNoServer == (luaPc = "lua") ~> (luaPc # "lua")

\* If every HTTP call is answered or times out, the network thread gets on: the task
\* that a handler waits for, or joins, never waits for ever on a mutex that another
\* task, the Lua watcher or the config watcher holds.
HttpEnds ==
  /\ []<>(luaPc # "http")
  /\ \A j \in Jobs : []<>(fetch[j].pc \notin {"http", "scriptHttp"})
NetworkGoesOn == HttpEnds => []<>(recv.pc = "idle")

\* Neither the Lua watcher nor the network thread is held up for ever.
NobodyIsHeldUp == ReloadNeedsNoServer /\ NetworkGoesOn
=============================================================================
