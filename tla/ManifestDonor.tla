--------------------------- MODULE ManifestDonor ---------------------------
(***************************************************************************)
(* The donor (ManifestDonor.cpp) and the requests it originates            *)
(* (Hooks_NetPacket_ManifestProbe).  A worker thread asks Steam, one at a   *)
(* time, for the codes of manifests that are wanted and owned, waits for   *)
(* each answer on a future, and submits the batch.  Answers arrive on the  *)
(* network thread, at any time after the frame went out, more than once,   *)
(* or not at all.                                                          *)
(***************************************************************************)
EXTENDS Naturals

CONSTANTS
  Wanted,         \* entries of the wanted list: a manifest of a depot
  MaxPerCycle,    \* cfg.maxMintsPerCycle
  MaxPerSession,  \* cfg.maxMintsPerSession, 0 for unlimited
  MaxJobs         \* bound on requests, for model checking

ASSUME CapsAssumption ==
  /\ MaxPerCycle \in Nat \ {0} /\ MaxPerSession \in Nat /\ MaxJobs \in Nat \ {0}

Jobs == 1..MaxJobs
NoJob == 0
NoFrame == <<>>

\* What a promise holds.  The code of an entry is told apart by the entry.
Unset == <<"unset">>
Refused == <<"refused">>
Code(w) == <<"code", w>>
Values == {Unset, Refused} \cup {Code(w) : w \in Wanted}

VARIABLES
  running,      \* g_running
  pc,           \* off, idle, loop, spacing, request, register, send, sent, wait, pause
  ownedReady,   \* the answer of GetOwnedDepots: resolved, and which entries are owned
  ownedNow,
  owned,        \* ownedSet of the cycle
  wantedCache,  \* g_wantedCache
  fetched,      \* g_wantedFetchedAt: never, fresh, stale
  toDo,         \* entries the loop of the cycle has not considered
  current,      \* the entry being requested
  minted,       \* has any mint happened yet this cycle
  submitted,    \* codes of this cycle
  batch,        \* body: what will be submitted, per entry
  session,      \* g_mintedThisSession
  context,      \* websocket, send function and header template are captured
  nextJob,      \* g_NextJobId, counted from the base
  job,          \* the donor's request
  pending,      \* the jobs in g_Pending
  stale,        \* pending jobs older than kPendingTimeout
  promise,      \* the value of each promise
  inFlight,     \* frames Steam has received and may answer: a job and its entry
  inHand,       \* the frame whose answer HandleRecv holds, with the promise moved out
  sets,         \* history: how often a promise was given a value
  begunStopped  \* history: requests begun after Stop

ownedVars == <<ownedReady, ownedNow>>
cycleVars == <<owned, toDo, current, minted, submitted, batch>>
listVars == <<wantedCache, fetched>>
probeVars == <<nextJob, pending, stale, promise, sets, inHand>>
vars == <<running, pc, ownedVars, cycleVars, listVars, session, context, job, inFlight,
          probeVars, begunStopped>>

Init ==
  /\ running = TRUE
  /\ pc = "idle"
  /\ ownedReady = FALSE
  /\ ownedNow = {}
  /\ owned = {}
  /\ wantedCache = {}
  /\ fetched = "never"
  /\ toDo = {}
  /\ current \in Wanted
  /\ minted = FALSE
  /\ submitted = 0
  /\ batch = [w \in Wanted |-> Unset]
  /\ session = 0
  /\ context = FALSE
  /\ nextJob = 0
  /\ job = NoJob
  /\ pending = {}
  /\ stale = {}
  /\ promise = [j \in Jobs |-> Unset]
  /\ inFlight = {}
  /\ inHand = NoFrame
  /\ sets = [j \in Jobs |-> 0]
  /\ begunStopped = 0

-----------------------------------------------------------------------------
(* Around the donor                                                        *)

\* OwnedDepots publishes; the first frames are sent; time passes; the user quits.
Resolve(depots) ==
  /\ ~ownedReady
  /\ ownedReady' = TRUE
  /\ ownedNow' = depots
  /\ UNCHANGED <<running, pc, cycleVars, listVars, session, context, job, inFlight, probeVars,
                 begunStopped>>

CaptureContext ==
  /\ ~context
  /\ context' = TRUE
  /\ UNCHANGED <<running, pc, ownedVars, cycleVars, listVars, session, job, inFlight, probeVars,
                 begunStopped>>

WantedAges ==
  /\ fetched = "fresh"
  /\ fetched' = "stale"
  /\ UNCHANGED <<running, pc, ownedVars, cycleVars, wantedCache, session, context, job, inFlight,
                 probeVars, begunStopped>>

RequestAges(j) ==
  /\ j \in pending \ stale
  /\ stale' = stale \cup {j}
  /\ UNCHANGED <<running, pc, ownedVars, cycleVars, listVars, session, context, job, inFlight,
                 nextJob, pending, promise, sets, inHand, begunStopped>>

Stop ==
  /\ running
  /\ running' = FALSE
  /\ UNCHANGED <<pc, ownedVars, cycleVars, listVars, session, context, job, inFlight, probeVars,
                 begunStopped>>

-----------------------------------------------------------------------------
(* The worker                                                              *)

SessionCapReached == MaxPerSession # 0 /\ session >= MaxPerSession

\* The list is fetched when it is stale.  An empty answer keeps what is there, and
\* only the first attempt is remembered.
Refresh(answer) ==
  IF fetched = "fresh"
  THEN UNCHANGED listVars
  ELSE /\ wantedCache' = IF answer # {} THEN answer ELSE wantedCache
       /\ fetched' = IF answer # {} \/ fetched = "never" THEN "fresh" ELSE fetched

\* The head of WorkerMain: a cycle, if donating is enabled and there is a point.
StartCycle(enabled, answer) ==
  /\ pc = "idle"
  /\ running
  /\ IF enabled /\ ownedReady /\ ~SessionCapReached
     THEN /\ Refresh(answer)
          /\ pc' = "loop"
          /\ owned' = ownedNow
          /\ toDo' = wantedCache'
     ELSE /\ pc' = "pause"
          /\ UNCHANGED <<listVars, owned, toDo>>
  /\ minted' = FALSE
  /\ submitted' = 0
  /\ batch' = [w \in Wanted |-> Unset]
  /\ UNCHANGED <<running, ownedVars, current, session, context, job, inFlight, probeVars,
                 begunStopped>>

GoOn == running /\ submitted < MaxPerCycle /\ ~SessionCapReached

\* One entry of the shuffled list.  It is skipped if it is not owned or the archive
\* is known to have it; otherwise it is requested, after the spacing.
Consider(w, archived) ==
  /\ pc = "loop"
  /\ GoOn
  /\ w \in toDo
  /\ toDo' = toDo \ {w}
  /\ IF w \in owned /\ ~archived
     THEN /\ current' = w
          /\ pc' = IF minted THEN "spacing" ELSE "request"
     ELSE UNCHANGED <<current, pc>>
  /\ UNCHANGED <<running, ownedVars, owned, minted, submitted, batch, listVars, session, context,
                 job, inFlight, probeVars, begunStopped>>

\* The interval between two mints may be 0: then g_running is not looked at again.
Spacing(waits) ==
  /\ pc = "spacing"
  /\ pc' = IF waits /\ ~running THEN "loop" ELSE "request"
  /\ UNCHANGED <<running, ownedVars, cycleVars, listVars, session, context, job, inFlight,
                 probeVars, begunStopped>>

\* The loop is left, and what it collected is submitted and gone.
EndCycle ==
  /\ pc = "loop"
  /\ ~GoOn \/ toDo = {}
  /\ pc' = "pause"
  /\ batch' = [w \in Wanted |-> Unset]
  /\ UNCHANGED <<running, ownedVars, owned, toDo, current, minted, submitted, listVars, session,
                 context, job, inFlight, probeVars, begunStopped>>

\* The interval, in slices of a second.
Pause ==
  /\ pc = "pause"
  /\ pc' = IF running THEN "idle" ELSE "off"
  /\ UNCHANGED <<running, ownedVars, cycleVars, listVars, session, context, job, inFlight,
                 probeVars, begunStopped>>

Quit ==
  /\ pc = "idle"
  /\ ~running
  /\ pc' = "off"
  /\ UNCHANGED <<running, ownedVars, cycleVars, listVars, session, context, job, inFlight,
                 probeVars, begunStopped>>

-----------------------------------------------------------------------------
(* Request: on the donor's thread                                          *)

SetAll(js, value) ==
  /\ promise' = [j \in Jobs |-> IF j \in js THEN value ELSE promise[j]]
  /\ sets' = [j \in Jobs |-> IF j \in js THEN sets[j] + 1 ELSE sets[j]]
Erase(js) ==
  /\ pending' = pending \ js
  /\ stale' = stale \ js

\* First critical section: stale requests are given up; without a send context the
\* future holds 0 at once; else the request gets the next id.
SameId == 1
NextId == nextJob + 1
Begin ==
  /\ pc = "request"
  /\ nextJob < MaxJobs
  /\ minted' = TRUE
  /\ SetAll(stale, Refused)
  /\ Erase(stale)
  /\ IF context
     THEN /\ nextJob' = NextId
          /\ job' = NextId
          /\ pc' = "register"
     ELSE /\ job' = NoJob
          /\ pc' = "wait"
          /\ UNCHANGED nextJob
  /\ begunStopped' = begunStopped + (IF running THEN 0 ELSE 1)
  /\ UNCHANGED <<running, ownedVars, owned, toDo, current, submitted, batch, listVars, session,
                 context, inFlight, inHand>>

\* Second critical section, before the frame goes out.
Register ==
  /\ pc = "register"
  /\ pending' = pending \cup {job}
  /\ promise' = [promise EXCEPT ![job] = Unset]
  /\ sets' = [sets EXCEPT ![job] = 0]
  /\ pc' = "send"
  /\ UNCHANGED <<running, ownedVars, cycleVars, listVars, session, context, job, inFlight,
                 nextJob, stale, inHand, begunStopped>>

\* Steam's send.  The reply may overtake its return.
Send(goesOut) ==
  /\ pc = "send"
  /\ inFlight' = IF goesOut THEN inFlight \cup {<<job, current>>} ELSE inFlight
  /\ pc' = "sent"
  /\ UNCHANGED <<running, ownedVars, cycleVars, listVars, session, context, job, probeVars,
                 begunStopped>>

SendReturned == pc = "sent" /\ pc' = "wait"

SendSucceeds ==
  /\ SendReturned
  /\ UNCHANGED <<running, ownedVars, cycleVars, listVars, session, context, job, inFlight,
                 probeVars, begunStopped>>

\* Third critical section: the request is answered with 0, if it is still there.
SendFails ==
  /\ SendReturned
  /\ SetAll({job} \cap pending, Refused)
  /\ Erase({job})
  /\ UNCHANGED <<running, ownedVars, cycleVars, listVars, session, context, job, inFlight,
                 nextJob, inHand, begunStopped>>

\* fut.get() returns, and the loop goes on.
Outcome == IF job = NoJob THEN Refused ELSE promise[job]
CountsRequests == session + 1
Collect ==
  /\ pc = "wait"
  /\ Outcome # Unset
  /\ session' = CountsRequests
  /\ IF Outcome # Refused
     THEN /\ batch' = [batch EXCEPT ![current] = Outcome]
          /\ submitted' = submitted + 1
     ELSE UNCHANGED <<batch, submitted>>
  /\ pc' = "loop"
  /\ UNCHANGED <<running, ownedVars, owned, toDo, current, minted, listVars, context, job,
                 inFlight, probeVars, begunStopped>>

-----------------------------------------------------------------------------
(* Steam and HandleRecv: on the network thread                             *)

\* A reply finds its request and takes the promise out of the table, under the mutex.
Take(j, w) ==
  /\ inHand = NoFrame
  /\ <<j, w>> \in inFlight
  /\ j \in pending
  /\ inHand' = <<j, w>>
  /\ Erase({j})
  /\ UNCHANGED <<running, pc, ownedVars, cycleVars, listVars, session, context, job, inFlight,
                 nextJob, promise, sets, begunStopped>>

\* After the mutex is released, the body is parsed and the promise set: to the code
\* of the entry Steam was asked for, or to 0.
AnswerDropsRefusals(refuses) ==
  /\ inHand # NoFrame
  /\ SetAll({inHand[1]} \cap {j \in Jobs : ~refuses}, Code(inHand[2]))
  /\ inHand' = NoFrame
  /\ UNCHANGED <<running, pc, ownedVars, cycleVars, listVars, session, context, job, inFlight,
                 nextJob, pending, stale, begunStopped>>
Answer(refuses) ==
  /\ inHand # NoFrame
  /\ SetAll({inHand[1]}, IF refuses THEN Refused ELSE Code(inHand[2]))
  /\ inHand' = NoFrame
  /\ UNCHANGED <<running, pc, ownedVars, cycleVars, listVars, session, context, job, inFlight,
                 nextJob, pending, stale, begunStopped>>

\* The connection drops: requests in flight are forgotten.
Disconnect ==
  /\ inFlight # {}
  /\ inFlight' = {}
  /\ UNCHANGED <<running, pc, ownedVars, cycleVars, listVars, session, context, job, probeVars,
                 begunStopped>>

-----------------------------------------------------------------------------
WorkerStep ==
  \/ \E enabled \in BOOLEAN, answer \in SUBSET Wanted : StartCycle(enabled, answer)
  \/ \E w \in Wanted, archived \in BOOLEAN : Consider(w, archived)
  \/ \E waits \in BOOLEAN : Spacing(waits)
  \/ EndCycle
  \/ Pause
  \/ Quit
  \/ Begin
  \/ Register
  \/ \E goesOut \in BOOLEAN : Send(goesOut)
  \/ SendSucceeds
  \/ SendFails
  \/ Collect

NetworkStep ==
  \/ \E j \in Jobs, w \in Wanted : Take(j, w)
  \/ \E refuses \in BOOLEAN : Answer(refuses)

Next ==
  \/ \E depots \in SUBSET Wanted : Resolve(depots)
  \/ CaptureContext
  \/ WantedAges
  \/ \E j \in Jobs : RequestAges(j)
  \/ Stop
  \/ WorkerStep
  \/ NetworkStep
  \/ Disconnect

Spec == Init /\ [][Next]_vars

\* The worker runs on, and what Steam keeps it answers.
FairSpec == Spec /\ WF_vars(WorkerStep) /\ WF_vars(NetworkStep)

-----------------------------------------------------------------------------
(* Properties                                                              *)

\* The type invariant.
TypeOK ==
  /\ running \in BOOLEAN /\ minted \in BOOLEAN /\ context \in BOOLEAN
  /\ pc \in {"off", "idle", "loop", "spacing", "request", "register", "send", "sent", "wait",
             "pause"}
  /\ ownedReady \in BOOLEAN /\ ownedNow \subseteq Wanted
  /\ owned \subseteq Wanted /\ toDo \subseteq Wanted /\ wantedCache \subseteq Wanted
  /\ fetched \in {"never", "fresh", "stale"}
  /\ current \in Wanted
  /\ submitted \in 0..MaxPerCycle
  /\ session \in Nat
  /\ batch \in [Wanted -> Values]
  /\ nextJob \in 0..MaxJobs
  /\ job \in 0..MaxJobs
  /\ stale \subseteq pending /\ pending \subseteq Jobs
  /\ promise \in [Jobs -> Values]
  /\ inFlight \subseteq Jobs \X Wanted
  /\ inHand \in {NoFrame} \cup (Jobs \X Wanted)
  /\ sets \in [Jobs -> Nat]
  /\ begunStopped \in Nat

\* A promise is never given a second value (std::future_error on Steam's thread or
\* the donor's), whatever the reply, the failing send and the sweep do.
PromiseSetOnce == \A j \in Jobs : sets[j] <= 1

\* No promise is dropped: the one the donor waits for has its value, or is in the
\* table, or in the hands of the network thread.
PromiseIsKept ==
  pc \in {"send", "sent", "wait"} /\ job # NoJob =>
    \/ promise[job] # Unset
    \/ job \in pending
    \/ inHand # NoFrame /\ inHand[1] = job

\* What is submitted for a manifest is the code Steam gave for that manifest, and
\* the depot was owned when the cycle began: a late or repeated reply to an earlier
\* request never ends up in the batch.
CodesMatch == \A w \in Wanted : batch[w] = Unset \/ (batch[w] = Code(w) /\ w \in owned)

\* Steam is not asked more often than the session's cap, refusals included.
SessionCapKept == MaxPerSession # 0 => nextJob <= MaxPerSession

\* "Signals the worker to stop.  It finishes the request in flight": after Stop at
\* most one more request is begun, the one whose entry was already being considered.
AtMostOneAfterStop == begunStopped <= 1

\* The donor gets one answer to each request, from the handler, the failing send or the
\* sweep; submits no code but the one it asked for; and heeds its caps and its stop.
AnswersAreRight ==
  /\ TypeOK
  /\ PromiseSetOnce /\ PromiseIsKept /\ CodesMatch
  /\ SessionCapKept /\ AtMostOneAfterStop

\* No frame and no handler is left that could answer the donor's request.
ReplyLost ==
  /\ pc = "wait"
  /\ Outcome = Unset
  /\ <<job, current>> \notin inFlight
  /\ inHand = NoFrame \/ inHand[1] # job

\* A stopped donor ends, whatever else Steam does, unless it waits for a reply that
\* the connection has lost.
StopEnds == ~running ~> (pc = "off" \/ ReplyLost)

-----------------------------------------------------------------------------
(* The inductive invariant behind the safety properties                    *)

Waiting == {"send", "sent", "wait"}
Asking == {"spacing", "request", "register"} \cup Waiting

\* Job ids are given out in order, and the donor's request has the last one.
JobInv ==
  /\ job <= nextJob
  /\ pc \in {"register", "send", "sent"} => job = nextJob /\ job # NoJob
  /\ pc = "wait" => job \in {NoJob, nextJob}
  /\ \A j \in pending : j <= nextJob
  /\ \A f \in inFlight : f[1] <= nextJob
  /\ inHand # NoFrame => inHand[1] <= nextJob

\* A promise that can still be set is unset, and only one place can set it.
TableInv ==
  /\ \A j \in pending : sets[j] = 0 /\ promise[j] = Unset
  /\ inHand # NoFrame =>
       inHand[1] \notin pending /\ sets[inHand[1]] = 0 /\ promise[inHand[1]] = Unset
  /\ pc = "register" => job \notin pending /\ (inHand # NoFrame => inHand[1] # job)
  /\ pc \in {"register", "send"} => \A f \in inFlight : f[1] # job
  /\ pc = "send" /\ inHand # NoFrame => inHand[1] # job

\* What the last request is answered with is about the entry being considered.
AnswerInv ==
  /\ pc \in Asking => current \in owned
  /\ pc \in Waiting /\ job # NoJob =>
       /\ promise[job] \in {Unset, Refused, Code(current)}
       /\ \A f \in inFlight : f[1] = job => f[2] = current
       /\ inHand # NoFrame /\ inHand[1] = job => inHand[2] = current

\* A request is paid for when it is collected, and begun only while one is left.
CapInv ==
  /\ nextJob <= session + (IF pc \in {"register"} \cup Waiting THEN 1 ELSE 0)
  /\ MaxPerSession # 0 => session <= MaxPerSession
  /\ pc \in Asking => ~SessionCapReached

StopInv ==
  /\ AtMostOneAfterStop
  /\ running \/ pc \in {"spacing", "request"} => begunStopped = 0

\* The cycle's count stays below its cap while an entry is being requested.
CycleInv == pc \in Asking => submitted < MaxPerCycle

IInv ==
  /\ TypeOK
  /\ JobInv
  /\ TableInv
  /\ AnswerInv
  /\ CapInv
  /\ StopInv
  /\ CycleInv
  /\ PromiseSetOnce
  /\ PromiseIsKept
  /\ CodesMatch
=============================================================================
