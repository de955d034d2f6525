---------------------------- MODULE LocalReplies ----------------------------
(***************************************************************************)
(* Requests that are answered without Steam's servers: Cloud.* calls that  *)
(* CloudRedirect takes (Hooks_NetPacket_Cloud, CloudRedirectHost) and      *)
(* requests for a legacy key (Hooks_NetPacket_LegacyKey).  The send hook   *)
(* suppresses the request and queues the answer; the RecvPkt hook delivers *)
(* what is queued with the next packet that arrives.                       *)
(***************************************************************************)
EXTENDS NetPacket

CONSTANTS
  CloudJobs,  \* Cloud.* calls
  KeyJobs,    \* requests for a legacy key
  MaxQueued   \* the bound of both queues, 64

Families == {"cloud", "key"}
FamilyOf(j) == IF j \in CloudJobs THEN "cloud" ELSE "key"
NoJob == "none"

ASSUME LocalAssumption ==
  CloudJobs \cup KeyJobs \subseteq Jobs /\ NoJob \notin Jobs /\ MaxQueued \in Nat \ {0}

VARIABLES
  asked,      \* jobs whose request the client has made
  sending,    \* the job whose request the send hook holds
  hostActive, \* CloudRedirectHost::g_active
  queue,      \* g_pending of either family
  suppressed, \* history: requests that were kept from Steam
  lost        \* history: answers that found the queue full

localVars == <<asked, sending, hostActive, queue, suppressed, lost>>

LocalInit ==
  /\ asked = {}
  /\ sending = NoJob
  /\ hostActive = FALSE
  /\ queue = [f \in Families |-> <<>>]
  /\ suppressed = {}
  /\ lost = {}

-----------------------------------------------------------------------------
(* The send hook                                                           *)

\* CloudRedirectHost::Initialize.
ActivateHost ==
  /\ ~hostActive
  /\ hostActive' = TRUE
  /\ UNCHANGED <<packetVars, asked, sending, queue, suppressed, lost>>

\* A request is a candidate only once the layout is known: an answer could not be
\* delivered before.  Two Cloud.* calls are notifications and always go out.
Interceptable(f) == IsResolved /\ (f = "cloud" => hostActive)

Ask(j, notification) ==
  /\ sending = NoJob
  /\ j \in (CloudJobs \cup KeyJobs) \ asked
  /\ notification => j \in CloudJobs
  /\ asked' = asked \cup {j}
  /\ IF Interceptable(FamilyOf(j)) /\ ~notification
     THEN sending' = j /\ UNCHANGED wire
     ELSE Forward(j) /\ UNCHANGED sending
  /\ UNCHANGED <<layoutVars, hookVars, clientVars, hostActive, queue, suppressed, lost>>

\* CloudRedirect, or the resolution of the key, declines, or its answer is too large
\* for a packet: the request takes its normal way.
Decline ==
  /\ sending # NoJob
  /\ Forward(sending)
  /\ sending' = NoJob
  /\ UNCHANGED <<layoutVars, hookVars, clientVars, asked, hostActive, queue, suppressed, lost>>

\* It answers: the answer is queued if there is room, the request suppressed anyway.
HasRoom(q) == Len(q) < MaxQueued
QueueAnswer(q, j) == IF HasRoom(q) THEN Append(q, j) ELSE q

Answer ==
  LET f == FamilyOf(sending) IN
    /\ sending # NoJob
    /\ queue' = [queue EXCEPT ![f] = QueueAnswer(@, sending)]
    /\ lost' = IF HasRoom(queue[f]) THEN lost ELSE lost \cup {sending}
    /\ suppressed' = suppressed \cup {sending}
    /\ sending' = NoJob
    /\ UNCHANGED <<layoutVars, hookVars, clientVars, wire, asked, hostActive>>

-----------------------------------------------------------------------------
(* Drain, of either family                                                 *)

\* The head is popped under the queue's mutex and delivered outside it.
Pop(t) ==
  /\ at[t] \in Families
  /\ hand[t] = NoPacket
  /\ queue[at[t]] # <<>>
  /\ hand' = [hand EXCEPT ![t] = Packet("reply", Head(queue[at[t]]), "local")]
  /\ queue' = [queue EXCEPT ![at[t]] = Tail(@)]
  /\ UNCHANGED <<layoutVars, at, packet, wire, clientVars, asked, sending, hostActive, suppressed,
                 lost>>

Drained(t) ==
  /\ at[t] \in Families
  /\ hand[t] = NoPacket
  /\ queue[at[t]] = <<>>
  /\ GoOn(t)
  /\ UNCHANGED <<layoutVars, packet, hand, wire, clientVars, localVars>>

SendStep == Decline \/ Answer
=============================================================================
