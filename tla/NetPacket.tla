----------------------------- MODULE NetPacket -----------------------------
(***************************************************************************)
(* The way of a received packet through the RecvPkt hook                   *)
(* (Hooks_NetPacket.cpp), and the detection of the packet's layout         *)
(* (NetPacketLogic, Steam/NetPacket.h) that gates it.  The hook runs on    *)
(* whichever Steam thread delivers a packet.  While the layout is unknown  *)
(* a packet is only probed and handed back; afterwards the handlers see    *)
(* it, one stage after the other, and then Steam does.                     *)
(***************************************************************************)
EXTENDS Naturals, FiniteSets, Sequences

CONSTANTS
  Receivers,    \* Steam threads that deliver packets
  Layouts,      \* kLayouts, by m_pubData's offset
  Other,        \* a layout that is not in the table
  Jobs,         \* jobs of the client that wait for a reply
  MaxAttempts,  \* kMaxAttempts
  MaxFlukes     \* bound on packets that match a layout they do not have

\* The two values of g_dataOff that are no offset, and the job nobody waits on.
Unresolved == "unresolved"
Disabled == "disabled"
DroppedJob == "dropped"

\* What a packet is: a message of the client's protocol or not, its handler, the job
\* it answers, and what the handler tells apart.
Packet(kind, job, about) == [kind |-> kind, job |-> job, about |-> about]
Foreign == Packet("foreign", DroppedJob, "")   \* not a protobuf frame
Plain == Packet("plain", DroppedJob, "")       \* a message no handler wants
NoPacket == Packet("none", DroppedJob, "")

ASSUME LayoutAssumption ==
  /\ IsFiniteSet(Receivers) /\ IsFiniteSet(Layouts)
  /\ Other \notin Layouts /\ {Unresolved, Disabled} \cap (Layouts \cup {Other}) = {}
  /\ MaxAttempts \in Nat \ {0} /\ MaxFlukes \in Nat
  /\ DroppedJob \notin Jobs

VARIABLES
  layout,    \* the layout the client really has
  dataOff,   \* NetPkt::g_dataOff
  attempts,  \* LayoutResolver::attempts_
  agreed,    \* LayoutResolver::agreed_
  flukes,    \* how often a packet matched a layout it does not have
  at,        \* per receiver: where in the hook it is
  packet,    \* per receiver: the packet, as the handlers leave it
  matches,   \* per receiver: MatchingLayouts of the packet
  wire,      \* jobs whose request Steam's servers have
  hand,      \* per receiver: a packet of our own it is about to give to Steam
  replies,   \* how many replies a job was given
  shown,     \* what the last of them said
  banner     \* what the client shows its user to be playing

layoutVars == <<layout, dataOff, attempts, agreed, flukes, matches>>
hookVars == <<at, packet, hand>>
clientVars == <<replies, shown, banner>>
packetVars == <<layoutVars, hookVars, wire, clientVars>>

PacketInit(known) ==
  /\ layout \in IF known THEN Layouts ELSE Layouts \cup {Other}
  /\ dataOff = IF known THEN layout ELSE Unresolved
  /\ attempts = 0
  /\ agreed = Unresolved
  /\ flukes = 0
  /\ at = [t \in Receivers |-> "idle"]
  /\ packet = [t \in Receivers |-> Plain]
  /\ matches = [t \in Receivers |-> {}]
  /\ wire = {}
  /\ hand = [t \in Receivers |-> NoPacket]
  /\ replies = [j \in Jobs |-> 0]
  /\ shown = [j \in Jobs |-> ""]
  /\ banner = ""

IsResolved == dataOff \notin {Unresolved, Disabled}
IsDisabled == dataOff = Disabled

-----------------------------------------------------------------------------
(* EnsurePacketLayout                                                      *)

\* A protobuf frame reads as one under the layout it has.  Bytes can look like a frame
\* under another one, or in a packet that is none.
CanMatch(p, ls) ==
  IF p = Foreign THEN layout \notin ls ELSE {layout} \cap Layouts \subseteq ls
FlukesOf(ls) == Cardinality(ls \ {layout})

\* The first tests of the hook.  The probe reads the packet, nothing shared.
Arrive(t, p, ls) ==
  /\ at[t] = "idle"
  /\ packet' = [packet EXCEPT ![t] = p]
  /\ IF IsResolved \/ IsDisabled
     THEN /\ ls = {}
          /\ at' = [at EXCEPT ![t] = IF IsResolved THEN "inject" ELSE "original"]
          /\ UNCHANGED layoutVars
     ELSE /\ CanMatch(p, ls)
          /\ flukes + FlukesOf(ls) <= MaxFlukes
          /\ flukes' = flukes + FlukesOf(ls)
          /\ matches' = [matches EXCEPT ![t] = ls]
          /\ at' = [at EXCEPT ![t] = "count"]
          /\ UNCHANGED <<layout, dataOff, attempts, agreed>>

\* Observe, up to the exchange.  A packet that matches nothing is no evidence.
AfterCount(t) ==
  IF attempts >= MaxAttempts THEN "disable"
  ELSE IF matches[t] = {} THEN "original" ELSE "agree"
Count(t) ==
  /\ at[t] = "count"
  /\ attempts' = attempts + 1
  /\ at' = [at EXCEPT ![t] = AfterCount(t)]
  /\ UNCHANGED <<layout, dataOff, agreed, flukes, matches, packet, hand, wire, clientVars>>

\* Two matches drop the agreement; one is compared with the packet before.
Confirmed(ls, before) == ls = {before}
Agree(t) ==
  /\ at[t] = "agree"
  /\ agreed' = IF Cardinality(matches[t]) = 1 THEN CHOOSE l \in matches[t] : TRUE ELSE Unresolved
  /\ at' = [at EXCEPT ![t] = IF Confirmed(matches[t], agreed) THEN "latch" ELSE "original"]
  /\ UNCHANGED <<layout, dataOff, attempts, flukes, matches, packet, hand, wire, clientVars>>

\* Latch and Disable store the word, whatever it holds.
Latch(t) ==
  /\ at[t] = "latch"
  /\ dataOff' = CHOOSE l \in matches[t] : TRUE
  /\ at' = [at EXCEPT ![t] = "inject"]
  /\ UNCHANGED <<layout, attempts, agreed, flukes, matches, packet, hand, wire, clientVars>>

Disable(t) ==
  /\ at[t] = "disable"
  /\ dataOff' = Disabled
  /\ at' = [at EXCEPT ![t] = "original"]
  /\ UNCHANGED <<layout, attempts, agreed, flukes, matches, packet, hand, wire, clientVars>>

-----------------------------------------------------------------------------
(* The rest of the hook                                                    *)

\* The stages after the gate, in their order.
NextStage == [inject |-> "injecting", injecting |-> "cloud", cloud |-> "key", key |-> "expire",
              expire |-> "held", held |-> "dispatch", dispatch |-> "original"]
GoOn(t) == at' = [at EXCEPT ![t] = NextStage[at[t]]]

\* A request goes out to Steam's servers, which answer it once.
Forward(j) == wire' = wire \cup {j}

\* What the original RecvPkt does with a packet: a job gets its reply, the persona
\* state of the user is shown.
SteamTakes(p) ==
  /\ IF p.job \in Jobs
     THEN /\ replies' = [replies EXCEPT ![p.job] = @ + 1]
          /\ shown' = [shown EXCEPT ![p.job] = p.about]
     ELSE UNCHANGED <<replies, shown>>
  /\ banner' = IF p.kind = "persona" THEN p.about ELSE banner

\* The end of the hook.
Original(t) ==
  /\ at[t] = "original"
  /\ SteamTakes(packet[t])
  /\ at' = [at EXCEPT ![t] = "idle"]
  /\ packet' = [packet EXCEPT ![t] = Plain]
  /\ matches' = [matches EXCEPT ![t] = {}]
  /\ UNCHANGED <<layout, dataOff, attempts, agreed, flukes, hand, wire>>

\* A packet the handlers made is given to Steam in the place of the one at hand.
GiveHand(t) ==
  /\ hand[t] # NoPacket
  /\ SteamTakes(hand[t])
  /\ hand' = [hand EXCEPT ![t] = NoPacket]
  /\ UNCHANGED <<layoutVars, at, packet, wire>>

\* The stage of a packet that its handlers leave alone.
Dispatched(t) ==
  /\ at[t] = "dispatch"
  /\ packet[t].kind \in {"foreign", "plain", "reply"}
  /\ GoOn(t)
  /\ UNCHANGED <<layoutVars, packet, hand, wire, clientVars>>

\* A reply leaves the wire as the packet it arrives in.
ArriveReply(t, p, ls) ==
  /\ p.job \in wire
  /\ Arrive(t, p, ls)
  /\ wire' = wire \ {p.job}
  /\ UNCHANGED <<hand, clientVars>>

ArriveOther(t, p, ls) ==
  /\ p.job = DroppedJob
  /\ Arrive(t, p, ls)
  /\ UNCHANGED <<hand, wire, clientVars>>

LayoutStep(t) == Count(t) \/ Agree(t) \/ Latch(t) \/ Disable(t)
=============================================================================
