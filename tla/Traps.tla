------------------------------- MODULE Traps -------------------------------
(***************************************************************************)
(* Breakpoints as hooks (VehCommon.h, VehCommon.cpp, Trap.cpp): the first  *)
(* byte of a function of Steam is overwritten by int3, and a vectored      *)
(* exception handler runs on whatever thread hits it.  A one-shot site      *)
(* captures an argument of the first call and is gone; a persistent one is *)
(* written again once the call's first instruction has been executed.      *)
(* Steam's threads call the functions while the sites are being armed.     *)
(*                                                                         *)
(* The sites lie further apart than an instruction is long, and no first    *)
(* instruction is a jump.                                                  *)
(***************************************************************************)
EXTENDS Naturals, Sequences

CONSTANTS
  Threads,
  Sites,      \* functions that get a breakpoint
  Persistent, \* those whose calls are intercepted one and all
  NoSite,
  MaxCalls    \* bound: calls of those functions

ASSUME TrapsAssumption ==
  Persistent \subseteq Sites /\ NoSite \notin Sites /\ MaxCalls \in Nat

VARIABLES
  byte,       \* the first byte of each function
  saved,      \* Int3Site::originalByte
  listed,     \* g_sites
  arming,     \* the thread that installs the hooks: the steps ahead and the site
  installed,  \* sites it has begun to arm
  at,         \* Steam's threads: the step and the function each is at
  flag,       \* threads whose trap flag is set
  captured,   \* one-shot sites that have stored their pointer
  calls,      \* how many calls were made
  hits,       \* history: how often onHit ran in a thread's last call
  armed,      \* history: the breakpoint was in place when that call began
  crossed     \* history: another thread called the function at the same time

armVars == <<saved, listed, arming, installed>>
history == <<calls, hits, armed, crossed>>
trapVars == <<byte, armVars, at, flag, captured, history>>

TrapsInit ==
  /\ byte = [site \in Sites |-> "own"]
  /\ saved = [site \in Sites |-> "own"]
  /\ listed = {}
  /\ arming = [steps |-> <<>>, site |-> NoSite]
  /\ installed = {}
  /\ at = [t \in Threads |-> [step |-> "idle", site |-> NoSite]]
  /\ flag = {} /\ captured = {} /\ crossed = {}
  /\ calls = 0
  /\ hits = [t \in Threads |-> 0]
  /\ armed = {}

Outside == {"idle", "gone"}
Inside(site) == {t \in Threads : at[t].site = site /\ at[t].step \notin Outside}
To(t, step) == at' = [at EXCEPT ![t].step = step]

-----------------------------------------------------------------------------
(* Installing and removing                                                 *)

\* Arm: the site is listed, then its byte is written.
ArmSteps == <<"push", "patch">>

\* ARM_INT3: the byte is saved, and push_back begins.  It may move the sites while the
\* handler of another thread looks at them.
ArmInt3(site) ==
  /\ arming.steps = <<>> /\ site \notin installed
  /\ saved' = [saved EXCEPT ![site] = byte[site]]
  /\ arming' = [steps |-> ArmSteps, site |-> site]
  /\ installed' = installed \cup {site}
  /\ UNCHANGED <<byte, listed, at, flag, captured, history>>

Doing(step) == arming.steps # <<>> /\ Head(arming.steps) = step
StepDone == arming' = [arming EXCEPT !.steps = Tail(@)]

Push ==
  /\ Doing("push") /\ StepDone
  /\ listed' = listed \cup {arming.site}
  /\ UNCHANGED <<byte, saved, at, flag, captured, history, installed>>

Patch ==
  /\ Doing("patch") /\ StepDone
  /\ byte' = [byte EXCEPT ![arming.site] = "int3"]
  /\ UNCHANGED <<saved, listed, at, flag, captured, history, installed>>

\* DisarmAll, RemoveHandler: the process ends, its other threads are gone.
DisarmAll ==
  /\ arming.steps = <<>> /\ listed # {}
  /\ at' = [t \in Threads |-> [step |-> "gone", site |-> NoSite]]
  /\ byte' = [site \in Sites |-> IF site \in listed /\ byte[site] = "int3" THEN saved[site]
                                 ELSE byte[site]]
  /\ listed' = {}
  /\ UNCHANGED <<saved, arming, flag, captured, history, installed>>

-----------------------------------------------------------------------------
(* A thread of Steam                                                       *)

CallFunction(t, site) ==
  /\ at[t].step = "idle" /\ calls < MaxCalls
  /\ calls' = calls + 1
  /\ at' = [at EXCEPT ![t] = [step |-> "fetch", site |-> site]]
  /\ hits' = [hits EXCEPT ![t] = 0]
  /\ armed' = IF byte[site] = "int3" THEN armed \cup {t} ELSE armed \ {t}
  /\ crossed' = IF Inside(site) = {} THEN crossed \ {t}
                ELSE crossed \cup Inside(site) \cup {t}
  /\ UNCHANGED <<byte, armVars, flag, captured>>

\* The processor takes the first instruction: the breakpoint, or the function's own,
\* after which the trap flag raises an exception.
Execute(t) ==
  /\ at[t].step = "fetch"
  /\ \/ byte[at[t].site] = "int3" /\ To(t, "breakpoint")
     \/ byte[at[t].site] # "int3" /\ t \in flag /\ To(t, "single step")
     \/ byte[at[t].site] # "int3" /\ t \notin flag /\ To(t, "idle")
  /\ UNCHANGED <<byte, armVars, flag, captured, history>>

\* The loops over g_sites.  One that overlaps a push_back finds the site or does not; an
\* exception no site claims ends the process.
Finds(t, handled) ==
  \/ at[t].site \in listed /\ handled
  \/ /\ at[t].site \notin listed \/ Doing("push")
     /\ To(t, "unhandled") /\ UNCHANGED byte

OnBreakpoint(t) ==
  /\ at[t].step = "breakpoint"
  /\ Finds(t, To(t, "restore") /\ UNCHANGED byte)
  /\ UNCHANGED <<armVars, flag, captured, history>>

RestoreByte(t) ==
  /\ at[t].step = "restore"
  /\ byte' = [byte EXCEPT ![at[t].site] = saved[at[t].site]]
  /\ To(t, "hit")
  /\ UNCHANGED <<armVars, flag, captured, history>>

\* onHit; then a persistent site asks for a single step.  A one-shot site stays listed: a
\* thread that has hit its breakpoint may still be on its way to the handler.
Kept(site) == listed
OnHit(t) ==
  LET site == at[t].site IN
  /\ at[t].step = "hit"
  /\ hits' = [hits EXCEPT ![t] = @ + 1]
  /\ captured' = captured \cup ({site} \ Persistent)
  /\ flag' = IF site \in Persistent THEN flag \cup {t} ELSE flag
  /\ listed' = Kept(site)
  /\ To(t, "fetch")
  /\ UNCHANGED <<byte, saved, arming, installed, calls, armed, crossed>>

\* OnSingleStep: the breakpoint is written again.
LeaveByte(site) == byte[site]
Rearmed(site) == "int3"
OnSingleStep(t) ==
  /\ at[t].step = "single step"
  /\ flag' = flag \ {t}
  /\ Finds(t, To(t, "idle") /\ byte' = [byte EXCEPT ![at[t].site] = Rearmed(at[t].site)])
  /\ UNCHANGED <<armVars, captured, history>>

Thread(t) ==
  \/ Execute(t) \/ OnBreakpoint(t) \/ RestoreByte(t) \/ OnHit(t) \/ OnSingleStep(t)
  \/ \E site \in Sites : CallFunction(t, site)

\* A process with an exception nobody handled is dead.
Survives == \A t \in Threads : at[t].step # "unhandled"
TrapsNext ==
  /\ Survives
  /\ \/ (\E t \in Threads : Thread(t)) \/ Push \/ Patch \/ DisarmAll
     \/ \E site \in Sites : ArmInt3(site)

-----------------------------------------------------------------------------
(* Properties                                                              *)

\* While nobody is inside a function, its breakpoint is in place if it is persistent and
\* gone if it has captured its pointer; and a call that began at a breakpoint, and that
\* no other thread's call crossed, has been intercepted exactly once.
TrapsStay ==
  /\ \A site \in listed : (Inside(site) = {} /\ (Doing("patch") => site # arming.site)) =>
       IF site \in Persistent THEN byte[site] = "int3"
       ELSE site \in captured <=> byte[site] # "int3"
  /\ \A t \in armed \ crossed : at[t].step = "idle" => hits[t] = 1

\* An exception is left unhandled only if it is looked up while a site is being added to
\* the list: the byte of a site is never hit before the handler knows the site.
HandledOnceListed == ~Survives => Doing("push")

\* Breakpoints intercept what they should, and their exceptions are handled.
BreakpointsHold == TrapsStay /\ HandledOnceListed
=============================================================================
