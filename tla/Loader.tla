------------------------------- MODULE Loader -------------------------------
(***************************************************************************)
(* How AmethystTool gets into Steam: the proxies dwmapi.dll and            *)
(* xinput1_4.dll, which Windows loads in place of its own libraries, and   *)
(* the images of AmethystTool they, or somebody else, load; and how the     *)
(* proxy of XInput passes calls on to the library it stands for.           *)
(*                                                                         *)
(* Windows runs one DllMain at a time, and nobody has an export before the  *)
(* DllMain of its library is done, so that loading a library is one step.   *)
(***************************************************************************)
EXTENDS Naturals, FiniteSets

CONSTANTS
  Proxies,  \* the proxies, "xinput1_4" among them
  Images,   \* "AmethystTool", and the copies of it under other names
  Callers,  \* threads that call the XInput proxy
  Exports   \* what it exports

ASSUME LoaderAssumption ==
  "xinput1_4" \in Proxies /\ "AmethystTool" \in Images /\ "nobody" \notin Images

VARIABLES
  host,       \* the executable of the process
  proxies,    \* the proxies it has loaded
  images,     \* what each image does in it
  claimed,    \* the image that created the per-process mutex (g_processClaim)
  unguarded,  \* history: the mutex could not be created
  available,  \* Windows' own xinput1_4.dll can be loaded
  provided,   \* what that exports
  real,       \* g_hRealXInput
  bound,      \* the o_ pointers that are set
  callers,    \* where each call is
  withoutReal, \* history: the library could not be loaded when the proxy was
  refused     \* history: calls answered with ERROR_DEVICE_NOT_CONNECTED

imageVars == <<images, claimed, unguarded>>
xinputVars == <<real, bound, withoutReal>>
loaderVars == <<host, proxies, imageVars, available, provided, xinputVars, callers, refused>>

NoCall == [step |-> "none", export |-> "none"]

LoaderInit ==
  /\ host = "none" /\ proxies = {}
  /\ images = [i \in Images |-> "out"]
  /\ claimed = "nobody" /\ unguarded = FALSE
  /\ available \in BOOLEAN /\ provided \in SUBSET Exports
  /\ real = FALSE /\ bound = {} /\ withoutReal = FALSE
  /\ callers = [t \in Callers |-> NoCall]
  /\ refused = {}

-----------------------------------------------------------------------------
(* Images of AmethystTool                                                  *)

\* A process that loads the proxies: Steam, or another program in its directory, or the
\* rundll32 that serves a link.
StartProcess ==
  /\ host = "none"
  /\ host' \in {"steam", "other"}
  /\ UNCHANGED <<proxies, imageVars, available, provided, xinputVars, callers, refused>>

\* What the process had is gone, its mutex with it.
EndProcess ==
  /\ host # "none"
  /\ host' = "none" /\ proxies' = {}
  /\ images' = [i \in Images |-> "out"]
  /\ claimed' = "nobody" /\ unguarded' = FALSE
  /\ real' = FALSE /\ bound' = {} /\ withoutReal' = FALSE
  /\ callers' = [t \in Callers |-> NoCall]
  /\ refused' = {}
  /\ UNCHANGED <<available, provided>>

IsSteamHost == host = "steam"

\* The first image to create the mutex runs; all do if it cannot be created.
NoMutex(image) == images' = [images EXCEPT ![image] = "active"] /\ UNCHANGED <<claimed, unguarded>>
ClaimProcessForThisImage(image) ==
  \/ /\ claimed = "nobody"
     /\ claimed' = image
     /\ images' = [images EXCEPT ![image] = "active"]
     /\ UNCHANGED unguarded
  \/ /\ claimed # "nobody"
     /\ images' = [images EXCEPT ![image] = "inert"]
     /\ UNCHANGED <<claimed, unguarded>>
  \/ /\ images' = [images EXCEPT ![image] = "active"]
     /\ unguarded' = TRUE
     /\ UNCHANGED claimed

\* DllMain of an image.
Attach(image) ==
  IF IsSteamHost THEN ClaimProcessForThisImage(image)
  ELSE images' = [images EXCEPT ![image] = "inert"] /\ UNCHANGED <<claimed, unguarded>>

\* LoadLibrary runs DllMain only for the first to load it.
LoadImage(image) == IF images[image] = "out" THEN Attach(image) ELSE UNCHANGED imageVars

\* Anything else in the process, a proxy of the upstream project say, loads one.
ForeignLoad(image) ==
  /\ host # "none" /\ images[image] = "out"
  /\ Attach(image)
  /\ UNCHANGED <<host, proxies, available, provided, xinputVars, callers, refused>>

\* What it loaded, and no proxy, is unloaded again: the one with the mutex closes it.
Detach(image) ==
  /\ images[image] # "out"
  /\ (image = "AmethystTool" /\ IsSteamHost) => proxies = {}
  /\ images' = [images EXCEPT ![image] = "out"]
  /\ claimed' = IF claimed = image THEN "nobody" ELSE claimed
  /\ UNCHANGED <<host, proxies, unguarded, available, provided, xinputVars, callers, refused>>

-----------------------------------------------------------------------------
(* The proxies                                                             *)

\* A proxy takes AmethystTool into Steam only; without the file it fails to load.
AmethystToolLoad == IF IsSteamHost THEN LoadImage("AmethystTool") ELSE UNCHANGED imageVars

\* DllMain of the XInput proxy loads the library it stands for before anybody can call.
OnFirstCall == UNCHANGED xinputVars
LoadAtOnce ==
  /\ real' = available
  /\ bound' = IF available THEN provided ELSE {}
  /\ withoutReal' = ~available

LoadProxy(proxy) ==
  /\ host # "none" /\ proxy \notin proxies
  /\ proxies' = proxies \cup {proxy}
  /\ AmethystToolLoad
  /\ IF proxy = "xinput1_4" THEN LoadAtOnce ELSE UNCHANGED xinputVars
  /\ UNCHANGED <<host, available, provided, callers, refused>>

\* The library turns up.
Appears ==
  /\ ~available
  /\ available' = TRUE
  /\ UNCHANGED <<host, proxies, imageVars, provided, xinputVars, callers, refused>>

Steps(t, step) == callers' = [callers EXCEPT ![t].step = step]

\* An export: it looks at the handle, and loads the library if there is none.
CallExport(t, export) ==
  /\ "xinput1_4" \in proxies /\ callers[t] = NoCall
  /\ callers' = [callers EXCEPT ![t] = [step |-> IF real THEN "use" ELSE "look", export |-> export]]
  /\ UNCHANGED <<host, proxies, imageVars, available, provided, xinputVars, refused>>

\* LoadRealXInput of a thread: the handle is set first and the pointers after it.
LoadRealXInput(t) ==
  /\ \/ /\ callers[t].step = "look"
        /\ Steps(t, IF real THEN "use" ELSE "load")
        /\ UNCHANGED xinputVars
     \/ /\ callers[t].step = "load"
        /\ real' = available
        /\ Steps(t, IF available THEN "bind" ELSE "use")
        /\ UNCHANGED <<bound, withoutReal>>
     \/ /\ callers[t].step = "bind"
        /\ \E export \in provided \ bound : bound' = bound \cup {export}
        /\ UNCHANGED <<real, withoutReal, callers>>
     \/ /\ callers[t].step = "bind" /\ bound = provided
        /\ Steps(t, "use")
        /\ UNCHANGED xinputVars
  /\ UNCHANGED <<host, proxies, imageVars, available, provided, refused>>

\* The pointer is used if it is set.
Forward(t) ==
  /\ callers[t].step = "use"
  /\ callers' = [callers EXCEPT ![t] = NoCall]
  /\ refused' = refused \cup ({callers[t].export} \ bound)
  /\ UNCHANGED <<host, proxies, imageVars, available, provided, xinputVars>>

LoaderStep ==
  \/ StartProcess \/ EndProcess \/ Appears
  \/ \E image \in Images : ForeignLoad(image) \/ Detach(image)
  \/ \E proxy \in Proxies : LoadProxy(proxy)
  \/ \E t \in Callers : LoadRealXInput(t) \/ Forward(t) \/ \E e \in Exports : CallExport(t, e)

-----------------------------------------------------------------------------
(* Properties                                                              *)

\* Whoever loads which image when, and unloads it, at most one of a Steam process runs and
\* none of any other process, as long as the mutex can be created.
OneActiveImage ==
  LET active == {i \in Images : images[i] = "active"}
  IN /\ IsSteamHost \/ active = {}
     /\ unguarded \/ Cardinality(active) <= 1

\* No call of something Windows' library exports is refused, whatever threads call it
\* first, if that library could be loaded with the proxy.
CallsAreForwarded == withoutReal \/ refused \cap provided = {}
=============================================================================
