--------------------------- MODULE RemoteLibrary ---------------------------
(***************************************************************************)
(* How a configured library gets into a game (RemoteProcess.cpp): the path *)
(* is written into the game's memory and a thread is started there that     *)
(* runs LoadLibraryW on it, while the game goes on and may end.  This is    *)
(* the inside of Handshakes' Apply, for one game: its handle is held, so    *)
(* that its pid is not given away.                                         *)
(***************************************************************************)
EXTENDS Naturals

CONSTANTS
  Libraries,  \* the libraries configured for the game
  NoLibrary

ASSUME NoLibraryAssumption == NoLibrary \notin Libraries

VARIABLES
  game,      \* "running", "ended", or "crashed" in a thread of ours
  exports,   \* what each system library of the game has as LoadLibraryW
  inject,    \* InjectLibrary: its next step, the library, and loadLibrary
  memory,    \* the allocation for each library's path in the game
  remote,    \* the thread that loads it there
  status,    \* what InjectLibrary has returned for it
  cutShort   \* history: libraries whose thread was still at work when the wait ended

remoteVars == <<game, exports, inject, memory, remote, status, cutShort>>

Modules == {"kernel32", "kernelbase"}
Exports == Modules \cup {"api-ms-win", "other", "code", "unsupported", "nothing"}
NoModule == "none"

RemoteInit ==
  /\ game = "running"
  /\ exports \in [Modules -> Exports]
  /\ inject = [step |-> "idle", library |-> NoLibrary, loadLibrary |-> NoModule]
  /\ memory = [library \in Libraries |-> "none"]
  /\ remote = [library \in Libraries |-> "none"]
  /\ status = [library \in Libraries |-> "none"]
  /\ cutShort = {}

-----------------------------------------------------------------------------
(* Where LoadLibraryW is in the game                                       *)

\* EnumerateRemoteModules: a game that is starting may not have them all; one that has
\* ended has none.
Enumerations == IF game = "running" THEN SUBSET Modules ELSE {{}}

\* An API set that is not listed is in kernelbase.
FindModule(name) == IF name = "api-ms-win" THEN "kernelbase" ELSE name

\* ResolveRemoteExport follows forwarders, eight at most: what it returns for the export
\* of a module that so many forwarders have led to.
MaxDepth == 8
Links == Exports \X (0 .. MaxDepth + 1)
Resolution(modules) ==
  LET resolve[link \in Links] ==
        LET module == FindModule(link[1])
            found == link[2] <= MaxDepth /\ module \in modules
        IN CASE ~found -> NoModule
             [] found /\ exports[module] = "code" -> module
             [] found /\ exports[module] \in {"unsupported", "nothing"} -> NoModule
             [] OTHER -> resolve[<<exports[module], link[2] + 1>>]
  IN resolve
ResolveRemoteExport(modules) == Resolution(modules)[<<"kernel32", 0>>]

-----------------------------------------------------------------------------
(* InjectLibrary                                                           *)

Goto(step) == inject' = [inject EXCEPT !.step = step]

\* Every return: the path is freed if it has been allocated.
FreedAs(library) == IF memory[library] = "none" THEN "none" ELSE "freed"
Return(result) ==
  /\ inject' = [step |-> "idle", library |-> NoLibrary, loadLibrary |-> NoModule]
  /\ status' = [status EXCEPT ![inject.library] = result]
  /\ memory' = [memory EXCEPT ![inject.library] = FreedAs(inject.library)]

Claimed(library) ==
  /\ inject.step = "idle" /\ status[library] = "none"
  /\ inject' = [inject EXCEPT !.step = "open", !.library = library]
  /\ UNCHANGED <<memory, status>>

OpenProcess ==
  /\ inject.step = "open"
  /\ \/ game = "running" /\ Goto("architecture") /\ UNCHANGED <<memory, status>>
     \/ Return("OpenProcessFailed")

DetectArchitecture ==
  /\ inject.step = "architecture"
  /\ \/ Goto("resolve") /\ UNCHANGED <<memory, status>>
     \/ Return("UnknownArchitecture")

ResolveRemoteLoadLibraryW ==
  /\ inject.step = "resolve"
  /\ \E modules \in Enumerations :
       LET module == ResolveRemoteExport(modules) IN
       IF module = NoModule THEN Return("ResolveLoadLibraryFailed")
       ELSE /\ inject' = [inject EXCEPT !.step = "allocate", !.loadLibrary = module]
            /\ UNCHANGED <<memory, status>>

AllocatePath ==
  /\ inject.step = "allocate"
  /\ \/ /\ game = "running" /\ Goto("write")
        /\ memory' = [memory EXCEPT ![inject.library] = "blank"]
        /\ UNCHANGED status
     \/ Return("AllocFailed")

\* A path that was written in part only is not used.
WritePath ==
  /\ inject.step = "write"
  /\ \/ /\ game = "running" /\ Goto("start")
        /\ memory' = [memory EXCEPT ![inject.library] = "path"]
        /\ UNCHANGED status
     \/ Return("WriteFailed")

InjectingThread ==
  /\ \/ \E library \in Libraries : Claimed(library)
     \/ OpenProcess \/ DetectArchitecture \/ ResolveRemoteLoadLibraryW
     \/ AllocatePath \/ WritePath
  /\ UNCHANGED <<game, exports, remote, cutShort>>

\* A thread that starts anywhere but at LoadLibraryW's code takes the game down.
CreateRemoteThread ==
  /\ inject.step = "start"
  /\ \/ /\ game = "running" /\ Goto("wait")
        /\ IF exports[inject.loadLibrary] = "code"
           THEN remote' = [remote EXCEPT ![inject.library] = "started"] /\ UNCHANGED game
           ELSE game' = "crashed" /\ UNCHANGED remote
        /\ UNCHANGED <<memory, status>>
     \/ Return("CreateThreadFailed") /\ UNCHANGED <<game, remote>>
  /\ UNCHANGED <<exports, cutShort>>

\* WaitForSingleObject: the thread is over, or its ten seconds are, or it fails.
Unchecked(library) == TRUE
Over(library) == remote[library] \in {"loaded", "failed"} \/ game # "running"
Wait ==
  /\ inject.step = "wait"
  /\ \/ /\ Over(inject.library) /\ Goto("exit code")
        /\ UNCHANGED <<memory, status, cutShort>>
     \/ /\ Return("WaitFailed")
        /\ cutShort' = IF Over(inject.library) THEN cutShort
                       ELSE cutShort \cup {inject.library}
  /\ UNCHANGED <<game, exports, remote>>

\* The exit code is the low half of the library's address, which may be 0, or that of a
\* game that has ended.
GetExitCodeThread ==
  /\ inject.step = "exit code"
  /\ \/ (remote[inject.library] = "loaded" \/ game # "running") /\ Return("Ok")
     \/ Return("RemoteLoadFailed")
  /\ UNCHANGED <<game, exports, remote, cutShort>>

-----------------------------------------------------------------------------
(* The game                                                                *)

\* LoadLibraryW reads its path; one that is no longer there is an access violation, or
\* something else by now.
ReadPath(library) ==
  /\ game = "running" /\ remote[library] = "started"
  /\ \/ memory[library] = "path" /\ remote' = [remote EXCEPT ![library] = "loading"]
        /\ UNCHANGED game
     \/ memory[library] # "path" /\ remote' = [remote EXCEPT ![library] = "failed"]
        /\ UNCHANGED game
     \/ memory[library] # "path" /\ game' = "crashed" /\ UNCHANGED remote
  /\ UNCHANGED <<exports, inject, memory, status, cutShort>>

LoadReturns(library) ==
  /\ game = "running" /\ remote[library] = "loading"
  /\ \E result \in {"loaded", "failed"} : remote' = [remote EXCEPT ![library] = result]
  /\ UNCHANGED <<game, exports, inject, memory, status, cutShort>>

GameEnds ==
  /\ game = "running" /\ game' = "ended"
  /\ UNCHANGED <<exports, inject, memory, remote, status, cutShort>>

RemoteNext ==
  \/ InjectingThread \/ CreateRemoteThread \/ Wait \/ GetExitCodeThread
  \/ (\E library \in Libraries : ReadPath(library) \/ LoadReturns(library)) \/ GameEnds

-----------------------------------------------------------------------------
(* Properties                                                              *)

\* A path outlives the thread that reads it and no other: a game crashes in a thread of
\* ours only if the wait for a thread was cut short, and nothing stays allocated in it.
PathOutlivesItsReader ==
  /\ game = "crashed" => cutShort # {}
  /\ \A library \in Libraries \ {inject.library} : memory[library] \in {"none", "freed"}

\* A game that is still there has the libraries whose injection was reported as a success.
SuccessIsTrue ==
  \A library \in Libraries :
    status[library] = "Ok" /\ game = "running" => remote[library] = "loaded"
=============================================================================
