------------------------- MODULE ManifestDonorProofs -------------------------
(***************************************************************************)
(* Proofs about the workers in the background that ask others: the manifest *)
(* donor (ManifestDonor), for every set of wanted manifests, every cap and  *)
(* every number of requests; and the refresh of a signature file            *)
(* (PatternCache), for any functions, mirrors and files they come to serve. *)
(***************************************************************************)
EXTENDS ManifestDonor, PatternCache, WellFoundedInduction, TLAPS

-----------------------------------------------------------------------------
(* Values                                                                  *)

\* The values of a promise are told apart.
LEMMA ValuesDiffer ==
  /\ Unset # Refused
  /\ \A w \in Wanted : Code(w) # Unset /\ Code(w) # Refused
  /\ \A w, v \in Wanted : Code(w) = Code(v) => w = v
  /\ Unset \in Values /\ Refused \in Values /\ \A w \in Wanted : Code(w) \in Values
  BY DEF Unset, Refused, Code, Values

\* A frame in hand names its job and its entry.
LEMMA FrameHasJob ==
  /\ \A f \in Jobs \X Wanted : f # NoFrame /\ f[1] \in Jobs /\ f[2] \in Wanted
  /\ \A j \in Jobs, w \in Wanted : <<j, w>>[1] = j /\ <<j, w>>[2] = w
  BY DEF NoFrame

-----------------------------------------------------------------------------
(* Type correctness                                                        *)

\* The initial states are well typed.
LEMMA InitTypeOK == Init => TypeOK
<1> SUFFICES ASSUME Init PROVE TypeOK
  OBVIOUS
<1> USE CapsAssumption DEF Init, Jobs
<1>1. batch \in [Wanted -> Values] /\ promise \in [Jobs -> Values]
  BY ValuesDiffer
<1>2. sets \in [Jobs -> Nat] /\ job \in 0..MaxJobs /\ submitted \in 0..MaxPerCycle
  BY DEF NoJob
<1>3. /\ nextJob \in 0..MaxJobs
      /\ stale \subseteq pending /\ pending \subseteq Jobs /\ inFlight \subseteq Jobs \X Wanted
      /\ inHand \in {NoFrame} \cup (Jobs \X Wanted)
      /\ begunStopped \in Nat /\ session \in Nat
  OBVIOUS
<1>4. QED
  BY <1>1, <1>2, <1>3, Zenon DEF TypeOK

\* Every step preserves the types.
LEMMA NextTypeOK ==
  ASSUME TypeOK, CycleInv, JobInv, [Next]_vars
  PROVE  TypeOK'
<1> USE CapsAssumption DEF TypeOK, Jobs, NoJob, ownedVars, cycleVars, listVars,
       probeVars
<1>1. ASSUME NEW depots \in SUBSET Wanted, Resolve(depots)
      PROVE  TypeOK'
  BY <1>1 DEF Resolve
<1>2. CASE CaptureContext
  BY <1>2 DEF CaptureContext
<1>3. CASE WantedAges
  BY <1>3 DEF WantedAges
<1>4. ASSUME NEW j \in Jobs, RequestAges(j)
      PROVE  TypeOK'
  BY <1>4 DEF RequestAges
<1>5. CASE Stop
  BY <1>5 DEF Stop
<1>6. ASSUME NEW enabled \in BOOLEAN, NEW answer \in SUBSET Wanted, StartCycle(enabled, answer)
      PROVE  TypeOK'
  <2>1. batch' \in [Wanted -> Values] /\ submitted' \in 0..MaxPerCycle
    BY <1>6, ValuesDiffer DEF StartCycle
  <2>2. wantedCache' \subseteq Wanted /\ fetched' \in {"never", "fresh", "stale"}
    BY <1>6 DEF StartCycle, Refresh
  <2>3. owned' \subseteq Wanted /\ toDo' \subseteq Wanted /\ pc' \in {"loop", "pause"}
    BY <1>6, <2>2 DEF StartCycle
  <2>4. UNCHANGED <<running, ownedVars, current, session, context, job, inFlight, probeVars,
                    begunStopped>> /\ minted' = FALSE
    BY <1>6 DEF StartCycle
  <2>5. QED
    BY <2>1, <2>2, <2>3, <2>4
<1>7. ASSUME NEW w \in Wanted, NEW archived \in BOOLEAN, Consider(w, archived)
      PROVE  TypeOK'
  BY <1>7 DEF Consider
<1>8. ASSUME NEW waits \in BOOLEAN, Spacing(waits)
      PROVE  TypeOK'
  BY <1>8 DEF Spacing
<1>9. CASE EndCycle
  BY <1>9, ValuesDiffer DEF EndCycle
<1>10. CASE Pause
  BY <1>10 DEF Pause
<1>11. CASE Quit
  BY <1>11 DEF Quit
<1>12. CASE Begin
  BY <1>12, ValuesDiffer DEF Begin, SetAll, Erase, NextId
<1>13. CASE Register
  BY <1>13, ValuesDiffer DEF Register, JobInv
<1>14. ASSUME NEW goesOut \in BOOLEAN, Send(goesOut)
      PROVE  TypeOK'
  <2>1. pc = "send" /\ <<job, current>> \in Jobs \X Wanted
    BY <1>14 DEF Send, JobInv
  <2>2. QED
    BY <1>14, <2>1 DEF Send
<1>15. CASE SendSucceeds
  BY <1>15 DEF SendSucceeds, SendReturned
<1>16. CASE SendFails
  BY <1>16, ValuesDiffer DEF SendFails, SendReturned, SetAll, Erase
<1>17. CASE Collect
  <2>1. Outcome \in Values
    BY ValuesDiffer DEF Outcome
  <2>2. submitted < MaxPerCycle
    BY <1>17 DEF Collect, CycleInv, Asking, Waiting
  <2>3. batch' \in [Wanted -> Values] /\ submitted' \in 0..MaxPerCycle
    BY <1>17, <2>1, <2>2 DEF Collect
  <2>4. QED
    BY <1>17, <2>3 DEF Collect, CountsRequests
<1>18. ASSUME NEW j \in Jobs, NEW w \in Wanted, Take(j, w)
      PROVE  TypeOK'
  BY <1>18 DEF Take, Erase
<1>19. ASSUME NEW refuses \in BOOLEAN, Answer(refuses)
      PROVE  TypeOK'
  <2>1. inHand \in Jobs \X Wanted
    BY <1>19 DEF Answer
  <2>2. Code(inHand[2]) \in Values
    BY <2>1, ValuesDiffer, FrameHasJob
  <2>3. promise' \in [Jobs -> Values] /\ sets' \in [Jobs -> Nat]
    BY <1>19, <2>2, ValuesDiffer DEF Answer, SetAll
  <2>4. QED
    BY <1>19, <2>3 DEF Answer
<1>20. CASE Disconnect
  BY <1>20 DEF Disconnect
<1>21. CASE UNCHANGED vars
  BY <1>21 DEF vars
<1>22. QED
  BY <1>1, <1>2, <1>3, <1>4, <1>5, <1>6, <1>7, <1>8, <1>9, <1>10, <1>11, <1>12, <1>13,
     <1>14, <1>15, <1>16, <1>17, <1>18, <1>19, <1>20, <1>21
  DEF Next, WorkerStep, NetworkStep

-----------------------------------------------------------------------------
(* The inductive invariant                                                 *)

\* Job ids are given out in order.
LEMMA NextJobInv ==
  ASSUME TypeOK, JobInv, [Next]_vars
  PROVE  JobInv'
<1> USE CapsAssumption DEF TypeOK, Jobs, NoJob, JobInv, ownedVars, cycleVars, listVars,
       probeVars
<1>1. ASSUME NEW depots \in SUBSET Wanted, Resolve(depots)
      PROVE  JobInv'
  BY <1>1 DEF Resolve
<1>2. CASE CaptureContext
  BY <1>2 DEF CaptureContext
<1>3. CASE WantedAges
  BY <1>3 DEF WantedAges
<1>4. ASSUME NEW j \in Jobs, RequestAges(j)
      PROVE  JobInv'
  BY <1>4 DEF RequestAges
<1>5. CASE Stop
  BY <1>5 DEF Stop
<1>6. ASSUME NEW enabled \in BOOLEAN, NEW answer \in SUBSET Wanted, StartCycle(enabled, answer)
      PROVE  JobInv'
  BY <1>6 DEF StartCycle, Refresh
<1>7. ASSUME NEW w \in Wanted, NEW archived \in BOOLEAN, Consider(w, archived)
      PROVE  JobInv'
  BY <1>7 DEF Consider
<1>8. ASSUME NEW waits \in BOOLEAN, Spacing(waits)
      PROVE  JobInv'
  BY <1>8 DEF Spacing
<1>9. CASE EndCycle
  BY <1>9 DEF EndCycle
<1>10. CASE Pause
  BY <1>10 DEF Pause
<1>11. CASE Quit
  BY <1>11 DEF Quit
<1>12. CASE Begin
  BY <1>12 DEF Begin, SetAll, Erase, NextId
<1>13. CASE Register
  BY <1>13 DEF Register
<1>14. ASSUME NEW goesOut \in BOOLEAN, Send(goesOut)
      PROVE  JobInv'
  BY <1>14 DEF Send
<1>15. CASE SendSucceeds
  BY <1>15 DEF SendSucceeds, SendReturned
<1>16. CASE SendFails
  BY <1>16 DEF SendFails, SendReturned, SetAll, Erase
<1>17. CASE Collect
  BY <1>17 DEF Collect, CountsRequests
<1>18. ASSUME NEW j \in Jobs, NEW w \in Wanted, Take(j, w)
      PROVE  JobInv'
  BY <1>18 DEF Take, Erase
<1>19. ASSUME NEW refuses \in BOOLEAN, Answer(refuses)
      PROVE  JobInv'
  BY <1>19 DEF Answer, SetAll
<1>20. CASE Disconnect
  BY <1>20 DEF Disconnect
<1>21. CASE UNCHANGED vars
  BY <1>21 DEF vars
<1>22. QED
  BY <1>1, <1>2, <1>3, <1>4, <1>5, <1>6, <1>7, <1>8, <1>9, <1>10, <1>11, <1>12, <1>13,
     <1>14, <1>15, <1>16, <1>17, <1>18, <1>19, <1>20, <1>21
  DEF Next, WorkerStep, NetworkStep

\* One place at most can set a promise.
LEMMA NextTableInv ==
  ASSUME TypeOK, JobInv, TableInv, [Next]_vars
  PROVE  TableInv'
<1> USE CapsAssumption DEF TypeOK, Jobs, NoJob, TableInv, ownedVars, cycleVars,
       listVars, probeVars
<1>1. ASSUME NEW depots \in SUBSET Wanted, Resolve(depots)
      PROVE  TableInv'
  BY <1>1 DEF Resolve
<1>2. CASE CaptureContext
  BY <1>2 DEF CaptureContext
<1>3. CASE WantedAges
  BY <1>3 DEF WantedAges
<1>4. ASSUME NEW j \in Jobs, RequestAges(j)
      PROVE  TableInv'
  BY <1>4 DEF RequestAges
<1>5. CASE Stop
  BY <1>5 DEF Stop
<1>6. ASSUME NEW enabled \in BOOLEAN, NEW answer \in SUBSET Wanted, StartCycle(enabled, answer)
      PROVE  TableInv'
  BY <1>6 DEF StartCycle, Refresh
<1>7. ASSUME NEW w \in Wanted, NEW archived \in BOOLEAN, Consider(w, archived)
      PROVE  TableInv'
  BY <1>7 DEF Consider
<1>8. ASSUME NEW waits \in BOOLEAN, Spacing(waits)
      PROVE  TableInv'
  BY <1>8 DEF Spacing
<1>9. CASE EndCycle
  BY <1>9 DEF EndCycle
<1>10. CASE Pause
  BY <1>10 DEF Pause
<1>11. CASE Quit
  BY <1>11 DEF Quit
<1>12. CASE Begin
  <2>1. pending' = pending \ stale /\ UNCHANGED <<inFlight, inHand>>
    BY <1>12 DEF Begin, Erase
  <2>2. \A j \in Jobs \ stale : sets'[j] = sets[j] /\ promise'[j] = promise[j]
    BY <1>12 DEF Begin, SetAll
  <2>3. /\ \A j \in pending' : sets'[j] = 0 /\ promise'[j] = Unset
        /\ inHand' # NoFrame =>
             /\ inHand'[1] \notin pending'
             /\ sets'[inHand'[1]] = 0 /\ promise'[inHand'[1]] = Unset
    BY <2>1, <2>2, FrameHasJob
  <2>4. pc' # "send"
    BY <1>12 DEF Begin
  <2>5. ASSUME pc' = "register"
        PROVE  /\ job' \notin pending'
               /\ inHand' # NoFrame => inHand'[1] # job'
               /\ \A f \in inFlight' : f[1] # job'
    <3>1. job' = nextJob + 1
      BY <1>12, <2>5 DEF Begin, NextId
    <3>2. QED
      BY <2>1, <3>1, FrameHasJob DEF JobInv
  <2>6. QED
    BY <2>3, <2>4, <2>5
<1>13. CASE Register
  <2>1. job \in Jobs /\ job \notin pending /\ (inHand # NoFrame => inHand[1] # job)
    BY <1>13 DEF Register, JobInv
  <2>2. /\ sets'[job] = 0 /\ promise'[job] = Unset
        /\ \A j \in Jobs : j # job => sets'[j] = sets[j] /\ promise'[j] = promise[j]
    BY <1>13, <2>1 DEF Register
  <2>3. pending' = pending \cup {job} /\ pc' = "send" /\ UNCHANGED <<inFlight, inHand, job>>
    BY <1>13 DEF Register
  <2>4. \A f \in inFlight : f[1] # job
    BY <1>13 DEF Register
  <2>5. QED
    BY <2>1, <2>2, <2>3, <2>4, FrameHasJob
<1>14. ASSUME NEW goesOut \in BOOLEAN, Send(goesOut)
      PROVE  TableInv'
  BY <1>14 DEF Send
<1>15. CASE SendSucceeds
  BY <1>15 DEF SendSucceeds, SendReturned
<1>16. CASE SendFails
  BY <1>16 DEF SendFails, SendReturned, SetAll, Erase
<1>17. CASE Collect
  BY <1>17 DEF Collect, CountsRequests
<1>18. ASSUME NEW j \in Jobs, NEW w \in Wanted, Take(j, w)
      PROVE  TableInv'
  BY <1>18 DEF Take, Erase
<1>19. ASSUME NEW refuses \in BOOLEAN, Answer(refuses)
      PROVE  TableInv'
  BY <1>19 DEF Answer, SetAll
<1>20. CASE Disconnect
  BY <1>20 DEF Disconnect
<1>21. CASE UNCHANGED vars
  BY <1>21 DEF vars
<1>22. QED
  BY <1>1, <1>2, <1>3, <1>4, <1>5, <1>6, <1>7, <1>8, <1>9, <1>10, <1>11, <1>12, <1>13,
     <1>14, <1>15, <1>16, <1>17, <1>18, <1>19, <1>20, <1>21
  DEF Next, WorkerStep, NetworkStep

\* Who sets a promise finds it unset.
LEMMA NextSetOnce ==
  ASSUME TypeOK, JobInv, TableInv, PromiseSetOnce, [Next]_vars
  PROVE  PromiseSetOnce'
<1> USE CapsAssumption DEF TypeOK, Jobs, NoJob, TableInv, PromiseSetOnce, ownedVars,
       cycleVars, listVars, probeVars
<1>1. ASSUME NEW depots \in SUBSET Wanted, Resolve(depots)
      PROVE  PromiseSetOnce'
  BY <1>1 DEF Resolve
<1>2. CASE CaptureContext
  BY <1>2 DEF CaptureContext
<1>3. CASE WantedAges
  BY <1>3 DEF WantedAges
<1>4. ASSUME NEW j \in Jobs, RequestAges(j)
      PROVE  PromiseSetOnce'
  BY <1>4 DEF RequestAges
<1>5. CASE Stop
  BY <1>5 DEF Stop
<1>6. ASSUME NEW enabled \in BOOLEAN, NEW answer \in SUBSET Wanted, StartCycle(enabled, answer)
      PROVE  PromiseSetOnce'
  BY <1>6 DEF StartCycle, Refresh
<1>7. ASSUME NEW w \in Wanted, NEW archived \in BOOLEAN, Consider(w, archived)
      PROVE  PromiseSetOnce'
  BY <1>7 DEF Consider
<1>8. ASSUME NEW waits \in BOOLEAN, Spacing(waits)
      PROVE  PromiseSetOnce'
  BY <1>8 DEF Spacing
<1>9. CASE EndCycle
  BY <1>9 DEF EndCycle
<1>10. CASE Pause
  BY <1>10 DEF Pause
<1>11. CASE Quit
  BY <1>11 DEF Quit
<1>12. CASE Begin
  BY <1>12 DEF Begin, SetAll, Erase, NextId
<1>13. CASE Register
  BY <1>13 DEF Register
<1>14. ASSUME NEW goesOut \in BOOLEAN, Send(goesOut)
      PROVE  PromiseSetOnce'
  BY <1>14 DEF Send
<1>15. CASE SendSucceeds
  BY <1>15 DEF SendSucceeds, SendReturned
<1>16. CASE SendFails
  BY <1>16 DEF SendFails, SendReturned, SetAll, Erase
<1>17. CASE Collect
  BY <1>17 DEF Collect, CountsRequests
<1>18. ASSUME NEW j \in Jobs, NEW w \in Wanted, Take(j, w)
      PROVE  PromiseSetOnce'
  BY <1>18 DEF Take, Erase
<1>19. ASSUME NEW refuses \in BOOLEAN, Answer(refuses)
      PROVE  PromiseSetOnce'
  BY <1>19 DEF Answer, SetAll
<1>20. CASE Disconnect
  BY <1>20 DEF Disconnect
<1>21. CASE UNCHANGED vars
  BY <1>21 DEF vars
<1>22. QED
  BY <1>1, <1>2, <1>3, <1>4, <1>5, <1>6, <1>7, <1>8, <1>9, <1>10, <1>11, <1>12, <1>13,
     <1>14, <1>15, <1>16, <1>17, <1>18, <1>19, <1>20, <1>21
  DEF Next, WorkerStep, NetworkStep

\* A request leaves the table with its answer, or into the handler's hands.
LEMMA NextKept ==
  ASSUME TypeOK, JobInv, TableInv, PromiseIsKept, [Next]_vars
  PROVE  PromiseIsKept'
<1> USE CapsAssumption DEF TypeOK, Jobs, NoJob, PromiseIsKept, ownedVars, cycleVars,
       listVars, probeVars
<1>1. ASSUME NEW depots \in SUBSET Wanted, Resolve(depots)
      PROVE  PromiseIsKept'
  BY <1>1 DEF Resolve
<1>2. CASE CaptureContext
  BY <1>2 DEF CaptureContext
<1>3. CASE WantedAges
  BY <1>3 DEF WantedAges
<1>4. ASSUME NEW j \in Jobs, RequestAges(j)
      PROVE  PromiseIsKept'
  BY <1>4 DEF RequestAges
<1>5. CASE Stop
  BY <1>5 DEF Stop
<1>6. ASSUME NEW enabled \in BOOLEAN, NEW answer \in SUBSET Wanted, StartCycle(enabled, answer)
      PROVE  PromiseIsKept'
  BY <1>6 DEF StartCycle, Refresh
<1>7. ASSUME NEW w \in Wanted, NEW archived \in BOOLEAN, Consider(w, archived)
      PROVE  PromiseIsKept'
  BY <1>7 DEF Consider
<1>8. ASSUME NEW waits \in BOOLEAN, Spacing(waits)
      PROVE  PromiseIsKept'
  BY <1>8 DEF Spacing
<1>9. CASE EndCycle
  BY <1>9 DEF EndCycle
<1>10. CASE Pause
  BY <1>10 DEF Pause
<1>11. CASE Quit
  BY <1>11 DEF Quit
<1>12. CASE Begin
  BY <1>12 DEF Begin, SetAll, Erase, NextId
<1>13. CASE Register
  BY <1>13 DEF Register
<1>14. ASSUME NEW goesOut \in BOOLEAN, Send(goesOut)
      PROVE  PromiseIsKept'
  BY <1>14 DEF Send
<1>15. CASE SendSucceeds
  BY <1>15 DEF SendSucceeds, SendReturned
<1>16. CASE SendFails
  <2>1. job \in pending => promise'[job] = Refused
    BY <1>16 DEF SendFails, SetAll
  <2>2. job \notin pending => (job \in Jobs => promise'[job] = promise[job])
    BY <1>16 DEF SendFails, SetAll
  <2>3. UNCHANGED <<job, inHand>> /\ pc = "sent" /\ job \in 0..MaxJobs
    BY <1>16 DEF SendFails, SendReturned
  <2>4. QED
    BY <2>1, <2>2, <2>3, ValuesDiffer
<1>17. CASE Collect
  BY <1>17 DEF Collect, CountsRequests
<1>18. ASSUME NEW j \in Jobs, NEW w \in Wanted, Take(j, w)
      PROVE  PromiseIsKept'
  <2>1. inHand' # NoFrame /\ inHand'[1] = j
    BY <1>18, FrameHasJob DEF Take
  <2>2. UNCHANGED <<pc, job, promise>> /\ pending' = pending \ {j} /\ inHand = NoFrame
    BY <1>18 DEF Take, Erase
  <2>3. QED
    BY <2>1, <2>2
<1>19. ASSUME NEW refuses \in BOOLEAN, Answer(refuses)
      PROVE  PromiseIsKept'
  <2>1. inHand # NoFrame /\ inHand[1] \in Jobs /\ inHand[2] \in Wanted
    BY <1>19, FrameHasJob DEF Answer
  <2>2. promise'[inHand[1]] # Unset
    BY <1>19, <2>1, ValuesDiffer DEF Answer, SetAll
  <2>3. \A j \in Jobs : promise[j] # Unset => promise'[j] # Unset
    BY <1>19, <2>1, ValuesDiffer DEF Answer, SetAll
  <2>4. UNCHANGED <<pc, job, pending>>
    BY <1>19 DEF Answer
  <2>5. QED
    BY <2>1, <2>2, <2>3, <2>4
<1>20. CASE Disconnect
  BY <1>20 DEF Disconnect
<1>21. CASE UNCHANGED vars
  BY <1>21 DEF vars
<1>22. QED
  BY <1>1, <1>2, <1>3, <1>4, <1>5, <1>6, <1>7, <1>8, <1>9, <1>10, <1>11, <1>12, <1>13,
     <1>14, <1>15, <1>16, <1>17, <1>18, <1>19, <1>20, <1>21
  DEF Next, WorkerStep, NetworkStep

\* Frames and answers keep the entry of their request.
LEMMA NextAnswerInv ==
  ASSUME TypeOK, JobInv, TableInv, AnswerInv, [Next]_vars
  PROVE  AnswerInv'
<1> USE CapsAssumption DEF TypeOK, Jobs, NoJob, Asking, Waiting, AnswerInv, ownedVars,
       cycleVars, listVars, probeVars
<1>1. ASSUME NEW depots \in SUBSET Wanted, Resolve(depots)
      PROVE  AnswerInv'
  BY <1>1 DEF Resolve
<1>2. CASE CaptureContext
  BY <1>2 DEF CaptureContext
<1>3. CASE WantedAges
  BY <1>3 DEF WantedAges
<1>4. ASSUME NEW j \in Jobs, RequestAges(j)
      PROVE  AnswerInv'
  BY <1>4 DEF RequestAges
<1>5. CASE Stop
  BY <1>5 DEF Stop
<1>6. ASSUME NEW enabled \in BOOLEAN, NEW answer \in SUBSET Wanted, StartCycle(enabled, answer)
      PROVE  AnswerInv'
  BY <1>6 DEF StartCycle, Refresh
<1>7. ASSUME NEW w \in Wanted, NEW archived \in BOOLEAN, Consider(w, archived)
      PROVE  AnswerInv'
  BY <1>7 DEF Consider
<1>8. ASSUME NEW waits \in BOOLEAN, Spacing(waits)
      PROVE  AnswerInv'
  BY <1>8 DEF Spacing
<1>9. CASE EndCycle
  BY <1>9 DEF EndCycle
<1>10. CASE Pause
  BY <1>10 DEF Pause
<1>11. CASE Quit
  BY <1>11 DEF Quit
<1>12. CASE Begin
  BY <1>12 DEF Begin, SetAll, Erase, NextId
<1>13. CASE Register
  <2>1. job \in Jobs /\ pc = "register" /\ current \in owned
    BY <1>13 DEF Register, JobInv
  <2>2. promise'[job] = Unset /\ UNCHANGED <<job, current, owned, inFlight, inHand>>
    BY <1>13, <2>1 DEF Register
  <2>3. (\A f \in inFlight : f[1] # job) /\ (inHand # NoFrame => inHand[1] # job)
    BY <2>1 DEF TableInv
  <2>4. QED
    BY <2>1, <2>2, <2>3
<1>14. ASSUME NEW goesOut \in BOOLEAN, Send(goesOut)
      PROVE  AnswerInv'
  BY <1>14 DEF Send
<1>15. CASE SendSucceeds
  BY <1>15 DEF SendSucceeds, SendReturned
<1>16. CASE SendFails
  BY <1>16 DEF SendFails, SendReturned, SetAll, Erase
<1>17. CASE Collect
  BY <1>17 DEF Collect, CountsRequests
<1>18. ASSUME NEW j \in Jobs, NEW w \in Wanted, Take(j, w)
      PROVE  AnswerInv'
  BY <1>18 DEF Take, Erase
<1>19. ASSUME NEW refuses \in BOOLEAN, Answer(refuses)
      PROVE  AnswerInv'
  BY <1>19 DEF Answer, SetAll
<1>20. CASE Disconnect
  BY <1>20 DEF Disconnect
<1>21. CASE UNCHANGED vars
  BY <1>21 DEF vars
<1>22. QED
  BY <1>1, <1>2, <1>3, <1>4, <1>5, <1>6, <1>7, <1>8, <1>9, <1>10, <1>11, <1>12, <1>13,
     <1>14, <1>15, <1>16, <1>17, <1>18, <1>19, <1>20, <1>21
  DEF Next, WorkerStep, NetworkStep

\* A collected code is that of the entry considered.
LEMMA NextCodesMatch ==
  ASSUME TypeOK, AnswerInv, CodesMatch, [Next]_vars
  PROVE  CodesMatch'
<1> USE CapsAssumption DEF TypeOK, Jobs, NoJob, Asking, Waiting, CodesMatch, ownedVars,
       cycleVars, listVars, probeVars
<1>1. ASSUME NEW depots \in SUBSET Wanted, Resolve(depots)
      PROVE  CodesMatch'
  BY <1>1 DEF Resolve
<1>2. CASE CaptureContext
  BY <1>2 DEF CaptureContext
<1>3. CASE WantedAges
  BY <1>3 DEF WantedAges
<1>4. ASSUME NEW j \in Jobs, RequestAges(j)
      PROVE  CodesMatch'
  BY <1>4 DEF RequestAges
<1>5. CASE Stop
  BY <1>5 DEF Stop
<1>6. ASSUME NEW enabled \in BOOLEAN, NEW answer \in SUBSET Wanted, StartCycle(enabled, answer)
      PROVE  CodesMatch'
  BY <1>6 DEF StartCycle, Refresh
<1>7. ASSUME NEW w \in Wanted, NEW archived \in BOOLEAN, Consider(w, archived)
      PROVE  CodesMatch'
  BY <1>7 DEF Consider
<1>8. ASSUME NEW waits \in BOOLEAN, Spacing(waits)
      PROVE  CodesMatch'
  BY <1>8 DEF Spacing
<1>9. CASE EndCycle
  BY <1>9 DEF EndCycle
<1>10. CASE Pause
  BY <1>10 DEF Pause
<1>11. CASE Quit
  BY <1>11 DEF Quit
<1>12. CASE Begin
  BY <1>12 DEF Begin, SetAll, Erase, NextId
<1>13. CASE Register
  BY <1>13 DEF Register
<1>14. ASSUME NEW goesOut \in BOOLEAN, Send(goesOut)
      PROVE  CodesMatch'
  BY <1>14 DEF Send
<1>15. CASE SendSucceeds
  BY <1>15 DEF SendSucceeds, SendReturned
<1>16. CASE SendFails
  BY <1>16 DEF SendFails, SendReturned, SetAll, Erase
<1>17. CASE Collect
  <2>1. Outcome # Unset /\ current \in owned /\ UNCHANGED owned
    BY <1>17 DEF Collect, AnswerInv
  <2>2. Outcome \in {Refused, Code(current)}
    BY <1>17, <2>1 DEF Collect, Outcome, AnswerInv
  <2>3. Outcome = Refused \/ batch' = [batch EXCEPT ![current] = Code(current)]
    BY <1>17, <2>2 DEF Collect
  <2>4. Outcome = Refused => batch' = batch
    BY <1>17 DEF Collect
  <2>5. QED
    BY <2>1, <2>3, <2>4
<1>18. ASSUME NEW j \in Jobs, NEW w \in Wanted, Take(j, w)
      PROVE  CodesMatch'
  BY <1>18 DEF Take, Erase
<1>19. ASSUME NEW refuses \in BOOLEAN, Answer(refuses)
      PROVE  CodesMatch'
  BY <1>19 DEF Answer, SetAll
<1>20. CASE Disconnect
  BY <1>20 DEF Disconnect
<1>21. CASE UNCHANGED vars
  BY <1>21 DEF vars
<1>22. QED
  BY <1>1, <1>2, <1>3, <1>4, <1>5, <1>6, <1>7, <1>8, <1>9, <1>10, <1>11, <1>12, <1>13,
     <1>14, <1>15, <1>16, <1>17, <1>18, <1>19, <1>20, <1>21
  DEF Next, WorkerStep, NetworkStep

\* A request is begun only while the session has one left.
LEMMA NextCapInv ==
  ASSUME TypeOK, CapInv, [Next]_vars
  PROVE  CapInv'
<1> USE CapsAssumption DEF TypeOK, Jobs, NoJob, Asking, Waiting, CapInv,
       SessionCapReached, ownedVars, cycleVars, listVars, probeVars
<1>1. ASSUME NEW depots \in SUBSET Wanted, Resolve(depots)
      PROVE  CapInv'
  BY <1>1 DEF Resolve
<1>2. CASE CaptureContext
  BY <1>2 DEF CaptureContext
<1>3. CASE WantedAges
  BY <1>3 DEF WantedAges
<1>4. ASSUME NEW j \in Jobs, RequestAges(j)
      PROVE  CapInv'
  BY <1>4 DEF RequestAges
<1>5. CASE Stop
  BY <1>5 DEF Stop
<1>6. ASSUME NEW enabled \in BOOLEAN, NEW answer \in SUBSET Wanted, StartCycle(enabled, answer)
      PROVE  CapInv'
  BY <1>6 DEF StartCycle, Refresh
<1>7. ASSUME NEW w \in Wanted, NEW archived \in BOOLEAN, Consider(w, archived)
      PROVE  CapInv'
  BY <1>7 DEF Consider, GoOn
<1>8. ASSUME NEW waits \in BOOLEAN, Spacing(waits)
      PROVE  CapInv'
  BY <1>8 DEF Spacing
<1>9. CASE EndCycle
  BY <1>9 DEF EndCycle
<1>10. CASE Pause
  BY <1>10 DEF Pause
<1>11. CASE Quit
  BY <1>11 DEF Quit
<1>12. CASE Begin
  BY <1>12 DEF Begin, SetAll, Erase, NextId
<1>13. CASE Register
  BY <1>13 DEF Register
<1>14. ASSUME NEW goesOut \in BOOLEAN, Send(goesOut)
      PROVE  CapInv'
  BY <1>14 DEF Send
<1>15. CASE SendSucceeds
  BY <1>15 DEF SendSucceeds, SendReturned
<1>16. CASE SendFails
  BY <1>16 DEF SendFails, SendReturned, SetAll, Erase
<1>17. CASE Collect
  BY <1>17 DEF Collect, CountsRequests
<1>18. ASSUME NEW j \in Jobs, NEW w \in Wanted, Take(j, w)
      PROVE  CapInv'
  BY <1>18 DEF Take, Erase
<1>19. ASSUME NEW refuses \in BOOLEAN, Answer(refuses)
      PROVE  CapInv'
  BY <1>19 DEF Answer, SetAll
<1>20. CASE Disconnect
  BY <1>20 DEF Disconnect
<1>21. CASE UNCHANGED vars
  BY <1>21 DEF vars
<1>22. QED
  BY <1>1, <1>2, <1>3, <1>4, <1>5, <1>6, <1>7, <1>8, <1>9, <1>10, <1>11, <1>12, <1>13,
     <1>14, <1>15, <1>16, <1>17, <1>18, <1>19, <1>20, <1>21
  DEF Next, WorkerStep, NetworkStep

\* After Stop, only an entry already considered is still requested.
LEMMA NextStopInv ==
  ASSUME TypeOK, StopInv, [Next]_vars
  PROVE  StopInv'
<1> USE CapsAssumption DEF TypeOK, Jobs, NoJob, StopInv, AtMostOneAfterStop, ownedVars,
       cycleVars, listVars, probeVars
<1>1. ASSUME NEW depots \in SUBSET Wanted, Resolve(depots)
      PROVE  StopInv'
  BY <1>1 DEF Resolve
<1>2. CASE CaptureContext
  BY <1>2 DEF CaptureContext
<1>3. CASE WantedAges
  BY <1>3 DEF WantedAges
<1>4. ASSUME NEW j \in Jobs, RequestAges(j)
      PROVE  StopInv'
  BY <1>4 DEF RequestAges
<1>5. CASE Stop
  BY <1>5 DEF Stop
<1>6. ASSUME NEW enabled \in BOOLEAN, NEW answer \in SUBSET Wanted, StartCycle(enabled, answer)
      PROVE  StopInv'
  BY <1>6 DEF StartCycle, Refresh
<1>7. ASSUME NEW w \in Wanted, NEW archived \in BOOLEAN, Consider(w, archived)
      PROVE  StopInv'
  BY <1>7 DEF Consider, GoOn
<1>8. ASSUME NEW waits \in BOOLEAN, Spacing(waits)
      PROVE  StopInv'
  BY <1>8 DEF Spacing
<1>9. CASE EndCycle
  BY <1>9 DEF EndCycle
<1>10. CASE Pause
  BY <1>10 DEF Pause
<1>11. CASE Quit
  BY <1>11 DEF Quit
<1>12. CASE Begin
  BY <1>12 DEF Begin, SetAll, Erase, NextId
<1>13. CASE Register
  BY <1>13 DEF Register
<1>14. ASSUME NEW goesOut \in BOOLEAN, Send(goesOut)
      PROVE  StopInv'
  BY <1>14 DEF Send
<1>15. CASE SendSucceeds
  BY <1>15 DEF SendSucceeds, SendReturned
<1>16. CASE SendFails
  BY <1>16 DEF SendFails, SendReturned, SetAll, Erase
<1>17. CASE Collect
  BY <1>17 DEF Collect, CountsRequests
<1>18. ASSUME NEW j \in Jobs, NEW w \in Wanted, Take(j, w)
      PROVE  StopInv'
  BY <1>18 DEF Take, Erase
<1>19. ASSUME NEW refuses \in BOOLEAN, Answer(refuses)
      PROVE  StopInv'
  BY <1>19 DEF Answer, SetAll
<1>20. CASE Disconnect
  BY <1>20 DEF Disconnect
<1>21. CASE UNCHANGED vars
  BY <1>21 DEF vars
<1>22. QED
  BY <1>1, <1>2, <1>3, <1>4, <1>5, <1>6, <1>7, <1>8, <1>9, <1>10, <1>11, <1>12, <1>13,
     <1>14, <1>15, <1>16, <1>17, <1>18, <1>19, <1>20, <1>21
  DEF Next, WorkerStep, NetworkStep

\* An entry is considered only below the cycle's cap.
LEMMA NextCycleInv ==
  ASSUME TypeOK, CycleInv, [Next]_vars
  PROVE  CycleInv'
<1> USE CapsAssumption DEF TypeOK, Jobs, NoJob, Asking, Waiting, CycleInv, ownedVars,
       cycleVars, listVars, probeVars
<1>1. ASSUME NEW depots \in SUBSET Wanted, Resolve(depots)
      PROVE  CycleInv'
  BY <1>1 DEF Resolve
<1>2. CASE CaptureContext
  BY <1>2 DEF CaptureContext
<1>3. CASE WantedAges
  BY <1>3 DEF WantedAges
<1>4. ASSUME NEW j \in Jobs, RequestAges(j)
      PROVE  CycleInv'
  BY <1>4 DEF RequestAges
<1>5. CASE Stop
  BY <1>5 DEF Stop
<1>6. ASSUME NEW enabled \in BOOLEAN, NEW answer \in SUBSET Wanted, StartCycle(enabled, answer)
      PROVE  CycleInv'
  BY <1>6 DEF StartCycle, Refresh
<1>7. ASSUME NEW w \in Wanted, NEW archived \in BOOLEAN, Consider(w, archived)
      PROVE  CycleInv'
  BY <1>7 DEF Consider, GoOn
<1>8. ASSUME NEW waits \in BOOLEAN, Spacing(waits)
      PROVE  CycleInv'
  BY <1>8 DEF Spacing
<1>9. CASE EndCycle
  BY <1>9 DEF EndCycle
<1>10. CASE Pause
  BY <1>10 DEF Pause
<1>11. CASE Quit
  BY <1>11 DEF Quit
<1>12. CASE Begin
  BY <1>12 DEF Begin, SetAll, Erase, NextId
<1>13. CASE Register
  BY <1>13 DEF Register
<1>14. ASSUME NEW goesOut \in BOOLEAN, Send(goesOut)
      PROVE  CycleInv'
  BY <1>14 DEF Send
<1>15. CASE SendSucceeds
  BY <1>15 DEF SendSucceeds, SendReturned
<1>16. CASE SendFails
  BY <1>16 DEF SendFails, SendReturned, SetAll, Erase
<1>17. CASE Collect
  BY <1>17 DEF Collect, CountsRequests
<1>18. ASSUME NEW j \in Jobs, NEW w \in Wanted, Take(j, w)
      PROVE  CycleInv'
  BY <1>18 DEF Take, Erase
<1>19. ASSUME NEW refuses \in BOOLEAN, Answer(refuses)
      PROVE  CycleInv'
  BY <1>19 DEF Answer, SetAll
<1>20. CASE Disconnect
  BY <1>20 DEF Disconnect
<1>21. CASE UNCHANGED vars
  BY <1>21 DEF vars
<1>22. QED
  BY <1>1, <1>2, <1>3, <1>4, <1>5, <1>6, <1>7, <1>8, <1>9, <1>10, <1>11, <1>12, <1>13,
     <1>14, <1>15, <1>16, <1>17, <1>18, <1>19, <1>20, <1>21
  DEF Next, WorkerStep, NetworkStep

-----------------------------------------------------------------------------
(* The theorems                                                            *)

\* The initial states satisfy the invariant.
LEMMA InitIInv == Init => IInv
<1> SUFFICES ASSUME Init PROVE IInv
  OBVIOUS
<1>1. TypeOK
  BY InitTypeOK
<1>2. JobInv /\ TableInv /\ AnswerInv /\ CycleInv
  BY DEF Init, JobInv, TableInv, AnswerInv, CycleInv, Asking, Waiting, NoJob
<1>3. CapInv /\ StopInv
  BY CapsAssumption DEF Init, CapInv, StopInv, AtMostOneAfterStop, Asking, Waiting
<1>4. PromiseSetOnce /\ PromiseIsKept /\ CodesMatch
  BY DEF Init, PromiseSetOnce, PromiseIsKept, CodesMatch
<1>5. QED
  BY <1>1, <1>2, <1>3, <1>4 DEF IInv

\* Every step preserves the invariant.
LEMMA NextIInv == IInv /\ [Next]_vars => IInv'
<1> SUFFICES ASSUME IInv, [Next]_vars PROVE IInv'
  OBVIOUS
<1>1. /\ TypeOK /\ JobInv /\ TableInv /\ AnswerInv /\ CapInv /\ StopInv /\ CycleInv
      /\ PromiseSetOnce /\ PromiseIsKept /\ CodesMatch
  BY DEF IInv
<1>2. TypeOK' /\ JobInv' /\ TableInv' /\ AnswerInv'
  BY <1>1, NextTypeOK, NextJobInv, NextTableInv, NextAnswerInv
<1>3. CapInv' /\ StopInv' /\ CycleInv'
  BY <1>1, NextCapInv, NextStopInv, NextCycleInv
<1>4. PromiseSetOnce' /\ PromiseIsKept' /\ CodesMatch'
  BY <1>1, NextSetOnce, NextKept, NextCodesMatch
<1>5. QED
  BY <1>2, <1>3, <1>4 DEF IInv

\* The invariant holds of every state of the donor and the requests it makes.
THEOREM Invariance == Spec => []IInv
  BY InitIInv, NextIInv, PTL DEF Spec

\* Every variable of the donor keeps its type; above all, the codes submitted in a
\* cycle stay within its cap.
THEOREM TypeCorrect == Spec => []TypeOK
<1>1. IInv => TypeOK
  BY DEF IInv
<1>2. QED
  BY <1>1, Invariance, PTL

\* The reply, the failing send and the sweep between them give a promise one value
\* at most: no set_value throws future_error, on Steam's thread or the donor's.
THEOREM NoPromiseSetTwice == Spec => []PromiseSetOnce
<1>1. IInv => PromiseSetOnce
  BY DEF IInv
<1>2. QED
  BY <1>1, Invariance, PTL

\* The request the donor waits for is never dropped from the table unanswered.
THEOREM NoPromiseDropped == Spec => []PromiseIsKept
<1>1. IInv => PromiseIsKept
  BY DEF IInv
<1>2. QED
  BY <1>1, Invariance, PTL

\* What is submitted for a manifest is the code Steam gave for it, and its depot was
\* owned, however late or often the replies to other requests arrive.
THEOREM SubmitsWhatWasAsked == Spec => []CodesMatch
<1>1. IInv => CodesMatch
  BY DEF IInv
<1>2. QED
  BY <1>1, Invariance, PTL

\* Steam is not asked more often than the session's cap, whatever the cap.
THEOREM SessionCapHolds == Spec => []SessionCapKept
<1>1. IInv => SessionCapKept
  <2> SUFFICES ASSUME IInv, MaxPerSession # 0
               PROVE  nextJob <= MaxPerSession
    BY DEF SessionCapKept
  <2>1. nextJob \in Nat /\ session \in Nat /\ MaxPerSession \in Nat
    BY CapsAssumption DEF IInv, TypeOK
  <2>2. CASE pc \in {"register"} \cup Waiting
    <3>1. session < MaxPerSession
      BY <2>1, <2>2 DEF IInv, CapInv, Asking, SessionCapReached
    <3>2. nextJob <= session + 1
      BY <2>2 DEF IInv, CapInv
    <3>3. QED
      BY <2>1, <3>1, <3>2
  <2>3. CASE pc \notin {"register"} \cup Waiting
    BY <2>1, <2>3 DEF IInv, CapInv
  <2>4. QED
    BY <2>2, <2>3
<1>2. QED
  BY <1>1, Invariance, PTL

\* After Stop, one request more at most: the one whose entry was being considered.
THEOREM StopIsHeeded == Spec => []AtMostOneAfterStop
<1>1. IInv => AtMostOneAfterStop
  BY DEF IInv, StopInv
<1>2. QED
  BY <1>1, Invariance, PTL

\* Whatever is lost, late or repeated: one answer to a request, codes of the manifest that
\* was asked for, no request beyond the caps, and one at most after Stop.
THEOREM AnswersStayRight == Spec => []AnswersAreRight
<1>1. TypeOK /\ PromiseSetOnce /\ PromiseIsKept /\ CodesMatch /\ SessionCapKept
        /\ AtMostOneAfterStop => AnswersAreRight
  BY DEF AnswersAreRight
<1>2. QED
  BY <1>1, TypeCorrect, NoPromiseSetTwice, NoPromiseDropped, SubmitsWhatWasAsked,
     SessionCapHolds, StopIsHeeded, PTL

-----------------------------------------------------------------------------
(* The signature file: the inductive invariant                             *)

\* What a launch located in the file is there.
Keeps(m) == \A f \in Functions : worked[f] # "none" => m[f] = worked[f]

\* The worker runs on a file that was hooked, and replaces it after a judgement only.  A
\* thread that writes a file has one from a mirror.
ThreadsInv ==
  /\ at["worker"] # "none" => at["init"] = "up" /\ missing = Misses
  /\ at["worker"] \in {"write", "rename"} => ShouldReplaceCache(map, remote)
  /\ at["init"] = "start" => missing = Misses
  /\ at["init"] \in {"save", "write", "rename"} => source = "remote"
  /\ at["init"] = "refetch" => source = "cache" /\ map = NoEntries
  /\ at["init"] \in {"read", "mirrors", "fallback", "off"} => source = "none"
  /\ at["init"] \in {"write", "rename", "install"} => map # NoEntries
  /\ source = "none" => map = NoEntries

\* What a launch located it locates as long as it runs, and the file keeps it; a file that is
\* fetched because the one at hand has no entries has nothing to keep.
LocatedInv ==
  /\ \A f \in Functions : worked[f] # "none" => Located(worked[f])
  /\ Keeps(cache.map)
  /\ at["init"] \in {"use", "refetch", "install"} /\ source \in {"cache", "fallback"} => Keeps(map)
  /\ at["init"] \in {"write", "rename"} => worked = NoEntries
  /\ at["init"] = "start" \/ at["worker"] # "none" => Keeps(map)

\* An attempt is stamped before it is made.
StampInv ==
  /\ OneAttemptPerDay
  /\ stamp # "recent" => attempts = 0
  /\ at["worker"] = "stamp" => stamp # "recent"
  /\ at["worker"] = "ask" => stamp = "recent" /\ attempts = 0

PatternInv == PatternTypeOK /\ ThreadsInv /\ LocatedInv /\ StampInv

-----------------------------------------------------------------------------
(* Files                                                                   *)

\* What a file has.
LEMMA FilesAreTyped ==
  /\ Absent \in Files /\ Empty \in Files /\ NoEntries \in Maps
  /\ Absent.map = NoEntries /\ Empty.map = NoEntries /\ Absent.state # "text" /\ Empty.state # "text"
  /\ \A m \in Maps : Text(m) \in Files
  /\ \A m : Text(m).map = m /\ Text(m).state = "text"
  /\ \A file \in Files : file.map \in Maps
  /\ \A file \in Files : file.state = "text" => file = Text(file.map)
<1>1. NoEntries \in Maps
  BY DEF NoEntries, Maps, Entries
<1>2. /\ Absent.map = NoEntries /\ Empty.map = NoEntries /\ Absent.state # "text" /\ Empty.state # "text"
      /\ \A m : Text(m).map = m /\ Text(m).state = "text"
  BY DEF Absent, Empty, Text
<1>3. ASSUME NEW file \in Files
      PROVE  file.map \in Maps /\ (file.state = "text" => file = Text(file.map))
  <2>1. CASE file \in {Absent, Empty}
    BY <1>1, <1>2, <2>1
  <2>2. CASE file \notin {Absent, Empty}
    <3>1. PICK m \in Maps : file = Text(m)
      BY <2>2 DEF Files
    <3>2. QED
      BY <1>2, <3>1
  <2>3. QED
    BY <2>1, <2>2
<1>4. Absent \in Files /\ Empty \in Files /\ \A m \in Maps : Text(m) \in Files
  BY DEF Files
<1>5. QED
  BY <1>1, <1>2, <1>3, <1>4

\* What is left of a file is one.
LEMMA CutsAreFiles ==
  ASSUME NEW m \in Maps
  PROVE  Cut(m) \subseteq Files
<1> SUFFICES ASSUME NEW file \in Cut(m) PROVE file \in Files
  OBVIOUS
<1>1. CASE file = Empty
  BY <1>1, FilesAreTyped
<1>2. CASE file # Empty
  <2> DEFINE Left(kept, broken) ==
        [f \in Functions |-> IF f \in broken THEN "unmatched" ELSE IF f \in kept THEN m[f] ELSE "none"]
  <2>1. PICK kept \in SUBSET Functions, broken \in {{}} \cup {{f} : f \in Functions} :
               file = Text(Left(kept, broken))
    BY <1>2 DEF Cut
  <2>2. Left(kept, broken) \in Maps
    BY DEF Maps, Entries
  <2>3. QED
    BY <2>1, <2>2, FilesAreTyped
<1>3. QED
  BY <1>1, <1>2

\* Of some mirrors one is the first.
LEMMA FirstMirror ==
  ASSUME NEW candidates \in SUBSET Mirrors, candidates # {}
  PROVE  \E i \in candidates : \A j \in candidates : i <= j
<1>1. candidates \subseteq Nat
  BY MirrorsAssumption
<1>2. PICK x \in candidates : \A y \in candidates : ~(<<y, x>> \in OpToRel(<, Nat))
  BY <1>1, WFMin, NatLessThanWellFounded, Zenon
<1>3. \A y \in candidates : ~(y < x)
  <2> SUFFICES ASSUME NEW y \in candidates, y < x PROVE FALSE
    OBVIOUS
  <2>1. x \in Nat /\ y \in Nat
    BY <1>1
  <2>2. <<y, x>>[1] = y /\ <<y, x>>[2] = x /\ <<y, x>> \in Nat \X Nat
    BY <2>1
  <2>3. OpToRel(<, Nat) = {pair \in Nat \X Nat : pair[1] < pair[2]}
    BY Zenon DEF OpToRel
  <2>4. <<y, x>> \in OpToRel(<, Nat)
    BY <2>2, <2>3, Zenon
  <2>5. QED
    BY <1>2, <2>4
<1>4. QED
  BY <1>1, <1>3

\* What the mirrors answer is a file.
LEMMA AnswersAreFiles ==
  ASSUME PatternTypeOK, NEW down
  PROVE  FirstHit(down) \in Files /\ FirstBody(down) \in Files
<1>1. ASSUME NEW candidates \in SUBSET Mirrors
      PROVE  FirstOf(candidates) \in Files
  <2>1. CASE candidates = {}
    BY <2>1, FilesAreTyped DEF FirstOf
  <2>2. CASE candidates # {}
    <3> DEFINE first == CHOOSE i \in candidates : \A j \in candidates : i <= j
    <3>1. first \in candidates
      BY <2>2, FirstMirror
    <3>2. FirstOf(candidates) = published[first]
      BY <2>2 DEF FirstOf
    <3>3. QED
      BY <3>1, <3>2 DEF PatternTypeOK
  <2>3. QED
    BY <2>1, <2>2
<1>2. QED
  BY <1>1 DEF FirstHit, FirstBody

-----------------------------------------------------------------------------
(* The signature file: the steps                                           *)

\* The first launch starts with it.
LEMMA InitPatterns == PatternInit => PatternInv
<1> SUFFICES ASSUME PatternInit PROVE PatternInv
  OBVIOUS
<1> USE DEF PatternInit, Off, Threads
<1>1. PatternTypeOK
  <2>1. cache \in Files /\ published \in [Mirrors -> Files] /\ NoEntries \in Maps
    BY FilesAreTyped, CatalogAssumption
  <2>2. faults \in 0 .. MaxFaults /\ edits \in 0 .. MaxEdits /\ attempts \in Nat
    BY BoundsAssumption
  <2>3. at \in [Threads -> InitSteps \cup RefreshSteps] /\ at["init"] = "off" /\ at["worker"] = "none"
    BY DEF InitSteps, RefreshSteps
  <2>4. QED
    BY <2>1, <2>2, <2>3 DEF PatternTypeOK, InitSteps, RefreshSteps
<1>2. ThreadsInv
  BY DEF ThreadsInv
<1>3. LocatedInv
  BY DEF LocatedInv, Keeps, NoEntries
<1>4. StampInv
  BY DEF StampInv, OneAttemptPerDay
<1>5. QED
  BY <1>1, <1>2, <1>3, <1>4 DEF PatternInv

\* Of the same files the same is said.
LEMMA JudgementStays ==
  ASSUME map' = map
  PROVE  /\ Misses' = Misses
         /\ missing' = missing /\ remote' = remote => ShouldReplaceCache(map, remote)' = ShouldReplaceCache(map, remote)
<1>1. Misses' = Misses
  BY DEF Misses
<1>2. ASSUME missing' = missing, remote' = remote
      PROVE  ShouldReplaceCache(map, remote)' = ShouldReplaceCache(map, remote)
  BY <1>2 DEF ShouldReplaceCache, Unresolvable, EntriesAreConsistent
<1>3. QED
  BY <1>1, <1>2

\* Every step of the signature file's story preserves the types.
LEMMA StepKeepsPatternTypes ==
  ASSUME PatternTypeOK, ThreadsInv, [PatternNext]_patternVars
  PROVE  PatternTypeOK'
<1> USE DEF disk, process, world, history, Goto
<1>1. ASSUME NEW file \in UserFiles \cup {Absent}, UserWrites(file)
      PROVE  PatternTypeOK'
  BY <1>1, BoundsAssumption, FilesAreTyped, CatalogAssumption
     DEF UserWrites, PatternTypeOK, FaultIf, Fault, Threads, InitSteps, RefreshSteps, Forget, Off
<1>2. ASSUME NEW files \in Catalog, Publish(files)
      PROVE  PatternTypeOK'
  BY <1>2, BoundsAssumption, CatalogAssumption
     DEF Publish, PatternTypeOK, FaultIf, Fault, Threads, InitSteps, RefreshSteps, Forget, Off
<1>3. ASSUME DayPasses
      PROVE  PatternTypeOK'
  BY <1>3, BoundsAssumption
     DEF DayPasses, PatternTypeOK, FaultIf, Fault, Threads, InitSteps, RefreshSteps, Forget, Off
<1>4. ASSUME ClockBack
      PROVE  PatternTypeOK'
  BY <1>4, BoundsAssumption
     DEF ClockBack, PatternTypeOK, FaultIf, Fault, Threads, InitSteps, RefreshSteps, Forget, Off
<1>5. ASSUME SteamExits
      PROVE  PatternTypeOK'
  BY <1>5, BoundsAssumption, FilesAreTyped
     DEF SteamExits, PatternTypeOK, FaultIf, Fault, Threads, InitSteps, RefreshSteps, Forget, Off
<1>6. ASSUME Kill
      PROVE  PatternTypeOK'
  BY <1>6, BoundsAssumption, FilesAreTyped, CutsAreFiles
     DEF Kill, PatternTypeOK, FaultIf, Fault, Threads, InitSteps, RefreshSteps, Forget, Off
<1>7. ASSUME Launch
      PROVE  PatternTypeOK'
  BY <1>7, BoundsAssumption
     DEF Launch, PatternTypeOK, FaultIf, Fault, Threads, InitSteps, RefreshSteps, Forget, Off
<1>8. ASSUME HashFails
      PROVE  PatternTypeOK'
  BY <1>8, BoundsAssumption
     DEF HashFails, PatternTypeOK, FaultIf, Fault, Threads, InitSteps, RefreshSteps, Forget, Off
<1>9. ASSUME NEW locked \in BOOLEAN, ReadCache(locked)
      PROVE  PatternTypeOK'
  <2>1. cache.map \in Maps
    BY FilesAreTyped DEF PatternTypeOK
  <2>2. CASE cache.state = "text" /\ ~locked
    BY <1>9, <2>1, <2>2, BoundsAssumption
       DEF ReadCache, ThreadsInv, PatternTypeOK, FaultIf, Fault, Threads, InitSteps, RefreshSteps,
           Goto
  <2>3. CASE ~(cache.state = "text" /\ ~locked)
    BY <1>9, <2>1, <2>3, BoundsAssumption
       DEF ReadCache, PatternTypeOK, FaultIf, Fault, Threads, InitSteps, RefreshSteps, Goto
  <2>4. QED
    BY <2>2, <2>3
<1>10. ASSUME NEW locked \in BOOLEAN, ReadFallback(locked)
       PROVE  PatternTypeOK'
  <2>1. cache.map \in Maps
    BY FilesAreTyped DEF PatternTypeOK
  <2>2. CASE cache.state = "text" /\ ~locked
    BY <1>10, <2>1, <2>2, BoundsAssumption
       DEF ReadFallback, ThreadsInv, PatternTypeOK, FaultIf, Fault, Threads, InitSteps, RefreshSteps,
           Goto
  <2>3. CASE ~(cache.state = "text" /\ ~locked)
    BY <1>10, <2>1, <2>3, BoundsAssumption
       DEF ReadFallback, PatternTypeOK, FaultIf, Fault, Threads, InitSteps, RefreshSteps, Goto
  <2>4. QED
    BY <2>2, <2>3
<1>11. ASSUME NEW down \in SUBSET Mirrors, AskMirrors(down)
       PROVE  PatternTypeOK'
  <2>1. FirstHit(down).map \in Maps
    BY AnswersAreFiles, FilesAreTyped
  <2>2. CASE FirstHit(down).state = "text"
    BY <1>11, <2>1, <2>2, BoundsAssumption
       DEF AskMirrors, ThreadsInv, PatternTypeOK, FaultIf, Fault, Threads, InitSteps, RefreshSteps,
           Goto
  <2>3. CASE ~(FirstHit(down).state = "text")
    BY <1>11, <2>1, <2>3, BoundsAssumption
       DEF AskMirrors, PatternTypeOK, FaultIf, Fault, Threads, InitSteps, RefreshSteps, Goto
  <2>4. QED
    BY <2>2, <2>3
<1>12. ASSUME NEW down \in SUBSET Mirrors, Refetch(down)
       PROVE  PatternTypeOK'
  <2>1. FirstBody(down).map \in Maps
    BY AnswersAreFiles, FilesAreTyped
  <2>2. CASE FirstBody(down).map # NoEntries
    BY <1>12, <2>1, <2>2, BoundsAssumption
       DEF Refetch, ThreadsInv, PatternTypeOK, FaultIf, Fault, Threads, InitSteps, RefreshSteps, Goto
  <2>3. CASE ~(FirstBody(down).map # NoEntries)
    BY <1>12, <2>1, <2>3, BoundsAssumption
       DEF Refetch, PatternTypeOK, FaultIf, Fault, Threads, InitSteps, RefreshSteps, Goto
  <2>4. QED
    BY <2>2, <2>3
<1>13. ASSUME NEW opens \in BOOLEAN, Save(opens)
       PROVE  PatternTypeOK'
  BY <1>13, BoundsAssumption, FilesAreTyped
     DEF Save, PatternTypeOK, FaultIf, Fault, Threads, InitSteps, RefreshSteps, Forget, Off
<1>14. ASSUME Use
       PROVE  PatternTypeOK'
  BY <1>14, BoundsAssumption
     DEF Use, PatternTypeOK, FaultIf, Fault, Threads, InitSteps, RefreshSteps, Forget, Off
<1>15. ASSUME Install
       PROVE  PatternTypeOK'
  <2>1. Misses \subseteq Required
    BY DEF Misses
  <2>2. [f \in Functions |-> IF Located(map[f]) THEN map[f] ELSE "none"] \in Maps /\ NoEntries \in Maps
    BY FilesAreTyped DEF PatternTypeOK, Maps, Entries
  <2>3. worked' \in Maps
    BY <1>15, <2>2 DEF Install
  <2>4. QED
    BY <1>15, <2>1, <2>3 DEF Install, PatternTypeOK, FaultIf, Fault, Threads, InitSteps, RefreshSteps, Goto
<1>16. ASSUME Start
       PROVE  PatternTypeOK'
  BY <1>16, BoundsAssumption
     DEF Start, PatternTypeOK, FaultIf, Fault, Threads, InitSteps, RefreshSteps, Forget, Off
<1>17. ASSUME Check
       PROVE  PatternTypeOK'
  <2>1. CASE ShouldRevalidate
    BY <1>17, <2>1
       DEF Check, ShouldRevalidate, PatternTypeOK, FaultIf, Fault, Threads, InitSteps, RefreshSteps,
           Goto
  <2>2. CASE ~ShouldRevalidate
    BY <1>17, <2>2
       DEF Check, ShouldRevalidate, PatternTypeOK, FaultIf, Fault, Threads, InitSteps, RefreshSteps,
           Goto
  <2>3. QED
    BY <2>1, <2>2
<1>18. ASSUME NEW persists \in BOOLEAN, TouchStamp(persists)
       PROVE  PatternTypeOK'
  BY <1>18, BoundsAssumption
     DEF TouchStamp, PatternTypeOK, FaultIf, Fault, Threads, InitSteps, RefreshSteps, Forget, Off
<1>19. ASSUME NEW down \in SUBSET Mirrors, Ask(down)
       PROVE  PatternTypeOK'
  BY <1>19, BoundsAssumption, FilesAreTyped, AnswersAreFiles
     DEF Ask, PatternTypeOK, FaultIf, Fault, Threads, InitSteps, RefreshSteps, Forget, Off
<1>20. ASSUME Judge
       PROVE  PatternTypeOK'
  BY <1>20, BoundsAssumption
     DEF Judge, PatternTypeOK, FaultIf, Fault, Threads, InitSteps, RefreshSteps, Forget, Off
<1>21. ASSUME NEW t \in Threads, WriteTemp(t)
       PROVE  PatternTypeOK'
  BY <1>21, BoundsAssumption
     DEF WriteTemp, PatternTypeOK, FaultIf, Fault, Threads, InitSteps, RefreshSteps, Forget, Off
<1>22. ASSUME NEW t \in Threads, Rename(t)
       PROVE  PatternTypeOK'
  <2>1. CASE t = "init"
    BY <1>22, <2>1, FilesAreTyped
       DEF Rename, AfterReplace, Replacement, PatternTypeOK, FaultIf, Fault, Threads, InitSteps,
           RefreshSteps, Goto
  <2>2. CASE t = "worker"
    BY <1>22, <2>2, FilesAreTyped
       DEF Rename, AfterReplace, Replacement, PatternTypeOK, FaultIf, Fault, Threads, InitSteps,
           RefreshSteps, Goto
  <2>3. QED
    BY <1>22, <2>1, <2>2 DEF Threads
<1>23. ASSUME NEW t \in Threads, ReplaceFails(t)
       PROVE  PatternTypeOK'
  <2>1. faults' \in 0 .. MaxFaults
    BY <1>23, BoundsAssumption DEF ReplaceFails, Fault, PatternTypeOK
  <2>2. AfterReplace(t) = IF t = "init" THEN "install" ELSE "done"
    BY DEF AfterReplace
  <2>3. at' = [at EXCEPT ![t] = AfterReplace(t)]
    BY <1>23 DEF ReplaceFails, Goto
  <2>4. /\ at' \in [Threads -> InitSteps \cup RefreshSteps]
        /\ at'["init"] \in InitSteps /\ at'["worker"] \in RefreshSteps
        /\ at'["worker"] = "done" \/ at'["worker"] = at["worker"]
    BY <2>2, <2>3 DEF PatternTypeOK, Threads, InitSteps, RefreshSteps
  <2>5. QED
    BY <1>23, <2>1, <2>4 DEF ReplaceFails, PatternTypeOK
<1>24. CASE UNCHANGED patternVars
  BY <1>24 , BoundsAssumption
     DEF patternVars, PatternTypeOK, FaultIf, Fault, Threads, InitSteps, RefreshSteps, Forget, Off
<1>25. QED
  BY <1>1, <1>2, <1>3, <1>4, <1>5, <1>6, <1>7, <1>8, <1>9, <1>10, <1>11, <1>12,
     <1>13, <1>14, <1>15, <1>16, <1>17, <1>18, <1>19, <1>20, <1>21, <1>22, <1>23, <1>24
     DEF PatternNext, InitStep, RefreshStep, ReplaceStep

\* The worker is started on what was hooked and writes what it accepted, after every step.
LEMMA StepKeepsThreads ==
  ASSUME PatternInv, [PatternNext]_patternVars
  PROVE  ThreadsInv'
<1> USE DEF disk, process, world, history, Goto
<1>1. ASSUME NEW file \in UserFiles \cup {Absent}, UserWrites(file)
      PROVE  ThreadsInv'
  BY <1>1, JudgementStays
     DEF UserWrites, PatternInv, PatternTypeOK, ThreadsInv, Forget, Off, Threads, InitSteps,
         RefreshSteps
<1>2. ASSUME NEW files \in Catalog, Publish(files)
      PROVE  ThreadsInv'
  BY <1>2, JudgementStays
     DEF Publish, PatternInv, PatternTypeOK, ThreadsInv, Forget, Off, Threads, InitSteps,
         RefreshSteps
<1>3. ASSUME DayPasses
      PROVE  ThreadsInv'
  BY <1>3, JudgementStays
     DEF DayPasses, PatternInv, PatternTypeOK, ThreadsInv, Forget, Off, Threads, InitSteps,
         RefreshSteps
<1>4. ASSUME ClockBack
      PROVE  ThreadsInv'
  BY <1>4, JudgementStays
     DEF ClockBack, PatternInv, PatternTypeOK, ThreadsInv, Forget, Off, Threads, InitSteps,
         RefreshSteps
<1>5. ASSUME SteamExits
      PROVE  ThreadsInv'
  BY <1>5, JudgementStays
     DEF SteamExits, PatternInv, PatternTypeOK, ThreadsInv, Forget, Off, Threads, InitSteps,
         RefreshSteps
<1>6. ASSUME Kill
      PROVE  ThreadsInv'
  BY <1>6, JudgementStays
     DEF Kill, PatternInv, PatternTypeOK, ThreadsInv, Forget, Off, Threads, InitSteps, RefreshSteps
<1>7. ASSUME Launch
      PROVE  ThreadsInv'
  BY <1>7, JudgementStays
     DEF Launch, PatternInv, PatternTypeOK, ThreadsInv, Forget, Off, Threads, InitSteps, RefreshSteps
<1>8. ASSUME HashFails
      PROVE  ThreadsInv'
  BY <1>8, JudgementStays
     DEF HashFails, PatternInv, PatternTypeOK, ThreadsInv, Forget, Off, Threads, InitSteps,
         RefreshSteps
<1>9. ASSUME NEW locked \in BOOLEAN, ReadCache(locked)
      PROVE  ThreadsInv'
  BY <1>9, JudgementStays
     DEF ReadCache, PatternInv, PatternTypeOK, ThreadsInv, Forget, Off, Threads, InitSteps,
         RefreshSteps
<1>10. ASSUME NEW locked \in BOOLEAN, ReadFallback(locked)
       PROVE  ThreadsInv'
  BY <1>10, JudgementStays
     DEF ReadFallback, PatternInv, PatternTypeOK, ThreadsInv, Forget, Off, Threads, InitSteps,
         RefreshSteps
<1>11. ASSUME NEW down \in SUBSET Mirrors, AskMirrors(down)
       PROVE  ThreadsInv'
  BY <1>11, JudgementStays
     DEF AskMirrors, PatternInv, PatternTypeOK, ThreadsInv, Forget, Off, Threads, InitSteps,
         RefreshSteps
<1>12. ASSUME NEW down \in SUBSET Mirrors, Refetch(down)
       PROVE  ThreadsInv'
  BY <1>12, JudgementStays
     DEF Refetch, PatternInv, PatternTypeOK, ThreadsInv, Forget, Off, Threads, InitSteps,
         RefreshSteps
<1>13. ASSUME NEW opens \in BOOLEAN, Save(opens)
       PROVE  ThreadsInv'
  BY <1>13, JudgementStays
     DEF Save, PatternInv, PatternTypeOK, ThreadsInv, Forget, Off, Threads, InitSteps, RefreshSteps
<1>14. ASSUME Use
       PROVE  ThreadsInv'
  BY <1>14, JudgementStays
     DEF Use, PatternInv, PatternTypeOK, ThreadsInv, Forget, Off, Threads, InitSteps, RefreshSteps
<1>15. ASSUME Install
       PROVE  ThreadsInv'
  BY <1>15, JudgementStays
     DEF Install, PatternInv, PatternTypeOK, ThreadsInv, Forget, Off, Threads, InitSteps,
         RefreshSteps
<1>16. ASSUME Start
       PROVE  ThreadsInv'
  BY <1>16, JudgementStays
     DEF Start, PatternInv, PatternTypeOK, ThreadsInv, Forget, Off, Threads, InitSteps, RefreshSteps
<1>17. ASSUME Check
       PROVE  ThreadsInv'
  BY <1>17, JudgementStays
     DEF Check, PatternInv, PatternTypeOK, ThreadsInv, Forget, Off, Threads, InitSteps, RefreshSteps
<1>18. ASSUME NEW persists \in BOOLEAN, TouchStamp(persists)
       PROVE  ThreadsInv'
  BY <1>18, JudgementStays
     DEF TouchStamp, PatternInv, PatternTypeOK, ThreadsInv, Forget, Off, Threads, InitSteps,
         RefreshSteps
<1>19. ASSUME NEW down \in SUBSET Mirrors, Ask(down)
       PROVE  ThreadsInv'
  BY <1>19, JudgementStays
     DEF Ask, PatternInv, PatternTypeOK, ThreadsInv, Forget, Off, Threads, InitSteps, RefreshSteps
<1>20. ASSUME Judge
       PROVE  ThreadsInv'
  BY <1>20, JudgementStays
     DEF Judge, PatternInv, PatternTypeOK, ThreadsInv, Forget, Off, Threads, InitSteps, RefreshSteps
<1>21. ASSUME NEW t \in Threads, WriteTemp(t)
       PROVE  ThreadsInv'
  BY <1>21, JudgementStays
     DEF WriteTemp, PatternInv, PatternTypeOK, ThreadsInv, Forget, Off, Threads, InitSteps,
         RefreshSteps
<1>22. ASSUME NEW t \in Threads, Rename(t)
       PROVE  ThreadsInv'
  <2>1. CASE t = "init"
    BY <1>22, <2>1, JudgementStays
       DEF Rename, AfterReplace, Replacement, PatternInv, PatternTypeOK, ThreadsInv, Threads,
           InitSteps, RefreshSteps, Goto
  <2>2. CASE t = "worker"
    BY <1>22, <2>2, JudgementStays
       DEF Rename, AfterReplace, Replacement, PatternInv, PatternTypeOK, ThreadsInv, Threads,
           InitSteps, RefreshSteps, Goto
  <2>3. QED
    BY <1>22, <2>1, <2>2 DEF Threads
<1>23. ASSUME NEW t \in Threads, ReplaceFails(t)
       PROVE  ThreadsInv'
  <2>1. CASE t = "init"
    BY <1>23, <2>1, JudgementStays
       DEF ReplaceFails, AfterReplace, PatternInv, PatternTypeOK, ThreadsInv, Threads, InitSteps,
           RefreshSteps, Goto
  <2>2. CASE t = "worker"
    BY <1>23, <2>2, JudgementStays
       DEF ReplaceFails, AfterReplace, PatternInv, PatternTypeOK, ThreadsInv, Threads, InitSteps,
           RefreshSteps, Goto
  <2>3. QED
    BY <1>23, <2>1, <2>2 DEF Threads
<1>24. CASE UNCHANGED patternVars
  BY <1>24 , JudgementStays
     DEF patternVars, PatternInv, PatternTypeOK, ThreadsInv, Forget, Off, Threads, InitSteps,
         RefreshSteps
<1>25. QED
  BY <1>1, <1>2, <1>3, <1>4, <1>5, <1>6, <1>7, <1>8, <1>9, <1>10, <1>11, <1>12,
     <1>13, <1>14, <1>15, <1>16, <1>17, <1>18, <1>19, <1>20, <1>21, <1>22, <1>23, <1>24
     DEF PatternNext, InitStep, RefreshStep, ReplaceStep

\* The file keeps what was located in it, after every step.
LEMMA StepKeepsLocated ==
  ASSUME PatternInv, [PatternNext]_patternVars
  PROVE  LocatedInv'
<1> USE DEF disk, process, world, history, Goto
<1>1. ASSUME NEW file \in UserFiles \cup {Absent}, UserWrites(file)
      PROVE  LocatedInv'
  <2>1. \A f \in Functions : NoEntries[f] = "none"
    BY DEF NoEntries
  <2>2. worked' = NoEntries /\ UNCHANGED process
    BY <1>1 DEF UserWrites
  <2>3. QED
    BY <2>1, <2>2
       DEF PatternInv, PatternTypeOK, ThreadsInv, LocatedInv, Keeps, Threads, InitSteps, RefreshSteps,
           Goto
<1>2. ASSUME NEW files \in Catalog, Publish(files)
      PROVE  LocatedInv'
  BY <1>2
     DEF Publish, PatternInv, PatternTypeOK, ThreadsInv, LocatedInv, Keeps, Forget, Off, Threads,
         InitSteps, RefreshSteps
<1>3. ASSUME DayPasses
      PROVE  LocatedInv'
  BY <1>3
     DEF DayPasses, PatternInv, PatternTypeOK, ThreadsInv, LocatedInv, Keeps, Forget, Off, Threads,
         InitSteps, RefreshSteps
<1>4. ASSUME ClockBack
      PROVE  LocatedInv'
  BY <1>4
     DEF ClockBack, PatternInv, PatternTypeOK, ThreadsInv, LocatedInv, Keeps, Forget, Off, Threads,
         InitSteps, RefreshSteps
<1>5. ASSUME SteamExits
      PROVE  LocatedInv'
  BY <1>5
     DEF SteamExits, PatternInv, PatternTypeOK, ThreadsInv, LocatedInv, Keeps, Forget, Off, Threads,
         InitSteps, RefreshSteps
<1>6. ASSUME Kill
      PROVE  LocatedInv'
  <2>1. \A f \in Functions : NoEntries[f] = "none"
    BY DEF NoEntries
  <2>2. (worked' = NoEntries \/ (worked' = worked /\ cache' = cache))
        /\ at'["init"] = "off" /\ at'["worker"] = "none"
    BY <1>6 DEF Kill, Forget, Off, Threads
  <2>3. QED
    BY <2>1, <2>2
       DEF PatternInv, PatternTypeOK, ThreadsInv, LocatedInv, Keeps, Threads, InitSteps, RefreshSteps,
           Goto
<1>7. ASSUME Launch
      PROVE  LocatedInv'
  BY <1>7
     DEF Launch, PatternInv, PatternTypeOK, ThreadsInv, LocatedInv, Keeps, Forget, Off, Threads,
         InitSteps, RefreshSteps
<1>8. ASSUME HashFails
      PROVE  LocatedInv'
  BY <1>8
     DEF HashFails, PatternInv, PatternTypeOK, ThreadsInv, LocatedInv, Keeps, Forget, Off, Threads,
         InitSteps, RefreshSteps
<1>9. ASSUME NEW locked \in BOOLEAN, ReadCache(locked)
      PROVE  LocatedInv'
  BY <1>9
     DEF ReadCache, PatternInv, PatternTypeOK, ThreadsInv, LocatedInv, Keeps, Forget, Off, Threads,
         InitSteps, RefreshSteps
<1>10. ASSUME NEW locked \in BOOLEAN, ReadFallback(locked)
       PROVE  LocatedInv'
  BY <1>10
     DEF ReadFallback, PatternInv, PatternTypeOK, ThreadsInv, LocatedInv, Keeps, Forget, Off, Threads,
         InitSteps, RefreshSteps
<1>11. ASSUME NEW down \in SUBSET Mirrors, AskMirrors(down)
       PROVE  LocatedInv'
  BY <1>11
     DEF AskMirrors, PatternInv, PatternTypeOK, ThreadsInv, LocatedInv, Keeps, Forget, Off, Threads,
         InitSteps, RefreshSteps
<1>12. ASSUME NEW down \in SUBSET Mirrors, Refetch(down)
       PROVE  LocatedInv'
  <2>1. \A f \in Functions : NoEntries[f] = "none"
    BY DEF NoEntries
  <2>2. source = "cache" /\ map = NoEntries /\ at["init"] = "refetch" /\ at["worker"] = "none"
    BY <1>12 DEF Refetch, PatternInv, ThreadsInv
  <2>3. worked \in Maps /\ \A f \in Functions : worked[f] = "none"
    BY <2>1, <2>2
       DEF PatternInv, PatternTypeOK, ThreadsInv, LocatedInv, Keeps, Threads, InitSteps, RefreshSteps,
           Goto
  <2>4. worked = NoEntries
    BY <2>3 DEF Maps, NoEntries
  <2>5. at'["worker"] = "none" /\ at'["init"] \in {"write", "up"} /\ worked' = worked /\ cache' = cache
    BY <1>12, <2>2
       DEF Refetch, PatternInv, PatternTypeOK, ThreadsInv, LocatedInv, Keeps, Threads, InitSteps,
           RefreshSteps, Goto
  <2>6. QED
    BY <2>3, <2>4, <2>5 DEF PatternInv, LocatedInv, Keeps
<1>13. ASSUME NEW opens \in BOOLEAN, Save(opens)
       PROVE  LocatedInv'
  <2>1. \A f \in Functions : NoEntries[f] = "none"
    BY DEF NoEntries
  <2>2. (worked' = NoEntries \/ (worked' = worked /\ cache'.map = cache.map))
        /\ at["init"] = "save" /\ at'["init"] = "use" /\ at'["worker"] = at["worker"] /\ map' = map /\ source' = source
    BY <1>13
       DEF Save, PatternInv, PatternTypeOK, ThreadsInv, LocatedInv, Keeps, Threads, InitSteps,
           RefreshSteps, Goto
  <2>3. source = "remote" /\ at["worker"] = "none"
    BY <2>2 DEF PatternInv, ThreadsInv
  <2>4. QED
    BY <2>1, <2>2, <2>3 DEF PatternInv, LocatedInv, Keeps
<1>14. ASSUME Use
       PROVE  LocatedInv'
  BY <1>14
     DEF Use, PatternInv, PatternTypeOK, ThreadsInv, LocatedInv, Keeps, Forget, Off, Threads,
         InitSteps, RefreshSteps
<1>15. ASSUME Install
       PROVE  LocatedInv'
  <2>1. map \in Maps
    BY DEF PatternInv, PatternTypeOK
  <2> DEFINE found == [f \in Functions |-> IF Located(map[f]) THEN map[f] ELSE "none"]
  <2>2. \A f \in Functions : found[f] = (IF Located(map[f]) THEN map[f] ELSE "none") /\ NoEntries[f] = "none"
    BY DEF NoEntries
  <2>3. Text(map).map = map
    BY FilesAreTyped
  <2>4. /\ \A f \in Functions : worked'[f] # "none" => worked'[f] = map[f] /\ Located(map[f])
        /\ worked' # NoEntries => cache = Text(map)
    BY <1>15, <2>2 DEF Install
  <2>5. /\ \A f \in Functions : worked'[f] # "none" => map[f] = worked'[f] /\ Located(worked'[f])
        /\ \A f \in Functions : worked'[f] # "none" => cache.map[f] = worked'[f]
    BY <2>2, <2>3, <2>4
  <2>6. at'["init"] = "start" /\ at'["worker"] = at["worker"] /\ cache' = cache /\ map' = map
    BY <1>15
       DEF Install, PatternInv, PatternTypeOK, ThreadsInv, LocatedInv, Keeps, Threads, InitSteps,
           RefreshSteps, Goto
  <2> HIDE DEF found
  <2>7. QED
    BY <2>5, <2>6 DEF LocatedInv, Keeps
<1>16. ASSUME Start
       PROVE  LocatedInv'
  BY <1>16
     DEF Start, PatternInv, PatternTypeOK, ThreadsInv, LocatedInv, Keeps, Forget, Off, Threads,
         InitSteps, RefreshSteps
<1>17. ASSUME Check
       PROVE  LocatedInv'
  BY <1>17
     DEF Check, PatternInv, PatternTypeOK, ThreadsInv, LocatedInv, Keeps, Forget, Off, Threads,
         InitSteps, RefreshSteps
<1>18. ASSUME NEW persists \in BOOLEAN, TouchStamp(persists)
       PROVE  LocatedInv'
  BY <1>18
     DEF TouchStamp, PatternInv, PatternTypeOK, ThreadsInv, LocatedInv, Keeps, Forget, Off, Threads,
         InitSteps, RefreshSteps
<1>19. ASSUME NEW down \in SUBSET Mirrors, Ask(down)
       PROVE  LocatedInv'
  BY <1>19
     DEF Ask, PatternInv, PatternTypeOK, ThreadsInv, LocatedInv, Keeps, Forget, Off, Threads,
         InitSteps, RefreshSteps
<1>20. ASSUME Judge
       PROVE  LocatedInv'
  BY <1>20
     DEF Judge, PatternInv, PatternTypeOK, ThreadsInv, LocatedInv, Keeps, Forget, Off, Threads,
         InitSteps, RefreshSteps
<1>21. ASSUME NEW t \in Threads, WriteTemp(t)
       PROVE  LocatedInv'
  BY <1>21
     DEF WriteTemp, PatternInv, PatternTypeOK, ThreadsInv, LocatedInv, Keeps, Forget, Off, Threads,
         InitSteps, RefreshSteps
<1>22. ASSUME NEW t \in Threads, Rename(t)
       PROVE  LocatedInv'
  <2>1. \A f \in Functions : NoEntries[f] = "none"
    BY DEF NoEntries
  <2>2. cache' = Text(Replacement(t)) /\ cache'.map = Replacement(t) /\ worked' = worked /\ map' = map /\ source' = source
    BY <1>22, FilesAreTyped DEF Rename
  <2>3. CASE t = "init"
    <3>1. worked = NoEntries /\ at'["init"] = "install" /\ at'["worker"] = at["worker"]
      BY <1>22, <2>3
         DEF Rename, AfterReplace, PatternInv, PatternTypeOK, ThreadsInv, LocatedInv, Keeps, Threads,
             InitSteps, RefreshSteps, Goto
    <3>2. QED
      BY <2>1, <2>2, <3>1 DEF PatternInv, LocatedInv, Keeps
  <2>4. CASE t = "worker"
    <3>1. at["worker"] = "rename" /\ at'["worker"] = "done" /\ at'["init"] = at["init"] /\ at["init"] = "up"
      BY <1>22, <2>4
         DEF Rename, AfterReplace, PatternInv, PatternTypeOK, ThreadsInv, LocatedInv, Keeps, Threads,
             InitSteps, RefreshSteps, Goto
    <3>2. Keeps(map) /\ ShouldReplaceCache(map, remote) /\ missing = Misses
      BY <3>1 DEF PatternInv, ThreadsInv, LocatedInv
    <3>3. ASSUME NEW f \in Functions, worked[f] # "none"
          PROVE  remote[f] = worked[f]
      <4>1. map[f] = worked[f] /\ Located(map[f]) /\ map[f] # "none"
        BY <3>2, <3>3 DEF PatternInv, LocatedInv, Keeps
      <4>2. f \notin missing
        BY <3>2, <4>1 DEF Misses
      <4>3. QED
        BY <3>2, <4>1, <4>2 DEF ShouldReplaceCache, EntriesAreConsistent
    <3>4. cache'.map = remote
      BY <2>2, <2>4 DEF Replacement
    <3>5. QED
      BY <2>2, <3>1, <3>2, <3>3, <3>4 DEF PatternInv, LocatedInv, Keeps
  <2>5. QED
    BY <1>22, <2>3, <2>4 DEF Threads
<1>23. ASSUME NEW t \in Threads, ReplaceFails(t)
       PROVE  LocatedInv'
  <2>1. CASE t = "init"
    BY <1>23, <2>1
       DEF ReplaceFails, AfterReplace, PatternInv, PatternTypeOK, ThreadsInv, LocatedInv, Keeps,
           Threads, InitSteps, RefreshSteps, Goto
  <2>2. CASE t = "worker"
    BY <1>23, <2>2
       DEF ReplaceFails, AfterReplace, PatternInv, PatternTypeOK, ThreadsInv, LocatedInv, Keeps,
           Threads, InitSteps, RefreshSteps, Goto
  <2>3. QED
    BY <1>23, <2>1, <2>2 DEF Threads
<1>24. CASE UNCHANGED patternVars
  BY <1>24 
     DEF patternVars, PatternInv, PatternTypeOK, ThreadsInv, LocatedInv, Keeps, Forget, Off, Threads,
         InitSteps, RefreshSteps
<1>25. QED
  BY <1>1, <1>2, <1>3, <1>4, <1>5, <1>6, <1>7, <1>8, <1>9, <1>10, <1>11, <1>12,
     <1>13, <1>14, <1>15, <1>16, <1>17, <1>18, <1>19, <1>20, <1>21, <1>22, <1>23, <1>24
     DEF PatternNext, InitStep, RefreshStep, ReplaceStep

\* Every attempt has its stamp, after every step.
LEMMA StepKeepsStamp ==
  ASSUME PatternInv, [PatternNext]_patternVars
  PROVE  StampInv'
<1> USE DEF disk, process, world, history, Goto
<1>1. ASSUME NEW file \in UserFiles \cup {Absent}, UserWrites(file)
      PROVE  StampInv'
  BY <1>1
     DEF UserWrites, PatternInv, PatternTypeOK, StampInv, ThreadsInv, Forget, Off, OneAttemptPerDay,
         Threads, InitSteps, RefreshSteps
<1>2. ASSUME NEW files \in Catalog, Publish(files)
      PROVE  StampInv'
  BY <1>2
     DEF Publish, PatternInv, PatternTypeOK, StampInv, ThreadsInv, Forget, Off, OneAttemptPerDay,
         Threads, InitSteps, RefreshSteps
<1>3. ASSUME DayPasses
      PROVE  StampInv'
  BY <1>3
     DEF DayPasses, PatternInv, PatternTypeOK, StampInv, ThreadsInv, Forget, Off, OneAttemptPerDay,
         Threads, InitSteps, RefreshSteps
<1>4. ASSUME ClockBack
      PROVE  StampInv'
  BY <1>4
     DEF ClockBack, PatternInv, PatternTypeOK, StampInv, ThreadsInv, Forget, Off, OneAttemptPerDay,
         Threads, InitSteps, RefreshSteps
<1>5. ASSUME SteamExits
      PROVE  StampInv'
  BY <1>5
     DEF SteamExits, PatternInv, PatternTypeOK, StampInv, ThreadsInv, Forget, Off, OneAttemptPerDay,
         Threads, InitSteps, RefreshSteps
<1>6. ASSUME Kill
      PROVE  StampInv'
  BY <1>6
     DEF Kill, PatternInv, PatternTypeOK, StampInv, ThreadsInv, Forget, Off, OneAttemptPerDay,
         Threads, InitSteps, RefreshSteps
<1>7. ASSUME Launch
      PROVE  StampInv'
  BY <1>7
     DEF Launch, PatternInv, PatternTypeOK, StampInv, ThreadsInv, Forget, Off, OneAttemptPerDay,
         Threads, InitSteps, RefreshSteps
<1>8. ASSUME HashFails
      PROVE  StampInv'
  BY <1>8
     DEF HashFails, PatternInv, PatternTypeOK, StampInv, ThreadsInv, Forget, Off, OneAttemptPerDay,
         Threads, InitSteps, RefreshSteps
<1>9. ASSUME NEW locked \in BOOLEAN, ReadCache(locked)
      PROVE  StampInv'
  BY <1>9
     DEF ReadCache, PatternInv, PatternTypeOK, StampInv, ThreadsInv, Forget, Off, OneAttemptPerDay,
         Threads, InitSteps, RefreshSteps
<1>10. ASSUME NEW locked \in BOOLEAN, ReadFallback(locked)
       PROVE  StampInv'
  BY <1>10
     DEF ReadFallback, PatternInv, PatternTypeOK, StampInv, ThreadsInv, Forget, Off, OneAttemptPerDay,
         Threads, InitSteps, RefreshSteps
<1>11. ASSUME NEW down \in SUBSET Mirrors, AskMirrors(down)
       PROVE  StampInv'
  BY <1>11
     DEF AskMirrors, PatternInv, PatternTypeOK, StampInv, ThreadsInv, Forget, Off, OneAttemptPerDay,
         Threads, InitSteps, RefreshSteps
<1>12. ASSUME NEW down \in SUBSET Mirrors, Refetch(down)
       PROVE  StampInv'
  BY <1>12
     DEF Refetch, PatternInv, PatternTypeOK, StampInv, ThreadsInv, Forget, Off, OneAttemptPerDay,
         Threads, InitSteps, RefreshSteps
<1>13. ASSUME NEW opens \in BOOLEAN, Save(opens)
       PROVE  StampInv'
  BY <1>13
     DEF Save, PatternInv, PatternTypeOK, StampInv, ThreadsInv, Forget, Off, OneAttemptPerDay,
         Threads, InitSteps, RefreshSteps
<1>14. ASSUME Use
       PROVE  StampInv'
  BY <1>14
     DEF Use, PatternInv, PatternTypeOK, StampInv, ThreadsInv, Forget, Off, OneAttemptPerDay, Threads,
         InitSteps, RefreshSteps
<1>15. ASSUME Install
       PROVE  StampInv'
  BY <1>15
     DEF Install, PatternInv, PatternTypeOK, StampInv, ThreadsInv, Forget, Off, OneAttemptPerDay,
         Threads, InitSteps, RefreshSteps
<1>16. ASSUME Start
       PROVE  StampInv'
  BY <1>16
     DEF Start, PatternInv, PatternTypeOK, StampInv, ThreadsInv, Forget, Off, OneAttemptPerDay,
         Threads, InitSteps, RefreshSteps
<1>17. ASSUME Check
       PROVE  StampInv'
  BY <1>17
     DEF Check, PatternInv, PatternTypeOK, StampInv, ThreadsInv, Forget, Off, OneAttemptPerDay,
         Threads, InitSteps, RefreshSteps, ShouldRevalidate, NotThrottled
<1>18. ASSUME NEW persists \in BOOLEAN, TouchStamp(persists)
       PROVE  StampInv'
  BY <1>18
     DEF TouchStamp, PatternInv, PatternTypeOK, StampInv, ThreadsInv, Forget, Off, OneAttemptPerDay,
         Threads, InitSteps, RefreshSteps
<1>19. ASSUME NEW down \in SUBSET Mirrors, Ask(down)
       PROVE  StampInv'
  BY <1>19
     DEF Ask, PatternInv, PatternTypeOK, StampInv, ThreadsInv, Forget, Off, OneAttemptPerDay, Threads,
         InitSteps, RefreshSteps
<1>20. ASSUME Judge
       PROVE  StampInv'
  BY <1>20
     DEF Judge, PatternInv, PatternTypeOK, StampInv, ThreadsInv, Forget, Off, OneAttemptPerDay,
         Threads, InitSteps, RefreshSteps
<1>21. ASSUME NEW t \in Threads, WriteTemp(t)
       PROVE  StampInv'
  BY <1>21
     DEF WriteTemp, PatternInv, PatternTypeOK, StampInv, ThreadsInv, Forget, Off, OneAttemptPerDay,
         Threads, InitSteps, RefreshSteps
<1>22. ASSUME NEW t \in Threads, Rename(t)
       PROVE  StampInv'
  <2>1. CASE t = "init"
    BY <1>22, <2>1
       DEF Rename, AfterReplace, Replacement, PatternInv, PatternTypeOK, StampInv, ThreadsInv,
           OneAttemptPerDay, Threads, InitSteps, RefreshSteps, Goto
  <2>2. CASE t = "worker"
    BY <1>22, <2>2
       DEF Rename, AfterReplace, Replacement, PatternInv, PatternTypeOK, StampInv, ThreadsInv,
           OneAttemptPerDay, Threads, InitSteps, RefreshSteps, Goto
  <2>3. QED
    BY <1>22, <2>1, <2>2 DEF Threads
<1>23. ASSUME NEW t \in Threads, ReplaceFails(t)
       PROVE  StampInv'
  <2>1. CASE t = "init"
    BY <1>23, <2>1
       DEF ReplaceFails, AfterReplace, PatternInv, PatternTypeOK, StampInv, ThreadsInv,
           OneAttemptPerDay, Threads, InitSteps, RefreshSteps, Goto
  <2>2. CASE t = "worker"
    BY <1>23, <2>2
       DEF ReplaceFails, AfterReplace, PatternInv, PatternTypeOK, StampInv, ThreadsInv,
           OneAttemptPerDay, Threads, InitSteps, RefreshSteps, Goto
  <2>3. QED
    BY <1>23, <2>1, <2>2 DEF Threads
<1>24. CASE UNCHANGED patternVars
  BY <1>24 
     DEF patternVars, PatternInv, PatternTypeOK, StampInv, ThreadsInv, Forget, Off, OneAttemptPerDay,
         Threads, InitSteps, RefreshSteps
<1>25. QED
  BY <1>1, <1>2, <1>3, <1>4, <1>5, <1>6, <1>7, <1>8, <1>9, <1>10, <1>11, <1>12,
     <1>13, <1>14, <1>15, <1>16, <1>17, <1>18, <1>19, <1>20, <1>21, <1>22, <1>23, <1>24
     DEF PatternNext, InitStep, RefreshStep, ReplaceStep

-----------------------------------------------------------------------------
(* The signature file: what holds                                          *)

\* The invariant holds in every launch.
LEMMA PatternsHold == PatternSpec => []PatternInv
<1>1. PatternInv /\ [PatternNext]_patternVars => PatternInv'
  BY StepKeepsPatternTypes, StepKeepsThreads, StepKeepsLocated, StepKeepsStamp, Zenon DEF PatternInv
<1>2. QED
  BY InitPatterns, <1>1, PTL DEF PatternSpec

\* A file that is accepted is better than the one it replaces.
LEMMA AcceptedIsBetter ==
  ASSUME NEW new, ShouldReplaceCache(map, new), missing = Misses
  PROVE  /\ {f \in Functions : InImage(new[f])} # {f \in Functions : InImage(map[f])}
         /\ \A f \in Functions : /\ InImage(map[f]) => InImage(new[f])
                                 /\ new[f] = "outside" => map[f] = "outside"
<1>1. \A f \in missing : f \in Functions /\ ~Located(map[f]) /\ ~InImage(map[f])
  BY DEF Misses, Located, InImage, Functions
<1>2. PICK f \in missing : InImage(new[f])
  BY DEF ShouldReplaceCache
<1>3. {g \in Functions : InImage(new[g])} # {g \in Functions : InImage(map[g])}
  BY <1>1, <1>2
<1>4. ASSUME NEW g \in Functions, g \notin missing
      PROVE  (map[g] # "none" => new[g] = map[g]) /\ (map[g] = "none" => new[g] # "outside")
  BY <1>4 DEF ShouldReplaceCache, EntriesAreConsistent
<1>5. ASSUME NEW g \in missing
      PROVE  new[g] = "outside" => map[g] = "outside"
  BY <1>1, <1>5 DEF ShouldReplaceCache, Unresolvable, InImage
<1>6. QED
  BY <1>1, <1>3, <1>4, <1>5 DEF InImage

\* Only a rename by the worker replaces the file it runs on.
LEMMA RefreshesAreRenames ==
  ASSUME PatternInv, [PatternNext]_patternVars, Refreshed
  PROVE  Rename("worker")
<1> USE DEF disk, process, world, history, Refreshed
<1>1. at["worker"] = "rename" /\ at["init"] = "up" /\ at'["worker"] = "done" /\ cache' # cache
  BY DEF PatternInv, ThreadsInv
<1>2. ASSUME NEW file \in UserFiles \cup {Absent}, UserWrites(file) PROVE FALSE
  BY <1>1, <1>2 DEF UserWrites
<1>3. ~Kill /\ ~SteamExits
  BY <1>1 DEF Kill, SteamExits, Forget, Off, Threads
<1>4. ~InitStep /\ ~RefreshStep
  BY <1>1
     DEF InitStep, RefreshStep, Launch, HashFails, ReadCache, ReadFallback, AskMirrors, Refetch, Save,
         Use,
              Install, Start, Check, TouchStamp, Ask, Judge
<1>5. ASSUME NEW t \in Threads, ReplaceStep(t) PROVE Rename("worker")
  BY <1>1, <1>5 DEF ReplaceStep, WriteTemp, Rename, ReplaceFails, Threads
<1>6. ~DayPasses /\ ~ClockBack /\ (\A files \in Catalog : ~Publish(files)) /\ ~(UNCHANGED patternVars)
  BY <1>1 DEF DayPasses, ClockBack, Publish, patternVars
<1>7. QED
  BY <1>2, <1>3, <1>4, <1>5, <1>6 DEF PatternNext

\* "Working patterns are never modified by a refresh", and a refresh makes the file better, at
\* most once a day, for any functions, mirrors and files: it is accepted by comparing it with what
\* the hooks were installed from, and no thread of this launch writes the file in between.
THEOREM RefreshesStaySafe == PatternSpec => RefreshesAreSafe
<1>1. PatternInv => PatternTypeOK /\ HooksStay /\ OneAttemptPerDay
  <2> SUFFICES ASSUME PatternInv PROVE HooksStay
    BY Zenon DEF PatternInv, StampInv
  <2>1. at["init"] = "install" /\ source # "remote" => Keeps(map)
    BY Zenon DEF PatternInv, PatternTypeOK, ThreadsInv, LocatedInv
  <2>2. QED
    BY <2>1 DEF HooksStay, Keeps
<1>2. PatternInv /\ [PatternNext]_patternVars =>
        (Refreshed =>
           /\ {f \in Functions : InImage(cache'.map[f])} # {f \in Functions : InImage(map[f])}
           /\ \A f \in Functions :
                /\ InImage(map[f]) => InImage(cache'.map[f])
                /\ cache'.map[f] = "outside" => map[f] = "outside")
  <2> SUFFICES ASSUME PatternInv, [PatternNext]_patternVars, Refreshed
               PROVE  /\ {f \in Functions : InImage(cache'.map[f])} # {f \in Functions : InImage(map[f])}
                      /\ \A f \in Functions :
                           /\ InImage(map[f]) => InImage(cache'.map[f])
                           /\ cache'.map[f] = "outside" => map[f] = "outside"
    OBVIOUS
  <2>1. Rename("worker")
    BY RefreshesAreRenames
  <2>2. cache'.map = remote
    BY <2>1, FilesAreTyped DEF Rename, Replacement
  <2>3. ShouldReplaceCache(map, remote) /\ missing = Misses
    BY <2>1 DEF Rename, PatternInv, ThreadsInv
  <2>4. /\ {f \in Functions : InImage(remote[f])} # {f \in Functions : InImage(map[f])}
        /\ \A f \in Functions : /\ InImage(map[f]) => InImage(remote[f])
                                /\ remote[f] = "outside" => map[f] = "outside"
    BY <2>3, AcceptedIsBetter
  <2>5. QED
    BY <2>2, <2>4
<1>3. QED
  BY PatternsHold, <1>1, <1>2, PTL DEF PatternSpec, RefreshesAreSafe, RefreshIsBetter

=============================================================================
