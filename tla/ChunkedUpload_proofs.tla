------------------------ MODULE ChunkedUpload_proofs ------------------------
(***************************************************************************)
(* Proofs about ChunkedUpload, for every ByteCount, ChunkConcurrency and   *)
(* Retries.  The inductive invariant IInv is proved one conjunct at a      *)
(* time, each by one step per action or group of actions; every safety     *)
(* property, both action properties and the refinement of UploadPromise    *)
(* follow from it.                                                         *)
(*                                                                         *)
(* TypeOK is proved in two halves, Boolean flags and everything else,      *)
(* because no prover handles the two together in one step.                 *)
(***************************************************************************)
EXTENDS ChunkedUpload, FiniteSetTheorems, TLAPS

USE ByteCountAssumption, ConcurrencyAssumption, RetriesAssumption
USE DEF Chunk, Request, Active, Start, CanRetry, ThrownErrors, CallersErrors,
        postVars, callVars, resultVars, loopVars, inputVars, netVars, serviceVars, vars

EnvironmentStep == DeadlinePasses \/ CallerAborts \/ ServiceStep

(* The groups of actions a step is split into. *)
LEMMA StepCases ==
  ASSUME [Next]_vars
  PROVE  \/ SourceStep
         \/ LoopStep
         \/ \E c \in Chunk : PostLands(c)
         \/ \E c \in Chunk : PostThrows(c)
         \/ \E c \in Chunk : PostRefused(c)
         \/ \E c \in Chunk : PostResumes(c)
         \/ CallStep
         \/ EnvironmentStep
         \/ UNCHANGED vars
<1> HIDE DEF vars
<1> QED
  BY DEF Next, PostStep, EnvironmentStep, Settled

---------------------------------------------------------------------------
(* Type correctness *)

(* Every step keeps the flags Boolean. *)
LEMMA FlagsStep == FlagsOK /\ [Next]_vars => FlagsOK'
<1> SUFFICES ASSUME FlagsOK, [Next]_vars PROVE FlagsOK'
  OBVIOUS
<1> USE DEF FlagsOK
<1>1. CASE SourceStep
  BY <1>1 DEF SourceStep, PullAndPost, StartPost, PullOverrun, PullAfterFailure,
     SourceEnds, SourceThrows, Fail
<1>2. CASE LoopStep
  BY <1>2 DEF LoopStep, RoomFound, RejectFirstError, RejectWith, RejectWrongSource, SendFinalize,
     WaitEnds, Reject
<1>3. ASSUME NEW c \in Chunk, PostLands(c) PROVE FlagsOK'
  BY <1>3 DEF PostLands, ChunkFails, Fail
<1>4. ASSUME NEW c \in Chunk, PostThrows(c) PROVE FlagsOK'
  BY <1>4 DEF PostThrows, ChunkRetries, ChunkFails, Fail
<1>5. ASSUME NEW c \in Chunk, PostRefused(c) PROVE FlagsOK'
  BY <1>5 DEF PostRefused, ChunkRetries, ChunkFails, Fail
<1>6. ASSUME NEW c \in Chunk, PostResumes(c) PROVE FlagsOK'
  BY <1>6 DEF PostResumes, ChunkFails, Fail
<1>7. CASE CallStep
  BY <1>7 DEF CallStep, CallThrows, CallRefused, CallResumes, CallRetries, InitAnswered,
     FinalizeAnswered, StatusFinal, StatusNotYet, Reject, Resolve
<1>8. CASE EnvironmentStep
  BY <1>8 DEF EnvironmentStep, DeadlinePasses, CallerAborts, ServiceStep,
     ServiceReceives, ServiceTakesFinalize, ServiceDecides
<1>9. CASE UNCHANGED vars
  BY <1>9
<1> QED
  BY <1>1, <1>2, <1>3, <1>4, <1>5, <1>6, <1>7, <1>8, <1>9, StepCases

(* Every step keeps the data in its type; a retry needs one left. *)
LEMMA DataStep == DataOK /\ [Next]_vars => DataOK'
<1> SUFFICES ASSUME DataOK, [Next]_vars PROVE DataOK'
  OBVIOUS
<1> USE DEF DataOK
<1>1. CASE SourceStep
  <2>1. CASE PullAndPost
    BY <2>1 DEF PullAndPost, StartPost
  <2>2. CASE PullOverrun
    BY <2>2 DEF PullOverrun, Fail
  <2>3. CASE PullAfterFailure
    BY <2>3 DEF PullAfterFailure
  <2>4. CASE SourceEnds
    BY <2>4 DEF SourceEnds
  <2>5. CASE SourceThrows
    BY <2>5 DEF SourceThrows, Fail
  <2> QED
    BY <1>1, <2>1, <2>2, <2>3, <2>4, <2>5 DEF SourceStep
<1>2. CASE LoopStep
  <2>1. CASE RoomFound
    BY <2>1 DEF RoomFound
  <2>2. CASE RejectFirstError
    BY <2>2 DEF RejectFirstError, RejectWith, Reject
  <2>3. CASE RejectWrongSource
    BY <2>3 DEF RejectWrongSource, Reject
  <2>4. CASE SendFinalize
    BY <2>4 DEF SendFinalize
  <2>5. CASE WaitEnds
    BY <2>5 DEF WaitEnds, Reject
  <2> QED
    BY <1>2, <2>1, <2>2, <2>3, <2>4, <2>5 DEF LoopStep
<1>3. ASSUME NEW c \in Chunk, PostLands(c) PROVE DataOK'
  BY <1>3 DEF PostLands, ChunkFails, Fail
<1>4. ASSUME NEW c \in Chunk, PostThrows(c) PROVE DataOK'
  <2>1. CASE ChunkRetries(c)
    BY <1>4, <2>1 DEF PostThrows, ChunkRetries
  <2>2. ASSUME NEW e \in ThrownErrors, ChunkFails(c, e) PROVE DataOK'
    BY <1>4, <2>2 DEF PostThrows, ChunkFails, Fail
  <2> QED
    BY <1>4, <2>1, <2>2 DEF PostThrows, ThrownErrors
<1>5. ASSUME NEW c \in Chunk, PostRefused(c) PROVE DataOK'
  <2>1. CASE ChunkRetries(c)
    BY <1>5, <2>1 DEF PostRefused, ChunkRetries
  <2>2. ASSUME NEW e \in ThrownErrors, ChunkFails(c, e) PROVE DataOK'
    BY <1>5, <2>2 DEF PostRefused, ChunkFails, Fail
  <2> QED
    BY <1>5, <2>1, <2>2 DEF PostRefused, ThrownErrors
<1>6. ASSUME NEW c \in Chunk, PostResumes(c) PROVE DataOK'
  <2>1. sentChunks' \subseteq Chunk
    BY <1>6 DEF PostResumes
  <2>2. post' \in [Chunk -> Request] /\ tries' \in [Chunk -> 0..Retries]
    BY <1>6 DEF PostResumes, ChunkFails
  <2>3. firstError' \in ThrownErrors \cup {"none"}
    BY <1>6 DEF PostResumes, ChunkFails, Fail
  <2> QED
    BY <1>6, <2>1, <2>2, <2>3 DEF PostResumes
<1>7. CASE CallStep
  <2>1. CASE CallThrows
    BY <2>1 DEF CallThrows, CallRetries, Reject
  <2>2. CASE CallRefused
    BY <2>2 DEF CallRefused, CallRetries, Reject
  <2>3. CASE CallResumes
    <3>1. CASE aborted
      BY <2>3, <3>1 DEF CallResumes, Reject
    <3>2. CASE ~aborted
      <4>1. call' = "wire" /\ UNCHANGED <<postVars, callTries, resultVars, pc, offset,
              firstError, sent, reported, sentChunks, serviceVars>>
        BY <2>3, <3>2, Zenon DEF CallResumes
      <4> QED
        BY <4>1
    <3> QED
      BY <3>1, <3>2
  <2>4. CASE InitAnswered
    BY <2>4 DEF InitAnswered, Reject
  <2>5. CASE FinalizeAnswered
    BY <2>5 DEF FinalizeAnswered
  <2>6. CASE StatusFinal
    BY <2>6 DEF StatusFinal, Reject, Resolve
  <2>7. CASE StatusNotYet
    BY <2>7 DEF StatusNotYet, Reject
  <2> QED
    BY <1>7, <2>1, <2>2, <2>3, <2>4, <2>5, <2>6, <2>7 DEF CallStep
<1>8. CASE EnvironmentStep
  <2>1. CASE DeadlinePasses
    BY <2>1 DEF DeadlinePasses
  <2>2. CASE CallerAborts
    BY <2>2 DEF CallerAborts
  <2>3. CASE ServiceStep
    <3>1. ASSUME NEW c \in Chunk, ServiceReceives(c) PROVE DataOK'
      BY <3>1 DEF ServiceReceives
    <3>2. CASE ServiceTakesFinalize
      BY <3>2 DEF ServiceTakesFinalize
    <3>3. CASE ServiceDecides
      BY <3>3 DEF ServiceDecides
    <3> QED
      BY <2>3, <3>1, <3>2, <3>3 DEF ServiceStep
  <2> QED
    BY <1>8, <2>1, <2>2, <2>3 DEF EnvironmentStep
<1>9. CASE UNCHANGED vars
  BY <1>9
<1> QED
  BY <1>1, <1>2, <1>3, <1>4, <1>5, <1>6, <1>7, <1>8, <1>9, StepCases

(* The initial states have their types. *)
LEMMA TypeInit == Init => TypeOK
<1>1. Init => FlagsOK
  BY DEF Init, FlagsOK
<1>2. Init => DataOK
  BY DEF Init, DataOK
<1> QED
  BY <1>1, <1>2 DEF TypeOK

\* Type correctness: every variable stays in its type, and no request makes
\* more than Retries + 1 attempts.
THEOREM TypeCorrect == Spec => []TypeOK
<1>1. TypeOK /\ [Next]_vars => TypeOK'
  BY FlagsStep, DataStep DEF TypeOK
<1> QED
  BY TypeInit, <1>1, PTL DEF Spec

---------------------------------------------------------------------------
(* The conjuncts of the inductive invariant *)

(* Only PullAndPost starts a POST, and it moves offset with it. *)
LEMMA PostsFollowOffsetStep == IInv /\ [Next]_vars => PostsFollowOffset'
<1> SUFFICES ASSUME IInv, [Next]_vars PROVE PostsFollowOffset'
  OBVIOUS
<1> USE DEF IInv, TypeOK, DataOK, PostsFollowOffset
<1>1. CASE SourceStep
  BY <1>1 DEF SourceStep, PullAndPost, StartPost, PullOverrun, PullAfterFailure,
     SourceEnds, SourceThrows, Fail
<1>2. CASE LoopStep
  BY <1>2 DEF LoopStep, RoomFound, RejectFirstError, RejectWith, RejectWrongSource, SendFinalize,
     WaitEnds, Reject
<1>3. ASSUME NEW c \in Chunk, PostLands(c) PROVE PostsFollowOffset'
  BY <1>3 DEF PostLands, ChunkFails, Fail
<1>4. ASSUME NEW c \in Chunk, PostThrows(c) PROVE PostsFollowOffset'
  BY <1>4 DEF PostThrows, ChunkRetries, ChunkFails, Fail
<1>5. ASSUME NEW c \in Chunk, PostRefused(c) PROVE PostsFollowOffset'
  BY <1>5 DEF PostRefused, ChunkRetries, ChunkFails, Fail
<1>6. ASSUME NEW c \in Chunk, PostResumes(c) PROVE PostsFollowOffset'
  BY <1>6 DEF PostResumes, ChunkFails, Fail
<1>7. CASE CallStep
  BY <1>7 DEF CallStep, CallThrows, CallRefused, CallResumes, CallRetries, InitAnswered,
     FinalizeAnswered, StatusFinal, StatusNotYet, Reject, Resolve
<1>8. CASE EnvironmentStep
  BY <1>8 DEF EnvironmentStep, DeadlinePasses, CallerAborts, ServiceStep,
     ServiceReceives, ServiceTakesFinalize, ServiceDecides
<1>9. CASE UNCHANGED vars
  BY <1>9
<1> HIDE DEF IInv, TypeOK, DataOK, PostsFollowOffset
<1> QED
  BY <1>1, <1>2, <1>3, <1>4, <1>5, <1>6, <1>7, <1>8, <1>9, StepCases

(* The service never drops a chunk it has received. *)
LEMMA LandedIsReceivedStep == IInv /\ [Next]_vars => LandedIsReceived'
<1> SUFFICES ASSUME IInv, [Next]_vars PROVE LandedIsReceived'
  OBVIOUS
<1> USE DEF IInv, TypeOK, DataOK, LandedIsReceived
<1>1. CASE SourceStep
  BY <1>1 DEF SourceStep, PullAndPost, StartPost, PullOverrun, PullAfterFailure,
     SourceEnds, SourceThrows, Fail
<1>2. CASE LoopStep
  BY <1>2 DEF LoopStep, RoomFound, RejectFirstError, RejectWith, RejectWrongSource, SendFinalize,
     WaitEnds, Reject
<1>3. ASSUME NEW c \in Chunk, PostLands(c) PROVE LandedIsReceived'
  BY <1>3 DEF PostLands, ChunkFails, Fail
<1>4. ASSUME NEW c \in Chunk, PostThrows(c) PROVE LandedIsReceived'
  BY <1>4 DEF PostThrows, ChunkRetries, ChunkFails, Fail
<1>5. ASSUME NEW c \in Chunk, PostRefused(c) PROVE LandedIsReceived'
  BY <1>5 DEF PostRefused, ChunkRetries, ChunkFails, Fail
<1>6. ASSUME NEW c \in Chunk, PostResumes(c) PROVE LandedIsReceived'
  BY <1>6 DEF PostResumes, ChunkFails, Fail
<1>7. CASE CallStep
  BY <1>7 DEF CallStep, CallThrows, CallRefused, CallResumes, CallRetries, InitAnswered,
     FinalizeAnswered, StatusFinal, StatusNotYet, Reject, Resolve
<1>8. CASE EnvironmentStep
  BY <1>8 DEF EnvironmentStep, DeadlinePasses, CallerAborts, ServiceStep,
     ServiceReceives, ServiceTakesFinalize, ServiceDecides
<1>9. CASE UNCHANGED vars
  BY <1>9
<1> HIDE DEF IInv, TypeOK, DataOK, LandedIsReceived
<1> QED
  BY <1>1, <1>2, <1>3, <1>4, <1>5, <1>6, <1>7, <1>8, <1>9, StepCases

(* Every failed POST goes through Fail, which also stops the others. *)
LEMMA FailuresRecordedStep == IInv /\ [Next]_vars => FailuresRecorded'
<1> SUFFICES ASSUME IInv, [Next]_vars PROVE FailuresRecorded'
  OBVIOUS
<1> USE DEF IInv, TypeOK, DataOK, FailuresRecorded
<1>1. CASE SourceStep
  BY <1>1 DEF SourceStep, PullAndPost, StartPost, PullOverrun, PullAfterFailure,
     SourceEnds, SourceThrows, Fail
<1>2. CASE LoopStep
  BY <1>2 DEF LoopStep, RoomFound, RejectFirstError, RejectWith, RejectWrongSource, SendFinalize,
     WaitEnds, Reject
<1>3. ASSUME NEW c \in Chunk, PostLands(c) PROVE FailuresRecorded'
  BY <1>3 DEF PostLands, ChunkFails, Fail
<1>4. ASSUME NEW c \in Chunk, PostThrows(c) PROVE FailuresRecorded'
  BY <1>4 DEF PostThrows, ChunkRetries, ChunkFails, Fail
<1>5. ASSUME NEW c \in Chunk, PostRefused(c) PROVE FailuresRecorded'
  BY <1>5 DEF PostRefused, ChunkRetries, ChunkFails, Fail
<1>6. ASSUME NEW c \in Chunk, PostResumes(c) PROVE FailuresRecorded'
  BY <1>6 DEF PostResumes, ChunkFails, Fail
<1>7. CASE CallStep
  BY <1>7 DEF CallStep, CallThrows, CallRefused, CallResumes, CallRetries, InitAnswered,
     FinalizeAnswered, StatusFinal, StatusNotYet, Reject, Resolve
<1>8. CASE EnvironmentStep
  BY <1>8 DEF EnvironmentStep, DeadlinePasses, CallerAborts, ServiceStep,
     ServiceReceives, ServiceTakesFinalize, ServiceDecides
<1>9. CASE UNCHANGED vars
  BY <1>9
<1> HIDE DEF IInv, TypeOK, DataOK, FailuresRecorded
<1> QED
  BY <1>1, <1>2, <1>3, <1>4, <1>5, <1>6, <1>7, <1>8, <1>9, StepCases

(* finalize, status and the wait come after every POST has succeeded. *)
LEMMA CallPlacesStep == IInv /\ [Next]_vars => CallPlaces'
<1> SUFFICES ASSUME IInv, [Next]_vars PROVE CallPlaces'
  OBVIOUS
<1>0. ASSUME NEW c \in Chunk, post[c] \in Active
      PROVE  pc \notin {"init", "finalize", "status", "wait"} /\ call \notin Active
  <2>1. InFlight # {}
    BY <1>0 DEF InFlight
  <2>2. post[c] # "idle" /\ offset \in Nat /\ c \in Nat \ {0}
    BY <1>0 DEF IInv, TypeOK, DataOK, Active, Chunk
  <2>3. offset # 0
    BY <2>2 DEF IInv, PostsFollowOffset
  <2> QED
    BY <2>1, <2>3 DEF IInv, CallPlaces
<1> USE DEF IInv, TypeOK, DataOK, PostsFollowOffset, FailuresRecorded, CallPlaces, InFlight
<1>1. CASE SourceStep
  BY <1>1 DEF SourceStep, PullAndPost, StartPost, PullOverrun, PullAfterFailure,
     SourceEnds, SourceThrows, Fail
<1>2. CASE LoopStep
  BY <1>2 DEF LoopStep, RoomFound, RejectFirstError, RejectWith, RejectWrongSource, SendFinalize,
     WaitEnds, Reject
<1>3. ASSUME NEW c \in Chunk, PostLands(c) PROVE CallPlaces'
  <2>1. pc \notin {"init", "finalize", "status", "wait"} /\ call \notin Active
    BY <1>0, <1>3, Zenon DEF PostLands, Active
  <2>2. pc' = pc /\ call' = call
    BY <1>3 DEF PostLands, callVars
  <2> QED
    BY <2>1, <2>2
<1>4. ASSUME NEW c \in Chunk, PostThrows(c) PROVE CallPlaces'
  <2>1. pc \notin {"init", "finalize", "status", "wait"} /\ call \notin Active
    BY <1>0, <1>4, Zenon DEF PostThrows, Active
  <2>2. pc' = pc /\ call' = call
    BY <1>4 DEF PostThrows, callVars
  <2> QED
    BY <2>1, <2>2
<1>5. ASSUME NEW c \in Chunk, PostRefused(c) PROVE CallPlaces'
  <2>1. pc \notin {"init", "finalize", "status", "wait"} /\ call \notin Active
    BY <1>0, <1>5, Zenon DEF PostRefused, Active
  <2>2. pc' = pc /\ call' = call
    BY <1>5 DEF PostRefused, callVars
  <2> QED
    BY <2>1, <2>2
<1>6. ASSUME NEW c \in Chunk, PostResumes(c) PROVE CallPlaces'
  <2>1. pc \notin {"init", "finalize", "status", "wait"} /\ call \notin Active
    BY <1>0, <1>6, Zenon DEF PostResumes, Active
  <2>2. pc' = pc /\ call' = call
    BY <1>6 DEF PostResumes, callVars
  <2> QED
    BY <2>1, <2>2
<1>7. CASE CallStep
  BY <1>7 DEF CallStep, CallThrows, CallRefused, CallResumes, CallRetries, InitAnswered,
     FinalizeAnswered, StatusFinal, StatusNotYet, Reject, Resolve
<1>8. CASE EnvironmentStep
  BY <1>8 DEF EnvironmentStep, DeadlinePasses, CallerAborts, ServiceStep,
     ServiceReceives, ServiceTakesFinalize, ServiceDecides
<1>9. CASE UNCHANGED vars
  BY <1>9
<1> HIDE DEF IInv, TypeOK, DataOK, PostsFollowOffset, FailuresRecorded, CallPlaces, InFlight
<1> QED
  BY <1>1, <1>2, <1>3, <1>4, <1>5, <1>6, <1>7, <1>8, <1>9, StepCases

(* The promise settles at "done", with nothing in flight. *)
LEMMA OutcomePlacesStep == IInv /\ [Next]_vars => OutcomePlaces'
<1> SUFFICES ASSUME IInv, [Next]_vars PROVE OutcomePlaces'
  OBVIOUS
<1> USE DEF IInv, TypeOK, DataOK, PostsFollowOffset, FailuresRecorded, CallPlaces,
           FinalizePlaces, FinalizeOnlyComplete, OutcomePlaces, InFlight
<1>1. CASE SourceStep
  BY <1>1 DEF SourceStep, PullAndPost, StartPost, PullOverrun, PullAfterFailure,
     SourceEnds, SourceThrows, Fail
<1>2. CASE LoopStep
  BY <1>2 DEF LoopStep, RoomFound, RejectFirstError, RejectWith, RejectWrongSource, SendFinalize,
     WaitEnds, Reject
<1>3. ASSUME NEW c \in Chunk, PostLands(c) PROVE OutcomePlaces'
  <2>1. pc # "done" /\ outcome = "pending"
    BY <1>3 DEF PostLands
  <2> QED
    BY <1>3, <2>1 DEF PostLands
<1>4. ASSUME NEW c \in Chunk, PostThrows(c) PROVE OutcomePlaces'
  <2>1. pc # "done" /\ outcome = "pending"
    BY <1>4 DEF PostThrows
  <2> QED
    BY <1>4, <2>1 DEF PostThrows
<1>5. ASSUME NEW c \in Chunk, PostRefused(c) PROVE OutcomePlaces'
  <2>1. pc # "done" /\ outcome = "pending"
    BY <1>5 DEF PostRefused
  <2> QED
    BY <1>5, <2>1 DEF PostRefused
<1>6. ASSUME NEW c \in Chunk, PostResumes(c) PROVE OutcomePlaces'
  <2>1. pc # "done" /\ outcome = "pending"
    BY <1>6 DEF PostResumes
  <2> QED
    BY <1>6, <2>1 DEF PostResumes
<1>7. CASE CallStep
  BY <1>7 DEF CallStep, CallThrows, CallRefused, CallResumes, CallRetries, InitAnswered,
     FinalizeAnswered, StatusFinal, StatusNotYet, Reject, Resolve
<1>8. CASE EnvironmentStep
  BY <1>8 DEF EnvironmentStep, DeadlinePasses, CallerAborts, ServiceStep,
     ServiceReceives, ServiceTakesFinalize, ServiceDecides
<1>9. CASE UNCHANGED vars
  BY <1>9
<1> HIDE DEF IInv, TypeOK, DataOK, PostsFollowOffset, FailuresRecorded, CallPlaces,
           FinalizePlaces, FinalizeOnlyComplete, OutcomePlaces, InFlight
<1> QED
  BY <1>1, <1>2, <1>3, <1>4, <1>5, <1>6, <1>7, <1>8, <1>9, StepCases

\* When the loop is over, nothing is in flight and nothing failed, every chunk
\* has landed.
LEMMA AllLanded ==
  ASSUME IInv, InFlight = {}, firstError = "none", offset = ByteCount
  PROVE  Landed = Chunk /\ received = Chunk
<1>1. ASSUME NEW c \in Chunk PROVE post[c] = "done"
  <2>1. post[c] # "idle"
    BY DEF IInv, TypeOK, DataOK, PostsFollowOffset
  <2>2. post[c] \notin Active
    BY DEF InFlight
  <2>3. post[c] # "failed"
    BY DEF IInv, FailuresRecorded
  <2> QED
    BY <2>1, <2>2, <2>3 DEF IInv, TypeOK, DataOK
<1> QED
  BY <1>1 DEF Landed, IInv, TypeOK, DataOK, LandedIsReceived

(* The service is asked to assemble only what it holds whole. *)
LEMMA FinalizePlacesStep == IInv /\ [Next]_vars => FinalizePlaces'
<1> SUFFICES ASSUME IInv, [Next]_vars PROVE FinalizePlaces'
  OBVIOUS
<1> USE DEF IInv, TypeOK, DataOK, CallPlaces, FinalizePlaces, FinalizeOnlyComplete, InFlight
<1>1. CASE SourceStep
  <2>1. pc = "pull" /\ UNCHANGED <<finalizeSent, serviceVars>>
    BY <1>1 DEF SourceStep, PullAndPost, StartPost, PullOverrun, PullAfterFailure,
       SourceEnds, SourceThrows
  <2> QED
    BY <2>1
<1>2. CASE LoopStep
  <2>1. CASE RoomFound
    BY <2>1 DEF RoomFound
  <2>2. CASE RejectFirstError
    BY <2>2 DEF RejectFirstError, RejectWith, Reject
  <2>3. CASE RejectWrongSource
    BY <2>3 DEF RejectWrongSource, Reject
  <2>4. CASE SendFinalize
    <3>1. received = Chunk
      BY <2>4, AllLanded DEF SendFinalize
    <3> QED
      BY <2>4, <3>1 DEF SendFinalize
  <2>5. CASE WaitEnds
    BY <2>5 DEF WaitEnds, Reject
  <2> QED
    BY <1>2, <2>1, <2>2, <2>3, <2>4, <2>5 DEF LoopStep
<1>3. ASSUME NEW c \in Chunk, PostLands(c) PROVE FinalizePlaces'
  BY <1>3 DEF PostLands, ChunkFails, Fail
<1>4. ASSUME NEW c \in Chunk, PostThrows(c) PROVE FinalizePlaces'
  BY <1>4 DEF PostThrows, ChunkRetries, ChunkFails, Fail
<1>5. ASSUME NEW c \in Chunk, PostRefused(c) PROVE FinalizePlaces'
  BY <1>5 DEF PostRefused, ChunkRetries, ChunkFails, Fail
<1>6. ASSUME NEW c \in Chunk, PostResumes(c) PROVE FinalizePlaces'
  BY <1>6 DEF PostResumes, ChunkFails, Fail
<1>7. CASE CallStep
  <2>1. CASE CallThrows
    BY <2>1 DEF CallThrows, CallRetries, Reject
  <2>2. CASE CallRefused
    BY <2>2 DEF CallRefused, CallRetries, Reject
  <2>3. CASE CallResumes
    <3>1. CASE aborted
      BY <2>3, <3>1 DEF CallResumes, Reject
    <3>2. CASE ~aborted /\ pc = "finalize"
      <4>1. received = Chunk
        BY <3>2, AllLanded
      <4>2. pc' = "finalize" /\ UNCHANGED <<post, firstError, sameBytes, received, svc>>
        BY <2>3, <3>2 DEF CallResumes
      <4>3. finalizeSent' = TRUE
        BY <2>3, <3>2 DEF CallResumes
      <4> QED
        BY <3>2, <4>1, <4>2, <4>3
    <3>3. CASE ~aborted /\ pc # "finalize"
      BY <2>3, <3>3 DEF CallResumes
    <3> QED
      BY <3>1, <3>2, <3>3
  <2>4. CASE InitAnswered
    BY <2>4 DEF InitAnswered, Reject
  <2>5. CASE FinalizeAnswered
    BY <2>5 DEF FinalizeAnswered
  <2>6. CASE StatusFinal
    BY <2>6 DEF StatusFinal, Reject, Resolve
  <2>7. CASE StatusNotYet
    BY <2>7 DEF StatusNotYet, Reject
  <2> QED
    BY <1>7, <2>1, <2>2, <2>3, <2>4, <2>5, <2>6, <2>7 DEF CallStep
<1>8. CASE EnvironmentStep
  <2>1. CASE DeadlinePasses
    BY <2>1 DEF DeadlinePasses
  <2>2. CASE CallerAborts
    BY <2>2 DEF CallerAborts
  <2>3. ASSUME NEW c \in Chunk, ServiceReceives(c) PROVE FinalizePlaces'
    BY <2>3 DEF ServiceReceives
  <2>4. CASE ServiceTakesFinalize
    BY <2>4 DEF ServiceTakesFinalize
  <2>5. CASE ServiceDecides
    BY <2>5 DEF ServiceDecides
  <2> QED
    BY <1>8, <2>1, <2>2, <2>3, <2>4, <2>5 DEF EnvironmentStep, ServiceStep
<1>9. CASE UNCHANGED vars
  BY <1>9
<1> HIDE DEF IInv, FinalizePlaces
<1> QED
  BY <1>1, <1>2, <1>3, <1>4, <1>5, <1>6, <1>7, <1>8, <1>9, StepCases

---------------------------------------------------------------------------
(* Counting: the chunks in flight and the chunks landed *)

(* Sets of chunks are finite, so they can be counted. *)
LEMMA ChunksFinite ==
  /\ Cardinality(Chunk) = ByteCount
  /\ \A S \in SUBSET Chunk : IsFiniteSet(S) /\ Cardinality(S) \in Nat
<1>1. IsFiniteSet(Chunk) /\ Cardinality(Chunk) = ByteCount
  BY FS_Interval
<1>2. ASSUME NEW S \in SUBSET Chunk PROVE IsFiniteSet(S) /\ Cardinality(S) \in Nat
  BY <1>1, FS_Subset, FS_CardinalityType
<1> QED
  BY <1>1, <1>2

(* A chunk is pulled only with room for it, and settling only makes room. *)
LEMMA RoomToPullStep == IInv /\ [Next]_vars => RoomToPull'
<1> SUFFICES ASSUME IInv, [Next]_vars PROVE RoomToPull'
  OBVIOUS
<1> USE DEF IInv, TypeOK, DataOK, RoomToPull
<1>f. IsFiniteSet(InFlight) /\ Cardinality(InFlight) \in Nat
  BY ChunksFinite DEF InFlight
<1>s. ASSUME UNCHANGED post PROVE InFlight' = InFlight
  BY <1>s DEF InFlight
<1>p. ASSUME NEW c \in Chunk, post' = [post EXCEPT ![c] = post'[c]],
             post[c] \in Active, UNCHANGED pc
      PROVE  RoomToPull'
  <2>1. InFlight' \subseteq InFlight
    BY <1>p DEF InFlight
  <2>2. Cardinality(InFlight') \in Nat /\ Cardinality(InFlight') <= Cardinality(InFlight)
    BY <1>f, <2>1, FS_Subset, FS_CardinalityType
  <2> QED
    BY <1>f, <1>p, <2>2
<1>1. CASE SourceStep
  <2>1. CASE PullAndPost
    <3>1. /\ offset + 1 \in Chunk \ InFlight
          /\ InFlight' = InFlight \cup {offset + 1}
      BY <2>1 DEF PullAndPost, StartPost, InFlight, PostsFollowOffset
    <3>2. Cardinality(InFlight') = Cardinality(InFlight) + 1
      BY <1>f, <3>1, FS_AddElement
    <3> QED
      BY <1>f, <2>1, <3>1, <3>2 DEF PullAndPost
  <2>2. CASE PullOverrun
    BY <1>f, <1>s, <2>2 DEF PullOverrun
  <2>3. CASE PullAfterFailure
    BY <1>f, <1>s, <2>3 DEF PullAfterFailure
  <2>4. CASE SourceEnds
    BY <1>f, <1>s, <2>4 DEF SourceEnds
  <2>5. CASE SourceThrows
    BY <1>f, <1>s, <2>5 DEF SourceThrows
  <2> QED
    BY <1>1, <2>1, <2>2, <2>3, <2>4, <2>5 DEF SourceStep
<1>2. CASE LoopStep
  BY <1>f, <1>s, <1>2 DEF LoopStep, RoomFound, RejectFirstError, RejectWith, RejectWrongSource,
     SendFinalize, WaitEnds, Reject
<1>3. ASSUME NEW c \in Chunk, PostLands(c) PROVE RoomToPull'
  BY <1>3, <1>p DEF PostLands, ChunkFails
<1>4. ASSUME NEW c \in Chunk, PostThrows(c) PROVE RoomToPull'
  BY <1>4, <1>p DEF PostThrows, ChunkRetries, ChunkFails
<1>5. ASSUME NEW c \in Chunk, PostRefused(c) PROVE RoomToPull'
  BY <1>5, <1>p DEF PostRefused, ChunkRetries, ChunkFails
<1>6. ASSUME NEW c \in Chunk, PostResumes(c) PROVE RoomToPull'
  BY <1>6, <1>p DEF PostResumes, ChunkFails
<1>7. CASE CallStep
  BY <1>f, <1>s, <1>7 DEF CallStep, CallThrows, CallRefused, CallResumes, CallRetries,
     InitAnswered, FinalizeAnswered, StatusFinal, StatusNotYet, Reject, Resolve
<1>8. CASE EnvironmentStep
  BY <1>f, <1>s, <1>8 DEF EnvironmentStep, DeadlinePasses, CallerAborts, ServiceStep,
     ServiceReceives, ServiceTakesFinalize, ServiceDecides
<1>9. CASE UNCHANGED vars
  BY <1>f, <1>s, <1>9
<1> HIDE DEF IInv, RoomToPull
<1> QED
  BY <1>1, <1>2, <1>3, <1>4, <1>5, <1>6, <1>7, <1>8, <1>9, StepCases

(* A chunk is counted when its POST succeeds, once, and never again. *)
LEMMA CountsLandedStep == IInv /\ [Next]_vars => CountsLanded'
<1> SUFFICES ASSUME IInv, [Next]_vars PROVE CountsLanded'
  OBVIOUS
<1> USE DEF IInv, TypeOK, DataOK, CountsLanded
<1>f. IsFiniteSet(Landed) /\ Cardinality(Landed) \in Nat
  BY ChunksFinite DEF Landed
<1>s. ASSUME Landed' = Landed, UNCHANGED <<sent, reported>>,
             firstError' = "none" => firstError = "none"
      PROVE  CountsLanded'
  BY <1>s
<1>u. UNCHANGED post => Landed' = Landed
  BY DEF Landed
<1>1. CASE SourceStep
  <2>1. CASE PullAndPost
    <3>1. offset + 1 \in Chunk /\ post[offset + 1] = "idle"
      BY <2>1 DEF PullAndPost, PostsFollowOffset
    <3>2. Landed' = Landed
      BY <2>1, <3>1 DEF PullAndPost, StartPost, Landed
    <3> QED
      BY <1>s, <2>1, <3>2 DEF PullAndPost
  <2> QED
    BY <1>1, <1>s, <1>u, <2>1 DEF SourceStep, PullOverrun, PullAfterFailure,
       SourceEnds, SourceThrows, Fail
<1>2. CASE LoopStep
  BY <1>2, <1>s, <1>u DEF LoopStep, RoomFound, RejectFirstError, RejectWith, RejectWrongSource,
     SendFinalize, WaitEnds, Reject
<1>3. ASSUME NEW c \in Chunk, PostLands(c) PROVE CountsLanded'
  <2>1. CASE firstError' # "none"
    BY <2>1
  <2>2. CASE firstError' = "none"
    <3>1. firstError = "none" /\ post' = [post EXCEPT ![c] = "done"]
      BY <1>3, <2>2 DEF PostLands, ChunkFails, Fail
    <3>2. c \notin Landed /\ Landed' = Landed \cup {c}
      BY <1>3, <3>1 DEF PostLands, Landed
    <3>3. Cardinality(Landed') = Cardinality(Landed) + 1
      BY <1>f, <3>2, FS_AddElement
    <3> QED
      BY <1>3, <3>1, <3>3 DEF PostLands
  <2> QED
    BY <2>1, <2>2
<1>4. ASSUME NEW c \in Chunk, PostThrows(c) PROVE CountsLanded'
  <2>1. Landed' = Landed
    BY <1>4 DEF PostThrows, ChunkRetries, ChunkFails, Landed
  <2> QED
    BY <1>4, <1>s, <2>1 DEF PostThrows, ChunkRetries, ChunkFails, Fail
<1>5. ASSUME NEW c \in Chunk, PostRefused(c) PROVE CountsLanded'
  <2>1. Landed' = Landed
    BY <1>5 DEF PostRefused, ChunkRetries, ChunkFails, Landed
  <2> QED
    BY <1>5, <1>s, <2>1 DEF PostRefused, ChunkRetries, ChunkFails, Fail
<1>6. ASSUME NEW c \in Chunk, PostResumes(c) PROVE CountsLanded'
  <2>1. Landed' = Landed
    BY <1>6 DEF PostResumes, ChunkFails, Landed
  <2> QED
    BY <1>6, <1>s, <2>1 DEF PostResumes, ChunkFails, Fail
<1>7. CASE CallStep
  BY <1>7, <1>s, <1>u DEF CallStep, CallThrows, CallRefused, CallResumes, CallRetries,
     InitAnswered, FinalizeAnswered, StatusFinal, StatusNotYet, Reject, Resolve
<1>8. CASE EnvironmentStep
  BY <1>8, <1>s, <1>u DEF EnvironmentStep, DeadlinePasses, CallerAborts, ServiceStep,
     ServiceReceives, ServiceTakesFinalize, ServiceDecides
<1>9. CASE UNCHANGED vars
  BY <1>9, <1>s, <1>u
<1> HIDE DEF IInv, CountsLanded
<1> QED
  BY <1>1, <1>2, <1>3, <1>4, <1>5, <1>6, <1>7, <1>8, <1>9, StepCases

---------------------------------------------------------------------------
(* The inductive invariant and the properties that follow from it *)

(* The inductive invariant holds initially. *)
LEMMA IInvInit == Init => IInv
<1> SUFFICES ASSUME Init PROVE IInv
  OBVIOUS
<1>1. TypeOK
  BY TypeInit
<1>2. InFlight = {} /\ Landed = {}
  BY DEF Init, InFlight, Landed
<1>3. Cardinality(InFlight) = 0 /\ Cardinality(Landed) = 0
  BY <1>2, FS_EmptySet
<1>4. PostsFollowOffset /\ LandedIsReceived
  BY DEF Init, PostsFollowOffset, LandedIsReceived
<1>5. FailuresRecorded
  BY DEF Init, FailuresRecorded
<1>6. CountsLanded /\ RoomToPull
  BY <1>3 DEF Init, CountsLanded, RoomToPull
<1>7. CallPlaces
  BY DEF Init, CallPlaces
<1>8. FinalizePlaces
  BY DEF Init, FinalizePlaces, FinalizeOnlyComplete
<1>9. OutcomePlaces
  BY DEF Init, OutcomePlaces
<1> QED
  BY <1>1, <1>4, <1>5, <1>6, <1>7, <1>8, <1>9 DEF IInv

(* Every step of uploadChunked(), its requests and the service preserves it. *)
LEMMA IInvStep == IInv /\ [Next]_vars => IInv'
<1>1. IInv /\ [Next]_vars => TypeOK'
  BY FlagsStep, DataStep DEF IInv, TypeOK
<1> QED
  BY <1>1, PostsFollowOffsetStep, LandedIsReceivedStep, FailuresRecordedStep,
     CountsLandedStep, RoomToPullStep, CallPlacesStep, FinalizePlacesStep,
     OutcomePlacesStep DEF IInv

\* The inductive invariant holds in every reachable state.
THEOREM Invariant == Spec => []IInv
<1> QED
  BY IInvInit, IInvStep, PTL DEF Spec

\* A chunked upload is never paid for unless the service holds all of it, the
\* bytes are the signed ones and nothing failed, whatever was lost or retried.
THEOREM FinalizeIsSafe == Spec => []FinalizeOnlyComplete
<1>1. IInv => FinalizeOnlyComplete
  BY DEF IInv, FinalizePlaces
<1> QED
  BY <1>1, Invariant, PTL

\* Nothing keeps running after uploadChunked() settles.
THEOREM SettlesQuietly == Spec => []NothingRunsAfterSettle
<1>1. IInv => NothingRunsAfterSettle
  BY DEF IInv, OutcomePlaces, CallPlaces, NothingRunsAfterSettle
<1> QED
  BY <1>1, Invariant, PTL

\* The chunks in flight never exceed chunkConcurrency.
THEOREM MemoryIsBounded == Spec => []InFlightBounded
<1>1. IInv => InFlightBounded
  BY DEF IInv, RoomToPull, InFlightBounded
<1> QED
  BY <1>1, Invariant, PTL

\* A resolved upload is one the service assembled, charged and holds whole.
THEOREM ResolutionIsSound == Spec => []ResolvedIsFinalized
<1>1. IInv => ResolvedIsFinalized
  BY DEF IInv, OutcomePlaces, FinalizePlaces, FinalizeOnlyComplete, ResolvedIsFinalized
<1> QED
  BY <1>1, Invariant, PTL

\* Every chunk has been counted and reported, once, when finalize is sent.
THEOREM ProgressIsExact == Spec => []ProgressComplete
<1>1. ASSUME IInv, pc \in {"finalize", "status", "wait"}
      PROVE  sent = ByteCount /\ reported = ByteCount
  <2>1. InFlight = {} /\ firstError = "none" /\ offset = ByteCount
    BY <1>1 DEF IInv, CallPlaces
  <2>2. Landed = Chunk
    BY <1>1, <2>1, AllLanded
  <2>3. sent = Cardinality(Landed) /\ reported = sent
    BY <1>1, <2>1 DEF IInv, CountsLanded
  <2>4. Cardinality(Chunk) = ByteCount
    BY ChunksFinite
  <2> QED
    BY <2>2, <2>3, <2>4
<1>2. IInv => ProgressComplete
  BY <1>1 DEF ProgressComplete
<1> QED
  BY <1>2, Invariant, PTL

---------------------------------------------------------------------------
(* What a step may not do *)

\* After a failure uploadChunked() awaits none of its own requests.
LEMMA NoCallAfterFailure ==
  ASSUME IInv, firstError # "none"
  PROVE  /\ call \notin Active
         /\ pc \notin {"init", "finalize", "status", "wait"}
BY DEF IInv, CallPlaces

\* A first error is never replaced or resolved over.  The call rejects with it
\* and the upload id, or, where it is a value of the caller's own that takes no
\* property, with the TypeError of setting that id.
THEOREM FirstErrorIsReported == Spec => FirstErrorWins
<1> DEFINE Told(e, t, g) == \/ t = e /\ g
                            \/ e \in CallersErrors /\ t = "typeError" /\ ~g
           Kept == /\ firstError' = firstError
                   /\ outcome' # "resolved"
                   /\ outcome' = "rejected" => Told(firstError, thrown', tagged')
<1>1. ASSUME IInv, [Next]_vars, firstError # "none" PROVE Kept
  <2>o. /\ outcome # "resolved"
        /\ outcome = "rejected" => Told(firstError, thrown, tagged)
    BY <1>1 DEF IInv, OutcomePlaces
  <2>c. call \notin Active /\ pc \notin {"init", "finalize", "status", "wait"}
    BY <1>1, NoCallAfterFailure
  <2>1. CASE SourceStep
    BY <1>1, <2>1, <2>o DEF SourceStep, PullAndPost, StartPost, PullOverrun,
       PullAfterFailure, SourceEnds, SourceThrows, Fail
  <2>2. CASE LoopStep
    BY <1>1, <2>2, <2>o, <2>c DEF LoopStep, RoomFound, RejectFirstError, RejectWith,
       RejectWrongSource, SendFinalize, WaitEnds, Reject
  <2>3. ASSUME NEW c \in Chunk, PostLands(c) PROVE Kept
    BY <1>1, <2>3, <2>o DEF PostLands, ChunkFails, Fail
  <2>4. ASSUME NEW c \in Chunk, PostThrows(c) PROVE Kept
    BY <1>1, <2>4, <2>o DEF PostThrows, ChunkRetries, ChunkFails, Fail
  <2>5. ASSUME NEW c \in Chunk, PostRefused(c) PROVE Kept
    BY <1>1, <2>5, <2>o DEF PostRefused, ChunkRetries, ChunkFails, Fail
  <2>6. ASSUME NEW c \in Chunk, PostResumes(c) PROVE Kept
    BY <1>1, <2>6, <2>o DEF PostResumes, ChunkFails, Fail
  <2>7. CASE CallStep
    BY <2>7, <2>c DEF CallStep, CallThrows, CallRefused, CallResumes, InitAnswered,
       FinalizeAnswered, StatusFinal, StatusNotYet
  <2>8. CASE EnvironmentStep
    BY <2>8, <2>o DEF EnvironmentStep, DeadlinePasses, CallerAborts, ServiceStep,
       ServiceReceives, ServiceTakesFinalize, ServiceDecides
  <2>9. CASE UNCHANGED vars
    BY <2>9, <2>o
  <2> HIDE DEF Kept
  <2> QED
    BY <1>1, <2>1, <2>2, <2>3, <2>4, <2>5, <2>6, <2>7, <2>8, <2>9, StepCases
<1>2. IInv /\ [Next]_vars => [firstError # "none" => Kept]_vars
  BY <1>1
<1> QED
  BY <1>2, Invariant, PTL DEF Spec, FirstErrorWins

\* Once a chunk has failed, nothing more is put on the network.
THEOREM FailureStops == Spec => FailureStopsSending
<1>1. ASSUME IInv, [Next]_vars, stopped PROVE UNCHANGED netVars
  <2>f. firstError # "none" /\ ChunkAborted
    BY <1>1 DEF IInv, FailuresRecorded, ChunkAborted
  <2>c. call \notin Active /\ pc \notin {"init", "finalize", "status", "wait"}
    BY <1>1, <2>f, NoCallAfterFailure
  <2>1. CASE SourceStep
    BY <2>1, <2>f DEF SourceStep, PullAndPost, PullOverrun, PullAfterFailure,
       SourceEnds, SourceThrows
  <2>2. CASE LoopStep
    BY <2>2, <2>f, <2>c DEF LoopStep, RoomFound, RejectFirstError, RejectWith, RejectWrongSource,
       SendFinalize, WaitEnds
  <2>3. ASSUME NEW c \in Chunk, PostLands(c) \/ PostThrows(c) \/ PostRefused(c)
        PROVE  UNCHANGED netVars
    BY <2>3 DEF PostLands, PostThrows, PostRefused
  <2>4. ASSUME NEW c \in Chunk, PostResumes(c) PROVE UNCHANGED netVars
    BY <2>4, <2>f DEF PostResumes
  <2>5. CASE CallStep
    BY <2>5, <2>c DEF CallStep, CallThrows, CallRefused, CallResumes, InitAnswered,
       FinalizeAnswered, StatusFinal, StatusNotYet
  <2>6. CASE EnvironmentStep
    BY <2>6 DEF EnvironmentStep, DeadlinePasses, CallerAborts, ServiceStep,
       ServiceReceives, ServiceTakesFinalize, ServiceDecides
  <2>7. CASE UNCHANGED vars
    BY <2>7
  <2> HIDE DEF netVars
  <2> QED
    BY <1>1, <2>1, <2>2, <2>3, <2>4, <2>5, <2>6, <2>7, StepCases
<1>2. ASSUME IInv, [Next]_vars, stopped, NEW d \in Chunk, post'[d] = "wire"
      PROVE  post[d] = "wire"
  <2>p. post \in [Chunk -> Request] /\ firstError # "none" /\ ChunkAborted
    BY <1>2 DEF IInv, TypeOK, DataOK, FailuresRecorded, ChunkAborted
  <2>1. CASE SourceStep
    BY <1>2, <2>1, <2>p DEF SourceStep, PullAndPost, PullOverrun, PullAfterFailure,
       SourceEnds, SourceThrows
  <2>2. CASE LoopStep
    BY <1>2, <2>2 DEF LoopStep, RoomFound, RejectFirstError, RejectWith, RejectWrongSource,
       SendFinalize, WaitEnds
  <2>3. ASSUME NEW c \in Chunk, PostLands(c) PROVE post[d] = "wire"
    BY <1>2, <2>3, <2>p DEF PostLands, ChunkFails
  <2>4. ASSUME NEW c \in Chunk, PostThrows(c) \/ PostRefused(c) PROVE post[d] = "wire"
    BY <1>2, <2>4, <2>p DEF PostThrows, PostRefused, ChunkFails, ChunkRetries
  <2>5. ASSUME NEW c \in Chunk, PostResumes(c) PROVE post[d] = "wire"
    BY <1>2, <2>5, <2>p DEF PostResumes, ChunkFails
  <2>6. CASE CallStep
    BY <1>2, <2>6 DEF CallStep, CallThrows, CallRefused, CallResumes, InitAnswered,
       FinalizeAnswered, StatusFinal, StatusNotYet
  <2>7. CASE EnvironmentStep
    BY <1>2, <2>7 DEF EnvironmentStep, DeadlinePasses, CallerAborts, ServiceStep,
       ServiceReceives, ServiceTakesFinalize, ServiceDecides
  <2>8. CASE UNCHANGED vars
    BY <1>2, <2>8
  <2> QED
    BY <1>2, <2>1, <2>2, <2>3, <2>4, <2>5, <2>6, <2>7, <2>8, StepCases
<1>3. IInv /\ [Next]_vars =>
        [stopped => /\ UNCHANGED netVars
                    /\ \A c \in Chunk : post'[c] = "wire" => post[c] = "wire"]_vars
  BY <1>1, <1>2
<1> QED
  BY <1>3, Invariant, PTL DEF Spec, FailureStopsSending

---------------------------------------------------------------------------
(* Refinement *)

\* The chunked upload implements what upload() promises: it asks for the item
\* to be assembled and charged only when the service holds it whole, never
\* after giving up, and resolves only when the service has charged.
THEOREM Refinement == Spec => ImplementsPromise
<1> USE DEF Promise!Complete, Promise!Ask, Promise!Charge, Promise!Resolve,
            Promise!Reject, Promise!Next, Promise!vars
<1>1. Init => Promise!Init
  BY DEF Init, Promise!Init
<1>2. ASSUME IInv, [Next]_vars PROVE [Promise!Next]_Promise!vars
  <2>1. CASE SourceStep
    BY <2>1 DEF SourceStep, PullAndPost, StartPost, PullOverrun, PullAfterFailure,
       SourceEnds, SourceThrows
  <2>2. CASE LoopStep
    <3>1. CASE RoomFound
      BY <3>1 DEF RoomFound
    <3>2. CASE RejectFirstError \/ RejectWrongSource \/ WaitEnds
      <4>1. outcome = "pending"
        BY <1>2, <3>2 DEF RejectFirstError, RejectWith, RejectWrongSource, WaitEnds, IInv,
           OutcomePlaces, TypeOK, DataOK
      <4> QED
        BY <3>2, <4>1 DEF RejectFirstError, RejectWith, RejectWrongSource, WaitEnds, Reject
    <3>3. CASE SendFinalize
      <4>1. received = Chunk /\ sameBytes /\ outcome = "pending"
        BY <1>2, <3>3, AllLanded DEF SendFinalize, IInv, OutcomePlaces, TypeOK, DataOK
      <4>2. finalizeSent = FALSE
        BY <1>2, <3>3 DEF SendFinalize, IInv, FinalizePlaces, TypeOK, FlagsOK
      <4>3. UNCHANGED <<received, sameBytes, svc, outcome>>
        BY <3>3 DEF SendFinalize
      <4>4. CASE aborted
        <5>1. finalizeSent' = FALSE
          BY <3>3, <4>4 DEF SendFinalize
        <5> QED
          BY <4>2, <4>3, <5>1
      <4>5. CASE ~aborted
        <5>1. finalizeSent' = TRUE
          BY <3>3, <4>5 DEF SendFinalize
        <5> QED
          BY <4>1, <4>3, <5>1
      <4> QED
        BY <4>4, <4>5
    <3> QED
      BY <2>2, <3>1, <3>2, <3>3 DEF LoopStep
  <2>3. ASSUME NEW c \in Chunk, PostLands(c) \/ PostThrows(c) \/ PostRefused(c)
        PROVE  UNCHANGED Promise!vars
    BY <2>3 DEF PostLands, PostThrows, PostRefused
  <2>4. ASSUME NEW c \in Chunk, PostResumes(c) PROVE UNCHANGED Promise!vars
    BY <2>4 DEF PostResumes
  <2>5. CASE CallStep
    <3>0. call \in Active /\ outcome = "pending"
      <4>1. call \in Active
        BY <2>5 DEF CallStep, CallThrows, CallRefused, CallResumes, InitAnswered,
           FinalizeAnswered, StatusFinal, StatusNotYet
      <4> QED
        BY <1>2, <4>1 DEF IInv, CallPlaces, OutcomePlaces
    <3>1. CASE CallThrows \/ CallRefused \/ InitAnswered \/ FinalizeAnswered \/ StatusNotYet
      BY <3>0, <3>1 DEF CallThrows, CallRefused, CallRetries, InitAnswered,
         FinalizeAnswered, StatusNotYet, Reject
    <3>2. CASE CallResumes
      <4>1. CASE aborted
        BY <3>0, <3>2, <4>1 DEF CallResumes, Reject
      <4>2. CASE ~aborted /\ pc # "finalize"
        <5>1. finalizeSent' = finalizeSent
          BY <1>2, <3>2, <4>2 DEF CallResumes, IInv, TypeOK, FlagsOK
        <5>2. UNCHANGED <<received, sameBytes, svc, outcome>>
          BY <3>2, <4>2 DEF CallResumes
        <5> QED
          BY <5>1, <5>2
      <4>3. CASE ~aborted /\ pc = "finalize"
        <5>1. received = Chunk /\ sameBytes
          BY <1>2, <4>3, AllLanded DEF IInv, CallPlaces
        <5>2. finalizeSent' = TRUE /\ UNCHANGED <<received, sameBytes, svc, outcome>>
          BY <3>2, <4>3 DEF CallResumes
        <5> QED
          BY <3>0, <5>1, <5>2
      <4> QED
        BY <4>1, <4>2, <4>3
    <3>3. CASE StatusFinal
      BY <3>0, <3>3 DEF StatusFinal, Resolve, Reject
    <3> QED
      BY <2>5, <3>1, <3>2, <3>3 DEF CallStep
  <2>6. CASE EnvironmentStep
    <3>1. CASE DeadlinePasses \/ CallerAborts
      BY <3>1 DEF DeadlinePasses, CallerAborts
    <3>2. ASSUME NEW c \in Chunk, ServiceReceives(c) PROVE [Promise!Next]_Promise!vars
      <4>1. received \subseteq Chunk /\ received' = received \cup {c}
        BY <1>2, <3>2 DEF ServiceReceives, IInv, TypeOK, DataOK
      <4>2. UNCHANGED <<sameBytes, finalizeSent, svc, outcome>>
        BY <3>2 DEF ServiceReceives
      <4> QED
        BY <4>1, <4>2
    <3>3. CASE ServiceTakesFinalize
      BY <3>3 DEF ServiceTakesFinalize
    <3>4. CASE ServiceDecides
      <4>1. finalizeSent
        BY <1>2, <3>4 DEF ServiceDecides, IInv, FinalizePlaces
      <4> QED
        BY <3>4, <4>1 DEF ServiceDecides
    <3> QED
      BY <2>6, <3>1, <3>2, <3>3, <3>4 DEF EnvironmentStep, ServiceStep
  <2>7. CASE UNCHANGED vars
    BY <2>7
  <2> QED
    BY <1>2, <2>1, <2>2, <2>3, <2>4, <2>5, <2>6, <2>7, StepCases
<1> QED
  BY <1>1, <1>2, Invariant, PTL DEF Spec, ImplementsPromise, Promise!Spec
=============================================================================
