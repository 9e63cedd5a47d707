--------------------------- MODULE CampaignProofs ---------------------------
(***************************************************************************)
(* Theorems about deliveries.  The first part is about Campaign, for every *)
(* set of groups, runners and requests, every number of attempts and every *)
(* number of crashes and errors.                                           *)
(***************************************************************************)
EXTENDS Campaign, MCAttachments, TLAPS

(***************************************************************************)
(* The inductive invariant.  NoDoublePublish alone is not inductive: one   *)
(* has to know that the job's lock is held by the one runner that acts on  *)
(* the row, and what that runner may assume at each place of deliver().    *)
(***************************************************************************)

\* BullMQ's lock: whoever is inside deliver() holds the delivery's job.
LockHeld == \A g \in Groups, w \in Runners : pc[g][w] # "idle" => job[g] = w

\* Until a runner is past the call nothing is published; from the call to the
\* record, the row says "sending", or "unknown" if a sweep came by.
InsideDeliver ==
  \A g \in Groups, w \in Runners :
    /\ pc[g][w] \in {"skip", "limit"} => published[g] = 0
    /\ pc[g][w] \in {"send", "retryable", "permanent"} => published[g] = 0
    /\ pc[g][w] = "published" => published[g] = 1
    /\ pc[g][w] \in InCall => row[g] \in {"sending", "unknown"}

RowsExist == \A g \in Groups : row[g] # "none"

Delivered == \A g \in Groups : published[g] = 1

\* A handler about to write "sent" counted only "sent" rows, and published
\* messages stay published.
ConcludesSent ==
  /\ \A g \in Groups, w \in Runners : pc[g][w] = "sent" => Delivered
  /\ dispatchPc = "sent" => Delivered
  /\ \A r \in Requests : requestPc[r] = "sent" => Delivered
  /\ sweepPc = "sent" => Delivered
  /\ status = "sent" => Delivered

DeliveryInv ==
  /\ LockHeld
  /\ InsideDeliver
  /\ RowsExist
  /\ NoDoublePublish
  /\ RowTellsTheTruth

USE AttemptsAssumption, RunnersAssumption, SlowAssumption, BoundsAssumption

(***************************************************************************)
(* Type correctness.                                                       *)
(***************************************************************************)
LEMMA AttemptsKept ==
  ASSUME TypeOK, NEW g \in Groups, ~LastAttempt(g)
  PROVE  tried[g] + 1 \in 0 .. Attempts - 1
BY DEF TypeOK, LastAttempt

LEMMA VerdictType == Verdict \in Terminal
BY DEF Verdict, Terminal

\* Giving a job back or removing it keeps the types of the queue.
LEMMA JobGoneType ==
  ASSUME TypeOK, NEW g \in Groups, NEW w \in Runners, JobGone(g, w)
  PROVE  /\ job' \in [Groups -> {"none", "wait"} \cup Runners]
         /\ tried' \in [Groups -> 0 .. Attempts - 1]
         /\ pc' \in [Groups -> [Runners -> DeliverPc]]
BY DEF TypeOK, JobGone, Goto, DeliverPc

LEMMA JobBackType ==
  ASSUME TypeOK, NEW g \in Groups, NEW w \in Runners,
         NEW n \in 0 .. Attempts - 1, JobBack(g, w, n)
  PROVE  /\ job' \in [Groups -> {"none", "wait"} \cup Runners]
         /\ tried' \in [Groups -> 0 .. Attempts - 1]
         /\ pc' \in [Groups -> [Runners -> DeliverPc]]
BY DEF TypeOK, JobBack, Goto, DeliverPc

LEMMA JobThrownType ==
  ASSUME TypeOK, NEW g \in Groups, NEW w \in Runners, JobThrown(g, w)
  PROVE  /\ job' \in [Groups -> {"none", "wait"} \cup Runners]
         /\ tried' \in [Groups -> 0 .. Attempts - 1]
         /\ pc' \in [Groups -> [Runners -> DeliverPc]]
BY JobGoneType, JobBackType, AttemptsKept DEF JobThrown

LEMMA DeliverTypes ==
  ASSUME TypeOK, NEW g \in Groups, NEW w \in Runners, Deliver(g, w)
  PROVE  TypeOK'
<1> USE DEF DeliverOnly, budget
<1>1. CASE DeliverRead(g, w)
  BY <1>1 DEF TypeOK, DeliverRead, Goto, DeliverPc
<1>2. CASE DeliverSkipStopped(g, w)
  BY <1>2 DEF TypeOK, DeliverSkipStopped, Goto, DeliverPc, RowStatus
<1>3. CASE DeliverPostpone(g, w)
  BY <1>3, JobBackType DEF TypeOK, DeliverPostpone
<1>4. CASE DeliverMarkSending(g, w)
  BY <1>4 DEF TypeOK, DeliverMarkSending, Goto, DeliverPc, RowStatus
<1>5. CASE PlatformPublishes(g, w)
  BY <1>5 DEF TypeOK, PlatformPublishes, Goto, DeliverPc
<1>6. CASE PlatformAnswerLost(g, w)
  BY <1>6 DEF TypeOK, PlatformAnswerLost, Goto, DeliverPc
<1>7. CASE PlatformRefuses(g, w)
  BY <1>7 DEF TypeOK, PlatformRefuses, Goto, DeliverPc
<1>8. CASE DeliverRetry(g, w)
  BY <1>8, JobThrownType DEF TypeOK, DeliverRetry, RowStatus
<1>9. CASE DeliverRecord(g, w)
  <2>1. Recorded(g, w) \in RowStatus
    BY DEF Recorded, RowStatus
  <2>2. QED BY <1>9, <2>1 DEF TypeOK, DeliverRecord, Goto, DeliverPc
<1>10. CASE DeliverCount(g, w)
  <2>1. CASE Settled
    <3>1. Goto(g, w, Verdict) /\ UNCHANGED <<job, tried, row, published>>
      BY <1>10, <2>1 DEF DeliverCount
    <3>2. pc' \in [Groups -> [Runners -> DeliverPc]]
      BY <3>1, VerdictType DEF TypeOK, Goto, DeliverPc
    <3>3. QED BY <1>10, <3>1, <3>2 DEF TypeOK, DeliverCount
  <2>2. CASE ~Settled
    BY <1>10, <2>2, JobGoneType DEF TypeOK, DeliverCount
  <2>3. QED BY <2>1, <2>2
<1>11. CASE DeliverConclude(g, w)
  BY <1>11, JobGoneType DEF TypeOK, DeliverConclude, Terminal, PostStatus
<1>12. QED
  BY <1>1, <1>2, <1>3, <1>4, <1>5, <1>6, <1>7, <1>8, <1>9, <1>10, <1>11
     DEF Deliver

LEMMA DispatchTypes == TypeOK /\ Dispatch => TypeOK'
<1> SUFFICES ASSUME TypeOK, Dispatch PROVE TypeOK'
  OBVIOUS
<1> USE DEF DispatchOnly, queues, budget, TypeOK, DispatchPc
<1>1. CASE DispatchSkip
  BY <1>1 DEF DispatchSkip
<1>2. CASE DispatchAccept
  BY <1>2 DEF DispatchAccept
<1>3. CASE DispatchMark
  BY <1>3 DEF DispatchMark, PostStatus
<1>4. CASE DispatchFanOut
  BY <1>4 DEF DispatchFanOut, Queued
<1>5. CASE DispatchCount
  BY <1>5, VerdictType DEF DispatchCount, AfterCount
<1>6. CASE DispatchConclude
  BY <1>6 DEF DispatchConclude, Terminal, PostStatus
<1>7. QED
  BY <1>1, <1>2, <1>3, <1>4, <1>5, <1>6 DEF Dispatch

LEMMA RequestTypes ==
  ASSUME TypeOK, NEW r \in Requests, Request(r) PROVE TypeOK'
<1> USE DEF RequestOnly, Move, store, budget, TypeOK, RequestPc
<1>1. CASE ScheduleCheck(r)
  BY <1>1 DEF ScheduleCheck
<1>2. CASE ScheduleCommit(r)
  BY <1>2 DEF ScheduleCommit, PostStatus
<1>3. CASE RequestEnqueue(r)
  BY <1>3 DEF RequestEnqueue, EnqueueDispatch
<1>4. CASE StopCheck(r)
  BY <1>4 DEF StopCheck
<1>5. CASE StopCommit(r)
  BY <1>5 DEF StopCommit, RowsFrom, RowStatus
<1>6. CASE StopUnqueue(r)
  BY <1>6 DEF StopUnqueue
<1>7. CASE StopCount(r)
  BY <1>7, VerdictType DEF StopCount, AfterCount
<1>8. CASE StopConclude(r)
  BY <1>8 DEF StopConclude, Terminal, PostStatus
<1>9. CASE ResumeCheck(r)
  BY <1>9 DEF ResumeCheck
<1>10. CASE ResumeCommit(r)
  BY <1>10 DEF ResumeCommit, RowsFrom, RowStatus, PostStatus
<1>11. QED
  BY <1>1, <1>2, <1>3, <1>4, <1>5, <1>6, <1>7, <1>8, <1>9, <1>10
     DEF Request

LEMMA SweepTypes == TypeOK /\ Sweep => TypeOK'
<1> SUFFICES ASSUME TypeOK, Sweep PROVE TypeOK'
  OBVIOUS
<1> USE DEF SweepOnly, SweepTo, budget, TypeOK, SweepPc
<1>1. CASE SweepDispatch
  BY <1>1 DEF SweepDispatch, EnqueueDispatch
<1>2. ASSUME NEW S \in SUBSET Groups, SweepFindStuck(S) PROVE TypeOK'
  BY <1>2 DEF SweepFindStuck
<1>3. CASE SweepMarkUnknown
  BY <1>3 DEF SweepMarkUnknown, RowStatus
<1>4. CASE SweepCount
  BY <1>4, VerdictType DEF SweepCount, AfterCount
<1>5. CASE SweepConclude
  BY <1>5 DEF SweepConclude, Terminal, PostStatus
<1>6. QED
  BY <1>1, <1>2, <1>3, <1>4, <1>5 DEF Sweep

LEMMA FailureTypes == TypeOK /\ Failure => TypeOK'
<1> SUFFICES ASSUME TypeOK, Failure PROVE TypeOK'
  OBVIOUS
<1> USE DEF Fault, store, queues
<1>1. ASSUME NEW g \in Groups, NEW w \in Runners, DeliverThrows(g, w)
      PROVE  TypeOK'
  BY <1>1, JobThrownType DEF TypeOK, DeliverThrows
<1>2. ASSUME NEW g \in Groups, NEW w \in Runners, DeliverRecordFails(g, w)
      PROVE  TypeOK'
  BY <1>2 DEF TypeOK, DeliverRecordFails, Goto, DeliverPc, RowStatus
<1>3. ASSUME NEW g \in Groups, NEW w \in Runners, DeliverFinalizeFails(g, w)
      PROVE  TypeOK'
  BY <1>3, JobGoneType DEF TypeOK, DeliverFinalizeFails
<1>4. ASSUME NEW S \in SUBSET Groups, DispatchThrows(S) PROVE TypeOK'
  BY <1>4 DEF TypeOK, DispatchThrows, Queued, DispatchPc
<1>5. ASSUME NEW r \in Requests, RequestThrows(r) PROVE TypeOK'
  BY <1>5 DEF TypeOK, RequestThrows, RequestPc
<1>6. CASE SweepThrows
  BY <1>6 DEF TypeOK, SweepThrows, SweepPc
<1>7. ASSUME NEW keep \in SUBSET Groups, NEW keepDispatch \in BOOLEAN,
             Crash(keep, keepDispatch)
      PROVE  TypeOK'
  BY <1>7 DEF TypeOK, Crash, DeliverPc, DispatchPc, RequestPc, SweepPc
<1>8. QED
  BY <1>1, <1>2, <1>3, <1>4, <1>5, <1>6, <1>7 DEF Failure

\* Every variable keeps its type, for all values of the constants.
THEOREM TypeCorrect == Spec => []TypeOK
<1>1. Init => TypeOK
  <2> SUFFICES ASSUME Init PROVE TypeOK
    OBVIOUS
  <2>1. pc \in [Groups -> [Runners -> DeliverPc]]
    BY DEF Init, DeliverPc
  <2>2. tried \in [Groups -> 0 .. Attempts - 1]
    BY DEF Init
  <2>3. requestPc \in [Requests -> RequestPc]
    BY DEF Init, RequestPc
  <2>4. /\ row \in [Groups -> RowStatus]
        /\ published \in [Groups -> Nat]
        /\ job \in [Groups -> {"none", "wait"} \cup Runners]
    BY DEF Init, RowStatus
  <2>5. /\ status \in PostStatus
        /\ stopRequested \in BOOLEAN
        /\ dispatchJob \in {"none", "wait", "active"}
        /\ dispatchPc \in DispatchPc
        /\ sweepPc \in SweepPc
        /\ stuck \subseteq Groups
    BY DEF Init, PostStatus, DispatchPc, SweepPc
  <2>6. crashes \in 0 .. MaxCrashes /\ faults \in 0 .. MaxFaults
    BY DEF Init
  <2>7. QED
    BY <2>1, <2>2, <2>3, <2>4, <2>5, <2>6 DEF TypeOK
<1>2. TypeOK /\ [Next]_vars => TypeOK'
  <2> SUFFICES ASSUME TypeOK, [Next]_vars PROVE TypeOK'
    OBVIOUS
  <2>1. ASSUME NEW g \in Groups, DeliverSkipSettled(g) PROVE TypeOK'
    BY <2>1 DEF TypeOK, DeliverSkipSettled, store, handler, budget
  <2>2. CASE UNCHANGED vars
    BY <2>2 DEF TypeOK, vars, store, queues, handler, budget
  <2>3. QED
    BY <2>1, <2>2, DeliverTypes, DispatchTypes, RequestTypes, SweepTypes,
       FailureTypes DEF Next
<1>3. QED BY <1>1, <1>2, PTL DEF Spec

(***************************************************************************)
(* At most one message per group, and rows that tell the truth.            *)
(***************************************************************************)
\* A runner that leaves deliver() gives up its own lock and nobody else's.
LEMMA Release ==
  ASSUME TypeOK, LockHeld, NEW g \in Groups, NEW w \in Runners,
         JobThrown(g, w) \/ JobGone(g, w) \/ JobBack(g, w, tried[g])
  PROVE  /\ LockHeld'
         /\ \A h \in Groups, v \in Runners :
              pc'[h][v] \in {pc[h][v], "idle"}
         /\ pc'[g][w] = "idle"
<1>1. pc' = [pc EXCEPT ![g][w] = "idle"]
  BY DEF JobThrown, JobGone, JobBack, Goto
<1>2. \A h \in Groups, v \in Runners :
        pc'[h][v] = IF h = g /\ v = w THEN "idle" ELSE pc[h][v]
  BY <1>1 DEF TypeOK
<1>3. \A h \in Groups : h # g \/ job[g] # w => job'[h] = job[h]
  BY DEF TypeOK, JobThrown, JobGone, JobBack
<1>4. LockHeld'
  BY <1>2, <1>3 DEF LockHeld, TypeOK
<1>5. QED BY <1>2, <1>4

LEMMA ReleaseKeepsInv ==
  ASSUME TypeOK, DeliveryInv, NEW g \in Groups, NEW w \in Runners,
         JobThrown(g, w) \/ JobGone(g, w) \/ JobBack(g, w, tried[g]),
         UNCHANGED <<row, published>>
  PROVE  DeliveryInv'
<1>1. LockHeld' /\ \A h \in Groups, v \in Runners :
                     pc'[h][v] \in {pc[h][v], "idle"}
  BY Release DEF DeliveryInv
<1>2. InsideDeliver'
  BY <1>1 DEF DeliveryInv, InsideDeliver, InCall
<1>3. QED
  BY <1>1, <1>2 DEF DeliveryInv, RowsExist, NoDoublePublish, RowTellsTheTruth

LEMMA DeliverKeepsInv ==
  ASSUME TypeOK, DeliveryInv, NEW g \in Groups, NEW w \in Runners,
         Deliver(g, w)
  PROVE  DeliveryInv'
<1> USE DEF TypeOK, DeliveryInv, LockHeld, InsideDeliver, RowsExist,
            NoDoublePublish, RowTellsTheTruth, RESUMABLE, At, Goto, InCall
<1>1. CASE DeliverRead(g, w)
  BY <1>1 DEF DeliverRead
<1>2. CASE DeliverSkipStopped(g, w)
  BY <1>2 DEF DeliverSkipStopped
<1>3. CASE DeliverPostpone(g, w)
  BY <1>3, ReleaseKeepsInv DEF DeliverPostpone
<1>4. CASE DeliverMarkSending(g, w)
  BY <1>4 DEF DeliverMarkSending
<1>5. CASE PlatformPublishes(g, w)
  BY <1>5, SMTT(30) DEF PlatformPublishes
<1>6. CASE PlatformAnswerLost(g, w)
  <2>1. PICK n \in {0, 1} : published' = [published EXCEPT ![g] = @ + n]
    BY <1>6 DEF PlatformAnswerLost
  <2>2. published[g] = 0 /\ row[g] \in {"sending", "unknown"}
    BY <1>6 DEF PlatformAnswerLost
  <2>3. published'[g] \in {0, 1} /\ \A h \in Groups \ {g} :
                                      published'[h] = published[h]
    BY <2>1, <2>2
  <2>4. QED BY <1>6, <2>2, <2>3 DEF PlatformAnswerLost
<1>7. CASE PlatformRefuses(g, w)
  BY <1>7 DEF PlatformRefuses
<1>8. CASE DeliverRetry(g, w)
  <2>1. LockHeld' /\ \A h \in Groups, v \in Runners :
                       pc'[h][v] \in {pc[h][v], "idle"}
    BY <1>8, Release DEF DeliverRetry
  <2>2. \A v \in Runners : pc'[g][v] = "idle"
    BY <1>8, <2>1, Release DEF DeliverRetry
  <2>3. QED BY <1>8, <2>1, <2>2 DEF DeliverRetry
<1>9. CASE DeliverRecord(g, w)
  BY <1>9 DEF DeliverRecord, Recorded
<1>10. CASE DeliverCount(g, w)
  <2>1. CASE Settled
    <3>1. pc' = [pc EXCEPT ![g][w] = Verdict]
      BY <1>10, <2>1 DEF DeliverCount
    <3>2. \A h \in Groups, v \in Runners :
            /\ pc'[h][v] \in {pc[h][v]} \cup Terminal
            /\ pc'[h][v] # "idle" /\ <<h, v>> # <<g, w>> => pc[h][v] # "idle"
      BY <3>1, VerdictType
    <3>3. pc[g][w] # "idle" /\ UNCHANGED <<row, published, job>>
      BY <1>10, <2>1 DEF DeliverCount
    <3>4. LockHeld'
      BY <3>2, <3>3
    <3>5. InsideDeliver'
      <4>1. ASSUME NEW h \in Groups, NEW v \in Runners,
                   pc'[h][v] \in InCall \cup {"skip", "limit"}
            PROVE  pc'[h][v] = pc[h][v]
        BY <3>2, <4>1 DEF Terminal
      <4>2. QED BY <3>3, <4>1
    <3>6. QED BY <3>3, <3>4, <3>5
  <2>2. CASE ~Settled
    BY <1>10, <2>2, ReleaseKeepsInv DEF DeliverCount
  <2>3. QED BY <2>1, <2>2
<1>11. CASE DeliverConclude(g, w)
  BY <1>11 DEF DeliverConclude, JobGone, Terminal
<1>12. QED
  BY <1>1, <1>2, <1>3, <1>4, <1>5, <1>6, <1>7, <1>8, <1>9, <1>10, <1>11
     DEF Deliver

\* A step that leaves rows, messages and runners alone, and takes no job away
\* from a runner, keeps the invariant.
LEMMA QueueingKeepsInv ==
  ASSUME TypeOK, DeliveryInv, UNCHANGED <<row, published, pc>>,
         \A g \in Groups : job[g] \in Runners => job'[g] = job[g]
  PROVE  DeliveryInv'
BY DEF TypeOK, DeliveryInv, LockHeld, InsideDeliver, RowsExist,
       NoDoublePublish, RowTellsTheTruth

LEMMA DispatchKeepsInv == TypeOK /\ DeliveryInv /\ Dispatch => DeliveryInv'
<1> SUFFICES ASSUME TypeOK, DeliveryInv, Dispatch PROVE DeliveryInv'
  OBVIOUS
<1>1. UNCHANGED <<row, published, pc>>
  BY DEF Dispatch, DispatchSkip, DispatchAccept, DispatchMark, DispatchFanOut,
         DispatchCount, DispatchConclude, DispatchOnly
<1>2. UNCHANGED job \/ Queued(Groups)
  BY DEF Dispatch, DispatchSkip, DispatchAccept, DispatchMark, DispatchFanOut,
         DispatchCount, DispatchConclude, queues
<1>3. \A g \in Groups : job[g] \in Runners => job'[g] = job[g]
  BY <1>2 DEF Queued, TypeOK
<1>4. QED BY <1>1, <1>3, QueueingKeepsInv

\* A request moves rows only between pending, failed and skipped_by_stop, and
\* of none of these has anything been published.
LEMMA RequestKeepsInv ==
  ASSUME TypeOK, DeliveryInv, NEW r \in Requests, Request(r)
  PROVE  DeliveryInv'
<1>1. UNCHANGED <<published, job, pc>>
  BY DEF Request, ScheduleCheck, ScheduleCommit, RequestEnqueue, StopCheck,
         StopCommit, StopUnqueue, StopCount, StopConclude, ResumeCheck,
         ResumeCommit, RequestOnly
<1>2. CASE UNCHANGED row
  BY <1>1, <1>2, QueueingKeepsInv
<1>3. CASE StopCommit(r)
  BY <1>1, <1>3 DEF TypeOK, DeliveryInv, LockHeld, InsideDeliver, RowsExist,
     NoDoublePublish, RowTellsTheTruth, RESUMABLE, StopCommit, RowsFrom, InCall
<1>4. CASE ResumeCommit(r)
  BY <1>1, <1>4 DEF TypeOK, DeliveryInv, LockHeld, InsideDeliver, RowsExist,
     NoDoublePublish, RowTellsTheTruth, RESUMABLE, ResumeCommit, RowsFrom,
     InCall
<1>5. QED
  BY <1>2, <1>3, <1>4
     DEF Request, ScheduleCheck, ScheduleCommit, RequestEnqueue, StopCheck,
         StopUnqueue, StopCount, StopConclude, ResumeCheck, store

\* The sweep only ever makes a row "unknown", which claims nothing.
LEMMA SweepKeepsInv == TypeOK /\ DeliveryInv /\ Sweep => DeliveryInv'
<1> SUFFICES ASSUME TypeOK, DeliveryInv, Sweep PROVE DeliveryInv'
  OBVIOUS
<1>1. UNCHANGED <<published, job, pc>>
  BY DEF Sweep, SweepDispatch, SweepFindStuck, SweepMarkUnknown, SweepCount,
         SweepConclude, SweepOnly
<1>2. CASE UNCHANGED row
  BY <1>1, <1>2, QueueingKeepsInv
<1>3. CASE SweepMarkUnknown
  BY <1>1, <1>3 DEF TypeOK, DeliveryInv, LockHeld, InsideDeliver, RowsExist,
     NoDoublePublish, RowTellsTheTruth, RESUMABLE, SweepMarkUnknown, InCall
<1>4. QED
  BY <1>2, <1>3 DEF Sweep, SweepDispatch, SweepFindStuck, SweepCount,
                    SweepConclude

LEMMA FailureKeepsInv == TypeOK /\ DeliveryInv /\ Failure => DeliveryInv'
<1> SUFFICES ASSUME TypeOK, DeliveryInv, Failure PROVE DeliveryInv'
  OBVIOUS
<1>1. ASSUME NEW g \in Groups, NEW w \in Runners,
             JobThrown(g, w) \/ JobGone(g, w), UNCHANGED <<row, published>>
      PROVE  DeliveryInv'
  BY <1>1, ReleaseKeepsInv
<1>2. ASSUME NEW g \in Groups, NEW w \in Runners, DeliverThrows(g, w)
      PROVE  DeliveryInv'
  BY <1>1, <1>2 DEF DeliverThrows, store
<1>3. ASSUME NEW g \in Groups, NEW w \in Runners, DeliverRecordFails(g, w)
      PROVE  DeliveryInv'
  BY <1>3 DEF DeliverRecordFails, queues, TypeOK, DeliveryInv, LockHeld,
     InsideDeliver, RowsExist, NoDoublePublish, RowTellsTheTruth, RESUMABLE,
     At, Goto, InCall
<1>4. ASSUME NEW g \in Groups, NEW w \in Runners, DeliverFinalizeFails(g, w)
      PROVE  DeliveryInv'
  BY <1>1, <1>4 DEF DeliverFinalizeFails, store
<1>5. ASSUME NEW S \in SUBSET Groups, DispatchThrows(S) PROVE DeliveryInv'
  <2>1. \A g \in Groups : job[g] \in Runners => job'[g] = job[g]
    BY <1>5 DEF DispatchThrows, Queued, TypeOK
  <2>2. QED BY <1>5, <2>1, QueueingKeepsInv DEF DispatchThrows, store
<1>6. ASSUME NEW r \in Requests, RequestThrows(r) PROVE DeliveryInv'
  BY <1>6, QueueingKeepsInv DEF RequestThrows, store, queues
<1>7. CASE SweepThrows
  BY <1>7, QueueingKeepsInv DEF SweepThrows, store, queues
<1>8. ASSUME NEW keep \in SUBSET Groups, NEW keepDispatch \in BOOLEAN,
             Crash(keep, keepDispatch)
      PROVE  DeliveryInv'
  BY <1>8 DEF Crash, store, TypeOK, DeliveryInv, LockHeld, InsideDeliver,
     RowsExist, NoDoublePublish, RowTellsTheTruth, InCall
<1>9. QED
  BY <1>2, <1>3, <1>4, <1>5, <1>6, <1>7, <1>8 DEF Failure

\* The lock, the places of deliver() and the rows fit together always.
THEOREM DeliveryInvariant == Spec => []DeliveryInv
<1>1. Init => DeliveryInv
  BY DEF Init, DeliveryInv, LockHeld, InsideDeliver, RowsExist,
         NoDoublePublish, RowTellsTheTruth, RESUMABLE, InCall
<1>2. TypeOK /\ DeliveryInv /\ [Next]_vars => DeliveryInv'
  <2> SUFFICES ASSUME TypeOK, DeliveryInv, [Next]_vars PROVE DeliveryInv'
    OBVIOUS
  <2>1. ASSUME NEW g \in Groups, DeliverSkipSettled(g) PROVE DeliveryInv'
    <3>1. \A h \in Groups : job[h] \in Runners => job'[h] = job[h]
      BY <2>1 DEF DeliverSkipSettled, TypeOK
    <3>2. QED
      BY <2>1, <3>1, QueueingKeepsInv DEF DeliverSkipSettled, store, handler
  <2>2. CASE UNCHANGED vars
    BY <2>2, QueueingKeepsInv DEF vars, store, queues, handler
  <2>3. QED
    BY <2>1, <2>2, DeliverKeepsInv, DispatchKeepsInv, RequestKeepsInv,
       SweepKeepsInv, FailureKeepsInv DEF Next
<1>3. QED BY <1>1, <1>2, TypeCorrect, PTL DEF Spec

\* Whatever fails, stalls, crashes or is resumed, no group gets the campaign's
\* message twice.
THEOREM AtMostOnePublish == Spec => []NoDoublePublish
<1>1. DeliveryInv => NoDoublePublish
  BY DEF DeliveryInv
<1>2. QED BY <1>1, DeliveryInvariant, PTL

\* "sent" means published, and nothing that may be sent again was.
THEOREM RowsAreTrue == Spec => []RowTellsTheTruth
<1>1. DeliveryInv => RowTellsTheTruth
  BY DEF DeliveryInv
<1>2. QED BY <1>1, DeliveryInvariant, PTL

(***************************************************************************)
(* Messages appear only in a runner's call, and never disappear.           *)
(***************************************************************************)
LEMMA PublishedOnlyInCall ==
  ASSUME TypeOK, DeliveryInv, [Next]_vars, NEW g \in Groups,
         published'[g] # published[g]
  PROVE  /\ published[g] = 0
         /\ row[g] \in {"sending", "unknown"}
         /\ row' = row
<1>1. PICK h \in Groups, w \in Runners :
        PlatformPublishes(h, w) \/ PlatformAnswerLost(h, w)
  <2>1. CASE \E h \in Groups, w \in Runners : Deliver(h, w)
    BY <2>1 DEF Deliver, DeliverRead, DeliverSkipStopped, DeliverPostpone,
       DeliverMarkSending, PlatformRefuses, DeliverRetry, DeliverRecord,
       DeliverCount, DeliverConclude
  <2>2. CASE Dispatch
    BY <2>2 DEF Dispatch, DispatchSkip, DispatchAccept, DispatchMark,
       DispatchFanOut, DispatchCount, DispatchConclude, DispatchOnly
  <2>3. CASE \E r \in Requests : Request(r)
    BY <2>3 DEF Request, ScheduleCheck, ScheduleCommit, RequestEnqueue,
       StopCheck, StopCommit, StopUnqueue, StopCount, StopConclude,
       ResumeCheck, ResumeCommit, RequestOnly
  <2>4. CASE Sweep
    BY <2>4 DEF Sweep, SweepDispatch, SweepFindStuck, SweepMarkUnknown,
       SweepCount, SweepConclude, SweepOnly
  <2>5. CASE Failure
    BY <2>5 DEF Failure, DeliverThrows, DeliverRecordFails,
       DeliverFinalizeFails, DispatchThrows, RequestThrows, SweepThrows, Crash
  <2>6. CASE \E h \in Groups : DeliverSkipSettled(h)
    BY <2>6 DEF DeliverSkipSettled
  <2>7. CASE UNCHANGED vars
    BY <2>7 DEF vars
  <2>8. QED
    BY <2>1, <2>2, <2>3, <2>4, <2>5, <2>6, <2>7 DEF Next
<1>2. h = g
  <2>1. \E n \in {0, 1} :
          published' = [published EXCEPT ![h] = published[h] + n]
    BY <1>1 DEF PlatformPublishes, PlatformAnswerLost
  <2>2. QED BY <2>1 DEF TypeOK
<1>3. pc[g][w] = "send" /\ row' = row
  BY <1>1, <1>2 DEF PlatformPublishes, PlatformAnswerLost, At
<1>4. QED
  BY <1>3 DEF DeliveryInv, InsideDeliver, InCall

\* Under the invariant, a step changes what is told of a group, and how many
\* copies it has, only in the ways PublishOnce allows.
LEMMA StepIsAllowed ==
  ASSUME TypeOK, TypeOK', DeliveryInv, DeliveryInv', [Next]_vars,
         NEW g \in Groups
  PROVE  \/ Once!Claim(g) \/ Once!Put(g) \/ Once!Confirm(g)
         \/ Once!Withdraw(g) \/ Once!Doubt(g) \/ Once!Same(g)
<1> DEFINE told == [h \in Groups |-> Told(row[h])]
<1>1. /\ row[g] \in RowStatus /\ row'[g] \in RowStatus
      /\ published[g] \in {0, 1} /\ published'[g] \in {0, 1}
  <2>1. row[g] \in RowStatus /\ row'[g] \in RowStatus
    BY DEF TypeOK
  <2>2. published[g] \in Nat /\ published'[g] \in Nat
    BY DEF TypeOK
  <2>3. published[g] <= 1 /\ published'[g] <= 1
    BY DEF DeliveryInv, NoDoublePublish
  <2>4. QED BY <2>1, <2>2, <2>3
<1>2. /\ told[g] = "sent"   => published[g] = 1
      /\ told[g] = "unsent" => published[g] = 0
      /\ told'[g] = "sent"   => published'[g] = 1
      /\ told'[g] = "unsent" => published'[g] = 0
      /\ told[g] \in {"unsent", "maybe", "sent"}
      /\ told'[g] \in {"unsent", "maybe", "sent"}
  BY <1>1 DEF DeliveryInv, RowTellsTheTruth, RowsExist, RESUMABLE, Told,
              RowStatus
<1>3. CASE published'[g] = published[g]
  BY <1>2, <1>3 DEF Once!Claim, Once!Confirm, Once!Withdraw, Once!Doubt,
     Once!Same, Once!Tell
<1>4. CASE published'[g] # published[g]
  <2>1. /\ published[g] = 0
        /\ row[g] \in {"sending", "unknown"}
        /\ row' = row
    BY <1>4, PublishedOnlyInCall
  <2>2. told[g] = "maybe" /\ told'[g] = told[g] /\ published'[g] = 1
    BY <1>1, <1>4, <2>1 DEF Told
  <2>3. QED BY <2>1, <2>2 DEF Once!Put
<1>5. QED BY <1>3, <1>4

\* The campaign implements PublishOnce: of each group the rows never claim
\* what is not so, and its message is created at most once.
THEOREM CampaignPublishesOnce == Spec => PublishesOnce
<1>1. Init => Once!Init
  BY DEF Init, Once!Init, Told
<1>2. TypeOK /\ TypeOK' /\ DeliveryInv /\ DeliveryInv' /\ [Next]_vars
        => [Once!Next]_<<[g \in Groups |-> Told(row[g])], published>>
  <2> SUFFICES ASSUME TypeOK, TypeOK', DeliveryInv, DeliveryInv', [Next]_vars
               PROVE  Once!Next
    OBVIOUS
  <2>1. published' = [g \in Groups |-> published'[g]]
    BY DEF TypeOK
  <2>2. QED BY <2>1, StepIsAllowed DEF Once!Next
<1>3. QED
  BY <1>1, <1>2, TypeCorrect, DeliveryInvariant, PTL
     DEF Spec, PublishesOnce, Once!Spec

(***************************************************************************)
(* "sent" is only ever concluded of a campaign every group got.            *)
(***************************************************************************)
LEMMA SentVerdictIsTrue ==
  ASSUME TypeOK, DeliveryInv, Settled, Verdict = "sent"
  PROVE  Delivered
<1> SUFFICES ASSUME NEW g \in Groups PROVE published[g] = 1
  BY DEF Delivered
<1>1. row[g] \notin {"skipped_by_stop", "failed", "unknown"}
  BY DEF Verdict
<1>2. row[g] \notin {"pending", "sending", "none"}
  BY DEF Settled, IN_FLIGHT, DeliveryInv, RowsExist
<1>3. row[g] = "sent"
  BY <1>1, <1>2 DEF TypeOK, RowStatus
<1>4. QED BY <1>3 DEF DeliveryInv, RowTellsTheTruth

LEMMA DeliveredStays ==
  ASSUME TypeOK, DeliveryInv, [Next]_vars, Delivered
  PROVE  Delivered'
BY PublishedOnlyInCall DEF Delivered

LEMMA DeliverConcludesSent ==
  ASSUME TypeOK, DeliveryInv, ConcludesSent, Delivered => Delivered',
         NEW g \in Groups, NEW w \in Runners, Deliver(g, w)
  PROVE  ConcludesSent'
<1>1. UNCHANGED <<dispatchPc, requestPc, sweepPc>>
  BY DEF Deliver, DeliverRead, DeliverSkipStopped, DeliverPostpone,
     DeliverMarkSending, PlatformPublishes, PlatformAnswerLost,
     PlatformRefuses, DeliverRetry, DeliverRecord, DeliverCount,
     DeliverConclude, DeliverOnly
<1>2. status' = "sent" => Delivered
  BY DEF Deliver, DeliverRead, DeliverSkipStopped, DeliverPostpone,
     DeliverMarkSending, PlatformPublishes, PlatformAnswerLost,
     PlatformRefuses, DeliverRetry, DeliverRecord, DeliverCount,
     DeliverConclude, DeliverOnly, ConcludesSent
<1>3. ASSUME NEW h \in Groups, NEW v \in Runners, pc'[h][v] = "sent"
      PROVE  Delivered
  <2>1. CASE pc[h][v] = "sent"
    BY <2>1 DEF ConcludesSent
  <2>2. CASE pc[h][v] # "sent"
    <3>1. PICK place : pc' = [pc EXCEPT ![g][w] = place]
      BY DEF Deliver, DeliverRead, DeliverSkipStopped, DeliverPostpone,
         DeliverMarkSending, PlatformPublishes, PlatformAnswerLost,
         PlatformRefuses, DeliverRetry, DeliverRecord, DeliverCount,
         DeliverConclude, JobThrown, JobGone, JobBack, Goto
    <3>2. h = g /\ v = w
      BY <1>3, <2>2, <3>1 DEF TypeOK
    <3>3. pc'[g][w] = "sent"
      BY <1>3, <3>2
    <3>4. DeliverCount(g, w) /\ Settled
      BY <3>3 DEF Deliver, DeliverRead, DeliverSkipStopped, DeliverPostpone,
         DeliverMarkSending, PlatformPublishes, PlatformAnswerLost,
         PlatformRefuses, DeliverRetry, DeliverRecord, DeliverCount,
         DeliverConclude, JobThrown, JobGone, JobBack, Goto, TypeOK
    <3>5. Verdict = "sent"
      BY <3>3, <3>4 DEF DeliverCount, Goto, TypeOK
    <3>6. QED BY <3>4, <3>5, SentVerdictIsTrue
  <2>3. QED BY <2>1, <2>2
<1>4. QED BY <1>1, <1>2, <1>3 DEF ConcludesSent

LEMMA OthersConcludeSent ==
  ASSUME TypeOK, DeliveryInv, ConcludesSent, Delivered => Delivered',
         Dispatch \/ (\E r \in Requests : Request(r)) \/ Sweep
  PROVE  ConcludesSent'
<1>1. AfterCount("idle") = "sent" \/ AfterCount("done") = "sent" => Delivered
  BY SentVerdictIsTrue DEF AfterCount
<1>2. CASE Dispatch
  <2>1. UNCHANGED <<pc, requestPc, sweepPc>>
    BY <1>2 DEF Dispatch, DispatchSkip, DispatchAccept, DispatchMark,
       DispatchFanOut, DispatchCount, DispatchConclude, DispatchOnly
  <2>2. (dispatchPc' = "sent" => Delivered) /\ (status' = "sent" => Delivered)
    BY <1>1, <1>2 DEF Dispatch, DispatchSkip, DispatchAccept, DispatchMark,
       DispatchFanOut, DispatchCount, DispatchConclude, ConcludesSent
  <2>3. QED BY <2>1, <2>2 DEF ConcludesSent
<1>3. ASSUME NEW r \in Requests, Request(r) PROVE ConcludesSent'
  <2>1. UNCHANGED <<pc, dispatchPc, sweepPc>>
    BY <1>3 DEF Request, ScheduleCheck, ScheduleCommit, RequestEnqueue,
       StopCheck, StopCommit, StopUnqueue, StopCount, StopConclude,
       ResumeCheck, ResumeCommit, RequestOnly
  <2>2. status' = "sent" => Delivered
    BY <1>3 DEF Request, ScheduleCheck, ScheduleCommit, RequestEnqueue,
       StopCheck, StopCommit, StopUnqueue, StopCount, StopConclude,
       ResumeCheck, ResumeCommit, store, ConcludesSent
  <2>3. PICK to : /\ requestPc' = [requestPc EXCEPT ![r] = to]
                  /\ to = "sent" => Delivered
    BY <1>1, <1>3 DEF Request, ScheduleCheck, ScheduleCommit, RequestEnqueue,
       StopCheck, StopCommit, StopUnqueue, StopCount, StopConclude,
       ResumeCheck, ResumeCommit, Move
  <2>4. \A q \in Requests : requestPc'[q] = "sent" => Delivered
    BY <2>3 DEF ConcludesSent, TypeOK
  <2>5. QED BY <2>1, <2>2, <2>4 DEF ConcludesSent
<1>4. CASE Sweep
  <2>1. UNCHANGED <<pc, dispatchPc, requestPc>>
    BY <1>4 DEF Sweep, SweepDispatch, SweepFindStuck, SweepMarkUnknown,
       SweepCount, SweepConclude, SweepOnly
  <2>2. (sweepPc' = "sent" => Delivered) /\ (status' = "sent" => Delivered)
    BY <1>1, <1>4 DEF Sweep, SweepDispatch, SweepFindStuck, SweepMarkUnknown,
       SweepCount, SweepConclude, SweepTo, ConcludesSent
  <2>3. QED BY <2>1, <2>2 DEF ConcludesSent
<1>5. QED BY <1>2, <1>3, <1>4

LEMMA FailureConcludesNothing ==
  ASSUME TypeOK, ConcludesSent, Delivered => Delivered', Failure
  PROVE  ConcludesSent'
<1>1. status' = status
  BY DEF Failure, DeliverThrows, DeliverRecordFails, DeliverFinalizeFails,
     DispatchThrows, RequestThrows, SweepThrows, Crash, store
<1>2. dispatchPc' \in {dispatchPc, "idle"} /\ sweepPc' \in {sweepPc, "idle"}
  BY DEF Failure, DeliverThrows, DeliverRecordFails, DeliverFinalizeFails,
     DispatchThrows, RequestThrows, SweepThrows, Crash
<1>3. \A r \in Requests : requestPc'[r] \in {requestPc[r], "new", "done"}
  BY DEF Failure, DeliverThrows, DeliverRecordFails, DeliverFinalizeFails,
     DispatchThrows, RequestThrows, SweepThrows, Crash, TypeOK
<1>4. \A g \in Groups, w \in Runners :
        pc'[g][w] \in {pc[g][w], "idle", "finalize"}
  BY DEF Failure, DeliverThrows, DeliverRecordFails, DeliverFinalizeFails,
     DispatchThrows, RequestThrows, SweepThrows, Crash, TypeOK, JobThrown,
     JobGone, JobBack, Goto
<1>5. QED BY <1>1, <1>2, <1>3, <1>4 DEF ConcludesSent

\* A campaign the panel shows as "sent" was published in every group, although
\* its rows are counted and its status is written in separate statements.
THEOREM SentIsComplete == Spec => []SentMeansEveryGroup
<1>1. Init => ConcludesSent
  BY DEF Init, ConcludesSent
<1>2. TypeOK /\ DeliveryInv /\ ConcludesSent /\ [Next]_vars => ConcludesSent'
  <2> SUFFICES ASSUME TypeOK, DeliveryInv, ConcludesSent, [Next]_vars
               PROVE  ConcludesSent'
    OBVIOUS
  <2>1. Delivered => Delivered'
    BY DeliveredStays
  <2>2. ASSUME NEW g \in Groups, DeliverSkipSettled(g) PROVE ConcludesSent'
    BY <2>1, <2>2 DEF DeliverSkipSettled, store, handler, ConcludesSent
  <2>3. CASE UNCHANGED vars
    BY <2>1, <2>3 DEF vars, store, handler, ConcludesSent
  <2>4. QED
    BY <2>1, <2>2, <2>3, DeliverConcludesSent, OthersConcludeSent,
       FailureConcludesNothing DEF Next
<1>3. ConcludesSent => SentMeansEveryGroup
  BY DEF ConcludesSent, SentMeansEveryGroup, Delivered
<1>4. QED
  BY <1>1, <1>2, <1>3, TypeCorrect, DeliveryInvariant, PTL DEF Spec

-----------------------------------------------------------------------------
(***************************************************************************)
(* The second part is about Attachments: what a delivery sends and where   *)
(* its references come from, for every set of posts, groups and files, any *)
(* number of attempts and of faults.  Lemmas state what they need of the   *)
(* constants; the theorems rest on SendingAssumption.  The module names    *)
(* the instance of Attachments.                                            *)
(***************************************************************************)
\* The names of no one and of what was never cleared are no members.
LEMMA NoOneIsNoOne ==
  ASSUME A!AttachmentsAssumption
  PROVE  A!NoOne \notin Deliveries
<1>1. ASSUME NEW d \in Deliveries PROVE d # A!NoOne
  <2>1. d \in A!Posts \X A!Groups
    BY DEF A!AttachmentsAssumption
  <2>2. PICK p \in A!Posts, g \in A!Groups : d = <<p, g>>
    BY <2>1
  <2>. QED
    BY <2>2 DEF A!NoOne
<1>. QED
  BY <1>1

LEMMA FirstKindTyped == A!FirstKind \in [A!Assets -> A!Kinds]
BY DEF A!FirstKind, A!Kinds

-----------------------------------------------------------------------------
(***************************************************************************)
(* The rows, and what no handler touches.                                  *)
(***************************************************************************)
RowsTyped ==
  /\ post \in [A!Posts -> {"none", "draft", "scheduled", "sending"}]
  /\ deliveryRow \in [Deliveries -> {"none", "pending", "sending", "sent", "failed", "unknown"}]
  /\ queued \subseteq Deliveries
  /\ tries \in [Deliveries -> 0 .. MaxTries - 1]

LEMMA LeavesRows ==
  ASSUME RowsTyped, UNCHANGED A!rows
  PROVE  RowsTyped'
BY DEF RowsTyped, A!rows

LEMMA EndsRows ==
  ASSUME A!AttachmentsAssumption, RowsTyped, NEW d \in Deliveries,
         \/ \E outcome \in {"sent", "failed", "unknown"} : A!Ends(d, outcome)
         \/ A!Retries(d)
  PROVE  RowsTyped'
<1>1. MaxTries \in Nat \ {0}
  BY DEF A!AttachmentsAssumption
<1>2. ASSUME NEW outcome \in {"sent", "failed", "unknown"}, A!Ends(d, outcome) PROVE RowsTyped'
  BY <1>1, <1>2 DEF RowsTyped, A!Ends
<1>3. CASE A!Retries(d) /\ A!MayTryAgain(d)
  <2>1. tries[d] \in 0 .. MaxTries - 1 /\ tries[d] + 1 < MaxTries
    BY <1>3 DEF RowsTyped, A!MayTryAgain
  <2>2. tries' = [tries EXCEPT ![d] = tries[d] + 1]
          /\ deliveryRow' = [deliveryRow EXCEPT ![d] = "pending"]
        /\ UNCHANGED <<post, queued>>
    BY <1>3 DEF A!Retries
  <2>3. tries[d] + 1 \in 0 .. MaxTries - 1
    BY <1>1, <2>1
  <2>. QED
    BY <2>2, <2>3 DEF RowsTyped
<1>4. CASE A!Retries(d) /\ ~A!MayTryAgain(d)
  BY <1>2, <1>4 DEF A!Retries
<1>. QED
  BY <1>2, <1>3, <1>4

LEMMA RowsStep ==
  ASSUME A!AttachmentsAssumption, RowsTyped, [A!Next]_A!vars
  PROVE  RowsTyped'
<1>1. MaxTries \in Nat \ {0}
  BY DEF A!AttachmentsAssumption
<1>2. ASSUME NEW p \in A!Posts, A!SchedulePost(p) PROVE RowsTyped'
  BY <1>2 DEF RowsTyped, A!SchedulePost
<1>3. ASSUME NEW p \in A!Posts, A!Fire(p) PROVE RowsTyped'
  <2>1. post' = [post EXCEPT ![p] = "scheduled"] /\ UNCHANGED <<queued, tries>>
    BY <1>3 DEF A!Fire
  <2>2. PICK recipients \in SUBSET Deliveries :
          deliveryRow' = [d \in Deliveries |-> IF d \in recipients THEN "pending"
            ELSE deliveryRow[d]]
    BY <1>3 DEF A!Fire
  <2>. QED
    BY <2>1, <2>2 DEF RowsTyped
<1>4. ASSUME NEW p \in A!Posts, A!Dispatch(p) PROVE RowsTyped'
  <2>1. post' = [post EXCEPT ![p] = "sending"] /\ UNCHANGED deliveryRow
    BY <1>4 DEF A!Dispatch
  <2>2. PICK due \in SUBSET Deliveries :
          /\ queued' = queued \cup due
          /\ tries' = [d \in Deliveries |-> IF d \in due \ queued THEN 0 ELSE tries[d]]
    BY <1>4 DEF A!Dispatch
  <2>3. 0 \in 0 .. MaxTries - 1
    BY <1>1
  <2>4. tries' \in [Deliveries -> 0 .. MaxTries - 1]
    BY <2>2, <2>3 DEF RowsTyped
  <2>. QED
    BY <2>1, <2>2, <2>4 DEF RowsTyped
<1>5. ASSUME NEW p \in A!Posts, A!ResumePost(p) PROVE RowsTyped'
  BY <1>5 DEF RowsTyped, A!ResumePost
<1>6. ASSUME NEW d \in Deliveries, A!Deliver(d) PROVE RowsTyped'
  BY <1>6 DEF RowsTyped, A!Deliver
<1>7. ASSUME NEW d \in Deliveries,
             A!TokenRefused(d) \/ A!UploadFails(d) \/ A!VideoTimesOut(d) \/ A!Send(d)
               \/ A!SendFails(d)
      PROVE  RowsTyped'
  BY <1>7, EndsRows DEF A!TokenRefused, A!UploadFails, A!VideoTimesOut, A!Send, A!SendFails
<1>8. CASE A!Crash
  <2>1. PICK active \in SUBSET Deliveries :
          /\ deliveryRow' = [d \in Deliveries |-> IF d \in active THEN "unknown"
             ELSE deliveryRow[d]]
          /\ queued' = queued \ active
          /\ tries' = [d \in Deliveries |-> IF d \in active THEN 0 ELSE tries[d]]
    BY <1>8 DEF A!Crash
  <2>2. 0 \in 0 .. MaxTries - 1 /\ UNCHANGED post
    BY <1>1, <1>8 DEF A!Crash
  <2>3. tries' \in [Deliveries -> 0 .. MaxTries - 1]
    BY <2>1, <2>2 DEF RowsTyped
  <2>. QED
    BY <2>1, <2>2, <2>3 DEF RowsTyped
<1>9. ASSUME NEW d \in Deliveries,
             \/ A!Find(d) \/ A!UploadToVk(d) \/ A!UploadToMax(d) \/ A!Store(d) \/ A!StoreFails(d)
             \/ A!VideoReady(d)
      PROVE  UNCHANGED A!rows
  BY <1>9 DEF A!Find, A!UploadToVk, A!UploadToMax, A!Uploaded, A!Store, A!StoreFails, A!VideoReady
<1>10. ASSUME \/ \E a \in A!Assets : A!TurnsVideo(a)
              \/ A!TokenExpires \/ A!Callback
              \/ \E key \in A!Keys : A!Settles(key) \/ A!GoesStale(key)
              \/ \E x \in Deliveries \X A!Keys : A!MaxProcesses(x)
              \/ UNCHANGED A!vars
       PROVE  UNCHANGED A!rows
  BY <1>10 DEF A!TurnsVideo, A!TokenExpires, A!Callback, A!Settles, A!GoesStale, A!MaxProcesses,
     A!vars, A!rows
<1>. QED
  BY <1>2, <1>3, <1>4, <1>5, <1>6, <1>7, <1>8, <1>9, <1>10, LeavesRows, Zenon
     DEF A!Next, A!DeliverSteps

\* A file that is a video has been a document before.
KindFits(k, a) == k = A!FirstKind[a] \/ (a \in Videos /\ k = "video")

RestTyped ==
  /\ kind \in [A!Assets -> A!Kinds] /\ \A a \in A!Assets : KindFits(kind[a], a)
  /\ token \in {"missing", "usable", "expired"}
  /\ holdsToken \subseteq Deliveries
  /\ mishaps \in 0 .. MaxMishaps

LEMMA FaultTyped ==
  ASSUME A!AttachmentsAssumption, RestTyped, A!Fault
  PROVE  mishaps' \in 0 .. MaxMishaps
BY DEF A!AttachmentsAssumption, RestTyped, A!Fault

LEMMA EndsHolds ==
  ASSUME NEW d \in Deliveries,
         \/ \E outcome \in {"sent", "failed", "unknown"} : A!Ends(d, outcome)
         \/ A!Retries(d)
  PROVE  A!Leaves(d)
BY DEF A!Ends, A!Retries

LEMMA RestStep ==
  ASSUME A!AttachmentsAssumption, RestTyped, [A!Next]_A!vars
  PROVE  RestTyped'
<1>1. ASSUME NEW a \in A!Assets, A!TurnsVideo(a) PROVE RestTyped'
  <2>1. /\ a \in Videos /\ kind' = [kind EXCEPT ![a] = "video"]
        /\ UNCHANGED <<token, holdsToken, mishaps>>
    BY <1>1 DEF A!TurnsVideo, A!handler
  <2>2. kind' \in [A!Assets -> A!Kinds]
    BY <2>1 DEF RestTyped, A!Kinds
  <2>3. \A b \in A!Assets : KindFits(kind'[b], b)
    BY <2>1 DEF RestTyped, KindFits
  <2>. QED
    BY <2>1, <2>2, <2>3 DEF RestTyped
<1>2. CASE A!TokenExpires \/ A!Callback
  BY <1>2 DEF RestTyped, A!TokenExpires, A!Callback, A!Exchange, A!handler
<1>3. ASSUME NEW d \in Deliveries,
             A!TokenRefused(d) \/ A!VideoTimesOut(d) \/ A!Send(d) \/ A!UploadFails(d)
               \/ A!SendFails(d)
      PROVE  RestTyped'
  <2>1. A!Leaves(d)
    BY <1>3, EndsHolds DEF A!TokenRefused, A!VideoTimesOut, A!Send, A!UploadFails, A!SendFails
  <2>2. holdsToken' \subseteq holdsToken /\ UNCHANGED <<kind, token>>
    BY <1>3, <2>1 DEF A!Leaves, A!TokenRefused, A!VideoTimesOut, A!Send, A!UploadFails,
       A!SendFails
  <2>3. mishaps' \in 0 .. MaxMishaps
    BY <1>3, FaultTyped DEF RestTyped, A!TokenRefused, A!VideoTimesOut, A!Send, A!UploadFails,
       A!SendFails
  <2>. QED
    BY <2>2, <2>3 DEF RestTyped
<1>4. CASE A!Crash
  BY <1>4, FaultTyped DEF RestTyped, A!Crash
<1>5. ASSUME NEW d \in Deliveries, A!UploadToVk(d) PROVE RestTyped'
  BY <1>5 DEF RestTyped, A!UploadToVk, A!Uploaded
<1>6. ASSUME NEW d \in Deliveries, A!StoreFails(d) PROVE RestTyped'
  BY <1>6, FaultTyped DEF RestTyped, A!StoreFails
<1>7. ASSUME UNCHANGED <<kind, token, holdsToken, mishaps>> PROVE RestTyped'
  BY <1>7 DEF RestTyped
<1>8. ASSUME NEW d \in Deliveries,
             A!Deliver(d) \/ A!Find(d) \/ A!UploadToMax(d) \/ A!Store(d) \/ A!VideoReady(d)
      PROVE  UNCHANGED <<kind, token, holdsToken, mishaps>>
  BY <1>8 DEF A!Deliver, A!Find, A!UploadToMax, A!Uploaded, A!Store, A!VideoReady
<1>9. ASSUME \/ \E key \in A!Keys : A!Settles(key) \/ A!GoesStale(key)
             \/ \E x \in Deliveries \X A!Keys : A!MaxProcesses(x)
             \/ \E p \in A!Posts : A!SchedulePost(p) \/ A!Fire(p) \/ A!Dispatch(p)
                \/ A!ResumePost(p)
             \/ UNCHANGED A!vars
      PROVE  UNCHANGED <<kind, token, holdsToken, mishaps>>
  BY <1>9 DEF A!Settles, A!GoesStale, A!MaxProcesses, A!SchedulePost, A!Fire, A!Dispatch,
     A!ResumePost, A!vars, A!handler
<1>. QED
  BY <1>1, <1>2, <1>3, <1>4, <1>5, <1>6, <1>7, <1>8, <1>9, Zenon DEF A!Next, A!DeliverSteps

-----------------------------------------------------------------------------
(***************************************************************************)
(* What a handler holds where it is.                                       *)
(***************************************************************************)
HandlerTyped ==
  /\ step \in [Deliveries -> A!Steps]
  /\ asKind \in [Deliveries -> [A!Assets -> A!Kinds]]
  /\ refs \in [Deliveries -> Seq(Deliveries \X A!Keys)]
  /\ inHand \in [Deliveries -> A!Makers]
  /\ found \in [Deliveries -> A!Ages]

StoreTyped ==
  /\ cache \in [A!Keys -> [by : A!Makers, age : A!Ages]]
  /\ made \in [Deliveries \X A!Keys -> [form : A!Forms, state : A!States, fate : A!Fates]]

\* The key of the file at position i, and the one a handler is at.
KeyAt(d, ak, i) == <<Order[i], A!Place(d[2]), A!Scope(ak[Order[i]])>>
KeyNow(d, ak, rf) == KeyAt(d, ak, Len(rf) + 1)

\* A reference that its maker, unless it is the one that holds it, does not make again.
Holds(md, d, m, k) ==
  m \in Deliveries /\ md[<<m, k>>].fate # "none" /\ (m # d => md[<<m, k>>].fate = "kept")

Collected(md, d, ak, rf) ==
  \A i \in 1 .. Len(rf) : \E m \in Deliveries :
    /\ rf[i] = <<m, KeyAt(d, ak, i)>>
    /\ Holds(md, d, m, KeyAt(d, ak, i)) /\ md[<<m, KeyAt(d, ak, i)>>].state # "processing"

Counted(st, rf) ==
  /\ Len(rf) <= Len(Order)
  /\ st = "idle" => rf = <<>>
  /\ st = "calling" => Len(rf) = Len(Order)
  /\ st \in {"finding", "uploading", "storing", "waiting"} => Len(rf) < Len(Order)

InWork(md, ca, d, st, k, fo, ih) ==
  /\ st = "uploading" => md[<<d, k>>].fate # "kept"
  /\ st \in {"uploading", "storing"} /\ fo # "stale" => ca[k].age # "stale"
  /\ st = "storing" => md[<<d, k>>].fate = "inHand"
  /\ st = "waiting" => Holds(md, d, ih, k)

HandlerAt(md, ca, d, st, ak, rf, fo, ih) ==
  /\ \A a \in A!Assets : KindFits(ak[a], a)
  /\ Counted(st, rf)
  /\ Collected(md, d, ak, rf)
  /\ Len(rf) < Len(Order) => InWork(md, ca, d, st, KeyNow(d, ak, rf), fo, ih)

HandlersInv ==
  \A d \in Deliveries : HandlerAt(made, cache, d, step[d], asKind[d], refs[d], found[d], inHand[d])

LEMMA KeyTyped ==
  ASSUME A!AttachmentsAssumption, NEW d \in Deliveries, NEW ak \in [A!Assets -> A!Kinds],
         NEW i \in 1 .. Len(Order)
  PROVE  /\ Order[i] \in A!Assets /\ ak[Order[i]] \in A!Kinds
         /\ KeyAt(d, ak, i) \in A!Keys
         /\ KeyAt(d, ak, i)[1] = Order[i]
         /\ KeyAt(d, ak, i)[2] = A!Place(d[2])
         /\ KeyAt(d, ak, i)[3] = A!Scope(ak[Order[i]])
<1>1. Order[i] \in A!Assets
  BY DEF A!AttachmentsAssumption
<1>2. d[2] \in A!Groups
  BY DEF A!AttachmentsAssumption
<1>3. A!Place(d[2]) \in A!Places
  BY <1>2 DEF A!Place, A!Places, A!IsVk
<1>4. A!Scope(ak[Order[i]]) \in {"plain", "video"}
  BY DEF A!Scope
<1>. QED
  BY <1>1, <1>3, <1>4 DEF KeyAt, A!Keys

\* Only the communities of VK are places of their own.
LEMMA PlacesDiffer ==
  ASSUME A!AttachmentsAssumption, NEW d \in Deliveries
  PROVE  A!Place(d[2]) = "bot" <=> ~A!IsVk(d[2])
BY DEF A!AttachmentsAssumption, A!Place, A!IsVk

\* A handler is where it was if others leave alone what it has made and what is kept.
Spares(md, ca, md2, ca2, d) ==
  \A k \in A!Keys : k[2] = A!Place(d[2]) =>
    /\ ca2[k] = ca[k] \/ ca2[k].age # "stale"
    /\ \A m \in Deliveries : m = d \/ md[<<m, k>>].fate = "kept" =>
         /\ md2[<<m, k>>].fate = md[<<m, k>>].fate
         /\ md[<<m, k>>].state # "processing" => md2[<<m, k>>].state # "processing"

LEMMA CollectedSpared ==
  ASSUME A!AttachmentsAssumption, NEW md, NEW ca, NEW md2, NEW ca2,
         NEW d \in Deliveries, NEW ak \in [A!Assets -> A!Kinds], NEW rf,
         Len(rf) \in Nat, Len(rf) <= Len(Order),
         Collected(md, d, ak, rf), Spares(md, ca, md2, ca2, d)
  PROVE  Collected(md2, d, ak, rf)
<1>1. Len(Order) \in Nat
  BY DEF A!AttachmentsAssumption
<1>2. SUFFICES ASSUME NEW i \in 1 .. Len(rf)
               PROVE  \E m \in Deliveries :
                        /\ rf[i] = <<m, KeyAt(d, ak, i)>>
                        /\ Holds(md2, d, m, KeyAt(d, ak, i))
                        /\ md2[<<m, KeyAt(d, ak, i)>>].state # "processing"
  BY DEF Collected
<1>3. KeyAt(d, ak, i) \in A!Keys /\ KeyAt(d, ak, i)[2] = A!Place(d[2])
  BY <1>1, KeyTyped
<1>4. PICK m \in Deliveries :
        /\ rf[i] = <<m, KeyAt(d, ak, i)>>
        /\ Holds(md, d, m, KeyAt(d, ak, i)) /\ md[<<m, KeyAt(d, ak, i)>>].state # "processing"
  BY DEF Collected
<1>5. m = d \/ md[<<m, KeyAt(d, ak, i)>>].fate = "kept"
  BY <1>4 DEF Holds
<1>6. /\ md2[<<m, KeyAt(d, ak, i)>>].fate = md[<<m, KeyAt(d, ak, i)>>].fate
      /\ md2[<<m, KeyAt(d, ak, i)>>].state # "processing"
  BY <1>3, <1>4, <1>5 DEF Spares
<1>. QED
  BY <1>4, <1>6 DEF Holds

LEMMA AtSpared ==
  ASSUME A!AttachmentsAssumption, NEW md, NEW ca, NEW md2, NEW ca2,
         NEW d \in Deliveries, NEW st, NEW ak \in [A!Assets -> A!Kinds],
         NEW rf \in Seq(Deliveries \X A!Keys), NEW fo, NEW ih,
         HandlerAt(md, ca, d, st, ak, rf, fo, ih), Spares(md, ca, md2, ca2, d)
  PROVE  HandlerAt(md2, ca2, d, st, ak, rf, fo, ih)
<1>1. Len(rf) \in Nat /\ Len(Order) \in Nat
  BY DEF A!AttachmentsAssumption
<1>2. Counted(st, rf) /\ Collected(md, d, ak, rf) /\ \A a \in A!Assets : KindFits(ak[a], a)
  BY DEF HandlerAt
<1>3. Collected(md2, d, ak, rf)
  BY <1>1, <1>2, CollectedSpared DEF Counted
<1>4. ASSUME Len(rf) < Len(Order)
      PROVE  InWork(md2, ca2, d, st, KeyNow(d, ak, rf), fo, ih)
  <2>. DEFINE k == KeyNow(d, ak, rf)
  <2>1. k \in A!Keys /\ k[2] = A!Place(d[2])
    BY <1>1, <1>4, KeyTyped DEF KeyNow
  <2>2. InWork(md, ca, d, st, k, fo, ih)
    BY <1>4 DEF HandlerAt
  <2>. HIDE DEF k
  <2>3. ca2[k] = ca[k] \/ ca2[k].age # "stale"
    BY <2>1 DEF Spares
  <2>4. md2[<<d, k>>].fate = md[<<d, k>>].fate
    BY <2>1 DEF Spares
  <2>5. ASSUME Holds(md, d, ih, k) PROVE Holds(md2, d, ih, k)
    BY <2>1, <2>5 DEF Holds, Spares
  <2>6. InWork(md2, ca2, d, st, k, fo, ih)
    BY <2>2, <2>3, <2>4, <2>5 DEF InWork
  <2>. QED
    BY <2>6 DEF k
<1>. QED
  BY <1>2, <1>3, <1>4 DEF HandlerAt

LEMMA IdleAt ==
  ASSUME A!AttachmentsAssumption, NEW md, NEW ca, NEW d, NEW ak, NEW fo, NEW ih,
         \A a \in A!Assets : KindFits(ak[a], a)
  PROVE  HandlerAt(md, ca, d, "idle", ak, <<>>, fo, ih)
<1>1. Len(<<>>) = 0 /\ Len(Order) \in Nat
  BY DEF A!AttachmentsAssumption
<1>. QED
  BY <1>1 DEF HandlerAt, Counted, Collected, InWork

-----------------------------------------------------------------------------
(***************************************************************************)
(* How a handler moves on.                                                 *)
(***************************************************************************)
Moves(d, st, ak, rf, fo, ih) ==
  /\ step' = [step EXCEPT ![d] = st]
  /\ asKind' = [asKind EXCEPT ![d] = ak]
  /\ refs' = [refs EXCEPT ![d] = rf]
  /\ found' = [found EXCEPT ![d] = fo]
  /\ inHand' = [inHand EXCEPT ![d] = ih]

\* One handler moves to where it may be, and spares the others.
Goes(md, ca, d) ==
  \E st \in A!Steps, ak \in [A!Assets -> A!Kinds], rf \in Seq(Deliveries \X A!Keys),
     fo \in A!Ages, ih \in A!Makers :
    Moves(d, st, ak, rf, fo, ih) /\ HandlerAt(md, ca, d, st, ak, rf, fo, ih)

MovesOn(d) ==
  /\ Goes(made', cache', d)
  /\ \A e \in Deliveries \ {d} : Spares(made, cache, made', cache', e)

LEMMA HandlersMove ==
  ASSUME A!AttachmentsAssumption, HandlerTyped, HandlersInv, NEW d \in Deliveries, MovesOn(d)
  PROVE  HandlerTyped' /\ HandlersInv'
<1>1. PICK st \in A!Steps, ak \in [A!Assets -> A!Kinds], rf \in Seq(Deliveries \X A!Keys),
           fo \in A!Ages, ih \in A!Makers :
        Moves(d, st, ak, rf, fo, ih) /\ HandlerAt(made', cache', d, st, ak, rf, fo, ih)
  BY DEF MovesOn, Goes
<1>2. step' \in [Deliveries -> A!Steps] /\ inHand' \in [Deliveries -> A!Makers]
      /\ found' \in [Deliveries -> A!Ages]
  BY <1>1 DEF Moves, HandlerTyped
<1>3. asKind' \in [Deliveries -> [A!Assets -> A!Kinds]]
  BY <1>1 DEF Moves, HandlerTyped
<1>4. refs' \in [Deliveries -> Seq(Deliveries \X A!Keys)]
  BY <1>1 DEF Moves, HandlerTyped
<1>5. ASSUME NEW e \in Deliveries
      PROVE  HandlerAt(made', cache', e, step'[e], asKind'[e], refs'[e], found'[e], inHand'[e])
  <2>1. CASE e = d
    <3>1. /\ step'[d] = st /\ asKind'[d] = ak /\ refs'[d] = rf /\ found'[d] = fo
          /\ inHand'[d] = ih
      BY <1>1 DEF Moves, HandlerTyped
    <3>. QED
      BY <1>1, <2>1, <3>1
  <2>2. CASE e # d
    <3>1. /\ step'[e] = step[e] /\ asKind'[e] = asKind[e] /\ refs'[e] = refs[e]
          /\ found'[e] = found[e] /\ inHand'[e] = inHand[e]
      BY <1>1, <2>2 DEF Moves, HandlerTyped
    <3>2. HandlerAt(made, cache, e, step[e], asKind[e], refs[e], found[e], inHand[e])
      BY DEF HandlersInv
    <3>3. Spares(made, cache, made', cache', e)
      BY <2>2 DEF MovesOn
    <3>4. asKind[e] \in [A!Assets -> A!Kinds] /\ refs[e] \in Seq(Deliveries \X A!Keys)
      BY DEF HandlerTyped
    <3>5. HandlerAt(made', cache', e, step[e], asKind[e], refs[e], found[e], inHand[e])
      BY <3>2, <3>3, <3>4, AtSpared
    <3>. QED
      BY <3>1, <3>5
  <2>. QED
    BY <2>1, <2>2
<1>. QED
  BY <1>2, <1>3, <1>4, <1>5 DEF HandlerTyped, HandlersInv

LEMMA HandlersStay ==
  ASSUME A!AttachmentsAssumption, HandlerTyped, HandlersInv,
         UNCHANGED <<step, asKind, refs, found, inHand>>,
         \A e \in Deliveries : Spares(made, cache, made', cache', e) \/ step[e] = "idle"
  PROVE  HandlerTyped' /\ HandlersInv'
<1>1. ASSUME NEW e \in Deliveries
      PROVE  HandlerAt(made', cache', e, step[e], asKind[e], refs[e], found[e], inHand[e])
  <2>1. HandlerAt(made, cache, e, step[e], asKind[e], refs[e], found[e], inHand[e])
    BY DEF HandlersInv
  <2>2. asKind[e] \in [A!Assets -> A!Kinds] /\ refs[e] \in Seq(Deliveries \X A!Keys)
    BY DEF HandlerTyped
  <2>3. CASE Spares(made, cache, made', cache', e)
    BY <2>1, <2>2, <2>3, AtSpared
  <2>4. CASE step[e] = "idle"
    <3>1. refs[e] = <<>> /\ \A a \in A!Assets : KindFits(asKind[e][a], a)
      BY <2>1, <2>4 DEF HandlerAt, Counted
    <3>. QED
      BY <2>4, <3>1, IdleAt
  <2>. QED
    BY <2>3, <2>4
<1>2. HandlersInv'
  BY <1>1 DEF HandlersInv
<1>3. HandlerTyped'
  BY DEF HandlerTyped
<1>. QED
  BY <1>2, <1>3

\* The same store spares everyone.
LEMMA SameSpares ==
  ASSUME NEW e, UNCHANGED A!store
  PROVE  Spares(made, cache, made', cache', e)
BY DEF Spares, A!store

\* One reference more.
LEMMA CollectAt ==
  ASSUME A!AttachmentsAssumption, NEW md, NEW ca, NEW d \in Deliveries,
         NEW ak \in [A!Assets -> A!Kinds], NEW rf \in Seq(Deliveries \X A!Keys), NEW m,
         \A a \in A!Assets : KindFits(ak[a], a), Len(rf) < Len(Order), Collected(md, d, ak, rf),
         Holds(md, d, m, KeyNow(d, ak, rf)), md[<<m, KeyNow(d, ak, rf)>>].state # "processing"
  PROVE  LET longer == Append(rf, <<m, KeyNow(d, ak, rf)>>)
             st == IF Len(rf) + 1 = Len(Order) THEN "calling" ELSE "finding"
         IN  /\ longer \in Seq(Deliveries \X A!Keys) /\ st \in A!Steps
             /\ HandlerAt(md, ca, d, st, ak, longer, "none", A!NoOne)
<1>. DEFINE k == KeyNow(d, ak, rf)
            longer == Append(rf, <<m, k>>)
            st == IF Len(rf) + 1 = Len(Order) THEN "calling" ELSE "finding"
<1>1. Len(rf) \in Nat /\ Len(Order) \in Nat
  BY DEF A!AttachmentsAssumption
<1>2. k \in A!Keys
  BY <1>1, KeyTyped DEF KeyNow
<1>3. m \in Deliveries
  BY DEF Holds
<1>4. <<m, k>> \in Deliveries \X A!Keys
  BY <1>2, <1>3
<1>5. /\ longer \in Seq(Deliveries \X A!Keys) /\ Len(longer) = Len(rf) + 1
      /\ longer[Len(rf) + 1] = <<m, k>> /\ \A i \in 1 .. Len(rf) : longer[i] = rf[i]
  <2>. HIDE DEF k
  <2>. QED
    BY <1>4
<1>6. k = KeyAt(d, ak, Len(rf) + 1)
  BY DEF KeyNow
<1>7. Holds(md, d, m, k) /\ md[<<m, k>>].state # "processing"
  OBVIOUS
<1>. HIDE DEF k, longer
<1>8. Collected(md, d, ak, longer)
  <2>1. ASSUME NEW i \in 1 .. Len(rf) + 1
        PROVE  \E n \in Deliveries :
                 /\ longer[i] = <<n, KeyAt(d, ak, i)>>
                 /\ Holds(md, d, n, KeyAt(d, ak, i))
                 /\ md[<<n, KeyAt(d, ak, i)>>].state # "processing"
    <3>1. CASE i = Len(rf) + 1
      BY <1>3, <1>5, <1>6, <1>7, <3>1
    <3>2. CASE i # Len(rf) + 1
      <4>1. i \in 1 .. Len(rf)
        BY <1>1, <3>2
      <4>. QED
        BY <1>5, <4>1 DEF Collected
    <3>. QED
      BY <3>1, <3>2
  <2>. QED
    BY <1>5, <2>1 DEF Collected
<1>9. Counted(st, longer) /\ st \in {"calling", "finding"}
  <2>1. longer # <<>>
    BY <1>1, <1>5
  <2>. QED
    BY <1>1, <1>5, <2>1 DEF Counted
<1>10. \A key : InWork(md, ca, d, st, key, "none", A!NoOne)
  BY <1>9 DEF InWork
<1>11. HandlerAt(md, ca, d, st, ak, longer, "none", A!NoOne)
  BY <1>8, <1>9, <1>10 DEF HandlerAt
<1>. QED
  BY <1>5, <1>9, <1>11 DEF longer, k, A!Steps

-----------------------------------------------------------------------------
(***************************************************************************)
(* What is made, and what the cache knows of it.                           *)
(***************************************************************************)
FormOf(k) == IF k[3] = "video" THEN "player" ELSE A!Form(A!FirstKind[k[1]])

MadeFits(md) ==
  \A m \in Deliveries, k \in A!Keys : md[<<m, k>>].fate # "none" =>
    /\ md[<<m, k>>].form = FormOf(k)
    /\ (k[2] = "bot" /\ k[3] = "video") \/ md[<<m, k>>].state # "processing"

\* Of an entry, and of whoever has a reference under its key.
EntryFits(md, entry, k) ==
  /\ entry.by = A!NoOne <=> entry.age = "none"
  /\ entry.by # A!NoOne /\ entry.age # "stale" => md[<<entry.by, k>>].fate = "kept"
  /\ entry.age = "settled" => md[<<entry.by, k>>].state # "processing"
  /\ entry.age = "stale" => k[2] = "bot"
  /\ \A m \in Deliveries : md[<<m, k>>].fate = "kept" => entry.age \in {"new", "settled"}

CacheFits(md, ca) == \A k \in A!Keys : EntryFits(md, ca[k], k)

SourceInv ==
  /\ HandlerTyped /\ StoreTyped /\ HandlersInv
  /\ MadeFits(made) /\ CacheFits(made, cache)

LEMMA SourceStarts ==
  ASSUME A!AttachmentsAssumption, A!Init
  PROVE  SourceInv
<1>1. HandlerTyped
  BY FirstKindTyped DEF A!Init, HandlerTyped, A!Steps, A!Makers, A!Ages
<1>2. StoreTyped
  BY DEF A!Init, StoreTyped, A!Makers, A!Ages, A!Forms, A!States, A!Fates, A!Empty,
     A!NeverMade
<1>3. ASSUME NEW d \in Deliveries
      PROVE  HandlerAt(made, cache, d, step[d], asKind[d], refs[d], found[d], inHand[d])
  <2>1. step[d] = "idle" /\ asKind[d] = A!FirstKind /\ refs[d] = <<>>
    BY DEF A!Init
  <2>. QED
    BY <2>1, IdleAt DEF KindFits
<1>4. \A m \in Deliveries, k \in A!Keys : made[<<m, k>>] = A!NeverMade
  BY DEF A!Init
<1>5. \A k \in A!Keys : cache[k] = A!Empty
  BY DEF A!Init
<1>6. MadeFits(made)
  BY <1>4 DEF MadeFits, A!NeverMade
<1>7. ASSUME NEW k \in A!Keys PROVE EntryFits(made, cache[k], k)
  BY <1>4, <1>5 DEF EntryFits, A!NeverMade, A!Empty
<1>. QED
  BY <1>1, <1>2, <1>3, <1>6, <1>7 DEF SourceInv, HandlersInv, CacheFits

\* A cache that is not written fits as long as the same references are kept.
LEMMA CacheKept ==
  ASSUME NEW md, NEW ca, NEW md2, CacheFits(md, ca),
         \A k \in A!Keys : ca[k].by \in A!Makers,
         \A m \in Deliveries, k \in A!Keys :
           /\ md2[<<m, k>>].fate = "kept" <=> md[<<m, k>>].fate = "kept"
           /\ md[<<m, k>>].fate = "kept" /\ md[<<m, k>>].state # "processing" =>
                md2[<<m, k>>].state # "processing"
  PROVE  CacheFits(md2, ca)
<1>1. ASSUME NEW k \in A!Keys PROVE EntryFits(md2, ca[k], k)
  <2>1. EntryFits(md, ca[k], k)
    BY DEF CacheFits
  <2>2. ca[k].by = A!NoOne \/ ca[k].by \in Deliveries
    BY DEF A!Makers
  <2>3. ca[k].by # A!NoOne /\ ca[k].age # "stale" => md2[<<ca[k].by, k>>].fate = "kept"
    BY <2>1, <2>2 DEF EntryFits
  <2>4. ca[k].age = "settled" => md2[<<ca[k].by, k>>].state # "processing"
    BY <2>1, <2>2 DEF EntryFits
  <2>5. \A m \in Deliveries : md2[<<m, k>>].fate = "kept" => ca[k].age \in {"new", "settled"}
    BY <2>1 DEF EntryFits
  <2>. QED
    BY <2>1, <2>3, <2>4, <2>5 DEF EntryFits
<1>. QED
  BY <1>1 DEF CacheFits

\* What a handler that is between two files knows of the file it is at.
LEMMA AtWork ==
  ASSUME A!AttachmentsAssumption, SourceInv, NEW d \in Deliveries,
         step[d] \in {"finding", "uploading", "storing", "waiting"}
  PROVE  /\ asKind[d] \in [A!Assets -> A!Kinds] /\ refs[d] \in Seq(Deliveries \X A!Keys)
         /\ Len(refs[d]) < Len(Order) /\ Len(refs[d]) + 1 \in 1 .. Len(Order)
         /\ \A a \in A!Assets : KindFits(asKind[d][a], a)
         /\ Collected(made, d, asKind[d], refs[d])
         /\ InWork(made, cache, d, step[d], A!Key(d), found[d], inHand[d])
         /\ A!Key(d) = KeyNow(d, asKind[d], refs[d])
         /\ A!Key(d) \in A!Keys
         /\ A!Key(d) = <<A!Next1(d), A!Place(d[2]), A!Scope(A!KindHere(d))>>
         /\ A!KindHere(d) \in A!Kinds /\ KindFits(A!KindHere(d), A!Next1(d))
            /\ A!Next1(d) \in A!Assets
<1>1. asKind[d] \in [A!Assets -> A!Kinds] /\ refs[d] \in Seq(Deliveries \X A!Keys)
  BY DEF SourceInv, HandlerTyped
<1>2. HandlerAt(made, cache, d, step[d], asKind[d], refs[d], found[d], inHand[d])
  BY DEF SourceInv, HandlersInv
<1>3. Len(refs[d]) < Len(Order)
  BY <1>2 DEF HandlerAt, Counted
<1>4. Len(refs[d]) + 1 \in 1 .. Len(Order)
  BY <1>1, <1>3 DEF A!AttachmentsAssumption
<1>5. A!Key(d) = KeyNow(d, asKind[d], refs[d])
  BY DEF A!Key, KeyNow, KeyAt, A!Next1, A!KindHere
<1>6. A!Key(d) \in A!Keys /\ A!KindHere(d) \in A!Kinds /\ A!Next1(d) \in A!Assets
  BY <1>1, <1>4, <1>5, KeyTyped DEF KeyNow, A!KindHere, A!Next1
<1>7. A!Key(d) = <<A!Next1(d), A!Place(d[2]), A!Scope(A!KindHere(d))>>
  BY DEF A!Key
<1>8. KindFits(A!KindHere(d), A!Next1(d)) /\ \A a \in A!Assets : KindFits(asKind[d][a], a)
  BY <1>2, <1>6 DEF HandlerAt, A!KindHere
<1>9. Collected(made, d, asKind[d], refs[d])
  BY <1>2 DEF HandlerAt
<1>10. InWork(made, cache, d, step[d], A!Key(d), found[d], inHand[d])
  BY <1>2, <1>3, <1>5 DEF HandlerAt
<1>. QED
  BY <1>1, <1>3, <1>4, <1>5, <1>6, <1>7, <1>8, <1>9, <1>10, Zenon

\* Its earlier references are others than the one it makes, for a post has a file once.
LEMMA OwnCollected ==
  ASSUME A!AttachmentsAssumption, NEW md, NEW md2, NEW d \in Deliveries,
         NEW ak \in [A!Assets -> A!Kinds], NEW rf, Len(rf) \in Nat, Len(rf) < Len(Order),
         Collected(md, d, ak, rf),
         \A m \in Deliveries, k \in A!Keys :
           <<m, k>> # <<d, KeyNow(d, ak, rf)>> => md2[<<m, k>>] = md[<<m, k>>]
  PROVE  Collected(md2, d, ak, rf)
<1>1. Len(Order) \in Nat
  BY DEF A!AttachmentsAssumption
<1>2. SUFFICES ASSUME NEW i \in 1 .. Len(rf)
               PROVE  \E m \in Deliveries :
                        /\ rf[i] = <<m, KeyAt(d, ak, i)>>
                        /\ Holds(md2, d, m, KeyAt(d, ak, i))
                        /\ md2[<<m, KeyAt(d, ak, i)>>].state # "processing"
  BY DEF Collected
<1>. DEFINE j == Len(rf) + 1
<1>3. i \in 1 .. Len(Order) /\ j \in 1 .. Len(Order) /\ i # j
  BY <1>1
<1>4. Order[i] # Order[j]
  BY <1>1, <1>3 DEF A!AttachmentsAssumption
<1>5. KeyAt(d, ak, i) \in A!Keys /\ KeyAt(d, ak, i) # KeyNow(d, ak, rf)
  BY <1>3, <1>4, KeyTyped DEF KeyNow
<1>6. PICK m \in Deliveries :
        /\ rf[i] = <<m, KeyAt(d, ak, i)>>
        /\ Holds(md, d, m, KeyAt(d, ak, i)) /\ md[<<m, KeyAt(d, ak, i)>>].state # "processing"
  BY DEF Collected
<1>7. md2[<<m, KeyAt(d, ak, i)>>] = md[<<m, KeyAt(d, ak, i)>>]
  BY <1>5
<1>. QED
  BY <1>6, <1>7 DEF Holds

-----------------------------------------------------------------------------
(***************************************************************************)
(* What each step does to references.                                      *)
(***************************************************************************)
LEMMA FreshIsKept ==
  ASSUME SourceInv, NEW k \in A!Keys, A!IsFresh(cache[k].age)
  PROVE  cache[k].by \in Deliveries /\ made[<<cache[k].by, k>>].fate = "kept"
<1>1. EntryFits(made, cache[k], k)
  BY DEF SourceInv, CacheFits
<1>2. cache[k].by \in A!Makers
  BY DEF SourceInv, StoreTyped
<1>. QED
  BY <1>1, <1>2 DEF EntryFits, A!Makers, A!IsFresh

\* Only a video for MAX is not ready at once.
LEMMA ReadyAtOnce ==
  ASSUME A!AttachmentsAssumption, NEW md, MadeFits(md), NEW d \in Deliveries, NEW m \in Deliveries,
         A!Key(d) \in A!Keys, ~A!IsMaxVideo(d), md[<<m, A!Key(d)>>].fate # "none"
  PROVE  md[<<m, A!Key(d)>>].state # "processing"
<1>1. A!Key(d)[2] = A!Place(d[2]) /\ A!Key(d)[3] = A!Scope(A!KindHere(d))
  BY DEF A!Key
<1>2. ~(A!Key(d)[2] = "bot" /\ A!Key(d)[3] = "video")
  BY <1>1, PlacesDiffer DEF A!IsMaxVideo, A!Scope
<1>. QED
  BY <1>2 DEF MadeFits

LEMMA TakesGoes ==
  ASSUME A!AttachmentsAssumption, SourceInv, NEW d \in Deliveries,
         step[d] \in {"finding", "storing", "waiting"},
         NEW md, NEW ca, NEW m \in Deliveries, NEW age, A!Takes(d, m, age), UNCHANGED asKind,
         Collected(md, d, asKind[d], refs[d]), Holds(md, d, m, A!Key(d)),
         A!MustWait(d, age) \/ md[<<m, A!Key(d)>>].state # "processing"
  PROVE  Goes(md, ca, d)
<1>1. /\ asKind[d] \in [A!Assets -> A!Kinds] /\ refs[d] \in Seq(Deliveries \X A!Keys)
      /\ Len(refs[d]) < Len(Order)
      /\ \A a \in A!Assets : KindFits(asKind[d][a], a)
      /\ A!Key(d) = KeyNow(d, asKind[d], refs[d])
  BY AtWork, Zenon
<1>2. asKind' = [asKind EXCEPT ![d] = asKind[d]]
  BY DEF SourceInv, HandlerTyped
<1>3. CASE A!MustWait(d, age)
  <2>1. /\ step' = [step EXCEPT ![d] = "waiting"] /\ inHand' = [inHand EXCEPT ![d] = m]
        /\ found' = [found EXCEPT ![d] = "none"] /\ UNCHANGED refs
    BY <1>3 DEF A!Takes
  <2>2. refs' = [refs EXCEPT ![d] = refs[d]]
    BY <2>1 DEF SourceInv, HandlerTyped
  <2>3. Moves(d, "waiting", asKind[d], refs[d], "none", m)
    BY <1>2, <2>1, <2>2 DEF Moves
  <2>4. Counted("waiting", refs[d])
    BY <1>1 DEF Counted, A!AttachmentsAssumption
  <2>5. InWork(md, ca, d, "waiting", KeyNow(d, asKind[d], refs[d]), "none", m)
    BY <1>1 DEF InWork
  <2>6. HandlerAt(md, ca, d, "waiting", asKind[d], refs[d], "none", m)
    BY <1>1, <2>4, <2>5 DEF HandlerAt
  <2>7. "waiting" \in A!Steps /\ "none" \in A!Ages /\ m \in A!Makers
    BY DEF A!Steps, A!Ages, A!Makers
  <2>. QED
    BY <1>1, <2>3, <2>6, <2>7 DEF Goes
<1>4. CASE ~A!MustWait(d, age)
  <2>. DEFINE longer == Append(refs[d], <<m, A!Key(d)>>)
              st == IF Len(refs[d]) + 1 = Len(Order) THEN "calling" ELSE "finding"
  <2>1. A!Collect(d, m)
    BY <1>4 DEF A!Takes
  <2>2. Moves(d, st, asKind[d], longer, "none", A!NoOne)
    BY <1>2, <2>1 DEF Moves, A!Collect
  <2>3. md[<<m, A!Key(d)>>].state # "processing"
    BY <1>4
  <2>4. /\ longer \in Seq(Deliveries \X A!Keys) /\ st \in A!Steps
        /\ HandlerAt(md, ca, d, st, asKind[d], longer, "none", A!NoOne)
    BY <1>1, <2>3, CollectAt
  <2>5. "none" \in A!Ages /\ A!NoOne \in A!Makers
    BY DEF A!Ages, A!Makers
  <2>. QED
    BY <1>1, <2>2, <2>4, <2>5 DEF Goes
<1>. QED
  BY <1>3, <1>4

LEMMA LeavesGoes ==
  ASSUME A!AttachmentsAssumption, NEW d \in Deliveries, A!Leaves(d), NEW md, NEW ca
  PROVE  Goes(md, ca, d)
<1>1. Moves(d, "idle", A!FirstKind, <<>>, "none", A!NoOne)
  BY DEF A!Leaves, Moves
<1>2. HandlerAt(md, ca, d, "idle", A!FirstKind, <<>>, "none", A!NoOne)
  BY IdleAt DEF KindFits
<1>3. /\ "idle" \in A!Steps /\ <<>> \in Seq(Deliveries \X A!Keys) /\ "none" \in A!Ages
      /\ A!NoOne \in A!Makers
  BY DEF A!Steps, A!Ages, A!Makers
<1>. QED
  BY <1>1, <1>2, <1>3, FirstKindTyped DEF Goes

\* A handler that leaves the store as it is.
LEMMA MovesOnly ==
  ASSUME A!AttachmentsAssumption, SourceInv, NEW d \in Deliveries, Goes(made, cache, d),
         UNCHANGED A!store
  PROVE  SourceInv'
<1>1. UNCHANGED <<cache, made>>
  BY DEF A!store
<1>2. MovesOn(d)
  BY <1>1, SameSpares DEF MovesOn
<1>3. HandlerTyped' /\ HandlersInv'
  BY <1>2, HandlersMove DEF SourceInv
<1>. QED
  BY <1>1, <1>3 DEF SourceInv, StoreTyped

LEMMA DeliverSource ==
  ASSUME A!AttachmentsAssumption, SourceInv, RestTyped, NEW d \in Deliveries, A!Deliver(d)
  PROVE  SourceInv'
<1>. DEFINE st == IF Order = <<>> THEN "calling" ELSE "finding"
<1>1. Len(Order) \in Nat /\ (Order = <<>> <=> Len(Order) = 0)
  BY DEF A!AttachmentsAssumption
<1>2. HandlerAt(made, cache, d, step[d], asKind[d], refs[d], found[d], inHand[d])
  BY DEF SourceInv, HandlersInv
<1>3. step[d] = "idle" /\ refs[d] = <<>>
  BY <1>2 DEF A!Deliver, HandlerAt, Counted
<1>4. /\ kind \in [A!Assets -> A!Kinds] /\ \A a \in A!Assets : KindFits(kind[a], a)
  BY DEF RestTyped
<1>5. /\ step' = [step EXCEPT ![d] = st] /\ asKind' = [asKind EXCEPT ![d] = kind]
      /\ UNCHANGED <<refs, found, inHand, A!store>>
  BY DEF A!Deliver
<1>6. /\ refs' = [refs EXCEPT ![d] = refs[d]] /\ found' = [found EXCEPT ![d] = found[d]]
      /\ inHand' = [inHand EXCEPT ![d] = inHand[d]]
  BY <1>5 DEF SourceInv, HandlerTyped
<1>7. Moves(d, st, kind, refs[d], found[d], inHand[d])
  BY <1>5, <1>6 DEF Moves
<1>8. Len(refs[d]) = 0
  BY <1>3
<1>9. Counted(st, refs[d]) /\ Collected(made, d, kind, refs[d])
  BY <1>1, <1>8 DEF Counted, Collected
<1>10. \A k : InWork(made, cache, d, st, k, found[d], inHand[d])
  BY DEF InWork
<1>11. HandlerAt(made, cache, d, st, kind, refs[d], found[d], inHand[d])
  BY <1>4, <1>9, <1>10 DEF HandlerAt
<1>12. /\ st \in A!Steps /\ refs[d] \in Seq(Deliveries \X A!Keys) /\ found[d] \in A!Ages
       /\ inHand[d] \in A!Makers
  BY DEF SourceInv, HandlerTyped, A!Steps
<1>13. Goes(made, cache, d)
  BY <1>4, <1>7, <1>11, <1>12 DEF Goes
<1>. QED
  BY <1>5, <1>13, MovesOnly

LEMMA FindSource ==
  ASSUME A!AttachmentsAssumption, SourceInv, NEW d \in Deliveries, A!Find(d)
  PROVE  SourceInv'
<1>. DEFINE k == A!Key(d)
<1>1. step[d] = "finding" /\ UNCHANGED asKind /\ UNCHANGED A!store
  BY DEF A!Find
<1>2. /\ asKind[d] \in [A!Assets -> A!Kinds] /\ refs[d] \in Seq(Deliveries \X A!Keys)
      /\ Len(refs[d]) < Len(Order) /\ \A a \in A!Assets : KindFits(asKind[d][a], a)
      /\ Collected(made, d, asKind[d], refs[d])
      /\ k = KeyNow(d, asKind[d], refs[d]) /\ k \in A!Keys
  BY <1>1, AtWork, Zenon
<1>3. EntryFits(made, cache[k], k) /\ cache[k].age \in A!Ages
  BY <1>2 DEF SourceInv, CacheFits, StoreTyped
<1>4. CASE A!IsFresh(cache[k].age)
  <2>. DEFINE m == cache[k].by
  <2>1. m \in Deliveries /\ made[<<m, k>>].fate = "kept"
    BY <1>2, <1>4, FreshIsKept
  <2>2. A!Takes(d, m, cache[k].age)
    BY <1>4 DEF A!Find
  <2>3. Holds(made, d, m, k)
    BY <2>1 DEF Holds
  <2>4. A!MustWait(d, cache[k].age) \/ made[<<m, k>>].state # "processing"
    <3>1. CASE A!IsMaxVideo(d)
      BY <1>3, <3>1 DEF A!MustWait, EntryFits
    <3>2. CASE ~A!IsMaxVideo(d)
      <4>1. MadeFits(made)
        BY DEF SourceInv
      <4>. QED
        BY <1>2, <2>1, <3>2, <4>1, ReadyAtOnce
    <3>. QED
      BY <3>1, <3>2
  <2>. HIDE DEF m
  <2>5. Goes(made, cache, d)
    BY <1>1, <1>2, <2>1, <2>2, <2>3, <2>4, TakesGoes
  <2>. QED
    BY <1>1, <2>5, MovesOnly
<1>5. CASE ~A!IsFresh(cache[k].age)
  <2>1. /\ step' = [step EXCEPT ![d] = "uploading"]
        /\ found' = [found EXCEPT ![d] = cache[k].age] /\ UNCHANGED <<refs, inHand>>
    BY <1>5 DEF A!Find
  <2>2. /\ asKind' = [asKind EXCEPT ![d] = asKind[d]] /\ refs' = [refs EXCEPT ![d] = refs[d]]
        /\ inHand' = [inHand EXCEPT ![d] = inHand[d]]
    BY <1>1, <2>1 DEF SourceInv, HandlerTyped
  <2>3. Moves(d, "uploading", asKind[d], refs[d], cache[k].age, inHand[d])
    BY <2>1, <2>2 DEF Moves
  <2>4. made[<<d, k>>].fate # "kept"
    BY <1>3, <1>5 DEF EntryFits, A!IsFresh
  <2>5. InWork(made, cache, d, "uploading", k, cache[k].age, inHand[d])
    BY <2>4 DEF InWork
  <2>6. Counted("uploading", refs[d])
    BY <1>2 DEF Counted, A!AttachmentsAssumption
  <2>7. HandlerAt(made, cache, d, "uploading", asKind[d], refs[d], cache[k].age, inHand[d])
    BY <1>2, <2>5, <2>6 DEF HandlerAt
  <2>8. "uploading" \in A!Steps /\ inHand[d] \in A!Makers
    BY DEF A!Steps, SourceInv, HandlerTyped
  <2>9. Goes(made, cache, d)
    BY <1>2, <1>3, <2>3, <2>7, <2>8 DEF Goes
  <2>. QED
    BY <1>1, <2>9, MovesOnly
<1>. QED
  BY <1>4, <1>5

LEMMA EndSource ==
  ASSUME A!AttachmentsAssumption, SourceInv, NEW d \in Deliveries,
         A!TokenRefused(d) \/ A!UploadFails(d) \/ A!VideoTimesOut(d) \/ A!Send(d)
           \/ A!SendFails(d)
  PROVE  SourceInv'
<1>1. A!Leaves(d) /\ UNCHANGED A!store
  BY EndsHolds DEF A!TokenRefused, A!UploadFails, A!VideoTimesOut, A!Send, A!SendFails, A!store
<1>. QED
  BY <1>1, LeavesGoes, MovesOnly

LEMMA ReadySource ==
  ASSUME A!AttachmentsAssumption, SourceInv, NEW d \in Deliveries, A!VideoReady(d)
  PROVE  SourceInv'
<1>1. /\ step[d] = "waiting" /\ made[<<inHand[d], A!Key(d)>>].state = "ready"
      /\ A!Collect(d, inHand[d]) /\ UNCHANGED asKind /\ UNCHANGED A!store
  BY DEF A!VideoReady
<1>2. /\ Collected(made, d, asKind[d], refs[d]) /\ A!Key(d) \in A!Keys
      /\ InWork(made, cache, d, step[d], A!Key(d), found[d], inHand[d])
  BY <1>1, AtWork, Zenon
<1>3. Holds(made, d, inHand[d], A!Key(d))
  BY <1>1, <1>2 DEF InWork
<1>4. inHand[d] \in Deliveries
  BY <1>3 DEF Holds
<1>5. A!Takes(d, inHand[d], "settled")
  BY <1>1 DEF A!Takes, A!MustWait
<1>6. Goes(made, cache, d)
  BY <1>1, <1>2, <1>3, <1>4, <1>5, TakesGoes
<1>. QED
  BY <1>1, <1>6, MovesOnly

-----------------------------------------------------------------------------
(***************************************************************************)
(* The steps that make a reference or keep one.                            *)
(***************************************************************************)
\* Nobody else has lost anything when one that is not kept is made or stored.
LEMMA OthersSpared ==
  ASSUME NEW d \in Deliveries, NEW k \in A!Keys, made[<<d, k>>].fate # "kept",
         \A m \in Deliveries, o \in A!Keys : <<m, o>> # <<d, k>>
            => made'[<<m, o>>] = made[<<m, o>>],
         \A o \in A!Keys : cache'[o] = cache[o] \/ cache'[o].age # "stale"
  PROVE  \A e \in Deliveries \ {d} : Spares(made, cache, made', cache', e)
<1>1. SUFFICES ASSUME NEW e \in Deliveries, e # d, NEW o \in A!Keys, NEW m \in Deliveries,
                      m = e \/ made[<<m, o>>].fate = "kept"
               PROVE  made'[<<m, o>>] = made[<<m, o>>]
  BY DEF Spares
<1>2. <<m, o>> # <<d, k>>
  BY <1>1
<1>. QED
  BY <1>2

LEMMA StoredDoes ==
  ASSUME StoreTyped, NEW d \in Deliveries, NEW fate \in A!Fates, A!Stored(d, fate), A!Key(d) \in A!Keys
  PROVE  /\ made' \in [Deliveries \X A!Keys -> [form : A!Forms, state : A!States, fate : A!Fates]]
         /\ made'[<<d, A!Key(d)>>].fate = fate
         /\ made'[<<d, A!Key(d)>>].form = made[<<d, A!Key(d)>>].form
         /\ made'[<<d, A!Key(d)>>].state = made[<<d, A!Key(d)>>].state
         /\ \A m \in Deliveries, o \in A!Keys :
              <<m, o>> # <<d, A!Key(d)>> => made'[<<m, o>>] = made[<<m, o>>]
<1>. DEFINE x == <<d, A!Key(d)>>
            r == [made[x] EXCEPT !.fate = fate]
<1>1. x \in Deliveries \X A!Keys
  OBVIOUS
<1>2. made' = [made EXCEPT ![x] = r]
  BY DEF A!Stored
<1>3. made[x] \in [form : A!Forms, state : A!States, fate : A!Fates]
  BY <1>1 DEF StoreTyped
<1>4. /\ r \in [form : A!Forms, state : A!States, fate : A!Fates]
      /\ r.fate = fate /\ r.form = made[x].form /\ r.state = made[x].state
  BY <1>3
<1>. HIDE DEF x, r
<1>5. made' \in [Deliveries \X A!Keys -> [form : A!Forms, state : A!States, fate : A!Fates]]
      /\ made'[x] = r
  BY <1>1, <1>2, <1>4 DEF StoreTyped
<1>6. \A y \in Deliveries \X A!Keys : y # x => made'[y] = made[y]
  BY <1>1, <1>2 DEF StoreTyped
<1>. QED
  BY <1>4, <1>5, <1>6 DEF x

\* Form and readiness stay, and what has no form gets none.
LEMMA MadeKept ==
  ASSUME NEW md, NEW md2, MadeFits(md),
         \A m \in Deliveries, k \in A!Keys :
           /\ md2[<<m, k>>].form = md[<<m, k>>].form
           /\ md[<<m, k>>].state # "processing" => md2[<<m, k>>].state # "processing"
           /\ md2[<<m, k>>].fate # "none" => md[<<m, k>>].fate # "none"
  PROVE  MadeFits(md2)
<1>1. ASSUME NEW m \in Deliveries, NEW k \in A!Keys, md2[<<m, k>>].fate # "none"
      PROVE  /\ md2[<<m, k>>].form = FormOf(k)
             /\ (k[2] = "bot" /\ k[3] = "video") \/ md2[<<m, k>>].state # "processing"
  BY <1>1 DEF MadeFits
<1>. QED
  BY <1>1 DEF MadeFits

LEMMA UploadSource ==
  ASSUME A!AttachmentsAssumption, SourceInv, NEW d \in Deliveries,
         step[d] = "uploading", A!Uploaded(d)
  PROVE  SourceInv'
<1>. DEFINE k == A!Key(d)
            r == [form |-> A!Form(A!KindHere(d)), fate |-> "inHand",
                   state |-> IF A!IsMaxVideo(d) THEN "processing" ELSE "ready"]
<1>1. /\ asKind[d] \in [A!Assets -> A!Kinds] /\ refs[d] \in Seq(Deliveries \X A!Keys)
      /\ Len(refs[d]) < Len(Order) /\ \A a \in A!Assets : KindFits(asKind[d][a], a)
      /\ Collected(made, d, asKind[d], refs[d])
      /\ InWork(made, cache, d, step[d], k, found[d], inHand[d])
      /\ k = KeyNow(d, asKind[d], refs[d]) /\ k \in A!Keys
      /\ k = <<A!Next1(d), A!Place(d[2]), A!Scope(A!KindHere(d))>>
      /\ A!KindHere(d) \in A!Kinds /\ KindFits(A!KindHere(d), A!Next1(d))
         /\ A!Next1(d) \in A!Assets
  BY AtWork, Zenon
<1>2. /\ made' = [made EXCEPT ![<<d, k>>] = r] /\ UNCHANGED <<asKind, refs, found, cache>>
      /\ inHand' = [inHand EXCEPT ![d] = d] /\ step' = [step EXCEPT ![d] = "storing"]
  BY DEF A!Uploaded
<1>3. A!Form(A!KindHere(d)) \in A!Forms /\ A!Form(A!KindHere(d)) = FormOf(k)
  <2>1. A!FirstKind[A!Next1(d)] \in {"document", "image"}
    BY <1>1 DEF A!FirstKind
  <2>2. CASE A!KindHere(d) = "video"
    BY <1>1, <2>2 DEF FormOf, A!Form, A!Forms, A!Scope
  <2>3. CASE A!KindHere(d) # "video"
    <3>1. A!KindHere(d) = A!FirstKind[A!Next1(d)]
      BY <1>1, <2>3 DEF KindFits
    <3>2. k[1] = A!Next1(d) /\ k[3] = "plain"
      BY <1>1, <2>3 DEF A!Scope
    <3>. QED
      BY <2>1, <3>1, <3>2 DEF FormOf, A!Form, A!Forms
  <2>. QED
    BY <2>2, <2>3
<1>4. (k[2] = "bot" /\ k[3] = "video") \/ ~A!IsMaxVideo(d)
  BY <1>1, PlacesDiffer DEF A!IsMaxVideo, A!Scope
<1>5. /\ r \in [form : A!Forms, state : A!States, fate : A!Fates]
      /\ r.form = FormOf(k) /\ r.fate = "inHand"
      /\ ((k[2] = "bot" /\ k[3] = "video") \/ r.state # "processing")
  BY <1>3, <1>4 DEF A!Fates, A!States, A!IsMaxVideo
<1>6. made[<<d, k>>].fate # "kept"
  BY <1>1 DEF InWork
<1>. HIDE DEF r, k
<1>7. made' \in [Deliveries \X A!Keys -> [form : A!Forms, state : A!States, fate : A!Fates]]
      /\ made'[<<d, k>>] = r
  BY <1>1, <1>2, <1>5 DEF SourceInv, StoreTyped
<1>8. \A m \in Deliveries, o \in A!Keys : <<m, o>> # <<d, k>> => made'[<<m, o>>] = made[<<m, o>>]
  BY <1>2 DEF SourceInv, StoreTyped
<1>9. MadeFits(made')
  <2>1. ASSUME NEW m \in Deliveries, NEW o \in A!Keys, made'[<<m, o>>].fate # "none"
        PROVE  /\ made'[<<m, o>>].form = FormOf(o)
               /\ (o[2] = "bot" /\ o[3] = "video") \/ made'[<<m, o>>].state # "processing"
    <3>1. CASE <<m, o>> = <<d, k>>
      BY <1>5, <1>7, <3>1
    <3>2. CASE <<m, o>> # <<d, k>>
      BY <1>8, <2>1, <3>2 DEF SourceInv, MadeFits
    <3>. QED
      BY <3>1, <3>2
  <2>. QED
    BY <2>1 DEF MadeFits
<1>10. CacheFits(made', cache)
  <2>1. \A m \in Deliveries, o \in A!Keys :
          /\ made'[<<m, o>>].fate = "kept" <=> made[<<m, o>>].fate = "kept"
          /\ made[<<m, o>>].fate = "kept" /\ made[<<m, o>>].state # "processing" =>
               made'[<<m, o>>].state # "processing"
    BY <1>5, <1>6, <1>7, <1>8
  <2>2. \A o \in A!Keys : cache[o].by \in A!Makers
    BY DEF SourceInv, StoreTyped
  <2>. QED
    BY <2>1, <2>2, CacheKept DEF SourceInv
<1>11. Goes(made', cache', d)
  <2>1. Collected(made', d, asKind[d], refs[d])
    <3>1. Len(refs[d]) \in Nat
      BY <1>1
    <3>2. \A m \in Deliveries, o \in A!Keys :
            <<m, o>> # <<d, KeyNow(d, asKind[d], refs[d])>> => made'[<<m, o>>] = made[<<m, o>>]
      BY <1>1, <1>8
    <3>. QED
      BY <1>1, <3>1, <3>2, OwnCollected
  <2>2. InWork(made', cache', d, "storing", k, found[d], d)
    BY <1>1, <1>2, <1>5, <1>7 DEF InWork
  <2>3. Counted("storing", refs[d])
    BY <1>1 DEF Counted, A!AttachmentsAssumption
  <2>4. HandlerAt(made', cache', d, "storing", asKind[d], refs[d], found[d], d)
    BY <1>1, <2>1, <2>2, <2>3 DEF HandlerAt
  <2>5. /\ asKind' = [asKind EXCEPT ![d] = asKind[d]] /\ refs' = [refs EXCEPT ![d] = refs[d]]
        /\ found' = [found EXCEPT ![d] = found[d]]
    BY <1>2 DEF SourceInv, HandlerTyped
  <2>6. Moves(d, "storing", asKind[d], refs[d], found[d], d)
    BY <1>2, <2>5 DEF Moves
  <2>7. "storing" \in A!Steps /\ found[d] \in A!Ages /\ d \in A!Makers
    BY DEF A!Steps, A!Makers, SourceInv, HandlerTyped
  <2>. QED
    BY <1>1, <2>4, <2>6, <2>7 DEF Goes
<1>12. MovesOn(d)
  BY <1>1, <1>2, <1>6, <1>8, <1>11, OthersSpared DEF MovesOn
<1>13. HandlerTyped' /\ HandlersInv'
  BY <1>12, HandlersMove DEF SourceInv
<1>. QED
  BY <1>2, <1>7, <1>9, <1>10, <1>13 DEF SourceInv, StoreTyped

\* A reference that is stored, or not, is the handler's own still.
LEMMA StoredCollected ==
  ASSUME A!AttachmentsAssumption, SourceInv, NEW d \in Deliveries, NEW fate \in A!Fates,
         step[d] = "storing", A!Stored(d, fate)
  PROVE  Collected(made', d, asKind[d], refs[d])
<1>1. /\ asKind[d] \in [A!Assets -> A!Kinds] /\ refs[d] \in Seq(Deliveries \X A!Keys)
      /\ Len(refs[d]) < Len(Order) /\ Collected(made, d, asKind[d], refs[d])
      /\ A!Key(d) = KeyNow(d, asKind[d], refs[d]) /\ A!Key(d) \in A!Keys
  BY AtWork, Zenon
<1>2. StoreTyped
  BY DEF SourceInv
<1>3. \A m \in Deliveries, o \in A!Keys :
        <<m, o>> # <<d, KeyNow(d, asKind[d], refs[d])>> => made'[<<m, o>>] = made[<<m, o>>]
  BY <1>1, <1>2, StoredDoes, ZenonT(60)
<1>4. Len(refs[d]) \in Nat
  BY <1>1
<1>. QED
  BY <1>1, <1>3, <1>4, OwnCollected

LEMMA StoredFits ==
  ASSUME A!AttachmentsAssumption, SourceInv, NEW d \in Deliveries, NEW fate \in A!Fates,
         step[d] = "storing", A!Stored(d, fate)
  PROVE  MadeFits(made')
<1>1. A!Key(d) \in A!Keys /\ made[<<d, A!Key(d)>>].fate = "inHand"
  BY AtWork DEF InWork
<1>2. StoreTyped /\ MadeFits(made)
  BY DEF SourceInv
<1>3. \A m \in Deliveries, k \in A!Keys :
        /\ made'[<<m, k>>].form = made[<<m, k>>].form
        /\ made[<<m, k>>].state # "processing" => made'[<<m, k>>].state # "processing"
        /\ made'[<<m, k>>].fate # "none" => made[<<m, k>>].fate # "none"
  <2>1. SUFFICES ASSUME NEW m \in Deliveries, NEW k \in A!Keys
                 PROVE  /\ made'[<<m, k>>].form = made[<<m, k>>].form
                        /\ made[<<m, k>>].state # "processing" =>
                             made'[<<m, k>>].state # "processing"
                        /\ made'[<<m, k>>].fate # "none" => made[<<m, k>>].fate # "none"
    OBVIOUS
  <2>2. CASE <<m, k>> = <<d, A!Key(d)>>
    BY <1>1, <1>2, <2>2, StoredDoes
  <2>3. CASE <<m, k>> # <<d, A!Key(d)>>
    BY <1>1, <1>2, <2>3, StoredDoes
  <2>. QED
    BY <2>2, <2>3
<1>. QED
  BY <1>2, <1>3, MadeKept

LEMMA StoreFailsSource ==
  ASSUME A!AttachmentsAssumption, SourceInv, NEW d \in Deliveries, A!StoreFails(d)
  PROVE  SourceInv'
<1>1. /\ step[d] = "storing" /\ A!Stored(d, "lost") /\ A!Takes(d, d, "none")
      /\ UNCHANGED asKind /\ UNCHANGED cache
  BY DEF A!StoreFails
<1>2. "lost" \in A!Fates
  BY DEF A!Fates
<1>3. A!Key(d) \in A!Keys /\ made[<<d, A!Key(d)>>].fate = "inHand"
  BY <1>1, AtWork DEF InWork
<1>4. Collected(made', d, asKind[d], refs[d]) /\ MadeFits(made')
  BY <1>1, <1>2, StoredCollected, StoredFits
<1>. DEFINE k == A!Key(d)
<1>5. StoreTyped
  BY DEF SourceInv
<1>6. /\ made' \in [Deliveries \X A!Keys -> [form : A!Forms, state : A!States, fate : A!Fates]]
      /\ made'[<<d, k>>].fate = "lost"
      /\ \A m \in Deliveries, o \in A!Keys : <<m, o>> # <<d, k>>
         => made'[<<m, o>>] = made[<<m, o>>]
  BY <1>1, <1>2, <1>3, <1>5, StoredDoes
<1>7. Holds(made', d, d, k)
  BY <1>6 DEF Holds
<1>8. A!MustWait(d, "none") \/ made'[<<d, k>>].state # "processing"
  <2>1. CASE A!IsMaxVideo(d)
    BY <2>1 DEF A!MustWait
  <2>2. CASE ~A!IsMaxVideo(d)
    BY <1>3, <1>4, <1>6, <2>2, ReadyAtOnce
  <2>. QED
    BY <2>1, <2>2
<1>9. Goes(made', cache', d)
  BY <1>1, <1>4, <1>7, <1>8, TakesGoes
<1>. HIDE DEF k
<1>10. CacheFits(made', cache)
  <2>1. \A m \in Deliveries, o \in A!Keys :
          /\ made'[<<m, o>>].fate = "kept" <=> made[<<m, o>>].fate = "kept"
          /\ made[<<m, o>>].fate = "kept" /\ made[<<m, o>>].state # "processing" =>
               made'[<<m, o>>].state # "processing"
    BY <1>3, <1>6 DEF k
  <2>2. \A o \in A!Keys : cache[o].by \in A!Makers
    BY <1>5 DEF StoreTyped
  <2>. QED
    BY <2>1, <2>2, CacheKept DEF SourceInv
<1>11. \A e \in Deliveries \ {d} : Spares(made, cache, made', cache', e)
  BY <1>1, <1>3, <1>6, OthersSpared DEF k
<1>12. HandlerTyped' /\ HandlersInv'
  BY <1>9, <1>11, HandlersMove DEF SourceInv, MovesOn
<1>. QED
  BY <1>1, <1>4, <1>5, <1>6, <1>10, <1>12 DEF SourceInv, StoreTyped

LEMMA StoreSource ==
  ASSUME A!AttachmentsAssumption, SourceInv, NEW d \in Deliveries, A!Store(d)
  PROVE  SourceInv'
<1>1. step[d] = "storing" /\ A!Stored(d, "kept") /\ UNCHANGED asKind
  BY DEF A!Store
<1>2. "kept" \in A!Fates
  BY DEF A!Fates
<1>3. /\ A!Key(d) \in A!Keys /\ made[<<d, A!Key(d)>>].fate = "inHand"
      /\ found[d] # "stale" => cache[A!Key(d)].age # "stale"
  BY <1>1, AtWork DEF InWork
<1>4. Collected(made', d, asKind[d], refs[d]) /\ MadeFits(made')
  BY <1>1, <1>2, StoredCollected, StoredFits
<1>. DEFINE k == A!Key(d)
<1>5. StoreTyped /\ CacheFits(made, cache)
  BY DEF SourceInv
<1>6. /\ made' \in [Deliveries \X A!Keys -> [form : A!Forms, state : A!States, fate : A!Fates]]
      /\ made'[<<d, k>>].fate = "kept" /\ made'[<<d, k>>].state = made[<<d, k>>].state
      /\ \A m \in Deliveries, o \in A!Keys : <<m, o>> # <<d, k>>
         => made'[<<m, o>>] = made[<<m, o>>]
  BY <1>1, <1>2, <1>3, <1>5, StoredDoes
<1>7. \A m \in Deliveries :
        made[<<m, k>>].fate = "kept" \/ m = d => made'[<<m, k>>].fate = "kept"
  BY <1>3, <1>6
<1>8. \A m \in Deliveries : made'[<<m, k>>].fate = "kept" =>
        A!MustWait(d, "none") \/ made'[<<m, k>>].state # "processing"
  <2>1. CASE A!IsMaxVideo(d)
    BY <2>1 DEF A!MustWait
  <2>2. CASE ~A!IsMaxVideo(d)
    BY <1>3, <1>4, <2>2, ReadyAtOnce
  <2>. QED
    BY <2>1, <2>2
<1>9. ASSUME NEW m \in Deliveries, A!Takes(d, m, "none"), made'[<<m, k>>].fate = "kept",
             cache' \in [A!Keys -> [by : A!Makers, age : A!Ages]], CacheFits(made', cache'),
             \A o \in A!Keys : cache'[o] = cache[o] \/ cache'[o].age # "stale"
      PROVE  SourceInv'
  <2>1. Holds(made', d, m, k)
    BY <1>9 DEF Holds
  <2>2. A!MustWait(d, "none") \/ made'[<<m, k>>].state # "processing"
    BY <1>8, <1>9
  <2>3. Goes(made', cache', d)
    BY <1>1, <1>4, <1>9, <2>1, <2>2, TakesGoes
  <2>4. \A e \in Deliveries \ {d} : Spares(made, cache, made', cache', e)
    BY <1>3, <1>6, <1>9, OthersSpared
  <2>5. HandlerTyped' /\ HandlersInv'
    BY <2>3, <2>4, HandlersMove DEF SourceInv, MovesOn
  <2>. QED
    BY <1>4, <1>6, <1>9, <2>5 DEF SourceInv, StoreTyped
<1>10. ASSUME NEW o \in A!Keys, o # k PROVE EntryFits(made', cache[o], o)
  <2>1. \A m \in Deliveries : made'[<<m, o>>] = made[<<m, o>>]
    BY <1>6, <1>10
  <2>2. EntryFits(made, cache[o], o) /\ cache[o].by \in A!Makers
    BY <1>5 DEF CacheFits, StoreTyped
  <2>. QED
    BY <2>1, <2>2 DEF EntryFits, A!Makers
<1>11. CASE found[d] = "stale" \/ cache[k].by = A!NoOne
  <2>1. cache' = [cache EXCEPT ![k] = [by |-> d, age |-> "new"]] /\ A!Takes(d, d, "none")
    BY <1>11 DEF A!Store
  <2>2. [by |-> d, age |-> "new"] \in [by : A!Makers, age : A!Ages]
    BY DEF A!Makers, A!Ages
  <2>. HIDE DEF k
  <2>3. cache' \in [A!Keys -> [by : A!Makers, age : A!Ages]]
          /\ cache'[k] = [by |-> d, age |-> "new"]
        /\ \A o \in A!Keys : o # k => cache'[o] = cache[o]
    BY <1>3, <1>5, <2>1, <2>2 DEF StoreTyped, k
  <2>4. EntryFits(made', [by |-> d, age |-> "new"], k)
    BY <1>6, NoOneIsNoOne DEF EntryFits
  <2>5. CacheFits(made', cache')
    BY <1>10, <2>3, <2>4 DEF CacheFits
  <2>6. \A o \in A!Keys : cache'[o] = cache[o] \/ cache'[o].age # "stale"
    BY <2>3
  <2>. QED
    BY <1>6, <1>9, <2>1, <2>3, <2>5, <2>6
<1>12. CASE ~(found[d] = "stale" \/ cache[k].by = A!NoOne)
  <2>1. A!Takes(d, cache[k].by, "none") /\ UNCHANGED cache
    BY <1>12 DEF A!Store
  <2>2. EntryFits(made, cache[k], k) /\ cache[k].by \in A!Makers /\ cache[k].age \in A!Ages
    BY <1>3, <1>5 DEF CacheFits, StoreTyped
  <2>3. cache[k].by \in Deliveries /\ cache[k].age \in {"new", "settled"}
    BY <1>3, <1>12, <2>2 DEF EntryFits, A!Makers, A!Ages
  <2>4. made[<<cache[k].by, k>>].fate = "kept" /\ made'[<<cache[k].by, k>>].fate = "kept"
    BY <1>7, <2>2, <2>3 DEF EntryFits
  <2>5. cache[k].by # d
    BY <1>3, <2>4
  <2>6. made'[<<cache[k].by, k>>] = made[<<cache[k].by, k>>]
    BY <1>3, <1>6, <2>3, <2>5
  <2>7. EntryFits(made', cache[k], k)
    BY <2>2, <2>3, <2>4, <2>6, NoOneIsNoOne DEF EntryFits
  <2>8. CacheFits(made', cache')
    BY <1>10, <2>1, <2>7 DEF CacheFits
  <2>. QED
    BY <1>5, <1>9, <2>1, <2>3, <2>4, <2>8 DEF StoreTyped
<1>. QED
  BY <1>11, <1>12

-----------------------------------------------------------------------------
(***************************************************************************)
(* Time, MAX, and a process that dies.                                     *)
(***************************************************************************)
LEMMA AgesDo ==
  ASSUME StoreTyped, NEW k \in A!Keys, NEW age \in A!Ages, cache' = [cache EXCEPT ![k].age = age]
  PROVE  /\ cache' \in [A!Keys -> [by : A!Makers, age : A!Ages]]
         /\ cache'[k].by = cache[k].by /\ cache'[k].age = age
         /\ \A o \in A!Keys : o # k => cache'[o] = cache[o]
<1>. DEFINE r == [cache[k] EXCEPT !.age = age]
<1>1. cache' = [cache EXCEPT ![k] = r]
  OBVIOUS
<1>2. cache[k] \in [by : A!Makers, age : A!Ages]
  BY DEF StoreTyped
<1>3. r \in [by : A!Makers, age : A!Ages] /\ r.by = cache[k].by /\ r.age = age
  BY <1>2
<1>. HIDE DEF r
<1>. QED
  BY <1>1, <1>3 DEF StoreTyped

LEMMA SettlesSource ==
  ASSUME A!AttachmentsAssumption, SourceInv, NEW k \in A!Keys, A!Settles(k)
  PROVE  SourceInv'
<1>. DEFINE x == <<cache[k].by, k>>
            r == [made[x] EXCEPT !.state = IF made[x].state = "processing" THEN "overdue"
                                           ELSE made[x].state]
<1>1. /\ cache[k].age = "new"
      /\ cache' = [cache EXCEPT ![k].age = "settled"] /\ made' = [made EXCEPT ![x] = r]
      /\ UNCHANGED <<step, asKind, refs, found, inHand>>
  BY DEF A!Settles, A!handler
<1>2. StoreTyped /\ CacheFits(made, cache) /\ MadeFits(made) /\ "settled" \in A!Ages
  BY DEF SourceInv, A!Ages
<1>3. /\ cache' \in [A!Keys -> [by : A!Makers, age : A!Ages]]
      /\ cache'[k].by = cache[k].by /\ cache'[k].age = "settled"
      /\ \A o \in A!Keys : o # k => cache'[o] = cache[o]
  BY <1>1, <1>2, AgesDo
<1>4. EntryFits(made, cache[k], k)
  BY <1>2 DEF CacheFits
<1>5. cache[k].by \in Deliveries /\ x \in Deliveries \X A!Keys
  BY <1>1, <1>2, <1>4 DEF EntryFits, StoreTyped, A!Makers
<1>6. made[x] \in [form : A!Forms, state : A!States, fate : A!Fates]
  BY <1>2, <1>5 DEF StoreTyped
<1>7. /\ r \in [form : A!Forms, state : A!States, fate : A!Fates]
      /\ r.form = made[x].form /\ r.fate = made[x].fate /\ r.state # "processing"
  BY <1>6 DEF A!States
<1>. HIDE DEF r
<1>8. made' \in [Deliveries \X A!Keys -> [form : A!Forms, state : A!States, fate : A!Fates]]
  BY <1>1, <1>2, <1>7 DEF StoreTyped
<1>9. \A y \in Deliveries \X A!Keys : made'[y] = IF y = x THEN r ELSE made[y]
  BY <1>1, <1>2 DEF StoreTyped
<1>10. \A m \in Deliveries, o \in A!Keys :
         /\ made'[<<m, o>>].form = made[<<m, o>>].form
         /\ made'[<<m, o>>].fate = made[<<m, o>>].fate
         /\ made[<<m, o>>].state # "processing" => made'[<<m, o>>].state # "processing"
  BY <1>7, <1>9
<1>11. made'[x].state # "processing"
  BY <1>5, <1>7, <1>9
<1>12. MadeFits(made')
  BY <1>2, <1>10, MadeKept
<1>13. CacheFits(made', cache)
  <2>1. \A o \in A!Keys : cache[o].by \in A!Makers
    BY <1>2 DEF StoreTyped
  <2>. QED
    BY <1>2, <1>10, <2>1, CacheKept
<1>14. EntryFits(made', cache'[k], k)
  <2>1. EntryFits(made', cache[k], k)
    BY <1>13 DEF CacheFits
  <2>. QED
    BY <1>1, <1>3, <1>11, <2>1 DEF EntryFits
<1>15. CacheFits(made', cache')
  BY <1>3, <1>13, <1>14 DEF CacheFits
<1>16. \A e \in Deliveries : Spares(made, cache, made', cache', e)
  BY <1>1, <1>3, <1>10 DEF Spares
<1>17. HandlerTyped' /\ HandlersInv'
  BY <1>1, <1>16, HandlersStay DEF SourceInv
<1>. QED
  BY <1>3, <1>8, <1>12, <1>15, <1>17 DEF SourceInv, StoreTyped

LEMMA StaleSource ==
  ASSUME A!AttachmentsAssumption, SourceInv, NEW k \in A!Keys, A!GoesStale(k)
  PROVE  SourceInv'
<1>1. /\ k[2] = "bot" /\ cache[k].age = "settled"
      /\ \A d \in Deliveries : A!IsVk(d[2]) \/ step[d] = "idle"
      /\ cache' = [cache EXCEPT ![k].age = "stale"]
      /\ made' = [x \in DOMAIN made |-> IF x[2] = k /\ made[x].fate = "kept"
                                        THEN [made[x] EXCEPT !.fate = "stale"] ELSE made[x]]
      /\ UNCHANGED <<step, asKind, refs, found, inHand>>
  BY DEF A!GoesStale, A!handler
<1>2. StoreTyped /\ CacheFits(made, cache) /\ MadeFits(made) /\ "stale" \in A!Ages
  BY DEF SourceInv, A!Ages
<1>3. /\ cache' \in [A!Keys -> [by : A!Makers, age : A!Ages]]
      /\ cache'[k].by = cache[k].by /\ cache'[k].age = "stale"
      /\ \A o \in A!Keys : o # k => cache'[o] = cache[o]
  BY <1>1, <1>2, AgesDo
<1>4. \A x \in Deliveries \X A!Keys :
        /\ made'[x] = IF x[2] = k /\ made[x].fate = "kept"
                      THEN [made[x] EXCEPT !.fate = "stale"] ELSE made[x]
        /\ made[x] \in [form : A!Forms, state : A!States, fate : A!Fates]
  BY <1>1, <1>2 DEF StoreTyped
<1>5. ASSUME NEW m \in Deliveries, NEW o \in A!Keys
      PROVE  /\ made'[<<m, o>>] \in [form : A!Forms, state : A!States, fate : A!Fates]
             /\ made'[<<m, o>>].form = made[<<m, o>>].form
             /\ made'[<<m, o>>].state = made[<<m, o>>].state
             /\ made'[<<m, o>>].fate # "none" => made[<<m, o>>].fate # "none"
             /\ o # k => made'[<<m, o>>] = made[<<m, o>>]
             /\ o = k => made'[<<m, o>>].fate # "kept"
  <2>. DEFINE x == <<m, o>>
  <2>1. x \in Deliveries \X A!Keys /\ x[2] = o
    OBVIOUS
  <2>2. made[x] \in [form : A!Forms, state : A!States, fate : A!Fates]
    BY <1>4, <2>1
  <2>3. CASE o = k /\ made[x].fate = "kept"
    <3>1. made'[x] = [made[x] EXCEPT !.fate = "stale"]
      BY <1>4, <2>1, <2>3
    <3>2. "stale" \in A!Fates
      BY DEF A!Fates
    <3>. HIDE DEF x
    <3>3. /\ made'[x] \in [form : A!Forms, state : A!States, fate : A!Fates]
          /\ made'[x].form = made[x].form /\ made'[x].state = made[x].state
          /\ made'[x].fate = "stale"
      BY <2>2, <3>1, <3>2
    <3>. QED
      BY <2>3, <3>3 DEF x
  <2>4. CASE ~(o = k /\ made[x].fate = "kept")
    <3>1. made'[x] = made[x]
      BY <1>4, <2>1, <2>4
    <3>. QED
      BY <2>2, <2>4, <3>1
  <2>. QED
    BY <2>3, <2>4
<1>6. made' \in [Deliveries \X A!Keys -> [form : A!Forms, state : A!States, fate : A!Fates]]
  <2>1. made' = [x \in Deliveries \X A!Keys |-> made'[x]]
    BY <1>1, <1>2 DEF StoreTyped
  <2>2. \A x \in Deliveries \X A!Keys
           : made'[x] \in [form : A!Forms, state : A!States, fate : A!Fates]
    BY <1>5
  <2>. QED
    BY <2>1, <2>2
<1>7. MadeFits(made')
  BY <1>2, <1>5, MadeKept
<1>8. ASSUME NEW o \in A!Keys PROVE EntryFits(made', cache'[o], o)
  <2>1. EntryFits(made, cache[o], o) /\ cache[o].by \in A!Makers
    BY <1>2 DEF CacheFits, StoreTyped
  <2>2. CASE o = k
    <3>1. \A m \in Deliveries : made'[<<m, k>>].fate # "kept"
      BY <1>5
    <3>2. cache[k].by # A!NoOne
      BY <1>1, <2>1, <2>2 DEF EntryFits
    <3>3. cache'[k].by = cache[k].by /\ cache'[k].age = "stale" /\ k[2] = "bot"
      BY <1>1, <1>3
    <3>4. EntryFits(made', cache'[k], k)
      BY <3>1, <3>2, <3>3 DEF EntryFits
    <3>. QED
      BY <2>2, <3>4
  <2>3. CASE o # k
    <3>1. \A m \in Deliveries : made'[<<m, o>>] = made[<<m, o>>]
      BY <1>5, <2>3
    <3>. QED
      BY <1>3, <2>1, <2>3, <3>1 DEF EntryFits, A!Makers
  <2>. QED
    BY <2>2, <2>3
<1>9. ASSUME NEW e \in Deliveries
      PROVE  Spares(made, cache, made', cache', e) \/ step[e] = "idle"
  <2>1. CASE A!IsVk(e[2])
    <3>1. A!Place(e[2]) # "bot"
      BY <2>1, PlacesDiffer
    <3>2. ASSUME NEW o \in A!Keys, o[2] = A!Place(e[2])
          PROVE  o # k
      BY <1>1, <3>1, <3>2
    <3>. QED
      BY <1>3, <1>5, <3>2 DEF Spares
  <2>2. CASE ~A!IsVk(e[2])
    BY <1>1, <2>2
  <2>. QED
    BY <2>1, <2>2
<1>10. HandlerTyped' /\ HandlersInv'
  BY <1>1, <1>9, HandlersStay DEF SourceInv
<1>. QED
  BY <1>3, <1>6, <1>7, <1>8, <1>10 DEF SourceInv, StoreTyped, CacheFits

LEMMA ProcessesSource ==
  ASSUME A!AttachmentsAssumption, SourceInv, NEW x \in Deliveries \X A!Keys, A!MaxProcesses(x)
  PROVE  SourceInv'
<1>. DEFINE r == [made[x] EXCEPT !.state = "ready"]
<1>1. made' = [made EXCEPT ![x] = r] /\ UNCHANGED cache
      /\ UNCHANGED <<step, asKind, refs, found, inHand>>
  BY DEF A!MaxProcesses, A!handler
<1>2. StoreTyped /\ CacheFits(made, cache) /\ MadeFits(made)
  BY DEF SourceInv
<1>3. made[x] \in [form : A!Forms, state : A!States, fate : A!Fates]
  BY <1>2 DEF StoreTyped
<1>4. /\ r \in [form : A!Forms, state : A!States, fate : A!Fates]
      /\ r.form = made[x].form /\ r.fate = made[x].fate /\ r.state = "ready"
  BY <1>3 DEF A!States
<1>. HIDE DEF r
<1>5. made' \in [Deliveries \X A!Keys -> [form : A!Forms, state : A!States, fate : A!Fates]]
  BY <1>1, <1>2, <1>4 DEF StoreTyped
<1>6. \A y \in Deliveries \X A!Keys : made'[y] = IF y = x THEN r ELSE made[y]
  BY <1>1, <1>2 DEF StoreTyped
<1>7. \A m \in Deliveries, k \in A!Keys :
        /\ made'[<<m, k>>].form = made[<<m, k>>].form
        /\ made'[<<m, k>>].fate = made[<<m, k>>].fate
        /\ made[<<m, k>>].state # "processing" => made'[<<m, k>>].state # "processing"
  BY <1>4, <1>6
<1>8. MadeFits(made')
  BY <1>2, <1>7, MadeKept
<1>9. CacheFits(made', cache)
  <2>1. \A o \in A!Keys : cache[o].by \in A!Makers
    BY <1>2 DEF StoreTyped
  <2>. QED
    BY <1>2, <1>7, <2>1, CacheKept
<1>10. \A e \in Deliveries : Spares(made, cache, made', cache', e)
  BY <1>1, <1>7 DEF Spares
<1>11. HandlerTyped' /\ HandlersInv'
  BY <1>1, <1>10, HandlersStay DEF SourceInv
<1>. QED
  BY <1>1, <1>2, <1>5, <1>8, <1>9, <1>11 DEF SourceInv, StoreTyped

LEMMA CrashSource ==
  ASSUME A!AttachmentsAssumption, SourceInv, A!Crash
  PROVE  SourceInv'
<1>1. PICK active \in SUBSET Deliveries :
        /\ active = {d \in Deliveries : step[d] /= "idle"}
        /\ step' = [d \in Deliveries |-> "idle"]
        /\ refs' = [d \in Deliveries |-> IF d \in active THEN <<>> ELSE refs[d]]
        /\ found' = [d \in Deliveries |-> "none"]
        /\ inHand' = [d \in Deliveries |-> A!NoOne]
        /\ asKind' = [d \in Deliveries |-> IF d \in active THEN A!FirstKind ELSE asKind[d]]
        /\ made' = [x \in DOMAIN made |-> IF made[x].fate = "inHand"
                                         THEN [made[x] EXCEPT !.fate = "lost"] ELSE made[x]]
        /\ UNCHANGED cache
  BY DEF A!Crash
<1>2. StoreTyped /\ CacheFits(made, cache) /\ MadeFits(made)
  BY DEF SourceInv
<1>3. ASSUME NEW x \in Deliveries \X A!Keys
      PROVE  /\ made'[x] \in [form : A!Forms, state : A!States, fate : A!Fates]
             /\ made'[x].form = made[x].form /\ made'[x].state = made[x].state
             /\ made'[x].fate = IF made[x].fate = "inHand" THEN "lost" ELSE made[x].fate
  <2>1. made[x] \in [form : A!Forms, state : A!States, fate : A!Fates] /\ "lost" \in A!Fates
    BY <1>2 DEF StoreTyped, A!Fates
  <2>2. made'[x] = IF made[x].fate = "inHand"
                   THEN [made[x] EXCEPT !.fate = "lost"] ELSE made[x]
    BY <1>1, <1>2 DEF StoreTyped
  <2>. QED
    BY <2>1, <2>2
<1>4. made' \in [Deliveries \X A!Keys -> [form : A!Forms, state : A!States, fate : A!Fates]]
  <2>1. made' = [x \in Deliveries \X A!Keys |-> made'[x]]
    BY <1>1, <1>2 DEF StoreTyped
  <2>2. \A x \in Deliveries \X A!Keys
           : made'[x] \in [form : A!Forms, state : A!States, fate : A!Fates]
    BY <1>3
  <2>. QED
    BY <2>1, <2>2
<1>5. \A m \in Deliveries, k \in A!Keys :
        /\ made'[<<m, k>>].form = made[<<m, k>>].form
        /\ made'[<<m, k>>].state = made[<<m, k>>].state
        /\ made'[<<m, k>>].fate # "none" => made[<<m, k>>].fate # "none"
        /\ made'[<<m, k>>].fate = "kept" <=> made[<<m, k>>].fate = "kept"
  BY <1>3
<1>6. MadeFits(made')
  BY <1>2, <1>5, MadeKept
<1>7. CacheFits(made', cache)
  <2>1. \A o \in A!Keys : cache[o].by \in A!Makers
    BY <1>2 DEF StoreTyped
  <2>. QED
    BY <1>2, <1>5, <2>1, CacheKept
<1>8. ASSUME NEW d \in Deliveries
      PROVE  /\ step'[d] = "idle" /\ refs'[d] = <<>> /\ asKind'[d] \in [A!Assets -> A!Kinds]
             /\ \A a \in A!Assets : KindFits(asKind'[d][a], a)
  <2>1. HandlerAt(made, cache, d, step[d], asKind[d], refs[d], found[d], inHand[d])
    BY DEF SourceInv, HandlersInv
  <2>2. asKind[d] \in [A!Assets -> A!Kinds]
    BY DEF SourceInv, HandlerTyped
  <2>3. step'[d] = "idle" /\ refs'[d] = <<>>
    BY <1>1, <2>1 DEF HandlerAt, Counted
  <2>4. asKind'[d] = A!FirstKind \/ asKind'[d] = asKind[d]
    BY <1>1
  <2>. QED
    BY <2>1, <2>2, <2>3, <2>4, FirstKindTyped DEF HandlerAt, KindFits
<1>9. HandlersInv'
  <2>1. \A d \in Deliveries :
          HandlerAt(made', cache', d, step'[d], asKind'[d], refs'[d], found'[d], inHand'[d])
    BY <1>8, IdleAt
  <2>. QED
    BY <2>1 DEF HandlersInv
<1>10. HandlerTyped'
  <2>1. step' \in [Deliveries -> A!Steps] /\ found' \in [Deliveries -> A!Ages]
        /\ inHand' \in [Deliveries -> A!Makers]
    BY <1>1 DEF A!Steps, A!Ages, A!Makers
  <2>2. asKind' \in [Deliveries -> [A!Assets -> A!Kinds]]
    BY <1>1, FirstKindTyped DEF SourceInv, HandlerTyped
  <2>3. refs' \in [Deliveries -> Seq(Deliveries \X A!Keys)]
    BY <1>1 DEF SourceInv, HandlerTyped
  <2>. QED
    BY <2>1, <2>2, <2>3 DEF HandlerTyped
<1>. QED
  BY <1>1, <1>2, <1>4, <1>6, <1>7, <1>9, <1>10 DEF SourceInv, StoreTyped

LEMMA SourceStep ==
  ASSUME A!AttachmentsAssumption, SourceInv, RestTyped, [A!Next]_A!vars
  PROVE  SourceInv'
<1>1. ASSUME NEW d \in Deliveries, A!Deliver(d) PROVE SourceInv'
  BY <1>1, DeliverSource
<1>2. ASSUME NEW d \in Deliveries, A!Find(d) PROVE SourceInv'
  BY <1>2, FindSource
<1>3. ASSUME NEW d \in Deliveries, A!UploadToVk(d) \/ A!UploadToMax(d) PROVE SourceInv'
  BY <1>3, UploadSource DEF A!UploadToVk, A!UploadToMax
<1>4. ASSUME NEW d \in Deliveries, A!Store(d) PROVE SourceInv'
  BY <1>4, StoreSource
<1>5. ASSUME NEW d \in Deliveries, A!StoreFails(d) PROVE SourceInv'
  BY <1>5, StoreFailsSource
<1>6. ASSUME NEW d \in Deliveries, A!VideoReady(d) PROVE SourceInv'
  BY <1>6, ReadySource
<1>7. ASSUME NEW d \in Deliveries,
             A!TokenRefused(d) \/ A!UploadFails(d) \/ A!VideoTimesOut(d) \/ A!Send(d)
               \/ A!SendFails(d)
      PROVE  SourceInv'
  BY <1>7, EndSource
<1>8. ASSUME NEW k \in A!Keys, A!Settles(k) \/ A!GoesStale(k) PROVE SourceInv'
  BY <1>8, SettlesSource, StaleSource
<1>9. ASSUME NEW x \in Deliveries \X A!Keys, A!MaxProcesses(x) PROVE SourceInv'
  BY <1>9, ProcessesSource
<1>10. CASE A!Crash
  BY <1>10, CrashSource
<1>11. ASSUME UNCHANGED <<step, asKind, refs, found, inHand, cache, made>> PROVE SourceInv'
  BY <1>11 DEF SourceInv, HandlerTyped, StoreTyped, HandlersInv
<1>12. ASSUME \/ \E a \in A!Assets : A!TurnsVideo(a)
              \/ A!TokenExpires \/ A!Callback
              \/ \E p \in A!Posts : A!SchedulePost(p) \/ A!Fire(p) \/ A!Dispatch(p)
                 \/ A!ResumePost(p)
              \/ UNCHANGED A!vars
       PROVE  UNCHANGED <<step, asKind, refs, found, inHand, cache, made>>
  BY <1>12 DEF A!TurnsVideo, A!TokenExpires, A!Callback, A!SchedulePost, A!Fire, A!Dispatch,
     A!ResumePost, A!vars, A!handler, A!store
<1>. QED
  BY <1>1, <1>2, <1>3, <1>4, <1>5, <1>6, <1>7, <1>8, <1>9, <1>10, <1>11, <1>12, Zenon
     DEF A!Next, A!DeliverSteps

\* A message is complete, its references are in the right form, and no video that
\* is not overdue is still processed.
LEMMA CallsAreRight ==
  ASSUME A!AttachmentsAssumption, SourceInv
  PROVE  A!RefIsRight /\ A!VideoIsSettled
<1>1. ASSUME NEW d \in Deliveries, step[d] = "calling"
      PROVE  /\ Len(refs[d]) = Len(Order)
             /\ \A i \in DOMAIN Order :
                  /\ refs[d][i][2][1] = Order[i] /\ refs[d][i][2][2] = A!Place(d[2])
                  /\ made[refs[d][i]].form = A!Form(asKind[d][Order[i]])
  <2>1. HandlerAt(made, cache, d, step[d], asKind[d], refs[d], found[d], inHand[d])
    BY DEF SourceInv, HandlersInv
  <2>2. Len(refs[d]) = Len(Order) /\ Collected(made, d, asKind[d], refs[d])
    BY <1>1, <2>1 DEF HandlerAt, Counted
  <2>3. asKind[d] \in [A!Assets -> A!Kinds] /\ MadeFits(made)
    BY DEF SourceInv, HandlerTyped
  <2>4. DOMAIN Order = 1 .. Len(Order)
    BY DEF A!AttachmentsAssumption
  <2>5. ASSUME NEW i \in 1 .. Len(Order)
        PROVE  /\ refs[d][i][2][1] = Order[i] /\ refs[d][i][2][2] = A!Place(d[2])
               /\ made[refs[d][i]].form = A!Form(asKind[d][Order[i]])
    <3>. DEFINE k == KeyAt(d, asKind[d], i)
    <3>1. PICK m \in Deliveries :
            refs[d][i] = <<m, k>> /\ Holds(made, d, m, k)
      BY <2>2 DEF Collected
    <3>2. /\ k \in A!Keys /\ k[1] = Order[i] /\ k[2] = A!Place(d[2])
          /\ k[3] = A!Scope(asKind[d][Order[i]]) /\ Order[i] \in A!Assets
      BY <2>3, KeyTyped
    <3>3. made[<<m, k>>].form = FormOf(k)
      BY <2>3, <3>1, <3>2 DEF MadeFits, Holds
    <3>4. KindFits(asKind[d][Order[i]], Order[i])
      BY <2>1, <3>2 DEF HandlerAt
    <3>5. A!FirstKind[Order[i]] \in {"document", "image"}
      BY <3>2 DEF A!FirstKind
    <3>6. FormOf(k) = A!Form(asKind[d][Order[i]])
      <4>1. CASE asKind[d][Order[i]] = "video"
        BY <3>2, <4>1 DEF FormOf, A!Form, A!Scope
      <4>2. CASE asKind[d][Order[i]] # "video"
        <5>1. asKind[d][Order[i]] = A!FirstKind[Order[i]] /\ k[3] = "plain"
          BY <3>2, <3>4, <4>2 DEF KindFits, A!Scope
        <5>. QED
          BY <3>2, <5>1 DEF FormOf
      <4>. QED
        BY <4>1, <4>2
    <3>. HIDE DEF k
    <3>. QED
      BY <3>1, <3>2, <3>3, <3>6
  <2>. QED
    BY <2>2, <2>4, <2>5
<1>2. ASSUME NEW d \in Deliveries, NEW i \in DOMAIN refs[d]
      PROVE  made[refs[d][i]].state # "processing"
  <2>1. HandlerAt(made, cache, d, step[d], asKind[d], refs[d], found[d], inHand[d])
    BY DEF SourceInv, HandlersInv
  <2>2. i \in 1 .. Len(refs[d])
    BY DEF SourceInv, HandlerTyped
  <2>. QED
    BY <2>1, <2>2 DEF HandlerAt, Collected
<1>. QED
  BY <1>1, <1>2 DEF A!RefIsRight, A!VideoIsSettled

-----------------------------------------------------------------------------
(***************************************************************************)
(* Who was cleared as needing no upload.                                   *)
(***************************************************************************)
HistoryTyped ==
  /\ cleared \in [Deliveries -> {A!NotCleared} \cup [A!Assets -> A!Kinds]]
  /\ refused \in [Deliveries -> {A!NotCleared} \cup [A!Assets -> A!Kinds]]

\* A delivery that was cleared finds all its files, and is refused no token, unless
\* one of them became a video since.
FindsAll(ca, d, c, r, st, ak) ==
  c # A!NotCleared =>
    /\ A!IsVk(d[2]) /\ \A a \in A!Assets : ca[<<a, A!Place(d[2]), A!Scope(c[a])>>].by # A!NoOne
    /\ r # c
    /\ st = "uploading" => ak # c

ClearedInv ==
  /\ HistoryTyped
  /\ \A d \in Deliveries : FindsAll(cache, d, cleared[d], refused[d], step[d], asKind[d])

\* What is in the cache of a community stays in it.
LEMMA CacheGrows ==
  ASSUME A!AttachmentsAssumption, SourceInv, [A!Next]_A!vars
  PROVE  \A k \in A!Keys : cache[k].by # A!NoOne => cache'[k].by # A!NoOne
<1>1. StoreTyped
  BY DEF SourceInv
<1>2. ASSUME NEW k \in A!Keys, A!Settles(k) \/ A!GoesStale(k)
      PROVE  \A o \in A!Keys : cache'[o].by = cache[o].by
  <2>1. PICK age \in {"settled", "stale"} : cache' = [cache EXCEPT ![k].age = age]
    BY <1>2 DEF A!Settles, A!GoesStale
  <2>2. age \in A!Ages
    BY DEF A!Ages
  <2>. QED
    BY <1>1, <2>1, <2>2, AgesDo
<1>3. ASSUME NEW d \in Deliveries, A!Store(d), cache' # cache
      PROVE  \A o \in A!Keys : cache'[o].by = d \/ cache'[o] = cache[o]
  <2>. DEFINE k == A!Key(d)
              r == [by |-> d, age |-> "new"]
  <2>1. cache' = [cache EXCEPT ![k] = r]
    BY <1>3 DEF A!Store
  <2>2. r.by = d
    OBVIOUS
  <2>. HIDE DEF k, r
  <2>. QED
    BY <1>1, <2>1, <2>2 DEF StoreTyped
<1>4. ASSUME \/ \E d \in Deliveries :
                  \/ A!DeliverSteps(d) /\ ~A!Store(d)
                  \/ A!UploadFails(d) \/ A!StoreFails(d) \/ A!SendFails(d)
             \/ \E a \in A!Assets : A!TurnsVideo(a)
             \/ A!TokenExpires \/ A!Callback \/ A!Crash
             \/ \E x \in Deliveries \X A!Keys : A!MaxProcesses(x)
             \/ \E p \in A!Posts : A!SchedulePost(p) \/ A!Fire(p) \/ A!Dispatch(p)
                \/ A!ResumePost(p)
             \/ UNCHANGED A!vars
      PROVE  UNCHANGED cache
  BY <1>4 DEF A!DeliverSteps, A!Deliver, A!Find, A!TokenRefused, A!UploadToVk, A!UploadToMax,
     A!Uploaded, A!VideoReady, A!VideoTimesOut, A!Send, A!UploadFails, A!StoreFails, A!SendFails,
     A!TurnsVideo, A!TokenExpires, A!Callback, A!Crash, A!MaxProcesses, A!SchedulePost, A!Fire,
     A!Dispatch, A!ResumePost, A!vars, A!store
<1>5. A!NoOne \notin Deliveries
  BY NoOneIsNoOne
<1>6. ASSUME NEW d \in Deliveries, A!Store(d)
      PROVE  \A k \in A!Keys : cache[k].by # A!NoOne => cache'[k].by # A!NoOne
  BY <1>3, <1>5, <1>6
<1>. QED
  BY <1>2, <1>4, <1>6, Zenon DEF A!Next, A!DeliverSteps

\* No step but Find turns to an upload.
LEMMA OnlyFindUploads ==
  ASSUME HandlerTyped, [A!Next]_A!vars, NEW e \in Deliveries, step'[e] = "uploading"
  PROVE  (step[e] = "uploading" /\ asKind'[e] = asKind[e]) \/ A!Find(e)
<1>1. ASSUME NEW d \in Deliveries, NEW st, st # "uploading", step' = [step EXCEPT ![d] = st],
             asKind' = asKind \/ \E ak : asKind' = [asKind EXCEPT ![d] = ak]
      PROVE  step[e] = "uploading" /\ asKind'[e] = asKind[e]
  <2>1. e # d
    BY <1>1 DEF HandlerTyped
  <2>. QED
    BY <1>1, <2>1 DEF HandlerTyped
<1>2. ASSUME NEW d \in Deliveries, A!Deliver(d)
      PROVE  step[e] = "uploading" /\ asKind'[e] = asKind[e]
  <2>. DEFINE st == IF Order = <<>> THEN "calling" ELSE "finding"
  <2>1. step' = [step EXCEPT ![d] = st] /\ asKind' = [asKind EXCEPT ![d] = kind]
    BY <1>2 DEF A!Deliver
  <2>2. st # "uploading"
    OBVIOUS
  <2>. HIDE DEF st
  <2>. QED
    BY <1>1, <2>1, <2>2
<1>3. ASSUME NEW d \in Deliveries, NEW m, NEW age, A!Takes(d, m, age), UNCHANGED asKind
      PROVE  step[e] = "uploading" /\ asKind'[e] = asKind[e]
  <2>1. CASE A!MustWait(d, age)
    BY <1>1, <1>3, <2>1 DEF A!Takes
  <2>2. CASE ~A!MustWait(d, age)
    <3>. DEFINE st == IF Len(refs[d]) + 1 = Len(Order) THEN "calling" ELSE "finding"
    <3>1. step' = [step EXCEPT ![d] = st]
      BY <1>3, <2>2 DEF A!Takes, A!Collect
    <3>2. st # "uploading"
      OBVIOUS
    <3>. HIDE DEF st
    <3>. QED
      BY <1>1, <1>3, <3>1, <3>2
  <2>. QED
    BY <2>1, <2>2
<1>4. ASSUME NEW d \in Deliveries, A!Leaves(d)
      PROVE  step[e] = "uploading" /\ asKind'[e] = asKind[e]
  BY <1>1, <1>4 DEF A!Leaves
<1>5. ASSUME NEW d \in Deliveries, A!Find(d), e # d
      PROVE  step[e] = "uploading" /\ asKind'[e] = asKind[e]
  <2>1. UNCHANGED asKind
    BY <1>5 DEF A!Find
  <2>2. CASE A!IsFresh(cache[A!Key(d)].age)
    BY <1>3, <1>5, <2>1, <2>2 DEF A!Find
  <2>3. CASE ~A!IsFresh(cache[A!Key(d)].age)
    <3>1. step' = [step EXCEPT ![d] = "uploading"]
      BY <1>5, <2>3 DEF A!Find
    <3>. QED
      BY <1>5, <2>1, <3>1 DEF HandlerTyped
  <2>. QED
    BY <2>2, <2>3
<1>6. ASSUME NEW d \in Deliveries, A!Uploaded(d)
      PROVE  step[e] = "uploading" /\ asKind'[e] = asKind[e]
  BY <1>1, <1>6 DEF A!Uploaded
<1>7. ASSUME NEW d \in Deliveries, A!Store(d) \/ A!StoreFails(d)
      PROVE  step[e] = "uploading" /\ asKind'[e] = asKind[e]
  <2>1. UNCHANGED asKind /\ \E m : A!Takes(d, m, "none")
    BY <1>7 DEF A!Store, A!StoreFails
  <2>. QED
    BY <1>3, <2>1
<1>8. ASSUME NEW d \in Deliveries, A!VideoReady(d)
      PROVE  step[e] = "uploading" /\ asKind'[e] = asKind[e]
  <2>1. A!Takes(d, inHand[d], "settled") /\ UNCHANGED asKind
    BY <1>8 DEF A!VideoReady, A!Takes, A!MustWait
  <2>. QED
    BY <1>3, <2>1
<1>9. ASSUME NEW d \in Deliveries,
             A!TokenRefused(d) \/ A!UploadFails(d) \/ A!VideoTimesOut(d) \/ A!Send(d)
               \/ A!SendFails(d)
      PROVE  step[e] = "uploading" /\ asKind'[e] = asKind[e]
  <2>1. A!Leaves(d)
    BY <1>9, EndsHolds DEF A!TokenRefused, A!UploadFails, A!VideoTimesOut, A!Send, A!SendFails
  <2>. QED
    BY <1>4, <2>1
<1>10. ~A!Crash
  BY DEF A!Crash
<1>11. ASSUME \/ \E a \in A!Assets : A!TurnsVideo(a)
              \/ A!TokenExpires \/ A!Callback
              \/ \E k \in A!Keys : A!Settles(k) \/ A!GoesStale(k)
              \/ \E x \in Deliveries \X A!Keys : A!MaxProcesses(x)
              \/ \E p \in A!Posts : A!SchedulePost(p) \/ A!Fire(p) \/ A!Dispatch(p)
                 \/ A!ResumePost(p)
              \/ UNCHANGED A!vars
       PROVE  step[e] = "uploading" /\ asKind'[e] = asKind[e]
  <2>1. UNCHANGED <<step, asKind>>
    BY <1>11 DEF A!TurnsVideo, A!TokenExpires, A!Callback, A!Settles, A!GoesStale, A!MaxProcesses,
       A!SchedulePost, A!Fire, A!Dispatch, A!ResumePost, A!vars, A!handler
  <2>. QED
    BY <2>1
<1>12. ASSUME NEW d \in Deliveries, A!UploadToVk(d) \/ A!UploadToMax(d) PROVE A!Uploaded(d)
  BY <1>12 DEF A!UploadToVk, A!UploadToMax
<1>. QED
  BY <1>2, <1>5, <1>6, <1>7, <1>8, <1>9, <1>10, <1>11, <1>12, Zenon DEF A!Next, A!DeliverSteps

\* A handler that was cleared with the kinds it has read finds every file.
LEMMA ClearedFindsAll ==
  ASSUME A!AttachmentsAssumption, SourceInv, NEW d \in Deliveries, A!Find(d),
         step'[d] = "uploading", A!IsVk(d[2])
  PROVE  \E a \in A!Assets : cache[<<a, A!Place(d[2]), A!Scope(asKind[d][a])>>].by = A!NoOne
<1>. DEFINE k == A!Key(d)
<1>1. step[d] = "finding"
  BY DEF A!Find
<1>2. /\ k \in A!Keys /\ k = <<A!Next1(d), A!Place(d[2]), A!Scope(A!KindHere(d))>>
      /\ A!Next1(d) \in A!Assets
  BY <1>1, AtWork, Zenon
<1>3. ~A!IsFresh(cache[k].age)
  <2>1. ASSUME A!IsFresh(cache[k].age) PROVE FALSE
    <3>1. A!Takes(d, cache[k].by, cache[k].age)
      BY <2>1 DEF A!Find
    <3>2. step'[d] \in {"waiting", "calling", "finding"}
      BY <3>1 DEF A!Takes, A!Collect, SourceInv, HandlerTyped
    <3>. QED
      BY <3>2
  <2>. QED
    BY <2>1
<1>4. EntryFits(made, cache[k], k) /\ cache[k].age \in A!Ages
  BY <1>2 DEF SourceInv, CacheFits, StoreTyped
<1>5. k[2] # "bot"
  BY <1>2, PlacesDiffer
<1>6. cache[k].by = A!NoOne
  BY <1>3, <1>4, <1>5 DEF EntryFits, A!IsFresh, A!Ages
<1>7. k = <<A!Next1(d), A!Place(d[2]), A!Scope(asKind[d][A!Next1(d)])>>
  BY <1>2 DEF A!KindHere
<1>. QED
  BY <1>2, <1>6, <1>7

\* Only the dispatch and a missing token are recorded.
LEMMA FewRecord ==
  ASSUME [A!Next]_A!vars
  PROVE  \/ UNCHANGED A!history
         \/ \E p \in A!Posts : A!Dispatch(p)
         \/ \E d \in Deliveries : A!TokenRefused(d)
<1>1. ASSUME \/ \E d \in Deliveries :
                  \/ A!DeliverSteps(d) /\ ~A!TokenRefused(d)
                  \/ A!UploadFails(d) \/ A!StoreFails(d) \/ A!SendFails(d)
             \/ \E a \in A!Assets : A!TurnsVideo(a)
             \/ A!TokenExpires \/ A!Callback \/ A!Crash
             \/ \E k \in A!Keys : A!Settles(k) \/ A!GoesStale(k)
             \/ \E x \in Deliveries \X A!Keys : A!MaxProcesses(x)
             \/ \E p \in A!Posts : A!SchedulePost(p) \/ A!Fire(p) \/ A!ResumePost(p)
             \/ UNCHANGED A!vars
      PROVE  UNCHANGED A!history
  BY <1>1 DEF A!DeliverSteps, A!Deliver, A!Find, A!UploadToVk, A!UploadToMax, A!Uploaded, A!Store,
     A!VideoReady, A!VideoTimesOut, A!Send, A!UploadFails, A!StoreFails, A!SendFails,
     A!TurnsVideo, A!TokenExpires, A!Callback, A!Crash, A!Settles, A!GoesStale, A!MaxProcesses,
     A!SchedulePost, A!Fire, A!ResumePost, A!vars, A!history
<1>. QED
  BY <1>1, Zenon DEF A!Next, A!DeliverSteps

\* Who is dispatched is cleared with the kinds of now if all is there, and starts anew.
LEMMA DispatchClears ==
  ASSUME RestTyped, HistoryTyped, NEW p \in A!Posts, A!Dispatch(p)
  PROVE  /\ HistoryTyped'
         /\ \A e \in Deliveries : cleared'[e] # A!NotCleared =>
              \/ cleared'[e] = cleared[e] /\ refused'[e] \in {refused[e], A!NotCleared}
              \/ /\ cleared'[e] = kind /\ refused'[e] = A!NotCleared
                 /\ A!IsVk(e[2]) /\ step[e] = "idle" /\ A!Cached(e[2]) = A!Assets
<1>1. PICK due \in SUBSET Deliveries :
        /\ due = {d \in Deliveries : d[1] = p /\ deliveryRow[d] = "pending" /\ step[d] = "idle"}
        /\ cleared' = [d \in Deliveries |->
                         IF d \notin due \ queued THEN cleared[d]
                         ELSE IF A!IsVk(d[2]) /\ ~A!NeedsVkUpload(p, {"pending"}) THEN kind
                         ELSE A!NotCleared]
        /\ refused' = [d \in Deliveries |-> IF d \in due THEN A!NotCleared ELSE refused[d]]
  BY DEF A!Dispatch
<1>2. kind \in [A!Assets -> A!Kinds]
  BY DEF RestTyped
<1>3. HistoryTyped'
  BY <1>1, <1>2 DEF HistoryTyped
<1>4. ASSUME NEW e \in Deliveries, cleared'[e] # A!NotCleared
      PROVE  \/ cleared'[e] = cleared[e] /\ refused'[e] \in {refused[e], A!NotCleared}
             \/ /\ cleared'[e] = kind /\ refused'[e] = A!NotCleared
                /\ A!IsVk(e[2]) /\ step[e] = "idle" /\ A!Cached(e[2]) = A!Assets
  <2>1. CASE e \notin due \ queued
    BY <1>1, <2>1
  <2>2. CASE e \in due \ queued
    <3>1. A!IsVk(e[2]) /\ ~A!NeedsVkUpload(p, {"pending"}) /\ cleared'[e] = kind
      BY <1>1, <1>4, <2>2
    <3>2. e[1] = p /\ deliveryRow[e] = "pending" /\ step[e] = "idle" /\ refused'[e] = A!NotCleared
      BY <1>1, <2>2
    <3>3. A!Cached(e[2]) = A!Assets
      BY <3>1, <3>2 DEF A!NeedsVkUpload
    <3>. QED
      BY <3>1, <3>2, <3>3
  <2>. QED
    BY <2>1, <2>2
<1>. QED
  BY <1>3, <1>4

LEMMA ClearedStep ==
  ASSUME A!AttachmentsAssumption, SourceInv, RestTyped, ClearedInv, [A!Next]_A!vars
  PROVE  ClearedInv'
<1>1. HandlerTyped /\ HistoryTyped
  BY DEF SourceInv, ClearedInv
<1>2. ASSUME NEW e \in Deliveries
      PROVE  FindsAll(cache, e, cleared[e], refused[e], step[e], asKind[e])
  BY DEF ClearedInv
<1>3. ASSUME NEW e \in Deliveries, NEW c \in [A!Assets -> A!Kinds], NEW a \in A!Assets,
             cache[<<a, A!Place(e[2]), A!Scope(c[a])>>].by # A!NoOne
      PROVE  cache'[<<a, A!Place(e[2]), A!Scope(c[a])>>].by # A!NoOne
  <2>1. A!Place(e[2]) \in A!Places
    BY DEF A!AttachmentsAssumption, A!Place, A!Places, A!IsVk
  <2>2. <<a, A!Place(e[2]), A!Scope(c[a])>> \in A!Keys
    BY <2>1 DEF A!Keys, A!Scope
  <2>. QED
    BY <1>3, <2>2, CacheGrows
<1>4. ASSUME NEW e \in Deliveries, cleared[e] # A!NotCleared, step'[e] = "uploading"
      PROVE  asKind'[e] # cleared[e]
  <2>1. CASE step[e] = "uploading" /\ asKind'[e] = asKind[e]
    BY <1>2, <1>4, <2>1 DEF FindsAll
  <2>2. CASE A!Find(e)
    <3>1. A!IsVk(e[2]) /\ \A a \in A!Assets : cache[<<a, A!Place(e[2]), A!Scope(cleared[e][a])>>].by # A!NoOne
      BY <1>2, <1>4 DEF FindsAll
    <3>2. PICK a \in A!Assets : cache[<<a, A!Place(e[2]), A!Scope(asKind[e][a])>>].by = A!NoOne
      BY <1>4, <2>2, <3>1, ClearedFindsAll
    <3>3. asKind' = asKind
      BY <2>2 DEF A!Find
    <3>. QED
      BY <3>1, <3>2, <3>3
  <2>. QED
    BY <1>1, <1>4, <2>1, <2>2, OnlyFindUploads
<1>5. ASSUME NEW e \in Deliveries, cleared'[e] = cleared[e],
             cleared[e] # A!NotCleared => refused'[e] # cleared[e]
      PROVE  FindsAll(cache', e, cleared'[e], refused'[e], step'[e], asKind'[e])
  <2>1. CASE cleared[e] = A!NotCleared
    BY <1>5, <2>1 DEF FindsAll
  <2>2. CASE cleared[e] # A!NotCleared
    <3>1. /\ A!IsVk(e[2]) /\ cleared[e] \in [A!Assets -> A!Kinds]
          /\ \A a \in A!Assets : cache[<<a, A!Place(e[2]), A!Scope(cleared[e][a])>>].by # A!NoOne
      BY <1>1, <1>2, <2>2 DEF FindsAll, HistoryTyped
    <3>2. \A a \in A!Assets : cache'[<<a, A!Place(e[2]), A!Scope(cleared[e][a])>>].by # A!NoOne
      BY <1>3, <3>1
    <3>3. step'[e] = "uploading" => asKind'[e] # cleared[e]
      BY <1>4, <2>2
    <3>. QED
      BY <1>5, <2>2, <3>1, <3>2, <3>3 DEF FindsAll
  <2>. QED
    BY <2>1, <2>2
<1>6. CASE UNCHANGED A!history
  <2>1. cleared' = cleared /\ refused' = refused
    BY <1>6 DEF A!history
  <2>2. \A e \in Deliveries : cleared[e] # A!NotCleared => refused'[e] # cleared[e]
    BY <1>2, <2>1 DEF FindsAll
  <2>3. \A e \in Deliveries : FindsAll(cache', e, cleared'[e], refused'[e], step'[e], asKind'[e])
    BY <1>5, <2>1, <2>2
  <2>. QED
    BY <1>1, <2>1, <2>3 DEF ClearedInv, HistoryTyped
<1>7. ASSUME NEW p \in A!Posts, A!Dispatch(p) PROVE ClearedInv'
  <2>1. UNCHANGED <<kind, step, asKind, cache>>
    BY <1>7 DEF A!Dispatch, A!handler, A!store
  <2>2. ASSUME NEW e \in Deliveries
        PROVE  FindsAll(cache', e, cleared'[e], refused'[e], step'[e], asKind'[e])
    <3>1. CASE cleared'[e] = A!NotCleared
      BY <3>1 DEF FindsAll
    <3>2. CASE cleared'[e] # A!NotCleared /\ cleared'[e] = cleared[e]
                 /\ refused'[e] \in {refused[e], A!NotCleared}
      BY <1>2, <1>5, <3>2 DEF FindsAll
    <3>3. CASE /\ cleared'[e] # A!NotCleared
               /\ cleared'[e] = kind /\ refused'[e] = A!NotCleared
               /\ A!IsVk(e[2]) /\ step[e] = "idle" /\ A!Cached(e[2]) = A!Assets
      <4>1. \A a \in A!Assets : cache[<<a, A!Place(e[2]), A!Scope(kind[a])>>].by # A!NoOne
        BY <3>3 DEF A!Cached, A!Entry
      <4>. QED
        BY <2>1, <3>3, <4>1 DEF FindsAll
    <3>. QED
      BY <1>1, <1>7, <3>1, <3>2, <3>3, DispatchClears
  <2>3. HistoryTyped'
    BY <1>1, <1>7, DispatchClears
  <2>. QED
    BY <2>2, <2>3 DEF ClearedInv
<1>8. ASSUME NEW d \in Deliveries, A!TokenRefused(d) PROVE ClearedInv'
  <2>1. /\ step[d] = "uploading" /\ cleared' = cleared
        /\ refused' = [refused EXCEPT ![d] = asKind[d]]
    BY <1>8 DEF A!TokenRefused
  <2>2. \A e \in Deliveries : cleared[e] # A!NotCleared => refused'[e] # cleared[e]
    <3>1. ASSUME NEW e \in Deliveries, cleared[e] # A!NotCleared PROVE refused'[e] # cleared[e]
      <4>1. CASE e = d
        BY <1>1, <1>2, <2>1, <3>1, <4>1 DEF FindsAll, HistoryTyped
      <4>2. CASE e # d
        BY <1>1, <1>2, <2>1, <3>1, <4>2 DEF FindsAll, HistoryTyped
      <4>. QED
        BY <4>1, <4>2
    <3>. QED
      BY <3>1
  <2>3. \A e \in Deliveries : FindsAll(cache', e, cleared'[e], refused'[e], step'[e], asKind'[e])
    BY <1>5, <2>1, <2>2
  <2>4. HistoryTyped'
    BY <1>1, <2>1 DEF HistoryTyped, HandlerTyped
  <2>. QED
    BY <2>3, <2>4 DEF ClearedInv
<1>. QED
  BY <1>6, <1>7, <1>8, FewRecord

-----------------------------------------------------------------------------
(***************************************************************************)
(* The theorems.                                                           *)
(***************************************************************************)
SendInv == RowsTyped /\ RestTyped /\ SourceInv /\ ClearedInv

LEMMA SendStarts ==
  ASSUME A!AttachmentsAssumption, A!Init
  PROVE  SendInv
<1>1. MaxTries \in Nat \ {0} /\ MaxMishaps \in Nat
  BY DEF A!AttachmentsAssumption
<1>2. RowsTyped
  BY <1>1 DEF A!Init, RowsTyped
<1>3. RestTyped
  BY <1>1, FirstKindTyped DEF A!Init, RestTyped, KindFits
<1>4. ClearedInv
  BY DEF A!Init, ClearedInv, HistoryTyped, FindsAll
<1>. QED
  BY <1>2, <1>3, <1>4, SourceStarts DEF SendInv

LEMMA SendStep ==
  ASSUME A!AttachmentsAssumption, SendInv, [A!Next]_A!vars
  PROVE  SendInv'
BY RowsStep, RestStep, SourceStep, ClearedStep DEF SendInv

\* Every message has all files of its post, in order, in the right form, made for the
\* place it goes to, and with no video that MAX still processes: however handlers
\* share uploads, are broken off or retried, and whenever a file turns into a video.
THEOREM ReferencesAreSound == AttachmentsSpec => []ReferencesSound
<1>1. A!Init => SendInv
  BY SendingAssumption, SendStarts
<1>2. SendInv /\ [A!Next]_A!vars => SendInv'
  BY SendingAssumption, SendStep
<1>3. SendInv => ReferencesSound
  <2>1. SendInv => A!TypeOK
    BY DEF SendInv, RowsTyped, RestTyped, SourceInv, HandlerTyped, StoreTyped, ClearedInv,
       HistoryTyped, A!TypeOK
  <2>. QED
    BY <2>1, SendingAssumption, CallsAreRight DEF SendInv, ReferencesSound, A!ReferencesSound
<1>. QED
  BY <1>1, <1>2, <1>3, PTL DEF AttachmentsSpec, A!Spec

\* Whoever was cleared as having all its files is refused no token for them.
THEOREM ClearedIsNotRefused == AttachmentsSpec => []ClearedNeedNoToken
<1>1. A!Init => SendInv
  BY SendingAssumption, SendStarts
<1>2. SendInv /\ [A!Next]_A!vars => SendInv'
  BY SendingAssumption, SendStep
<1>3. SendInv => ClearedNeedNoToken
  BY DEF SendInv, ClearedInv, FindsAll, ClearedNeedNoToken, A!ClearedNeedNoToken
<1>. QED
  BY <1>1, <1>2, <1>3, PTL DEF AttachmentsSpec, A!Spec

\* A reference that is kept is not made again.
LEMMA KeptIsNotMade ==
  ASSUME A!AttachmentsAssumption, SendInv, A!Next, NEW x \in Deliveries \X A!Keys,
         made[x].fate = "kept"
  PROVE  made'[x].fate # "inHand"
<1>1. StoreTyped
  BY DEF SendInv, SourceInv
<1>2. ASSUME NEW d \in Deliveries, step[d] = "uploading", A!Uploaded(d)
      PROVE  made'[x].fate # "inHand"
  <2>. DEFINE k == A!Key(d)
              r == [form |-> A!Form(A!KindHere(d)), fate |-> "inHand",
                   state |-> IF A!IsMaxVideo(d) THEN "processing" ELSE "ready"]
  <2>1. made[<<d, k>>].fate # "kept"
    BY <1>2, AtWork DEF SendInv, InWork
  <2>2. made' = [made EXCEPT ![<<d, k>>] = r]
    BY <1>2 DEF A!Uploaded
  <2>. HIDE DEF k, r
  <2>3. x # <<d, k>>
    BY <2>1
  <2>4. made'[x] = made[x]
    BY <1>1, <2>2, <2>3 DEF StoreTyped
  <2>. QED
    BY <2>4
<1>3. ASSUME NEW d \in Deliveries, NEW fate \in {"kept", "lost"}, A!Stored(d, fate),
             step[d] = "storing"
      PROVE  made'[x].fate # "inHand"
  <2>1. A!Key(d) \in A!Keys
    BY <1>3, AtWork DEF SendInv
  <2>2. fate \in A!Fates
    BY DEF A!Fates
  <2>3. PICK m \in Deliveries, o \in A!Keys : x = <<m, o>>
    OBVIOUS
  <2>4. CASE x = <<d, A!Key(d)>>
    BY <1>1, <1>3, <2>1, <2>2, <2>4, StoredDoes
  <2>5. CASE x # <<d, A!Key(d)>>
    <3>1. <<m, o>> # <<d, A!Key(d)>> => made'[<<m, o>>] = made[<<m, o>>]
      BY <1>1, <1>3, <2>1, <2>2, StoredDoes, ZenonT(60)
    <3>2. made'[x] = made[x]
      BY <2>3, <2>5, <3>1, Zenon
    <3>. QED
      BY <3>2
  <2>. QED
    BY <2>4, <2>5
<1>4. ASSUME NEW k \in A!Keys, A!GoesStale(k) PROVE made'[x].fate # "inHand"
  <2>1. made[x] \in [form : A!Forms, state : A!States, fate : A!Fates]
    BY <1>1 DEF StoreTyped
  <2>2. made'[x] = IF x[2] = k /\ made[x].fate = "kept"
                   THEN [made[x] EXCEPT !.fate = "stale"] ELSE made[x]
    BY <1>1, <1>4 DEF A!GoesStale, StoreTyped
  <2>. QED
    BY <2>1, <2>2
<1>5. ASSUME NEW y, NEW st, made' = [made EXCEPT ![y].state = st] PROVE made'[x].fate # "inHand"
  <2>. DEFINE r == [made[y] EXCEPT !.state = st]
  <2>1. made[x] \in [form : A!Forms, state : A!States, fate : A!Fates]
    BY <1>1 DEF StoreTyped
  <2>2. x = y => r.fate = made[y].fate
    BY <2>1
  <2>3. made' = [made EXCEPT ![y] = r]
    BY <1>5
  <2>. HIDE DEF r
  <2>. QED
    BY <1>1, <2>2, <2>3 DEF StoreTyped
<1>10. ASSUME NEW y \in Deliveries \X A!Keys, A!MaxProcesses(y) PROVE made'[x].fate # "inHand"
  BY <1>5, <1>10 DEF A!MaxProcesses
<1>11. ASSUME NEW k \in A!Keys, A!Settles(k) PROVE made'[x].fate # "inHand"
  BY <1>5, <1>11 DEF A!Settles
<1>6. CASE A!Crash
  <2>1. made'[x] = IF made[x].fate = "inHand" THEN [made[x] EXCEPT !.fate = "lost"] ELSE made[x]
    BY <1>1, <1>6 DEF A!Crash, StoreTyped
  <2>. QED
    BY <2>1
<1>7. ASSUME \/ \E d \in Deliveries :
                  \/ A!Deliver(d) \/ A!Find(d) \/ A!TokenRefused(d) \/ A!VideoReady(d)
                  \/ A!VideoTimesOut(d) \/ A!Send(d) \/ A!UploadFails(d) \/ A!SendFails(d)
             \/ \E a \in A!Assets : A!TurnsVideo(a)
             \/ A!TokenExpires \/ A!Callback
             \/ \E p \in A!Posts : A!SchedulePost(p) \/ A!Fire(p) \/ A!Dispatch(p)
                \/ A!ResumePost(p)
      PROVE  made'[x].fate # "inHand"
  <2>1. UNCHANGED made
    BY <1>7 DEF A!Deliver, A!Find, A!TokenRefused, A!VideoReady, A!VideoTimesOut, A!Send,
       A!UploadFails, A!SendFails, A!TurnsVideo, A!TokenExpires, A!Callback,
       A!SchedulePost, A!Fire, A!Dispatch, A!ResumePost, A!store
  <2>. QED
    BY <2>1
<1>8. ASSUME NEW d \in Deliveries, A!UploadToVk(d) \/ A!UploadToMax(d)
      PROVE  made'[x].fate # "inHand"
  BY <1>2, <1>8 DEF A!UploadToVk, A!UploadToMax
<1>9. ASSUME NEW d \in Deliveries, A!Store(d) \/ A!StoreFails(d)
      PROVE  made'[x].fate # "inHand"
  BY <1>3, <1>9 DEF A!Store, A!StoreFails
<1>. QED
  BY <1>4, <1>6, <1>7, <1>8, <1>9, <1>10, <1>11, Zenon DEF A!Next, A!DeliverSteps

\* Nothing is uploaded again where the same delivery has a stored reference to it.
THEOREM RetriesUploadNothing == AttachmentsSpec => RetriesReuse
<1>. DEFINE Reuse == \A x \in DOMAIN made : made[x].fate = "kept" => made'[x].fate # "inHand"
<1>1. A!Init => SendInv
  BY SendingAssumption, SendStarts
<1>2. SendInv /\ [A!Next]_A!vars => SendInv'
  BY SendingAssumption, SendStep
<1>3. SendInv /\ [A!Next]_A!vars => [Reuse]_A!vars
  <2>1. SendInv => DOMAIN made = Deliveries \X A!Keys
    BY DEF SendInv, SourceInv, StoreTyped
  <2>2. SendInv /\ A!Next => Reuse
    BY SendingAssumption, <2>1, KeptIsNotMade
  <2>. QED
    BY <2>2
<1>. QED
  BY <1>1, <1>2, <1>3, PTL DEF AttachmentsSpec, A!Spec, RetriesReuse, A!RetriesReuse

=============================================================================
