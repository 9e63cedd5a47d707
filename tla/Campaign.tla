------------------------------ MODULE Campaign ------------------------------
(***************************************************************************)
(* The delivery of ONE campaign (a Post row and its PostDelivery rows) to  *)
(* its groups: the panel's requests, the BullMQ dispatch and deliver jobs, *)
(* the reconciler's sweep, and the platform that publishes.  Every         *)
(* separate database statement, queue call or platform call of the code is *)
(* a separate step here, because any other actor may run in between.       *)
(*                                                                         *)
(* Postgres (status, stopRequested, row) survives a crash; the handlers    *)
(* (pc, requestPc, dispatchPc, sweepPc) die with the process; the jobs in  *)
(* Redis survive or are lost with it.                                      *)
(***************************************************************************)
EXTENDS Integers

CONSTANTS
  Groups,      \* target groups; a delivery is identified by its group
  Runners,     \* concurrent executions there may be of one delivery's job
  Requests,    \* panel requests; each performs one operation
  Ops,         \* operations a request may perform
  Attempts,    \* RETRY_ATTEMPTS of a deliver job
  SlowSends,   \* may a platform call outlive STUCK_SENDING_MS (large uploads)?
  MaxCrashes,  \* bound: crashes of the process
  MaxFaults    \* bound: errors thrown by Postgres or Redis

ASSUME AttemptsAssumption == Attempts \in Nat \ {0}
ASSUME RunnersAssumption  == {"none", "wait"} \cap Runners = {}
ASSUME SlowAssumption     == SlowSends \in BOOLEAN
ASSUME BoundsAssumption   == MaxCrashes \in Nat /\ MaxFaults \in Nat

VARIABLES
  status,         \* Post.status
  stopRequested,  \* Post.stopRequested
  row,            \* PostDelivery.status of each group; "none": no such row
  published,      \* messages the platform created for each group
  dispatchJob,    \* the job dispatch-<post>
  job,            \* the job deliver-<delivery>: absent, queued, or its holder
  tried,          \* attemptsMade of that job
  pc,             \* where each runner is in deliver()
  dispatchPc,     \* where the dispatch handler is
  requestPc,      \* where each request is
  sweepPc,        \* where the reconciler's sweep is
  stuck,          \* deliveries the sweep has found stuck in "sending"
  crashes, faults

store   == <<status, stopRequested, row>>
queues  == <<dispatchJob, job, tried>>
budget  == <<crashes, faults>>
handler == <<pc, dispatchPc, requestPc, sweepPc, stuck>>
vars    == <<store, published, queues, handler, budget>>

PostStatus == {"draft", "scheduled", "sending", "sent", "partially_failed",
               "stopped"}
RowStatus  == {"none", "pending", "sending", "sent", "failed", "unknown",
               "skipped_by_stop"}
IN_FLIGHT  == {"pending", "sending"}
\* Mutant: "send to the rest" that also takes the unknown ones.
RESUMABLE_AND_UNKNOWN == {"failed", "skipped_by_stop", "unknown"}

RESUMABLE  == {"failed", "skipped_by_stop"}

\* A handler whose pc is a terminal post status has read the rows in
\* finalizeIfComplete and is about to write that status.
Terminal    == {"sent", "partially_failed", "stopped"}
DeliverPc   == {"idle", "skip", "limit", "send", "published", "ambiguous",
                "retryable", "permanent", "finalize"} \cup Terminal
InCall      == {"send", "published", "ambiguous", "retryable", "permanent"}
DispatchPc  == {"idle", "mark", "list", "finalize"} \cup Terminal
RequestPc   == {"new", "schedule", "stop", "unqueue", "finalize", "resume",
                "enqueue", "done"} \cup Terminal
SweepPc     == {"idle", "deliveries", "mark", "finalize"} \cup Terminal

TypeOK ==
  /\ status \in PostStatus
  /\ stopRequested \in BOOLEAN
  /\ row \in [Groups -> RowStatus]
  /\ published \in [Groups -> Nat]
  /\ dispatchJob \in {"none", "wait", "active"}
  /\ job \in [Groups -> {"none", "wait"} \cup Runners]
  /\ tried \in [Groups -> 0 .. Attempts - 1]
  /\ pc \in [Groups -> [Runners -> DeliverPc]]
  /\ dispatchPc \in DispatchPc
  /\ requestPc \in [Requests -> RequestPc]
  /\ sweepPc \in SweepPc
  /\ stuck \subseteq Groups
  /\ crashes \in 0 .. MaxCrashes
  /\ faults \in 0 .. MaxFaults

(***************************************************************************)
(* createPost leaves a draft with one pending delivery per group; a firing *)
(* template creates the same row already "scheduled", its job not queued.  *)
(***************************************************************************)
Init ==
  /\ status \in {"draft", "scheduled"}
  /\ stopRequested = FALSE
  /\ row = [g \in Groups |-> "pending"]
  /\ published = [g \in Groups |-> 0]
  /\ dispatchJob = "none"
  /\ job = [g \in Groups |-> "none"]
  /\ tried = [g \in Groups |-> 0]
  /\ pc = [g \in Groups |-> [w \in Runners |-> "idle"]]
  /\ dispatchPc = "idle"
  /\ requestPc = [r \in Requests |-> "new"]
  /\ sweepPc = "idle"
  /\ stuck = {}
  /\ crashes = 0
  /\ faults = 0

(***************************************************************************)
(* What the handlers share.                                                *)
(***************************************************************************)
Settled == \A g \in Groups : row[g] \notin IN_FLIGHT

\* Mutant: the verdict that forgets the unknown deliveries.
VerdictOfFailed ==
  IF \E g \in Groups : row[g] = "skipped_by_stop" THEN "stopped"
  ELSE IF \E g \in Groups : row[g] = "failed" THEN "partially_failed"
  ELSE "sent"

\* The precedence of finalizeIfComplete: a stop explains missing deliveries.
Verdict ==
  IF \E g \in Groups : row[g] = "skipped_by_stop" THEN "stopped"
  ELSE IF \E g \in Groups : row[g] \in {"failed", "unknown"}
       THEN "partially_failed"
       ELSE "sent"

\* Where a handler goes after the groupBy of finalizeIfComplete.
AfterCount(over) == IF Settled THEN Verdict ELSE over

\* enqueueDispatch: a stable id, so a job that is queued or running is kept.
EnqueueDispatch ==
  dispatchJob' = IF dispatchJob = "none" THEN "wait" ELSE dispatchJob

\* An UPDATE ... WHERE status IN from.
RowsFrom(from, to) ==
  row' = [g \in Groups |-> IF row[g] \in from THEN to ELSE row[g]]

(***************************************************************************)
(* deliver(): one execution w of the job of delivery g.                    *)
(***************************************************************************)
At(g, w, place) == pc[g][w] = place
Goto(g, w, place) == pc' = [pc EXCEPT ![g][w] = place]

\* The handler returned, or gave its job up for good: the job is removed.
JobGone(g, w) ==
  /\ Goto(g, w, "idle")
  /\ job'   = IF job[g] = w THEN [job EXCEPT ![g] = "none"] ELSE job
  /\ tried' = IF job[g] = w THEN [tried EXCEPT ![g] = 0] ELSE tried

\* The job goes back to the queue, with the attempts it has then made.
JobBack(g, w, made) ==
  /\ Goto(g, w, "idle")
  /\ job'   = IF job[g] = w THEN [job EXCEPT ![g] = "wait"] ELSE job
  /\ tried' = IF job[g] = w THEN [tried EXCEPT ![g] = made] ELSE tried

LastAttempt(g) == tried[g] + 1 >= Attempts

\* The handler threw: BullMQ retries it or, after the last attempt, drops it.
JobThrown(g, w) ==
  IF LastAttempt(g) THEN JobGone(g, w) ELSE JobBack(g, w, tried[g] + 1)

DeliverOnly == UNCHANGED <<status, stopRequested, dispatchJob, dispatchPc,
                           requestPc, sweepPc, stuck, budget>>

\* A worker takes the job and reads the row: no longer pending, nothing to do.
DeliverSkipSettled(g) ==
  /\ job[g] = "wait"
  /\ row[g] # "pending"
  /\ job' = [job EXCEPT ![g] = "none"]
  /\ tried' = [tried EXCEPT ![g] = 0]
  /\ UNCHANGED <<store, published, dispatchJob, handler, budget>>

\* ... still pending: the snapshot it acts on is the one read here.
DeliverRead(g, w) ==
  /\ job[g] = "wait"
  /\ At(g, w, "idle")
  /\ row[g] = "pending"
  /\ job' = [job EXCEPT ![g] = w]
  /\ Goto(g, w, IF stopRequested THEN "skip" ELSE "limit")
  /\ UNCHANGED <<row, published, tried>>
  /\ DeliverOnly

DeliverSkipStopped(g, w) ==
  /\ At(g, w, "skip")
  /\ row[g] # "none"
  /\ row' = [row EXCEPT ![g] = "skipped_by_stop"]
  /\ Goto(g, w, "finalize")
  /\ UNCHANGED <<published, job, tried>>
  /\ DeliverOnly

\* No slot within the cap: moveToDelayed, not counted as an attempt.
DeliverPostpone(g, w) ==
  /\ At(g, w, "limit")
  /\ JobBack(g, w, tried[g])
  /\ UNCHANGED <<row, published>>
  /\ DeliverOnly

\* The wait for the slot is over: evidence first, unconditionally.
DeliverMarkSending(g, w) ==
  /\ At(g, w, "limit")
  /\ row[g] # "none"
  /\ row' = [row EXCEPT ![g] = "sending"]
  /\ Goto(g, w, "send")
  /\ UNCHANGED <<published, job, tried>>
  /\ DeliverOnly

\* The platform created the message and answered.
PlatformPublishes(g, w) ==
  /\ At(g, w, "send")
  /\ published' = [published EXCEPT ![g] = @ + 1]
  /\ Goto(g, w, "published")
  /\ UNCHANGED <<row, job, tried>>
  /\ DeliverOnly

\* A timeout, a dropped connection, a 5xx: it may have created the message.
PlatformAnswerLost(g, w) ==
  /\ At(g, w, "send")
  /\ \E n \in {0, 1} : published' = [published EXCEPT ![g] = @ + n]
  /\ Goto(g, w, "ambiguous")
  /\ UNCHANGED <<row, job, tried>>
  /\ DeliverOnly

\* The platform refused: by a rate limit, or for good.
PlatformRefuses(g, w) ==
  /\ At(g, w, "send")
  /\ \E kind \in {"retryable", "permanent"} : Goto(g, w, kind)
  /\ UNCHANGED <<row, published, job, tried>>
  /\ DeliverOnly

\* handleDeliveryError, retryable with attempts left: pending, and throw.
DeliverRetry(g, w) ==
  /\ At(g, w, "retryable")
  /\ ~LastAttempt(g)
  /\ row[g] # "none"
  /\ row' = [row EXCEPT ![g] = "pending"]
  /\ JobThrown(g, w)
  /\ UNCHANGED published
  /\ DeliverOnly

\* Mutant: a lost answer taken for a refusal.
RecordedFailed(g, w) == IF At(g, w, "published") THEN "sent" ELSE "failed"

\* The status deliver() records for what the platform answered.
Recorded(g, w) ==
  IF At(g, w, "published") THEN "sent"
  ELSE IF At(g, w, "ambiguous") THEN "unknown"
  ELSE "failed"

DeliverRecord(g, w) ==
  /\ pc[g][w] \in {"published", "ambiguous", "retryable", "permanent"}
  /\ At(g, w, "retryable") => LastAttempt(g)
  /\ row[g] # "none"
  /\ row' = [row EXCEPT ![g] = Recorded(g, w)]
  /\ Goto(g, w, "finalize")
  /\ UNCHANGED <<published, job, tried>>
  /\ DeliverOnly

\* safeFinalize, first statement: count the rows by status.
DeliverCount(g, w) ==
  /\ At(g, w, "finalize")
  /\ IF Settled
     THEN Goto(g, w, Verdict) /\ UNCHANGED <<job, tried>>
     ELSE JobGone(g, w)
  /\ UNCHANGED <<row, published>>
  /\ DeliverOnly

\* safeFinalize, second statement: write the status computed from the count.
DeliverConclude(g, w) ==
  /\ pc[g][w] \in Terminal
  /\ status' = pc[g][w]
  /\ JobGone(g, w)
  /\ UNCHANGED <<stopRequested, row, published, dispatchJob, dispatchPc,
                 requestPc, sweepPc, stuck, budget>>

(***************************************************************************)
(* dispatch(): the fan-out.  One execution at a time: the job id is the    *)
(* post's, and BullMQ's lock is held by the running one.                   *)
(***************************************************************************)
DispatchOnly == UNCHANGED <<stopRequested, row, published, pc, requestPc,
                            sweepPc, stuck, budget>>

\* Stopped, not in a state to be sent, or waiting for a VK uploader token.
DispatchSkip ==
  /\ dispatchJob = "wait"
  /\ dispatchJob' = "none"
  /\ UNCHANGED <<status, job, tried, dispatchPc>>
  /\ DispatchOnly

DispatchAccept ==
  /\ dispatchJob = "wait"
  /\ ~stopRequested
  /\ status \in {"scheduled", "sending"}
  /\ dispatchJob' = "active"
  /\ dispatchPc' = "mark"
  /\ UNCHANGED <<status, job, tried>>
  /\ DispatchOnly

DispatchMark ==
  /\ dispatchPc = "mark"
  /\ status' = "sending"
  /\ dispatchPc' = "list"
  /\ UNCHANGED queues
  /\ DispatchOnly

\* The pending rows are listed and each gets its job (enqueueDelivery keeps a
\* job still queued or running under the id).  One step: a job queued for a
\* row that has since changed only reads it and ends.
Queued(S) ==
  job' = [g \in Groups |-> IF g \in S /\ row[g] = "pending" /\ job[g] = "none"
                           THEN "wait" ELSE job[g]]

DispatchFanOut ==
  /\ dispatchPc = "list"
  /\ Queued(Groups)
  /\ dispatchPc' = "finalize"
  /\ UNCHANGED <<status, dispatchJob, tried>>
  /\ DispatchOnly

DispatchCount ==
  /\ dispatchPc = "finalize"
  /\ dispatchPc' = AfterCount("idle")
  /\ dispatchJob' = IF Settled THEN dispatchJob ELSE "none"
  /\ UNCHANGED <<status, job, tried>>
  /\ DispatchOnly

DispatchConclude ==
  /\ dispatchPc \in Terminal
  /\ status' = dispatchPc
  /\ dispatchPc' = "idle"
  /\ dispatchJob' = "none"
  /\ UNCHANGED <<job, tried>>
  /\ DispatchOnly

(***************************************************************************)
(* The panel's requests: schedulePost, stopPost, resumePost.               *)
(***************************************************************************)
Move(r, from, to) ==
  /\ requestPc[r] = from
  /\ requestPc' = [requestPc EXCEPT ![r] = to]

RequestOnly == UNCHANGED <<published, job, tried, pc, dispatchPc,
                           sweepPc, stuck, budget>>

ScheduleCheck(r) ==
  /\ "schedule" \in Ops
  /\ status = "draft"
  /\ Move(r, "new", "schedule")
  /\ UNCHANGED <<store, dispatchJob>>
  /\ RequestOnly

ScheduleCommit(r) ==
  /\ Move(r, "schedule", "enqueue")
  /\ status' = "scheduled"
  /\ UNCHANGED <<stopRequested, row, dispatchJob>>
  /\ RequestOnly

RequestEnqueue(r) ==
  /\ Move(r, "enqueue", "done")
  /\ EnqueueDispatch
  /\ UNCHANGED store
  /\ RequestOnly

StopCheck(r) ==
  /\ "stop" \in Ops
  /\ status \in {"sending", "scheduled"}
  /\ Move(r, "new", "stop")
  /\ UNCHANGED <<store, dispatchJob>>
  /\ RequestOnly

StopCommit(r) ==
  /\ Move(r, "stop", "unqueue")
  /\ stopRequested' = TRUE
  /\ RowsFrom({"pending"}, "skipped_by_stop")
  /\ UNCHANGED <<status, dispatchJob>>
  /\ RequestOnly

\* removeQueuedJobsForPost: a running dispatch job cannot be removed.
StopUnqueue(r) ==
  /\ Move(r, "unqueue", "finalize")
  /\ dispatchJob' = IF dispatchJob = "wait" THEN "none" ELSE dispatchJob
  /\ UNCHANGED store
  /\ RequestOnly

\* Mutant: stopPost that does not finalize.
StopNoFinalize(r) ==
  /\ Move(r, "finalize", "done")
  /\ UNCHANGED <<store, dispatchJob>>
  /\ RequestOnly

StopCount(r) ==
  /\ Move(r, "finalize", AfterCount("done"))
  /\ UNCHANGED <<store, dispatchJob>>
  /\ RequestOnly

StopConclude(r) ==
  /\ requestPc[r] \in Terminal
  /\ status' = requestPc[r]
  /\ requestPc' = [requestPc EXCEPT ![r] = "done"]
  /\ UNCHANGED <<stopRequested, row, dispatchJob>>
  /\ RequestOnly

ResumeCheck(r) ==
  /\ "resume" \in Ops
  /\ \E g \in Groups : row[g] \in RESUMABLE
  /\ Move(r, "new", "resume")
  /\ UNCHANGED <<store, dispatchJob>>
  /\ RequestOnly

ResumeCommit(r) ==
  /\ Move(r, "resume", "enqueue")
  /\ RowsFrom(RESUMABLE, "pending")
  /\ status' = "sending"
  /\ stopRequested' = FALSE
  /\ UNCHANGED dispatchJob
  /\ RequestOnly

(***************************************************************************)
(* The reconciler's sweep, one at a time.                                  *)
(***************************************************************************)
SweepTo(place) == sweepPc' = place

SweepOnly == UNCHANGED <<stopRequested, published, job, tried, pc, dispatchPc,
                         requestPc, budget>>

\* Mutant: the sweep that requeues scheduled posts only.
SweepScheduledOnly ==
  /\ sweepPc = "idle"
  /\ IF status = "scheduled" THEN EnqueueDispatch ELSE UNCHANGED dispatchJob
  /\ SweepTo("deliveries")
  /\ UNCHANGED <<status, row, stuck>>
  /\ SweepOnly

\* requeueDueScheduledPosts and resolveStuckCampaigns.  Finding the post and
\* adding its job are one step: the dispatch reads everything again.
SweepDispatch ==
  /\ sweepPc = "idle"
  /\ IF \/ status = "scheduled"
        \/ /\ status = "sending"
           /\ ~stopRequested
           /\ \E g \in Groups : row[g] = "pending"
     THEN EnqueueDispatch
     ELSE UNCHANGED dispatchJob
  /\ SweepTo("deliveries")
  /\ UNCHANGED <<status, row, stuck>>
  /\ SweepOnly

\* resolveStuckDeliveries: S is what has been "sending" for STUCK_SENDING_MS,
\* abandoned by a crash or, if sends may be slow, still uploading.
Stuck(g) ==
  /\ row[g] = "sending"
  /\ SlowSends \/ \A w \in Runners : pc[g][w] \notin InCall

SweepFindStuck(S) ==
  /\ sweepPc = "deliveries"
  /\ \A g \in S : Stuck(g)
  /\ stuck' = S
  /\ SweepTo(IF S = {} THEN "idle" ELSE "mark")
  /\ UNCHANGED <<status, row, dispatchJob>>
  /\ SweepOnly

\* Mutant: abandoned deliveries go back to be sent again.
SweepMarkPending ==
  /\ sweepPc = "mark"
  /\ row' = [g \in Groups |-> IF g \in stuck THEN "pending" ELSE row[g]]
  /\ stuck' = {}
  /\ SweepTo("finalize")
  /\ UNCHANGED <<status, dispatchJob>>
  /\ SweepOnly

\* The update goes by id: whatever the row has become since, it is "unknown".
SweepMarkUnknown ==
  /\ sweepPc = "mark"
  /\ row' = [g \in Groups |-> IF g \in stuck /\ row[g] # "none"
                              THEN "unknown" ELSE row[g]]
  /\ stuck' = {}
  /\ SweepTo("finalize")
  /\ UNCHANGED <<status, dispatchJob>>
  /\ SweepOnly

SweepCount ==
  /\ sweepPc = "finalize"
  /\ SweepTo(AfterCount("idle"))
  /\ UNCHANGED <<status, row, dispatchJob, stuck>>
  /\ SweepOnly

SweepConclude ==
  /\ sweepPc \in Terminal
  /\ status' = sweepPc
  /\ SweepTo("idle")
  /\ UNCHANGED <<row, dispatchJob, stuck>>
  /\ SweepOnly

(***************************************************************************)
(* Errors and crashes.                                                     *)
(***************************************************************************)
Fault == faults < MaxFaults /\ faults' = faults + 1

\* deliver() throws before the network call, or while it records a refusal:
\* a failed attempt of the job, the row stays as it is.
DeliverThrows(g, w) ==
  /\ pc[g][w] \in {"skip", "limit", "ambiguous", "retryable", "permanent"}
  /\ Fault
  /\ JobThrown(g, w)
  /\ UNCHANGED <<store, published, dispatchJob, dispatchPc, requestPc,
                 sweepPc, stuck, crashes>>

\* "sent" could not be written: markUnknownAfterPublish, which may fail too.
DeliverRecordFails(g, w) ==
  /\ At(g, w, "published")
  /\ Fault
  /\ \/ row' = [row EXCEPT ![g] = IF @ = "none" THEN @ ELSE "unknown"]
     \/ UNCHANGED row
  /\ Goto(g, w, "finalize")
  /\ UNCHANGED <<status, stopRequested, published, queues, dispatchPc,
                 requestPc, sweepPc, stuck, crashes>>

\* safeFinalize swallows the error: the job ends, the status is not written.
DeliverFinalizeFails(g, w) ==
  /\ pc[g][w] \in {"finalize"} \cup Terminal
  /\ Fault
  /\ JobGone(g, w)
  /\ UNCHANGED <<store, published, dispatchJob, dispatchPc, requestPc,
                 sweepPc, stuck, crashes>>

\* dispatch() throws, midway through the fan-out perhaps: retried, or failed
\* for good (a failed job is replaced when the post is dispatched again).
DispatchThrows(S) ==
  /\ dispatchPc # "idle"
  /\ Fault
  /\ Queued(IF dispatchPc = "list" THEN S ELSE {})
  /\ dispatchJob' \in {"wait", "none"}
  /\ dispatchPc' = "idle"
  /\ UNCHANGED <<store, published, tried, pc, requestPc, sweepPc, stuck,
                 crashes>>

RequestThrows(r) ==
  /\ requestPc[r] \notin {"new", "done"}
  /\ Fault
  /\ requestPc' = [requestPc EXCEPT ![r] = "done"]
  /\ UNCHANGED <<store, published, queues, pc, dispatchPc, sweepPc,
                 stuck, crashes>>

SweepThrows ==
  /\ sweepPc # "idle"
  /\ Fault
  /\ sweepPc' = "idle"
  /\ stuck' = {}
  /\ UNCHANGED <<store, published, queues, pc, dispatchPc, requestPc,
                 crashes>>

\* The process dies.  Jobs it was running stall and are queued again; jobs
\* outside keep are gone (stalled too often, or Redis was lost as well).
Crash(keep, keepDispatch) ==
  /\ crashes < MaxCrashes
  /\ crashes' = crashes + 1
  /\ job' = [g \in Groups |-> IF job[g] # "none" /\ g \in keep
                              THEN "wait" ELSE "none"]
  /\ tried' = [g \in Groups |-> IF g \in keep THEN tried[g] ELSE 0]
  /\ dispatchJob' = IF dispatchJob # "none" /\ keepDispatch
                    THEN "wait" ELSE "none"
  /\ pc' = [g \in Groups |-> [w \in Runners |-> "idle"]]
  /\ dispatchPc' = "idle"
  /\ requestPc' = [r \in Requests |->
                     IF requestPc[r] = "new" THEN "new" ELSE "done"]
  /\ sweepPc' = "idle"
  /\ stuck' = {}
  /\ UNCHANGED <<store, published, faults>>

(***************************************************************************)
(* The specification.                                                      *)
(***************************************************************************)
Deliver(g, w) ==
  \/ DeliverRead(g, w)
  \/ DeliverSkipStopped(g, w)
  \/ DeliverPostpone(g, w)
  \/ DeliverMarkSending(g, w)
  \/ PlatformPublishes(g, w)
  \/ PlatformAnswerLost(g, w)
  \/ PlatformRefuses(g, w)
  \/ DeliverRetry(g, w)
  \/ DeliverRecord(g, w)
  \/ DeliverCount(g, w)
  \/ DeliverConclude(g, w)

Dispatch ==
  \/ DispatchSkip
  \/ DispatchAccept
  \/ DispatchMark
  \/ DispatchFanOut
  \/ DispatchCount
  \/ DispatchConclude

Request(r) ==
  \/ ScheduleCheck(r)
  \/ ScheduleCommit(r)
  \/ RequestEnqueue(r)
  \/ StopCheck(r)
  \/ StopCommit(r)
  \/ StopUnqueue(r)
  \/ StopCount(r)
  \/ StopConclude(r)
  \/ ResumeCheck(r)
  \/ ResumeCommit(r)

Sweep ==
  \/ SweepDispatch
  \/ \E S \in SUBSET Groups : SweepFindStuck(S)
  \/ SweepMarkUnknown
  \/ SweepCount
  \/ SweepConclude

Failure ==
  \/ \E g \in Groups, w \in Runners :
        \/ DeliverThrows(g, w)
        \/ DeliverRecordFails(g, w)
        \/ DeliverFinalizeFails(g, w)
  \/ \E S \in SUBSET Groups : DispatchThrows(S)
  \/ \E r \in Requests : RequestThrows(r)
  \/ SweepThrows
  \/ \E keep \in SUBSET Groups, keepDispatch \in BOOLEAN :
        Crash(keep, keepDispatch)

Next ==
  \/ \E g \in Groups : DeliverSkipSettled(g)
  \/ \E g \in Groups, w \in Runners : Deliver(g, w)
  \/ Dispatch
  \/ \E r \in Requests : Request(r)
  \/ Sweep
  \/ Failure

Spec == Init /\ [][Next]_vars

(***************************************************************************)
(* Fairness: a handler that was started goes on (Node's event loop and     *)
(* BullMQ's workers keep running), the sweep's timer keeps firing, the     *)
(* platform answers or the call times out.  Strong fairness stands for     *)
(* what is granted when it is asked for again and again: a rate-limit      *)
(* slot, a dispatch that the VK token does not hold back, and the sweep    *)
(* that finds an abandoned row once it is old enough.  No request has to   *)
(* be made, nothing has to fail.                                           *)
(***************************************************************************)
Answered(g, w) ==
  \/ PlatformPublishes(g, w)
  \/ PlatformAnswerLost(g, w)
  \/ PlatformRefuses(g, w)

DeliverGoesOn(g, w) ==
  \/ DeliverRead(g, w)
  \/ DeliverSkipStopped(g, w)
  \/ Answered(g, w)
  \/ DeliverRetry(g, w)
  \/ DeliverRecord(g, w)
  \/ DeliverCount(g, w)
  \/ DeliverConclude(g, w)

RequestGoesOn(r) == requestPc[r] # "new" /\ Request(r)

Fairness ==
  /\ \A g \in Groups :
       /\ WF_vars(DeliverSkipSettled(g))
       /\ SF_vars(\E S \in SUBSET Groups : g \in S /\ SweepFindStuck(S))
       /\ \A w \in Runners : /\ WF_vars(DeliverGoesOn(g, w))
                             /\ SF_vars(DeliverMarkSending(g, w))
  /\ WF_vars(Dispatch)
  /\ SF_vars(DispatchAccept)
  /\ \A r \in Requests : WF_vars(RequestGoesOn(r))
  /\ WF_vars(Sweep)

FairSpec == Spec /\ Fairness

(***************************************************************************)
(* Safety.                                                                 *)
(***************************************************************************)

\* No group ever gets the campaign's message twice, whatever crashes, errors,
\* stalled jobs, retries, sweeps and resumes happen: what the "sending" row
\* written before the call and the resume's choice of rows are for.
NoDoublePublish == \A g \in Groups : published[g] <= 1

\* What the panel shows of a delivery is true: "sent" was published, and what
\* it offers to send (again) was not, even with a sweep that overtakes a slow
\* upload or a result that could not be written.
RowTellsTheTruth ==
  \A g \in Groups :
    /\ row[g] = "sent" => published[g] = 1
    /\ row[g] \in {"pending"} \cup RESUMABLE => published[g] = 0

\* A campaign is reported "sent" only when every group got it, although the
\* count and the write of finalizeIfComplete are separate statements.
SentMeansEveryGroup ==
  status = "sent" => \A g \in Groups : row[g] # "none" => published[g] = 1

\* What the row says about the group, in the terms of PublishOnce.
Told(s) ==
  IF s = "sent" THEN "sent"
  ELSE IF s \in {"sending", "unknown"} THEN "maybe"
  ELSE "unsent"

Once == INSTANCE PublishOnce WITH Targets <- Groups,
                                  told    <- [g \in Groups |-> Told(row[g])],
                                  copies  <- published

\* The campaign implements the promise: every step of workers, dispatch,
\* requests, sweep and crashes is a step of PublishOnce or invisible there.
PublishesOnce == Once!Spec

(***************************************************************************)
(* Liveness.                                                               *)
(***************************************************************************)
Started == status # "draft"

\* Unless it is stopped, a started campaign leaves no delivery hanging in
\* pending or sending, whatever crashes lose (the reconciler's promise).
DeliveriesSettle == [](~stopRequested) => (Started ~> Settled)

\* Without a crash or an error, a started campaign gets its terminal status,
\* stopped midway or not.
CampaignEnds ==
  [](crashes = 0 /\ faults = 0) => (Started ~> status \in Terminal)

(***************************************************************************)
(* What comments of the code say, and its steps do not keep (README).      *)
(***************************************************************************)

\* finalizeIfComplete: the status is recomputed once nothing is in flight,
\* and this is safe to run concurrently.
ConcludedWhenSettled ==
  [][status' \in Terminal /\ status' # status => Settled]_vars

\* dispatch: a campaign with nothing left to send still reaches a terminal
\* status.
NothingLeftMeansEnd ==
  Started ~> status \in Terminal
=============================================================================
