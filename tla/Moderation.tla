----------------------------- MODULE Moderation -----------------------------
(***************************************************************************)
(* ONE post that is being sent, or was: admins edit what is published and  *)
(* delete it, the reconciler deletes what is due (PostModerationService),  *)
(* while deliveries that started earlier are still under way.  A delivery  *)
(* sends the post as it read it; a request and a sweep go on with the      *)
(* deliveries they listed.  Each database statement and each platform call *)
(* is a step.                                                              *)
(*                                                                         *)
(* A text stands for all an edit may change of a message: text, overrides, *)
(* attachments.  Of the post's status (whose jobs and counts are in        *)
(* Campaign) the requests see: it is scheduled, being sent, or over.       *)
(***************************************************************************)
EXTENDS Naturals, FiniteSets

CONSTANTS
  Groups,
  Admins,        \* requests; each edits or deletes once
  Editors,       \* bound: those of them that may edit
  Sweepers,      \* auto-deletion sweeps that may run at a time
  MaxAttempts,   \* MAX_AUTO_DELETE_ATTEMPTS
  MaxFaults      \* bound: database errors, deaths and timeouts

ASSUME BoundsAssumption == MaxAttempts \in Nat \ {0} /\ MaxFaults \in Nat

VARIABLES
  text, auto,     \* the post: its text; is auto-deletion set?
  stopRequested,
  status,         \* "scheduled", "sending", or "over" for the final ones
  dispatching,    \* has a dispatch found the post ready, and not marked it yet?
  closing,        \* has somebody counted nothing in flight, and not stored it yet?
  row,            \* the deliveries
  live,           \* what each group shows: a text, or nothing
  wk, snap,       \* the worker of each delivery, and the post as it read it
  pc, list, left, \* each request: where it is, what it listed, what is left
  cur, res,       \* ... the group it is at, and the platform's answer
  form,           \* ... the auto-deletion an edit sets
  sweepPc, batch, \* each sweep, and the attempts of the deliveries it found
  sweepCur, sweepRes,
  faults,
  late            \* did anything happen after which a text may be outdated?

campaign == <<status, dispatching, closing>>
post   == <<text, auto, stopRequested, campaign>>
worker == <<wk, snap>>
admin  == <<pc, list, left, cur, res, form>>
sweep  == <<sweepPc, batch, sweepCur, sweepRes>>
ghosts == <<faults, late>>
vars   == <<post, row, live, worker, admin, sweep, ghosts>>

Texts    == {"first"} \cup Admins
Statuses == {"pending", "sending", "sent", "failed", "unknown", "skipped"}
Dues     == {"none", "ahead", "passed"}
Answers  == {"ok", "error"}
Nobody   == "nobody"
Row      == [status : Statuses, due : Dues, attempts : 0 .. MaxAttempts,
             error : BOOLEAN, deleted : BOOLEAN]
NewRow   == [status |-> "pending", due |-> "none", attempts |-> 0,
             error |-> FALSE, deleted |-> FALSE]

TypeOK ==
  /\ text \in Texts /\ auto \in BOOLEAN /\ stopRequested \in BOOLEAN
  /\ status \in {"scheduled", "sending", "over"}
  /\ dispatching \in BOOLEAN /\ closing \in BOOLEAN
  /\ row \in [Groups -> Row]
  /\ live \in [Groups -> Texts \cup {Nobody}]
  /\ wk \in [Groups -> {"idle", "waiting", "calling", "recording"}]
  /\ snap \in [Groups -> [text : Texts, auto : BOOLEAN]]
  /\ pc \in [Admins -> {"new", "stop", "drain", "save", "list", "due", "edit",
                        "edited", "delete", "deleted", "done"}]
  /\ list \in [Admins -> SUBSET Groups] /\ left \in [Admins -> SUBSET Groups]
  /\ cur \in [Admins -> Groups \cup {Nobody}]
  /\ res \in [Admins -> Answers]
  /\ form \in [Admins -> BOOLEAN]
  /\ sweepPc \in [Sweepers -> {"idle", "delete", "record"}]
  /\ batch = [s \in Sweepers |-> batch[s]]
  /\ \A s \in Sweepers : \E G \in SUBSET Groups :
       batch[s] \in [G -> 0 .. MaxAttempts]
  /\ sweepCur \in [Sweepers -> Groups \cup {Nobody}]
  /\ sweepRes \in [Sweepers -> Answers]
  /\ faults \in 0 .. MaxFaults /\ late \in BOOLEAN

Init ==
  /\ text = "first" /\ auto \in BOOLEAN /\ stopRequested = FALSE
  /\ status = "scheduled" /\ dispatching = FALSE /\ closing = FALSE
  /\ row = [g \in Groups |-> NewRow]
  /\ live = [g \in Groups |-> Nobody]
  /\ wk = [g \in Groups |-> "idle"]
  /\ snap = [g \in Groups |-> [text |-> "first", auto |-> FALSE]]
  /\ pc = [a \in Admins |-> "new"]
  /\ list = [a \in Admins |-> {}] /\ left = [a \in Admins |-> {}]
  /\ cur = [a \in Admins |-> Nobody]
  /\ res = [a \in Admins |-> "ok"]
  /\ form = [a \in Admins |-> FALSE]
  /\ sweepPc = [s \in Sweepers |-> "idle"]
  /\ batch = [s \in Sweepers |-> << >>]
  /\ sweepCur = [s \in Sweepers |-> Nobody]
  /\ sweepRes = [s \in Sweepers |-> "ok"]
  /\ faults = 0 /\ late = FALSE

Fault ==
  /\ faults < MaxFaults
  /\ faults' = faults + 1

(***************************************************************************)
(* The status: a dispatch marks the post as being sent, whoever counts     *)
(* nothing in flight marks it as over.  Each writes after it read.         *)
(***************************************************************************)
StatusOnly == UNCHANGED <<text, auto, stopRequested, row, live, worker, admin, sweep, faults>>

InFlight == \E g \in Groups : row[g].status \in {"pending", "sending"}

DispatchRead ==
  /\ ~stopRequested /\ status \in {"scheduled", "sending"}
  /\ dispatching' = TRUE
  /\ UNCHANGED <<status, closing, late>>
  /\ StatusOnly

\* The first deliveries of a scheduled post may start now.
Dispatch ==
  /\ dispatching
  /\ dispatching' = FALSE
  /\ status' = "sending"
  /\ late' = (late \/ (status = "scheduled" /\ \E a \in Admins : pc[a] = "save"))
  /\ UNCHANGED closing
  /\ StatusOnly

\* finalizeIfComplete, which dispatches, deliveries, stops and the reconciler end
\* with; several of them may have counted the same.
FinalizeCount ==
  /\ ~InFlight
  /\ closing' = TRUE
  /\ UNCHANGED <<status, dispatching, late>>
  /\ StatusOnly

FinalizeStore ==
  /\ closing
  /\ closing' \in BOOLEAN
  /\ status' = "over"
  /\ UNCHANGED <<dispatching, late>>
  /\ StatusOnly

(***************************************************************************)
(* Deliveries (PostDeliveryProcessor.deliver, as far as moderation sees).  *)
(***************************************************************************)
DeliverOnly == UNCHANGED <<post, admin, sweep>>

MoveWorker(g, from, to) ==
  /\ wk[g] = from
  /\ wk' = [wk EXCEPT ![g] = to]

\* There is no job before the dispatch.
DeliverRead(g) ==
  /\ row[g].status = "pending" /\ status # "scheduled"
  /\ IF stopRequested
     THEN /\ wk[g] = "idle"
          /\ row' = [row EXCEPT ![g].status = "skipped"]
          /\ UNCHANGED worker
     ELSE /\ MoveWorker(g, "idle", "waiting")
          /\ snap' = [snap EXCEPT ![g] = [text |-> text, auto |-> auto]]
          /\ UNCHANGED row
  /\ UNCHANGED <<live, ghosts>>
  /\ DeliverOnly

\* The limiter gave no slot: the job comes back later.
DeliverPostpone(g) ==
  /\ MoveWorker(g, "waiting", "idle")
  /\ UNCHANGED <<row, live, snap, ghosts>>
  /\ DeliverOnly

\* The row is marked whatever became of it during the wait for the slot.
DeliverMark(g) ==
  /\ MoveWorker(g, "waiting", "calling")
  /\ row' = [row EXCEPT ![g].status = "sending"]
  /\ UNCHANGED <<live, snap, ghosts>>
  /\ DeliverOnly

DeliverSend(g) ==
  /\ MoveWorker(g, "calling", "recording")
  /\ live' = [live EXCEPT ![g] = snap[g].text]
  /\ UNCHANGED <<row, snap, ghosts>>
  /\ DeliverOnly

\* A refusal is retried or final; an answer that was lost leaves it unknown.
DeliverFails(g) ==
  /\ MoveWorker(g, "calling", "idle")
  /\ \/ /\ \E s \in {"pending", "failed"} :
             row' = [row EXCEPT ![g].status = s, ![g].error = TRUE]
        /\ UNCHANGED live
     \/ /\ row' = [row EXCEPT ![g].status = "unknown", ![g].error = TRUE]
        /\ live' \in {live, [live EXCEPT ![g] = snap[g].text]}
  /\ UNCHANGED <<snap, ghosts>>
  /\ DeliverOnly

\* autoDeleteDueAt: the date set, or the time of sending and the delay.
DueAt(isSet) == IF isSet THEN "ahead" ELSE "none"

DeliverRecord(g) ==
  /\ MoveWorker(g, "recording", "idle")
  /\ row' = [row EXCEPT ![g].status = "sent", ![g].error = FALSE,
                        ![g].due = DueAt(snap[g].auto)]
  /\ UNCHANGED <<live, snap, ghosts>>
  /\ DeliverOnly

DeliverRecordFails(g) ==
  /\ Fault
  /\ MoveWorker(g, "recording", "idle")
  /\ row' = [row EXCEPT ![g].status = "unknown", ![g].error = TRUE]
  /\ UNCHANGED <<live, snap, late>>
  /\ DeliverOnly

WorkerDies(g) ==
  /\ Fault
  /\ wk[g] # "idle"
  /\ wk' = [wk EXCEPT ![g] = "idle"]
  /\ UNCHANGED <<row, live, snap, late>>
  /\ DeliverOnly

\* resolveStuckDeliveries goes by the row's age: its worker may have died, or
\* may still record what becomes of its call.
MarkStuck(g) ==
  /\ row[g].status = "sending"
  /\ row' = [row EXCEPT ![g].status = "unknown", ![g].error = TRUE]
  /\ UNCHANGED <<live, worker, ghosts>>
  /\ DeliverOnly

Deliver(g) ==
  \/ DeliverRead(g) \/ DeliverPostpone(g) \/ DeliverMark(g) \/ DeliverSend(g)
  \/ DeliverFails(g) \/ DeliverRecord(g) \/ DeliverRecordFails(g)
  \/ WorkerDies(g) \/ MarkStuck(g)

(***************************************************************************)
(* Stop and resume, and the helpers of the requests.                       *)
(***************************************************************************)
Stoppable == status \in {"sending", "scheduled"}

StopRows ==
  /\ stopRequested' = TRUE
  /\ row' = [g \in Groups |->
               IF row[g].status = "pending"
               THEN [row[g] EXCEPT !.status = "skipped"] ELSE row[g]]
  /\ UNCHANGED <<text, auto, campaign>>

Stop ==
  /\ Stoppable
  /\ StopRows
  /\ UNCHANGED <<live, worker, admin, sweep, ghosts>>

Resume ==
  /\ \E g \in Groups : row[g].status \in {"failed", "skipped"}
  /\ stopRequested' = FALSE
  /\ status' = "sending"
  /\ row' = [g \in Groups |->
               IF row[g].status \in {"failed", "skipped"}
               THEN [row[g] EXCEPT !.status = "pending", !.error = FALSE]
               ELSE row[g]]
  /\ late' = (late \/ \E a \in Admins : pc[a] \in {"drain", "save"})
  /\ UNCHANGED <<text, auto, dispatching, closing, live, worker, admin, sweep, faults>>

\* publishedDeliveries
Published == {g \in Groups : row[g].status = "sent" /\ ~row[g].deleted}

MoveAdmin(a, from, to) ==
  /\ pc[a] = from
  /\ pc' = [pc EXCEPT ![a] = to]

AdminOnly == UNCHANGED <<worker, sweep>>

\* recordOutcome swallows the error of a failed write.
RecordOutcome(g, new) ==
  \/ /\ row' = [row EXCEPT ![g] = new]
     /\ UNCHANGED ghosts
  \/ /\ Fault
     /\ late' = TRUE
     /\ UNCHANGED row

\* The last of the request's deliveries ends the loop it is in.
NextOf(a, g, again, after) ==
  /\ left' = [left EXCEPT ![a] = @ \ {g}]
  /\ pc' = [pc EXCEPT ![a] = IF left[a] = {g} THEN after ELSE again]

(***************************************************************************)
(* editPublished.                                                          *)
(***************************************************************************)
\* Deliveries no edit waits for: one waits for its slot, or was given up alive.
Unnoticed == \E g \in Groups : wk[g] # "idle" /\ row[g].status # "sending"

\* Of a campaign that is over something may still be under way, or resumed.
StillRuns == \E g \in Groups : wk[g] # "idle" \/ row[g].status = "pending"

\* Only a post found as being sent is stopped.
EditRead(a, setsAuto) ==
  /\ a \in Editors
  /\ MoveAdmin(a, "new", IF status = "sending" THEN "stop" ELSE "save")
  /\ form' = [form EXCEPT ![a] = setsAuto]
  /\ late' = (late \/ (status = "over" /\ StillRuns))
  /\ UNCHANGED <<post, row, live, list, left, cur, res, faults>>
  /\ AdminOnly

\* stopPost reads the post again: a campaign that ended meanwhile is refused.
EditStop(a) ==
  /\ IF Stoppable
     THEN MoveAdmin(a, "stop", "drain") /\ StopRows
     ELSE MoveAdmin(a, "stop", "done") /\ UNCHANGED <<post, row>>
  /\ UNCHANGED <<live, list, left, cur, res, form, ghosts>>
  /\ AdminOnly

\* Mutant: the edit does not wait for the deliveries in flight.
EditDoesNotDrain(a) ==
  /\ MoveAdmin(a, "drain", "save")
  /\ late' = (late \/ Unnoticed) /\ UNCHANGED faults
  /\ UNCHANGED <<post, row, live, list, left, cur, res, form>>
  /\ AdminOnly

\* drainInFlight: nothing is "sending", or the wait timed out.
EditDrain(a) ==
  /\ MoveAdmin(a, "drain", "save")
  /\ IF \E g \in Groups : row[g].status = "sending"
     THEN Fault /\ late' = TRUE
     ELSE late' = (late \/ Unnoticed) /\ UNCHANGED faults
  /\ UNCHANGED <<post, row, live, list, left, cur, res, form>>
  /\ AdminOnly

Editing(a) == pc[a] \in {"list", "due", "edit", "edited"}

EditSave(a) ==
  /\ MoveAdmin(a, "save", "list")
  /\ text' = a
  /\ auto' = form[a]
  /\ late' = (late \/ \E b \in Admins : Editing(b))
  /\ UNCHANGED <<stopRequested, campaign, row, live, list, left, cur, res, form, faults>>
  /\ AdminOnly

EditList(a) ==
  /\ MoveAdmin(a, "list", IF Published = {} THEN "done" ELSE "due")
  /\ list' = [list EXCEPT ![a] = Published]
  /\ left' = [left EXCEPT ![a] = Published]
  /\ UNCHANGED <<post, row, live, cur, res, form, ghosts>>
  /\ AdminOnly

\* The due date is written before, and whatever becomes of, the edits.
EditDue(a, g) ==
  /\ pc[a] = "due" /\ g \in left[a]
  /\ RecordOutcome(g, [row[g] EXCEPT !.due = DueAt(form[a]), !.attempts = 0])
  /\ pc' = [pc EXCEPT ![a] = IF left[a] = {g} THEN "edit" ELSE "due"]
  /\ left' = [left EXCEPT ![a] = IF @ = {g} THEN list[a] ELSE @ \ {g}]
  /\ UNCHANGED <<post, live, list, cur, res, form>>
  /\ AdminOnly

\* The platform edits the message; it refuses some, and one that is gone.
EditCall(a, g) ==
  /\ g \in left[a]
  /\ MoveAdmin(a, "edit", "edited")
  /\ cur' = [cur EXCEPT ![a] = g]
  /\ \E answer \in Answers :
       /\ res' = [res EXCEPT ![a] = answer]
       /\ IF answer = "ok"
          THEN live[g] # Nobody /\ live' = [live EXCEPT ![g] = a]
          ELSE UNCHANGED live
  /\ UNCHANGED <<post, row, list, left, form, ghosts>>
  /\ AdminOnly

EditRecord(a) ==
  LET g == cur[a]
  IN  /\ pc[a] = "edited"
      /\ RecordOutcome(g, [row[g] EXCEPT !.error = (res[a] = "error")])
      /\ NextOf(a, g, "edit", "done")
      /\ UNCHANGED <<post, live, list, cur, res, form>>
      /\ AdminOnly

(***************************************************************************)
(* deletePublished, in all groups or in those chosen.                      *)
(***************************************************************************)
DeleteList(a, chosen) ==
  LET found == Published \cap chosen
  IN  /\ MoveAdmin(a, "new", IF found = {} THEN "done" ELSE "delete")
      /\ left' = [left EXCEPT ![a] = found]
      /\ UNCHANGED <<post, row, live, list, cur, res, form, ghosts>>
      /\ AdminOnly

\* The platform confirms the deletion of a message that is gone, too.
PlatformDeletes(g, answer) ==
  live' = IF answer = "ok" THEN [live EXCEPT ![g] = Nobody] ELSE live

DeleteCall(a, g) ==
  /\ g \in left[a]
  /\ MoveAdmin(a, "delete", "deleted")
  /\ cur' = [cur EXCEPT ![a] = g]
  /\ \E answer \in Answers :
       /\ res' = [res EXCEPT ![a] = answer]
       /\ PlatformDeletes(g, answer)
  /\ UNCHANGED <<post, row, list, left, form, ghosts>>
  /\ AdminOnly

Deleted(r) == [r EXCEPT !.deleted = TRUE, !.due = "none", !.error = FALSE]

\* Mutant: a refused deletion is recorded like a confirmed one.
RefusalIsDeletion(a) ==
  /\ pc[a] = "deleted"
  /\ RecordOutcome(cur[a], Deleted(row[cur[a]]))
  /\ NextOf(a, cur[a], "delete", "done")
  /\ UNCHANGED <<post, live, list, cur, res, form>>
  /\ AdminOnly

DeleteRecord(a) ==
  LET g == cur[a]
  IN  /\ pc[a] = "deleted"
      /\ RecordOutcome(g, IF res[a] = "ok" THEN Deleted(row[g])
                          ELSE [row[g] EXCEPT !.error = TRUE])
      /\ NextOf(a, g, "delete", "done")
      /\ UNCHANGED <<post, live, list, cur, res, form>>
      /\ AdminOnly

AdminDies(a) ==
  /\ Fault
  /\ pc[a] \notin {"new", "done"}
  /\ pc' = [pc EXCEPT ![a] = "done"]
  /\ late' = (late \/ Editing(a))
  /\ UNCHANGED <<post, row, live, list, left, cur, res, form>>
  /\ AdminOnly

Moderate(a) ==
  \/ \E setsAuto \in BOOLEAN : EditRead(a, setsAuto)
  \/ EditStop(a) \/ EditDrain(a) \/ EditSave(a) \/ EditList(a)
  \/ EditRecord(a) \/ DeleteRecord(a) \/ AdminDies(a)
  \/ \E chosen \in SUBSET Groups \ {{}} : DeleteList(a, chosen)
  \/ \E g \in Groups : EditDue(a, g) \/ EditCall(a, g) \/ DeleteCall(a, g)

(***************************************************************************)
(* sweepAutoDeletions.                                                     *)
(***************************************************************************)
SweepOnly == UNCHANGED <<post, worker, admin>>

Due(g) == row[g].status = "sent" /\ ~row[g].deleted /\ row[g].due = "passed"

TimePasses(g) ==
  /\ row[g].due = "ahead"
  /\ row' = [row EXCEPT ![g].due = "passed"]
  /\ UNCHANGED <<live, sweep, ghosts>>
  /\ SweepOnly

SweepFind(s) ==
  LET due == {g \in Groups : Due(g)}
  IN  /\ sweepPc[s] = "idle" /\ due # {}
      /\ sweepPc' = [sweepPc EXCEPT ![s] = "delete"]
      /\ batch' = [batch EXCEPT ![s] = [g \in due |-> row[g].attempts]]
      /\ UNCHANGED <<row, live, sweepCur, sweepRes, ghosts>>
      /\ SweepOnly

SweepCall(s, g) ==
  /\ sweepPc[s] = "delete" /\ g \in DOMAIN batch[s]
  /\ sweepPc' = [sweepPc EXCEPT ![s] = "record"]
  /\ sweepCur' = [sweepCur EXCEPT ![s] = g]
  /\ \E answer \in Answers :
       /\ sweepRes' = [sweepRes EXCEPT ![s] = answer]
       /\ PlatformDeletes(g, answer)
  /\ UNCHANGED <<row, batch, ghosts>>
  /\ SweepOnly

\* Mutant: the failed attempt is not stored.
UncountedFailure(r, attempts) ==
  [r EXCEPT !.error = TRUE,
            !.due = IF attempts >= MaxAttempts THEN "none" ELSE @]

\* Mutant: giving up leaves the date in place.
NeverGivesUp(r, attempts) == [r EXCEPT !.attempts = attempts, !.error = TRUE]

\* The attempts are counted from those the sweep found.
DeletionFailed(r, attempts) ==
  [r EXCEPT !.attempts = attempts, !.error = TRUE,
            !.due = IF attempts >= MaxAttempts THEN "none" ELSE @]

SweepRecord(s) ==
  LET g == sweepCur[s]
  IN  /\ sweepPc[s] = "record"
      /\ RecordOutcome(g, IF sweepRes[s] = "ok" THEN Deleted(row[g])
                          ELSE DeletionFailed(row[g], batch[s][g] + 1))
      /\ batch' = [batch EXCEPT ![s] = [h \in DOMAIN @ \ {g} |-> @[h]]]
      /\ sweepPc' = [sweepPc EXCEPT ![s] =
                       IF DOMAIN batch[s] = {g} THEN "idle" ELSE "delete"]
      /\ UNCHANGED <<live, sweepCur, sweepRes>>
      /\ SweepOnly

SweepDies(s) ==
  /\ Fault
  /\ sweepPc[s] # "idle"
  /\ sweepPc' = [sweepPc EXCEPT ![s] = "idle"]
  /\ batch' = [batch EXCEPT ![s] = << >>]
  /\ UNCHANGED <<row, live, sweepCur, sweepRes, late>>
  /\ SweepOnly

Sweep(s) ==
  \/ SweepFind(s) \/ SweepRecord(s) \/ SweepDies(s)
  \/ \E g \in Groups : SweepCall(s, g)

Next ==
  \/ DispatchRead \/ Dispatch \/ FinalizeCount \/ FinalizeStore
  \/ Stop \/ Resume
  \/ \E g \in Groups : Deliver(g) \/ TimePasses(g)
  \/ \E a \in Admins : Moderate(a)
  \/ \E s \in Sweepers : Sweep(s)

Spec == Init /\ [][Next]_vars

\* Nobody takes a stop back.
StopSpec == Init /\ [][Next /\ (stopRequested => stopRequested')]_vars

\* The reconciler calls the sweep every minute, one group after the other.
FairSpec == Spec /\ \A s \in Sweepers :
  /\ WF_vars(SweepFind(s)) /\ WF_vars(SweepRecord(s))
  /\ WF_vars(\E g \in Groups : SweepCall(s, g))

(***************************************************************************)
(* Properties.                                                             *)
(***************************************************************************)
\* A delivery that is marked as deleted shows nothing, and nothing that was
\* still under way (an edit, a delivery, a sweep) brings its message back.
DeletedIsGone == \A g \in Groups : row[g].deleted => live[g] = Nobody

\* editPublished stops the campaign and waits, so that no group keeps an old
\* text: when all is quiet, a group whose delivery is sent, not deleted and
\* without an error shows the text stored - unless the edit found the campaign
\* over while a delivery was still to be made, a delivery waited for its slot or
\* was given up alive when the wait ended or timed out, the post was dispatched
\* or resumed before the save, two edits overlapped, a request died or its
\* record failed.
Quiet == /\ \A g \in Groups : wk[g] = "idle"
         /\ \A a \in Admins : pc[a] \in {"new", "done"}
         /\ \A s \in Sweepers : sweepPc[s] = "idle"

Shown(g) == g \in Published /\ ~row[g].error /\ live[g] # Nobody

ShownIsStored == (Quiet /\ ~late) => \A g \in Groups : Shown(g) => live[g] = text

\* editPublished stops a campaign "or it would be left with two versions for
\* good" (its comment): where nothing fails, the groups that were sent it show
\* one text.
OneVersion == Quiet => \A g, h \in Groups : Shown(g) /\ Shown(h) => live[g] = live[h]

\* A deletion that was given up keeps its error where the admin sees it.
GiveUpIsSeen == \A g \in Groups :
  (g \in Published /\ row[g].attempts = MaxAttempts) => row[g].error

\* A message whose time has come is deleted or given up, whatever fails.
AutoDeleteEnds == \A g \in Groups : [](Due(g) => <>~Due(g))

\* The rows have their types, and what is marked as deleted is gone.
DeletionsSound == TypeOK /\ DeletedIsGone

=============================================================================
