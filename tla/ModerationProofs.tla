-------------------------- MODULE ModerationProofs --------------------------
(***************************************************************************)
(* Theorems about Moderation, for every set of groups, requests and sweeps *)
(* and every number of faults: what is marked as deleted is gone, and when *)
(* all is quiet the groups show the text that is stored.                   *)
(***************************************************************************)
EXTENDS Moderation, TLAPS

USE BoundsAssumption

(***************************************************************************)
(* The inductive invariant.  DeletedIsGone alone is not inductive: one has *)
(* to know that whoever is about to record a deletion deals with a row     *)
(* that is "sent", that such a row has no worker that could still send,    *)
(* and that the message was gone when the platform confirmed.              *)
(***************************************************************************)
Sent == {g \in Groups : row[g].status = "sent"}

\* While a delivery waits, its row may be stopped and resumed; from the mark
\* to the record it is "sending", or was given up by its age.  Nobody works on
\* a row that is sent.
WorkerHasRow == \A g \in Groups :
  /\ wk[g] = "waiting" => row[g].status \in {"pending", "skipped"}
  /\ wk[g] \in {"calling", "recording"} => row[g].status \in {"sending", "unknown"}

\* Nobody works on a post that was not dispatched yet; whoever is about to end
\* it found that no delivery waits.
ScheduledIsQuiet == status = "scheduled" => \A g \in Groups :
  /\ wk[g] = "idle"
  /\ closing => row[g].status # "pending"

\* Only a row that is sent is deleted, due or tried; one that is due has tries left.
RowSound(r) ==
  /\ r.status # "sent" => ~r.deleted /\ r.due = "none" /\ r.attempts = 0
  /\ r.due # "none" => r.attempts < MaxAttempts

OnlySentAreDue == \A g \in Groups : RowSound(row[g])

\* What requests and sweeps go through was sent when they listed it, and still is.
RequestsListSent == \A a \in Admins :
  /\ list[a] \subseteq Sent /\ left[a] \subseteq Sent
  /\ pc[a] \in {"edited", "deleted"} => cur[a] \in left[a]

SweepsListSent == \A s \in Sweepers :
  /\ DOMAIN batch[s] \subseteq Sent
  /\ \A g \in DOMAIN batch[s] : batch[s][g] < MaxAttempts
  /\ sweepPc[s] = "record" => sweepCur[s] \in DOMAIN batch[s]

\* A deletion is confirmed of a message that is gone, and it stays gone.
ConfirmedIsGone ==
  /\ \A a \in Admins : pc[a] = "deleted" /\ res[a] = "ok" => live[cur[a]] = Nobody
  /\ \A s \in Sweepers :
       sweepPc[s] = "record" /\ sweepRes[s] = "ok" => live[sweepCur[s]] = Nobody

Lists == /\ WorkerHasRow /\ ScheduledIsQuiet /\ OnlySentAreDue
         /\ RequestsListSent /\ SweepsListSent
DeletionInv == TypeOK /\ Lists /\ ConfirmedIsGone /\ DeletedIsGone

(***************************************************************************)
(* ... and what makes ShownIsStored inductive, as long as nothing happened *)
(* after which a text may be outdated.                                     *)
(***************************************************************************)
\* Until the edit is saved nobody sends, and nobody can begin to before a dispatch.
NobodySends == \A a \in Admins :
  /\ pc[a] = "drain" => stopRequested
  /\ pc[a] = "save" =>
       /\ \A g \in Groups : wk[g] = "idle"
       /\ \/ stopRequested \/ status = "scheduled"
          \/ \A g \in Groups : row[g].status # "pending"

\* A delivery under way has the text stored, and shows it once it is sent.
SendsStored == \A g \in Groups :
  /\ wk[g] # "idle" => snap[g].text = text
  /\ wk[g] = "recording" => live[g] = snap[g].text

\* One edit runs at a time: the one that was saved last.
OneEdit == \A a \in Admins : Editing(a) => text = a

\* Does the edit still come to the group, or is it about to leave an error there?
StillEdits(a, g) ==
  \/ pc[a] = "list"
  \/ pc[a] = "due" /\ g \in list[a]
  \/ pc[a] = "edit" /\ g \in left[a]
  \/ pc[a] = "edited" /\ g \in left[a] /\ (g = cur[a] => res[a] = "error")

OutdatedIsEdited == \A g \in Groups :
  Shown(g) /\ live[g] # text => \E a \in Admins : StillEdits(a, g)

EditedIsNew == \A a \in Admins :
  pc[a] = "edited" /\ res[a] = "ok" => live[cur[a]] \in {text, Nobody}

TextInv ==
  ~late => NobodySends /\ SendsStored /\ OneEdit /\ OutdatedIsEdited /\ EditedIsNew

(***************************************************************************)
(* The steps that are about the status of the post, or about nothing.      *)
(***************************************************************************)
Status == DispatchRead \/ Dispatch \/ FinalizeCount \/ FinalizeStore
Still  == Status \/ UNCHANGED vars

LEMMA StillKept ==
  ASSUME Still
  PROVE  /\ UNCHANGED <<text, auto, stopRequested, row, live, worker, wk, snap,
                        admin, pc, list, left, cur, res, sweep, faults>>
         /\ late => late'
         /\ status' # status => status' # "scheduled"
         /\ closing' => closing \/ ~InFlight \/ status' # "scheduled"
<1>1. CASE Status
  <2>1. StatusOnly
    BY <1>1 DEF Status, DispatchRead, Dispatch, FinalizeCount, FinalizeStore
  <2>l. late => late'
    BY <1>1, Zenon DEF Status, DispatchRead, Dispatch, FinalizeCount, FinalizeStore
  <2>2. status' # status => status' # "scheduled"
    BY <1>1 DEF Status, DispatchRead, Dispatch, FinalizeCount, FinalizeStore
  <2>3. closing' => closing \/ ~InFlight \/ status' # "scheduled"
    BY <1>1 DEF Status, DispatchRead, Dispatch, FinalizeCount, FinalizeStore
  <2>4. QED BY <2>1, <2>l, <2>2, <2>3 DEF StatusOnly, worker, admin
<1>2. CASE UNCHANGED vars
  BY <1>2 DEF vars, post, campaign, worker, admin, ghosts
<1>3. QED BY <1>1, <1>2 DEF Still

(***************************************************************************)
(* Type correctness.                                                       *)
(***************************************************************************)
LEMMA StillTyped ==
  ASSUME TypeOK, Still
  PROVE  TypeOK'
<1>1. /\ status' \in {"scheduled", "sending", "over"} /\ dispatching' \in BOOLEAN
      /\ closing' \in BOOLEAN /\ late' \in BOOLEAN
  BY DEF TypeOK, Still, Status, DispatchRead, Dispatch, FinalizeCount, FinalizeStore, vars,
     post, campaign, ghosts
<1>2. QED BY <1>1, StillKept DEF TypeOK, admin, sweep

LEMMA InitTyped == Init => TypeOK
<1> SUFFICES ASSUME Init PROVE TypeOK
  OBVIOUS
<1>1. row \in [Groups -> Row]
  BY DEF Init, NewRow, Row, Statuses, Dues
<1>2. \A s \in Sweepers : \E G \in SUBSET Groups : batch[s] \in [G -> 0 .. MaxAttempts]
  <2>1. \A s \in Sweepers : batch[s] \in [{} -> 0 .. MaxAttempts] /\ {} \in SUBSET Groups
    BY DEF Init
  <2>2. QED BY <2>1
<1>3. faults \in 0 .. MaxFaults
  BY DEF Init
<1>4. batch = [s \in Sweepers |-> batch[s]]
  BY DEF Init
<1>5. QED BY <1>1, <1>2, <1>3, <1>4, Zenon DEF Init, TypeOK, Texts, Answers

LEMMA FaultTyped ==
  ASSUME TypeOK, Fault
  PROVE  faults' \in 0 .. MaxFaults
BY DEF TypeOK, Fault

\* Every write of a delivery to its row.
LEMMA DeliverRowTyped ==
  ASSUME row \in [Groups -> Row], NEW g \in Groups, Deliver(g)
  PROVE  row' \in [Groups -> Row]
<1> USE DEF Row, Statuses, Dues, MoveWorker
<1>1. CASE DeliverRead(g)
  BY <1>1 DEF DeliverRead
<1>2. CASE DeliverMark(g)
  BY <1>2 DEF DeliverMark
<1>3. CASE DeliverFails(g)
  BY <1>3 DEF DeliverFails
<1>4. CASE DeliverRecord(g)
  <2>1. DueAt(snap[g].auto) \in {"none", "ahead", "passed"}
    BY DEF DueAt
  <2>2. [row[g] EXCEPT !.status = "sent", !.error = FALSE, !.due = DueAt(snap[g].auto)] \in Row
    BY <2>1
  <2>3. QED BY <1>4, <2>2 DEF DeliverRecord
<1>5. CASE DeliverRecordFails(g)
  BY <1>5, ZenonT(60) DEF DeliverRecordFails
<1>6. CASE MarkStuck(g)
  BY <1>6, ZenonT(60) DEF MarkStuck
<1>7. CASE DeliverPostpone(g) \/ DeliverSend(g) \/ WorkerDies(g)
  BY <1>7 DEF DeliverPostpone, DeliverSend, WorkerDies
<1>8. QED BY <1>1, <1>2, <1>3, <1>4, <1>5, <1>6, <1>7 DEF Deliver

LEMMA DeliverTyped ==
  ASSUME TypeOK, NEW g \in Groups, Deliver(g)
  PROVE  TypeOK'
<1>r. row' \in [Groups -> Row]
  BY DeliverRowTyped DEF TypeOK
<1>f. faults' \in 0 .. MaxFaults /\ late' \in BOOLEAN
  BY FaultTyped DEF TypeOK, Deliver, DeliverRead, DeliverPostpone, DeliverMark, DeliverSend,
     DeliverFails, DeliverRecord, DeliverRecordFails, WorkerDies, MarkStuck, ghosts
<1>w. wk' \in [Groups -> {"idle", "waiting", "calling", "recording"}]
  <2>1. CASE DeliverRead(g) \/ DeliverPostpone(g) \/ DeliverMark(g) \/ DeliverSend(g)
    BY <2>1 DEF TypeOK, DeliverRead, DeliverPostpone, DeliverMark, DeliverSend, worker, MoveWorker
  <2>2. wk \in [Groups -> {"idle", "waiting", "calling", "recording"}]
    BY DEF TypeOK
  <2>3. CASE DeliverFails(g) \/ DeliverRecord(g) \/ DeliverRecordFails(g) \/ WorkerDies(g)
    <3>1. wk' = [wk EXCEPT ![g] = "idle"]
      BY <2>3, Zenon DEF DeliverFails, DeliverRecord, DeliverRecordFails, WorkerDies, MoveWorker
    <3>2. QED BY <2>2, <3>1
  <2>4. CASE MarkStuck(g)
    BY <2>2, <2>4 DEF MarkStuck, worker
  <2>5. QED BY <2>1, <2>3, <2>4 DEF Deliver
<1>s. snap' \in [Groups -> [text : Texts, auto : BOOLEAN]]
  BY DEF TypeOK, Deliver, DeliverRead, DeliverPostpone, DeliverMark, DeliverSend,
     DeliverFails, DeliverRecord, DeliverRecordFails, WorkerDies, MarkStuck, worker
<1>l. live' \in [Groups -> Texts \cup {Nobody}]
  <2>1. live \in [Groups -> Texts \cup {Nobody}] /\ snap[g].text \in Texts
    BY DEF TypeOK
  <2>2. live' = live \/ live' = [live EXCEPT ![g] = snap[g].text]
    <3>1. CASE DeliverSend(g) \/ DeliverFails(g)
      BY <3>1 DEF DeliverSend, DeliverFails
    <3>2. CASE ~(DeliverSend(g) \/ DeliverFails(g))
      BY <3>2 DEF Deliver, DeliverRead, DeliverPostpone, DeliverMark, DeliverRecord,
         DeliverRecordFails, WorkerDies, MarkStuck
    <3>3. QED BY <3>1, <3>2
  <2>3. QED BY <2>1, <2>2
<1>u. UNCHANGED <<post, admin, sweep>>
  BY DEF Deliver, DeliverRead, DeliverPostpone, DeliverMark, DeliverSend, DeliverFails,
     DeliverRecord, DeliverRecordFails, WorkerDies, MarkStuck, DeliverOnly
<1>q. QED BY <1>r, <1>f, <1>w, <1>s, <1>l, <1>u DEF TypeOK, post, campaign, admin, sweep

LEMMA StopRowsTyped ==
  ASSUME row \in [Groups -> Row], StopRows
  PROVE  row' \in [Groups -> Row]
BY DEF StopRows, Row, Statuses

LEMMA StopResumeTyped ==
  ASSUME TypeOK, Stop \/ Resume
  PROVE  TypeOK'
<1>1. row' \in [Groups -> Row]
  <2>1. row \in [Groups -> Row]
    BY DEF TypeOK
  <2>2. CASE Stop
    BY <2>1, <2>2, StopRowsTyped DEF Stop
  <2>3. CASE Resume
    <3>1. \A g \in Groups : [row[g] EXCEPT !.status = "pending", !.error = FALSE] \in Row
      BY <2>1 DEF Row, Statuses
    <3>2. QED BY <2>1, <2>3, <3>1 DEF Resume
  <2>4. QED BY <2>2, <2>3
<1>2. late' \in BOOLEAN
  BY DEF TypeOK, Stop, Resume, ghosts
<1>3. QED BY <1>1, <1>2, ZenonT(60)
   DEF TypeOK, Stop, StopRows, Resume, campaign, worker, ghosts, admin, sweep

\* What requests and sweeps make of a row is a row.
LEMMA RowsMade ==
  ASSUME NEW r \in Row, NEW d \in Dues, NEW n \in 0 .. MaxAttempts
  PROVE  /\ [r EXCEPT !.error = TRUE] \in Row /\ [r EXCEPT !.error = FALSE] \in Row
         /\ [r EXCEPT !.due = d, !.attempts = 0] \in Row
         /\ Deleted(r) \in Row
         /\ DeletionFailed(r, n) \in Row
<1>1. [r EXCEPT !.error = TRUE] \in Row /\ [r EXCEPT !.error = FALSE] \in Row
  <2>1. [r EXCEPT !.error = TRUE] \in Row
    BY DEF Row
  <2>2. [r EXCEPT !.error = FALSE] \in Row
    BY DEF Row
  <2>3. QED BY <2>1, <2>2
<1>2. [r EXCEPT !.due = d, !.attempts = 0] \in Row
  <2>1. 0 \in 0 .. MaxAttempts
    OBVIOUS
  <2>2. QED BY <2>1 DEF Row
<1>3. Deleted(r) \in Row
  BY DEF Row, Deleted, Dues
<1>4. DeletionFailed(r, n) \in Row
  <2>1. (IF n >= MaxAttempts THEN "none" ELSE r.due) \in Dues
    BY DEF Row, Dues
  <2>2. QED BY <2>1 DEF Row, DeletionFailed
<1>5. QED BY <1>1, <1>2, <1>3, <1>4

\* What recordOutcome writes, or does not write, keeps the types.
LEMMA OutcomeTyped ==
  ASSUME TypeOK, NEW g \in Groups, NEW new \in Row, RecordOutcome(g, new)
  PROVE  row' \in [Groups -> Row] /\ faults' \in 0 .. MaxFaults /\ late' \in BOOLEAN
<1>1. row \in [Groups -> Row] /\ faults \in 0 .. MaxFaults /\ late \in BOOLEAN
  BY DEF TypeOK
<1>2. CASE Fault
  BY <1>1, <1>2, FaultTyped DEF RecordOutcome, ghosts
<1>3. CASE ~Fault
  BY <1>1, <1>3 DEF RecordOutcome, ghosts
<1>4. QED BY <1>2, <1>3

LEMMA EditTyped ==
  ASSUME TypeOK, RequestsListSent, NEW a \in Admins,
         \/ \E setsAuto \in BOOLEAN : EditRead(a, setsAuto)
         \/ EditStop(a) \/ EditDrain(a) \/ EditSave(a) \/ EditList(a) \/ EditRecord(a)
         \/ \E g \in Groups : EditDue(a, g) \/ EditCall(a, g)
  PROVE  TypeOK'
<1> USE DEF TypeOK, MoveAdmin, AdminOnly, worker, ghosts, post, campaign, sweep
<1>1. ASSUME NEW setsAuto \in BOOLEAN, EditRead(a, setsAuto) PROVE TypeOK'
  BY <1>1 DEF EditRead
<1>2. CASE EditStop(a)
  <2>1. row' \in [Groups -> Row]
    BY <1>2, StopRowsTyped DEF EditStop
  <2>2. QED BY <1>2, <2>1 DEF EditStop, StopRows
<1>3. CASE EditDrain(a)
  <2>1. faults' \in 0 .. MaxFaults /\ late' \in BOOLEAN
    BY <1>3, FaultTyped DEF EditDrain
  <2>2. QED BY <1>3, <2>1 DEF EditDrain
<1>4. CASE EditSave(a)
  BY <1>4 DEF EditSave, Texts
<1>5. CASE EditList(a)
  BY <1>5 DEF EditList, Published
<1>6. CASE EditRecord(a)
  <2>1. cur[a] \in Groups
    BY <1>6 DEF EditRecord, RequestsListSent, Sent
  <2>2. [row[cur[a]] EXCEPT !.error = (res[a] = "error")] \in Row
    <3>1. row[cur[a]] \in Row
      BY <2>1
    <3>2. [row[cur[a]] EXCEPT !.error = TRUE] \in Row /\ [row[cur[a]] EXCEPT !.error = FALSE] \in Row
      <4>1. 0 \in 0 .. MaxAttempts /\ "none" \in Dues
        BY DEF Dues
      <4>2. QED BY <3>1, <4>1, RowsMade, Zenon
    <3>3. (res[a] = "error") = TRUE \/ (res[a] = "error") = FALSE
      OBVIOUS
    <3>4. QED BY <3>2, <3>3, Zenon
  <2>3. row' \in [Groups -> Row] /\ faults' \in 0 .. MaxFaults /\ late' \in BOOLEAN
    BY <1>6, <2>1, <2>2, OutcomeTyped DEF EditRecord
  <2>4. QED BY <1>6, <2>3 DEF EditRecord, NextOf
<1>7. ASSUME NEW g \in Groups, EditDue(a, g) PROVE TypeOK'
  <2>1. [row[g] EXCEPT !.due = DueAt(form[a]), !.attempts = 0] \in Row
    <3>1. DueAt(form[a]) \in Dues /\ 0 \in 0 .. MaxAttempts /\ row[g] \in Row
      BY DEF DueAt, Dues
    <3>2. QED BY <3>1, RowsMade, Zenon
  <2>2. row' \in [Groups -> Row] /\ faults' \in 0 .. MaxFaults /\ late' \in BOOLEAN
    BY <1>7, <2>1, OutcomeTyped DEF EditDue
  <2>3. QED BY <1>7, <2>2 DEF EditDue
<1>8. ASSUME NEW g \in Groups, EditCall(a, g) PROVE TypeOK'
  <2>1. live' \in [Groups -> Texts \cup {Nobody}]
    <3>1. a \in Texts
      BY DEF Texts
    <3>2. live' = live \/ live' = [live EXCEPT ![g] = a]
      BY <1>8 DEF EditCall
    <3>3. QED BY <3>1, <3>2
  <2>a. res' \in [Admins -> Answers]
    BY <1>8 DEF EditCall
  <2>2. QED BY <1>8, <2>1, <2>a DEF EditCall
<1>9. QED BY <1>1, <1>2, <1>3, <1>4, <1>5, <1>6, <1>7, <1>8

LEMMA DeleteTyped ==
  ASSUME TypeOK, RequestsListSent, NEW a \in Admins,
         \/ \E chosen \in SUBSET Groups \ {{}} : DeleteList(a, chosen)
         \/ DeleteRecord(a) \/ AdminDies(a)
         \/ \E g \in Groups : DeleteCall(a, g)
  PROVE  TypeOK'
<1> USE DEF TypeOK, MoveAdmin, AdminOnly, worker, ghosts, post, campaign, sweep
<1>1. ASSUME NEW chosen \in SUBSET Groups, DeleteList(a, chosen) PROVE TypeOK'
  BY <1>1 DEF DeleteList, Published
<1>2. CASE DeleteRecord(a)
  <2>1. cur[a] \in Groups
    BY <1>2 DEF DeleteRecord, RequestsListSent, Sent
  <2>2. /\ Deleted(row[cur[a]]) \in Row
        /\ [row[cur[a]] EXCEPT !.error = TRUE] \in Row
    <3>1. row[cur[a]] \in Row /\ 0 \in 0 .. MaxAttempts /\ "none" \in Dues
      BY <2>1 DEF Dues
    <3>2. QED BY <3>1, RowsMade, Zenon
  <2>3. row' \in [Groups -> Row] /\ faults' \in 0 .. MaxFaults /\ late' \in BOOLEAN
    BY <1>2, <2>1, <2>2, OutcomeTyped DEF DeleteRecord
  <2>4. QED BY <1>2, <2>3 DEF DeleteRecord, NextOf
<1>3. CASE AdminDies(a)
  <2>1. faults' \in 0 .. MaxFaults
    BY <1>3, FaultTyped DEF AdminDies
  <2>2. QED BY <1>3, <2>1 DEF AdminDies
<1>4. ASSUME NEW g \in Groups, DeleteCall(a, g) PROVE TypeOK'
  <2>1. live' \in [Groups -> Texts \cup {Nobody}] /\ res' \in [Admins -> Answers]
    BY <1>4 DEF DeleteCall, PlatformDeletes, Answers
  <2>2. QED BY <1>4, <2>1 DEF DeleteCall
<1>5. QED BY <1>1, <1>2, <1>3, <1>4

LEMMA SweepTyped ==
  ASSUME TypeOK, SweepsListSent, NEW s \in Sweepers, Sweep(s)
  PROVE  TypeOK'
<1> DEFINE Batch(b) == \E G \in SUBSET Groups : b \in [G -> 0 .. MaxAttempts]
           Batches(bs) == bs = [t \in Sweepers |-> bs[t]] /\ \A t \in Sweepers : Batch(bs[t])
<1>a. Batches(batch)
  BY DEF TypeOK
<1>b. ASSUME NEW b, Batch(b), batch' = [batch EXCEPT ![s] = b]
      PROVE  Batches(batch')
  <2> HIDE DEF Batch
  <2>1. QED BY <1>a, <1>b
<1>1. CASE SweepFind(s)
  <2>1. [g \in {h \in Groups : Due(h)} |-> row[g].attempts]
          \in [{h \in Groups : Due(h)} -> 0 .. MaxAttempts]
    BY DEF TypeOK, Row
  <2>2. Batches(batch')
    <3>1. {h \in Groups : Due(h)} \in SUBSET Groups
      OBVIOUS
    <3>2. batch'= [batch EXCEPT ![s] = [g \in {h \in Groups : Due(h)} |-> row[g].attempts]]
      BY <1>1 DEF SweepFind
    <3>3. Batch([g \in {h \in Groups : Due(h)} |-> row[g].attempts])
      BY <2>1, <3>1
    <3> HIDE DEF Batch, Batches
    <3>4. QED BY <3>2, <3>3, <1>b
  <2>3. QED BY <1>1, <2>2 DEF TypeOK, SweepFind, SweepOnly, worker, ghosts, post, campaign, admin
<1>2. ASSUME NEW g \in Groups, SweepCall(s, g) PROVE TypeOK'
  <2>1. live' \in [Groups -> Texts \cup {Nobody}] /\ sweepRes' \in [Sweepers -> Answers]
    BY <1>2 DEF TypeOK, SweepCall, PlatformDeletes, Answers
  <2>2. QED BY <1>2, <2>1 DEF TypeOK, SweepCall, SweepOnly, worker, ghosts, post, campaign, admin
<1>3. CASE SweepRecord(s)
  <2>1. /\ sweepCur[s] \in DOMAIN batch[s] /\ sweepCur[s] \in Groups
        /\ batch[s][sweepCur[s]] + 1 \in 0 .. MaxAttempts
    BY <1>3 DEF TypeOK, SweepRecord, SweepsListSent, Sent
  <2>2. /\ Deleted(row[sweepCur[s]]) \in Row
        /\ DeletionFailed(row[sweepCur[s]], batch[s][sweepCur[s]] + 1) \in Row
    BY <2>1, RowsMade DEF TypeOK, Dues
  <2>3. row' \in [Groups -> Row] /\ faults' \in 0 .. MaxFaults /\ late' \in BOOLEAN
    BY <1>3, <2>1, <2>2, OutcomeTyped DEF SweepRecord
  <2>4. Batches(batch')
    <3>1. batch' = [batch EXCEPT ![s] = [h \in DOMAIN batch[s] \ {sweepCur[s]} |-> batch[s][h]]]
      BY <1>3 DEF SweepRecord
    <3>2. PICK G \in SUBSET Groups : batch[s] \in [G -> 0 .. MaxAttempts]
      BY <1>a
    <3>3. /\ [h \in DOMAIN batch[s] \ {sweepCur[s]} |-> batch[s][h]]
               \in [G \ {sweepCur[s]} -> 0 .. MaxAttempts]
          /\ G \ {sweepCur[s]} \in SUBSET Groups
      BY <3>2
    <3>4. Batch([h \in DOMAIN batch[s] \ {sweepCur[s]} |-> batch[s][h]])
      BY <3>3
    <3> HIDE DEF Batch, Batches
    <3>5. QED BY <3>1, <3>4, <1>b
  <2>5. QED BY <1>3, <2>3, <2>4 DEF TypeOK, SweepRecord, SweepOnly, worker, post, campaign, admin
<1>4. CASE SweepDies(s)
  <2>1. << >> \in [{} -> 0 .. MaxAttempts] /\ {} \in SUBSET Groups
    OBVIOUS
  <2>2. batch' = [batch EXCEPT ![s] = << >>]
    BY <1>4 DEF SweepDies
  <2>3. Batches(batch')
    <3>1. Batch(<< >>)
      BY <2>1
    <3> HIDE DEF Batch, Batches
    <3>2. QED BY <2>2, <3>1, <1>b
  <2>4. faults' \in 0 .. MaxFaults
    BY <1>4, FaultTyped DEF SweepDies
  <2>5. QED BY <1>4, <2>3, <2>4 DEF TypeOK, SweepDies, SweepOnly, worker, post, campaign, admin
<1>5. QED BY <1>1, <1>2, <1>3, <1>4 DEF Sweep

\* A step of one of the requests or sweeps.
LEMMA ModerateTyped ==
  ASSUME TypeOK, RequestsListSent, NEW a \in Admins, Moderate(a)
  PROVE  TypeOK'
BY EditTyped, DeleteTyped DEF Moderate

LEMMA TimeTyped ==
  ASSUME TypeOK, NEW g \in Groups, TimePasses(g)
  PROVE  TypeOK'
<1>1. [row[g] EXCEPT !.due = "passed"] \in Row
  <2>1. row[g] \in Row
    BY DEF TypeOK
  <2>2. QED BY <2>1 DEF Row, Dues
<1>2. row' \in [Groups -> Row]
  <2>1. row' = [row EXCEPT ![g] = [row[g] EXCEPT !.due = "passed"]]
    BY DEF TimePasses, TypeOK
  <2>2. QED BY <1>1, <2>1 DEF TypeOK
<1>3. QED BY <1>2 DEF TypeOK, TimePasses, SweepOnly, sweep, ghosts, worker, post, campaign, admin

(***************************************************************************)
(* What is sent stays sent, and is what requests and sweeps go through.    *)
(***************************************************************************)
\* The steps of requests and sweeps, but for the stop, leave every status alone.
StatusKept == \A h \in Groups : row'[h].status = row[h].status

LEMMA OutcomeKeepsStatus ==
  ASSUME TypeOK, NEW g \in Groups, NEW new \in Row, RecordOutcome(g, new),
         new.status = row[g].status
  PROVE  StatusKept
BY DEF TypeOK, RecordOutcome, StatusKept

LEMMA OutcomeKeepsSound ==
  ASSUME TypeOK, OnlySentAreDue, NEW g \in Groups, NEW new \in Row, RecordOutcome(g, new),
         RowSound(new)
  PROVE  OnlySentAreDue'
<1> HIDE DEF RowSound
<1>1. CASE row' = row
  BY <1>1 DEF OnlySentAreDue, RowSound
<1>2. CASE row' = [row EXCEPT ![g] = new]
  <2>1. \A h \in Groups : row'[h] = IF h = g THEN new ELSE row[h]
    BY <1>2 DEF TypeOK
  <2>2. QED BY <2>1 DEF OnlySentAreDue, RowSound
<1>3. QED BY <1>1, <1>2 DEF RecordOutcome

LEMMA ModerateRows ==
  ASSUME TypeOK, Lists, NEW a \in Admins, Moderate(a), ~EditStop(a)
  PROVE  StatusKept /\ OnlySentAreDue' /\ UNCHANGED wk
<1> USE DEF Lists, RequestsListSent, AdminOnly, worker
<1>1. CASE EditRecord(a)
  <2>1. cur[a] \in Groups /\ row[cur[a]] \in Row /\ RowSound(row[cur[a]])
    BY <1>1 DEF TypeOK, EditRecord, Sent, OnlySentAreDue
  <2> DEFINE new == [row[cur[a]] EXCEPT !.error = (res[a] = "error")]
  <2>2. new \in Row /\ RowSound(new) /\ new.status = row[cur[a]].status
    <3>1. CASE res[a] = "error"
      <4>1. new = [row[cur[a]] EXCEPT !.error = TRUE]
        BY <3>1
      <4>2. QED BY <2>1, <4>1 DEF Row, RowSound
    <3>2. CASE res[a] # "error"
      <4>1. new = [row[cur[a]] EXCEPT !.error = FALSE]
        BY <3>2
      <4>2. QED BY <2>1, <4>1 DEF Row, RowSound
    <3>3. QED BY <3>1, <3>2
  <2>3. RecordOutcome(cur[a], new)
    BY <1>1 DEF EditRecord
  <2> HIDE DEF new
  <2>4. QED BY <1>1, <2>1, <2>2, <2>3, OutcomeKeepsStatus, OutcomeKeepsSound DEF EditRecord
<1>2. ASSUME NEW g \in Groups, EditDue(a, g)
      PROVE  StatusKept /\ OnlySentAreDue' /\ UNCHANGED wk
  <2>1. row[g] \in Row /\ row[g].status = "sent" /\ RowSound(row[g])
    BY <1>2 DEF TypeOK, EditDue, Sent, OnlySentAreDue
  <2> DEFINE new == [row[g] EXCEPT !.due = DueAt(form[a]), !.attempts = 0]
  <2>2. new \in Row /\ RowSound(new) /\ new.status = row[g].status
    <3>1. DueAt(form[a]) \in Dues /\ 0 \in 0 .. MaxAttempts
      BY DEF DueAt, Dues
    <3>2. new \in Row
      BY <2>1, <3>1, RowsMade
    <3>3. RowSound(new) /\ new.status = row[g].status
      BY <2>1, <3>1 DEF Row, RowSound
    <3>4. QED BY <3>2, <3>3
  <2>3. RecordOutcome(g, new)
    BY <1>2 DEF EditDue
  <2> HIDE DEF new
  <2>4. QED BY <1>2, <2>2, <2>3, OutcomeKeepsStatus, OutcomeKeepsSound DEF EditDue
<1>3. CASE DeleteRecord(a)
  <2>1. cur[a] \in Groups /\ row[cur[a]] \in Row /\ RowSound(row[cur[a]])
        /\ row[cur[a]].status = "sent"
    BY <1>3 DEF TypeOK, DeleteRecord, Sent, OnlySentAreDue
  <2> DEFINE new == IF res[a] = "ok" THEN Deleted(row[cur[a]])
                    ELSE [row[cur[a]] EXCEPT !.error = TRUE]
  <2>2. new \in Row /\ RowSound(new) /\ new.status = row[cur[a]].status
    <3>1. CASE res[a] = "ok"
      BY <2>1, <3>1 DEF Row, RowSound, Deleted, Dues
    <3>2. CASE res[a] # "ok"
      BY <2>1, <3>2 DEF Row, RowSound
    <3>3. QED BY <3>1, <3>2
  <2>3. RecordOutcome(cur[a], new)
    BY <1>3 DEF DeleteRecord
  <2> HIDE DEF new
  <2>4. QED BY <1>3, <2>1, <2>2, <2>3, OutcomeKeepsStatus, OutcomeKeepsSound DEF DeleteRecord
<1>4. CASE UNCHANGED <<row, wk>>
  BY <1>4 DEF StatusKept, OnlySentAreDue, RowSound
<1>5. ASSUME \/ \E setsAuto \in BOOLEAN : EditRead(a, setsAuto)
             \/ EditDrain(a) \/ EditSave(a) \/ EditList(a) \/ AdminDies(a)
             \/ \E chosen \in SUBSET Groups \ {{}} : DeleteList(a, chosen)
             \/ \E g \in Groups : EditCall(a, g) \/ DeleteCall(a, g)
      PROVE  UNCHANGED <<row, wk>>
  BY <1>5 DEF EditRead, EditDrain, EditSave, EditList, AdminDies, DeleteList, EditCall,
              DeleteCall
<1>6. QED BY <1>1, <1>2, <1>3, <1>4, <1>5 DEF Moderate

LEMMA SweepRows ==
  ASSUME TypeOK, Lists, NEW s \in Sweepers, Sweep(s)
  PROVE  StatusKept /\ OnlySentAreDue' /\ UNCHANGED wk
<1> USE DEF Lists, SweepsListSent, SweepOnly, worker
<1>1. CASE SweepRecord(s)
  <2>1. /\ sweepCur[s] \in Groups /\ row[sweepCur[s]] \in Row
        /\ RowSound(row[sweepCur[s]]) /\ row[sweepCur[s]].status = "sent"
        /\ batch[s][sweepCur[s]] + 1 \in 0 .. MaxAttempts
    BY <1>1 DEF TypeOK, SweepRecord, Sent, OnlySentAreDue
  <2> DEFINE new == IF sweepRes[s] = "ok" THEN Deleted(row[sweepCur[s]])
                    ELSE DeletionFailed(row[sweepCur[s]], batch[s][sweepCur[s]] + 1)
  <2>2. new \in Row /\ RowSound(new) /\ new.status = row[sweepCur[s]].status
    <3>1. CASE sweepRes[s] = "ok"
      BY <2>1, <3>1 DEF Row, RowSound, Deleted, Dues
    <3>2. CASE sweepRes[s] # "ok"
      <4> DEFINE r == row[sweepCur[s]]
                 n == batch[s][sweepCur[s]] + 1
      <4>1. new = DeletionFailed(r, n) /\ r \in Row /\ RowSound(r) /\ n \in 0 .. MaxAttempts
            /\ r.status = "sent"
        BY <2>1, <3>2
      <4> HIDE DEF r, n, new
      <4>2. DeletionFailed(r, n) \in Row
        <5>1. "none" \in Dues
          BY DEF Dues
        <5>2. QED BY <4>1, <5>1, RowsMade
      <4>3. RowSound(DeletionFailed(r, n)) /\ DeletionFailed(r, n).status = r.status
        BY <4>1 DEF Row, RowSound, DeletionFailed
      <4>4. QED BY <4>1, <4>2, <4>3 DEF r
    <3>3. QED BY <3>1, <3>2
  <2>3. RecordOutcome(sweepCur[s], new)
    BY <1>1 DEF SweepRecord
  <2> HIDE DEF new
  <2>4. QED BY <1>1, <2>1, <2>2, <2>3, OutcomeKeepsStatus, OutcomeKeepsSound DEF SweepRecord
<1>2. CASE UNCHANGED <<row, wk>>
  BY <1>2 DEF StatusKept, OnlySentAreDue, RowSound
<1>3. ASSUME SweepFind(s) \/ SweepDies(s) \/ \E g \in Groups : SweepCall(s, g)
      PROVE  UNCHANGED <<row, wk>>
  BY <1>3 DEF SweepFind, SweepDies, SweepCall
<1>4. QED BY <1>1, <1>2, <1>3 DEF Sweep

LEMMA TimeRows ==
  ASSUME TypeOK, Lists, NEW g \in Groups, TimePasses(g)
  PROVE  StatusKept /\ OnlySentAreDue' /\ UNCHANGED wk
<1>1. row[g] \in Row /\ RowSound(row[g])
  BY DEF TypeOK, Lists, OnlySentAreDue
<1>2. row' = [row EXCEPT ![g] = [row[g] EXCEPT !.due = "passed"]]
  BY DEF TimePasses, TypeOK
<1>3. RowSound([row[g] EXCEPT !.due = "passed"]) /\ row[g].due = "ahead"
  BY <1>1 DEF Row, RowSound, TimePasses
<1>4. \A h \in Groups : row'[h] = IF h = g THEN [row[g] EXCEPT !.due = "passed"] ELSE row[h]
  BY <1>2 DEF TypeOK
<1>5. StatusKept
  BY <1>1, <1>4 DEF StatusKept, Row
<1>6. OnlySentAreDue'
  BY <1>3, <1>4 DEF Lists, OnlySentAreDue, RowSound
<1>7. QED BY <1>5, <1>6 DEF TimePasses, SweepOnly, worker

\* A delivery works on a row that is not sent, and leaves it in the state of its worker.
LEMMA DeliverRows ==
  ASSUME TypeOK, Lists, NEW g \in Groups, Deliver(g)
  PROVE  /\ g \notin Sent
         /\ \A h \in Groups \ {g} : row'[h] = row[h] /\ wk'[h] = wk[h]
         /\ RowSound(row'[g])
         /\ wk'[g] = "waiting" => row'[g].status \in {"pending", "skipped"}
         /\ wk'[g] \in {"calling", "recording"} => row'[g].status \in {"sending", "unknown"}
<1> DEFINE P == /\ g \notin Sent
                /\ \A h \in Groups \ {g} : row'[h] = row[h] /\ wk'[h] = wk[h]
                /\ RowSound(row'[g])
                /\ wk'[g] = "waiting" => row'[g].status \in {"pending", "skipped"}
                /\ wk'[g] \in {"calling", "recording"} => row'[g].status \in {"sending", "unknown"}
<1>a. /\ row[g] \in Row /\ RowSound(row[g])
      /\ wk[g] = "waiting" => row[g].status \in {"pending", "skipped"}
      /\ wk[g] \in {"calling", "recording"} => row[g].status \in {"sending", "unknown"}
  BY DEF TypeOK, Lists, OnlySentAreDue, WorkerHasRow
<1>b. row \in [Groups -> Row] /\ DOMAIN wk = Groups
  BY DEF TypeOK
<1>c. DueAt(snap[g].auto) \in {"none", "ahead", "passed"} /\ 0 < MaxAttempts
  BY DEF DueAt
<1> USE <1>a, <1>b DEF Sent, RowSound, Row, worker, MoveWorker
<1>1. CASE DeliverRead(g)
  BY <1>1 DEF DeliverRead
<1>2. CASE DeliverPostpone(g)
  BY <1>2 DEF DeliverPostpone
<1>3. CASE DeliverMark(g)
  BY <1>3 DEF DeliverMark
<1>4. CASE DeliverSend(g)
  BY <1>4 DEF DeliverSend
<1>5. CASE DeliverFails(g)
  BY <1>5 DEF DeliverFails
<1>6. CASE DeliverRecord(g)
  BY <1>6, <1>c DEF DeliverRecord
<1>7. CASE DeliverRecordFails(g)
  BY <1>7 DEF DeliverRecordFails
<1>8. CASE WorkerDies(g)
  <2>1. wk' = [wk EXCEPT ![g] = "idle"] /\ wk[g] # "idle" /\ row' = row
    BY <1>8 DEF WorkerDies
  <2>2. wk[g] \in {"waiting", "calling", "recording"}
    BY <2>1 DEF TypeOK
  <2>3. QED BY <2>1, <2>2
<1>9. CASE MarkStuck(g)
  BY <1>9 DEF MarkStuck
<1>10. QED BY <1>1, <1>2, <1>3, <1>4, <1>5, <1>6, <1>7, <1>8, <1>9 DEF Deliver

\* Stopping and resuming deal with rows that are not sent.
LEMMA StopResumeRows ==
  ASSUME TypeOK, Lists, StopRows \/ Resume, wk' = wk
  PROVE  /\ \A h \in Groups : row[h].status = "sent" => row'[h] = row[h]
         /\ WorkerHasRow' /\ OnlySentAreDue'
<1>1. \A h \in Groups : row[h] \in Row
  BY DEF TypeOK
<1>2. CASE StopRows
  BY <1>1, <1>2 DEF StopRows, Lists, WorkerHasRow, OnlySentAreDue, RowSound, Row
<1>3. CASE Resume
  BY <1>1, <1>3, ZenonT(60) DEF Resume, Lists, WorkerHasRow, OnlySentAreDue, RowSound, Row
<1>4. QED BY <1>2, <1>3

\* So what is sent stays sent, whatever the step.
LEMMA SentStays ==
  ASSUME TypeOK, Lists, [Next]_vars
  PROVE  Sent \subseteq Sent' /\ WorkerHasRow' /\ OnlySentAreDue'
<1>1. CASE StatusKept /\ OnlySentAreDue' /\ UNCHANGED wk
  BY <1>1 DEF StatusKept, Sent, Lists, WorkerHasRow
<1>2. CASE Stop \/ Resume \/ \E a \in Admins : EditStop(a)
  <2>1. CASE StopRows \/ Resume
    <3>1. wk' = wk
      BY <1>2 DEF Stop, Resume, EditStop, AdminOnly, worker
    <3>2. QED BY <2>1, <3>1, StopResumeRows DEF Sent
  <2>2. CASE ~StopRows /\ ~Resume
    <3>1. UNCHANGED <<row, wk>>
      BY <1>2, <2>2 DEF Stop, EditStop, AdminOnly, worker
    <3>2. QED BY <3>1, <1>1 DEF StatusKept, Lists, OnlySentAreDue, RowSound
  <2>3. QED BY <2>1, <2>2
<1>3. ASSUME NEW g \in Groups, Deliver(g)
      PROVE  Sent \subseteq Sent' /\ WorkerHasRow' /\ OnlySentAreDue'
  <2>1. /\ g \notin Sent
        /\ \A h \in Groups \ {g} : row'[h] = row[h] /\ wk'[h] = wk[h]
        /\ RowSound(row'[g])
        /\ wk'[g] = "waiting" => row'[g].status \in {"pending", "skipped"}
        /\ wk'[g] \in {"calling", "recording"} => row'[g].status \in {"sending", "unknown"}
    BY <1>3, DeliverRows
  <2>2. QED BY <2>1 DEF Sent, Lists, WorkerHasRow, OnlySentAreDue, RowSound
<1>4. CASE Still
  BY <1>4, <1>1, StillKept DEF StatusKept, Lists, OnlySentAreDue, RowSound
<1>5. QED BY <1>1, <1>2, <1>3, <1>4, ModerateRows, SweepRows, TimeRows DEF Next, Still, Status

\* Until the dispatch no delivery begins, and none becomes pending again.
LEMMA ScheduledIsQuietStep ==
  ASSUME TypeOK, Lists, [Next]_vars
  PROVE  ScheduledIsQuiet'
<1> USE DEF Lists
<1>1. ASSUME UNCHANGED <<wk, status, closing>>,
             \A g \in Groups : row'[g].status = "pending" => row[g].status = "pending"
      PROVE  ScheduledIsQuiet'
  BY <1>1 DEF ScheduledIsQuiet
<1>2. ASSUME NEW g \in Groups, Deliver(g) PROVE ScheduledIsQuiet'
  <2>1. UNCHANGED <<status, closing>>
    BY <1>2 DEF Deliver, DeliverRead, DeliverPostpone, DeliverMark, DeliverSend, DeliverFails,
       DeliverRecord, DeliverRecordFails, WorkerDies, MarkStuck, DeliverOnly, post, campaign
  <2>2. CASE MarkStuck(g)
    <3>1. wk' = wk
      BY <2>2 DEF MarkStuck, worker
    <3>2. row' = [row EXCEPT ![g] = [row[g] EXCEPT !.status = "unknown", !.error = TRUE]]
      BY <2>2 DEF MarkStuck, TypeOK
    <3>3. \A h \in Groups : row'[h].status = "pending" => row[h].status = "pending"
      BY <3>2 DEF TypeOK, Row
    <3>4. QED BY <1>1, <2>1, <3>1, <3>3
  <2>3. CASE ~MarkStuck(g)
    <3>1. status # "scheduled" \/ wk[g] # "idle"
      BY <1>2, <2>3 DEF Deliver, DeliverRead, DeliverPostpone, DeliverMark, DeliverSend,
         DeliverFails, DeliverRecord, DeliverRecordFails, WorkerDies, MoveWorker
    <3>2. QED BY <2>1, <3>1 DEF ScheduledIsQuiet
  <2>4. QED BY <2>2, <2>3
<1>3. ASSUME NEW a \in Admins, Moderate(a) PROVE ScheduledIsQuiet'
  <2>1. UNCHANGED <<wk, status, closing>>
    BY <1>3 DEF Moderate, EditRead, EditStop, EditDrain, EditSave, EditList, EditRecord,
       DeleteRecord, AdminDies, DeleteList, EditDue, EditCall, DeleteCall, StopRows,
       AdminOnly, worker, post, campaign
  <2>2. CASE EditStop(a)
    BY <1>1, <2>1, <2>2 DEF EditStop, StopRows
  <2>3. CASE ~EditStop(a)
    BY <1>1, <1>3, <2>1, <2>3, ModerateRows DEF StatusKept
  <2>4. QED BY <2>2, <2>3
<1>4. ASSUME NEW s \in Sweepers, Sweep(s) PROVE ScheduledIsQuiet'
  <2>1. UNCHANGED <<status, closing>>
    BY <1>4 DEF Sweep, SweepFind, SweepCall, SweepRecord, SweepDies, SweepOnly, post, campaign
  <2>2. QED BY <1>1, <1>4, <2>1, SweepRows DEF StatusKept
<1>5. ASSUME NEW g \in Groups, TimePasses(g) PROVE ScheduledIsQuiet'
  <2>1. UNCHANGED <<status, closing>>
    BY <1>5 DEF TimePasses, SweepOnly, post, campaign
  <2>2. QED BY <1>1, <1>5, <2>1, TimeRows DEF StatusKept
<1>6. CASE Stop
  BY <1>1, <1>6 DEF Stop, StopRows, campaign, worker
<1>7. CASE Resume
  BY <1>7 DEF Resume, ScheduledIsQuiet
<1>8. CASE Still
  BY <1>8, StillKept DEF ScheduledIsQuiet, InFlight
<1>9. QED BY <1>2, <1>3, <1>4, <1>5, <1>6, <1>7, <1>8, Zenon DEF Next, Still, Status

LEMMA RequestsListSentStep ==
  ASSUME TypeOK, Lists, [Next]_vars
  PROVE  RequestsListSent'
<1>s. Sent \subseteq Sent'
  BY SentStays
<1>1. CASE UNCHANGED admin
  BY <1>1, <1>s DEF admin, Lists, RequestsListSent
<1>2. ASSUME NEW a \in Admins, Moderate(a) PROVE RequestsListSent'
  <2>1. \A b \in Admins \ {a} :
          list'[b] = list[b] /\ left'[b] = left[b] /\ pc'[b] = pc[b] /\ cur'[b] = cur[b]
    BY <1>2, ZenonT(60)
       DEF TypeOK, Moderate, EditRead, EditStop, EditDrain, EditSave, EditList, EditRecord,
       DeleteRecord, AdminDies, DeleteList, EditDue, EditCall, DeleteCall, MoveAdmin, NextOf
  <2>2. Published \subseteq Sent
    BY DEF Published, Sent
  <2>3. /\ list'[a] \subseteq Sent /\ left'[a] \subseteq Sent
        /\ pc'[a] \in {"edited", "deleted"} => cur'[a] \in left'[a]
    <3> USE DEF TypeOK, Lists, RequestsListSent, MoveAdmin
    <3>1. CASE EditRecord(a) \/ DeleteRecord(a)
      BY <3>1 DEF EditRecord, DeleteRecord, NextOf
    <3>2. ASSUME NEW g \in Groups, EditDue(a, g) \/ EditCall(a, g) \/ DeleteCall(a, g)
          PROVE  <2>3
      BY <3>2 DEF EditDue, EditCall, DeleteCall
    <3>3. CASE EditList(a) \/ \E chosen \in SUBSET Groups \ {{}} : DeleteList(a, chosen)
      BY <2>2, <3>3 DEF EditList, DeleteList
    <3>4. CASE EditStop(a) \/ EditDrain(a) \/ EditSave(a) \/ AdminDies(a)
               \/ \E setsAuto \in BOOLEAN : EditRead(a, setsAuto)
      BY <3>4 DEF EditStop, EditDrain, EditSave, AdminDies, EditRead
    <3>5. QED BY <1>2, <3>1, <3>2, <3>3, <3>4 DEF Moderate
  <2>4. QED BY <1>s, <2>1, <2>3 DEF Lists, RequestsListSent
<1>3. ASSUME \/ Stop \/ Resume \/ Still
             \/ \E g \in Groups : Deliver(g) \/ TimePasses(g)
             \/ \E s \in Sweepers : Sweep(s)
      PROVE  UNCHANGED admin
  BY <1>3, StillKept DEF Stop, Resume, Deliver, DeliverRead, DeliverPostpone, DeliverMark,
     DeliverSend, DeliverFails, DeliverRecord, DeliverRecordFails, WorkerDies, MarkStuck,
     DeliverOnly, TimePasses, Sweep, SweepFind, SweepCall, SweepRecord, SweepDies, SweepOnly
<1>4. QED BY <1>1, <1>2, <1>3, Zenon DEF Next, Still, Status

LEMMA SweepsListSentStep ==
  ASSUME TypeOK, Lists, [Next]_vars
  PROVE  SweepsListSent'
<1>s. Sent \subseteq Sent'
  BY SentStays
<1>1. CASE UNCHANGED sweep
  BY <1>1, <1>s DEF sweep, Lists, SweepsListSent
<1>2. ASSUME NEW s \in Sweepers, Sweep(s) PROVE SweepsListSent'
  <2>0. batch = [t \in Sweepers |-> batch[t]]
    BY DEF TypeOK
  <2>1. \A t \in Sweepers \ {s} :
          batch'[t] = batch[t] /\ sweepPc'[t] = sweepPc[t] /\ sweepCur'[t] = sweepCur[t]
    BY <1>2, <2>0 DEF TypeOK, Sweep, SweepFind, SweepCall, SweepRecord, SweepDies
  <2>2. /\ DOMAIN batch'[s] \subseteq Sent
        /\ \A g \in DOMAIN batch'[s] : batch'[s][g] < MaxAttempts
        /\ sweepPc'[s] = "record" => sweepCur'[s] \in DOMAIN batch'[s]
    <3>1. CASE SweepFind(s)
      <4>1. batch'[s] = [g \in {h \in Groups : Due(h)} |-> row[g].attempts]
        BY <2>0, <3>1 DEF SweepFind
      <4>2. \A g \in Groups : Due(g) => g \in Sent /\ row[g].attempts < MaxAttempts
        BY DEF Due, Sent, Lists, OnlySentAreDue, RowSound
      <4>3. sweepPc'[s] = "delete"
        BY <3>1 DEF SweepFind, TypeOK
      <4> HIDE DEF Due
      <4>4. QED BY <4>1, <4>2, <4>3
    <3>2. ASSUME NEW g \in Groups, SweepCall(s, g) PROVE <2>2
      BY <3>2 DEF TypeOK, SweepCall, Lists, SweepsListSent
    <3>3. CASE SweepRecord(s)
      <4>1. batch'[s] = [h \in DOMAIN batch[s] \ {sweepCur[s]} |-> batch[s][h]]
        BY <2>0, <3>3 DEF SweepRecord
      <4>2. sweepPc'[s] # "record"
        BY <3>3 DEF SweepRecord, TypeOK
      <4>3. QED BY <4>1, <4>2 DEF Lists, SweepsListSent
    <3>4. CASE SweepDies(s)
      <4>1. batch'[s] = << >> /\ sweepPc'[s] = "idle"
        BY <2>0, <3>4 DEF SweepDies, TypeOK
      <4>2. QED BY <4>1
    <3>5. QED BY <1>2, <3>1, <3>2, <3>3, <3>4 DEF Sweep
  <2>3. QED BY <1>s, <2>1, <2>2 DEF Lists, SweepsListSent
<1>3. ASSUME \/ Stop \/ Resume \/ Still
             \/ \E g \in Groups : Deliver(g) \/ TimePasses(g)
             \/ \E a \in Admins : Moderate(a)
      PROVE  UNCHANGED sweep
  BY <1>3, StillKept, ZenonT(60)
     DEF Stop, Resume, Deliver, DeliverRead, DeliverPostpone, DeliverMark,
     DeliverSend, DeliverFails, DeliverRecord, DeliverRecordFails, WorkerDies, MarkStuck,
     DeliverOnly, TimePasses, Moderate, EditRead, EditStop, EditDrain, EditSave, EditList,
     EditRecord, DeleteRecord, AdminDies, DeleteList, EditDue, EditCall, DeleteCall, AdminOnly
<1>4. QED BY <1>1, <1>2, <1>3, Zenon DEF Next, Still, Status

LEMMA NextTyped ==
  ASSUME TypeOK, Lists, [Next]_vars
  PROVE  TypeOK'
<1>1. CASE Still
  BY <1>1, StillTyped
<1>2. CASE Next
  BY <1>1, <1>2, DeliverTyped, StopResumeTyped, ModerateTyped, SweepTyped, TimeTyped, Zenon
     DEF Next, Still, Status, Lists
<1>3. QED BY <1>1, <1>2 DEF Still

(***************************************************************************)
(* What is gone stays gone, and only what is gone is marked as deleted.    *)
(***************************************************************************)
\* Deliveries send to groups that are not sent, and an edit finds a message.
LEMMA GoneStays ==
  ASSUME TypeOK, Lists, [Next]_vars, NEW g \in Sent, live[g] = Nobody
  PROVE  live'[g] = Nobody
<1>0. g \in Groups
  BY DEF Sent
<1> USE <1>0 DEF TypeOK
<1>1. CASE UNCHANGED live
  BY <1>1
<1>2. ASSUME NEW h \in Groups, Deliver(h) PROVE live'[g] = Nobody
  <2>1. h # g
    BY <1>2, DeliverRows
  <2>2. CASE DeliverSend(h) \/ DeliverFails(h)
    BY <2>1, <2>2 DEF DeliverSend, DeliverFails
  <2>3. CASE ~(DeliverSend(h) \/ DeliverFails(h))
    BY <1>1, <1>2, <2>3 DEF Deliver, DeliverRead, DeliverPostpone, DeliverMark, DeliverRecord,
       DeliverRecordFails, WorkerDies, MarkStuck
  <2>4. QED BY <2>2, <2>3
<1>3. ASSUME NEW a \in Admins, Moderate(a) PROVE live'[g] = Nobody
  <2>1. ASSUME NEW h \in Groups, EditCall(a, h) PROVE live'[g] = Nobody
    BY <2>1 DEF EditCall
  <2>2. ASSUME NEW h \in Groups, DeleteCall(a, h) PROVE live'[g] = Nobody
    BY <2>2 DEF DeleteCall, PlatformDeletes
  <2>3. CASE ~\E h \in Groups : EditCall(a, h) \/ DeleteCall(a, h)
    BY <1>1, <1>3, <2>3 DEF Moderate, EditRead, EditStop, EditDrain, EditSave, EditList,
       EditRecord, DeleteRecord, AdminDies, DeleteList, EditDue
  <2>4. QED BY <2>1, <2>2, <2>3
<1>4. ASSUME NEW s \in Sweepers, Sweep(s) PROVE live'[g] = Nobody
  <2>1. ASSUME NEW h \in Groups, SweepCall(s, h) PROVE live'[g] = Nobody
    BY <2>1 DEF SweepCall, PlatformDeletes
  <2>2. CASE ~\E h \in Groups : SweepCall(s, h)
    BY <1>1, <1>4, <2>2 DEF Sweep, SweepFind, SweepRecord, SweepDies
  <2>3. QED BY <2>1, <2>2
<1>5. ASSUME Stop \/ Resume \/ Still \/ \E h \in Groups : TimePasses(h)
      PROVE  UNCHANGED live
  BY <1>5, StillKept DEF Stop, Resume, TimePasses
<1>6. QED BY <1>1, <1>2, <1>3, <1>4, <1>5, Zenon DEF Next, Still, Status

\* A call that is answered "ok" leaves nothing in the group it was made for.
LEMMA ConfirmedIsGoneStep ==
  ASSUME TypeOK, Lists, ConfirmedIsGone, [Next]_vars
  PROVE  ConfirmedIsGone'
<1>1. ASSUME NEW a \in Admins, pc[a] = "deleted", res[a] = "ok"
      PROVE  live'[cur[a]] = Nobody
  BY <1>1, GoneStays DEF ConfirmedIsGone, Lists, RequestsListSent
<1>2. ASSUME NEW s \in Sweepers, sweepPc[s] = "record", sweepRes[s] = "ok"
      PROVE  live'[sweepCur[s]] = Nobody
  BY <1>2, GoneStays DEF ConfirmedIsGone, Lists, SweepsListSent
<1>3. ASSUME NEW a \in Admins, pc'[a] = "deleted", res'[a] = "ok"
      PROVE  live'[cur'[a]] = Nobody
  <2>1. CASE pc'[a] = pc[a] /\ res'[a] = res[a] /\ cur'[a] = cur[a]
    BY <1>1, <1>3, <2>1
  <2>2. ASSUME NEW g \in Groups, DeleteCall(a, g) PROVE live'[cur'[a]] = Nobody
    BY <1>3, <2>2 DEF DeleteCall, PlatformDeletes, TypeOK
  <2>3. CASE UNCHANGED admin
    BY <2>1, <2>3 DEF admin
  <2>4. ASSUME NEW b \in Admins, Moderate(b), b # a
        PROVE  pc'[a] = pc[a] /\ res'[a] = res[a] /\ cur'[a] = cur[a]
    BY <2>4, ZenonT(60)
       DEF TypeOK, Moderate, EditRead, EditStop, EditDrain, EditSave, EditList, EditRecord,
       DeleteRecord, AdminDies, DeleteList, EditDue, EditCall, DeleteCall, MoveAdmin, NextOf
  <2>5. CASE Moderate(a) /\ ~\E g \in Groups : DeleteCall(a, g)
    <3>1. pc[a] = "deleted" \/ pc'[a] # "deleted"
      BY <2>5, ZenonT(60)
         DEF TypeOK, Moderate, EditRead, EditStop, EditDrain, EditSave, EditList,
         EditRecord, DeleteRecord, AdminDies, DeleteList, EditDue, EditCall, MoveAdmin, NextOf
    <3>2. pc[a] # "deleted" \/ pc'[a] # "deleted"
      BY <2>5 DEF TypeOK, Moderate, EditRead, EditStop, EditDrain, EditSave, EditList,
         EditRecord, DeleteRecord, AdminDies, DeleteList, EditDue, EditCall, MoveAdmin, NextOf
    <3>3. QED BY <1>3, <3>1, <3>2
  <2>6. ASSUME \/ Stop \/ Resume \/ Still
               \/ \E g \in Groups : Deliver(g) \/ TimePasses(g)
               \/ \E s \in Sweepers : Sweep(s)
        PROVE  UNCHANGED admin
    BY <2>6, StillKept DEF Stop, Resume, Deliver, DeliverRead, DeliverPostpone, DeliverMark,
       DeliverSend, DeliverFails, DeliverRecord, DeliverRecordFails, WorkerDies, MarkStuck,
       DeliverOnly, TimePasses, Sweep, SweepFind, SweepCall, SweepRecord, SweepDies, SweepOnly
  <2>7. QED BY <2>1, <2>2, <2>3, <2>4, <2>5, <2>6, Zenon DEF Next, Still, Status
<1>4. ASSUME NEW s \in Sweepers, sweepPc'[s] = "record", sweepRes'[s] = "ok"
      PROVE  live'[sweepCur'[s]] = Nobody
  <2>1. CASE sweepPc'[s] = sweepPc[s] /\ sweepRes'[s] = sweepRes[s] /\ sweepCur'[s] = sweepCur[s]
    BY <1>2, <1>4, <2>1
  <2>2. ASSUME NEW g \in Groups, SweepCall(s, g) PROVE live'[sweepCur'[s]] = Nobody
    BY <1>4, <2>2 DEF SweepCall, PlatformDeletes, TypeOK
  <2>3. CASE UNCHANGED sweep
    BY <2>1, <2>3 DEF sweep
  <2>4. ASSUME NEW t \in Sweepers, Sweep(t), t # s
        PROVE  sweepPc'[s] = sweepPc[s] /\ sweepRes'[s] = sweepRes[s] /\ sweepCur'[s] = sweepCur[s]
    BY <2>4 DEF TypeOK, Sweep, SweepFind, SweepCall, SweepRecord, SweepDies
  <2>5. CASE SweepFind(s) \/ SweepRecord(s) \/ SweepDies(s)
    BY <1>4, <2>5 DEF TypeOK, SweepFind, SweepRecord, SweepDies
  <2>6. ASSUME \/ Stop \/ Resume \/ Still
               \/ \E g \in Groups : Deliver(g) \/ TimePasses(g)
               \/ \E a \in Admins : Moderate(a)
        PROVE  UNCHANGED sweep
    BY <2>6, StillKept, ZenonT(60)
       DEF Stop, Resume, Deliver, DeliverRead, DeliverPostpone, DeliverMark,
       DeliverSend, DeliverFails, DeliverRecord, DeliverRecordFails, WorkerDies, MarkStuck,
       DeliverOnly, TimePasses, Moderate, EditRead, EditStop, EditDrain, EditSave, EditList,
       EditRecord, DeleteRecord, AdminDies, DeleteList, EditDue, EditCall, DeleteCall, AdminOnly
  <2>7. QED BY <2>1, <2>2, <2>3, <2>4, <2>5, <2>6, Zenon DEF Next, Sweep, Still, Status
<1>5. QED BY <1>3, <1>4 DEF ConfirmedIsGone

\* A row is marked as deleted by whoever was told that its message is gone.
LEMMA OnlyConfirmedIsMarked ==
  ASSUME TypeOK, Lists, [Next]_vars, NEW g \in Groups, row'[g].deleted
  PROVE  \/ row[g].deleted
         \/ \E a \in Admins : pc[a] = "deleted" /\ res[a] = "ok" /\ cur[a] = g
         \/ \E s \in Sweepers : sweepPc[s] = "record" /\ sweepRes[s] = "ok" /\ sweepCur[s] = g
<1> DEFINE P == \/ row[g].deleted
                \/ \E a \in Admins : pc[a] = "deleted" /\ res[a] = "ok" /\ cur[a] = g
                \/ \E s \in Sweepers :
                     sweepPc[s] = "record" /\ sweepRes[s] = "ok" /\ sweepCur[s] = g
<1>a. row \in [Groups -> Row] /\ \A h \in Groups : row[h] \in Row
  BY DEF TypeOK
<1> USE <1>a DEF Row
<1>1. CASE row' = row
  BY <1>1
<1>2. ASSUME NEW h \in Groups, Deliver(h) PROVE P
  BY <1>2 DEF Deliver, DeliverRead, DeliverPostpone, DeliverMark, DeliverSend, DeliverFails,
     DeliverRecord, DeliverRecordFails, WorkerDies, MarkStuck
<1>3. CASE StopRows \/ Resume
  <2>1. row[g] \in Row
    OBVIOUS
  <2>2. CASE StopRows
    <3>1. row'[g] = IF row[g].status = "pending" THEN [row[g] EXCEPT !.status = "skipped"]
                    ELSE row[g]
      BY <2>2 DEF StopRows
    <3>2. QED BY <2>1, <3>1
  <2>3. CASE Resume
    <3>1. row'[g] = IF row[g].status \in {"failed", "skipped"}
                    THEN [row[g] EXCEPT !.status = "pending", !.error = FALSE] ELSE row[g]
      BY <2>3 DEF Resume
    <3>2. QED BY <2>1, <3>1
  <2>4. QED BY <1>3, <2>2, <2>3
<1>4. ASSUME NEW h \in Groups, TimePasses(h) PROVE P
  BY <1>4 DEF TimePasses
<1>5. ASSUME NEW a \in Admins, Moderate(a), ~EditStop(a) PROVE P
  <2>1. CASE EditRecord(a)
    BY <2>1 DEF EditRecord, RecordOutcome
  <2>2. ASSUME NEW h \in Groups, EditDue(a, h) PROVE P
    <3> DEFINE new == [row[h] EXCEPT !.due = DueAt(form[a]), !.attempts = 0]
    <3>1. new.deleted = row[h].deleted
      OBVIOUS
    <3>2. row' = row \/ row' = [row EXCEPT ![h] = new]
      BY <2>2 DEF EditDue, RecordOutcome
    <3> HIDE DEF new
    <3>3. QED BY <3>1, <3>2
  <2>3. CASE DeleteRecord(a)
    BY <2>3 DEF DeleteRecord, RecordOutcome
  <2>4. ASSUME \/ \E setsAuto \in BOOLEAN : EditRead(a, setsAuto)
               \/ EditDrain(a) \/ EditSave(a) \/ EditList(a) \/ AdminDies(a)
               \/ \E chosen \in SUBSET Groups \ {{}} : DeleteList(a, chosen)
               \/ \E h \in Groups : EditCall(a, h) \/ DeleteCall(a, h)
        PROVE  row' = row
    BY <2>4 DEF EditRead, EditDrain, EditSave, EditList, AdminDies, DeleteList, EditCall,
                DeleteCall
  <2>5. QED BY <1>1, <1>5, <2>1, <2>2, <2>3, <2>4, Zenon DEF Moderate
<1>6. ASSUME NEW s \in Sweepers, Sweep(s) PROVE P
  <2>1. CASE SweepRecord(s)
    <3> DEFINE h == sweepCur[s]
               failed == DeletionFailed(row[h], batch[s][h] + 1)
               new == IF sweepRes[s] = "ok" THEN Deleted(row[h]) ELSE failed
    <3>1. h \in Groups
      BY <2>1 DEF SweepRecord, Lists, SweepsListSent, Sent
    <3>2. failed.deleted = row[h].deleted
      BY <3>1 DEF DeletionFailed
    <3>3. row' = row \/ row' = [row EXCEPT ![h] = new]
      BY <2>1 DEF SweepRecord, RecordOutcome
    <3>4. sweepPc[s] = "record" /\ sweepRes[s] \in {"ok", "error"}
      BY <2>1 DEF SweepRecord, TypeOK, Answers
    <3> HIDE DEF h, failed
    <3>5. CASE new = failed
      BY <3>1, <3>2, <3>3, <3>5
    <3>6. CASE sweepRes[s] = "ok"
      <4>1. h = g \/ row'[g] = row[g]
        BY <3>1, <3>3
      <4>2. QED BY <3>4, <3>6, <4>1 DEF h
    <3>7. QED BY <3>5, <3>6
  <2>2. CASE ~SweepRecord(s)
    BY <1>1, <1>6, <2>2 DEF Sweep, SweepFind, SweepDies, SweepCall
  <2>3. QED BY <2>1, <2>2
<1>7. ASSUME Stop \/ Still \/ \E a \in Admins : EditStop(a)
      PROVE  StopRows \/ row' = row
  BY <1>7, StillKept DEF Stop, EditStop
<1>8. QED BY <1>1, <1>2, <1>3, <1>4, <1>5, <1>6, <1>7, Zenon DEF Next, Still, Status

LEMMA DeletionInvStep ==
  ASSUME DeletionInv, [Next]_vars
  PROVE  DeletionInv'
<1> USE DEF DeletionInv
<1>1. TypeOK'
  BY NextTyped
<1>2. Lists'
  BY SentStays, ScheduledIsQuietStep, RequestsListSentStep, SweepsListSentStep DEF Lists
<1>3. ConfirmedIsGone'
  BY ConfirmedIsGoneStep
<1>4. DeletedIsGone'
  <2> SUFFICES ASSUME NEW g \in Groups, row'[g].deleted
               PROVE  live'[g] = Nobody
    BY DEF DeletedIsGone
  <2>1. g \in Sent /\ live[g] = Nobody
    <3>1. CASE row[g].deleted
      BY <3>1 DEF DeletedIsGone, Lists, OnlySentAreDue, RowSound, Sent
    <3>2. CASE ~row[g].deleted
      BY <3>2, OnlyConfirmedIsMarked
         DEF ConfirmedIsGone, Lists, RequestsListSent, SweepsListSent
    <3>3. QED BY <3>1, <3>2
  <2>2. QED BY <2>1, GoneStays
<1>5. QED BY <1>1, <1>2, <1>3, <1>4

LEMMA InitDeletionInv == Init => DeletionInv
<1> SUFFICES ASSUME Init PROVE DeletionInv
  OBVIOUS
<1>1. TypeOK
  BY InitTyped
<1>2. Lists
  BY DEF Init, Lists, WorkerHasRow, ScheduledIsQuiet, OnlySentAreDue, RowSound, NewRow,
     RequestsListSent, SweepsListSent
<1>3. ConfirmedIsGone /\ DeletedIsGone
  BY DEF Init, ConfirmedIsGone, DeletedIsGone, NewRow
<1>4. QED BY <1>1, <1>2, <1>3 DEF DeletionInv

\* The rows of a post, its workers, the requests and the sweeps keep their
\* types: a sweep counts no attempt beyond MaxAttempts.
THEOREM TypeCorrect == Spec => []TypeOK
<1>1. DeletionInv => TypeOK
  BY DEF DeletionInv
<1>2. QED BY <1>1, InitDeletionInv, DeletionInvStep, PTL DEF Spec

\* A delivery that is marked as deleted shows nothing, whatever edits,
\* deliveries and sweeps were under way when it was marked.
THEOREM DeletedStaysGone == Spec => []DeletionsSound
<1>1. DeletionInv => DeletionsSound
  BY DEF DeletionInv, DeletionsSound
<1>2. QED BY <1>1, InitDeletionInv, DeletionInvStep, PTL DEF Spec

(***************************************************************************)
(* Until something happens that may outdate a text, every group that shows *)
(* another text than the one stored is one that an edit still comes to.    *)
(***************************************************************************)
Others(a) == \A b \in Admins \ {a} :
  /\ pc'[b] = pc[b] /\ list'[b] = list[b] /\ left'[b] = left[b]
  /\ cur'[b] = cur[b] /\ res'[b] = res[b]

LEMMA OthersKept ==
  ASSUME TypeOK, NEW a \in Admins, Moderate(a)
  PROVE  Others(a)
BY ZenonT(60)
   DEF TypeOK, Others, Moderate, EditRead, EditStop, EditDrain, EditSave, EditList, EditRecord,
   DeleteRecord, AdminDies, DeleteList, EditDue, EditCall, DeleteCall, MoveAdmin, NextOf

LEMMA AdminKept ==
  ASSUME \/ Stop \/ Resume \/ Still
         \/ \E g \in Groups : Deliver(g) \/ TimePasses(g)
         \/ \E s \in Sweepers : Sweep(s)
  PROVE  UNCHANGED admin
BY StillKept DEF Stop, Resume, Deliver, DeliverRead, DeliverPostpone, DeliverMark, DeliverSend,
   DeliverFails, DeliverRecord, DeliverRecordFails, WorkerDies, MarkStuck, DeliverOnly,
   TimePasses, Sweep, SweepFind, SweepCall, SweepRecord, SweepDies, SweepOnly

\* Nothing forgets that a text may be outdated.
LEMMA LateStays ==
  ASSUME TypeOK, [Next]_vars, late
  PROVE  late'
<1> USE DEF ghosts, TypeOK
<1>1. ASSUME NEW g \in Groups, Deliver(g) PROVE late'
  BY <1>1 DEF Deliver, DeliverRead, DeliverPostpone, DeliverMark, DeliverSend, DeliverFails,
     DeliverRecord, DeliverRecordFails, WorkerDies, MarkStuck
<1>2. ASSUME NEW a \in Admins, Moderate(a) PROVE late'
  BY <1>2 DEF Moderate, EditRead, EditStop, EditDrain, EditSave, EditList, EditRecord,
     DeleteRecord, AdminDies, DeleteList, EditDue, EditCall, DeleteCall, RecordOutcome
<1>3. ASSUME NEW s \in Sweepers, Sweep(s) PROVE late'
  BY <1>3 DEF Sweep, SweepFind, SweepCall, SweepRecord, SweepDies, RecordOutcome
<1>4. ASSUME Stop \/ Resume \/ Still \/ \E g \in Groups : TimePasses(g)
      PROVE  late'
  BY <1>4, StillKept DEF Stop, Resume, TimePasses
<1>5. QED BY <1>1, <1>2, <1>3, <1>4, Zenon DEF Next, Still, Status

\* A request that is about to save found, or waited until, nobody sends.
LEMMA SaverWaited ==
  ASSUME TypeOK, Lists, NobodySends, NEW a \in Admins, Moderate(a), ~late',
         pc'[a] \in {"drain", "save"}
  PROVE  /\ row' = row \/ StopRows
         /\ pc'[a] = "drain" => stopRequested'
         /\ pc'[a] = "save" => /\ \A g \in Groups : wk[g] = "idle"
                               /\ row' = row /\ stopRequested' = stopRequested
                               /\ status' = status
                               /\ \/ stopRequested \/ status = "scheduled"
                                  \/ \A g \in Groups : row[g].status # "pending"
<1>1. ASSUME NEW setsAuto \in BOOLEAN, EditRead(a, setsAuto), pc'[a] = "save"
      PROVE  /\ row' = row /\ stopRequested' = stopRequested /\ status' = status
             /\ \A g \in Groups : wk[g] = "idle"
             /\ status = "scheduled" \/ \A g \in Groups : row[g].status # "pending"
  <2>1. UNCHANGED <<row, stopRequested, status>> /\ (status = "over" => ~StillRuns)
    BY <1>1 DEF EditRead, post, campaign
  <2>2. status \in {"scheduled", "over"}
    BY <1>1 DEF TypeOK, EditRead, MoveAdmin
  <2>3. QED BY <2>1, <2>2 DEF StillRuns, Lists, ScheduledIsQuiet
<1>r. ASSUME NEW setsAuto \in BOOLEAN, EditRead(a, setsAuto)
      PROVE  pc'[a] # "drain" /\ row' = row
  BY <1>r DEF TypeOK, EditRead, MoveAdmin
<1>2. ASSUME EditStop(a) PROVE StopRows /\ pc'[a] = "drain" /\ stopRequested'
  BY <1>2 DEF TypeOK, EditStop, MoveAdmin, StopRows
<1>3. ASSUME EditDrain(a)
      PROVE  /\ pc'[a] = "save" /\ row' = row /\ stopRequested' = stopRequested
             /\ status' = status
             /\ stopRequested /\ \A g \in Groups : wk[g] = "idle"
  <2>1. pc[a] = "drain" /\ pc'[a] = "save"
    BY <1>3 DEF TypeOK, EditDrain, MoveAdmin
  <2>2. ~Unnoticed /\ \A g \in Groups : row[g].status # "sending"
    BY <1>3 DEF EditDrain
  <2>3. QED BY <1>3, <2>1, <2>2 DEF EditDrain, post, campaign, Unnoticed, NobodySends
<1>4. ASSUME \/ EditSave(a) \/ EditList(a) \/ EditRecord(a) \/ DeleteRecord(a) \/ AdminDies(a)
             \/ \E chosen \in SUBSET Groups \ {{}} : DeleteList(a, chosen)
             \/ \E g \in Groups : EditDue(a, g) \/ EditCall(a, g) \/ DeleteCall(a, g)
      PROVE  FALSE
  BY <1>4, ZenonT(60)
     DEF TypeOK, EditSave, EditList, EditRecord, DeleteRecord, AdminDies, DeleteList,
     EditDue, EditCall, DeleteCall, MoveAdmin, NextOf
<1>5. QED BY <1>1, <1>r, <1>2, <1>3, <1>4 DEF Moderate

LEMMA NobodySendsStep ==
  ASSUME TypeOK, Lists, NobodySends, [Next]_vars, ~late'
  PROVE  NobodySends'
<1> DEFINE Idle(a) == /\ \A g \in Groups : wk[g] = "idle"
                      /\ \/ stopRequested \/ status = "scheduled"
                         \/ \A g \in Groups : row[g].status # "pending"
           Holds(a) == /\ pc'[a] = "drain" => stopRequested'
                       /\ pc'[a] = "save" => Idle(a)'
<1>1. ASSUME NEW a \in Admins, pc'[a] = pc[a],
             UNCHANGED <<wk, stopRequested, status>>,
             \A g \in Groups : row'[g].status = "pending" => row[g].status = "pending"
      PROVE  Holds(a)
  BY <1>1 DEF NobodySends
<1>2. ASSUME NEW a \in Admins, pc'[a] = pc[a], wk' = wk, StopRows
      PROVE  Holds(a)
  BY <1>2 DEF NobodySends, StopRows
<1>3. ASSUME NEW a \in Admins, Resume PROVE Holds(a)
  BY <1>3 DEF Resume, admin
<1>4. ASSUME NEW g \in Groups, Deliver(g), NEW a \in Admins PROVE Holds(a)
  <2>1. UNCHANGED <<stopRequested, status, pc>>
    BY <1>4 DEF Deliver, DeliverRead, DeliverPostpone, DeliverMark, DeliverSend, DeliverFails,
       DeliverRecord, DeliverRecordFails, WorkerDies, MarkStuck, DeliverOnly, post, campaign,
       admin
  <2>2. CASE wk[g] = "idle" /\ (stopRequested \/ status = "scheduled" \/ row[g].status # "pending")
    <3>1. DeliverRead(g) \/ MarkStuck(g)
      BY <1>4, <2>2 DEF Deliver, DeliverPostpone, DeliverMark, DeliverSend, DeliverFails,
         DeliverRecord, DeliverRecordFails, WorkerDies, MoveWorker
    <3>2. wk' = wk
      BY <2>2, <3>1 DEF DeliverRead, MarkStuck, worker
    <3>3. \A h \in Groups : row'[h].status = "pending" => row[h].status = "pending"
      BY <3>1, <2>2, ZenonT(60) DEF DeliverRead, MarkStuck, TypeOK, Row
    <3>4. QED BY <1>1, <2>1, <3>2, <3>3
  <2>3. CASE ~(/\ wk[g] = "idle"
               /\ stopRequested \/ status = "scheduled" \/ row[g].status # "pending")
    BY <2>1, <2>3 DEF NobodySends
  <2>4. QED BY <2>2, <2>3
<1>5. ASSUME NEW a \in Admins, Moderate(a), NEW b \in Admins PROVE Holds(b)
  <2>1. wk' = wk
    BY <1>5 DEF Moderate, EditRead, EditStop, EditDrain, EditSave, EditList, EditRecord,
       DeleteRecord, AdminDies, DeleteList, EditDue, EditCall, DeleteCall, AdminOnly, worker
  <2>2. CASE b # a
    <3>1. pc'[b] = pc[b]
      BY <1>5, <2>2, OthersKept DEF Others
    <3>2. CASE EditStop(a)
      <4>1. StopRows \/ UNCHANGED <<row, stopRequested, status>>
        BY <3>2 DEF EditStop, post, campaign
      <4>2. QED BY <1>1, <1>2, <2>1, <3>1, <4>1
    <3>3. CASE ~EditStop(a)
      <4>1. UNCHANGED <<stopRequested, status>>
        BY <1>5, <3>3 DEF Moderate, EditRead, EditDrain, EditSave, EditList, EditRecord,
           DeleteRecord, AdminDies, DeleteList, EditDue, EditCall, DeleteCall, post, campaign
      <4>2. StatusKept
        BY <1>5, <3>3, ModerateRows
      <4>3. QED BY <1>1, <2>1, <3>1, <4>1, <4>2 DEF StatusKept
    <3>4. QED BY <3>2, <3>3
  <2>3. CASE b = a
    BY <1>5, <2>1, <2>3, SaverWaited
  <2>4. QED BY <2>2, <2>3
<1>6. ASSUME NEW s \in Sweepers, Sweep(s), NEW a \in Admins PROVE Holds(a)
  <2>1. UNCHANGED <<wk, stopRequested, status, pc>> /\ StatusKept
    BY <1>6, SweepRows DEF Sweep, SweepFind, SweepCall, SweepRecord, SweepDies, SweepOnly,
       post, campaign, worker, admin
  <2>2. QED BY <1>1, <2>1 DEF StatusKept
<1>7. ASSUME NEW g \in Groups, TimePasses(g), NEW a \in Admins PROVE Holds(a)
  <2>1. UNCHANGED <<wk, stopRequested, status, pc>> /\ StatusKept
    BY <1>7, TimeRows DEF TimePasses, SweepOnly, post, campaign, worker, admin
  <2>2. QED BY <1>1, <2>1 DEF StatusKept
<1>8. ASSUME Stop, NEW a \in Admins PROVE Holds(a)
  BY <1>2, <1>8 DEF Stop, StopRows, campaign, worker, admin
<1>9. ASSUME Still, NEW a \in Admins PROVE Holds(a)
  <2>1. UNCHANGED <<wk, stopRequested, row, pc>>
    BY <1>9, StillKept
  <2>2. CASE status' = status
    BY <1>1, <2>1, <2>2
  <2>3. ASSUME pc[a] = "save", status = "scheduled", status' # status
        PROVE  \A g \in Groups : row[g].status # "pending"
    <3>1. FinalizeStore
      BY <1>9, <2>3 DEF Still, Status, DispatchRead, Dispatch, FinalizeCount, vars, post, campaign
    <3>2. QED BY <2>3, <3>1 DEF FinalizeStore, Lists, ScheduledIsQuiet
  <2>4. CASE status' # status
    BY <2>1, <2>3, <2>4 DEF NobodySends
  <2>5. QED BY <2>2, <2>4
<1> HIDE DEF Holds
<1>10. \A a \in Admins : Holds(a)
  BY <1>3, <1>4, <1>5, <1>6, <1>7, <1>8, <1>9, Zenon DEF Next, Still, Status
<1>11. QED BY <1>10 DEF Holds, NobodySends

\* What a delivery under way has read is what is stored, and nobody but the
\* delivery itself touches the group before it is recorded.
LEMMA SendsStoredStep ==
  ASSUME TypeOK, Lists, NobodySends, SendsStored, [Next]_vars, ~late'
  PROVE  SendsStored'
<1>a. \A g \in Sent : wk[g] # "recording" /\ g \in Groups
  BY DEF Sent, Lists, WorkerHasRow
<1>1. ASSUME UNCHANGED <<text, wk, snap>>,
             \A g \in Groups : live'[g] = live[g] \/ g \in Sent
      PROVE  SendsStored'
  BY <1>1, <1>a DEF SendsStored
<1>2. ASSUME NEW g \in Groups, Deliver(g) PROVE SendsStored'
  <2>1. UNCHANGED text
    BY <1>2 DEF Deliver, DeliverRead, DeliverPostpone, DeliverMark, DeliverSend, DeliverFails,
       DeliverRecord, DeliverRecordFails, WorkerDies, MarkStuck, DeliverOnly, post
  <2>2. \A h \in Groups \ {g} : wk'[h] = wk[h] /\ snap'[h] = snap[h] /\ live'[h] = live[h]
    BY <1>2 DEF TypeOK, Deliver, DeliverRead, DeliverPostpone, DeliverMark, DeliverSend,
       DeliverFails, DeliverRecord, DeliverRecordFails, WorkerDies, MarkStuck, MoveWorker, worker
  <2>3. /\ wk'[g] # "idle" => snap'[g].text = text
        /\ wk'[g] = "recording" => live'[g] = snap'[g].text
    <3> USE DEF TypeOK, SendsStored, MoveWorker, worker
    <3>1. CASE DeliverRead(g)
      BY <3>1 DEF DeliverRead
    <3>2. CASE DeliverPostpone(g) \/ DeliverMark(g)
      BY <3>2 DEF DeliverPostpone, DeliverMark
    <3>3. CASE DeliverSend(g)
      BY <3>3 DEF DeliverSend
    <3>4. CASE DeliverFails(g) \/ DeliverRecord(g) \/ DeliverRecordFails(g) \/ WorkerDies(g)
      BY <3>4 DEF DeliverFails, DeliverRecord, DeliverRecordFails, WorkerDies
    <3>5. CASE MarkStuck(g)
      BY <3>5 DEF MarkStuck
    <3>6. QED BY <1>2, <3>1, <3>2, <3>3, <3>4, <3>5 DEF Deliver
  <2>4. QED BY <2>1, <2>2, <2>3 DEF SendsStored
<1>3. ASSUME NEW a \in Admins, EditSave(a) PROVE SendsStored'
  BY <1>3 DEF EditSave, MoveAdmin, NobodySends, SendsStored, AdminOnly, worker
<1>4. ASSUME NEW a \in Admins, Moderate(a), ~EditSave(a) PROVE SendsStored'
  <2>1. UNCHANGED <<text, wk, snap>>
    BY <1>4 DEF Moderate, EditRead, EditStop, EditDrain, EditList, EditRecord, DeleteRecord,
       AdminDies, DeleteList, EditDue, EditCall, DeleteCall, AdminOnly, worker, post, StopRows
  <2>2. \A g \in Groups : live'[g] = live[g] \/ g \in Sent
    <3>1. ASSUME NEW h \in Groups, EditCall(a, h) \/ DeleteCall(a, h)
          PROVE  \A g \in Groups : live'[g] = live[g] \/ g \in Sent
      <4>1. h \in Sent
        BY <3>1 DEF EditCall, DeleteCall, Lists, RequestsListSent
      <4>2. QED BY <3>1, <4>1 DEF EditCall, DeleteCall, PlatformDeletes, TypeOK
    <3>2. CASE ~\E h \in Groups : EditCall(a, h) \/ DeleteCall(a, h)
      BY <1>4, <3>2 DEF Moderate, EditRead, EditStop, EditDrain, EditList, EditRecord,
         DeleteRecord, AdminDies, DeleteList, EditDue
    <3>3. QED BY <3>1, <3>2
  <2>3. QED BY <1>1, <2>1, <2>2
<1>5. ASSUME NEW s \in Sweepers, Sweep(s) PROVE SendsStored'
  <2>1. UNCHANGED <<text, wk, snap>>
    BY <1>5 DEF Sweep, SweepFind, SweepCall, SweepRecord, SweepDies, SweepOnly, worker, post
  <2>2. \A g \in Groups : live'[g] = live[g] \/ g \in Sent
    <3>1. ASSUME NEW h \in Groups, SweepCall(s, h)
          PROVE  \A g \in Groups : live'[g] = live[g] \/ g \in Sent
      <4>1. h \in Sent
        BY <3>1 DEF SweepCall, Lists, SweepsListSent
      <4>2. QED BY <3>1, <4>1 DEF SweepCall, PlatformDeletes, TypeOK
    <3>2. CASE ~\E h \in Groups : SweepCall(s, h)
      BY <1>5, <3>2 DEF Sweep, SweepFind, SweepRecord, SweepDies
    <3>3. QED BY <3>1, <3>2
  <2>3. QED BY <1>1, <2>1, <2>2
<1>6. ASSUME Stop \/ Resume \/ Still \/ \E g \in Groups : TimePasses(g)
      PROVE  UNCHANGED <<text, wk, snap, live>>
  BY <1>6, StillKept DEF Stop, StopRows, Resume, TimePasses, SweepOnly, post, worker
<1>7. CASE UNCHANGED <<text, wk, snap, live>>
  BY <1>1, <1>7
<1>8. QED BY <1>2, <1>3, <1>4, <1>5, <1>6, <1>7, Zenon DEF Next, Still, Status

\* Only the save changes the text; a second edit that saves makes it late.
LEMMA TextKept ==
  ASSUME TypeOK, [Next]_vars, \A a \in Admins : ~EditSave(a)
  PROVE  text' = text
<1> USE DEF post
<1>1. ASSUME NEW g \in Groups, Deliver(g) \/ TimePasses(g) PROVE text' = text
  BY <1>1 DEF Deliver, DeliverRead, DeliverPostpone, DeliverMark, DeliverSend, DeliverFails,
     DeliverRecord, DeliverRecordFails, WorkerDies, MarkStuck, DeliverOnly, TimePasses, SweepOnly
<1>2. ASSUME NEW a \in Admins, Moderate(a) PROVE text' = text
  BY <1>2 DEF Moderate, EditRead, EditStop, EditDrain, EditList, EditRecord, DeleteRecord,
     AdminDies, DeleteList, EditDue, EditCall, DeleteCall, StopRows
<1>3. ASSUME NEW s \in Sweepers, Sweep(s) PROVE text' = text
  BY <1>3 DEF Sweep, SweepFind, SweepCall, SweepRecord, SweepDies, SweepOnly
<1>4. ASSUME Stop \/ Resume \/ Still PROVE text' = text
  BY <1>4, StillKept DEF Stop, StopRows, Resume
<1>5. QED BY <1>1, <1>2, <1>3, <1>4, Zenon DEF Next, Still, Status

\* Whoever saves is the only one who edits, and has yet to list the groups.
LEMMA SaverIsAlone ==
  ASSUME TypeOK, ~late', NEW a \in Admins, EditSave(a)
  PROVE  text' = a /\ pc'[a] = "list" /\ \A b \in Admins : Editing(b)' => b = a
<1>1. pc' = [pc EXCEPT ![a] = "list"]
  BY DEF EditSave, MoveAdmin
<1>2. \A b \in Admins : ~Editing(b)
  BY DEF EditSave
<1>3. text' = a
  BY DEF EditSave
<1>4. QED BY <1>1, <1>2, <1>3 DEF TypeOK, Editing

LEMMA OneEditStep ==
  ASSUME TypeOK, Lists, OneEdit, [Next]_vars, ~late'
  PROVE  OneEdit'
<1>1. CASE \E a \in Admins : EditSave(a)
  BY <1>1, SaverIsAlone DEF OneEdit
<1>2. CASE \A a \in Admins : ~EditSave(a)
  <2>1. text' = text
    BY <1>2, TextKept
  <2>2. ASSUME NEW a \in Admins, Editing(a)' PROVE Editing(a)
    <3>1. CASE pc'[a] = pc[a]
      BY <2>2, <3>1 DEF Editing
    <3>2. CASE Moderate(a)
      <4>1. CASE \/ EditStop(a) \/ EditDrain(a) \/ AdminDies(a) \/ DeleteRecord(a)
                 \/ \E setsAuto \in BOOLEAN : EditRead(a, setsAuto)
                 \/ \E chosen \in SUBSET Groups \ {{}} : DeleteList(a, chosen)
                 \/ \E g \in Groups : DeleteCall(a, g)
        <5>1. pc'[a] \notin {"list", "due", "edit", "edited"}
          BY <4>1 DEF TypeOK, EditStop, EditDrain, AdminDies, DeleteRecord, EditRead, DeleteList,
             DeleteCall, MoveAdmin, NextOf
        <5>2. QED BY <2>2, <5>1 DEF Editing
      <4>2. CASE EditList(a) \/ EditRecord(a) \/ \E g \in Groups : EditDue(a, g) \/ EditCall(a, g)
        BY <4>2 DEF Editing, EditList, EditRecord, EditDue, EditCall, MoveAdmin
      <4>3. QED BY <1>2, <3>2, <4>1, <4>2 DEF Moderate
    <3>3. ASSUME NEW b \in Admins, Moderate(b), b # a PROVE pc'[a] = pc[a]
      BY <3>3, OthersKept DEF Others
    <3>4. CASE UNCHANGED admin
      BY <3>1, <3>4 DEF admin
    <3>5. QED BY <3>1, <3>2, <3>3, <3>4, AdminKept, Zenon DEF Next, Still, Status
  <2>3. QED BY <2>1, <2>2 DEF OneEdit
<1>3. QED BY <1>1, <1>2

\* What becomes of a group that was sent: nobody sends to it again.
LEMMA LiveOfSent ==
  ASSUME TypeOK, Lists, OneEdit, [Next]_vars, NEW g \in Sent
  PROVE  live'[g] \in {live[g], text, Nobody}
<1>0. g \in Groups
  BY DEF Sent
<1> USE <1>0 DEF TypeOK
<1>1. CASE UNCHANGED live
  BY <1>1
<1>2. ASSUME NEW h \in Groups, Deliver(h) PROVE live'[g] = live[g]
  <2>1. h # g
    BY <1>2, DeliverRows
  <2>2. CASE DeliverSend(h) \/ DeliverFails(h)
    BY <2>1, <2>2 DEF DeliverSend, DeliverFails
  <2>3. CASE ~(DeliverSend(h) \/ DeliverFails(h))
    BY <1>2, <2>3 DEF Deliver, DeliverRead, DeliverPostpone, DeliverMark, DeliverRecord,
       DeliverRecordFails, WorkerDies, MarkStuck
  <2>4. QED BY <2>2, <2>3
<1>3. ASSUME NEW a \in Admins, Moderate(a) PROVE live'[g] \in {live[g], text, Nobody}
  <2>1. ASSUME NEW h \in Groups, EditCall(a, h) PROVE live'[g] \in {live[g], text}
    <3>1. text = a
      BY <2>1 DEF EditCall, MoveAdmin, OneEdit, Editing
    <3>2. QED BY <2>1, <3>1 DEF EditCall
  <2>2. ASSUME NEW h \in Groups, DeleteCall(a, h) PROVE live'[g] \in {live[g], Nobody}
    BY <2>2 DEF DeleteCall, PlatformDeletes
  <2>3. CASE ~\E h \in Groups : EditCall(a, h) \/ DeleteCall(a, h)
    BY <1>1, <1>3, <2>3 DEF Moderate, EditRead, EditStop, EditDrain, EditSave, EditList,
       EditRecord, DeleteRecord, AdminDies, DeleteList, EditDue
  <2>4. QED BY <2>1, <2>2, <2>3
<1>4. ASSUME NEW s \in Sweepers, Sweep(s) PROVE live'[g] \in {live[g], Nobody}
  <2>1. ASSUME NEW h \in Groups, SweepCall(s, h) PROVE live'[g] \in {live[g], Nobody}
    BY <2>1 DEF SweepCall, PlatformDeletes
  <2>2. CASE ~\E h \in Groups : SweepCall(s, h)
    BY <1>1, <1>4, <2>2 DEF Sweep, SweepFind, SweepRecord, SweepDies
  <2>3. QED BY <2>1, <2>2
<1>5. ASSUME Stop \/ Resume \/ Still \/ \E h \in Groups : TimePasses(h)
      PROVE  UNCHANGED live
  BY <1>5, StillKept DEF Stop, Resume, TimePasses
<1>6. CASE Next
  <2>1. CASE \E h \in Groups : Deliver(h)
    BY <1>2, <2>1
  <2>2. CASE \E s \in Sweepers : Sweep(s)
    BY <1>4, <2>2
  <2>3. CASE \E a \in Admins : Moderate(a)
    BY <1>3, <2>3
  <2>4. CASE Stop \/ Resume \/ Still \/ \E h \in Groups : TimePasses(h)
    BY <1>1, <1>5, <2>4
  <2>5. QED BY <1>6, <2>1, <2>2, <2>3, <2>4, Zenon DEF Next, Still, Status
<1>7. QED BY <1>1, <1>5, <1>6 DEF Still

LEMMA EditedIsNewStep ==
  ASSUME TypeOK, Lists, OneEdit, EditedIsNew, [Next]_vars, ~late'
  PROVE  EditedIsNew'
<1>1. CASE \E a \in Admins : EditSave(a)
  BY <1>1, SaverIsAlone DEF EditedIsNew, Editing
<1>2. CASE \A a \in Admins : ~EditSave(a)
  <2>1. text' = text
    BY <1>2, TextKept
  <2>2. ASSUME NEW a \in Admins, pc'[a] = "edited", res'[a] = "ok"
        PROVE  live'[cur'[a]] \in {text, Nobody}
    <3>1. CASE pc'[a] = pc[a] /\ res'[a] = res[a] /\ cur'[a] = cur[a]
      <4>1. cur[a] \in Sent /\ live[cur[a]] \in {text, Nobody}
        BY <2>2, <3>1 DEF EditedIsNew, Lists, RequestsListSent
      <4>2. QED BY <3>1, <4>1, LiveOfSent
    <3>2. ASSUME NEW g \in Groups, EditCall(a, g) PROVE live'[cur'[a]] = text
      <4>1. text = a /\ cur'[a] = g
        BY <3>2 DEF TypeOK, EditCall, MoveAdmin, OneEdit, Editing
      <4>2. QED BY <2>2, <3>2, <4>1 DEF TypeOK, EditCall
    <3>3. CASE Moderate(a) /\ ~\E g \in Groups : EditCall(a, g)
      <4>1. pc'[a] # "edited" \/ UNCHANGED <<pc, res, cur>>
        BY <1>2, <3>3, ZenonT(60)
           DEF TypeOK, Moderate, EditRead, EditStop, EditDrain, EditList, EditRecord,
           DeleteRecord, AdminDies, DeleteList, EditDue, DeleteCall, MoveAdmin, NextOf
      <4>2. QED BY <2>2, <3>1, <4>1
    <3>4. ASSUME NEW b \in Admins, Moderate(b), b # a
          PROVE  pc'[a] = pc[a] /\ res'[a] = res[a] /\ cur'[a] = cur[a]
      BY <3>4, OthersKept DEF Others
    <3>5. CASE UNCHANGED admin
      BY <3>1, <3>5 DEF admin
    <3>6. QED
      <4>1. CASE \E b \in Admins : Moderate(b)
        BY <3>1, <3>2, <3>3, <3>4, <4>1
      <4>2. CASE ~\E b \in Admins : Moderate(b)
        BY <3>5, <4>2, AdminKept, Zenon DEF Next, Still, Status
      <4>3. QED BY <4>1, <4>2
  <2>3. QED BY <2>1, <2>2 DEF EditedIsNew
<1>3. QED BY <1>1, <1>2

\* What shows an old text and was not shown before, or showed the new one.
Outdated(g) == Shown(g) /\ live[g] # text

\* The steps that are no part of an edit outdate nothing, and no edit moves on.
LEMMA NothingNewIsOutdated ==
  ASSUME TypeOK, Lists, SendsStored, NEW g \in Groups, Outdated(g)',
         \/ Stop \/ Resume \/ Still
         \/ \E h \in Groups : Deliver(h) \/ TimePasses(h)
         \/ \E s \in Sweepers : Sweep(s)
  PROVE  Outdated(g)
<1>a. /\ g \in Groups /\ row'[g].status = "sent" /\ ~row'[g].deleted /\ ~row'[g].error
      /\ live'[g] # Nobody /\ live'[g] # text'
  BY DEF Outdated, Shown, Published
<1>b. row[g].status = "sent" /\ ~row[g].deleted /\ ~row[g].error
        /\ live[g] # Nobody /\ live[g] # text => Outdated(g)
  BY DEF Outdated, Shown, Published
<1>c. row \in [Groups -> Row] /\ row[g] \in Row
  BY DEF TypeOK
<1>1. CASE row' = row /\ live' = live /\ text' = text
  BY <1>a, <1>b, <1>1
<1>2. CASE StopRows /\ live' = live
  BY <1>a, <1>b, <1>c, <1>2 DEF StopRows, Row
<1>3. CASE Resume
  BY <1>a, <1>b, <1>c, <1>3 DEF Resume, Row
<1>4. ASSUME NEW h \in Groups, TimePasses(h) PROVE Outdated(g)
  <2>1. live' = live /\ text' = text /\ row' = [row EXCEPT ![h].due = "passed"]
    BY <1>4 DEF TimePasses, SweepOnly, post
  <2>2. QED BY <1>a, <1>b, <1>c, <2>1 DEF Row
<1>5. ASSUME NEW h \in Groups, Deliver(h) PROVE Outdated(g)
  <2>1. text' = text
    BY <1>5 DEF Deliver, DeliverRead, DeliverPostpone, DeliverMark, DeliverSend, DeliverFails,
       DeliverRecord, DeliverRecordFails, WorkerDies, MarkStuck, DeliverOnly, post
  <2>2. CASE h # g
    <3>1. row'[g] = row[g]
      BY <1>5, <2>2, DeliverRows
    <3>2. live'[g] = live[g]
      BY <1>5, <2>2 DEF TypeOK, Deliver, DeliverRead, DeliverPostpone, DeliverMark, DeliverSend,
         DeliverFails, DeliverRecord, DeliverRecordFails, WorkerDies, MarkStuck
    <3>3. QED BY <1>a, <1>b, <2>1, <3>1, <3>2
  <2>3. CASE h = g
    <3>1. row[g].status # "sent"
      BY <1>5, <2>3, DeliverRows DEF Sent
    <3>2. DeliverRecord(g)
      <4>1. CASE \/ DeliverPostpone(g) \/ DeliverSend(g) \/ WorkerDies(g)
        BY <1>a, <3>1, <4>1 DEF DeliverPostpone, DeliverSend, WorkerDies
      <4>2. ASSUME NEW s, row' = [row EXCEPT ![g].status = s], s # "sent" PROVE FALSE
        BY <1>a, <1>c, <4>2 DEF Row
      <4>3. ASSUME NEW s, row' = [row EXCEPT ![g].status = s, ![g].error = TRUE] PROVE FALSE
        BY <1>a, <1>c, <4>3 DEF Row
      <4>4. ~DeliverRead(g) /\ ~DeliverMark(g)
        BY <1>a, <3>1, <4>2 DEF DeliverRead, DeliverMark
      <4>5. ~DeliverFails(g) /\ ~DeliverRecordFails(g) /\ ~MarkStuck(g)
        BY <4>3 DEF DeliverFails, DeliverRecordFails, MarkStuck
      <4>6. QED BY <1>5, <2>3, <4>1, <4>4, <4>5 DEF Deliver
    <3>3. wk[g] = "recording" /\ live' = live
      BY <3>2 DEF DeliverRecord, MoveWorker
    <3>4. live[g] = text
      BY <3>3 DEF SendsStored
    <3>5. QED BY <1>a, <2>1, <3>3, <3>4
  <2>4. QED BY <2>2, <2>3
<1>6. ASSUME NEW s \in Sweepers, Sweep(s) PROVE Outdated(g)
  <2>1. text' = text
    BY <1>6 DEF Sweep, SweepFind, SweepCall, SweepRecord, SweepDies, SweepOnly, post
  <2>2. ASSUME NEW h \in Groups, SweepCall(s, h) PROVE Outdated(g)
    <3>1. row' = row /\ live'[g] \in {live[g], Nobody}
      BY <2>2 DEF SweepCall, PlatformDeletes, TypeOK
    <3>2. QED BY <1>a, <1>b, <2>1, <3>1
  <2>3. CASE SweepRecord(s)
    <3> DEFINE h == sweepCur[s]
               failed == DeletionFailed(row[h], batch[s][h] + 1)
               new == IF sweepRes[s] = "ok" THEN Deleted(row[h]) ELSE failed
    <3>1. h \in Groups /\ live' = live
      BY <2>3 DEF SweepRecord, Lists, SweepsListSent, Sent
    <3>2. failed.error /\ Deleted(row[h]).deleted
      BY <1>c, <3>1 DEF DeletionFailed, Deleted, TypeOK, Row
    <3>3. new.error \/ new.deleted
      BY <3>2
    <3>4. row' = row \/ row' = [row EXCEPT ![h] = new]
      BY <2>3 DEF SweepRecord, RecordOutcome
    <3> HIDE DEF h, new
    <3>5. row'[g] = row[g] \/ row'[g] = new
      BY <1>c, <3>1, <3>4
    <3>6. QED BY <1>a, <1>b, <2>1, <3>1, <3>3, <3>5
  <2>4. CASE SweepFind(s) \/ SweepDies(s)
    BY <1>1, <2>1, <2>4 DEF SweepFind, SweepDies
  <2>5. QED BY <1>6, <2>2, <2>3, <2>4 DEF Sweep
<1>7. CASE Stop \/ Still
  BY <1>1, <1>2, <1>7, StillKept DEF Stop
<1>8. QED BY <1>2, <1>3, <1>4, <1>5, <1>6, <1>7

\* A step of a request that outdates nothing new, and leaves no group behind.
LEMMA EditLeavesNobody ==
  ASSUME TypeOK, Lists, OneEdit, EditedIsNew, NEW a \in Admins, Moderate(a), ~late',
         ~EditSave(a), text' = text, NEW g \in Groups, Outdated(g)'
  PROVE  Outdated(g) /\ (StillEdits(a, g) => StillEdits(a, g)')
<1> DEFINE P == Outdated(g) /\ (StillEdits(a, g) => StillEdits(a, g)')
<1>a. /\ row'[g].status = "sent" /\ ~row'[g].deleted /\ ~row'[g].error
      /\ live'[g] # Nobody /\ live'[g] # text
  BY DEF Outdated, Shown, Published
<1>b. row[g].status = "sent" /\ ~row[g].deleted /\ ~row[g].error
        /\ live[g] # Nobody /\ live[g] # text => Outdated(g)
  BY DEF Outdated, Shown, Published
<1>c. row \in [Groups -> Row] /\ row[g] \in Row /\ DOMAIN live = Groups
  BY DEF TypeOK
<1>d. StillEdits(a, g) => pc[a] \in {"list", "due", "edit", "edited"}
  BY DEF StillEdits
<1>e. /\ DOMAIN pc = Admins /\ DOMAIN left = Admins /\ DOMAIN list = Admins
      /\ DOMAIN cur = Admins /\ DOMAIN res = Admins
  BY DEF TypeOK
<1>1. CASE \/ \E setsAuto \in BOOLEAN : EditRead(a, setsAuto)
           \/ EditDrain(a) \/ AdminDies(a)
           \/ \E chosen \in SUBSET Groups \ {{}} : DeleteList(a, chosen)
  <2>1. row' = row /\ live' = live /\ ~Editing(a)
    BY <1>1 DEF EditRead, EditDrain, AdminDies, DeleteList, MoveAdmin, Editing
  <2>2. QED BY <1>a, <1>b, <1>d, <2>1 DEF Editing
<1>2. CASE EditStop(a)
  <2>1. live' = live /\ pc[a] = "stop" /\ (StopRows \/ row' = row)
    BY <1>2 DEF EditStop, MoveAdmin
  <2>2. CASE row' = row
    BY <1>a, <1>b, <1>d, <2>1, <2>2
  <2>3. CASE StopRows
    BY <1>a, <1>b, <1>c, <1>d, <2>1, <2>3 DEF StopRows, Row
  <2>4. QED BY <2>1, <2>2, <2>3
<1>3. CASE EditList(a)
  <2>1. row' = row /\ live' = live
    BY <1>3 DEF EditList
  <2>2. g \in Published
    BY <1>a, <2>1 DEF Published
  <2>3. pc'[a] = "due" /\ list'[a] = Published
    BY <1>3, <1>e, <2>2 DEF EditList, MoveAdmin
  <2>4. QED BY <1>a, <1>b, <2>1, <2>2, <2>3 DEF StillEdits
<1>4. ASSUME NEW h \in Groups, EditDue(a, h) PROVE P
  <2> DEFINE new == [row[h] EXCEPT !.due = DueAt(form[a]), !.attempts = 0]
  <2>1. row' = [row EXCEPT ![h] = new] /\ live' = live /\ pc[a] = "due"
    BY <1>4 DEF EditDue, RecordOutcome
  <2>2. new.status = row[h].status /\ new.deleted = row[h].deleted /\ new.error = row[h].error
    BY <1>c DEF Row, TypeOK
  <2> HIDE DEF new
  <2>3. Outdated(g)
    BY <1>a, <1>b, <1>c, <2>1, <2>2
  <2>4. /\ pc'[a] = IF left[a] = {h} THEN "edit" ELSE "due"
        /\ left'[a] = IF left[a] = {h} THEN list[a] ELSE left[a] \ {h}
        /\ list'[a] = list[a]
    BY <1>4, <1>e DEF EditDue
  <2>5. QED BY <2>1, <2>3, <2>4 DEF StillEdits
<1>5. ASSUME NEW h \in Groups, EditCall(a, h) PROVE P
  <2>1. row' = row /\ left' = left /\ pc[a] = "edit" /\ pc'[a] = "edited" /\ cur'[a] = h
    BY <1>5, <1>e DEF EditCall, MoveAdmin
  <2>2. text = a
    BY <2>1 DEF OneEdit, Editing
  <2>3. \/ res'[a] = "error" /\ live' = live
        \/ live' = [live EXCEPT ![h] = a]
    BY <1>5, <1>e DEF EditCall, Answers
  <2>4. CASE h = g
    BY <1>a, <1>b, <1>c, <2>1, <2>2, <2>3, <2>4 DEF StillEdits
  <2>5. CASE h # g
    BY <1>a, <1>b, <1>c, <2>1, <2>3, <2>5 DEF StillEdits
  <2>6. QED BY <2>4, <2>5
<1>6. CASE EditRecord(a)
  <2>1. /\ live' = live /\ pc[a] = "edited" /\ cur' = cur /\ cur[a] \in left[a]
        /\ cur[a] \in Groups
    BY <1>6 DEF EditRecord, Lists, RequestsListSent, Sent
  <2>2. row' = [row EXCEPT ![cur[a]] = [row[cur[a]] EXCEPT !.error = (res[a] = "error")]]
    BY <1>6 DEF EditRecord, RecordOutcome
  <2>3. /\ left'[a] = left[a] \ {cur[a]}
        /\ pc'[a] = IF left[a] = {cur[a]} THEN "done" ELSE "edit"
    BY <1>6, <1>e DEF EditRecord, NextOf
  <2>4. CASE g = cur[a]
    <3>1. row'[g] = [row[g] EXCEPT !.error = (res[a] = "error")]
      BY <1>c, <2>2, <2>4
    <3>2. row'[g].error = (res[a] = "error")
      BY <1>c, <3>1 DEF Row
    <3>3. res[a] = "ok"
      BY <1>a, <3>2 DEF TypeOK, Answers
    <3>4. live[g] \in {text, Nobody}
      BY <2>1, <2>4, <3>3 DEF EditedIsNew
    <3>5. QED BY <1>a, <2>1, <3>4
  <2>5. CASE g # cur[a]
    <3>1. row'[g] = row[g]
      BY <1>c, <2>2, <2>5
    <3>2. StillEdits(a, g) => g \in left[a]
      BY <2>1 DEF StillEdits
    <3>3. g \in left[a] => pc'[a] = "edit" /\ g \in left'[a]
      BY <2>3, <2>5
    <3>4. QED BY <1>a, <1>b, <2>1, <3>1, <3>2, <3>3 DEF StillEdits
  <2>6. QED BY <2>4, <2>5
<1>7. ASSUME NEW h \in Groups, DeleteCall(a, h) PROVE P
  <2>1. row' = row /\ pc[a] = "delete" /\ live'[g] \in {live[g], Nobody}
    BY <1>7 DEF DeleteCall, MoveAdmin, PlatformDeletes, TypeOK
  <2>2. QED BY <1>a, <1>b, <1>d, <2>1
<1>8. CASE DeleteRecord(a)
  <2> DEFINE h == cur[a]
             new == IF res[a] = "ok" THEN Deleted(row[h]) ELSE [row[h] EXCEPT !.error = TRUE]
  <2>1. h \in Groups /\ live' = live /\ pc[a] = "deleted"
    BY <1>8 DEF DeleteRecord, Lists, RequestsListSent, Sent
  <2>2. row' = row \/ row' = [row EXCEPT ![h] = new]
    BY <1>8 DEF DeleteRecord, RecordOutcome
  <2>3. new.error \/ new.deleted
    BY <1>c, <2>1 DEF Deleted, Row
  <2> HIDE DEF h, new
  <2>4. row'[g] = row[g] \/ row'[g] = new
    BY <1>c, <2>1, <2>2
  <2>5. QED BY <1>a, <1>b, <1>d, <2>1, <2>3, <2>4
<1>9. QED BY <1>1, <1>2, <1>3, <1>4, <1>5, <1>6, <1>7, <1>8 DEF Moderate

LEMMA OutdatedIsEditedStep ==
  ASSUME TypeOK, Lists, TextInv, [Next]_vars, ~late, ~late'
  PROVE  OutdatedIsEdited'
<1> USE DEF TextInv
<1>a. \A g \in Groups : Outdated(g) => \E a \in Admins : StillEdits(a, g)
  BY DEF OutdatedIsEdited, Outdated
<1>1. CASE \E a \in Admins : EditSave(a)
  BY <1>1, SaverIsAlone DEF OutdatedIsEdited, StillEdits
<1>2. CASE \A a \in Admins : ~EditSave(a)
  <2> SUFFICES ASSUME NEW g \in Groups, Outdated(g)'
               PROVE  \E a \in Admins : StillEdits(a, g)'
    BY DEF OutdatedIsEdited, Outdated
  <2>1. text' = text
    BY <1>2, TextKept
  <2>2. ASSUME NEW a \in Admins, Moderate(a) PROVE \E b \in Admins : StillEdits(b, g)'
    <3>1. Outdated(g) /\ (StillEdits(a, g) => StillEdits(a, g)')
      BY <1>2, <2>1, <2>2, EditLeavesNobody
    <3>2. PICK b \in Admins : StillEdits(b, g)
      BY <1>a, <3>1
    <3>3. CASE b = a
      BY <3>1, <3>2, <3>3
    <3>4. CASE b # a
      BY <2>2, <3>2, <3>4, OthersKept DEF Others, StillEdits
    <3>5. QED BY <3>3, <3>4
  <2>3. ASSUME \/ Stop \/ Resume \/ Still
               \/ \E h \in Groups : Deliver(h) \/ TimePasses(h)
               \/ \E s \in Sweepers : Sweep(s)
        PROVE  \E b \in Admins : StillEdits(b, g)'
    <3>1. Outdated(g)
      <4>1. SendsStored /\ Outdated(g)'
        BY DEF TextInv
      <4>2. QED BY <2>3, <4>1, NothingNewIsOutdated
    <3>2. PICK b \in Admins : StillEdits(b, g)
      BY <1>a, <3>1
    <3>3. UNCHANGED admin
      BY <2>3, AdminKept, Zenon
    <3>4. QED BY <3>2, <3>3 DEF admin, StillEdits
  <2>4. QED BY <2>2, <2>3, Zenon DEF Next, Still, Status
<1>3. QED BY <1>1, <1>2

LEMMA TextInvStep ==
  ASSUME DeletionInv, TextInv, [Next]_vars
  PROVE  TextInv'
<1> SUFFICES ASSUME ~late'
             PROVE  (NobodySends /\ SendsStored /\ OneEdit /\ OutdatedIsEdited /\ EditedIsNew)'
  BY DEF TextInv
<1>1. ~late /\ TypeOK /\ Lists
  BY LateStays DEF DeletionInv
<1>2. NobodySends' /\ SendsStored'
  BY <1>1, NobodySendsStep, SendsStoredStep DEF TextInv
<1>3. OneEdit' /\ EditedIsNew'
  BY <1>1, OneEditStep, EditedIsNewStep DEF TextInv
<1>4. OutdatedIsEdited'
  BY <1>1, OutdatedIsEditedStep
<1>5. QED BY <1>2, <1>3, <1>4

LEMMA InitTextInv == Init => TextInv
BY DEF Init, TextInv, NobodySends, SendsStored, OneEdit, Editing, OutdatedIsEdited, EditedIsNew,
   Shown, Published, NewRow

\* When all is quiet, a group that shows its message shows the text that is
\* stored - unless something happened after which a text may be outdated
\* (an edit that found the campaign over with a delivery still to be made, a
\* delivery that waited for its slot or was given up alive when the edit stopped
\* waiting, a wait that timed out, a dispatch or a resume before the save, two
\* edits at once, a request that died, a record that was not written).
THEOREM TextsAreStored == Spec => []ShownIsStored
<1>1. DeletionInv /\ TextInv => ShownIsStored
  <2> SUFFICES ASSUME TypeOK, TextInv, Quiet, ~late, NEW g \in Groups, Shown(g)
               PROVE  live[g] = text
    BY DEF DeletionInv, ShownIsStored
  <2>1. \A a \in Admins : ~StillEdits(a, g)
    BY DEF Quiet, StillEdits
  <2>2. QED BY <2>1 DEF TextInv, OutdatedIsEdited
<1>2. Init => DeletionInv /\ TextInv
  BY InitDeletionInv, InitTextInv
<1>3. DeletionInv /\ TextInv /\ [Next]_vars => DeletionInv' /\ TextInv'
  BY DeletionInvStep, TextInvStep
<1>4. QED BY <1>1, <1>2, <1>3, PTL DEF Spec

=============================================================================
