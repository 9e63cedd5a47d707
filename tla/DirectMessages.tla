--------------------------- MODULE DirectMessages ---------------------------
(***************************************************************************)
(* Sending one post into people's private dialogs: the consent gate of the *)
(* bot, the call that freezes the list of recipients and queues a job for  *)
(* each of them, the worker that sends one message, and the rate limiter   *)
(* that paces its calls.                                                   *)
(*                                                                         *)
(* BullMQ ignores a job whose id is taken, so a row has at most one job    *)
(* and at most one handler: a handler is named by its person.  Time is     *)
(* kept relative to the present, so that it needs no bound: a moment is    *)
(* the distance to it, and Tick brings every moment closer.                *)
(***************************************************************************)
EXTENDS Integers, FiniteSets

CONSTANTS
  People,       \* users of the platforms
  Known,        \* those who had agreed and entered a contest before
  Runs,         \* calls of sendNow
  MaxAttempts,  \* SEND_ATTEMPTS of a job
  Interval,     \* MIN_INTERVAL_MS: gap between two slots of the limiter
  MaxWait,      \* MAX_INPLACE_WAIT_MS: the longest a worker sleeps for a slot
  Ttl,          \* KEY_TTL_MS: life of the limiter's key
  MaxFaults     \* bound on lost writes and crashes

ASSUME PeopleAssumption == Known \subseteq People
ASSUME AttemptsAssumption == MaxAttempts \in Nat \ {0} /\ MaxFaults \in Nat
ASSUME PacingAssumption ==
  Interval \in Nat \ {0} /\ MaxWait \in Nat /\ Ttl \in Nat /\ Ttl >= MaxWait + Interval

VARIABLES
  dialog,   \* what a person did in the dialog: "new", was shown the "gate", "agreed"
  profile,  \* PlatformUser: "none", "stored" without a consent, "consented"
  entered,  \* people who take part in a contest
  row,      \* DirectMessageDelivery of a person: "none" or its status
  job,      \* its job: "none", "waiting" (or delayed), "active"
  tries,    \* attempts of the job that are over, 0 without a job
  hand,     \* step of the handler of that job
  run,      \* step of a call of sendNow
  list,     \* the rows the call still has to queue
  copies,   \* messages the person has received
  ahead,    \* distance to the limiter's next free moment, 0 when it is past
  ttl,      \* time before the limiter's key expires
  slot,     \* distance to the last slot a handler was given, negative in the past
  faults

people  == <<dialog, profile, entered>>
sending == <<row, job, tries, hand, copies>>
calls   == <<run, list>>
limiter == <<ahead, ttl, slot>>
vars == <<dialog, profile, entered, row, job, tries, hand, run, list, copies,
          ahead, ttl, slot, faults>>

Statuses == {"none", "pending", "sending", "sent", "failed", "unknown"}
HandSteps == {"idle", "asking", "sleeping", "calling", "delivered", "doubting",
              "retryable", "permanent", "ambiguous"}
LongAgo == -Interval

Init ==
  /\ dialog = [p \in People |-> IF p \in Known THEN "agreed" ELSE "new"]
  /\ profile = [p \in People |-> IF p \in Known THEN "consented" ELSE "none"]
  /\ entered = Known
  /\ row = [p \in People |-> "none"]
  /\ job = [p \in People |-> "none"]
  /\ tries = [p \in People |-> 0]
  /\ hand = [p \in People |-> "idle"]
  /\ run = [r \in Runs |-> "idle"]
  /\ list = [r \in Runs |-> {}]
  /\ copies = [p \in People |-> 0]
  /\ ahead = 0
  /\ ttl = 0
  /\ slot = [p \in People |-> LongAgo]
  /\ faults = 0

Fault == faults < MaxFaults /\ faults' = faults + 1

---------------------------------------------------------------------------
(* The dialog with the bot.                                                *)

HasConsented(p) == profile[p] = "consented"

\* "Start" of a person who has not agreed: the gate is shown, nothing is kept.
BotStarted(p) ==
  /\ dialog[p] = "new" /\ ~HasConsented(p)
  /\ dialog' = [dialog EXCEPT ![p] = "gate"]
  /\ UNCHANGED <<profile, entered, sending, calls, limiter, faults>>

\* "Continue" under the gate; when the write fails the button stays.
ConsentAccepted(p) ==
  /\ dialog[p] = "gate"
  /\ dialog' = [dialog EXCEPT ![p] = "agreed"]
  /\ profile' = [profile EXCEPT ![p] = "consented"]
  /\ UNCHANGED <<entered, sending, calls, limiter, faults>>

\* Mutant: the button under the post skips the gate.
JoinsUnasked(p) == TRUE

\* The only thing an open contest asks before it keeps a profile.
MayJoin(p) == HasConsented(p)

\* An entry into a contest, over any of its three ways: the link after the
\* gate, the button under the post, the mini app.  It refreshes the profile
\* and leaves a consent as it is.
Join(p) ==
  /\ p \notin entered /\ MayJoin(p)
  /\ entered' = entered \cup {p}
  /\ profile' = [profile EXCEPT ![p] = IF @ = "none" THEN "stored" ELSE @]
  /\ UNCHANGED <<dialog, sending, calls, limiter, faults>>

---------------------------------------------------------------------------
(* sendNow.                                                                *)

Consented == {p \in People : HasConsented(p)}

\* "This person", "the participants of this group's contests", "everybody".
Resolve(choice) ==
  CASE choice \in People   -> {choice} \cap Consented
    [] choice = "group"    -> entered \cap Consented
    [] choice = "all"      -> Consented

\* The recipients are resolved and frozen as rows, one for a post and a person
\* (skipDuplicates).  A consent is never withdrawn, so the two steps are one.
\* An empty choice is refused, and the call ends with nothing done.
SendNow(r, choice) ==
  /\ run[r] = "idle" /\ Resolve(choice) /= {}
  /\ row' = [p \in People |-> IF p \in Resolve(choice) /\ row[p] = "none"
                              THEN "pending" ELSE row[p]]
  /\ run' = [run EXCEPT ![r] = "created"]
  /\ UNCHANGED <<people, job, tries, hand, copies, list, limiter, faults>>

\* What a call turns to once the rows in its list are dealt with.
After(left) == IF left = {} THEN "done" ELSE "adding"

\* Every row of the post that still waits, whoever made it.
FindPending(r) ==
  /\ run[r] = "created"
  /\ list' = [list EXCEPT ![r] = {p \in People : row[p] = "pending"}]
  /\ run' = [run EXCEPT ![r] = After(list'[r])]
  /\ UNCHANGED <<people, sending, limiter, faults>>

\* One job of the batches; a finished job is gone from the queue, an unfinished
\* one keeps its id and the new one is ignored.
Enqueue(r, p) ==
  /\ run[r] = "adding" /\ p \in list[r]
  /\ list' = [list EXCEPT ![r] = @ \ {p}]
  /\ run' = [run EXCEPT ![r] = After(list'[r])]
  /\ job' = [job EXCEPT ![p] = IF @ = "none" THEN "waiting" ELSE @]
  /\ UNCHANGED <<people, row, tries, hand, copies, limiter, faults>>

\* A job that cannot be added leaves its row waiting for the next call.
EnqueueFails(r, p) ==
  /\ run[r] = "adding" /\ p \in list[r] /\ Fault
  /\ list' = [list EXCEPT ![r] = @ \ {p}]
  /\ run' = [run EXCEPT ![r] = After(list'[r])]
  /\ UNCHANGED <<people, sending, limiter>>

\* The rows are made and the call throws before it has read them.
SendNowFails(r) ==
  /\ run[r] = "created" /\ Fault
  /\ run' = [run EXCEPT ![r] = "done"]
  /\ UNCHANGED <<people, sending, list, limiter>>

---------------------------------------------------------------------------
(* The worker.                                                             *)

\* Mutant: a row left in sending is taken for an attempt that broke off.
IsDueOrBrokenOff(p) == row[p] \in {"pending", "sending"}

\* The row, not the job, says whether there is something to send.
IsDue(p) == row[p] = "pending"

\* Mutant: one attempt more than the queue gives.
OneTryMore(p) == tries[p] + 1 <= MaxAttempts

MayTryAgain(p) == tries[p] + 1 < MaxAttempts

\* BullMQ after a throw: a further attempt, or the job fails and is removed.
Throw(p) ==
  /\ hand' = [hand EXCEPT ![p] = "idle"]
  /\ IF MayTryAgain(p)
       THEN /\ job' = [job EXCEPT ![p] = "waiting"]
            /\ tries' = [tries EXCEPT ![p] = @ + 1]
       ELSE /\ job' = [job EXCEPT ![p] = "none"]
            /\ tries' = [tries EXCEPT ![p] = 0]

JobEnds(p) ==
  /\ hand' = [hand EXCEPT ![p] = "idle"]
  /\ job' = [job EXCEPT ![p] = "none"]
  /\ tries' = [tries EXCEPT ![p] = 0]

\* A job whose row is not due ends, the others ask the limiter for a slot.  The
\* way to manual_required is never taken: a profile only ever comes from an
\* update of MAX, with a number for its id.
Process(p) ==
  /\ job[p] = "waiting"
  /\ \/ /\ ~IsDue(p)
        /\ JobEnds(p)
     \/ /\ IsDue(p)
        /\ job' = [job EXCEPT ![p] = "active"]
        /\ hand' = [hand EXCEPT ![p] = "asking"]
        /\ UNCHANGED tries
  /\ UNCHANGED <<people, row, copies, calls, limiter, faults>>

\* Mutant: the script gives the slot and does not move the key.
SameMoment(s) == s

\* The next free moment after a slot at distance s.
NextFree(s) == s + Interval

\* The limiter's script: one atomic read and write of the key.
Acquire(p) ==
  /\ hand[p] = "asking" /\ ahead <= MaxWait
  /\ slot' = [slot EXCEPT ![p] = ahead]
  /\ ahead' = NextFree(ahead)
  /\ ttl' = Ttl
  /\ hand' = [hand EXCEPT ![p] = "sleeping"]
  /\ UNCHANGED <<people, row, job, tries, copies, calls, faults>>

\* Mutant: the job a full limiter refuses is dropped.
PutAway(p) ==
  /\ hand[p] = "asking" /\ ahead > MaxWait
  /\ hand' = [hand EXCEPT ![p] = "idle"]
  /\ job' = [job EXCEPT ![p] = "none"]
  /\ UNCHANGED <<people, row, tries, copies, calls, limiter, faults>>

\* Too long a wait consumes nothing: the job is put back, at no cost in attempts.
PutBack(p) ==
  /\ hand[p] = "asking" /\ ahead > MaxWait
  /\ hand' = [hand EXCEPT ![p] = "idle"]
  /\ job' = [job EXCEPT ![p] = "waiting"]
  /\ UNCHANGED <<people, row, tries, copies, calls, limiter, faults>>

\* Committed before the network is used.
MarkSending(p) ==
  /\ hand[p] = "sleeping" /\ slot[p] <= 0
  /\ row' = [row EXCEPT ![p] = "sending"]
  /\ hand' = [hand EXCEPT ![p] = "calling"]
  /\ UNCHANGED <<people, job, tries, copies, calls, limiter, faults>>

\* Redis or the database fails before that.
ThrowsEarly(p) ==
  /\ hand[p] \in {"asking", "sleeping"} /\ Fault
  /\ Throw(p)
  /\ UNCHANGED <<people, row, copies, calls, limiter>>

\* The upload of the attachments and the call: an answer, or an error as
\* classifyDeliveryError reads it.  Only of an answer lost on its way is it
\* unknown whether the message was delivered.
CallMax(p) ==
  /\ hand[p] = "calling"
  /\ \/ /\ hand' = [hand EXCEPT ![p] = "delivered"]
        /\ copies' = [copies EXCEPT ![p] = @ + 1]
     \/ /\ \E kind \in {"retryable", "permanent", "ambiguous"} :
             hand' = [hand EXCEPT ![p] = kind]
        /\ UNCHANGED copies
     \/ /\ hand' = [hand EXCEPT ![p] = "ambiguous"]
        /\ copies' = [copies EXCEPT ![p] = @ + 1]
  /\ UNCHANGED <<people, row, job, tries, calls, limiter, faults>>

RecordSent(p) ==
  /\ hand[p] = "delivered"
  /\ row' = [row EXCEPT ![p] = "sent"]
  /\ JobEnds(p)
  /\ UNCHANGED <<people, copies, calls, limiter, faults>>

RecordFails(p) ==
  /\ hand[p] = "delivered" /\ Fault
  /\ hand' = [hand EXCEPT ![p] = "doubting"]
  /\ UNCHANGED <<people, row, job, tries, copies, calls, limiter>>

\* A second failed write leaves the row in sending, and nothing looks for it.
MarkUnknownAfterSend(p) ==
  /\ hand[p] = "doubting"
  /\ \/ row' = [row EXCEPT ![p] = "unknown"] /\ UNCHANGED faults
     \/ Fault /\ UNCHANGED row
  /\ JobEnds(p)
  /\ UNCHANGED <<people, copies, calls, limiter>>

HandleError(p) ==
  /\ hand[p] \in {"retryable", "permanent", "ambiguous"}
  /\ IF hand[p] = "retryable" /\ MayTryAgain(p)
       THEN row' = [row EXCEPT ![p] = "pending"] /\ Throw(p)
       ELSE /\ row' = [row EXCEPT ![p] = IF hand[p] = "ambiguous" THEN "unknown" ELSE "failed"]
            /\ JobEnds(p)
  /\ UNCHANGED <<people, copies, calls, limiter, faults>>

HandleErrorFails(p) ==
  /\ hand[p] \in {"retryable", "permanent", "ambiguous"} /\ Fault
  /\ Throw(p)
  /\ UNCHANGED <<people, row, copies, calls, limiter>>

---------------------------------------------------------------------------
Nearer(d, floor) == IF d > floor THEN d - 1 ELSE floor

\* One unit of time.  A key that expired reads as 0.
Tick ==
  /\ ahead' = IF ttl <= 1 THEN 0 ELSE Nearer(ahead, 0)
  /\ ttl' = Nearer(ttl, 0)
  /\ slot' = [p \in People |-> Nearer(slot[p], LongAgo)]
  /\ limiter' /= limiter
  /\ UNCHANGED <<people, sending, calls, faults>>

\* The process dies: handlers and calls are gone, the queue finds the jobs they
\* held stalled and gives them out again, a job that stalls too often fails.
Crash ==
  /\ Fault
  /\ hand' = [p \in People |-> "idle"]
  /\ \E failed \in SUBSET {p \in People : job[p] = "active"} :
       job' = [p \in People |-> IF p \in failed THEN "none"
                                ELSE IF job[p] = "active" THEN "waiting" ELSE job[p]]
  /\ run' = [r \in Runs |-> IF run[r] = "idle" THEN "idle" ELSE "done"]
  /\ list' = [r \in Runs |-> {}]
  /\ tries' = [p \in People |-> IF job'[p] = "none" THEN 0 ELSE tries[p]]
  /\ UNCHANGED <<people, row, copies, limiter>>

SendNowSteps(r) == FindPending(r) \/ \E p \in People : Enqueue(r, p)

WorkerSteps(p) ==
  \/ Process(p) \/ Acquire(p) \/ PutBack(p) \/ MarkSending(p) \/ CallMax(p)
  \/ RecordSent(p) \/ MarkUnknownAfterSend(p) \/ HandleError(p)

Failures ==
  \/ \E r \in Runs : SendNowFails(r) \/ \E p \in People : EnqueueFails(r, p)
  \/ \E p \in People : ThrowsEarly(p) \/ RecordFails(p) \/ HandleErrorFails(p)
  \/ Crash

Next ==
  \/ \E p \in People : BotStarted(p) \/ ConsentAccepted(p) \/ Join(p) \/ WorkerSteps(p)
  \/ \E r \in Runs : SendNowSteps(r) \/ \E c \in People \cup {"group", "all"} : SendNow(r, c)
  \/ Tick
  \/ Failures

Spec == Init /\ [][Next]_vars

\* Time passes, the worker takes its jobs, and a call of sendNow runs on;
\* nothing is assumed of people, of new calls or of failures.
FairSpec ==
  /\ Spec
  /\ WF_vars(Tick)
  /\ \A p \in People : WF_vars(WorkerSteps(p))
  /\ \A r \in Runs : WF_vars(SendNowSteps(r))

---------------------------------------------------------------------------
(* Properties.                                                             *)

TypeOK ==
  /\ dialog \in [People -> {"new", "gate", "agreed"}]
  /\ profile \in [People -> {"none", "stored", "consented"}]
  /\ entered \subseteq People
  /\ row \in [People -> Statuses]
  /\ job \in [People -> {"none", "waiting", "active"}]
  /\ tries \in [People -> 0..MaxAttempts - 1]
  /\ hand \in [People -> HandSteps]
  /\ run \in [Runs -> {"idle", "created", "adding", "done"}]
  /\ list \in [Runs -> SUBSET People]
  /\ copies \in [People -> Nat]
  /\ ahead \in 0..MaxWait + Interval
  /\ ttl \in 0..Ttl
  /\ slot \in [People -> LongAgo..MaxWait]
  /\ faults \in 0..MaxFaults

\* Nobody is kept in the base, and nobody is written to, who has not pressed
\* "Continue" under the consent gate: the gate stands in three handlers, and
\* the list of recipients is frozen long before the messages go out.
OnlyWhoAgreed ==
  \A p \in People :
    profile[p] /= "none" \/ row[p] /= "none" \/ copies[p] > 0 => dialog[p] = "agreed"

\* Two handlers never hold slots closer than the interval, whatever the
\* order in which they ask, sleep and come back, and across the expiry of the key.
SlotsApart ==
  \A p, q \in People :
    p /= q /\ slot[p] > LongAgo /\ slot[q] > LongAgo =>
      slot[p] - slot[q] >= Interval \/ slot[q] - slot[p] >= Interval

\* What the panel can tell of a person from the status of the row.
Told(status) ==
  CASE status = "sent" -> "sent"
    [] status \in {"sending", "unknown"} -> "maybe"
    [] status \in {"none", "pending", "failed"} -> "unsent"

Once == INSTANCE PublishOnce WITH
          Targets <- People, told <- [p \in People |-> Told(row[p])], copies <- copies

\* Repeated calls, retries, crashes and lost writes never write to a person
\* twice, and a row never claims what did not happen: the abstract promise of
\* a campaign to its targets holds of direct messages too.
OnceSpec == Once!Spec

Answered(p) == row[p] \in {"sent", "failed", "unknown"}

\* What a failure left pending is answered through the next call for the post,
\* whomever that call was for: it is why there is no reconciler for these rows.
NextCallRescues ==
  \A p \in People :
    row[p] = "pending" /\ (\E r \in Runs : run[r] = "created") /\ faults = MaxFaults
      ~> Answered(p)

\* What holds of people and handlers together: types, consent before anything
\* is kept or sent, and the distance of the slots.
MessagesSound == TypeOK /\ OnlyWhoAgreed /\ SlotsApart
=============================================================================
