# white_bot: specifications

TLA+ specifications of white_bot, model-checked with TLC, with proofs checked by
TLAPS. The repository is the reference: every definition that models code names
its lines in `PROJECT.json` ("map"), and paths below are relative to
`src/apps/api/src/` unless they begin with `src/`.

1. [The system](#1-the-system)
2. [What is modelled, module by module](#2-what-is-modelled-module-by-module)
3. [The runs](#3-the-runs)
4. [Fairness](#4-fairness)
5. [The proofs](#5-the-proofs)
6. [Where code and comments disagree](#6-where-code-and-comments-disagree)
7. [What is not modelled](#7-what-is-not-modelled)
8. [Plan](#8-plan)

## 1. The system

white_bot publishes posts to groups of the messengers MAX and VK, once or on a
schedule, runs contests among their members, and has a web panel for the admins.
It is one NestJS process (Node: one thread, so what matters is what runs between
two `await`s) with three stores:

- **Postgres**, through Prisma, is the truth: posts, deliveries, contests,
  groups, admins, sessions. Transactions run at READ COMMITTED; a `FOR UPDATE`
  is written where the code needs more.
- **Redis**, with BullMQ, holds queues of jobs, rate-limit slots and locks. It
  may be lost: the reconciler's sweep, once a minute, builds the jobs anew from
  Postgres.
- **The platforms** (MAX, VK) create messages that nobody can take back
  silently. An answer may be lost after the message was created.

```
 panel --HTTP--> services --SQL--> Postgres <--SQL-- reconciler (every minute)
                    |                  ^                 |
                    +--jobs--> Redis --+-- workers <-----+ jobs, locks
                                            |
 people <-- MAX, VK <------ calls ----------+     bot handlers --> services
```

### Inventory

| Part | State | Operations | What makes it hard | What makes it right |
| --- | --- | --- | --- | --- |
| **Campaign delivery** (`posts/`) | `Post.status`, `stopRequested`, a `PostDelivery` per group; jobs `dispatch-*`, `deliver-*` | schedule, edit a draft, stop, resume; dispatch, deliver, finalize; the sweep | retries, lost answers, crashes, stalled jobs, a sweep beside live handlers, count and write as two statements | no group gets a post twice; rows tell the truth; "sent" means everybody; every campaign ends |
| **Recurring posts** (`posts/post-templates.service.ts`) | rule, `nextRunAt`, `templatePaused`, text and lists | create, edit, pause, resume; find due, claim, read, create an occurrence | sweeps that overlap when the lock expires; edits computed before and written after a firing; a rule that stops parsing | a window fires once, from one version, not after a pause; no template hangs |
| **Contests** (`contests/`) | contest, prizes, participants, draw log | open, edit, extend, delete, join, add, force, draw, override, cancel, notify | a draw that holds a row lock through calls to MAX; checks made before the lock; notifications late for a winner replaced since | the pool drawn from is everybody; the log explains the winners; the result is final; a due contest ends |
| **Admins and sessions** (`auth/`, `admins/`) | roles, `disabledAt`; a session row per refresh token | update, disable, enable, reset; login, refresh, logout, revoke all | requests that decide by what they read; refreshes racing a revocation | a developer remains; one login is one session; disabled means out |
| **Moderation** (`posts/post-moderation.service.ts`) | deliveries' message ids, `deletedAt`, attempts, the auto-delete date | delete, edit published posts, sweep auto-deletions | deliveries in flight when an edit begins; a partial failure across groups; a death after the platform call | what is recorded as deleted is gone; an edit reaches every group; auto-deletion ends |
| **Announcement** (`contests/contest-button.ts`, `contests/contest-notifier.ts`, `max/max-bot.handlers.ts`) | what the messages of a contest show | redraw after joins, answer to a press, results, edit, delivery | five writers, each with a view built earlier | results stay; redraws stop |
| **End warning** (`contests/`) | `endsAt`, `endWarningSentAt` | find, mark, warn; extend, edit; cancel | a sweep and an extension cross | one warning for an end; nothing put off is cancelled |
| **Groups** (`groups/`) | a row per group: status, token, tags | connect, replace token, bot added or removed, confirm, reject, tag, disconnect; flagged by a refused delivery | bot events racing an admin's decision; find-then-write | a chat is a target only if an admin approved it; changes are recorded once |
| **Uploads** (`posts/attachment-uploader.ts`), **VK uploader token** (`vk/`) | cached references, token | upload, reuse, expire; obtain the token by OAuth | two deliveries upload at once; a video still processed; a token that dies half way | the right reference of the right form; no needless upload |
| **Direct messages, consent** (`direct-messages/`, `platform-users/`), **rate limiter** (`queue/group-rate-limiter.ts`) | a row per recipient, consent; the next free slot | gate, resolve, send now, process; reserve | crashes between sending and recording; lost jobs; a key that expires | nobody gets one twice or without consent; slots keep their distance |
| **Media library** (`media/`) | a row and its files | upload | disk and base fail apart; the same file twice at once | a row has its files, a refused row leaves none |
| **Schedules** (`posts/cron-preset.ts`, `posts/recurrence.ts`, `common/zoned-time.ts`) | rule, `nextRunAt`, a draft's moment | form to rule and back; save, resume, claim; local time to UTC | compared as text, read twice, written once; clocks that change | what the panel shows is when it runs |
| **MAX bot, mini app, clients** (`max/`, `vk/`) | polling marker | poll, dispatch to handlers | updates repeated after a restart | handlers are idempotent |
| **Admin API, audit, configuration, web panel** | none of their own | one service call each | - | - |

How they interact: the panel and the bot call services; services write Postgres
first and queue jobs after the commit; workers read Postgres again before they
act, so a job is only a hint. The sweep finds what has a row and no job. A firing
template creates a post that is already "scheduled", and the announcement of a
contest is a post as well: both then are campaigns. Draws, openings,
cancellations and firings by date are made by the same reconciler.

## 2. What is modelled, module by module

One step of a model is one database statement or transaction, one queue call, or
one platform call, because anything may run between two of them. Everything a
handler does between two such calls is one step. A handler's local state is its
program counter and what it has read. Text, formatting, logging and the checks of
single form fields are left out. Definitions that stand under a comment
"Mutant:" are deliberately wrong variants that no specification uses; each
property has at least one that it rejects, recorded in `PROJECT.json`.

### Campaign, CampaignRaces, PublishOnce

`Campaign` is one campaign and the rows of its groups.

| Model | Code |
| --- | --- |
| `status`, `stopRequested`, `row` | `Post.status`, `Post.stopRequested`, `PostDelivery.status`; they survive a crash |
| `dispatchJob`, `job`, `tried` | BullMQ's jobs `dispatch-<post>` and `deliver-<delivery>` (stable ids, so at most one of each) and `attemptsMade`; kept or lost in a crash |
| `pc`, `DeliverRead` ... `DeliverConclude` | one execution of `deliver()` (`posts/post-delivery.processor.ts`): read the row, wait for a slot, mark "sending", call, classify the error, record, finalize |
| `PlatformPublishes`, `PlatformAnswerLost`, `PlatformRefuses` | what the platform did, and how `posts/delivery-outcome.ts` takes the error: published, ambiguous, rate-limited, refused |
| `dispatchPc`, `Dispatch*` | `dispatch()`: check, mark "sending", list pending rows and queue them, finalize |
| `requestPc`, `Schedule*`, `Stop*`, `Resume*` | the requests of the panel in `posts/posts.service.ts` |
| `sweepPc`, `Sweep*` | `posts/post-reconciler.service.ts`: requeue what is due or hangs, find stuck deliveries, mark them unknown, finalize |
| `DeliverThrows` ... `SweepThrows` | a call to Postgres or Redis throws at any place |
| `Crash` | the process dies; each job stalls and is queued again, or is lost |

`published` counts the messages that exist at the platform; no code reads it.
`finalizeIfComplete` is two steps everywhere, for it counts rows in one statement
and writes the status in another. `SlowSends` says whether a platform call may
take longer than `STUCK_SENDING_MS`, so that the sweep meets a live upload. A job
has one holder at a time: `deliver-<id>` is unique and BullMQ's lock is renewed
by a live process. Stalls are therefore part of `Crash` only. A slot of the rate
limiter is a wait of any length or a postponement.

`PublishOnce` is the promise to one target without queues, workers, sweeps or
crashes: at most one copy is made, records say "maybe" before it is, and
certainty may be given up but never made up. `Campaign` implements it under the
mapping `Told`: pending, failed and skipped rows are "unsent", sending and unknown
ones "maybe".

`CampaignRaces` adds `editDraft`, which replaces the draft's target rows; only
there can a row be missing.

### Contest

One contest with its prizes, participants, log and notifications.

| Model | Code |
| --- | --- |
| `status`, `deadline`, `condition` | `Contest.status`, `endsAt` (none, ahead, passed), the channels a subscription to is required |
| `prizes`, `edition`, `winner`, `forced`, `notify` | `ContestPrize`; `edition` changes when `setPrizes` creates the rows anew, since a form then names ids that are gone |
| `joined`, `byHand` | `ContestParticipant`; typed in by an admin, without a platform id |
| `log`, `journal` | `ContestDrawLog`: the draw's entry with its pool, the channels required and those skipped, and what replaying all entries gives |
| `lock`, `draw` | the transaction of the draw, which holds the contest's row through its calls to MAX; its writes are invisible until `DrawCommit` |
| `Join*`, `Add*` | `contests/contest-participation.service.ts` |
| `Edit*`, `Extend`, `Prizes*`, `Open*`, `Delete`, `Force*`, `Override*`, `Draw*`, `Cancel*` | `contests/contests.service.ts`; a check before the transaction and the transaction are two steps, and `Refused` is the transaction that finds the contest finished |
| `Draws` | `contests/contest-draw.ts`: forced places first, the others from the rest of the pool; a seed stands for any result it may give |
| `Announce*`, `Late*`, `MarkByHand` | `contests/contest-notifier.ts` and the bot's answer to a winner who starts it later |
| `Reconciler` | `openDueContests`, `drawDueContests` |
| `told`, `unseen`, `log.confirmed` | history: congratulations that arrived; who was recorded while the cancelling statement was under way; who MAX confirmed in which channel |

Two transactions that lock the row cannot overlap, and all but the draw are
short; they are single steps guarded by `Free`. `DrawAsk` asks MAX about those drawn in
each channel that is not skipped yet; a channel the bot is gone from (403, 404) is
skipped, and where none is left to ask everybody passes. `cancelEmptyContest` is one
`UPDATE`, yet two steps: it decides by the snapshot it begins with (`CancelSnapshot`),
waits for whoever holds the row, and then looks again at the row, if it was changed, but
not at the participants (`CancelWrite`).

### Template

One recurring post. A rule is a period: rule k fires at the multiples of k; rule 0
stands for one that no longer parses, and 0 as `nextRunAt` for null. The code asks
a cron rule for nothing but the first window after a moment, so a period has what
the properties need: windows in order, each strictly later than the moment it is
asked at.

| Model | Code (`posts/post-templates.service.ts`) |
| --- | --- |
| `rule`, `nextRunAt`, `paused`, `content` | `recurrenceRule`, `nextRunAt`, `templatePaused`; the text, with the lists of targets and attachments |
| `Update*` | `updateTemplate`: read, look up groups and compute the next window, write in one transaction |
| `PauseRead`, `ResumeRead`, `SetPausedWrite` | `setPaused` |
| `FindDue` ... `CreateOccurrence` | `fireDueTemplates`: find what is due, compute its next window or disarm it, skip a stale window, claim by a conditional update, read the template fresh, create the post |
| `RuleBreaks` | a stored rule that stops parsing |
| `fired`, `slept`, `since`, `reopened` | history: occurrences of each window, windows passed during a pause, contents since a claim, windows a late write made due again |

Sweeps overlap: the reconciler's Redis lock lives 30 s and is not renewed, so a
second process (during a deployment) or a long sweep may run beside the next.
`Grace` is `LATE_WINDOW_GRACE_MS`. Nothing ties the moment an edit computes its next
window at to that of its commit, so the clock may pass any number of windows in between.
`Overdue` are those it has passed when `nextRunAt` is written, or when a template that
another request paused meanwhile is resumed without being armed: they become due again,
and `reopened` keeps them.

### Access

| Model | Code |
| --- | --- |
| `role`, `disabled` | `AdminUser.role`, `disabledAt` |
| `RequestRead`, `*Write`, `RequestRefused` | `admins/admins.service.ts`: the admin is read before the transaction that locks the active developers, checks and writes |
| `token`, `owner`, `login` | an `AdminSession` per refresh token, its admin, and the login it descends from |
| `LoginCheck`, `LoginIssue`, `RotateRead`, `RotateBurn`, `RotateStale`, `Check*`, `Undo*`, `Logout` | `auth/auth.service.ts`, `auth/session.service.ts`: issue, rotate, `revokeIfDisabled` |
| `RevokeAllStarts`, `RevokeAllEnds` and `Reuse*` | `revokeAll`: two steps, for an `UPDATE` takes its rows from the snapshot it starts with; a session inserted while it waits for a row escapes it |

A burnt token that is presented again is another tab's race within
`REUSE_GRACE_MS` and a theft after it. Time is not part of the model: either may
be the case of any burnt token (a race changes nothing, so it is a stutter).
`overtaken` records that an admin was promoted while some request still took him
for a plain one: that is the one hole of the last-developer check (section 6), and
`DeveloperRemains` says there is no other. Crashes are left out (section 6). So
are accounts' creation, passwords, cookies, access tokens and expiry.

### Moderation

One post that is being sent, or was, with the row and the message of each group.

| Model | Code (`posts/post-moderation.service.ts`) |
| --- | --- |
| `text`, `auto`, `stopRequested`, `row` | what the base holds: the post's text, its auto-deletion, the campaign's stop, the deliveries |
| `status`, `dispatching`, `closing` | `Post.status` as "scheduled", "sending" or "over"; whether a dispatch has read it, or a finalization has counted, and not written yet |
| `live` | the text each message shows at the platform, or nobody's; no code reads it |
| `EditRead` ... `EditRecord` | `editPublished`: stop what is being sent, wait for deliveries in flight (`drainInFlight`, which may time out), save, go round the published messages |
| `DeleteList` ... `DeleteRecord` | `deletePublished` |
| `SweepFind` ... `DeletionFailed` | `sweepAutoDeletions`, with its count of attempts |
| `Dispatch*`, `Finalize*` | `dispatch()` and `finalizeIfComplete`, as far as the status is concerned: each reads, and writes later |
| `Deliver*`, `MarkStuck`, `Stop`, `Resume` | `deliver()` and what meets it, as far as texts are concerned; the rest is in `Campaign` |

`editPublished` decides by the status it read whether to stop the campaign, so a post
found "scheduled" or "over" is neither stopped nor waited for. `MarkStuck` goes by a
row's age alone and may give up a delivery whose worker is alive. `late` notes the
overtakings `ShownIsStored` excepts: a campaign found over while a worker waits or rows are
resumed, a dispatch or a resumption before the save, a delivery the wait does not see or
whose wait timed out, two edits at once, a request that died, a record that failed.

### Announcement

What each message of an announcement shows: "ended" or not, and a count. A view is
built in one step (`*View`, from the base) and written in another (`*Write`). `pass`
is the one redraw a process keeps per contest (`MaxBotHandlers.redrawing`), with its
flag `again`; `swap` is the notifier after the end; `edit` and `sending` are an edit of
the post and a delivery that is still under way. Rewrites fail, and so do queries: the
notifier's and the redraw's for a view, and the question whether the contest is over,
whose failure counts as "no" (`Asked`). `failed` notes the messages whose last rewrite
failed, or was left out for such a failure (`Missed`).

### EndWarning

The warning "nobody has joined", ten minutes before the end, and what an extension
does to it. A sweep lists (`FindEnding`, `FindDue`), and marks, warns, draws or cancels
later; `Extend` is the button of the warning, under the lock of the row; `EditRead` and
`EditWrite` are the form, which compares ends before its transaction. `edition` counts
how often the mark was taken back; it, `news` and `unseen` are history. The cancellation
is two steps, as in `Contest`.

### Groups

The rows of one MAX chat and one VK community. Each request of an admin, event of the
bot and refused delivery is an operation `op` of a request: what it read (`seen`) and
what it writes are two steps wherever the code awaits between them; updates with a
condition are one. After it the row is read again (`Reread`, `Settle`), which throws if it
is gone, and the change is recorded (`Record`), which is best effort: a record that fails
is given up. `Fails` is any other error of the database, or a death. `approved`,
`overwritten` and `failed` are history: an admin confirmed the chat since it was last a
draft or disconnected; a refused delivery wrote "bot_removed" over a draft or a removed
chat; the database failed a request or its record.

### MediaLibrary

`upload` step by step: find, convert an old document, write the original, compress a
picture, create the row, and remove the files when that fails. `disk` and `rows` are
what survives; `why` is how an upload failed, "lost" being a commit whose answer did not
come. A file stands for its bytes and its name.

### DirectMessages

The consent gate (`BotStarted`, `ConsentAccepted`, `MayJoin`), the dispatch
(`Resolve`, `SendNow`, `FindPending`, `Enqueue`), the worker (`Process` ...
`HandleError`), and the limiter (`Acquire`, `NextFree`): its key holds the next free
moment, `ahead` of now, and is dropped `ttl` after it was written. Time is relative, so
that it needs no bound. The module implements `PublishOnce` with people for targets.

### Attachments

From the files of a post to the references of its messages. `cache` is
`MediaPlatformUpload`: a reference per file, place and scope, with its age as a class
("new", "settled", "stale"). `NeedsVkUpload` and `Cached` are the question asked before
a post is scheduled, dispatched or fired; `Collect` ... `Store` are the uploader;
`VideoReady` and `VideoTimesOut` the wait for MAX; `token` the personal token VK wants. A
video of MAX is "processing" until it is "ready"; one whose entry turns ten minutes old
before that is "overdue" (`Settles`), for then the uploader asks no more.
`MCAttachments` instantiates the module under names that `Campaign` leaves free (`row` is
`deliveryRow` there, `faults` is `mishaps`), so that one proof module can reason about both.

### Schedules

A rule is a sequence of five (or six) fields that keep how they are spelt, for rules
are compared as text; the calendar is a sequence of days with their month, so that a
date may never come. `Parse`, `Build`, `Same` are `parseCron`, `buildCron`,
`sameSchedule`; `ToUtc` and `ToLocal` are `zonedToUtc` and `utcToZoned` for a zone whose
offset changes once. A save reads the rule in the controller (`Submit`), again in the
service (`Check`), and writes (`Write`); sweeps and resumes come between. `meant`,
`quiet`, `crossed`, `typed` are history. `MCSchedules` instantiates the module under
names that `Template` leaves free, so that one proof module can reason about both.

### MCRecords

`Groups`, `MediaLibrary` and `EndWarning` share no state. The module checks the three
in one run: a behaviour belongs to the one that moves first, and the others stay as
they began. Nothing is lost, for every step of one commutes with every step of another
and each property is about one of them.

## 3. The runs

Each `.cfg` gives the constants. Symmetry is used where no liveness is checked.
`CHECK_DEADLOCK FALSE` where the modelled system comes to rest: all requests are made,
all bounded events have happened and nothing is left to do. In `campaign_safety`,
`Campaign` is checked for deadlock: the sweep is always able to take its next step.

| Run | Instance | Shows |
| --- | --- | --- |
| `campaign_safety` | 1 group, 1 runner, 2 requests of schedule, stop and resume, 2 attempts, slow sends, 1 crash, 1 error | `NoDoublePublish`, `RowTellsTheTruth`, the refinement `PublishesOnce` |
| `campaign_liveness` | 2 groups, 1 stop, 1 crash, 1 attempt | `SentMeansEveryGroup`, `DeliveriesSettle`, `CampaignEnds` |
| `contest` | 2 people, 2 places, no channels required or 2, 1 admin with every operation, the sweep, 1 replacement of the prizes, 1 crash | `PoolIsEveryone`, `LogExplainsWinners`, `WinnersWereChecked`, `CancelledWasEmpty`, `ResultIsFinal`, `DueContestEnds` |
| `template` | 2 periods, 2 lists, 1 editor, 2 sweeps, moments 0 to 2, crashes without a bound | `FiresOnce`, `OccurrenceIsCurrent`, `SleptIsNotFired`, `NotDueForEver` |
| `access` | 2 admins, 2 requests, 2 tabs, 3 tokens | `DeveloperRemains`, `OneSessionPerLogin`, `DisabledIsOut` |
| `moderation` | 1 group, 2 requests, one of which may edit, 1 sweep, 2 attempts, 1 error | `DeletionsSound` (types; deleted is gone), `ShownIsStored`, `AutoDeleteEnds` |
| `announcement` | 2 messages, one not sent yet, 1 start by link, 1 press, 1 edit, 1 failed rewrite or query | `ResultsSound` (types; results stay), `RedrawEnds` |
| `direct_messages` | 2 people, one known before, 2 calls, 2 attempts, interval 1, wait 1, life of the key 2, 1 fault | `MessagesSound` (types, consent, spacing), the refinement `OnceSpec`, `NextCallRescues` |
| `attachments` | 1 photo and 1 video in a post; a campaign to a chat, one to a community, a firing to the same community, any two of them; 2 attempts, 1 fault | `ReferencesSound` (types, right references in their order, no video in processing that is not overdue), `ClearedNeedNoToken`, `RetriesReuse` |
| `schedules` | 2 editors, 2 saves, 4 stored rules, 8 forms, 2 months of 3 and 2 days, 2 hours a day, 4 zones | `FormAndRuleAgree` (types, form against rule, local time), `NextIsNext`, `QuietKeepsNext` |
| `records` | 3 requests, 2 tag lists, 2 rows; 3 uploads of 4 files, 2 faults; 2 sweeps, 1 form, clock to 3, 2 changes of the end | `GroupsSound` (types, records, convergence), `ApprovedUnlessFlagged`, `LibrarySound` (types, files, kind), `NoOrphans`, `RepeatsAddNothing`, `WarningsSound` (types, one warning), `CancelledIsOver` |
| `resume_race` | the smallest instance with the behaviour | a counterexample (section 6) |

Why the bounds are enough for what they are to show:

- **Campaign.** Deliveries meet only in the count of `finalizeIfComplete`, in the
  fan-out and in the updates of stop and resume, so safety of a delivery needs one
  group, and two show the count. Two attempts give a retry and a last attempt. Two
  requests give a stop beside a resume and a second click on schedule. The proofs
  of section 5 carry the safety properties to every size.
- **Contest.** Two people make a pool with somebody left over; two places make the
  rule that a winner has one place matter; two channels make one that is skipped beside
  one that answers, and either may be inactive when a draw asks what is required; a
  request, the notifier and the sweep race for the lock; the prizes being replaced once
  makes an id stale. Two requests that race each other are covered by the proofs, which
  hold for any number.
- **Template.** Two sweeps are what an expired lock gives. With the periods 1 and 2
  and moments up to 2 there are windows that one rule has and the other lacks,
  windows that a claim skips, and a moment 0 before any. One editor's late write
  crosses the sweeps; writes that cross each other are covered by the proofs.
- **Access.** Two developers are the smallest case in which each counts on the
  other. Two tabs with three tokens give a login, a rotation raced by another tab,
  and a session born during a revocation.
- **Moderation.** Groups meet only in what an edit still has to visit, so one group
  with its delivery, two requests and a sweep give every pair of writers of a row but two
  edits; those are in `MCModeration_edits.cfg`, without the liveness, and in the proofs.
  Two attempts are a retry and the last one.
- **Announcement.** One message is there before the end and one may appear after the
  notifier listed them; a start, a press, an edit and a delivery are one of each kind
  of writer beside the redraw and the notifier.
- **DirectMessages.** Two people compete for slots; two calls give the rescue of what
  the first left; the least `Ttl` the assumption allows lets the key expire exactly
  when the longest wait is over.
- **Attachments.** Of the three posts two go to one place and share an entry, the third has
  a place of its own; the constraint `TwoPosts` leaves one of them unbegun, whichever it is.
  One file may change its kind in between, and its age class at any time. Two files
  make an order, and a handler that waits for its video with a photo in hand.
- **Schedules.** The second month is shorter than the first, which makes a monthly date
  that does not come; the forms hold one of each mode and those that are refused; two
  saves of two editors cross each other and the sweep.
- **Records.** Three requests give a removal, an addition and a review in any order;
  three uploads of one file are one that finds, one that misses, one that repeats; two
  sweeps are what an expired lock gives, and two changes of the end are an extension
  beside a form.

`MaxCrashes`, `MaxFaults`, `MaxEditions`, `MaxClock`, `MaxRows`, `MaxSaves`, `MaxTime`,
`MaxWrites` and the sets `Tokens` and, of Moderation, `Editors` bound what the code does
not: they are guards of the actions that use them up. `Conditions`, the sets of channels a
contest may require, is an input. A request, editor or admin performs one operation.

The type invariants of `Campaign`, `Contest`, `Template` and `Access` are proved
(section 5); no run repeats them.

## 4. Fairness

- **Campaign.** Weak fairness for each step of a handler that was started: Node's
  event loop goes on, and a call is answered or times out. Weak fairness for the
  sweep: its timer fires every minute. Strong fairness for what is granted when
  asked for repeatedly: the limiter's slot (`DeliverMarkSending`; a postponement
  may come between), the dispatch that a missing VK token holds back
  (`DispatchAccept`), and finding a row that stays abandoned past
  `STUCK_SENDING_MS`. No request need be made; nothing need fail.
- **Contest.** Weak fairness for the reconciler and for requests that were
  started. Strong fairness for the sweep's lock, its picks and its commit: a draw
  may fail, by MAX, Postgres or a timeout, but not every time for ever.
- **Template.** Weak fairness for each sweep. Strong fairness for the computation
  and for the conditional update of what is due, for a failing database or a crash
  may interrupt it, but not every time for ever.
- **Moderation.** Weak fairness for each step of the sweep alone: the reconciler calls
  it every minute, and a call of the platform is answered or times out. Nothing is
  assumed of the requests of admins or of deliveries.
- **Announcement.** Weak fairness for the redraw: its awaits end, with an answer or an
  error. That it stops then is `RedrawEnds`.
- **DirectMessages.** Weak fairness for the clock, for a worker that has a job and for a
  call of `sendNow` that began. Faults are bounded, and `NextCallRescues` speaks of the
  time after the last.
- **Access**, **Attachments**, **Schedules**, **Groups**, **MediaLibrary** and
  **EndWarning** have no liveness property: no code there promises anything in time but
  what a sweep of the modules above does.

## 5. The proofs

Eight modules hold theorems about the specifications for every value of the constants
that the named assumptions allow: `CampaignProofs`, `ContestProofs`, `TemplateProofs`,
`AccessProofs`, `ModerationProofs`, `AnnouncementProofs`, `DirectMessagesProofs`, and
`RecordsProofs` for the three components that `MCRecords` puts together (`Groups`,
`MediaLibrary`, `EndWarning`). The second part of `TemplateProofs` is about `Schedules`,
under the names `MCSchedules` gives it, and that of `CampaignProofs` about `Attachments`,
under those of `MCAttachments`. The assumptions say that bounds are numbers (`Attempts` is
positive), that markers such as "no one" are not members of the sets they mark the
absence from, that periods are positive, that kinds of files are different files, that
a post has a file once (`@@unique([postId, mediaAssetId])`, `schema.prisma:318`), that
a rule is a sequence of fields (a number is one value, a star is all), that a day of the
month which a form offers is in each month of the calendar, that the joins of one contest
are finitely many (their number is shown), and that the limiter's key outlives the
longest wait by an interval (`DirectMessages.PacingAssumption`). No
assumption bounds the number of groups, workers, requests, people, places, sweeps, tabs,
tokens, messages, edits, uploads or files.

Each proof has the same shape: an inductive invariant made of named parts, one lemma for
each part or handler that says a step keeps it, and a theorem that puts them together.
TLC checked each inductive invariant as an invariant of the component's run first.

**Campaign.** `TypeCorrect` first; its one arithmetic point is that `attemptsMade`
stays below `Attempts` since the last attempt removes the job. `NoDoublePublish`
and `RowTellsTheTruth` are not inductive: they need to know who may be inside a
call. `DeliveryInv` adds `LockHeld` (whoever is inside `deliver()` holds the
delivery's job), `InsideDeliver` (for each place of `deliver()`, what the row may
say and what has been published) and `RowsExist`. The subtle case is a sweep that turns
a row "unknown" under a live upload: the row may then say "unknown" anywhere inside
the call, and since nothing resumes or retries an unknown row, no second runner
enters. From it follow `AtMostOnePublish`, `RowsAreTrue` and
`CampaignPublishesOnce`, the refinement: the initial states map to initial states
and each step maps, target by target, to a step of `PublishOnce` or a stutter.
`SentIsComplete` needs one more invariant, `ConcludesSent`: whoever is about to
write "sent" counted rows that were all sent, so all groups have the message, and
messages stay published however stale the count is when it is written.

**Contest.** `Typed` adds to `TypeOK` what a form holds at each place. `ContestInv`
says: whoever is inside a draw holds the lock (`LockHeld`); the pool of a draw in
progress is still everybody (`PoolKept`); an override only runs on a drawn contest
(`OverridesDrawn`); at the commit each winner to be asked about was asked
(`AllChecked`); who passed was confirmed by MAX in every required channel that is not
skipped (`CheckedConfirmed`), which stays true as channels are skipped later; and whoever
is in a contest whose cancellation is under way came after its snapshot (`SnapshotTrue`).
All are needed, for the lock protects the pool from being read until the status changes,
and nothing protects it from the cancelling statement. `DrawnPoolIsComplete`, `LogIsTrue`,
`WinnersAreSubscribed`, `CancelledFoundEmpty` and `ResultsAreFinal` follow.

**Template.** `NextIsLater` is the one lemma about windows: the next window is strictly
later than the moment it is computed at. `WindowsInv` says of the windows that no late
write has reopened (`Closed`) that one spent (fired, or claimed and about to be) is not
later than the clock, is earlier than an armed `nextRunAt`, and has one claim; so a
conditional update that finds `nextRunAt` as it was read cannot claim a spent window.
Edits endanger it: one that arms the template with a window computed earlier.
`OverdueHolds` says what such a write can do: a window that it puts back is one of
`Overdue`, which the same step reopens, and every other spent window stays behind
`nextRunAt`. So `EveryWindowOnce` and `PausedStaysUnsent` hold however slow edits are, and
say for which windows they do not. `SleptInv` says of a window that passed in a pause, and
is not reopened, that it is not spent and that `nextRunAt` either left it behind or is it,
still paused, and then nothing but a late write could make it due. `OccurrencesAreCurrent`
needs only that the stored content is always among those since a claim.

**Access.** `DevelopersInv` adds `HoldsTrue`: until a promotion overtakes a
request, whoever is taken for a plain admin by a request about to write is one; so
each write that removes a developer was checked under the lock.
`OneSessionPerLogin` is inductive once every login is known to be an issued token.
`DisabledInv` follows the live sessions of a disabled account: each is in the rows a
revocation has taken, or a revocation has still to start, or the tab that issued it
has still to look at the account. `SomeoneRemains`, `OneLoginOneSession` and
`DisabledStaysOut` follow.

**End warning.** `CancelledWhenOver` needs `SweptBefore`: a sweep carries the time it
began, which is not ahead of the clock, so that an end at or before it is over now; and
that whoever joined while a cancellation is under way is noted as unseen by it.
`WarnedOnce` follows from `MarkedOnce`: whoever marked an edition of the end, and what was
sent of it, are of this edition only while the mark stands, and of an edition there is one
sweep about to tell or what it told. A sweep that finds the mark unset therefore marks an
edition nobody has; a new end makes a new edition, later than all there were.

**Moderation.** `DeletedIsGone` is not inductive, for it says nothing of who is about to
record. `DeletionInv` adds that nobody works on a row that is "sent" (`WorkerHasRow`: from
the mark to the record it is "sending", or was given up and is "unknown"), that only such
rows are due, tried or listed (`OnlySentAreDue`, `RequestsListSent`, `SweepsListSent`),
and that a confirmed deletion is of a message that is gone (`ConfirmedIsGone`). Since no
handler makes a "sent" row anything else, a list stays right however late it is used:
`DeletedStaysGone`. `TextInv` holds until something sets `late`: before an edit saves,
nobody sends, and nobody can begin to, for the campaign is stopped, or not dispatched
(`ScheduledIsQuiet`), or nothing of it is pending (`NobodySends`); whoever sends has the
stored text (`SendsStored`), one edit runs (`OneEdit`), and a message with another text is
one this edit still comes to, or leaves an error at (`OutdatedIsEdited`, `EditedIsNew`).
When all is quiet no edit comes to anything: `TextsAreStored`.

**Announcement.** `ResultsStay` speaks of quiet states; `ResultsInv` says what holds
before. After the end each message that is sent shows the results, missed its last rewrite
(it failed, or a query before it did), or is `Pending`: the notifier has still to write
it; or a redraw has, or will look at the status again; or a join will ask for a redraw.
The step that could break it is the last one of a handler with an older view: an answer to
a press goes on to `redrawIfDrawnSince`, a pass that wrote the open view asks for the
status, and an edit or a delivery cannot have such a view once the notifier took its own
(`NoOldViews`), unless it had it then (`late`). A pass that wrote the results asks for
nothing, and need not. `OnlySentAreRewritten` keeps the message of a delivery under way
out of everybody's reach, so that it still shows what was read for it when it is recorded.

**DirectMessages.** Three parts that need nothing of each other but the types. `Asked`: a
row is made of a consented profile only. `OnceInv`: what the row and the handler's place
say of the copies there are (`RowTells`, `HandKnowsRow`), from which `MessagesAreSentOnce`,
the refinement of `PublishOnce`, follows person by person. `PaceInv`: the key is an
interval past every slot that is still ahead and is dropped only when it has nothing to
guard (`KeyGuardsSlots`); here `PacingAssumption` is needed.

**Groups.** Every handler is one of six kinds of step (`HandlersAct`): it begins, goes on
without a write, reads again, writes, records, or fails. The invariants are shown for the
kinds. `RequestsKnow` says what a request that waits still knows of the row: an id it read
was given before, and a community keeps its row. `AuditInv` follows a change to its record, to
the failure of it, or to an error after the row was found gone, `RowsStand` keeps a row
with deliveries or contests where it is, and `ApprovedInv` extends `ApprovedIfActive` to
the statuses an addition of the bot turns to "active". From these `GroupsAreSound` and
`TargetsAreApproved`.

**MediaLibrary.** `LibraryInv`: what an upload has on disk at each step (`OnDisk`), that one
whose answer was lost has its row (`Lost`), that what it gives back is of its file
(`InHand`), and that a row belongs to an upload that is done, to one whose answer was lost,
or to the old files (`RowsInv`). Files are removed only by an upload without a row, or with a
lost answer: `LibraryIsSound`; what is on disk is named by a row, or its upload runs or was
broken off: `NothingIsOrphaned`. `UploadsDoNotRepeat` is an action property: a row of a file
is added only by an upload that missed it.

**Schedules.** Three invariants over the types. `SaysInv`: what is about to be written says
what the form it came from does (`FormSays`), and the row says what was saved (`RowSays`);
it rests on lemmas about the operators, that `Parse` loses nothing of the rules it accepts
(`ParseSays`), that `Build` gives the times its form names (`BuildSays`), that rules which
are the same text have the same times (`SameSays`), and that a date all months have comes
in each of them (`MonthlyComes`). `ClockInv`: a draft that was typed at a wall time the
zone has reads back as it was typed, whatever the two offsets are (`ReadsBack`).
`NextInv`: of two writers of one template at least one marks the other as crossed
(`Apart`), so a rule read twice is the one that is there at the write; what a save or a
resume is about to write fits the rule (`EditorFits`), a claim moves `nextRunAt` on
(`ClaimFits`), and the row fits its rule (`RowFits`). `FormAndRuleAlwaysAgree`,
`TheNextRunIsNext` and the action property `UntouchedIsKept` follow.

**Attachments.** `SourceInv` is about three things at once. `MadeFits`: what was made
under a key has the form the key stands for, and nothing but a video of MAX is processing.
`CacheFits`: an entry that is not stale is somebody's kept reference, that of a settled
one is ready or overdue, and whoever has kept a reference under a key finds an entry there
that is fresh. `HandlersInv`, for each handler at its place: what it has collected is of
the first files of the post in their order, under the keys of the kinds it read, and not
in processing (`Collected`), and what it has in hand is under the key of the next file
(`InWork`). A step moves one handler (`Moves`) and must spare the others (`Spares`): their
own references and all kept ones keep their fate, and nothing a handler has looked up
becomes stale. That each file is in a post once is needed here, for otherwise an upload
would write under a key the same handler has collected before. From it
`ReferencesAreSound` follows at the call, and `RetriesUploadNothing`, since a handler that
uploads has missed the entry. `ClearedInv` follows a community that was cleared by the
kinds of then: its entries stay (`CacheGrows`), so whoever uploads for it has read other
kinds (`OnlyFindUploads`), and `ClearedIsNotRefused`.

**Only model-checked.** Liveness (`DeliveriesSettle`, `CampaignEnds`,
`DueContestEnds`, `NotDueForEver`, `AutoDeleteEnds`, `RedrawEnds`, `NextCallRescues`):
fairness and `ENABLED` are out of this prover's reach. Every safety property of a run is
a theorem. The counterexamples of section 6 are TLC's.

## 6. Where code and comments disagree

The run `resume_race` finds the first; each of the others has a configuration to be run by
hand (`tlc -config <name>.cfg <module>`), which ends in the counterexample.

- **`resume_race`** (`posts/posts.service.ts:747`). `finalizeIfComplete` is said to
  be safe to run concurrently. A stop counts settled rows, a resume makes one
  pending and the post "sending", the stop writes its terminal status: a pending
  row nobody will send.
- **`MCContest_cancel_race`** (`contests/contests.service.ts:757`). A contest is cancelled only if it
  is exactly "empty and overdue", without any participants (750-751). The `UPDATE` that
  says so evaluates `participants: { none: {} }` on its snapshot, waits for the row that a
  join holds `FOR SHARE` (`contests/contest-participation.service.ts:348-370`), and goes on
  without looking again, for the row was only locked: the contest is cancelled with a
  participant in it, who was told that he takes part.
- **`MCCampaign_lost_end`** (`posts/post-reconciler.service.ts:274`). A campaign with
  nothing left to send must reach a terminal status
  (`posts/post-delivery.processor.ts:117-118`). If the process dies between the last
  record and its finalization, no sweep finds the campaign: it stays "sending".
- **`CampaignRaces_edit`** (`posts/posts.service.ts:349`). An edit may delete a draft's
  deliveries since none is started (313-315). A draft scheduled after the edit's check
  loses rows that are being sent.
- **`MCContest_told_race`** (`contests/contest-notifier.ts:193`). A winner must not get
  lost because he could not be told (116-118). A mark by the prize's id alone, late, says
  "sent" of a winner who replaced the one that was told.
- **`EndWarning_mark`** (`contests/contests.service.ts:809`). The warning is sent once for
  an end, and taken back with it (787-794). A sweep that listed the old end sets the mark
  of the new one: the new end is marked long before it comes, and never warned of.
- **`MCAccess_last_developer`** (`admins/admins.service.ts:115`). The last developer is
  not demoted (94). Whether to look for another is decided by a role read before the
  transaction; a promotion in between hides that he is one now.
- **`MCModeration_one_version`** (`posts/post-moderation.service.ts:166`). A running
  campaign is stopped, or it would be left with two versions for good (126-129). An edit
  that finds the post still scheduled stops nothing: the dispatch that marks it a moment
  later sends the old text to a group, whose delivery is recorded after the edit has listed
  what to go round. A delivery that waits for its slot when a campaign is stopped is not
  waited for either (286-309).
- **`MCModeration_give_up`** (`posts/post-moderation.service.ts:351`). A deletion that
  was given up keeps its error for the admin. An edit that succeeds on the same message
  clears it.
- **`MCGroups_unapproved`** (`posts/post-delivery.processor.ts:357`,
  `groups/groups.service.ts:341`). A chat is active only after an admin confirmed it. A
  delivery that is refused writes "bot_removed" (`posts/delivery-outcome.ts:116-122`) over a
  chat that an admin has just disconnected, and the next addition of the bot then makes it active again.
- **`MCMediaLibrary_nicety`** (`media/media.service.ts:309`). "Optimisation is a nicety;
  failing it must not fail the upload" (311), but `return this.storage.write(...)` is not
  awaited inside the `try`: a disk that fails there fails the upload, and the original
  that was written stays without a row.
- **`MCAnnouncement_counter`** (`max/max-bot.handlers.ts:643`). Others only note that
  another pass is needed. The pass writes its own answer over that note after an await, so
  that the counter may stay behind until the next join.

Known, and without a configuration, because no comment promises otherwise or an
assumption above excludes it:

- a stop that lands while `deliver()` waits for its slot: the row is shown as
  skipped, then sent (rows tell the truth before and after, as the proof says);
- Redis flushed under a live process: the jobs queued anew may run beside handlers
  that are still alive (`Campaign` loses Redis data with a crash only);
- a retry that puts its row back to pending after a stop and then loses its job: the
  sweep passes over stopped posts;
- an edit written minutes after it computed its window, or a resume that crosses a pause,
  may put back a window that has fired or that passed in the pause (`reopened` in
  `FiresOnce` and `SleptIsNotFired`);
- an edit of a post it finds scheduled, or over with something still to be sent, stops
  nothing and waits for nothing (`late` in `ShownIsStored`);
- a query that fails leaves the messages of an announcement with the button "join" until
  the next press (`failed` in `ResultsStay`);
- a record of the audit log that fails is lost (`failed` in `AuditIsTrue`);
- a video that MAX processes for longer than ten minutes passes for ready
  (`posts/attachment-uploader.ts:138-142` says so; "overdue" in `VideoIsSettled`);
- a crash between disabling an account and revoking its sessions: a repeated
  disable returns early, and enabling brings them back (`Access` has no crash);
- a crash while winners are being told: their places stay pending until another
  override of the contest;
- a contest with participants whose end is put off after a sweep listed it is drawn at
  its old end: `draw` asks for the status only, unlike `cancelEmptyContest`;
- an edit of the post that began before the end of a contest may write the open view over
  the results (`late` in `ResultsStay`);
- a direct message whose worker died stays "sending" for good;
- two saves of one template that overlap, or one written when the run it computed is
  due, may leave a next run the rule does not give (`crossed` in `NextIsNext`); a local
  time that comes twice in autumn is taken for one of its moments;
- a commit whose answer is lost: the upload removes the files of a row that exists.

## 7. What is not modelled

- **Mini app and polling loop**: the first calls `join`, the second hands each update to
  one handler; both are the environment of the modules. **Admin API**: but for the update
  of templates and drafts (`Schedules`) it checks a request and calls one service
  operation; the operations are actions, in any order.
- **Platform clients**: external but for uploads (`Attachments`); their outcomes are
  choices of the modules that call them.
- **Audit** swallows its errors and changes nothing else; only in `Groups` is a record a
  step. **Init data, guards,
  cookies** are stateless checks of one request. **Configuration, logging, errors,
  health** keep no state of the system.
- **Web panel**: a client of the API, which shows state and sends requests.
- Within modelled parts: lists and statistics the panel reads, form fields, the creation
  of accounts and passwords, `deleteMessages` after a contest was deleted, texts of
  messages, and the OAuth parameters of VK.

## 8. Plan

Done, in this order: `PublishOnce` and `Campaign` (the core: what the program is for),
`CampaignRaces`, `Contest`, `Template`, `Access`, each with its runs and proofs; then
`Moderation`, `Groups`, `Announcement`, `DirectMessages`, `MediaLibrary`, `Attachments`,
`Schedules` and `EndWarning`, with their runs; then the proofs of all of these.

Next, of models: the deletion of a contest whose announcement is being sent, composed from
`Campaign` and `Contest`; a sharper abstract specification of a contest (an entry is drawn
from or refused) shown to be implemented by `Contest`; and the last-developer check in
full, on the row read under the lock.
