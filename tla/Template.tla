------------------------------ MODULE Template ------------------------------
(***************************************************************************)
(* ONE recurring post (a Post row with a recurrenceRule): admins edit,     *)
(* pause and resume it, the reconciler's sweeps fire it when it is due.    *)
(* One process sweeps one sweep at a time; two processes may overlap, for  *)
(* the sweep's Redis lock expires after 30 s and is never refreshed.  What *)
(* a handler reads and what it writes later are separate steps.  A firing  *)
(* creates a campaign: its life is Campaign.                               *)
(*                                                                         *)
(* A rule is a period: rule k fires at the multiples of k.  Rule 0 stands  *)
(* for one that no longer parses.  Moment 0 as nextRunAt stands for null.  *)
(***************************************************************************)
EXTENDS Naturals

CONSTANTS
  Rules,       \* the schedules an admin may choose: periods
  Lists,       \* lists of targets and attachments a template may have
  Editors,     \* admin requests; each performs one operation
  Sweepers,    \* sweeps that may run at a time
  Grace,       \* LATE_WINDOW_GRACE_MS
  MaxClock     \* bound: the last moment

ASSUME RulesAssumption == Rules \subseteq Nat \ {0} /\ Rules # {}
ASSUME TimeAssumption  == Grace \in Nat /\ MaxClock \in Nat

VARIABLES
  clock,
  rule, nextRunAt, paused,   \* recurrenceRule, nextRunAt, templatePaused
  content,    \* the text and the lists, as an edit committed them
  fired,      \* the occurrences created for each window
  slept,      \* windows that passed while the template was paused
  reopened,   \* windows that a request which had read too early made due again
  pc, seen,   \* where each sweep is, and the template as it read it
  at,         \* when it started, and the next window it computed
  since,      \* the contents the template has had since a sweep's claim
  post,       \* what a sweep is about to create an occurrence from
  editPc, form    \* where each request is, and what it will write

row    == <<rule, nextRunAt, paused, content>>
ghost  == <<fired, slept>>
sweeps == <<pc, seen, at, since, post>>
edits  == <<editPc, form>>
vars   == <<clock, row, ghost, reopened, sweeps, edits>>

AnyRule == Rules \cup {0}
Texts   == {"first"} \cup Editors
Content == [text : Texts, lists : Lists]
\* "kept" stands for what a form does not name.
NoForm  == [op |-> "none", rule |-> 0, rearm |-> FALSE, next |-> 0,
            text |-> "kept", lists |-> "kept"]
Forms   == [op : {"none", "edit", "pause", "resume"}, rule : AnyRule,
            rearm : BOOLEAN, next : Nat, text : {"kept"} \cup Texts,
            lists : {"kept"} \cup Lists]
NoFind  == [rule |-> 0, next |-> 0]
NoTime  == [start |-> 0, next |-> 0]

TypeOK ==
  /\ clock \in 0 .. MaxClock
  /\ rule \in AnyRule
  /\ nextRunAt \in Nat
  /\ paused \in BOOLEAN
  /\ content \in Content
  /\ fired \in [1 .. MaxClock -> Nat]
  /\ slept \subseteq 1 .. MaxClock
  /\ reopened \subseteq 1 .. MaxClock
  /\ pc \in [Sweepers -> {"idle", "compute", "disarm", "skip", "claim", "read",
                          "create"}]
  /\ seen \in [Sweepers -> [rule : AnyRule, next : 0 .. MaxClock]]
  /\ at \in [Sweepers -> [start : 0 .. MaxClock, next : Nat]]
  /\ since \in [Sweepers -> SUBSET Content]
  /\ post \in [Sweepers -> SUBSET Content]
  /\ editPc \in [Editors -> {"new", "check", "write", "done"}]
  /\ form \in [Editors -> Forms]

\* nextRunAfter: the first window strictly after the moment from.
NextRunAfter(k, from) == (from \div k + 1) * k

\* createTemplate arms the template; a row older than nextRunAt is not armed.
Init ==
  /\ clock = 0
  /\ rule \in Rules
  /\ nextRunAt \in {0, NextRunAfter(rule, 0)}
  /\ paused = FALSE
  /\ content \in [text : {"first"}, lists : Lists]
  /\ fired = [w \in 1 .. MaxClock |-> 0]
  /\ slept = {}
  /\ reopened = {}
  /\ pc = [s \in Sweepers |-> "idle"]
  /\ seen = [s \in Sweepers |-> NoFind]
  /\ at = [s \in Sweepers |-> NoTime]
  /\ since = [s \in Sweepers |-> {}]
  /\ post = [s \in Sweepers |-> {}]
  /\ editPc = [e \in Editors |-> "new"]
  /\ form = [e \in Editors |-> NoForm]

(***************************************************************************)
(* updateTemplate and setPaused.                                           *)
(***************************************************************************)
EditOnly == UNCHANGED <<clock, ghost, pc, seen, at, post>>

MoveEdit(e, from, to) ==
  /\ editPc[e] = from
  /\ editPc' = [editPc EXCEPT ![e] = to]

Refuse(e) ==
  /\ editPc' = [editPc EXCEPT ![e] = "done"]
  /\ form' = [form EXCEPT ![e] = NoForm]

\* The form names a rule, or leaves the stored one; a rule that has to be
\* armed anew must parse.
UpdateRead(e, chosen, text, lists) ==
  LET new   == IF chosen = 0 THEN rule ELSE chosen
      rearm == new # rule \/ nextRunAt = 0
  IN  /\ editPc[e] = "new"
      /\ IF rearm /\ new = 0
         THEN Refuse(e)
         ELSE /\ MoveEdit(e, "new", "check")
              /\ form' = [form EXCEPT ![e] =
                            [op |-> "edit", rule |-> new, rearm |-> rearm,
                             next |-> 0, text |-> text, lists |-> lists]]
      /\ UNCHANGED <<row, since, reopened>>
      /\ EditOnly

\* The groups and attachments were looked up; the next window is computed now.
UpdateCompute(e) ==
  /\ MoveEdit(e, "check", "write")
  /\ form' = [form EXCEPT ![e].next =
                IF form[e].rearm THEN NextRunAfter(form[e].rule, clock) ELSE 0]
  /\ UNCHANGED <<row, since, reopened>>
  /\ EditOnly

\* Groups that are not usable: nothing is written.
UpdateRefused(e) ==
  /\ editPc[e] = "check"
  /\ Refuse(e)
  /\ UNCHANGED <<row, since, reopened>>
  /\ EditOnly

\* Nothing ties the moment a request computes the next window at to that of its
\* commit: the window may have come since, and others after it.
Overdue(next) == IF next = 0 THEN {} ELSE next .. clock

\* One transaction: the row, with the lists replaced if they are given.
UpdateWrite(e) ==
  LET new == [text  |-> IF form[e].text = "kept" THEN content.text
                        ELSE form[e].text,
              lists |-> IF form[e].lists = "kept" THEN content.lists
                        ELSE form[e].lists]
  IN  /\ form[e].op = "edit"
      /\ MoveEdit(e, "write", "done")
      /\ rule' = form[e].rule
      /\ nextRunAt' = IF form[e].rearm THEN form[e].next ELSE nextRunAt
      /\ reopened' = reopened \cup IF form[e].rearm THEN Overdue(form[e].next) ELSE {}
      /\ content' = new
      /\ since' = [s \in Sweepers |-> IF pc[s] \in {"read", "create"}
                                       THEN since[s] \cup {new} ELSE {}]
      /\ form' = [form EXCEPT ![e] = NoForm]
      /\ UNCHANGED paused
      /\ EditOnly

PauseRead(e) ==
  /\ MoveEdit(e, "new", "write")
  /\ form' = [form EXCEPT ![e].op = "pause"]
  /\ UNCHANGED <<row, since, reopened>>
  /\ EditOnly

\* Resuming arms the template anew; it fails if the rule does not parse.
ResumeRead(e) ==
  LET resuming == paused \/ nextRunAt = 0
  IN  /\ editPc[e] = "new"
      /\ IF resuming /\ rule = 0
         THEN Refuse(e)
         ELSE /\ MoveEdit(e, "new", "write")
              /\ form' = [form EXCEPT ![e] =
                            [NoForm EXCEPT
                               !.op = "resume",
                               !.rearm = resuming,
                               !.next = IF resuming
                                        THEN NextRunAfter(rule, clock) ELSE 0]]
      /\ UNCHANGED <<row, since, reopened>>
      /\ EditOnly

\* One that took the template for running resumes it without arming it, though
\* another paused it meanwhile: what passed in the pause is due.
SetPausedWrite(e) ==
  /\ form[e].op \in {"pause", "resume"}
  /\ MoveEdit(e, "write", "done")
  /\ paused' = (form[e].op = "pause")
  /\ nextRunAt' = IF form[e].rearm THEN form[e].next ELSE nextRunAt
  /\ reopened' = reopened \cup IF form[e].rearm \/ (paused /\ ~paused')
                                THEN Overdue(nextRunAt') ELSE {}
  /\ form' = [form EXCEPT ![e] = NoForm]
  /\ UNCHANGED <<rule, content, since>>
  /\ EditOnly

(***************************************************************************)
(* fireDueTemplates.                                                       *)
(***************************************************************************)
SweepOnly == UNCHANGED <<clock, rule, paused, content, slept, reopened, edits>>

Sweeps(s, from, to) ==
  /\ pc[s] = from
  /\ pc' = [pc EXCEPT ![s] = to]

\* The sweep leaves the template, what it read is forgotten.
Leaves(s) ==
  /\ pc' = [pc EXCEPT ![s] = "idle"]
  /\ seen' = [seen EXCEPT ![s] = NoFind]
  /\ at' = [at EXCEPT ![s] = NoTime]
  /\ since' = [since EXCEPT ![s] = {}]
  /\ post' = [post EXCEPT ![s] = {}]

\* Mutant: any armed template is found.
FindArmed(s) ==
  /\ Sweeps(s, "idle", "compute")
  /\ ~paused
  /\ nextRunAt # 0
  /\ seen' = [seen EXCEPT ![s] = [rule |-> rule, next |-> nextRunAt]]
  /\ at' = [at EXCEPT ![s] = [start |-> clock, next |-> 0]]
  /\ UNCHANGED <<nextRunAt, fired, since, post>>
  /\ SweepOnly

FindDue(s) ==
  /\ Sweeps(s, "idle", "compute")
  /\ ~paused
  /\ nextRunAt # 0 /\ nextRunAt <= clock
  /\ seen' = [seen EXCEPT ![s] = [rule |-> rule, next |-> nextRunAt]]
  /\ at' = [at EXCEPT ![s] = [start |-> clock, next |-> 0]]
  /\ UNCHANGED <<nextRunAt, fired, since, post>>
  /\ SweepOnly

\* nextWindowOrDisarm, by the sweep's snapshot and the clock now; a window
\* that was too old when the sweep started will be skipped.
ComputeNext(s) ==
  /\ pc[s] = "compute"
  /\ IF seen[s].rule = 0
     THEN /\ Sweeps(s, "compute", "disarm")
          /\ UNCHANGED at
     ELSE /\ Sweeps(s, "compute", IF at[s].start > seen[s].next + Grace
                                  THEN "skip" ELSE "claim")
          /\ at' = [at EXCEPT ![s].next = NextRunAfter(seen[s].rule, clock)]
  /\ UNCHANGED <<nextRunAt, seen, fired, since, post>>
  /\ SweepOnly

\* UPDATE ... WHERE nextRunAt is what was read and the template is not paused.
StillDue(s) == nextRunAt = seen[s].next /\ ~paused

\* Mutant: an unreadable rule is only logged.
DisarmNothing(s) ==
  /\ pc[s] = "disarm"
  /\ Leaves(s)
  /\ UNCHANGED <<nextRunAt, fired>>
  /\ SweepOnly

Disarm(s) ==
  /\ pc[s] = "disarm"
  /\ nextRunAt' = IF StillDue(s) THEN 0 ELSE nextRunAt
  /\ Leaves(s)
  /\ UNCHANGED fired
  /\ SweepOnly

SkipStale(s) ==
  /\ pc[s] = "skip"
  /\ nextRunAt' = IF StillDue(s) THEN at[s].next ELSE nextRunAt
  /\ Leaves(s)
  /\ UNCHANGED fired
  /\ SweepOnly

\* Mutant: a claim that does not look at the window it takes.
ClaimBlindly(s) ==
  /\ Sweeps(s, "claim", "read")
  /\ ~paused
  /\ nextRunAt' = at[s].next
  /\ since' = [since EXCEPT ![s] = {content}]
  /\ UNCHANGED <<seen, at, fired, post>>
  /\ SweepOnly

Claim(s) ==
  /\ Sweeps(s, "claim", "read")
  /\ StillDue(s)
  /\ nextRunAt' = at[s].next
  /\ since' = [since EXCEPT ![s] = {content}]
  /\ UNCHANGED <<seen, at, fired, post>>
  /\ SweepOnly

\* Taken by another sweep, moved by an edit, or paused.
ClaimLost(s) ==
  /\ pc[s] = "claim"
  /\ ~StillDue(s)
  /\ Leaves(s)
  /\ UNCHANGED <<nextRunAt, fired>>
  /\ SweepOnly

\* Mutant: the text the claim found, with the lists of now.
ReadTorn(s) ==
  /\ Sweeps(s, "read", "create")
  /\ \E v \in since[s] : post' = [post EXCEPT ![s] = {[content EXCEPT !.text = v.text]}]
  /\ UNCHANGED <<nextRunAt, seen, at, fired, since>>
  /\ SweepOnly

\* One snapshot of the text and the lists.  (Groups that are not active, and
\* VK groups waiting for a token, are left out of the targets.)
ReadFresh(s) ==
  /\ Sweeps(s, "read", "create")
  /\ post' = [post EXCEPT ![s] = {content}]
  /\ UNCHANGED <<nextRunAt, seen, at, fired, since>>
  /\ SweepOnly

\* No group is left: the window, already claimed, is skipped.
NobodyToReach(s) ==
  /\ pc[s] = "read"
  /\ Leaves(s)
  /\ UNCHANGED <<nextRunAt, fired>>
  /\ SweepOnly

CreateOccurrence(s) ==
  /\ pc[s] = "create"
  /\ fired' = [fired EXCEPT ![seen[s].next] = @ + 1]
  /\ Leaves(s)
  /\ UNCHANGED nextRunAt
  /\ SweepOnly

\* The database fails: the sweep logs it and leaves the template.
SweepFails(s) ==
  /\ pc[s] # "idle"
  /\ Leaves(s)
  /\ UNCHANGED <<nextRunAt, fired>>
  /\ SweepOnly

(***************************************************************************)
(* Time, the rule that stops parsing, and crashes.                         *)
(***************************************************************************)
Tick ==
  /\ clock < MaxClock
  /\ clock' = clock + 1
  /\ slept' = IF paused /\ nextRunAt = clock + 1
              THEN slept \cup {clock + 1} ELSE slept
  /\ UNCHANGED <<row, fired, reopened, sweeps, edits>>

\* A row edited by hand, or a stricter parser after an upgrade.
RuleBreaks ==
  /\ rule # 0
  /\ rule' = 0
  /\ UNCHANGED <<clock, nextRunAt, paused, content, ghost, reopened, sweeps, edits>>

Crash ==
  /\ pc' = [s \in Sweepers |-> "idle"]
  /\ seen' = [s \in Sweepers |-> NoFind]
  /\ at' = [s \in Sweepers |-> NoTime]
  /\ since' = [s \in Sweepers |-> {}]
  /\ post' = [s \in Sweepers |-> {}]
  /\ editPc' = [e \in Editors |-> IF editPc[e] = "new" THEN "new" ELSE "done"]
  /\ form' = [e \in Editors |-> NoForm]
  /\ UNCHANGED <<clock, row, ghost, reopened>>

(***************************************************************************)
(* The specification.                                                      *)
(***************************************************************************)
Edit(e) ==
  \/ \E chosen \in AnyRule, text \in {"kept", e}, lists \in {"kept"} \cup Lists :
        UpdateRead(e, chosen, text, lists)
  \/ UpdateCompute(e)
  \/ UpdateRefused(e)
  \/ UpdateWrite(e)
  \/ PauseRead(e)
  \/ ResumeRead(e)
  \/ SetPausedWrite(e)

Sweep(s) ==
  \/ FindDue(s)
  \/ ComputeNext(s)
  \/ Disarm(s)
  \/ SkipStale(s)
  \/ Claim(s)
  \/ ClaimLost(s)
  \/ ReadFresh(s)
  \/ NobodyToReach(s)
  \/ CreateOccurrence(s)

Next ==
  \/ \E e \in Editors : Edit(e)
  \/ \E s \in Sweepers : Sweep(s) \/ SweepFails(s)
  \/ Tick
  \/ RuleBreaks
  \/ Crash

Spec == Init /\ [][Next]_vars

(***************************************************************************)
(* Fairness: a sweep is started every minute and goes on, and a statement  *)
(* the database refuses again and again is accepted some time.             *)
(***************************************************************************)
FairSpec ==
  /\ Spec
  /\ \A s \in Sweepers : /\ WF_vars(Sweep(s))
                         /\ SF_vars(ComputeNext(s))
                         /\ SF_vars(Disarm(s) \/ SkipStale(s) \/ Claim(s))

(***************************************************************************)
(* Safety.                                                                 *)
(***************************************************************************)

\* No window is published twice, whatever overlapping sweeps, edits, pauses
\* and resumes rearm the template.  The one exception is what a request made due
\* again: it was written after the window it had computed came, and what it puts
\* back are that window and those up to its commit.  No window before them, and
\* none later, is touched by it.
FiresOnce == \A w \in 1 .. MaxClock : fired[w] <= 1 \/ w \in reopened

\* An occurrence is one version of the template, and none that was replaced
\* before its window was claimed: never an old text with new targets.
OccurrenceIsCurrent ==
  \A s \in Sweepers : post[s] \subseteq since[s]

\* What passed while the template was deliberately off is not published when
\* it is switched on again, nor by a sweep that read it before the pause, unless
\* a request that had read too early made it due again (as in FiresOnce).
SleptIsNotFired == \A w \in slept \ reopened : fired[w] = 0

(***************************************************************************)
(* Liveness.                                                               *)
(***************************************************************************)

\* A running template does not stay due for ever, tried by every sweep while
\* it is shown as running: its window is taken, skipped or disarmed.
NotDueForEver ==
  (nextRunAt # 0 /\ nextRunAt <= clock /\ ~paused) ~>
    (nextRunAt = 0 \/ nextRunAt > clock \/ paused)

=============================================================================
