----------------------------- MODULE Schedules -----------------------------
(***************************************************************************)
(* When a post goes out: the schedule of a recurring post and the moment a *)
(* draft is planned for.  The base keeps a cron rule of five fields and the *)
(* next run; the panel shows a form (every day, every week, every month, or *)
(* the expression itself) that is made from the rule and made into one when *)
(* it is saved.  A draft keeps a moment, and its form shows the clock of the *)
(* project's time zone.                                                    *)
(*                                                                         *)
(* The model follows one post, a template or a draft, for as long as the   *)
(* calendar lasts.  A save reads the rule twice and writes once, with other *)
(* saves, a resume and the sweep between; the sweep may be late.           *)
(*                                                                         *)
(* A field of a rule keeps how it is spelt, for rules are compared as text. *)
(* Minutes are handled as hours are and are always zero here.              *)
(***************************************************************************)
EXTENDS Integers, Sequences, FiniteSets

CONSTANTS
  Editors,
  Calendar,      \* the days, each with its month and its number in it
  Week,          \* days in a week
  Hours,         \* hours in a day, of which a moment is one
  MaxMonthday,   \* MAX_PRESET_MONTHDAY: every month is at least so long
  Forms,         \* forms an admin may fill in
  Stored,        \* rules of templates there before
  Zones,         \* clocks: an offset, the moment it changes, the offset after
  Walls,         \* times a draft's form may be given
  MaxSaves

Moments == 1..Len(Calendar) * Hours
DayAt(t) == ((t - 1) \div Hours) + 1
HourAt(t) == (t - 1) % Hours
MonthAt(t) == Calendar[DayAt(t)][1]
MonthdayAt(t) == Calendar[DayAt(t)][2]
WeekdayAt(t) == DayAt(t) % Week

Beyond == Len(Calendar) * Hours + 1    \* a run after the calendar's end
Disarmed == 0                          \* no next run

-----------------------------------------------------------------------------
(***************************************************************************)
(* Rules, as cron-parser reads them.                                       *)
(***************************************************************************)
Field(shape, S) == [shape |-> shape, values |-> S]
Num(n) == Field("number", {n})          \* 9
Padded(n) == Field("padded", {n})       \* 09
List(S) == Field("list", S)             \* 1,4
Star == Field("star", {})

\* What a rule may be, the rules of six fields that are refused among them.
Fields == [shape : {"number", "padded", "list", "star"}, values : SUBSET Nat]
IsNumber(field) == field.shape \in {"number", "padded"}
IsField(field) ==
  /\ field \in Fields
  /\ IsNumber(field) => \E n \in field.values : field = Field(field.shape, {n})
  /\ field.shape = "star" => field = Star
IsRule(r) == r \in Seq(Fields) /\ \A i \in DOMAIN r : IsField(r[i])

Matches(field, n) == field.shape = "star" \/ n \in field.values

\* The last five: a sixth in front of them counts seconds.
MinuteOf(rule) == rule[Len(rule) - 4]
HourOf(rule) == rule[Len(rule) - 3]
MonthdayOf(rule) == rule[Len(rule) - 2]
MonthOf(rule) == rule[Len(rule) - 1]
WeekdayOf(rule) == rule[Len(rule)]

\* Of a day of the month and a day of the week, either will do when both are given.
DayMatches(rule, t) ==
  LET monthday == Matches(MonthdayOf(rule), MonthdayAt(t))
      weekday  == Matches(WeekdayOf(rule), WeekdayAt(t))
  IN  IF MonthdayOf(rule).shape # "star" /\ WeekdayOf(rule).shape # "star"
        THEN monthday \/ weekday ELSE monthday /\ weekday

Occurs(rule, t) ==
  /\ Matches(HourOf(rule), HourAt(t))
  /\ Matches(MonthOf(rule), MonthAt(t))
  /\ DayMatches(rule, t)

Times(rule) == {t \in Moments : Occurs(rule, t)}

\* nextRunAfter: strictly after the moment.
NextAfter(rule, from) ==
  LET later == {t \in Times(rule) : t > from}
  IN  IF later = {} THEN Beyond ELSE CHOOSE t \in later : \A o \in later : t <= o

\* Mutant: a rule of six fields is taken.
ValidOfAnyLength(rule) == Len(rule) >= 5 /\ Times(rule) # {}

\* assertValidRecurrence: five fields, and a date that comes.
Valid(rule) == Len(rule) = 5 /\ Times(rule) # {}

-----------------------------------------------------------------------------
(***************************************************************************)
(* The form and the rule.                                                  *)
(***************************************************************************)
Form(mode, hour, weekday, monthday, custom) ==
  [mode |-> mode, hour |-> hour, weekday |-> weekday, monthday |-> monthday,
   custom |-> custom]

NoRule == <<>>
Daily(hour) == Form("daily", hour, 1, 1, NoRule)
Weekly(hour, weekday) == Form("weekly", hour, weekday, 1, NoRule)
Monthly(hour, monthday) == Form("monthly", hour, 1, monthday, NoRule)
Custom(rule) == Form("custom", Padded(0), 1, 1, rule)

IsForm(f) ==
  /\ f = Form(f.mode, f.hour, f.weekday, f.monthday, f.custom)
  /\ f.mode \in {"daily", "weekly", "monthly", "custom"}
  /\ IsField(f.hour) /\ IsNumber(f.hour)
  /\ f.weekday \in Nat /\ f.monthday \in Nat /\ IsRule(f.custom)

ValueOf(field) == CHOOSE n \in field.values : TRUE
Pad(field) == Padded(ValueOf(field))

\* Mutant: any month will do.
ParseOfAnyMonth(rule) ==
  IF Len(rule) # 5 \/ ~IsNumber(HourOf(rule)) THEN Custom(rule)
  ELSE IF MonthdayOf(rule) = Star /\ WeekdayOf(rule) = Star THEN Daily(Pad(HourOf(rule)))
  ELSE Custom(rule)

\* parseCron: a rule no preset says is shown as it is.
Parse(rule) ==
  LET plain == /\ Len(rule) = 5
               /\ IsNumber(MinuteOf(rule)) /\ IsNumber(HourOf(rule))
               /\ MonthOf(rule) = Star
               /\ ValueOf(HourOf(rule)) < Hours
      hour  == Pad(HourOf(rule))
  IN  CASE plain /\ MonthdayOf(rule) = Star /\ WeekdayOf(rule) = Star ->
             Daily(hour)
        [] plain /\ MonthdayOf(rule) = Star /\ IsNumber(WeekdayOf(rule))
             /\ ValueOf(WeekdayOf(rule)) < Week ->
             Weekly(hour, ValueOf(WeekdayOf(rule)))
        [] plain /\ WeekdayOf(rule) = Star /\ IsNumber(MonthdayOf(rule))
             /\ ValueOf(MonthdayOf(rule)) \in 1..MaxMonthday ->
             Monthly(hour, ValueOf(MonthdayOf(rule)))
        [] OTHER -> Custom(rule)

\* Mutant: any day of the longest month.
BuildsAnyDay(form) ==
  \/ form.mode = "custom" /\ form.custom # NoRule
  \/ form.mode \in {"daily", "weekly", "monthly"} /\ ValueOf(form.hour) < Hours

\* What buildCron refuses to build from.
Buildable(form) ==
  \/ form.mode = "custom" /\ form.custom # NoRule
  \/ /\ form.mode # "custom"
     /\ ValueOf(form.hour) < Hours
     /\ form.mode = "weekly" => form.weekday \in 0..Week - 1
     /\ form.mode = "monthly" => form.monthday \in 1..MaxMonthday

Build(form) ==
  LET hour == Num(ValueOf(form.hour))
  IN  CASE form.mode = "custom"  -> form.custom
        [] form.mode = "daily"   -> <<Num(0), hour, Star, Star, Star>>
        [] form.mode = "weekly"  -> <<Num(0), hour, Star, Star, Num(form.weekday)>>
        [] form.mode = "monthly" -> <<Num(0), hour, Num(form.monthday), Star, Star>>

\* Mutant: the day of the week is forgotten.
SameTime(a, b) == a.mode = b.mode /\ a.hour = b.hour /\ a.custom = b.custom

\* Mutant: every form is built anew.
NeverSame(a, b) == FALSE

\* sameSchedule: what the form tells, not the text of the rule.
Same(a, b) ==
  /\ a.mode = b.mode
  /\ a.mode # "custom" => a.hour = b.hour
  /\ a.mode = "weekly" => a.weekday = b.weekday
  /\ a.mode = "monthly" => a.monthday = b.monthday
  /\ a.mode = "custom" => a.custom = b.custom

-----------------------------------------------------------------------------
(***************************************************************************)
(* Local time.  A zone's offset changes once, by an hour.                  *)
(***************************************************************************)
Offset(zone, t) == IF t < zone.at THEN zone.before ELSE zone.after

\* utcToZoned, and toLocalInput of the panel.
ToLocal(zone, t) == t + Offset(zone, t)

\* Mutant: the offset is looked up once.
ToUtcAtOnce(zone, wall) == wall - Offset(zone, wall)

\* zonedToUtc: the first guess may be on the other side of the change.
ToUtc(zone, wall) ==
  LET guess == wall - Offset(zone, wall)
  IN  wall - Offset(zone, guess)

\* The clock does show that time, once or twice.
Exists(zone, wall) ==
  \E t \in {wall - zone.before, wall - zone.after} : ToLocal(zone, t) = wall

-----------------------------------------------------------------------------
\* What the constants must be (MCSchedules assumes it of those of its run).
\* Every month is as long as a preset may ask for.
ScheduleAssumption ==
  /\ Week \in Nat \ {0} /\ Hours \in Nat \ {0} /\ MaxSaves \in Nat
  /\ Calendar \in Seq(Nat \X Nat) /\ Calendar # <<>> /\ MaxMonthday \in Nat
  /\ \A d \in DOMAIN Calendar : \A n \in 1..MaxMonthday :
       \E o \in DOMAIN Calendar : Calendar[o] = <<Calendar[d][1], n>>
  /\ \A r \in Stored : IsRule(r)
  /\ \A f \in Forms : IsForm(f)
  /\ Zones \subseteq [at : Int, before : Int, after : Int] /\ Walls \subseteq Int

VARIABLES
  kind,         \* "template" or "draft"
  rule,         \* recurrenceRule
  next,         \* nextRunAt
  paused,
  now,
  meant,        \* history: the form saved last
  form,         \* the form an editor has before them
  pc,           \* how far a save or a resume is
  chosen,       \* the rule and the next run it will write
  quiet,        \* history: the schedule is as it was when the form was opened
  crossed,      \* history: two of these writes overlapped, or one came when the run it
                \* had computed was due
  claim,        \* the due run a sweep has read, and the next one it computed
  saves,
  zone,         \* of the draft
  scheduledAt,
  typed         \* history: the time last typed into the draft's form

template == <<rule, next, meant>>
editors == <<form, pc, chosen, quiet, crossed, saves>>
draft == <<scheduledAt, typed>>
vars == <<kind, zone, now, claim, paused, template, editors, draft>>

Keep == -1
NoForm == Custom(NoRule)
NoTime == -1
NoZone == [at |-> 0, before |-> 0, after |-> 0]
NoClaim == [due |-> Disarmed, next |-> Disarmed]
NoChoice == [rule |-> NoRule, next |-> Keep]

Init ==
  /\ kind \in {"nothing", "template"}
  /\ zone = NoZone
  /\ IF kind = "nothing" THEN rule = NoRule /\ next = Disarmed
     ELSE /\ rule \in Stored
          /\ next \in {Disarmed} \cup (IF Valid(rule) THEN {NextAfter(rule, 1)} ELSE {})
  /\ meant = Custom(rule)
  /\ paused = FALSE
  /\ now = 1
  /\ form = [e \in Editors |-> NoForm]
  /\ pc = [e \in Editors |-> "idle"]
  /\ chosen = [e \in Editors |-> NoChoice]
  /\ quiet = [e \in Editors |-> FALSE]
  /\ crossed = FALSE
  /\ claim = NoClaim
  /\ saves = 0
  /\ scheduledAt = NoTime
  /\ typed = NoTime

-----------------------------------------------------------------------------
(***************************************************************************)
(* A template is created or its form is saved.                             *)
(***************************************************************************)
Writing == {"submitted", "checked", "resuming"}
Crosses(e) == crossed' = (crossed \/ \E o \in Editors \ {e} : pc[o] \in Writing)
Moves(e, from, to) == pc[e] = from /\ pc' = [pc EXCEPT ![e] = to]

Create(f) ==
  /\ kind = "nothing"
  /\ Buildable(f) /\ Valid(Build(f))
  /\ kind' = "template"
  /\ rule' = Build(f)
  /\ next' = NextAfter(Build(f), now)
  /\ meant' = f
  /\ UNCHANGED <<paused, now, zone, claim, editors, draft>>

Open(e) ==
  /\ kind = "template" /\ saves < MaxSaves
  /\ Moves(e, "idle", "open")
  /\ form' = [form EXCEPT ![e] = Parse(rule)]
  /\ quiet' = [quiet EXCEPT ![e] = TRUE]
  /\ saves' = saves + 1
  /\ UNCHANGED <<kind, now, zone, claim, template, paused, draft, chosen, crossed>>

Chosen(f) == IF Same(Parse(rule), f) THEN rule ELSE Build(f)

\* The controller reads the rule and keeps it if the form says the same.
Submit(e, f) ==
  /\ Moves(e, "open", "submitted")
  /\ Same(Parse(rule), f) \/ Buildable(f)
  /\ chosen' = [chosen EXCEPT ![e] = [NoChoice EXCEPT !.rule = Chosen(f)]]
  /\ form' = [form EXCEPT ![e] = f]
  /\ quiet' = [quiet EXCEPT ![e] = @ /\ f = form[e]]
  /\ Crosses(e)
  /\ UNCHANGED <<kind, now, zone, claim, template, paused, draft, saves>>

Forget(e) ==
  /\ form' = [form EXCEPT ![e] = NoForm]
  /\ chosen' = [chosen EXCEPT ![e] = NoChoice]

\* The form, or the rule it makes, is refused.
Refuse(e) ==
  /\ \/ Moves(e, "open", "idle") /\ \E f \in Forms : ~Same(Parse(rule), f) /\ ~Buildable(f)
     \/ /\ Moves(e, "submitted", "idle")
        /\ chosen[e].rule # rule \/ next = Disarmed
        /\ ~Valid(chosen[e].rule)
  /\ Forget(e)
  /\ quiet' = [quiet EXCEPT ![e] = FALSE]
  /\ UNCHANGED <<kind, now, zone, claim, template, paused, draft, crossed, saves>>

\* Mutant: the run is computed only for a template without one.
RearmsOnly(e) == next = Disarmed

\* scheduleChanged or rearm, as the service reads the row.
Rearms(e) == chosen[e].rule # rule \/ next = Disarmed

\* The service reads the row again, and computes the next run if it must.
Check(e) ==
  /\ Moves(e, "submitted", "checked")
  /\ Rearms(e) => Valid(chosen[e].rule)
  /\ chosen' = [chosen EXCEPT ![e] =
       [@ EXCEPT !.next = IF Rearms(e) THEN NextAfter(chosen[e].rule, now) ELSE Keep]]
  /\ UNCHANGED <<kind, now, zone, claim, template, paused, draft, form, quiet, crossed,
                 saves>>

SetsNext(e) ==
  IF chosen[e].next = Keep THEN UNCHANGED <<next, crossed>>
  ELSE /\ next' = chosen[e].next
       /\ crossed' = (crossed \/ chosen[e].next <= now)

Write(e) ==
  /\ Moves(e, "checked", "idle")
  /\ rule' = chosen[e].rule
  /\ SetsNext(e)
  /\ meant' = form[e]
  /\ quiet' = [o \in Editors |-> quiet[o] /\ o # e /\ rule' = rule]
  /\ Forget(e)
  /\ UNCHANGED <<kind, now, zone, claim, paused, draft, saves>>

-----------------------------------------------------------------------------
(***************************************************************************)
(* Pause and resume.                                                       *)
(***************************************************************************)
Pause ==
  /\ kind = "template" /\ ~paused
  /\ paused' = TRUE
  /\ UNCHANGED <<kind, now, zone, claim, template, editors, draft>>

\* Mutant: to resume what runs moves its window on.
AlwaysResumes == TRUE

\* Only a template that stood still is armed anew.
Resumes == paused \/ next = Disarmed

ReadToResume(e) ==
  /\ kind = "template" /\ saves < MaxSaves
  /\ Resumes => Valid(rule)
  /\ Moves(e, "idle", "resuming")
  /\ chosen' = [chosen EXCEPT ![e] =
       [@ EXCEPT !.next = IF Resumes THEN NextAfter(rule, now) ELSE Keep]]
  /\ quiet' = [quiet EXCEPT ![e] = ~paused /\ next # Disarmed]
  /\ saves' = saves + 1
  /\ Crosses(e)
  /\ UNCHANGED <<kind, now, zone, claim, template, paused, draft, form>>

Resume(e) ==
  /\ Moves(e, "resuming", "idle")
  /\ paused' = FALSE
  /\ SetsNext(e)
  /\ Forget(e)
  /\ quiet' = [quiet EXCEPT ![e] = FALSE]
  /\ UNCHANGED <<kind, now, zone, claim, rule, meant, draft, saves>>

-----------------------------------------------------------------------------
(***************************************************************************)
(* The sweep reads a due run and claims it; time passes.                   *)
(***************************************************************************)
Tick ==
  /\ kind = "template" /\ now + 1 \in Moments
  /\ now' = now + 1
  /\ UNCHANGED <<kind, zone, claim, template, paused, editors, draft>>

ReadDue ==
  /\ claim = NoClaim /\ ~paused
  /\ next # Disarmed /\ next <= now
  /\ claim' = [due |-> next, next |-> NextAfter(rule, now)]
  /\ UNCHANGED <<kind, now, zone, template, paused, editors, draft>>

\* Mutant: the claim does not look at the run it takes.
TakesAnyway == ~paused

\* The run is moved on if it is still the one read, and nobody paused.
StillDue == next = claim.due /\ ~paused

Claim ==
  /\ claim # NoClaim
  /\ next' = IF StillDue THEN claim.next ELSE next
  /\ claim' = NoClaim
  /\ UNCHANGED <<kind, now, zone, rule, meant, paused, editors, draft>>

-----------------------------------------------------------------------------
(***************************************************************************)
(* A draft is created or edited: the form is filled with the clock's time, *)
(* and what it holds when it is saved is read as such.                     *)
(***************************************************************************)
Plans(wall) ==
  /\ typed' = wall
  /\ scheduledAt' = IF wall = NoTime THEN NoTime ELSE ToUtc(zone', wall)
  /\ UNCHANGED <<now, claim, template, paused, editors>>

\* The zone is the installation's, whichever that is.
CreateDraft(wall) == kind = "nothing" /\ kind' = "draft" /\ zone' \in Zones /\ Plans(wall)
EditDraft(wall) == kind = "draft" /\ UNCHANGED <<kind, zone>> /\ Plans(wall)

\* The form is saved as it was filled in.
SaveDraftAsShown ==
  /\ kind = "draft" /\ scheduledAt # NoTime
  /\ UNCHANGED <<kind, zone>>
  /\ Plans(ToLocal(zone, scheduledAt))

-----------------------------------------------------------------------------
Next ==
  \/ \E f \in Forms : Create(f)
  \/ \E e \in Editors :
       \/ Open(e) \/ Refuse(e) \/ Check(e) \/ Write(e)
       \/ ReadToResume(e) \/ Resume(e)
       \/ \E f \in Forms \cup {form[e]} : Submit(e, f)
  \/ Pause \/ Tick \/ ReadDue \/ Claim
  \/ \E wall \in Walls \cup {NoTime} : CreateDraft(wall) \/ EditDraft(wall)
  \/ SaveDraftAsShown

Spec == Init /\ [][Next]_vars

-----------------------------------------------------------------------------
(***************************************************************************)
(* Properties.                                                             *)
(***************************************************************************)
\* Everything has its type, and a template that has a next run has a rule of
\* five fields that comes (assertValidRecurrence, wherever a run is computed).
TypeOK ==
  /\ kind \in {"nothing", "template", "draft"}
  /\ IsRule(rule)
  /\ next \in {Disarmed} \cup Moments \cup {Beyond}
  /\ next # Disarmed => Len(rule) = 5 /\ Times(rule) # {}
  /\ now \in Moments
  /\ pc \in [Editors -> {"idle", "open"} \cup Writing]
  /\ saves \in 0..MaxSaves

\* What a form says, told without a rule.
Says(f) ==
  CASE f.mode = "custom"  -> Times(f.custom)
    [] f.mode = "daily"   -> {t \in Moments : HourAt(t) \in f.hour.values}
    [] f.mode = "weekly"  -> {t \in Moments : HourAt(t) \in f.hour.values
                                            /\ WeekdayAt(t) = f.weekday}
    [] f.mode = "monthly" -> {t \in Moments : HourAt(t) \in f.hour.values
                                            /\ MonthdayAt(t) = f.monthday}

Runs == kind = "template" /\ next # Disarmed

\* The form a template is opened in says when it runs, whatever rule the API
\* was given (cron-preset.ts: what is no preset is not bent into one).
ShownAsItRuns == Runs => Says(Parse(rule)) = Times(rule)

\* It runs when the form saved last says, though the text of the stored rule
\* may be kept (sameSchedule), and whatever saves it crossed.
RunsAsSaid == Runs => Times(rule) = Says(meant)

\* A monthly preset comes every month (MAX_PRESET_MONTHDAY).
MonthlyComesMonthly ==
  Runs /\ meant.mode = "monthly" =>
    \A d \in DOMAIN Calendar : \E t \in Times(rule) : MonthAt(t) = Calendar[d][1]

\* The next run is one the rule of now gives, and from now on none comes before
\* it, whatever sweep ran meanwhile, unless two writes of admins overlapped or
\* one came when the run it had computed was due.
NextIsNext ==
  Runs /\ ~crossed =>
    /\ next \in Times(rule) \cup {Beyond}
    /\ \A t \in Times(rule) : t > now => next <= t

\* Saving a form whose schedule was not touched, or resuming what runs, leaves
\* the next run where it is, so that a due window is not skipped, unless two writes
\* overlapped.
QuietKeepsNext ==
  [][\A e \in Editors :
       Write(e) \/ Resume(e) => (quiet[e] /\ ~crossed /\ next # Disarmed => next' = next)]_vars

\* The moment a draft is planned for reads on the clock as it was typed, on
\* both sides of a change of the clock, if the clock shows that time at all.
ReadsAsTyped ==
  kind = "draft" /\ typed # NoTime /\ Exists(zone, typed) =>
    ToLocal(zone, scheduledAt) = typed

\* The form, the rule and the clock agree: types, what is shown and what was
\* said is when it runs, and a draft reads as it was typed.
FormAndRuleAgree ==
  TypeOK /\ ShownAsItRuns /\ RunsAsSaid /\ MonthlyComesMonthly /\ ReadsAsTyped
=============================================================================
