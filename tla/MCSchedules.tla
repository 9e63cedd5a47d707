---------------------------- MODULE MCSchedules ----------------------------
(***************************************************************************)
(* A small instance of Schedules for TLC: two months of three and two      *)
(* days, weeks of two, two hours in a day.  Schedules is instantiated under*)
(* names that Template does not use: TemplateProofs reasons about both.    *)
(***************************************************************************)
EXTENDS Integers, Sequences, TLC

CONSTANTS Writers, Calendar, Week, Hours, MaxMonthday, Pages, Stored, Zones, Walls, MaxSaves

VARIABLES kind, cron, next, halted, now, meant, page, op, chosen, quiet, crossed, claim,
          saves, zone, scheduledAt, typed

S == INSTANCE Schedules WITH
       Editors <- Writers, Forms <- Pages, rule <- cron, paused <- halted, pc <- op, form <- page

ASSUME SchedulesAssumption == S!ScheduleAssumption

SchedulesSpec == S!Spec

\* What the panel shows of a rule and of a draft is when it runs (Schedules).
FormAndRuleAgree == S!FormAndRuleAgree

\* The next run of a template is the first its rule gives from now on (Schedules).
NextIsNext == S!NextIsNext

\* A save that leaves the schedule as it was keeps the next run (Schedules).
QuietKeepsNext == S!QuietKeepsNext

-----------------------------------------------------------------------------
TwoMonths == <<<<1, 1>>, <<1, 2>>, <<1, 3>>, <<2, 1>>, <<2, 2>>>>

\* Rules and forms, written out: the constants of an instance cannot be made of it.
Num(n) == [shape |-> "number", values |-> {n}]
Padded(n) == [shape |-> "padded", values |-> {n}]
List(v) == [shape |-> "list", values |-> v]
Star == [shape |-> "star", values |-> {}]
Page(mode, hour, weekday, monthday, custom) ==
  [mode |-> mode, hour |-> hour, weekday |-> weekday, monthday |-> monthday, custom |-> custom]
CustomPage(cronRule) == Page("custom", Padded(0), 1, 1, cronRule)

\* "0 01 * * *", "0 1 1,3 * *", "0 0 * 2 *"; one that never comes, one of six fields.
DailyPadded == <<Num(0), Padded(1), Star, Star, Star>>
OnSomeDays == <<Num(0), Num(1), List({1, 3}), Star, Star>>
InSecondMonth == <<Num(0), Num(0), Star, Num(2), Star>>
Never == <<Num(0), Num(0), Num(3), Num(2), Star>>
WithSeconds == <<Num(0), Num(0), Num(1), Star, Star, Star>>

SomeStored == {DailyPadded, OnSomeDays, InSecondMonth, Never}

SomePages ==
  {Page("daily", Padded(0), 1, 1, <<>>), Page("daily", Padded(2), 1, 1, <<>>),
   Page("weekly", Padded(1), 0, 1, <<>>),
   Page("monthly", Padded(1), 1, 2, <<>>), Page("monthly", Padded(0), 1, 3, <<>>),
   CustomPage(OnSomeDays), CustomPage(WithSeconds), CustomPage(<<>>)}

\* East and west of Greenwich, into the summer and out of it.
FourZones ==
  {[at |-> 10, before |-> b, after |-> b + d] : b \in {2, -5}, d \in {1, -1}}

SomeWalls == 2..15

Symmetry == Permutations(Writers)
=============================================================================
