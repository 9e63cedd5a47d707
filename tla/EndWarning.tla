----------------------------- MODULE EndWarning -----------------------------
(***************************************************************************)
(* The end of an open contest nobody joins: the sweep warns the admins     *)
(* before it, they put the end off by the warning's buttons or in the form, *)
(* and otherwise the sweep cancels the contest.  Sweeps, drawing passes and *)
(* edits read the contest and write it later; an extension holds its row.  *)
(*                                                                         *)
(* Lots, subscriptions and the announcement are left to Contest.           *)
(***************************************************************************)
EXTENDS Integers, FiniteSets

CONSTANTS
  Sweepers,    \* processes that sweep: the lock may expire under one of them
  Admins,      \* forms under way
  Before,      \* END_WARNING_BEFORE_MS
  Days,        \* what an extension adds
  MaxTime,     \* bounds: the clock, and the warnings and extensions there are
  MaxWrites

NoEnd == 0
NoForm == [seen |-> NoEnd, end |-> NoEnd]

ASSUME EndAssumption ==
  /\ Before \in Nat \ {0} /\ MaxTime \in Nat \ {0, 1} /\ MaxWrites \in Nat
  /\ Days \subseteq Nat \ {0} /\ IsFiniteSet(Days)

VARIABLES
  stage,       \* the contest's status
  end,         \* endsAt
  marked,      \* endWarningSentAt is set
  joinedBy,    \* has anybody joined?
  unseen,      \* history: has the first joined while a cancellation was under way?
  time,
  sweep,       \* a sweep: what it does, the time it began, the edition it marked
  saving,      \* a form under way
  news,        \* history: the warnings sent, each with its edition of the end
  edition,     \* history: how often the mark was taken back
  writes

contest == <<stage, end, marked, joinedBy, unseen>>
vars == <<contest, time, sweep, saving, news, edition, writes>>

Steps == {"idle", "found", "marked", "due", "empty", "cancelling"}
At(step, now) == [step |-> step, now |-> now, of |-> 0]
Ends == {NoEnd} \cup 1..(MaxTime + Before)

Init ==
  /\ stage = "open"
  /\ end \in {NoEnd} \cup 2..Before + 2
  /\ marked = FALSE /\ joinedBy = FALSE /\ unseen = FALSE
  /\ time = 1
  /\ sweep = [s \in Sweepers |-> At("idle", 1)]
  /\ saving = [a \in Admins |-> NoForm]
  /\ news = {} /\ edition = 0 /\ writes = 0

Moves(s, from, to) ==
  /\ sweep[s].step = from
  /\ sweep' = [sweep EXCEPT ![s].step = to]

ContestStays == UNCHANGED <<contest, edition>>
Counts == writes < MaxWrites /\ writes' = writes + 1

-----------------------------------------------------------------------------
\* Somebody joins while the contest is open: by an admin's list, which asks for no
\* end, or by a press that was checked before the end and is recorded now.
Join ==
  /\ stage = "open" /\ ~joinedBy
  /\ joinedBy' = TRUE
  /\ unseen' = \E s \in Sweepers : sweep[s].step = "cancelling"
  /\ UNCHANGED <<stage, end, marked, time, sweep, saving, news, edition, writes>>

Tick ==
  /\ time < MaxTime
  /\ time' = time + 1
  /\ UNCHANGED <<contest, sweep, saving, news, edition, writes>>

-----------------------------------------------------------------------------
(***************************************************************************)
(* The warning: empty contests that end soon are listed, marked and told.  *)
(***************************************************************************)
FindEnding(s) ==
  /\ stage = "open" /\ ~marked /\ ~joinedBy
  /\ time < end /\ end <= time + Before
  /\ sweep[s].step = "idle"
  /\ sweep' = [sweep EXCEPT ![s] = At("found", time)]
  /\ ContestStays /\ UNCHANGED <<time, saving, news, writes>>

\* Mutant: the mark is set without looking at it.
MarksBlindly(s) ==
  /\ sweep[s].step = "found"
  /\ sweep' = [sweep EXCEPT ![s].step = "marked", ![s].of = edition]
  /\ marked' = TRUE
  /\ UNCHANGED <<stage, end, joinedBy, unseen, edition, time, saving, news, writes>>

\* The mark is set if it is not; whether the end is the one found, or anybody
\* has joined, is not asked.
Mark(s) ==
  /\ sweep[s].step = "found"
  /\ sweep' = [sweep EXCEPT ![s].step = IF marked THEN "idle" ELSE "marked", ![s].of = edition]
  /\ marked' = TRUE
  /\ UNCHANGED <<stage, end, joinedBy, unseen, edition, time, saving, news, writes>>

\* The admins are told, or MAX fails and the mark stays.
Warn(s) ==
  /\ Moves(s, "marked", "idle")
  /\ news' \in {news, news \cup {[edition |-> sweep[s].of, by |-> s, time |-> time]}}
  /\ ContestStays /\ UNCHANGED <<time, saving, writes>>

-----------------------------------------------------------------------------
(***************************************************************************)
(* The end is put off.                                                     *)
(***************************************************************************)
Latest(a, b) == IF a < b THEN b ELSE a

SetEnd(new, afresh) ==
  /\ end' = new
  /\ marked' = (marked /\ ~afresh)
  /\ edition' = IF afresh THEN edition + 1 ELSE edition

\* extendContest, under the lock of the row: from the old end, or from now.
Extend(days) ==
  /\ stage = "open" /\ Counts
  /\ Latest(end, time) + days \in Ends
  /\ SetEnd(Latest(end, time) + days, TRUE)
  /\ UNCHANGED <<stage, joinedBy, unseen, time, sweep, saving, news>>

\* updateContest compares the form with the end it reads now, and a new end
\* must be ahead.  (A form without an end of a contest without one does nothing.)
EditRead(a, new) ==
  /\ saving[a] = NoForm /\ stage = "open" /\ Counts
  /\ new # end => new = NoEnd \/ new > time
  /\ <<end, new>> # <<NoEnd, NoEnd>>
  /\ saving' = [saving EXCEPT ![a] = [seen |-> end, end |-> new]]
  /\ ContestStays /\ UNCHANGED <<time, sweep, news>>

\* The mark is taken back if the form changed the end it was compared with.
EditWrite(a) ==
  /\ saving[a] # NoForm
  /\ saving' = [saving EXCEPT ![a] = NoForm]
  /\ IF stage = "open"
     THEN SetEnd(saving[a].end, saving[a].end # saving[a].seen)
     ELSE UNCHANGED <<end, marked, edition>>
  /\ UNCHANGED <<stage, joinedBy, unseen, time, sweep, news, writes>>

-----------------------------------------------------------------------------
(***************************************************************************)
(* Contests past their end are listed and drawn; the empty are cancelled.  *)
(***************************************************************************)
FindDue(s) ==
  /\ sweep[s].step = "idle"
  /\ stage = "open" /\ end # NoEnd /\ end <= time
  /\ sweep' = [sweep EXCEPT ![s] = At("due", time)]
  /\ ContestStays /\ UNCHANGED <<time, saving, news, writes>>

\* draw asks for the status and not for the end; without anybody to draw from
\* it is rolled back.
Draw(s) ==
  /\ Moves(s, "due", IF stage = "open" /\ ~joinedBy THEN "empty" ELSE "idle")
  /\ stage' = IF stage = "open" /\ joinedBy THEN "drawn" ELSE stage
  /\ UNCHANGED <<end, marked, joinedBy, unseen, time, saving, news, edition, writes>>

\* cancelEmptyContest is one statement.  It finds the contest open, empty and past
\* its end at the time the sweep began, by what was committed when it began ...
CancelSnapshot(s) ==
  /\ Moves(s, "empty", IF /\ stage = "open" /\ ~joinedBy
                          /\ end # NoEnd /\ end <= sweep[s].now
                       THEN "cancelling" ELSE "idle")
  /\ ContestStays /\ UNCHANGED <<time, saving, news, writes>>

\* Mutant: a contest that was put off meanwhile is cancelled all the same.
CancelsFound(s) ==
  /\ Moves(s, "cancelling", "idle")
  /\ stage' = IF stage = "open" THEN "cancelled" ELSE stage
  /\ UNCHANGED <<end, marked, joinedBy, unseen, time, saving, news, edition, writes>>

\* ... waits for whoever holds the row, and then looks again at the row, not at
\* the participants.
CancelWrite(s) ==
  /\ Moves(s, "cancelling", "idle")
  /\ stage' = IF stage = "open" /\ end # NoEnd /\ end <= sweep[s].now
              THEN "cancelled" ELSE stage
  /\ UNCHANGED <<end, marked, joinedBy, unseen, time, saving, news, edition, writes>>

\* The process of a sweep dies, and what it had in hand is not taken up.
SweepDies(s) ==
  /\ sweep[s].step # "idle"
  /\ Moves(s, sweep[s].step, "idle")
  /\ ContestStays /\ UNCHANGED <<time, saving, news, writes>>

-----------------------------------------------------------------------------
Next ==
  \/ Join \/ Tick
  \/ \E s \in Sweepers :
       \/ FindEnding(s) \/ Mark(s) \/ Warn(s)
       \/ FindDue(s) \/ Draw(s) \/ CancelSnapshot(s) \/ CancelWrite(s)
       \/ SweepDies(s)
  \/ \E days \in Days : Extend(days)
  \/ \E a \in Admins : EditWrite(a) \/ \E new \in Ends : EditRead(a, new)

Spec == Init /\ [][Next]_vars

-----------------------------------------------------------------------------
(* Properties.                                                             *)

TypeOK ==
  /\ stage \in {"open", "drawn", "cancelled"}
  /\ end \in Ends
  /\ marked \in BOOLEAN /\ joinedBy \in BOOLEAN /\ unseen \in BOOLEAN
  /\ time \in 1..MaxTime
  /\ sweep \in [Sweepers -> [step : Steps, now : 1..MaxTime, of : Nat]]
  /\ saving \in [Admins -> [seen : Ends, end : Ends]]
  /\ news \subseteq [edition : Nat, by : Sweepers, time : 1..MaxTime]
  /\ edition \in Nat /\ writes \in 0..MaxWrites

\* However sweeps and extensions cross, the admins are warned once for each
\* time the mark is set, and again only after it was taken back: of the
\* warnings sent, no two belong to one edition of the end.
OneWarning == \A m, n \in news : m.edition = n.edition => m = n

\* The types, and one warning for an edition of the end.
WarningsSound == TypeOK /\ OneWarning

\* A contest is cancelled when the end it has - the last one an admin set, not
\* the one some sweep had read - is over, and nobody is in it but who joined
\* while the cancelling statement was under way.
CancelledIsOver ==
  stage = "cancelled" => (joinedBy => unseen) /\ end # NoEnd /\ end <= time

\* What contests.service.ts:787-794 says of the mark, "once for an end ... and
\* taken back when endsAt changes": a contest that is marked is about to end.
MarkIsOfThisEnd == marked => end # NoEnd /\ end <= time + Before
=============================================================================
