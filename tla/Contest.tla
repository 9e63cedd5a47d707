------------------------------ MODULE Contest ------------------------------
(***************************************************************************)
(* ONE contest (a Contest row with its prizes, participants and draw log): *)
(* people join by the button, admins edit, fix winners, draw and override, *)
(* the reconciler opens, draws and cancels by date, winners are told.      *)
(*                                                                         *)
(* What a handler reads before its transaction and what the transaction    *)
(* then does are separate steps.  Transactions are serialized by the lock  *)
(* of the Contest row.  All but one are short, so they are single steps    *)
(* that wait while the lock is taken; the draw holds it through its calls  *)
(* to MAX, and nobody sees what it writes before it commits.               *)
(***************************************************************************)
EXTENDS Naturals, FiniteSets

CONSTANTS
  People,       \* those who may take part (one dedupKey each)
  Places,       \* prize places there may be, 1, 2, ...
  Conditions,   \* the sets of channels a contest may require a subscription to
  Admins,       \* admin requests; each performs one operation
  Ops,          \* operations a request may perform
  Sweep,        \* the reconciler
  NoOne,        \* no winner, or no holder of the lock
  MaxEditions,  \* bound: how often the list of prizes is replaced
  MaxCrashes    \* bound: crashes of the process

ASSUME PlacesAssumption == Places \subseteq Nat
ASSUME ActorsAssumption == Sweep \notin Admins /\ NoOne \notin Admins \cup {Sweep}
ASSUME NoOneAssumption  == NoOne \notin People
ASSUME LimitsAssumption == MaxEditions \in Nat /\ MaxCrashes \in Nat

Actors == Admins \cup {Sweep}
Winner == People \cup {NoOne}
Channels == UNION Conditions

VARIABLES
  status,     \* Contest.status; "deleted": no such row
  deadline,   \* endsAt: not set, ahead, or passed
  condition,  \* the channels the contest requires a subscription to
  prizes,     \* the places it has a ContestPrize for
  edition,    \* how often the prizes were created anew (they get new ids)
  winner, forced, notify,   \* winnerParticipantId, isForced, notifyStatus
  joined,     \* ContestParticipant
  byHand,     \* those of them an admin typed in: MAX has no id of theirs
  unseen,     \* history: recorded while the cancelling statement was under way
  log,        \* the "draw" entry of ContestDrawLog, and what MAX had confirmed
  journal,    \* the winners that replaying the whole ContestDrawLog gives
  lock,       \* who holds the row in a draw
  draw,       \* the draw in progress: the pool it read, its picks, who dropped
              \* out of the pool, who is checked, the channels skipped, and
              \* (history) <<person, channel>>: subscriptions MAX confirmed
  pc, form,   \* where each actor is, and what it read or was asked
  queue,      \* the winners each actor has still to tell
  joinPc,     \* where each person's button press is
  late,       \* the places a winner who starts the bot is being told of
  told,       \* <<place, person>>: congratulations that arrived
  crashes

row     == <<status, deadline, condition>>
places  == <<prizes, edition, winner, forced, notify>>
pool    == <<joined, byHand, unseen>>
record  == <<log, journal>>
tx      == <<lock, draw>>
actors  == <<pc, form, queue>>
persons == <<joinPc, late>>
vars    == <<row, places, pool, record, tx, actors, persons, told, crashes>>

FINISHED == {"drawn", "cancelled"}
Unfinished == status \in {"draft", "open"}
Deadlines  == {"none", "ahead", "passed"}

NoDraw  == [pool |-> {}, picks |-> [pl \in Places |-> NoOne], out |-> {},
            checked |-> {}, skipped |-> {}, confirmed |-> {}]
NoLog   == [pool |-> {}, required |-> {}, skipped |-> {}, confirmed |-> {}]
NoForm  == [place |-> 0, person |-> NoOne, edition |-> 0, prizes |-> {},
            deadline |-> "none", condition |-> {}, result |-> "none"]

Pc == {"new", "open", "force", "add", "prizes", "edit", "override", "draw",
       "pick", "ask", "commit", "cancel", "cancelling", "list", "tell", "mark",
       "done"}

Forms == [place : Places \cup {0}, person : Winner, edition : 0 .. MaxEditions,
          prizes : SUBSET Places, deadline : Deadlines,
          condition : SUBSET Channels,
          result : {"none", "sent", "manual_required"}]

Draw == [pool : SUBSET People, picks : [Places -> Winner], out : SUBSET People,
         checked : SUBSET People, skipped : SUBSET Channels,
         confirmed : SUBSET (People \X Channels)]
Log  == [pool : SUBSET People, required : SUBSET Channels,
         skipped : SUBSET Channels, confirmed : SUBSET (People \X Channels)]

TypeOK ==
  /\ status \in {"draft", "open", "drawn", "cancelled", "deleted"}
  /\ deadline \in Deadlines
  /\ condition \subseteq Channels
  /\ prizes \subseteq Places
  /\ edition \in 0 .. MaxEditions
  /\ winner \in [Places -> Winner]
  /\ forced \in [Places -> BOOLEAN]
  /\ notify \in [Places -> {"pending", "sent", "manual_required",
                            "notified_manually"}]
  /\ joined \subseteq People
  /\ byHand \subseteq joined
  /\ unseen \subseteq People
  /\ log \in Log
  /\ journal \in [Places -> Winner]
  /\ lock \in Actors \cup {NoOne}
  /\ draw \in Draw
  /\ pc \in [Actors -> Pc]
  /\ form \in [Actors -> Forms]
  /\ queue \in [Actors -> SUBSET (Places \X People)]
  /\ joinPc \in [People -> {"idle", "record"}]
  /\ late \in [People -> SUBSET Places]
  /\ told \subseteq Places \X People
  /\ crashes \in 0 .. MaxCrashes

\* createContest refuses an end date without prizes.
Init ==
  /\ status = "draft"
  /\ deadline \in {"none", "ahead"}
  /\ condition \in Conditions
  /\ prizes \in SUBSET Places
  /\ deadline # "none" => prizes # {}
  /\ edition = 0
  /\ winner = [pl \in Places |-> NoOne]
  /\ forced = [pl \in Places |-> FALSE]
  /\ notify = [pl \in Places |-> "pending"]
  /\ joined = {}
  /\ byHand = {}
  /\ unseen = {}
  /\ log = NoLog
  /\ journal = [pl \in Places |-> NoOne]
  /\ lock = NoOne
  /\ draw = NoDraw
  /\ pc = [a \in Actors |-> "new"]
  /\ form = [a \in Actors |-> NoForm]
  /\ queue = [a \in Actors |-> {}]
  /\ joinPc = [p \in People |-> "idle"]
  /\ late = [p \in People |-> {}]
  /\ told = {}
  /\ crashes = 0

(***************************************************************************)
(* Steps of an actor.  An admin's request ends; the sweep starts anew.     *)
(***************************************************************************)
Free == lock = NoOne

Over(a) == IF a = Sweep THEN "new" ELSE "done"

Go(a, from, to) ==
  /\ pc[a] = from
  /\ pc' = [pc EXCEPT ![a] = to]

\* Checks passed: what was read or asked for is kept for the transaction.
Begin(a, op, asked) ==
  /\ op \in Ops
  /\ Go(a, "new", op)
  /\ form' = [form EXCEPT ![a] = asked]
  /\ UNCHANGED <<row, places, pool, record, tx, queue, persons, told, crashes>>

Finish(a, from) ==
  /\ Go(a, from, Over(a))
  /\ form' = [form EXCEPT ![a] = NoForm]
  /\ UNCHANGED <<queue, persons, told, crashes>>

\* A transaction that finds the contest finished, or its prize gone.
Refused(a, from, refusal) ==
  /\ Free
  /\ refusal
  /\ Finish(a, from)
  /\ UNCHANGED <<row, places, pool, record, tx>>

(***************************************************************************)
(* Participation: join, and the admin's list of participants.              *)
(***************************************************************************)
PersonOnly == UNCHANGED <<row, places, record, tx, actors, late, told, crashes>>

\* A cancelling statement that has begun does not see who is recorded now.
Recorded(p) ==
  /\ joined' = joined \cup {p}
  /\ unseen' = IF pc[Sweep] = "cancelling" THEN unseen \cup {p} ELSE unseen

\* isAcceptingEntries; then consent and subscriptions are checked.
JoinCheck(p) ==
  /\ joinPc[p] = "idle"
  /\ p \notin joined
  /\ status = "open" /\ deadline # "passed"
  /\ joinPc' = [joinPc EXCEPT ![p] = "record"]
  /\ UNCHANGED pool
  /\ PersonOnly

\* Mutant: join that does not wait for the draw's lock.
JoinUnlocked(p) ==
  /\ joinPc[p] = "record"
  /\ status = "open"
  /\ Recorded(p)
  /\ joinPc' = [joinPc EXCEPT ![p] = "idle"]
  /\ UNCHANGED byHand
  /\ PersonOnly

JoinRecord(p) ==
  /\ joinPc[p] = "record"
  /\ Free
  /\ status = "open"
  /\ Recorded(p)
  /\ joinPc' = [joinPc EXCEPT ![p] = "idle"]
  /\ UNCHANGED byHand
  /\ PersonOnly

\* Closed or deleted meanwhile, not subscribed, or the lock timed out.
JoinRefused(p) ==
  /\ joinPc[p] = "record"
  /\ joinPc' = [joinPc EXCEPT ![p] = "idle"]
  /\ UNCHANGED pool
  /\ PersonOnly

AddCheck(a, p) ==
  /\ Unfinished
  /\ Begin(a, "add", [NoForm EXCEPT !.person = p])

AddCommit(a) ==
  /\ Free /\ Unfinished
  /\ Recorded(form[a].person)
  /\ byHand' = IF form[a].person \in joined THEN byHand
               ELSE byHand \cup {form[a].person}
  /\ Finish(a, "add")
  /\ UNCHANGED <<row, places, record, tx>>

(***************************************************************************)
(* The terms: editContest, extendContest, setPrizes, openContest, delete.  *)
(***************************************************************************)

\* The form is checked against the prizes there are; a date that is passed
\* already may only be left as it is.
EditCheck(a, date, subscribe) ==
  /\ Unfinished
  /\ date = "passed" => deadline = "passed"
  /\ date # "none" => prizes # {}
  /\ Begin(a, "edit", [NoForm EXCEPT !.deadline = date,
                                     !.condition = subscribe])

EditCommit(a) ==
  /\ Free /\ Unfinished
  /\ deadline' = form[a].deadline
  /\ condition' = form[a].condition
  /\ Finish(a, "edit")
  /\ UNCHANGED <<status, places, pool, record, tx>>

\* All under the lock: no step apart.
Extend(a) ==
  /\ "extend" \in Ops
  /\ Free /\ status = "open"
  /\ deadline' = "ahead"
  /\ Finish(a, "new")
  /\ UNCHANGED <<status, condition, places, pool, record, tx>>

PrizesCheck(a, S) ==
  /\ Unfinished
  /\ S = {} => deadline = "none"
  /\ Begin(a, "prizes", [NoForm EXCEPT !.prizes = S])

\* The rows are created anew: no winner is fixed on them any more.
PrizesCommit(a) ==
  /\ Free /\ Unfinished
  /\ edition < MaxEditions
  /\ edition' = edition + 1
  /\ prizes' = form[a].prizes
  /\ winner' = [pl \in Places |-> NoOne]
  /\ forced' = [pl \in Places |-> FALSE]
  /\ UNCHANGED notify
  /\ Finish(a, "prizes")
  /\ UNCHANGED <<row, pool, record, tx>>

OpenCheck(a) ==
  /\ Unfinished
  /\ deadline # "none" => prizes # {}
  /\ Begin(a, "open", NoForm)

\* Mutant: openContest that writes unconditionally.
OpenAnyway(a) ==
  /\ Free /\ status # "deleted"
  /\ status' = "open"
  /\ Finish(a, "open")
  /\ UNCHANGED <<deadline, condition, places, pool, record, tx>>

\* UPDATE ... WHERE status = draft: otherwise nothing is written.
OpenCommit(a) ==
  /\ Free
  /\ status' = IF status = "draft" THEN "open" ELSE status
  /\ Finish(a, "open")
  /\ UNCHANGED <<deadline, condition, places, pool, record, tx>>

\* Everything goes with the row.  (Its announcement is not being sent.)
Delete(a) ==
  /\ "delete" \in Ops
  /\ Free /\ status \notin {"drawn", "deleted"}
  /\ status' = "deleted"
  /\ deadline' = "none"
  /\ prizes' = {}
  /\ winner' = [pl \in Places |-> NoOne]
  /\ forced' = [pl \in Places |-> FALSE]
  /\ joined' = {}
  /\ byHand' = {}
  /\ unseen' = {}
  /\ UNCHANGED <<condition, edition, notify>>
  /\ Finish(a, "new")
  /\ UNCHANGED <<record, tx>>

(***************************************************************************)
(* Winners set by hand: forceWinner before the draw, overrideWinner after. *)
(***************************************************************************)
ForceCheck(a, pl, p) ==
  /\ Unfinished
  /\ pl \in prizes /\ p \in joined
  /\ Begin(a, "force", [NoForm EXCEPT !.place = pl, !.person = p,
                                      !.edition = edition])

\* Who holds another place leaves it first: a winner has one place.
Placed(w, pl, p) ==
  [q \in Places |-> IF q = pl THEN p ELSE IF w[q] = p THEN NoOne ELSE w[q]]

\* Mutant: forceWinner that does not look at the status again.
ForceUnchecked(a) ==
  LET pl == form[a].place
      p  == form[a].person
  IN  /\ Free
      /\ edition = form[a].edition
      /\ winner' = Placed(winner, pl, p)
      /\ forced' = [q \in Places |-> \/ q = pl
                                     \/ forced[q] /\ winner[q] # p]
      /\ Finish(a, "force")
      /\ UNCHANGED <<row, prizes, edition, notify, pool, record, tx>>

ForceCommit(a) ==
  LET pl == form[a].place
      p  == form[a].person
  IN  /\ Free /\ Unfinished
      /\ edition = form[a].edition
      /\ winner' = Placed(winner, pl, p)
      /\ forced' = [q \in Places |-> \/ q = pl
                                     \/ forced[q] /\ winner[q] # p]
      /\ Finish(a, "force")
      /\ UNCHANGED <<row, prizes, edition, notify, pool, record, tx>>

OverrideCheck(a, pl, p) ==
  /\ status = "drawn"
  /\ pl \in prizes /\ p \in joined
  /\ Begin(a, "override", [NoForm EXCEPT !.place = pl, !.person = p])

OverrideCommit(a) ==
  LET pl == form[a].place
      p  == form[a].person
  IN  /\ Go(a, "override", "list")
      /\ winner' = Placed(winner, pl, p)
      /\ forced' = [q \in Places |-> \/ q = pl
                                     \/ forced[q] /\ winner[q] # p]
      /\ notify' = [q \in Places |-> IF q = pl \/ winner[q] = p
                                     THEN "pending" ELSE notify[q]]
      /\ journal' = Placed(journal, pl, p)
      /\ form' = [form EXCEPT ![a] = NoForm]
      /\ UNCHANGED <<row, prizes, edition, pool, log, tx, queue, persons,
                     told, crashes>>

(***************************************************************************)
(* The draw.  drawWinners fixes the forced places and draws the others     *)
(* from the rest of the pool, in the order of the places, until it is      *)
(* empty; a seed stands for any of the results it may give.                *)
(***************************************************************************)
ForcedPlaces == {pl \in prizes : forced[pl] /\ winner[pl] # NoOne}
ForcedPeople == {winner[pl] : pl \in ForcedPlaces}
OpenPlaces   == prizes \ ForcedPlaces

Draws(P) ==
  LET free == P \ ForcedPeople
  IN  {f \in [Places -> P \cup {NoOne}] :
         /\ \A pl \in Places \ prizes : f[pl] = NoOne
         /\ \A pl \in ForcedPlaces : f[pl] = winner[pl]
         /\ \A pl \in OpenPlaces :
              \/ f[pl] \in free /\ \A q \in OpenPlaces \ {pl} : f[q] # f[pl]
              \/ /\ f[pl] = NoOne
                 /\ free \subseteq {f[q] : q \in {r \in OpenPlaces : r < pl}}}

NoParticipants(P) == P = {} /\ ForcedPlaces = {}
Impossible(P) == prizes = {} \/ ~(ForcedPeople \subseteq P) \/ NoParticipants(P)

\* MAX is asked about the drawn who pressed the button and are not known yet.
ToCheck(f) ==
  {p \in People \ (byHand \cup draw.checked) :
     \E pl \in OpenPlaces : f[pl] = p}

InPool == draw.pool \ draw.out

\* A request may draw an unfinished contest, the sweep one that is due.
\* requiredChannels leaves out the channels that are not active now.
DrawCheck(a) ==
  /\ IF a = Sweep THEN status = "open" /\ deadline = "passed" ELSE Unfinished
  /\ \E active \in SUBSET condition :
       Begin(a, "draw", [NoForm EXCEPT !.condition = active])

DrawLock(a) ==
  /\ Free /\ Unfinished
  /\ lock' = a
  /\ draw' = [NoDraw EXCEPT !.pool = joined]
  /\ Go(a, "draw", "pick")
  /\ UNCHANGED <<row, places, pool, record, form, queue, persons, told, crashes>>

DrawOnly == UNCHANGED <<row, places, pool, record, lock, form, queue, persons,
                        told, crashes>>

DrawPick(a) ==
  /\ ~Impossible(InPool)
  /\ \E f \in Draws(InPool) :
       /\ draw' = [draw EXCEPT !.picks = f]
       /\ Go(a, "pick", IF form[a].condition # {} /\ ToCheck(f) # {}
                        THEN "ask" ELSE "commit")
  /\ DrawOnly

\* Mutant: a channel the bot was removed from is not noted as skipped.
DrawAskUnnoted(a) ==
  /\ Go(a, "ask", "pick")
  /\ \E gone \in SUBSET form[a].condition, left \in SUBSET ToCheck(draw.picks) :
       LET asked == form[a].condition \ gone
           found == ToCheck(draw.picks) \ left
       IN  /\ asked = {} => left = {}
           /\ draw' = [draw EXCEPT !.out = @ \cup left,
                                   !.checked = @ \cup found,
                                   !.confirmed = @ \cup (found \X asked)]
  /\ DrawOnly

\* Each channel not yet skipped is asked about those drawn.  One the bot is
\* gone from (403, 404) is skipped, now and later; who is not in one that
\* answers drops out, and the draw is repeated.
DrawAsk(a) ==
  /\ Go(a, "ask", "pick")
  /\ \E gone \in SUBSET (form[a].condition \ draw.skipped),
       left \in SUBSET ToCheck(draw.picks) :
       LET asked == form[a].condition \ (draw.skipped \cup gone)
           found == ToCheck(draw.picks) \ left
       IN  /\ asked = {} => left = {}
           /\ draw' = [draw EXCEPT !.out = @ \cup left,
                                   !.checked = @ \cup found,
                                   !.skipped = @ \cup gone,
                                   !.confirmed = @ \cup (found \X asked)]
  /\ DrawOnly

RolledBack(a, next) ==
  /\ lock' = NoOne
  /\ draw' = NoDraw
  /\ pc' = [pc EXCEPT ![a] = next]
  /\ form' = [form EXCEPT ![a] = NoForm]
  /\ UNCHANGED <<row, places, pool, record, queue, persons, told, crashes>>

\* Nobody to draw from: the sweep goes on to cancel the contest.
DrawImpossible(a) ==
  /\ pc[a] = "pick"
  /\ Impossible(InPool)
  /\ RolledBack(a, IF a = Sweep /\ prizes # {} /\ NoParticipants(InPool)
                   THEN "cancel" ELSE Over(a))

\* MAX or Postgres fails, or the transaction takes too long.
DrawFails(a) ==
  /\ pc[a] \in {"pick", "ask", "commit"}
  /\ RolledBack(a, Over(a))

DrawCommit(a) ==
  /\ Go(a, "commit", "list")
  /\ status' = "drawn"
  /\ winner' = draw.picks
  /\ forced' = [pl \in Places |-> pl \in ForcedPlaces]
  /\ log' = [pool |-> draw.pool, required |-> form[a].condition,
             skipped |-> draw.skipped, confirmed |-> draw.confirmed]
  /\ journal' = draw.picks
  /\ lock' = NoOne
  /\ draw' = NoDraw
  /\ form' = [form EXCEPT ![a] = NoForm]
  /\ UNCHANGED <<deadline, condition, prizes, edition, notify, pool, queue,
                 persons, told, crashes>>

(***************************************************************************)
(* cancelEmptyContest is one UPDATE ... WHERE open, past its end, without  *)
(* participants.  It decides by what is committed when it begins and waits *)
(* for whoever holds the row.  Then it looks again at the row, not at the  *)
(* participants.                                                           *)
(***************************************************************************)
CancelOnly == UNCHANGED <<row, places, joined, byHand, record, tx, form, queue,
                          persons, told, crashes>>

\* Mutant: participants are not looked at.
CancelDue ==
  /\ status = "open" /\ deadline = "passed"
  /\ Go(Sweep, "cancel", "cancelling")
  /\ unseen' = {}
  /\ CancelOnly

CancelSnapshot ==
  /\ status = "open" /\ deadline = "passed" /\ joined = {}
  /\ Go(Sweep, "cancel", "cancelling")
  /\ unseen' = {}
  /\ CancelOnly

CancelNothing ==
  /\ ~(status = "open" /\ deadline = "passed" /\ joined = {})
  /\ Go(Sweep, "cancel", Over(Sweep))
  /\ UNCHANGED unseen
  /\ CancelOnly

\* Mutant: nothing is ever cancelled.
CancelNever ==
  /\ Free
  /\ Finish(Sweep, "cancelling")
  /\ UNCHANGED <<row, places, pool, record, tx>>

CancelWrite ==
  /\ Free
  /\ status' = IF status = "open" /\ deadline = "passed"
               THEN "cancelled" ELSE status
  /\ Finish(Sweep, "cancelling")
  /\ UNCHANGED <<deadline, condition, places, pool, record, tx>>

(***************************************************************************)
(* Telling the winners: notifyWinners after a draw or an override, and the *)
(* bot's answer to a winner who starts it later (startedFromLink).         *)
(***************************************************************************)
TellOnly == UNCHANGED <<row, pool, record, tx, persons, crashes>>

AnnounceList(a) ==
  LET untold == {<<pl, winner[pl]>> : pl \in {q \in prizes :
                   winner[q] # NoOne /\ notify[q] = "pending"}}
  IN  /\ Go(a, "list", IF untold = {} THEN Over(a) ELSE "tell")
      /\ queue' = [queue EXCEPT ![a] = untold]
      /\ UNCHANGED <<places, form, told>>
      /\ TellOnly

\* In the order of the places.  Sent; or it failed, is turned off, or the
\* winner was typed in by hand.
AnnounceTell(a) ==
  \E t \in queue[a] :
    /\ \A u \in queue[a] : t[1] <= u[1]
    /\ Go(a, "tell", "mark")
    /\ \E result \in {"sent", "manual_required"} :
         /\ result = "sent" => t[2] \notin byHand
         /\ told' = IF result = "sent" THEN told \cup {t} ELSE told
         /\ form' = [form EXCEPT ![a] = [NoForm EXCEPT !.place = t[1],
                                                       !.result = result]]
    /\ queue' = [queue EXCEPT ![a] = @ \ {t}]
    /\ UNCHANGED places
    /\ TellOnly

\* markNotify: by the prize's id alone.
AnnounceMark(a) ==
  /\ Go(a, "mark", IF queue[a] = {} THEN Over(a) ELSE "tell")
  /\ notify' = [notify EXCEPT ![form[a].place] = form[a].result]
  /\ form' = [form EXCEPT ![a] = NoForm]
  /\ UNCHANGED <<prizes, edition, winner, forced, told, queue>>
  /\ TellOnly

LateOnly == UNCHANGED <<row, prizes, edition, winner, forced, pool, record, tx,
                        actors, joinPc, crashes>>

\* The winner starts the bot, is told what he won ...
LateTell(p) ==
  LET won == {pl \in prizes : winner[pl] = p /\ notify[pl] = "manual_required"}
  IN  /\ status = "drawn"
      /\ p \notin byHand
      /\ late[p] = {} /\ won # {}
      /\ late' = [late EXCEPT ![p] = won]
      /\ told' = told \cup (won \X {p})
      /\ UNCHANGED notify
      /\ LateOnly

\* ... and his places are marked, by their ids alone.
LateMark(p) ==
  /\ late[p] # {}
  /\ notify' = [pl \in Places |-> IF pl \in late[p] THEN "sent" ELSE notify[pl]]
  /\ late' = [late EXCEPT ![p] = {}]
  /\ UNCHANGED told
  /\ LateOnly

\* markWinnerNotified: the admin told the winner himself.
MarkByHand(a, pl) ==
  /\ "mark" \in Ops
  /\ pl \in prizes /\ winner[pl] # NoOne /\ notify[pl] = "manual_required"
  /\ notify' = [notify EXCEPT ![pl] = "notified_manually"]
  /\ Finish(a, "new")
  /\ UNCHANGED <<row, prizes, edition, winner, forced, pool, record, tx>>

(***************************************************************************)
(* Time and crashes.                                                       *)
(***************************************************************************)
EndPasses ==
  /\ deadline = "ahead"
  /\ deadline' = "passed"
  /\ UNCHANGED <<status, condition, places, pool, record, tx, actors, persons,
                 told, crashes>>

\* A transaction in progress is rolled back, nothing in memory is kept.
Crash ==
  /\ crashes < MaxCrashes
  /\ crashes' = crashes + 1
  /\ lock' = NoOne
  /\ draw' = NoDraw
  /\ pc' = [a \in Actors |-> IF pc[a] = "new" THEN "new" ELSE Over(a)]
  /\ form' = [a \in Actors |-> NoForm]
  /\ queue' = [a \in Actors |-> {}]
  /\ joinPc' = [p \in People |-> "idle"]
  /\ late' = [p \in People |-> {}]
  /\ UNCHANGED <<row, places, pool, record, told>>

(***************************************************************************)
(* The specification.                                                      *)
(***************************************************************************)
Person(p) ==
  \/ JoinCheck(p)
  \/ JoinRecord(p)
  \/ JoinRefused(p)
  \/ LateTell(p)
  \/ LateMark(p)

RefusedAdmin(a) ==
  \/ \E op \in {"add", "edit", "prizes", "draw"} : Refused(a, op, ~Unfinished)
  \/ Refused(a, "force", ~Unfinished \/ edition # form[a].edition)

Drawing(a) ==
  \/ DrawCheck(a)
  \/ DrawLock(a)
  \/ DrawPick(a)
  \/ DrawAsk(a)
  \/ DrawImpossible(a)
  \/ DrawCommit(a)
  \/ AnnounceList(a)
  \/ AnnounceTell(a)
  \/ AnnounceMark(a)

Admin(a) ==
  \/ \E p \in People : AddCheck(a, p)
  \/ AddCommit(a)
  \/ \E date \in Deadlines, subscribe \in Conditions :
       EditCheck(a, date, subscribe)
  \/ EditCommit(a)
  \/ Extend(a)
  \/ \E S \in SUBSET Places : PrizesCheck(a, S)
  \/ PrizesCommit(a)
  \/ OpenCheck(a)
  \/ OpenCommit(a)
  \/ Delete(a)
  \/ \E pl \in Places, p \in People : ForceCheck(a, pl, p)
  \/ ForceCommit(a)
  \/ \E pl \in Places, p \in People : OverrideCheck(a, pl, p)
  \/ OverrideCommit(a)
  \/ \E pl \in Places : MarkByHand(a, pl)
  \/ Drawing(a)
  \/ RefusedAdmin(a)

\* openDueContests (only drafts) and drawDueContests.
Reconciler ==
  \/ status = "draft" /\ OpenCheck(Sweep)
  \/ OpenCommit(Sweep)
  \/ Drawing(Sweep)
  \/ CancelSnapshot
  \/ CancelNothing
  \/ CancelWrite
  \/ Refused(Sweep, "draw", ~Unfinished)

Next ==
  \/ \E p \in People : Person(p)
  \/ \E a \in Admins : Admin(a)
  \/ Reconciler
  \/ \E a \in Actors : DrawFails(a)
  \/ EndPasses
  \/ Crash

Spec == Init /\ [][Next]_vars

(***************************************************************************)
(* Fairness: the sweep's timer keeps firing and a request that was started *)
(* goes on.  A draw may fail, but not for ever: MAX answers eventually.    *)
(***************************************************************************)
FairSpec ==
  /\ Spec
  /\ WF_vars(Reconciler)
  /\ SF_vars(DrawLock(Sweep))
  /\ SF_vars(DrawPick(Sweep) \/ DrawImpossible(Sweep))
  /\ SF_vars(DrawCommit(Sweep))
  /\ \A a \in Admins : WF_vars(pc[a] # "new" /\ Admin(a))

(***************************************************************************)
(* Safety.                                                                 *)
(***************************************************************************)

\* Nobody takes part beside the pool that was drawn from: the entries of the
\* database and of the log agree, although people join and admins add them
\* while a draw runs (the lock of join, addParticipantsFromText and draw).
PoolIsEveryone == status = "drawn" => joined = log.pool

\* Replaying the log gives the winners the contest shows: nothing changes a
\* place silently once the draw is done (forceWinner, setPrizes).
LogExplainsWinners == status = "drawn" => winner = journal

\* With a condition, MAX confirmed each winner the draw chose, during it, in
\* every required channel but those the log names as skipped: the log does not
\* claim what nobody checked, however often the draw was repeated.
WinnersWereChecked ==
  status = "drawn" =>
    \A pl \in prizes : winner[pl] \notin {NoOne} \cup byHand /\ ~forced[pl]
      => {winner[pl]} \X (log.required \ log.skipped) \subseteq log.confirmed

\* A contest is cancelled only past its end, however late an extension was,
\* and nobody takes part in it but who was recorded while the statement that
\* cancelled it waited.
CancelledWasEmpty ==
  status = "cancelled" => joined \subseteq unseen /\ deadline = "passed"

\* A result is final: no request or sweep opens or draws the contest again.
ResultIsFinal ==
  [][/\ status = "drawn" => status' = "drawn"
     /\ status = "cancelled" => status' \in {"cancelled", "deleted"}]_vars

(***************************************************************************)
(* Liveness.                                                               *)
(***************************************************************************)

\* A contest that is due does not wait for ever: it is drawn or cancelled,
\* unless it is put off or deleted.  (One that requires subscriptions may
\* wait for an admin, if all its participants have left the channels.)
DueContestEnds ==
  [](condition = {}) =>
    ((status = "open" /\ deadline = "passed") ~>
       (status # "open" \/ deadline # "passed" \/ prizes = {}))

(***************************************************************************)
(* What comments of the code say, and its steps do not keep (README).      *)
(***************************************************************************)

\* notifyWinners: a winner must not get lost because the bot could not write
\* to him; "sent" says that he was written to.
SentWasTold ==
  \A pl \in prizes :
    notify[pl] = "sent" /\ winner[pl] # NoOne => <<pl, winner[pl]>> \in told

\* cancelEmptyContest: its conditions are exactly "empty and past its end", no
\* participants at all.
CancelledIsEmpty == status = "cancelled" => joined = {} /\ deadline = "passed"
=============================================================================
