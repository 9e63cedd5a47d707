--------------------------- MODULE ContestProofs ---------------------------
(***************************************************************************)
(* Theorems about Contest, for every set of people, prize places and admin *)
(* requests.                                                               *)
(***************************************************************************)
EXTENDS Contest, TLAPS

USE PlacesAssumption, ActorsAssumption, NoOneAssumption, LimitsAssumption

(***************************************************************************)
(* Type correctness, together with what a form holds when it is needed.    *)
(***************************************************************************)
Asked ==
  \A a \in Actors :
    /\ pc[a] = "add"  => form[a].person \in People
    /\ pc[a] = "mark" => form[a].result # "none"

Typed == TypeOK /\ Asked

LEMMA NoFormType == NoForm \in Forms
BY DEF NoForm, Forms, Winner, Deadlines

LEMMA NoDrawType == NoDraw \in Draw
BY DEF NoDraw, Draw, Winner

LEMMA InitTyped == Init => Typed
<1> SUFFICES ASSUME Init PROVE Typed
  OBVIOUS
<1>1. NoLog \in Log
  BY DEF NoLog, Log
<1>2. NoDraw \in Draw
  BY NoDrawType
<1>3. QED
  BY <1>1, <1>2, NoFormType DEF Init, Typed, TypeOK, Asked, Winner, Deadlines, Channels, Pc

LEMMA PersonTyped ==
  ASSUME Typed, NEW p \in People, Person(p)
  PROVE  Typed'
<1> USE DEF Typed, TypeOK, Asked, PersonOnly, row, places, record, tx, actors
<1>1. CASE JoinCheck(p)
  BY <1>1 DEF JoinCheck, pool
<1>2. CASE JoinRecord(p)
  BY <1>2 DEF JoinRecord, Recorded
<1>3. CASE JoinRefused(p)
  BY <1>3 DEF JoinRefused, pool
<1>4. CASE LateTell(p)
  BY <1>4 DEF LateTell, LateOnly, pool
<1>5. CASE LateMark(p)
  BY <1>5 DEF LateMark, LateOnly, pool
<1>6. QED
  BY <1>1, <1>2, <1>3, <1>4, <1>5 DEF Person

\* A check that leads to a transaction only moves the actor and fills its form.
LEMMA BeginTyped ==
  ASSUME Typed, NEW a \in Actors, NEW op \in Pc, NEW asked \in Forms,
         op # "mark", op = "add" => asked.person \in People,
         Begin(a, op, asked)
  PROVE  Typed'
BY DEF Typed, TypeOK, Asked, Begin, Go, row, places, pool, record, tx, persons

\* The end of an operation.
LEMMA FinishTyped ==
  ASSUME Typed, NEW a \in Actors, NEW from, Finish(a, from)
  PROVE  /\ pc' \in [Actors -> Pc]
         /\ form' \in [Actors -> Forms]
         /\ Asked'
         /\ UNCHANGED <<queue, persons, told, crashes>>
BY NoFormType DEF Typed, TypeOK, Asked, Finish, Go, Over, Pc

\* What a check may keep of its arguments.
LEMMA FormTypes ==
  /\ \A p \in Winner : [NoForm EXCEPT !.person = p] \in Forms
  /\ \A date \in Deadlines, subscribe \in Conditions :
       [NoForm EXCEPT !.deadline = date, !.condition = subscribe] \in Forms
  /\ \A S \in SUBSET Places : [NoForm EXCEPT !.prizes = S] \in Forms
  /\ \A pl \in Places, p \in Winner :
       [NoForm EXCEPT !.place = pl, !.person = p] \in Forms
  /\ \A pl \in Places, p \in Winner, n \in 0 .. MaxEditions :
       [NoForm EXCEPT !.place = pl, !.person = p, !.edition = n] \in Forms
  /\ \A c \in SUBSET Channels : [NoForm EXCEPT !.condition = c] \in Forms
  /\ \A pl \in Places, r \in {"sent", "manual_required"} :
       [NoForm EXCEPT !.place = pl, !.result = r] \in Forms
<1> USE NoFormType DEF Forms
<1>1. \A p \in Winner : [NoForm EXCEPT !.person = p] \in Forms
  OBVIOUS
<1>2. \A date \in Deadlines, subscribe \in Conditions :
       [NoForm EXCEPT !.deadline = date, !.condition = subscribe] \in Forms
  BY DEF Channels
<1>3. \A S \in SUBSET Places : [NoForm EXCEPT !.prizes = S] \in Forms
  OBVIOUS
<1>4. \A pl \in Places, p \in Winner :
       [NoForm EXCEPT !.place = pl, !.person = p] \in Forms
  OBVIOUS
<1>5. \A pl \in Places, p \in Winner, n \in 0 .. MaxEditions :
       [NoForm EXCEPT !.place = pl, !.person = p, !.edition = n] \in Forms
  OBVIOUS
<1>6. \A c \in SUBSET Channels : [NoForm EXCEPT !.condition = c] \in Forms
  OBVIOUS
<1>7. \A pl \in Places, r \in {"sent", "manual_required"} :
       [NoForm EXCEPT !.place = pl, !.result = r] \in Forms
  OBVIOUS
<1>8. QED BY <1>1, <1>2, <1>3, <1>4, <1>5, <1>6, <1>7

LEMMA PlacedType ==
  ASSUME NEW w \in [Places -> Winner], NEW pl, NEW p \in Winner
  PROVE  Placed(w, pl, p) \in [Places -> Winner]
BY DEF Placed, Winner

LEMMA TermsTyped ==
  ASSUME Typed, NEW a \in Actors,
         \/ \E p \in People : AddCheck(a, p)
         \/ AddCommit(a)
         \/ \E date \in Deadlines, subscribe \in Conditions :
              EditCheck(a, date, subscribe)
         \/ EditCommit(a)
         \/ Extend(a)
         \/ \E S \in SUBSET Places : PrizesCheck(a, S)
         \/ PrizesCommit(a)
         \/ OpenCheck(a)
         \/ OpenCommit(a)
         \/ Delete(a)
  PROVE  Typed'
<1> USE DEF row, places, pool, record, tx, persons
<1>1. CASE \E p \in People : AddCheck(a, p)
  <2>1. PICK p \in People : AddCheck(a, p)
    BY <1>1
  <2>2. [NoForm EXCEPT !.person = p] \in Forms
        /\ [NoForm EXCEPT !.person = p].person = p
    BY FormTypes DEF Winner, NoForm
  <2>3. QED BY <2>1, <2>2, BeginTyped DEF AddCheck, Pc
<1>2. CASE AddCommit(a)
  <2>1. form[a].person \in People
    BY <1>2 DEF Typed, Asked, AddCommit, Finish, Go
  <2>2. QED BY <1>2, <2>1, FinishTyped DEF AddCommit, Recorded, Typed, TypeOK
<1>3. CASE \E date \in Deadlines, subscribe \in Conditions :
             EditCheck(a, date, subscribe)
  BY <1>3, FormTypes, BeginTyped DEF EditCheck, Pc
<1>4. CASE EditCommit(a)
  BY <1>4, FinishTyped DEF EditCommit, Typed, TypeOK, Forms
<1>5. CASE Extend(a)
  BY <1>5, FinishTyped DEF Extend, Typed, TypeOK, Deadlines
<1>6. CASE \E S \in SUBSET Places : PrizesCheck(a, S)
  BY <1>6, FormTypes, BeginTyped DEF PrizesCheck, Pc
<1>7. CASE PrizesCommit(a)
  BY <1>7, FinishTyped DEF PrizesCommit, Typed, TypeOK, Forms, Winner
<1>8. CASE OpenCheck(a)
  BY <1>8, NoFormType, BeginTyped DEF OpenCheck, Pc
<1>9. CASE OpenCommit(a)
  BY <1>9, FinishTyped DEF OpenCommit, Typed, TypeOK
<1>10. CASE Delete(a)
  BY <1>10, FinishTyped DEF Delete, Typed, TypeOK, Winner, Deadlines
<1>11. QED
  BY <1>1, <1>2, <1>3, <1>4, <1>5, <1>6, <1>7, <1>8, <1>9, <1>10

LEMMA WinnersTyped ==
  ASSUME Typed, NEW a \in Actors,
         \/ \E pl \in Places, p \in People : ForceCheck(a, pl, p)
         \/ ForceCommit(a)
         \/ \E pl \in Places, p \in People : OverrideCheck(a, pl, p)
         \/ OverrideCommit(a)
         \/ \E pl \in Places : MarkByHand(a, pl)
         \/ RefusedAdmin(a)
  PROVE  Typed'
<1> USE DEF row, places, pool, record, tx, persons
<1>f. form[a].person \in Winner
  BY DEF Typed, TypeOK, Forms
<1>1. CASE \E pl \in Places, p \in People : ForceCheck(a, pl, p)
  <2>1. PICK pl \in Places, p \in People : ForceCheck(a, pl, p)
    BY <1>1
  <2>2. edition \in 0 .. MaxEditions /\ p \in Winner
    BY DEF Typed, TypeOK, Winner
  <2>3. [NoForm EXCEPT !.place = pl, !.person = p, !.edition = edition] \in Forms
    BY <2>2, FormTypes
  <2>4. QED BY <2>1, <2>3, BeginTyped DEF ForceCheck, Pc
<1>2. CASE ForceCommit(a)
  <2>1. winner' \in [Places -> Winner] /\ forced' \in [Places -> BOOLEAN]
    BY <1>2, <1>f, PlacedType DEF ForceCommit, Typed, TypeOK
  <2>2. Finish(a, "force")
    BY <1>2 DEF ForceCommit
  <2>3. QED BY <1>2, <2>1, <2>2, FinishTyped DEF ForceCommit, Typed, TypeOK
<1>3. CASE \E pl \in Places, p \in People : OverrideCheck(a, pl, p)
  BY <1>3, FormTypes, BeginTyped DEF OverrideCheck, Pc, Winner
<1>4. CASE OverrideCommit(a)
  <2>1. winner' \in [Places -> Winner] /\ journal' \in [Places -> Winner]
    BY <1>4, <1>f, PlacedType DEF OverrideCommit, Typed, TypeOK
  <2>2. forced' \in [Places -> BOOLEAN]
    BY <1>4 DEF OverrideCommit
  <2>3. notify' \in [Places -> {"pending", "sent", "manual_required",
                                "notified_manually"}]
    BY <1>4 DEF OverrideCommit, Typed, TypeOK
  <2>4. form' \in [Actors -> Forms] /\ pc' \in [Actors -> Pc] /\ Asked'
    BY <1>4, NoFormType DEF OverrideCommit, Typed, TypeOK, Asked, Go, Pc
  <2>5. QED
    BY <1>4, <2>1, <2>2, <2>3, <2>4 DEF OverrideCommit, Typed, TypeOK
<1>5. CASE \E pl \in Places : MarkByHand(a, pl)
  BY <1>5, FinishTyped DEF MarkByHand, Typed, TypeOK
<1>6. CASE RefusedAdmin(a)
  <2>1. PICK op : Refused(a, op, TRUE)
    BY <1>6 DEF RefusedAdmin, Refused
  <2>2. QED BY <2>1, FinishTyped DEF Refused, Typed, TypeOK
<1>7. QED BY <1>1, <1>2, <1>3, <1>4, <1>5, <1>6

\* What MAX's answers make of a draw: the channels that are gone are skipped,
\* those found subscribed are confirmed in each channel that was asked.
Answered(gone, found, left, required) ==
  [draw EXCEPT !.out = @ \cup left,
               !.checked = @ \cup found,
               !.skipped = @ \cup gone,
               !.confirmed = @ \cup (found \X (required \ (draw.skipped \cup gone)))]

LEMMA AskAnswers ==
  ASSUME NEW a \in Actors, DrawAsk(a)
  PROVE  \E gone \in SUBSET (form[a].condition \ draw.skipped),
            found \in SUBSET ToCheck(draw.picks),
            left \in SUBSET ToCheck(draw.picks) :
           draw' = Answered(gone, found, left, form[a].condition)
<1>1. PICK gone \in SUBSET (form[a].condition \ draw.skipped),
           left \in SUBSET ToCheck(draw.picks) :
        draw' = [draw EXCEPT !.out = @ \cup left,
                             !.checked = @ \cup (ToCheck(draw.picks) \ left),
                             !.skipped = @ \cup gone,
                             !.confirmed = @ \cup
                               ((ToCheck(draw.picks) \ left)
                                 \X (form[a].condition \ (draw.skipped \cup gone)))]
  BY DEF DrawAsk
<1>2. draw' = Answered(gone, ToCheck(draw.picks) \ left, left, form[a].condition)
  BY <1>1 DEF Answered
<1>3. ToCheck(draw.picks) \ left \in SUBSET ToCheck(draw.picks)
  OBVIOUS
<1>4. QED BY <1>2, <1>3

LEMMA DrawsTyped ==
  ASSUME Typed, NEW a \in Actors, Drawing(a) \/ DrawFails(a)
  PROVE  Typed'
<1> USE DEF row, places, pool, record, tx, persons
<1>r. ASSUME NEW next \in Pc \ {"add", "mark"}, RolledBack(a, next)
      PROVE Typed'
  <2>1. NoDraw \in Draw
    BY NoDrawType
  <2>2. QED
    BY <1>r, <2>1, NoFormType DEF RolledBack, Typed, TypeOK, Asked
<1>1. CASE DrawCheck(a)
  <2>1. PICK active \in SUBSET condition :
          Begin(a, "draw", [NoForm EXCEPT !.condition = active])
    BY <1>1 DEF DrawCheck
  <2>2. active \in SUBSET Channels
    BY DEF Typed, TypeOK
  <2>3. [NoForm EXCEPT !.condition = active] \in Forms
    BY <2>2, FormTypes
  <2>4. QED BY <2>1, <2>3, BeginTyped DEF Pc
<1>2. CASE DrawLock(a)
  <2>1. draw' \in Draw
    BY <1>2, NoDrawType DEF DrawLock, Draw, Typed, TypeOK
  <2>2. QED BY <1>2, <2>1 DEF DrawLock, Go, Pc, Typed, TypeOK, Asked
<1>3. CASE DrawPick(a)
  <2>1. PICK f \in Draws(InPool) :
          /\ draw' = [draw EXCEPT !.picks = f]
          /\ Go(a, "pick", IF form[a].condition # {} /\ ToCheck(f) # {}
                           THEN "ask" ELSE "commit")
    BY <1>3 DEF DrawPick
  <2>2. f \in [Places -> Winner]
    BY DEF Draws, InPool, Winner, Draw, Typed, TypeOK
  <2>3. draw' \in Draw
    BY <2>1, <2>2 DEF Draw, Typed, TypeOK
  <2>4. QED
    BY <1>3, <2>1, <2>3 DEF DrawPick, DrawOnly, Go, Pc, Typed, TypeOK, Asked
<1>4. CASE DrawAsk(a)
  <2>1. PICK gone \in SUBSET (form[a].condition \ draw.skipped),
             found \in SUBSET ToCheck(draw.picks),
             left \in SUBSET ToCheck(draw.picks) :
          draw' = Answered(gone, found, left, form[a].condition)
    BY <1>4, AskAnswers
  <2>2. ToCheck(draw.picks) \subseteq People /\ form[a].condition \subseteq Channels
    BY DEF ToCheck, Typed, TypeOK, Forms
  <2>3. draw' \in Draw
    <3>1. found \X (form[a].condition \ (draw.skipped \cup gone))
            \subseteq People \X Channels
      BY <2>2
    <3> DEFINE c == found \X (form[a].condition \ (draw.skipped \cup gone))
    <3>2. draw' = [draw EXCEPT !.out = @ \cup left, !.checked = @ \cup found,
                               !.skipped = @ \cup gone,
                               !.confirmed = @ \cup c]
      BY <2>1 DEF Answered
    <3>3. c \subseteq People \X Channels /\ gone \subseteq Channels
      BY <3>1, <2>2
    <3> HIDE DEF c
    <3>4. draw \in Draw /\ found \subseteq People /\ left \subseteq People
      BY <2>2 DEF Typed, TypeOK
    <3>5. QED BY <3>2, <3>3, <3>4 DEF Draw
  <2>4. QED
    BY <1>4, <2>3 DEF DrawAsk, DrawOnly, Go, Pc, Typed, TypeOK, Asked
<1>5. CASE DrawImpossible(a)
  BY <1>5, <1>r DEF DrawImpossible, Over, Pc
<1>6. CASE DrawCommit(a)
  <2>1. NoDraw \in Draw
    BY NoDrawType
  <2>2. log' \in Log
    BY <1>6 DEF DrawCommit, Draw, Log, Typed, TypeOK, Forms
  <2>3. draw.picks \in [Places -> Winner]
    BY DEF Draw, Typed, TypeOK
  <2>4. QED
    BY <1>6, <2>1, <2>2, <2>3, NoFormType
       DEF DrawCommit, Go, Pc, Typed, TypeOK, Asked
<1>7. CASE AnnounceList(a)
  <2> DEFINE untold == {<<pl, winner[pl]>> : pl \in {q \in prizes :
                          winner[q] # NoOne /\ notify[q] = "pending"}}
  <2>u. \A pl \in prizes : winner[pl] # NoOne =>
          <<pl, winner[pl]>> \in Places \X People
    BY DEF Typed, TypeOK, Winner
  <2>v. untold \subseteq Places \X People
    BY <2>u
  <2>w. queue' = [queue EXCEPT ![a] = untold]
    BY <1>7 DEF AnnounceList
  <2>1. queue' \in [Actors -> SUBSET (Places \X People)]
    <3> HIDE DEF untold
    <3>1. QED BY <2>v, <2>w DEF Typed, TypeOK
  <2>2. QED
    BY <1>7, <2>1 DEF AnnounceList, TellOnly, Go, Over, Pc, Typed, TypeOK, Asked
<1>8. CASE AnnounceTell(a)
  <2>1. PICK t \in queue[a], result \in {"sent", "manual_required"} :
          /\ told' = IF result = "sent" THEN told \cup {t} ELSE told
          /\ form' = [form EXCEPT ![a] = [NoForm EXCEPT !.place = t[1],
                                                        !.result = result]]
          /\ queue' = [queue EXCEPT ![a] = @ \ {t}]
          /\ Go(a, "tell", "mark")
          /\ UNCHANGED places
          /\ TellOnly
    BY <1>8 DEF AnnounceTell
  <2>2. t \in Places \X People
    BY DEF Typed, TypeOK
  <2>3. /\ [NoForm EXCEPT !.place = t[1], !.result = result] \in Forms
        /\ [NoForm EXCEPT !.place = t[1], !.result = result].result # "none"
    BY <2>2, FormTypes DEF NoForm
  <2>4. form' \in [Actors -> Forms] /\ pc' \in [Actors -> Pc] /\ Asked'
    BY <2>1, <2>3 DEF Go, Pc, Typed, TypeOK, Asked
  <2>5. QED BY <2>1, <2>2, <2>4 DEF TellOnly, Typed, TypeOK
<1>9. CASE AnnounceMark(a)
  <2>1. form[a].result \in {"sent", "manual_required"}
    BY <1>9 DEF AnnounceMark, Go, Typed, TypeOK, Asked, Forms
  <2>2. QED
    BY <1>9, <2>1, NoFormType
       DEF AnnounceMark, TellOnly, Go, Over, Pc, Typed, TypeOK, Asked
<1>10. CASE DrawFails(a)
  BY <1>10, <1>r DEF DrawFails, Over, Pc
<1>11. QED
  BY <1>1, <1>2, <1>3, <1>4, <1>5, <1>6, <1>7, <1>8, <1>9, <1>10 DEF Drawing

LEMMA NextTyped == Typed /\ [Next]_vars => Typed'
<1> SUFFICES ASSUME Typed, [Next]_vars PROVE Typed'
  OBVIOUS
<1> USE DEF row, places, pool, record, tx, actors, persons
<1>1. ASSUME NEW p \in People, Person(p) PROVE Typed'
  BY <1>1, PersonTyped
<1>2. ASSUME NEW a \in Admins, Admin(a) PROVE Typed'
  BY <1>2, TermsTyped, WinnersTyped, DrawsTyped DEF Admin, Actors
<1>3. CASE Reconciler
  <2> Sweep \in Actors
    BY DEF Actors
  <2>1. CASE CancelSnapshot
    BY <2>1 DEF CancelSnapshot, CancelOnly, Go, Pc, Typed, TypeOK, Asked
  <2>5. CASE CancelNothing
    BY <2>5 DEF CancelNothing, CancelOnly, Go, Over, Pc, Typed, TypeOK, Asked
  <2>4. CASE CancelWrite
    BY <2>4, FinishTyped DEF CancelWrite, Typed, TypeOK
  <2>2. CASE Refused(Sweep, "draw", ~Unfinished)
    BY <2>2, FinishTyped DEF Refused, Typed, TypeOK
  <2>3. QED BY <1>3, <2>1, <2>2, <2>4, <2>5, TermsTyped, DrawsTyped DEF Reconciler
<1>4. ASSUME NEW a \in Actors, DrawFails(a) PROVE Typed'
  BY <1>4, DrawsTyped
<1>5. CASE EndPasses
  BY <1>5 DEF EndPasses, Typed, TypeOK, Asked, Deadlines
<1>6. CASE Crash
  <2>1. NoDraw \in Draw
    BY NoDrawType
  <2>2. crashes' \in 0 .. MaxCrashes
    BY <1>6 DEF Crash, Typed, TypeOK
  <2>3. pc' \in [Actors -> Pc] /\ form' \in [Actors -> Forms] /\ Asked'
    BY <1>6, NoFormType DEF Crash, Over, Pc, Asked
  <2>4. QED BY <1>6, <2>1, <2>2, <2>3 DEF Crash, Typed, TypeOK
<1>7. CASE UNCHANGED vars
  BY <1>7 DEF vars, Typed, TypeOK, Asked
<1>8. QED BY <1>1, <1>2, <1>3, <1>4, <1>5, <1>6, <1>7 DEF Next

\* TypeOK holds of every contest, whatever its people, places and requests.
THEOREM TypeCorrect == Spec => []TypeOK
<1>1. Typed => TypeOK
  BY DEF Typed
<1>2. QED BY <1>1, InitTyped, NextTyped, PTL DEF Spec

(***************************************************************************)
(* The inductive invariant.  The draw's transaction is long, so what it    *)
(* read at its start is true at its commit only because everybody else who *)
(* writes waits for the row's lock, or looks at the status again.          *)
(***************************************************************************)
InTransaction == {"pick", "ask", "commit"}

\* Where the invariant says something of an actor.
Committed == InTransaction \cup {"override", "cancelling"}

\* Whoever is inside a draw holds the row.
LockHeld == \A a \in Actors : pc[a] \in InTransaction => lock = a

\* While the row is held the contest is not finished, and the pool that was
\* read is the pool there is.
PoolKept == lock # NoOne => Unfinished /\ draw.pool = joined

\* A winner is replaced only once there are winners: a draw is never undone.
OverridesDrawn == \A a \in Actors : pc[a] = "override" => status = "drawn"

\* The draw commits when no one drawn is left to be asked about.
AllChecked ==
  \A a \in Actors : pc[a] = "commit" /\ form[a].condition # {}
                      => ToCheck(draw.picks) = {}

\* Who counts as checked was found in every channel not skipped so far.
CheckedConfirmed ==
  \A a \in Actors : pc[a] \in InTransaction =>
    draw.checked \X (form[a].condition \ draw.skipped) \subseteq draw.confirmed

\* While the cancelling statement waits, nobody takes part beside those it
\* could not see.
SnapshotTrue == pc[Sweep] = "cancelling" => joined \subseteq unseen

ContestInv ==
  /\ LockHeld
  /\ PoolKept
  /\ OverridesDrawn
  /\ AllChecked
  /\ CheckedConfirmed
  /\ SnapshotTrue
  /\ PoolIsEveryone
  /\ LogExplainsWinners
  /\ WinnersWereChecked
  /\ CancelledWasEmpty

Finality ==
  /\ status = "drawn" => status' = "drawn"
  /\ status = "cancelled" => status' \in {"cancelled", "deleted"}

LEMMA InitContest == Init => ContestInv
BY DEF Init, ContestInv, LockHeld, PoolKept, OverridesDrawn, AllChecked,
       CheckedConfirmed, SnapshotTrue, InTransaction, PoolIsEveryone,
       LogExplainsWinners, WinnersWereChecked, CancelledWasEmpty

\* A step that touches neither the contest nor a draw and starts neither an
\* override nor a transaction keeps everything.
LEMMA QuietStep ==
  ASSUME Typed, ContestInv,
         UNCHANGED <<row, prizes, winner, forced, pool, record, tx>>,
         \A a \in Actors : pc'[a] \in Committed =>
           pc'[a] = pc[a] /\ form'[a] = form[a]
  PROVE  ContestInv' /\ Finality
BY DEF ContestInv, Finality, LockHeld, PoolKept, OverridesDrawn, AllChecked,
       CheckedConfirmed, SnapshotTrue, Committed, Actors,
       InTransaction, PoolIsEveryone, LogExplainsWinners, WinnersWereChecked,
       CancelledWasEmpty, row, pool, record, tx, Unfinished, ToCheck,
       OpenPlaces, ForcedPlaces, ForcedPeople

\* A check, an end of an operation.
LEMMA BeginQuiet ==
  ASSUME Typed, ContestInv, NEW a \in Actors, NEW op, NEW asked,
         op \notin Committed, Begin(a, op, asked)
  PROVE  ContestInv' /\ Finality
<1>1. \A b \in Actors : pc'[b] \in Committed =>
           pc'[b] = pc[b] /\ form'[b] = form[b]
  BY DEF Begin, Go, Typed, TypeOK
<1>2. QED BY <1>1, QuietStep DEF Begin, places

LEMMA FinishActors ==
  ASSUME Typed, NEW a \in Actors, NEW from, Finish(a, from)
  PROVE  \A b \in Actors : pc'[b] \in Committed =>
           pc'[b] = pc[b] /\ form'[b] = form[b]
BY DEF Finish, Go, Over, Typed, TypeOK, Committed, InTransaction

\* A short transaction on a contest that is neither drawn nor being drawn.
LEMMA ShortStep ==
  ASSUME Typed, ContestInv, Free,
         status # "drawn", status' # "drawn",
         status' = "cancelled" => joined' \subseteq unseen' /\ deadline' = "passed",
         pc[Sweep] = "cancelling" => joined' \subseteq unseen',
         status = "cancelled" => status' \in {"cancelled", "deleted"},
         UNCHANGED tx,
         \A b \in Actors : pc'[b] \in Committed =>
           pc'[b] = pc[b] /\ form'[b] = form[b]
  PROVE  ContestInv' /\ Finality
<1>1. \A b \in Actors : pc[b] \notin InTransaction \cup {"override"}
  BY DEF ContestInv, LockHeld, OverridesDrawn, Free, Actors
<1>2. \A b \in Actors : pc'[b] \notin InTransaction \cup {"override"}
  BY <1>1 DEF Committed
<1>3. lock' = NoOne
  BY DEF tx, Free
<1>5. SnapshotTrue'
  BY DEF SnapshotTrue, Committed, Actors
<1>4. QED
  BY <1>2, <1>3, <1>5 DEF ContestInv, CheckedConfirmed, Finality, LockHeld, PoolKept, OverridesDrawn,
     AllChecked, InTransaction, PoolIsEveryone, LogExplainsWinners,
     WinnersWereChecked, CancelledWasEmpty

\* Whoever is recorded while the cancelling statement waits is unseen by it.
LEMMA RecordedUnseen ==
  ASSUME Typed, ContestInv, NEW p, Recorded(p), pc[Sweep] = "cancelling"
  PROVE  joined' \subseteq unseen'
BY DEF Recorded, ContestInv, SnapshotTrue

LEMMA PersonKeeps ==
  ASSUME Typed, ContestInv, NEW p \in People, Person(p)
  PROVE  ContestInv' /\ Finality
<1>1. CASE JoinRecord(p)
  <2>1. UNCHANGED <<row, tx, actors>> /\ Free /\ status = "open" /\ Recorded(p)
    BY <1>1 DEF JoinRecord, PersonOnly
  <2>2. pc[Sweep] = "cancelling" => joined' \subseteq unseen'
    BY <2>1, RecordedUnseen
  <2>3. QED BY <2>1, <2>2, ShortStep DEF row, actors
<1>2. CASE JoinCheck(p) \/ JoinRefused(p)
  BY <1>2, QuietStep DEF JoinCheck, JoinRefused, PersonOnly, places, actors
<1>3. CASE LateTell(p) \/ LateMark(p)
  BY <1>3, QuietStep DEF LateTell, LateMark, LateOnly, actors
<1>4. QED BY <1>1, <1>2, <1>3 DEF Person

LEMMA SnapshotKept ==
  ASSUME ContestInv, UNCHANGED <<joined, unseen>>, pc[Sweep] = "cancelling"
  PROVE  joined' \subseteq unseen'
BY DEF ContestInv, SnapshotTrue

LEMMA TermsKeep ==
  ASSUME Typed, ContestInv, NEW a \in Actors,
         \/ \E p \in People : AddCheck(a, p)
         \/ AddCommit(a)
         \/ \E date \in Deadlines, subscribe \in Conditions :
              EditCheck(a, date, subscribe)
         \/ EditCommit(a)
         \/ Extend(a)
         \/ \E S \in SUBSET Places : PrizesCheck(a, S)
         \/ PrizesCommit(a)
         \/ OpenCheck(a)
         \/ OpenCommit(a)
         \/ Delete(a)
  PROVE  ContestInv' /\ Finality
<1> USE FinishActors DEF row, Unfinished
<1>1. CASE \E p \in People : AddCheck(a, p)
  BY <1>1, BeginQuiet DEF AddCheck, Committed, InTransaction
<1>2. CASE AddCommit(a)
  <2>1. /\ UNCHANGED <<row, tx>> /\ Free /\ Unfinished
        /\ Recorded(form[a].person) /\ Finish(a, "add")
    BY <1>2 DEF AddCommit
  <2>2. pc[Sweep] = "cancelling" => joined' \subseteq unseen'
    BY <2>1, RecordedUnseen
  <2>3. QED BY <2>1, <2>2, ShortStep
<1>3. CASE \E date \in Deadlines, subscribe \in Conditions :
             EditCheck(a, date, subscribe)
  BY <1>3, BeginQuiet DEF EditCheck, Committed, InTransaction
<1>4. CASE EditCommit(a)
  BY <1>4, ShortStep, SnapshotKept DEF EditCommit, pool
<1>5. CASE Extend(a)
  BY <1>5, ShortStep, SnapshotKept DEF Extend, pool
<1>6. CASE \E S \in SUBSET Places : PrizesCheck(a, S)
  BY <1>6, BeginQuiet DEF PrizesCheck, Committed, InTransaction
<1>7. CASE PrizesCommit(a)
  BY <1>7, ShortStep, SnapshotKept DEF PrizesCommit, pool
<1>8. CASE OpenCheck(a)
  BY <1>8, BeginQuiet DEF OpenCheck, Committed, InTransaction
<1>9. CASE OpenCommit(a)
  <2>1. CASE status = "draft"
    BY <1>9, <2>1, ShortStep, SnapshotKept DEF OpenCommit, pool
  <2>2. CASE status # "draft"
    <3>1. UNCHANGED <<row, prizes, winner, forced, pool, record, tx>>
      BY <1>9, <2>2 DEF OpenCommit, places
    <3>2. Finish(a, "open")
      BY <1>9 DEF OpenCommit
    <3>3. QED BY <3>1, <3>2, QuietStep
  <2>3. QED BY <2>1, <2>2
<1>10. CASE Delete(a)
  BY <1>10, ShortStep DEF Delete
<1>11. QED
  BY <1>1, <1>2, <1>3, <1>4, <1>5, <1>6, <1>7, <1>8, <1>9, <1>10

LEMMA WinnersKept ==
  ASSUME Typed, ContestInv, NEW a \in Actors,
         \/ \E pl \in Places, p \in People : ForceCheck(a, pl, p)
         \/ ForceCommit(a)
         \/ \E pl \in Places, p \in People : OverrideCheck(a, pl, p)
         \/ OverrideCommit(a)
         \/ \E pl \in Places : MarkByHand(a, pl)
         \/ RefusedAdmin(a)
  PROVE  ContestInv' /\ Finality
<1> USE FinishActors
<1>1. CASE \E pl \in Places, p \in People : ForceCheck(a, pl, p)
  <2>1. PICK asked : Begin(a, "force", asked)
    BY <1>1 DEF ForceCheck
  <2>2. QED BY <2>1, BeginQuiet DEF Committed, InTransaction
<1>2. CASE ForceCommit(a)
  <2>1. Finish(a, "force") /\ Free /\ Unfinished /\ UNCHANGED <<row, pool, tx>>
    BY <1>2 DEF ForceCommit
  <2>2. QED BY <2>1, ShortStep, SnapshotKept DEF row, pool, Unfinished
<1>3. CASE \E pl \in Places, p \in People : OverrideCheck(a, pl, p)
  <2>1. PICK asked : status = "drawn" /\ Begin(a, "override", asked)
    BY <1>3 DEF OverrideCheck
  <2>2. UNCHANGED <<row, prizes, winner, forced, pool, record, tx>>
    BY <2>1 DEF Begin, places
  <2>3. lock = NoOne
    BY <2>1 DEF ContestInv, PoolKept, Unfinished
  <2>4. \A b \in Actors : pc'[b] \notin InTransaction
    BY <2>1, <2>3 DEF Begin, Go, ContestInv, LockHeld, InTransaction, Typed,
       TypeOK, Actors
  <2>6. SnapshotTrue'
    BY <2>1 DEF ContestInv, SnapshotTrue, Begin, Go, Typed, TypeOK, Actors, pool
  <2>5. QED
    BY <2>1, <2>2, <2>3, <2>4, <2>6 DEF ContestInv, Finality, CheckedConfirmed, LockHeld, PoolKept, OverridesDrawn,
       AllChecked, InTransaction, PoolIsEveryone, LogExplainsWinners,
       WinnersWereChecked, CancelledWasEmpty, row, pool, record, tx, Unfinished,
       ToCheck, OpenPlaces, ForcedPlaces
<1>4. CASE OverrideCommit(a)
  <2> DEFINE pl == form[a].place
             p  == form[a].person
  <2>1. status = "drawn" /\ status' = "drawn"
    BY <1>4 DEF OverrideCommit, ContestInv, OverridesDrawn, Go, row
  <2>2. lock = NoOne
    BY <2>1 DEF ContestInv, PoolKept, Unfinished
  <2>3. \A b \in Actors : pc'[b] \notin InTransaction
    BY <1>4, <2>2 DEF OverrideCommit, Go, ContestInv, LockHeld, InTransaction,
       Typed, TypeOK, Actors
  <2>4. /\ winner' = Placed(winner, pl, p)
        /\ journal' = Placed(journal, pl, p)
        /\ forced' = [q \in Places |-> \/ q = pl
                                       \/ forced[q] /\ winner[q] # p]
        /\ UNCHANGED <<prizes, joined, byHand, unseen, log, lock>>
    BY <1>4 DEF OverrideCommit, pool, tx
  <2>5. LogExplainsWinners'
    BY <2>1, <2>4 DEF ContestInv, LogExplainsWinners
  <2>6. WinnersWereChecked'
    <3>1. ASSUME NEW q \in prizes,
                 winner'[q] \notin {NoOne} \cup byHand, ~forced'[q]
          PROVE  {winner'[q]} \X (log.required \ log.skipped) \subseteq log.confirmed
      <4>1. q \in Places
        BY DEF Typed, TypeOK
      <4>2. q # pl /\ winner'[q] = winner[q] /\ winner[q] # p
        BY <2>4, <3>1, <4>1 DEF Placed
      <4>3. ~forced[q]
        BY <2>4, <3>1, <4>1, <4>2
      <4>4. QED
        BY <2>1, <3>1, <4>2, <4>3 DEF ContestInv, WinnersWereChecked
    <3>2. QED BY <2>4, <3>1 DEF WinnersWereChecked
  <2>8. SnapshotTrue'
    BY <1>4, <2>4 DEF ContestInv, SnapshotTrue, OverrideCommit, Go, Typed, TypeOK,
       Actors
  <2>7. QED
    BY <2>1, <2>2, <2>3, <2>4, <2>5, <2>6, <2>8
       DEF ContestInv, CheckedConfirmed, Finality, LockHeld, PoolKept, OverridesDrawn,
           AllChecked, PoolIsEveryone, CancelledWasEmpty, InTransaction
<1>5. CASE \E pl \in Places : MarkByHand(a, pl)
  BY <1>5, QuietStep DEF MarkByHand
<1>6. CASE RefusedAdmin(a)
  <2>1. PICK op : Refused(a, op, TRUE)
    BY <1>6 DEF RefusedAdmin, Refused
  <2>2. QED BY <2>1, QuietStep DEF Refused, places
<1>7. QED BY <1>1, <1>2, <1>3, <1>4, <1>5, <1>6

\* The transaction of a draw comes to nothing.
LEMMA RolledBackKeeps ==
  ASSUME Typed, ContestInv, NEW a \in Actors, NEW next,
         next \notin Committed,
         pc[a] \in InTransaction, RolledBack(a, next)
  PROVE  ContestInv' /\ Finality
<1>1. lock = a /\ lock' = NoOne
  BY DEF ContestInv, LockHeld, RolledBack
<1>2. \A b \in Actors : pc'[b] \notin InTransaction
  BY <1>1 DEF ContestInv, LockHeld, RolledBack, Committed, Typed, TypeOK
<1>3. \A b \in Actors : pc'[b] \in {"override", "cancelling"} => pc[b] = pc'[b]
  BY DEF RolledBack, Committed, Typed, TypeOK
<1>4. UNCHANGED <<status, deadline, prizes, winner, forced, joined, byHand, unseen,
                  log, journal>>
  BY DEF RolledBack, row, places, pool, record
<1>5. QED
  BY <1>1, <1>2, <1>3, <1>4 DEF ContestInv, Finality, LockHeld, PoolKept,
     OverridesDrawn, AllChecked, CheckedConfirmed, SnapshotTrue, Actors, InTransaction, PoolIsEveryone,
     LogExplainsWinners, WinnersWereChecked, CancelledWasEmpty

\* What the draw picks: its forced places keep their winners, everybody else
\* is to be asked about, was found subscribed or was typed in by hand.
LEMMA CommitKeeps ==
  ASSUME Typed, ContestInv, NEW a \in Actors, DrawCommit(a)
  PROVE  ContestInv' /\ Finality
<1>1. /\ pc[a] = "commit"
      /\ pc' = [pc EXCEPT ![a] = "list"]
      /\ status' = "drawn" /\ winner' = draw.picks /\ journal' = draw.picks
      /\ forced' = [pl \in Places |-> pl \in ForcedPlaces]
      /\ log'.pool = draw.pool /\ log'.required = form[a].condition
      /\ log'.skipped = draw.skipped /\ log'.confirmed = draw.confirmed
      /\ lock' = NoOne
      /\ UNCHANGED <<prizes, joined, byHand, unseen>>
  BY DEF DrawCommit, Go, pool
<1>2. lock = a
  BY <1>1 DEF ContestInv, LockHeld, InTransaction
<1>3. Unfinished /\ draw.pool = joined
  BY <1>2 DEF ContestInv, PoolKept, Actors
<1>4. \A b \in Actors : pc'[b] \notin InTransaction
  BY <1>1, <1>2 DEF ContestInv, LockHeld, InTransaction, Typed, TypeOK
<1>5. PoolIsEveryone'
  BY <1>1, <1>3 DEF PoolIsEveryone
<1>6. LogExplainsWinners'
  BY <1>1 DEF LogExplainsWinners
<1>7. WinnersWereChecked'
  <2>1. ASSUME NEW pl \in prizes, form[a].condition # {}, pl \notin ForcedPlaces,
               draw.picks[pl] \notin {NoOne} \cup byHand
        PROVE  draw.picks[pl] \in draw.checked
    <3>1. ToCheck(draw.picks) = {}
      BY <1>1, <2>1 DEF ContestInv, AllChecked
    <3>2. draw.picks[pl] \in People
      BY <2>1 DEF Draw, Typed, TypeOK, Winner
    <3>3. pl \in OpenPlaces
      BY <2>1 DEF OpenPlaces
    <3>4. QED BY <2>1, <3>1, <3>2, <3>3 DEF ToCheck
  <2>2. \A pl \in prizes : ~forced'[pl] => pl \notin ForcedPlaces
    BY <1>1 DEF Typed, TypeOK
  <2>3. draw.checked \X (form[a].condition \ draw.skipped) \subseteq draw.confirmed
    BY <1>1 DEF ContestInv, CheckedConfirmed, InTransaction
  <2>4. ASSUME NEW pl \in prizes, winner'[pl] \notin {NoOne} \cup byHand,
               ~forced'[pl]
        PROVE  {winner'[pl]} \X (log'.required \ log'.skipped) \subseteq log'.confirmed
    <3>1. CASE form[a].condition = {}
      BY <1>1, <3>1
    <3>2. CASE form[a].condition # {}
      <4>1. draw.picks[pl] \in draw.checked
        BY <1>1, <2>1, <2>2, <2>4, <3>2
      <4>2. QED BY <1>1, <2>3, <4>1
    <3>3. QED BY <3>1, <3>2
  <2>5. QED BY <1>1, <2>4 DEF WinnersWereChecked
<1>8. (\A b \in Actors : pc'[b] = "override" => status' = "drawn")
      /\ status' # "cancelled"
  BY <1>1
<1>10. SnapshotTrue'
  BY <1>1 DEF ContestInv, SnapshotTrue, Typed, TypeOK, Actors
<1>9. QED
  BY <1>1, <1>3, <1>4, <1>5, <1>6, <1>7, <1>8, <1>10 DEF ContestInv, CheckedConfirmed, Finality,
     LockHeld, PoolKept, OverridesDrawn, AllChecked, InTransaction,
     CancelledWasEmpty, Unfinished

LEMMA DrawsKeep ==
  ASSUME Typed, ContestInv, NEW a \in Actors, Drawing(a) \/ DrawFails(a)
  PROVE  ContestInv' /\ Finality
<1>1. CASE DrawCheck(a)
  <2>1. PICK asked : Begin(a, "draw", asked)
    BY <1>1 DEF DrawCheck
  <2>2. QED BY <2>1, BeginQuiet DEF Committed, InTransaction
<1>2. CASE DrawLock(a)
  <2>1. /\ lock = NoOne /\ Unfinished /\ lock' = a
        /\ draw'.pool = joined /\ draw'.checked = {}
        /\ pc' = [pc EXCEPT ![a] = "pick"]
        /\ UNCHANGED <<status, deadline, prizes, winner, forced, joined, byHand,
                       unseen, log, journal>>
    BY <1>2 DEF DrawLock, Free, NoDraw, Go, row, places, pool, record
  <2>2. \A b \in Actors : pc[b] \notin InTransaction \cup {"override"}
    BY <2>1 DEF ContestInv, LockHeld, OverridesDrawn, Unfinished, Actors
  <2>3. \A b \in Actors : /\ pc'[b] \in InTransaction => b = a
                          /\ pc'[b] \notin {"commit", "override"}
                          /\ pc'[b] = "cancelling" => pc[b] = "cancelling"
    BY <2>1, <2>2 DEF Typed, TypeOK, InTransaction
  <2>4. QED
    BY <2>1, <2>3 DEF ContestInv, Finality, LockHeld, PoolKept, OverridesDrawn,
       AllChecked, CheckedConfirmed, SnapshotTrue, Actors, PoolIsEveryone, LogExplainsWinners, WinnersWereChecked,
       CancelledWasEmpty, Unfinished
<1>3. CASE DrawPick(a) \/ DrawAsk(a)
  <2>1. /\ pc[a] \in {"pick", "ask"}
        /\ draw'.pool = draw.pool
        /\ UNCHANGED <<status, deadline, prizes, winner, forced, joined, byHand,
                       unseen, log, journal, lock, form>>
    BY <1>3 DEF DrawPick, DrawAsk, DrawOnly, Draw, Go, row, places, pool, record,
       Typed, TypeOK
  <2>2. lock = a
    BY <2>1 DEF ContestInv, LockHeld, InTransaction
  <2>3. \A b \in Actors \ {a} : pc[b] \notin InTransaction
    BY <2>2 DEF ContestInv, LockHeld
  <2>4. /\ \A b \in Actors : pc'[b] \in InTransaction => b = a
        /\ \A b \in Actors : pc'[b] # "override"
    <3>1. \A b \in Actors : pc[b] # "override"
      BY <2>2 DEF ContestInv, PoolKept, OverridesDrawn, Unfinished, Actors
    <3>2. PICK to : pc' = [pc EXCEPT ![a] = to] /\ to \in InTransaction
      BY <1>3 DEF DrawPick, DrawAsk, Go, InTransaction
    <3>3. QED BY <2>3, <3>1, <3>2 DEF Typed, TypeOK, InTransaction
  <2>5. pc'[a] = "commit" /\ form[a].condition # {} => ToCheck(draw.picks)' = {}
    <3>1. CASE DrawPick(a)
      <4>1. PICK f \in Draws(InPool) :
              /\ draw' = [draw EXCEPT !.picks = f]
              /\ pc' = [pc EXCEPT ![a] =
                          IF form[a].condition # {} /\ ToCheck(f) # {}
                          THEN "ask" ELSE "commit"]
        BY <3>1 DEF DrawPick, Go
      <4>2. draw'.checked = draw.checked /\ draw'.picks = f
        BY <4>1 DEF Typed, TypeOK
      <4>3. ToCheck(draw.picks)' = ToCheck(f)
        BY <2>1, <4>2 DEF ToCheck, OpenPlaces, ForcedPlaces
      <4>4. QED BY <4>1, <4>3 DEF Typed, TypeOK
    <3>2. CASE DrawAsk(a)
      BY <3>2 DEF DrawAsk, Go, Typed, TypeOK
    <3>3. QED BY <1>3, <3>1, <3>2
  <2>7. CheckedConfirmed'
    <3>1. draw.checked \X (form[a].condition \ draw.skipped) \subseteq draw.confirmed
      BY <2>1 DEF ContestInv, CheckedConfirmed, InTransaction
    <3>2. draw'.checked \X (form[a].condition \ draw'.skipped) \subseteq draw'.confirmed
      <4>1. CASE DrawPick(a)
        BY <3>1, <4>1 DEF DrawPick, Typed, TypeOK, Draw
      <4>2. CASE DrawAsk(a)
        <5>1. PICK gone, found, left :
                draw' = Answered(gone, found, left, form[a].condition)
          BY <4>2, AskAnswers
        <5>2. /\ draw'.checked = draw.checked \cup found
              /\ draw'.skipped = draw.skipped \cup gone
              /\ draw'.confirmed = draw.confirmed \cup
                   (found \X (form[a].condition \ (draw.skipped \cup gone)))
          BY <5>1 DEF Answered, Typed, TypeOK, Draw
        <5>3. QED BY <3>1, <5>2
      <4>3. QED BY <1>3, <4>1, <4>2
    <3>3. QED BY <2>1, <2>4, <3>2 DEF CheckedConfirmed
  <2>8. SnapshotTrue'
    <3>1. PICK to : pc' = [pc EXCEPT ![a] = to] /\ to \in InTransaction
      BY <1>3 DEF DrawPick, DrawAsk, Go, InTransaction
    <3>2. QED
      BY <2>1, <3>1 DEF ContestInv, SnapshotTrue, Typed, TypeOK, Actors,
         InTransaction
  <2>6. QED
    BY <2>1, <2>2, <2>4, <2>5, <2>7, <2>8 DEF ContestInv, Finality, LockHeld, PoolKept,
       OverridesDrawn, AllChecked, PoolIsEveryone, LogExplainsWinners,
       WinnersWereChecked, CancelledWasEmpty, Unfinished, InTransaction
<1>4. CASE DrawImpossible(a)
  <2>1. PICK next \in {"cancel", "new", "done"} :
          pc[a] = "pick" /\ RolledBack(a, next)
    BY <1>4 DEF DrawImpossible, Over
  <2>2. QED BY <2>1, RolledBackKeeps DEF Committed, InTransaction
<1>5. CASE DrawFails(a)
  BY <1>5, RolledBackKeeps DEF DrawFails, Over, Committed, InTransaction
<1>6. CASE DrawCommit(a)
  BY <1>6, CommitKeeps
<1>7. CASE AnnounceList(a) \/ AnnounceTell(a) \/ AnnounceMark(a)
  <2>1. UNCHANGED <<row, prizes, winner, forced, pool, record, tx>>
    BY <1>7 DEF AnnounceList, AnnounceTell, AnnounceMark, TellOnly, places
  <2>2. PICK to \in {"new", "done", "tell", "mark"} :
          pc' = [pc EXCEPT ![a] = to]
    BY <1>7 DEF AnnounceList, AnnounceTell, AnnounceMark, Go, Over
  <2>3. \A b \in Actors \ {a} : form'[b] = form[b]
    BY <1>7 DEF AnnounceList, AnnounceTell, AnnounceMark, Typed, TypeOK
  <2>4. QED BY <2>1, <2>2, <2>3, QuietStep DEF Typed, TypeOK, Committed, InTransaction
<1>8. QED BY <1>1, <1>2, <1>3, <1>4, <1>5, <1>6, <1>7 DEF Drawing

LEMMA CrashKeeps ==
  ASSUME Typed, ContestInv, Crash
  PROVE  ContestInv' /\ Finality
<1>1. \A a \in Actors : pc'[a] \notin Committed
  BY DEF Crash, Over, Committed, InTransaction
<1>2. lock' = NoOne
  BY DEF Crash
<1>3. UNCHANGED <<status, deadline, prizes, winner, forced, joined, byHand, unseen,
                  log, journal>>
  BY DEF Crash, row, places, pool, record
<1>4. QED
  BY <1>1, <1>2, <1>3 DEF ContestInv, CheckedConfirmed, SnapshotTrue, Committed, Actors, Finality, LockHeld, PoolKept,
     OverridesDrawn, AllChecked, InTransaction, PoolIsEveryone,
     LogExplainsWinners, WinnersWereChecked, CancelledWasEmpty

LEMMA ReconcilerKeeps ==
  ASSUME Typed, ContestInv, Reconciler
  PROVE  ContestInv' /\ Finality
<1> Sweep \in Actors
  BY DEF Actors
<1>1. CASE CancelSnapshot
  <2>1. /\ status = "open" /\ joined = {}
        /\ pc' = [pc EXCEPT ![Sweep] = "cancelling"]
        /\ UNCHANGED <<row, places, joined, byHand, record, tx, form>>
    BY <1>1 DEF CancelSnapshot, CancelOnly, Go
  <2>2. \A b \in Actors : pc'[b] \in InTransaction \cup {"override"} => pc'[b] = pc[b]
    BY <2>1 DEF InTransaction, Typed, TypeOK
  <2>3. QED
    BY <2>1, <2>2 DEF ContestInv, Finality, LockHeld, PoolKept, OverridesDrawn,
       AllChecked, CheckedConfirmed, SnapshotTrue, InTransaction, PoolIsEveryone,
       LogExplainsWinners, WinnersWereChecked, CancelledWasEmpty, row, places,
       record, tx, Unfinished, ToCheck, OpenPlaces, ForcedPlaces
<1>4. CASE CancelNothing
  <2>1. UNCHANGED <<row, places, pool, record, tx, form>>
        /\ pc' = [pc EXCEPT ![Sweep] = "new"]
    BY <1>4 DEF CancelNothing, CancelOnly, Go, Over, pool
  <2>2. QED BY <2>1, QuietStep DEF Typed, TypeOK, Committed, InTransaction, places
<1>5. CASE CancelWrite
  <2>1. Free /\ Finish(Sweep, "cancelling") /\ pc[Sweep] = "cancelling"
        /\ UNCHANGED <<deadline, condition, places, pool, record, tx>>
        /\ status' = IF status = "open" /\ deadline = "passed"
                     THEN "cancelled" ELSE status
    BY <1>5 DEF CancelWrite, Finish, Go
  <2>2. CASE status' # status
    <3>1. joined' \subseteq unseen'
      BY <2>1, SnapshotKept DEF pool
    <3>2. QED BY <2>1, <2>2, <3>1, ShortStep, FinishActors
  <2>3. CASE status' = status
    BY <2>1, <2>3, QuietStep, FinishActors DEF row, places
  <2>4. QED BY <2>2, <2>3
<1>2. CASE Refused(Sweep, "draw", ~Unfinished)
  BY <1>2, QuietStep, FinishActors DEF Refused, places
<1>3. QED BY <1>1, <1>2, <1>4, <1>5, TermsKeep, DrawsKeep DEF Reconciler

LEMMA EndPassesKeeps ==
  ASSUME Typed, ContestInv, EndPasses
  PROVE  ContestInv' /\ Finality
<1>1. UNCHANGED <<status, prizes, winner, forced, joined, byHand, unseen, log,
                  journal, lock, draw, pc, form>>
  BY DEF EndPasses, places, pool, record, tx, actors
<1>2. deadline' = "passed"
  BY DEF EndPasses
<1>3. QED
  BY <1>1, <1>2 DEF ContestInv, Finality, LockHeld, PoolKept, OverridesDrawn,
     AllChecked, CheckedConfirmed, SnapshotTrue, InTransaction, PoolIsEveryone, LogExplainsWinners,
     WinnersWereChecked, CancelledWasEmpty, Unfinished, ToCheck, OpenPlaces,
     ForcedPlaces

LEMMA NextKeeps == Typed /\ ContestInv /\ [Next]_vars => ContestInv' /\ Finality
<1> SUFFICES ASSUME Typed, ContestInv, [Next]_vars
             PROVE  ContestInv' /\ Finality
  OBVIOUS
<1>1. ASSUME NEW p \in People, Person(p) PROVE ContestInv' /\ Finality
  BY <1>1, PersonKeeps
<1>2. ASSUME NEW a \in Admins, Admin(a) PROVE ContestInv' /\ Finality
  BY <1>2, TermsKeep, WinnersKept, DrawsKeep DEF Admin, Actors
<1>3. ASSUME NEW a \in Actors, DrawFails(a) PROVE ContestInv' /\ Finality
  BY <1>3, DrawsKeep
<1>4. CASE UNCHANGED vars
  BY <1>4, QuietStep DEF vars, places, actors
<1>5. QED
  BY <1>1, <1>2, <1>3, <1>4, ReconcilerKeeps, EndPassesKeeps, CrashKeeps
     DEF Next

\* The invariant holds of every contest, together with its types.
THEOREM ContestInvariant == Spec => [](Typed /\ ContestInv)
<1>1. Init => Typed /\ ContestInv
  BY InitTyped, InitContest
<1>2. Typed /\ ContestInv /\ [Next]_vars => (Typed /\ ContestInv)'
  BY NextTyped, NextKeeps
<1>3. QED BY <1>1, <1>2, PTL DEF Spec

\* The pool that was drawn from is everybody who takes part: no entry slips in
\* between the draw's reading of the participants and its commit, or after it.
THEOREM DrawnPoolIsComplete == Spec => []PoolIsEveryone
<1>1. ContestInv => PoolIsEveryone
  BY DEF ContestInv
<1>2. QED BY <1>1, ContestInvariant, PTL

\* The log explains the winners: once the draw is done no place changes its
\* winner but by an override, which is logged.
THEOREM LogIsTrue == Spec => []LogExplainsWinners
<1>1. ContestInv => LogExplainsWinners
  BY DEF ContestInv
<1>2. QED BY <1>1, ContestInvariant, PTL

\* MAX confirmed every winner the draw itself chose, in each required channel
\* the log does not name as skipped, however often the draw had to be repeated
\* and whatever channel the bot was removed from meanwhile.
THEOREM WinnersAreSubscribed == Spec => []WinnersWereChecked
<1>1. ContestInv => WinnersWereChecked
  BY DEF ContestInv
<1>2. QED BY <1>1, ContestInvariant, PTL

\* A contest is cancelled only past its end, and nobody takes part in it but
\* those recorded while the cancelling statement was under way: it had found
\* the contest empty, and nobody joins afterwards.
THEOREM CancelledFoundEmpty == Spec => []CancelledWasEmpty
<1>1. ContestInv => CancelledWasEmpty
  BY DEF ContestInv
<1>2. QED BY <1>1, ContestInvariant, PTL

\* A finished contest is not opened, drawn or cancelled again by any step.
THEOREM ResultsAreFinal == Spec => ResultIsFinal
<1>1. Typed /\ ContestInv /\ [Next]_vars => [Finality]_vars
  BY NextKeeps
<1>2. [Finality]_vars =>
        [/\ status = "drawn" => status' = "drawn"
         /\ status = "cancelled" => status' \in {"cancelled", "deleted"}]_vars
  BY DEF Finality
<1>3. QED BY <1>1, <1>2, ContestInvariant, PTL DEF Spec, ResultIsFinal
=============================================================================
