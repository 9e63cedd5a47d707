------------------------- MODULE AnnouncementProofs -------------------------
(***************************************************************************)
(* Theorems about Announcement, for any number of messages, joins, edits   *)
(* and faults: the types, and that the results stay on every message once  *)
(* the contest is over.                                                    *)
(***************************************************************************)
EXTENDS Announcement, FiniteSetTheorems, TLAPS

USE MessagesAssumption, FaultsAssumption, JoinsAssumption

-----------------------------------------------------------------------------
\* The notifier runs once, after the end, with the view of an ended contest.
SwapRuns ==
  /\ swap.step \in {"idle", "view", "write", "done"}
  /\ ended <=> swap.step # "idle"
  /\ swap.step = "write" => swap.view.ended

\* Who rewrites, rewrites messages that are sent; and a message that is being
\* sent shows what was read of the contest, for nobody else can reach it.
OnlySentAreRewritten ==
  /\ pass.left \subseteq sent /\ swap.left \subseteq sent
  /\ \A e \in Edits : edit[e].left \subseteq sent
  /\ \A m \in Messages : sending[m] # "no" => m \notin sent
  /\ \A m \in Messages : sending[m] = "sent" => shown[m].ended = base[m]

\* Once the notifier took its view, no edit and no delivery has an older one,
\* unless one had it then.
NoOldViews == (ended /\ swap.step # "view") => late \/ ~HoldsOldView

\* Somebody will still write the results to a message, or ask for them.
Pending(m) ==
  \/ swap.step = "view"
  \/ swap.step = "write" /\ m \in swap.left
  \/ \E j \in Joins : pc[j] \in {"asks", "redraw"}
  \/ again
  \/ pass.step \in {"view", "ask"}
  \/ pass.step \in {"write", "next"} /\ ~pass.view.ended
  \/ pass.step = "write" /\ m \in pass.left
  \/ pass.step = "answered" /\ answer

\* A message that is sent shows the results, or missed its last rewrite, or is
\* still to be written.
Fixed(m) == shown[m].ended \/ failed[m] \/ Pending(m)
AllFixed == (ended /\ ~late /\ ~forgot) => \A m \in sent : Fixed(m)

ResultsInv == TypeOK /\ SwapRuns /\ OnlySentAreRewritten /\ NoOldViews /\ AllFixed

(***************************************************************************)
(* Type correctness.                                                       *)
(***************************************************************************)
LEMMA CountsTyped ==
  /\ Cardinality(Joins) \in Nat
  /\ \A S \in SUBSET Joins : Cardinality(S) \in 0 .. Cardinality(Joins)
<1>1. IsFiniteSet(Joins)
  BY FS_Union DEF Joins
<1>2. Cardinality(Joins) \in Nat
  BY <1>1, FS_CardinalityType
<1>3. ASSUME NEW S \in SUBSET Joins PROVE Cardinality(S) \in 0 .. Cardinality(Joins)
  <2>1. IsFiniteSet(S) /\ Cardinality(S) <= Cardinality(Joins)
    BY <1>1, FS_Subset
  <2>2. Cardinality(S) \in Nat
    BY <2>1, FS_CardinalityType
  <2>. QED
    BY <1>2, <2>1, <2>2
<1>. QED
  BY <1>2, <1>3

\* Views and the rewritings of them.
LEMMA ViewsTyped ==
  ASSUME TypeOK
  PROVE  /\ \A b \in BOOLEAN : ViewOf(b) \in Views /\ ViewOf(b).ended = b
         /\ View \in Views /\ View.ended = ended
         /\ Refreshed \in Rewriting
         /\ Refreshed.step = "write" /\ Refreshed.view = View /\ Refreshed.left = sent
         /\ \A step \in Steps :
              /\ At(step) \in Rewriting /\ At(step).step = step /\ At(step).left = {}
              /\ At(step).view.ended = FALSE /\ At(step).view \in Views
         /\ [ended |-> FALSE, count |-> 0] \in Views
<1>1. joined \in SUBSET Joins /\ ended \in BOOLEAN /\ sent \in SUBSET Messages
  BY DEF TypeOK
<1>2. Cardinality(joined) \in 0 .. Cardinality(Joins) /\ Cardinality(Joins) \in Nat
  BY <1>1, CountsTyped
<1>3. \A b \in BOOLEAN : ViewOf(b) \in Views /\ ViewOf(b).ended = b
  BY <1>2 DEF ViewOf, Views
<1>4. View \in Views /\ View.ended = ended
  BY <1>1, <1>3 DEF View
<1>5. /\ Refreshed \in Rewriting
      /\ Refreshed.step = "write" /\ Refreshed.view = View /\ Refreshed.left = sent
  BY <1>1, <1>4 DEF Refreshed, Rewriting, Steps
<1>6. [ended |-> FALSE, count |-> 0] \in Views
  BY <1>2 DEF Views
<1>7. ASSUME NEW step \in Steps
      PROVE  /\ At(step) \in Rewriting /\ At(step).step = step /\ At(step).left = {}
             /\ At(step).view.ended = FALSE /\ At(step).view \in Views
  BY <1>6 DEF At, Rewriting
<1>. QED
  BY <1>3, <1>4, <1>5, <1>6, <1>7

LEMMA WithoutTyped ==
  ASSUME NEW rw \in Rewriting, NEW m, NEW next \in Rewriting
  PROVE  /\ Without(rw, m, next) \in Rewriting
         /\ \/ Without(rw, m, next) = next /\ rw.left = {m}
            \/ /\ Without(rw, m, next).step = rw.step /\ Without(rw, m, next).view = rw.view
               /\ Without(rw, m, next).left = rw.left \ {m}
BY DEF Without, Rewriting

\* A step that shows nothing new: the failures it adds are all it changes.
ShowsNothing ==
  /\ shown' = shown /\ failed' \in [Messages -> BOOLEAN] /\ faults' \in 0 .. MaxFaults
  /\ \A m \in Messages : failed[m] => failed'[m]

LEMMA MissedTyped ==
  ASSUME TypeOK, NEW some, Missed(some)
  PROVE  ShowsNothing /\ \A m \in Messages : failed'[m] <=> failed[m] \/ m \in some
<1>1. failed \in [Messages -> BOOLEAN] /\ faults \in 0 .. MaxFaults
  BY Zenon DEF TypeOK
<1>2. /\ faults < MaxFaults /\ faults' = faults + 1 /\ shown' = shown
      /\ failed' = [m \in Messages |-> failed[m] \/ m \in some]
  BY DEF Missed
<1>3. faults' \in 0 .. MaxFaults
  BY <1>1, <1>2
<1>4. failed' \in [Messages -> BOOLEAN]
  <2>1. \A m \in Messages : (failed[m] \/ m \in some) \in BOOLEAN
    OBVIOUS
  <2>. QED
    BY <1>2, <2>1, Zenon
<1>5. \A m \in Messages : failed'[m] <=> failed[m] \/ m \in some
  BY <1>2, Zenon
<1>. QED
  BY <1>2, <1>3, <1>4, <1>5 DEF ShowsNothing

LEMMA UnchangedShowsNothing ==
  ASSUME TypeOK, UNCHANGED <<shown, failed, faults>>
  PROVE  ShowsNothing
BY DEF TypeOK, ShowsNothing

\* A wrong answer is a rewrite missed.
LEMMA AskedTyped ==
  ASSUME TypeOK, NEW says, Asked(says)
  PROVE  /\ ShowsNothing /\ says \in BOOLEAN
         /\ ended => says \/ \A m \in sent : failed'[m]
<1>1. ended \in BOOLEAN /\ sent \subseteq Messages
  BY DEF TypeOK
<1>2. CASE says = ended /\ UNCHANGED <<shown, failed, faults>>
  BY <1>1, <1>2, UnchangedShowsNothing
<1>3. CASE says = FALSE /\ Missed(IF ended THEN sent ELSE {})
  BY <1>1, <1>3, MissedTyped
<1>. QED
  BY <1>2, <1>3 DEF Asked

LEMMA RewriteTyped ==
  ASSUME TypeOK, NEW m \in Messages, NEW v \in Views, Rewrite(m, v)
  PROVE  /\ shown' \in [Messages -> Views] /\ failed' \in [Messages -> BOOLEAN]
         /\ faults' \in 0 .. MaxFaults
         /\ \A n \in Messages \ {m} : shown'[n] = shown[n] /\ failed'[n] = failed[n]
         /\ shown'[m] = v \/ failed'[m]
         /\ shown'[m] = v \/ shown'[m] = shown[m]
<1>1. /\ shown \in [Messages -> Views] /\ failed \in [Messages -> BOOLEAN]
      /\ faults \in 0 .. MaxFaults
  BY Zenon DEF TypeOK
<1>2. CASE /\ shown' = [shown EXCEPT ![m] = v] /\ failed' = [failed EXCEPT ![m] = FALSE]
           /\ UNCHANGED faults
  <2>1. shown' \in [Messages -> Views] /\ shown'[m] = v
        /\ \A n \in Messages \ {m} : shown'[n] = shown[n]
    BY <1>1, <1>2
  <2>2. failed' \in [Messages -> BOOLEAN] /\ \A n \in Messages \ {m} : failed'[n] = failed[n]
    BY <1>1, <1>2
  <2>. QED
    BY <1>1, <1>2, <2>1, <2>2
<1>3. CASE Missed({m})
  <2>1. ShowsNothing /\ \A n \in Messages : failed'[n] <=> failed[n] \/ n \in {m}
    BY <1>3, MissedTyped
  <2>2. failed' \in [Messages -> BOOLEAN] /\ failed'[m]
    BY <2>1 DEF ShowsNothing
  <2>3. \A n \in Messages \ {m} : failed'[n] = failed[n]
    BY <1>1, <2>1, <2>2
  <2>. QED
    BY <1>1, <2>1, <2>2, <2>3 DEF ShowsNothing
<1>. QED
  BY <1>2, <1>3 DEF Rewrite

LEMMA AtStart == Init => TypeOK /\ SwapRuns /\ OnlySentAreRewritten /\ NoOldViews /\ AllFixed
<1>. SUFFICES ASSUME Init
              PROVE  TypeOK /\ SwapRuns /\ OnlySentAreRewritten /\ NoOldViews /\ AllFixed
  OBVIOUS
<1>. USE DEF Init
<1>1. Cardinality(Joins) \in Nat
  BY CountsTyped
<1>2. [ended |-> FALSE, count |-> 0] \in Views
  BY <1>1 DEF Views
<1>3. At("idle") \in Rewriting /\ At("idle").step = "idle" /\ At("idle").left = {}
  BY <1>2 DEF At, Rewriting, Steps
<1>4. TypeOK
  <2>1. shown \in [Messages -> Views] /\ view \in [Joins -> Views]
    BY <1>2, Zenon
  <2>2. failed \in [Messages -> BOOLEAN] /\ base \in [Messages -> BOOLEAN]
    BY Zenon
  <2>3. /\ pc \in [Joins -> {"new", "record", "view", "answer", "asks", "redraw", "done"}]
        /\ sending \in [Messages -> {"no", "read", "sent"}]
    OBVIOUS
  <2>4. pass \in Rewriting /\ swap \in Rewriting /\ edit \in [Edits -> Rewriting]
    BY <1>3, Zenon
  <2>5. /\ ended \in BOOLEAN /\ joined \subseteq Joins /\ sent \subseteq Messages
        /\ again \in BOOLEAN /\ answer \in BOOLEAN /\ ~again
        /\ late \in BOOLEAN /\ forgot \in BOOLEAN
    BY Zenon
  <2>6. faults \in 0 .. MaxFaults
    OBVIOUS
  <2>. QED
    BY <2>1, <2>2, <2>3, <2>4, <2>5, <2>6, Zenon DEF TypeOK
<1>5. SwapRuns /\ NoOldViews /\ AllFixed
  BY <1>3 DEF SwapRuns, NoOldViews, AllFixed
<1>6. OnlySentAreRewritten
  BY <1>3 DEF OnlySentAreRewritten
<1>. QED
  BY <1>4, <1>5, <1>6

\* What a handler of a join leaves alone, and where it may get to.
LEMMA JoinMoves ==
  ASSUME TypeOK, NEW j \in Joins, Join(j)
  PROVE  /\ UNCHANGED <<ended, sent, sending, base, swap, edit, late, forgot, answer>>
         /\ pc' \in [Joins -> {"new", "record", "view", "answer", "asks", "redraw", "done"}]
         /\ \A i \in Joins \ {j} : pc'[i] = pc[i]
         /\ view' \in [Joins -> Views] /\ joined' \subseteq Joins
<1>. DEFINE PCs == {"new", "record", "view", "answer", "asks", "redraw", "done"}
<1>1. /\ pc \in [Joins -> PCs] /\ view \in [Joins -> Views] /\ joined \subseteq Joins
      /\ ended \in BOOLEAN
  BY Zenon DEF TypeOK
<1>2. \A from, to \in PCs : MoveJoin(j, from, to) =>
        pc' \in [Joins -> PCs] /\ \A i \in Joins \ {j} : pc'[i] = pc[i]
  BY <1>1 DEF MoveJoin
<1>3. CASE JoinRead(j)
  <2>. DEFINE to == IF ~ended THEN "record" ELSE IF j \in Presses THEN "view" ELSE "done"
  <2>1. /\ UNCHANGED <<joined, answer, forgot>> /\ JoinOnly /\ MoveJoin(j, "new", to)
        /\ view' = [view EXCEPT ![j].ended = ended]
    BY <1>3 DEF JoinRead, redraw
  <2>2. to \in PCs
    OBVIOUS
  <2>. HIDE DEF to
  <2>3. view' \in [Joins -> Views]
    <3>1. [view[j] EXCEPT !.ended = ended] \in Views
      BY <1>1 DEF Views
    <3>. QED
      BY <1>1, <2>1, <3>1
  <2>. QED
    BY <1>1, <1>2, <2>1, <2>2, <2>3 DEF JoinOnly, sender
<1>4. CASE JoinRecord(j)
  <2>1. UNCHANGED <<view, answer, forgot>> /\ JoinOnly /\ joined' \in {joined, joined \cup {j}}
    BY <1>4, Zenon DEF JoinRecord, redraw
  <2>2. \E to \in PCs : MoveJoin(j, "record", to)
    BY <1>4 DEF JoinRecord
  <2>. QED
    BY <1>1, <1>2, <2>1, <2>2 DEF JoinOnly, sender
<1>5. CASE JoinView(j)
  <2>1. /\ UNCHANGED <<joined, answer, forgot>> /\ JoinOnly /\ MoveJoin(j, "view", "answer")
        /\ view' = [view EXCEPT ![j] = ViewOf(view[j].ended)]
    BY <1>5 DEF JoinView, redraw
  <2>2. ViewOf(view[j].ended) \in Views
    BY <1>1, ViewsTyped DEF Views
  <2>3. view' \in [Joins -> Views]
    BY <1>1, <2>1, <2>2, Zenon
  <2>. QED
    BY <1>1, <1>2, <2>1, <2>3 DEF JoinOnly, sender
<1>6. ASSUME NEW m \in Messages, JoinAnswer(j, m)
      PROVE  /\ UNCHANGED <<joined, answer, forgot>> /\ JoinOnly
             /\ \E to \in PCs : MoveJoin(j, "answer", to)
             /\ view' \in [Joins -> Views]
  <2>1. At("idle").view \in Views
    BY ViewsTyped DEF Steps
  <2>2. view' = [view EXCEPT ![j] = At("idle").view]
    BY <1>6 DEF JoinAnswer
  <2>. QED
    BY <1>1, <1>6, <2>1, <2>2 DEF JoinAnswer, redraw
<1>7. CASE JoinAsks(j) \/ JoinRedraws(j) \/ JoinFails(j)
  <2>1. UNCHANGED <<joined, view, answer, forgot>> /\ JoinOnly
    BY <1>7 DEF JoinAsks, JoinRedraws, JoinFails, redraw
  <2>2. \E from, to \in PCs : MoveJoin(j, from, to)
    BY <1>7 DEF JoinAsks, JoinRedraws, JoinFails, MoveJoin
  <2>. QED
    BY <1>1, <1>2, <2>1, <2>2 DEF JoinOnly, sender
<1>8. ASSUME NEW m \in Messages, JoinAnswer(j, m)
      PROVE  /\ UNCHANGED <<ended, sent, sending, base, swap, edit, late, forgot, answer>>
             /\ pc' \in [Joins -> PCs] /\ \A i \in Joins \ {j} : pc'[i] = pc[i]
             /\ view' \in [Joins -> Views] /\ joined' \subseteq Joins
  BY <1>1, <1>2, <1>6, <1>8 DEF JoinOnly, sender
<1>. QED
  BY <1>3, <1>4, <1>5, <1>7, <1>8, Zenon DEF Join

\* What it does to the messages and to the redraw.
LEMMA JoinDoes ==
  ASSUME TypeOK, NEW j \in Joins, Join(j)
  PROVE  \/ ShowsNothing /\ UNCHANGED <<pass, again>>
         \/ /\ \E m \in sent : Rewrite(m, view[j])
            /\ pc'[j] = (IF view[j].ended THEN "done" ELSE "asks")
            /\ UNCHANGED <<pass, again>>
         \/ /\ UNCHANGED <<shown, failed, faults>>
            /\ \/ pass.step = "idle" /\ pass' = At("view") /\ again' = FALSE
               \/ pass.step # "idle" /\ again' = TRUE /\ UNCHANGED pass
<1>1. ASSUME JoinRead(j) \/ JoinRecord(j) \/ JoinView(j) \/ JoinFails(j) \/ JoinAsks(j)
      PROVE  ShowsNothing /\ UNCHANGED <<pass, again>>
  <2>1. UNCHANGED <<pass, again>>
    BY <1>1 DEF JoinRead, JoinRecord, JoinView, JoinFails, JoinAsks, redraw
  <2>2. CASE JoinRead(j) \/ JoinRecord(j) \/ JoinView(j)
    BY <2>1, <2>2, UnchangedShowsNothing DEF JoinRead, JoinRecord, JoinView
  <2>3. CASE JoinFails(j)
    BY <2>1, <2>3, MissedTyped DEF JoinFails
  <2>4. CASE JoinAsks(j)
    BY <2>1, <2>4, AskedTyped DEF JoinAsks
  <2>. QED
    BY <1>1, <2>2, <2>3, <2>4
<1>2. ASSUME NEW m \in Messages, JoinAnswer(j, m)
      PROVE  /\ m \in sent /\ Rewrite(m, view[j]) /\ UNCHANGED <<pass, again>>
             /\ pc'[j] = (IF view[j].ended THEN "done" ELSE "asks")
  <2>1. pc \in [Joins -> {"new", "record", "view", "answer", "asks", "redraw", "done"}]
    BY DEF TypeOK
  <2>. QED
    BY <1>2, <2>1 DEF JoinAnswer, MoveJoin, redraw
<1>3. JoinRedraws(j) =>
        /\ UNCHANGED <<shown, failed, faults>>
        /\ \/ pass.step = "idle" /\ pass' = At("view") /\ again' = FALSE
           \/ pass.step # "idle" /\ again' = TRUE /\ UNCHANGED pass
  BY DEF JoinRedraws
<1>. QED
  BY <1>1, <1>2, <1>3, Zenon DEF Join

LEMMA JoinTyped ==
  ASSUME TypeOK, NEW j \in Joins, Join(j)
  PROVE  TypeOK'
<1>1. /\ UNCHANGED <<ended, sent, sending, base, swap, edit, late, forgot, answer>>
      /\ pc' \in [Joins -> {"new", "record", "view", "answer", "asks", "redraw", "done"}]
      /\ view' \in [Joins -> Views] /\ joined' \subseteq Joins
  BY JoinMoves
<1>2. /\ ended \in BOOLEAN /\ sent \subseteq Messages
      /\ sending \in [Messages -> {"no", "read", "sent"}] /\ base \in [Messages -> BOOLEAN]
      /\ pass \in Rewriting /\ swap \in Rewriting /\ edit \in [Edits -> Rewriting]
      /\ again \in BOOLEAN /\ answer \in BOOLEAN /\ (again => pass.step # "idle")
      /\ late \in BOOLEAN /\ forgot \in BOOLEAN
  BY Zenon DEF TypeOK
<1>3. /\ shown \in [Messages -> Views] /\ failed \in [Messages -> BOOLEAN]
      /\ faults \in 0 .. MaxFaults /\ view[j] \in Views
  BY Zenon DEF TypeOK
<1>4. /\ shown' \in [Messages -> Views] /\ failed' \in [Messages -> BOOLEAN]
      /\ faults' \in 0 .. MaxFaults
  BY <1>2, <1>3, JoinDoes, RewriteTyped DEF ShowsNothing
<1>5. pass' \in Rewriting /\ again' \in BOOLEAN /\ (again' => pass'.step # "idle")
  BY <1>2, JoinDoes, ViewsTyped DEF Steps
<1>. QED
  BY <1>1, <1>2, <1>4, <1>5, Zenon DEF TypeOK

LEMMA PassTyped ==
  ASSUME TypeOK, Pass
  PROVE  TypeOK'
<1>1. /\ ended \in BOOLEAN /\ joined \subseteq Joins /\ sent \subseteq Messages
      /\ pc \in [Joins -> {"new", "record", "view", "answer", "asks", "redraw", "done"}]
      /\ view \in [Joins -> Views]
      /\ sending \in [Messages -> {"no", "read", "sent"}] /\ base \in [Messages -> BOOLEAN]
      /\ swap \in Rewriting /\ edit \in [Edits -> Rewriting] /\ late \in BOOLEAN
  BY Zenon DEF TypeOK
<1>2. /\ pass \in Rewriting /\ again \in BOOLEAN /\ answer \in BOOLEAN
      /\ (again => pass.step # "idle") /\ forgot \in BOOLEAN
  BY Zenon DEF TypeOK
<1>3. /\ shown \in [Messages -> Views] /\ failed \in [Messages -> BOOLEAN]
      /\ faults \in 0 .. MaxFaults
  BY Zenon DEF TypeOK
<1>4. PassOnly
  BY DEF Pass, PassView, PassWrite, PassNext, PassAsks, PassAnswered
<1>5. ASSUME pass' \in Rewriting, again' \in BOOLEAN, answer' \in BOOLEAN,
             again' => pass'.step # "idle", forgot' \in BOOLEAN,
             shown' \in [Messages -> Views], failed' \in [Messages -> BOOLEAN],
             faults' \in 0 .. MaxFaults
      PROVE  TypeOK'
  BY <1>1, <1>4, <1>5 DEF TypeOK, PassOnly, joins, sender
<1>6. CASE PassView
  <2>1. /\ again' = FALSE /\ UNCHANGED <<answer, forgot>>
        /\ \/ pass' = At("idle")
           \/ pass' = [Refreshed EXCEPT !.step = IF sent = {} THEN "next" ELSE @]
    BY <1>6 DEF PassView
  <2>2. pass' \in Rewriting
    BY <2>1, ViewsTyped DEF Rewriting, Steps
  <2>3. ShowsNothing
    BY <1>6, MissedTyped, UnchangedShowsNothing DEF PassView, PassQuiet
  <2>. QED
    BY <1>2, <1>3, <1>5, <2>1, <2>2, <2>3 DEF ShowsNothing
<1>7. ASSUME NEW m \in Messages, PassWrite(m) PROVE TypeOK'
  <2>. DEFINE next == [pass EXCEPT !.left = {}, !.step = "next"]
  <2>1. /\ pass.step = "write" /\ Rewrite(m, pass.view) /\ pass' = Without(pass, m, next)
        /\ UNCHANGED <<again, answer, forgot>>
    BY <1>7 DEF PassWrite
  <2>2. next \in Rewriting /\ next.step = "next" /\ pass.view \in Views
    BY <1>2 DEF Rewriting, Steps
  <2>. HIDE DEF next
  <2>3. pass' \in Rewriting /\ pass'.step # "idle"
    BY <1>2, <2>1, <2>2, WithoutTyped
  <2>. QED
    BY <1>2, <1>5, <2>1, <2>2, <2>3, RewriteTyped
<1>8. CASE PassNext
  <2>1. /\ pass.step = "next" /\ UNCHANGED <<again, answer, forgot, shown, failed, faults>>
        /\ \/ again /\ pass' = At("view")
           \/ ~again /\ pass' = At("idle")
           \/ pass' = [pass EXCEPT !.step = "ask"]
    BY <1>8 DEF PassNext, PassQuiet
  <2>2. pass' \in Rewriting /\ (again => pass'.step # "idle")
    BY <1>2, <2>1, ViewsTyped DEF Rewriting, Steps
  <2>. QED
    BY <1>2, <1>3, <1>5, <2>1, <2>2
<1>9. CASE PassAsks
  <2>1. /\ pass' = [pass EXCEPT !.step = "answered"] /\ answer' \in BOOLEAN
        /\ UNCHANGED <<again, forgot>>
    BY <1>9 DEF PassAsks
  <2>2. pass' \in Rewriting /\ pass'.step = "answered"
    BY <1>2, <2>1 DEF Rewriting, Steps
  <2>3. ShowsNothing
    BY <1>9, AskedTyped DEF PassAsks
  <2>. QED
    BY <1>1, <1>2, <1>3, <1>5, <2>1, <2>2, <2>3 DEF ShowsNothing
<1>10. CASE PassAnswered
  <2>1. /\ again' = answer /\ answer' = FALSE /\ forgot' = (forgot \/ (again /\ ~answer))
        /\ pass' = (IF answer THEN At("view") ELSE At("idle"))
        /\ UNCHANGED <<shown, failed, faults>>
    BY <1>10 DEF PassAnswered, PassQuiet
  <2>2. pass' \in Rewriting /\ (again' => pass'.step # "idle")
    BY <2>1, ViewsTyped DEF Steps
  <2>. QED
    BY <1>2, <1>3, <1>5, <2>1, <2>2
<1>. QED
  BY <1>6, <1>7, <1>8, <1>9, <1>10 DEF Pass

LEMMA SwapTyped ==
  ASSUME TypeOK, End \/ Swap
  PROVE  TypeOK'
<1>1. /\ joined \subseteq Joins /\ sent \subseteq Messages
      /\ pc \in [Joins -> {"new", "record", "view", "answer", "asks", "redraw", "done"}]
      /\ view \in [Joins -> Views]
      /\ sending \in [Messages -> {"no", "read", "sent"}] /\ base \in [Messages -> BOOLEAN]
      /\ pass \in Rewriting /\ again \in BOOLEAN /\ answer \in BOOLEAN
      /\ (again => pass.step # "idle") /\ edit \in [Edits -> Rewriting] /\ forgot \in BOOLEAN
  BY Zenon DEF TypeOK
<1>2. swap \in Rewriting /\ ended \in BOOLEAN /\ late \in BOOLEAN
  BY Zenon DEF TypeOK
<1>3. /\ shown \in [Messages -> Views] /\ failed \in [Messages -> BOOLEAN]
      /\ faults \in 0 .. MaxFaults
  BY Zenon DEF TypeOK
<1>4. SwapOnly
  BY DEF End, Swap, SwapView, SwapWrite
<1>5. ASSUME swap' \in Rewriting, ended' \in BOOLEAN, late' \in BOOLEAN,
             shown' \in [Messages -> Views], failed' \in [Messages -> BOOLEAN],
             faults' \in 0 .. MaxFaults
      PROVE  TypeOK'
  BY <1>1, <1>4, <1>5 DEF TypeOK, SwapOnly, joins, sender, redraw
<1>6. CASE End
  BY <1>2, <1>3, <1>5, <1>6, ViewsTyped DEF End, Steps
<1>7. CASE SwapView
  <2>1. late' = (late \/ HoldsOldView) /\ UNCHANGED ended
        /\ (swap' = At("done") \/ swap' = Refreshed)
    BY <1>7 DEF SwapView
  <2>2. late' \in BOOLEAN
    BY <1>2, <2>1
  <2>3. ShowsNothing
    BY <1>7, MissedTyped, UnchangedShowsNothing DEF SwapView
  <2>. QED
    BY <1>2, <1>3, <1>5, <2>1, <2>2, <2>3, ViewsTyped DEF Steps, ShowsNothing
<1>8. ASSUME NEW m \in Messages, SwapWrite(m) PROVE TypeOK'
  <2>1. /\ Rewrite(m, swap.view) /\ swap' = Without(swap, m, At("done"))
        /\ UNCHANGED <<ended, late>> /\ swap.view \in Views
    BY <1>2, <1>8 DEF SwapWrite, Rewriting
  <2>2. swap' \in Rewriting
    BY <1>2, <2>1, WithoutTyped, ViewsTyped DEF Steps
  <2>. QED
    BY <1>2, <1>5, <2>1, <2>2, RewriteTyped
<1>. QED
  BY <1>6, <1>7, <1>8 DEF Swap

\* An edit of the post or a delivery.
Post ==
  \/ \E m \in Messages : DeliverRead(m) \/ DeliverSend(m) \/ DeliverRecord(m)
  \/ \E e \in Edits : EditView(e) \/ \E m \in Messages : EditWrite(e, m)

LEMMA PostTyped ==
  ASSUME TypeOK, Post
  PROVE  TypeOK'
<1>1. /\ ended \in BOOLEAN /\ joined \subseteq Joins
      /\ pc \in [Joins -> {"new", "record", "view", "answer", "asks", "redraw", "done"}]
      /\ view \in [Joins -> Views]
      /\ pass \in Rewriting /\ again \in BOOLEAN /\ answer \in BOOLEAN /\ swap \in Rewriting
      /\ (again => pass.step # "idle") /\ late \in BOOLEAN /\ forgot \in BOOLEAN
  BY Zenon DEF TypeOK
<1>2. /\ sent \subseteq Messages /\ edit \in [Edits -> Rewriting]
      /\ sending \in [Messages -> {"no", "read", "sent"}] /\ base \in [Messages -> BOOLEAN]
  BY Zenon DEF TypeOK
<1>3. /\ shown \in [Messages -> Views] /\ failed \in [Messages -> BOOLEAN]
      /\ faults \in 0 .. MaxFaults
  BY Zenon DEF TypeOK
<1>4. PostOnly
  BY DEF Post, DeliverRead, DeliverSend, DeliverRecord, EditView, EditWrite
<1>5. ASSUME sent' \subseteq Messages, edit' \in [Edits -> Rewriting],
             sending' \in [Messages -> {"no", "read", "sent"}],
             base' \in [Messages -> BOOLEAN],
             shown' \in [Messages -> Views], failed' \in [Messages -> BOOLEAN],
             faults' \in 0 .. MaxFaults
      PROVE  TypeOK'
  BY <1>1, <1>4, <1>5 DEF TypeOK, PostOnly, joins, redraw, ghosts
<1>6. ASSUME NEW m \in Messages, DeliverRead(m) PROVE TypeOK'
  BY <1>1, <1>2, <1>3, <1>5, <1>6 DEF DeliverRead
<1>7. ASSUME NEW m \in Messages, DeliverSend(m) PROVE TypeOK'
  <2>1. ViewOf(base[m]) \in Views
    BY <1>2, ViewsTyped
  <2>2. /\ shown' = [shown EXCEPT ![m] = ViewOf(base[m])]
        /\ sending' = [sending EXCEPT ![m] = "sent"]
        /\ UNCHANGED <<sent, failed, faults, base, edit>>
    BY <1>7 DEF DeliverSend
  <2>3. shown' \in [Messages -> Views] /\ sending' \in [Messages -> {"no", "read", "sent"}]
    BY <1>2, <1>3, <2>1, <2>2
  <2>. QED
    BY <1>2, <1>3, <1>5, <2>2, <2>3
<1>8. ASSUME NEW m \in Messages, DeliverRecord(m) PROVE TypeOK'
  BY <1>2, <1>3, <1>5, <1>8 DEF DeliverRecord
<1>9. ASSUME NEW e \in Edits, EditView(e) PROVE TypeOK'
  <2>1. /\ UNCHANGED <<shown, sent, failed, faults, sending, base>>
        /\ \E rw \in Rewriting : edit' = [edit EXCEPT ![e] = rw]
    BY <1>9, ViewsTyped DEF EditView, sender, Steps
  <2>2. edit' \in [Edits -> Rewriting]
    BY <1>2, <2>1
  <2>. QED
    BY <1>2, <1>3, <1>5, <2>1, <2>2
<1>10. ASSUME NEW e \in Edits, NEW m \in Messages, EditWrite(e, m) PROVE TypeOK'
  <2>1. /\ Rewrite(m, edit[e].view) /\ UNCHANGED <<sent, sending, base>>
        /\ edit' = [edit EXCEPT ![e] = Without(edit[e], m, At("done"))]
    BY <1>10 DEF EditWrite, sender
  <2>2. edit[e] \in Rewriting /\ edit[e].view \in Views
    BY <1>2 DEF Rewriting
  <2>3. Without(edit[e], m, At("done")) \in Rewriting
    BY <2>2, WithoutTyped, ViewsTyped DEF Steps
  <2>4. edit' \in [Edits -> Rewriting]
    BY <1>2, <2>1, <2>3, Zenon
  <2>. QED
    BY <1>2, <1>5, <2>1, <2>2, <2>4, RewriteTyped
<1>. QED
  BY <1>6, <1>7, <1>8, <1>9, <1>10 DEF Post

LEMMA TypesStay ==
  ASSUME TypeOK, [Next]_vars
  PROVE  TypeOK'
<1>1. CASE UNCHANGED vars
  BY <1>1 DEF vars, TypeOK, joins, sender, redraw, ghosts
<1>. QED
  BY <1>1, JoinTyped, PassTyped, SwapTyped, PostTyped DEF Next, Post

\* Every variable of Announcement keeps its type, and another pass is asked for
\* only while one runs.
THEOREM TypeCorrect == Spec => []TypeOK
BY AtStart, TypesStay, PTL DEF Spec

-----------------------------------------------------------------------------
(***************************************************************************)
(* The notifier's rewriting.                                               *)
(***************************************************************************)
LEMMA SwapRunsStays ==
  ASSUME TypeOK, SwapRuns, [Next]_vars
  PROVE  SwapRuns'
<1>1. ended \in BOOLEAN /\ swap \in Rewriting
  BY DEF TypeOK
<1>2. ASSUME UNCHANGED <<ended, swap>> PROVE SwapRuns'
  BY <1>2 DEF SwapRuns
<1>3. CASE UNCHANGED vars
  BY <1>2, <1>3 DEF vars
<1>4. ASSUME NEW j \in Joins, Join(j) PROVE SwapRuns'
  BY <1>2, <1>4, JoinMoves
<1>5. CASE Pass
  <2>1. PassOnly
    BY <1>5 DEF Pass, PassView, PassWrite, PassNext, PassAsks, PassAnswered
  <2>. QED
    BY <1>2, <2>1 DEF PassOnly
<1>6. CASE Post
  <2>1. PostOnly
    BY <1>6 DEF Post, DeliverRead, DeliverSend, DeliverRecord, EditView, EditWrite
  <2>. QED
    BY <1>2, <2>1 DEF PostOnly
<1>7. CASE End
  BY <1>7, ViewsTyped DEF End, SwapRuns, Steps
<1>8. CASE SwapView
  <2>1. /\ swap.step = "view" /\ UNCHANGED ended
        /\ swap' \in {At("done"), Refreshed}
    BY <1>8 DEF SwapView
  <2>2. At("done").step = "done"
    BY DEF At
  <2>3. Refreshed.step = "write" /\ Refreshed.view.ended = ended
    BY DEF Refreshed, View, ViewOf
  <2>4. QED BY <1>1, <2>1, <2>2, <2>3 DEF SwapRuns
<1>9. ASSUME NEW m \in Messages, SwapWrite(m) PROVE SwapRuns'
  <2>1. swap.step = "write" /\ swap' = Without(swap, m, At("done")) /\ UNCHANGED ended
    BY <1>9 DEF SwapWrite
  <2>2. At("done") \in Rewriting /\ At("done").step = "done"
    BY ViewsTyped DEF Steps
  <2>3. \/ swap' = At("done")
        \/ swap'.step = swap.step /\ swap'.view = swap.view
    BY <1>1, <2>1, <2>2, WithoutTyped
  <2>. QED
    BY <1>1, <2>1, <2>2, <2>3 DEF SwapRuns
<1>. QED
  BY <1>3, <1>4, <1>5, <1>6, <1>7, <1>8, <1>9, Zenon DEF Next, Swap, Post

(***************************************************************************)
(* Only messages that are sent are rewritten.                              *)
(***************************************************************************)
\* A rewriting moves on: the messages left are sent ones.
LEMMA LeftAreSent ==
  ASSUME TypeOK, NEW rw \in Rewriting, NEW m \in Messages, NEW next \in Rewriting,
         rw.left \subseteq sent, next.left = {}
  PROVE  Without(rw, m, next).left \subseteq sent
BY WithoutTyped

\* Writing a message that is sent is nothing to one that is being sent.
LEMMA SendingIsApart ==
  ASSUME TypeOK, OnlySentAreRewritten, UNCHANGED <<sent, sending, base>>,
         \/ UNCHANGED shown
         \/ \E m \in sent, v \in Views : Rewrite(m, v)
  PROVE  /\ \A n \in Messages : sending'[n] # "no" => n \notin sent'
         /\ \A n \in Messages : sending'[n] = "sent" => shown'[n].ended = base'[n]
<1>1. sent \subseteq Messages
  BY DEF TypeOK
<1>2. \A n \in Messages : n \notin sent => shown'[n] = shown[n]
  BY <1>1, RewriteTyped
<1>. QED
  BY <1>2 DEF OnlySentAreRewritten

LEMMA OnlySentStays ==
  ASSUME TypeOK, OnlySentAreRewritten, [Next]_vars
  PROVE  OnlySentAreRewritten'
<1>1. /\ pass \in Rewriting /\ swap \in Rewriting /\ edit \in [Edits -> Rewriting]
      /\ sent \subseteq Messages
  BY Zenon DEF TypeOK
<1>2. /\ pass.left \subseteq sent /\ swap.left \subseteq sent
      /\ \A e \in Edits : edit[e].left \subseteq sent
      /\ \A m \in Messages : sending[m] # "no" => m \notin sent
      /\ \A m \in Messages : sending[m] = "sent" => shown[m].ended = base[m]
  BY DEF OnlySentAreRewritten
<1>3. ASSUME UNCHANGED <<sent, sending, base>>,
             UNCHANGED shown \/ \E m \in sent, v \in Views : Rewrite(m, v),
             pass'.left \subseteq sent, swap'.left \subseteq sent,
             \A e \in Edits : edit'[e].left \subseteq sent
      PROVE  OnlySentAreRewritten'
  BY <1>3, SendingIsApart DEF OnlySentAreRewritten
<1>4. CASE UNCHANGED vars
  BY <1>2, <1>3, <1>4 DEF vars, sender, redraw
<1>5. ASSUME NEW j \in Joins, Join(j) PROVE OnlySentAreRewritten'
  <2>1. UNCHANGED <<sent, sending, base, swap, edit>> /\ view[j] \in Views
    BY <1>5, JoinMoves DEF TypeOK
  <2>2. pass'.left \subseteq sent
    BY <1>2, <1>5, JoinDoes, ViewsTyped DEF Steps
  <2>3. UNCHANGED shown \/ \E m \in sent, v \in Views : Rewrite(m, v)
    BY <1>5, <2>1, JoinDoes DEF ShowsNothing
  <2>. QED
    BY <1>2, <1>3, <2>1, <2>2, <2>3
<1>6. CASE Pass
  <2>1. UNCHANGED <<sent, sending, base, swap, edit>>
    BY <1>6 DEF Pass, PassView, PassWrite, PassNext, PassAsks, PassAnswered, PassOnly, sender
  <2>2. PassView => UNCHANGED shown /\ pass'.left \subseteq sent
    BY <1>1, ViewsTyped DEF PassView, PassQuiet, Missed, Rewriting, Steps
  <2>3. PassNext \/ PassAsks \/ PassAnswered => UNCHANGED shown /\ pass'.left \subseteq sent
    BY <1>1, <1>2, ViewsTyped
       DEF PassNext, PassAsks, PassAnswered, PassQuiet, Asked, Missed, Rewriting, Steps
  <2>4. ASSUME NEW m \in Messages, PassWrite(m)
        PROVE  /\ \E v \in Views : Rewrite(m, v) /\ m \in sent
               /\ pass'.left \subseteq sent
    <3>. DEFINE next == [pass EXCEPT !.left = {}, !.step = "next"]
    <3>1. m \in pass.left /\ Rewrite(m, pass.view) /\ pass' = Without(pass, m, next)
      BY <2>4 DEF PassWrite
    <3>2. next \in Rewriting /\ next.left = {} /\ pass.view \in Views
      BY <1>1 DEF Rewriting, Steps
    <3>. HIDE DEF next
    <3>3. pass'.left \subseteq sent
      BY <1>1, <1>2, <3>1, <3>2, LeftAreSent
    <3>. QED
      BY <1>2, <3>1, <3>2, <3>3
  <2>. QED
    BY <1>2, <1>3, <1>6, <2>1, <2>2, <2>3, <2>4 DEF Pass
<1>7. CASE End \/ Swap
  <2>1. UNCHANGED <<sent, sending, base, pass, edit>>
    BY <1>7 DEF End, Swap, SwapView, SwapWrite, SwapOnly, sender, redraw
  <2>2. End \/ SwapView => UNCHANGED shown /\ swap'.left \subseteq sent
    BY ViewsTyped DEF End, SwapView, Missed, Steps
  <2>3. ASSUME NEW m \in Messages, SwapWrite(m)
        PROVE  /\ \E v \in Views : Rewrite(m, v) /\ m \in sent
               /\ swap'.left \subseteq sent
    <3>1. m \in swap.left /\ Rewrite(m, swap.view) /\ swap' = Without(swap, m, At("done"))
      BY <2>3 DEF SwapWrite
    <3>2. At("done") \in Rewriting /\ At("done").left = {} /\ swap.view \in Views
      BY <1>1, ViewsTyped DEF Rewriting, Steps
    <3>3. swap'.left \subseteq sent
      BY <1>1, <1>2, <3>1, <3>2, LeftAreSent
    <3>. QED
      BY <1>2, <3>1, <3>2, <3>3
  <2>. QED
    BY <1>2, <1>3, <1>7, <2>1, <2>2, <2>3 DEF Swap
<1>8. ASSUME NEW e \in Edits, EditView(e) \/ \E m \in Messages : EditWrite(e, m)
      PROVE  OnlySentAreRewritten'
  <2>1. UNCHANGED <<sent, sending, base, pass, swap>>
    BY <1>8 DEF EditView, EditWrite, PostOnly, sender, redraw
  <2>2. At("done") \in Rewriting /\ At("done").left = {}
        /\ Refreshed \in Rewriting /\ Refreshed.left = sent
    BY ViewsTyped DEF Steps
  <2>3. \A rw \in Rewriting :
          edit' = [edit EXCEPT ![e] = rw] /\ rw.left \subseteq sent
            => \A i \in Edits : edit'[i].left \subseteq sent
    BY <1>1, <1>2
  <2>4. EditView(e) => UNCHANGED shown /\ \A i \in Edits : edit'[i].left \subseteq sent
    BY <2>2, <2>3 DEF EditView
  <2>5. ASSUME NEW m \in Messages, EditWrite(e, m)
        PROVE  /\ \E v \in Views : Rewrite(m, v) /\ m \in sent
               /\ \A i \in Edits : edit'[i].left \subseteq sent
    <3>1. /\ m \in edit[e].left /\ Rewrite(m, edit[e].view)
          /\ edit' = [edit EXCEPT ![e] = Without(edit[e], m, At("done"))]
      BY <2>5 DEF EditWrite
    <3>2. edit[e] \in Rewriting /\ edit[e].view \in Views /\ edit[e].left \subseteq sent
      BY <1>1, <1>2 DEF Rewriting
    <3>3. Without(edit[e], m, At("done")) \in Rewriting
          /\ Without(edit[e], m, At("done")).left \subseteq sent
      BY <2>2, <3>2, LeftAreSent, WithoutTyped
    <3>. QED
      BY <2>3, <3>1, <3>2, <3>3
  <2>. QED
    BY <1>2, <1>3, <1>8, <2>1, <2>4, <2>5
<1>9. ASSUME NEW m \in Messages, DeliverRead(m) \/ DeliverSend(m) \/ DeliverRecord(m)
      PROVE  OnlySentAreRewritten'
  <2>1. /\ UNCHANGED <<pass, swap, edit>> /\ sent \subseteq sent'
        /\ pass'.left \subseteq sent' /\ swap'.left \subseteq sent'
        /\ \A e \in Edits : edit'[e].left \subseteq sent'
    BY <1>2, <1>9 DEF DeliverRead, DeliverSend, DeliverRecord, PostOnly, redraw
  <2>2. /\ sending \in [Messages -> {"no", "read", "sent"}] /\ base \in [Messages -> BOOLEAN]
        /\ shown \in [Messages -> Views]
    BY Zenon DEF TypeOK
  <2>3. \A n \in Messages : sending'[n] # "no" => n \notin sent'
    BY <1>2, <1>9, <2>2 DEF DeliverRead, DeliverSend, DeliverRecord
  <2>4. ASSUME NEW n \in Messages, sending'[n] = "sent"
        PROVE  shown'[n].ended = base'[n]
    <3>1. \A b \in BOOLEAN : ViewOf(b).ended = b
      BY ViewsTyped
    <3>. QED
      BY <1>2, <1>9, <2>2, <2>4, <3>1 DEF DeliverRead, DeliverSend, DeliverRecord
  <2>. QED
    BY <2>1, <2>3, <2>4 DEF OnlySentAreRewritten
<1>. QED
  BY <1>4, <1>5, <1>6, <1>7, <1>8, <1>9, Zenon DEF Next

(***************************************************************************)
(* After the notifier took its view, nobody takes an older one.            *)
(***************************************************************************)
LEMMA NoOldViewsStay ==
  ASSUME TypeOK, SwapRuns, NoOldViews, [Next]_vars
  PROVE  NoOldViews'
<1>1. /\ edit \in [Edits -> Rewriting] /\ swap \in Rewriting
      /\ sending \in [Messages -> {"no", "read", "sent"}] /\ base \in [Messages -> BOOLEAN]
      /\ late \in BOOLEAN /\ ended \in BOOLEAN
  BY Zenon DEF TypeOK
<1>2. ASSUME UNCHANGED <<ended, swap, late>>, HoldsOldView' => HoldsOldView \/ ~ended
      PROVE  NoOldViews'
  BY <1>2 DEF NoOldViews
<1>3. UNCHANGED <<sending, base, edit>> => (HoldsOldView' <=> HoldsOldView)
  BY DEF HoldsOldView
<1>4. CASE UNCHANGED vars
  BY <1>2, <1>3, <1>4 DEF vars, sender, ghosts
<1>5. ASSUME NEW j \in Joins, Join(j) PROVE NoOldViews'
  BY <1>2, <1>3, <1>5, JoinMoves
<1>6. CASE Pass
  <2>1. PassOnly
    BY <1>6 DEF Pass, PassView, PassWrite, PassNext, PassAsks, PassAnswered
  <2>. QED
    BY <1>2, <1>3, <2>1 DEF PassOnly, sender
<1>7. CASE End
  BY <1>7, ViewsTyped DEF End, NoOldViews, Steps
<1>8. CASE SwapView
  <2>1. late' = (late \/ HoldsOldView) /\ UNCHANGED <<sending, base, edit>>
    BY <1>8 DEF SwapView, SwapOnly, sender
  <2>. QED
    BY <1>1, <1>3, <2>1 DEF NoOldViews
<1>9. ASSUME NEW m \in Messages, SwapWrite(m) PROVE NoOldViews'
  <2>1. swap.step = "write" /\ UNCHANGED <<ended, late, sending, base, edit>>
    BY <1>9 DEF SwapWrite, SwapOnly, sender
  <2>. QED
    BY <1>3, <2>1 DEF NoOldViews
<1>10. ASSUME NEW m \in Messages, DeliverRead(m) \/ DeliverSend(m) \/ DeliverRecord(m)
       PROVE  NoOldViews'
  <2>1. UNCHANGED <<ended, swap, late, edit>>
    BY <1>10 DEF DeliverRead, DeliverSend, DeliverRecord, PostOnly, ghosts
  <2>2. ASSUME NEW n \in Messages, sending'[n] # "no", ~base'[n], ended
        PROVE  sending[n] # "no" /\ ~base[n]
    <3>1. CASE n # m
      BY <1>1, <1>10, <2>2, <3>1 DEF DeliverRead, DeliverSend, DeliverRecord
    <3>2. CASE n = m
      BY <1>1, <1>10, <2>2, <3>2 DEF DeliverRead, DeliverSend, DeliverRecord
    <3>. QED
      BY <3>1, <3>2
  <2>. QED
    BY <1>1, <1>2, <2>1, <2>2 DEF HoldsOldView
<1>11. ASSUME NEW e \in Edits, EditView(e) \/ \E m \in Messages : EditWrite(e, m)
       PROVE  NoOldViews'
  <2>1. UNCHANGED <<ended, swap, late, sending, base>>
    BY <1>11 DEF EditView, EditWrite, PostOnly, sender, ghosts
  <2>2. At("done") \in Rewriting /\ At("done").step = "done"
        /\ Refreshed \in Rewriting /\ Refreshed.view.ended = ended
    BY ViewsTyped DEF Steps
  <2>3. /\ \A i \in Edits \ {e} : edit'[i] = edit[i]
        /\ \/ edit'[e].step = "done"
           \/ edit'[e].view.ended = ended
           \/ edit'[e].step = edit[e].step /\ edit'[e].view = edit[e].view
    <3>1. EditView(e) => /\ \A i \in Edits \ {e} : edit'[i] = edit[i]
                         /\ edit'[e] = At("done") \/ edit'[e] = Refreshed
      BY <1>1 DEF EditView
    <3>2. ASSUME NEW m \in Messages, EditWrite(e, m)
          PROVE  /\ \A i \in Edits \ {e} : edit'[i] = edit[i]
                 /\ edit'[e] = Without(edit[e], m, At("done"))
      BY <1>1, <3>2 DEF EditWrite
    <3>3. edit[e] \in Rewriting
      BY <1>1
    <3>. QED
      BY <1>11, <2>2, <3>1, <3>2, <3>3, WithoutTyped
  <2>4. ASSUME NEW i \in Edits, edit'[i].step = "write", ~edit'[i].view.ended, ended
        PROVE  edit[i].step = "write" /\ ~edit[i].view.ended
    BY <1>1, <2>3, <2>4
  <2>. QED
    BY <1>2, <2>1, <2>4 DEF HoldsOldView
<1>. QED
  BY <1>4, <1>5, <1>6, <1>7, <1>8, <1>9, <1>10, <1>11, Zenon DEF Next, Swap

(***************************************************************************)
(* Every message shows the results, or somebody will see to it.  The cases *)
(* are those of who writes messages.                                       *)
(***************************************************************************)
\* A message is as well off after a step as before: what is written is the
\* result, or the write failed, or there is more to come.
LEMMA WritingFixes ==
  ASSUME TypeOK, NEW m \in Messages, NEW n \in Messages, NEW v \in Views, Rewrite(n, v),
         Fixed(m), m # n /\ Pending(m) => Pending(m)' \/ failed'[m], m = n => v.ended \/ Pending(m)'
  PROVE  Fixed(m)'
<1>1. CASE m # n
  <2>1. shown'[m] = shown[m] /\ failed'[m] = failed[m]
    BY <1>1, RewriteTyped
  <2>. QED
    BY <1>1, <2>1 DEF Fixed
<1>2. CASE m = n
  <2>1. shown'[m] = v \/ failed'[m]
    BY <1>2, RewriteTyped
  <2>. QED
    BY <1>2, <2>1 DEF Fixed
<1>. QED
  BY <1>1, <1>2

LEMMA JoinFixes ==
  ASSUME TypeOK, AllFixed, NEW j \in Joins, Join(j)
  PROVE  AllFixed'
<1>1. /\ UNCHANGED <<ended, sent, swap, late, forgot, answer>>
      /\ pc' \in [Joins -> {"new", "record", "view", "answer", "asks", "redraw", "done"}]
      /\ \A i \in Joins \ {j} : pc'[i] = pc[i]
  BY JoinMoves
<1>2. sent \subseteq Messages /\ view[j] \in Views
      /\ pc \in [Joins -> {"new", "record", "view", "answer", "asks", "redraw", "done"}]
  BY Zenon DEF TypeOK
<1>. SUFFICES ASSUME ended, ~late, ~forgot, NEW m \in sent PROVE Fixed(m)'
  BY <1>1 DEF AllFixed
<1>3. Fixed(m) /\ m \in Messages
  BY <1>2 DEF AllFixed
<1>4. At("view") \in Rewriting /\ At("view").step = "view"
  BY ViewsTyped DEF Steps
<1>5. ASSUME again \/ pass.step # "idle" => pass' = pass /\ (again => again') PROVE
        \/ swap.step = "view"
        \/ swap.step = "write" /\ m \in swap.left
        \/ again
        \/ pass.step \in {"view", "ask"}
        \/ pass.step \in {"write", "next"} /\ ~pass.view.ended
        \/ pass.step = "write" /\ m \in pass.left
        \/ pass.step = "answered" /\ answer
        => Pending(m)'
  BY <1>1, <1>5 DEF Pending
<1>6. again \/ pass.step # "idle" => pass' = pass /\ (again => again')
  <2>1. again => pass.step # "idle"
    BY DEF TypeOK
  <2>. QED
    BY <2>1, JoinDoes
<1>7. (\E i \in Joins : pc[i] \in {"asks", "redraw"}) => Pending(m)' \/ failed'[m]
  <2>1. ASSUME NEW i \in Joins, pc[i] \in {"asks", "redraw"}, i # j
        PROVE  Pending(m)'
    BY <1>1, <2>1 DEF Pending
  <2>2. ASSUME pc[j] = "asks" PROVE Pending(m)' \/ failed'[m]
    <3>1. JoinAsks(j)
      BY <2>2 DEF Join, JoinRead, JoinRecord, JoinView, JoinFails, JoinAnswer, JoinRedraws,
         MoveJoin
    <3>2. PICK drawn \in BOOLEAN :
            Asked(drawn) /\ MoveJoin(j, "asks", IF drawn THEN "redraw" ELSE "done")
      BY <3>1 DEF JoinAsks
    <3>3. drawn => pc'[j] = "redraw"
      BY <1>2, <3>2 DEF MoveJoin
    <3>4. drawn \/ failed'[m]
      BY <3>2, AskedTyped
    <3>. QED
      BY <3>3, <3>4 DEF Pending
  <2>3. ASSUME pc[j] = "redraw" PROVE Pending(m)'
    <3>1. JoinRedraws(j)
      BY <2>3 DEF Join, JoinRead, JoinRecord, JoinView, JoinFails, JoinAnswer, JoinAsks, MoveJoin
    <3>2. pass' = At("view") \/ again' = TRUE
      BY <3>1 DEF JoinRedraws
    <3>. QED
      BY <1>4, <3>2 DEF Pending
  <2>. QED
    BY <2>1, <2>2, <2>3
<1>8. Pending(m) => Pending(m)' \/ failed'[m]
  <2>. HIDE DEF Joins
  <2>. QED
    BY <1>5, <1>6, <1>7 DEF Pending
<1>9. CASE ShowsNothing
  BY <1>3, <1>8, <1>9 DEF Fixed, ShowsNothing
<1>10. CASE /\ \E n \in sent : Rewrite(n, view[j])
            /\ pc'[j] = (IF view[j].ended THEN "done" ELSE "asks")
  <2>1. PICK n \in sent : Rewrite(n, view[j])
    BY <1>10
  <2>2. view[j].ended \/ Pending(m)'
    BY <1>10 DEF Pending
  <2>. QED
    BY <1>2, <1>3, <1>8, <2>1, <2>2, WritingFixes
<1>. QED
  BY <1>9, <1>10, JoinDoes, UnchangedShowsNothing

LEMMA SwapFixes ==
  ASSUME TypeOK, SwapRuns, AllFixed, End \/ Swap
  PROVE  AllFixed'
<1>1. /\ swap \in Rewriting /\ sent \subseteq Messages
      /\ late \in BOOLEAN /\ forgot \in BOOLEAN
  BY Zenon DEF TypeOK
<1>2. UNCHANGED <<sent, pc, pass, again, answer, forgot>> /\ (late => late')
  <2>1. SwapOnly
    BY DEF End, Swap, SwapView, SwapWrite
  <2>2. late' = late \/ late' = (late \/ HoldsOldView)
    BY DEF End, Swap, SwapView, SwapWrite
  <2>. QED
    BY <1>1, <2>1, <2>2 DEF SwapOnly, joins, redraw
<1>. SUFFICES ASSUME ended', ~late, ~forgot, NEW m \in sent PROVE Fixed(m)'
  BY <1>1, <1>2 DEF AllFixed
<1>3. CASE End
  BY <1>3, ViewsTyped DEF End, Fixed, Pending, Steps
<1>4. CASE SwapView
  <2>1. CASE swap' = Refreshed
    BY <2>1, ViewsTyped DEF Fixed, Pending
  <2>2. CASE Missed(sent)
    BY <1>1, <2>2, MissedTyped DEF Fixed
  <2>. QED
    BY <1>4, <2>1, <2>2 DEF SwapView
<1>5. ASSUME NEW n \in Messages, SwapWrite(n) PROVE Fixed(m)'
  <2>1. /\ swap.step = "write" /\ Rewrite(n, swap.view) /\ UNCHANGED ended
        /\ swap' = Without(swap, n, At("done"))
    BY <1>5 DEF SwapWrite
  <2>2. swap.view \in Views /\ swap.view.ended /\ Fixed(m)
    BY <1>1, <2>1 DEF SwapRuns, Rewriting, AllFixed
  <2>3. At("done") \in Rewriting
    BY ViewsTyped DEF Steps
  <2>4. \/ swap.left = {n}
        \/ swap'.step = swap.step /\ swap'.left = swap.left \ {n}
    BY <1>1, <2>1, <2>3, WithoutTyped
  <2>5. m # n /\ Pending(m) => Pending(m)'
    BY <1>2, <2>1, <2>4 DEF Pending
  <2>. QED
    BY <1>1, <2>1, <2>2, <2>5, WritingFixes
<1>. QED
  BY <1>3, <1>4, <1>5 DEF Swap

LEMMA PassFixes ==
  ASSUME TypeOK, AllFixed, Pass
  PROVE  AllFixed'
<1>1. /\ pass \in Rewriting /\ sent \subseteq Messages /\ again \in BOOLEAN
      /\ answer \in BOOLEAN /\ forgot \in BOOLEAN
  BY Zenon DEF TypeOK
<1>2. UNCHANGED <<ended, sent, pc, swap, late>>
  BY DEF Pass, PassView, PassWrite, PassNext, PassAsks, PassAnswered, PassOnly, joins
<1>3. forgot => forgot'
  <2>1. forgot' = forgot \/ forgot' = (forgot \/ (again /\ ~answer))
    BY DEF Pass, PassView, PassWrite, PassNext, PassAsks, PassAnswered
  <2>. QED
    BY <1>1, <2>1
<1>. SUFFICES ASSUME ended, ~late, ~forgot', NEW m \in sent PROVE Fixed(m)'
  BY <1>2 DEF AllFixed
<1>4. Fixed(m) /\ m \in Messages
  BY <1>1, <1>3 DEF AllFixed
<1>. DEFINE Others == \/ swap.step = "view"
                      \/ swap.step = "write" /\ m \in swap.left
                      \/ \E j \in Joins : pc[j] \in {"asks", "redraw"}
            OfPass == \/ again
                      \/ pass.step \in {"view", "ask"}
                      \/ pass.step \in {"write", "next"} /\ ~pass.view.ended
                      \/ pass.step = "write" /\ m \in pass.left
                      \/ pass.step = "answered" /\ answer
<1>5. /\ Pending(m) <=> Others \/ OfPass
      /\ Others => Pending(m)'
  BY <1>2 DEF Pending
<1>. HIDE DEF Others
<1>6. CASE PassView
  <2>1. CASE pass' = [Refreshed EXCEPT !.step = IF sent = {} THEN "next" ELSE @]
    <3>1. Refreshed.step = "write" /\ Refreshed.left = sent /\ Refreshed \in Rewriting
      BY ViewsTyped
    <3>2. pass'.step = "write" /\ pass'.left = sent
      BY <2>1, <3>1 DEF Rewriting
    <3>. QED
      BY <3>2 DEF Fixed, Pending
  <2>2. CASE Missed(sent)
    BY <1>4, <2>2, MissedTyped DEF Fixed
  <2>. QED
    BY <1>6, <2>1, <2>2 DEF PassView
<1>7. ASSUME NEW n \in Messages, PassWrite(n) PROVE Fixed(m)'
  <2>. DEFINE next == [pass EXCEPT !.left = {}, !.step = "next"]
  <2>1. /\ pass.step = "write" /\ Rewrite(n, pass.view) /\ UNCHANGED <<again, answer>>
        /\ pass' = Without(pass, n, next)
    BY <1>7 DEF PassWrite
  <2>2. /\ next \in Rewriting /\ next.step = "next" /\ next.view = pass.view
        /\ pass.view \in Views
    BY <1>1 DEF Rewriting, Steps
  <2>. HIDE DEF next
  <2>3. /\ pass'.step \in {"write", "next"} /\ pass'.view = pass.view
        /\ \/ pass.left = {n}
           \/ pass'.step = "write" /\ pass'.left = pass.left \ {n}
    BY <1>1, <2>1, <2>2, WithoutTyped
  <2>4. ~pass.view.ended => Pending(m)'
    BY <2>3 DEF Pending
  <2>5. m # n /\ OfPass => Pending(m)'
    BY <2>1, <2>3 DEF Pending
  <2>6. m # n /\ Pending(m) => Pending(m)'
    BY <1>5, <2>5
  <2>. HIDE DEF OfPass
  <2>. QED
    BY <1>4, <2>1, <2>2, <2>4, <2>6, WritingFixes
<1>8. CASE PassNext
  <2>1. /\ pass.step = "next" /\ UNCHANGED <<shown, failed, again, answer>>
        /\ pass' = IF again THEN At("view")
                   ELSE IF pass.view.ended THEN At("idle")
                   ELSE [pass EXCEPT !.step = "ask"]
    BY <1>8 DEF PassNext, PassQuiet
  <2>2. At("view").step = "view" /\ [pass EXCEPT !.step = "ask"].step = "ask"
    BY <1>1, ViewsTyped DEF Rewriting, Steps
  <2>3. OfPass => Pending(m)'
    BY <2>1, <2>2 DEF Pending
  <2>. QED
    BY <1>4, <1>5, <2>1, <2>3 DEF Fixed
<1>9. CASE PassAsks
  <2>1. pass'.step = "answered" /\ Asked(answer')
    BY <1>1, <1>9 DEF PassAsks, Rewriting
  <2>2. answer' \/ failed'[m]
    BY <2>1, AskedTyped
  <2>. QED
    BY <2>1, <2>2 DEF Fixed, Pending
<1>10. CASE PassAnswered
  <2>1. /\ pass.step = "answered" /\ UNCHANGED <<shown, failed>>
        /\ pass' = IF answer THEN At("view") ELSE At("idle")
        /\ forgot' = (forgot \/ (again /\ ~answer))
    BY <1>10 DEF PassAnswered, PassQuiet
  <2>2. At("view").step = "view"
    BY ViewsTyped DEF Steps
  <2>3. OfPass => answer
    BY <1>1, <2>1
  <2>4. OfPass => Pending(m)'
    BY <2>1, <2>2, <2>3 DEF Pending
  <2>. QED
    BY <1>4, <1>5, <2>1, <2>4 DEF Fixed
<1>. QED
  BY <1>6, <1>7, <1>8, <1>9, <1>10 DEF Pass

LEMMA PostFixes ==
  ASSUME TypeOK, SwapRuns, OnlySentAreRewritten, NoOldViews, AllFixed, Post
  PROVE  AllFixed'
<1>1. /\ edit \in [Edits -> Rewriting] /\ sent \subseteq Messages
      /\ base \in [Messages -> BOOLEAN] /\ sending \in [Messages -> {"no", "read", "sent"}]
      /\ shown \in [Messages -> Views]
  BY Zenon DEF TypeOK
<1>2. UNCHANGED <<ended, pc, pass, again, answer, swap, late, forgot>>
  BY DEF Post, DeliverRead, DeliverSend, DeliverRecord, EditView, EditWrite, PostOnly,
         joins, redraw, ghosts
<1>. SUFFICES ASSUME ended, ~late, ~forgot, NEW m \in sent' PROVE Fixed(m)'
  BY <1>2 DEF AllFixed
<1>3. Pending(m) => Pending(m)'
  BY <1>2 DEF Pending
<1>4. m \in sent => Fixed(m)
  BY DEF AllFixed
<1>5. swap.step = "view" \/ ~HoldsOldView
  BY DEF NoOldViews
<1>6. ASSUME NEW n \in Messages, DeliverRead(n) \/ DeliverSend(n) PROVE Fixed(m)'
  <2>1. UNCHANGED <<sent, failed>> /\ m \in sent
    BY <1>6 DEF DeliverRead, DeliverSend
  <2>2. n # m
    BY <1>6, <2>1 DEF DeliverRead, DeliverSend, OnlySentAreRewritten
  <2>3. shown'[m] = shown[m]
    BY <1>1, <1>6, <2>2 DEF DeliverRead, DeliverSend
  <2>. QED
    BY <1>3, <1>4, <2>1, <2>3 DEF Fixed
<1>7. ASSUME NEW n \in Messages, DeliverRecord(n) PROVE Fixed(m)'
  <2>1. UNCHANGED <<shown, failed>> /\ sending[n] = "sent" /\ sent' = sent \cup {n}
    BY <1>7 DEF DeliverRecord
  <2>2. m \in sent \/ shown[m].ended \/ swap.step = "view"
    BY <1>5, <2>1 DEF OnlySentAreRewritten, HoldsOldView
  <2>3. swap.step = "view" => Pending(m)
    BY DEF Pending
  <2>. QED
    BY <1>3, <1>4, <2>1, <2>2, <2>3 DEF Fixed
<1>8. ASSUME NEW e \in Edits, EditView(e) PROVE Fixed(m)'
  <2>1. UNCHANGED <<shown, failed, sent>>
    BY <1>8 DEF EditView
  <2>. QED
    BY <1>3, <1>4, <2>1 DEF Fixed
<1>9. ASSUME NEW e \in Edits, NEW n \in Messages, EditWrite(e, n) PROVE Fixed(m)'
  <2>1. edit[e].step = "write" /\ Rewrite(n, edit[e].view) /\ UNCHANGED sent
    BY <1>9 DEF EditWrite
  <2>2. edit[e].view \in Views
    BY <1>1 DEF Rewriting
  <2>3. edit[e].view.ended \/ Pending(m)'
    BY <1>3, <1>5, <2>1 DEF HoldsOldView, Pending
  <2>. QED
    BY <1>1, <1>3, <1>4, <2>1, <2>2, <2>3, WritingFixes
<1>. QED
  BY <1>6, <1>7, <1>8, <1>9 DEF Post

LEMMA FixedStays ==
  ASSUME TypeOK, SwapRuns, OnlySentAreRewritten, NoOldViews, AllFixed, [Next]_vars
  PROVE  AllFixed'
<1>1. CASE UNCHANGED vars
  BY <1>1 DEF vars, AllFixed, Fixed, Pending, joins, redraw, ghosts
<1>. QED
  BY <1>1, JoinFixes, SwapFixes, PassFixes, PostFixes DEF Next, Post

\* When all is quiet nobody will write any more.
LEMMA QuietIsFixed == TypeOK /\ SwapRuns /\ AllFixed => ResultsStay
<1>. SUFFICES ASSUME TypeOK, SwapRuns, AllFixed, Quiet, ended, ~late, ~forgot, NEW m \in sent
              PROVE  shown[m].ended \/ failed[m]
  BY DEF ResultsStay
<1>1. Fixed(m)
  BY DEF AllFixed
<1>2. pass.step = "idle" /\ ~again
  BY DEF Quiet, TypeOK
<1>3. swap.step = "done" /\ \A j \in Joins : pc[j] \in {"new", "done"}
  BY DEF Quiet, SwapRuns
<1>4. ~Pending(m)
  BY <1>2, <1>3 DEF Pending
<1>. QED
  BY <1>1, <1>4 DEF Fixed

\* Once a contest is drawn or cancelled and everybody is done, each message of
\* its announcement shows the results: no late answer, redraw or counter of the
\* five places that rewrite a message puts the button "join" back, unless its
\* last rewrite failed or was missed (the query it needed failed), an edit or a
\* delivery held an older view when the notifier took its own, or a request for
\* another pass was overwritten.
THEOREM ResultsAreSound == Spec => []ResultsSound
<1>1. Init => ResultsInv
  BY AtStart DEF ResultsInv
<1>2. ResultsInv /\ [Next]_vars => ResultsInv'
  BY TypesStay, SwapRunsStays, OnlySentStays, NoOldViewsStay, FixedStays DEF ResultsInv
<1>3. ResultsInv => ResultsSound
  BY QuietIsFixed DEF ResultsInv, ResultsSound
<1>. QED
  BY <1>1, <1>2, <1>3, PTL DEF Spec

=============================================================================
