---------------------------- MODULE Announcement ----------------------------
(***************************************************************************)
(* What the messages of ONE contest's announcement show while people join, *)
(* the contest ends, an admin edits the post and the last groups are still *)
(* sent it.  Five places rewrite a message, each from a view it built      *)
(* before: the redraw after a join (one pass per contest in the process,   *)
(* MaxBotHandlers.redrawing), the answer to a press of the button, the     *)
(* notifier after the end, an edit, a delivery.  How a join is recorded is *)
(* in Contest; text and attachments are left out of the view.              *)
(***************************************************************************)
EXTENDS Naturals, FiniteSets

CONSTANTS
  Messages,    \* the messages in the MAX groups
  Unsent,      \* those not sent yet
  Links,       \* starts of the bot by the link of the button
  Presses,     \* presses of the button itself, where it has no link
  Edits,       \* edits of the published post
  MaxFaults    \* bound: rewrites and queries that fail

ASSUME MessagesAssumption == Unsent \subseteq Messages
ASSUME FaultsAssumption   == MaxFaults \in Nat
ASSUME JoinsAssumption    == IsFiniteSet(Links) /\ IsFiniteSet(Presses)

VARIABLES
  ended, joined,       \* is the contest drawn or cancelled; who is in it
  shown, sent, failed, \* each message; was its last rewrite refused, or missed?
  pc, view,            \* the handler of each join
  sending, base,       \* each delivery, and the status it read
  pass,                \* the redraw: step, view, messages left
  again, answer,       \* is another pass asked for; what isFinished said
  swap,                \* the notifier's rewriting
  edit,                \* each edit's rewriting
  faults, late, forgot \* ghosts

joins  == <<pc, view>>
sender == <<sending, base>>
redraw == <<pass, again, answer>>
ghosts == <<late, forgot>>
vars   == <<ended, joined, shown, sent, failed, joins, sender, redraw, swap,
            edit, faults, ghosts>>

Joins == Links \cup Presses
Views == [ended : BOOLEAN, count : 0 .. Cardinality(Joins)]
\* A rewriting in progress: announcementRefresh, then one message at a time.
Steps == {"idle", "view", "write", "next", "ask", "answered", "done"}
Rewriting == [step : Steps, view : Views, left : SUBSET Messages]

TypeOK ==
  /\ ended \in BOOLEAN /\ joined \subseteq Joins
  /\ shown \in [Messages -> Views]
  /\ sent \subseteq Messages
  /\ failed \in [Messages -> BOOLEAN]
  /\ pc \in [Joins -> {"new", "record", "view", "answer", "asks", "redraw", "done"}]
  /\ view \in [Joins -> Views]
  /\ sending \in [Messages -> {"no", "read", "sent"}]
  /\ base \in [Messages -> BOOLEAN]
  /\ pass \in Rewriting /\ swap \in Rewriting /\ edit \in [Edits -> Rewriting]
  /\ again \in BOOLEAN /\ answer \in BOOLEAN
  /\ again => pass.step # "idle"
  /\ faults \in 0 .. MaxFaults /\ late \in BOOLEAN /\ forgot \in BOOLEAN

\* announcementView: after the end there is no counter.
ViewOf(isEnded) ==
  [ended |-> isEnded, count |-> IF isEnded THEN 0 ELSE Cardinality(joined)]
View == ViewOf(ended)
At(step) == [step |-> step, view |-> [ended |-> FALSE, count |-> 0], left |-> {}]

Init ==
  /\ ended = FALSE /\ joined = {}
  /\ shown = [m \in Messages |-> [ended |-> FALSE, count |-> 0]]
  /\ sent = Messages \ Unsent
  /\ failed = [m \in Messages |-> FALSE]
  /\ pc = [j \in Joins |-> "new"]
  /\ view = [j \in Joins |-> [ended |-> FALSE, count |-> 0]]
  /\ sending = [m \in Messages |-> "no"]
  /\ base = [m \in Messages |-> FALSE]
  /\ pass = At("idle") /\ swap = At("idle") /\ edit = [e \in Edits |-> At("idle")]
  /\ again = FALSE /\ answer = FALSE
  /\ faults = 0 /\ late = FALSE /\ forgot = FALSE

\* A failure costs these messages the rewrite they were due.
Missed(some) ==
  /\ faults < MaxFaults
  /\ faults' = faults + 1
  /\ failed' = [m \in Messages |-> failed[m] \/ m \in some]
  /\ UNCHANGED shown

\* editMessage: the message shows the view, or the call fails; a failure
\* keeps the other messages going.
Rewrite(m, v) ==
  \/ /\ shown' = [shown EXCEPT ![m] = v]
     /\ failed' = [failed EXCEPT ![m] = FALSE]
     /\ UNCHANGED faults
  \/ Missed({m})

\* isFinished; when it fails the answer is "no", right or wrong.
Asked(says) ==
  \/ says = ended /\ UNCHANGED <<shown, failed, faults>>
  \/ says = FALSE /\ Missed(IF ended THEN sent ELSE {})

Refreshed == [step |-> "write", view |-> View, left |-> sent]
Without(rw, m, next) ==
  IF rw.left = {m} THEN next ELSE [rw EXCEPT !.left = @ \ {m}]

(***************************************************************************)
(* Joins.                                                                  *)
(***************************************************************************)
JoinOnly == UNCHANGED <<ended, sent, sender, swap, edit, late>>

MoveJoin(j, from, to) ==
  /\ pc[j] = from
  /\ pc' = [pc EXCEPT ![j] = to]

\* Its queries fail: the press is confirmed without a new view, the start gets
\* a text.
JoinFails(j) ==
  /\ pc[j] \in {"new", "record", "view"}
  /\ pc' = [pc EXCEPT ![j] = "done"]
  /\ Missed({})
  /\ UNCHANGED <<joined, view, redraw, forgot>>
  /\ JoinOnly

\* The contest is read.  A start by link that comes too late gets a text.
JoinRead(j) ==
  /\ MoveJoin(j, "new", IF ~ended THEN "record"
                        ELSE IF j \in Presses THEN "view" ELSE "done")
  /\ view' = [view EXCEPT ![j].ended = ended]
  /\ UNCHANGED <<joined, shown, failed, faults, redraw, forgot>>
  /\ JoinOnly

\* Under the lock: somebody new, somebody who is in already, or too late -
\* then the post is left alone (closedDuringJoin).
JoinRecord(j) ==
  /\ \/ /\ ~ended
        /\ joined' = joined \cup {j}
        /\ MoveJoin(j, "record", IF j \in Presses THEN "view" ELSE "redraw")
     \/ /\ ~ended
        /\ MoveJoin(j, "record", IF j \in Presses THEN "view" ELSE "done")
        /\ UNCHANGED joined
     \/ /\ ended
        /\ MoveJoin(j, "record", "done")
        /\ UNCHANGED joined
  /\ UNCHANGED <<shown, failed, faults, view, redraw, forgot>>
  /\ JoinOnly

\* The view has the status read first, and the participants of now.
JoinView(j) ==
  /\ MoveJoin(j, "view", "answer")
  /\ view' = [view EXCEPT ![j] = ViewOf(view[j].ended)]
  /\ UNCHANGED <<joined, shown, failed, faults, redraw, forgot>>
  /\ JoinOnly

\* The answer replaces the message whose button was pressed.
JoinAnswer(j, m) ==
  /\ m \in sent
  /\ MoveJoin(j, "answer", IF view[j].ended THEN "done" ELSE "asks")
  /\ Rewrite(m, view[j])
  /\ view' = [view EXCEPT ![j] = At("idle").view]
  /\ UNCHANGED <<joined, redraw, forgot>>
  /\ JoinOnly

\* Mutant: nobody looks whether the contest ended meanwhile.
JoinNeverAsks(j) ==
  /\ MoveJoin(j, "asks", "done")
  /\ UNCHANGED <<joined, shown, failed, faults, view, redraw, forgot>>
  /\ JoinOnly

\* redrawIfDrawnSince
JoinAsks(j) ==
  /\ \E drawn \in BOOLEAN :
       /\ Asked(drawn)
       /\ MoveJoin(j, "asks", IF drawn THEN "redraw" ELSE "done")
  /\ UNCHANGED <<joined, view, redraw, forgot>>
  /\ JoinOnly

\* redrawAnnouncements: one pass at a time; the others ask it for another.
JoinRedraws(j) ==
  /\ MoveJoin(j, "redraw", "done")
  /\ IF pass.step = "idle"
     THEN pass' = At("view") /\ again' = FALSE
     ELSE again' = TRUE /\ UNCHANGED pass
  /\ UNCHANGED <<joined, shown, failed, faults, view, answer, forgot>>
  /\ JoinOnly

Join(j) ==
  \/ JoinRead(j) \/ JoinRecord(j) \/ JoinView(j) \/ JoinFails(j)
  \/ JoinAsks(j) \/ JoinRedraws(j)
  \/ \E m \in Messages : JoinAnswer(j, m)

(***************************************************************************)
(* The redraw.                                                             *)
(***************************************************************************)
PassOnly == UNCHANGED <<ended, joined, sent, joins, sender, swap, edit, late>>
PassQuiet == UNCHANGED <<shown, failed, faults>>

\* again = FALSE, then the view and the messages of now (redrawOnce); without
\* them the redraw is over.
PassView ==
  /\ pass.step = "view"
  /\ again' = FALSE
  /\ \/ /\ pass' = [Refreshed EXCEPT !.step = IF sent = {} THEN "next" ELSE @]
        /\ PassQuiet
     \/ pass' = At("idle") /\ Missed(sent)
  /\ UNCHANGED <<answer, forgot>>
  /\ PassOnly

PassWrite(m) ==
  /\ pass.step = "write" /\ m \in pass.left
  /\ Rewrite(m, pass.view)
  /\ pass' = Without(pass, m, [pass EXCEPT !.left = {}, !.step = "next"])
  /\ UNCHANGED <<again, answer, forgot>>
  /\ PassOnly

\* Mutant: a pass that wrote the results looks at the status like any other.
PassAlwaysAsks ==
  /\ pass.step = "next"
  /\ pass' = [pass EXCEPT !.step = IF again THEN "view" ELSE "ask"]
  /\ UNCHANGED <<again, answer, forgot>>
  /\ PassQuiet /\ PassOnly

\* Once the results are written nothing has to be asked.
PassNext ==
  /\ pass.step = "next"
  /\ pass' = IF again THEN At("view")
             ELSE IF pass.view.ended THEN At("idle")
             ELSE [pass EXCEPT !.step = "ask"]
  /\ UNCHANGED <<again, answer, forgot>>
  /\ PassQuiet /\ PassOnly

\* viewChangedSince
PassAsks ==
  /\ pass.step = "ask"
  /\ pass' = [pass EXCEPT !.step = "answered"]
  /\ answer' \in BOOLEAN
  /\ Asked(answer')
  /\ UNCHANGED <<again, forgot>>
  /\ PassOnly

\* Mutant: the loop ends although another pass is wanted.
PassEndsAnyway ==
  /\ pass.step = "answered"
  /\ pass' = At("idle")
  /\ again' = (again \/ answer)
  /\ answer' = FALSE
  /\ UNCHANGED forgot
  /\ PassQuiet /\ PassOnly

\* again is assigned the answer, over what was noted while it was awaited.
PassAnswered ==
  /\ pass.step = "answered"
  /\ again' = answer
  /\ pass' = IF answer THEN At("view") ELSE At("idle")
  /\ forgot' = (forgot \/ (again /\ ~answer))
  /\ answer' = FALSE
  /\ PassQuiet /\ PassOnly

Pass == PassView \/ PassNext \/ PassAsks \/ PassAnswered
        \/ \E m \in Messages : PassWrite(m)

(***************************************************************************)
(* The end of the contest, and the notifier (swapButtons).                 *)
(***************************************************************************)
SwapOnly == UNCHANGED <<joined, sent, joins, sender, redraw, edit, forgot>>

\* The draw, or the cancellation, commits; then the notifier is called.
End ==
  /\ ~ended
  /\ ended' = TRUE
  /\ swap' = At("view")
  /\ UNCHANGED <<shown, failed, faults, late>>
  /\ SwapOnly

\* Who still holds a view from before the end writes it after the results.
HoldsOldView ==
  \/ \E m \in Messages : sending[m] # "no" /\ ~base[m]
  \/ \E e \in Edits : edit[e].step = "write" /\ ~edit[e].view.ended

\* Whoever called the notifier logs its failure.
SwapView ==
  /\ swap.step = "view"
  /\ \/ /\ swap' = IF sent = {} THEN At("done") ELSE Refreshed
        /\ UNCHANGED <<shown, failed, faults>>
     \/ swap' = At("done") /\ Missed(sent)
  /\ late' = (late \/ HoldsOldView)
  /\ UNCHANGED ended
  /\ SwapOnly

SwapWrite(m) ==
  /\ swap.step = "write" /\ m \in swap.left
  /\ Rewrite(m, swap.view)
  /\ swap' = Without(swap, m, At("done"))
  /\ UNCHANGED <<ended, late>>
  /\ SwapOnly

Swap == SwapView \/ \E m \in Messages : SwapWrite(m)

(***************************************************************************)
(* Edits of the post, and deliveries.                                      *)
(***************************************************************************)
PostOnly == UNCHANGED <<ended, joined, joins, redraw, swap, ghosts>>

\* editPublished: contestButton of the row it updated, then the deliveries.
EditView(e) ==
  /\ edit[e].step = "idle"
  /\ edit' = [edit EXCEPT ![e] = IF sent = {} THEN At("done") ELSE Refreshed]
  /\ UNCHANGED <<shown, sent, failed, faults, sender>>
  /\ PostOnly

EditWrite(e, m) ==
  /\ edit[e].step = "write" /\ m \in edit[e].left
  /\ Rewrite(m, edit[e].view)
  /\ edit' = [edit EXCEPT ![e] = Without(@, m, At("done"))]
  /\ UNCHANGED <<sent, sender>>
  /\ PostOnly

\* deliver: the contest is read with the row, before the wait for the slot;
\* the participants are counted when the message is built.
DeliverRead(m) ==
  /\ m \notin sent /\ sending[m] = "no"
  /\ sending' = [sending EXCEPT ![m] = "read"]
  /\ base' = [base EXCEPT ![m] = ended]
  /\ UNCHANGED <<shown, sent, failed, faults, edit>>
  /\ PostOnly

DeliverSend(m) ==
  /\ sending[m] = "read"
  /\ sending' = [sending EXCEPT ![m] = "sent"]
  /\ shown' = [shown EXCEPT ![m] = ViewOf(base[m])]
  /\ UNCHANGED <<sent, failed, faults, base, edit>>
  /\ PostOnly

DeliverRecord(m) ==
  /\ sending[m] = "sent"
  /\ sending' = [sending EXCEPT ![m] = "no"]
  /\ sent' = sent \cup {m}
  /\ base' = [base EXCEPT ![m] = FALSE]
  /\ UNCHANGED <<shown, failed, faults, edit>>
  /\ PostOnly

Next ==
  \/ End \/ Swap \/ Pass
  \/ \E j \in Joins : Join(j)
  \/ \E m \in Messages : DeliverRead(m) \/ DeliverSend(m) \/ DeliverRecord(m)
  \/ \E e \in Edits : EditView(e) \/ \E m \in Messages : EditWrite(e, m)

Spec == Init /\ [][Next]_vars

\* A redraw that runs goes on: its awaits end, with an answer or an error.
FairSpec == Spec /\ WF_vars(Pass)

(***************************************************************************)
(* Properties.                                                             *)
(***************************************************************************)
Quiet ==
  /\ pass.step = "idle" /\ swap.step \in {"idle", "done"}
  /\ \A j \in Joins : pc[j] \in {"new", "done"}
  /\ \A e \in Edits : edit[e].step \in {"idle", "done"}
  /\ \A m \in Messages : sending[m] = "no"

\* Once all is quiet after the end, every message of the announcement shows
\* the results: no late answer, redraw or counter brings the button "join"
\* back - unless the last rewrite of the message failed, or was missed because a
\* query failed (the notifier's, the redraw's, whether the contest is over), or
\* an edit or a delivery still held the view of an open contest when the
\* notifier began, or a request for another pass was overwritten.
ResultsStay == (Quiet /\ ended /\ ~late /\ ~forgot) =>
  \A m \in sent : shown[m].ended \/ failed[m]

\* The redraw repeats itself only while somebody joins or the contest ends:
\* every run of it comes to an end.
RedrawEnds == pass.step # "idle" ~> pass.step = "idle"

\* "The others only note that another pass is needed, and the pass repeats
\* with fresh data" (redrawAnnouncements): when all is quiet, the counter of an
\* open contest is the number of its participants.
CounterIsFresh == (Quiet /\ ~ended) =>
  \A m \in sent : shown[m].count = Cardinality(joined) \/ failed[m]

\* The messages have their types, and the end of the contest stays on them.
ResultsSound == TypeOK /\ ResultsStay

=============================================================================
