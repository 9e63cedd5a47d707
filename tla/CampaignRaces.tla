--------------------------- MODULE CampaignRaces ---------------------------
(***************************************************************************)
(* A campaign whose draft is edited while another request sends it:        *)
(* editDraft replaces its target groups, so here a row can be missing      *)
(* ("none").                                                               *)
(***************************************************************************)
EXTENDS Campaign

CONSTANT
  Editors       \* requests that edit the draft

VARIABLES
  editPc,     \* where each edit is
  drop, add,  \* the groups it will remove and add, once it has read the rows
  gone        \* groups whose row an edit has deleted

edits == <<editPc, drop, add, gone>>
rvars == <<vars, edits>>

Present == {g \in Groups : row[g] # "none"}

\* The draft, with some of the groups for its targets.
RacesInit ==
  /\ \E targets \in SUBSET Groups \ {{}} :
       row = [g \in Groups |-> IF g \in targets THEN "pending" ELSE "none"]
  /\ status \in {"draft", "scheduled"}
  /\ stopRequested = FALSE
  /\ published = [g \in Groups |-> 0]
  /\ dispatchJob = "none"
  /\ job = [g \in Groups |-> "none"]
  /\ tried = [g \in Groups |-> 0]
  /\ pc = [g \in Groups |-> [w \in Runners |-> "idle"]]
  /\ dispatchPc = "idle"
  /\ requestPc = [r \in Requests |-> "new"]
  /\ sweepPc = "idle"
  /\ stuck = {}
  /\ crashes = 0
  /\ faults = 0
  /\ editPc = [e \in Editors |-> "new"]
  /\ drop = [e \in Editors |-> {}]
  /\ add = [e \in Editors |-> {}]
  /\ gone = {}

(***************************************************************************)
(* editDraft: the status is checked, then the rows are read, then one      *)
(* transaction replaces them; nothing checks the status again.             *)
(***************************************************************************)
EditOnly == UNCHANGED <<status, stopRequested, published, queues, handler,
                        budget>>

EditCheck(e) ==
  /\ editPc[e] = "new"
  /\ status = "draft"
  /\ editPc' = [editPc EXCEPT ![e] = "read"]
  /\ UNCHANGED <<row, drop, add, gone>>
  /\ EditOnly

\* The form asks for the groups chosen.  A group once removed is not chosen
\* again (and an edit that would is left out): its new row would be another
\* delivery, with a job of its own.
EditRead(e, chosen) ==
  /\ editPc[e] = "read"
  /\ chosen # {}
  /\ chosen \cap gone = {}
  /\ drop' = [drop EXCEPT ![e] = Present \ chosen]
  /\ add' = [add EXCEPT ![e] = chosen \ Present]
  /\ editPc' = [editPc EXCEPT ![e] = "write"]
  /\ UNCHANGED <<row, gone>>
  /\ EditOnly

\* A row that appeared meanwhile violates the unique key: nothing is written.
EditCommit(e) ==
  /\ editPc[e] = "write"
  /\ editPc' = [editPc EXCEPT ![e] = "done"]
  /\ add[e] \cap (Present \cup gone) = {}
  /\ row' = [g \in Groups |-> IF g \in drop[e] THEN "none"
                              ELSE IF g \in add[e] THEN "pending" ELSE row[g]]
  /\ gone' = gone \cup (drop[e] \cap Present)
  /\ UNCHANGED <<drop, add>>
  /\ EditOnly

EditRefused(e) ==
  /\ editPc[e] = "write"
  /\ add[e] \cap Present # {}
  /\ editPc' = [editPc EXCEPT ![e] = "done"]
  /\ UNCHANGED <<row, drop, add, gone>>
  /\ EditOnly

(***************************************************************************)
(* deliver() over a row that is gone: every update throws.                 *)
(***************************************************************************)
DeliverMissing(g, w) ==
  /\ row[g] = "none"
  /\ \/ /\ pc[g][w] \in {"skip", "limit", "ambiguous", "retryable", "permanent"}
        /\ JobThrown(g, w)
     \/ /\ At(g, w, "published")
        /\ Goto(g, w, "finalize")
        /\ UNCHANGED <<job, tried>>
  /\ UNCHANGED <<row, published, edits>>
  /\ DeliverOnly

\* A crash ends the edits too.
Together ==
  /\ Next
  /\ editPc' = IF crashes' = crashes THEN editPc
               ELSE [e \in Editors |-> IF editPc[e] = "new" THEN "new"
                                       ELSE "done"]
  /\ UNCHANGED <<drop, add, gone>>

RacesNext ==
  \/ Together
  \/ \E e \in Editors :
       \/ EditCheck(e)
       \/ \E chosen \in SUBSET Groups : EditRead(e, chosen)
       \/ EditCommit(e)
       \/ EditRefused(e)
  \/ \E g \in Groups, w \in Runners : DeliverMissing(g, w)

RacesSpec == RacesInit /\ [][RacesNext]_rvars

(***************************************************************************)
(* What a comment of the code says, and its steps do not keep (README).    *)
(***************************************************************************)

\* editDraft: only deliveries not started can be deleted safely, and for a
\* draft those are all of them.
OnlyUnstartedDeleted ==
  [][\A g \in Groups : row[g] # "none" /\ row'[g] = "none"
                         => row[g] = "pending"]_rvars
=============================================================================
