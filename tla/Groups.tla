------------------------------- MODULE Groups -------------------------------
(***************************************************************************)
(* The Group rows of one MAX chat and of one VK community (GroupsService): *)
(* the bot is added and removed, admins confirm, reject, disconnect, tag   *)
(* and connect, a delivery the platform refuses flags its group.  What a   *)
(* handler reads and what it writes are separate steps, and the audit      *)
(* record of a change is the last of them: the database may fail before    *)
(* it, and a record that fails is given up silently (AuditService).        *)
(*                                                                         *)
(* Titles and kinds are left out.  A row that does not exist has id 0.     *)
(***************************************************************************)
EXTENDS Naturals

CONSTANTS
  Requests,   \* updates of the bot and requests of admins, one each
  Tags,       \* tag lists
  NoTags,     \* the empty list
  MaxRows     \* bound: rows the chat gets, one after the other

\* What the constants must be (MCRecords assumes it of those of its run).
GroupsAssumption == NoTags \in Tags /\ MaxRows \in Nat

VARIABLES
  row,        \* the row of the chat and the row of the community
  ids,        \* rows there were
  history,    \* does the row have deliveries or contests that refer to it?
  flight,     \* deliveries under way
  pc, op, target, seen, new,   \* each request, what it read and will write
  changed, logged,  \* did the request change the row; did it record it?
  failed,     \* history: requests the database failed, or that failed to record
  approved,   \* ghost: has an admin confirmed the chat since it was a draft
  overwritten \* ghost: a refused delivery flagged a draft or a removed row

request == <<pc, op, target, seen, new>>
audit   == <<changed, logged, failed>>
ghosts  == <<approved, overwritten>>
vars    == <<row, ids, history, flight, request, audit, ghosts>>

Platforms == {"max", "vk"}
Statuses  == {"pending_confirmation", "active", "bot_removed", "token_invalid",
              "removed"}
Row       == [id : 0 .. MaxRows + 1, status : Statuses \cup {"none"}, tags : Tags]
NoRow     == [id |-> 0, status |-> "none", tags |-> NoTags]
Ops       == {"none", "added", "confirm", "reject", "deactivate", "tags",
              "connect", "replace"}
Stages    == {"new", "write", "again", "fallback", "read", "settle", "reread", "audit",
              "done", "refused", "error"}

TypeOK ==
  /\ row \in [Platforms -> Row]
  /\ \A p \in Platforms : row[p].id = 0 <=> row[p].status = "none"
  /\ ids \in 0 .. MaxRows + 1
  /\ history \in [Platforms -> BOOLEAN]
  /\ flight \in [Platforms -> BOOLEAN]
  /\ pc \in [Requests -> Stages]
  /\ op \in [Requests -> Ops]
  /\ target \in [Requests -> Platforms]
  /\ seen \in [Requests -> Row]
  /\ new \in [Requests -> Tags \cup {"kept"}]
  /\ changed \in [Requests -> BOOLEAN] /\ logged \in [Requests -> BOOLEAN]
  /\ failed \subseteq Requests
  /\ approved \in BOOLEAN /\ overwritten \in BOOLEAN

Init ==
  /\ row = [p \in Platforms |-> NoRow]
  /\ ids = 0
  /\ history = [p \in Platforms |-> FALSE]
  /\ flight = [p \in Platforms |-> FALSE]
  /\ pc = [r \in Requests |-> "new"]
  /\ op = [r \in Requests |-> "none"]
  /\ target = [r \in Requests |-> "max"]
  /\ seen = [r \in Requests |-> NoRow]
  /\ new = [r \in Requests |-> "kept"]
  /\ changed = [r \in Requests |-> FALSE]
  /\ logged = [r \in Requests |-> FALSE]
  /\ failed = {}
  /\ approved = FALSE /\ overwritten = FALSE

Status(p) == row[p].status
Exists(p) == row[p].id # 0
Pending   == Status("max") = "pending_confirmation"
IsSeen(r) == row[target[r]].id = seen[r].id

Step(r, from, to) ==
  /\ pc[r] = from
  /\ pc' = [pc EXCEPT ![r] = to]

\* A handler reads the row of its group, then goes on or refuses.
Begin(r, name, p, tags, ok) ==
  /\ Step(r, "new", IF ok THEN "write" ELSE "refused")
  /\ op' = [op EXCEPT ![r] = name]
  /\ target' = [target EXCEPT ![r] = p]
  /\ seen' = [seen EXCEPT ![r] = row[p]]
  /\ new' = [new EXCEPT ![r] = tags]
  /\ UNCHANGED <<row, ids, history, flight, audit, ghosts>>

Writing(r, name, from) == pc[r] = from /\ op[r] = name

\* Every write of the chat's row: who confirmed it is known as long as it
\* is neither a draft nor disconnected.
Write(r, p, value) ==
  /\ row' = [row EXCEPT ![p] = value]
  /\ changed' = [changed EXCEPT ![r] =
       @ \/ value.status # row[p].status \/ value.tags # row[p].tags]
  /\ approved' = IF p = "max"
                 THEN /\ value.status \notin {"none", "pending_confirmation", "removed"}
                      /\ approved \/ op[r] = "confirm"
                 ELSE approved
  /\ UNCHANGED <<flight, op, target, seen, new, logged, failed, overwritten>>

NoWrite ==
  UNCHANGED <<row, ids, history, flight, op, target, seen, new, audit, ghosts>>

\* The handlers read the row again after their write, and throw if it is gone:
\* what they changed is not recorded then.
Reread(r) ==
  /\ Step(r, "reread", IF IsSeen(r) THEN "audit" ELSE "error")
  /\ NoWrite

\* The same where there is nothing to record.
Settle(r) ==
  /\ Step(r, "settle", IF IsSeen(r) THEN "done" ELSE "error")
  /\ NoWrite

Chosen(r, old) == IF new[r] = "kept" THEN old ELSE new[r]

(***************************************************************************)
(* The bot is added to the chat and removed from it.                       *)
(***************************************************************************)
AddedFind(r) == Begin(r, "added", "max", "kept", TRUE)

\* Mutant: a chat an admin disconnected comes back with the bot.
ForgetsRemoved(status) ==
  IF status = "pending_confirmation" THEN "pending_confirmation" ELSE "active"

\* maxDraftStatus: a chat that was confirmed once needs no confirmation.
DraftStatus(status) ==
  IF status \in {"pending_confirmation", "removed"}
  THEN "pending_confirmation" ELSE "active"

\* No row was found: create it, unless another update just did.
AddedCreate(r) ==
  /\ Writing(r, "added", "write") /\ seen[r].id = 0
  /\ IF Exists("max")
     THEN Step(r, "write", "again") /\ NoWrite
     ELSE /\ ids < MaxRows
          /\ Step(r, "write", "audit")
          /\ ids' = ids + 1
          /\ Write(r, "max", [id |-> ids + 1, status |-> "pending_confirmation",
                              tags |-> NoTags])
          /\ UNCHANGED history

\* The create failed: look the row up again; it may have been rejected.
AddedConverge(r) ==
  /\ Writing(r, "added", "again")
  /\ Step(r, "again", IF Exists("max") THEN "write" ELSE "error")
  /\ seen' = [seen EXCEPT ![r] = row["max"]]
  /\ UNCHANGED <<row, ids, history, flight, op, target, new, audit, ghosts>>

\* reactivateMaxGroup: the status is written if it still is the one read; else
\* only the title is, by the row's id.
AddedReactivate(r) ==
  LET status == DraftStatus(seen[r].status)
  IN  /\ Writing(r, "added", "write") /\ seen[r].id # 0
      /\ IF IsSeen(r) /\ Status("max") = seen[r].status
         THEN /\ Step(r, "write",
                      IF status # seen[r].status THEN "reread" ELSE "settle")
              /\ Write(r, "max", [row["max"] EXCEPT !.status = status])
              /\ UNCHANGED <<ids, history>>
         ELSE Step(r, "write", "settle") /\ NoWrite

\* markMaxGroupBotRemoved: one statement; a draft stays a draft.
BotRemoved ==
  /\ Status("max") \in {"active", "token_invalid"}
  /\ row' = [row EXCEPT !["max"].status = "bot_removed"]
  /\ UNCHANGED <<ids, history, flight, request, audit, ghosts>>

(***************************************************************************)
(* Admins review the draft, in the panel or by the buttons of the message. *)
(***************************************************************************)
Review(r, name, tags) ==
  /\ Exists("max")
  /\ Begin(r, name, "max", tags, Pending)

\* Mutant: the draft found is confirmed, whatever became of it since.
ConfirmsBlindly(r) ==
  /\ Writing(r, "confirm", "write")
  /\ Step(r, "write", "reread")
  /\ Write(r, "max", [row["max"] EXCEPT !.status = "active",
                                        !.tags = Chosen(r, seen[r].tags)])
  /\ UNCHANGED <<ids, history>>

ConfirmWrite(r) ==
  /\ Writing(r, "confirm", "write")
  /\ IF IsSeen(r) /\ Pending
     THEN /\ Step(r, "write", "reread")
          /\ Write(r, "max", [row["max"] EXCEPT !.status = "active",
                                                !.tags = Chosen(r, seen[r].tags)])
          /\ UNCHANGED <<ids, history>>
     ELSE Step(r, "write", "read") /\ NoWrite

\* Not this request confirmed it: fine if somebody else did.  It throws if the
\* draft is gone.
ConfirmRead(r) ==
  /\ Writing(r, "confirm", "read")
  /\ Step(r, "read", IF ~IsSeen(r) THEN "error"
                     ELSE IF Status("max") = "active" THEN "done" ELSE "refused")
  /\ NoWrite

\* The draft is deleted; one that other rows refer to cannot be.
RejectDelete(r) ==
  /\ Writing(r, "reject", "write")
  /\ IF ~IsSeen(r) \/ ~Pending
     THEN Step(r, "write", "refused") /\ NoWrite
     ELSE IF history["max"]
          THEN Step(r, "write", "fallback") /\ NoWrite
          ELSE /\ Step(r, "write", "audit")
               /\ Write(r, "max", NoRow)
               /\ UNCHANGED <<ids, history>>

RejectFallback(r) ==
  /\ Writing(r, "reject", "fallback")
  /\ IF IsSeen(r) /\ Pending
     THEN /\ Step(r, "fallback", "audit")
          /\ Write(r, "max", [row["max"] EXCEPT !.status = "removed"])
          /\ UNCHANGED <<ids, history>>
     ELSE Step(r, "fallback", "refused") /\ NoWrite

(***************************************************************************)
(* Disconnecting and tagging, on either platform.                          *)
(***************************************************************************)
DeactivateFind(r, p) ==
  /\ Exists(p)
  /\ Begin(r, "deactivate", p, "kept", Status(p) # "removed")

DeactivateWrite(r) ==
  LET p == target[r]
  IN  /\ Writing(r, "deactivate", "write")
      /\ IF IsSeen(r) /\ Status(p) # "removed"
         THEN /\ Step(r, "write", "reread")
              /\ Write(r, p, [row[p] EXCEPT !.status = "removed"])
              /\ UNCHANGED <<ids, history>>
         ELSE Step(r, "write", "refused") /\ NoWrite

TagsFind(r, p, tags) ==
  /\ Exists(p)
  /\ Begin(r, "tags", p, tags, TRUE)

\* Mutant: tags are written whoever changed them since.
TagsOverwrite(r) ==
  LET p == target[r]
  IN  /\ Writing(r, "tags", "write")
      /\ IF IsSeen(r)
         THEN /\ Step(r, "write", IF new[r] # seen[r].tags THEN "reread" ELSE "settle")
              /\ Write(r, p, [row[p] EXCEPT !.tags = new[r]])
              /\ UNCHANGED <<ids, history>>
         ELSE Step(r, "write", "settle") /\ NoWrite

\* The tags are written if they still are those read.
TagsWrite(r) ==
  LET p == target[r]
  IN  /\ Writing(r, "tags", "write")
      /\ IF IsSeen(r) /\ row[p].tags = seen[r].tags
         THEN /\ Step(r, "write", IF new[r] # seen[r].tags THEN "reread" ELSE "settle")
              /\ Write(r, p, [row[p] EXCEPT !.tags = new[r]])
              /\ UNCHANGED <<ids, history>>
         ELSE Step(r, "write", "settle") /\ NoWrite

(***************************************************************************)
(* A VK community is connected, or gets a new token.                       *)
(***************************************************************************)
ConnectFind(r, tags) == Begin(r, "connect", "vk", tags, TRUE)

\* Mutant: the loser of two creations gets the database's error.
ConnectClashes(r) ==
  /\ Writing(r, "connect", "write")
  /\ IF seen[r].id = 0 /\ Exists("vk")
     THEN Step(r, "write", "error") /\ NoWrite
     ELSE /\ Step(r, "write", "audit")
          /\ Write(r, "vk", [id |-> 1, status |-> "active",
                             tags |-> Chosen(r, seen[r].tags)])
          /\ UNCHANGED <<ids, history>>

\* upsertVkGroupByExternalId
ConnectWrite(r) ==
  /\ Writing(r, "connect", "write")
  /\ IF seen[r].id = 0 /\ Exists("vk")
     THEN Step(r, "write", "again") /\ NoWrite
     ELSE /\ Step(r, "write", "audit")
          /\ Write(r, "vk", [id |-> 1, status |-> "active",
                             tags |-> Chosen(r, seen[r].tags)])
          /\ UNCHANGED <<ids, history>>

ConnectConverge(r) ==
  /\ Writing(r, "connect", "again")
  /\ Step(r, "again", "write")
  /\ seen' = [seen EXCEPT ![r] = row["vk"]]
  /\ UNCHANGED <<row, ids, history, flight, op, target, new, audit, ghosts>>

\* The token must be of the same community; VK may refuse it.
ReplaceFind(r) ==
  /\ Exists("vk")
  /\ \E valid \in BOOLEAN : Begin(r, "replace", "vk", "kept", valid)

ReplaceWrite(r) ==
  /\ Writing(r, "replace", "write")
  /\ Step(r, "write", "audit")
  /\ Write(r, "vk", [row["vk"] EXCEPT !.status = "active"])
  /\ UNCHANGED <<ids, history>>

\* The last step of a request that changed something: its audit record, and a
\* record that fails is logged and forgotten.
Record(r) ==
  /\ Step(r, "audit", "done")
  /\ \/ logged' = [logged EXCEPT ![r] = TRUE] /\ UNCHANGED failed
     \/ failed' = failed \cup {r} /\ UNCHANGED logged
  /\ UNCHANGED <<row, ids, history, flight, op, target, seen, new, changed, ghosts>>

\* The database fails a request, or the process dies: nothing resumes it.
Fails(r) ==
  /\ pc[r] \in Stages \ {"new", "done", "refused", "error"}
  /\ Step(r, pc[r], "error")
  /\ failed' = failed \cup {r}
  /\ UNCHANGED <<row, ids, history, flight, op, target, seen, new, changed, logged,
                 ghosts>>

(***************************************************************************)
(* Deliveries: targets are active when a campaign is created; nothing asks *)
(* again when it is sent.  A refusal for access flags the group.           *)
(***************************************************************************)
TargetChosen(p) ==
  /\ Status(p) = "active" /\ ~history[p]
  /\ history' = [history EXCEPT ![p] = TRUE]
  /\ UNCHANGED <<row, ids, flight, request, audit, ghosts>>

DeliveryStarts(p) ==
  /\ history[p] /\ ~flight[p]
  /\ flight' = [flight EXCEPT ![p] = TRUE]
  /\ UNCHANGED <<row, ids, history, request, audit, ghosts>>

DeliveryEnds(p) ==
  /\ flight[p]
  /\ flight' = [flight EXCEPT ![p] = FALSE]
  /\ UNCHANGED <<row, ids, history, request, audit, ghosts>>

Problem(p) == IF p = "max" THEN "bot_removed" ELSE "token_invalid"

DeliveryRefused(p) ==
  /\ flight[p]
  /\ flight' = [flight EXCEPT ![p] = FALSE]
  /\ row' = [row EXCEPT ![p].status = Problem(p)]
  /\ overwritten' = (overwritten \/
       (p = "max" /\ Status(p) \in {"pending_confirmation", "removed"}))
  /\ UNCHANGED <<ids, history, request, audit, approved>>

Handle(r) ==
  \/ AddedFind(r) \/ AddedCreate(r) \/ AddedConverge(r) \/ AddedReactivate(r)
  \/ \E tags \in Tags \cup {"kept"} : Review(r, "confirm", tags)
  \/ Review(r, "reject", "kept")
  \/ ConfirmWrite(r) \/ ConfirmRead(r) \/ RejectDelete(r) \/ RejectFallback(r)
  \/ \E p \in Platforms : DeactivateFind(r, p)
  \/ \E p \in Platforms, tags \in Tags : TagsFind(r, p, tags)
  \/ DeactivateWrite(r) \/ TagsWrite(r)
  \/ \E tags \in Tags \cup {"kept"} : ConnectFind(r, tags)
  \/ ConnectWrite(r) \/ ConnectConverge(r) \/ ReplaceFind(r) \/ ReplaceWrite(r)
  \/ Reread(r) \/ Settle(r) \/ Record(r) \/ Fails(r)

Next ==
  \/ BotRemoved
  \/ \E r \in Requests : Handle(r)
  \/ \E p \in Platforms :
       TargetChosen(p) \/ DeliveryStarts(p) \/ DeliveryEnds(p) \/ DeliveryRefused(p)

Spec == Init /\ [][Next]_vars

(***************************************************************************)
(* Properties.                                                             *)
(***************************************************************************)
\* A chat is a target only if an admin confirmed it since it was a draft or
\* was disconnected: no order of the bot's events, reviews and disconnections
\* makes it active otherwise (maxDraftStatus).
ApprovedIfActive == Status("max") = "active" => approved

\* The same where no refused delivery overwrote a draft or a removed row.
ApprovedUnlessFlagged == overwritten \/ ApprovedIfActive

\* A record tells of a change its request made, so that repeated events and
\* double clicks leave one.  A change goes unrecorded only if the database failed
\* the request or its record, or its group was deleted before it read it again.
Silent == {"connect", "replace"}
AuditIsTrue == \A r \in Requests : op[r] \notin Silent =>
  /\ logged[r] => changed[r]
  /\ pc[r] \in {"done", "refused", "error"} /\ changed[r] /\ ~logged[r]
       => r \in failed \/ (pc[r] = "error" /\ ~IsSeen(r))

\* Two connections of one community, or two updates of one chat, converge on
\* its row: the only ones that fail, but by the database, found their row and
\* then lost it.
Converges == \A r \in Requests :
  pc[r] = "error" => \/ r \in failed
                     \/ target[r] = "max" /\ (seen[r].id # 0 => ~IsSeen(r))

\* All of it at once: the rows have their types, records and changes agree but
\* for what failed, and crossing connections converge.
GroupsSound == TypeOK /\ AuditIsTrue /\ Converges

=============================================================================
