--------------------------- MODULE RecordsProofs ---------------------------
(***************************************************************************)
(* Proofs about Groups, MediaLibrary and EndWarning, as MCRecords puts them *)
(* together: what its run checks of them on small sets holds for every     *)
(* number of requests, uploads, tags, files, rows, sweeps, forms, faults.  *)
(***************************************************************************)
EXTENDS MCRecords, Sequences, FiniteSetTheorems, TLAPS

USE RecordsAssumption

-----------------------------------------------------------------------------
(***************************************************************************)
(* Groups.                                                                 *)
(***************************************************************************)

\* A group with deliveries or contests keeps its row: what is under way was
\* chosen, and what was chosen has a row.  Ids of the chat only grow.
RowsStand ==
  /\ \A p \in G!Platforms : flight[p] => history[p]
  /\ \A p \in G!Platforms : history[p] => row[p].id # 0
  /\ row["max"].id <= ids
  /\ row["vk"].id \in {0, 1}

\* What a request read says what it is about, and still holds as far as it
\* must: an id it read was given before, and a community keeps its row.
Knows(r) ==
  /\ op[r] \in {"added", "confirm", "reject"} => target[r] = "max"
  /\ op[r] \in {"connect", "replace"} => target[r] = "vk"
  /\ op[r] \in {"confirm", "reject", "deactivate", "tags"} => seen[r].id # 0
  /\ op[r] = "tags" => new[r] \in Tags
  /\ op[r] = "replace" => row["vk"].id # 0
  /\ target[r] = "max" => seen[r].id <= ids
  /\ (target[r] = "vk" /\ seen[r].id # 0) => row["vk"].id = seen[r].id

RequestsKnow == \A r \in Requests : Knows(r)

\* A request has changed nothing before its write, and its record follows unless
\* something failed; it reads again, or finds gone, the row it had read.
Audited(r) ==
  /\ pc[r] \notin {"reread", "audit", "done", "error"} => ~changed[r] /\ ~logged[r]
  /\ (pc[r] \in {"reread", "audit"} /\ op[r] \notin G!Silent) => changed[r] /\ ~logged[r]
  /\ (pc[r] \in {"done", "error"} /\ op[r] \notin G!Silent) =>
       /\ logged[r] => changed[r]
       /\ changed[r] /\ ~logged[r] => r \in failed \/ (pc[r] = "error" /\ seen[r].id # 0)
  /\ pc[r] \in {"settle", "reread"} => seen[r].id # 0

AuditInv == \A r \in Requests : Audited(r)

\* Whatever status says that the chat was confirmed once is right.
ApprovedInv ==
  overwritten \/ (row["max"].status \in {"active", "bot_removed", "token_invalid"} => approved)

GroupsInv == G!TypeOK /\ RowsStand /\ RequestsKnow /\ AuditInv /\ G!Converges /\ ApprovedInv

LEMMA GroupsConstants == NoTags \in Tags /\ MaxRows \in Nat
BY RecordsAssumption DEF G!GroupsAssumption

LEMMA GroupsStart == G!Init => GroupsInv
<1>1. NoTags \in Tags /\ MaxRows \in Nat
  BY GroupsConstants
<1>. SUFFICES ASSUME G!Init PROVE GroupsInv
  OBVIOUS
<1>. USE DEF G!Init
<1>2. G!NoRow \in G!Row
  BY <1>1, SMT DEF G!NoRow, G!Row
<1>3. G!TypeOK
  <2>1. row \in [G!Platforms -> G!Row]
    BY <1>2
  <2>2. \A p \in G!Platforms : row[p].id = 0 <=> row[p].status = "none"
    BY DEF G!NoRow
  <2>3. ids \in 0 .. MaxRows + 1
    BY <1>1
  <2>6. /\ history \in [G!Platforms -> BOOLEAN]
        /\ flight \in [G!Platforms -> BOOLEAN]
        /\ approved \in BOOLEAN /\ overwritten \in BOOLEAN
        /\ changed \in [Requests -> BOOLEAN] /\ logged \in [Requests -> BOOLEAN]
    BY Zenon
  <2>4. /\ pc \in [Requests -> G!Stages]
        /\ op \in [Requests -> G!Ops]
        /\ target \in [Requests -> G!Platforms]
    BY DEF G!Ops, G!Platforms, G!Stages
  <2>5. /\ seen \in [Requests -> G!Row] /\ new \in [Requests -> Tags \cup {"kept"}]
        /\ failed \subseteq Requests
    BY <1>2
  <2>. QED
    BY <2>1, <2>2, <2>3, <2>4, <2>5, <2>6 DEF G!TypeOK
<1>4. row["max"] = G!NoRow /\ row["vk"] = G!NoRow
  BY DEF G!Platforms
<1>5. RowsStand
  BY <1>1, <1>4 DEF RowsStand, G!Platforms, G!NoRow
<1>6. RequestsKnow
  BY <1>1, <1>4 DEF RequestsKnow, Knows, G!NoRow
<1>7. AuditInv /\ G!Converges
  BY DEF AuditInv, Audited, G!Converges
<1>8. ApprovedInv
  BY <1>4 DEF ApprovedInv, G!NoRow
<1>. QED
  BY <1>3, <1>5, <1>6, <1>7, <1>8 DEF GroupsInv

\* What a request may do to the groups, whichever handler it is in: it reads
\* its row and begins, ...
Begins(r) ==
  \E name \in G!Ops, p \in G!Platforms, tags \in Tags \cup {"kept"}, ok \in BOOLEAN :
    /\ name \in {"added", "confirm", "reject"} => p = "max"
    /\ name \in {"connect", "replace"} => p = "vk"
    /\ name \in {"confirm", "reject", "deactivate", "tags", "replace"} => row[p].id # 0
    /\ name = "tags" => tags \in Tags
    /\ G!Begin(r, name, p, tags, ok)

\* ... or goes on without a write: it fails where its row is gone, ...
Waits == {"write", "fallback", "read", "settle", "reread"}
Turns == {"again", "fallback", "read", "settle", "audit", "done", "refused", "error"}

GoesOn(r) ==
  \E from \in Waits, to \in Turns :
    /\ G!Step(r, from, to) /\ G!NoWrite
    /\ to = "error" => target[r] = "max" /\ seen[r].id # 0 /\ ~G!IsSeen(r)
    /\ from = "reread" => to \in {"audit", "error"}
    /\ to = "audit" => from = "reread"
    /\ to = "settle" => seen[r].id # 0

\* ... or reads its row again after another one created it, ...
Rereads(r) ==
  \E to \in {"write", "error"} :
    /\ G!Step(r, "again", to)
    /\ op[r] \in {"added", "connect"}
    /\ seen' = [seen EXCEPT ![r] = row[target[r]]]
    /\ to = "error" => target[r] = "max" /\ row["max"].id = 0
    /\ UNCHANGED <<row, ids, history, flight, op, target, new, changed, logged, failed,
                   approved, overwritten>>

\* ... or writes its row.  The id stays, is the next one, is given up by a row
\* nothing refers to, or is the community's; a record follows what changed; and
\* only a confirmation makes a chat confirmed.
Confirmed == {"active", "bot_removed", "token_invalid"}
Written   == {"audit", "reread", "settle"}

Writes(r) ==
  \E p \in G!Platforms, value \in G!Row, to \in Written :
    /\ p = target[r] /\ pc[r] \in {"write", "fallback"}
    /\ pc' = [pc EXCEPT ![r] = to]
    /\ G!Write(r, p, value)
    /\ history' = history
    /\ value.id = 0 <=> value.status = "none"
    /\ \/ value.id = row[p].id /\ value.id # 0 /\ ids' = ids
       \/ p = "max" /\ value.id = ids + 1 /\ ids' = ids + 1 /\ ids < MaxRows
            /\ row["max"].id = 0
       \/ p = "max" /\ value.id = 0 /\ ~history["max"] /\ ids' = ids
       \/ p = "vk" /\ value.id = 1 /\ ids' = ids
    /\ op[r] \notin G!Silent =>
         (to # "settle" <=> value.status # row[p].status \/ value.tags # row[p].tags)
    /\ op[r] \in G!Silent => to = "audit"
    /\ to # "audit" => seen[r].id # 0
    /\ (p = "max" /\ value.status \in Confirmed) =>
         op[r] = "confirm" \/ row["max"].status \in Confirmed

Acts(r) ==
  Begins(r) \/ GoesOn(r) \/ Rereads(r) \/ Writes(r) \/ G!Record(r) \/ G!Fails(r)

\* The parts of the types that the handlers' writes are about.
LEMMA RowTyped ==
  ASSUME GroupsInv
  PROVE  /\ row["max"] \in G!Row /\ row["vk"] \in G!Row /\ ids \in 0 .. MaxRows + 1
         /\ row["max"].id = 0 <=> row["max"].status = "none"
         /\ row["vk"].id = 0 <=> row["vk"].status = "none"
         /\ "max" \in G!Platforms /\ "vk" \in G!Platforms
         /\ \A p \in G!Platforms : p = "max" \/ p = "vk"
BY Zenon DEF GroupsInv, G!TypeOK, G!Platforms

LEMMA RequestTyped ==
  ASSUME GroupsInv, NEW r \in Requests
  PROVE  /\ seen[r] \in G!Row /\ target[r] \in G!Platforms /\ row[target[r]] \in G!Row
         /\ new[r] \in Tags \cup {"kept"}
         /\ row[target[r]].id = 0 <=> row[target[r]].status = "none"
BY Zenon DEF GroupsInv, G!TypeOK

LEMMA FindsBegin ==
  ASSUME GroupsInv, NEW r \in Requests
  PROVE  /\ G!AddedFind(r) => Begins(r)
         /\ \A tags \in Tags \cup {"kept"} : G!Review(r, "confirm", tags) => Begins(r)
         /\ G!Review(r, "reject", "kept") => Begins(r)
         /\ \A p \in G!Platforms : G!DeactivateFind(r, p) => Begins(r)
         /\ \A p \in G!Platforms, tags \in Tags : G!TagsFind(r, p, tags) => Begins(r)
         /\ \A tags \in Tags \cup {"kept"} : G!ConnectFind(r, tags) => Begins(r)
         /\ G!ReplaceFind(r) => Begins(r)
<1>. USE DEF G!Ops, G!Platforms
<1>1. G!AddedFind(r) => Begins(r)
  BY DEF G!AddedFind, Begins
<1>2. ASSUME NEW tags \in Tags \cup {"kept"}, G!Review(r, "confirm", tags) PROVE Begins(r)
  <2>1. /\ G!Begin(r, "confirm", "max", tags, G!Pending) /\ G!Pending \in BOOLEAN
        /\ row["max"].id # 0
    BY <1>2 DEF G!Review, G!Pending, G!Exists
  <2>. QED
    BY <2>1 DEF Begins
<1>3. ASSUME G!Review(r, "reject", "kept") PROVE Begins(r)
  <2>1. /\ G!Begin(r, "reject", "max", "kept", G!Pending) /\ G!Pending \in BOOLEAN
        /\ row["max"].id # 0
    BY <1>3 DEF G!Review, G!Pending, G!Exists
  <2>. QED
    BY <2>1 DEF Begins
<1>4. ASSUME NEW p \in G!Platforms, G!DeactivateFind(r, p) PROVE Begins(r)
  <2>1. row[p].id # 0 /\ G!Begin(r, "deactivate", p, "kept", G!Status(p) # "removed")
    BY <1>4 DEF G!DeactivateFind, G!Exists
  <2>. QED
    BY <2>1 DEF Begins
<1>5. ASSUME NEW p \in G!Platforms, NEW tags \in Tags, G!TagsFind(r, p, tags) PROVE Begins(r)
  <2>1. row[p].id # 0 /\ G!Begin(r, "tags", p, tags, TRUE)
    BY <1>5 DEF G!TagsFind, G!Exists
  <2>. QED
    BY <2>1 DEF Begins
<1>6. ASSUME NEW tags \in Tags \cup {"kept"}, G!ConnectFind(r, tags) PROVE Begins(r)
  BY <1>6 DEF G!ConnectFind, Begins
<1>7. ASSUME G!ReplaceFind(r) PROVE Begins(r)
  BY <1>7 DEF G!ReplaceFind, G!Exists, Begins
<1>. QED
  BY <1>1, <1>2, <1>3, <1>4, <1>5, <1>6, <1>7

LEMMA AddsAct ==
  ASSUME GroupsInv, NEW r \in Requests,
         G!AddedCreate(r) \/ G!AddedConverge(r) \/ G!AddedReactivate(r)
  PROVE  Acts(r)
<1>1. /\ NoTags \in Tags /\ MaxRows \in Nat
      /\ row["max"] \in G!Row /\ ids \in 0 .. MaxRows + 1
      /\ row["max"].id = 0 <=> row["max"].status = "none"
      /\ "max" \in G!Platforms
  BY GroupsConstants, RowTyped
<1>2. op[r] = "added" => target[r] = "max"
  BY DEF GroupsInv, RequestsKnow, Knows
<1>. HIDE DEF GroupsInv
<1>3. ASSUME G!AddedCreate(r) PROVE Acts(r)
  <2>1. op[r] = "added" /\ pc[r] = "write" /\ target[r] = "max"
    BY <1>2, <1>3 DEF G!AddedCreate, G!Writing
  <2>2. CASE G!Exists("max")
    BY <1>3, <2>2, Zenon DEF G!AddedCreate, Acts, GoesOn, Waits, Turns
  <2>3. CASE ~G!Exists("max")
    <3>. DEFINE value == [id |-> ids + 1, status |-> "pending_confirmation", tags |-> NoTags]
    <3>1. /\ ids < MaxRows /\ G!Step(r, "write", "audit") /\ ids' = ids + 1
          /\ G!Write(r, "max", value) /\ UNCHANGED history
      BY <1>3, <2>3 DEF G!AddedCreate
    <3>2. value \in G!Row /\ value.id = ids + 1 /\ value.id # 0
      BY <1>1, <3>1 DEF G!Row, G!Statuses
    <3>3. row["max"].id = 0 /\ row["max"].status = "none"
      BY <1>1, <2>3 DEF G!Exists
    <3>4. value.status = "pending_confirmation"
      OBVIOUS
    <3>. HIDE DEF value
    <3>. QED
      BY <1>1, <2>1, <3>1, <3>2, <3>3, <3>4
         DEF Acts, Writes, G!Step, Confirmed, Written, G!Silent
  <2>. QED
    BY <2>2, <2>3
<1>4. ASSUME G!AddedConverge(r) PROVE Acts(r)
  BY <1>2, <1>4 DEF G!AddedConverge, G!Writing, G!Exists, Acts, Rereads, G!audit, G!ghosts
<1>5. ASSUME G!AddedReactivate(r) PROVE Acts(r)
  <2>. DEFINE status == G!DraftStatus(seen[r].status)
  <2>1. op[r] = "added" /\ pc[r] = "write" /\ target[r] = "max" /\ seen[r].id # 0
    BY <1>2, <1>5 DEF G!AddedReactivate, G!Writing
  <2>2. CASE G!IsSeen(r) /\ G!Status("max") = seen[r].status
    <3>. DEFINE value == [row["max"] EXCEPT !.status = status]
                to == IF status # seen[r].status THEN "reread" ELSE "settle"
    <3>1. G!Step(r, "write", to) /\ G!Write(r, "max", value) /\ UNCHANGED <<ids, history>>
      BY <1>5, <2>2 DEF G!AddedReactivate
    <3>2. row["max"].id = seen[r].id /\ row["max"].status = seen[r].status
      BY <2>1, <2>2 DEF G!IsSeen, G!Status
    <3>3. status \in {"pending_confirmation", "active"}
      BY DEF G!DraftStatus
    <3>4. /\ value \in G!Row /\ value.id = row["max"].id /\ value.status = status
          /\ value.tags = row["max"].tags
      BY <1>1, <3>3 DEF G!Row, G!Statuses
    <3>5. status = "active" => row["max"].status \in Confirmed
      BY <1>1, <2>1, <3>2 DEF G!DraftStatus, Confirmed, G!Row, G!Statuses
    <3>6. to \in Written /\ to # "audit" /\ (to # "settle" <=> status # row["max"].status)
      BY <3>2 DEF Written
    <3>. HIDE DEF value, to, status
    <3>. QED
      BY <1>1, <2>1, <3>1, <3>2, <3>3, <3>4, <3>5, <3>6
         DEF Acts, Writes, G!Step, Confirmed, G!Silent
  <2>3. CASE ~(G!IsSeen(r) /\ G!Status("max") = seen[r].status)
    <3>1. G!Step(r, "write", "settle") /\ G!NoWrite
      BY <1>5, <2>3, Zenon DEF G!AddedReactivate
    <3>. QED
      BY <2>1, <3>1, Zenon DEF Acts, GoesOn, Waits, Turns
  <2>. QED
    BY <2>2, <2>3
<1>. QED
  BY <1>3, <1>4, <1>5

\* A write that keeps the id of the row that was read.
LEMMA KeepsId ==
  ASSUME GroupsInv, NEW r \in Requests, NEW value \in G!Row, NEW to \in Written,
         pc[r] \in {"write", "fallback"}, pc' = [pc EXCEPT ![r] = to],
         G!Write(r, target[r], value), UNCHANGED <<ids, history>>,
         value.id = row[target[r]].id, value.id # 0, value.status # "none",
         op[r] \notin G!Silent =>
           (to # "settle" <=> \/ value.status # row[target[r]].status
                              \/ value.tags # row[target[r]].tags),
         op[r] \in G!Silent => to = "audit",
         to # "audit" => seen[r].id # 0,
         (target[r] = "max" /\ value.status \in Confirmed) =>
           op[r] = "confirm" \/ row["max"].status \in Confirmed
  PROVE  Acts(r)
<1>1. target[r] \in G!Platforms
  BY RequestTyped
<1>. QED
  BY <1>1, Zenon DEF Acts, Writes

LEMMA ReviewsAct ==
  ASSUME GroupsInv, NEW r \in Requests,
         G!ConfirmWrite(r) \/ G!ConfirmRead(r) \/ G!RejectDelete(r) \/ G!RejectFallback(r)
  PROVE  Acts(r)
<1>1. /\ NoTags \in Tags /\ MaxRows \in Nat
      /\ row["max"] \in G!Row /\ ids \in 0 .. MaxRows + 1
      /\ row["max"].id = 0 <=> row["max"].status = "none"
      /\ "max" \in G!Platforms
      /\ seen[r] \in G!Row /\ new[r] \in Tags \cup {"kept"}
  BY GroupsConstants, RowTyped, RequestTyped
<1>2. op[r] \in {"confirm", "reject"} => target[r] = "max" /\ seen[r].id # 0
  BY DEF GroupsInv, RequestsKnow, Knows
<1>3. ASSUME G!ConfirmWrite(r) PROVE Acts(r)
  <2>1. op[r] = "confirm" /\ pc[r] = "write" /\ target[r] = "max" /\ seen[r].id # 0
    BY <1>2, <1>3 DEF G!ConfirmWrite, G!Writing
  <2>2. CASE G!IsSeen(r) /\ G!Pending
    <3>. DEFINE tags == G!Chosen(r, seen[r].tags)
                value == [row["max"] EXCEPT !.status = "active", !.tags = tags]
    <3>1. /\ G!Step(r, "write", "reread") /\ G!Write(r, "max", value)
          /\ UNCHANGED <<ids, history>>
      BY <1>3, <2>2 DEF G!ConfirmWrite
    <3>2. row["max"].status = "pending_confirmation" /\ row["max"].id # 0
      BY <1>1, <2>2 DEF G!Pending, G!Status
    <3>3. tags \in Tags
      BY <1>1 DEF G!Chosen, G!Row
    <3>. HIDE DEF tags
    <3>4. /\ value \in G!Row /\ value.id = row["max"].id /\ value.status = "active"
      BY <1>1, <3>3 DEF G!Row, G!Statuses
    <3>. HIDE DEF value
    <3>. QED
      BY <2>1, <3>1, <3>2, <3>4, KeepsId DEF G!Step, Written, G!Silent
  <2>3. CASE ~(G!IsSeen(r) /\ G!Pending)
    BY <1>3, <2>1, <2>3, Zenon DEF G!ConfirmWrite, Acts, GoesOn, Waits, Turns
  <2>. QED
    BY <2>2, <2>3
<1>4. ASSUME G!ConfirmRead(r) PROVE Acts(r)
  <2>. DEFINE to == IF ~G!IsSeen(r) THEN "error"
                    ELSE IF G!Status("max") = "active" THEN "done" ELSE "refused"
  <2>1. G!Step(r, "read", to) /\ G!NoWrite /\ target[r] = "max" /\ seen[r].id # 0
    BY <1>2, <1>4 DEF G!ConfirmRead, G!Writing
  <2>2. to \in {"done", "refused", "error"} /\ (to = "error" => ~G!IsSeen(r))
    OBVIOUS
  <2>. HIDE DEF to
  <2>3. to \in Turns /\ "read" \in Waits /\ to # "audit" /\ to # "settle"
    BY <2>2 DEF Turns, Waits
  <2>. QED
    BY <2>1, <2>2, <2>3 DEF Acts, GoesOn
<1>5. ASSUME G!RejectDelete(r) PROVE Acts(r)
  <2>1. op[r] = "reject" /\ pc[r] = "write" /\ target[r] = "max"
    BY <1>2, <1>5 DEF G!RejectDelete, G!Writing
  <2>2. CASE ~G!IsSeen(r) \/ ~G!Pending
    BY <1>5, <2>2, Zenon DEF G!RejectDelete, Acts, GoesOn, Waits, Turns
  <2>3. CASE ~(~G!IsSeen(r) \/ ~G!Pending) /\ history["max"]
    BY <1>5, <2>3, Zenon DEF G!RejectDelete, Acts, GoesOn, Waits, Turns
  <2>4. CASE ~(~G!IsSeen(r) \/ ~G!Pending) /\ ~history["max"]
    <3>1. G!Step(r, "write", "audit") /\ G!Write(r, "max", G!NoRow) /\ UNCHANGED <<ids, history>>
      BY <1>5, <2>4 DEF G!RejectDelete
    <3>2. row["max"].status = "pending_confirmation"
      BY <2>4 DEF G!Pending, G!Status
    <3>3. G!NoRow \in G!Row /\ G!NoRow.id = 0 /\ G!NoRow.status = "none"
      BY <1>1 DEF G!NoRow, G!Row
    <3>. QED
      BY <1>1, <2>1, <2>4, <3>1, <3>2, <3>3
         DEF Acts, Writes, G!Step, Confirmed, Written, G!Silent
  <2>. QED
    BY <2>2, <2>3, <2>4
<1>6. ASSUME G!RejectFallback(r) PROVE Acts(r)
  <2>1. op[r] = "reject" /\ pc[r] = "fallback" /\ target[r] = "max"
    BY <1>2, <1>6 DEF G!RejectFallback, G!Writing
  <2>2. CASE G!IsSeen(r) /\ G!Pending
    <3>. DEFINE value == [row["max"] EXCEPT !.status = "removed"]
    <3>1. /\ G!Step(r, "fallback", "audit") /\ G!Write(r, "max", value)
          /\ UNCHANGED <<ids, history>>
      BY <1>6, <2>2 DEF G!RejectFallback
    <3>2. row["max"].status = "pending_confirmation" /\ row["max"].id # 0
      BY <1>1, <2>2 DEF G!Pending, G!Status
    <3>3. /\ value \in G!Row /\ value.id = row["max"].id /\ value.status = "removed"
      BY <1>1 DEF G!Row, G!Statuses
    <3>. HIDE DEF value
    <3>. QED
      BY <2>1, <3>1, <3>2, <3>3, KeepsId DEF G!Step, Confirmed, Written, G!Silent
  <2>3. CASE ~(G!IsSeen(r) /\ G!Pending)
    BY <1>6, <2>1, <2>3, Zenon DEF G!RejectFallback, Acts, GoesOn, Waits, Turns
  <2>. QED
    BY <2>2, <2>3
<1>. QED
  BY <1>3, <1>4, <1>5, <1>6

LEMMA ChangesAct ==
  ASSUME GroupsInv, NEW r \in Requests, G!DeactivateWrite(r) \/ G!TagsWrite(r)
  PROVE  Acts(r)
<1>. DEFINE p == target[r]
<1>1. /\ row[p] \in G!Row /\ p \in G!Platforms
      /\ row[p].id = 0 <=> row[p].status = "none"
      /\ new[r] \in Tags \cup {"kept"}
      /\ p = "max" \/ p = "vk"
  BY RowTyped, RequestTyped
<1>2. /\ op[r] \in {"deactivate", "tags"} => seen[r].id # 0
      /\ op[r] = "tags" => new[r] \in Tags
      /\ (p = "vk" /\ seen[r].id # 0) => row["vk"].id = seen[r].id
  BY DEF GroupsInv, RequestsKnow, Knows
<1>3. ASSUME G!DeactivateWrite(r) PROVE Acts(r)
  <2>1. op[r] = "deactivate" /\ pc[r] = "write" /\ seen[r].id # 0
    BY <1>2, <1>3 DEF G!DeactivateWrite, G!Writing
  <2>2. CASE G!IsSeen(r) /\ G!Status(p) # "removed"
    <3>. DEFINE value == [row[p] EXCEPT !.status = "removed"]
    <3>1. /\ G!Step(r, "write", "reread") /\ G!Write(r, p, value)
          /\ UNCHANGED <<ids, history>>
      BY <1>3, <2>2 DEF G!DeactivateWrite
    <3>2. row[p].status # "removed" /\ row[p].id # 0
      BY <2>1, <2>2 DEF G!IsSeen, G!Status
    <3>3. /\ value \in G!Row /\ value.id = row[p].id /\ value.status = "removed"
      BY <1>1 DEF G!Row, G!Statuses
    <3>. HIDE DEF value
    <3>. QED
      BY <2>1, <3>1, <3>2, <3>3, KeepsId DEF G!Step, Confirmed, Written, G!Silent
  <2>3. CASE ~(G!IsSeen(r) /\ G!Status(p) # "removed")
    <3>1. G!Step(r, "write", "refused") /\ G!NoWrite
      BY <1>3, <2>3 DEF G!DeactivateWrite
    <3>. QED
      BY <3>1, Zenon DEF Acts, GoesOn, Waits, Turns
  <2>. QED
    BY <2>2, <2>3
<1>4. ASSUME G!TagsWrite(r) PROVE Acts(r)
  <2>1. op[r] = "tags" /\ pc[r] = "write" /\ seen[r].id # 0 /\ new[r] \in Tags
    BY <1>2, <1>4 DEF G!TagsWrite, G!Writing
  <2>2. CASE G!IsSeen(r) /\ row[p].tags = seen[r].tags
    <3>. DEFINE value == [row[p] EXCEPT !.tags = new[r]]
                to == IF new[r] # seen[r].tags THEN "reread" ELSE "settle"
    <3>1. /\ G!Step(r, "write", to) /\ G!Write(r, p, value)
          /\ UNCHANGED <<ids, history>>
      BY <1>4, <2>2 DEF G!TagsWrite
    <3>2. row[p].id # 0 /\ row[p].status # "none"
      BY <1>1, <2>1, <2>2 DEF G!IsSeen
    <3>3. /\ value \in G!Row /\ value.id = row[p].id /\ value.status = row[p].status
          /\ value.tags = new[r]
      BY <1>1, <2>1 DEF G!Row, G!Statuses
    <3>4. to \in Written /\ to # "audit" /\ (to # "settle" <=> new[r] # row[p].tags)
      BY <2>2 DEF Written
    <3>. HIDE DEF value, to
    <3>5. (p = "max" /\ value.status \in Confirmed) => row["max"].status \in Confirmed
      BY <3>3
    <3>. QED
      BY <2>1, <3>1, <3>2, <3>3, <3>4, <3>5, KeepsId DEF G!Step, G!Silent
  <2>3. CASE ~(G!IsSeen(r) /\ row[p].tags = seen[r].tags)
    <3>1. G!Step(r, "write", "settle") /\ G!NoWrite
      BY <1>4, <2>3, Zenon DEF G!TagsWrite
    <3>. QED
      BY <2>1, <3>1, Zenon DEF Acts, GoesOn, Waits, Turns
  <2>. QED
    BY <2>2, <2>3
<1>. QED
  BY <1>3, <1>4

LEMMA ConnectsAct ==
  ASSUME GroupsInv, NEW r \in Requests,
         G!ConnectWrite(r) \/ G!ConnectConverge(r) \/ G!ReplaceWrite(r)
  PROVE  Acts(r)
<1>1. /\ row["vk"] \in G!Row /\ "vk" \in G!Platforms
      /\ row["vk"].id = 0 <=> row["vk"].status = "none"
      /\ seen[r] \in G!Row /\ new[r] \in Tags \cup {"kept"} /\ MaxRows \in Nat
  BY RowTyped, RequestTyped, GroupsConstants
<1>2. /\ op[r] \in {"connect", "replace"} => target[r] = "vk"
      /\ op[r] = "replace" => row["vk"].id # 0
  BY DEF GroupsInv, RequestsKnow, Knows
<1>3. ASSUME G!ConnectWrite(r) PROVE Acts(r)
  <2>1. op[r] = "connect" /\ pc[r] = "write" /\ target[r] = "vk"
    BY <1>2, <1>3 DEF G!ConnectWrite, G!Writing
  <2>2. CASE seen[r].id = 0 /\ G!Exists("vk")
    <3>1. G!Step(r, "write", "again") /\ G!NoWrite
      BY <1>3, <2>2, Zenon DEF G!ConnectWrite
    <3>. QED
      BY <3>1, Zenon DEF Acts, GoesOn, Waits, Turns
  <2>3. CASE ~(seen[r].id = 0 /\ G!Exists("vk"))
    <3>. DEFINE value == [id |-> 1, status |-> "active", tags |-> G!Chosen(r, seen[r].tags)]
    <3>1. /\ G!Step(r, "write", "audit") /\ G!Write(r, "vk", value)
          /\ UNCHANGED <<ids, history>>
      BY <1>3, <2>3 DEF G!ConnectWrite
    <3>2. value \in G!Row /\ value.id = 1 /\ value.status = "active"
      BY <1>1 DEF G!Row, G!Statuses, G!Chosen
    <3>. HIDE DEF value
    <3>. QED
      BY <1>1, <2>1, <3>1, <3>2 DEF Acts, Writes, G!Step, G!Silent, Written
  <2>. QED
    BY <2>2, <2>3
<1>4. ASSUME G!ConnectConverge(r) PROVE Acts(r)
  BY <1>2, <1>4 DEF G!ConnectConverge, G!Writing, Acts, Rereads, G!audit, G!ghosts
<1>5. ASSUME G!ReplaceWrite(r) PROVE Acts(r)
  <2>1. op[r] = "replace" /\ pc[r] = "write" /\ target[r] = "vk" /\ row["vk"].id # 0
    BY <1>2, <1>5 DEF G!ReplaceWrite, G!Writing
  <2>. DEFINE value == [row["vk"] EXCEPT !.status = "active"]
  <2>2. /\ G!Step(r, "write", "audit") /\ G!Write(r, "vk", value)
        /\ UNCHANGED <<ids, history>>
    BY <1>5 DEF G!ReplaceWrite
  <2>3. value \in G!Row /\ value.id = row["vk"].id /\ value.status = "active"
    BY <1>1 DEF G!Row, G!Statuses
  <2>. HIDE DEF value
  <2>. QED
    BY <2>1, <2>2, <2>3, KeepsId DEF G!Step, G!Silent, Written
<1>. QED
  BY <1>3, <1>4, <1>5

LEMMA LooksAct ==
  ASSUME GroupsInv, NEW r \in Requests, G!Reread(r) \/ G!Settle(r)
  PROVE  Acts(r)
<1>1. /\ target[r] = "max" \/ target[r] = "vk"
      /\ (target[r] = "vk" /\ seen[r].id # 0) => row["vk"].id = seen[r].id
  BY RowTyped, RequestTyped DEF GroupsInv, RequestsKnow, Knows
<1>2. pc[r] \in {"settle", "reread"} => seen[r].id # 0
  BY DEF GroupsInv, AuditInv, Audited
<1>3. (pc[r] \in {"settle", "reread"} /\ ~G!IsSeen(r)) => target[r] = "max"
  BY <1>1, <1>2 DEF G!IsSeen
<1>4. CASE G!Reread(r)
  <2>1. CASE G!IsSeen(r)
    BY <1>4, <2>1 DEF G!Reread, G!Step, Acts, GoesOn, Waits, Turns
  <2>2. CASE ~G!IsSeen(r)
    BY <1>2, <1>3, <1>4, <2>2 DEF G!Reread, G!Step, Acts, GoesOn, Waits, Turns
  <2>. QED
    BY <2>1, <2>2
<1>5. CASE G!Settle(r)
  <2>1. CASE G!IsSeen(r)
    BY <1>5, <2>1 DEF G!Settle, G!Step, Acts, GoesOn, Waits, Turns
  <2>2. CASE ~G!IsSeen(r)
    BY <1>2, <1>3, <1>5, <2>2 DEF G!Settle, G!Step, Acts, GoesOn, Waits, Turns
  <2>. QED
    BY <2>1, <2>2
<1>. QED
  BY <1>4, <1>5

LEMMA HandlersAct ==
  ASSUME GroupsInv, NEW r \in Requests, G!Handle(r)
  PROVE  Acts(r)
<1>1. Begins(r) => Acts(r)
  BY Zenon DEF Acts
<1>2. G!Record(r) \/ G!Fails(r) => Acts(r)
  BY Zenon DEF Acts
<1>. QED
  BY <1>1, <1>2, FindsBegin, AddsAct, ReviewsAct, ChangesAct, ConnectsAct, LooksAct, Zenon
     DEF G!Handle

\* What the platforms do: rows keep their ids, and what was chosen keeps its row.
Happens ==
  \/ G!BotRemoved
  \/ \E p \in G!Platforms : \/ G!TargetChosen(p) \/ G!DeliveryStarts(p)
                            \/ G!DeliveryEnds(p) \/ G!DeliveryRefused(p)

LEMMA GroupsSteps ==
  ASSUME GroupsInv, G!Next
  PROVE  (\E r \in Requests : Acts(r)) \/ Happens
BY HandlersAct, Zenon DEF G!Next, Happens

\* How the ids move, whoever moves them.
IdsMove ==
  /\ ids' \in {ids, ids + 1} /\ ids' \in 0 .. MaxRows + 1
  /\ \/ row["max"].id' = row["max"].id
     \/ row["max"].id' = 0
     \/ row["max"].id' = ids' /\ ids' = ids + 1
  /\ \/ row["vk"].id' = row["vk"].id
     \/ row["vk"].id = 0 /\ row["vk"].id' = 1
  /\ \A p \in G!Platforms : history[p] => row[p].id' = row[p].id

LEMMA WriteTyped ==
  ASSUME GroupsInv, NEW r \in Requests, NEW p \in G!Platforms, NEW value \in G!Row,
         G!Write(r, p, value), value.id = 0 <=> value.status = "none"
  PROVE  /\ row' \in [G!Platforms -> G!Row]
         /\ row'[p] = value /\ \A q \in G!Platforms \ {p} : row'[q] = row[q]
         /\ \A q \in G!Platforms : row'[q].id = 0 <=> row'[q].status = "none"
         /\ changed' \in [Requests -> BOOLEAN] /\ approved' \in BOOLEAN
<1>1. row \in [G!Platforms -> G!Row] /\ approved \in BOOLEAN
  BY Zenon DEF GroupsInv, G!TypeOK
<1>2. \A q \in G!Platforms : row[q].id = 0 <=> row[q].status = "none"
  BY DEF GroupsInv, G!TypeOK
<1>3. changed \in [Requests -> BOOLEAN]
  BY Zenon DEF GroupsInv, G!TypeOK
<1>4. row' = [row EXCEPT ![p] = value]
  BY Zenon DEF G!Write
<1>5. row' \in [G!Platforms -> G!Row] /\ row'[p] = value
  BY <1>1, <1>4
<1>6. \A q \in G!Platforms \ {p} : row'[q] = row[q]
  BY <1>1, <1>4
<1>7. \A q \in G!Platforms : row'[q].id = 0 <=> row'[q].status = "none"
  BY <1>2, <1>5, <1>6
<1>8. changed' \in [Requests -> BOOLEAN]
  <2>. DEFINE now == changed[r] \/ value.status # row[p].status \/ value.tags # row[p].tags
  <2>1. changed' = [changed EXCEPT ![r] = now]
    BY Zenon DEF G!Write
  <2>2. now \in BOOLEAN
    OBVIOUS
  <2>. HIDE DEF now
  <2>. QED
    BY <1>3, <2>1, <2>2, Zenon
<1>9. approved' \in BOOLEAN
  BY <1>1 DEF G!Write
<1>. QED
  BY <1>5, <1>6, <1>7, <1>8, <1>9

LEMMA GroupsTyped ==
  ASSUME GroupsInv, NEW r \in Requests, Acts(r)
  PROVE  G!TypeOK'
<1>1. /\ row \in [G!Platforms -> G!Row]
      /\ \A p \in G!Platforms : row[p].id = 0 <=> row[p].status = "none"
  BY Zenon DEF GroupsInv, G!TypeOK
<1>2. ids \in 0 .. MaxRows + 1 /\ MaxRows \in Nat
  BY GroupsConstants DEF GroupsInv, G!TypeOK
<1>3. history \in [G!Platforms -> BOOLEAN] /\ flight \in [G!Platforms -> BOOLEAN]
  BY Zenon DEF GroupsInv, G!TypeOK
<1>4. pc \in [Requests -> G!Stages] /\ op \in [Requests -> G!Ops]
  BY Zenon DEF GroupsInv, G!TypeOK
<1>5. target \in [Requests -> G!Platforms] /\ seen \in [Requests -> G!Row]
  BY Zenon DEF GroupsInv, G!TypeOK
<1>6. new \in [Requests -> Tags \cup {"kept"}]
  BY Zenon DEF GroupsInv, G!TypeOK
<1>7. /\ changed \in [Requests -> BOOLEAN] /\ logged \in [Requests -> BOOLEAN]
      /\ failed \subseteq Requests
  BY Zenon DEF GroupsInv, G!TypeOK
<1>8. approved \in BOOLEAN /\ overwritten \in BOOLEAN
  BY Zenon DEF GroupsInv, G!TypeOK
<1>. HIDE DEF GroupsInv
<1>9. CASE Begins(r)
  <2>1. PICK name \in G!Ops, p \in G!Platforms, tags \in Tags \cup {"kept"}, ok \in BOOLEAN :
          G!Begin(r, name, p, tags, ok)
    BY <1>9, Zenon DEF Begins
  <2>2. pc' \in [Requests -> G!Stages]
    BY <1>4, <2>1 DEF G!Begin, G!Step, G!Stages
  <2>3. op' \in [Requests -> G!Ops] /\ target' \in [Requests -> G!Platforms]
    BY <1>4, <1>5, <2>1, Zenon DEF G!Begin
  <2>4. seen' \in [Requests -> G!Row] /\ new' \in [Requests -> Tags \cup {"kept"}]
    BY <1>1, <1>5, <1>6, <2>1, Zenon DEF G!Begin
  <2>5. UNCHANGED <<row, ids, history, flight, changed, logged, failed, approved,
                    overwritten>>
    BY <2>1 DEF G!Begin, G!audit, G!ghosts
  <2>. QED
    BY <1>1, <1>2, <1>3, <1>7, <1>8, <2>2, <2>3, <2>4, <2>5, Zenon DEF G!TypeOK
<1>10. CASE GoesOn(r)
  <2>1. PICK to \in Turns :
          pc' = [pc EXCEPT ![r] = to] /\ G!NoWrite
    BY <1>10, Zenon DEF GoesOn, G!Step
  <2>2. pc' \in [Requests -> G!Stages]
    BY <1>4, <2>1 DEF G!Stages, Turns, Written
  <2>3. UNCHANGED <<row, ids, history, flight, op, target, seen, new, changed, logged,
                    failed, approved, overwritten>>
    BY <2>1 DEF G!NoWrite, G!audit, G!ghosts
  <2>. QED
    BY <1>1, <1>2, <1>3, <1>4, <1>5, <1>6, <1>7, <1>8, <2>2, <2>3, Zenon DEF G!TypeOK
<1>11. CASE Rereads(r)
  <2>1. PICK to \in {"write", "error"} : pc' = [pc EXCEPT ![r] = to]
    BY <1>11, Zenon DEF Rereads, G!Step
  <2>2. pc' \in [Requests -> G!Stages]
    BY <1>4, <2>1 DEF G!Stages, Turns, Written
  <2>3. seen' \in [Requests -> G!Row]
    BY <1>1, <1>5, <1>11, Zenon DEF Rereads
  <2>4. UNCHANGED <<row, ids, history, flight, op, target, new, changed, logged,
                    failed, approved, overwritten>>
    BY <1>11, Zenon DEF Rereads
  <2>. QED
    BY <1>1, <1>2, <1>3, <1>4, <1>5, <1>6, <1>7, <1>8, <2>2, <2>3, <2>4, Zenon DEF G!TypeOK
<1>12. CASE Writes(r)
  <2>1. PICK p \in G!Platforms, value \in G!Row, to \in Written :
          /\ pc' = [pc EXCEPT ![r] = to]
          /\ G!Write(r, p, value)
          /\ history' = history
          /\ value.id = 0 <=> value.status = "none"
          /\ ids' = ids \/ (ids' = ids + 1 /\ ids < MaxRows)
    BY <1>12, ZenonT(40) DEF Writes
  <2>2. pc' \in [Requests -> G!Stages]
    BY <1>4, <2>1 DEF G!Stages, Turns, Written
  <2>3. /\ row' \in [G!Platforms -> G!Row]
        /\ \A q \in G!Platforms : row'[q].id = 0 <=> row'[q].status = "none"
        /\ changed' \in [Requests -> BOOLEAN] /\ approved' \in BOOLEAN
    BY <2>1, WriteTyped
  <2>4. UNCHANGED <<history, flight, op, target, seen, new, logged, failed, overwritten>>
    BY <2>1 DEF G!Write
  <2>5. ids' \in 0 .. MaxRows + 1
    BY <1>2, <2>1
  <2>. QED
    BY <1>3, <1>4, <1>5, <1>6, <1>7, <1>8, <2>2, <2>3, <2>4, <2>5, Zenon DEF G!TypeOK
<1>13. CASE G!Record(r)
  <2>1. pc' \in [Requests -> G!Stages]
    BY <1>4, <1>13 DEF G!Record, G!Step, G!Stages
  <2>2. logged' \in [Requests -> BOOLEAN] /\ failed' \subseteq Requests
    <3>1. CASE logged' = [logged EXCEPT ![r] = TRUE] /\ UNCHANGED failed
      BY <1>7, <3>1, Zenon
    <3>2. CASE failed' = failed \cup {r} /\ UNCHANGED logged
      BY <1>7, <3>2
    <3>. QED
      BY <1>13, <3>1, <3>2 DEF G!Record
  <2>3. UNCHANGED <<row, ids, history, flight, op, target, seen, new, changed,
                    approved, overwritten>>
    BY <1>13 DEF G!Record, G!ghosts
  <2>. QED
    BY <1>1, <1>2, <1>3, <1>4, <1>5, <1>6, <1>7, <1>8, <2>1, <2>2, <2>3, Zenon DEF G!TypeOK
<1>14. CASE G!Fails(r)
  <2>1. pc' \in [Requests -> G!Stages]
    BY <1>4, <1>14 DEF G!Fails, G!Step, G!Stages
  <2>2. failed' \subseteq Requests
    BY <1>7, <1>14 DEF G!Fails
  <2>3. UNCHANGED <<row, ids, history, flight, op, target, seen, new, changed, logged,
                    approved, overwritten>>
    BY <1>14 DEF G!Fails, G!ghosts
  <2>. QED
    BY <1>1, <1>2, <1>3, <1>4, <1>5, <1>6, <1>7, <1>8, <2>1, <2>2, <2>3, Zenon DEF G!TypeOK
<1>. QED
  BY <1>9, <1>10, <1>11, <1>12, <1>13, <1>14, Zenon DEF Acts

LEMMA GroupsMove ==
  ASSUME GroupsInv, NEW r \in Requests, Acts(r)
  PROVE  IdsMove
<1>1. /\ row["max"] \in G!Row /\ row["vk"] \in G!Row
      /\ ids \in 0 .. MaxRows + 1 /\ MaxRows \in Nat
      /\ "max" \in G!Platforms /\ "vk" \in G!Platforms
      /\ \A p \in G!Platforms : p = "max" \/ p = "vk"
  BY RowTyped, GroupsConstants
<1>2. /\ \A p \in G!Platforms : history[p] => row[p].id # 0
      /\ row["vk"].id \in {0, 1}
  BY DEF GroupsInv, RowsStand
<1>3. CASE UNCHANGED <<row, ids>>
  BY <1>1, <1>3 DEF IdsMove
<1>4. CASE Writes(r)
  <2>1. PICK p \in G!Platforms, value \in G!Row :
          /\ G!Write(r, p, value) /\ (value.id = 0 <=> value.status = "none")
          /\ \/ value.id = row[p].id /\ value.id # 0 /\ ids' = ids
             \/ p = "max" /\ value.id = ids + 1 /\ ids' = ids + 1 /\ ids < MaxRows
                  /\ row["max"].id = 0
             \/ p = "max" /\ value.id = 0 /\ ~history["max"] /\ ids' = ids
             \/ p = "vk" /\ value.id = 1 /\ ids' = ids
    BY <1>4, ZenonT(40) DEF Writes
  <2>2. row'[p] = value /\ \A q \in G!Platforms \ {p} : row'[q] = row[q]
    BY <2>1, WriteTyped
  <2>3. ids' \in {ids, ids + 1} /\ ids' \in 0 .. MaxRows + 1
    BY <1>1, <2>1
  <2>4. CASE p = "max"
    <3>1. row'["vk"] = row["vk"] /\ row'["max"] = value
      BY <1>1, <2>2, <2>4
    <3>. QED
      BY <1>1, <1>2, <2>1, <2>3, <2>4, <3>1 DEF IdsMove
  <2>5. CASE p = "vk"
    <3>1. row'["max"] = row["max"] /\ row'["vk"] = value
      BY <1>1, <2>2, <2>5
    <3>. QED
      BY <1>1, <1>2, <2>1, <2>3, <2>5, <3>1 DEF IdsMove
  <2>. QED
    BY <1>1, <2>4, <2>5
<1>5. Begins(r) => UNCHANGED <<row, ids>>
  BY DEF Begins, G!Begin
<1>6. GoesOn(r) \/ Rereads(r) \/ G!Record(r) \/ G!Fails(r) => UNCHANGED <<row, ids>>
  BY DEF GoesOn, Rereads, G!Record, G!Fails, G!NoWrite
<1>. QED
  BY <1>3, <1>4, <1>5, <1>6, Zenon DEF Acts

\* A platform changes no id and no request; it refuses what is under way.
LEMMA HappensMoves ==
  ASSUME GroupsInv, Happens
  PROVE  /\ UNCHANGED <<ids, pc, op, target, seen, new, changed, logged, failed, approved>>
         /\ row' \in [G!Platforms -> G!Row]
         /\ \A p \in G!Platforms : row'[p].id = row[p].id /\ row'[p].tags = row[p].tags
         /\ \A p \in G!Platforms : row'[p].id = 0 <=> row'[p].status = "none"
         /\ history' \in [G!Platforms -> BOOLEAN] /\ flight' \in [G!Platforms -> BOOLEAN]
         /\ overwritten' \in BOOLEAN
         /\ \A p \in G!Platforms : flight'[p] => history'[p]
         /\ \A p \in G!Platforms : history'[p] => row[p].id # 0
         /\ ApprovedInv'
<1>1. /\ row \in [G!Platforms -> G!Row] /\ "max" \in G!Platforms
      /\ \A p \in G!Platforms : row[p].id = 0 <=> row[p].status = "none"
  BY Zenon DEF GroupsInv, G!TypeOK, G!Platforms
<1>2. history \in [G!Platforms -> BOOLEAN] /\ flight \in [G!Platforms -> BOOLEAN]
  BY Zenon DEF GroupsInv, G!TypeOK
<1>3. /\ \A p \in G!Platforms : flight[p] => history[p]
      /\ \A p \in G!Platforms : history[p] => row[p].id # 0
      /\ overwritten \in BOOLEAN /\ ApprovedInv
  BY Zenon DEF GroupsInv, RowsStand, G!TypeOK
<1>. HIDE DEF GroupsInv
<1>4. CASE G!BotRemoved
  <2>1. /\ row["max"].status \in {"active", "token_invalid"}
        /\ row' = [row EXCEPT !["max"].status = "bot_removed"]
        /\ UNCHANGED <<ids, history, flight, pc, op, target, seen, new, changed, logged, failed,
                       approved, overwritten>>
    BY <1>4 DEF G!BotRemoved, G!Status, G!request, G!audit, G!ghosts
  <2>2. /\ row' \in [G!Platforms -> G!Row]
        /\ \A p \in G!Platforms : row'[p].id = row[p].id /\ row'[p].tags = row[p].tags
    BY <1>1, <2>1 DEF G!Row, G!Statuses
  <2>3. \A p \in G!Platforms : row'[p].id = 0 <=> row'[p].status = "none"
    BY <1>1, <2>1 DEF G!Row
  <2>4. ApprovedInv'
    BY <1>1, <1>3, <2>1 DEF ApprovedInv
  <2>. QED
    BY <1>2, <1>3, <2>1, <2>2, <2>3, <2>4
<1>5. ASSUME NEW p \in G!Platforms, G!TargetChosen(p) \/ G!DeliveryStarts(p) \/ G!DeliveryEnds(p)
      PROVE  /\ UNCHANGED <<row, ids, pc, op, target, seen, new, changed, logged, failed,
                            approved, overwritten>>
             /\ history' \in [G!Platforms -> BOOLEAN] /\ flight' \in [G!Platforms -> BOOLEAN]
             /\ \A q \in G!Platforms : flight'[q] => history'[q]
             /\ \A q \in G!Platforms : history'[q] => row[q].id # 0
  <2>1. CASE G!TargetChosen(p)
    <3>1. /\ history' = [history EXCEPT ![p] = TRUE] /\ flight' = flight
          /\ UNCHANGED <<row, ids, pc, op, target, seen, new, changed, logged, failed,
                         approved, overwritten>>
      BY <2>1 DEF G!TargetChosen, G!request, G!audit, G!ghosts
    <3>2. row[p].id # 0
      BY <1>1, <2>1 DEF G!TargetChosen, G!Status
    <3>3. history' \in [G!Platforms -> BOOLEAN] /\ flight' \in [G!Platforms -> BOOLEAN]
      BY <1>2, <3>1, Zenon
    <3>. QED
      BY <1>2, <1>3, <3>1, <3>2, <3>3
  <2>2. CASE G!DeliveryStarts(p)
    <3>1. /\ flight' = [flight EXCEPT ![p] = TRUE] /\ history' = history /\ history[p]
          /\ UNCHANGED <<row, ids, pc, op, target, seen, new, changed, logged, failed,
                         approved, overwritten>>
      BY <2>2 DEF G!DeliveryStarts, G!request, G!audit, G!ghosts
    <3>3. history' \in [G!Platforms -> BOOLEAN] /\ flight' \in [G!Platforms -> BOOLEAN]
      BY <1>2, <3>1, Zenon
    <3>. QED
      BY <1>2, <1>3, <3>1, <3>3
  <2>3. CASE G!DeliveryEnds(p)
    <3>1. /\ flight' = [flight EXCEPT ![p] = FALSE] /\ history' = history
          /\ UNCHANGED <<row, ids, pc, op, target, seen, new, changed, logged, failed,
                         approved, overwritten>>
      BY <2>3 DEF G!DeliveryEnds, G!request, G!audit, G!ghosts
    <3>3. history' \in [G!Platforms -> BOOLEAN] /\ flight' \in [G!Platforms -> BOOLEAN]
      BY <1>2, <3>1, Zenon
    <3>. QED
      BY <1>2, <1>3, <3>1, <3>3
  <2>. QED
    BY <1>5, <2>1, <2>2, <2>3
<1>6. ASSUME NEW p \in G!Platforms, G!TargetChosen(p) \/ G!DeliveryStarts(p) \/ G!DeliveryEnds(p)
      PROVE  ApprovedInv'
  BY <1>3, <1>5, <1>6 DEF ApprovedInv
<1>7. ASSUME NEW p \in G!Platforms, G!DeliveryRefused(p)
      PROVE  /\ UNCHANGED <<ids, history, pc, op, target, seen, new, changed, logged, failed, approved>>
             /\ flight' = [flight EXCEPT ![p] = FALSE] /\ flight[p]
             /\ row' = [row EXCEPT ![p].status = G!Problem(p)]
             /\ overwritten' = (overwritten \/
                  (p = "max" /\ row["max"].status \in {"pending_confirmation", "removed"}))
  BY <1>7 DEF G!DeliveryRefused, G!Status, G!request, G!audit
<1>8. ASSUME NEW p \in G!Platforms, G!DeliveryRefused(p)
      PROVE  /\ row' \in [G!Platforms -> G!Row]
             /\ \A q \in G!Platforms : row'[q].id = row[q].id /\ row'[q].tags = row[q].tags
             /\ \A q \in G!Platforms : row'[q].id = 0 <=> row'[q].status = "none"
  <2>1. G!Problem(p) \in {"bot_removed", "token_invalid"}
    BY DEF G!Problem
  <2>2. row' = [row EXCEPT ![p].status = G!Problem(p)] /\ row[p].id # 0
    BY <1>3, <1>7, <1>8
  <2>. HIDE DEF G!Problem
  <2>3. /\ row' \in [G!Platforms -> G!Row]
        /\ \A q \in G!Platforms : row'[q].id = row[q].id /\ row'[q].tags = row[q].tags
    BY <1>1, <2>1, <2>2 DEF G!Row, G!Statuses
  <2>4. \A q \in G!Platforms : row'[q].id = 0 <=> row'[q].status = "none"
    BY <1>1, <2>1, <2>2 DEF G!Row
  <2>. QED
    BY <2>3, <2>4
<1>9. ASSUME NEW p \in G!Platforms, G!DeliveryRefused(p)
      PROVE  /\ flight' \in [G!Platforms -> BOOLEAN] /\ overwritten' \in BOOLEAN
             /\ \A q \in G!Platforms : flight'[q] => history'[q]
             /\ \A q \in G!Platforms : history'[q] => row[q].id # 0
             /\ ApprovedInv'
  <2>1. flight' \in [G!Platforms -> BOOLEAN]
    BY <1>2, <1>7, <1>9, Zenon
  <2>2. \A q \in G!Platforms : flight'[q] => history'[q]
    BY <1>2, <1>3, <1>7, <1>9
  <2>3. \A q \in G!Platforms : history'[q] => row[q].id # 0
    BY <1>3, <1>7, <1>9
  <2>4. overwritten' \in BOOLEAN
    BY <1>3, <1>7, <1>9
  <2>5. ApprovedInv'
    <3>1. CASE p = "max"
      <4>1. row["max"].id # 0 /\ row["max"].status # "none"
        BY <1>1, <1>3, <1>7, <1>9, <3>1
      <4>2. row["max"].status \in G!Statuses \cup {"none"}
        BY <1>1 DEF G!Row
      <4>3. overwritten' \/ overwritten \/ row["max"].status \in Confirmed
        BY <1>7, <1>9, <3>1, <4>1, <4>2 DEF Confirmed, G!Statuses
      <4>4. overwritten' \/ approved'
        BY <1>3, <1>7, <1>9, <4>3 DEF ApprovedInv, Confirmed
      <4>. QED
        BY <4>4 DEF ApprovedInv
    <3>2. CASE p # "max"
      <4>1. row'["max"] = row["max"] /\ approved' = approved /\ (overwritten => overwritten')
        BY <1>1, <1>7, <1>9, <3>2
      <4>. QED
        BY <1>3, <4>1 DEF ApprovedInv
    <3>. QED
      BY <3>1, <3>2
  <2>. QED
    BY <2>1, <2>2, <2>3, <2>4, <2>5
<1>. QED
  <2>1. ASSUME NEW p \in G!Platforms, G!TargetChosen(p) \/ G!DeliveryStarts(p) \/ G!DeliveryEnds(p)
        PROVE  /\ row' \in [G!Platforms -> G!Row]
               /\ \A q \in G!Platforms : row'[q].id = row[q].id /\ row'[q].tags = row[q].tags
               /\ \A q \in G!Platforms : row'[q].id = 0 <=> row'[q].status = "none"
               /\ overwritten' \in BOOLEAN
    BY <1>1, <1>3, <1>5, <2>1
  <2>. QED
    BY <1>4, <1>5, <1>6, <1>7, <1>8, <1>9, <1>2, <2>1, Zenon DEF Happens

LEMMA TypesStay ==
  ASSUME GroupsInv, G!Next
  PROVE  G!TypeOK'
<1>1. ASSUME Happens PROVE G!TypeOK'
  <2>1. /\ ids \in 0 .. MaxRows + 1 /\ pc \in [Requests -> G!Stages]
        /\ op \in [Requests -> G!Ops] /\ target \in [Requests -> G!Platforms]
        /\ seen \in [Requests -> G!Row] /\ new \in [Requests -> Tags \cup {"kept"}]
    BY Zenon DEF GroupsInv, G!TypeOK
  <2>2. /\ changed \in [Requests -> BOOLEAN] /\ logged \in [Requests -> BOOLEAN]
        /\ approved \in BOOLEAN /\ failed \subseteq Requests
    BY Zenon DEF GroupsInv, G!TypeOK
  <2>3. /\ UNCHANGED <<ids, pc, op, target, seen, new, changed, logged, failed, approved>>
        /\ row' \in [G!Platforms -> G!Row]
        /\ \A p \in G!Platforms : row'[p].id = 0 <=> row'[p].status = "none"
        /\ history' \in [G!Platforms -> BOOLEAN] /\ flight' \in [G!Platforms -> BOOLEAN]
        /\ overwritten' \in BOOLEAN
    BY <1>1, HappensMoves, Zenon
  <2>. QED
    BY <2>1, <2>2, <2>3, Zenon DEF G!TypeOK
<1>. QED
  BY <1>1, GroupsSteps, GroupsTyped, Zenon

LEMMA IdsStay ==
  ASSUME GroupsInv, G!Next
  PROVE  IdsMove
<1>1. ASSUME Happens PROVE IdsMove
  <2>1. /\ "max" \in G!Platforms /\ "vk" \in G!Platforms /\ ids \in 0 .. MaxRows + 1
    BY RowTyped
  <2>2. ids' = ids /\ \A p \in G!Platforms : row'[p].id = row[p].id
    BY <1>1, HappensMoves
  <2>. QED
    BY <2>1, <2>2 DEF IdsMove
<1>. QED
  BY <1>1, GroupsSteps, GroupsMove, Zenon

LEMMA RowsStay ==
  ASSUME GroupsInv, G!Next
  PROVE  RowsStand'
<1>1. /\ row["max"] \in G!Row /\ row["vk"] \in G!Row
      /\ ids \in 0 .. MaxRows + 1 /\ MaxRows \in Nat
      /\ "max" \in G!Platforms /\ "vk" \in G!Platforms
  BY RowTyped, GroupsConstants
<1>2. RowsStand /\ IdsMove
  BY IdsStay DEF GroupsInv
<1>3. row'["max"].id <= ids' /\ row'["vk"].id \in {0, 1}
  BY <1>1, <1>2 DEF RowsStand, IdsMove, G!Row
<1>4. /\ \A p \in G!Platforms : flight'[p] => history'[p]
      /\ \A p \in G!Platforms : history'[p] => row'[p].id # 0
  <2>1. CASE Happens
    BY <2>1, HappensMoves
  <2>2. ASSUME NEW r \in Requests, Acts(r) PROVE UNCHANGED <<history, flight>>
    <3>1. Begins(r) => UNCHANGED <<history, flight>>
      BY DEF Begins, G!Begin
    <3>2. GoesOn(r) \/ Rereads(r) \/ G!Record(r) \/ G!Fails(r)
            => UNCHANGED <<history, flight>>
      BY DEF GoesOn, Rereads, G!Record, G!Fails, G!NoWrite
    <3>3. Writes(r) => UNCHANGED <<history, flight>>
      BY DEF Writes, G!Write
    <3>. QED
      BY <2>2, <3>1, <3>2, <3>3, Zenon DEF Acts
  <2>3. CASE UNCHANGED <<history, flight>>
    BY <1>2, <2>3 DEF RowsStand, IdsMove
  <2>. QED
    BY <2>1, <2>2, <2>3, GroupsSteps
<1>. QED
  BY <1>3, <1>4 DEF RowsStand

\* What a request knows stays true however the ids move.
LEMMA KnowsStays ==
  ASSUME GroupsInv, IdsMove, NEW q \in Requests,
         op'[q] = op[q], target'[q] = target[q], seen'[q] = seen[q], new'[q] = new[q]
  PROVE  Knows(q)'
<1>1. /\ Knows(q) /\ seen[q] \in G!Row /\ ids \in 0 .. MaxRows + 1 /\ MaxRows \in Nat
      /\ row["vk"] \in G!Row
  BY RowTyped, RequestTyped, GroupsConstants DEF GroupsInv, RequestsKnow
<1>2. seen[q].id \in 0 .. MaxRows + 1
  BY <1>1 DEF G!Row
<1>3. row["vk"].id # 0 => row'["vk"].id = row["vk"].id
  BY DEF IdsMove
<1>4. ids' >= ids
  BY <1>1 DEF IdsMove
<1>5. target[q] = "max" => seen[q].id <= ids'
  BY <1>1, <1>2, <1>4 DEF Knows, IdsMove
<1>. QED
  BY <1>1, <1>3, <1>5 DEF Knows

LEMMA RequestsStay ==
  ASSUME GroupsInv, G!Next
  PROVE  RequestsKnow'
<1>1. IdsMove
  BY IdsStay
<1>2. CASE Happens
  BY <1>1, <1>2, HappensMoves, KnowsStays DEF RequestsKnow
<1>3. ASSUME NEW r \in Requests, Acts(r), NEW q \in Requests PROVE Knows(q)'
  <2>1. /\ seen \in [Requests -> G!Row] /\ op \in [Requests -> G!Ops]
        /\ target \in [Requests -> G!Platforms] /\ new \in [Requests -> Tags \cup {"kept"}]
    BY Zenon DEF GroupsInv, G!TypeOK
  <2>2. CASE UNCHANGED <<op, target, seen, new>>
    BY <1>1, <2>2, KnowsStays
  <2>3. CASE Begins(r)
    <3>1. PICK name \in G!Ops, p \in G!Platforms, tags \in Tags \cup {"kept"}, ok \in BOOLEAN :
            /\ name \in {"added", "confirm", "reject"} => p = "max"
            /\ name \in {"connect", "replace"} => p = "vk"
            /\ name \in {"confirm", "reject", "deactivate", "tags", "replace"} =>
                 row[p].id # 0
            /\ name = "tags" => tags \in Tags
            /\ G!Begin(r, name, p, tags, ok)
      BY <2>3, Zenon DEF Begins
    <3>2. /\ op' = [op EXCEPT ![r] = name] /\ target' = [target EXCEPT ![r] = p]
          /\ seen' = [seen EXCEPT ![r] = row[p]] /\ new' = [new EXCEPT ![r] = tags]
          /\ UNCHANGED <<row, ids>>
      BY <3>1 DEF G!Begin
    <3>3. CASE q # r
      <4>1. op'[q] = op[q] /\ target'[q] = target[q] /\ seen'[q] = seen[q] /\ new'[q] = new[q]
        BY <2>1, <3>2, <3>3
      <4>. QED
        BY <1>1, <4>1, KnowsStays
    <3>4. CASE q = r
      <4>1. op'[q] = name /\ target'[q] = p /\ seen'[q] = row[p] /\ new'[q] = tags
        BY <2>1, <3>2, <3>4
      <4>2. row["max"].id <= ids
        BY DEF GroupsInv, RowsStand
      <4>. QED
        BY <3>1, <3>2, <4>1, <4>2 DEF Knows
    <3>. QED
      BY <3>3, <3>4
  <2>4. CASE Rereads(r)
    <3>1. /\ seen' = [seen EXCEPT ![r] = row[target[r]]]
          /\ UNCHANGED <<row, ids, op, target, new>> /\ op[r] \in {"added", "connect"}
      BY <2>4 DEF Rereads
    <3>2. CASE q # r
      <4>1. op'[q] = op[q] /\ target'[q] = target[q] /\ seen'[q] = seen[q] /\ new'[q] = new[q]
        BY <2>1, <3>1, <3>2
      <4>. QED
        BY <1>1, <4>1, KnowsStays
    <3>3. CASE q = r
      <4>1. seen'[q] = row[target[q]] /\ Knows(q) /\ target[q] \in G!Platforms
        BY <2>1, <3>1, <3>3 DEF GroupsInv, RequestsKnow
      <4>2. row["max"].id <= ids
        BY DEF GroupsInv, RowsStand
      <4>. QED
        BY <3>1, <3>3, <4>1, <4>2 DEF Knows
    <3>. QED
      BY <3>2, <3>3
  <2>5. GoesOn(r) \/ G!Record(r) \/ G!Fails(r) => UNCHANGED <<op, target, seen, new>>
    BY DEF GoesOn, G!Record, G!Fails, G!NoWrite
  <2>6. Writes(r) => UNCHANGED <<op, target, seen, new>>
    BY DEF Writes, G!Write
  <2>. QED
    BY <1>3, <2>2, <2>3, <2>4, <2>5, <2>6, Zenon DEF Acts
<1>. QED
  BY <1>2, <1>3, GroupsSteps DEF RequestsKnow

\* A request moves none but itself.
LEMMA OtherRequests ==
  ASSUME GroupsInv, NEW r \in Requests, Acts(r), NEW q \in Requests, q # r
  PROVE  /\ pc'[q] = pc[q] /\ op'[q] = op[q] /\ target'[q] = target[q]
         /\ seen'[q] = seen[q] /\ changed'[q] = changed[q] /\ logged'[q] = logged[q]
         /\ q \in failed => q \in failed'
<1>1. /\ pc \in [Requests -> G!Stages] /\ op \in [Requests -> G!Ops]
      /\ target \in [Requests -> G!Platforms] /\ seen \in [Requests -> G!Row]
      /\ changed \in [Requests -> BOOLEAN] /\ logged \in [Requests -> BOOLEAN]
  BY Zenon DEF GroupsInv, G!TypeOK
<1>. HIDE DEF GroupsInv
<1>2. CASE Begins(r)
  <2>1. PICK name, p, tags, ok : G!Begin(r, name, p, tags, ok)
    BY <1>2 DEF Begins
  <2>. QED
    BY <1>1, <2>1 DEF G!Begin, G!Step, G!audit
<1>3. CASE GoesOn(r)
  BY <1>1, <1>3 DEF GoesOn, G!Step, G!NoWrite, G!audit
<1>4. CASE Rereads(r)
  BY <1>1, <1>4 DEF Rereads, G!Step
<1>5. CASE Writes(r)
  <2>1. PICK p, value, to : pc' = [pc EXCEPT ![r] = to] /\ G!Write(r, p, value)
    BY <1>5 DEF Writes
  <2>. QED
    BY <1>1, <2>1 DEF G!Write
<1>6. CASE G!Record(r)
  BY <1>1, <1>6 DEF G!Record, G!Step
<1>7. CASE G!Fails(r)
  BY <1>1, <1>7 DEF G!Fails, G!Step
<1>. QED
  BY <1>2, <1>3, <1>4, <1>5, <1>6, <1>7 DEF Acts

LEMMA AuditsStay ==
  ASSUME GroupsInv, G!Next
  PROVE  AuditInv'
<1>1. CASE Happens
  <2>1. UNCHANGED <<pc, op, seen, changed, logged, failed>>
    BY <1>1, HappensMoves
  <2>. QED
    BY <2>1 DEF GroupsInv, AuditInv, Audited
<1>2. ASSUME NEW r \in Requests, Acts(r) PROVE Audited(r)'
  <2>1. /\ changed \in [Requests -> BOOLEAN] /\ logged \in [Requests -> BOOLEAN]
        /\ op \in [Requests -> G!Ops] /\ seen \in [Requests -> G!Row] /\ Audited(r)
    BY Zenon DEF GroupsInv, G!TypeOK, AuditInv
  <2>2. pc \in [Requests -> G!Stages]
    BY Zenon DEF GroupsInv, G!TypeOK
  <2>. HIDE DEF GroupsInv
  <2>3. CASE Begins(r)
    <3>1. PICK name \in G!Ops, ok \in BOOLEAN :
            /\ pc[r] = "new" /\ op' = [op EXCEPT ![r] = name]
            /\ pc' = [pc EXCEPT ![r] = IF ok THEN "write" ELSE "refused"]
            /\ UNCHANGED <<changed, logged>>
      BY <2>3 DEF Begins, G!Begin, G!Step, G!audit
    <3>2. pc'[r] \in {"write", "refused"} /\ ~changed'[r] /\ ~logged'[r]
      BY <2>1, <2>2, <3>1 DEF Audited
    <3>. QED
      BY <3>2 DEF Audited
  <2>4. CASE GoesOn(r)
    <3>1. PICK from \in Waits, to \in Turns :
            /\ pc[r] = from /\ pc' = [pc EXCEPT ![r] = to]
            /\ UNCHANGED <<op, seen, changed, logged, failed>>
            /\ to = "error" => seen[r].id # 0
            /\ from = "reread" => to \in {"audit", "error"}
            /\ to = "audit" => from = "reread"
            /\ to = "settle" => seen[r].id # 0
      BY <2>4 DEF GoesOn, G!NoWrite, G!Step, G!audit
    <3>2. pc'[r] = to /\ to # "reread"
      BY <2>2, <3>1 DEF Turns
    <3>3. from # "reread" => ~changed[r] /\ ~logged[r]
      BY <2>1, <3>1 DEF Audited, Waits
    <3>4. from = "reread" /\ op[r] \notin G!Silent => changed[r] /\ ~logged[r]
      BY <2>1, <3>1 DEF Audited
    <3>. QED
      BY <3>1, <3>2, <3>3, <3>4 DEF Audited
  <2>5. CASE Rereads(r)
    <3>1. PICK to \in {"write", "error"} :
            /\ pc[r] = "again" /\ pc' = [pc EXCEPT ![r] = to]
            /\ UNCHANGED <<op, changed, logged>>
      BY <2>5 DEF Rereads, G!Step
    <3>2. pc'[r] = to /\ ~changed'[r] /\ ~logged'[r]
      BY <2>1, <2>2, <3>1 DEF Audited
    <3>. QED
      BY <3>1, <3>2 DEF Audited
  <2>6. CASE Writes(r)
    <3>1. PICK p \in G!Platforms, value \in G!Row, to \in Written :
            /\ pc[r] \in {"write", "fallback"} /\ pc' = [pc EXCEPT ![r] = to]
            /\ G!Write(r, p, value)
            /\ op[r] \notin G!Silent =>
                 (to # "settle" <=> value.status # row[p].status \/ value.tags # row[p].tags)
            /\ op[r] \in G!Silent => to = "audit"
            /\ to # "audit" => seen[r].id # 0
      BY <2>6, ZenonT(40) DEF Writes
    <3>2. ~changed[r] /\ ~logged[r]
      BY <2>1, <3>1 DEF Audited
    <3>. DEFINE now == value.status # row[p].status \/ value.tags # row[p].tags
    <3>3. /\ changed' = [changed EXCEPT ![r] = @ \/ now] /\ UNCHANGED <<op, seen, logged>>
      BY <3>1 DEF G!Write
    <3>4. op[r] \notin G!Silent => (to # "settle" <=> now)
      BY <3>1
    <3>. HIDE DEF now
    <3>5. changed'[r] <=> now
      BY <2>1, <3>2, <3>3, Zenon
    <3>6. pc'[r] = to /\ to \in {"audit", "reread", "settle"} /\ ~logged'[r]
      BY <2>1, <2>2, <3>1, <3>2, <3>3 DEF Written
    <3>. QED
      BY <3>1, <3>3, <3>4, <3>5, <3>6 DEF Audited
  <2>7. CASE G!Record(r)
    <3>1. /\ pc[r] = "audit" /\ pc' = [pc EXCEPT ![r] = "done"] /\ UNCHANGED <<op, changed>>
          /\ \/ logged' = [logged EXCEPT ![r] = TRUE] /\ UNCHANGED failed
             \/ failed' = failed \cup {r} /\ UNCHANGED logged
      BY <2>7 DEF G!Record, G!Step
    <3>2. pc'[r] = "done" /\ (logged'[r] \/ (r \in failed' /\ logged'[r] = logged[r]))
      BY <2>1, <2>2, <3>1
    <3>. QED
      BY <2>1, <3>1, <3>2 DEF Audited
  <2>8. CASE G!Fails(r)
    <3>1. /\ pc[r] \notin {"done", "error"} /\ pc' = [pc EXCEPT ![r] = "error"]
          /\ failed' = failed \cup {r} /\ UNCHANGED <<op, seen, changed, logged>>
      BY <2>8 DEF G!Fails, G!Step
    <3>2. pc'[r] = "error" /\ r \in failed'
      BY <2>2, <3>1
    <3>3. op[r] \notin G!Silent => ~logged[r]
      BY <2>1, <3>1 DEF Audited
    <3>. QED
      BY <3>1, <3>2, <3>3 DEF Audited
  <2>. QED
    BY <1>2, <2>3, <2>4, <2>5, <2>6, <2>7, <2>8, Zenon DEF Acts
<1>3. ASSUME NEW r \in Requests, Acts(r), NEW q \in Requests, q # r PROVE Audited(q)'
  <2>1. Audited(q)
    BY DEF GroupsInv, AuditInv
  <2>. QED
    BY <1>3, <2>1, OtherRequests DEF Audited
<1>. QED
  BY <1>1, <1>2, <1>3, GroupsSteps DEF AuditInv

LEMMA FailuresStay ==
  ASSUME GroupsInv, G!Next
  PROVE  G!Converges'
<1>. DEFINE Lost(q) == pc[q] = "error" =>
                         \/ q \in failed
                         \/ target[q] = "max" /\ (seen[q].id # 0 => row["max"].id # seen[q].id)
<1>1. \A q \in Requests : Lost(q)
  BY DEF GroupsInv, G!Converges, G!IsSeen
<1>2. IdsMove /\ RequestsKnow
  BY IdsStay DEF GroupsInv
<1>3. ASSUME NEW q \in Requests, pc'[q] = pc[q], target'[q] = target[q], seen'[q] = seen[q],
             q \in failed => q \in failed'
      PROVE  Lost(q)'
  <2>1. seen[q].id \in 0 .. MaxRows + 1 /\ ids \in 0 .. MaxRows + 1 /\ MaxRows \in Nat
    BY RowTyped, RequestTyped, GroupsConstants DEF G!Row
  <2>2. Lost(q) /\ (target[q] = "max" => seen[q].id <= ids)
    BY <1>1, <1>2 DEF RequestsKnow, Knows
  <2>. QED
    BY <1>2, <1>3, <2>1, <2>2 DEF IdsMove
<1>4. ASSUME NEW q \in Requests, Happens PROVE Lost(q)'
  BY <1>3, <1>4, HappensMoves
<1>5. ASSUME NEW r \in Requests, Acts(r), NEW q \in Requests PROVE Lost(q)'
  <2>1. seen \in [Requests -> G!Row] /\ pc \in [Requests -> G!Stages]
    BY Zenon DEF GroupsInv, G!TypeOK
  <2>2. CASE q # r
    BY <1>3, <1>5, <2>2, OtherRequests
  <2>3. CASE q = r
    <3>1. CASE Begins(r)
      <4>1. \E ok \in BOOLEAN : pc' = [pc EXCEPT ![r] = IF ok THEN "write" ELSE "refused"]
        BY <3>1 DEF Begins, G!Begin, G!Step
      <4>. QED
        BY <2>1, <2>3, <4>1
    <3>2. CASE GoesOn(r)
      <4>1. PICK to \in Turns :
              /\ pc' = [pc EXCEPT ![r] = to] /\ UNCHANGED <<target, seen, row>>
              /\ to = "error" => target[r] = "max" /\ ~G!IsSeen(r)
        BY <3>2 DEF GoesOn, G!Step, G!NoWrite
      <4>. QED
        BY <2>1, <2>3, <4>1 DEF G!IsSeen
    <3>3. CASE Rereads(r)
      <4>1. PICK to \in {"write", "error"} :
              /\ pc' = [pc EXCEPT ![r] = to] /\ UNCHANGED <<target, row>>
              /\ seen' = [seen EXCEPT ![r] = row[target[r]]]
              /\ to = "error" => target[r] = "max" /\ row["max"].id = 0
        BY <3>3 DEF Rereads, G!Step
      <4>. QED
        BY <2>1, <2>3, <4>1
    <3>4. CASE Writes(r) \/ G!Record(r)
      <4>1. PICK to \in {"audit", "reread", "settle", "done"} : pc' = [pc EXCEPT ![r] = to]
        BY <3>4 DEF Writes, G!Record, G!Step, Written
      <4>. QED
        BY <2>1, <2>3, <4>1
    <3>5. CASE G!Fails(r)
      BY <2>3, <3>5 DEF G!Fails
    <3>. QED
      BY <1>5, <3>1, <3>2, <3>3, <3>4, <3>5 DEF Acts
  <2>. QED
    BY <2>2, <2>3
<1>6. \A q \in Requests : Lost(q)'
  BY <1>4, <1>5, GroupsSteps, Zenon
<1>. QED
  BY <1>6 DEF G!Converges, G!IsSeen

LEMMA ApprovalStays ==
  ASSUME GroupsInv, G!Next
  PROVE  ApprovedInv'
<1>1. ApprovedInv
  BY DEF GroupsInv
<1>2. CASE Happens
  BY <1>2, HappensMoves
<1>3. ASSUME NEW r \in Requests, Acts(r) PROVE ApprovedInv'
  <2>1. CASE UNCHANGED <<row, approved, overwritten>>
    BY <1>1, <2>1 DEF ApprovedInv
  <2>2. CASE Writes(r)
    <3>1. PICK p \in G!Platforms, value \in G!Row :
            /\ G!Write(r, p, value) /\ (value.id = 0 <=> value.status = "none")
            /\ (p = "max" /\ value.status \in Confirmed) =>
                 op[r] = "confirm" \/ row["max"].status \in Confirmed
      BY <2>2, Zenon DEF Writes
    <3>2. row'[p] = value /\ \A q \in G!Platforms \ {p} : row'[q] = row[q]
      BY <3>1, WriteTyped
    <3>3. overwritten' = overwritten
      BY <3>1 DEF G!Write
    <3>4. CASE p = "max"
      <4>1. approved' <=> /\ value.status \notin {"none", "pending_confirmation", "removed"}
                          /\ approved \/ op[r] = "confirm"
        BY <3>1, <3>4, Zenon DEF G!Write
      <4>. QED
        BY <1>1, <3>1, <3>2, <3>3, <3>4, <4>1 DEF ApprovedInv, Confirmed
    <3>5. CASE p # "max"
      <4>1. approved' = approved /\ row'["max"] = row["max"]
        BY <3>1, <3>2, <3>5, RowTyped DEF G!Write
      <4>. QED
        BY <1>1, <3>3, <4>1 DEF ApprovedInv
    <3>. QED
      BY <3>4, <3>5
  <2>3. Begins(r) => UNCHANGED <<row, approved, overwritten>>
    BY DEF Begins, G!Begin, G!ghosts
  <2>4. GoesOn(r) \/ Rereads(r) \/ G!Record(r) \/ G!Fails(r)
          => UNCHANGED <<row, approved, overwritten>>
    BY DEF GoesOn, Rereads, G!Record, G!Fails, G!NoWrite, G!ghosts
  <2>. QED
    BY <1>3, <2>1, <2>2, <2>3, <2>4, Zenon DEF Acts
<1>. QED
  BY <1>2, <1>3, GroupsSteps

LEMMA GroupsStay ==
  ASSUME GroupsInv, [G!Next]_groups
  PROVE  GroupsInv'
<1>1. CASE G!Next
  BY <1>1, TypesStay, RowsStay, RequestsStay, AuditsStay, FailuresStay, ApprovalStays, Zenon
     DEF GroupsInv
<1>2. CASE UNCHANGED groups
  <2>1. UNCHANGED <<row, ids, history, flight, pc, op, target, seen, new, changed, logged,
                    failed, approved, overwritten>>
    BY <1>2 DEF groups
  <2>2. G!TypeOK' /\ G!Converges'
    BY <2>1 DEF GroupsInv, G!TypeOK, G!Converges, G!IsSeen
  <2>3. RowsStand' /\ RequestsKnow' /\ AuditInv' /\ ApprovedInv'
    BY <2>1 DEF GroupsInv, RowsStand, RequestsKnow, Knows, AuditInv, Audited, ApprovedInv
  <2>. QED
    BY <2>2, <2>3 DEF GroupsInv
<1>. QED
  BY <1>1, <1>2

LEMMA GroupsAlways == RecordsSpec => []GroupsInv
<1>1. RecordsInit => GroupsInv
  BY GroupsStart DEF RecordsInit
<1>2. GroupsInv /\ [RecordsNext]_<<groups, library, warning>> => GroupsInv'
  <2>1. [RecordsNext]_<<groups, library, warning>> => [G!Next]_groups
    BY Zenon DEF RecordsNext
  <2>. QED
    BY <2>1, GroupsStay
<1>. QED
  BY <1>1, <1>2, PTL DEF RecordsSpec

\* Rows of groups keep their types; a request that is over recorded no change it
\* did not make, and one it made goes unrecorded only if the database failed it or
\* its record, or its group was gone before it read it again; and two connections
\* of one community, or two updates of one chat, converge on its row
\* (GroupsService, AuditService).
THEOREM GroupsAreSound == RecordsSpec => []GroupsSound
<1>1. GroupsInv => GroupsSound
  <2>1. ASSUME GroupsInv, NEW r \in Requests, op[r] \notin G!Silent
        PROVE  /\ logged[r] => changed[r]
               /\ pc[r] \in {"done", "refused", "error"} /\ changed[r] /\ ~logged[r]
                    => r \in failed \/ (pc[r] = "error" /\ ~G!IsSeen(r))
    <3>1. Audited(r) /\ G!Converges /\ changed[r] \in BOOLEAN /\ logged[r] \in BOOLEAN
      BY <2>1, Zenon DEF GroupsInv, AuditInv, G!TypeOK
    <3>2. pc[r] = "error" /\ seen[r].id # 0 => r \in failed \/ ~G!IsSeen(r)
      BY <3>1 DEF G!Converges
    <3>. QED
      BY <2>1, <3>1, <3>2 DEF Audited
  <2>. QED
    BY <2>1 DEF GroupsInv, GroupsSound, G!GroupsSound, G!AuditIsTrue
<1>. QED
  BY <1>1, GroupsAlways, PTL

\* However updates of the bot, reviews and disconnections cross, a chat is a
\* target only if an admin confirmed it since it was a draft or was
\* disconnected, unless a refused delivery overwrote that (maxDraftStatus).
THEOREM TargetsAreApproved == RecordsSpec => []ApprovedUnlessFlagged
<1>1. GroupsInv => ApprovedUnlessFlagged
  BY DEF GroupsInv, ApprovedInv, ApprovedUnlessFlagged, G!ApprovedUnlessFlagged,
         G!ApprovedIfActive, G!Status
<1>. QED
  BY <1>1, GroupsAlways, PTL

-----------------------------------------------------------------------------
(***************************************************************************)
(* MediaLibrary.                                                           *)
(***************************************************************************)

\* What an upload has in hand at each of its steps: its file; nothing on disk
\* before it writes; the original, and the copy it says it made, before the row
\* is created; and when it found a row, that row.
Original(u) == <<u, "original">>
Optimized(u) == <<u, "optimized">>

OnDisk(u) ==
  /\ step[u] \in {"idle", "converting"} => Original(u) \notin disk
  /\ step[u] \in {"idle", "converting", "writing", "optimizing"} =>
       Optimized(u) \notin disk /\ ~copy[u]
  /\ step[u] \in {"optimizing", "creating"} => Original(u) \in disk
  /\ (step[u] = "creating" /\ copy[u]) => Optimized(u) \in disk
  /\ (step[u] \in {"creating", "discarding"} \/ why[u] = "lost") =>
       (Optimized(u) \in disk => copy[u])

\* An upload whose answer was lost has its row, and is not taken further.
Lost(u) ==
  why[u] = "lost" =>
    /\ step[u] \in {"discarding", "failed"}
    /\ \E i \in DOMAIN rows : rows[i].owner = u /\ rows[i].optimized = copy[u]

\* The row an upload gives back, or is to convert, is of its file.
InHand(u) ==
  /\ step[u] # "idle" => file[u] \in L!Files
  /\ step[u] \in {"converting", "done"} =>
       result[u] \in DOMAIN rows /\ rows[result[u]].file = file[u]
  /\ step[u] = "converting" => file[u] \in Clips
  /\ step[u] = "done" => rows[result[u]].kind = L!KindOf(file[u])

UploadsInv == \A u \in Uploads : OnDisk(u) /\ Lost(u) /\ InHand(u)

\* A row belongs to an upload that is done or whose answer was lost, or to the
\* old files; and only clips may be misfiled.
RowsInv ==
  \A i \in DOMAIN rows :
    /\ rows[i].owner \in Uploads => step[rows[i].owner] = "done" \/ why[rows[i].owner] = "lost"
    /\ rows[i].kind # L!KindOf(rows[i].file) =>
         rows[i].kind = "document" /\ rows[i].file \in Clips

LibraryInv ==
  /\ L!TypeOK /\ result \in [Uploads -> Nat]
  /\ UploadsInv /\ RowsInv
  /\ L!RowsHaveFiles /\ L!NoOrphans

\* The oldest of some rows is one of them.
LEMMA OldestIsOne ==
  ASSUME NEW is \in SUBSET Nat, is # {}
  PROVE  L!Oldest(is) \in is
<1>1. PICK i \in is : \A j \in is : ~ (<<j, i>> \in OpToRel(<, Nat))
  BY NatLessThanWellFounded, WFMin
<1>2. ASSUME NEW j \in is, j < i PROVE FALSE
  <2>1. <<j, i>> \in Nat \X Nat /\ <<j, i>>[1] < <<j, i>>[2]
    BY <1>2
  <2>2. <<j, i>> \in {ss \in Nat \X Nat : ss[1] < ss[2]}
    BY <2>1
  <2>. QED
    BY <1>1, <2>2 DEF OpToRel
<1>3. \A j \in is : i <= j
  BY <1>2
<1>. QED
  BY <1>3 DEF L!Oldest

\* MediaLibrary's sets are counted as everybody's.
LEMMA SameFiniteSets ==
  ASSUME NEW S
  PROVE  L!IsFiniteSet(S) <=> IsFiniteSet(S)
BY DEF L!IsFiniteSet, IsFiniteSet

LEMMA SameCardinality ==
  ASSUME NEW S
  PROVE  L!Cardinality(S) = Cardinality(S)
BY SameFiniteSets, Zenon DEF L!Cardinality, Cardinality

LEMMA LibraryConstants ==
  /\ Old \subseteq Clips /\ IsFiniteSet(Old) /\ MaxFaults \in Nat /\ Uploads \cap Old = {}
  /\ Clips \subseteq L!Files /\ L!NoFile \notin L!Files
<1>1. /\ Old \subseteq Clips /\ IsFiniteSet(Old) /\ MaxFaults \in Nat /\ Uploads \cap Old = {}
      /\ L!NoFile \notin L!Files
  BY RecordsAssumption, SameFiniteSets, Zenon DEF L!FilesAssumption
<1>2. Clips \subseteq L!Files
  BY DEF L!Files
<1>. QED
  BY <1>1, <1>2

\* Content decides what a file is: it has one kind, and clips are videos.
LEMMA KindsOfFiles ==
  ASSUME NEW f \in L!Files
  PROVE  /\ L!KindOf(f) \in {"image", "video", "document"}
         /\ f \in Clips => L!KindOf(f) = "video"
<1>1. /\ Clips \cap Texts = {} /\ (Pngs \cup Pictures) \cap (Clips \cup Texts) = {}
  BY RecordsAssumption DEF L!FilesAssumption
<1>2. CASE f \in Pngs \cup Pictures
  BY <1>1, <1>2, Zenon DEF L!KindOf, L!ProbeVideo
<1>3. CASE f \in Clips
  BY <1>1, <1>3, Zenon DEF L!KindOf, L!ProbeVideo
<1>4. CASE f \in Texts
  BY <1>1, <1>4, Zenon DEF L!KindOf, L!ProbeVideo
<1>. QED
  BY <1>1, <1>2, <1>3, <1>4 DEF L!Files

LEMMA LibraryStart == L!Init => LibraryInv
<1>. SUFFICES ASSUME L!Init PROVE LibraryInv
  OBVIOUS
<1>1. PICK order \in [1..Cardinality(Old) -> Old] :
        /\ \A f \in Old : \E i \in DOMAIN order : order[i] = f
        /\ rows = [i \in DOMAIN order |-> L!Row(order[i], order[i], "document", FALSE)]
  BY SameCardinality, Zenon DEF L!Init
<1>2. Cardinality(Old) \in Nat /\ DOMAIN order = 1..Cardinality(Old)
  BY <1>1, LibraryConstants, FS_CardinalityType
<1>3. /\ disk = {<<f, "original">> : f \in Old}
      /\ step = [u \in Uploads |-> "idle"] /\ file = [u \in Uploads |-> L!NoFile]
      /\ copy = [u \in Uploads |-> FALSE] /\ result = [u \in Uploads |-> L!None]
      /\ why = [u \in Uploads |-> "nothing"] /\ faults = 0
  BY DEF L!Init
<1>4. \A i \in DOMAIN rows :
        /\ order[i] \in Old /\ rows[i].owner = order[i] /\ rows[i].file = order[i]
        /\ rows[i].kind = "document" /\ rows[i].optimized = FALSE
  BY <1>1 DEF L!Row
<1>5. rows \in Seq(L!RowType)
  <2>1. \A i \in 1..Cardinality(Old) :
          L!Row(order[i], order[i], "document", FALSE) \in L!RowType
    BY <1>1, LibraryConstants DEF L!Row, L!RowType
  <2>2. rows \in [1..Cardinality(Old) -> L!RowType]
    BY <1>1, <1>2, <2>1
  <2>. QED
    BY <1>2, <2>2
<1>6. L!TypeOK /\ result \in [Uploads -> Nat]
  <2>1. disk \subseteq (Uploads \cup Old) \X {"original", "optimized"}
    BY <1>3
  <2>2. step \in [Uploads -> L!Steps] /\ file \in [Uploads -> L!Files \cup {L!NoFile}]
    BY <1>3 DEF L!Steps
  <2>3. copy \in [Uploads -> BOOLEAN]
    BY <1>3, Zenon
  <2>4. result \in [Uploads -> Nat] /\ \A u \in Uploads : result[u] = L!None
    BY <1>3 DEF L!None
  <2>5. why \in [Uploads -> L!Reasons] /\ faults \in 0..MaxFaults
    BY <1>3, LibraryConstants DEF L!Reasons
  <2>. QED
    BY <1>5, <2>1, <2>2, <2>3, <2>4, <2>5 DEF L!TypeOK
<1>7. \A u \in Uploads : u \notin Old
  BY LibraryConstants
<1>8. UploadsInv
  <2>. SUFFICES ASSUME NEW u \in Uploads PROVE OnDisk(u) /\ Lost(u) /\ InHand(u)
    BY DEF UploadsInv
  <2>1. step[u] = "idle" /\ ~copy[u] /\ why[u] = "nothing"
    BY <1>3
  <2>2. Original(u) \notin disk /\ Optimized(u) \notin disk
    BY <1>3, <1>7 DEF Original, Optimized
  <2>. QED
    BY <2>1, <2>2 DEF OnDisk, Lost, InHand
<1>9. RowsInv
  BY <1>4, <1>7, LibraryConstants DEF RowsInv
<1>10. L!RowsHaveFiles
  BY <1>3, <1>4 DEF L!RowsHaveFiles, L!NamedBy
<1>11. L!NoOrphans
  <2>. SUFFICES ASSUME NEW p \in disk PROVE \E i \in DOMAIN rows : p \in L!NamedBy(i)
    BY DEF L!NoOrphans
  <2>1. PICK f \in Old : p = <<f, "original">>
    BY <1>3
  <2>2. PICK i \in DOMAIN order : order[i] = f
    BY <1>1
  <2>3. i \in DOMAIN rows /\ rows[i].owner = f
    BY <1>1, <1>4, <2>2
  <2>. QED
    BY <2>1, <2>3 DEF L!NamedBy
<1>. QED
  BY <1>6, <1>8, <1>9, <1>10, <1>11 DEF LibraryInv

\* Rows are only added, and only the kind of a clip's row is ever changed.
RowsGrow ==
  \A i \in DOMAIN rows :
    /\ i \in DOMAIN rows'
    /\ rows'[i].owner = rows[i].owner /\ rows'[i].file = rows[i].file
    /\ rows'[i].optimized = rows[i].optimized
    /\ \/ rows'[i].kind = rows[i].kind
       \/ rows'[i].kind = "video" /\ rows[i].file \in Clips

LEMMA RowsTyped ==
  ASSUME LibraryInv
  PROVE  /\ rows \in Seq(L!RowType) /\ Len(rows) \in Nat /\ DOMAIN rows = 1..Len(rows)
         /\ \A i \in DOMAIN rows : rows[i] \in L!RowType
<1>1. rows \in Seq(L!RowType)
  BY DEF LibraryInv, L!TypeOK
<1>. QED
  BY <1>1

LEMMA UploadsTyped ==
  ASSUME LibraryInv
  PROVE  /\ step \in [Uploads -> L!Steps] /\ file \in [Uploads -> L!Files \cup {L!NoFile}]
         /\ copy \in [Uploads -> BOOLEAN] /\ result \in [Uploads -> Nat]
         /\ why \in [Uploads -> L!Reasons]
         /\ disk \subseteq (Uploads \cup Old) \X {"original", "optimized"}
         /\ \A u \in Uploads : OnDisk(u) /\ Lost(u) /\ InHand(u)
BY Zenon DEF LibraryInv, L!TypeOK, UploadsInv

LEMMA UnchangedGrow ==
  ASSUME rows' = rows
  PROVE  RowsGrow
BY DEF RowsGrow

LEMMA AppendGrows ==
  ASSUME LibraryInv, NEW x \in L!RowType, rows' = Append(rows, x)
  PROVE  /\ RowsGrow /\ rows' \in Seq(L!RowType)
         /\ DOMAIN rows' = 1..(Len(rows) + 1) /\ Len(rows') = Len(rows) + 1
         /\ rows'[Len(rows) + 1] = x
         /\ \A i \in DOMAIN rows : rows'[i] = rows[i]
<1>1. /\ rows \in Seq(L!RowType) /\ Len(rows) \in Nat /\ DOMAIN rows = 1..Len(rows)
  BY RowsTyped
<1>2. /\ rows' \in Seq(L!RowType) /\ Len(rows') = Len(rows) + 1
      /\ \A i \in 1..Len(rows) : rows'[i] = rows[i]
      /\ rows'[Len(rows) + 1] = x
  BY <1>1
<1>3. DOMAIN rows' = 1..(Len(rows) + 1)
  BY <1>1, <1>2
<1>. QED
  BY <1>1, <1>2, <1>3 DEF RowsGrow

\* What an upload has stays right while others move.
LEMMA OthersStay ==
  ASSUME LibraryInv, RowsGrow, NEW u \in Uploads,
         step'[u] = step[u], file'[u] = file[u], copy'[u] = copy[u],
         result'[u] = result[u], why'[u] = why[u],
         Original(u) \in disk' <=> Original(u) \in disk,
         Optimized(u) \in disk' <=> Optimized(u) \in disk
  PROVE  OnDisk(u)' /\ Lost(u)' /\ InHand(u)'
<1>1. OnDisk(u) /\ Lost(u) /\ InHand(u)
  BY UploadsTyped
<1>2. OnDisk(u)'
  BY <1>1 DEF OnDisk, Original, Optimized
<1>3. Lost(u)'
  BY <1>1 DEF Lost, RowsGrow
<1>4. InHand(u)'
  <2>1. file[u] \in Clips => L!KindOf(file[u]) = "video"
    BY KindsOfFiles, LibraryConstants
  <2>2. /\ step[u] # "idle" => file[u] \in L!Files
        /\ step[u] \in {"converting", "done"} =>
             result[u] \in DOMAIN rows' /\ rows'[result[u]].file = file[u]
    BY <1>1 DEF InHand, RowsGrow
  <2>3. step[u] = "converting" => file[u] \in Clips
    BY <1>1 DEF InHand
  <2>4. step[u] = "done" => rows'[result[u]].kind = L!KindOf(file[u])
    BY <1>1, <2>1 DEF InHand, RowsGrow
  <2>. QED
    BY <2>2, <2>3, <2>4 DEF InHand
<1>. QED
  BY <1>2, <1>3, <1>4

LEMMA PairsDiffer ==
  ASSUME NEW u, NEW v
  PROVE  /\ u # v => Original(u) # Original(v) /\ Optimized(u) # Optimized(v)
         /\ Original(u) # Optimized(v)
BY DEF Original, Optimized

\* An upload that may have files no row names.
Excused(u) == L!Running(u) \/ why[u] \in {"crash", "discard", "write", "optimize"}

LEMMA NamesGrow ==
  ASSUME RowsGrow, NEW i \in DOMAIN rows
  PROVE  L!NamedBy(i)' = L!NamedBy(i)
BY DEF RowsGrow, L!NamedBy

\* Rows keep their owners and kinds where no row is added.
LEMMA OwnersKept ==
  ASSUME LibraryInv, RowsGrow, DOMAIN rows' = DOMAIN rows,
         \A u \in Uploads : /\ step[u] = "done" => step'[u] = "done"
                            /\ why[u] = "lost" => why'[u] = "lost"
  PROVE  RowsInv'
<1>. SUFFICES ASSUME NEW i \in DOMAIN rows
              PROVE  /\ rows'[i].owner \in Uploads =>
                          step'[rows'[i].owner] = "done" \/ why'[rows'[i].owner] = "lost"
                     /\ rows'[i].kind # L!KindOf(rows'[i].file) =>
                          rows'[i].kind = "document" /\ rows'[i].file \in Clips
  BY DEF RowsInv
<1>1. /\ rows[i].owner \in Uploads =>
           step[rows[i].owner] = "done" \/ why[rows[i].owner] = "lost"
      /\ rows[i].kind # L!KindOf(rows[i].file) =>
           rows[i].kind = "document" /\ rows[i].file \in Clips
  BY DEF LibraryInv, RowsInv
<1>2. rows[i].file \in Clips => L!KindOf(rows[i].file) = "video"
  BY KindsOfFiles, LibraryConstants
<1>. QED
  BY <1>1, <1>2 DEF RowsGrow

\* Rows and files keep to each other where no row is added and no file removed.
LEMMA RowsKept ==
  ASSUME LibraryInv, RowsGrow, DOMAIN rows' = DOMAIN rows, disk \subseteq disk',
         \A u \in Uploads : /\ step[u] = "done" => step'[u] = "done"
                            /\ why[u] = "lost" => why'[u] = "lost"
  PROVE  RowsInv' /\ L!RowsHaveFiles'
<1>1. RowsInv'
  BY OwnersKept
<1>2. L!RowsHaveFiles'
  <2>. SUFFICES ASSUME NEW i \in DOMAIN rows
                PROVE  \/ L!NamedBy(i)' \subseteq disk'
                       \/ rows'[i].owner \in Uploads /\ why'[rows'[i].owner] = "lost"
    BY DEF L!RowsHaveFiles
  <2>1. \/ L!NamedBy(i) \subseteq disk
        \/ rows[i].owner \in Uploads /\ why[rows[i].owner] = "lost"
    BY DEF LibraryInv, L!RowsHaveFiles
  <2>2. L!NamedBy(i)' = L!NamedBy(i) /\ rows'[i].owner = rows[i].owner
    BY NamesGrow DEF RowsGrow
  <2>. QED
    BY <2>1, <2>2
<1>. QED
  BY <1>1, <1>2

\* No file is orphaned by a step that leaves every upload excused, or its files
\* named by a row.
LEMMA OrphansKept ==
  ASSUME LibraryInv, RowsGrow,
         \A p \in disk' \ disk : p[1] \in Uploads /\ Excused(p[1])',
         \A u \in Uploads : Excused(u) =>
           \/ Excused(u)'
           \/ \A p \in disk' : p[1] = u => \E i \in DOMAIN rows' : p \in L!NamedBy(i)'
  PROVE  L!NoOrphans'
<1>. SUFFICES ASSUME NEW p \in disk'
              PROVE  \/ \E i \in DOMAIN rows' : p \in L!NamedBy(i)'
                     \/ p[1] \in Uploads /\ Excused(p[1])'
  BY Zenon DEF L!NoOrphans, Excused
<1>1. CASE p \notin disk
  BY <1>1
<1>2. ASSUME NEW i \in DOMAIN rows, p \in L!NamedBy(i)
      PROVE  \E j \in DOMAIN rows' : p \in L!NamedBy(j)'
  BY <1>2, NamesGrow DEF RowsGrow
<1>3. CASE p[1] \in Uploads /\ Excused(p[1])
  BY <1>3, Zenon
<1>4. p \in disk => \/ \E i \in DOMAIN rows : p \in L!NamedBy(i)
                    \/ p[1] \in Uploads /\ Excused(p[1])
  BY Zenon DEF LibraryInv, L!NoOrphans, Excused
<1>. QED
  BY <1>1, <1>2, <1>3, <1>4, Zenon

\* The files of an upload are its original and its copy.
LEMMA FilesOfUpload ==
  ASSUME NEW u, NEW p \in (Uploads \cup Old) \X {"original", "optimized"}, p[1] = u
  PROVE  p = Original(u) \/ p = Optimized(u)
BY DEF Original, Optimized

\* When no row is added and nothing on disk changes, an upload's step.
LEMMA QuietStep ==
  ASSUME LibraryInv, NEW u \in Uploads, UNCHANGED disk, RowsGrow,
         DOMAIN rows' = DOMAIN rows, step[u] # "done", why[u] # "lost",
         \A v \in Uploads \ {u} :
           /\ step'[v] = step[v] /\ file'[v] = file[v] /\ copy'[v] = copy[v]
           /\ result'[v] = result[v] /\ why'[v] = why[v],
         OnDisk(u)', Lost(u)', InHand(u)',
         Excused(u) => Excused(u)' \/ (Original(u) \notin disk /\ Optimized(u) \notin disk)
  PROVE  UploadsInv' /\ RowsInv' /\ L!RowsHaveFiles' /\ L!NoOrphans'
<1>1. UploadsInv'
  <2>1. ASSUME NEW v \in Uploads, v # u PROVE OnDisk(v)' /\ Lost(v)' /\ InHand(v)'
    BY <2>1, OthersStay
  <2>. QED
    BY <2>1 DEF UploadsInv
<1>2. RowsInv' /\ L!RowsHaveFiles'
  BY RowsKept
<1>3. L!NoOrphans'
  <2>1. ASSUME NEW v \in Uploads, Excused(v)
        PROVE  Excused(v)' \/ \A p \in disk' : p[1] # v
    <3>1. CASE v # u
      BY <2>1, <3>1 DEF Excused, L!Running
    <3>2. CASE v = u /\ ~Excused(v)'
      BY <2>1, <3>2, FilesOfUpload, UploadsTyped
    <3>. QED
      BY <3>1, <3>2
  <2>. QED
    BY <2>1, OrphansKept
<1>. QED
  BY <1>1, <1>2, <1>3

LEMMA MovesUpload ==
  ASSUME LibraryInv, NEW u \in Uploads, NEW to \in L!Steps, L!Moves(u, to)
  PROVE  /\ step' \in [Uploads -> L!Steps] /\ step'[u] = to
         /\ \A v \in Uploads \ {u} : step'[v] = step[v]
<1>1. step \in [Uploads -> L!Steps]
  BY UploadsTyped
<1>. QED
  BY <1>1 DEF L!Moves

LEMMA ThrowsUpload ==
  ASSUME LibraryInv, NEW u \in Uploads, NEW reason \in L!Reasons,
         why' = [why EXCEPT ![u] = reason]
  PROVE  /\ why' \in [Uploads -> L!Reasons] /\ why'[u] = reason
         /\ \A v \in Uploads \ {u} : why'[v] = why[v]
<1>1. why \in [Uploads -> L!Reasons]
  BY UploadsTyped
<1>. QED
  BY <1>1

LEMMA FaultTyped ==
  ASSUME LibraryInv
  PROVE  /\ faults \in 0..MaxFaults
         /\ L!Fault => faults' \in 0..MaxFaults
<1>1. faults \in 0..MaxFaults /\ MaxFaults \in Nat
  BY LibraryConstants DEF LibraryInv, L!TypeOK
<1>. QED
  BY <1>1 DEF L!Fault

\* The types after a step, part by part.
LEMMA LibraryTypes ==
  ASSUME LibraryInv, rows' \in Seq(L!RowType), DOMAIN rows \subseteq DOMAIN rows',
         disk' \subseteq (Uploads \cup Old) \X {"original", "optimized"},
         step' \in [Uploads -> L!Steps], file' \in [Uploads -> L!Files \cup {L!NoFile}],
         copy' \in [Uploads -> BOOLEAN], result' \in [Uploads -> Nat],
         \A u \in Uploads : result'[u] = result[u] \/ result'[u] \in DOMAIN rows',
         why' \in [Uploads -> L!Reasons], faults' \in 0..MaxFaults
  PROVE  L!TypeOK' /\ (result \in [Uploads -> Nat])'
<1>1. \A u \in Uploads : result'[u] \in {L!None} \cup DOMAIN rows'
  <2>1. \A u \in Uploads : result[u] \in {L!None} \cup DOMAIN rows
    BY DEF LibraryInv, L!TypeOK
  <2>. QED
    BY <2>1
<1>. QED
  BY <1>1, Zenon DEF L!TypeOK

LEMMA FindStays ==
  ASSUME LibraryInv, NEW u \in Uploads, NEW f \in L!Files, L!Find(u, f)
  PROVE  LibraryInv'
<1>1. /\ step[u] = "idle" /\ file' = [file EXCEPT ![u] = f]
      /\ UNCHANGED <<rows, disk, copy, why, faults>>
  BY DEF L!Find
<1>2. /\ L!Of(f) \in SUBSET Nat /\ L!Of(f) \subseteq DOMAIN rows
      /\ \A i \in L!Of(f) : rows[i].file = f
  BY RowsTyped DEF L!Of, L!Matches
<1>3. /\ file \in [Uploads -> L!Files \cup {L!NoFile}] /\ result \in [Uploads -> Nat]
      /\ OnDisk(u) /\ Lost(u)
  BY UploadsTyped
<1>4. file'[u] = f /\ file' \in [Uploads -> L!Files \cup {L!NoFile}]
      /\ \A v \in Uploads \ {u} : file'[v] = file[v]
  BY <1>1, <1>3
<1>5. RowsGrow /\ why[u] # "lost"
  BY <1>1, <1>3, UnchangedGrow DEF Lost
<1>6. ASSUME NEW to \in {"writing", "converting", "done"}, L!Moves(u, to),
             result' \in [Uploads -> Nat],
             \A v \in Uploads \ {u} : result'[v] = result[v],
             result'[u] = result[u] \/ result'[u] \in DOMAIN rows,
             InHand(u)'
      PROVE  LibraryInv'
  <2>1. /\ step' \in [Uploads -> L!Steps] /\ step'[u] = to
        /\ \A v \in Uploads \ {u} : step'[v] = step[v]
    BY <1>6, MovesUpload DEF L!Steps
  <2>2. OnDisk(u)' /\ Lost(u)'
    BY <1>1, <1>3, <1>5, <2>1 DEF OnDisk, Lost, Original, Optimized
  <2>3. Original(u) \notin disk /\ Optimized(u) \notin disk
    BY <1>1, <1>3 DEF OnDisk
  <2>4. UploadsInv' /\ RowsInv' /\ L!RowsHaveFiles' /\ L!NoOrphans'
    <3>1. \A v \in Uploads \ {u} :
            /\ step'[v] = step[v] /\ file'[v] = file[v] /\ copy'[v] = copy[v]
            /\ result'[v] = result[v] /\ why'[v] = why[v]
      BY <1>1, <1>4, <1>6, <2>1
    <3>. QED
      BY <1>1, <1>5, <1>6, <2>2, <2>3, <3>1, QuietStep
  <2>5. L!TypeOK' /\ (result \in [Uploads -> Nat])'
    <3>1. \A v \in Uploads : result'[v] = result[v] \/ result'[v] \in DOMAIN rows'
      BY <1>1, <1>6
    <3>. QED
      BY <1>1, <1>4, <1>6, <2>1, <3>1, LibraryTypes, RowsTyped, UploadsTyped, FaultTyped
  <2>. QED
    BY <2>4, <2>5 DEF LibraryInv
<1>7. CASE L!Of(f) = {}
  <2>1. L!Moves(u, "writing") /\ result' = result
    BY <1>7 DEF L!Find
  <2>2. step'[u] = "writing"
    BY <2>1, MovesUpload DEF L!Steps
  <2>3. InHand(u)'
    BY <1>4, <2>2 DEF InHand
  <2>. QED
    BY <1>3, <1>6, <2>1, <2>3
<1>8. CASE L!Of(f) # {}
  <2>. DEFINE i == L!Oldest(L!Of(f))
              to == IF L!Misfiled(i) THEN "converting" ELSE "done"
  <2>1. result' = [result EXCEPT ![u] = i] /\ L!Moves(u, to)
    BY <1>8 DEF L!Find
  <2>2. i \in L!Of(f)
    BY <1>2, <1>8, OldestIsOne
  <2>3. i \in DOMAIN rows /\ rows[i].file = f /\ i \in Nat
    BY <1>2, <2>2
  <2>4. to \in {"converting", "done"}
    OBVIOUS
  <2>5. to = "converting" => f \in Clips
    BY <2>3 DEF L!Misfiled, L!ProbeVideo
  <2>6. to = "done" => rows[i].kind = L!KindOf(f)
    BY <2>3 DEF L!Misfiled, L!ProbeVideo, LibraryInv, RowsInv
  <2>. HIDE DEF i, to
  <2>7. /\ result' \in [Uploads -> Nat] /\ result'[u] = i
        /\ \A v \in Uploads \ {u} : result'[v] = result[v]
    BY <1>3, <2>1, <2>3
  <2>8. step'[u] = to
    BY <2>1, <2>4, MovesUpload DEF L!Steps
  <2>9. InHand(u)'
    BY <1>1, <1>4, <2>3, <2>4, <2>5, <2>6, <2>7, <2>8 DEF InHand
  <2>. QED
    BY <1>6, <2>1, <2>3, <2>4, <2>7, <2>9
<1>. QED
  BY <1>7, <1>8

LEMMA ConvertStays ==
  ASSUME LibraryInv, NEW u \in Uploads, L!Convert(u)
  PROVE  LibraryInv'
<1>. DEFINE i == result[u]
<1>1. /\ step[u] = "converting" /\ rows' = [rows EXCEPT ![i].kind = "video"]
      /\ L!Moves(u, "done") /\ UNCHANGED <<disk, file, copy, result, why, faults>>
  BY DEF L!Convert
<1>2. /\ rows \in Seq(L!RowType) /\ Len(rows) \in Nat /\ DOMAIN rows = 1..Len(rows)
      /\ \A j \in DOMAIN rows : rows[j] \in L!RowType
  BY RowsTyped
<1>3. OnDisk(u) /\ Lost(u) /\ InHand(u)
  BY UploadsTyped
<1>4. i \in DOMAIN rows /\ rows[i].file = file[u] /\ file[u] \in Clips /\ why[u] # "lost"
  BY <1>1, <1>3 DEF InHand, Lost
<1>. HIDE DEF i
<1>5. /\ DOMAIN rows' = DOMAIN rows
      /\ \A j \in DOMAIN rows : j # i => rows'[j] = rows[j]
      /\ rows'[i] = [rows[i] EXCEPT !.kind = "video"]
  BY <1>1, <1>2, <1>4
<1>6. /\ rows'[i] \in L!RowType /\ rows'[i].kind = "video"
      /\ rows'[i].owner = rows[i].owner /\ rows'[i].file = rows[i].file
      /\ rows'[i].optimized = rows[i].optimized
  BY <1>2, <1>4, <1>5 DEF L!RowType
<1>7. rows' \in Seq(L!RowType)
  <2>1. \A j \in 1..Len(rows) : rows'[j] \in L!RowType
    BY <1>2, <1>5, <1>6
  <2>2. rows' = [j \in 1..Len(rows) |-> rows'[j]]
    BY <1>1, <1>2
  <2>3. rows' \in [1..Len(rows) -> L!RowType]
    BY <2>1, <2>2
  <2>. QED
    BY <1>2, <2>3
<1>8. RowsGrow
  <2>. SUFFICES ASSUME NEW j \in DOMAIN rows
                PROVE  /\ j \in DOMAIN rows'
                       /\ rows'[j].owner = rows[j].owner /\ rows'[j].file = rows[j].file
                       /\ rows'[j].optimized = rows[j].optimized
                       /\ \/ rows'[j].kind = rows[j].kind
                          \/ rows'[j].kind = "video" /\ rows[j].file \in Clips
    BY DEF RowsGrow
  <2>1. CASE j = i
    BY <1>4, <1>5, <1>6, <2>1
  <2>2. CASE j # i
    BY <1>5, <2>2
  <2>. QED
    BY <2>1, <2>2
<1>9. /\ step' \in [Uploads -> L!Steps] /\ step'[u] = "done"
      /\ \A v \in Uploads \ {u} : step'[v] = step[v]
  BY <1>1, MovesUpload DEF L!Steps
<1>10. InHand(u)'
  <2>1. L!KindOf(file[u]) = "video" /\ file[u] \in L!Files
    BY <1>4, KindsOfFiles, LibraryConstants
  <2>2. result'[u] = i
    BY <1>1 DEF i
  <2>. QED
    BY <1>1, <1>4, <1>5, <1>6, <1>9, <2>1, <2>2 DEF InHand
<1>11. OnDisk(u)' /\ Lost(u)'
  BY <1>1, <1>4, <1>9 DEF OnDisk, Lost
<1>12. UploadsInv' /\ RowsInv' /\ L!RowsHaveFiles' /\ L!NoOrphans'
  <2>1. Original(u) \notin disk /\ Optimized(u) \notin disk
    BY <1>1, <1>3 DEF OnDisk
  <2>. QED
    BY <1>1, <1>4, <1>5, <1>8, <1>9, <1>10, <1>11, <2>1, QuietStep
<1>13. L!TypeOK' /\ (result \in [Uploads -> Nat])'
  BY <1>1, <1>5, <1>7, <1>9, LibraryTypes, UploadsTyped, FaultTyped
<1>. QED
  BY <1>12, <1>13 DEF LibraryInv

LEMMA ConvertFailsStays ==
  ASSUME LibraryInv, NEW u \in Uploads, L!ConvertFails(u)
  PROVE  LibraryInv'
<1>1. /\ step[u] = "converting" /\ L!Fault /\ L!Moves(u, "failed")
      /\ why' = [why EXCEPT ![u] = "convert"]
      /\ UNCHANGED <<rows, disk, file, copy, result>>
  BY DEF L!ConvertFails, L!Throws
<1>2. OnDisk(u) /\ Lost(u) /\ InHand(u)
  BY UploadsTyped
<1>3. /\ step' \in [Uploads -> L!Steps] /\ step'[u] = "failed"
      /\ \A v \in Uploads \ {u} : step'[v] = step[v]
  BY <1>1, MovesUpload DEF L!Steps
<1>4. /\ why' \in [Uploads -> L!Reasons] /\ why'[u] = "convert"
      /\ \A v \in Uploads \ {u} : why'[v] = why[v]
  BY <1>1, ThrowsUpload DEF L!Reasons
<1>5. OnDisk(u)' /\ Lost(u)' /\ InHand(u)'
  BY <1>1, <1>2, <1>3, <1>4 DEF OnDisk, Lost, InHand
<1>6. UploadsInv' /\ RowsInv' /\ L!RowsHaveFiles' /\ L!NoOrphans'
  <2>1. Original(u) \notin disk /\ Optimized(u) \notin disk /\ why[u] # "lost"
    BY <1>1, <1>2 DEF OnDisk, Lost
  <2>. QED
    BY <1>1, <1>3, <1>4, <1>5, <2>1, QuietStep, UnchangedGrow
<1>7. L!TypeOK' /\ (result \in [Uploads -> Nat])'
  BY <1>1, <1>3, <1>4, LibraryTypes, UploadsTyped, RowsTyped, FaultTyped
<1>. QED
  BY <1>6, <1>7 DEF LibraryInv

\* When an upload writes, and is still excused for what it wrote.
LEMMA WritingStep ==
  ASSUME LibraryInv, NEW u \in Uploads, UNCHANGED rows,
         disk \subseteq disk', disk' \subseteq disk \cup {Original(u), Optimized(u)},
         step[u] # "done", why[u] # "lost",
         \A v \in Uploads \ {u} :
           /\ step'[v] = step[v] /\ file'[v] = file[v] /\ copy'[v] = copy[v]
           /\ result'[v] = result[v] /\ why'[v] = why[v],
         OnDisk(u)', Lost(u)', InHand(u)', Excused(u)'
  PROVE  UploadsInv' /\ RowsInv' /\ L!RowsHaveFiles' /\ L!NoOrphans'
<1>1. RowsGrow
  BY UnchangedGrow
<1>2. UploadsInv'
  <2>1. ASSUME NEW v \in Uploads, v # u PROVE OnDisk(v)' /\ Lost(v)' /\ InHand(v)'
    <3>1. /\ Original(v) \in disk' <=> Original(v) \in disk
          /\ Optimized(v) \in disk' <=> Optimized(v) \in disk
      BY <2>1, PairsDiffer
    <3>. QED
      BY <1>1, <2>1, <3>1, OthersStay
  <2>. QED
    BY <2>1 DEF UploadsInv
<1>3. RowsInv' /\ L!RowsHaveFiles'
  BY <1>1, RowsKept
<1>4. L!NoOrphans'
  <2>1. \A v \in Uploads : Excused(v) => Excused(v)'
    BY DEF Excused, L!Running
  <2>2. \A p \in disk' \ disk : p[1] \in Uploads /\ Excused(p[1])'
    BY DEF Original, Optimized
  <2>. QED
    BY <1>1, <2>1, <2>2, OrphansKept
<1>. QED
  BY <1>2, <1>3, <1>4

LEMMA WriteOriginalStays ==
  ASSUME LibraryInv, NEW u \in Uploads, L!WriteOriginal(u)
  PROVE  LibraryInv'
<1>1. /\ step[u] = "writing" /\ UNCHANGED <<rows, file, copy, result>>
      /\ disk' \in {disk, disk \cup {Original(u)}}
  BY Zenon DEF L!WriteOriginal, Original
<1>2. OnDisk(u) /\ Lost(u) /\ InHand(u)
  BY UploadsTyped
<1>3. why[u] # "lost" /\ ~copy[u] /\ Optimized(u) \notin disk
  BY <1>1, <1>2 DEF Lost, OnDisk
<1>4. Optimized(u) \notin disk'
  BY <1>1, <1>3, PairsDiffer
<1>5. disk' \subseteq (Uploads \cup Old) \X {"original", "optimized"}
  BY <1>1, UploadsTyped DEF Original
<1>6. ASSUME NEW to \in L!Steps, NEW reason \in L!Reasons, L!Moves(u, to),
             why' \in [Uploads -> L!Reasons], why'[u] = reason,
             \A v \in Uploads \ {u} : why'[v] = why[v], faults' \in 0..MaxFaults,
             \/ to \in {"optimizing", "creating"} /\ reason # "lost" /\ Original(u) \in disk'
             \/ to = "failed" /\ reason = "write"
      PROVE  LibraryInv'
  <2>1. /\ step' \in [Uploads -> L!Steps] /\ step'[u] = to
        /\ \A v \in Uploads \ {u} : step'[v] = step[v]
    BY <1>6, MovesUpload
  <2>2. OnDisk(u)' /\ Lost(u)' /\ InHand(u)' /\ Excused(u)'
    <3>1. OnDisk(u)'
      BY <1>1, <1>3, <1>4, <1>6, <2>1 DEF OnDisk, Original, Optimized
    <3>2. Lost(u)' /\ InHand(u)' /\ Excused(u)'
      BY <1>1, <1>2, <1>6, <2>1 DEF Lost, InHand, Excused, L!Running
    <3>. QED
      BY <3>1, <3>2
  <2>3. UploadsInv' /\ RowsInv' /\ L!RowsHaveFiles' /\ L!NoOrphans'
    BY <1>1, <1>3, <1>6, <2>1, <2>2, WritingStep
  <2>4. L!TypeOK' /\ (result \in [Uploads -> Nat])'
    BY <1>1, <1>5, <1>6, <2>1, LibraryTypes, UploadsTyped, RowsTyped
  <2>. QED
    BY <2>3, <2>4 DEF LibraryInv
<1>7. why[u] \in L!Reasons /\ why \in [Uploads -> L!Reasons]
  BY UploadsTyped
<1>8. CASE /\ disk' = disk \cup {Original(u)}
           /\ L!Moves(u, IF L!KindOf(file[u]) = "image" THEN "optimizing" ELSE "creating")
           /\ UNCHANGED <<why, faults>>
  <2>. DEFINE to == IF L!KindOf(file[u]) = "image" THEN "optimizing" ELSE "creating"
  <2>1. to \in {"optimizing", "creating"} /\ to \in L!Steps
    BY DEF L!Steps
  <2>2. L!Moves(u, to)
    BY <1>8
  <2>. HIDE DEF to
  <2>. QED
    BY <1>3, <1>6, <1>7, <1>8, <2>1, <2>2, FaultTyped
<1>9. CASE L!Fault /\ L!Throws(u, "write")
  <2>1. /\ why' \in [Uploads -> L!Reasons] /\ why'[u] = "write"
        /\ \A v \in Uploads \ {u} : why'[v] = why[v]
    BY <1>9, ThrowsUpload DEF L!Throws, L!Reasons
  <2>. QED
    BY <1>6, <1>9, <2>1, FaultTyped DEF L!Throws, L!Steps, L!Reasons
<1>. QED
  BY <1>8, <1>9, Zenon DEF L!WriteOriginal, Original

LEMMA TryOptimizeStays ==
  ASSUME LibraryInv, NEW u \in Uploads, L!TryOptimize(u)
  PROVE  LibraryInv'
<1>1. /\ step[u] = "optimizing" /\ UNCHANGED <<rows, file, result>>
      /\ disk' \in {disk, disk \cup {Optimized(u)}}
  BY Zenon DEF L!TryOptimize, Optimized
<1>2. OnDisk(u) /\ Lost(u) /\ InHand(u)
  BY UploadsTyped
<1>3. why[u] # "lost" /\ ~copy[u] /\ Optimized(u) \notin disk /\ Original(u) \in disk
  BY <1>1, <1>2 DEF Lost, OnDisk
<1>4. disk' \subseteq (Uploads \cup Old) \X {"original", "optimized"}
  BY <1>1, UploadsTyped DEF Optimized
<1>5. copy \in [Uploads -> BOOLEAN]
  BY UploadsTyped
<1>6. ASSUME NEW to \in L!Steps, L!Moves(u, to),
             why' \in [Uploads -> L!Reasons],
             \A v \in Uploads \ {u} : why'[v] = why[v] /\ copy'[v] = copy[v],
             copy' \in [Uploads -> BOOLEAN], faults' \in 0..MaxFaults,
             \/ to = "creating" /\ why'[u] # "lost" /\ (copy'[u] <=> Optimized(u) \in disk')
             \/ to = "failed" /\ why'[u] = "optimize"
      PROVE  LibraryInv'
  <2>1. /\ step' \in [Uploads -> L!Steps] /\ step'[u] = to
        /\ \A v \in Uploads \ {u} : step'[v] = step[v]
    BY <1>6, MovesUpload
  <2>2. OnDisk(u)' /\ Lost(u)' /\ InHand(u)' /\ Excused(u)'
    <3>1. OnDisk(u)'
      BY <1>1, <1>3, <1>6, <2>1 DEF OnDisk, Original, Optimized
    <3>2. Lost(u)' /\ InHand(u)' /\ Excused(u)'
      BY <1>1, <1>2, <1>6, <2>1 DEF Lost, InHand, Excused, L!Running
    <3>. QED
      BY <3>1, <3>2
  <2>3. UploadsInv' /\ RowsInv' /\ L!RowsHaveFiles' /\ L!NoOrphans'
    BY <1>1, <1>3, <1>6, <2>1, <2>2, WritingStep
  <2>4. L!TypeOK' /\ (result \in [Uploads -> Nat])'
    BY <1>1, <1>4, <1>6, <2>1, LibraryTypes, UploadsTyped, RowsTyped
  <2>. QED
    BY <2>3, <2>4 DEF LibraryInv
<1>7. CASE L!Moves(u, "creating") /\ UNCHANGED <<disk, copy, why, faults>>
  BY <1>3, <1>5, <1>6, <1>7, FaultTyped, UploadsTyped DEF L!Steps
<1>8. CASE /\ disk' = disk \cup {Optimized(u)} /\ copy' = [copy EXCEPT ![u] = TRUE]
           /\ L!Moves(u, "creating") /\ UNCHANGED <<why, faults>>
  <2>1. copy' \in [Uploads -> BOOLEAN] /\ copy'[u]
        /\ \A v \in Uploads \ {u} : copy'[v] = copy[v]
    BY <1>5, <1>8
  <2>. QED
    BY <1>3, <1>6, <1>8, <2>1, FaultTyped, UploadsTyped DEF L!Steps
<1>9. CASE L!Fault /\ L!Throws(u, "optimize") /\ UNCHANGED copy
  <2>1. /\ why' \in [Uploads -> L!Reasons] /\ why'[u] = "optimize"
        /\ \A v \in Uploads \ {u} : why'[v] = why[v]
    BY <1>9, ThrowsUpload DEF L!Throws, L!Reasons
  <2>. QED
    BY <1>5, <1>6, <1>9, <2>1, FaultTyped DEF L!Throws, L!Steps
<1>. QED
  BY <1>7, <1>8, <1>9, Zenon DEF L!TryOptimize, Optimized

\* The row of an upload is entered: it has its files, and names all of them.
LEMMA EnteringStep ==
  ASSUME LibraryInv, NEW u \in Uploads, step[u] = "creating", L!Append1(u),
         UNCHANGED <<disk, file, copy>>,
         step'[u] = "done" \/ why'[u] = "lost",
         \A v \in Uploads \ {u} :
           step'[v] = step[v] /\ result'[v] = result[v] /\ why'[v] = why[v],
         OnDisk(u)', Lost(u)', InHand(u)'
  PROVE  UploadsInv' /\ RowsInv' /\ L!RowsHaveFiles' /\ L!NoOrphans'
<1>. DEFINE x == L!Row(u, file[u], L!KindOf(file[u]), copy[u])
<1>0. PICK n \in Nat : n = Len(rows) + 1
  BY RowsTyped
<1>1. OnDisk(u) /\ Lost(u) /\ InHand(u) /\ copy[u] \in BOOLEAN
  BY UploadsTyped
<1>2. why[u] # "lost" /\ file[u] \in L!Files
  BY <1>1 DEF Lost, InHand
<1>3. x \in L!RowType
  BY <1>1, <1>2, KindsOfFiles DEF L!Row, L!RowType
<1>4. /\ x.owner = u /\ x.file = file[u] /\ x.kind = L!KindOf(file[u]) /\ x.optimized = copy[u]
  BY DEF L!Row
<1>5. rows' = Append(rows, x)
  BY DEF L!Append1
<1>. HIDE DEF x
<1>6. /\ RowsGrow /\ DOMAIN rows' = 1..n /\ rows'[n] = x
      /\ \A i \in DOMAIN rows : rows'[i] = rows[i]
  BY <1>0, <1>3, <1>5, AppendGrows
<1>7. Len(rows) \in Nat /\ DOMAIN rows = 1..Len(rows)
  BY RowsTyped
<1>8. n \in DOMAIN rows' /\ \A i \in DOMAIN rows' : i \in DOMAIN rows \/ i = n
  BY <1>0, <1>6, <1>7
<1>9. UploadsInv'
  <2>1. ASSUME NEW v \in Uploads, v # u PROVE OnDisk(v)' /\ Lost(v)' /\ InHand(v)'
    BY <1>6, <2>1, OthersStay
  <2>. QED
    BY <2>1 DEF UploadsInv
<1>10. RowsInv'
  <2>1. ASSUME NEW i \in DOMAIN rows
        PROVE  /\ rows'[i].owner \in Uploads =>
                    step'[rows'[i].owner] = "done" \/ why'[rows'[i].owner] = "lost"
               /\ rows'[i].kind # L!KindOf(rows'[i].file) =>
                    rows'[i].kind = "document" /\ rows'[i].file \in Clips
    <3>1. /\ rows[i].owner \in Uploads =>
               step[rows[i].owner] = "done" \/ why[rows[i].owner] = "lost"
          /\ rows[i].kind # L!KindOf(rows[i].file) =>
               rows[i].kind = "document" /\ rows[i].file \in Clips
      BY DEF LibraryInv, RowsInv
    <3>2. rows[i].owner # u \/ ~(u \in Uploads)
      BY <1>2, <3>1
    <3>. QED
      BY <1>6, <3>1, <3>2
  <2>2. step'[u] = "done" \/ why'[u] = "lost"
    OBVIOUS
  <2>. QED
    BY <1>4, <1>6, <1>8, <2>1, <2>2 DEF RowsInv
<1>11. L!NamedBy(n)' = {Original(u)} \cup (IF copy[u] THEN {Optimized(u)} ELSE {})
  BY <1>4, <1>6 DEF L!NamedBy, Original, Optimized
<1>12. \A i \in DOMAIN rows : L!NamedBy(i)' = L!NamedBy(i)
  BY <1>6, NamesGrow
<1>13. L!RowsHaveFiles'
  <2>1. L!NamedBy(n)' \subseteq disk
    BY <1>1, <1>11 DEF OnDisk
  <2>2. ASSUME NEW i \in DOMAIN rows
        PROVE  \/ L!NamedBy(i)' \subseteq disk'
               \/ rows'[i].owner \in Uploads /\ why'[rows'[i].owner] = "lost"
    <3>1. \/ L!NamedBy(i) \subseteq disk
          \/ rows[i].owner \in Uploads /\ why[rows[i].owner] = "lost"
      BY DEF LibraryInv, L!RowsHaveFiles
    <3>. QED
      BY <1>2, <1>6, <1>12, <3>1
  <2>. QED
    BY <1>8, <2>1, <2>2 DEF L!RowsHaveFiles
<1>14. L!NoOrphans'
  <2>1. ASSUME NEW p \in disk, p[1] = u PROVE p \in L!NamedBy(n)'
    <3>1. p = Original(u) \/ p = Optimized(u)
      BY <2>1, FilesOfUpload, UploadsTyped
    <3>2. p = Optimized(u) => copy[u]
      BY <1>1, <2>1 DEF OnDisk
    <3>. QED
      BY <1>11, <3>1, <3>2
  <2>2. \A v \in Uploads \ {u} : Excused(v) => Excused(v)'
    BY DEF Excused, L!Running
  <2>. QED
    BY <1>6, <1>8, <2>1, <2>2, OrphansKept
<1>. QED
  BY <1>9, <1>10, <1>13, <1>14

LEMMA CreateRowStays ==
  ASSUME LibraryInv, NEW u \in Uploads, L!CreateRow(u)
  PROVE  LibraryInv'
<1>. DEFINE x == L!Row(u, file[u], L!KindOf(file[u]), copy[u])
            n == Len(rows) + 1
<1>1. /\ step[u] = "creating" /\ L!Append1(u) /\ L!Moves(u, "done")
      /\ result' = [result EXCEPT ![u] = Len(rows')]
      /\ UNCHANGED <<disk, file, copy, why, faults>>
  BY DEF L!CreateRow
<1>2. OnDisk(u) /\ Lost(u) /\ InHand(u) /\ copy[u] \in BOOLEAN /\ result \in [Uploads -> Nat]
  BY UploadsTyped
<1>3. why[u] # "lost" /\ file[u] \in L!Files
  BY <1>1, <1>2 DEF Lost, InHand
<1>4. x \in L!RowType /\ x.file = file[u] /\ x.kind = L!KindOf(file[u])
  BY <1>2, <1>3, KindsOfFiles DEF L!Row, L!RowType
<1>5. rows' = Append(rows, x)
  BY <1>1 DEF L!Append1
<1>. HIDE DEF x
<1>6. /\ rows' \in Seq(L!RowType) /\ DOMAIN rows' = 1..n /\ Len(rows') = n /\ rows'[n] = x
      /\ RowsGrow /\ n \in Nat \ {0}
  BY <1>4, <1>5, AppendGrows, RowsTyped
<1>. HIDE DEF n
<1>7. /\ result' \in [Uploads -> Nat] /\ result'[u] = n /\ n \in DOMAIN rows'
      /\ \A v \in Uploads \ {u} : result'[v] = result[v]
  BY <1>1, <1>2, <1>6
<1>8. /\ step' \in [Uploads -> L!Steps] /\ step'[u] = "done"
      /\ \A v \in Uploads \ {u} : step'[v] = step[v]
  BY <1>1, MovesUpload DEF L!Steps
<1>9. OnDisk(u)' /\ Lost(u)' /\ InHand(u)'
  BY <1>1, <1>3, <1>4, <1>6, <1>7, <1>8 DEF OnDisk, Lost, InHand
<1>10. UploadsInv' /\ RowsInv' /\ L!RowsHaveFiles' /\ L!NoOrphans'
  BY <1>1, <1>7, <1>8, <1>9, EnteringStep
<1>11. L!TypeOK' /\ (result \in [Uploads -> Nat])'
  <2>1. DOMAIN rows \subseteq DOMAIN rows'
    BY <1>6 DEF RowsGrow
  <2>2. \A v \in Uploads : result'[v] = result[v] \/ result'[v] \in DOMAIN rows'
    BY <1>7
  <2>. QED
    BY <1>1, <1>6, <1>7, <1>8, <2>1, <2>2, LibraryTypes, UploadsTyped, FaultTyped
<1>. QED
  BY <1>10, <1>11 DEF LibraryInv

LEMMA CreateFailsStays ==
  ASSUME LibraryInv, NEW u \in Uploads, L!CreateFails(u)
  PROVE  LibraryInv'
<1>1. /\ step[u] = "creating" /\ L!Fault /\ L!Moves(u, "discarding")
      /\ UNCHANGED <<disk, file, copy, result>>
  BY DEF L!CreateFails
<1>2. OnDisk(u) /\ Lost(u) /\ InHand(u) /\ copy[u] \in BOOLEAN
  BY UploadsTyped
<1>3. why[u] # "lost" /\ file[u] \in L!Files
  BY <1>1, <1>2 DEF Lost, InHand
<1>4. /\ step' \in [Uploads -> L!Steps] /\ step'[u] = "discarding"
      /\ \A v \in Uploads \ {u} : step'[v] = step[v]
  BY <1>1, MovesUpload DEF L!Steps
<1>5. OnDisk(u)' /\ InHand(u)' /\ Excused(u)'
  <2>1. OnDisk(u)'
    BY <1>1, <1>2, <1>4 DEF OnDisk, Original, Optimized
  <2>2. InHand(u)' /\ Excused(u)'
    BY <1>1, <1>3, <1>4 DEF InHand, Excused, L!Running
  <2>. QED
    BY <2>1, <2>2
<1>6. CASE UNCHANGED rows /\ why' = [why EXCEPT ![u] = "create"]
  <2>1. /\ why' \in [Uploads -> L!Reasons] /\ why'[u] = "create"
        /\ \A v \in Uploads \ {u} : why'[v] = why[v]
    BY <1>6, ThrowsUpload DEF L!Reasons
  <2>2. Lost(u)'
    BY <2>1 DEF Lost
  <2>3. UploadsInv' /\ RowsInv' /\ L!RowsHaveFiles' /\ L!NoOrphans'
    BY <1>1, <1>3, <1>4, <1>5, <1>6, <2>1, <2>2, QuietStep, UnchangedGrow
  <2>4. L!TypeOK' /\ (result \in [Uploads -> Nat])'
    BY <1>1, <1>4, <1>6, <2>1, LibraryTypes, UploadsTyped, RowsTyped, FaultTyped
  <2>. QED
    BY <2>3, <2>4 DEF LibraryInv
<1>7. CASE L!Append1(u) /\ why' = [why EXCEPT ![u] = "lost"]
  <2>. DEFINE x == L!Row(u, file[u], L!KindOf(file[u]), copy[u])
              n == Len(rows) + 1
  <2>1. /\ why' \in [Uploads -> L!Reasons] /\ why'[u] = "lost"
        /\ \A v \in Uploads \ {u} : why'[v] = why[v]
    BY <1>7, ThrowsUpload DEF L!Reasons
  <2>2. x \in L!RowType /\ x.owner = u /\ x.optimized = copy[u]
    BY <1>2, <1>3, KindsOfFiles DEF L!Row, L!RowType
  <2>3. rows' = Append(rows, x)
    BY <1>7 DEF L!Append1
  <2>. HIDE DEF x
  <2>4. /\ rows' \in Seq(L!RowType) /\ DOMAIN rows' = 1..n /\ rows'[n] = x
        /\ RowsGrow /\ n \in 1..n
    BY <2>2, <2>3, AppendGrows, RowsTyped
  <2>. HIDE DEF n
  <2>5. Lost(u)'
    BY <1>1, <1>4, <2>2, <2>4 DEF Lost
  <2>6. UploadsInv' /\ RowsInv' /\ L!RowsHaveFiles' /\ L!NoOrphans'
    BY <1>1, <1>4, <1>5, <1>7, <2>1, <2>5, EnteringStep
  <2>7. L!TypeOK' /\ (result \in [Uploads -> Nat])'
    <3>1. DOMAIN rows \subseteq DOMAIN rows'
      BY <2>4 DEF RowsGrow
    <3>. QED
      BY <1>1, <1>4, <2>1, <2>4, <3>1, LibraryTypes, UploadsTyped, FaultTyped
  <2>. QED
    BY <2>6, <2>7 DEF LibraryInv
<1>. QED
  BY <1>6, <1>7, Zenon DEF L!CreateFails

LEMMA DiscardStays ==
  ASSUME LibraryInv, NEW u \in Uploads, L!Discard(u)
  PROVE  LibraryInv'
<1>1. /\ step[u] = "discarding" /\ L!Moves(u, "failed")
      /\ UNCHANGED <<rows, file, copy, result>>
  BY DEF L!Discard
<1>2. OnDisk(u) /\ Lost(u) /\ InHand(u)
  BY UploadsTyped
<1>3. /\ step' \in [Uploads -> L!Steps] /\ step'[u] = "failed"
      /\ \A v \in Uploads \ {u} : step'[v] = step[v]
  BY <1>1, MovesUpload DEF L!Steps
<1>4. L!Written(u) = {Original(u)} \cup (IF copy[u] THEN {Optimized(u)} ELSE {})
  BY DEF L!Written, Original, Optimized
<1>5. RowsGrow
  BY <1>1, UnchangedGrow
<1>6. ASSUME NEW left \in SUBSET L!Written(u), disk' = disk \ (L!Written(u) \ left),
             why' \in [Uploads -> L!Reasons],
             \A v \in Uploads \ {u} : why'[v] = why[v],
             why[u] = "lost" <=> why'[u] = "lost",
             left = {} \/ why'[u] \in {"lost", "discard"}, faults' \in 0..MaxFaults
      PROVE  LibraryInv'
  <2>1. ASSUME NEW v \in Uploads, v # u PROVE OnDisk(v)' /\ Lost(v)' /\ InHand(v)'
    <3>1. Original(v) \notin L!Written(u) /\ Optimized(v) \notin L!Written(u)
      BY <1>4, <2>1, PairsDiffer
    <3>2. /\ Original(v) \in disk' <=> Original(v) \in disk
          /\ Optimized(v) \in disk' <=> Optimized(v) \in disk
      BY <1>6, <3>1
    <3>. QED
      BY <1>1, <1>3, <1>5, <1>6, <2>1, <3>2, OthersStay
  <2>2. OnDisk(u)' /\ Lost(u)' /\ InHand(u)'
    <3>1. Optimized(u) \in disk' => Optimized(u) \in disk
      BY <1>6
    <3>2. OnDisk(u)'
      BY <1>1, <1>2, <1>3, <3>1 DEF OnDisk, Original, Optimized
    <3>3. Lost(u)' /\ InHand(u)'
      BY <1>1, <1>2, <1>3, <1>6 DEF Lost, InHand
    <3>. QED
      BY <3>2, <3>3
  <2>3. UploadsInv'
    BY <2>1, <2>2 DEF UploadsInv
  <2>4. RowsInv'
    BY <1>1, <1>3, <1>5, <1>6, OwnersKept
  <2>5. L!RowsHaveFiles'
    <3>. SUFFICES ASSUME NEW i \in DOMAIN rows
                  PROVE  \/ L!NamedBy(i) \subseteq disk'
                         \/ rows[i].owner \in Uploads /\ why'[rows[i].owner] = "lost"
      BY <1>1 DEF L!RowsHaveFiles, L!NamedBy
    <3>1. \/ L!NamedBy(i) \subseteq disk
          \/ rows[i].owner \in Uploads /\ why[rows[i].owner] = "lost"
      BY DEF LibraryInv, L!RowsHaveFiles
    <3>2. CASE rows[i].owner = u
      BY <1>1, <1>6, <3>2 DEF LibraryInv, RowsInv
    <3>3. CASE rows[i].owner # u
      <4>1. \A p \in L!NamedBy(i) : p \notin L!Written(u)
        BY <1>4, <3>3 DEF L!NamedBy, Original, Optimized
      <4>. QED
        BY <1>6, <3>1, <3>3, <4>1
    <3>. QED
      BY <3>2, <3>3
  <2>6. L!NoOrphans'
    <3>1. \A v \in Uploads \ {u} : Excused(v) => Excused(v)'
      BY <1>3, <1>6 DEF Excused, L!Running
    <3>2. ASSUME NEW p \in disk', p[1] = u, ~Excused(u)'
          PROVE  \E i \in DOMAIN rows' : p \in L!NamedBy(i)'
      <4>1. p = Original(u) \/ p = Optimized(u)
        BY <1>6, <3>2, FilesOfUpload, UploadsTyped
      <4>2. p = Optimized(u) => copy[u]
        BY <1>1, <1>2, <1>6, <3>2 DEF OnDisk
      <4>3. p \in L!Written(u)
        BY <1>4, <4>1, <4>2
      <4>4. why[u] = "lost"
        BY <1>6, <3>2, <4>3 DEF Excused
      <4>5. PICK i \in DOMAIN rows : rows[i].owner = u /\ rows[i].optimized = copy[u]
        BY <1>2, <4>4 DEF Lost
      <4>6. p \in L!NamedBy(i)
        BY <4>1, <4>2, <4>5 DEF L!NamedBy, Original, Optimized
      <4>. QED
        BY <1>1, <1>5, <4>6, NamesGrow
    <3>3. disk' \subseteq disk
      BY <1>6
    <3>. QED
      BY <1>5, <3>1, <3>2, <3>3, OrphansKept
  <2>7. L!TypeOK' /\ (result \in [Uploads -> Nat])'
    <3>1. disk' \subseteq (Uploads \cup Old) \X {"original", "optimized"}
      BY <1>6, UploadsTyped
    <3>. QED
      BY <1>1, <1>3, <1>6, <3>1, LibraryTypes, UploadsTyped, RowsTyped
  <2>. QED
    BY <2>3, <2>4, <2>5, <2>6, <2>7 DEF LibraryInv
<1>7. CASE disk' = disk \ L!Written(u) /\ UNCHANGED <<why, faults>>
  <2>1. disk' = disk \ (L!Written(u) \ {})
    BY <1>7
  <2>2. /\ why' = why /\ why' \in [Uploads -> L!Reasons] /\ faults' \in 0..MaxFaults
        /\ {} \in SUBSET L!Written(u)
    BY <1>7, UploadsTyped, FaultTyped
  <2>. QED
    BY <1>6, <2>1, <2>2, Zenon
<1>8. CASE /\ L!Fault
           /\ \E left \in SUBSET L!Written(u) \ {{}} : disk' = disk \ (L!Written(u) \ left)
           /\ why' = [why EXCEPT ![u] = IF @ = "lost" THEN "lost" ELSE "discard"]
  <2>1. PICK left \in SUBSET L!Written(u) : disk' = disk \ (L!Written(u) \ left)
    BY <1>8
  <2>. DEFINE reason == IF why[u] = "lost" THEN "lost" ELSE "discard"
  <2>2. reason \in L!Reasons /\ why' = [why EXCEPT ![u] = reason]
    BY <1>8 DEF L!Reasons
  <2>3. /\ why' \in [Uploads -> L!Reasons] /\ why'[u] = reason
        /\ \A v \in Uploads \ {u} : why'[v] = why[v]
    BY <2>2, ThrowsUpload
  <2>. QED
    BY <1>6, <1>8, <2>1, <2>3, FaultTyped
<1>. QED
  BY <1>7, <1>8, Zenon DEF L!Discard

LEMMA CrashStays ==
  ASSUME LibraryInv, L!Crash
  PROVE  LibraryInv'
<1>1. /\ L!Fault /\ UNCHANGED <<rows, disk, file, copy, result>>
      /\ step' = [u \in Uploads |-> IF L!Running(u) THEN "failed" ELSE step[u]]
      /\ why' = [u \in Uploads |-> IF L!Running(u) /\ why[u] /= "lost" THEN "crash" ELSE why[u]]
  BY DEF L!Crash
<1>2. /\ step \in [Uploads -> L!Steps] /\ why \in [Uploads -> L!Reasons]
      /\ \A u \in Uploads : OnDisk(u) /\ Lost(u) /\ InHand(u)
  BY UploadsTyped
<1>3. step' \in [Uploads -> L!Steps] /\ why' \in [Uploads -> L!Reasons]
  BY <1>1, <1>2 DEF L!Steps, L!Reasons
<1>4. RowsGrow
  BY <1>1, UnchangedGrow
<1>5. \A u \in Uploads :
        /\ L!Running(u) => step'[u] = "failed"
        /\ ~L!Running(u) => step'[u] = step[u]
        /\ L!Running(u) /\ why[u] # "lost" => why'[u] = "crash"
        /\ ~L!Running(u) \/ why[u] = "lost" => why'[u] = why[u]
  BY <1>1
<1>6. UploadsInv'
  <2>. SUFFICES ASSUME NEW u \in Uploads PROVE OnDisk(u)' /\ Lost(u)' /\ InHand(u)'
    BY DEF UploadsInv
  <2>1. CASE ~L!Running(u)
    BY <1>1, <1>4, <1>5, <2>1, OthersStay
  <2>2. CASE L!Running(u)
    <3>1. /\ step'[u] = "failed" /\ (why'[u] = "lost" => why[u] = "lost") /\ step[u] # "idle"
      BY <1>5, <2>2 DEF L!Running
    <3>2. OnDisk(u)'
      BY <1>1, <1>2, <3>1 DEF OnDisk, Original, Optimized
    <3>3. Lost(u)' /\ InHand(u)'
      BY <1>1, <1>2, <3>1 DEF Lost, InHand
    <3>. QED
      BY <3>2, <3>3
  <2>. QED
    BY <2>1, <2>2
<1>7. RowsInv' /\ L!RowsHaveFiles'
  <2>1. \A u \in Uploads : /\ step[u] = "done" => step'[u] = "done"
                           /\ why[u] = "lost" => why'[u] = "lost"
    BY <1>5 DEF L!Running
  <2>. QED
    BY <1>1, <1>4, <2>1, RowsKept
<1>8. L!NoOrphans'
  <2>1. ASSUME NEW u \in Uploads, Excused(u), ~Excused(u)', NEW p \in disk', p[1] = u
        PROVE  \E i \in DOMAIN rows' : p \in L!NamedBy(i)'
    <3>1. why[u] = "lost"
      BY <1>5, <2>1 DEF Excused
    <3>2. p = Original(u) \/ p = Optimized(u)
      BY <1>1, <2>1, FilesOfUpload, UploadsTyped
    <3>3. p = Optimized(u) => copy[u]
      BY <1>1, <1>2, <2>1, <3>1 DEF OnDisk
    <3>4. PICK i \in DOMAIN rows : rows[i].owner = u /\ rows[i].optimized = copy[u]
      BY <1>2, <3>1 DEF Lost
    <3>5. p \in L!NamedBy(i)
      BY <3>2, <3>3, <3>4 DEF L!NamedBy, Original, Optimized
    <3>. QED
      BY <1>1, <1>4, <3>5, NamesGrow
  <2>. QED
    BY <1>1, <1>4, <2>1, OrphansKept
<1>9. L!TypeOK' /\ (result \in [Uploads -> Nat])'
  BY <1>1, <1>3, LibraryTypes, UploadsTyped, RowsTyped, FaultTyped
<1>. QED
  BY <1>6, <1>7, <1>8, <1>9 DEF LibraryInv

LEMMA LibraryStays ==
  ASSUME LibraryInv, [L!Next]_library
  PROVE  LibraryInv'
<1>1. CASE L!Next
  <2>1. ASSUME NEW u \in Uploads, L!UploadSteps(u) PROVE LibraryInv'
    BY <2>1, ConvertStays, WriteOriginalStays, TryOptimizeStays, CreateRowStays,
       DiscardStays, Zenon DEF L!UploadSteps
  <2>. QED
    BY <1>1, <2>1, FindStays, ConvertFailsStays, CreateFailsStays, CrashStays, Zenon DEF L!Next
<1>2. CASE UNCHANGED library
  <2>1. UNCHANGED <<rows, disk, step, file, copy, result, why, faults>>
    BY <1>2 DEF library
  <2>2. L!TypeOK' /\ L!RowsHaveFiles' /\ L!NoOrphans'
    BY <2>1 DEF LibraryInv, L!TypeOK, L!RowsHaveFiles, L!NoOrphans, L!NamedBy, L!Running
  <2>3. UploadsInv' /\ RowsInv'
    BY <2>1 DEF LibraryInv, UploadsInv, RowsInv, OnDisk, Lost, InHand, Original, Optimized
  <2>. QED
    BY <2>1, <2>2, <2>3 DEF LibraryInv
<1>. QED
  BY <1>1, <1>2

LEMMA LibraryAlways == RecordsSpec => []LibraryInv
<1>1. RecordsInit => LibraryInv
  BY LibraryStart DEF RecordsInit
<1>2. LibraryInv /\ [RecordsNext]_<<groups, library, warning>> => LibraryInv'
  <2>1. [RecordsNext]_<<groups, library, warning>> => [L!Next]_library
    BY Zenon DEF RecordsNext
  <2>. QED
    BY <2>1, LibraryStays
<1>. QED
  BY <1>1, <1>2, PTL DEF RecordsSpec

\* A row of the library has its types and leads to its files, whatever failed
\* or crashed, but for a commit whose answer was lost; and a video is given back
\* as a video, whoever entered it (MediaService.upload).
THEOREM LibraryIsSound == RecordsSpec => []LibrarySound
<1>1. LibraryInv => LibrarySound
  <2>1. LibraryInv => L!ClipsAreVideos
    BY DEF LibraryInv, UploadsInv, InHand, L!ClipsAreVideos
  <2>. QED
    BY <2>1, Zenon DEF LibraryInv, LibrarySound, L!LibrarySound
<1>. QED
  BY <1>1, LibraryAlways, PTL

\* A file on the volume that no row names belongs to an upload that runs, or to
\* one a crash or a failure of the disk broke off (MediaService.upload, discard).
THEOREM NothingIsOrphaned == RecordsSpec => []NoOrphans
<1>1. LibraryInv => NoOrphans
  BY Zenon DEF LibraryInv, NoOrphans
<1>. QED
  BY <1>1, LibraryAlways, PTL

LEMMA EntersItsFile ==
  ASSUME LibraryInv, L!Next, NEW f \in L!Files, L!RowsOf(f) # {}, L!Missed(f) = {}
  PROVE  L!Missed(f)' = {} /\ L!RowsOf(f)' = L!RowsOf(f)
<1>. DEFINE Missing == {"writing", "optimizing", "creating"}
<1>1. /\ step \in [Uploads -> L!Steps] /\ file \in [Uploads -> L!Files \cup {L!NoFile}]
      /\ \A u \in Uploads : InHand(u)
  BY UploadsTyped
<1>2. \A u \in Uploads : file[u] = f => step[u] \notin Missing
  BY DEF L!Missed
<1>3. ASSUME \A u \in Uploads : (file'[u] = f /\ step'[u] \in Missing) =>
                                  (file[u] = f /\ step[u] \in Missing)
      PROVE  L!Missed(f)' = {}
  BY <1>2, <1>3 DEF L!Missed
<1>4. ASSUME DOMAIN rows' = DOMAIN rows, RowsGrow
      PROVE  L!RowsOf(f)' = L!RowsOf(f)
  BY <1>4 DEF RowsGrow, L!RowsOf
<1>5. ASSUME NEW u \in Uploads, NEW g \in L!Files, L!Find(u, g)
      PROVE  L!Missed(f)' = {} /\ L!RowsOf(f)' = L!RowsOf(f)
  <2>1. rows' = rows /\ file' = [file EXCEPT ![u] = g]
    BY <1>5 DEF L!Find
  <2>2. g = f => L!Of(g) # {}
    BY DEF L!Of, L!RowsOf, L!Matches
  <2>3. PICK to \in L!Steps : L!Moves(u, to) /\ (g = f => to \notin Missing)
    <3>1. CASE L!Of(g) = {}
      BY <1>5, <2>2, <3>1 DEF L!Find, L!Steps
    <3>2. CASE L!Of(g) # {}
      <4>. DEFINE to == IF L!Misfiled(L!Oldest(L!Of(g))) THEN "converting" ELSE "done"
      <4>1. L!Moves(u, to)
        BY <1>5, <3>2 DEF L!Find
      <4>2. to \in L!Steps /\ to \notin Missing
        BY DEF L!Steps
      <4>. QED
        BY <4>1, <4>2
    <3>. QED
      BY <3>1, <3>2
  <2>4. step'[u] = to /\ \A v \in Uploads \ {u} : step'[v] = step[v]
    BY <2>3, MovesUpload
  <2>5. file'[u] = g /\ \A v \in Uploads \ {u} : file'[v] = file[v]
    BY <1>1, <2>1
  <2>6. L!Missed(f)' = {}
    BY <1>3, <2>3, <2>4, <2>5
  <2>. QED
    BY <1>4, <2>1, <2>6, UnchangedGrow
<1>6. ASSUME NEW u \in Uploads, UNCHANGED file,
             \A v \in Uploads \ {u} : step'[v] = step[v],
             step'[u] \in Missing => step[u] \in Missing
      PROVE  L!Missed(f)' = {}
  BY <1>3, <1>6
<1>7. ASSUME NEW u \in Uploads, L!WriteOriginal(u) \/ L!TryOptimize(u) \/ L!Discard(u)
                                  \/ L!ConvertFails(u)
      PROVE  L!Missed(f)' = {} /\ L!RowsOf(f)' = L!RowsOf(f)
  <2>1. UNCHANGED <<rows, file>>
    BY <1>7, Zenon DEF L!WriteOriginal, L!TryOptimize, L!Discard, L!ConvertFails
  <2>2. PICK to \in {"creating", "optimizing", "failed"} :
          L!Moves(u, to) /\ (to # "failed" => step[u] \in Missing)
    <3>1. CASE L!WriteOriginal(u)
      BY <3>1 DEF L!WriteOriginal, L!Throws
    <3>2. CASE L!TryOptimize(u)
      BY <3>2 DEF L!TryOptimize, L!Throws
    <3>3. CASE L!Discard(u) \/ L!ConvertFails(u)
      BY <3>3 DEF L!Discard, L!ConvertFails, L!Throws
    <3>. QED
      BY <1>7, <3>1, <3>2, <3>3
  <2>3. step'[u] = to /\ \A v \in Uploads \ {u} : step'[v] = step[v]
    BY <2>2, MovesUpload DEF L!Steps
  <2>4. L!Missed(f)' = {}
    BY <1>6, <2>1, <2>2, <2>3
  <2>. QED
    BY <1>4, <2>1, <2>4, UnchangedGrow
<1>8. ASSUME NEW u \in Uploads, L!Convert(u)
      PROVE  L!Missed(f)' = {} /\ L!RowsOf(f)' = L!RowsOf(f)
  <2>1. /\ rows' = [rows EXCEPT ![result[u]].kind = "video"] /\ file' = file
        /\ L!Moves(u, "done")
    BY <1>8 DEF L!Convert
  <2>2. step'[u] = "done" /\ \A v \in Uploads \ {u} : step'[v] = step[v]
    BY <2>1, MovesUpload DEF L!Steps
  <2>3. \A i \in DOMAIN rows : rows[i] \in L!RowType
    BY RowsTyped
  <2>4. DOMAIN rows' = DOMAIN rows /\ \A i \in DOMAIN rows : rows'[i].file = rows[i].file
    BY <2>1, <2>3 DEF L!RowType
  <2>5. L!RowsOf(f)' = L!RowsOf(f)
    BY <2>4 DEF L!RowsOf
  <2>. QED
    BY <1>6, <2>1, <2>2, <2>5
<1>9. ASSUME NEW u \in Uploads, L!CreateRow(u) \/ L!CreateFails(u)
      PROVE  L!Missed(f)' = {} /\ L!RowsOf(f)' = L!RowsOf(f)
  <2>. DEFINE x == L!Row(u, file[u], L!KindOf(file[u]), copy[u])
  <2>1. /\ step[u] = "creating" /\ UNCHANGED file /\ (rows' = rows \/ rows' = Append(rows, x))
    BY <1>9, Zenon DEF L!CreateRow, L!CreateFails, L!Append1
  <2>2. PICK to \in {"done", "discarding"} : L!Moves(u, to)
    BY <1>9 DEF L!CreateRow, L!CreateFails
  <2>3. step'[u] = to /\ \A v \in Uploads \ {u} : step'[v] = step[v]
    BY <2>2, MovesUpload DEF L!Steps
  <2>4. file[u] # f /\ file[u] \in L!Files /\ copy[u] \in BOOLEAN
    BY <1>1, <1>2, <2>1, UploadsTyped DEF InHand
  <2>5. x \in L!RowType /\ x.file = file[u]
    BY <2>4, KindsOfFiles DEF L!Row, L!RowType
  <2>6. Len(rows) \in Nat /\ DOMAIN rows = 1..Len(rows)
    BY RowsTyped
  <2>. HIDE DEF x
  <2>7. L!RowsOf(f)' = L!RowsOf(f)
    <3>1. CASE rows' = rows
      BY <3>1 DEF L!RowsOf
    <3>2. CASE rows' = Append(rows, x)
      <4>1. /\ DOMAIN rows' = 1..(Len(rows) + 1) /\ rows'[Len(rows) + 1] = x
            /\ \A i \in DOMAIN rows : rows'[i] = rows[i]
        BY <2>5, <3>2, AppendGrows
      <4>. QED
        BY <2>4, <2>5, <2>6, <4>1 DEF L!RowsOf
    <3>. QED
      BY <2>1, <3>1, <3>2
  <2>. QED
    BY <1>6, <2>1, <2>2, <2>3, <2>7
<1>10. ASSUME L!Crash PROVE L!Missed(f)' = {} /\ L!RowsOf(f)' = L!RowsOf(f)
  <2>1. /\ UNCHANGED <<rows, file>>
        /\ step' = [u \in Uploads |-> IF L!Running(u) THEN "failed" ELSE step[u]]
    BY <1>10 DEF L!Crash
  <2>2. L!Missed(f)' = {}
    BY <1>3, <2>1
  <2>. QED
    BY <1>4, <2>1, <2>2, UnchangedGrow
<1>11. ASSUME NEW u \in Uploads, L!UploadSteps(u)
       PROVE  L!Missed(f)' = {} /\ L!RowsOf(f)' = L!RowsOf(f)
  BY <1>7, <1>8, <1>9, <1>11, Zenon DEF L!UploadSteps
<1>. QED
  BY <1>5, <1>7, <1>9, <1>10, <1>11, Zenon DEF L!Next

\* Repeating an upload adds nothing: once a file has a row and no upload that
\* missed it is under way, no step begins one or adds another row of it.
THEOREM UploadsDoNotRepeat == RecordsSpec => RepeatsAddNothing
<1>. DEFINE Kept == \A f \in L!Files :
              L!RowsOf(f) # {} /\ L!Missed(f) = {} =>
                L!Missed(f)' = {} /\ L!RowsOf(f)' = L!RowsOf(f)
<1>1. LibraryInv /\ [RecordsNext]_<<groups, library, warning>> => [Kept]_(L!vars)
  <2>1. [RecordsNext]_<<groups, library, warning>> => L!Next \/ UNCHANGED library
    BY Zenon DEF RecordsNext
  <2>2. LibraryInv /\ L!Next => Kept
    BY EntersItsFile, Zenon
  <2>3. UNCHANGED library => UNCHANGED L!vars
    BY DEF library, L!vars
  <2>. QED
    BY <2>1, <2>2, <2>3
<1>. QED
  BY <1>1, LibraryAlways, PTL DEF RecordsSpec, RepeatsAddNothing, L!RepeatsAddNothing

-----------------------------------------------------------------------------
(***************************************************************************)
(* EndWarning, on its own: the types, one warning for an edition of the    *)
(* end, and no cancellation of a contest that was put off.                 *)
(***************************************************************************)
USE EndAssumption

(***************************************************************************)
(* Type correctness.                                                       *)
(***************************************************************************)
LEMMA TypeInit == Init => TypeOK
<1> SUFFICES ASSUME Init PROVE TypeOK
  OBVIOUS
<1>1. 1 \in 1..MaxTime /\ 0 \in 0..MaxWrites
  OBVIOUS
<1>2. end \in Ends
  BY DEF Init, Ends, NoEnd
<1>3. sweep \in [Sweepers -> [step : Steps, now : 1..MaxTime, of : Nat]]
  BY <1>1 DEF Init, At, Steps
<1>4. saving \in [Admins -> [seen : Ends, end : Ends]]
  BY DEF Init, NoForm, Ends, NoEnd
<1>5. QED BY <1>1, <1>2, <1>3, <1>4 DEF Init, TypeOK

LEMMA SweepTyped ==
  ASSUME TypeOK, NEW s \in Sweepers,
         \/ FindEnding(s) \/ Mark(s) \/ Warn(s)
         \/ FindDue(s) \/ Draw(s) \/ CancelSnapshot(s) \/ CancelWrite(s)
         \/ SweepDies(s)
  PROVE  TypeOK'
<1> USE DEF TypeOK, Steps, Moves, ContestStays, contest
<1>e. At("found", time) \in [step : Steps, now : 1..MaxTime, of : Nat]
      /\ At("due", time) \in [step : Steps, now : 1..MaxTime, of : Nat]
  BY DEF At
<1>1. CASE FindEnding(s)
  BY <1>1, <1>e DEF FindEnding
<1>2. CASE Mark(s)
  <2>1. sweep' \in [Sweepers -> [step : Steps, now : 1..MaxTime, of : Nat]]
    <3>1. PICK to \in Steps :
            sweep' = [sweep EXCEPT ![s].step = to, ![s].of = edition]
      BY <1>2, Zenon DEF Mark
    <3>2. /\ sweep \in [Sweepers -> [step : Steps, now : 1..MaxTime, of : Nat]]
          /\ edition \in Nat
      OBVIOUS
    <3>. HIDE DEF TypeOK, Steps
    <3>3. [sweep[s] EXCEPT !.step = to, !.of = edition]
            \in [step : Steps, now : 1..MaxTime, of : Nat]
      BY <3>2
    <3>4. QED BY <3>1, <3>2, <3>3
  <2>2. QED BY <1>2, <2>1 DEF Mark
<1>3. CASE Warn(s)
  <2>1. [edition |-> sweep[s].of, by |-> s, time |-> time]
          \in [edition : Nat, by : Sweepers, time : 1..MaxTime]
    OBVIOUS
  <2>2. QED BY <1>3, <2>1 DEF Warn
<1>4. CASE FindDue(s)
  BY <1>4, <1>e DEF FindDue
<1>5. CASE Draw(s)
  BY <1>5 DEF Draw
<1>6. CASE CancelSnapshot(s)
  BY <1>6 DEF CancelSnapshot
<1>9. CASE CancelWrite(s)
  BY <1>9 DEF CancelWrite
<1>7. CASE SweepDies(s)
  BY <1>7 DEF SweepDies
<1>8. QED BY <1>1, <1>2, <1>3, <1>4, <1>5, <1>6, <1>7, <1>9

LEMMA EndPutOffTyped ==
  ASSUME TypeOK,
         \/ \E days \in Days : Extend(days)
         \/ \E a \in Admins : EditWrite(a) \/ \E later \in Ends : EditRead(a, later)
  PROVE  TypeOK'
<1> USE DEF TypeOK, SetEnd, Counts, ContestStays, contest
<1>1. ASSUME NEW days \in Days, Extend(days) PROVE TypeOK'
  BY <1>1 DEF Extend
<1>2. ASSUME NEW a \in Admins, EditWrite(a) PROVE TypeOK'
  <2>1. NoForm \in [seen : Ends, end : Ends]
    BY DEF NoForm, Ends, NoEnd
  <2>2. saving' \in [Admins -> [seen : Ends, end : Ends]]
    BY <1>2, <2>1 DEF EditWrite
  <2>3. end' \in Ends /\ marked' \in BOOLEAN /\ edition' \in Nat
    <3>1. CASE stage = "open"
      <4>1. end' = saving[a].end /\ marked' \in BOOLEAN /\ edition' \in {edition, edition + 1}
        BY <1>2, <3>1, Zenon DEF EditWrite
      <4>2. QED BY <4>1
    <3>2. CASE stage # "open"
      BY <1>2, <3>2 DEF EditWrite
    <3>3. QED BY <3>1, <3>2
  <2>4. QED BY <1>2, <2>2, <2>3 DEF EditWrite
<1>3. ASSUME NEW a \in Admins, NEW later \in Ends, EditRead(a, later) PROVE TypeOK'
  BY <1>3 DEF EditRead
<1>4. QED BY <1>1, <1>2, <1>3

\* Every variable of EndWarning keeps its type.
THEOREM TypeCorrect == Spec => []TypeOK
<1>1. TypeOK /\ [Next]_vars => TypeOK'
  <2> SUFFICES ASSUME TypeOK, [Next]_vars PROVE TypeOK'
    OBVIOUS
  <2>1. CASE Join
    BY <2>1 DEF Join, TypeOK
  <2>2. CASE Tick
    BY <2>2 DEF Tick, TypeOK, contest
  <2>3. CASE UNCHANGED vars
    BY <2>3 DEF vars, contest, TypeOK
  <2>4. QED BY <2>1, <2>2, <2>3, SweepTyped, EndPutOffTyped DEF Next
<1>2. QED BY TypeInit, <1>1, PTL DEF Spec

-----------------------------------------------------------------------------
(***************************************************************************)
(* A contest that was put off is not cancelled.                            *)
(***************************************************************************)
\* A sweep began when its time says, which is not ahead.
SweptBefore == \A s \in Sweepers : sweep[s].now <= time

LEMMA SweptBeforeStep ==
  ASSUME TypeOK, SweptBefore, [Next]_vars
  PROVE  SweptBefore'
<1> USE DEF TypeOK, SweptBefore
<1>1. ASSUME NEW s \in Sweepers, FindEnding(s) \/ FindDue(s) PROVE SweptBefore'
  BY <1>1 DEF FindEnding, FindDue, At, ContestStays, contest
<1>2. ASSUME NEW s \in Sweepers,
             \/ Mark(s) \/ Warn(s) \/ Draw(s)
             \/ CancelSnapshot(s) \/ CancelWrite(s) \/ SweepDies(s)
      PROVE  SweptBefore'
  BY <1>2 DEF Mark, Warn, Draw, CancelSnapshot, CancelWrite, SweepDies, Moves,
              ContestStays
<1>3. CASE Join \/ Tick \/ UNCHANGED vars
  <2>1. sweep' = sweep /\ time' \in {time, time + 1}
    BY <1>3 DEF Join, Tick, vars
  <2>2. QED BY <2>1
<1>4. ASSUME \/ \E days \in Days : Extend(days)
             \/ \E a \in Admins : EditWrite(a) \/ \E later \in Ends : EditRead(a, later)
      PROVE  SweptBefore'
  BY <1>4 DEF Extend, EditWrite, EditRead
<1>5. QED BY <1>1, <1>2, <1>3, <1>4 DEF Next

\* A statement that cancels found the contest empty: who is in it joined since.
FoundEmpty ==
  \A s \in Sweepers : sweep[s].step = "cancelling" => (joinedBy => unseen)

LEMMA FoundEmptyStep ==
  ASSUME TypeOK, FoundEmpty, [Next]_vars
  PROVE  FoundEmpty'
<1> USE DEF TypeOK, FoundEmpty
<1>1. CASE Join
  BY <1>1 DEF Join
<1>2. ASSUME NEW s \in Sweepers, CancelSnapshot(s) PROVE FoundEmpty'
  <2>1. UNCHANGED <<joinedBy, unseen>>
    BY <1>2 DEF CancelSnapshot, ContestStays, contest
  <2>2. sweep'[s].step = "cancelling" => ~joinedBy
    BY <1>2 DEF CancelSnapshot, Moves
  <2>3. \A t \in Sweepers \ {s} : sweep'[t] = sweep[t]
    BY <1>2 DEF CancelSnapshot, Moves
  <2>4. QED BY <2>1, <2>2, <2>3
<1>3. ASSUME NEW s \in Sweepers,
             \/ FindEnding(s) \/ Mark(s) \/ Warn(s)
             \/ FindDue(s) \/ Draw(s) \/ CancelWrite(s) \/ SweepDies(s)
      PROVE  FoundEmpty'
  <2>1. UNCHANGED <<joinedBy, unseen>>
    BY <1>3 DEF FindEnding, Mark, Warn, FindDue, Draw, CancelWrite, SweepDies,
                ContestStays, contest
  <2>2. \A t \in Sweepers :
          sweep'[t].step = "cancelling" => sweep[t].step = "cancelling"
    <3>1. CASE FindEnding(s) \/ FindDue(s)
      BY <3>1 DEF FindEnding, FindDue, At
    <3>2. CASE Mark(s)
      BY <3>2 DEF Mark
    <3>3. CASE Warn(s) \/ Draw(s) \/ CancelWrite(s)
      BY <3>3 DEF Warn, Draw, CancelWrite, Moves
    <3>4. CASE SweepDies(s)
      BY <3>4 DEF SweepDies, Moves
    <3>5. QED BY <1>3, <3>1, <3>2, <3>3, <3>4
  <2>3. QED BY <2>1, <2>2
<1>4. ASSUME \/ Tick \/ UNCHANGED vars
             \/ \E days \in Days : Extend(days)
             \/ \E a \in Admins : EditWrite(a) \/ \E later \in Ends : EditRead(a, later)
      PROVE  FoundEmpty'
  BY <1>4 DEF Tick, Extend, EditWrite, EditRead, ContestStays, contest, vars
<1>5. QED BY <1>1, <1>2, <1>3, <1>4 DEF Next

\* Nothing but a cancellation cancels, and nothing changes a contest that is.
LEMMA CancelledStep ==
  ASSUME TypeOK, SweptBefore, FoundEmpty, CancelledIsOver, [Next]_vars
  PROVE  CancelledIsOver'
<1> USE DEF TypeOK, SweptBefore, CancelledIsOver
<1>1. ASSUME NEW s \in Sweepers, CancelWrite(s) PROVE CancelledIsOver'
  <2>1. Ends \subseteq Nat
    BY DEF Ends, NoEnd
  <2>2. sweep[s].now <= time /\ sweep[s].now \in Nat /\ time \in Nat /\ end \in Nat
    BY <2>1
  <2>3. joinedBy => unseen
    BY <1>1 DEF CancelWrite, Moves, FoundEmpty
  <2>4. QED BY <1>1, <2>2, <2>3 DEF CancelWrite
<1>2. ASSUME NEW s \in Sweepers, Draw(s) PROVE CancelledIsOver'
  BY <1>2 DEF Draw
<1>3. ASSUME NEW s \in Sweepers,
             \/ FindEnding(s) \/ Mark(s) \/ Warn(s) \/ FindDue(s)
             \/ CancelSnapshot(s) \/ SweepDies(s)
      PROVE  CancelledIsOver'
  BY <1>3 DEF FindEnding, Mark, Warn, FindDue, CancelSnapshot, SweepDies,
     ContestStays, contest
<1>4. CASE Tick
  <2>1. Ends \subseteq Nat
    BY DEF Ends, NoEnd
  <2>2. QED BY <1>4, <2>1 DEF Tick, contest
<1>5. CASE Join \/ UNCHANGED vars
  BY <1>5 DEF Join, vars, contest
<1>6. ASSUME \/ \E days \in Days : Extend(days)
             \/ \E a \in Admins : EditWrite(a) \/ \E later \in Ends : EditRead(a, later)
      PROVE  CancelledIsOver'
  BY <1>6 DEF Extend, EditWrite, EditRead, ContestStays, contest
<1>7. QED BY <1>1, <1>2, <1>3, <1>4, <1>5, <1>6 DEF Next

\* A contest is cancelled when the end it has, not one that a sweep read before
\* it was put off, is over, and nobody is in it but who joined while the
\* cancelling statement was under way (cancelEmptyContest).
THEOREM CancelledWhenOver == Spec => []CancelledIsOver
<1>1. Init => SweptBefore /\ FoundEmpty /\ CancelledIsOver
  BY DEF Init, SweptBefore, FoundEmpty, CancelledIsOver, At
<1>2. TypeOK /\ SweptBefore /\ FoundEmpty /\ CancelledIsOver /\ [Next]_vars
        => SweptBefore' /\ FoundEmpty' /\ CancelledIsOver'
  BY SweptBeforeStep, FoundEmptyStep, CancelledStep
<1>3. QED BY <1>1, <1>2, TypeCorrect, PTL DEF Spec

-----------------------------------------------------------------------------
(***************************************************************************)
(* One warning for an edition of the end.                                  *)
(***************************************************************************)
Marker(s) == sweep[s].step = "marked"

\* Who marked this edition, or told of it, did so while the mark stands; of an
\* edition there is one sweep about to tell, or what it told.
MarkedOnce ==
  /\ \A s \in Sweepers : Marker(s) =>
       /\ sweep[s].of <= edition
       /\ sweep[s].of = edition => marked
  /\ \A n \in news :
       /\ n.edition <= edition
       /\ n.edition = edition => marked
  /\ \A s, t \in Sweepers : Marker(s) /\ Marker(t) /\ sweep[s].of = sweep[t].of => s = t
  /\ \A s \in Sweepers, n \in news : Marker(s) => sweep[s].of # n.edition

WarningInv == MarkedOnce /\ OneWarning

\* The steps that leave marks and warnings alone.
LEMMA MarksStay ==
  ASSUME TypeOK, WarningInv, UNCHANGED <<marked, edition, news>>,
         \A s \in Sweepers : Marker(s)' => Marker(s) /\ sweep'[s].of = sweep[s].of
  PROVE  WarningInv'
BY DEF TypeOK, WarningInv, MarkedOnce, OneWarning

LEMMA MarkStep ==
  ASSUME TypeOK, WarningInv, NEW s \in Sweepers, Mark(s)
  PROVE  WarningInv'
<1>1. CASE marked
  <2> USE DEF Marker, TypeOK
  <2>1. \A t \in Sweepers : Marker(t)' => Marker(t) /\ sweep'[t].of = sweep[t].of
    BY <1>1 DEF Mark
  <2>2. marked' = marked /\ UNCHANGED <<edition, news>>
    BY <1>1 DEF Mark
  <2>3. QED BY <2>1, <2>2, MarksStay
<1>2. CASE ~marked
  <2>a. /\ \A t \in Sweepers : Marker(t) => sweep[t].of <= edition /\ sweep[t].of # edition
        /\ \A n \in news : n.edition <= edition /\ n.edition # edition
        /\ edition \in Nat /\ news \subseteq [edition : Nat, by : Sweepers, time : 1..MaxTime]
        /\ sweep \in [Sweepers -> [step : Steps, now : 1..MaxTime, of : Nat]]
    BY <1>2, Zenon DEF TypeOK, WarningInv, MarkedOnce
  <2>b. /\ \A t \in Sweepers : Marker(t) => sweep[t].of < edition
        /\ \A n \in news : n.edition < edition
    BY <2>a
  <2> USE DEF TypeOK, WarningInv, MarkedOnce, OneWarning, Marker
  <2>1. \A t \in Sweepers \ {s} : sweep'[t] = sweep[t]
    BY DEF Mark
  <2>2. sweep'[s].of = edition
    BY DEF Mark
  <2>3. marked' /\ UNCHANGED <<edition, news>>
    BY DEF Mark
  <2>4. /\ \A t \in Sweepers : Marker(t)' => sweep'[t].of <= edition'
        /\ \A n \in news' : n.edition <= edition'
        /\ \A t \in Sweepers, n \in news' : Marker(t)' => sweep'[t].of # n.edition
    BY <2>1, <2>2, <2>b, <2>3, SMTT(30)
  <2>5. \A t, u \in Sweepers : Marker(t)' /\ Marker(u)' /\ sweep'[t].of = sweep'[u].of => t = u
    BY <2>1, <2>2, <2>b
  <2>6. QED BY <2>3, <2>4, <2>5
<1>3. QED BY <1>1, <1>2

LEMMA WarnStep ==
  ASSUME TypeOK, WarningInv, NEW s \in Sweepers, Warn(s)
  PROVE  WarningInv'
<1> USE DEF TypeOK, WarningInv, MarkedOnce, OneWarning, Marker
<1>1. Marker(s) /\ ~Marker(s)' /\ \A t \in Sweepers \ {s} : sweep'[t] = sweep[t]
  BY DEF Warn, Moves
<1>2. UNCHANGED <<marked, edition>>
  BY DEF Warn, ContestStays, contest
<1>3. CASE news' = news
  BY <1>1, <1>2, <1>3, MarksStay
<1>4. CASE news' = news \cup {[edition |-> sweep[s].of, by |-> s, time |-> time]}
  <2>. DEFINE new1 == [edition |-> sweep[s].of, by |-> s, time |-> time]
  <2>1. new1.edition = sweep[s].of /\ news' = news \cup {new1}
    BY <1>4
  <2>. HIDE DEF new1
  <2>2. \A t \in Sweepers : Marker(t)' => t # s /\ Marker(t) /\ sweep'[t].of = sweep[t].of
    BY <1>1
  <2>3. OneWarning'
    BY <1>1, <2>1
  <2>4. /\ \A t \in Sweepers : Marker(t)' =>
             sweep'[t].of <= edition /\ (sweep'[t].of = edition => marked)
        /\ \A n \in news' : n.edition <= edition /\ (n.edition = edition => marked)
    BY <1>1, <2>1, <2>2
  <2>5. /\ \A t, u \in Sweepers :
             Marker(t)' /\ Marker(u)' /\ sweep'[t].of = sweep'[u].of => t = u
        /\ \A t \in Sweepers, n \in news' : Marker(t)' => sweep'[t].of # n.edition
    BY <1>1, <2>1, <2>2
  <2>. QED
    BY <1>2, <2>3, <2>4, <2>5 DEF MarkedOnce, OneWarning
<1>5. QED BY <1>3, <1>4 DEF Warn

\* A new edition has no mark, and is later than those there were.
LEMMA SetEndStep ==
  ASSUME TypeOK, WarningInv, NEW end1, NEW afresh \in BOOLEAN, SetEnd(end1, afresh),
         UNCHANGED <<sweep, news>>
  PROVE  WarningInv'
BY DEF TypeOK, WarningInv, MarkedOnce, OneWarning, Marker, SetEnd

\* However sweeps and extensions cross, the admins are warned once for each time
\* the mark is set (warnEmptyEndingContests), with types as they should be.
THEOREM WarnedOnce == Spec => []WarningsSound
<1>1. Init => WarningInv
  BY DEF Init, WarningInv, MarkedOnce, OneWarning, Marker, At
<1>2. TypeOK /\ WarningInv /\ [Next]_vars => WarningInv'
  <2> SUFFICES ASSUME TypeOK, WarningInv, [Next]_vars PROVE WarningInv'
    OBVIOUS
  <2>1. ASSUME NEW s \in Sweepers,
               \/ FindEnding(s) \/ FindDue(s) \/ Draw(s)
               \/ CancelSnapshot(s) \/ CancelWrite(s) \/ SweepDies(s)
        PROVE  WarningInv'
    <3>1. UNCHANGED <<marked, edition, news>>
      BY <2>1 DEF FindEnding, FindDue, Draw, CancelSnapshot, CancelWrite, SweepDies,
                  ContestStays, contest
    <3>2. \A t \in Sweepers : Marker(t)' => Marker(t) /\ sweep'[t].of = sweep[t].of
      BY <2>1, SMTT(30) DEF FindEnding, FindDue, Draw, CancelSnapshot, CancelWrite,
                  SweepDies, Moves, Marker, At, TypeOK
    <3>3. QED BY <3>1, <3>2, MarksStay
  <2>2. ASSUME NEW days \in Days, Extend(days) PROVE WarningInv'
    BY <2>2, SetEndStep DEF Extend
  <2>3. ASSUME NEW a \in Admins, EditWrite(a) PROVE WarningInv'
    <3>1. CASE stage = "open"
      <4>1. SetEnd(saving[a].end, saving[a].end # saving[a].seen)
            /\ UNCHANGED <<sweep, news>>
        BY <2>3, <3>1 DEF EditWrite
      <4>2. QED BY <4>1, SetEndStep
    <3>2. CASE stage # "open"
      <4>1. UNCHANGED <<marked, edition, news, sweep>>
        BY <2>3, <3>2 DEF EditWrite
      <4>2. QED BY <4>1, MarksStay DEF Marker
    <3>3. QED BY <3>1, <3>2
  <2>4. CASE \/ Join \/ Tick \/ UNCHANGED vars
             \/ \E a \in Admins, later \in Ends : EditRead(a, later)
    <3>1. UNCHANGED <<marked, edition, news, sweep>>
      BY <2>4 DEF Join, Tick, vars, EditRead, ContestStays, contest
    <3>2. QED BY <3>1, MarksStay DEF Marker
  <2>5. QED BY <2>1, <2>2, <2>3, <2>4, MarkStep, WarnStep DEF Next
<1>3. WarningInv => OneWarning
  BY DEF WarningInv
<1>4. QED BY <1>1, <1>2, <1>3, TypeCorrect, PTL DEF Spec, WarningsSound
=============================================================================
