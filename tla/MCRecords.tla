----------------------------- MODULE MCRecords -----------------------------
(***************************************************************************)
(* Groups, MediaLibrary and EndWarning on small sets, for TLC.  The three  *)
(* share no state, so that their steps commute: a behaviour of the run     *)
(* belongs to the one that moves first, while the others stay as they began. *)
(***************************************************************************)
EXTENDS EndWarning, TLC

CONSTANTS
  Requests, Tags, NoTags, MaxRows,
  Uploads, Pngs, Pictures, Clips, Texts, Old, MaxFaults

VARIABLES
  row, ids, history, flight, pc, op, target, seen, new, changed, logged, failed,
  approved, overwritten,
  rows, disk, step, file, copy, result, why, faults

G == INSTANCE Groups
L == INSTANCE MediaLibrary

ASSUME RecordsAssumption == G!GroupsAssumption /\ L!FilesAssumption

groups  == <<row, ids, history, flight, pc, op, target, seen, new, changed, logged,
             failed, approved, overwritten>>
library == <<rows, disk, step, file, copy, result, why, faults>>
warning == vars

RecordsInit == G!Init /\ L!Init /\ Init

GroupsBegan  == \E r \in Requests : pc[r] # "new"
LibraryBegan == \E u \in Uploads : step[u] # "idle"
WarningBegan == \/ end # 0 \/ time > 1 \/ joinedBy \/ writes > 0
                \/ \E s \in Sweepers : sweep[s].step # "idle"
                \/ marked

RecordsNext ==
  \/ ~LibraryBegan /\ ~WarningBegan /\ G!Next /\ UNCHANGED <<library, warning>>
  \/ ~GroupsBegan /\ ~WarningBegan /\ L!Next /\ UNCHANGED <<groups, warning>>
  \/ ~GroupsBegan /\ ~LibraryBegan /\ Next /\ UNCHANGED <<groups, library>>

RecordsSpec == RecordsInit /\ [][RecordsNext]_<<groups, library, warning>>

Symmetry == Permutations(Requests)

\* A chat is a target only if an admin confirmed it since it was a draft or was
\* disconnected, unless a refused delivery overwrote that (Groups).
ApprovedUnlessFlagged == G!ApprovedUnlessFlagged

\* Rows, audit records and crossing connections of groups (Groups).
GroupsSound == G!GroupsSound

\* Rows of the library have their files and their kind (MediaLibrary).
LibrarySound == L!LibrarySound

\* A refused row leaves no file behind (MediaLibrary).
NoOrphans == L!NoOrphans

\* Repeating an upload adds nothing to the library (MediaLibrary).
RepeatsAddNothing == L!RepeatsAddNothing

\* WarningsSound and CancelledIsOver are those of EndWarning.
=============================================================================
