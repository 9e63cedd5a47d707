---------------------------- MODULE MediaLibrary ----------------------------
(***************************************************************************)
(* The media library: uploading a file into it.  A file that is known under *)
(* its name gives its row again, and a video that was once stored as a      *)
(* document becomes a video on the way.  Anything else is written to disk, *)
(* a picture perhaps twice, and then entered into the base; when that fails *)
(* the files are removed, for nothing will ever lead to them.              *)
(*                                                                         *)
(* Disk and base have no common transaction: a step of either may fail, a  *)
(* commit may go through while its answer is lost, and the process may die. *)
(***************************************************************************)
EXTENDS Naturals, Sequences, FiniteSets

CONSTANTS
  Uploads,    \* calls of MediaService.upload
  Pngs,       \* files, each with its name: pictures that may be compressed
  Pictures,   \* other pictures, stored as they are
  Clips,      \* videos
  Texts,      \* anything else
  Old,        \* clips stored as documents before videos were recognised
  MaxFaults

Files == Pngs \cup Pictures \cup Clips \cup Texts
NoFile == "no file"
None == 0

\* What the constants must be (MCRecords assumes it of those of its run).
FilesAssumption ==
  /\ Old \subseteq Clips /\ IsFiniteSet(Old)
  /\ NoFile \notin Files /\ MaxFaults \in Nat
  /\ Pngs \cap Pictures = {} /\ Clips \cap Texts = {}
  /\ (Pngs \cup Pictures) \cap (Clips \cup Texts) = {}
  /\ Uploads \cap Old = {}

VARIABLES
  rows,     \* MediaAsset, in the order of creation
  disk,     \* files in the storage: <<the one that wrote it, variant>>
  step,     \* how far an upload is
  file,     \* what it uploads
  copy,     \* it has written the compressed variant
  result,   \* the row it gives back
  why,      \* history: what made an upload fail
  faults

vars == <<rows, disk, step, file, copy, result, why, faults>>

Steps == {"idle", "converting", "writing", "optimizing", "creating", "discarding",
          "done", "failed"}
Reasons == {"nothing", "convert", "write", "optimize", "create", "lost", "discard", "crash"}

Row(owner, f, k, c) == [owner |-> owner, file |-> f, kind |-> k, optimized |-> c]

Init ==
  /\ \E order \in [1..Cardinality(Old) -> Old] :
       /\ \A f \in Old : \E i \in DOMAIN order : order[i] = f
       /\ rows = [i \in DOMAIN order |-> Row(order[i], order[i], "document", FALSE)]
  /\ disk = {<<f, "original">> : f \in Old}
  /\ step = [u \in Uploads |-> "idle"]
  /\ file = [u \in Uploads |-> NoFile]
  /\ copy = [u \in Uploads |-> FALSE]
  /\ result = [u \in Uploads |-> None]
  /\ why = [u \in Uploads |-> "nothing"]
  /\ faults = 0

Fault == faults < MaxFaults /\ faults' = faults + 1
Moves(u, to) == step' = [step EXCEPT ![u] = to]

\* The caller is told that the upload failed.
Throws(u, reason) == Moves(u, "failed") /\ why' = [why EXCEPT ![u] = reason]

\* Content decides: a picture is tried first, then a video.
ProbeVideo(f) == f \in Clips

\* Mutant: the format of a picture is stored for its kind.
KindOrFormat(f) == CASE f \in Pngs     -> "png"
                     [] f \in Pictures -> "image"
                     [] ProbeVideo(f)  -> "video"
                     [] f \in Texts    -> "document"

KindOf(f) == CASE f \in Pngs \cup Pictures -> "image"
               [] ProbeVideo(f)            -> "video"
               [] f \in Texts              -> "document"

\* Mutant: the search asks for the kind as well.
MatchesInKind(i, f) == rows[i].file = f /\ rows[i].kind = KindOf(f)

Matches(i, f) == rows[i].file = f
Of(f) == {i \in DOMAIN rows : Matches(i, f)}

Oldest(is) == CHOOSE i \in is : \A j \in is : i <= j

\* Mutant: a known file is given back as it was stored.
NeverMisfiled(i) == FALSE

\* A row from before videos were told from documents.
Misfiled(i) == rows[i].kind = "document" /\ ProbeVideo(rows[i].file)

\* The search for the same bytes under the same name.
Find(u, f) ==
  /\ step[u] = "idle"
  /\ file' = [file EXCEPT ![u] = f]
  /\ IF Of(f) = {}
       THEN Moves(u, "writing") /\ UNCHANGED result
       ELSE /\ result' = [result EXCEPT ![u] = Oldest(Of(f))]
            /\ Moves(u, IF Misfiled(Oldest(Of(f))) THEN "converting" ELSE "done")
  /\ UNCHANGED <<rows, disk, copy, why, faults>>

Convert(u) ==
  /\ step[u] = "converting"
  /\ rows' = [rows EXCEPT ![result[u]].kind = "video"]
  /\ Moves(u, "done")
  /\ UNCHANGED <<disk, file, copy, result, why, faults>>

ConvertFails(u) ==
  /\ step[u] = "converting" /\ Fault
  /\ Throws(u, "convert")
  /\ UNCHANGED <<rows, disk, file, copy, result>>

\* storage.write of the bytes as they came; a failed one may leave a part.
WriteOriginal(u) ==
  /\ step[u] = "writing"
  /\ \/ /\ disk' = disk \cup {<<u, "original">>}
        /\ Moves(u, IF KindOf(file[u]) = "image" THEN "optimizing" ELSE "creating")
        /\ UNCHANGED <<why, faults>>
     \/ /\ Fault /\ Throws(u, "write")
        /\ disk' \in {disk, disk \cup {<<u, "original">>}}
  /\ UNCHANGED <<rows, file, copy, result>>

\* Mutant: a copy that could not be written is entered all the same.
OptimizesOnPaper(u) ==
  /\ step[u] = "optimizing"
  /\ copy' = [copy EXCEPT ![u] = file[u] \in Pngs]
  /\ Moves(u, "creating")
  /\ UNCHANGED <<rows, disk, file, result, why, faults>>

\* tryOptimize.  Only a PNG is compressed; that may fail or save nothing, and
\* the upload goes on without.  The write of the smaller copy is returned and
\* not awaited, so its failure passes the catch around it.
TryOptimize(u) ==
  /\ step[u] = "optimizing"
  /\ \/ Moves(u, "creating") /\ UNCHANGED <<disk, copy, why, faults>>
     \/ /\ file[u] \in Pngs
        /\ disk' = disk \cup {<<u, "optimized">>}
        /\ copy' = [copy EXCEPT ![u] = TRUE]
        /\ Moves(u, "creating")
        /\ UNCHANGED <<why, faults>>
     \/ /\ file[u] \in Pngs /\ Fault
        /\ Throws(u, "optimize")
        /\ disk' \in {disk, disk \cup {<<u, "optimized">>}}
        /\ UNCHANGED copy
  /\ UNCHANGED <<rows, file, result>>

Append1(u) == rows' = Append(rows, Row(u, file[u], KindOf(file[u]), copy[u]))

CreateRow(u) ==
  /\ step[u] = "creating"
  /\ Append1(u)
  /\ result' = [result EXCEPT ![u] = Len(rows')]
  /\ Moves(u, "done")
  /\ UNCHANGED <<disk, file, copy, why, faults>>

\* The base refuses, or commits the row and the answer is lost: the code
\* cannot tell the two apart and discards the files.
CreateFails(u) ==
  /\ step[u] = "creating" /\ Fault
  /\ \/ UNCHANGED rows /\ why' = [why EXCEPT ![u] = "create"]
     \/ Append1(u) /\ why' = [why EXCEPT ![u] = "lost"]
  /\ Moves(u, "discarding")
  /\ UNCHANGED <<disk, file, copy, result>>

\* Mutant: only the original is removed.
DiscardsOriginal(u) == {<<u, "original">>}

Written(u) == {<<u, "original">>} \cup (IF copy[u] THEN {<<u, "optimized">>} ELSE {})

\* discard: each file on its own, and a file that stays is only logged.
Discard(u) ==
  /\ step[u] = "discarding"
  /\ \/ /\ disk' = disk \ Written(u)
        /\ UNCHANGED <<why, faults>>
     \/ /\ Fault
        /\ \E left \in SUBSET Written(u) \ {{}} : disk' = disk \ (Written(u) \ left)
        /\ why' = [why EXCEPT ![u] = IF @ = "lost" THEN "lost" ELSE "discard"]
  /\ Moves(u, "failed")
  /\ UNCHANGED <<rows, file, copy, result>>

Running(u) == step[u] \notin {"idle", "done", "failed"}

\* The process dies with all the uploads it runs.
Crash ==
  /\ Fault
  /\ \E u \in Uploads : Running(u)
  /\ step' = [u \in Uploads |-> IF Running(u) THEN "failed" ELSE step[u]]
  /\ why' = [u \in Uploads |-> IF Running(u) /\ why[u] /= "lost" THEN "crash" ELSE why[u]]
  /\ UNCHANGED <<rows, disk, file, copy, result>>

UploadSteps(u) ==
  \/ Convert(u) \/ WriteOriginal(u) \/ TryOptimize(u) \/ CreateRow(u) \/ Discard(u)

Next ==
  \/ \E u \in Uploads, f \in Files : Find(u, f)
  \/ \E u \in Uploads : UploadSteps(u) \/ ConvertFails(u) \/ CreateFails(u)
  \/ Crash

Spec == Init /\ [][Next]_vars

---------------------------------------------------------------------------
(* Properties.                                                             *)

RowType == [owner : Uploads \cup Old, file : Files,
            kind : {"image", "video", "document"}, optimized : BOOLEAN]

TypeOK ==
  /\ rows \in Seq(RowType)
  /\ disk \subseteq (Uploads \cup Old) \X {"original", "optimized"}
  /\ step \in [Uploads -> Steps]
  /\ file \in [Uploads -> Files \cup {NoFile}]
  /\ copy \in [Uploads -> BOOLEAN]
  /\ \A u \in Uploads : result[u] \in {None} \cup DOMAIN rows
  /\ why \in [Uploads -> Reasons]
  /\ faults \in 0..MaxFaults

NamedBy(i) ==
  {<<rows[i].owner, "original">>}
    \cup (IF rows[i].optimized THEN {<<rows[i].owner, "optimized">>} ELSE {})

\* A row in the library always leads to its files: no failure, whatever it
\* interrupts, leaves a row whose original or compressed copy is gone.  The one
\* way to lose them is a commit whose answer did not come.
RowsHaveFiles ==
  \A i \in DOMAIN rows :
    \/ NamedBy(i) \subseteq disk
    \/ rows[i].owner \in Uploads /\ why[rows[i].owner] = "lost"

\* A refused row leaves nothing on the volume: a file without a row belongs to
\* an upload that still runs, or to one that a crash or a failure of the disk
\* itself broke off.
NoOrphans ==
  \A p \in disk :
    \/ \E i \in DOMAIN rows : p \in NamedBy(i)
    \/ p[1] \in {u \in Uploads : Running(u) \/ why[u] \in {"crash", "discard", "write", "optimize"}}

\* Whatever the base holds of earlier times, and whoever uploads the same file
\* meanwhile, a video that is accepted is a video.
ClipsAreVideos ==
  \A u \in Uploads : step[u] = "done" => rows[result[u]].kind = KindOf(file[u])

\* Files become more only by uploads that found none: once a row exists and no
\* upload that missed it is under way, repeating the upload adds nothing.
Missed(f) == {u \in Uploads : file[u] = f /\ step[u] \in {"writing", "optimizing", "creating"}}
RowsOf(f) == {i \in DOMAIN rows : rows[i].file = f}

RepeatsAddNothing ==
  [][\A f \in Files :
       RowsOf(f) /= {} /\ Missed(f) = {} => Missed(f)' = {} /\ RowsOf(f)' = RowsOf(f)]_vars

\* What media.service.ts:311 says of tryOptimize, "Optimisation is a nicety;
\* failing it must not fail the upload": no upload fails because of it.
OptimisationIsNicety == \A u \in Uploads : why[u] /= "optimize"

\* All that holds of a row at any time: its type, its files, and that a video
\* was not entered for something else.
LibrarySound == TypeOK /\ RowsHaveFiles /\ ClipsAreVideos
=============================================================================
