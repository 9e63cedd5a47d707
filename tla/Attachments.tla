---------------------------- MODULE Attachments -----------------------------
(***************************************************************************)
(* From the files of a post to the references its messages carry: the      *)
(* question asked before a post goes out, the uploader with its cache of   *)
(* references, the personal token VK wants for an upload, and the wait for *)
(* a video that MAX still processes.                                       *)
(*                                                                         *)
(* A reference lives under a file, a place and a scope: every community of *)
(* VK is a place, all chats of MAX are one, and a video has a scope of its *)
(* own, since it may have been uploaded as a document before the library   *)
(* came to know videos (MediaLibrary's Convert, here TurnsVideo).  Ages    *)
(* are classes: "new" below VIDEO_SETTLED_MS, "stale" above               *)
(* MAX_CACHE_TTL_MS, "settled" between.                                    *)
(***************************************************************************)
EXTENDS Naturals, Sequences, FiniteSets

CONSTANTS
  VkGroups, MaxGroups,
  Campaigns,   \* posts made by hand
  Firings,     \* posts a template makes, to the groups it can reach
  Deliveries,  \* which post is meant for which group
  Order,       \* the files of every post, in order
  Videos,      \* those among them that are videos, stored as documents at first
  MaxTries,    \* RETRY_ATTEMPTS
  MaxFaults

Groups == VkGroups \cup MaxGroups
Posts == Campaigns \cup Firings
Assets == {Order[i] : i \in DOMAIN Order}

\* What the constants must be (MCAttachments assumes it of those of its run).  A
\* post has a file once (@@unique of PostAttachment).
AttachmentsAssumption ==
  /\ VkGroups \cap MaxGroups = {} /\ "bot" \notin VkGroups
  /\ Campaigns \cap Firings = {} /\ Deliveries \subseteq Posts \X Groups
  /\ Order \in Seq(Assets) /\ Videos \subseteq Assets
  /\ \A i, j \in DOMAIN Order : Order[i] = Order[j] => i = j
  /\ MaxTries \in Nat \ {0} /\ MaxFaults \in Nat

VARIABLES
  kind,      \* MediaAsset.kind
  token,     \* the uploader token: "missing", "usable", "expired"
  post,      \* "none", "draft", "scheduled", "sending"
  row,       \* PostDelivery.status, "none" before it exists
  queued,    \* deliveries with a job that waits
  tries,     \* attempts of that job that are over
  step,      \* how far the handler of a delivery is
  asKind,    \* the kinds that handler has read
  refs,      \* references it has collected: <<maker, key>>
  found,     \* age of the entry it has found, "none" without one
  inHand,    \* the maker of the reference it is at, NoOne without one
  holdsToken,
  cache,     \* MediaPlatformUpload: the maker of the reference, and its age
  made,      \* the last reference a delivery has made under a key: "processing" while
             \* MAX works on its video, "overdue" if it still does when the entry settles
  cleared,   \* history: the kinds by which a group was cleared as fully cached
  refused,   \* history: the kinds by which a handler asked for a token in vain
  faults

handler == <<step, asKind, refs, found, inHand, holdsToken>>
rows == <<post, row, queued, tries>>
store == <<cache, made>>
history == <<cleared, refused>>
vars == <<kind, token, post, row, queued, tries, step, asKind, refs, found,
          inHand, holdsToken, cache, made, cleared, refused, faults>>

Steps == {"idle", "finding", "uploading", "storing", "waiting", "calling"}
Ages == {"none", "new", "settled", "stale"}
Fates == {"none", "inHand", "kept", "lost", "stale"}
Forms == {"picture", "player", "file"}
States == {"processing", "overdue", "ready"}
NotCleared == <<>>
NoOne == <<>>

IsVk(g) == g \in VkGroups
Place(g) == IF IsVk(g) THEN g ELSE "bot"
Places == VkGroups \cup {"bot"}

\* vkUploadScope, and its counterpart for MAX.
Scope(k) == IF k = "video" THEN "video" ELSE "plain"

Form(k) == CASE k = "image" -> "picture" [] k = "video" -> "player" [] k = "document" -> "file"

Keys == Assets \X Places \X {"plain", "video"}
Empty == [by |-> NoOne, age |-> "none"]
NeverMade == [form |-> "file", state |-> "processing", fate |-> "none"]
FirstKind == [a \in Assets |-> IF a \in Videos THEN "document" ELSE "image"]
Entry(a, g, k) == cache[<<a, Place(g), Scope(k)>>]

\* Mutant: only what MAX has had the time to process is taken from the cache.
OnlySettled(age) == age = "settled"

\* isFresh; entries of VK never become stale.
IsFresh(age) == age \in {"new", "settled"}

Init ==
  /\ kind = FirstKind
  /\ token = "missing"
  /\ post = [p \in Posts |-> IF p \in Campaigns THEN "draft" ELSE "none"]
  /\ row = [d \in Deliveries |-> IF d[1] \in Campaigns THEN "pending" ELSE "none"]
  /\ queued = {}
  /\ tries = [d \in Deliveries |-> 0]
  /\ step = [d \in Deliveries |-> "idle"]
  /\ asKind = [d \in Deliveries |-> FirstKind]
  /\ refs = [d \in Deliveries |-> <<>>]
  /\ found = [d \in Deliveries |-> "none"]
  /\ inHand = [d \in Deliveries |-> NoOne]
  /\ holdsToken = {}
  /\ cache = [key \in Keys |-> Empty]
  /\ made = [x \in Deliveries \X Keys |-> NeverMade]
  /\ cleared = [d \in Deliveries |-> NotCleared]
  /\ refused = [d \in Deliveries |-> NotCleared]
  /\ faults = 0

Fault == faults < MaxFaults /\ faults' = faults + 1

---------------------------------------------------------------------------
(* The surroundings: the library, the token, time, MAX.                    *)

\* The file is uploaded again and known for a video.
TurnsVideo(a) ==
  /\ a \in Videos /\ kind[a] = "document"
  /\ kind' = [kind EXCEPT ![a] = "video"]
  /\ UNCHANGED <<token, rows, handler, store, history, faults>>

\* VK gives no refresh token: only another authorization renews an expired one.
TokenExpires ==
  /\ token = "usable"
  /\ token' = "expired"
  /\ UNCHANGED <<kind, rows, handler, store, history, faults>>

\* The code is exchanged for a token, which replaces the one there was.
Exchange == token' = "usable"

\* The admin goes to VK with a state that a cookie remembers and comes back with
\* a code; what fails on the way is begun again.
Callback ==
  /\ token /= "usable"
  /\ Exchange
  /\ UNCHANGED <<kind, rows, handler, store, history, faults>>

\* VIDEO_SETTLED_MS goes by, whether or not MAX has processed the video.
Settles(key) ==
  /\ key[2] = "bot" /\ cache[key].age = "new"
  /\ cache' = [cache EXCEPT ![key].age = "settled"]
  /\ made' = [made EXCEPT ![<<cache[key].by, key>>].state =
                IF @ = "processing" THEN "overdue" ELSE @]
  /\ UNCHANGED <<kind, token, rows, handler, history, faults>>

\* A week goes by, which no handler outlasts.
GoesStale(key) ==
  /\ key[2] = "bot" /\ cache[key].age = "settled"
  /\ \A d \in Deliveries : IsVk(d[2]) \/ step[d] = "idle"
  /\ cache' = [cache EXCEPT ![key].age = "stale"]
  /\ made' = [x \in DOMAIN made |-> IF x[2] = key /\ made[x].fate = "kept"
                                    THEN [made[x] EXCEPT !.fate = "stale"] ELSE made[x]]
  /\ UNCHANGED <<kind, token, rows, handler, history, faults>>

MaxProcesses(x) ==
  /\ made[x].fate /= "none" /\ made[x].state /= "ready"
  /\ made' = [made EXCEPT ![x].state = "ready"]
  /\ UNCHANGED <<kind, token, rows, handler, cache, history, faults>>

---------------------------------------------------------------------------
(* Before anything is sent.                                                *)

\* Mutant: whatever is cached of the file, under whatever scope.
CachedSomehow(g) == {a \in Assets : \E s \in {"plain", "video"} : cache[<<a, g, s>>].by /= NoOne}

\* cachedVkUploads: the files a community has, by the keys the uploader uses.
Cached(g) == {a \in Assets : Entry(a, g, kind[a]).by /= NoOne}

\* needsVkUpload, of the rows of a post in one of the given statuses.
NeedsVkUpload(p, statuses) ==
  \E d \in Deliveries :
    d[1] = p /\ IsVk(d[2]) /\ row[d] \in statuses /\ Cached(d[2]) /= Assets

Uploadable(p, statuses) == NeedsVkUpload(p, statuses) => token = "usable"

\* publishableVkGroups: answered for each community on its own.
Publishable == IF token = "usable" THEN VkGroups ELSE {g \in VkGroups : Cached(g) = Assets}

SchedulePost(p) ==
  /\ post[p] = "draft" /\ Uploadable(p, {"pending"})
  /\ post' = [post EXCEPT ![p] = "scheduled"]
  /\ UNCHANGED <<kind, token, row, queued, tries, handler, store, history, faults>>

\* A template fires: communities it cannot reach now are left out of this run.
Fire(p) ==
  /\ post[p] = "none" /\ p \in Firings
  /\ LET recipients == {d \in Deliveries : d[1] = p /\ d[2] \in Publishable \cup MaxGroups}
     IN /\ recipients /= {}
        /\ row' = [d \in Deliveries |-> IF d \in recipients THEN "pending" ELSE row[d]]
  /\ post' = [post EXCEPT ![p] = "scheduled"]
  /\ UNCHANGED <<kind, token, queued, tries, handler, store, history, faults>>

\* Asked once more by the dispatch: then the jobs are queued.  Without a token
\* it leaves the post as it is, and the reconciler offers it again.
Dispatch(p) ==
  /\ post[p] \in {"scheduled", "sending"} /\ Uploadable(p, {"pending"})
  /\ LET due == {d \in Deliveries : d[1] = p /\ row[d] = "pending" /\ step[d] = "idle"}
     IN /\ queued' = queued \cup due
        /\ post[p] = "scheduled" \/ due \ queued /= {}
        /\ tries' = [d \in Deliveries |-> IF d \in due \ queued THEN 0 ELSE tries[d]]
        /\ cleared' = [d \in Deliveries |->
                         IF d \notin due \ queued THEN cleared[d]
                         ELSE IF IsVk(d[2]) /\ ~NeedsVkUpload(p, {"pending"}) THEN kind
                         ELSE NotCleared]
        /\ refused' = [d \in Deliveries |-> IF d \in due THEN NotCleared ELSE refused[d]]
  /\ post' = [post EXCEPT ![p] = "sending"]
  /\ UNCHANGED <<kind, token, row, handler, store, faults>>

\* "Send to the rest": the rows that failed, behind the same question.
ResumePost(p) ==
  /\ post[p] = "sending"
  /\ \E d \in Deliveries : d[1] = p /\ row[d] = "failed"
  /\ Uploadable(p, {"failed"})
  /\ row' = [d \in Deliveries |-> IF d[1] = p /\ row[d] = "failed" THEN "pending" ELSE row[d]]
  /\ UNCHANGED <<kind, token, post, queued, tries, handler, store, history, faults>>

---------------------------------------------------------------------------
(* The handler of a delivery.                                              *)

\* Mutant: the last file first.
LastFirst(d) == Order[Len(Order) - Len(refs[d])]

Next1(d) == Order[Len(refs[d]) + 1]
KindHere(d) == asKind[d][Next1(d)]
Key(d) == <<Next1(d), Place(d[2]), Scope(KindHere(d))>>
IsMaxVideo(d) == ~IsVk(d[2]) /\ KindHere(d) = "video"

Leaves(d) ==
  /\ asKind' = [asKind EXCEPT ![d] = FirstKind]
  /\ step' = [step EXCEPT ![d] = "idle"]
  /\ refs' = [refs EXCEPT ![d] = <<>>]
  /\ inHand' = [inHand EXCEPT ![d] = NoOne]
  /\ found' = [found EXCEPT ![d] = "none"]
  /\ holdsToken' = holdsToken \ {d}

Ends(d, status) ==
  /\ row' = [row EXCEPT ![d] = status]
  /\ queued' = queued \ {d}
  /\ tries' = [tries EXCEPT ![d] = 0]
  /\ Leaves(d)
  /\ UNCHANGED post

MayTryAgain(d) == tries[d] + 1 < MaxTries

\* An error that a further attempt may cure, until the attempts run out.
Retries(d) ==
  IF MayTryAgain(d)
    THEN /\ row' = [row EXCEPT ![d] = "pending"]
         /\ tries' = [tries EXCEPT ![d] = @ + 1]
         /\ Leaves(d)
         /\ UNCHANGED <<post, queued>>
    ELSE Ends(d, "failed")

\* The job starts: the row, the post and the kinds of its files are read.
Deliver(d) ==
  /\ d \in queued /\ step[d] = "idle" /\ row[d] = "pending"
  /\ row' = [row EXCEPT ![d] = "sending"]
  /\ asKind' = [asKind EXCEPT ![d] = kind]
  /\ step' = [step EXCEPT ![d] = IF Order = <<>> THEN "calling" ELSE "finding"]
  /\ UNCHANGED <<kind, token, post, queued, tries, refs, found, inHand, holdsToken, store,
                 history, faults>>

\* One more reference collected; after the last one the message is sent.
Collect(d, maker) ==
  /\ refs' = [refs EXCEPT ![d] = Append(@, <<maker, Key(d)>>)]
  /\ step' = [step EXCEPT ![d] = IF Len(refs[d]) + 1 = Len(Order) THEN "calling" ELSE "finding"]
  /\ inHand' = [inHand EXCEPT ![d] = NoOne]
  /\ found' = [found EXCEPT ![d] = "none"]

\* Mutant: only a reference out of the cache may be a video in processing.
WaitsForCached(d, age) == IsMaxVideo(d) /\ age = "new"

\* A video that was made just now, by this handler or by another one, is asked
\* about; one that has been in the cache for long is not.
MustWait(d, age) == IsMaxVideo(d) /\ age /= "settled"

Takes(d, maker, age) ==
  IF MustWait(d, age)
    THEN /\ step' = [step EXCEPT ![d] = "waiting"]
         /\ inHand' = [inHand EXCEPT ![d] = maker]
         /\ found' = [found EXCEPT ![d] = "none"]
         /\ UNCHANGED refs
    ELSE Collect(d, maker)

Find(d) ==
  /\ step[d] = "finding"
  /\ IF IsFresh(cache[Key(d)].age)
       THEN Takes(d, cache[Key(d)].by, cache[Key(d)].age)
       ELSE /\ step' = [step EXCEPT ![d] = "uploading"]
            /\ found' = [found EXCEPT ![d] = cache[Key(d)].age]
            /\ UNCHANGED <<refs, inHand>>
  /\ UNCHANGED <<kind, token, rows, asKind, holdsToken, store, history, faults>>

\* The token is fetched for the first file of a handler that needs it.
HasToken(d) == ~IsVk(d[2]) \/ d \in holdsToken \/ token = "usable"

TokenRefused(d) ==
  /\ step[d] = "uploading" /\ ~HasToken(d)
  /\ refused' = [refused EXCEPT ![d] = asKind[d]]
  /\ Ends(d, "failed")
  /\ UNCHANGED <<kind, token, store, cleared, faults>>

Uploaded(d) ==
  /\ made' = [made EXCEPT ![<<d, Key(d)>>] =
                [form |-> Form(KindHere(d)), fate |-> "inHand",
                 state |-> IF IsMaxVideo(d) THEN "processing" ELSE "ready"]]
  /\ inHand' = [inHand EXCEPT ![d] = d]
  /\ step' = [step EXCEPT ![d] = "storing"]
  /\ UNCHANGED <<kind, token, rows, asKind, refs, found, cache, history, faults>>

\* VK takes the file, as a photo, a video or a document of the community.
UploadToVk(d) ==
  /\ step[d] = "uploading" /\ IsVk(d[2]) /\ HasToken(d)
  /\ Uploaded(d)
  /\ holdsToken' = holdsToken \cup {d}

\* MAX takes it, with a video still to be processed.
UploadToMax(d) ==
  /\ step[d] = "uploading" /\ ~IsVk(d[2])
  /\ Uploaded(d)
  /\ UNCHANGED holdsToken

\* Or it does not, and the error is read as one of the message would be.
UploadFails(d) ==
  /\ step[d] = "uploading" /\ HasToken(d) /\ Fault
  /\ Retries(d) \/ Ends(d, "failed") \/ Ends(d, "unknown")
  /\ UNCHANGED <<kind, token, store, history>>

Stored(d, fate) == made' = [made EXCEPT ![<<d, Key(d)>>].fate = fate]

\* A stale entry is replaced, a missing one is created; of two that create it
\* the second finds the first one's and uses it.  Either way it is a new one.
Store(d) ==
  /\ step[d] = "storing"
  /\ IF found[d] = "stale" \/ cache[Key(d)].by = NoOne
       THEN /\ cache' = [cache EXCEPT ![Key(d)] = [by |-> d, age |-> "new"]]
            /\ Takes(d, d, "none")
       ELSE /\ Takes(d, cache[Key(d)].by, "none")
            /\ UNCHANGED cache
  /\ Stored(d, "kept")
  /\ UNCHANGED <<kind, token, rows, asKind, holdsToken, history, faults>>

\* The cache is not written, and the delivery goes on with what it has.
StoreFails(d) ==
  /\ step[d] = "storing" /\ Fault
  /\ Stored(d, "lost")
  /\ Takes(d, d, "none")
  /\ UNCHANGED <<kind, token, rows, asKind, holdsToken, cache, history>>

\* waitForVideoReady.
VideoReady(d) ==
  /\ step[d] = "waiting" /\ made[<<inHand[d], Key(d)>>].state = "ready"
  /\ Collect(d, inHand[d])
  /\ UNCHANGED <<kind, token, rows, asKind, holdsToken, store, history, faults>>

VideoTimesOut(d) ==
  /\ step[d] = "waiting" /\ made[<<inHand[d], Key(d)>>].state /= "ready"
  /\ Retries(d)
  /\ UNCHANGED <<kind, token, store, history, faults>>

\* The message: sent, refused, or nobody knows.
Send(d) ==
  /\ step[d] = "calling"
  /\ Ends(d, "sent")
  /\ UNCHANGED <<kind, token, store, history, faults>>

SendFails(d) ==
  /\ step[d] = "calling" /\ Fault
  /\ Retries(d) \/ Ends(d, "failed") \/ Ends(d, "unknown")
  /\ UNCHANGED <<kind, token, store, history>>

\* The process dies: what was being sent is unknown to the reconciler, and a
\* reference that was not stored is gone.
Crash ==
  /\ Fault
  /\ LET active == {d \in Deliveries : step[d] /= "idle"}
     IN /\ active /= {}
        /\ row' = [d \in Deliveries |-> IF d \in active THEN "unknown" ELSE row[d]]
        /\ queued' = queued \ active
        /\ tries' = [d \in Deliveries |-> IF d \in active THEN 0 ELSE tries[d]]
        /\ step' = [d \in Deliveries |-> "idle"]
        /\ refs' = [d \in Deliveries |-> IF d \in active THEN <<>> ELSE refs[d]]
        /\ found' = [d \in Deliveries |-> "none"]
        /\ inHand' = [d \in Deliveries |-> NoOne]
        /\ asKind' = [d \in Deliveries |-> IF d \in active THEN FirstKind ELSE asKind[d]]
        /\ holdsToken' = {}
        /\ made' = [x \in DOMAIN made |-> IF made[x].fate = "inHand"
                                         THEN [made[x] EXCEPT !.fate = "lost"] ELSE made[x]]
  /\ UNCHANGED <<kind, token, post, cache, history>>

DeliverSteps(d) ==
  \/ Deliver(d) \/ Find(d) \/ TokenRefused(d) \/ UploadToVk(d) \/ UploadToMax(d) \/ Store(d)
  \/ VideoReady(d) \/ VideoTimesOut(d) \/ Send(d)

Next ==
  \/ \E a \in Assets : TurnsVideo(a)
  \/ TokenExpires \/ Callback
  \/ \E key \in Keys : Settles(key) \/ GoesStale(key)
  \/ \E x \in Deliveries \X Keys : MaxProcesses(x)
  \/ \E p \in Posts : SchedulePost(p) \/ Fire(p) \/ Dispatch(p) \/ ResumePost(p)
  \/ \E d \in Deliveries : DeliverSteps(d) \/ UploadFails(d) \/ StoreFails(d) \/ SendFails(d)
  \/ Crash

Spec == Init /\ [][Next]_vars

---------------------------------------------------------------------------
(* Properties.                                                             *)

Kinds == {"image", "document", "video"}
Makers == Deliveries \cup {NoOne}

TypeOK ==
  /\ kind \in [Assets -> Kinds]
  /\ token \in {"missing", "usable", "expired"}
  /\ post \in [Posts -> {"none", "draft", "scheduled", "sending"}]
  /\ row \in [Deliveries -> {"none", "pending", "sending", "sent", "failed", "unknown"}]
  /\ queued \subseteq Deliveries /\ holdsToken \subseteq Deliveries
  /\ tries \in [Deliveries -> 0..MaxTries - 1]
  /\ step \in [Deliveries -> Steps]
  /\ asKind \in [Deliveries -> [Assets -> Kinds]]
  /\ refs \in [Deliveries -> Seq(Deliveries \X Keys)]
  /\ inHand \in [Deliveries -> Makers]
  /\ found \in [Deliveries -> Ages]
  /\ cache \in [Keys -> [by : Makers, age : Ages]]
  /\ made \in [Deliveries \X Keys -> [form : Forms, state : States, fate : Fates]]
  /\ cleared \in [Deliveries -> {NotCleared} \cup [Assets -> Kinds]]
  /\ refused \in [Deliveries -> {NotCleared} \cup [Assets -> Kinds]]
  /\ faults \in 0..MaxFaults

\* A message shows every file of its post, in their order, in the form of the
\* kind the handler has read (a player for a video, however the same file was
\* uploaded before), and with a reference made for the place it goes to.
RefIsRight ==
  \A d \in Deliveries : step[d] = "calling" =>
    /\ Len(refs[d]) = Len(Order)
    /\ \A i \in DOMAIN Order :
         /\ refs[d][i][2][1] = Order[i] /\ refs[d][i][2][2] = Place(d[2])
         /\ made[refs[d][i]].form = Form(asKind[d][Order[i]])

\* MAX refuses a message whose video it still processes: no handler takes one for
\* its message, whether it made the reference itself, in this attempt or in one
\* that was given up, lost the race for the entry or found it in the cache.  The
\* one exception is a video that takes longer than VIDEO_SETTLED_MS, once the cache
\* has held it for that long: its age stands for an answer nobody asked for.
VideoIsSettled ==
  \A d \in Deliveries : \A i \in DOMAIN refs[d] : made[refs[d][i]].state /= "processing"

\* Trying again, and sending to the rest, never uploads a file to where the
\* same delivery has uploaded it before: the work of an attempt that
\* broke off is not lost, except where the cache was not written or aged out.
RetriesReuse ==
  [][\A x \in DOMAIN made : made[x].fate = "kept" => made'[x].fate /= "inHand"]_vars

\* A community let through because all its files are there is not stopped by a
\* dead token half way: the question that was asked looks at the very entries
\* the uploader will.  Only a file that turned into a video meanwhile differs.
ClearedNeedNoToken ==
  \A d \in Deliveries : cleared[d] /= NotCleared => refused[d] /= cleared[d]

\* What holds when a message goes out: types, references of the right files in
\* the right form, and no video that MAX still processes, unless it is overdue.
ReferencesSound == TypeOK /\ RefIsRight /\ VideoIsSettled
=============================================================================
