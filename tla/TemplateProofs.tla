--------------------------- MODULE TemplateProofs ---------------------------
(***************************************************************************)
(* Theorems about recurring posts.  The first part is about Template: when *)
(* windows fire, for every set of rules, lists, requests and sweeps, every *)
(* grace and every bound of the clock.                                     *)
(***************************************************************************)
EXTENDS Template, MCSchedules, NaturalsInduction, WellFoundedInduction, TLAPS

USE RulesAssumption, TimeAssumption

(***************************************************************************)
(* The next window of a rule is later than the moment it is computed at.   *)
(***************************************************************************)
LEMMA NextIsLater ==
  \A k \in Nat \ {0}, from \in Nat :
    NextRunAfter(k, from) \in Nat /\ NextRunAfter(k, from) > from
<1> TAKE k \in Nat \ {0}, from \in Nat
<1>1. PICK q \in Nat, m \in 0 .. (k - 1) : from = k * q + m /\ from \div k = q
  OBVIOUS
<1>2. (q + 1) * k = k * q + k
  OBVIOUS
<1>3. k * q \in Nat
  OBVIOUS
<1>4. QED BY <1>1, <1>2, <1>3 DEF NextRunAfter

(***************************************************************************)
(* Type correctness, with what a sweep and a request hold where they are.  *)
(***************************************************************************)
SweepsHold ==
  \A s \in Sweepers :
    /\ pc[s] # "idle" => seen[s].next \in 1 .. clock
    /\ pc[s] \in {"skip", "claim"} => at[s].next > seen[s].next

FormsHold ==
  \A e \in Editors :
    /\ editPc[e] = "check" =>
         form[e].op = "edit" /\ (form[e].rearm => form[e].rule # 0)
    /\ editPc[e] = "new" => form[e] = NoForm

Typed == TypeOK /\ SweepsHold /\ FormsHold

LEMMA InitTyped == Init => Typed
<1> SUFFICES ASSUME Init PROVE Typed
  OBVIOUS
<1>1. rule \in Nat \ {0}
  BY DEF Init
<1>2. NextRunAfter(rule, 0) \in Nat
  BY <1>1, NextIsLater
<1>3. NoForm \in Forms
  BY DEF NoForm, Forms, AnyRule
<1>4. content \in Content
  BY DEF Init, Content, Texts
<1>5. NoFind \in [rule : AnyRule, next : 0 .. MaxClock]
      /\ NoTime \in [start : 0 .. MaxClock, next : Nat]
  BY DEF NoFind, NoTime, AnyRule
<1>6. QED
  <2>1. rule \in AnyRule /\ nextRunAt \in Nat /\ paused \in BOOLEAN
        /\ clock \in 0 .. MaxClock /\ fired \in [1 .. MaxClock -> Nat]
    <3>1. nextRunAt \in Nat
      BY <1>2 DEF Init
    <3>2. clock = 0 /\ fired \in [1 .. MaxClock -> Nat]
      BY DEF Init
    <3>3. rule \in AnyRule /\ paused \in BOOLEAN
      BY DEF Init, AnyRule
    <3>4. QED BY <3>1, <3>2, <3>3
  <2>2. TypeOK
    BY <2>1, <1>3, <1>4, <1>5 DEF Init, TypeOK
  <2>3. SweepsHold /\ FormsHold
    BY DEF Init, SweepsHold, FormsHold, NoForm
  <2>4. QED BY <2>2, <2>3 DEF Typed

LEMMA OverdueTyped ==
  ASSUME TypeOK, NEW win \in Nat
  PROVE  Overdue(win) \subseteq 1 .. MaxClock
BY DEF TypeOK, Overdue

LEMMA RefuseTyped ==
  ASSUME Typed, NEW e \in Editors, Refuse(e)
  PROVE  /\ editPc' \in [Editors -> {"new", "check", "write", "done"}]
         /\ form' \in [Editors -> Forms]
         /\ FormsHold'
BY DEF Refuse, Typed, TypeOK, FormsHold, NoForm, Forms, AnyRule

LEMMA EditTyped ==
  ASSUME Typed, NEW e \in Editors, Edit(e)
  PROVE  Typed'
<1> USE DEF Typed, TypeOK, SweepsHold, FormsHold, EditOnly, row, ghost
<1>0. NoForm \in Forms
  BY DEF NoForm, Forms, AnyRule
<1>1. ASSUME NEW picked \in AnyRule, NEW text \in {"kept", e},
             NEW lists \in {"kept"} \cup Lists, UpdateRead(e, picked, text, lists)
      PROVE  Typed'
  <2> DEFINE new   == IF picked = 0 THEN rule ELSE picked
             rearm == new # rule \/ nextRunAt = 0
             asked == [op |-> "edit", rule |-> new, rearm |-> rearm,
                       next |-> 0, text |-> text, lists |-> lists]
  <2>1. asked \in Forms
    <3>1. rearm \in BOOLEAN
      OBVIOUS
    <3> HIDE DEF rearm
    <3>2. QED BY <3>1 DEF Forms, Texts
  <2>2. CASE rearm /\ new = 0
    BY <1>1, <2>2, RefuseTyped DEF UpdateRead
  <2>3. CASE ~(rearm /\ new = 0)
    <3>1. /\ form' = [form EXCEPT ![e] = asked]
          /\ editPc' = [editPc EXCEPT ![e] = "check"]
          /\ UNCHANGED <<row, since, reopened>> /\ EditOnly
      BY <1>1, <2>3 DEF UpdateRead, MoveEdit
    <3>2. asked.op = "edit" /\ (asked.rearm => asked.rule # 0)
      BY <2>3
    <3> HIDE DEF asked
    <3>3. FormsHold'
      BY <3>1, <3>2, <2>1
    <3>4. QED BY <3>1, <3>3, <2>1
  <2>4. QED BY <2>2, <2>3
<1>2. CASE UpdateCompute(e)
  <2> DEFINE upcoming == IF form[e].rearm THEN NextRunAfter(form[e].rule, clock)
                         ELSE 0
  <2>1. editPc[e] = "check" /\ form[e] \in Forms
    BY <1>2 DEF UpdateCompute, MoveEdit
  <2>2. upcoming \in Nat
    <3>1. form[e].rearm => form[e].rule \in Nat \ {0}
      BY <2>1 DEF Forms, AnyRule
    <3>2. form[e].rearm => NextRunAfter(form[e].rule, clock) \in Nat
      <4>1. clock \in Nat
        OBVIOUS
      <4>2. QED BY <3>1, <4>1, NextIsLater
    <3>3. QED BY <3>2
  <2>3. form' = [form EXCEPT ![e].next = upcoming]
    BY <1>2 DEF UpdateCompute
  <2> HIDE DEF upcoming
  <2>4. form' \in [Editors -> Forms]
    BY <2>1, <2>2, <2>3 DEF Forms
  <2>5. QED BY <1>2, <2>3, <2>4 DEF UpdateCompute, MoveEdit
<1>3. CASE UpdateRefused(e)
  BY <1>3, RefuseTyped DEF UpdateRefused
<1>4. CASE UpdateWrite(e)
  <2>1. form[e] \in Forms
    OBVIOUS
  <2>2. rule' \in AnyRule /\ nextRunAt' \in Nat
    BY <1>4, <2>1 DEF UpdateWrite, Forms
  <2>3. content' \in Content
    BY <1>4, <2>1 DEF UpdateWrite, Forms, Content
  <2>4. since' \in [Sweepers -> SUBSET Content]
    <3>1. since' = [s \in Sweepers |-> IF pc[s] \in {"read", "create"}
                                       THEN since[s] \cup {content'} ELSE {}]
      BY <1>4 DEF UpdateWrite
    <3>2. QED BY <2>3, <3>1
  <2>5. form' \in [Editors -> Forms]
        /\ editPc' \in [Editors -> {"new", "check", "write", "done"}]
        /\ FormsHold'
    BY <1>4, <1>0 DEF UpdateWrite, MoveEdit
  <2>6. UNCHANGED <<clock, paused, ghost, pc, seen, at, post>>
    BY <1>4 DEF UpdateWrite
  <2>7. reopened' \subseteq 1 .. MaxClock
    BY <1>4, <2>1, OverdueTyped DEF UpdateWrite, Forms
  <2>8. QED BY <2>2, <2>3, <2>4, <2>5, <2>6, <2>7
<1>5. CASE PauseRead(e)
  BY <1>5, ZenonT(60) DEF PauseRead, MoveEdit, Forms
<1>6. CASE ResumeRead(e)
  <2> DEFINE resuming == paused \/ nextRunAt = 0
             upcoming == IF resuming THEN NextRunAfter(rule, clock) ELSE 0
  <2>1. CASE resuming /\ rule = 0
    BY <1>6, <2>1, RefuseTyped DEF ResumeRead
  <2>2. CASE ~(resuming /\ rule = 0)
    <3>1. upcoming \in Nat
      <4>1. resuming => rule \in Nat \ {0}
        BY <2>2 DEF AnyRule
      <4>2. resuming => NextRunAfter(rule, clock) \in Nat
        <5>1. clock \in Nat
          OBVIOUS
        <5>2. QED BY <4>1, <5>1, NextIsLater
      <4>3. QED BY <4>2
    <3>2. resuming \in BOOLEAN
      OBVIOUS
    <3>3. /\ form' = [form EXCEPT ![e] =
                        [NoForm EXCEPT !.op = "resume", !.rearm = resuming,
                                       !.next = upcoming]]
          /\ editPc' = [editPc EXCEPT ![e] = "write"]
          /\ UNCHANGED <<row, since, reopened>> /\ EditOnly
      BY <1>6, <2>2 DEF ResumeRead, MoveEdit
    <3> HIDE DEF upcoming, resuming
    <3>4. form' \in [Editors -> Forms]
      <4>1. [NoForm EXCEPT !.op = "resume", !.rearm = resuming, !.next = upcoming]
              \in Forms
        BY <3>1, <3>2, <1>0 DEF Forms
      <4>2. QED BY <3>3, <4>1
    <3>5. FormsHold'
      BY <3>3
    <3>6. QED BY <3>3, <3>4, <3>5
  <2>3. QED BY <2>1, <2>2
<1>7. CASE SetPausedWrite(e)
  <2>1. form[e] \in Forms
    OBVIOUS
  <2>2. nextRunAt' \in Nat /\ paused' \in BOOLEAN
    BY <1>7, <2>1 DEF SetPausedWrite, Forms
  <2>3. form' \in [Editors -> Forms]
        /\ editPc' \in [Editors -> {"new", "check", "write", "done"}]
        /\ FormsHold'
    BY <1>7, <1>0 DEF SetPausedWrite, MoveEdit
  <2>4. UNCHANGED <<clock, ghost, pc, seen, at, post, rule, content, since>>
    BY <1>7 DEF SetPausedWrite
  <2>5. reopened' \subseteq 1 .. MaxClock
    BY <1>7, <2>2, OverdueTyped DEF SetPausedWrite
  <2>6. QED BY <2>2, <2>3, <2>4, <2>5
<1>8. QED
  BY <1>1, <1>2, <1>3, <1>4, <1>5, <1>6, <1>7 DEF Edit

\* A sweep that leaves the template, or goes on to its next step.
LEMMA LeavesTyped ==
  ASSUME Typed, NEW s \in Sweepers, Leaves(s), UNCHANGED clock
  PROVE  /\ pc' \in [Sweepers -> {"idle", "compute", "disarm", "skip", "claim",
                                  "read", "create"}]
         /\ seen' \in [Sweepers -> [rule : AnyRule, next : 0 .. MaxClock]]
         /\ at' \in [Sweepers -> [start : 0 .. MaxClock, next : Nat]]
         /\ since' \in [Sweepers -> SUBSET Content]
         /\ post' \in [Sweepers -> SUBSET Content]
         /\ SweepsHold'
<1>1. NoFind \in [rule : AnyRule, next : 0 .. MaxClock]
      /\ NoTime \in [start : 0 .. MaxClock, next : Nat]
  BY DEF NoFind, NoTime, AnyRule
<1>2. QED
  BY <1>1 DEF Leaves, Typed, TypeOK, SweepsHold

LEMMA SweepTyped ==
  ASSUME Typed, NEW s \in Sweepers, Sweep(s) \/ SweepFails(s)
  PROVE  Typed'
<1> USE DEF Typed, TypeOK, SweepsHold, FormsHold, SweepOnly, edits
<1>1. CASE FindDue(s)
  <2>1. nextRunAt \in 1 .. clock
    BY <1>1 DEF FindDue
  <2>2. /\ seen' = [seen EXCEPT ![s] = [rule |-> rule, next |-> nextRunAt]]
        /\ at' = [at EXCEPT ![s] = [start |-> clock, next |-> 0]]
        /\ pc' = [pc EXCEPT ![s] = "compute"]
        /\ UNCHANGED <<nextRunAt, fired, since, post>> /\ SweepOnly
    BY <1>1 DEF FindDue, Sweeps
  <2>3. seen'[s].next = nextRunAt
    BY <2>2
  <2>4. SweepsHold'
    BY <2>1, <2>2, <2>3
  <2>5. QED BY <2>1, <2>2, <2>4
<1>2. CASE ComputeNext(s)
  <2>1. seen[s].next \in 1 .. clock /\ pc[s] = "compute"
    BY <1>2 DEF ComputeNext
  <2>2. CASE seen[s].rule = 0
    BY <1>2, <2>2 DEF ComputeNext, Sweeps
  <2>3. CASE seen[s].rule # 0
    <3>1. seen[s].rule \in Nat \ {0} /\ clock \in Nat
      <4>1. seen[s].rule \in AnyRule /\ clock \in Nat
        OBVIOUS
      <4>2. QED BY <2>3, <4>1 DEF AnyRule
    <3> DEFINE upcoming == NextRunAfter(seen[s].rule, clock)
    <3>2. upcoming \in Nat /\ upcoming > clock
      BY <3>1, NextIsLater
    <3>3. /\ at' = [at EXCEPT ![s].next = upcoming]
          /\ pc' \in [Sweepers -> {"idle", "compute", "disarm", "skip", "claim",
                                   "read", "create"}]
          /\ \A u \in Sweepers \ {s} : pc'[u] = pc[u]
          /\ UNCHANGED <<nextRunAt, seen, fired, since, post>> /\ SweepOnly
      BY <1>2, <2>3 DEF ComputeNext, Sweeps
    <3> HIDE DEF upcoming
    <3>4. at' \in [Sweepers -> [start : 0 .. MaxClock, next : Nat]]
          /\ at'[s].next = upcoming /\ \A u \in Sweepers \ {s} : at'[u] = at[u]
      <4>1. at[s] \in [start : 0 .. MaxClock, next : Nat]
        OBVIOUS
      <4>2. [at[s] EXCEPT !.next = upcoming] \in [start : 0 .. MaxClock, next : Nat]
            /\ [at[s] EXCEPT !.next = upcoming].next = upcoming
        BY <3>2, <4>1
      <4>3. at' = [at EXCEPT ![s] = [at[s] EXCEPT !.next = upcoming]]
        BY <3>3
      <4>4. QED BY <4>2, <4>3
    <3>5. SweepsHold'
      BY <2>1, <3>2, <3>3, <3>4
    <3>6. QED BY <3>3, <3>4, <3>5
  <2>4. QED BY <2>2, <2>3
<1>3. CASE Disarm(s)
  <2>1. nextRunAt' \in Nat /\ UNCHANGED clock
    BY <1>3 DEF Disarm
  <2>2. QED BY <1>3, <2>1, LeavesTyped DEF Disarm
<1>4. CASE SkipStale(s)
  <2>1. nextRunAt' \in Nat /\ UNCHANGED clock
    BY <1>4 DEF SkipStale
  <2>2. QED BY <1>4, <2>1, LeavesTyped DEF SkipStale
<1>5. CASE Claim(s)
  BY <1>5 DEF Claim, Sweeps
<1>6. CASE ClaimLost(s)
  BY <1>6, LeavesTyped DEF ClaimLost
<1>7. CASE ReadFresh(s)
  BY <1>7 DEF ReadFresh, Sweeps
<1>8. CASE NobodyToReach(s)
  BY <1>8, LeavesTyped DEF NobodyToReach
<1>9. CASE CreateOccurrence(s)
  <2>1. fired' \in [1 .. MaxClock -> Nat]
    BY <1>9 DEF CreateOccurrence
  <2>2. QED BY <1>9, <2>1, LeavesTyped DEF CreateOccurrence
<1>10. CASE SweepFails(s)
  BY <1>10, LeavesTyped DEF SweepFails
<1>11. QED
  BY <1>1, <1>2, <1>3, <1>4, <1>5, <1>6, <1>7, <1>8, <1>9, <1>10 DEF Sweep

LEMMA NextTyped == Typed /\ [Next]_vars => Typed'
<1> SUFFICES ASSUME Typed, [Next]_vars PROVE Typed'
  OBVIOUS
<1> USE DEF Typed, TypeOK, SweepsHold, FormsHold
<1>1. CASE \E e \in Editors : Edit(e)
  BY <1>1, EditTyped
<1>2. CASE \E s \in Sweepers : Sweep(s) \/ SweepFails(s)
  BY <1>2, SweepTyped
<1>3. CASE Tick
  <2>1. /\ clock' = clock + 1 /\ clock < MaxClock
        /\ slept' = IF paused /\ nextRunAt = clock + 1
                    THEN slept \cup {clock + 1} ELSE slept
        /\ UNCHANGED <<row, fired, reopened, sweeps, edits>>
    BY <1>3 DEF Tick
  <2>2. clock' \in 0 .. MaxClock /\ slept' \subseteq 1 .. MaxClock
    BY <2>1
  <2>3. SweepsHold'
    BY <2>1 DEF sweeps
  <2>4. QED BY <2>1, <2>2, <2>3 DEF row, sweeps, edits
<1>4. CASE RuleBreaks
  BY <1>4 DEF RuleBreaks, AnyRule, ghost, sweeps, edits
<1>5. CASE Crash
  <2>1. NoFind \in [rule : AnyRule, next : 0 .. MaxClock]
        /\ NoTime \in [start : 0 .. MaxClock, next : Nat]
    BY DEF NoFind, NoTime, AnyRule
  <2>2. NoForm \in Forms
    BY DEF NoForm, Forms, AnyRule
  <2>3. form' \in [Editors -> Forms]
        /\ editPc' \in [Editors -> {"new", "check", "write", "done"}]
        /\ FormsHold'
    BY <1>5, <2>2 DEF Crash
  <2>4. QED BY <1>5, <2>1, <2>3 DEF Crash, row, ghost
<1>6. CASE UNCHANGED vars
  BY <1>6 DEF vars, row, ghost, sweeps, edits
<1>7. QED
  BY <1>1, <1>2, <1>3, <1>4, <1>5, <1>6 DEF Next

\* Every variable keeps its type, for any periods and any clock.
THEOREM TypeCorrect == Spec => []TypeOK
<1>1. Typed => TypeOK
  BY DEF Typed
<1>2. QED
  BY InitTyped, NextTyped, <1>1, PTL DEF Spec

(***************************************************************************)
(* Once for every window.  A window that was fired, or that a sweep has    *)
(* claimed, is over and lies before the one the template waits for, unless *)
(* a request that had read too early made it due again.                    *)
(***************************************************************************)
Claims(s, w) == pc[s] \in {"read", "create"} /\ seen[s].next = w
Spent(w) == fired[w] > 0 \/ \E s \in Sweepers : Claims(s, w)

Closed == (1 .. MaxClock) \ reopened

WindowsInv ==
  \A w \in Closed :
    /\ Spent(w) => w <= clock /\ (nextRunAt # 0 => w < nextRunAt)
    /\ fired[w] <= 1
    /\ fired[w] = 1 => \A s \in Sweepers : ~Claims(s, w)
    /\ \A s, u \in Sweepers : Claims(s, w) /\ Claims(u, w) => s = u

\* Nothing is claimed or fired anew, nothing that was reopened is closed.
LEMMA NothingSpent ==
  ASSUME Typed, WindowsInv, clock' >= clock, fired' = fired, reopened \subseteq reopened',
         \A s \in Sweepers, w \in 1 .. MaxClock : Claims(s, w)' => Claims(s, w),
         \A w \in Closed' : Spent(w) /\ nextRunAt' # 0 => w < nextRunAt',
         clock' \in Nat
  PROVE  WindowsInv'
<1>1. Closed' \subseteq Closed /\ Closed \subseteq 1 .. MaxClock
  BY DEF Closed
<1>2. QED BY <1>1 DEF WindowsInv, Spent, Typed, TypeOK

\* What a window to arm the template for puts back is what lies between it and now.
LEMMA OverdueHolds ==
  ASSUME Typed, NEW win \in Nat, win # 0, NEW w \in 1 .. MaxClock,
         w <= clock, w \notin Overdue(win)
  PROVE  w < win
BY DEF Typed, TypeOK, Overdue

LEMMA EditKeepsOnce ==
  ASSUME Typed, WindowsInv, NEW e \in Editors, Edit(e)
  PROVE  WindowsInv'
<1> USE DEF Typed, TypeOK
<1>1. UNCHANGED <<clock, fired, pc, seen>>
  BY DEF Edit, UpdateRead, UpdateCompute, UpdateRefused, UpdateWrite,
     PauseRead, ResumeRead, SetPausedWrite, EditOnly, ghost
<1>2. /\ reopened \subseteq reopened'
      /\ \/ nextRunAt' = nextRunAt
         \/ nextRunAt' = form[e].next /\ Overdue(nextRunAt') \subseteq reopened'
  BY DEF Edit, UpdateRead, UpdateCompute, UpdateRefused, UpdateWrite,
     PauseRead, ResumeRead, SetPausedWrite, row
<1>3. form[e].next \in Nat /\ clock \in Nat
  BY DEF Forms
<1>4. ASSUME NEW w \in Closed', Spent(w), nextRunAt' # 0 PROVE w < nextRunAt'
  <2>1. w \in Closed /\ w \in 1 .. MaxClock /\ w \notin reopened'
    BY <1>2, <1>4 DEF Closed
  <2>2. w <= clock /\ (nextRunAt # 0 => w < nextRunAt)
    BY <1>4, <2>1 DEF WindowsInv
  <2>3. QED BY <1>2, <1>3, <1>4, <2>1, <2>2, OverdueHolds
<1>5. QED BY <1>1, <1>2, <1>3, <1>4, NothingSpent DEF Claims

\* A sweep that leaves claims nothing.
LEMMA LeavesClaims ==
  ASSUME Typed, NEW s \in Sweepers, Leaves(s)
  PROVE  \A u \in Sweepers, w \in 1 .. MaxClock :
           Claims(u, w)' <=> Claims(u, w) /\ u # s
BY DEF Leaves, Claims, Typed, TypeOK

LEMMA SweepKeepsOnce ==
  ASSUME Typed, WindowsInv, NEW s \in Sweepers, Sweep(s) \/ SweepFails(s)
  PROVE  WindowsInv'
<1> USE DEF Typed, TypeOK
<1>1. UNCHANGED <<clock, reopened>>
  BY DEF Sweep, FindDue, ComputeNext, Disarm, SkipStale, Claim, ClaimLost,
     ReadFresh, NobodyToReach, CreateOccurrence, SweepFails, SweepOnly
<1>2. Closed' = Closed /\ Closed \subseteq 1 .. MaxClock
  BY <1>1 DEF Closed
<1>3. clock \in Nat
  OBVIOUS
<1>4. CASE FindDue(s) \/ ComputeNext(s) \/ ReadFresh(s)
  <2>1. \A u \in Sweepers, w \in 1 .. MaxClock : Claims(u, w)' => Claims(u, w)
    BY <1>4 DEF FindDue, ComputeNext, ReadFresh, Sweeps, Claims
  <2>2. UNCHANGED <<nextRunAt, fired>>
    BY <1>4 DEF FindDue, ComputeNext, ReadFresh
  <2>3. \A w \in Closed : Spent(w) /\ nextRunAt' # 0 => w < nextRunAt'
    BY <2>2 DEF WindowsInv
  <2>4. QED BY <1>1, <1>2, <1>3, <2>1, <2>2, <2>3, NothingSpent
<1>5. CASE Disarm(s) \/ SkipStale(s) \/ ClaimLost(s) \/ NobodyToReach(s)
             \/ SweepFails(s)
  <2>1. Leaves(s) /\ fired' = fired
    BY <1>5 DEF Disarm, SkipStale, ClaimLost, NobodyToReach, SweepFails
  <2>2. nextRunAt' = nextRunAt \/ nextRunAt' = 0
          \/ (nextRunAt = seen[s].next /\ nextRunAt' = at[s].next
               /\ pc[s] = "skip")
    BY <1>5 DEF Disarm, SkipStale, ClaimLost, NobodyToReach, SweepFails, StillDue
  <2>3. pc[s] = "skip" => seen[s].next \in 1 .. clock /\ at[s].next > seen[s].next
    BY DEF SweepsHold
  <2>4. at[s].next \in Nat
    OBVIOUS
  <2>5. \A w \in Closed : Spent(w) /\ nextRunAt' # 0 => w < nextRunAt'
    BY <1>2, <1>3, <2>2, <2>3, <2>4 DEF WindowsInv
  <2>6. \A u \in Sweepers, w \in 1 .. MaxClock : Claims(u, w)' => Claims(u, w)
    BY <2>1, LeavesClaims
  <2>7. QED BY <1>1, <1>2, <1>3, <2>1, <2>5, <2>6, NothingSpent
<1>6. CASE Claim(s)
  <2> DEFINE v == seen[s].next
  <2>1. /\ nextRunAt = v /\ nextRunAt' = at[s].next /\ pc[s] = "claim"
        /\ pc' = [pc EXCEPT ![s] = "read"] /\ UNCHANGED <<seen, fired>>
    BY <1>6 DEF Claim, StillDue, Sweeps
  <2>2. v \in 1 .. clock /\ at[s].next > v /\ at[s].next \in Nat /\ v \in 1 .. MaxClock
    BY <2>1 DEF SweepsHold
  <2>3. v \in Closed => ~Spent(v)
    BY <2>1, <2>2 DEF WindowsInv
  <2>4. \A u \in Sweepers, w \in 1 .. MaxClock :
          Claims(u, w)' <=> Claims(u, w) \/ (u = s /\ w = v)
    BY <2>1 DEF Claims
  <2>5. \A w \in 1 .. MaxClock : Spent(w)' <=> Spent(w) \/ w = v
    BY <2>1, <2>4 DEF Spent
  <2>6. \A w \in Closed :
          Spent(w)' => w <= clock' /\ (nextRunAt' # 0 => w < nextRunAt')
    <3>1. ASSUME NEW w \in Closed, Spent(w)'
          PROVE  w <= clock' /\ (nextRunAt' # 0 => w < nextRunAt')
      <4>1. CASE w = v
        BY <1>1, <2>1, <2>2, <4>1
      <4>2. CASE w # v
        <5>1. Spent(w) /\ w \in 1 .. MaxClock
          BY <1>2, <2>5, <3>1, <4>2
        <5>2. w <= clock /\ (nextRunAt # 0 => w < nextRunAt)
          BY <5>1 DEF WindowsInv
        <5>3. QED BY <1>1, <2>1, <2>2, <5>1, <5>2
      <4>3. QED BY <4>1, <4>2
    <3>2. QED BY <3>1
  <2>7. v \in Closed => fired[v] = 0 /\ \A u \in Sweepers : ~Claims(u, v)
    BY <2>2, <2>3 DEF Spent
  <2> HIDE DEF v
  <2>8. ASSUME NEW w \in Closed
        PROVE  /\ fired'[w] <= 1
               /\ fired'[w] = 1 => \A u \in Sweepers : ~Claims(u, w)'
               /\ \A u, x \in Sweepers : Claims(u, w)' /\ Claims(x, w)' => u = x
    <3>1. /\ fired[w] <= 1
          /\ fired[w] = 1 => \A u \in Sweepers : ~Claims(u, w)
          /\ \A u, x \in Sweepers : Claims(u, w) /\ Claims(x, w) => u = x
      BY DEF WindowsInv
    <3>2. w \in 1 .. MaxClock /\ fired' = fired
      BY <1>2, <2>1
    <3>3. CASE w = v
      BY <2>4, <2>7, <3>2, <3>3
    <3>4. CASE w # v
      BY <2>4, <3>1, <3>2, <3>4
    <3>5. QED BY <3>3, <3>4
  <2>9. QED BY <1>2, <2>6, <2>8 DEF WindowsInv
<1>7. CASE CreateOccurrence(s)
  <2>0. PICK v \in 1 .. MaxClock : v = seen[s].next
    BY <1>7 DEF CreateOccurrence, SweepsHold
  <2>1. /\ pc[s] = "create" /\ fired' = [fired EXCEPT ![v] = @ + 1]
        /\ Leaves(s) /\ UNCHANGED nextRunAt
    BY <1>7, <2>0 DEF CreateOccurrence
  <2>2. Claims(s, v)
    BY <2>0, <2>1 DEF Claims
  <2>3. v \in Closed => fired[v] = 0
    <3>1. fired[v] \in Nat
      OBVIOUS
    <3>2. v \in Closed => fired[v] <= 1 /\ (fired[v] = 1 => ~Claims(s, v))
      BY DEF WindowsInv
    <3>3. QED BY <2>2, <3>1, <3>2
  <2>4. \A w \in Closed : fired'[w] = IF w = v THEN 1 ELSE fired[w]
    BY <1>2, <2>1, <2>3
  <2>5. \A u \in Sweepers, w \in 1 .. MaxClock :
          Claims(u, w)' <=> Claims(u, w) /\ u # s
    BY <2>1, LeavesClaims
  <2>6. \A w \in Closed : Spent(w)' => Spent(w)
    BY <1>2, <2>2, <2>4, <2>5 DEF Spent
  <2>7. v \in Closed => \A u \in Sweepers : ~Claims(u, v)'
    <3>1. v \in Closed => \A u \in Sweepers : Claims(s, v) /\ Claims(u, v) => s = u
      BY DEF WindowsInv
    <3>2. QED BY <2>2, <2>5, <3>1
  <2>8. SUFFICES ASSUME NEW w \in Closed
                 PROVE  /\ Spent(w)' => w <= clock' /\ (nextRunAt' # 0 => w < nextRunAt')
                        /\ fired'[w] <= 1
                        /\ fired'[w] = 1 => \A u \in Sweepers : ~Claims(u, w)'
                        /\ \A u, x \in Sweepers : Claims(u, w)' /\ Claims(x, w)' => u = x
    BY <1>2 DEF WindowsInv
  <2>9. Spent(w)' => w <= clock' /\ (nextRunAt' # 0 => w < nextRunAt')
    BY <1>1, <2>1, <2>6 DEF WindowsInv
  <2>10. fired'[w] <= 1
    <3>1. fired[w] <= 1 /\ fired'[w] \in {1, fired[w]}
      BY <2>4 DEF WindowsInv
    <3>2. QED BY <3>1
  <2>11. ASSUME fired'[w] = 1, NEW u \in Sweepers, Claims(u, w)' PROVE FALSE
    <3>1. w # v
      BY <2>7, <2>11
    <3>2. fired[w] = 1 /\ Claims(u, w)
      BY <1>2, <2>4, <2>5, <2>11, <3>1
    <3>3. QED BY <3>2 DEF WindowsInv
  <2>12. \A u, x \in Sweepers : Claims(u, w)' /\ Claims(x, w)' => u = x
    BY <1>2, <2>5 DEF WindowsInv
  <2>13. QED BY <2>9, <2>10, <2>11, <2>12
<1>8. QED
  BY <1>4, <1>5, <1>6, <1>7 DEF Sweep

LEMMA NextKeepsOnce == Typed /\ WindowsInv /\ [Next]_vars => WindowsInv'
<1> SUFFICES ASSUME Typed, WindowsInv, [Next]_vars PROVE WindowsInv'
  OBVIOUS
<1> USE DEF Typed, TypeOK
<1>1. CASE \E e \in Editors : Edit(e)
  BY <1>1, EditKeepsOnce
<1>2. CASE \E s \in Sweepers : Sweep(s) \/ SweepFails(s)
  BY <1>2, SweepKeepsOnce
<1>3. CASE Tick
  <2>1. clock' = clock + 1 /\ UNCHANGED <<row, fired, reopened, sweeps, edits>>
    BY <1>3 DEF Tick
  <2>2. QED BY <2>1, NothingSpent DEF row, sweeps, Claims, WindowsInv, Closed
<1>4. CASE RuleBreaks
  BY <1>4 DEF RuleBreaks, ghost, sweeps, WindowsInv, Spent, Claims, Closed
<1>5. CASE Crash
  <2>1. UNCHANGED <<clock, nextRunAt, fired, reopened>>
    BY <1>5 DEF Crash, row, ghost
  <2>2. \A s \in Sweepers, w \in 1 .. MaxClock : ~Claims(s, w)'
    BY <1>5 DEF Crash, Claims
  <2>3. QED BY <2>1, <2>2, NothingSpent DEF WindowsInv, Closed
<1>6. CASE UNCHANGED vars
  BY <1>6 DEF vars, row, ghost, sweeps, WindowsInv, Spent, Claims, Closed
<1>7. QED
  BY <1>1, <1>2, <1>3, <1>4, <1>5, <1>6 DEF Next

LEMMA InitOnce == Init => WindowsInv
<1> SUFFICES ASSUME Init PROVE WindowsInv
  OBVIOUS
<1>1. \A w \in 1 .. MaxClock : ~Spent(w) /\ fired[w] = 0
  BY DEF Init, Spent, Claims
<1>2. \A s \in Sweepers, w \in 1 .. MaxClock : ~Claims(s, w)
  BY DEF Init, Claims
<1>3. QED BY <1>1, <1>2 DEF WindowsInv, Closed

\* No window of a template is published twice, by any number of overlapping
\* sweeps, edits, pauses, resumes and crashes, however long each takes; only
\* those that a request put back by a window it had computed too early, which
\* are none outside that window and the moment of its commit.
THEOREM EveryWindowOnce == Spec => []FiresOnce
<1>1. WindowsInv => FiresOnce
  BY DEF WindowsInv, FiresOnce, Closed
<1>2. QED
  BY InitTyped, InitOnce, NextTyped, NextKeepsOnce, <1>1, PTL DEF Spec

(***************************************************************************)
(* What passed during a pause.  A template waits for such a window only    *)
(* while it is paused, unless a request that had read too early made it    *)
(* due again.                                                              *)
(***************************************************************************)
SleptInv ==
  \A w \in slept \ reopened :
    /\ w <= clock
    /\ ~Spent(w)
    /\ nextRunAt = 0 \/ nextRunAt > w \/ (nextRunAt = w /\ paused)

LEMMA EditKeepsSlept ==
  ASSUME Typed, SleptInv, NEW e \in Editors, Edit(e)
  PROVE  SleptInv'
<1> SUFFICES ASSUME NEW w \in slept' \ reopened'
             PROVE  /\ w <= clock'
                    /\ ~Spent(w)'
                    /\ \/ nextRunAt' = 0
                       \/ nextRunAt' > w
                       \/ nextRunAt' = w /\ paused'
  BY DEF SleptInv
<1> USE DEF Typed, TypeOK
<1>1. UNCHANGED <<clock, fired, slept, pc, seen>>
  BY DEF Edit, UpdateRead, UpdateCompute, UpdateRefused, UpdateWrite,
     PauseRead, ResumeRead, SetPausedWrite, EditOnly, ghost
<1>2. /\ reopened \subseteq reopened'
      /\ \/ nextRunAt' = nextRunAt /\ (paused => paused')
         \/ nextRunAt' \in {nextRunAt, form[e].next} /\ Overdue(nextRunAt') \subseteq reopened'
  <2>1. CASE SetPausedWrite(e)
    BY <2>1 DEF SetPausedWrite
  <2>2. CASE UpdateWrite(e)
    BY <2>2 DEF UpdateWrite
  <2>3. CASE ~SetPausedWrite(e) /\ ~UpdateWrite(e)
    BY <2>3 DEF Edit, UpdateRead, UpdateCompute, UpdateRefused, PauseRead,
       ResumeRead, row
  <2>4. QED BY <2>1, <2>2, <2>3
<1>3. w \in slept \ reopened /\ w \in 1 .. MaxClock /\ w <= clock
  BY <1>1, <1>2 DEF SleptInv
<1>4. ~Spent(w)'
  BY <1>1, <1>3 DEF SleptInv, Spent, Claims
<1>5. CASE nextRunAt' = nextRunAt /\ (paused => paused')
  BY <1>1, <1>3, <1>4, <1>5 DEF SleptInv
<1>6. CASE nextRunAt' \in {nextRunAt, form[e].next} /\ Overdue(nextRunAt') \subseteq reopened'
  <2>1. nextRunAt' \in Nat /\ w \notin Overdue(nextRunAt')
    BY <1>6 DEF Forms
  <2>2. nextRunAt' = 0 \/ w < nextRunAt'
    BY <1>3, <2>1, OverdueHolds
  <2>3. QED BY <1>1, <1>3, <1>4, <2>1, <2>2
<1>7. QED BY <1>2, <1>5, <1>6

LEMMA SweepKeepsSlept ==
  ASSUME Typed, SleptInv, NEW s \in Sweepers, Sweep(s) \/ SweepFails(s)
  PROVE  SleptInv'
<1> SUFFICES ASSUME NEW w \in slept' \ reopened'
             PROVE  /\ w <= clock'
                    /\ ~Spent(w)'
                    /\ \/ nextRunAt' = 0
                       \/ nextRunAt' > w
                       \/ nextRunAt' = w /\ paused'
  BY DEF SleptInv
<1> USE DEF Typed, TypeOK
<1>1. UNCHANGED <<clock, slept, reopened, paused>>
  BY DEF Sweep, FindDue, ComputeNext, Disarm, SkipStale, Claim, ClaimLost,
     ReadFresh, NobodyToReach, CreateOccurrence, SweepFails, SweepOnly
<1>2. w \in slept \ reopened /\ w \in 1 .. MaxClock /\ w <= clock /\ ~Spent(w)
  BY <1>1 DEF SleptInv
<1>3. nextRunAt = 0 \/ nextRunAt > w \/ (nextRunAt = w /\ paused)
  BY <1>2 DEF SleptInv
<1>4. CASE FindDue(s) \/ ComputeNext(s) \/ ReadFresh(s)
  <2>1. UNCHANGED <<nextRunAt, fired>> /\ ~Spent(w)'
    BY <1>2, <1>4 DEF FindDue, ComputeNext, ReadFresh, Sweeps, Spent, Claims
  <2>2. QED BY <1>1, <1>2, <1>3, <2>1
<1>5. CASE Disarm(s) \/ SkipStale(s) \/ ClaimLost(s) \/ NobodyToReach(s)
             \/ SweepFails(s)
  <2>1. Leaves(s) /\ fired' = fired
    BY <1>5 DEF Disarm, SkipStale, ClaimLost, NobodyToReach, SweepFails
  <2>2. ~Spent(w)'
    BY <1>2, <2>1, LeavesClaims DEF Spent
  <2>3. nextRunAt' = nextRunAt \/ nextRunAt' = 0
          \/ (nextRunAt = seen[s].next /\ nextRunAt' = at[s].next
               /\ pc[s] = "skip" /\ ~paused)
    BY <1>5 DEF Disarm, SkipStale, ClaimLost, NobodyToReach, SweepFails, StillDue
  <2>4. pc[s] = "skip" => seen[s].next \in 1 .. clock /\ at[s].next > seen[s].next
    BY DEF SweepsHold
  <2>5. at[s].next \in Nat
    OBVIOUS
  <2>6. QED BY <1>1, <1>2, <1>3, <2>2, <2>3, <2>4, <2>5
<1>6. CASE Claim(s)
  <2>1. /\ nextRunAt = seen[s].next /\ nextRunAt' = at[s].next /\ ~paused
        /\ pc[s] = "claim" /\ pc' = [pc EXCEPT ![s] = "read"]
        /\ UNCHANGED <<seen, fired>>
    BY <1>6 DEF Claim, StillDue, Sweeps
  <2>2. seen[s].next \in 1 .. clock /\ at[s].next > seen[s].next /\ at[s].next \in Nat
    BY <2>1 DEF SweepsHold
  <2>3. nextRunAt > w
    BY <1>3, <2>1, <2>2
  <2>4. ~Spent(w)'
    BY <1>2, <2>1, <2>3 DEF Spent, Claims
  <2>5. QED BY <1>1, <1>2, <2>1, <2>2, <2>3, <2>4
<1>7. CASE CreateOccurrence(s)
  <2>1. /\ fired' = [fired EXCEPT ![seen[s].next] = @ + 1] /\ Claims(s, seen[s].next)
        /\ Leaves(s) /\ UNCHANGED nextRunAt
    BY <1>7 DEF CreateOccurrence, Claims
  <2>2. seen[s].next # w
    BY <1>2, <2>1 DEF Spent
  <2>3. ~Spent(w)'
    BY <1>2, <2>1, <2>2, LeavesClaims DEF Spent
  <2>4. QED BY <1>1, <1>2, <1>3, <2>1, <2>3
<1>8. QED
  BY <1>4, <1>5, <1>6, <1>7 DEF Sweep

LEMMA NextKeepsSlept == Typed /\ WindowsInv /\ SleptInv /\ [Next]_vars => SleptInv'
<1> SUFFICES ASSUME Typed, WindowsInv, SleptInv, [Next]_vars PROVE SleptInv'
  OBVIOUS
<1> USE DEF Typed, TypeOK
<1>1. CASE \E e \in Editors : Edit(e)
  BY <1>1, EditKeepsSlept
<1>2. CASE \E s \in Sweepers : Sweep(s) \/ SweepFails(s)
  BY <1>2, SweepKeepsSlept
<1>3. CASE Tick
  <2>1. /\ clock' = clock + 1 /\ clock + 1 \in 1 .. MaxClock
        /\ slept' = IF paused /\ nextRunAt = clock + 1
                    THEN slept \cup {clock + 1} ELSE slept
        /\ UNCHANGED <<row, fired, reopened, sweeps, edits>>
    BY <1>3 DEF Tick
  <2>2. \A w \in 1 .. MaxClock : Spent(w)' <=> Spent(w)
    BY <2>1 DEF Spent, Claims, sweeps
  <2>3. \A w \in slept \ reopened : w <= clock /\ w \in 1 .. MaxClock
    BY DEF SleptInv
  <2>4. clock + 1 \notin reopened => ~Spent(clock + 1)
    BY <2>1 DEF WindowsInv, Closed
  <2>5. ASSUME NEW w \in slept' \ reopened'
        PROVE  /\ w <= clock'
               /\ ~Spent(w)'
               /\ nextRunAt' = 0 \/ nextRunAt' > w \/ (nextRunAt' = w /\ paused')
    <3>1. CASE w \in slept
      BY <2>1, <2>2, <2>3, <2>5, <3>1 DEF SleptInv, row
    <3>2. CASE w \notin slept
      <4>1. w = clock + 1 /\ paused /\ nextRunAt = w /\ w \notin reopened
        BY <2>1, <2>5, <3>2
      <4>2. ~Spent(w)'
        BY <2>1, <2>2, <2>4, <4>1
      <4>3. QED BY <2>1, <4>1, <4>2 DEF row
    <3>3. QED BY <3>1, <3>2
  <2>6. QED BY <2>5 DEF SleptInv
<1>4. CASE RuleBreaks
  BY <1>4 DEF RuleBreaks, ghost, sweeps, SleptInv, Spent, Claims
<1>5. CASE Crash
  <2>1. UNCHANGED <<clock, nextRunAt, paused, fired, slept, reopened>>
    BY <1>5 DEF Crash, row, ghost
  <2>2. \A s \in Sweepers, w \in 1 .. MaxClock : ~Claims(s, w)'
    BY <1>5 DEF Crash, Claims
  <2>3. QED BY <2>1, <2>2 DEF SleptInv, Spent
<1>6. CASE UNCHANGED vars
  BY <1>6 DEF vars, row, ghost, sweeps, SleptInv, Spent, Claims
<1>7. QED
  BY <1>1, <1>2, <1>3, <1>4, <1>5, <1>6 DEF Next

\* A window that passed while the template was paused is not published, not even
\* by a sweep that read the template before the pause, however long requests
\* take; only one that a request which had read too early made due again may be.
THEOREM PausedStaysUnsent == Spec => []SleptIsNotFired
<1>1. Init => SleptInv
  BY DEF Init, SleptInv
<1>2. Typed /\ SleptInv => SleptIsNotFired
  BY DEF Typed, TypeOK, SleptInv, SleptIsNotFired, Spent
<1>3. QED
  BY InitTyped, InitOnce, NextTyped, NextKeepsOnce, NextKeepsSlept, <1>1, <1>2, PTL
     DEF Spec

(***************************************************************************)
(* One version of the template.                                            *)
(***************************************************************************)
CurrentInv ==
  \A s \in Sweepers :
    /\ pc[s] \in {"read", "create"} => content \in since[s]
    /\ post[s] \subseteq since[s]
    /\ pc[s] # "create" => post[s] = {}

LEMMA NextKeepsCurrent == Typed /\ CurrentInv /\ [Next]_vars => CurrentInv'
<1> SUFFICES ASSUME Typed, CurrentInv, [Next]_vars PROVE CurrentInv'
  OBVIOUS
<1> USE DEF Typed, TypeOK, CurrentInv
<1>1. ASSUME NEW e \in Editors, Edit(e) PROVE CurrentInv'
  <2>1. CASE UpdateWrite(e)
    <3>1. since' = [s \in Sweepers |-> IF pc[s] \in {"read", "create"}
                                       THEN since[s] \cup {content'} ELSE {}]
          /\ UNCHANGED <<pc, post>>
      BY <2>1 DEF UpdateWrite, EditOnly
    <3>2. QED BY <3>1
  <2>2. CASE ~UpdateWrite(e)
    BY <1>1, <2>2 DEF Edit, UpdateRead, UpdateCompute, UpdateRefused,
       PauseRead, ResumeRead, SetPausedWrite, EditOnly, row
  <2>3. QED BY <2>1, <2>2
<1>2. ASSUME NEW s \in Sweepers, Sweep(s) \/ SweepFails(s) PROVE CurrentInv'
  <2>1. content' = content
    BY <1>2 DEF Sweep, FindDue, ComputeNext, Disarm, SkipStale, Claim,
       ClaimLost, ReadFresh, NobodyToReach, CreateOccurrence, SweepFails,
       SweepOnly
  <2>2. CASE Leaves(s)
    BY <2>1, <2>2 DEF Leaves
  <2>3. CASE FindDue(s) \/ ComputeNext(s)
    <3>1. /\ UNCHANGED <<since, post>> /\ pc[s] \in {"idle", "compute"}
          /\ pc'[s] \in {"compute", "disarm", "skip", "claim"}
          /\ \A u \in Sweepers \ {s} : pc'[u] = pc[u]
      BY <2>3 DEF FindDue, ComputeNext, Sweeps
    <3>2. QED BY <2>1, <3>1
  <2>4. CASE Claim(s)
    BY <2>1, <2>4 DEF Claim, Sweeps
  <2>5. CASE ReadFresh(s)
    BY <2>1, <2>5 DEF ReadFresh, Sweeps
  <2>6. QED
    BY <1>2, <2>2, <2>3, <2>4, <2>5 DEF Sweep, Disarm, SkipStale, ClaimLost,
       NobodyToReach, CreateOccurrence, SweepFails
<1>3. CASE Tick \/ RuleBreaks \/ UNCHANGED vars
  BY <1>3 DEF Tick, RuleBreaks, vars, row, sweeps
<1>4. CASE Crash
  BY <1>4 DEF Crash, row
<1>5. QED
  BY <1>1, <1>2, <1>3, <1>4 DEF Next

\* An occurrence is one version of the template, that of its claim or later.
THEOREM OccurrencesAreCurrent == Spec => []OccurrenceIsCurrent
<1>1. Init => CurrentInv
  BY DEF Init, CurrentInv
<1>2. CurrentInv => OccurrenceIsCurrent
  BY DEF CurrentInv, OccurrenceIsCurrent
<1>3. QED
  BY InitTyped, NextTyped, NextKeepsCurrent, <1>1, <1>2, PTL DEF Spec

-----------------------------------------------------------------------------
(***************************************************************************)
(* The second part is about Schedules: when a recurring post goes out and  *)
(* the moment a draft is planned for, for every calendar, every rule and   *)
(* form, any number of editors and saves, and every offset of the clock.   *)
(* Lemmas state what they need of the constants; the theorems rest on      *)
(* SchedulesAssumption.  The module names the instance of Schedules.       *)
(***************************************************************************)
LEMMA Constants ==
  ASSUME S!ScheduleAssumption
  PROVE  /\ Week \in Nat \ {0} /\ Hours \in Nat \ {0} /\ MaxSaves \in Nat
         /\ Calendar \in Seq(Nat \X Nat) /\ Len(Calendar) \in Nat \ {0}
         /\ MaxMonthday \in Nat
BY DEF S!ScheduleAssumption

\* Moments are numbers from 1, and the one after the calendar's end is later.
LEMMA MomentsAreNumbers ==
  ASSUME S!ScheduleAssumption
  PROVE  /\ S!Moments \subseteq Nat \ {0} /\ 1 \in S!Moments
         /\ S!Beyond \in Nat \ {0} /\ S!Beyond \notin S!Moments
         /\ \A t \in S!Moments : t < S!Beyond
         /\ \A t \in S!Moments : \A n \in 1 .. t : n \in S!Moments
<1>. DEFINE N == Len(Calendar) * Hours
<1>1. N \in Nat \ {0}
  BY Constants
<1>2. S!Moments = 1 .. N /\ S!Beyond = N + 1
  BY DEF S!Moments, S!Beyond
<1>. HIDE DEF N
<1>. QED
  BY <1>1, <1>2

\* The next run of a rule: none of its times lies between.
Fits(r, n, from) ==
  /\ n \in S!Times(r) \cup {S!Beyond}
  /\ \A t \in S!Times(r) : t > from => n <= t

LEMMA NextIsFirst ==
  ASSUME S!ScheduleAssumption, NEW r, NEW from \in Nat
  PROVE  /\ Fits(r, S!NextAfter(r, from), from)
         /\ S!NextAfter(r, from) = S!Beyond \/ S!NextAfter(r, from) > from
         /\ S!NextAfter(r, from) \in S!Moments \cup {S!Beyond}
<1>. DEFINE later == {t \in S!Times(r) : t > from}
<1>1. S!Times(r) \subseteq S!Moments /\ S!Moments \subseteq Nat
  BY MomentsAreNumbers DEF S!Times
<1>2. CASE later = {}
  BY <1>1, <1>2, MomentsAreNumbers DEF S!NextAfter, Fits
<1>3. CASE later # {}
  <2>1. later \in SUBSET Nat
    BY <1>1
  <2>. HIDE DEF later
  <2>2. PICK i \in later : \A j \in later : ~ (<<j, i>> \in OpToRel(<, Nat))
    BY <1>3, <2>1, NatLessThanWellFounded, WFMin
  <2>3. ASSUME NEW j \in later, j < i PROVE FALSE
    <3>1. <<j, i>> \in Nat \X Nat /\ <<j, i>>[1] < <<j, i>>[2]
      BY <2>1, <2>3
    <3>2. <<j, i>> \in {ss \in Nat \X Nat : ss[1] < ss[2]}
      BY <3>1
    <3>. QED
      BY <2>2, <3>2 DEF OpToRel
  <2>4. \A j \in later : i <= j
    BY <2>1, <2>3
  <2>. USE DEF later
  <2>5. S!NextAfter(r, from) = CHOOSE t \in later : \A o \in later : t <= o
    BY <1>3 DEF S!NextAfter
  <2>6. /\ S!NextAfter(r, from) \in later
        /\ \A o \in later : S!NextAfter(r, from) <= o
    BY <2>4, <2>5
  <2>. HIDE DEF S!NextAfter
  <2>. QED
    BY <1>1, <2>6 DEF Fits
<1>. QED
  BY <1>2, <1>3

\* As time goes by, a run that fits goes on to.
LEMMA FitsLater ==
  ASSUME S!ScheduleAssumption, NEW r, NEW n, NEW from \in Nat, NEW till \in Nat, from <= till,
         Fits(r, n, from)
  PROVE  Fits(r, n, till)
<1>1. S!Times(r) \subseteq Nat
  BY MomentsAreNumbers DEF S!Times
<1>. QED
  BY <1>1 DEF Fits

-----------------------------------------------------------------------------
(***************************************************************************)
(* Forms and rules.                                                        *)
(***************************************************************************)
LEMMA Spelling ==
  /\ \A n \in Nat : /\ S!IsField(S!Num(n)) /\ S!Num(n).values = {n} /\ S!Num(n).shape = "number"
                    /\ S!IsField(S!Padded(n)) /\ S!Padded(n).values = {n} /\ S!IsNumber(S!Padded(n))
  /\ S!IsField(S!Star) /\ S!Star.shape = "star" /\ ~S!IsNumber(S!Star)
BY DEF S!IsField, S!Num, S!Padded, S!Star, S!Field, S!Fields, S!IsNumber

LEMMA NumbersHaveValues ==
  ASSUME NEW field, S!IsField(field), S!IsNumber(field)
  PROVE  /\ S!ValueOf(field) \in Nat /\ field.values = {S!ValueOf(field)}
         /\ S!IsField(S!Pad(field)) /\ S!IsNumber(S!Pad(field))
         /\ S!Pad(field).values = field.values
<1>1. PICK n \in field.values : field = S!Field(field.shape, {n})
  BY DEF S!IsField
<1>2. field.values = {n} /\ n \in Nat
  BY <1>1 DEF S!Field, S!IsField, S!Fields
<1>3. S!ValueOf(field) = n
  BY <1>2 DEF S!ValueOf
<1>. QED
  BY <1>2, <1>3, Spelling DEF S!Pad

\* The five fields of a rule of five fields.
LEMMA FiveFields ==
  ASSUME NEW r, S!IsRule(r), Len(r) = 5
  PROVE  /\ S!MinuteOf(r) = r[1] /\ S!HourOf(r) = r[2] /\ S!MonthdayOf(r) = r[3]
         /\ S!MonthOf(r) = r[4] /\ S!WeekdayOf(r) = r[5]
         /\ \A i \in 1 .. 5 : S!IsField(r[i])
BY DEF S!IsRule, S!MinuteOf, S!HourOf, S!MonthdayOf, S!MonthOf, S!WeekdayOf

LEMMA CustomTyped ==
  ASSUME NEW r, S!IsRule(r)
  PROVE  /\ S!IsForm(S!Custom(r)) /\ S!Custom(r).mode = "custom" /\ S!Custom(r).custom = r
BY Spelling DEF S!IsForm, S!Custom, S!Form

LEMMA NoRuleTyped == S!IsRule(S!NoRule)
BY DEF S!IsRule, S!NoRule

\* A rule is shown as daily, weekly, monthly, or as it is.
LEMMA ParseCases ==
  ASSUME S!ScheduleAssumption, NEW r, S!IsRule(r)
  PROVE  \/ S!Parse(r) = S!Custom(r)
         \/ /\ Len(r) = 5 /\ S!MonthOf(r) = S!Star
            /\ S!IsField(S!HourOf(r)) /\ S!IsNumber(S!HourOf(r)) /\ S!ValueOf(S!HourOf(r)) < Hours
            /\ \/ /\ S!MonthdayOf(r) = S!Star /\ S!WeekdayOf(r) = S!Star
                  /\ S!Parse(r) = S!Daily(S!Pad(S!HourOf(r)))
               \/ /\ S!MonthdayOf(r) = S!Star
                  /\ S!IsField(S!WeekdayOf(r)) /\ S!IsNumber(S!WeekdayOf(r))
                  /\ S!Parse(r) = S!Weekly(S!Pad(S!HourOf(r)), S!ValueOf(S!WeekdayOf(r)))
               \/ /\ S!WeekdayOf(r) = S!Star
                  /\ S!IsField(S!MonthdayOf(r)) /\ S!IsNumber(S!MonthdayOf(r))
                  /\ S!ValueOf(S!MonthdayOf(r)) \in 1 .. MaxMonthday
                  /\ S!Parse(r) = S!Monthly(S!Pad(S!HourOf(r)), S!ValueOf(S!MonthdayOf(r)))
<1>. DEFINE plain == /\ Len(r) = 5
                     /\ S!IsNumber(S!MinuteOf(r)) /\ S!IsNumber(S!HourOf(r))
                     /\ S!MonthOf(r) = S!Star
                     /\ S!ValueOf(S!HourOf(r)) < Hours
<1>1. CASE ~plain
  BY <1>1 DEF S!Parse
<1>2. CASE plain
  <2>1. S!IsField(S!HourOf(r)) /\ S!IsField(S!WeekdayOf(r)) /\ S!IsField(S!MonthdayOf(r))
    BY <1>2, FiveFields
  <2>2. ~S!IsNumber(S!Star)
    BY Spelling
  <2>3. CASE S!MonthdayOf(r) = S!Star /\ S!WeekdayOf(r) = S!Star
    BY <1>2, <2>1, <2>2, <2>3 DEF S!Parse
  <2>4. CASE /\ S!MonthdayOf(r) = S!Star /\ S!IsNumber(S!WeekdayOf(r))
             /\ S!ValueOf(S!WeekdayOf(r)) < Week
    BY <1>2, <2>1, <2>2, <2>4 DEF S!Parse
  <2>5. CASE /\ S!WeekdayOf(r) = S!Star /\ S!IsNumber(S!MonthdayOf(r))
             /\ S!ValueOf(S!MonthdayOf(r)) \in 1 .. MaxMonthday
    BY <1>2, <2>1, <2>2, <2>5 DEF S!Parse
  <2>6. CASE ~ \/ S!MonthdayOf(r) = S!Star /\ S!WeekdayOf(r) = S!Star
               \/ /\ S!MonthdayOf(r) = S!Star /\ S!IsNumber(S!WeekdayOf(r))
                  /\ S!ValueOf(S!WeekdayOf(r)) < Week
               \/ /\ S!WeekdayOf(r) = S!Star /\ S!IsNumber(S!MonthdayOf(r))
                  /\ S!ValueOf(S!MonthdayOf(r)) \in 1 .. MaxMonthday
    BY <2>6 DEF S!Parse
  <2>. QED
    BY <2>3, <2>4, <2>5, <2>6
<1>. QED
  BY <1>1, <1>2

\* What no preset says, or what one says, is a form an admin might have filled in.
MonthlyFits(f) ==
  f.mode = "monthly" => f.monthday \in 1 .. MaxMonthday /\ S!ValueOf(f.hour) \in 0 .. Hours - 1

LEMMA PresetsTyped ==
  ASSUME NEW hour, S!IsField(hour), S!IsNumber(hour), NEW n \in Nat
  PROVE  /\ S!IsForm(S!Daily(hour)) /\ S!Daily(hour).mode = "daily" /\ S!Daily(hour).hour = hour
         /\ S!IsForm(S!Weekly(hour, n)) /\ S!Weekly(hour, n).mode = "weekly"
         /\ S!Weekly(hour, n).hour = hour /\ S!Weekly(hour, n).weekday = n
         /\ S!IsForm(S!Monthly(hour, n)) /\ S!Monthly(hour, n).mode = "monthly"
         /\ S!Monthly(hour, n).hour = hour /\ S!Monthly(hour, n).monthday = n
BY NoRuleTyped DEF S!IsForm, S!Daily, S!Weekly, S!Monthly, S!Form

LEMMA ParseTyped ==
  ASSUME S!ScheduleAssumption, NEW r, S!IsRule(r)
  PROVE  S!IsForm(S!Parse(r)) /\ MonthlyFits(S!Parse(r))
<1>1. CASE S!Parse(r) = S!Custom(r)
  BY <1>1, CustomTyped DEF MonthlyFits
<1>2. CASE S!Parse(r) # S!Custom(r)
  <2>. DEFINE h == S!HourOf(r)
  <2>1. S!IsField(h) /\ S!IsNumber(h) /\ S!ValueOf(h) < Hours
    BY <1>2, ParseCases
  <2>2. /\ S!IsField(S!Pad(h)) /\ S!IsNumber(S!Pad(h))
        /\ S!ValueOf(h) \in Nat /\ h.values = {S!ValueOf(h)} /\ S!Pad(h).values = h.values
    BY <2>1, NumbersHaveValues
  <2>3. S!ValueOf(S!Pad(h)) = S!ValueOf(h)
    BY <2>2 DEF S!ValueOf
  <2>4. CASE S!Parse(r) = S!Daily(S!Pad(h))
    BY <2>2, <2>4, PresetsTyped DEF MonthlyFits
  <2>5. CASE S!IsField(S!WeekdayOf(r)) /\ S!IsNumber(S!WeekdayOf(r))
             /\ S!Parse(r) = S!Weekly(S!Pad(h), S!ValueOf(S!WeekdayOf(r)))
    <3>1. S!ValueOf(S!WeekdayOf(r)) \in Nat
      BY <2>5, NumbersHaveValues
    <3>. QED
      BY <2>2, <2>5, <3>1, PresetsTyped DEF MonthlyFits
  <2>6. CASE S!IsField(S!MonthdayOf(r)) /\ S!IsNumber(S!MonthdayOf(r))
             /\ S!ValueOf(S!MonthdayOf(r)) \in 1 .. MaxMonthday
             /\ S!Parse(r) = S!Monthly(S!Pad(h), S!ValueOf(S!MonthdayOf(r)))
    <3>1. S!ValueOf(S!MonthdayOf(r)) \in Nat
      BY <2>6, NumbersHaveValues
    <3>2. /\ S!IsForm(S!Parse(r)) /\ S!Parse(r).hour = S!Pad(h)
          /\ S!Parse(r).monthday = S!ValueOf(S!MonthdayOf(r))
      BY <2>2, <2>6, <3>1, PresetsTyped
    <3>3. S!ValueOf(S!Parse(r).hour) \in 0 .. Hours - 1
      BY <2>1, <2>2, <2>3, <3>2, Constants
    <3>. QED
      BY <2>6, <3>2, <3>3 DEF MonthlyFits
  <2>. QED
    BY <1>2, <2>4, <2>5, <2>6, ParseCases
<1>. QED
  BY <1>1, <1>2

\* The times of a rule of five fields whose day is given by one field at most.
LEMMA TimesOfPlain ==
  ASSUME S!ScheduleAssumption, NEW r, NEW h \in Nat,
         S!HourOf(r).shape # "star", S!HourOf(r).values = {h}, S!MonthOf(r).shape = "star"
  PROVE  /\ S!MonthdayOf(r).shape = "star" /\ S!WeekdayOf(r).shape = "star" =>
                S!Times(r) = {t \in S!Moments : S!HourAt(t) = h}
         /\ \A n : S!MonthdayOf(r).shape = "star" /\ S!WeekdayOf(r).shape # "star"
                   /\ S!WeekdayOf(r).values = {n} =>
              S!Times(r) = {t \in S!Moments : S!HourAt(t) = h /\ S!WeekdayAt(t) = n}
         /\ \A n : S!WeekdayOf(r).shape = "star" /\ S!MonthdayOf(r).shape # "star"
                   /\ S!MonthdayOf(r).values = {n} =>
              S!Times(r) = {t \in S!Moments : S!HourAt(t) = h /\ S!MonthdayAt(t) = n}
<1>1. \A t : S!Matches(S!HourOf(r), S!HourAt(t)) <=> S!HourAt(t) = h
  BY DEF S!Matches
<1>2. \A t : S!Matches(S!MonthOf(r), S!MonthAt(t))
  BY DEF S!Matches
<1>3. \A t : S!Occurs(r, t) <=> S!HourAt(t) = h /\ S!DayMatches(r, t)
  BY <1>1, <1>2 DEF S!Occurs
<1>4. ASSUME S!MonthdayOf(r).shape = "star", S!WeekdayOf(r).shape = "star"
      PROVE  \A t : S!DayMatches(r, t)
  BY <1>4 DEF S!DayMatches, S!Matches
<1>5. ASSUME NEW n, S!MonthdayOf(r).shape = "star", S!WeekdayOf(r).shape # "star",
             S!WeekdayOf(r).values = {n}
      PROVE  \A t : S!DayMatches(r, t) <=> S!WeekdayAt(t) = n
  BY <1>5 DEF S!DayMatches, S!Matches
<1>6. ASSUME NEW n, S!WeekdayOf(r).shape = "star", S!MonthdayOf(r).shape # "star",
             S!MonthdayOf(r).values = {n}
      PROVE  \A t : S!DayMatches(r, t) <=> S!MonthdayAt(t) = n
  BY <1>6 DEF S!DayMatches, S!Matches
<1>7. S!Times(r) = {t \in S!Moments : S!HourAt(t) = h /\ S!DayMatches(r, t)}
  BY <1>3 DEF S!Times
<1>. QED
  BY <1>4, <1>5, <1>6, <1>7

LEMMA SaysCases ==
  ASSUME NEW f, NEW h, f.hour.values = {h}
  PROVE  /\ f.mode = "daily" => S!Says(f) = {t \in S!Moments : S!HourAt(t) = h}
         /\ f.mode = "weekly" =>
              S!Says(f) = {t \in S!Moments : S!HourAt(t) = h /\ S!WeekdayAt(t) = f.weekday}
         /\ f.mode = "monthly" =>
              S!Says(f) = {t \in S!Moments : S!HourAt(t) = h /\ S!MonthdayAt(t) = f.monthday}
BY DEF S!Says

\* What a template is opened in says when it runs.
LEMMA ParseSays ==
  ASSUME S!ScheduleAssumption, NEW r, S!IsRule(r)
  PROVE  S!Says(S!Parse(r)) = S!Times(r)
<1>1. CASE S!Parse(r) = S!Custom(r)
  BY <1>1, CustomTyped DEF S!Says
<1>2. CASE S!Parse(r) # S!Custom(r)
  <2>. DEFINE h == S!HourOf(r)
              v == S!ValueOf(S!HourOf(r))
  <2>1. S!IsField(h) /\ S!IsNumber(h) /\ S!MonthOf(r) = S!Star
    BY <1>2, ParseCases
  <2>2. /\ S!IsField(S!Pad(h)) /\ S!IsNumber(S!Pad(h))
        /\ v \in Nat /\ h.values = {v} /\ S!Pad(h).values = {v}
    BY <2>1, NumbersHaveValues
  <2>3. h.shape # "star" /\ S!Star.shape = "star" /\ S!MonthOf(r).shape = "star"
    BY <2>1, Spelling DEF S!IsNumber
  <2>4. CASE S!MonthdayOf(r) = S!Star /\ S!WeekdayOf(r) = S!Star /\ S!Parse(r) = S!Daily(S!Pad(h))
    <3>1. S!Parse(r).mode = "daily" /\ S!Parse(r).hour.values = {v}
      BY <2>2, <2>4, PresetsTyped
    <3>2. S!Says(S!Parse(r)) = {t \in S!Moments : S!HourAt(t) = v}
      BY <3>1, SaysCases
    <3>3. S!Times(r) = {t \in S!Moments : S!HourAt(t) = v}
      BY <2>2, <2>3, <2>4, TimesOfPlain
    <3>. QED
      BY <3>2, <3>3
  <2>5. CASE /\ S!MonthdayOf(r) = S!Star /\ S!IsField(S!WeekdayOf(r)) /\ S!IsNumber(S!WeekdayOf(r))
             /\ S!Parse(r) = S!Weekly(S!Pad(h), S!ValueOf(S!WeekdayOf(r)))
    <3>. DEFINE n == S!ValueOf(S!WeekdayOf(r))
    <3>1. n \in Nat /\ S!WeekdayOf(r).values = {n} /\ S!WeekdayOf(r).shape # "star"
      BY <2>5, NumbersHaveValues DEF S!IsNumber
    <3>2. S!Parse(r).mode = "weekly" /\ S!Parse(r).hour.values = {v} /\ S!Parse(r).weekday = n
      BY <2>2, <2>5, <3>1, PresetsTyped
    <3>3. S!Says(S!Parse(r)) = {t \in S!Moments : S!HourAt(t) = v /\ S!WeekdayAt(t) = n}
      <4>1. S!Says(S!Parse(r)) =
              {t \in S!Moments : S!HourAt(t) = v /\ S!WeekdayAt(t) = S!Parse(r).weekday}
        BY <3>2, SaysCases
      <4>2. QED BY <3>2, <4>1
    <3>4. S!Times(r) = {t \in S!Moments : S!HourAt(t) = v /\ S!WeekdayAt(t) = n}
      BY <2>2, <2>3, <2>5, <3>1, TimesOfPlain
    <3>. QED
      BY <3>3, <3>4
  <2>6. CASE /\ S!WeekdayOf(r) = S!Star /\ S!IsField(S!MonthdayOf(r)) /\ S!IsNumber(S!MonthdayOf(r))
             /\ S!Parse(r) = S!Monthly(S!Pad(h), S!ValueOf(S!MonthdayOf(r)))
    <3>. DEFINE n == S!ValueOf(S!MonthdayOf(r))
    <3>1. n \in Nat /\ S!MonthdayOf(r).values = {n} /\ S!MonthdayOf(r).shape # "star"
      BY <2>6, NumbersHaveValues DEF S!IsNumber
    <3>2. S!Parse(r).mode = "monthly" /\ S!Parse(r).hour.values = {v} /\ S!Parse(r).monthday = n
      BY <2>2, <2>6, <3>1, PresetsTyped
    <3>3. S!Says(S!Parse(r)) = {t \in S!Moments : S!HourAt(t) = v /\ S!MonthdayAt(t) = n}
      <4>1. S!Says(S!Parse(r)) =
              {t \in S!Moments : S!HourAt(t) = v /\ S!MonthdayAt(t) = S!Parse(r).monthday}
        BY <3>2, SaysCases
      <4>2. QED BY <3>2, <4>1
    <3>4. S!Times(r) = {t \in S!Moments : S!HourAt(t) = v /\ S!MonthdayAt(t) = n}
      BY <2>2, <2>3, <2>6, <3>1, TimesOfPlain
    <3>. QED
      BY <3>3, <3>4
  <2>. QED
    BY <1>2, <2>4, <2>5, <2>6, ParseCases
<1>. QED
  BY <1>1, <1>2

LEMMA RuleOfFields ==
  ASSUME NEW m, S!IsField(m), NEW h, S!IsField(h), NEW d, S!IsField(d), NEW o, S!IsField(o),
         NEW w, S!IsField(w)
  PROVE  S!IsRule(<<m, h, d, o, w>>)
<1>. DEFINE r == <<m, h, d, o, w>>
<1>1. {m, h, d, o, w} \subseteq S!Fields
  BY DEF S!IsField
<1>2. \A i \in 1 .. 5 : r[i] \in {m, h, d, o, w}
  OBVIOUS
<1>3. r \in Seq(S!Fields) /\ Len(r) = 5 /\ DOMAIN r = 1 .. 5
  BY <1>1
<1>4. \A i \in DOMAIN r : S!IsField(r[i])
  BY <1>2, <1>3
<1>. QED
  BY <1>3, <1>4 DEF S!IsRule

\* A rule that was built runs when the form said.
LEMMA BuildSays ==
  ASSUME S!ScheduleAssumption, NEW f, S!IsForm(f), S!Buildable(f)
  PROVE  S!IsRule(S!Build(f)) /\ S!Times(S!Build(f)) = S!Says(f) /\ MonthlyFits(f)
<1>. DEFINE v == S!ValueOf(f.hour)
<1>1. v \in Nat /\ f.hour.values = {v}
  BY NumbersHaveValues DEF S!IsForm
<1>2. MonthlyFits(f)
  BY <1>1, Constants DEF MonthlyFits, S!Buildable
<1>. HIDE DEF v
<1>3. CASE f.mode = "custom"
  <2>1. S!Build(f) = f.custom
    BY <1>3 DEF S!Build
  <2>. QED
    BY <1>2, <1>3, <2>1 DEF S!Says, S!IsForm
<1>4. /\ S!IsField(S!Num(0)) /\ S!IsField(S!Num(v))
      /\ S!Num(v).values = {v} /\ S!Num(v).shape # "star"
      /\ S!IsField(S!Star) /\ S!Star.shape = "star"
  BY <1>1, Spelling
<1>5. CASE f.mode = "daily"
  <2>1. S!Build(f) = <<S!Num(0), S!Num(v), S!Star, S!Star, S!Star>>
    BY <1>5 DEF S!Build, v
  <2>2. /\ S!HourOf(S!Build(f)) = S!Num(v) /\ S!MonthdayOf(S!Build(f)) = S!Star
        /\ S!MonthOf(S!Build(f)) = S!Star /\ S!WeekdayOf(S!Build(f)) = S!Star
    BY <2>1 DEF S!HourOf, S!MonthdayOf, S!MonthOf, S!WeekdayOf
  <2>3. S!IsRule(S!Build(f))
    BY <1>4, <2>1, RuleOfFields
  <2>4. S!Says(f) = {t \in S!Moments : S!HourAt(t) = v}
    BY <1>1, <1>5, SaysCases
  <2>5. S!Times(S!Build(f)) = {t \in S!Moments : S!HourAt(t) = v}
    BY <1>1, <1>4, <2>2, TimesOfPlain
  <2>. QED
    BY <1>2, <2>3, <2>4, <2>5
<1>6. CASE f.mode = "weekly"
  <2>. DEFINE n == f.weekday
  <2>1. S!Build(f) = <<S!Num(0), S!Num(v), S!Star, S!Star, S!Num(n)>>
    BY <1>6 DEF S!Build, v
  <2>2. n \in Nat /\ S!IsField(S!Num(n)) /\ S!Num(n).values = {n} /\ S!Num(n).shape # "star"
    BY Spelling DEF S!IsForm
  <2>3. /\ S!HourOf(S!Build(f)) = S!Num(v) /\ S!MonthdayOf(S!Build(f)) = S!Star
        /\ S!MonthOf(S!Build(f)) = S!Star /\ S!WeekdayOf(S!Build(f)) = S!Num(n)
    BY <2>1 DEF S!HourOf, S!MonthdayOf, S!MonthOf, S!WeekdayOf
  <2>4. S!IsRule(S!Build(f))
    BY <1>4, <2>1, <2>2, RuleOfFields
  <2>5. S!Says(f) = {t \in S!Moments : S!HourAt(t) = v /\ S!WeekdayAt(t) = n}
    BY <1>1, <1>6, SaysCases
  <2>6. S!Times(S!Build(f)) = {t \in S!Moments : S!HourAt(t) = v /\ S!WeekdayAt(t) = n}
    BY <1>1, <1>4, <2>2, <2>3, TimesOfPlain
  <2>. QED
    BY <1>2, <2>4, <2>5, <2>6
<1>7. CASE f.mode = "monthly"
  <2>. DEFINE n == f.monthday
  <2>1. S!Build(f) = <<S!Num(0), S!Num(v), S!Num(n), S!Star, S!Star>>
    BY <1>7 DEF S!Build, v
  <2>2. n \in Nat /\ S!IsField(S!Num(n)) /\ S!Num(n).values = {n} /\ S!Num(n).shape # "star"
    BY Spelling DEF S!IsForm
  <2>3. /\ S!HourOf(S!Build(f)) = S!Num(v) /\ S!WeekdayOf(S!Build(f)) = S!Star
        /\ S!MonthOf(S!Build(f)) = S!Star /\ S!MonthdayOf(S!Build(f)) = S!Num(n)
    BY <2>1 DEF S!HourOf, S!MonthdayOf, S!MonthOf, S!WeekdayOf
  <2>4. S!IsRule(S!Build(f))
    BY <1>4, <2>1, <2>2, RuleOfFields
  <2>5. S!Says(f) = {t \in S!Moments : S!HourAt(t) = v /\ S!MonthdayAt(t) = n}
    BY <1>1, <1>7, SaysCases
  <2>6. S!Times(S!Build(f)) = {t \in S!Moments : S!HourAt(t) = v /\ S!MonthdayAt(t) = n}
    BY <1>1, <1>4, <2>2, <2>3, TimesOfPlain
  <2>. QED
    BY <1>2, <2>4, <2>5, <2>6
<1>. QED
  BY <1>3, <1>5, <1>6, <1>7 DEF S!IsForm

\* Of forms that are the same, one says what the other does.
LEMMA SameSays ==
  ASSUME NEW a, S!IsForm(a), NEW b, S!IsForm(b), S!Same(a, b)
  PROVE  S!Says(a) = S!Says(b) /\ (MonthlyFits(a) => MonthlyFits(b))
<1>1. CASE a.mode = "custom"
  BY <1>1 DEF S!Same, S!Says, MonthlyFits
<1>2. CASE a.mode = "daily"
  BY <1>2 DEF S!Same, S!Says, MonthlyFits
<1>3. CASE a.mode = "weekly"
  BY <1>3 DEF S!Same, S!Says, MonthlyFits
<1>4. CASE a.mode = "monthly"
  BY <1>4 DEF S!Same, S!Says, MonthlyFits
<1>. QED
  BY <1>1, <1>2, <1>3, <1>4 DEF S!IsForm

LEMMA Division ==
  ASSUME NEW b \in Nat \ {0}, NEW q \in Nat, NEW r \in 0 .. b - 1
  PROVE  (b * q + r) \div b = q /\ (b * q + r) % b = r
<1>. DEFINE a == b * q + r
            p == a \div b
            s == a % b
<1>1. a \in Nat
  OBVIOUS
<1>2. p \in Int /\ s \in 0 .. b - 1 /\ a = b * p + s
  BY <1>1
<1>3. a = b * q + r
  OBVIOUS
<1>. HIDE DEF a, p, s
<1>4. b * (p - q) = r - s
  <2>1. b * (p - q) = b * p - b * q
    BY <1>2
  <2>2. b * p \in Int /\ b * q \in Int
    BY <1>2
  <2>. QED
    BY <1>2, <1>3, <2>1, <2>2
<1>5. ASSUME p - q >= 1 PROVE FALSE
  <2>1. b * (p - q) >= b
    BY <1>2, <1>5
  <2>. QED
    BY <1>2, <1>4, <2>1
<1>6. ASSUME p - q <= -1 PROVE FALSE
  <2>1. b * (p - q) <= -b
    BY <1>2, <1>6
  <2>. QED
    BY <1>2, <1>4, <2>1
<1>7. p = q
  BY <1>2, <1>5, <1>6
<1>8. s = r
  BY <1>2, <1>4, <1>7
<1>. QED
  BY <1>7, <1>8 DEF a, p, s

\* Every hour of every day is a moment.
LEMMA DayAndHour ==
  ASSUME S!ScheduleAssumption, NEW d \in DOMAIN Calendar, NEW h \in 0 .. Hours - 1
  PROVE  \E t \in S!Moments : S!DayAt(t) = d /\ S!HourAt(t) = h
<1>. DEFINE past == (d - 1) * Hours
            t == past + h + 1
<1>1. Hours \in Nat \ {0} /\ d \in 1 .. Len(Calendar) /\ Len(Calendar) \in Nat
  BY Constants
<1>2. past \in Nat /\ past + Hours = d * Hours
  BY <1>1
<1>3. d * Hours <= Len(Calendar) * Hours
  BY <1>1
<1>4. t \in S!Moments
  <2>1. d * Hours \in Nat /\ Len(Calendar) * Hours \in Nat
    BY <1>1
  <2>. HIDE DEF past
  <2>2. t \in Nat /\ t >= 1 /\ t <= past + Hours
    BY <1>1, <1>2
  <2>. HIDE DEF t
  <2>. QED
    BY <1>2, <1>3, <2>1, <2>2 DEF S!Moments
<1>5. t - 1 = Hours * (d - 1) + h
  BY <1>1
<1>6. (t - 1) \div Hours = d - 1 /\ (t - 1) % Hours = h
  <2>1. d - 1 \in Nat
    BY <1>1
  <2>2. /\ (Hours * (d - 1) + h) \div Hours = d - 1
        /\ (Hours * (d - 1) + h) % Hours = h
    BY <1>1, <2>1, Division, Zenon
  <2>. HIDE DEF t
  <2>. QED
    BY <1>5, <2>2, Zenon
<1>. QED
  BY <1>1, <1>4, <1>6 DEF S!DayAt, S!HourAt

\* A preset of a day that every month has comes every month.
LEMMA MonthlyComes ==
  ASSUME S!ScheduleAssumption, NEW f, S!IsForm(f), f.mode = "monthly", MonthlyFits(f),
         NEW d \in DOMAIN Calendar
  PROVE  \E t \in S!Says(f) : S!MonthAt(t) = Calendar[d][1]
<1>. DEFINE v == S!ValueOf(f.hour)
            n == f.monthday
<1>1. f.hour.values = {v} /\ v \in 0 .. Hours - 1 /\ n \in 1 .. MaxMonthday
  BY NumbersHaveValues DEF S!IsForm, MonthlyFits
<1>2. PICK o \in DOMAIN Calendar : Calendar[o] = <<Calendar[d][1], n>>
  BY <1>1 DEF S!ScheduleAssumption
<1>3. PICK t \in S!Moments : S!DayAt(t) = o /\ S!HourAt(t) = v
  BY <1>1, DayAndHour
<1>4. S!MonthAt(t) = Calendar[d][1] /\ S!MonthdayAt(t) = n
  BY <1>2, <1>3 DEF S!MonthAt, S!MonthdayAt
<1>5. S!Says(f) = {s \in S!Moments : S!HourAt(s) = v /\ S!MonthdayAt(s) = n}
  BY <1>1, SaysCases
<1>. QED
  BY <1>3, <1>4, <1>5

\* A time the clock shows is read off it as it was typed, whatever the offsets are.
LEMMA ReadsBack ==
  ASSUME NEW z \in [at : Int, before : Int, after : Int], NEW wall \in Int, S!Exists(z, wall)
  PROVE  S!ToLocal(z, S!ToUtc(z, wall)) = wall
BY DEF S!Exists, S!ToLocal, S!ToUtc, S!Offset

LEMMA ClockTyped ==
  ASSUME NEW z \in [at : Int, before : Int, after : Int], NEW n \in Int
  PROVE  S!ToLocal(z, n) \in Int /\ S!ToUtc(z, n) \in Int
BY DEF S!ToLocal, S!ToUtc, S!Offset

-----------------------------------------------------------------------------
(***************************************************************************)
(* What each step does to the editor who takes it.                         *)
(***************************************************************************)
Steps == {"idle", "open"} \cup S!Writing

Shape ==
  /\ op \in [Writers -> Steps]
  /\ DOMAIN page = Writers
  /\ chosen \in [Writers -> [rule : Seq(S!Fields), next : Int]]
  /\ quiet \in [Writers -> BOOLEAN]

\* Nobody else moves.
Alone(e) == \A o \in Writers : o # e =>
  op'[o] = op[o] /\ page'[o] = page[o] /\ chosen'[o] = chosen[o]

Undrafted == UNCHANGED <<kind, now, zone, claim, scheduledAt, typed>>

LEMMA NoChoiceTyped ==
  /\ S!NoChoice \in [rule : Seq(S!Fields), next : Int]
  /\ S!NoChoice.rule = S!NoRule /\ S!NoChoice.next = S!Keep
BY DEF S!NoChoice, S!NoRule, S!Keep

LEMMA MovesTyped ==
  ASSUME Shape, NEW e \in Writers, NEW from, NEW to \in Steps, S!Moves(e, from, to)
  PROVE  /\ op[e] = from /\ op'[e] = to /\ op' \in [Writers -> Steps]
         /\ \A o \in Writers : o # e => op'[o] = op[o]
BY DEF Shape, S!Moves

LEMMA ForgetDoes ==
  ASSUME Shape, NEW e \in Writers, S!Forget(e)
  PROVE  /\ DOMAIN page' = Writers /\ chosen' \in [Writers -> [rule : Seq(S!Fields), next : Int]]
         /\ page'[e] = S!NoForm /\ chosen'[e] = S!NoChoice
         /\ \A o \in Writers : o # e => page'[o] = page[o] /\ chosen'[o] = chosen[o]
BY NoChoiceTyped DEF Shape, S!Forget

LEMMA OpenDoes ==
  ASSUME Shape, NEW e \in Writers, S!Open(e)
  PROVE  /\ Shape' /\ Alone(e) /\ kind = "template"
         /\ op[e] = "idle" /\ op'[e] = "open" /\ page'[e] = S!Parse(cron)
         /\ chosen'[e] = chosen[e]
         /\ \A o \in Writers : o # e => quiet'[o] = quiet[o]
         /\ Undrafted /\ UNCHANGED <<cron, next, meant, crossed>>
<1>1. /\ op[e] = "idle" /\ op'[e] = "open" /\ op' \in [Writers -> Steps]
      /\ \A o \in Writers : o # e => op'[o] = op[o]
  BY MovesTyped DEF S!Open, Steps
<1>2. /\ DOMAIN page' = Writers /\ page'[e] = S!Parse(cron)
      /\ \A o \in Writers : o # e => page'[o] = page[o]
  BY DEF Shape, S!Open
<1>3. quiet' \in [Writers -> BOOLEAN] /\ \A o \in Writers : o # e => quiet'[o] = quiet[o]
  BY Zenon DEF Shape, S!Open
<1>4. kind = "template" /\ Undrafted /\ UNCHANGED <<cron, next, meant, crossed, chosen>>
  BY DEF S!Open, Undrafted, S!template, S!draft
<1>. QED
  BY <1>1, <1>2, <1>3, <1>4 DEF Shape, Alone

LEMMA SubmitDoes ==
  ASSUME Shape, S!IsRule(cron), NEW e \in Writers, NEW f, S!IsForm(f), S!IsRule(S!Chosen(f)),
         S!Submit(e, f)
  PROVE  /\ Shape' /\ Alone(e)
         /\ op[e] = "open" /\ op'[e] = "submitted" /\ page'[e] = f
         /\ chosen'[e].rule = S!Chosen(f) /\ chosen'[e].next = S!Keep
         /\ S!Same(S!Parse(cron), f) \/ S!Buildable(f)
         /\ quiet'[e] => quiet[e] /\ f = page[e]
         /\ \A o \in Writers : o # e => quiet'[o] = quiet[o]
         /\ S!Crosses(e) /\ Undrafted /\ UNCHANGED <<cron, next, meant>>
<1>1. /\ op[e] = "open" /\ op'[e] = "submitted" /\ op' \in [Writers -> Steps]
      /\ \A o \in Writers : o # e => op'[o] = op[o]
  BY MovesTyped DEF S!Submit, Steps, S!Writing
<1>2. /\ DOMAIN page' = Writers /\ page'[e] = f
      /\ \A o \in Writers : o # e => page'[o] = page[o]
  BY DEF Shape, S!Submit
<1>3. /\ quiet' \in [Writers -> BOOLEAN] /\ (quiet'[e] => quiet[e] /\ f = page[e])
      /\ \A o \in Writers : o # e => quiet'[o] = quiet[o]
  BY Zenon DEF Shape, S!Submit
<1>4. /\ Undrafted /\ UNCHANGED <<cron, next, meant>> /\ S!Crosses(e)
      /\ S!Same(S!Parse(cron), f) \/ S!Buildable(f)
  BY DEF S!Submit, Undrafted, S!template, S!draft
<1>5. S!Chosen(f) \in Seq(S!Fields)
  BY DEF S!IsRule
<1>6. DEFINE c == [S!NoChoice EXCEPT !.rule = S!Chosen(f)]
<1>7. c \in [rule : Seq(S!Fields), next : Int] /\ c.rule = S!Chosen(f) /\ c.next = S!Keep
  BY <1>5, NoChoiceTyped
<1>8. chosen' = [chosen EXCEPT ![e] = c]
  BY DEF S!Submit
<1>. HIDE DEF c
<1>9. /\ chosen' \in [Writers -> [rule : Seq(S!Fields), next : Int]] /\ chosen'[e] = c
      /\ \A o \in Writers : o # e => chosen'[o] = chosen[o]
  BY <1>7, <1>8 DEF Shape
<1>. QED
  BY <1>1, <1>2, <1>3, <1>4, <1>7, <1>9 DEF Shape, Alone

LEMMA RefuseDoes ==
  ASSUME Shape, NEW e \in Writers, S!Refuse(e)
  PROVE  /\ Shape' /\ Alone(e)
         /\ op'[e] = "idle" /\ op[e] # "idle" /\ page'[e] = S!NoForm /\ chosen'[e] = S!NoChoice
         /\ \A o \in Writers : o # e => quiet'[o] = quiet[o]
         /\ Undrafted /\ UNCHANGED <<cron, next, meant, crossed>>
<1>1. /\ op[e] # "idle" /\ op'[e] = "idle" /\ op' \in [Writers -> Steps]
      /\ \A o \in Writers : o # e => op'[o] = op[o]
  BY MovesTyped DEF S!Refuse, Steps
<1>2. /\ DOMAIN page' = Writers /\ chosen' \in [Writers -> [rule : Seq(S!Fields), next : Int]]
      /\ page'[e] = S!NoForm /\ chosen'[e] = S!NoChoice
      /\ \A o \in Writers : o # e => page'[o] = page[o] /\ chosen'[o] = chosen[o]
  BY ForgetDoes DEF S!Refuse
<1>3. quiet' \in [Writers -> BOOLEAN] /\ \A o \in Writers : o # e => quiet'[o] = quiet[o]
  BY Zenon DEF Shape, S!Refuse
<1>4. Undrafted /\ UNCHANGED <<cron, next, meant, crossed>>
  BY DEF S!Refuse, Undrafted, S!template, S!draft
<1>. QED
  BY <1>1, <1>2, <1>3, <1>4 DEF Shape, Alone

LEMMA CheckDoes ==
  ASSUME S!ScheduleAssumption, Shape, now \in Nat, NEW e \in Writers, S!Check(e)
  PROVE  /\ Shape' /\ Alone(e)
         /\ op[e] = "submitted" /\ op'[e] = "checked" /\ page'[e] = page[e]
         /\ chosen'[e].rule = chosen[e].rule
         /\ chosen'[e].next = IF S!Rearms(e) THEN S!NextAfter(chosen[e].rule, now) ELSE S!Keep
         /\ S!Rearms(e) => S!Valid(chosen[e].rule)
         /\ quiet' = quiet /\ Undrafted /\ UNCHANGED <<cron, next, meant, crossed>>
<1>1. /\ op[e] = "submitted" /\ op'[e] = "checked" /\ op' \in [Writers -> Steps]
      /\ \A o \in Writers : o # e => op'[o] = op[o]
  BY MovesTyped DEF S!Check, Steps, S!Writing
<1>2. /\ Undrafted /\ UNCHANGED <<cron, next, meant, crossed, page, quiet>>
      /\ S!Rearms(e) => S!Valid(chosen[e].rule)
  BY DEF S!Check, Undrafted, S!template, S!draft
<1>. DEFINE n == IF S!Rearms(e) THEN S!NextAfter(chosen[e].rule, now) ELSE S!Keep
            c == [chosen[e] EXCEPT !.next = n]
<1>3. n \in Int
  BY NextIsFirst, MomentsAreNumbers DEF S!Keep
<1>. HIDE DEF n
<1>4. chosen[e] \in [rule : Seq(S!Fields), next : Int]
  BY DEF Shape
<1>5. c \in [rule : Seq(S!Fields), next : Int] /\ c.rule = chosen[e].rule /\ c.next = n
  BY <1>3, <1>4
<1>6. chosen' = [chosen EXCEPT ![e] = c]
  BY DEF S!Check, n
<1>. HIDE DEF c
<1>7. /\ chosen' \in [Writers -> [rule : Seq(S!Fields), next : Int]] /\ chosen'[e] = c
      /\ \A o \in Writers : o # e => chosen'[o] = chosen[o]
  BY <1>5, <1>6 DEF Shape
<1>8. chosen'[e].rule = chosen[e].rule /\ chosen'[e].next = n
  BY <1>5, <1>7
<1>9. Shape' /\ Alone(e)
  BY <1>1, <1>2, <1>7 DEF Shape, Alone
<1>. QED
  BY <1>1, <1>2, <1>8, <1>9 DEF n

LEMMA WriteDoes ==
  ASSUME Shape, NEW e \in Writers, S!Write(e)
  PROVE  /\ Shape' /\ Alone(e)
         /\ op[e] = "checked" /\ op'[e] = "idle" /\ page'[e] = S!NoForm /\ chosen'[e] = S!NoChoice
         /\ \A o \in Writers : quiet'[o] => quiet[o] /\ cron' = cron
         /\ cron' = chosen[e].rule /\ meant' = page[e]
         /\ Undrafted
<1>1. /\ op[e] = "checked" /\ op'[e] = "idle" /\ op' \in [Writers -> Steps]
      /\ \A o \in Writers : o # e => op'[o] = op[o]
  BY MovesTyped DEF S!Write, Steps
<1>2. /\ DOMAIN page' = Writers /\ chosen' \in [Writers -> [rule : Seq(S!Fields), next : Int]]
      /\ page'[e] = S!NoForm /\ chosen'[e] = S!NoChoice
      /\ \A o \in Writers : o # e => page'[o] = page[o] /\ chosen'[o] = chosen[o]
  BY ForgetDoes DEF S!Write
<1>3. /\ quiet' \in [Writers -> BOOLEAN]
      /\ \A o \in Writers : quiet'[o] => quiet[o] /\ cron' = cron
  BY Zenon DEF Shape, S!Write
<1>4. Undrafted /\ cron' = chosen[e].rule /\ meant' = page[e]
  BY DEF S!Write, Undrafted, S!draft
<1>. QED
  BY <1>1, <1>2, <1>3, <1>4 DEF Shape, Alone

LEMMA ReadToResumeDoes ==
  ASSUME S!ScheduleAssumption, Shape, now \in Nat, NEW e \in Writers, S!ReadToResume(e)
  PROVE  /\ Shape' /\ Alone(e) /\ kind = "template"
         /\ op[e] = "idle" /\ op'[e] = "resuming" /\ page'[e] = page[e]
         /\ chosen'[e].rule = chosen[e].rule
         /\ chosen'[e].next = IF S!Resumes THEN S!NextAfter(cron, now) ELSE S!Keep
         /\ S!Resumes => S!Valid(cron)
         /\ quiet'[e] => ~S!Resumes
         /\ \A o \in Writers : o # e => quiet'[o] = quiet[o]
         /\ S!Crosses(e) /\ Undrafted /\ UNCHANGED <<cron, next, meant>>
<1>1. /\ op[e] = "idle" /\ op'[e] = "resuming" /\ op' \in [Writers -> Steps]
      /\ \A o \in Writers : o # e => op'[o] = op[o]
  BY MovesTyped DEF S!ReadToResume, Steps, S!Writing
<1>2. /\ Undrafted /\ UNCHANGED <<cron, next, meant, page>> /\ S!Crosses(e)
      /\ kind = "template" /\ (S!Resumes => S!Valid(cron))
  BY DEF S!ReadToResume, Undrafted, S!template, S!draft
<1>3. /\ quiet' \in [Writers -> BOOLEAN] /\ \A o \in Writers : o # e => quiet'[o] = quiet[o]
      /\ quiet'[e] => ~S!Resumes
  BY Zenon DEF Shape, S!ReadToResume, S!Resumes
<1>. DEFINE n == IF S!Resumes THEN S!NextAfter(cron, now) ELSE S!Keep
            c == [chosen[e] EXCEPT !.next = n]
<1>4. n \in Int
  BY NextIsFirst, MomentsAreNumbers DEF S!Keep
<1>. HIDE DEF n
<1>5. chosen[e] \in [rule : Seq(S!Fields), next : Int]
  BY DEF Shape
<1>6. c \in [rule : Seq(S!Fields), next : Int] /\ c.rule = chosen[e].rule /\ c.next = n
  BY <1>4, <1>5
<1>7. chosen' = [chosen EXCEPT ![e] = c]
  BY DEF S!ReadToResume, n
<1>. HIDE DEF c
<1>8. /\ chosen' \in [Writers -> [rule : Seq(S!Fields), next : Int]] /\ chosen'[e] = c
      /\ \A o \in Writers : o # e => chosen'[o] = chosen[o]
  BY <1>6, <1>7 DEF Shape
<1>9. chosen'[e].rule = chosen[e].rule /\ chosen'[e].next = n
  BY <1>6, <1>8
<1>10. Shape' /\ Alone(e)
  BY <1>1, <1>2, <1>3, <1>8 DEF Shape, Alone
<1>. QED
  BY <1>1, <1>2, <1>3, <1>9, <1>10 DEF n

LEMMA ResumeDoes ==
  ASSUME Shape, NEW e \in Writers, S!Resume(e)
  PROVE  /\ Shape' /\ Alone(e)
         /\ op[e] = "resuming" /\ op'[e] = "idle" /\ page'[e] = S!NoForm /\ chosen'[e] = S!NoChoice
         /\ \A o \in Writers : quiet'[o] => quiet[o]
         /\ Undrafted /\ UNCHANGED <<cron, meant>>
<1>1. /\ op[e] = "resuming" /\ op'[e] = "idle" /\ op' \in [Writers -> Steps]
      /\ \A o \in Writers : o # e => op'[o] = op[o]
  BY MovesTyped DEF S!Resume, Steps
<1>2. /\ DOMAIN page' = Writers /\ chosen' \in [Writers -> [rule : Seq(S!Fields), next : Int]]
      /\ page'[e] = S!NoForm /\ chosen'[e] = S!NoChoice
      /\ \A o \in Writers : o # e => page'[o] = page[o] /\ chosen'[o] = chosen[o]
  BY ForgetDoes DEF S!Resume
<1>3. quiet' \in [Writers -> BOOLEAN] /\ \A o \in Writers : quiet'[o] => quiet[o]
  BY Zenon DEF Shape, S!Resume
<1>4. Undrafted /\ UNCHANGED <<cron, meant>>
  BY DEF S!Resume, Undrafted, S!draft
<1>. QED
  BY <1>1, <1>2, <1>3, <1>4 DEF Shape, Alone

-----------------------------------------------------------------------------
(***************************************************************************)
(* Types, and rules that come wherever a run was computed.                 *)
(***************************************************************************)
Runnable == S!Moments \cup {S!Beyond}

\* The row: a run is armed by a rule that comes, of a template.
RowTyped ==
  /\ kind \in {"nothing", "template", "draft"}
  /\ S!IsRule(cron)
  /\ next \in {S!Disarmed} \cup Runnable
  /\ now \in S!Moments
  /\ next # S!Disarmed => S!Valid(cron)
  /\ kind # "template" => next = S!Disarmed /\ claim = S!NoClaim
  /\ kind # "template" => \A e \in Writers : op[e] = "idle"

ClaimTyped ==
  claim # S!NoClaim => claim.due \in S!Moments /\ claim.due <= now /\ claim.next \in Runnable

\* What an editor will write is a rule that comes.
EditorTyped(e) ==
  /\ S!IsForm(page[e]) /\ S!IsRule(chosen[e].rule)
  /\ chosen[e].next \in {S!Keep} \cup Runnable
  /\ op[e] = "checked" => S!Valid(chosen[e].rule)
  /\ op[e] = "resuming" /\ chosen[e].next # S!Keep => S!Valid(cron)

ScheduleTyped == Shape /\ RowTyped /\ ClaimTyped /\ \A e \in Writers : EditorTyped(e)

LEMMA RunsAreNumbers ==
  ASSUME S!ScheduleAssumption
  PROVE  /\ Runnable \subseteq Nat \ {0} /\ S!Moments \subseteq Runnable
         /\ S!Disarmed \notin Runnable /\ S!Keep \notin Runnable /\ S!Keep # S!Disarmed
         /\ \A r : \A from \in Nat : S!NextAfter(r, from) \in Runnable
BY MomentsAreNumbers, NextIsFirst DEF Runnable, S!Disarmed, S!Keep

LEMMA NoFormTyped == S!IsForm(S!NoForm) /\ S!NoForm.mode = "custom"
BY NoRuleTyped, CustomTyped DEF S!NoForm

\* An editor who is through, or has not begun.
LEMMA FreshTyped ==
  ASSUME NEW e, page[e] = S!NoForm, chosen[e] = S!NoChoice, op[e] = "idle"
  PROVE  EditorTyped(e)
BY NoFormTyped, NoRuleTyped, NoChoiceTyped DEF EditorTyped

LEMMA ScheduleStartsTyped ==
  ASSUME S!ScheduleAssumption, S!Init
  PROVE  ScheduleTyped
<1>1. Shape
  BY NoChoiceTyped DEF S!Init, Shape, Steps
<1>2. RowTyped
  <2>1. now = 1 /\ 1 \in S!Moments /\ claim = S!NoClaim /\ \A e \in Writers : op[e] = "idle"
    BY MomentsAreNumbers DEF S!Init
  <2>2. CASE kind = "nothing"
    BY <2>1, <2>2, NoRuleTyped DEF S!Init, RowTyped
  <2>3. CASE kind = "template"
    <3>1. S!IsRule(cron)
      BY <2>3 DEF S!Init, S!ScheduleAssumption
    <3>2. next = S!Disarmed \/ (S!Valid(cron) /\ next = S!NextAfter(cron, 1))
      BY <2>3 DEF S!Init
    <3>3. next \in {S!Disarmed} \cup Runnable /\ (next # S!Disarmed => S!Valid(cron))
      BY <3>2, RunsAreNumbers
    <3>. QED
      BY <2>1, <2>3, <3>1, <3>3 DEF RowTyped
  <2>. QED
    BY <2>2, <2>3 DEF S!Init
<1>3. ClaimTyped
  BY DEF S!Init, ClaimTyped
<1>4. ASSUME NEW e \in Writers PROVE EditorTyped(e)
  BY FreshTyped DEF S!Init
<1>. QED
  BY <1>1, <1>2, <1>3, <1>4 DEF ScheduleTyped

\* A rule that was kept or built is one, and says what the form says.
LEMMA ChosenSays ==
  ASSUME S!ScheduleAssumption, S!IsRule(cron), NEW f, S!IsForm(f),
         S!Same(S!Parse(cron), f) \/ S!Buildable(f)
  PROVE  S!IsRule(S!Chosen(f)) /\ S!Times(S!Chosen(f)) = S!Says(f) /\ MonthlyFits(f)
<1>1. CASE S!Same(S!Parse(cron), f)
  BY <1>1, ParseTyped, ParseSays, SameSays DEF S!Chosen
<1>2. CASE ~S!Same(S!Parse(cron), f)
  BY <1>2, BuildSays DEF S!Chosen
<1>. QED
  BY <1>1, <1>2

\* The forms that may be submitted.
LEMMA SubmittedTyped ==
  ASSUME S!ScheduleAssumption, ScheduleTyped, NEW e \in Writers, NEW f \in Pages \cup {page[e]}
  PROVE  S!IsForm(f)
BY DEF S!ScheduleAssumption, ScheduleTyped, EditorTyped

\* The row stays, and so does what the others chose.
LEMMA OthersTyped ==
  ASSUME ScheduleTyped, NEW e \in Writers, Shape', Alone(e), Undrafted, UNCHANGED <<cron, next>>,
         kind = "template", EditorTyped(e)'
  PROVE  ScheduleTyped'
<1>1. ASSUME NEW o \in Writers PROVE EditorTyped(o)'
  BY <1>1 DEF ScheduleTyped, EditorTyped, Alone
<1>2. RowTyped'
  BY DEF ScheduleTyped, RowTyped, Undrafted
<1>3. ClaimTyped'
  BY DEF ScheduleTyped, ClaimTyped, Undrafted
<1>. QED
  BY <1>1, <1>2, <1>3 DEF ScheduleTyped

\* Whoever is not idle edits a template.
LEMMA BusyAtTemplate ==
  ASSUME ScheduleTyped, NEW e \in Writers, op[e] # "idle"
  PROVE  kind = "template"
BY DEF ScheduleTyped, RowTyped

\* What a write or a resume makes of the next run.
LEMMA NextIsSet ==
  ASSUME S!ScheduleAssumption, ScheduleTyped, NEW e \in Writers, S!SetsNext(e)
  PROVE  /\ next' \in {S!Disarmed} \cup Runnable
         /\ chosen[e].next = S!Keep => next' = next /\ crossed' = crossed
         /\ chosen[e].next # S!Keep => /\ next' = chosen[e].next /\ next' \in Runnable
                                       /\ ~crossed' => ~crossed /\ next' > now
<1>1. /\ now \in Nat /\ next \in {S!Disarmed} \cup Runnable
      /\ chosen[e].next \in {S!Keep} \cup Runnable
  BY MomentsAreNumbers DEF ScheduleTyped, RowTyped, EditorTyped
<1>2. CASE chosen[e].next = S!Keep
  BY <1>1, <1>2 DEF S!SetsNext
<1>3. CASE chosen[e].next # S!Keep
  <2>1. next' = chosen[e].next /\ next' \in Runnable
    BY <1>1, <1>3 DEF S!SetsNext
  <2>2. crossed' = (crossed \/ chosen[e].next <= now)
    BY <1>3 DEF S!SetsNext
  <2>3. next' \in Nat
    BY <2>1, RunsAreNumbers
  <2>4. ~crossed' => ~crossed /\ ~(chosen[e].next <= now)
    BY <2>2, Zenon
  <2>. QED
    BY <1>1, <1>3, <2>1, <2>3, <2>4
<1>. QED
  BY <1>2, <1>3

LEMMA EditorStepTyped ==
  ASSUME S!ScheduleAssumption, ScheduleTyped, NEW e \in Writers,
         \/ S!Open(e) \/ S!Refuse(e) \/ S!Check(e) \/ S!Write(e) \/ S!ReadToResume(e) \/ S!Resume(e)
         \/ \E f \in Pages \cup {page[e]} : S!Submit(e, f)
  PROVE  ScheduleTyped'
<1>1. Shape /\ S!IsRule(cron) /\ now \in Nat /\ EditorTyped(e)
  BY MomentsAreNumbers DEF ScheduleTyped, RowTyped
<1>2. CASE S!Open(e)
  <2>1. S!IsForm(page'[e]) /\ op'[e] = "open" /\ chosen'[e] = chosen[e]
    BY <1>1, <1>2, OpenDoes, ParseTyped
  <2>2. EditorTyped(e)'
    BY <1>1, <2>1 DEF EditorTyped, Runnable
  <2>. QED
    BY <1>1, <1>2, <2>2, OpenDoes, OthersTyped
<1>3. CASE S!Refuse(e)
  <2>1. EditorTyped(e)'
    BY <1>1, <1>3, RefuseDoes, NoFormTyped, NoRuleTyped, NoChoiceTyped DEF EditorTyped
  <2>. QED
    BY <1>1, <1>3, <2>1, RefuseDoes, BusyAtTemplate, OthersTyped
<1>4. CASE S!Check(e)
  <2>1. chosen'[e].next \in {S!Keep} \cup Runnable
    BY <1>1, <1>4, CheckDoes, RunsAreNumbers
  <2>2. S!Valid(chosen[e].rule)
    BY <1>1, <1>4, CheckDoes DEF S!Rearms, ScheduleTyped, RowTyped
  <2>3. EditorTyped(e)'
    <3>1. /\ op'[e] = "checked" /\ page'[e] = page[e] /\ chosen'[e].rule = chosen[e].rule
      BY <1>1, <1>4, CheckDoes
    <3>. QED
      BY <1>1, <2>1, <2>2, <3>1 DEF EditorTyped, Runnable
  <2>. QED
    BY <1>1, <1>4, <2>3, CheckDoes, BusyAtTemplate, OthersTyped
<1>5. CASE S!Write(e)
  <2>1. /\ Shape' /\ Alone(e) /\ op[e] = "checked"
        /\ op'[e] = "idle" /\ page'[e] = S!NoForm /\ chosen'[e] = S!NoChoice
        /\ cron' = chosen[e].rule /\ Undrafted
    BY <1>1, <1>5, WriteDoes
  <2>2. S!IsRule(cron') /\ S!Valid(cron')
    BY <1>1, <2>1 DEF EditorTyped
  <2>3. next' \in {S!Disarmed} \cup Runnable
    BY <1>5, NextIsSet DEF S!Write
  <2>4. kind = "template"
    BY <2>1, BusyAtTemplate
  <2>5. RowTyped'
    BY <2>1, <2>2, <2>3, <2>4 DEF ScheduleTyped, RowTyped, Undrafted
  <2>6. ClaimTyped'
    BY <2>1 DEF ScheduleTyped, ClaimTyped, Undrafted
  <2>7. EditorTyped(e)'
    BY <2>1, NoFormTyped, NoRuleTyped, NoChoiceTyped DEF EditorTyped
  <2>8. ASSUME NEW o \in Writers, o # e PROVE EditorTyped(o)'
    <3>1. op'[o] = op[o] /\ page'[o] = page[o] /\ chosen'[o] = chosen[o]
      BY <2>1, <2>8 DEF Alone
    <3>. QED
      BY <2>2, <3>1 DEF ScheduleTyped, EditorTyped
  <2>. QED
    BY <2>1, <2>5, <2>6, <2>7, <2>8 DEF ScheduleTyped
<1>6. CASE S!ReadToResume(e)
  <2>1. chosen'[e].next \in {S!Keep} \cup Runnable /\ (chosen'[e].next # S!Keep => S!Valid(cron))
    BY <1>1, <1>6, ReadToResumeDoes, RunsAreNumbers
  <2>2. EditorTyped(e)'
    <3>1. /\ op'[e] = "resuming" /\ page'[e] = page[e] /\ chosen'[e].rule = chosen[e].rule
          /\ cron' = cron
      BY <1>1, <1>6, ReadToResumeDoes
    <3>. QED
      BY <1>1, <2>1, <3>1 DEF EditorTyped, Runnable
  <2>. QED
    BY <1>1, <1>6, <2>2, ReadToResumeDoes, OthersTyped
<1>7. CASE S!Resume(e)
  <2>1. /\ Shape' /\ Alone(e) /\ op[e] = "resuming"
        /\ op'[e] = "idle" /\ page'[e] = S!NoForm /\ chosen'[e] = S!NoChoice
        /\ cron' = cron /\ Undrafted
    BY <1>1, <1>7, ResumeDoes
  <2>2. next' \in {S!Disarmed} \cup Runnable
        /\ (chosen[e].next = S!Keep => next' = next)
    BY <1>7, NextIsSet DEF S!Resume
  <2>3. next' # S!Disarmed => S!Valid(cron)
    BY <1>1, <2>1, <2>2 DEF ScheduleTyped, RowTyped, EditorTyped
  <2>4. kind = "template"
    BY <2>1, BusyAtTemplate
  <2>5. RowTyped'
    BY <2>1, <2>2, <2>3, <2>4 DEF ScheduleTyped, RowTyped, Undrafted
  <2>6. ClaimTyped'
    BY <2>1 DEF ScheduleTyped, ClaimTyped, Undrafted
  <2>7. EditorTyped(e)'
    BY <2>1, NoFormTyped, NoRuleTyped, NoChoiceTyped DEF EditorTyped
  <2>8. ASSUME NEW o \in Writers, o # e PROVE EditorTyped(o)'
    <3>1. op'[o] = op[o] /\ page'[o] = page[o] /\ chosen'[o] = chosen[o]
      BY <2>1, <2>8 DEF Alone
    <3>. QED
      BY <2>1, <3>1 DEF ScheduleTyped, EditorTyped
  <2>. QED
    BY <2>1, <2>5, <2>6, <2>7, <2>8 DEF ScheduleTyped
<1>8. ASSUME NEW f \in Pages \cup {page[e]}, S!Submit(e, f) PROVE ScheduleTyped'
  <2>1. S!IsForm(f)
    BY <1>8, SubmittedTyped
  <2>2. S!IsRule(S!Chosen(f))
    BY <1>1, <1>8, <2>1, ChosenSays DEF S!Submit
  <2>3. /\ Shape' /\ Alone(e) /\ op[e] = "open" /\ op'[e] = "submitted" /\ page'[e] = f
        /\ chosen'[e].rule = S!Chosen(f) /\ chosen'[e].next = S!Keep
        /\ Undrafted /\ UNCHANGED <<cron, next, meant>>
    BY <1>1, <1>8, <2>1, <2>2, SubmitDoes
  <2>4. EditorTyped(e)'
    BY <2>1, <2>2, <2>3 DEF EditorTyped
  <2>. QED
    BY <2>3, <2>4, BusyAtTemplate, OthersTyped
<1>. QED
  BY <1>2, <1>3, <1>4, <1>5, <1>6, <1>7, <1>8

\* No step of the rest of the system moves an editor.
LEMMA RestLeavesEditors ==
  ASSUME \/ \E f \in Pages : S!Create(f)
         \/ S!Pause \/ S!Tick \/ S!ReadDue \/ S!Claim
         \/ \E wall \in Walls \cup {S!NoTime} : S!CreateDraft(wall) \/ S!EditDraft(wall)
         \/ S!SaveDraftAsShown \/ UNCHANGED S!vars
  PROVE  UNCHANGED <<page, op, chosen, quiet, crossed>>
BY DEF S!Create, S!Pause, S!Tick, S!ReadDue, S!Claim, S!CreateDraft, S!EditDraft,
   S!SaveDraftAsShown, S!Plans, S!vars, S!editors

\* The moves of a draft and the steps that do nothing.
LEMMA DraftsLeaveRow ==
  ASSUME \/ \E wall \in Walls \cup {S!NoTime} : S!CreateDraft(wall) \/ S!EditDraft(wall)
         \/ S!SaveDraftAsShown \/ S!Pause \/ UNCHANGED S!vars
  PROVE  /\ UNCHANGED <<cron, next, meant, now, claim>>
         /\ kind' = kind \/ (kind = "nothing" /\ kind' = "draft")
<1>1. ASSUME NEW wall, S!Plans(wall) PROVE UNCHANGED <<cron, next, meant, now, claim>>
  BY <1>1 DEF S!Plans, S!template
<1>2. ASSUME NEW wall, S!CreateDraft(wall) \/ S!EditDraft(wall)
      PROVE  S!Plans(wall) /\ (kind' = kind \/ (kind = "nothing" /\ kind' = "draft"))
  BY <1>2 DEF S!CreateDraft, S!EditDraft
<1>3. ASSUME S!SaveDraftAsShown PROVE kind' = kind /\ \E wall : S!Plans(wall)
  BY <1>3 DEF S!SaveDraftAsShown
<1>4. ASSUME S!Pause \/ UNCHANGED S!vars PROVE UNCHANGED <<kind, cron, next, meant, now, claim>>
  BY <1>4 DEF S!Pause, S!vars, S!template
<1>. QED
  BY <1>1, <1>2, <1>3, <1>4

\* A due run is armed, so it is a moment that has come.
LEMMA DueIsPast ==
  ASSUME S!ScheduleAssumption, ScheduleTyped, S!ReadDue
  PROVE  /\ kind = "template" /\ next \in S!Moments /\ next <= now /\ claim' # S!NoClaim
         /\ claim'.due = next /\ claim'.next = S!NextAfter(cron, now) /\ claim'.next \in Runnable
         /\ UNCHANGED <<kind, now, cron, next, meant>>
<1>1. now \in S!Moments /\ next \in Runnable /\ next <= now /\ kind = "template"
  BY DEF ScheduleTyped, RowTyped, S!ReadDue
<1>2. next \in S!Moments
  BY <1>1, MomentsAreNumbers DEF Runnable
<1>3. /\ claim'.due = next /\ claim'.next = S!NextAfter(cron, now)
      /\ UNCHANGED <<kind, now, cron, next, meant>>
  BY DEF S!ReadDue, S!template
<1>4. claim'.due # S!Disarmed
  BY <1>1, <1>3, RunsAreNumbers
<1>5. claim' # S!NoClaim
  BY <1>4 DEF S!NoClaim
<1>6. claim'.next \in Runnable
  BY <1>1, <1>3, RunsAreNumbers, MomentsAreNumbers
<1>. QED
  BY <1>1, <1>2, <1>3, <1>5, <1>6

\* A claim leaves the next run, or moves on one that was armed.
LEMMA ClaimMovesOn ==
  ASSUME S!ScheduleAssumption, ScheduleTyped, S!Claim
  PROVE  /\ kind = "template" /\ claim # S!NoClaim /\ claim' = S!NoClaim
         /\ next' = next \/ (next = claim.due /\ next # S!Disarmed /\ next' = claim.next
                             /\ next' \in Runnable)
         /\ UNCHANGED <<kind, now, cron, meant>>
<1>1. claim # S!NoClaim /\ claim' = S!NoClaim /\ UNCHANGED <<kind, now, cron, meant>>
  BY DEF S!Claim
<1>2. claim.due \in S!Moments /\ claim.next \in Runnable /\ kind = "template"
  BY <1>1 DEF ScheduleTyped, ClaimTyped, RowTyped
<1>3. claim.due # S!Disarmed
  BY <1>2, RunsAreNumbers
<1>4. next' = next \/ (next = claim.due /\ next' = claim.next)
  BY DEF S!Claim, S!StillDue
<1>. QED
  BY <1>1, <1>2, <1>3, <1>4

LEMMA CreateDoes ==
  ASSUME S!ScheduleAssumption, ScheduleTyped, NEW f \in Pages, S!Create(f)
  PROVE  /\ kind = "nothing" /\ kind' = "template" /\ claim = S!NoClaim /\ claim' = S!NoClaim
         /\ \A e \in Writers : op[e] = "idle"
         /\ S!IsForm(f) /\ S!Buildable(f) /\ meant' = f
         /\ S!IsRule(cron') /\ S!Valid(cron') /\ S!Times(cron') = S!Says(f) /\ MonthlyFits(f)
         /\ now' = now /\ next' = S!NextAfter(cron', now) /\ next' \in Runnable
<1>1. S!IsForm(f) /\ now \in Nat
  BY MomentsAreNumbers DEF S!ScheduleAssumption, ScheduleTyped, RowTyped
<1>2. /\ kind = "nothing" /\ kind' = "template" /\ claim' = claim /\ S!Buildable(f) /\ meant' = f
      /\ cron' = S!Build(f) /\ S!Valid(cron') /\ next' = S!NextAfter(cron', now) /\ now' = now
  BY DEF S!Create
<1>3. claim = S!NoClaim /\ \A e \in Writers : op[e] = "idle"
  BY <1>2 DEF ScheduleTyped, RowTyped
<1>. QED
  BY <1>1, <1>2, <1>3, BuildSays, RunsAreNumbers

LEMMA RestTyped ==
  ASSUME S!ScheduleAssumption, ScheduleTyped,
         \/ \E f \in Pages : S!Create(f)
         \/ S!Pause \/ S!Tick \/ S!ReadDue \/ S!Claim
         \/ \E wall \in Walls \cup {S!NoTime} : S!CreateDraft(wall) \/ S!EditDraft(wall)
         \/ S!SaveDraftAsShown \/ UNCHANGED S!vars
  PROVE  ScheduleTyped'
<1>1. UNCHANGED <<page, op, chosen, quiet>>
  BY RestLeavesEditors
<1>2. Shape'
  BY <1>1 DEF ScheduleTyped, Shape
<1>3. ASSUME NEW f \in Pages, S!Create(f) PROVE ScheduleTyped'
  <2>1. RowTyped' /\ ClaimTyped'
    BY <1>3, CreateDoes DEF ScheduleTyped, RowTyped, ClaimTyped
  <2>2. ASSUME NEW e \in Writers PROVE EditorTyped(e)'
    BY <1>1, <1>3, CreateDoes DEF ScheduleTyped, EditorTyped, Runnable
  <2>. QED
    BY <1>2, <2>1, <2>2 DEF ScheduleTyped
<1>4. CASE cron' = cron
  <2>1. ASSUME NEW e \in Writers PROVE EditorTyped(e)'
    BY <1>1, <1>4 DEF ScheduleTyped, EditorTyped, Runnable
  <2>2. CASE S!Tick
    <3>1. /\ kind' = kind /\ next' = next /\ claim' = claim
          /\ now' = now + 1 /\ now' \in S!Moments /\ now \in Nat
      BY <2>2, MomentsAreNumbers DEF S!Tick, ScheduleTyped, RowTyped, S!template
    <3>2. RowTyped'
      BY <1>1, <1>4, <3>1 DEF ScheduleTyped, RowTyped
    <3>3. ASSUME claim # S!NoClaim PROVE claim.due \in Nat /\ claim.due <= now
      BY <3>3, MomentsAreNumbers DEF ScheduleTyped, ClaimTyped
    <3>4. ClaimTyped'
      BY <3>1, <3>3 DEF ScheduleTyped, ClaimTyped, Runnable
    <3>. QED
      BY <1>2, <2>1, <3>2, <3>4 DEF ScheduleTyped
  <2>3. CASE S!ReadDue
    <3>1. RowTyped'
      BY <1>1, <1>4, <2>3, DueIsPast DEF ScheduleTyped, RowTyped
    <3>2. ClaimTyped'
      BY <2>3, DueIsPast DEF ClaimTyped, Runnable
    <3>. QED
      BY <1>2, <2>1, <3>1, <3>2 DEF ScheduleTyped
  <2>4. CASE S!Claim
    <3>1. RowTyped'
      BY <1>1, <1>4, <2>4, ClaimMovesOn DEF ScheduleTyped, RowTyped
    <3>2. ClaimTyped'
      BY <2>4, ClaimMovesOn DEF ClaimTyped
    <3>. QED
      BY <1>2, <2>1, <3>1, <3>2 DEF ScheduleTyped
  <2>5. CASE \/ \E wall \in Walls \cup {S!NoTime} : S!CreateDraft(wall) \/ S!EditDraft(wall)
             \/ S!SaveDraftAsShown \/ S!Pause \/ UNCHANGED S!vars
    <3>1. /\ UNCHANGED <<cron, next, meant, now, claim>>
          /\ kind' = kind \/ (kind = "nothing" /\ kind' = "draft")
      BY <2>5, DraftsLeaveRow
    <3>2. RowTyped'
      BY <1>1, <3>1 DEF ScheduleTyped, RowTyped
    <3>3. ClaimTyped'
      BY <3>1 DEF ScheduleTyped, ClaimTyped
    <3>. QED
      BY <1>2, <2>1, <3>2, <3>3 DEF ScheduleTyped
  <2>6. CASE \E f \in Pages : S!Create(f)
    BY <1>3, <2>6
  <2>. QED
    BY <2>2, <2>3, <2>4, <2>5, <2>6
<1>5. CASE cron' # cron
  <2>1. \E f \in Pages : S!Create(f)
    BY <1>5, DraftsLeaveRow, ClaimMovesOn, DueIsPast DEF S!Tick, S!template
  <2>. QED
    BY <1>3, <2>1
<1>. QED
  BY <1>4, <1>5

\* Every step is one of an editor, or one of the rest.
LEMMA StepCases ==
  ASSUME [S!Next]_S!vars
  PROVE  \/ \E e \in Writers :
              \/ S!Open(e) \/ S!Refuse(e) \/ S!Check(e) \/ S!Write(e)
              \/ S!ReadToResume(e) \/ S!Resume(e)
              \/ \E f \in Pages \cup {page[e]} : S!Submit(e, f)
         \/ \E f \in Pages : S!Create(f)
         \/ S!Pause \/ S!Tick \/ S!ReadDue \/ S!Claim
         \/ \E wall \in Walls \cup {S!NoTime} : S!CreateDraft(wall) \/ S!EditDraft(wall)
         \/ S!SaveDraftAsShown \/ UNCHANGED S!vars
BY Zenon DEF S!Next

LEMMA TypedStep ==
  ASSUME S!ScheduleAssumption, ScheduleTyped, [S!Next]_S!vars
  PROVE  ScheduleTyped'
BY StepCases, EditorStepTyped, RestTyped, Zenon

-----------------------------------------------------------------------------
(***************************************************************************)
(* The form, the rule and the clock agree.                                 *)
(***************************************************************************)
RowSays == S!IsForm(meant) /\ MonthlyFits(meant) /\ S!Times(cron) = S!Says(meant)

\* What is about to be written says what the form does, however the stored rule
\* changes meanwhile.
FormSays(e) ==
  op[e] \in {"submitted", "checked"} =>
    S!Times(chosen[e].rule) = S!Says(page[e]) /\ MonthlyFits(page[e])

SaysInv == RowSays /\ \A e \in Writers : FormSays(e)

\* The moment a draft is planned for is what the typed time stood for in its zone.
ClockInv ==
  /\ zone \in [at : Int, before : Int, after : Int]
  /\ scheduledAt \in Int /\ typed \in Int
  /\ typed # S!NoTime => scheduledAt = S!ToUtc(zone, typed)

LEMMA SaysInvInit ==
  ASSUME S!ScheduleAssumption, S!Init
  PROVE  SaysInv
<1>1. S!IsRule(cron) /\ meant = S!Custom(cron)
  BY ScheduleStartsTyped DEF S!Init, ScheduleTyped, RowTyped
<1>2. RowSays
  BY <1>1, CustomTyped DEF RowSays, MonthlyFits, S!Says
<1>. QED
  BY <1>2 DEF S!Init, SaysInv, FormSays

LEMMA OthersSay ==
  ASSUME SaysInv, NEW e \in Writers, Alone(e), FormSays(e)', UNCHANGED <<cron, meant>>
  PROVE  SaysInv'
<1>1. ASSUME NEW o \in Writers PROVE FormSays(o)'
  BY <1>1 DEF SaysInv, FormSays, Alone
<1>. QED
  BY <1>1 DEF SaysInv, RowSays

LEMMA SaysInvStep ==
  ASSUME S!ScheduleAssumption, ScheduleTyped, SaysInv, [S!Next]_S!vars
  PROVE  SaysInv'
<1>1. Shape /\ S!IsRule(cron) /\ now \in Nat
  BY MomentsAreNumbers DEF ScheduleTyped, RowTyped
<1>2. ASSUME NEW e \in Writers,
             S!Open(e) \/ S!Refuse(e) \/ S!ReadToResume(e)
      PROVE  SaysInv'
  BY <1>1, <1>2, OpenDoes, RefuseDoes, ReadToResumeDoes, OthersSay DEF FormSays
<1>3. ASSUME NEW e \in Writers, S!Resume(e) PROVE SaysInv'
  BY <1>1, <1>3, ResumeDoes, OthersSay DEF FormSays
<1>4. ASSUME NEW e \in Writers, S!Check(e) PROVE SaysInv'
  <2>1. FormSays(e)'
    <3>1. /\ op[e] = "submitted" /\ page'[e] = page[e] /\ chosen'[e].rule = chosen[e].rule
      BY <1>1, <1>4, CheckDoes
    <3>. QED
      BY <3>1 DEF SaysInv, FormSays, S!Times, S!Says, S!Occurs
  <2>. QED
    BY <1>1, <1>4, <2>1, CheckDoes, OthersSay
<1>5. ASSUME NEW e \in Writers, S!Write(e) PROVE SaysInv'
  <2>1. /\ Alone(e) /\ op[e] = "checked" /\ op'[e] = "idle"
        /\ cron' = chosen[e].rule /\ meant' = page[e]
    BY <1>1, <1>5, WriteDoes
  <2>2. RowSays'
    BY <2>1 DEF SaysInv, FormSays, RowSays, ScheduleTyped, EditorTyped
  <2>3. ASSUME NEW o \in Writers PROVE FormSays(o)'
    BY <2>1, <2>3 DEF SaysInv, FormSays, Alone
  <2>. QED
    BY <2>2, <2>3 DEF SaysInv
<1>6. ASSUME NEW e \in Writers, NEW f \in Pages \cup {page[e]}, S!Submit(e, f) PROVE SaysInv'
  <2>1. S!IsForm(f)
    BY <1>6, SubmittedTyped
  <2>2. S!IsRule(S!Chosen(f)) /\ S!Times(S!Chosen(f)) = S!Says(f) /\ MonthlyFits(f)
    BY <1>1, <1>6, <2>1, ChosenSays DEF S!Submit
  <2>3. /\ Alone(e) /\ page'[e] = f /\ chosen'[e].rule = S!Chosen(f) /\ UNCHANGED <<cron, meant>>
    BY <1>1, <1>6, <2>1, <2>2, SubmitDoes
  <2>4. FormSays(e)'
    BY <2>2, <2>3 DEF FormSays
  <2>. QED
    BY <2>3, <2>4, OthersSay
<1>7. ASSUME NEW f \in Pages, S!Create(f) PROVE SaysInv'
  <2>1. RowSays'
    BY <1>7, CreateDoes DEF RowSays
  <2>2. ASSUME NEW e \in Writers PROVE FormSays(e)'
    BY <1>7, CreateDoes, RestLeavesEditors DEF FormSays
  <2>. QED
    BY <2>1, <2>2 DEF SaysInv
<1>8. ASSUME \/ S!Pause \/ S!Tick \/ S!ReadDue \/ S!Claim
             \/ \E wall \in Walls \cup {S!NoTime} : S!CreateDraft(wall) \/ S!EditDraft(wall)
             \/ S!SaveDraftAsShown \/ UNCHANGED S!vars
      PROVE  SaysInv'
  <2>1. UNCHANGED <<page, op, chosen>>
    BY <1>8, RestLeavesEditors
  <2>2. UNCHANGED <<cron, meant>>
    BY <1>8, DraftsLeaveRow, ClaimMovesOn, DueIsPast DEF S!Tick, S!template
  <2>. QED
    BY <2>1, <2>2 DEF SaysInv, RowSays, FormSays
<1>. QED
  BY <1>2, <1>3, <1>4, <1>5, <1>6, <1>7, <1>8, StepCases, Zenon

LEMMA ClockInvInit ==
  ASSUME S!Init
  PROVE  ClockInv
BY DEF S!Init, ClockInv, S!NoZone, S!NoTime

LEMMA PlansKeepClock ==
  ASSUME zone' \in [at : Int, before : Int, after : Int], NEW wall \in Int, S!Plans(wall)
  PROVE  ClockInv'
<1>1. S!ToUtc(zone', wall) \in Int /\ S!NoTime \in Int
  BY ClockTyped DEF S!NoTime
<1>2. typed' = wall /\ scheduledAt' = IF wall = S!NoTime THEN S!NoTime ELSE S!ToUtc(zone', wall)
  BY DEF S!Plans
<1>. QED
  BY <1>1, <1>2 DEF ClockInv

LEMMA ClockInvStep ==
  ASSUME S!ScheduleAssumption, ScheduleTyped, ClockInv, [S!Next]_S!vars
  PROVE  ClockInv'
<1>1. ASSUME NEW wall \in Walls \cup {S!NoTime}, S!CreateDraft(wall) \/ S!EditDraft(wall)
      PROVE  ClockInv'
  <2>1. wall \in Int
    BY DEF S!ScheduleAssumption, S!NoTime
  <2>2. zone' \in [at : Int, before : Int, after : Int] /\ S!Plans(wall)
    BY <1>1 DEF S!ScheduleAssumption, S!CreateDraft, S!EditDraft, ClockInv
  <2>. QED
    BY <2>1, <2>2, PlansKeepClock
<1>2. CASE S!SaveDraftAsShown
  <2>1. S!ToLocal(zone, scheduledAt) \in Int
    BY ClockTyped DEF ClockInv
  <2>2. zone' \in [at : Int, before : Int, after : Int] /\ S!Plans(S!ToLocal(zone, scheduledAt))
    BY <1>2 DEF S!SaveDraftAsShown, ClockInv
  <2>. QED
    BY <2>1, <2>2, PlansKeepClock
<1>3. ASSUME UNCHANGED <<zone, scheduledAt, typed>> PROVE ClockInv'
  BY <1>3 DEF ClockInv
<1>4. ASSUME NEW e \in Writers,
             \/ S!Open(e) \/ S!Refuse(e) \/ S!Check(e) \/ S!Write(e)
             \/ S!ReadToResume(e) \/ S!Resume(e)
             \/ \E f \in Pages \cup {page[e]} : S!Submit(e, f)
      PROVE  UNCHANGED <<zone, scheduledAt, typed>>
  BY <1>4 DEF S!Open, S!Refuse, S!Check, S!Write, S!ReadToResume, S!Resume, S!Submit, S!draft
<1>5. ASSUME \/ \E f \in Pages : S!Create(f)
             \/ S!Pause \/ S!Tick \/ S!ReadDue \/ S!Claim \/ UNCHANGED S!vars
      PROVE  UNCHANGED <<zone, scheduledAt, typed>>
  BY <1>5 DEF S!Create, S!Pause, S!Tick, S!ReadDue, S!Claim, S!draft, S!vars
<1>. QED
  BY <1>1, <1>2, <1>3, <1>4, <1>5, StepCases, Zenon

LEMMA SavesStep ==
  ASSUME S!ScheduleAssumption, saves \in 0 .. MaxSaves, [S!Next]_S!vars
  PROVE  saves' \in 0 .. MaxSaves
<1>1. MaxSaves \in Nat
  BY Constants
<1>2. ASSUME NEW e \in Writers, S!Open(e) \/ S!ReadToResume(e) PROVE saves' \in 0 .. MaxSaves
  BY <1>1, <1>2 DEF S!Open, S!ReadToResume
<1>3. ASSUME NEW e \in Writers,
             \/ S!Refuse(e) \/ S!Check(e) \/ S!Write(e) \/ S!Resume(e)
             \/ \E f \in Pages \cup {page[e]} : S!Submit(e, f)
      PROVE  saves' = saves
  BY <1>3 DEF S!Refuse, S!Check, S!Write, S!Resume, S!Submit
<1>4. ASSUME \/ \E f \in Pages : S!Create(f)
             \/ S!Pause \/ S!Tick \/ S!ReadDue \/ S!Claim
             \/ \E wall \in Walls \cup {S!NoTime} : S!CreateDraft(wall) \/ S!EditDraft(wall)
             \/ S!SaveDraftAsShown \/ UNCHANGED S!vars
      PROVE  saves' = saves
  BY <1>4 DEF S!Create, S!Pause, S!Tick, S!ReadDue, S!Claim, S!CreateDraft, S!EditDraft,
     S!SaveDraftAsShown, S!Plans, S!vars, S!editors
<1>5. CASE saves' = saves
  BY <1>5
<1>. QED
  BY <1>2, <1>3, <1>4, <1>5, StepCases, Zenon

AgreeInv == ScheduleTyped /\ SaysInv /\ ClockInv /\ saves \in 0 .. MaxSaves

LEMMA AgreeInvInit ==
  ASSUME S!ScheduleAssumption, S!Init
  PROVE  AgreeInv
<1>1. saves \in 0 .. MaxSaves
  BY Constants DEF S!Init
<1>. QED
  BY <1>1, ScheduleStartsTyped, SaysInvInit, ClockInvInit DEF AgreeInv

LEMMA AgreeInvStep ==
  ASSUME S!ScheduleAssumption, AgreeInv, [S!Next]_S!vars
  PROVE  AgreeInv'
BY TypedStep, SaysInvStep, ClockInvStep, SavesStep, Zenon DEF AgreeInv

LEMMA Agreed ==
  ASSUME S!ScheduleAssumption, AgreeInv
  PROVE  S!FormAndRuleAgree
<1>1. S!TypeOK
  <2>1. RowTyped /\ Shape /\ saves \in 0 .. MaxSaves
    BY DEF AgreeInv, ScheduleTyped
  <2>2. next \in {S!Disarmed} \cup S!Moments \cup {S!Beyond}
    BY <2>1 DEF RowTyped, Runnable
  <2>. QED
    BY <2>1, <2>2 DEF S!TypeOK, RowTyped, Shape, Steps, S!Valid
<1>2. S!ShownAsItRuns /\ S!RunsAsSaid
  BY ParseSays DEF AgreeInv, ScheduleTyped, RowTyped, SaysInv, RowSays, S!ShownAsItRuns,
     S!RunsAsSaid
<1>3. S!MonthlyComesMonthly
  BY MonthlyComes DEF AgreeInv, SaysInv, RowSays, S!MonthlyComesMonthly
<1>4. S!ReadsAsTyped
  BY ReadsBack DEF AgreeInv, ClockInv, S!ReadsAsTyped
<1>. QED
  BY <1>1, <1>2, <1>3, <1>4 DEF S!FormAndRuleAgree

\* However saves of one template cross, and however the text of its rule is spelt,
\* the form it is opened in and the form saved last say when it runs, a day every
\* month has comes every month, and a draft reads as it was typed.
THEOREM FormAndRuleAlwaysAgree == SchedulesSpec => []FormAndRuleAgree
<1>1. S!Init => AgreeInv
  BY SchedulesAssumption, AgreeInvInit
<1>2. AgreeInv /\ [S!Next]_S!vars => AgreeInv'
  BY SchedulesAssumption, AgreeInvStep
<1>3. AgreeInv => FormAndRuleAgree
  BY SchedulesAssumption, Agreed DEF FormAndRuleAgree
<1>. QED
  BY <1>1, <1>2, <1>3, PTL DEF SchedulesSpec, S!Spec

-----------------------------------------------------------------------------
(***************************************************************************)
(* The next run.                                                           *)
(***************************************************************************)
Apart == ~crossed =>
  \A e \in Writers : \A o \in Writers : op[e] \in S!Writing /\ op[o] \in S!Writing => e = o

RowFits == ~crossed /\ next # S!Disarmed => Fits(cron, next, now)

\* What a save or a resume will write fits when it is written.
EditorFits(e) == ~crossed =>
  /\ op[e] = "checked" => \/ chosen[e].next = S!Keep /\ chosen[e].rule = cron
                          \/ Fits(chosen[e].rule, chosen[e].next, now)
  /\ op[e] = "resuming" => chosen[e].next = S!Keep \/ Fits(cron, chosen[e].next, now)

\* So does what the sweep computed, if the run it read is still the one.
ClaimFits == ~crossed /\ claim # S!NoClaim /\ next = claim.due => Fits(cron, claim.next, now)

\* Who has not touched the schedule keeps what there is.
QuietKeeps(e) ==
  /\ op[e] = "open" /\ quiet[e] => page[e] = S!Parse(cron)
  /\ op[e] \in {"submitted", "checked"} /\ quiet[e] => chosen[e].rule = cron
  /\ op[e] = "checked" /\ quiet[e] /\ ~crossed => chosen[e].next = S!Keep \/ next = S!Disarmed
  /\ op[e] = "resuming" /\ quiet[e] => chosen[e].next = S!Keep

EditorInv(e) == EditorFits(e) /\ QuietKeeps(e)
NextInv == Apart /\ RowFits /\ ClaimFits /\ \A e \in Writers : EditorInv(e)

LEMMA NextInvInit ==
  ASSUME S!ScheduleAssumption, S!Init
  PROVE  NextInv
<1>1. RowFits
  BY NextIsFirst DEF S!Init, RowFits
<1>. QED
  BY <1>1 DEF S!Init, NextInv, Apart, ClaimFits, EditorInv, EditorFits, QuietKeeps, S!Writing

\* Editors are still apart when one of them begins to write, or it is told.
LEMMA CrossesApart ==
  ASSUME Apart, NEW e \in Writers, S!Crosses(e), \A o \in Writers : o # e => op'[o] = op[o]
  PROVE  Apart' /\ (~crossed' => ~crossed)
<1>1. crossed' = (crossed \/ \E o \in Writers \ {e} : op[o] \in S!Writing)
  BY DEF S!Crosses
<1>2. ~crossed' => ~crossed /\ \A o \in Writers : o # e => op[o] \notin S!Writing
  BY <1>1, Zenon
<1>. QED
  BY <1>2 DEF Apart

\* Nothing of the row changes but perhaps that it was crossed.
LEMMA OthersFit ==
  ASSUME NextInv, NEW e \in Writers, Alone(e), UNCHANGED <<cron, next, now, claim>>,
         \A o \in Writers : o # e => quiet'[o] = quiet[o],
         ~crossed' => ~crossed, Apart', EditorInv(e)'
  PROVE  NextInv'
<1>1. ASSUME NEW o \in Writers, o # e PROVE EditorInv(o)'
  <2>1. /\ op'[o] = op[o] /\ page'[o] = page[o] /\ chosen'[o] = chosen[o] /\ quiet'[o] = quiet[o]
    BY <1>1 DEF Alone
  <2>2. EditorFits(o)'
    BY <2>1 DEF NextInv, EditorInv, EditorFits
  <2>3. QuietKeeps(o)'
    BY <2>1 DEF NextInv, EditorInv, QuietKeeps
  <2>. QED
    BY <2>2, <2>3 DEF EditorInv
<1>2. RowFits' /\ ClaimFits'
  BY DEF NextInv, RowFits, ClaimFits
<1>. QED
  BY <1>1, <1>2 DEF NextInv

\* Who is idle has nothing to keep.
LEMMA IdleFits ==
  ASSUME NEW e, op[e] = "idle"
  PROVE  EditorInv(e)
BY DEF EditorInv, EditorFits, QuietKeeps

\* When an editor writes and no two crossed, the others are not about to.
LEMMA WritesAlone ==
  ASSUME NextInv, NEW e \in Writers, op[e] \in S!Writing, Alone(e), op'[e] = "idle",
         ~crossed' => ~crossed
  PROVE  /\ Apart'
         /\ \A o \in Writers : o # e /\ ~crossed' => op'[o] \notin S!Writing
BY DEF NextInv, Apart, Alone, S!Writing

LEMMA SameIsSame ==
  ASSUME NEW a
  PROVE  S!Same(a, a)
BY DEF S!Same

LEMMA NextInvEditor ==
  ASSUME S!ScheduleAssumption, ScheduleTyped, NextInv, NEW e \in Writers,
         \/ S!Open(e) \/ S!Refuse(e) \/ S!Check(e) \/ S!Write(e) \/ S!ReadToResume(e) \/ S!Resume(e)
         \/ \E f \in Pages \cup {page[e]} : S!Submit(e, f)
  PROVE  NextInv'
<1>1. Shape /\ S!IsRule(cron) /\ now \in Nat /\ EditorTyped(e) /\ EditorInv(e)
  BY MomentsAreNumbers DEF ScheduleTyped, RowTyped, NextInv
<1>2. CASE S!Open(e)
  <2>1. EditorInv(e)'
    BY <1>1, <1>2, OpenDoes DEF EditorInv, EditorFits, QuietKeeps
  <2>2. Apart'
    BY <1>1, <1>2, OpenDoes DEF NextInv, Apart, Alone, S!Writing
  <2>. QED
    BY <1>1, <1>2, <2>1, <2>2, OpenDoes, OthersFit DEF Undrafted
<1>3. CASE S!Refuse(e)
  <2>1. EditorInv(e)'
    BY <1>1, <1>3, RefuseDoes DEF EditorInv, EditorFits, QuietKeeps
  <2>2. Apart'
    BY <1>1, <1>3, RefuseDoes DEF NextInv, Apart, Alone, S!Writing
  <2>. QED
    BY <1>1, <1>3, <2>1, <2>2, RefuseDoes, OthersFit DEF Undrafted
<1>4. CASE S!Check(e)
  <2>1. /\ Alone(e) /\ op[e] = "submitted" /\ op'[e] = "checked"
        /\ chosen'[e].rule = chosen[e].rule
        /\ chosen'[e].next = IF S!Rearms(e) THEN S!NextAfter(chosen[e].rule, now) ELSE S!Keep
        /\ quiet' = quiet /\ UNCHANGED <<cron, next, now, claim, crossed>>
    BY <1>1, <1>4, CheckDoes DEF Undrafted
  <2>2. EditorFits(e)'
    <3>1. CASE S!Rearms(e)
      BY <1>1, <2>1, <3>1, NextIsFirst DEF EditorFits
    <3>2. CASE ~S!Rearms(e)
      BY <2>1, <3>2 DEF EditorFits, S!Rearms
    <3>. QED
      BY <3>1, <3>2
  <2>3. QuietKeeps(e)'
    <3>1. quiet[e] => chosen[e].rule = cron
      BY <1>1, <2>1 DEF EditorInv, QuietKeeps
    <3>2. quiet[e] => chosen'[e].next = S!Keep \/ next = S!Disarmed
      BY <2>1, <3>1 DEF S!Rearms
    <3>. QED
      BY <2>1, <3>1, <3>2 DEF QuietKeeps
  <2>4. Apart'
    BY <2>1 DEF NextInv, Apart, Alone, S!Writing
  <2>. QED
    BY <2>1, <2>2, <2>3, <2>4, OthersFit DEF EditorInv
<1>5. CASE S!ReadToResume(e)
  <2>1. /\ Alone(e) /\ op'[e] = "resuming"
        /\ chosen'[e].next = IF S!Resumes THEN S!NextAfter(cron, now) ELSE S!Keep
        /\ quiet'[e] => ~S!Resumes
        /\ \A o \in Writers : o # e => quiet'[o] = quiet[o]
        /\ S!Crosses(e) /\ UNCHANGED <<cron, next, now, claim>>
    BY <1>1, <1>5, ReadToResumeDoes DEF Undrafted
  <2>2. EditorFits(e)'
    BY <1>1, <2>1, NextIsFirst DEF EditorFits
  <2>3. QuietKeeps(e)'
    BY <2>1 DEF QuietKeeps
  <2>4. Apart' /\ (~crossed' => ~crossed)
    BY <2>1, CrossesApart DEF NextInv, Alone
  <2>. QED
    BY <2>1, <2>2, <2>3, <2>4, OthersFit DEF EditorInv
<1>6. ASSUME NEW f \in Pages \cup {page[e]}, S!Submit(e, f) PROVE NextInv'
  <2>1. S!IsForm(f)
    BY <1>6, SubmittedTyped
  <2>2. S!IsRule(S!Chosen(f))
    BY <1>1, <1>6, <2>1, ChosenSays DEF S!Submit
  <2>3. /\ Alone(e) /\ op[e] = "open" /\ op'[e] = "submitted"
        /\ chosen'[e].rule = S!Chosen(f)
        /\ quiet'[e] => quiet[e] /\ f = page[e]
        /\ \A o \in Writers : o # e => quiet'[o] = quiet[o]
        /\ S!Crosses(e) /\ UNCHANGED <<cron, next, now, claim>>
    BY <1>1, <1>6, <2>1, <2>2, SubmitDoes DEF Undrafted
  <2>4. EditorFits(e)'
    BY <2>3 DEF EditorFits
  <2>5. QuietKeeps(e)'
    <3>1. quiet'[e] => f = S!Parse(cron)
      BY <1>1, <2>3 DEF EditorInv, QuietKeeps
    <3>2. quiet'[e] => S!Chosen(f) = cron
      BY <3>1, SameIsSame DEF S!Chosen
    <3>. QED
      BY <2>3, <3>2 DEF QuietKeeps
  <2>6. Apart' /\ (~crossed' => ~crossed)
    BY <2>3, CrossesApart DEF NextInv, Alone
  <2>. QED
    BY <2>3, <2>4, <2>5, <2>6, OthersFit DEF EditorInv
<1>7. CASE S!Write(e)
  <2>1. /\ Alone(e) /\ op[e] = "checked" /\ op[e] \in S!Writing /\ op'[e] = "idle"
        /\ \A o \in Writers : quiet'[o] => quiet[o] /\ cron' = cron
        /\ cron' = chosen[e].rule /\ UNCHANGED <<now, claim>>
    BY <1>1, <1>7, WriteDoes DEF Undrafted, S!Writing
  <2>2. S!SetsNext(e)
    BY <1>7 DEF S!Write
  <2>3. ~crossed' => ~crossed
    BY <2>2, NextIsSet
  <2>4. /\ Apart' /\ \A o \in Writers : o # e /\ ~crossed' => op'[o] \notin S!Writing
    BY <2>1, <2>3, WritesAlone
  <2>5. ~crossed' => \/ cron' = cron /\ next' = next
                     \/ Fits(cron', next', now) /\ next' > now
    <3>1. CASE chosen[e].next = S!Keep
      <4>1. next' = next
        BY <2>2, <3>1, NextIsSet
      <4>2. S!Keep \notin S!Times(cron') \cup {S!Beyond}
        BY MomentsAreNumbers DEF S!Keep, S!Times
      <4>3. ~Fits(chosen[e].rule, chosen[e].next, now)
        BY <2>1, <3>1, <4>2 DEF Fits
      <4>. QED
        BY <1>1, <2>1, <2>3, <4>1, <4>3 DEF EditorInv, EditorFits
    <3>2. CASE chosen[e].next # S!Keep
      BY <1>1, <2>1, <2>2, <3>2, NextIsSet DEF EditorInv, EditorFits
    <3>. QED
      BY <3>1, <3>2
  <2>6. RowFits'
    BY <2>1, <2>3, <2>5 DEF NextInv, RowFits
  <2>7. ClaimFits'
    <3>1. claim # S!NoClaim => claim.due \in Nat /\ claim.due <= now
      BY MomentsAreNumbers DEF ScheduleTyped, ClaimTyped
    <3>2. next' > now => ~(claim # S!NoClaim /\ next' = claim.due)
      BY <1>1, <3>1
    <3>. QED
      BY <2>1, <2>3, <2>5, <3>2 DEF NextInv, ClaimFits
  <2>8. ASSUME NEW o \in Writers PROVE EditorInv(o)'
    <3>1. CASE o = e
      BY <2>1, <3>1, IdleFits DEF EditorInv, EditorFits, QuietKeeps
    <3>2. CASE o # e
      <4>1. /\ op'[o] = op[o] /\ page'[o] = page[o] /\ chosen'[o] = chosen[o]
            /\ EditorInv(o)
        BY <2>1, <3>2 DEF Alone, NextInv
      <4>2. ~crossed' => op'[o] \notin {"checked", "resuming"}
        BY <2>4, <3>2 DEF S!Writing
      <4>3. EditorFits(o)'
        BY <4>2 DEF EditorFits
      <4>4. quiet'[o] => quiet[o] /\ cron' = cron
        BY <2>1
      <4>5. QuietKeeps(o)'
        BY <4>1, <4>2, <4>4 DEF EditorInv, QuietKeeps
      <4>. QED
        BY <4>3, <4>5 DEF EditorInv
    <3>. QED
      BY <3>1, <3>2
  <2>. QED
    BY <2>4, <2>6, <2>7, <2>8 DEF NextInv
<1>8. CASE S!Resume(e)
  <2>1. /\ Alone(e) /\ op[e] = "resuming" /\ op[e] \in S!Writing /\ op'[e] = "idle"
        /\ \A o \in Writers : quiet'[o] => quiet[o]
        /\ cron' = cron /\ UNCHANGED <<now, claim>>
    BY <1>1, <1>8, ResumeDoes DEF Undrafted, S!Writing
  <2>2. S!SetsNext(e)
    BY <1>8 DEF S!Resume
  <2>3. ~crossed' => ~crossed
    BY <2>2, NextIsSet
  <2>4. /\ Apart' /\ \A o \in Writers : o # e /\ ~crossed' => op'[o] \notin S!Writing
    BY <2>1, <2>3, WritesAlone
  <2>5. ~crossed' => next' = next \/ (Fits(cron, next', now) /\ next' > now)
    <3>1. CASE chosen[e].next = S!Keep
      BY <2>2, <3>1, NextIsSet
    <3>2. CASE chosen[e].next # S!Keep
      BY <1>1, <2>1, <2>2, <3>2, NextIsSet DEF EditorInv, EditorFits
    <3>. QED
      BY <3>1, <3>2
  <2>6. RowFits'
    BY <2>1, <2>3, <2>5 DEF NextInv, RowFits
  <2>7. ClaimFits'
    <3>1. claim # S!NoClaim => claim.due \in Nat /\ claim.due <= now
      BY MomentsAreNumbers DEF ScheduleTyped, ClaimTyped
    <3>2. next' > now => ~(claim # S!NoClaim /\ next' = claim.due)
      BY <1>1, <3>1
    <3>. QED
      BY <2>1, <2>3, <2>5, <3>2 DEF NextInv, ClaimFits
  <2>8. ASSUME NEW o \in Writers PROVE EditorInv(o)'
    <3>1. CASE o = e
      BY <2>1, <3>1, IdleFits DEF EditorInv, EditorFits, QuietKeeps
    <3>2. CASE o # e
      <4>1. /\ op'[o] = op[o] /\ page'[o] = page[o] /\ chosen'[o] = chosen[o]
            /\ EditorInv(o)
        BY <2>1, <3>2 DEF Alone, NextInv
      <4>2. ~crossed' => op'[o] \notin {"checked", "resuming"}
        BY <2>4, <3>2 DEF S!Writing
      <4>3. EditorFits(o)'
        BY <4>2 DEF EditorFits
      <4>4. quiet'[o] => quiet[o]
        BY <2>1
      <4>5. QuietKeeps(o)'
        BY <2>1, <4>1, <4>2, <4>4 DEF EditorInv, QuietKeeps
      <4>. QED
        BY <4>3, <4>5 DEF EditorInv
    <3>. QED
      BY <3>1, <3>2
  <2>. QED
    BY <2>4, <2>6, <2>7, <2>8 DEF NextInv
<1>. QED
  BY <1>2, <1>3, <1>4, <1>5, <1>6, <1>7, <1>8

LEMMA NextInvRest ==
  ASSUME S!ScheduleAssumption, ScheduleTyped, NextInv,
         \/ \E f \in Pages : S!Create(f)
         \/ S!Pause \/ S!Tick \/ S!ReadDue \/ S!Claim
         \/ \E wall \in Walls \cup {S!NoTime} : S!CreateDraft(wall) \/ S!EditDraft(wall)
         \/ S!SaveDraftAsShown \/ UNCHANGED S!vars
  PROVE  NextInv'
<1>1. UNCHANGED <<page, op, chosen, quiet, crossed>>
  BY RestLeavesEditors
<1>2. Apart'
  BY <1>1 DEF NextInv, Apart
<1>3. now \in Nat
  BY MomentsAreNumbers DEF ScheduleTyped, RowTyped
<1>4. ASSUME NEW f \in Pages, S!Create(f) PROVE NextInv'
  <2>1. RowFits' /\ ClaimFits'
    BY <1>3, <1>4, CreateDoes, NextIsFirst DEF RowFits, ClaimFits
  <2>2. ASSUME NEW e \in Writers PROVE EditorInv(e)'
    BY <1>1, <1>4, CreateDoes DEF EditorInv, EditorFits, QuietKeeps
  <2>. QED
    BY <1>2, <2>1, <2>2 DEF NextInv
<1>5. CASE S!Tick
  <2>1. UNCHANGED <<cron, next, claim>> /\ now' \in Nat /\ now <= now'
    BY <1>3, <1>5 DEF S!Tick, S!template
  <2>2. \A r, n : Fits(r, n, now) => Fits(r, n, now')
    BY <1>3, <2>1, FitsLater
  <2>3. RowFits' /\ ClaimFits'
    BY <1>1, <2>1, <2>2 DEF NextInv, RowFits, ClaimFits
  <2>4. ASSUME NEW e \in Writers PROVE EditorInv(e)'
    <3>1. EditorFits(e)'
      BY <1>1, <2>1, <2>2 DEF NextInv, EditorInv, EditorFits
    <3>2. QuietKeeps(e)'
      BY <1>1, <2>1 DEF NextInv, EditorInv, QuietKeeps
    <3>. QED
      BY <3>1, <3>2 DEF EditorInv
  <2>. QED
    BY <1>2, <2>3, <2>4 DEF NextInv
<1>6. CASE S!ReadDue
  <2>1. UNCHANGED <<cron, next, now>> /\ claim'.next = S!NextAfter(cron, now)
    BY <1>6, DueIsPast
  <2>2. RowFits' /\ ClaimFits'
    BY <1>1, <1>3, <2>1, NextIsFirst DEF NextInv, RowFits, ClaimFits
  <2>3. ASSUME NEW e \in Writers PROVE EditorInv(e)'
    BY <1>1, <2>1 DEF NextInv, EditorInv, EditorFits, QuietKeeps
  <2>. QED
    BY <1>2, <2>2, <2>3 DEF NextInv
<1>7. CASE S!Claim
  <2>1. /\ claim # S!NoClaim /\ claim' = S!NoClaim /\ UNCHANGED <<cron, now>>
        /\ next' = next \/ (next = claim.due /\ next # S!Disarmed /\ next' = claim.next)
    BY <1>7, ClaimMovesOn
  <2>2. RowFits' /\ ClaimFits'
    BY <1>1, <2>1 DEF NextInv, RowFits, ClaimFits
  <2>3. ASSUME NEW e \in Writers PROVE EditorInv(e)'
    <3>1. EditorFits(e)'
      BY <1>1, <2>1 DEF NextInv, EditorInv, EditorFits
    <3>2. next = S!Disarmed => next' = S!Disarmed
      BY <2>1
    <3>3. QuietKeeps(e)'
      BY <1>1, <2>1, <3>2 DEF NextInv, EditorInv, QuietKeeps
    <3>. QED
      BY <3>1, <3>3 DEF EditorInv
  <2>. QED
    BY <1>2, <2>2, <2>3 DEF NextInv
<1>8. CASE \/ \E wall \in Walls \cup {S!NoTime} : S!CreateDraft(wall) \/ S!EditDraft(wall)
           \/ S!SaveDraftAsShown \/ S!Pause \/ UNCHANGED S!vars
  <2>1. UNCHANGED <<cron, next, now, claim>>
    BY <1>8, DraftsLeaveRow
  <2>2. RowFits' /\ ClaimFits'
    BY <1>1, <2>1 DEF NextInv, RowFits, ClaimFits
  <2>3. ASSUME NEW e \in Writers PROVE EditorInv(e)'
    BY <1>1, <2>1 DEF NextInv, EditorInv, EditorFits, QuietKeeps
  <2>. QED
    BY <1>2, <2>2, <2>3 DEF NextInv
<1>. QED
  BY <1>4, <1>5, <1>6, <1>7, <1>8

LEMMA NextInvStep ==
  ASSUME S!ScheduleAssumption, ScheduleTyped, NextInv, [S!Next]_S!vars
  PROVE  NextInv'
BY StepCases, NextInvEditor, NextInvRest, Zenon

\* Whatever sweep runs late and however saves, pauses and resumes follow one
\* another, the next run is one of the rule and the first from now on, unless two of
\* these writes overlap or a save is as late as the run it computed.
THEOREM TheNextRunIsNext == SchedulesSpec => []NextIsNext
<1>1. S!Init => ScheduleTyped /\ NextInv
  BY SchedulesAssumption, ScheduleStartsTyped, NextInvInit
<1>2. ScheduleTyped /\ NextInv /\ [S!Next]_S!vars => (ScheduleTyped /\ NextInv)'
  BY SchedulesAssumption, TypedStep, NextInvStep
<1>3. NextInv => NextIsNext
  BY DEF NextInv, RowFits, Fits, NextIsNext, S!NextIsNext, S!Runs
<1>. QED
  BY <1>1, <1>2, <1>3, PTL DEF SchedulesSpec, S!Spec

\* A save that did not touch the schedule, and a resume of what runs, leave the
\* next run where it is, unless two writes overlapped.
THEOREM UntouchedIsKept == SchedulesSpec => QuietKeepsNext
<1>. DEFINE Keeps == \A e \in Writers :
              S!Write(e) \/ S!Resume(e) =>
                  (quiet[e] /\ ~crossed /\ next # S!Disarmed => next' = next)
<1>1. ASSUME ScheduleTyped, NextInv, NEW e \in Writers, S!Write(e) \/ S!Resume(e),
             quiet[e], ~crossed, next # S!Disarmed
      PROVE  next' = next
  <2>1. S!SetsNext(e)
    BY <1>1 DEF S!Write, S!Resume
  <2>2. op[e] \in {"checked", "resuming"}
    BY <1>1 DEF S!Write, S!Resume, S!Moves
  <2>3. chosen[e].next = S!Keep
    BY <1>1, <2>2 DEF NextInv, EditorInv, QuietKeeps
  <2>. QED
    BY SchedulesAssumption, <1>1, <2>1, <2>3, NextIsSet
<1>2. ScheduleTyped /\ NextInv => Keeps
  BY <1>1, Zenon
<1>3. S!Init => ScheduleTyped /\ NextInv
  BY SchedulesAssumption, ScheduleStartsTyped, NextInvInit
<1>4. ScheduleTyped /\ NextInv /\ [S!Next]_S!vars => (ScheduleTyped /\ NextInv)'
  BY SchedulesAssumption, TypedStep, NextInvStep
<1>. QED
  BY <1>2, <1>3, <1>4, PTL DEF SchedulesSpec, S!Spec, QuietKeepsNext, S!QuietKeepsNext

=============================================================================
