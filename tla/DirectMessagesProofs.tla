------------------------ MODULE DirectMessagesProofs ------------------------
(***************************************************************************)
(* Theorems about DirectMessages, for every set of people and of calls,    *)
(* every number of attempts and faults and every pacing: nobody is written *)
(* to unasked, the slots of the limiter keep their distance, and a person  *)
(* gets at most one copy and the row never claims what did not happen.     *)
(***************************************************************************)
EXTENDS DirectMessages, TLAPS

USE PeopleAssumption, AttemptsAssumption, PacingAssumption

(***************************************************************************)
(* The inductive invariant, in three parts that need nothing of each other *)
(* but the types.                                                          *)
(***************************************************************************)
\* A row is only ever made of a consented profile, a profile in the dialog.
Asked == \A p \in People :
  /\ profile[p] # "none" => dialog[p] = "agreed"
  /\ row[p] # "none" => profile[p] # "none"

\* The status of a row bounds the copies there are.
RowTells == \A p \in People :
  /\ copies[p] \in {0, 1}
  /\ row[p] \in {"none", "pending", "failed"} => copies[p] = 0
  /\ row[p] = "sent" => copies[p] = 1

\* A handler knows the row it works on, whatever calls and crashes do meanwhile:
\* nobody but the handler writes the row of a person between asking and the end.
HandKnowsRow == \A p \in People :
  /\ hand[p] \in {"asking", "sleeping"} => row[p] = "pending"
  /\ hand[p] \notin {"idle", "asking", "sleeping"} => row[p] = "sending"
  /\ hand[p] \in {"calling", "retryable", "permanent"} => copies[p] = 0
  /\ hand[p] \in {"delivered", "doubting"} => copies[p] = 1

OnceInv == RowTells /\ HandKnowsRow

\* The key outlives what it guards, and is an interval past every live slot.
KeyGuardsSlots ==
  /\ ahead <= ttl
  /\ \A p \in People : slot[p] > LongAgo => slot[p] + Interval <= ahead

PaceInv == KeyGuardsSlots /\ SlotsApart

(***************************************************************************)
(* Type correctness.                                                       *)
(***************************************************************************)
LEMMA InitTyped == Init => TypeOK
<1> SUFFICES ASSUME Init PROVE TypeOK
  OBVIOUS
<1>1. /\ ahead \in 0..MaxWait + Interval /\ ttl \in 0..Ttl /\ faults \in 0..MaxFaults
      /\ LongAgo \in LongAgo..MaxWait /\ 0 \in 0..MaxAttempts - 1 /\ 0 \in Nat
  BY DEF Init, LongAgo
<1>2. slot \in [People -> LongAgo..MaxWait] /\ tries \in [People -> 0..MaxAttempts - 1]
  BY <1>1 DEF Init
<1>3. QED BY <1>1, <1>2, Zenon DEF Init, TypeOK, Statuses, HandSteps

LEMMA FaultTyped ==
  ASSUME TypeOK, Fault
  PROVE  faults' \in 0..MaxFaults
BY DEF TypeOK, Fault

\* The end of an attempt, one way or the other, keeps the types of the job.
LEMMA AttemptEndsTyped ==
  ASSUME TypeOK, NEW p \in People, Throw(p) \/ JobEnds(p)
  PROVE  /\ job' \in [People -> {"none", "waiting", "active"}]
         /\ tries' \in [People -> 0..MaxAttempts - 1]
         /\ hand' \in [People -> HandSteps]
         /\ hand' = [hand EXCEPT ![p] = "idle"]
<1>1. /\ job \in [People -> {"none", "waiting", "active"}]
      /\ tries \in [People -> 0..MaxAttempts - 1]
      /\ hand \in [People -> HandSteps]
  BY DEF TypeOK
<1>2. 0 \in 0..MaxAttempts - 1 /\ (MayTryAgain(p) => tries[p] + 1 \in 0..MaxAttempts - 1)
  BY <1>1 DEF MayTryAgain
<1>3. job' \in [People -> {"none", "waiting", "active"}]
  BY <1>1 DEF Throw, JobEnds
<1>4. tries' \in [People -> 0..MaxAttempts - 1]
  BY <1>1, <1>2 DEF Throw, JobEnds
<1>5. hand' = [hand EXCEPT ![p] = "idle"]
  BY DEF Throw, JobEnds
<1>6. QED BY <1>1, <1>3, <1>4, <1>5 DEF HandSteps

LEMMA PeopleTyped ==
  ASSUME TypeOK, NEW p \in People, BotStarted(p) \/ ConsentAccepted(p) \/ Join(p)
  PROVE  TypeOK'
BY DEF TypeOK, BotStarted, ConsentAccepted, Join, sending, calls, limiter

LEMMA CallsTyped ==
  ASSUME TypeOK, NEW r \in Runs,
         \/ SendNowSteps(r) \/ \E c \in People \cup {"group", "all"} : SendNow(r, c)
         \/ SendNowFails(r) \/ \E p \in People : EnqueueFails(r, p)
  PROVE  TypeOK'
<1>f. Fault => faults' \in 0..MaxFaults
  BY FaultTyped
<1>1. CASE FindPending(r)
  BY <1>1 DEF TypeOK, FindPending, After, people, sending, limiter
<1>2. ASSUME NEW p \in People, Enqueue(r, p) PROVE TypeOK'
  BY <1>2 DEF TypeOK, Enqueue, After, people, limiter
<1>3. ASSUME NEW c \in People \cup {"group", "all"}, SendNow(r, c) PROVE TypeOK'
  <2>1. row' \in [People -> Statuses] /\ run' = [run EXCEPT ![r] = "created"]
    BY <1>3 DEF TypeOK, SendNow, Statuses
  <2>2. UNCHANGED <<people, job, tries, hand, copies, list, limiter, faults>>
    BY <1>3 DEF SendNow
  <2>3. QED BY <2>1, <2>2 DEF TypeOK, people, limiter
<1>4. CASE SendNowFails(r)
  BY <1>f, <1>4 DEF TypeOK, SendNowFails, people, sending, limiter
<1>5. ASSUME NEW p \in People, EnqueueFails(r, p) PROVE TypeOK'
  BY <1>f, <1>5 DEF TypeOK, EnqueueFails, After, people, sending, limiter
<1>6. QED BY <1>1, <1>2, <1>3, <1>4, <1>5 DEF SendNowSteps

LEMMA WorkerTyped ==
  ASSUME TypeOK, NEW p \in People,
         WorkerSteps(p) \/ ThrowsEarly(p) \/ RecordFails(p) \/ HandleErrorFails(p)
  PROVE  TypeOK'
<1>f. Fault => faults' \in 0..MaxFaults
  BY FaultTyped
<1>e. ASSUME Throw(p) \/ JobEnds(p)
      PROVE  /\ job' \in [People -> {"none", "waiting", "active"}]
             /\ tries' \in [People -> 0..MaxAttempts - 1]
             /\ hand' \in [People -> HandSteps]
  BY <1>e, AttemptEndsTyped
<1>1. CASE Process(p)
  <2>1. /\ job' \in [People -> {"none", "waiting", "active"}]
        /\ tries' \in [People -> 0..MaxAttempts - 1]
        /\ hand' \in [People -> HandSteps]
    BY <1>1, <1>e DEF TypeOK, Process, HandSteps
  <2>2. QED BY <1>1, <2>1 DEF TypeOK, Process, people, calls, limiter
<1>2. CASE Acquire(p)
  <2>1. /\ ahead' \in 0..MaxWait + Interval /\ ttl' \in 0..Ttl
        /\ ahead \in LongAgo..MaxWait
    BY <1>2 DEF TypeOK, Acquire, NextFree, LongAgo
  <2>2. slot' \in [People -> LongAgo..MaxWait] /\ hand' \in [People -> HandSteps]
    BY <1>2, <2>1 DEF TypeOK, Acquire, HandSteps
  <2>3. QED BY <1>2, <2>1, <2>2 DEF TypeOK, Acquire, people, calls
<1>3. CASE PutBack(p)
  BY <1>3 DEF TypeOK, PutBack, HandSteps, people, calls, limiter
<1>4. CASE MarkSending(p)
  BY <1>4 DEF TypeOK, MarkSending, HandSteps, Statuses, people, calls, limiter
<1>5. CASE CallMax(p)
  <2>1. hand' \in [People -> HandSteps] /\ copies' \in [People -> Nat]
    BY <1>5 DEF TypeOK, CallMax, HandSteps
  <2>2. QED BY <1>5, <2>1 DEF TypeOK, CallMax, people, calls, limiter
<1>6. CASE RecordSent(p)
  BY <1>6, <1>e DEF TypeOK, RecordSent, Statuses, people, calls, limiter
<1>7. CASE MarkUnknownAfterSend(p)
  <2>1. row' \in [People -> Statuses] /\ faults' \in 0..MaxFaults
    BY <1>7, <1>f DEF TypeOK, MarkUnknownAfterSend, Statuses
  <2>2. QED BY <1>7, <1>e, <2>1 DEF TypeOK, MarkUnknownAfterSend, people, calls, limiter
<1>8. CASE HandleError(p)
  <2>1. row' \in [People -> Statuses] /\ (Throw(p) \/ JobEnds(p))
    BY <1>8 DEF TypeOK, HandleError, Statuses
  <2>2. QED BY <1>8, <1>e, <2>1 DEF TypeOK, HandleError, people, calls, limiter
<1>9. CASE ThrowsEarly(p) \/ HandleErrorFails(p)
  BY <1>9, <1>e, <1>f DEF TypeOK, ThrowsEarly, HandleErrorFails, people, calls, limiter
<1>10. CASE RecordFails(p)
  BY <1>10, <1>f DEF TypeOK, RecordFails, HandSteps, people, calls, limiter
<1>11. QED BY <1>1, <1>2, <1>3, <1>4, <1>5, <1>6, <1>7, <1>8, <1>9, <1>10 DEF WorkerSteps

LEMMA TickTyped ==
  ASSUME TypeOK, Tick
  PROVE  TypeOK'
<1>1. ahead' \in 0..MaxWait + Interval /\ ttl' \in 0..Ttl
  BY DEF TypeOK, Tick, Nearer
<1>2. slot' \in [People -> LongAgo..MaxWait]
  <2>1. \A p \in People : Nearer(slot[p], LongAgo) \in LongAgo..MaxWait
    BY DEF TypeOK, Nearer, LongAgo
  <2>2. QED BY <2>1 DEF Tick
<1>3. QED BY <1>1, <1>2 DEF TypeOK, Tick, people, sending, calls

LEMMA CrashTyped ==
  ASSUME TypeOK, Crash
  PROVE  TypeOK'
<1>1. job' \in [People -> {"none", "waiting", "active"}]
  BY DEF TypeOK, Crash
<1>2. tries' \in [People -> 0..MaxAttempts - 1]
  <2>1. 0 \in 0..MaxAttempts - 1
    OBVIOUS
  <2>2. tries' = [p \in People |-> IF job'[p] = "none" THEN 0 ELSE tries[p]]
    BY DEF Crash
  <2>3. QED BY <2>1, <2>2 DEF TypeOK
<1>3. faults' \in 0..MaxFaults
  BY FaultTyped DEF Crash
<1>4. QED BY <1>1, <1>2, <1>3 DEF TypeOK, Crash, HandSteps, people, limiter

LEMMA NextTyped ==
  ASSUME TypeOK, [Next]_vars
  PROVE  TypeOK'
<1>1. CASE UNCHANGED vars
  BY <1>1 DEF TypeOK, vars
<1>2. CASE Next
  BY <1>2, PeopleTyped, CallsTyped, WorkerTyped, TickTyped, CrashTyped, Zenon
     DEF Next, Failures
<1>3. QED BY <1>1, <1>2

\* The dialogs, the rows and their jobs and the limiter's key keep their types:
\* no job runs more attempts than it has, no slot lies further off than a worker waits.
THEOREM TypeCorrect == Spec => []TypeOK
BY InitTyped, NextTyped, PTL DEF Spec

(***************************************************************************)
(* Nobody is written to unasked.                                           *)
(***************************************************************************)
LEMMA ResolvesConsented ==
  ASSUME NEW choice \in People \cup {"group", "all"}
  PROVE  Resolve(choice) \subseteq Consented
BY DEF Resolve, Consented

\* A handler that is about to write its row has one.
LEMMA AskedStep ==
  ASSUME TypeOK, Asked, HandKnowsRow, [Next]_vars
  PROVE  Asked'
<1>1. ASSUME UNCHANGED people, \A q \in People : row'[q] = "none" <=> row[q] = "none"
      PROVE  Asked'
  BY <1>1 DEF Asked, people
<1>2. ASSUME NEW p \in People, BotStarted(p) \/ ConsentAccepted(p) \/ Join(p)
      PROVE  Asked'
  BY <1>2 DEF TypeOK, Asked, BotStarted, ConsentAccepted, Join, MayJoin, HasConsented, sending
<1>3. ASSUME NEW p \in People,
             WorkerSteps(p) \/ ThrowsEarly(p) \/ RecordFails(p) \/ HandleErrorFails(p)
      PROVE  Asked'
  <2>1. UNCHANGED people
    BY <1>3 DEF WorkerSteps, Process, Acquire, PutBack, MarkSending, CallMax, RecordSent,
       MarkUnknownAfterSend, HandleError, ThrowsEarly, RecordFails, HandleErrorFails
  <2>2. CASE row' = row
    BY <1>1, <2>1, <2>2
  <2>3. ASSUME NEW s \in Statuses \ {"none"}, row' = [row EXCEPT ![p] = s], hand[p] # "idle"
        PROVE  Asked'
    <3>1. row[p] # "none"
      BY <2>3 DEF TypeOK, HandSteps, HandKnowsRow
    <3>2. \A q \in People : row'[q] = "none" <=> row[q] = "none"
      BY <2>3, <3>1 DEF TypeOK
    <3>3. QED BY <1>1, <2>1, <3>2
  <2>4. CASE MarkSending(p) \/ RecordSent(p) \/ MarkUnknownAfterSend(p) \/ HandleError(p)
    BY <2>2, <2>3, <2>4 DEF MarkSending, RecordSent, MarkUnknownAfterSend, HandleError, Statuses
  <2>5. CASE \/ Process(p) \/ Acquire(p) \/ PutBack(p) \/ CallMax(p)
             \/ ThrowsEarly(p) \/ RecordFails(p) \/ HandleErrorFails(p)
    BY <2>2, <2>5 DEF Process, Acquire, PutBack, CallMax, ThrowsEarly, RecordFails,
       HandleErrorFails
  <2>6. QED BY <1>3, <2>4, <2>5 DEF WorkerSteps
<1>4. ASSUME NEW r \in Runs, NEW c \in People \cup {"group", "all"}, SendNow(r, c)
      PROVE  Asked'
  <2>1. \A q \in People : row'[q] # "none" => row[q] # "none" \/ q \in Consented
    BY <1>4, ResolvesConsented DEF SendNow
  <2>2. UNCHANGED people
    BY <1>4 DEF SendNow
  <2>3. QED BY <2>1, <2>2 DEF Asked, Consented, HasConsented, people
<1>5. ASSUME NEW r \in Runs,
             SendNowSteps(r) \/ SendNowFails(r) \/ \E p \in People : EnqueueFails(r, p)
      PROVE  UNCHANGED <<people, row>>
  BY <1>5 DEF SendNowSteps, FindPending, Enqueue, SendNowFails, EnqueueFails, sending
<1>6. ASSUME Tick \/ Crash \/ UNCHANGED vars PROVE UNCHANGED <<people, row>>
  BY <1>6 DEF Tick, Crash, vars, people, sending
<1>7. CASE UNCHANGED <<people, row>>
  BY <1>1, <1>7
<1>8. QED BY <1>2, <1>3, <1>4, <1>5, <1>6, <1>7, Zenon DEF Next, Failures

(***************************************************************************)
(* At most one copy, and no row that claims what did not happen.           *)
(***************************************************************************)
\* Of one person: what the row tells and what the handler knows.
Once1(p) ==
  /\ copies[p] \in {0, 1}
  /\ row[p] \in {"none", "pending", "failed"} => copies[p] = 0
  /\ row[p] = "sent" => copies[p] = 1
  /\ hand[p] \in {"asking", "sleeping"} => row[p] = "pending"
  /\ hand[p] \notin {"idle", "asking", "sleeping"} => row[p] = "sending"
  /\ hand[p] \in {"calling", "retryable", "permanent"} => copies[p] = 0
  /\ hand[p] \in {"delivered", "doubting"} => copies[p] = 1

LEMMA OnceIsOnce1 == OnceInv <=> \A p \in People : Once1(p)
BY DEF OnceInv, RowTells, HandKnowsRow, Once1

\* A step of one handler, seen from the person it writes to.
LEMMA WorkerOnce ==
  ASSUME TypeOK, NEW p \in People, Once1(p),
         WorkerSteps(p) \/ ThrowsEarly(p) \/ RecordFails(p) \/ HandleErrorFails(p)
  PROVE  /\ Once1(p)'
         /\ \A q \in People \ {p} :
              row'[q] = row[q] /\ copies'[q] = copies[q] /\ hand'[q] = hand[q]
<1> DEFINE Rest == \A q \in People \ {p} :
                     row'[q] = row[q] /\ copies'[q] = copies[q] /\ hand'[q] = hand[q]
<1>a. /\ DOMAIN row = People /\ DOMAIN copies = People /\ DOMAIN hand = People
      /\ hand[p] \in HandSteps /\ row[p] \in Statuses
  BY DEF TypeOK
<1>b. Throw(p) \/ JobEnds(p) => hand' = [hand EXCEPT ![p] = "idle"]
  BY DEF Throw, JobEnds
<1> USE <1>a
<1>1. CASE Process(p)
  <2>1. row' = row /\ copies' = copies
    BY <1>1 DEF Process
  <2>2. \/ hand' = [hand EXCEPT ![p] = "idle"]
        \/ row[p] = "pending" /\ hand' = [hand EXCEPT ![p] = "asking"]
    BY <1>1, <1>b DEF Process, IsDue
  <2>3. QED BY <2>1, <2>2 DEF Once1
<1>2. CASE Acquire(p) \/ PutBack(p)
  BY <1>2 DEF Acquire, PutBack, Once1
<1>3. CASE MarkSending(p)
  BY <1>3 DEF MarkSending, Once1
<1>4. CASE CallMax(p)
  BY <1>4 DEF CallMax, Once1
<1>5. CASE RecordSent(p)
  BY <1>5, <1>b DEF RecordSent, Once1
<1>6. CASE MarkUnknownAfterSend(p)
  BY <1>6, <1>b DEF MarkUnknownAfterSend, Once1
<1>7. CASE HandleError(p)
  <2>1. hand' = [hand EXCEPT ![p] = "idle"] /\ copies' = copies
    BY <1>7, <1>b DEF HandleError
  <2>2. \/ hand[p] \in {"retryable", "permanent"} /\ \E s \in {"pending", "failed"} :
             row' = [row EXCEPT ![p] = s]
        \/ hand[p] = "ambiguous" /\ row' = [row EXCEPT ![p] = "unknown"]
    BY <1>7 DEF HandleError
  <2>3. QED BY <2>1, <2>2 DEF Once1
<1>8. CASE ThrowsEarly(p) \/ HandleErrorFails(p)
  BY <1>8, <1>b DEF ThrowsEarly, HandleErrorFails, Once1
<1>9. CASE RecordFails(p)
  BY <1>9 DEF RecordFails, Once1
<1>10. QED BY <1>1, <1>2, <1>3, <1>4, <1>5, <1>6, <1>7, <1>8, <1>9 DEF WorkerSteps

\* Calls and crashes write no row but those that are not there yet.
LEMMA OthersOnce ==
  ASSUME TypeOK, \A q \in People : Once1(q), NEW p \in People,
         \/ \E q \in People : BotStarted(q) \/ ConsentAccepted(q) \/ Join(q)
         \/ \E r \in Runs :
              \/ SendNowSteps(r) \/ \E c \in People \cup {"group", "all"} : SendNow(r, c)
              \/ SendNowFails(r) \/ \E q \in People : EnqueueFails(r, q)
         \/ Tick \/ Crash \/ UNCHANGED vars
  PROVE  /\ Once1(p)' /\ copies' = copies
         /\ row'[p] # row[p] => row[p] = "none" /\ row'[p] = "pending"
<1>a. Once1(p) /\ hand[p] \in HandSteps
  BY DEF TypeOK
<1>1. CASE UNCHANGED <<row, hand, copies>>
  BY <1>a, <1>1 DEF Once1
<1>2. ASSUME NEW r \in Runs, NEW c \in People \cup {"group", "all"}, SendNow(r, c)
      PROVE  /\ Once1(p)' /\ copies' = copies
             /\ row'[p] # row[p] => row[p] = "none" /\ row'[p] = "pending"
  <2>1. UNCHANGED <<hand, copies>>
    BY <1>2 DEF SendNow
  <2>2. row'[p] # row[p] => row[p] = "none" /\ row'[p] = "pending"
    BY <1>2 DEF SendNow
  <2>3. row[p] = "none" => hand[p] = "idle"
    BY <1>a DEF Once1
  <2>4. QED BY <1>a, <2>1, <2>2, <2>3 DEF Once1
<1>3. CASE Crash
  <2>1. row' = row /\ copies' = copies /\ hand'[p] = "idle"
    BY <1>3 DEF Crash
  <2>2. QED BY <1>a, <2>1 DEF Once1
<1>4. ASSUME \/ \E q \in People : BotStarted(q) \/ ConsentAccepted(q) \/ Join(q)
             \/ \E r \in Runs :
                  SendNowSteps(r) \/ SendNowFails(r) \/ \E q \in People : EnqueueFails(r, q)
             \/ Tick \/ UNCHANGED vars
      PROVE  UNCHANGED <<row, hand, copies>>
  BY <1>4 DEF BotStarted, ConsentAccepted, Join, SendNowSteps, FindPending, Enqueue, SendNowFails,
     EnqueueFails, Tick, vars, sending
<1>5. QED BY <1>1, <1>2, <1>3, <1>4

LEMMA OnceInvStep ==
  ASSUME TypeOK, OnceInv, [Next]_vars
  PROVE  OnceInv'
<1> HIDE DEF Once1
<1>0. \A p \in People : Once1(p)
  BY OnceIsOnce1
<1>1. ASSUME NEW q \in People,
             WorkerSteps(q) \/ ThrowsEarly(q) \/ RecordFails(q) \/ HandleErrorFails(q),
             NEW p \in People
      PROVE  Once1(p)'
  BY <1>0, <1>1, WorkerOnce DEF Once1
<1>2. CASE \/ \E q \in People : BotStarted(q) \/ ConsentAccepted(q) \/ Join(q)
           \/ \E r \in Runs :
                \/ SendNowSteps(r) \/ \E c \in People \cup {"group", "all"} : SendNow(r, c)
                \/ SendNowFails(r) \/ \E q \in People : EnqueueFails(r, q)
           \/ Tick \/ Crash \/ UNCHANGED vars
  BY <1>0, <1>2, OthersOnce DEF OnceInv, RowTells, HandKnowsRow, Once1
<1>3. CASE \E q \in People :
             WorkerSteps(q) \/ ThrowsEarly(q) \/ RecordFails(q) \/ HandleErrorFails(q)
  BY <1>1, <1>3 DEF OnceInv, RowTells, HandKnowsRow, Once1
<1>4. QED BY <1>2, <1>3, Zenon DEF Next, Failures

(***************************************************************************)
(* The slots keep their distance.                                          *)
(***************************************************************************)
LEMMA AcquirePaces ==
  ASSUME TypeOK, PaceInv, NEW p \in People, Acquire(p)
  PROVE  PaceInv'
<1>1. /\ ahead \in Int /\ ahead <= MaxWait /\ ahead' = ahead + Interval /\ ttl' = Ttl
      /\ slot' = [slot EXCEPT ![p] = ahead] /\ \A q \in People : slot[q] \in Int
      /\ \A q \in People : slot'[q] = IF q = p THEN ahead ELSE slot[q]
  BY DEF TypeOK, Acquire, NextFree, LongAgo
<1>2. \A q \in People : slot[q] > LongAgo => slot[q] + Interval <= ahead
  BY DEF PaceInv, KeyGuardsSlots
<1>3. KeyGuardsSlots'
  BY <1>1, <1>2 DEF KeyGuardsSlots, LongAgo
<1>4. SlotsApart'
  <2> SUFFICES ASSUME NEW q \in People, NEW t \in People, q # t,
                      slot'[q] > LongAgo, slot'[t] > LongAgo
               PROVE  slot'[q] - slot'[t] >= Interval \/ slot'[t] - slot'[q] >= Interval
    BY DEF SlotsApart, LongAgo
  <2>1. CASE q # p /\ t # p
    <3>1. slot'[q] = slot[q] /\ slot'[t] = slot[t]
      BY <1>1, <2>1
    <3>2. QED BY <3>1 DEF PaceInv, SlotsApart
  <2>2. CASE q = p
    BY <1>1, <1>2, <2>2
  <2>3. CASE t = p
    BY <1>1, <1>2, <2>3
  <2>4. QED BY <2>1, <2>2, <2>3
<1>5. QED BY <1>3, <1>4 DEF PaceInv

\* A key that expires was not ahead of any live slot.
LEMMA TickPaces ==
  ASSUME TypeOK, PaceInv, Tick
  PROVE  PaceInv'
<1>1. /\ ahead \in Nat /\ ttl \in Nat /\ ahead <= ttl
      /\ \A q \in People : slot[q] \in Int /\ slot[q] >= LongAgo
      /\ LongAgo \in Int
  BY DEF TypeOK, PaceInv, KeyGuardsSlots, LongAgo
<1>2. \A q \in People : slot[q] > LongAgo => slot[q] + Interval <= ahead
  BY DEF PaceInv, KeyGuardsSlots
<1>3. /\ ahead' = IF ahead > 0 THEN ahead - 1 ELSE 0
      /\ ttl' = IF ttl > 0 THEN ttl - 1 ELSE 0
      /\ \A q \in People : slot'[q] = IF slot[q] > LongAgo THEN slot[q] - 1 ELSE LongAgo
  BY <1>1 DEF Tick, Nearer
<1>4. \A q \in People : slot'[q] > LongAgo => slot[q] > LongAgo /\ slot'[q] = slot[q] - 1
  BY <1>1, <1>3
<1>5. KeyGuardsSlots'
  <2>1. ahead' <= ttl'
    BY <1>1, <1>3
  <2>2. ASSUME NEW q \in People, slot'[q] > LongAgo PROVE slot'[q] + Interval <= ahead'
    <3>1. slot[q] \in Int /\ slot'[q] = slot[q] - 1 /\ slot[q] + Interval <= ahead
      BY <1>1, <1>2, <1>4, <2>2
    <3>2. slot[q] - 1 > -Interval
      BY <2>2, <3>1 DEF LongAgo
    <3>3. ahead > 0
      BY <1>1, <3>1, <3>2
    <3>4. QED BY <1>1, <1>3, <3>1, <3>3
  <2>3. QED BY <2>1, <2>2 DEF KeyGuardsSlots, LongAgo
<1>6. SlotsApart'
  <2> SUFFICES ASSUME NEW q \in People, NEW t \in People, q # t,
                      slot'[q] > LongAgo, slot'[t] > LongAgo
               PROVE  slot'[q] - slot'[t] >= Interval \/ slot'[t] - slot'[q] >= Interval
    BY DEF SlotsApart, LongAgo
  <2>1. /\ slot'[q] = slot[q] - 1 /\ slot'[t] = slot[t] - 1
        /\ slot[q] > LongAgo /\ slot[t] > LongAgo /\ slot[q] \in Int /\ slot[t] \in Int
    BY <1>1, <1>4
  <2>2. slot[q] - slot[t] >= Interval \/ slot[t] - slot[q] >= Interval
    BY <2>1 DEF PaceInv, SlotsApart
  <2>3. QED BY <2>1, <2>2
<1>7. QED BY <1>5, <1>6 DEF PaceInv

LEMMA PaceInvStep ==
  ASSUME TypeOK, PaceInv, [Next]_vars
  PROVE  PaceInv'
<1>1. CASE UNCHANGED limiter
  <2>1. UNCHANGED <<ahead, ttl, slot>>
    BY <1>1 DEF limiter
  <2>2. QED BY <2>1 DEF PaceInv, KeyGuardsSlots, SlotsApart, LongAgo
<1>2. ASSUME NEW p \in People, ~Acquire(p),
             \/ BotStarted(p) \/ ConsentAccepted(p) \/ Join(p)
             \/ WorkerSteps(p) \/ ThrowsEarly(p) \/ RecordFails(p) \/ HandleErrorFails(p)
      PROVE  UNCHANGED limiter
  BY <1>2 DEF BotStarted, ConsentAccepted, Join, WorkerSteps, Process, PutBack, MarkSending,
     CallMax, RecordSent, MarkUnknownAfterSend, HandleError, ThrowsEarly, RecordFails,
     HandleErrorFails
<1>3. ASSUME NEW r \in Runs,
             \/ SendNowSteps(r) \/ \E c \in People \cup {"group", "all"} : SendNow(r, c)
             \/ SendNowFails(r) \/ \E p \in People : EnqueueFails(r, p)
      PROVE  UNCHANGED limiter
  BY <1>3 DEF SendNowSteps, FindPending, Enqueue, SendNow, SendNowFails, EnqueueFails
<1>4. ASSUME Crash \/ UNCHANGED vars PROVE UNCHANGED limiter
  BY <1>4 DEF Crash, vars, limiter
<1>5. QED BY <1>1, <1>2, <1>3, <1>4, AcquirePaces, TickPaces, Zenon DEF Next, Failures

(***************************************************************************)
(* The theorems.                                                           *)
(***************************************************************************)
MessagesInv == TypeOK /\ Asked /\ OnceInv /\ PaceInv

LEMMA InitMessagesInv == Init => MessagesInv
<1> SUFFICES ASSUME Init PROVE MessagesInv
  OBVIOUS
<1>1. TypeOK
  BY InitTyped
<1>2. Asked /\ OnceInv
  BY DEF Init, Asked, OnceInv, RowTells, HandKnowsRow
<1>3. PaceInv
  BY DEF Init, PaceInv, KeyGuardsSlots, SlotsApart, LongAgo
<1>4. QED BY <1>1, <1>2, <1>3 DEF MessagesInv

LEMMA MessagesInvStep ==
  ASSUME MessagesInv, [Next]_vars
  PROVE  MessagesInv'
BY NextTyped, AskedStep, OnceInvStep, PaceInvStep DEF MessagesInv, OnceInv

\* Nobody is kept or written to who has not agreed, however the gate, the list
\* of recipients and the messages interleave; and no two handlers hold slots of
\* the limiter closer than the interval, even across the expiry of its key.
THEOREM MessagesAreSound == Spec => []MessagesSound
<1>1. MessagesInv => MessagesSound
  BY DEF MessagesInv, MessagesSound, OnlyWhoAgreed, Asked, OnceInv, RowTells, PaceInv, TypeOK,
     Statuses
<1>2. QED BY <1>1, InitMessagesInv, MessagesInvStep, PTL DEF Spec

\* A step changes what the row of a person tells, and how many copies there
\* are, only in the ways PublishOnce allows.
LEMMA StepIsAllowed ==
  ASSUME MessagesInv, MessagesInv', [Next]_vars, NEW p \in People
  PROVE  \/ Once!Claim(p) \/ Once!Put(p) \/ Once!Confirm(p)
         \/ Once!Withdraw(p) \/ Once!Doubt(p) \/ Once!Same(p)
<1> DEFINE told == [q \in People |-> Told(row[q])]
<1>1. /\ row[p] \in Statuses /\ row'[p] \in Statuses
      /\ copies[p] \in {0, 1} /\ copies'[p] \in {0, 1}
      /\ row[p] \in {"none", "pending", "failed"} => copies[p] = 0
      /\ row[p] = "sent" => copies[p] = 1
      /\ row'[p] \in {"none", "pending", "failed"} => copies'[p] = 0
      /\ row'[p] = "sent" => copies'[p] = 1
  BY DEF MessagesInv, TypeOK, OnceInv, RowTells
<1>2. /\ told[p] = "sent"   => copies[p] = 1
      /\ told[p] = "unsent" => copies[p] = 0
      /\ told'[p] = "sent"   => copies'[p] = 1
      /\ told'[p] = "unsent" => copies'[p] = 0
      /\ told[p] \in {"unsent", "maybe", "sent"} /\ told'[p] \in {"unsent", "maybe", "sent"}
  BY <1>1 DEF Told, Statuses
<1>3. CASE copies'[p] = copies[p]
  BY <1>2, <1>3 DEF Once!Claim, Once!Confirm, Once!Withdraw, Once!Doubt, Once!Same, Once!Tell
<1>4. CASE copies'[p] # copies[p]
  <2>1. CallMax(p)
    <3>1. ASSUME NEW q \in People, q # p,
                 WorkerSteps(q) \/ ThrowsEarly(q) \/ RecordFails(q) \/ HandleErrorFails(q)
          PROVE  FALSE
      BY <1>4, <3>1, WorkerOnce, OnceIsOnce1 DEF MessagesInv
    <3>2. CASE \/ Process(p) \/ Acquire(p) \/ PutBack(p) \/ MarkSending(p) \/ RecordSent(p)
               \/ MarkUnknownAfterSend(p) \/ HandleError(p) \/ ThrowsEarly(p)
               \/ RecordFails(p) \/ HandleErrorFails(p)
      BY <1>4, <3>2 DEF Process, Acquire, PutBack, MarkSending, RecordSent, MarkUnknownAfterSend,
         HandleError, ThrowsEarly, RecordFails, HandleErrorFails
    <3>3. ASSUME \/ \E q \in People : BotStarted(q) \/ ConsentAccepted(q) \/ Join(q)
                 \/ \E r \in Runs :
                      \/ SendNowSteps(r) \/ \E c \in People \cup {"group", "all"} : SendNow(r, c)
                      \/ SendNowFails(r) \/ \E q \in People : EnqueueFails(r, q)
                 \/ Tick \/ Crash \/ UNCHANGED vars
          PROVE  FALSE
      BY <1>4, <3>3, OthersOnce, OnceIsOnce1 DEF MessagesInv
    <3>4. QED BY <3>1, <3>2, <3>3, Zenon DEF Next, Failures, WorkerSteps
  <2>2. row[p] = "sending" /\ row' = row
    BY <2>1 DEF CallMax, MessagesInv, OnceInv, HandKnowsRow, sending
  <2>3. told[p] = "maybe" /\ told'[p] = told[p] /\ copies[p] = 0 /\ copies'[p] = 1
    <3>1. told[p] = "maybe" /\ told'[p] = told[p]
      BY <2>2 DEF Told
    <3>2. copies[p] = 0
      BY <2>1 DEF CallMax, MessagesInv, OnceInv, HandKnowsRow
    <3>3. QED BY <1>1, <1>4, <3>1, <3>2
  <2>4. QED BY <2>3 DEF Once!Put
<1>5. QED BY <1>3, <1>4

\* Direct messages implement PublishOnce: repeated calls, retries, crashes and
\* lost writes never write to a person twice, and a row never claims what is not so.
THEOREM MessagesAreSentOnce == Spec => OnceSpec
<1>1. Init => Once!Init
  BY DEF Init, Once!Init, Told
<1>2. MessagesInv /\ MessagesInv' /\ [Next]_vars
        => [Once!Next]_<<[p \in People |-> Told(row[p])], copies>>
  <2> SUFFICES ASSUME MessagesInv, MessagesInv', [Next]_vars
               PROVE  Once!Next
    OBVIOUS
  <2>1. copies' = [p \in People |-> copies'[p]]
    BY DEF MessagesInv, TypeOK
  <2>2. QED BY <2>1, StepIsAllowed DEF Once!Next
<1>3. QED BY <1>1, <1>2, InitMessagesInv, MessagesInvStep, PTL DEF Spec, OnceSpec, Once!Spec

=============================================================================
