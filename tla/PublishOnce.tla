---------------------------- MODULE PublishOnce -----------------------------
(***************************************************************************)
(* What the delivery of a campaign promises each of its targets, without   *)
(* queues, workers, sweeps or crashes: at most one copy is ever made, and  *)
(* what is told about a target is never wrong, only sometimes uncertain.   *)
(***************************************************************************)
EXTENDS Naturals

CONSTANT Targets

VARIABLES
  told,    \* "unsent", "maybe" or "sent": what the records say of a target
  copies   \* copies of the message that exist at the target

Init ==
  /\ told = [t \in Targets |-> "unsent"]
  /\ copies = [t \in Targets |-> 0]

Tell(t, from, to) ==
  /\ told[t] = from
  /\ told'[t] = to
  /\ copies'[t] = copies[t]

\* Before a copy may be made, the records already say "maybe".
Claim(t)   == Tell(t, "unsent", "maybe")

Put(t) ==
  /\ told[t] = "maybe"
  /\ copies[t] = 0
  /\ copies'[t] = 1
  /\ told'[t] = told[t]

Confirm(t)  == copies[t] = 1 /\ Tell(t, "maybe", "sent")
Withdraw(t) == copies[t] = 0 /\ Tell(t, "maybe", "unsent")

\* Certainty may be given up, never made up.
Doubt(t)   == Tell(t, "sent", "maybe")

Same(t) == told'[t] = told[t] /\ copies'[t] = copies[t]

\* Targets are independent: in one step any of them may move.
Next ==
  /\ told' = [t \in Targets |-> told'[t]]
  /\ copies' = [t \in Targets |-> copies'[t]]
  /\ \A t \in Targets :
       Claim(t) \/ Put(t) \/ Confirm(t) \/ Withdraw(t) \/ Doubt(t) \/ Same(t)

Spec == Init /\ [][Next]_<<told, copies>>
=============================================================================
