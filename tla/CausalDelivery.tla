--------------------------- MODULE CausalDelivery ---------------------------
(***************************************************************************)
(* What the readers of the two rings promise the rest of the agent: every  *)
(* record that was submitted is handed over at most once, and never before *)
(* a record that had been submitted when it began.                         *)
(***************************************************************************)
CONSTANT Records

VARIABLES
  begun,      \* records whose time has been read
  before,     \* for every record, those submitted before it began
  submitted,  \* records that can be read
  delivered   \* records handed over

vars == <<begun, before, submitted, delivered>>

Init ==
  /\ begun = {} /\ submitted = {} /\ delivered = {}
  /\ before = [r \in Records |-> {}]

Begin(r) ==
  /\ r \notin begun
  /\ begun' = begun \union {r}
  /\ before' = [before EXCEPT ![r] = submitted]
  /\ UNCHANGED <<submitted, delivered>>

Submit(r) ==
  /\ r \in begun \ submitted
  /\ submitted' = submitted \union {r}
  /\ UNCHANGED <<begun, before, delivered>>

Deliver(r) ==
  /\ r \in submitted \ delivered
  /\ before[r] \subseteq delivered
  /\ delivered' = delivered \union {r}
  /\ UNCHANGED <<begun, before, submitted>>

Next == \E r \in Records : Begin(r) \/ Submit(r) \/ Deliver(r)

Spec == Init /\ [][Next]_vars
=============================================================================
