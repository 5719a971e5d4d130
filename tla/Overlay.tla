------------------------------ MODULE Overlay -------------------------------
(***************************************************************************)
(* What the curation of a dataset promises: the status of a row is that of *)
(* the last decision on it.  Nothing but a request to decide changes a     *)
(* status; one that is answered has changed all that it names, one that    *)
(* fails may have changed some of it, and the asker is told which it was.  *)
(***************************************************************************)
CONSTANTS Rows, Threads

VARIABLES
  status,
  asked,  \* what each thread was asked to decide
  reply   \* how its last request to decide ended: "ok", "error"

vars == <<status, asked, reply>>

Actions == {"accept", "reject", "edit", "reset"}
NotAsked == [rows |-> {}, action |-> "reset"]

StatusAfter(action) ==
  CASE action = "accept" -> "accepted"
    [] action = "reject" -> "rejected"
    [] action = "edit"   -> "edited"
    [] action = "reset"  -> "pending"

Init ==
  /\ status = [r \in Rows |-> "pending"]
  /\ asked = [t \in Threads |-> NotAsked]
  /\ reply = [t \in Threads |-> "none"]

Ask(t) ==
  /\ asked[t] = NotAsked
  /\ \E rows \in (SUBSET Rows) \ {{}}, action \in Actions :
       asked' = [asked EXCEPT ![t] = [rows |-> rows, action |-> action]]
  /\ reply' = [reply EXCEPT ![t] = "none"]
  /\ UNCHANGED status

Take(t, rows) ==
  /\ asked[t] # NotAsked
  /\ status' = [r \in Rows |-> IF r \in rows THEN StatusAfter(asked[t].action) ELSE status[r]]
  /\ asked' = [asked EXCEPT ![t] = NotAsked]

\* All that was asked is decided, and only then is the asker told so.
Answer(t) == Take(t, asked[t].rows) /\ reply' = [reply EXCEPT ![t] = "ok"]

Fail(t) ==
  /\ \E rows \in SUBSET asked[t].rows : Take(t, rows)
  /\ reply' = [reply EXCEPT ![t] = "error"]

Crash ==
  /\ asked' = [t \in Threads |-> NotAsked]
  /\ reply' = [t \in Threads |-> "none"]
  /\ UNCHANGED status

Next == (\E t \in Threads : Ask(t) \/ Answer(t) \/ Fail(t)) \/ Crash

Spec == Init /\ [][Next]_vars
=============================================================================
