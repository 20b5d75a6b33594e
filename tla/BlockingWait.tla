---------------------------- MODULE BlockingWait ----------------------------
(***************************************************************************)
(* What the suites rely on when they wait for a workflow: the answer agrees *)
(* with the execution, and the shared REST client is left as it was.        *)
(***************************************************************************)
CONSTANTS
  EndStates,    \* the states an execution ends in, "terminated" among them
  Errors,       \* the other ways the call may end: timeouts and failed calls
  Tenants,      \* the values of the client's tenant header
  Home          \* its value before the call

VARIABLES
  status,       \* of the execution
  header,       \* the client's tenant header
  outcome       \* how the call ended, "none" until it does

vars == <<status, header, outcome>>

Init == status = "running" /\ header = Home /\ outcome = "none"

\* The execution ends, at any time.
End == status = "running" /\ status' \in EndStates /\ UNCHANGED <<header, outcome>>

\* The call borrows the client.
Borrow == outcome = "none" /\ header' \in Tenants /\ UNCHANGED <<status, outcome>>

\* The call ends and hands the client back.
Answer ==
  /\ outcome = "none"
  /\ \/ outcome' = "terminated" /\ status = "terminated"
     \/ outcome' = "failed" /\ status \in EndStates \ {"terminated"}
     \/ outcome' \in Errors
  /\ header' = Home
  /\ UNCHANGED status

Next == End \/ Borrow \/ Answer

Spec == Init /\ [][Next]_vars
=============================================================================
