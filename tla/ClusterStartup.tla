--------------------------- MODULE ClusterStartup ---------------------------
(***************************************************************************)
(* What starting a cluster promises, independently of how completion of an  *)
(* installation is observed: a component is only started when every         *)
(* component it depends on is really up, and the startup is only declared   *)
(* a success when every component that had to be installed is up.           *)
(* ClusterBootstrap implements this specification when no two components    *)
(* share a machine.                                                         *)
(***************************************************************************)

CONSTANTS
  Units,     \* the components of the cluster
  Needed,    \* the components that this startup installs
  Requires   \* for each component, those that must be up before it starts

VARIABLES
  started,   \* components whose installation has been launched
  up,        \* components whose installation has succeeded
  outcome    \* what the caller of the startup has been told

svars == <<started, up, outcome>>

Init == started = {} /\ up = {} /\ outcome = "running"

Start(c) ==
  /\ outcome = "running"
  /\ c \in Needed \ started
  /\ Requires[c] \subseteq up
  /\ started' = started \cup {c}
  /\ UNCHANGED <<up, outcome>>

\* Installations run in the background: they finish whenever they like, also
\* after the caller has given up.
ComeUp(c) ==
  /\ c \in started \ up
  /\ up' = up \cup {c}
  /\ UNCHANGED <<started, outcome>>

Succeed ==
  /\ outcome = "running"
  /\ Needed \subseteq up
  /\ outcome' = "success"
  /\ UNCHANGED <<started, up>>

GiveUp ==
  /\ outcome = "running"
  /\ outcome' = "error"
  /\ UNCHANGED <<started, up>>

Next ==
  \/ \E c \in Units : Start(c) \/ ComeUp(c)
  \/ Succeed
  \/ GiveUp

Spec == Init /\ [][Next]_svars
=============================================================================
