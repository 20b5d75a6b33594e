---------------------------- MODULE ExecutionWait ----------------------------
(***************************************************************************)
(* One call of run_blocking_execution or wait_for_execution: the client     *)
(* polls an execution, shows its events window by window, and ends with the *)
(* execution, at a timeout or with an error of a REST call.  The execution  *)
(* and the clock go on meanwhile.  The clock is the manager's, in seconds;  *)
(* the waiting process reads its own, `skew' seconds off.                   *)
(***************************************************************************)
EXTENDS Integers

CONSTANTS
  Timeout,     \* the timeout of the call, in seconds
  MaxTime,     \* bound: the clock stops here
  Ahead,       \* how far the waiting process's clock may be ahead, at most,
  Behind,      \* and how far behind
  Faults       \* what calls may raise, of "unauthorized", "client" (another
               \* CloudifyClientError) and "connection" (anything else)

ASSUME WaitAssumption ==
  /\ Timeout \in Nat /\ MaxTime \in Nat /\ Ahead \in Nat /\ Behind \in Nat
  /\ MaxTime >= Timeout + 4
  /\ Faults \subseteq {"unauthorized", "client", "connection"}

EndStates == {"terminated", "failed", "cancelled"}
Tenants   == {"caller", "test"}
PCs == {"start", "begin", "poll", "show", "pause", "decide", "settle", "report",
        "over"}
LatestStart == 1  \* bound: no call begins later
Skews == (0 - Behind)..Ahead

VARIABLES
  \* the parameters of the call
  tenant,    \* the tenant to switch to, "none" for the client's own
  allow,     \* allow_client_error
  skew,
  \* the call
  pc,        \* its next statement
  header,    \* the client's tenant header
  began,     \* the reading of the clock at the start
  prev, cur, \* prev_time and current_time
  seen,      \* the status the last poll returned
  outcome,   \* how the call ended
  \* the manager
  now,       \* the time
  status,    \* of the execution
  endedAt,   \* when it ended
  \* history
  shown,     \* the seconds whose events were shown
  skipped    \* the seconds whose poll failed

params == <<tenant, allow, skew>>
times  == <<began, prev, cur>>
execution == <<now, status, endedAt>>
history == <<shown, skipped>>
vars == <<params, pc, header, times, seen, outcome, execution, history>>

Deadline == began + Timeout
Clock    == now + skew

Init ==
  /\ tenant \in {"none", "test"} /\ allow \in BOOLEAN /\ skew \in Skews
  /\ pc \in {"start", "begin"}
  /\ pc = "start" => ~allow           \* run_blocking_execution does not pass it
  /\ header = "caller"
  /\ began = 0 /\ prev = 0 /\ cur = 0
  /\ seen = "running" /\ outcome = "none"
  /\ now = 0 /\ status = "running" /\ endedAt = MaxTime
  /\ shown = {} /\ skipped = {}

-----------------------------------------------------------------------------
(* Helpers.                                                                 *)

\* set_client_tenant, on entry ...
Switched == IF tenant = "none" THEN header ELSE tenant

\* A faulty set_client_tenant without the finally.
NotRestored == header

\* ... and on exit, by whatever way.
Restored == "caller"

\* The tenant the execution belongs to.
Owner == IF tenant = "none" THEN "caller" ELSE tenant

\* A faulty output_events whose windows leave out the second they start with.
OpenWindow(from, to) ==
  {t \in 0..now : from < t /\ t < to /\ t < now /\ t <= endedAt}

\* The seconds from which output_events shows what was reported: those the
\* filter lets through, if the client looks into the right tenant.
Window(from, to) ==
  {t \in 0..now : from <= t /\ t < to /\ t < now /\ t <= endedAt /\ header = Owner}

\* The call ends; the with statements give the client its tenant back.
End(how) == pc' = "over" /\ outcome' = how /\ header' = Restored

-----------------------------------------------------------------------------
(* Faulty variants of the actions below.                                    *)

\* A client error that is retried whatever the time.
RetryForEver ==
  /\ pc \in {"poll", "show"} /\ "client" \in Faults /\ allow
  /\ IF pc = "poll" THEN prev' = cur /\ cur' = Clock ELSE UNCHANGED <<prev, cur>>
  /\ skipped' = skipped \cup {t \in 0..now : prev' <= t /\ t < cur'}
  /\ pc' = "pause"
  /\ UNCHANGED <<params, header, outcome, began, seen, execution, shown>>

\* An end state list without "cancelled".
DecideNotCancelled ==
  /\ pc = "decide"
  /\ CASE cur >= Deadline -> pc' = "report" /\ seen' = "timeout"
       [] cur < Deadline /\ seen \in {"terminated", "failed"} ->
            pc' = "settle" /\ UNCHANGED seen
       [] OTHER -> pc' = "poll" /\ UNCHANGED seen
  /\ UNCHANGED <<params, header, times, outcome, execution, history>>

\* A result that is not looked at once the execution has ended.
SettleUnseen ==
  /\ pc = "settle" /\ Clock >= cur + 2
  /\ shown' = shown \cup Window(cur, MaxTime + 1)
  /\ End("terminated")
  /\ UNCHANGED <<params, times, seen, execution, skipped>>

-----------------------------------------------------------------------------
(* The call.                                                                *)

\* run_blocking_execution starts the execution, under the tenant.
Start ==
  /\ pc = "start"
  /\ pc' = "begin"
  /\ UNCHANGED <<params, header, times, seen, outcome, execution, history>>

\* wait_for_execution shows what was reported before, under the tenant of the
\* caller, and then switches to the one it was given.
Begin ==
  /\ pc = "begin"
  /\ began' = Clock /\ cur' = Clock
  /\ shown' = Window(0 - MaxTime, Clock)
  /\ header' = Switched
  /\ pc' = "poll"
  /\ UNCHANGED <<params, prev, seen, outcome, execution, skipped>>

\* The top of the loop: the time is read and the execution fetched.
Poll ==
  /\ pc = "poll"
  /\ prev' = cur /\ cur' = Clock
  /\ seen' = status
  /\ pc' = "show"
  /\ UNCHANGED <<params, header, began, outcome, execution, history>>

\* The events since the last poll.
Show ==
  /\ pc = "show"
  /\ shown' = shown \cup Window(prev, cur)
  /\ pc' = "decide"
  /\ UNCHANGED <<params, header, times, seen, outcome, execution, skipped>>

\* One of the two calls raised a CloudifyClientError that is allowed: unless
\* it is too late the loop goes on, two seconds and a new window later.
RetryPoll ==
  /\ pc \in {"poll", "show"} /\ "client" \in Faults /\ allow
  /\ IF pc = "poll" THEN prev' = cur /\ cur' = Clock ELSE UNCHANGED <<prev, cur>>
  /\ skipped' = skipped \cup {t \in 0..now : prev' <= t /\ t < cur'}
  /\ IF cur' >= Deadline THEN End("client")
     ELSE pc' = "pause" /\ UNCHANGED <<header, outcome>>
  /\ UNCHANGED <<params, began, seen, execution, shown>>

Pause ==
  /\ pc = "pause" /\ Clock >= cur + 2
  /\ pc' = "poll"
  /\ UNCHANGED <<params, header, times, seen, outcome, execution, history>>

\* Any other error of a call ends the wait.  Only the two calls of the loop are
\* inside the try; the pause makes none.
CallFails ==
  /\ pc \in {"start", "begin", "poll", "show", "settle", "report"}
  /\ \E f \in Faults :
       /\ ~(f = "client" /\ allow /\ pc \in {"poll", "show"})
       /\ End(f)
  /\ UNCHANGED <<params, times, seen, execution, history>>

\* The timeout is looked at before the status.
Decide ==
  /\ pc = "decide"
  /\ CASE cur >= Deadline -> pc' = "report" /\ seen' = "timeout"
       [] cur < Deadline /\ seen \in EndStates -> pc' = "settle" /\ UNCHANGED seen
       [] OTHER -> pc' = "poll" /\ UNCHANGED seen
  /\ UNCHANGED <<params, header, times, outcome, execution, history>>

\* Two seconds for last events, then the answer.
Settle ==
  /\ pc = "settle" /\ Clock >= cur + 2
  /\ shown' = shown \cup Window(cur, MaxTime + 1)
  /\ IF seen = "terminated" THEN End("terminated")
     ELSE pc' = "report" /\ UNCHANGED <<header, outcome>>
  /\ UNCHANGED <<params, times, seen, execution, skipped>>

\* _fail_wait_for_execution lists the events once more and raises.
Report ==
  /\ pc = "report"
  /\ End(IF seen = "timeout" THEN "timeout" ELSE "failed")
  /\ UNCHANGED <<params, times, seen, execution, history>>

Wait == \/ Start \/ Begin \/ Poll \/ Show \/ RetryPoll \/ Pause \/ CallFails
        \/ Decide \/ Settle \/ Report

-----------------------------------------------------------------------------
(* The manager.                                                             *)

\* Time passes, up to the bounds.
Tick ==
  /\ pc # "start" /\ now < IF pc = "begin" THEN LatestStart ELSE MaxTime
  /\ now' = now + 1
  /\ UNCHANGED <<params, pc, header, times, seen, outcome, status, endedAt, history>>

\* The execution ends.
Finish ==
  /\ pc # "start" /\ status = "running"
  /\ status' \in EndStates
  /\ endedAt' = now
  /\ UNCHANGED <<params, pc, header, times, seen, outcome, now, history>>

Next == Wait \/ Tick \/ Finish

Spec == Init /\ [][Next]_vars

\* The waiting process is scheduled and time passes; nothing makes the execution
\* end.
FairSpec == Spec /\ WF_vars(Wait) /\ WF_vars(Tick)

-----------------------------------------------------------------------------
(* Properties.                                                              *)

\* The variables have their types (the call's local state and the manager's).
TypeOK ==
  /\ tenant \in {"none", "test"} /\ allow \in BOOLEAN /\ skew \in Skews
  /\ pc \in PCs /\ header \in Tenants
  /\ began \in Int /\ prev \in Int /\ cur \in Int
  /\ seen \in EndStates \cup {"running", "timeout"}
  /\ outcome \in {"none", "terminated", "failed", "timeout"} \cup Faults
  /\ now \in 0..MaxTime /\ status \in EndStates \cup {"running"}
  /\ endedAt \in 0..MaxTime
  /\ shown \subseteq 0..MaxTime /\ skipped \subseteq 0..MaxTime

\* The seconds before the call, whose events output_events asks for under the
\* tenant of the caller.
Earlier == IF tenant = "none" THEN {} ELSE {t \in 0..MaxTime : t < began}

\* The windows of output_events leave no gap: when a result is about to be told,
\* the events up to the last reading of the clock, and at the end of the
\* execution all of them, were shown, but for those of polls that failed and
\* those of another tenant from before the call.  (If the process's clock is ahead of
\* the manager's this is not so: its windows lie in the manager's future.)
EventsShown ==
  /\ skew <= 0
  /\ pc \in {"decide", "settle"} \/ outcome \in {"terminated", "failed"}
  =>
    {t \in 0..endedAt : t < cur \/ outcome \in {"terminated", "failed"}}
      \subseteq shown \cup skipped \cup Earlier

\* A timeout is told of an execution that was still running when the loop began
\* its last round but one, if it had two and none may fail: only an end that no
\* round could see in time is reported as a timeout.
TimeoutIsFresh ==
  outcome = "timeout" /\ ~allow /\ prev > began /\ status # "running" =>
    endedAt + skew >= prev

\* The call implements the abstract one: it tells success only of an execution
\* that terminated and failure only of one that ended otherwise, and whichever
\* way it ends the client has its tenant back.
Abstract == INSTANCE BlockingWait WITH
  Errors <- Faults \cup {"timeout"}, Home <- "caller"
Implements == Abstract!Spec

\* The call ends, whether the execution does or not and whatever calls fail.
Termination == <>(outcome # "none")
=============================================================================
