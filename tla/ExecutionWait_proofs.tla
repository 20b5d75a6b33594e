------------------------ MODULE ExecutionWait_proofs ------------------------
(***************************************************************************)
(* Proofs about ExecutionWait, for every timeout, any difference between    *)
(* the clocks and any kinds of errors of the calls.                         *)
(***************************************************************************)
EXTENDS ExecutionWait, TLAPS

-----------------------------------------------------------------------------
(* The inductive invariant.                                                 *)

\* The statements of the loop, and those at which it has just fetched the execution.
Looping == {"poll", "show", "pause", "decide", "settle", "report"}
Fetched == {"show", "decide", "settle", "report"}

\* The client is in the tenant of the execution while the loop runs, and in the
\* caller's before and after.
RightTenant ==
  /\ pc \in Looping => header = Owner /\ outcome = "none"
  /\ pc \in {"start", "begin"} => header = "caller" /\ outcome = "none"
  /\ pc = "over" => header = "caller"
  /\ outcome # "none" => pc = "over"

\* Both readings of the clock lie in the past, in order.
ClockRead ==
  /\ pc \in Looping \/ outcome = "timeout" => cur <= Clock
  /\ pc \in Fetched \/ outcome = "timeout" => prev <= cur
  /\ IF status = "running" THEN endedAt = MaxTime ELSE endedAt <= now

\* What the loop goes by, and the answer it gives, agree with the execution: an
\* end state is never left again.
StatusIsTrue ==
  /\ pc \in {"show", "decide"} => seen # "timeout"
  /\ pc = "settle" => seen \in EndStates
  /\ pc = "report" => seen \in (EndStates \ {"terminated"}) \cup {"timeout"}
  /\ pc \in Fetched /\ seen \in EndStates => seen = status /\ endedAt + skew <= cur
  /\ outcome = "terminated" => status = "terminated"
  /\ outcome = "failed" => status \in EndStates \ {"terminated"}

\* If no round may fail, an execution that has ended without being noticed ended
\* after it was fetched.
EndsAfter(reading) == status # "running" => endedAt + skew >= reading
UnseenEnd ==
  ~allow =>
    /\ pc # "pause"
    /\ pc = "poll" /\ cur > began => EndsAfter(cur)
    /\ pc \in {"show", "decide"} /\ seen = "running" => EndsAfter(cur)
    /\ pc \in {"show", "decide"} /\ prev > began => EndsAfter(prev)
    /\ pc = "report" /\ seen = "timeout" /\ prev > began => EndsAfter(prev)
    /\ outcome = "timeout" /\ prev > began => EndsAfter(prev)

\* The windows so far cover what was reported before the last one's end.
Covered == shown \cup skipped \cup Earlier
ShownBefore(reading) == \A s \in 0..endedAt : s < reading => s \in Covered
NoGap ==
  skew <= 0 =>
    /\ pc \in {"poll", "pause", "decide", "settle"} => ShownBefore(cur)
    /\ pc = "show" => ShownBefore(prev)
    /\ (pc = "report" /\ seen \in EndStates) \/ outcome \in {"terminated", "failed"} =>
         \A s \in 0..endedAt : s \in Covered

IInv == TypeOK /\ RightTenant /\ ClockRead /\ StatusIsTrue /\ UnseenEnd /\ NoGap

-----------------------------------------------------------------------------
(* It holds.                                                                *)

LEMMA ConstantTypes ==
  /\ Timeout \in Nat /\ MaxTime \in Nat /\ Ahead \in Nat /\ Behind \in Nat
  /\ MaxTime > LatestStart
  /\ Faults \subseteq {"unauthorized", "client", "connection"}
  /\ Skews \subseteq Int
BY WaitAssumption DEF LatestStart, Skews

\* At the beginning.
LEMMA InvInit == Init => IInv
BY ConstantTypes
DEF Init, IInv, TypeOK, RightTenant, ClockRead, StatusIsTrue, UnseenEnd, NoGap, PCs,
    Tenants, EndStates, Looping, Fetched, Clock, EndsAfter

\* The windows are sets of seconds.
LEMMA WindowType ==
  ASSUME TypeOK, NEW from, NEW to PROVE Window(from, to) \subseteq 0..MaxTime
<1>1. 0..now \subseteq 0..MaxTime  BY ConstantTypes DEF TypeOK
<1> QED  BY <1>1 DEF Window

\* Every action keeps the types.
LEMMA TypeStep == TypeOK /\ [Next]_vars => TypeOK'
<1> SUFFICES ASSUME TypeOK, [Next]_vars PROVE TypeOK'
  OBVIOUS
<1> USE ConstantTypes DEF TypeOK, PCs, Tenants, EndStates, params, times, execution,
                          history, End, Restored
<1>1. CASE Start  BY <1>1 DEF Start
<1>2. CASE Begin  BY <1>2, WindowType DEF Begin, Switched, Clock
<1>3. CASE Poll  BY <1>3 DEF Poll, Clock
<1>4. CASE Show  BY <1>4, WindowType DEF Show
<1>5. CASE RetryPoll
  <2>1. prev' \in Int /\ cur' \in Int  BY <1>5 DEF RetryPoll, Clock
  <2>2. skipped' \subseteq 0..MaxTime
    <3>1. 0..now \subseteq 0..MaxTime  OBVIOUS
    <3> QED  BY <1>5, <3>1 DEF RetryPoll
  <2>3. pc' \in PCs /\ header' \in Tenants
        /\ outcome' \in {"none", "terminated", "failed", "timeout"} \cup Faults
    BY <1>5 DEF RetryPoll
  <2> QED  BY <1>5, <2>1, <2>2, <2>3 DEF RetryPoll
<1>6. CASE Pause  BY <1>6 DEF Pause
<1>7. CASE CallFails  BY <1>7 DEF CallFails
<1>8. CASE Decide  BY <1>8 DEF Decide
<1>9. CASE Settle  BY <1>9, WindowType DEF Settle
<1>10. CASE Report  BY <1>10 DEF Report
<1>11. CASE Tick
  <2>1. now' \in 0..MaxTime  BY <1>11 DEF Tick, LatestStart
  <2> QED  BY <1>11, <2>1 DEF Tick
<1>12. CASE Finish  BY <1>12 DEF Finish
<1>13. CASE UNCHANGED vars  BY <1>13 DEF vars
<1> QED
  BY <1>1, <1>2, <1>3, <1>4, <1>5, <1>6, <1>7, <1>8, <1>9, <1>10, <1>11, <1>12, <1>13
  DEF Next, Wait

\* The client is switched once, at the start, and back by whatever ends the call.
LEMMA TenantStep ==
  ASSUME TypeOK, RightTenant, [Next]_vars PROVE RightTenant'
<1> USE ConstantTypes DEF TypeOK, RightTenant, params, times, execution, history,
        End, Restored, Switched, Owner, Looping
<1>1. CASE Start  BY <1>1 DEF Start
<1>2. CASE Begin  BY <1>2 DEF Begin
<1>3. CASE Poll  BY <1>3 DEF Poll
<1>4. CASE Show  BY <1>4 DEF Show
<1>5. CASE RetryPoll  BY <1>5 DEF RetryPoll
<1>6. CASE Pause  BY <1>6 DEF Pause
<1>7. CASE CallFails  BY <1>7 DEF CallFails
<1>8. CASE Decide  BY <1>8 DEF Decide
<1>9. CASE Settle  BY <1>9 DEF Settle
<1>10. CASE Report  BY <1>10 DEF Report
<1>11. CASE Tick  BY <1>11 DEF Tick
<1>12. CASE Finish  BY <1>12 DEF Finish
<1>13. CASE UNCHANGED vars  BY <1>13 DEF vars
<1> QED
  BY <1>1, <1>2, <1>3, <1>4, <1>5, <1>6, <1>7, <1>8,
     <1>9, <1>10, <1>11, <1>12, <1>13 DEF Next, Wait

\* Time does not go back.
LEMMA ClockStep ==
  ASSUME TypeOK, RightTenant, ClockRead, [Next]_vars PROVE ClockRead'
<1> USE ConstantTypes DEF TypeOK, RightTenant, ClockRead, params, times, execution,
        history, End, Looping, Fetched, Clock, Skews
<1>1. CASE Start  BY <1>1 DEF Start
<1>2. CASE Begin  BY <1>2 DEF Begin
<1>3. CASE Poll  BY <1>3 DEF Poll
<1>4. CASE Show  BY <1>4 DEF Show
<1>5. CASE RetryPoll  BY <1>5 DEF RetryPoll
<1>6. CASE Pause  BY <1>6 DEF Pause
<1>7. CASE CallFails  BY <1>7 DEF CallFails
<1>8. CASE Decide  BY <1>8 DEF Decide
<1>9. CASE Settle  BY <1>9 DEF Settle
<1>10. CASE Report  BY <1>10 DEF Report
<1>11. CASE Tick  BY <1>11 DEF Tick
<1>12. CASE Finish  BY <1>12 DEF Finish, EndStates
<1>13. CASE UNCHANGED vars  BY <1>13 DEF vars
<1> QED
  BY <1>1, <1>2, <1>3, <1>4, <1>5, <1>6, <1>7, <1>8,
     <1>9, <1>10, <1>11, <1>12, <1>13 DEF Next, Wait

\* A status is looked at when it was fetched, and an end state stays.
LEMMA StatusStep ==
  ASSUME TypeOK, RightTenant, ClockRead, StatusIsTrue, [Next]_vars PROVE StatusIsTrue'
<1> USE ConstantTypes DEF TypeOK, RightTenant, ClockRead, StatusIsTrue, params,
        times, execution, history, End, EndStates, Looping, Fetched, Clock
<1>1. CASE Start  BY <1>1 DEF Start
<1>2. CASE Begin  BY <1>2 DEF Begin
<1>3. CASE Poll  BY <1>3 DEF Poll
<1>4. CASE Show  BY <1>4 DEF Show
<1>5. CASE RetryPoll  BY <1>5 DEF RetryPoll
<1>6. CASE Pause  BY <1>6 DEF Pause
<1>7. CASE CallFails  BY <1>7 DEF CallFails
<1>8. CASE Decide  BY <1>8 DEF Decide
<1>9. CASE Settle  BY <1>9 DEF Settle
<1>10. CASE Report  BY <1>10 DEF Report
<1>11. CASE Tick  BY <1>11 DEF Tick
<1>12. CASE Finish  BY <1>12 DEF Finish
<1>13. CASE UNCHANGED vars  BY <1>13 DEF vars
<1> QED
  BY <1>1, <1>2, <1>3, <1>4, <1>5, <1>6, <1>7, <1>8,
     <1>9, <1>10, <1>11, <1>12, <1>13 DEF Next, Wait

\* An execution that was running when it was fetched ends later than that.
LEMMA UnseenStep ==
  ASSUME TypeOK, RightTenant, ClockRead, StatusIsTrue, UnseenEnd, [Next]_vars PROVE UnseenEnd'
<1> USE ConstantTypes DEF TypeOK, RightTenant, ClockRead, StatusIsTrue, UnseenEnd,
        EndsAfter, params, times, execution, history, End, EndStates, Looping, Fetched,
        Clock
<1>1. CASE Start  BY <1>1 DEF Start
<1>2. CASE Begin  BY <1>2 DEF Begin
<1>3. CASE Poll  BY <1>3 DEF Poll
<1>4. CASE Show  BY <1>4 DEF Show
<1>5. CASE RetryPoll  BY <1>5 DEF RetryPoll
<1>6. CASE Pause  BY <1>6 DEF Pause
<1>7. CASE CallFails  BY <1>7 DEF CallFails
<1>8. CASE Decide
  <2>1. pc = "decide" /\ UNCHANGED <<params, header, times, outcome, execution, history>>
    BY <1>8 DEF Decide
  <2>2. CASE pc' = "report"  BY <2>1, <2>2
  <2>3. CASE pc' = "settle"  BY <2>1, <2>3
  <2>4. CASE pc' = "poll" /\ seen' = seen /\ seen = "running"  BY <2>1, <2>4
  <2>5. pc' = "report" \/ pc' = "settle" \/ (pc' = "poll" /\ seen' = seen /\ seen = "running")
    BY <1>8 DEF Decide, Deadline
  <2> QED  BY <2>2, <2>3, <2>4, <2>5
<1>9. CASE Settle  BY <1>9 DEF Settle
<1>10. CASE Report  BY <1>10 DEF Report
<1>11. CASE Tick  BY <1>11 DEF Tick
<1>12. CASE Finish  BY <1>12 DEF Finish
<1>13. CASE UNCHANGED vars  BY <1>13 DEF vars
<1> QED
  BY <1>1, <1>2, <1>3, <1>4, <1>5, <1>6, <1>7, <1>8,
     <1>9, <1>10, <1>11, <1>12, <1>13 DEF Next, Wait

\* Each window begins where the last one ended.
LEMMA GapStep ==
  ASSUME TypeOK, RightTenant, ClockRead, StatusIsTrue, NoGap, [Next]_vars PROVE NoGap'
<1> USE ConstantTypes DEF TypeOK, RightTenant, ClockRead, StatusIsTrue, NoGap,
        ShownBefore, Covered, Earlier, params, times, execution, history, End, EndStates,
        Looping, Fetched, Clock, Window, Owner
<1>1. CASE Start  BY <1>1 DEF Start
<1>2. CASE Begin  BY <1>2 DEF Begin
<1>3. CASE Poll  BY <1>3 DEF Poll
<1>4. CASE Show  BY <1>4 DEF Show
<1>5. CASE RetryPoll  BY <1>5 DEF RetryPoll
<1>6. CASE Pause  BY <1>6 DEF Pause
<1>7. CASE CallFails  BY <1>7 DEF CallFails
<1>8. CASE Decide  BY <1>8 DEF Decide
<1>9. CASE Settle  BY <1>9 DEF Settle
<1>10. CASE Report  BY <1>10 DEF Report
<1>11. CASE Tick  BY <1>11 DEF Tick
<1>12. CASE Finish
  <2>1. 0..endedAt' \subseteq 0..endedAt  BY <1>12 DEF Finish
  <2>2. outcome \notin {"terminated", "failed"} /\ ~(pc = "report" /\ seen \in EndStates)
    BY <1>12 DEF Finish
  <2> QED  BY <1>12, <2>1, <2>2 DEF Finish
<1>13. CASE UNCHANGED vars  BY <1>13 DEF vars
<1> QED
  BY <1>1, <1>2, <1>3, <1>4, <1>5, <1>6, <1>7, <1>8,
     <1>9, <1>10, <1>11, <1>12, <1>13 DEF Next, Wait

-----------------------------------------------------------------------------
(* The theorems.                                                            *)

\* The invariant is inductive.
LEMMA InvStep == IInv /\ [Next]_vars => IInv'
BY TypeStep, TenantStep, ClockStep, StatusStep, UnseenStep, GapStep DEF IInv

\* It holds of every behaviour.
LEMMA Invariance == Spec => []IInv
BY InvInit, InvStep, PTL DEF Spec

\* The variables keep their types, whatever the calls raise and however the
\* clocks differ.
THEOREM TypeCorrect == Spec => []TypeOK
BY Invariance, PTL DEF IInv

\* No window of events is lost between two polls, if the process's clock is not
\* ahead: what is told of an execution is told after its events.
THEOREM EventsAreShown == Spec => []EventsShown
<1>1. IInv => EventsShown
  <2> SUFFICES ASSUME IInv, skew <= 0,
                      pc \in {"decide", "settle"} \/ outcome \in {"terminated", "failed"},
                      NEW s \in 0..endedAt, s < cur \/ outcome \in {"terminated", "failed"}
               PROVE  s \in Covered
    BY DEF EventsShown, Covered
  <2> QED  BY DEF IInv, NoGap, ShownBefore
<1> QED  BY <1>1, Invariance, PTL

\* Without allow_client_error a timeout is told only of an execution that had not
\* ended when it was last but one fetched.
THEOREM TimeoutsAreFresh == Spec => []TimeoutIsFresh
<1>1. IInv => TimeoutIsFresh  BY DEF IInv, UnseenEnd, EndsAfter, TimeoutIsFresh
<1> QED  BY <1>1, Invariance, PTL

\* The call begins as the abstract one.
LEMMA AbstractInit == Init => Abstract!Init
BY DEF Init, Abstract!Init

\* Its steps are those of the abstract one: the switch of the tenant, the end of
\* the execution and the answer; polls are invisible.
LEMMA AbstractStep == IInv /\ [Next]_vars => [Abstract!Next]_Abstract!vars
<1> SUFFICES ASSUME IInv, [Next]_vars PROVE [Abstract!Next]_Abstract!vars
  OBVIOUS
<1> USE DEF IInv, TypeOK, Tenants, Abstract!Next, Abstract!vars, params, times, execution,
            history
<1>1. ASSUME \E how : End(how) /\ (how = "terminated" => status = "terminated")
                        /\ (how = "failed" => status \in EndStates \ {"terminated"})
                        /\ how \in {"terminated", "failed"} \cup Faults \cup {"timeout"},
             outcome = "none", UNCHANGED status
      PROVE  Abstract!Answer
  BY <1>1 DEF Abstract!Answer, End, Restored
<1>2. CASE Start  BY <1>2 DEF Start
<1>3. CASE Begin
  <2>1. Abstract!Borrow  BY <1>3 DEF Begin, Switched, RightTenant, Abstract!Borrow
  <2> QED  BY <2>1
<1>4. CASE Poll \/ Show \/ Pause \/ Decide \/ Tick
  BY <1>4 DEF Poll, Show, Pause, Decide, Tick
<1>5. CASE RetryPoll
  BY <1>1, <1>5 DEF RetryPoll, RightTenant, Looping
<1>6. CASE CallFails
  BY <1>1, <1>6, ConstantTypes DEF CallFails, RightTenant, Looping
<1>7. CASE Settle
  BY <1>1, <1>7 DEF Settle, RightTenant, StatusIsTrue, Looping, Fetched, EndStates
<1>8. CASE Report
  BY <1>1, <1>8 DEF Report, RightTenant, StatusIsTrue, Looping, Fetched, EndStates
<1>9. CASE Finish  BY <1>9 DEF Finish, Abstract!End
<1>10. CASE UNCHANGED vars  BY <1>10 DEF vars
<1> QED
  BY <1>2, <1>3, <1>4, <1>5, <1>6, <1>7, <1>8, <1>9, <1>10 DEF Next, Wait

\* The call implements the abstract wait: its answer agrees with the execution,
\* and whichever way it ends the client is in the tenant it was in.
THEOREM WaitImplementsBlockingWait == Spec => Implements
BY AbstractInit, AbstractStep, Invariance, PTL DEF Spec, Implements, Abstract!Spec
=============================================================================
