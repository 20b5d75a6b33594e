------------------------ MODULE SnapshotRestore_proofs ------------------------
(***************************************************************************)
(* Proofs about SnapshotRestore, for any number of versions, looks, waits   *)
(* and calls, and any faults.                                               *)
(***************************************************************************)
EXTENDS SnapshotRestore, TLAPS

LEMMA Bounds ==
  Rounds \in Nat \ {0} /\ MaxLooks \in Nat \ {0} /\ MaxAttempts \in Nat \ {0}
    /\ MaxCalls \in Nat \ {0}
BY SnapshotAssumption

-----------------------------------------------------------------------------
(* Type correctness.                                                        *)

\* A retried check stays below its number of looks, and goes on, or fails.
LEMMA LookFacts ==
  ASSUME TypeOK, NEW ok, NEW next, Look(ok, next)
  PROVE  /\ looks' \in 0..(MaxLooks - 1)
         /\ late' \in BOOLEAN /\ faulted' = faulted
         /\ UNCHANGED <<call, attempt, reset>>
         /\ \/ pc' = pc /\ late' = late
            \/ pc' = "failed" /\ late'
            \/ ok /\ pc' = next /\ late' = late
<1> USE Bounds DEF Look, TypeOK
<1>1. CASE ok  BY <1>1
<1>2. CASE ~ok /\ looks + 1 < MaxLooks  BY <1>2
<1>3. CASE ~ok /\ ~(looks + 1 < MaxLooks)  BY <1>3
<1> QED  BY <1>1, <1>2, <1>3

\* A retry of restore_snapshot stays below its number of calls; what is not
\* retried fails.
LEMMA RetryFacts ==
  ASSUME TypeOK, NEW text, NEW isLate \in BOOLEAN, RaiseOrRetry(text, isLate)
  PROVE  call' \in 1..MaxCalls /\ late' \in BOOLEAN /\ pc' \in {"restore", "failed"}
<1> USE Bounds DEF RaiseOrRetry, TypeOK
<1>1. CASE text = "missing" /\ call < MaxCalls  BY <1>1
<1>2. CASE ~(text = "missing" /\ call < MaxCalls)  BY <1>2
<1> QED  BY <1>1, <1>2

LEMMA TypeInit == Init => TypeOK
<1> SUFFICES ASSUME Init PROVE TypeOK
  OBVIOUS
<1>1. looks \in 0..(MaxLooks - 1) /\ call \in 1..MaxCalls /\ attempt \in 0..MaxAttempts
      /\ round \in 1..Rounds
  BY Bounds DEF Init
<1>2. have \subseteq Parts  BY DEF Init
<1> QED  BY <1>1, <1>2 DEF Init, TypeOK

\* A refusal is of a wait that was begun with an attempt left.
RefusedInTime == pc = "refused" => attempt < MaxAttempts

\* Only waits are refused, and only they count.
LEMMA AttemptStep ==
  ASSUME TypeOK, RefusedInTime, [Next]_vars PROVE RefusedInTime'
<1> USE Bounds, LookFacts DEF TypeOK, RefusedInTime, test, retries, access, archive, manager, history, Goto, Raise, RaiseOrRetry
<1>1. CASE ConfirmEmpty  BY <1>1 DEF ConfirmEmpty
<1>2. CASE CreateSnapshot  BY <1>2 DEF CreateSnapshot
<1>3. CASE AssertCreated  BY <1>3 DEF AssertCreated
<1>4. CASE Carry  BY <1>4 DEF Carry
<1>5. CASE StartRestore  BY <1>5 DEF StartRestore
<1>6. CASE RestoreRefused  BY <1>6 DEF RestoreRefused
<1>7. CASE WaitEnds  BY <1>7 DEF WaitEnds
<1>8. CASE WaitRefused  BY <1>8 DEF WaitRefused
<1>9. CASE Refused  BY <1>9 DEF Refused
<1>10. CASE WaitError  BY <1>10 DEF WaitError
<1>11. CASE WaitTimeout  BY <1>11 DEF WaitTimeout
<1>12. CASE OutOfAttempts  BY <1>12 DEF OutOfAttempts
<1>13. CASE WaitForRestore  BY <1>13 DEF WaitForRestore
<1>14. CASE VerifyServices  BY <1>14 DEF VerifyServices
<1>15. CASE CheckCredentials  BY <1>15 DEF CheckCredentials
<1>16. CASE CheckState  BY <1>16 DEF CheckState
<1>17. CASE CheckDeployments  BY <1>17 DEF CheckDeployments
<1>18. CASE UpgradeAgents  BY <1>18 DEF UpgradeAgents
<1>19. CASE NextRound  BY <1>19 DEF NextRound
<1>20. CASE CallFails  BY <1>20 DEF CallFails
<1>21. CASE SnapshotWritten  BY <1>21 DEF SnapshotWritten
<1>22. CASE Synced  BY <1>22 DEF Synced
<1>23. CASE RestoreUsers  BY <1>23 DEF RestoreUsers
<1>24. CASE RestChanges  BY <1>24 DEF RestChanges
<1>25. CASE RestoreEnds  BY <1>25 DEF RestoreEnds
<1>26. CASE FollowUp  BY <1>26 DEF FollowUp
<1>27. CASE UNCHANGED vars  BY <1>27 DEF vars
<1> QED
  BY <1>1, <1>2, <1>3, <1>4, <1>5, <1>6, <1>7, <1>8, <1>9, <1>10, <1>11, <1>12,
     <1>13, <1>14, <1>15, <1>16, <1>17, <1>18, <1>19, <1>20, <1>21, <1>22, <1>23, <1>24,
     <1>25, <1>26, <1>27
  DEF Next, Test, Managers

\* Every action keeps the types: no retry exceeds its number.
LEMMA TypeStep ==
  ASSUME TypeOK, RefusedInTime, [Next]_vars PROVE TypeOK'
<1> USE Bounds, LookFacts, RetryFacts DEF TypeOK, Parts, SnapshotPassword, test, retries, access, archive,
        manager, history, Goto, Raise
<1>1. CASE ConfirmEmpty  BY <1>1 DEF ConfirmEmpty
<1>2. CASE CreateSnapshot  BY <1>2 DEF CreateSnapshot
<1>3. CASE AssertCreated  BY <1>3 DEF AssertCreated
<1>4. CASE Carry
  <2>1. pc' \in {"restore", "failed"} /\ arrived' \in BOOLEAN  BY <1>4 DEF Carry
  <2> QED  BY <1>4, <2>1 DEF Carry
<1>5. CASE StartRestore
  <2>1. attempt' \in 0..MaxAttempts  BY <1>5 DEF StartRestore
  <2>2. reset' \in BOOLEAN /\ post' \in BOOLEAN  BY <1>5 DEF StartRestore
  <2>3. /\ exec' = "running" /\ pc' = "wait"
        /\ UNCHANGED <<test, looks, call, access, archive, pw, rest, have, history>>
    BY <1>5 DEF StartRestore
  <2> QED  BY <2>1, <2>2, <2>3
<1>6. CASE RestoreRefused
  <2>1. PICK text : RaiseOrRetry(text, FALSE)  BY <1>6 DEF RestoreRefused
  <2>2. call' \in 1..MaxCalls /\ late' \in BOOLEAN /\ pc' \in {"restore", "failed"}
    BY <2>1, RetryFacts
  <2> QED  BY <1>6, <2>2 DEF RestoreRefused
<1>7. CASE WaitEnds
  <2>1. call' \in 1..MaxCalls /\ late' \in BOOLEAN /\ pc' \in {"restore", "failed", "settled"}
    BY <1>7 DEF WaitEnds
  <2> QED  BY <1>7, <2>1 DEF WaitEnds
<1>8. CASE WaitRefused  BY <1>8 DEF WaitRefused
<1>9. CASE Refused
  <2>1. attempt' \in 0..MaxAttempts /\ pc' = "wait" /\ reset' = TRUE
    BY <1>9 DEF Refused, RefusedInTime
  <2>2. client' \in {"own", "snapshot", "plain"} /\ cli' \in {"own", "snapshot"}
    BY <1>9 DEF Refused
  <2> QED  BY <1>9, <2>1, <2>2 DEF Refused
<1>10. CASE WaitError  BY <1>10 DEF WaitError
<1>11. CASE WaitTimeout
  <2>1. call' \in 1..MaxCalls /\ late' \in BOOLEAN /\ pc' \in {"restore", "failed"}
    BY <1>11 DEF WaitTimeout
  <2> QED  BY <1>11, <2>1 DEF WaitTimeout
<1>12. CASE OutOfAttempts
  <2>1. call' \in 1..MaxCalls /\ late' \in BOOLEAN /\ pc' \in {"restore", "failed"}
    BY <1>12 DEF OutOfAttempts
  <2>2. UNCHANGED <<test, looks, attempt, reset, access, archive, manager, faulted>>
    BY <1>12 DEF OutOfAttempts
  <2> QED  BY <2>1, <2>2
<1>13. CASE WaitForRestore  BY <1>13 DEF WaitForRestore
<1>14. CASE VerifyServices  BY <1>14 DEF VerifyServices
<1>15. CASE CheckCredentials  BY <1>15 DEF CheckCredentials
<1>16. CASE CheckState  BY <1>16 DEF CheckState
<1>17. CASE CheckDeployments  BY <1>17 DEF CheckDeployments
<1>18. CASE UpgradeAgents  BY <1>18 DEF UpgradeAgents
<1>19. CASE NextRound
  <2>1. round' \in 1..Rounds /\ attempt' \in 0..MaxAttempts /\ call' \in 1..MaxCalls
    BY <1>19 DEF NextRound
  <2>2. have' \subseteq Parts /\ pc' \in {"empty", "passed"} /\ reset' \in BOOLEAN
    BY <1>19 DEF NextRound
  <2>3. client' \in {"own", "snapshot", "plain"} /\ cli' \in {"own", "snapshot"}
    BY <1>19 DEF NextRound
  <2>4. snapshot' \in {"none", "creating", "created", "failed"} /\ arrived' \in BOOLEAN
    BY <1>19 DEF NextRound
  <2>5. /\ exec' \in {"none", "running", "terminated", "failed", "missing"}
        /\ post' \in BOOLEAN /\ pw' \in {"own", "snapshot"}
    BY <1>19 DEF NextRound
  <2>6. UNCHANGED <<mode, looks, rest, history>>  BY <1>19 DEF NextRound
  <2> QED  BY <2>1, <2>2, <2>3, <2>4, <2>5, <2>6
<1>20. CASE CallFails  BY <1>20 DEF CallFails
<1>21. CASE SnapshotWritten
  <2>1. snapshot' \in {"created", "failed"} /\ faulted' \in BOOLEAN
    BY <1>21 DEF SnapshotWritten
  <2> QED  BY <1>21, <2>1 DEF SnapshotWritten
<1>22. CASE Synced  BY <1>22 DEF Synced
<1>23. CASE RestoreUsers  BY <1>23 DEF RestoreUsers
<1>24. CASE RestChanges  BY <1>24 DEF RestChanges
<1>25. CASE RestoreEnds
  <2>1. exec' \in {"terminated", "failed", "missing"}
    BY <1>25 DEF RestoreEnds
  <2>2. have' \subseteq Parts /\ pw' \in {"own", "snapshot"}
    BY <1>25 DEF RestoreEnds
  <2>3. faulted' \in BOOLEAN /\ post' \in BOOLEAN
    BY <1>25 DEF RestoreEnds
  <2> QED  BY <1>25, <2>1, <2>2, <2>3 DEF RestoreEnds
<1>26. CASE FollowUp
  <2>1. have' \subseteq Parts /\ faulted' \in BOOLEAN  BY <1>26 DEF FollowUp
  <2>2. post' = FALSE /\ UNCHANGED <<test, pc, retries, access, archive, exec, pw, rest, late>>
    BY <1>26 DEF FollowUp
  <2>3. post' \in BOOLEAN /\ late' \in BOOLEAN  BY <2>2
  <2>4. /\ exec' \in {"none", "running", "terminated", "failed", "missing"}
        /\ pw' \in {"own", "snapshot"} /\ rest' \in {"up", "down", "guarded"}
    BY <2>2
  <2> QED  BY <2>1, <2>2, <2>3, <2>4
<1>27. CASE UNCHANGED vars  BY <1>27 DEF vars
<1> QED
  BY <1>1, <1>2, <1>3, <1>4, <1>5, <1>6, <1>7, <1>8, <1>9, <1>10, <1>11, <1>12,
     <1>13, <1>14, <1>15, <1>16, <1>17, <1>18, <1>19, <1>20, <1>21, <1>22, <1>23, <1>24,
     <1>25, <1>26, <1>27
  DEF Next, Test, Managers

\* The variables keep their types; no counter of a retry runs past its end.
THEOREM TypeCorrect == Spec => []TypeOK
<1>1. Init => TypeOK /\ RefusedInTime  BY TypeInit DEF Init, RefusedInTime
<1>2. TypeOK /\ RefusedInTime /\ [Next]_vars => TypeOK' /\ RefusedInTime'
  BY TypeStep, AttemptStep
<1> QED  BY <1>1, <1>2, PTL DEF Spec

-----------------------------------------------------------------------------
(* Restores.                                                                *)

\* Before a restore of this round none has been made that could be harmed.
NoRestoreYet ==
  /\ pc \in {"empty", "create", "created", "carry"} => exec = "none"
  /\ pc = "restore" => exec \in {"none", "missing"}

\* Only the restore that misses its file sends the test back.
LEMMA NoRestoreStep ==
  ASSUME TypeOK, NoRestoreYet, [Next]_vars PROVE NoRestoreYet'
<1> USE Bounds, LookFacts DEF TypeOK, NoRestoreYet, test, retries, access, archive, manager, history, Goto, Raise, RaiseOrRetry
<1>1. CASE ConfirmEmpty  BY <1>1 DEF ConfirmEmpty
<1>2. CASE CreateSnapshot  BY <1>2 DEF CreateSnapshot
<1>3. CASE AssertCreated  BY <1>3 DEF AssertCreated
<1>4. CASE Carry  BY <1>4 DEF Carry
<1>5. CASE StartRestore  BY <1>5 DEF StartRestore
<1>6. CASE RestoreRefused  BY <1>6 DEF RestoreRefused
<1>7. CASE WaitEnds  BY <1>7 DEF WaitEnds
<1>8. CASE WaitRefused  BY <1>8 DEF WaitRefused
<1>9. CASE Refused  BY <1>9 DEF Refused
<1>10. CASE WaitError  BY <1>10 DEF WaitError
<1>11. CASE WaitTimeout  BY <1>11 DEF WaitTimeout
<1>12. CASE OutOfAttempts  BY <1>12 DEF OutOfAttempts
<1>13. CASE WaitForRestore  BY <1>13 DEF WaitForRestore
<1>14. CASE VerifyServices  BY <1>14 DEF VerifyServices
<1>15. CASE CheckCredentials  BY <1>15 DEF CheckCredentials
<1>16. CASE CheckState  BY <1>16 DEF CheckState
<1>17. CASE CheckDeployments  BY <1>17 DEF CheckDeployments
<1>18. CASE UpgradeAgents  BY <1>18 DEF UpgradeAgents
<1>19. CASE NextRound  BY <1>19 DEF NextRound
<1>20. CASE CallFails  BY <1>20 DEF CallFails
<1>21. CASE SnapshotWritten  BY <1>21 DEF SnapshotWritten
<1>22. CASE Synced  BY <1>22 DEF Synced
<1>23. CASE RestoreUsers  BY <1>23 DEF RestoreUsers
<1>24. CASE RestChanges  BY <1>24 DEF RestChanges
<1>25. CASE RestoreEnds  BY <1>25 DEF RestoreEnds
<1>26. CASE FollowUp  BY <1>26 DEF FollowUp
<1>27. CASE UNCHANGED vars  BY <1>27 DEF vars
<1> QED
  BY <1>1, <1>2, <1>3, <1>4, <1>5, <1>6, <1>7, <1>8, <1>9, <1>10, <1>11, <1>12,
     <1>13, <1>14, <1>15, <1>16, <1>17, <1>18, <1>19, <1>20, <1>21, <1>22, <1>23, <1>24,
     <1>25, <1>26, <1>27
  DEF Next, Test, Managers

\* restore_snapshot is retried, but never on top of a restore that is running or
\* has succeeded.
THEOREM RestoresAreNeverOnTop == Spec => NeverOnTop
<1>1. Init => NoRestoreYet  BY DEF Init, NoRestoreYet
<1>2. TypeOK /\ NoRestoreYet /\ [Next]_vars => NoRestoreYet'  BY NoRestoreStep
<1>3. NoRestoreYet => [pc = "restore" /\ exec' = "running" => exec \in {"none", "missing"}]_vars
  BY DEF NoRestoreYet
<1> QED  BY <1>1, <1>2, <1>3, TypeCorrect, PTL DEF Spec, NeverOnTop

-----------------------------------------------------------------------------
(* Credentials.                                                             *)

\* The statements after the wait.
Afterwards == Restored \cup {"settled", "services", "credentials", "state", "environments"}

\* The client and the CLI profile change together, unless the client has lost its
\* TLS; and once the restore has ended the password stays.
AccessInv ==
  /\ client \in {cli, "plain"}
  /\ pc \in Afterwards => exec = "terminated" /\ client = pw /\ cli = pw

\* Each change of a password is made to both, or to the manager while it restores.
LEMMA AccessStep ==
  ASSUME TypeOK, AccessInv, [Next]_vars PROVE AccessInv'
<1> USE Bounds, LookFacts DEF TypeOK, AccessInv, Afterwards, Restored, Answered, test, retries, access, archive, manager, history, Goto, Raise, RaiseOrRetry
<1>1. CASE ConfirmEmpty  BY <1>1 DEF ConfirmEmpty
<1>2. CASE CreateSnapshot  BY <1>2 DEF CreateSnapshot
<1>3. CASE AssertCreated  BY <1>3 DEF AssertCreated
<1>4. CASE Carry  BY <1>4 DEF Carry
<1>5. CASE StartRestore  BY <1>5 DEF StartRestore
<1>6. CASE RestoreRefused  BY <1>6 DEF RestoreRefused
<1>7. CASE WaitEnds  BY <1>7 DEF WaitEnds
<1>8. CASE WaitRefused  BY <1>8 DEF WaitRefused
<1>9. CASE Refused  BY <1>9 DEF Refused
<1>10. CASE WaitError  BY <1>10 DEF WaitError
<1>11. CASE WaitTimeout  BY <1>11 DEF WaitTimeout
<1>12. CASE OutOfAttempts  BY <1>12 DEF OutOfAttempts
<1>13. CASE WaitForRestore  BY <1>13 DEF WaitForRestore
<1>14. CASE VerifyServices  BY <1>14 DEF VerifyServices
<1>15. CASE CheckCredentials  BY <1>15 DEF CheckCredentials
<1>16. CASE CheckState  BY <1>16 DEF CheckState
<1>17. CASE CheckDeployments  BY <1>17 DEF CheckDeployments
<1>18. CASE UpgradeAgents  BY <1>18 DEF UpgradeAgents
<1>19. CASE NextRound  BY <1>19 DEF NextRound
<1>20. CASE CallFails  BY <1>20 DEF CallFails
<1>21. CASE SnapshotWritten  BY <1>21 DEF SnapshotWritten
<1>22. CASE Synced  BY <1>22 DEF Synced
<1>23. CASE RestoreUsers  BY <1>23 DEF RestoreUsers
<1>24. CASE RestChanges  BY <1>24 DEF RestChanges
<1>25. CASE RestoreEnds  BY <1>25 DEF RestoreEnds
<1>26. CASE FollowUp  BY <1>26 DEF FollowUp
<1>27. CASE UNCHANGED vars  BY <1>27 DEF vars
<1> QED
  BY <1>1, <1>2, <1>3, <1>4, <1>5, <1>6, <1>7, <1>8, <1>9, <1>10, <1>11, <1>12,
     <1>13, <1>14, <1>15, <1>16, <1>17, <1>18, <1>19, <1>20, <1>21, <1>22, <1>23, <1>24,
     <1>25, <1>26, <1>27
  DEF Next, Test, Managers

\* Whatever refusals the wait has met, the rest of the test has the credentials of
\* the manager that came out of the restore.
THEOREM CredentialsFit == Spec => []AccessFits
<1>1. Init => AccessInv  BY DEF Init, AccessInv, Afterwards, Restored
<1>2. TypeOK /\ AccessInv /\ [Next]_vars => AccessInv'  BY AccessStep
<1>3. AccessInv => AccessFits  BY DEF AccessInv, AccessFits, Afterwards
<1> QED  BY <1>1, <1>2, <1>3, TypeCorrect, PTL DEF Spec

-----------------------------------------------------------------------------
(* Completeness.                                                            *)

\* What the checks have passed is there, and nobody takes it away any more.
Verified(checks) == pc \in checks \cup Restored
CheckedInv ==
  mode = "migrate" =>
    /\ Verified({"services", "credentials", "state", "environments"}) => ~post
    /\ Verified({"state", "environments"}) => "users" \in have
    /\ Verified({"environments"}) => "resources" \in have
    /\ Verified({}) => "environments" \in have

\* The checks come after the restore and after its follow-up.
LEMMA CheckedStep ==
  ASSUME TypeOK, AccessInv, CheckedInv, [Next]_vars PROVE CheckedInv'
<1> USE Bounds, LookFacts DEF TypeOK, AccessInv, Afterwards, CheckedInv, Verified, Restored,
        Answered, test, retries, access, archive, manager, history, Goto, Raise, RaiseOrRetry
<1>1. CASE ConfirmEmpty  BY <1>1 DEF ConfirmEmpty
<1>2. CASE CreateSnapshot  BY <1>2 DEF CreateSnapshot
<1>3. CASE AssertCreated  BY <1>3 DEF AssertCreated
<1>4. CASE Carry  BY <1>4 DEF Carry
<1>5. CASE StartRestore  BY <1>5 DEF StartRestore
<1>6. CASE RestoreRefused  BY <1>6 DEF RestoreRefused
<1>7. CASE WaitEnds  BY <1>7 DEF WaitEnds
<1>8. CASE WaitRefused  BY <1>8 DEF WaitRefused
<1>9. CASE Refused  BY <1>9 DEF Refused
<1>10. CASE WaitError  BY <1>10 DEF WaitError
<1>11. CASE WaitTimeout  BY <1>11 DEF WaitTimeout
<1>12. CASE OutOfAttempts  BY <1>12 DEF OutOfAttempts
<1>13. CASE WaitForRestore
  <2>1. CASE mode = "migrate"
    <3>1. pc' = "services" => ~post  BY <1>13, <2>1 DEF WaitForRestore
    <3> QED  BY <1>13, <2>1, <3>1 DEF WaitForRestore
  <2>2. CASE mode # "migrate"  BY <1>13, <2>2 DEF WaitForRestore
  <2> QED  BY <2>1, <2>2
<1>14. CASE VerifyServices  BY <1>14 DEF VerifyServices
<1>15. CASE CheckCredentials  BY <1>15 DEF CheckCredentials
<1>16. CASE CheckState  BY <1>16 DEF CheckState
<1>17. CASE CheckDeployments  BY <1>17 DEF CheckDeployments
<1>18. CASE UpgradeAgents  BY <1>18 DEF UpgradeAgents
<1>19. CASE NextRound  BY <1>19 DEF NextRound
<1>20. CASE CallFails  BY <1>20 DEF CallFails
<1>21. CASE SnapshotWritten  BY <1>21 DEF SnapshotWritten
<1>22. CASE Synced  BY <1>22 DEF Synced
<1>23. CASE RestoreUsers  BY <1>23 DEF RestoreUsers
<1>24. CASE RestChanges  BY <1>24 DEF RestChanges
<1>25. CASE RestoreEnds  BY <1>25 DEF RestoreEnds
<1>26. CASE FollowUp  BY <1>26 DEF FollowUp
<1>27. CASE UNCHANGED vars  BY <1>27 DEF vars
<1> QED
  BY <1>1, <1>2, <1>3, <1>4, <1>5, <1>6, <1>7, <1>8, <1>9, <1>10, <1>11, <1>12,
     <1>13, <1>14, <1>15, <1>16, <1>17, <1>18, <1>19, <1>20, <1>21, <1>22, <1>23, <1>24,
     <1>25, <1>26, <1>27
  DEF Next, Test, Managers

\* A migration that passes its checks has lost nothing, and its follow-up is over.
THEOREM NothingGetsLost == Spec => []NothingLost
<1>1. Init => AccessInv /\ CheckedInv
  BY DEF Init, AccessInv, Afterwards, CheckedInv, Verified, Restored
<1>2. TypeOK /\ AccessInv /\ CheckedInv /\ [Next]_vars => AccessInv' /\ CheckedInv'
  BY AccessStep, CheckedStep
<1>3. TypeOK /\ CheckedInv => NothingLost
  BY DEF TypeOK, CheckedInv, Verified, NothingLost, Parts
<1> QED  BY <1>1, <1>2, <1>3, TypeCorrect, PTL DEF Spec

-----------------------------------------------------------------------------
(* Failures.                                                                *)

\* The statements up to the restore.
Before == {"empty", "create", "created", "carry", "restore"}

\* As long as nothing has gone wrong the service is up but for the restore, each
\* part is there when its time has come, and only looks may have been too few.
CalmInv ==
  ~faulted =>
    /\ ~post => rest = "up"
    /\ exec \in {"none", "running", "terminated"} /\ snapshot # "failed"
    /\ exec = "running" => post
    /\ exec = "terminated" => "users" \in have /\ "resources" \in have
    /\ exec = "terminated" /\ ~post => "environments" \in have
    /\ pc \in Before => exec = "none" /\ ~post /\ client = pw
    /\ pc \in Before /\ mode = "migrate" => have = {}
    /\ pc = "carry" => snapshot = "created"
    /\ pc = "restore" /\ mode = "migrate" => arrived
    /\ pc \in {"empty", "carry"} \cup (Afterwards \ {"settled", "passed"}) => mode = "migrate"
    /\ pc = "failed" => late

\* Every exception is a fault's, or comes after the last look or attempt.
LEMMA CalmStep ==
  ASSUME TypeOK, AccessInv, CheckedInv, CalmInv, [Next]_vars PROVE CalmInv'
<1> USE Bounds, LookFacts DEF TypeOK, AccessInv, Afterwards, CheckedInv, Verified, Restored,
        CalmInv, Before, Answered, test, retries, access, archive, manager, history, Goto, Raise, RaiseOrRetry
<1>1. CASE ConfirmEmpty  BY <1>1 DEF ConfirmEmpty
<1>2. CASE CreateSnapshot  BY <1>2 DEF CreateSnapshot
<1>3. CASE AssertCreated  BY <1>3 DEF AssertCreated
<1>4. CASE Carry  BY <1>4 DEF Carry
<1>5. CASE StartRestore  BY <1>5 DEF StartRestore
<1>6. CASE RestoreRefused  BY <1>6 DEF RestoreRefused
<1>7. CASE WaitEnds  BY <1>7 DEF WaitEnds
<1>8. CASE WaitRefused  BY <1>8 DEF WaitRefused
<1>9. CASE Refused  BY <1>9 DEF Refused
<1>10. CASE WaitError  BY <1>10 DEF WaitError
<1>11. CASE WaitTimeout  BY <1>11 DEF WaitTimeout
<1>12. CASE OutOfAttempts  BY <1>12 DEF OutOfAttempts
<1>13. CASE WaitForRestore  BY <1>13 DEF WaitForRestore
<1>14. CASE VerifyServices  BY <1>14 DEF VerifyServices
<1>15. CASE CheckCredentials  BY <1>15 DEF CheckCredentials
<1>16. CASE CheckState  BY <1>16 DEF CheckState
<1>17. CASE CheckDeployments  BY <1>17 DEF CheckDeployments
<1>18. CASE UpgradeAgents  BY <1>18 DEF UpgradeAgents
<1>19. CASE NextRound  BY <1>19 DEF NextRound
<1>20. CASE CallFails  BY <1>20 DEF CallFails
<1>21. CASE SnapshotWritten  BY <1>21 DEF SnapshotWritten
<1>22. CASE Synced  BY <1>22 DEF Synced
<1>23. CASE RestoreUsers  BY <1>23 DEF RestoreUsers
<1>24. CASE RestChanges  BY <1>24 DEF RestChanges
<1>25. CASE RestoreEnds  BY <1>25 DEF RestoreEnds
<1>26. CASE FollowUp  BY <1>26 DEF FollowUp
<1>27. CASE UNCHANGED vars  BY <1>27 DEF vars
<1> QED
  BY <1>1, <1>2, <1>3, <1>4, <1>5, <1>6, <1>7, <1>8, <1>9, <1>10, <1>11, <1>12,
     <1>13, <1>14, <1>15, <1>16, <1>17, <1>18, <1>19, <1>20, <1>21, <1>22, <1>23, <1>24,
     <1>25, <1>26, <1>27
  DEF Next, Test, Managers

\* A test fails only if something has gone wrong, or has taken longer than it was
\* given.
THEOREM FailuresHaveCauses == Spec => []NoFalseFailure
<1>1. Init => AccessInv /\ CheckedInv /\ CalmInv
  BY DEF Init, AccessInv, Afterwards, CheckedInv, Verified, Restored, CalmInv, Before
<1>2. TypeOK /\ AccessInv /\ CheckedInv /\ CalmInv /\ [Next]_vars
        => AccessInv' /\ CheckedInv' /\ CalmInv'
  BY AccessStep, CheckedStep, CalmStep
<1>3. CalmInv => NoFalseFailure  BY DEF CalmInv, NoFalseFailure
<1> QED  BY <1>1, <1>2, <1>3, TypeCorrect, PTL DEF Spec
=============================================================================
