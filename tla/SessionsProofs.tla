--------------------------- MODULE SessionsProofs ---------------------------
(***************************************************************************)
(* Proofs about Sessions, for every number of sessions, rotations and      *)
(* commands of the CLI.                                                    *)
(***************************************************************************)
EXTENDS Sessions, TLAPS

\* Updates of one entry are typed.
LEMMA RecordUpdate ==
    ASSUME NEW f, f \in [Sids -> Record], NEW s \in Sids
    PROVE  /\ \A rec \in Record : [f EXCEPT ![s] = rec] \in [Sids -> Record]
           /\ [f EXCEPT ![s].revoked = TRUE] \in [Sids -> Record]
           /\ [f[s] EXCEPT !.revoked = TRUE] \in Record
BY DEF Record

\* So is a change of a pairing token.
LEMMA GrantUpdate ==
    pairing \in [Tokens -> Grant] =>
        \A t \in Tokens, g \in {"active", "consumed", "revoked"} :
            [pairing EXCEPT ![t] = g] \in [Tokens -> Grant]
BY DEF Grant

\* The bounds on faults and commands are kept.
LEMMA Bounds ==
    faults \in 0 .. MaxEvents /\ cli \in 0 .. MaxEvents =>
        /\ Fault => faults' \in 0 .. MaxEvents
        /\ Command => cli' \in 0 .. MaxEvents
BY SessionsAssumption DEF Fault, Command

\* Every step is typed.
LEMMA TypeStep == TypeOK /\ [Next]_vars => TypeOK'
<1> SUFFICES ASSUME TypeOK, [Next]_vars PROVE TypeOK'
  OBVIOUS
<1> USE DEF TypeOK, Generations
<1>1. ASSUME NEW s \in Sids, NEW t \in Tokens, ConsumePairing(s, t) PROVE TypeOK'
  <2>1. pairing' \in [Tokens -> Grant]
    BY <1>1, GrantUpdate DEF ConsumePairing, Tokens
  <2>2. \/ issue' = [issue EXCEPT ![s].pc = "paired"]
        \/ issue' = [issue EXCEPT ![s].pc = "failed"]
    BY <1>1 DEF ConsumePairing, Tokens
  <2>3. issue' \in [Sids -> Issue]
    BY <2>2 DEF Issue
  <2>4. faults' \in 0 .. MaxEvents
    BY <1>1, Bounds DEF ConsumePairing, Tokens
  <2> QED
    BY <2>1, <2>2, <2>3, <2>4, <1>1 DEF ConsumePairing, credentials, requests
<1>2. ASSUME NEW s \in Sids, ReadSecret(s) PROVE TypeOK'
  BY <1>2, SessionsAssumption DEF ReadSecret, credentials, requests, Record, NoRecord, Grant,
     Answer, Issue, Rotation, RotationEnded, Tokens
<1>3. ASSUME NEW s \in Sids, RecordSession(s) PROVE TypeOK'
  <2>rec. [gen |-> issue[s].gen, revoked |-> FALSE] \in Record
    BY DEF Record, Issue
  <2>1. \/ log' = [log EXCEPT ![s] = [gen |-> issue[s].gen, revoked |-> FALSE]]
        \/ log' = log
    BY <1>3 DEF RecordSession
  <2>2. log' \in [Sids -> Record]
    BY <2>1, <2>rec
  <2>3. \/ table' = [table EXCEPT ![s] = [gen |-> issue[s].gen, revoked |-> FALSE]]
        \/ table' = table
    BY <1>3 DEF RecordSession
  <2>4. table' \in [Sids -> Record]
    BY <2>3, <2>rec
  <2>5. \/ issue' = [issue EXCEPT ![s].pc = "issued"]
        \/ issue' = [issue EXCEPT ![s].pc = "failed"]
    BY <1>3 DEF RecordSession
  <2>6. issue' \in [Sids -> Issue]
    BY <2>5 DEF Issue
  <2>7. faults' \in 0 .. MaxEvents
    BY <1>3, Bounds DEF RecordSession
  <2> QED
    BY <2>1, <2>2, <2>3, <2>4, <2>5, <2>6, <2>7, <1>3 DEF RecordSession, credentials, requests
<1>4. ASSUME NEW s \in Sids, CheckSignature(s) PROVE TypeOK'
  BY <1>4, SessionsAssumption DEF CheckSignature, credentials, requests, Record, NoRecord, Grant,
     Answer, Issue, Rotation, RotationEnded, Tokens
<1>5. ASSUME NEW s \in Sids, LookUp(s) PROVE TypeOK'
  BY <1>5, SessionsAssumption DEF LookUp, credentials, requests, Record, NoRecord, Grant, Answer,
     Issue, Rotation, RotationEnded, Tokens
<1>6. ASSUME NEW s \in Sids, SignWSToken(s) PROVE TypeOK'
  BY <1>6, SessionsAssumption DEF SignWSToken, credentials, requests, Record, NoRecord, Grant,
     Answer, Issue, Rotation, RotationEnded, Tokens
<1>7. ASSUME NEW s \in Sids, RevokeSession(s) PROVE TypeOK'
  <2>1. log' \in [Sids -> Record]
    BY <1>7, RecordUpdate DEF RevokeSession
  <2>2. table' \in [Sids -> Record]
    BY <1>7, RecordUpdate DEF RevokeSession
  <2>3. killed' \subseteq Sids
    BY <1>7 DEF RevokeSession
  <2>4. faults' \in 0 .. MaxEvents
    BY <1>7, Bounds DEF RevokeSession
  <2> QED
    BY <2>1, <2>2, <2>3, <2>4, <1>7 DEF RevokeSession, credentials, requests
<1>8. ASSUME NEW r \in Rotations, NEW a \in Approvals, Validate(r, a) PROVE TypeOK'
  BY <1>8, SessionsAssumption DEF Validate, credentials, requests, Record, NoRecord, Grant,
     Answer, Issue, Rotation, RotationEnded, Tokens
<1>9. ASSUME NEW r \in Rotations, ListPairings(r) PROVE TypeOK'
  BY <1>9, SessionsAssumption DEF ListPairings, credentials, requests, Record, NoRecord, Grant,
     Answer, Issue, Rotation, RotationEnded, Tokens
<1>10. ASSUME NEW r \in Rotations, CreatePairing(r) PROVE TypeOK'
  <2>1. pairing' \in [Tokens -> Grant]
    BY <1>10, GrantUpdate DEF CreatePairing, Tokens, Step, Fail
  <2>2. \/ rot' = [rot EXCEPT ![r].pc = "closing"]
        \/ rot' = [rot EXCEPT ![r].pc = "failed"]
    BY <1>10 DEF CreatePairing, Tokens, Step, Fail
  <2>3. rot' \in [Rotations -> Rotation]
    BY <2>2 DEF Rotation, RotationEnded
  <2>4. faults' \in 0 .. MaxEvents
    BY <1>10, Bounds DEF CreatePairing, Tokens, Step, Fail
  <2> QED
    BY <2>1, <2>2, <2>3, <2>4, <1>10 DEF CreatePairing, credentials, requests
<1>11. ASSUME NEW r \in Rotations, NEW t \in Tokens, RevokePairing(r, t) PROVE TypeOK'
  <2>1. pairing' \in [Tokens -> Grant]
    BY <1>11, GrantUpdate DEF RevokePairing, Step, Fail
  <2>2. \/ rot' = [rot EXCEPT ![r].todo = @ \ {t}]
        \/ rot' = [rot EXCEPT ![r].pc = "undo"]
    BY <1>11 DEF RevokePairing, Step, Fail
  <2>3. rot' \in [Rotations -> Rotation]
    BY <2>2 DEF Rotation, RotationEnded
  <2>4. faults' \in 0 .. MaxEvents
    BY <1>11, Bounds DEF RevokePairing, Step, Fail
  <2> QED
    BY <2>1, <2>2, <2>3, <2>4, <1>11 DEF RevokePairing, credentials, requests
<1>12. ASSUME NEW r \in Rotations, ConsumeApproval(r) PROVE TypeOK'
  <2>1. approval' \in [Approvals -> Answer]
    BY <1>12 DEF ConsumeApproval, Step, Fail, Answer
  <2>2. \/ rot' = [rot EXCEPT ![r].pc = "consumed"]
        \/ rot' = [rot EXCEPT ![r].pc = "undo"]
    BY <1>12 DEF ConsumeApproval, Step, Fail
  <2>3. rot' \in [Rotations -> Rotation]
    BY <2>2 DEF Rotation, RotationEnded
  <2>4. faults' \in 0 .. MaxEvents
    BY <1>12, Bounds DEF ConsumeApproval, Step, Fail
  <2> QED
    BY <2>1, <2>2, <2>3, <2>4, <1>12 DEF ConsumeApproval, credentials, requests
<1>13. ASSUME NEW r \in Rotations, RotateSecret(r) PROVE TypeOK'
  <2>1. gen' \in Generations
    BY <1>13 DEF RotateSecret, Step, Fail, Generations
  <2>2. \/ rot' = [rot EXCEPT ![r].pc = "rotated"]
        \/ rot' = [rot EXCEPT ![r].pc = "undo"]
    BY <1>13 DEF RotateSecret, Step, Fail
  <2>3. rot' \in [Rotations -> Rotation]
    BY <2>2 DEF Rotation, RotationEnded
  <2>4. faults' \in 0 .. MaxEvents
    BY <1>13, Bounds DEF RotateSecret, Step, Fail
  <2> QED
    BY <2>1, <2>2, <2>3, <2>4, <1>13 DEF RotateSecret, credentials, requests
<1>14. ASSUME NEW r \in Rotations, ClearSessions(r) PROVE TypeOK'
  BY <1>14, SessionsAssumption DEF ClearSessions, Step, credentials, requests, Record, NoRecord,
     Grant, Answer, Issue, Rotation, RotationEnded, Tokens
<1>15. ASSUME NEW r \in Rotations, Undo(r) PROVE TypeOK'
  <2>1. pairing' \in [Tokens -> Grant]
    BY <1>15, GrantUpdate DEF Undo, Step, Tokens
  <2>2. rot' = [rot EXCEPT ![r].pc = "failed"]
    BY <1>15 DEF Undo, Step, Tokens
  <2>3. rot' \in [Rotations -> Rotation]
    BY <2>2 DEF Rotation, RotationEnded
  <2>4. faults' \in 0 .. MaxEvents
    BY <1>15, Bounds DEF Undo, Step, Tokens
  <2> QED
    BY <2>1, <2>2, <2>3, <2>4, <1>15 DEF Undo, credentials, requests
<1>16. ASSUME NEW a \in Approvals, NEW to \in Answer, Decide(a, to) PROVE TypeOK'
  BY <1>16, SessionsAssumption DEF Decide, credentials, requests, Record, NoRecord, Grant, Answer,
     Issue, Rotation, RotationEnded, Tokens
<1>17. ASSUME Restart PROVE TypeOK'
  <2>1. table' \in [Sids -> Record]
    BY <1>17, RecordUpdate DEF Restart, Loaded, NoRecord, Record
  <2>2. issue' \in [Sids -> Issue]
    BY <1>17 DEF Restart, Issue
  <2>3. rot' \in [Rotations -> Rotation]
    BY <1>17 DEF Restart, Rotation, RotationEnded
  <2>4. faults' \in 0 .. MaxEvents
    BY <1>17, Bounds DEF Restart
  <2> QED
    BY <2>1, <2>2, <2>3, <2>4, <1>17 DEF Restart, credentials, requests
<1>18. ASSUME NEW t \in Pairings, CliCreatePairing(t) PROVE TypeOK'
  BY <1>18, SessionsAssumption DEF CliCreatePairing, Command, credentials, requests, Record,
     NoRecord, Grant, Answer, Issue, Rotation, RotationEnded, Tokens
<1>19. ASSUME NEW t \in Tokens, CliRevokePairing(t) PROVE TypeOK'
  BY <1>19, SessionsAssumption DEF CliRevokePairing, Command, credentials, requests, Record,
     NoRecord, Grant, Answer, Issue, Rotation, RotationEnded, Tokens
<1>20. ASSUME NEW s \in Sids, CliRevokeSession(s) PROVE TypeOK'
  <2>1. log' \in [Sids -> Record]
    BY <1>20, RecordUpdate DEF CliRevokeSession
  <2>2. cut' \subseteq Sids
    BY <1>20 DEF CliRevokeSession
  <2>3. cli' \in 0 .. MaxEvents
    BY <1>20, Bounds DEF CliRevokeSession
  <2> QED
    BY <2>1, <2>2, <2>3, <1>20 DEF CliRevokeSession, credentials, requests
<1>21. ASSUME CliRotateSecret PROVE TypeOK'
  BY <1>21, SessionsAssumption DEF CliRotateSecret, Command, credentials, requests, Record,
     NoRecord, Grant, Answer, Issue, Rotation, RotationEnded, Tokens
<1>22. CASE UNCHANGED vars
  BY <1>22 DEF vars, credentials, requests
<1> QED
  BY <1>1, <1>2, <1>3, <1>4, <1>5, <1>6, <1>7, <1>8, <1>9, <1>10, <1>11, <1>12, <1>13, <1>14,
     <1>15, <1>16, <1>17, <1>18, <1>19, <1>20, <1>21, <1>22 DEF Next, Session, Rotate, Cli

\* Type correctness of the stores and of the requests, for all constants.
THEOREM TypeCorrect == Spec => []TypeOK
<1>1. Init => TypeOK
  BY SessionsAssumption DEF Init, TypeOK, Generations, Record, NoRecord, Grant, Answer, Issue,
     Rotation,
     RotationEnded, Tokens
<1> QED
  BY <1>1, TypeStep, PTL DEF Spec

-----------------------------------------------------------------------------
\* The inductive invariant

\* A session has a line only if its request got to the point of writing it,
\* and of the generation of its bearer.
IssuedOnce == \A s \in {k \in Sids : log[k].gen # 0} :
                 /\ issue[s].pc \in {"issued", "failed"}
                 /\ log[s].gen = issue[s].gen

\* What RevokeSession has answered for is in the file and in the table.
KilledIsLogged == \A s \in killed : /\ log[s].gen # 0
                                    /\ log[s].revoked
                                    /\ table[s].gen # 0 => table[s].revoked

\* Only a bearer that was handed out gets anywhere.
UsedIsIssued == \A s \in Sids : s \in seen \/ s \in authorised \/ ws[s] # {} => issue[s].pc = "issued"

\* Between rotations the table holds no session of an earlier generation,
\* except for those whose bearer was dead when it was handed out.
TurnedIsCleared == (\A r \in Rotations : rot[r].pc # "rotated") /\ cli = 0 =>
    \A s \in {k \in Sids : table[k].gen # 0 /\ table[k].gen # gen} :
        s \notin seen /\ s \notin authorised /\ ws[s] = {}

Spent(r) == rot[r].pc \in {"consumed", "rotated", "done"}

\* A rotation that is past its approval has used it up, for itself alone.
ApprovalIsUsed == /\ \A r \in Rotations : Spent(r) => approval[rot[r].approval] = "over"
                  /\ \A q, r \in Rotations : /\ Spent(q) /\ Spent(r) /\ rot[q].approval = rot[r].approval
                                             => q = r

IInv == /\ TypeOK /\ TableIsLogged /\ IssuedOnce /\ KilledIsLogged
        /\ UsedIsIssued /\ TurnedIsCleared /\ ApprovalIsUsed

\* Every step keeps the inductive invariant.
LEMMA InvStep == IInv /\ [Next]_vars => IInv'
<1> SUFFICES ASSUME IInv, [Next]_vars PROVE IInv'
  OBVIOUS
<1> USE DEF IInv
<1>t. TypeOK'
  BY TypeStep
<1>1. ASSUME NEW s \in Sids, NEW t \in Tokens, ConsumePairing(s, t) PROVE IInv'
  <2>1. IssuedOnce'
    BY <1>1 DEF ConsumePairing, TypeOK, IssuedOnce, credentials, requests
  <2>2. UsedIsIssued'
    BY <1>1 DEF ConsumePairing, TypeOK, UsedIsIssued, credentials, requests
  <2>3. TableIsLogged' /\ KilledIsLogged' /\ TurnedIsCleared' /\ ApprovalIsUsed'
    BY <1>1 DEF ConsumePairing, TableIsLogged, KilledIsLogged, TurnedIsCleared, ApprovalIsUsed,
       Spent, credentials, requests
  <2> QED
    BY <1>t, <2>1, <2>2, <2>3
<1>2. ASSUME NEW s \in Sids, ReadSecret(s) PROVE IInv'
  <2>1. IssuedOnce'
    BY <1>2 DEF ReadSecret, TypeOK, IssuedOnce, credentials, requests
  <2>2. UsedIsIssued'
    BY <1>2 DEF ReadSecret, TypeOK, UsedIsIssued, credentials, requests
  <2>3. TableIsLogged' /\ KilledIsLogged' /\ TurnedIsCleared' /\ ApprovalIsUsed'
    BY <1>2 DEF ReadSecret, TableIsLogged, KilledIsLogged, TurnedIsCleared, ApprovalIsUsed, Spent,
       credentials, requests
  <2> QED
    BY <1>t, <2>1, <2>2, <2>3
<1>3. ASSUME NEW s \in Sids, RecordSession(s) PROVE IInv'
  <2>1. log[s].gen = 0 /\ table[s].gen = 0 /\ s \notin killed /\ s \notin seen /\ s \notin authorised /\ ws[s] = {}
    BY <1>3 DEF RecordSession, TypeOK, IssuedOnce, TableIsLogged, KilledIsLogged, UsedIsIssued
  <2>2. \A k \in Sids \ {s} : log'[k] = log[k] /\ table'[k] = table[k] /\ issue'[k] = issue[k]
    BY <1>3 DEF RecordSession, TypeOK
  <2>3. issue'[s].gen = issue[s].gen /\ issue'[s].pc \in {"issued", "failed"}
    BY <1>3 DEF RecordSession, TypeOK, Issue
  <2>4. \/ log'[s] = [gen |-> issue[s].gen, revoked |-> FALSE] /\ table'[s] \in {table[s], log'[s]}
        \/ log'[s] = log[s] /\ table'[s] = table[s]
    BY <1>3 DEF RecordSession, TypeOK
  <2>5. killed \subseteq Sids
    BY <1>3 DEF TypeOK
  <2>6. UNCHANGED <<gen, rot, cli, killed, seen, authorised, ws>>
    BY <1>3 DEF RecordSession, requests, credentials
  <2>7. TableIsLogged'
    BY <2>1, <2>2, <2>3, <2>4, <2>5, <2>6 DEF TableIsLogged
  <2>8. IssuedOnce'
    BY <2>1, <2>2, <2>3, <2>4, <2>5, <2>6 DEF IssuedOnce
  <2>9. KilledIsLogged'
    BY <2>1, <2>2, <2>3, <2>4, <2>5, <2>6 DEF KilledIsLogged
  <2>10. UsedIsIssued'
    BY <1>3, <2>1, <2>2, <2>3, <2>4, <2>5, <2>6 DEF RecordSession, TypeOK, UsedIsIssued,
       credentials, requests
  <2>11. TurnedIsCleared'
    BY <2>1, <2>2, <2>3, <2>4, <2>5, <2>6 DEF TurnedIsCleared
  <2>12. ApprovalIsUsed'
    BY <1>3 DEF RecordSession, ApprovalIsUsed, Spent, credentials, requests
  <2> QED
    BY <1>t, <2>7, <2>8, <2>9, <2>10, <2>11, <2>12
<1>4. ASSUME NEW s \in Sids, CheckSignature(s) PROVE IInv'
  <2>1. UsedIsIssued'
    BY <1>4 DEF CheckSignature, Signed, TypeOK, UsedIsIssued, credentials, requests
  <2>2. TurnedIsCleared'
    BY <1>4 DEF CheckSignature, Signed, TypeOK, TurnedIsCleared, IssuedOnce, TableIsLogged,
       credentials, requests
  <2>3. TableIsLogged' /\ IssuedOnce' /\ KilledIsLogged' /\ ApprovalIsUsed'
    BY <1>4 DEF CheckSignature, TableIsLogged, IssuedOnce, KilledIsLogged, ApprovalIsUsed, Spent,
       credentials, requests
  <2> QED
    BY <1>t, <2>1, <2>2, <2>3
<1>5. ASSUME NEW s \in Sids, LookUp(s) PROVE IInv'
  <2>1. UsedIsIssued'
    BY <1>5 DEF LookUp, Known, TypeOK, UsedIsIssued, credentials, requests
  <2>2. TurnedIsCleared'
    BY <1>5 DEF LookUp, Known, TypeOK, TurnedIsCleared, credentials, requests
  <2>3. TableIsLogged' /\ IssuedOnce' /\ KilledIsLogged' /\ ApprovalIsUsed'
    BY <1>5 DEF LookUp, TableIsLogged, IssuedOnce, KilledIsLogged, ApprovalIsUsed, Spent,
       credentials, requests
  <2> QED
    BY <1>t, <2>1, <2>2, <2>3
<1>6. ASSUME NEW s \in Sids, SignWSToken(s) PROVE IInv'
  <2>1. UsedIsIssued'
    BY <1>6 DEF SignWSToken, TypeOK, UsedIsIssued, credentials, requests
  <2>2. TurnedIsCleared'
    BY <1>6 DEF SignWSToken, TypeOK, TurnedIsCleared, credentials, requests
  <2>3. TableIsLogged' /\ IssuedOnce' /\ KilledIsLogged' /\ ApprovalIsUsed'
    BY <1>6 DEF SignWSToken, TableIsLogged, IssuedOnce, KilledIsLogged, ApprovalIsUsed, Spent,
       credentials, requests
  <2> QED
    BY <1>t, <2>1, <2>2, <2>3
<1>7. ASSUME NEW s \in Sids, RevokeSession(s) PROVE IInv'
  <2>1. \A k \in Sids \ {s} : log'[k] = log[k] /\ table'[k] = table[k]
    BY <1>7 DEF RevokeSession, TypeOK
  <2>2. \/ log'[s].gen = table[s].gen /\ log'[s].revoked
        \/ log'[s] = log[s]
    BY <1>7 DEF RevokeSession, TypeOK, Record
  <2>3. \/ table'[s].gen = table[s].gen /\ table'[s].revoked /\ log'[s].revoked /\ killed' = killed \cup {s}
        \/ table'[s] = table[s] /\ killed' = killed
    BY <1>7 DEF RevokeSession, TypeOK, Record
  <2>4. table[s].gen # 0 /\ ~table[s].revoked /\ log[s].gen = table[s].gen
    BY <1>7 DEF RevokeSession, Known, TableIsLogged
  <2>5. killed \subseteq Sids
    BY <1>7 DEF TypeOK
  <2>6. UNCHANGED <<gen, rot, cli, issue, seen, authorised, ws>>
    BY <1>7 DEF RevokeSession, requests, credentials
  <2>7. TableIsLogged'
    BY <2>1, <2>2, <2>3, <2>4, <2>5, <2>6 DEF TableIsLogged
  <2>8. IssuedOnce'
    BY <2>1, <2>2, <2>3, <2>4, <2>5, <2>6 DEF IssuedOnce
  <2>9. KilledIsLogged'
    BY <2>1, <2>2, <2>3, <2>4, <2>5, <2>6 DEF KilledIsLogged
  <2>10. TurnedIsCleared'
    BY <2>1, <2>2, <2>3, <2>4, <2>5, <2>6 DEF TurnedIsCleared
  <2>11. UsedIsIssued' /\ ApprovalIsUsed'
    BY <1>7 DEF RevokeSession, UsedIsIssued, ApprovalIsUsed, Spent, credentials, requests
  <2> QED
    BY <1>t, <2>7, <2>8, <2>9, <2>10, <2>11
<1>8. ASSUME NEW r \in Rotations, NEW a \in Approvals, Validate(r, a) PROVE IInv'
  <2>1. TurnedIsCleared'
    BY <1>8 DEF Validate, TypeOK, TurnedIsCleared, credentials, requests
  <2>2. ApprovalIsUsed'
    BY <1>8 DEF Validate, TypeOK, ApprovalIsUsed, Spent, credentials, requests
  <2>3. TableIsLogged' /\ IssuedOnce' /\ KilledIsLogged' /\ UsedIsIssued'
    BY <1>8 DEF Validate, TableIsLogged, IssuedOnce, KilledIsLogged, UsedIsIssued, credentials,
       requests
  <2> QED
    BY <1>t, <2>1, <2>2, <2>3
<1>9. ASSUME NEW r \in Rotations, ListPairings(r) PROVE IInv'
  <2>1. TurnedIsCleared'
    BY <1>9 DEF ListPairings, TypeOK, TurnedIsCleared, credentials, requests
  <2>2. ApprovalIsUsed'
    BY <1>9 DEF ListPairings, TypeOK, ApprovalIsUsed, Spent, credentials, requests
  <2>3. TableIsLogged' /\ IssuedOnce' /\ KilledIsLogged' /\ UsedIsIssued'
    BY <1>9 DEF ListPairings, TableIsLogged, IssuedOnce, KilledIsLogged, UsedIsIssued,
       credentials, requests
  <2> QED
    BY <1>t, <2>1, <2>2, <2>3
<1>10. ASSUME NEW r \in Rotations, CreatePairing(r) PROVE IInv'
  <2>1. \A q \in Rotations : rot'[q].approval = rot[q].approval /\ (Spent(q)' => Spent(q))
    BY <1>10 DEF CreatePairing, Step, Fail, Spent, TypeOK, Rotation
  <2>2. approval' = approval
    BY <1>10 DEF CreatePairing
  <2>3. TurnedIsCleared'
    BY <1>10, <2>1, <2>2 DEF CreatePairing, Step, Fail, TypeOK, TurnedIsCleared, credentials,
       requests
  <2>4. ApprovalIsUsed'
    BY <2>1, <2>2 DEF ApprovalIsUsed, Spent
  <2>5. TableIsLogged' /\ IssuedOnce' /\ KilledIsLogged' /\ UsedIsIssued'
    BY <1>10 DEF CreatePairing, TableIsLogged, IssuedOnce, KilledIsLogged, UsedIsIssued,
       credentials, requests
  <2> QED
    BY <1>t, <2>3, <2>4, <2>5
<1>11. ASSUME NEW r \in Rotations, NEW t \in Tokens, RevokePairing(r, t) PROVE IInv'
  <2>1. \A q \in Rotations : rot'[q].approval = rot[q].approval /\ (Spent(q)' => Spent(q))
    BY <1>11 DEF RevokePairing, Step, Fail, Spent, TypeOK, Rotation
  <2>2. approval' = approval
    BY <1>11 DEF RevokePairing
  <2>3. TurnedIsCleared'
    BY <1>11, <2>1, <2>2 DEF RevokePairing, Step, Fail, TypeOK, TurnedIsCleared, credentials,
       requests
  <2>4. ApprovalIsUsed'
    BY <2>1, <2>2 DEF ApprovalIsUsed, Spent
  <2>5. TableIsLogged' /\ IssuedOnce' /\ KilledIsLogged' /\ UsedIsIssued'
    BY <1>11 DEF RevokePairing, TableIsLogged, IssuedOnce, KilledIsLogged, UsedIsIssued,
       credentials, requests
  <2> QED
    BY <1>t, <2>3, <2>4, <2>5
<1>12. ASSUME NEW r \in Rotations, ConsumeApproval(r) PROVE IInv'
  <2>1. \A q \in Rotations : rot'[q].approval = rot[q].approval /\ (q # r => rot'[q] = rot[q])
    BY <1>12 DEF ConsumeApproval, Step, Fail, TypeOK, Rotation
  <2>2. ~Spent(r)
    BY <1>12 DEF ConsumeApproval, Step, Fail, Spent
  <2>3. \A q \in Rotations : approval[rot[q].approval] = "over" => approval'[rot[q].approval] = "over"
    BY <1>12 DEF ConsumeApproval, TypeOK, Rotation
  <2>4. Spent(r)' => approval[rot[r].approval] = "approved" /\ approval'[rot[r].approval] = "over"
    BY <1>12 DEF ConsumeApproval, Step, Fail, TypeOK, Rotation, Spent
  <2>5. TurnedIsCleared'
    BY <1>12, <2>1, <2>2, <2>3, <2>4 DEF ConsumeApproval, Step, Fail, TypeOK, TurnedIsCleared,
       credentials, requests
  <2>6. ApprovalIsUsed'
    BY <2>1, <2>2, <2>3, <2>4 DEF ApprovalIsUsed, Spent
  <2>7. TableIsLogged' /\ IssuedOnce' /\ KilledIsLogged' /\ UsedIsIssued'
    BY <1>12 DEF ConsumeApproval, TableIsLogged, IssuedOnce, KilledIsLogged, UsedIsIssued,
       credentials, requests
  <2> QED
    BY <1>t, <2>5, <2>6, <2>7
<1>13. ASSUME NEW r \in Rotations, RotateSecret(r) PROVE IInv'
  <2>1. \A q \in Rotations : rot'[q].approval = rot[q].approval /\ (Spent(q)' => Spent(q))
    BY <1>13 DEF RotateSecret, Step, Fail, Spent, TypeOK, Rotation
  <2>2. approval' = approval
    BY <1>13 DEF RotateSecret
  <2>3. (\A q \in Rotations : rot'[q].pc # "rotated") => gen' = gen /\ rot[r].pc # "rotated" /\ \A q \in Rotations : rot[q].pc # "rotated"
    BY <1>13 DEF RotateSecret, Step, Fail, TypeOK, Rotation
  <2>4. UNCHANGED <<table, seen, authorised, ws, cli>>
    BY <1>13 DEF RotateSecret
  <2>5. TurnedIsCleared'
    BY <2>1, <2>2, <2>3, <2>4 DEF TurnedIsCleared
  <2>6. ApprovalIsUsed'
    BY <2>1, <2>2, <2>3, <2>4 DEF ApprovalIsUsed, Spent
  <2>7. TableIsLogged' /\ IssuedOnce' /\ KilledIsLogged' /\ UsedIsIssued'
    BY <1>13 DEF RotateSecret, TableIsLogged, IssuedOnce, KilledIsLogged, UsedIsIssued,
       credentials, requests
  <2> QED
    BY <1>t, <2>5, <2>6, <2>7
<1>14. ASSUME NEW r \in Rotations, ClearSessions(r) PROVE IInv'
  <2>1. \A k \in Sids : table'[k].gen = 0
    BY <1>14 DEF ClearSessions, NoRecord
  <2>2. \A q \in Rotations : rot'[q].approval = rot[q].approval /\ (Spent(q)' => Spent(q))
    BY <1>14 DEF ClearSessions, Step, Spent, TypeOK, Rotation
  <2>3. UNCHANGED <<log, killed, approval>>
    BY <1>14 DEF ClearSessions, credentials
  <2>4. killed \subseteq Sids
    BY <1>14 DEF TypeOK
  <2>5. TableIsLogged'
    BY <2>1, <2>2, <2>3, <2>4 DEF TableIsLogged
  <2>6. KilledIsLogged'
    BY <2>1, <2>2, <2>3, <2>4 DEF KilledIsLogged
  <2>7. TurnedIsCleared'
    BY <2>1, <2>2, <2>3, <2>4 DEF TurnedIsCleared
  <2>8. ApprovalIsUsed'
    BY <2>1, <2>2, <2>3, <2>4 DEF ApprovalIsUsed, Spent
  <2>9. IssuedOnce' /\ UsedIsIssued'
    BY <1>14 DEF ClearSessions, IssuedOnce, UsedIsIssued, credentials, requests
  <2> QED
    BY <1>t, <2>5, <2>6, <2>7, <2>8, <2>9
<1>15. ASSUME NEW r \in Rotations, Undo(r) PROVE IInv'
  <2>1. \A q \in Rotations : rot'[q].approval = rot[q].approval /\ (Spent(q)' => Spent(q))
    BY <1>15 DEF Undo, Step, Spent, TypeOK, Rotation
  <2>2. approval' = approval
    BY <1>15 DEF Undo
  <2>3. TurnedIsCleared'
    BY <1>15, <2>1, <2>2 DEF Undo, Step, TypeOK, TurnedIsCleared, credentials, requests
  <2>4. ApprovalIsUsed'
    BY <2>1, <2>2 DEF ApprovalIsUsed, Spent
  <2>5. TableIsLogged' /\ IssuedOnce' /\ KilledIsLogged' /\ UsedIsIssued'
    BY <1>15 DEF Undo, TableIsLogged, IssuedOnce, KilledIsLogged, UsedIsIssued, credentials,
       requests
  <2> QED
    BY <1>t, <2>3, <2>4, <2>5
<1>16. ASSUME NEW a \in Approvals, NEW to \in Answer, Decide(a, to) PROVE IInv'
  <2>1. ApprovalIsUsed'
    BY <1>16 DEF Decide, TypeOK, ApprovalIsUsed, Spent, credentials, requests
  <2>2. TableIsLogged' /\ IssuedOnce' /\ KilledIsLogged' /\ UsedIsIssued' /\ TurnedIsCleared'
    BY <1>16 DEF Decide, TableIsLogged, IssuedOnce, KilledIsLogged, UsedIsIssued, TurnedIsCleared,
       credentials, requests
  <2> QED
    BY <1>t, <2>1, <2>2
<1>17. ASSUME Restart PROVE IInv'
  <2>1. TableIsLogged'
    BY <1>17 DEF Restart, Loaded, NoRecord, RotationEnded, TypeOK, TableIsLogged, credentials,
       requests
  <2>2. IssuedOnce'
    BY <1>17 DEF Restart, Loaded, NoRecord, RotationEnded, TypeOK, IssuedOnce, credentials, requests
  <2>3. KilledIsLogged'
    BY <1>17 DEF Restart, Loaded, NoRecord, RotationEnded, TypeOK, KilledIsLogged, credentials,
       requests
  <2>4. UsedIsIssued'
    BY <1>17 DEF Restart, Loaded, NoRecord, RotationEnded, TypeOK, UsedIsIssued, credentials,
       requests
  <2>5. TurnedIsCleared'
    BY <1>17 DEF Restart, Loaded, NoRecord, RotationEnded, TypeOK, TurnedIsCleared, credentials,
       requests
  <2>6. ApprovalIsUsed'
    BY <1>17 DEF Restart, Loaded, NoRecord, RotationEnded, TypeOK, ApprovalIsUsed, Spent,
       credentials, requests
  <2> QED
    BY <1>t, <2>1, <2>2, <2>3, <2>4, <2>5, <2>6
<1>18. ASSUME NEW t \in Pairings, CliCreatePairing(t) PROVE IInv'
  <2>1. TurnedIsCleared'
    BY <1>18 DEF CliCreatePairing, Command, TypeOK, TurnedIsCleared, credentials, requests
  <2>2. TableIsLogged' /\ IssuedOnce' /\ KilledIsLogged' /\ UsedIsIssued' /\ ApprovalIsUsed'
    BY <1>18 DEF CliCreatePairing, TableIsLogged, IssuedOnce, KilledIsLogged, UsedIsIssued,
       ApprovalIsUsed, Spent, credentials, requests
  <2> QED
    BY <1>t, <2>1, <2>2
<1>19. ASSUME NEW t \in Tokens, CliRevokePairing(t) PROVE IInv'
  <2>1. TurnedIsCleared'
    BY <1>19 DEF CliRevokePairing, Command, TypeOK, TurnedIsCleared, credentials, requests
  <2>2. TableIsLogged' /\ IssuedOnce' /\ KilledIsLogged' /\ UsedIsIssued' /\ ApprovalIsUsed'
    BY <1>19 DEF CliRevokePairing, TableIsLogged, IssuedOnce, KilledIsLogged, UsedIsIssued,
       ApprovalIsUsed, Spent, credentials, requests
  <2> QED
    BY <1>t, <2>1, <2>2
<1>20. ASSUME NEW s \in Sids, CliRevokeSession(s) PROVE IInv'
  <2>1. \A k \in Sids : log'[k].gen = log[k].gen
    BY <1>20 DEF CliRevokeSession, TypeOK, Record
  <2>2. \A k \in Sids : log[k].revoked => log'[k].revoked
    BY <1>20 DEF CliRevokeSession, TypeOK, Record
  <2>3. killed \subseteq Sids
    BY <1>20 DEF TypeOK
  <2>4. UNCHANGED <<table, issue, killed>> /\ cli' # 0
    BY <1>20 DEF CliRevokeSession, Command, TypeOK, requests
  <2>5. TableIsLogged'
    BY <2>1, <2>2, <2>3, <2>4 DEF TableIsLogged
  <2>6. IssuedOnce'
    BY <2>1, <2>2, <2>3, <2>4 DEF IssuedOnce
  <2>7. KilledIsLogged'
    BY <2>1, <2>2, <2>3, <2>4 DEF KilledIsLogged
  <2>8. TurnedIsCleared'
    BY <2>1, <2>2, <2>3, <2>4 DEF TurnedIsCleared
  <2>9. UsedIsIssued' /\ ApprovalIsUsed'
    BY <1>20 DEF CliRevokeSession, UsedIsIssued, ApprovalIsUsed, Spent, credentials, requests
  <2> QED
    BY <1>t, <2>5, <2>6, <2>7, <2>8, <2>9
<1>21. ASSUME CliRotateSecret PROVE IInv'
  <2>1. TurnedIsCleared'
    BY <1>21 DEF CliRotateSecret, Command, TypeOK, TurnedIsCleared, credentials, requests
  <2>2. TableIsLogged' /\ IssuedOnce' /\ KilledIsLogged' /\ UsedIsIssued' /\ ApprovalIsUsed'
    BY <1>21 DEF CliRotateSecret, TableIsLogged, IssuedOnce, KilledIsLogged, UsedIsIssued,
       ApprovalIsUsed, Spent, credentials, requests
  <2> QED
    BY <1>t, <2>1, <2>2
<1>22. CASE UNCHANGED vars
  BY <1>22, <1>t DEF vars, credentials, requests, TableIsLogged, IssuedOnce, KilledIsLogged,
     UsedIsIssued, TurnedIsCleared, ApprovalIsUsed, Spent
<1> QED
  BY <1>1, <1>2, <1>3, <1>4, <1>5, <1>6, <1>7, <1>8, <1>9, <1>10, <1>11, <1>12, <1>13, <1>14,
     <1>15, <1>16, <1>17, <1>18, <1>19, <1>20, <1>21, <1>22 DEF Next, Session, Rotate, Cli

\* The inductive invariant holds in every state.
LEMMA Invariance == Spec => []IInv
<1>1. Init => IInv
  <2>1. Init => TypeOK
    BY SessionsAssumption DEF Init, TypeOK, Generations, Record, NoRecord, Grant, Answer, Issue,
       Rotation,
       RotationEnded, Tokens
  <2> QED
    BY <2>1 DEF Init, IInv, TableIsLogged, IssuedOnce, KilledIsLogged, UsedIsIssued,
       TurnedIsCleared,
       ApprovalIsUsed, Spent, NoRecord
<1> QED
  BY <1>1, InvStep, PTL DEF Spec

\* The session table is never ahead of sessions.jsonl, for any number of
\* sessions, rotations, failed writes and commands of the CLI.
THEOREM TableLogged == Spec => []TableIsLogged
<1>1. IInv => TableIsLogged
  BY DEF IInv
<1> QED
  BY <1>1, Invariance, PTL

\* A session revoked by the daemon is never accepted again.
THEOREM RevocationIsFinal == Spec => []RevokedStaysRevoked
<1>1. IInv => RevokedStaysRevoked
  <2>1. KilledIsLogged => \A s \in killed : ~Known(s)
    BY DEF KilledIsLogged, Known
  <2> QED
    BY <2>1 DEF IInv, RevokedStaysRevoked, Accepted, AcceptedWS
<1> QED
  BY <1>1, Invariance, PTL

\* Between rotations no WebSocket token outlives its bearer.
THEOREM WSOnlyWithSession == Spec => []WSWithSession
<1>1. IInv => WSWithSession
  <2> SUFFICES ASSUME IInv, \A r \in Rotations : rot[r].pc # "rotated", cli = 0,
                      NEW s \in Sids, AcceptedWS(s)
               PROVE  Accepted(s)
    BY DEF WSWithSession
  <2>1. gen \in ws[s] /\ Known(s)
    BY DEF AcceptedWS
  <2>2. table[s].gen = gen
    BY <2>1 DEF IInv, TurnedIsCleared, Known
  <2>3. issue[s].pc = "issued" /\ issue[s].gen = gen
    BY <2>1, <2>2 DEF IInv, UsedIsIssued, IssuedOnce, TableIsLogged, Known
  <2> QED
    BY <2>1, <2>3 DEF Accepted, Signed
<1> QED
  BY <1>1, Invariance, PTL

\* However many rotations were validated with an approval, one uses it.
THEOREM ApprovalUsedOnce == Spec => []OneRotationPerApproval
<1>1. IInv => OneRotationPerApproval
  BY DEF IInv, ApprovalIsUsed, Spent, OneRotationPerApproval
<1> QED
  BY <1>1, Invariance, PTL
=============================================================================
