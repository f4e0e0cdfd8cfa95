------------------------------ MODULE Sessions ------------------------------
(***************************************************************************)
(* Credentials of the daemon (apps/daemon/internal/auth), the handlers     *)
(* that use them (internal/api/auth.go) and the commands of the CLI on the *)
(* same files (cmd/hoopoe/auth.go): pairing tokens, bearer sessions, the   *)
(* signing secret and its rotation.                                        *)
(*                                                                         *)
(* Pairings, secret and session table have a lock each, and none is held   *)
(* from one call of a handler to the next: every call is an action.  The   *)
(* methods that use two of the stores (IssueBearer, IssueWSToken, verify,  *)
(* RotateSecret) are two actions.  Every session is an owner's, and tokens *)
(* do not expire.                                                          *)
(***************************************************************************)
EXTENDS Integers, TLC

CONSTANTS
    Sids,          \* sessions; each stands for one bootstrap request
    Rotations,     \* rotate-secret requests, and the pairing each creates
    Pairings,      \* the other pairing tokens
    Approvals,     \* approvals of a rotation
    MaxEvents      \* bound on failed writes, crashes and commands of the CLI

ASSUME SessionsAssumption == /\ Rotations \cap Pairings = {}
                             /\ MaxEvents \in Nat

VARIABLES
    gen,        \* generation of the secret on disk
    log,        \* log[s]: the last line of session s in sessions.jsonl
    table,      \* table[s]: SessionCredentialService.sessions[s]
    pairing,    \* pairing[t]: state of pairing token t
    approval,   \* approval[a]: state of approval a, as the queue answers
    issue,      \* issue[s]: the bootstrap request, and the bearer it answers
    seen,       \* sessions whose bearer passed the signature check of a request
    authorised, \* ... and then the look-up in the table
    ws,         \* ws[s]: generations that signed a WebSocket token of s
    rot,        \* rot[r]: the rotate-secret request r
    killed,     \* history: sessions revoked by the daemon
    cut,        \* history: sessions revoked by the CLI
    cli,        \* commands of the CLI so far
    faults      \* failed writes and crashes so far

credentials == <<gen, log, table, pairing>>
requests    == <<issue, seen, authorised, ws, rot>>
vars == <<credentials, requests, approval, killed, cut, cli, faults>>

Generations == Nat
Tokens      == Pairings \cup Rotations

\* A session without a line has generation 0, which validateSessionRecord
\* refuses in a line.
Record   == [gen : Generations, revoked : BOOLEAN]
NoRecord == [gen |-> 0, revoked |-> FALSE]

Grant  == {"absent", "active", "consumed", "revoked"}
Answer == {"pending", "approved", "over"}
Issue  == [pc : {"idle", "paired", "signed", "issued", "failed"}, gen : Generations]

RotationEnded == {"idle", "failed", "done"}
Rotation == [pc : {"valid", "listed", "closing", "consumed", "rotated", "undo"} \cup RotationEnded,
             approval : Approvals, todo : SUBSET Tokens]

\* A write that fails; afterwards the old or the new value is in the file.
Fault == /\ cli + faults < MaxEvents
         /\ faults' = faults + 1

Known(s)     == table[s].gen # 0 /\ ~table[s].revoked
Signed(s)    == issue[s].pc = "issued" /\ issue[s].gen = gen
Accepted(s)   == Signed(s) /\ Known(s)
AcceptedWS(s) == gen \in ws[s] /\ Known(s)

-----------------------------------------------------------------------------
\* Bootstrap: handleAuthBootstrapBearer

ConsumePairing(s, t) ==
    /\ issue[s].pc = "idle" /\ pairing[t] = "active"
    /\ LET used == [pairing EXCEPT ![t] = "consumed"]
       IN  \/ /\ pairing' = used
              /\ issue' = [issue EXCEPT ![s].pc = "paired"]
              /\ UNCHANGED faults
           \/ /\ Fault /\ pairing' \in {pairing, used}
              /\ issue' = [issue EXCEPT ![s].pc = "failed"]
    /\ UNCHANGED <<gen, log, table, seen, authorised, ws, rot, approval, killed, cut, cli>>

ReadSecret(s) ==
    /\ issue[s].pc = "paired"
    /\ issue' = [issue EXCEPT ![s] = [pc |-> "signed", gen |-> gen]]
    /\ UNCHANGED <<credentials, seen, authorised, ws, rot, approval, killed, cut, cli, faults>>

\* Mutant: the table is filled before the line is written.
RecordFirst(s) ==
    /\ issue[s].pc = "signed"
    /\ LET rec == [gen |-> issue[s].gen, revoked |-> FALSE]
       IN  /\ table' = [table EXCEPT ![s] = rec]
           /\ \/ /\ log' = [log EXCEPT ![s] = rec]
                 /\ issue' = [issue EXCEPT ![s].pc = "issued"]
                 /\ UNCHANGED faults
              \/ /\ Fault /\ UNCHANGED log
                 /\ issue' = [issue EXCEPT ![s].pc = "failed"]
    /\ UNCHANGED <<gen, pairing, seen, authorised, ws, rot, approval, killed, cut, cli>>

\* The rest of IssueBearer: the line is appended, then the table is filled.
RecordSession(s) ==
    /\ issue[s].pc = "signed"
    /\ LET rec   == [gen |-> issue[s].gen, revoked |-> FALSE]
           lines == [log EXCEPT ![s] = rec]
       IN  \/ /\ log' = lines /\ table' = [table EXCEPT ![s] = rec]
              /\ issue' = [issue EXCEPT ![s].pc = "issued"]
              /\ UNCHANGED faults
           \/ /\ Fault /\ log' \in {log, lines}
              /\ issue' = [issue EXCEPT ![s].pc = "failed"]
              /\ UNCHANGED table
    /\ UNCHANGED <<gen, pairing, seen, authorised, ws, rot, approval, killed, cut, cli>>

-----------------------------------------------------------------------------
\* Requests with a bearer.  Any number may be at any point of verify, so all
\* that matters is which sessions have got so far.

CheckSignature(s) ==
    /\ Signed(s)
    /\ seen' = seen \cup {s}
    /\ UNCHANGED <<credentials, issue, authorised, ws, rot, approval, killed, cut, cli, faults>>

LookUp(s) ==
    /\ s \in seen /\ Known(s)
    /\ authorised' = authorised \cup {s}
    /\ UNCHANGED <<credentials, issue, seen, ws, rot, approval, killed, cut, cli, faults>>

\* The rest of IssueWSToken, which reads the secret again.
SignWSToken(s) ==
    /\ s \in authorised
    /\ ws' = [ws EXCEPT ![s] = @ \cup {gen}]
    /\ UNCHANGED <<credentials, issue, seen, authorised, rot, approval, killed, cut, cli, faults>>

\* Mutant: only the table knows of a revocation.
RevokeInMemory(s) ==
    /\ authorised # {} /\ Known(s)
    /\ table' = [table EXCEPT ![s].revoked = TRUE]
    /\ killed' = killed \cup {s}
    /\ UNCHANGED <<gen, log, pairing, requests, approval, cut, cli, faults>>

\* handleAuthSessionRevoke, after it has verified some bearer.
RevokeSession(s) ==
    /\ authorised # {} /\ Known(s)
    /\ LET lines == [log EXCEPT ![s] = [table[s] EXCEPT !.revoked = TRUE]]
       IN  \/ /\ log' = lines /\ table' = [table EXCEPT ![s].revoked = TRUE]
              /\ killed' = killed \cup {s}
              /\ UNCHANGED faults
           \/ /\ Fault /\ log' \in {log, lines}
              /\ UNCHANGED <<table, killed>>
    /\ UNCHANGED <<gen, pairing, requests, approval, cut, cli>>

-----------------------------------------------------------------------------
\* handleAuthRotateSecret

\* The request goes on, from one point of the handler to the next.
Step(r, from, to) == /\ rot[r].pc = from
                     /\ rot' = [rot EXCEPT ![r].pc = to]

\* ... or it is answered with an error, after what was done is undone.
Fail(r, from, to) == Step(r, from, to) /\ Fault

Validate(r, a) ==
    /\ rot[r].pc = "idle" /\ authorised # {} /\ approval[a] = "approved"
    /\ rot' = [rot EXCEPT ![r].pc = "valid", ![r].approval = a]
    /\ UNCHANGED <<credentials, issue, seen, authorised, ws, approval, killed, cut, cli, faults>>

ListPairings(r) ==
    /\ rot[r].pc = "valid"
    /\ rot' = [rot EXCEPT ![r].pc = "listed", ![r].todo = {t \in Tokens : pairing[t] = "active"}]
    /\ UNCHANGED <<credentials, issue, seen, authorised, ws, approval, killed, cut, cli, faults>>

CreatePairing(r) ==
    /\ LET created == [pairing EXCEPT ![r] = "active"]
       IN  \/ Step(r, "listed", "closing") /\ pairing' = created /\ UNCHANGED faults
           \/ Fail(r, "listed", "failed") /\ pairing' \in {pairing, created}
    /\ UNCHANGED <<gen, log, table, issue, seen, authorised, ws, approval, killed, cut, cli>>

\* One round of revokePairingGrants.  The order of the list is not kept.
RevokePairing(r, t) ==
    /\ t \in rot[r].todo /\ rot[r].pc = "closing"
    /\ LET revoked == [pairing EXCEPT ![t] = "revoked"]
       IN  \/ /\ rot' = [rot EXCEPT ![r].todo = @ \ {t}]
              /\ pairing' = revoked
              /\ UNCHANGED faults
           \/ Fail(r, "closing", "undo") /\ pairing' \in {pairing, revoked}
    /\ UNCHANGED <<gen, log, table, issue, seen, authorised, ws, approval, killed, cut, cli>>

\* Mutant: the approval that was validated is taken for granted.
ConsumeValidated(r) ==
    /\ rot[r].todo = {} /\ Step(r, "closing", "consumed")
    /\ approval' = [approval EXCEPT ![rot[r].approval] = "over"]
    /\ UNCHANGED <<credentials, issue, seen, authorised, ws, killed, cut, cli, faults>>

\* ConsumeOnce of the approval queue.
ConsumeApproval(r) ==
    /\ rot[r].todo = {}
    /\ LET a    == rot[r].approval
           used == [approval EXCEPT ![a] = "over"]
       IN  \/ /\ approval[a] = "approved" /\ Step(r, "closing", "consumed")
              /\ approval' = used
              /\ UNCHANGED faults
           \/ /\ approval[a] = "approved" /\ Fail(r, "closing", "undo")
              /\ approval' \in {approval, used}
           \/ /\ approval[a] # "approved" /\ Step(r, "closing", "undo")
              /\ UNCHANGED <<approval, faults>>
    /\ UNCHANGED <<credentials, issue, seen, authorised, ws, killed, cut, cli>>

RotateSecret(r) ==
    /\ \/ Step(r, "consumed", "rotated") /\ gen' = gen + 1 /\ UNCHANGED faults
       \/ Fail(r, "consumed", "undo") /\ UNCHANGED gen
    /\ UNCHANGED <<log, table, pairing, issue, seen, authorised, ws, approval, killed, cut, cli>>

\* Mutant: the sessions stay in the table, their bearers being of no use.
KeepSessions(r) ==
    /\ Step(r, "rotated", "done")
    /\ UNCHANGED <<credentials, issue, seen, authorised, ws, approval, killed, cut, cli, faults>>

\* The rest of RotateSecret of the service.
ClearSessions(r) ==
    /\ Step(r, "rotated", "done")
    /\ table' = [s \in Sids |-> NoRecord]
    /\ UNCHANGED <<gen, log, pairing, issue, seen, authorised, ws, approval, killed, cut, cli, faults>>

\* revokeReplacementPairing, whose errors are ignored.
Undo(r) ==
    /\ Step(r, "undo", "failed")
    /\ LET revoked == [pairing EXCEPT ![r] = "revoked"]
       IN  \/ pairing' = revoked /\ UNCHANGED faults
           \/ Fault /\ pairing' \in {pairing, revoked}
    /\ UNCHANGED <<gen, log, table, issue, seen, authorised, ws, approval, killed, cut, cli>>

-----------------------------------------------------------------------------
\* Around the daemon

\* Mutant: an approval that runs out gets a state the handlers do not know.
DecideExpired(a, to) ==
    /\ approval[a] # "over"
    /\ approval' = [approval EXCEPT ![a] = IF to = "over" THEN "expired" ELSE to]
    /\ UNCHANGED <<credentials, requests, killed, cut, cli, faults>>

\* The operator answers, or the approval is decided otherwise, used or expires.
Decide(a, to) ==
    /\ <<approval[a], to>> \in {<<"pending", "approved">>, <<"pending", "over">>, <<"approved", "over">>}
    /\ approval' = [approval EXCEPT ![a] = to]
    /\ UNCHANGED <<credentials, requests, killed, cut, cli, faults>>

\* loadSessionRecords: the last line counts, if it is of the generation.
Loaded == [s \in Sids |-> IF log[s].gen = gen THEN log[s] ELSE NoRecord]

Restart ==
    /\ Fault
    /\ table' = Loaded
    /\ issue' = [s \in Sids |-> IF issue[s].pc \in {"paired", "signed"}
                                THEN [issue[s] EXCEPT !.pc = "failed"] ELSE issue[s]]
    /\ rot' = [r \in Rotations |-> IF rot[r].pc \in RotationEnded
                                   THEN rot[r] ELSE [rot[r] EXCEPT !.pc = "failed"]]
    /\ seen' = {} /\ authorised' = {}
    /\ UNCHANGED <<gen, log, pairing, ws, approval, killed, cut, cli>>

\* A command of the CLI is a process of its own, with a table of its own.
Command == /\ cli + faults < MaxEvents
           /\ cli' = cli + 1

CliCreatePairing(t) ==
    /\ Command /\ pairing[t] = "absent"
    /\ pairing' = [pairing EXCEPT ![t] = "active"]
    /\ UNCHANGED <<gen, log, table, requests, approval, killed, cut, faults>>

CliRevokePairing(t) ==
    /\ Command /\ pairing[t] \in {"active", "consumed"}
    /\ pairing' = [pairing EXCEPT ![t] = "revoked"]
    /\ UNCHANGED <<gen, log, table, requests, approval, killed, cut, faults>>

CliRevokeSession(s) ==
    /\ Command /\ Loaded[s].gen # 0 /\ ~Loaded[s].revoked
    /\ log' = [log EXCEPT ![s].revoked = TRUE]
    /\ cut' = cut \cup {s}
    /\ UNCHANGED <<gen, table, pairing, requests, approval, killed, faults>>

CliRotateSecret ==
    /\ Command
    /\ gen' = gen + 1
    /\ UNCHANGED <<log, table, pairing, requests, approval, killed, cut, faults>>

-----------------------------------------------------------------------------
\* There is a pairing at least, EnsureInitialPairing sees to that.
Init == /\ gen = 1
        /\ log = [s \in Sids |-> NoRecord]
        /\ table = [s \in Sids |-> NoRecord]
        /\ pairing \in [Tokens -> {"absent", "active"}]
        /\ \E t \in Pairings : pairing[t] = "active"
        /\ \A r \in Rotations : pairing[r] = "absent"
        /\ approval = [a \in Approvals |-> "pending"]
        /\ issue = [s \in Sids |-> [pc |-> "idle", gen |-> 0]]
        /\ seen = {} /\ authorised = {}
        /\ ws = [s \in Sids |-> {}]
        /\ rot \in [Rotations -> [pc : {"idle"}, approval : Approvals, todo : {{}}]]
        /\ killed = {} /\ cut = {}
        /\ cli = 0 /\ faults = 0

Session(s) == \/ \E t \in Tokens : ConsumePairing(s, t)
              \/ ReadSecret(s) \/ RecordSession(s)
              \/ CheckSignature(s) \/ LookUp(s) \/ SignWSToken(s) \/ RevokeSession(s)

Rotate(r) == \/ \E a \in Approvals : Validate(r, a)
             \/ ListPairings(r) \/ CreatePairing(r) \/ \E t \in Tokens : RevokePairing(r, t)
             \/ ConsumeApproval(r) \/ RotateSecret(r) \/ ClearSessions(r) \/ Undo(r)

Cli == \/ \E t \in Pairings : CliCreatePairing(t)
       \/ \E t \in Tokens : CliRevokePairing(t)
       \/ \E s \in Sids : CliRevokeSession(s)
       \/ CliRotateSecret

Next == \/ \E s \in Sids : Session(s)
        \/ \E r \in Rotations : Rotate(r)
        \/ \E a \in Approvals, to \in Answer : Decide(a, to)
        \/ Restart \/ Cli

Spec == Init /\ [][Next]_vars

-----------------------------------------------------------------------------
\* Properties

\* Type correctness of the stores and of the requests.
TypeOK == /\ gen \in Generations
          /\ log \in [Sids -> Record] /\ table \in [Sids -> Record]
          /\ pairing \in [Tokens -> Grant]
          /\ approval \in [Approvals -> Answer]
          /\ issue \in [Sids -> Issue]
          /\ seen \subseteq Sids /\ authorised \subseteq Sids
          /\ ws \in [Sids -> SUBSET Generations]
          /\ rot \in [Rotations -> Rotation]
          /\ killed \subseteq Sids /\ cut \subseteq Sids
          /\ cli \in 0 .. MaxEvents /\ faults \in 0 .. MaxEvents

\* The session table is never ahead of sessions.jsonl, whichever write fails:
\* a session that a restart would not know is not accepted before it, and a
\* revocation that a restart would forget is not made (verify's comment on
\* unknown sids).
TableIsLogged == \A s \in {k \in Sids : table[k].gen # 0} :
                    /\ log[s].gen = table[s].gen
                    /\ table[s].revoked => log[s].revoked

\* A session that RevokeSession has answered for is over for good: neither its
\* bearer nor a WebSocket token of it is accepted again, not after a restart,
\* a rotation, or a request that was half way through when it was revoked.
RevokedStaysRevoked == \A s \in killed : ~Accepted(s) /\ ~AcceptedWS(s)

\* IssueWSToken verifies with one secret and may sign with the next.  Still no
\* WebSocket token is accepted whose bearer is not, except while RotateSecret
\* has yet to clear the table, or after the CLI was used.
WSWithSession == (\A r \in Rotations : rot[r].pc # "rotated") /\ cli = 0
                 => \A s \in Sids : AcceptedWS(s) => Accepted(s)

\* Rotations that were all validated with the same approval do not all rotate.
OneRotationPerApproval ==
    \A q, r \in Rotations : /\ rot[q].pc \in {"consumed", "rotated", "done"}
                            /\ rot[r].pc \in {"consumed", "rotated", "done"}
                            /\ rot[q].approval = rot[r].approval
                            => q = r

\* A rotation that went through leaves its replacement pairing in working
\* order: "returns one fresh owner pairing token" (handleAuthRotateSecret),
\* and nobody else has rotated since.
ReplacementWorks ==
    \A r \in Rotations : /\ rot[r].pc = "done"
                         /\ \A q \in Rotations \ {r} : rot[q].pc \in {"idle", "failed"}
                         => pairing[r] # "revoked"

\* Requests of one kind may be exchanged (for TLC).
Symmetry == Permutations(Sids) \cup Permutations(Rotations)
=============================================================================
