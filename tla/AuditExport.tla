---------------------------- MODULE AuditExport ----------------------------
(***************************************************************************)
(* handleAuditExport: a slice of the audit log leaves the daemon.          *)
(*                                                                         *)
(* A slice wider than a week needs an approval, which is looked at, then   *)
(* consumed.  The log records the start of an export, if it can, and its   *)
(* completion, or else the slice is withheld.  Several requests run at     *)
(* once, with one approval, while time passes and users decide.            *)
(***************************************************************************)
EXTENDS Naturals, FiniteSets

CONSTANTS
    Requests,   \* the requests that are made
    Approvals,
    Nothing,
    MaxAge,     \* auditExportApprovalMaxAge
    Week,       \* seven days
    MaxTime     \* bound: the clock

VARIABLES
    request,   \* per request: its query, its approval and how far it has come
    approval,  \* the approvals of the queue
    now,
    log        \* the events of the audit log: [event, request]

vars == <<request, approval, now, log>>

\* from, to: 0 where the query has none.
Queries == [narrow : BOOLEAN, from : 0 .. Week + 2, to : 0 .. Week + 2, project : {"p", "any"}]
Approval == [state : {"pending", "approved", "denied", "revoked"}, critical : BOOLEAN,
             once : BOOLEAN, export : BOOLEAN, project : {"p", "q", "any"}, decided : Nat]

\* Only an approval for this: critical, once, audit.export.
Exports == [state : {"pending"}, critical : {TRUE}, once : {TRUE}, export : {TRUE},
            project : {"p", "any"}, decided : {0}]
Others == [state : {"pending"}, critical : BOOLEAN, once : {TRUE}, export : BOOLEAN,
           project : {"p"}, decided : {0}]

Idle == [phase |-> "idle", query |-> Nothing, approval |-> Nothing, consumed |-> Nothing]
Go(r, phase) == request' = [request EXCEPT ![r].phase = phase]
Record(r, event) == log' = log \cup {[event |-> event, request |-> r]}

-----------------------------------------------------------------------------
(* The rules.                                                              *)

\* requiresAuditExportApproval.
RequiresApproval(q) ==
    /\ ~q.narrow
    /\ q.from = 0 \/ q.to = 0 \/ (q.to > q.from /\ q.to - q.from > Week)

\* validateAuditExportApproval.
Covers(a, q) ==
    /\ a.state = "approved"
    /\ a.critical /\ a.once /\ a.export
    /\ a.project \in {"any", q.project}
    /\ now - a.decided <= MaxAge

-----------------------------------------------------------------------------
(* A request.                                                              *)

Ask(r, q, a) ==
    /\ request[r] = Idle
    /\ request' = [request EXCEPT ![r] =
          [phase |-> IF ~RequiresApproval(q) THEN "start"
                     ELSE IF a = Nothing THEN "refused" ELSE "validate",
           query |-> q, approval |-> IF RequiresApproval(q) THEN a ELSE Nothing,
           consumed |-> Nothing]]
    /\ UNCHANGED <<approval, now, log>>

Validate(r) ==
    /\ request[r].phase = "validate"
    /\ Go(r, IF Covers(approval[request[r].approval], request[r].query)
             THEN "consume" ELSE "refused")
    /\ UNCHANGED <<approval, now, log>>

\* The approval is taken without asking what has become of it.
ConsumeAnyway(r) ==
    LET a == request[r].approval
    IN /\ request[r].phase = "consume"
       /\ request' = [request EXCEPT ![r] = [@ EXCEPT !.phase = "start", !.consumed = a]]
       /\ approval' = [approval EXCEPT ![a].state = "revoked"]
       /\ UNCHANGED <<now, log>>

\* consumeAuditExportApproval: the queue looks again, under its own lock.
Consume(r) ==
    LET a == request[r].approval
    IN /\ request[r].phase = "consume"
       /\ IF approval[a].state = "approved"
          THEN /\ request' = [request EXCEPT ![r] = [@ EXCEPT !.phase = "start", !.consumed = a]]
               /\ approval' = [approval EXCEPT ![a].state = "revoked"]
          ELSE Go(r, "refused") /\ UNCHANGED approval
       /\ UNCHANGED <<now, log>>

\* An error of this Append is logged elsewhere.
Started(r) ==
    /\ request[r].phase = "start"
    /\ Go(r, "query")
    /\ Record(r, "started") \/ UNCHANGED log
    /\ UNCHANGED <<approval, now>>

QueryLog(r) ==
    /\ request[r].phase = "query"
    /\ \/ Go(r, "complete") /\ UNCHANGED log
       \/ /\ Go(r, "refused")
          /\ Record(r, "failed") \/ UNCHANGED log
    /\ UNCHANGED <<approval, now>>

\* The slice is sent whether its completion could be recorded or not.
CompleteAnyway(r) ==
    /\ request[r].phase = "complete"
    /\ Go(r, "sent")
    /\ Record(r, "completed") \/ UNCHANGED log
    /\ UNCHANGED <<approval, now>>

Complete(r) ==
    /\ request[r].phase = "complete"
    /\ \/ Record(r, "completed") /\ Go(r, "sent")
       \/ UNCHANGED log /\ Go(r, "refused")
    /\ UNCHANGED <<approval, now>>

-----------------------------------------------------------------------------
(* Around it.                                                              *)

Decide(a, verdict) ==
    /\ approval[a].state = "pending"
    /\ approval' = [approval EXCEPT ![a] = [@ EXCEPT !.state = verdict, !.decided = now]]
    /\ UNCHANGED <<request, now, log>>

Pass == now < MaxTime /\ now' = now + 1 /\ UNCHANGED <<request, approval, log>>

Init == /\ request = [r \in Requests |-> Idle]
        /\ approval \in [Approvals -> Exports \cup Others]
        /\ now = 0
        /\ log = {}

Wide == [narrow |-> FALSE, from |-> 0, to |-> 2, project |-> "p"]
SomeQueries == {Wide, [Wide EXCEPT !.from = 1, !.to = Week + 1], [Wide EXCEPT !.narrow = TRUE],
                [Wide EXCEPT !.from = 1, !.to = Week + 2, !.project = "any"]}

Next == \/ \E r \in Requests :
              \/ \E q \in SomeQueries, a \in Approvals \cup {Nothing} : Ask(r, q, a)
              \/ Validate(r) \/ Consume(r) \/ Started(r) \/ QueryLog(r) \/ Complete(r)
        \/ \E a \in Approvals, v \in {"approved", "denied", "revoked"} : Decide(a, v)
        \/ Pass

Spec == Init /\ [][Next]_vars

-----------------------------------------------------------------------------
(* Properties.                                                             *)

\* No wide slice leaves without an approval of its own that a user gave for it: two
\* requests that were both told that the approval is good do not both consume it.
WideSliceIsApproved ==
    \A r \in Requests : request[r].phase = "sent" /\ RequiresApproval(request[r].query) =>
        /\ request[r].consumed \in Approvals
        /\ approval[request[r].consumed].export /\ approval[request[r].consumed].critical
        /\ \A s \in Requests \ {r} : request[s].consumed # request[r].consumed

\* No slice leaves that the audit log has no record of.
SliceIsRecorded ==
    \A r \in Requests :
        request[r].phase = "sent" => [event |-> "completed", request |-> r] \in log

----------------------------------------------------------------------------
Phases == {"idle", "start", "refused", "validate", "consume", "query", "complete", "sent"}
Request == [phase : Phases, query : SomeQueries \cup {Nothing},
            approval : Approvals \cup {Nothing}, consumed : Approvals \cup {Nothing}]
ExportTypeOK == /\ request \in [Requests -> Request]
                /\ approval \in [Approvals -> Approval]
                /\ now \in Nat
=============================================================================
