------------------------- MODULE ApprovalLifecycle -------------------------
(***************************************************************************)
(* What the approval queue promises, whatever it stores and whenever it    *)
(* looks at the clock: an approval is open until it is decided, and it is  *)
(* over at its deadline, at that very moment.  Denied, revoked and expired *)
(* approvals stay what they are.                                           *)
(***************************************************************************)
EXTENDS Integers

CONSTANTS
    Ids,        \* approvals
    Deadlines   \* the times an approval may expire at

VARIABLES state,      \* state[id]: what becomes of approval id
          deadline,   \* deadline[id]: when it expires
          now

lifecycle == <<state, deadline, now>>

Open == {"pending", "approved"}

\* The state an approval is in at time t if it is in state s before its
\* deadline d.
At(s, d, t) == IF s \in Open /\ d <= t THEN "expired" ELSE s

Init == /\ state = [id \in Ids |-> "absent"]
        /\ deadline \in [Ids -> Deadlines]
        /\ now = 0

\* A new approval is pending, unless it is requested too late.
Create(id, d) == /\ state[id] = "absent"
                 /\ state' = [state EXCEPT ![id] = At("pending", d, now)]
                 /\ deadline' = [deadline EXCEPT ![id] = d]
                 /\ UNCHANGED now

Decide(id, verdict) == /\ state[id] = "pending"
                       /\ state' = [state EXCEPT ![id] = verdict]
                       /\ UNCHANGED <<deadline, now>>

Consume(id) == /\ state[id] = "approved"
               /\ state' = [state EXCEPT ![id] = "revoked"]
               /\ UNCHANGED <<deadline, now>>

\* Only an open approval gets another deadline.
Extend(id, d) == /\ state[id] \in Open
                 /\ deadline' = [deadline EXCEPT ![id] = d]
                 /\ state' = [state EXCEPT ![id] = At(@, d, now)]
                 /\ UNCHANGED now

Tick == /\ now' = now + 1
        /\ state' = [id \in Ids |-> At(state[id], deadline[id], now')]
        /\ UNCHANGED deadline

Next == \/ Tick
        \/ \E id \in Ids : \/ \E verdict \in {"approved", "denied", "revoked"} : Decide(id, verdict)
                           \/ Consume(id)
                           \/ \E d \in Deadlines : Create(id, d) \/ Extend(id, d)

Spec == Init /\ [][Next]_lifecycle
=============================================================================
