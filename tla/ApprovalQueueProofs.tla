------------------------ MODULE ApprovalQueueProofs ------------------------
(***************************************************************************)
(* Proofs about ApprovalQueue: its type invariant, that no request has two *)
(* open approvals, and that it implements ApprovalLifecycle.               *)
(*                                                                         *)
(* All three rest on one lemma, StepShape: whatever the operation and      *)
(* however its saves end, the file changes in one of three ways.           *)
(***************************************************************************)
EXTENDS ApprovalQueue, TLAPS

\* Some approvals that have run out are marked as expired.
Sweeps(st) == \E S \in SUBSET Lapsed(store, now) : st = Expire(store, S)

\* One approval that has not run out is decided, consumed or extended.
Allowed(old, new) ==
    \/ old.state = "pending" /\ new.state \in Verdicts /\ new.expires = old.expires
    \/ old.state = "approved" /\ new.state = "revoked" /\ new.expires = old.expires
    \/ old.state \in Open /\ new.state = old.state

Moves(st) == \E id \in Ids : \E new \in Approval :
                /\ id \notin Lapsed(store, now)
                /\ new.ident = store[id].ident /\ Allowed(store[id], new)
                /\ st = [store EXCEPT ![id] = new]

\* A new approval is entered, of an ident without an open approval.
Enters(st) == \E id \in Ids, i \in Idents, scope \in Scopes, e \in Times :
                /\ id \notin Known(store) /\ Matching(Swept, i) = {}
                /\ st = Entered(id, i, scope, e)

\* What a step may do to the other variables of the store.
Booked == \/ UNCHANGED <<torn, faults>>
          \/ torn' \in {torn, TRUE} /\ faults < MaxFaults /\ faults' = faults + 1

Shape(st) == st = store \/ Sweeps(st) \/ Moves(st) \/ Enters(st)

-----------------------------------------------------------------------------
\* The type of what the operations write

LEMMA ExpireType ==
    ASSUME NEW st \in [Ids -> Approval], NEW S
    PROVE  Expire(st, S) \in [Ids -> Approval]
<1>1. \A id \in Ids : [st[id] EXCEPT !.state = "expired"] \in Approval
  BY DEF Approval
<1> QED BY <1>1 DEF Expire

LEMMA ShapeType ==
    ASSUME TypeOK, NEW st, Shape(st)
    PROVE  st \in [Ids -> Approval]
<1>1. CASE Sweeps(st)
  BY <1>1, ExpireType DEF Sweeps, TypeOK
<1>2. CASE Moves(st)
  BY <1>2 DEF Moves, TypeOK
<1>3. CASE Enters(st)
  <2>1. PICK id \in Ids, i \in Idents, scope \in Scopes, e \in Times : st = Entered(id, i, scope, e)
    BY <1>3 DEF Enters
  <2>2. [state |-> "pending", ident |-> i, scope |-> scope, expires |-> e] \in Approval
    BY DEF Approval, Open
  <2> QED BY <2>1, <2>2, ExpireType DEF Entered, Swept, TypeOK
<1> QED BY <1>1, <1>2, <1>3 DEF Shape, TypeOK

-----------------------------------------------------------------------------
\* The shape of a step

LEMMA SaveShape ==
    ASSUME NEW st, NEW st2, Shape(st), Shape(st2), SaveFails(st, st2)
    PROVE  Shape(store') /\ Booked
BY DEF SaveFails, Booked

LEMMA ChangeShape ==
    ASSUME TypeOK, NEW id \in Ids, NEW guard \in BOOLEAN, NEW new,
           guard => new \in Approval /\ new.ident = store[id].ident /\ Allowed(store[id], new),
           Change(id, guard, new)
    PROVE  Shape(store') /\ Booked
<1>1. CASE ExpireOne(id)
  <2>1. Sweeps(Expire(store, {id}))
    BY <1>1 DEF ExpireOne, Sweeps
  <2> QED BY <1>1, <2>1, SaveShape DEF ExpireOne, Shape, Saved, Booked
<1>2. CASE id \notin Lapsed(store, now) /\ guard
  <2> DEFINE st == [store EXCEPT ![id] = new]
  <2>1. Moves(st)
    BY <1>2 DEF Moves
  <2>2. Shape(st) /\ Shape(store)
    BY <2>1 DEF Shape
  <2>3. CASE Saved(st)
    BY <2>2, <2>3 DEF Saved, Booked
  <2>4. CASE SaveFails(store, st)
    BY <2>2, <2>4, SaveShape
  <2>5. Saved(st) \/ SaveFails(store, st) \/ ExpireOne(id)
    BY DEF Change
  <2> QED BY <1>1, <2>3, <2>4, <2>5
<1> QED BY <1>1, <1>2 DEF Change

\* No step but these changes the file, and only Advance changes the clock.
LEMMA StepShape ==
    ASSUME TypeOK, [Next]_vars
    PROVE  /\ Booked
           /\ \/ Shape(store') /\ now' = now
              \/ store' = store /\ now < MaxTime /\ now' = now + 1
<1>1. CASE UNCHANGED vars
  BY <1>1 DEF vars, Shape, Booked
<1>2. ASSUME NEW id \in Ids, NEW i \in Idents, NEW scope \in Scopes, NEW e \in Times \ {0},
             Request(id, i, scope, e) \/ IngestBlocked(id, i, scope, e)
      PROVE  Shape(store') /\ Booked /\ now' = now
  <2>1. Shape(Swept)
    BY DEF Swept, Shape, Sweeps
  <2>2. Matching(Swept, i) = {} /\ FirstUnused(id) => Shape(Entered(id, i, scope, e))
    BY DEF Shape, Enters, FirstUnused
  <2>3. Enqueue(id, i, scope, e) => Shape(store') /\ Booked
    BY <2>1, <2>2 DEF Enqueue, Saved, Booked
  <2>4. EnqueueFails(id, i, scope, e) => Shape(store') /\ Booked
    BY <2>1, <2>2, SaveShape DEF EnqueueFails
  <2> QED BY <1>2, <2>3, <2>4 DEF Request, IngestBlocked
<1>3. ASSUME NEW id \in Ids, Get(id) PROVE Shape(store') /\ Booked /\ now' = now
  <2>1. Change(id, FALSE, store[id])
    BY <1>3 DEF Get
  <2> QED BY <1>3, <2>1, ChangeShape DEF Get
<1>4. ASSUME NEW id \in Ids, NEW verdict \in Verdicts, NEW scope \in Scopes,
             Decide(id, verdict, scope)
      PROVE  Shape(store') /\ Booked /\ now' = now
  <2> DEFINE new == [store[id] EXCEPT !.state = verdict, !.scope = scope]
  <2>1. /\ new \in Approval /\ new.ident = store[id].ident
        /\ store[id].state = "pending" => Allowed(store[id], new)
    BY DEF TypeOK, Approval, Allowed
  <2>2. Change(id, store[id].state = "pending", new)
    BY <1>4 DEF Decide
  <2> HIDE DEF new
  <2> QED BY <1>4, <2>1, <2>2, ChangeShape DEF Decide
<1>5. ASSUME NEW id \in Ids, ConsumeOnce(id) PROVE Shape(store') /\ Booked /\ now' = now
  <2> DEFINE new == [store[id] EXCEPT !.state = "revoked"]
             guard == store[id].state = "approved" /\ store[id].scope = "once"
  <2>1. new \in Approval /\ new.ident = store[id].ident /\ (guard => Allowed(store[id], new))
    BY DEF TypeOK, Approval, Allowed, Verdicts
  <2>2. Change(id, guard, new) /\ guard \in BOOLEAN
    BY <1>5 DEF ConsumeOnce
  <2> HIDE DEF new, guard
  <2> QED BY <1>5, <2>1, <2>2, ChangeShape DEF ConsumeOnce
<1>6. ASSUME NEW id \in Ids, NEW e \in Times, Extend(id, e) PROVE Shape(store') /\ Booked /\ now' = now
  <2> DEFINE new == [store[id] EXCEPT !.expires = e]
             guard == store[id].state \in Open
  <2>1. new \in Approval /\ new.ident = store[id].ident /\ (guard => Allowed(store[id], new))
    BY DEF TypeOK, Approval, Allowed
  <2>2. Change(id, guard, new) /\ guard \in BOOLEAN
    BY <1>6 DEF Extend
  <2> HIDE DEF new, guard
  <2> QED BY <1>6, <2>1, <2>2, ChangeShape DEF Extend
<1>7. ASSUME NEW id \in Ids, DenyBlocked(id) PROVE Shape(store') /\ Booked /\ now' = now
  <2> DEFINE new == [store[id] EXCEPT !.state = "denied"]
             guard == store[id].state = "pending"
  <2>1. new \in Approval /\ new.ident = store[id].ident /\ (guard => Allowed(store[id], new))
    BY DEF TypeOK, Approval, Allowed, Verdicts
  <2>2. guard \in BOOLEAN /\ (Change(id, guard, new) \/ UNCHANGED <<store, torn, faults>>)
    BY <1>7 DEF DenyBlocked, Saved
  <2> HIDE DEF new, guard
  <2>3. Shape(store') /\ Booked
    BY <2>1, <2>2, ChangeShape DEF Shape, Booked
  <2> QED BY <1>7, <2>3 DEF DenyBlocked
<1>8. CASE List
  BY <1>8 DEF List, Saved, Shape, Sweeps, Swept, Booked
<1>9. CASE SweepFails
  <2>1. PICK id \in Lapsed(store, now) :
           LET before == {k \in Lapsed(store, now) : k < id}
           IN  SaveFails(Expire(store, before), Expire(store, before \cup {id}))
    BY <1>9 DEF SweepFails
  <2> QED BY <1>9, <2>1, SaveShape DEF SweepFails, Shape, Sweeps
<1>10. CASE Crash \/ Advance
  BY <1>10 DEF Crash, Advance, Shape, Booked
<1> QED
  BY <1>1, <1>2, <1>3, <1>4, <1>5, <1>6, <1>7, <1>8, <1>9, <1>10 DEF Next

-----------------------------------------------------------------------------
\* What a change of the file means for its open approvals

LEMMA ExpireFacts ==
    ASSUME NEW st \in [Ids -> Approval], NEW S, NEW id \in Ids
    PROVE  /\ Expire(st, S)[id].ident = st[id].ident
           /\ Expire(st, S)[id].expires = st[id].expires
           /\ Expire(st, S)[id].state = IF id \in S THEN "expired" ELSE st[id].state
BY DEF Expire, Approval

\* OneOpenApproval is a property of one file.
Single(st) == \A a, b \in Ids : /\ st[a].state \in Open /\ st[b].state \in Open
                                /\ st[a].ident = st[b].ident
                                => a = b

LEMMA ShapeSingle ==
    ASSUME TypeOK, Single(store), NEW st, Shape(st)
    PROVE  Single(st)
<1>0. store \in [Ids -> Approval] /\ "expired" \notin Open
  BY DEF TypeOK, Open
<1>1. CASE Sweeps(st)
  BY <1>0, <1>1, ExpireFacts DEF Sweeps, Single
<1>2. CASE Moves(st)
  BY <1>0, <1>2 DEF Moves, Single, Allowed, Open
<1>3. CASE Enters(st)
  <2>1. PICK id \in Ids, i \in Idents, scope \in Scopes, e \in Times :
           Matching(Swept, i) = {} /\ st = Entered(id, i, scope, e)
    BY <1>3 DEF Enters
  <2>2. Swept \in [Ids -> Approval]
    BY <1>0, ExpireType DEF Swept
  <2>3. Single(Swept)
    BY <1>0, ExpireFacts DEF Swept, Single
  <2>4. \A k \in Ids : Swept[k].state \in Open => Swept[k].ident # i
    BY <2>1 DEF Matching
  <2>5. st[id].ident = i /\ \A k \in Ids \ {id} : st[k] = Swept[k]
    BY <2>1, <2>2 DEF Entered
  <2> QED BY <2>3, <2>4, <2>5 DEF Single
<1> QED BY <1>1, <1>2, <1>3 DEF Shape

-----------------------------------------------------------------------------
\* Type correctness

\* Every variable of the queue keeps its type (TypeOK).
THEOREM TypeCorrect == Spec => []TypeOK
<1>1. Init => TypeOK
  <2>1. (CHOOSE i \in Idents : TRUE) \in Idents
    BY ApprovalQueueAssumption
  <2>2. 0 \in Times
    BY ApprovalQueueAssumption DEF Times
  <2>3. Absent \in Approval
    BY <2>1, <2>2 DEF Absent, Approval, Scopes
  <2>4. 0 \in 0 .. MaxTime /\ 0 \in 0 .. MaxFaults
    BY ApprovalQueueAssumption
  <2> QED BY <2>3, <2>4 DEF Init, TypeOK
<1>2. TypeOK /\ [Next]_vars => TypeOK'
  <2> SUFFICES ASSUME TypeOK, [Next]_vars PROVE TypeOK'
    OBVIOUS
  <2>1. store' \in [Ids -> Approval]
    BY StepShape, ShapeType DEF TypeOK
  <2>2. now' \in 0 .. MaxTime
    <3>1. now' = now \/ (now < MaxTime /\ now' = now + 1)
      BY StepShape
    <3> QED BY <3>1, ApprovalQueueAssumption DEF TypeOK
  <2>3. ingests' \subseteq Ids /\ stopped' \subseteq Ids
    BY DEF Next, vars, TypeOK, Request, IngestBlocked, Get, ConsumeOnce, DenyBlocked, Decide,
           Extend, List, SweepFails, Crash, Advance
  <2>4. Booked
    BY StepShape
  <2>5. torn' \in BOOLEAN
    BY <2>4 DEF Booked, TypeOK
  <2>6. faults' \in 0 .. MaxFaults
    <3>1. faults' = faults \/ (faults < MaxFaults /\ faults' = faults + 1)
      BY <2>4 DEF Booked
    <3> QED BY <3>1, ApprovalQueueAssumption DEF TypeOK
  <2> QED BY <2>1, <2>2, <2>3, <2>5, <2>6 DEF TypeOK
<1> QED BY <1>1, <1>2, PTL DEF Spec

-----------------------------------------------------------------------------
\* One open approval per request

\* No request ever has two open approvals (OneOpenApproval), whatever the
\* number of approvals, idents and faults.  The property is inductive given
\* the type invariant.
THEOREM OneOpenAlways == Spec => []OneOpenApproval
<1>1. Init => OneOpenApproval
  BY DEF Init, OneOpenApproval, Absent, Open
<1>2. TypeOK /\ OneOpenApproval /\ [Next]_vars => OneOpenApproval'
  <2> SUFFICES ASSUME TypeOK, OneOpenApproval, [Next]_vars PROVE OneOpenApproval'
    OBVIOUS
  <2>1. Single(store)
    BY DEF Single, OneOpenApproval
  <2>2. Single(store')
    BY <2>1, StepShape, ShapeSingle
  <2> QED BY <2>2 DEF Single, OneOpenApproval
<1> QED BY <1>1, <1>2, TypeCorrect, PTL DEF Spec

-----------------------------------------------------------------------------
\* Refinement

\* The state of the approvals of file st at time t as anyone can observe it.
Observed(st, t) == [id \in Ids |-> IF id \in Lapsed(st, t) THEN "expired" ELSE st[id].state]
Deadline(st)    == [id \in Ids |-> st[id].expires]

\* A change of the file is a step of the abstract queue, or none.
LEMMA ShapeStep ==
    ASSUME TypeOK, Shape(store'), now' = now
    PROVE  [Lifecycle!Next]_(Lifecycle!lifecycle)
<1> DEFINE s == Observed(store, now)  s2 == Observed(store', now)
           d == Deadline(store)       d2 == Deadline(store')
<1>0. /\ store \in [Ids -> Approval] /\ store' \in [Ids -> Approval] /\ "expired" \notin Open
      /\ "absent" \notin Open /\ now \in Int /\ Times \subseteq Int
      /\ Verdicts = {"approved", "denied", "revoked"}
  BY ShapeType, ApprovalQueueAssumption DEF TypeOK, Open, Times, Verdicts
<1>1. CASE Sweeps(store')
  <2>1. PICK S \in SUBSET Lapsed(store, now) : store' = Expire(store, S)
    BY <1>1 DEF Sweeps
  <2>2. \A id \in Ids : s2[id] = s[id] /\ d2[id] = d[id]
    BY <1>0, <2>1, ExpireFacts DEF Observed, Deadline, Lapsed
  <2>3. s2 = s /\ d2 = d
    BY <2>2 DEF Observed, Deadline
  <2> QED BY <2>3 DEF Lifecycle!lifecycle, Observed, Deadline
<1>2. CASE Moves(store')
  <2>1. PICK id \in Ids : \E new \in Approval :
             /\ id \notin Lapsed(store, now)
             /\ new.ident = store[id].ident /\ Allowed(store[id], new)
             /\ store' = [store EXCEPT ![id] = new]
    BY <1>2 DEF Moves
  <2>2. PICK new \in Approval : /\ id \notin Lapsed(store, now)
                               /\ Allowed(store[id], new)
                               /\ store' = [store EXCEPT ![id] = new]
    BY <2>1
  <2>3. s[id] = store[id].state /\ d[id] = store[id].expires
    BY <2>2 DEF Observed, Deadline
  <2>4. /\ store'[id] = new /\ new.expires \in Times
        /\ d2 = [d EXCEPT ![id] = new.expires]
    BY <1>0, <2>2 DEF Deadline, Approval
  <2>5. /\ s2[id] = IF new.state \in Open /\ new.expires <= now THEN "expired" ELSE new.state
        /\ s2 = [s EXCEPT ![id] = s2[id]]
    BY <1>0, <2>2, <2>4 DEF Observed, Lapsed
  <2>6. CASE store[id].state = "pending" /\ new.state \in Verdicts /\ new.expires = store[id].expires
    <3>1. s2[id] = new.state
      BY <1>0, <2>2, <2>5, <2>6 DEF Lapsed, Open
    <3>2. d2 = d
      BY <2>3, <2>4, <2>6 DEF Deadline
    <3>3. s[id] = "pending" /\ s2 = [s EXCEPT ![id] = new.state]
      BY <2>3, <2>5, <2>6, <3>1
    <3>4. Lifecycle!Decide(id, new.state)
      BY <3>2, <3>3 DEF Lifecycle!Decide, Observed, Deadline
    <3> QED BY <1>0, <2>6, <3>4 DEF Lifecycle!Next
  <2>7. CASE store[id].state = "approved" /\ new.state = "revoked" /\ new.expires = store[id].expires
    <3>1. s2[id] = "revoked"
      BY <2>5, <2>7 DEF Open
    <3>2. d2 = d
      BY <2>3, <2>4, <2>7 DEF Deadline
    <3>3. s[id] = "approved" /\ s2 = [s EXCEPT ![id] = "revoked"]
      BY <2>3, <2>5, <2>7, <3>1
    <3>4. Lifecycle!Consume(id)
      BY <3>2, <3>3 DEF Lifecycle!Consume, Observed, Deadline
    <3> QED BY <3>4 DEF Lifecycle!Next
  <2>8. CASE store[id].state \in Open /\ new.state = store[id].state
    <3>1. s2[id] = Lifecycle!At(s[id], new.expires, now)
      BY <2>3, <2>5, <2>8 DEF Lifecycle!At, Lifecycle!Open, Open
    <3>2. s[id] \in Lifecycle!Open /\ s2 = [s EXCEPT ![id] = Lifecycle!At(@, new.expires, now)]
      BY <2>3, <2>5, <2>8, <3>1 DEF Lifecycle!Open, Open
    <3>3. Lifecycle!Extend(id, new.expires)
      BY <2>4, <3>2 DEF Lifecycle!Extend, Observed, Deadline
    <3> QED BY <2>4, <3>3 DEF Lifecycle!Next
  <2> QED BY <2>2, <2>6, <2>7, <2>8 DEF Allowed
<1>3. CASE Enters(store')
  <2>1. PICK id \in Ids, i \in Idents, scope \in Scopes, e \in Times :
           id \notin Known(store) /\ store' = Entered(id, i, scope, e)
    BY <1>3 DEF Enters
  <2>2. Swept \in [Ids -> Approval]
    BY <1>0, ExpireType DEF Swept
  <2>3. /\ store'[id].state = "pending" /\ store'[id].expires = e
        /\ \A k \in Ids \ {id} : store'[k] = Swept[k]
    BY <2>1, <2>2 DEF Entered
  <2>4. d2 = [d EXCEPT ![id] = e]
    <3>1. \A k \in Ids \ {id} : store'[k].expires = store[k].expires
      BY <1>0, <2>3, ExpireFacts DEF Swept
    <3> QED BY <2>3, <3>1 DEF Deadline
  <2>5. s[id] = "absent"
    BY <1>0, <2>1 DEF Observed, Known, Lapsed
  <2>6. s2[id] = Lifecycle!At("pending", e, now)
    BY <2>3 DEF Observed, Lapsed, Lifecycle!At, Lifecycle!Open, Open
  <2>7. \A k \in Ids \ {id} : s2[k] = s[k]
    <3> SUFFICES ASSUME NEW k \in Ids \ {id} PROVE s2[k] = s[k]
      OBVIOUS
    <3>1. /\ store'[k].expires = store[k].expires
          /\ store'[k].state = IF k \in Lapsed(store, now) THEN "expired" ELSE store[k].state
      BY <1>0, <2>3, ExpireFacts DEF Swept
    <3> QED BY <1>0, <3>1 DEF Observed, Lapsed
  <2>8. s2 = [s EXCEPT ![id] = Lifecycle!At("pending", e, now)]
    BY <2>6, <2>7 DEF Observed
  <2>9. Lifecycle!Create(id, e)
    BY <2>4, <2>5, <2>8 DEF Lifecycle!Create, Observed, Deadline
  <2> QED BY <2>9 DEF Lifecycle!Next
<1>4. CASE store' = store
  BY <1>4 DEF Lifecycle!lifecycle
<1> QED BY <1>1, <1>2, <1>3, <1>4 DEF Shape

\* When the clock ticks every approval whose deadline it reaches is over, though
\* the file does not change.
LEMMA TickStep ==
    ASSUME TypeOK, store' = store, now' = now + 1
    PROVE  Lifecycle!Tick
<1>1. \A id \in Ids : /\ store[id].expires \in Int /\ "expired" \notin Open
                      /\ now \in Int
  BY ApprovalQueueAssumption DEF TypeOK, Approval, Times, Open
<1>2. \A id \in Ids : Observed(store, now')[id]
                         = Lifecycle!At(Observed(store, now)[id], store[id].expires, now')
  BY <1>1 DEF Observed, Lapsed, Lifecycle!At, Lifecycle!Open, Open
<1> QED BY <1>2 DEF Lifecycle!Tick, Observed

\* The queue implements the abstract one: approvals are over exactly at their
\* deadline for everyone who asks, though the file says so only later, and no
\* operation acts on one that is over (ExpiresOnTime).
THEOREM Refinement == Spec => ExpiresOnTime
<1>1. Init => Lifecycle!Init
  BY ApprovalQueueAssumption DEF Init, Lifecycle!Init, Absent, Lapsed, Open, Times
<1>2. TypeOK /\ [Next]_vars => [Lifecycle!Next]_(Lifecycle!lifecycle)
  <2> SUFFICES ASSUME TypeOK, [Next]_vars PROVE [Lifecycle!Next]_(Lifecycle!lifecycle)
    OBVIOUS
  <2>1. CASE Shape(store') /\ now' = now
    BY <2>1, ShapeStep
  <2>2. CASE store' = store /\ now' = now + 1
    BY <2>2, TickStep DEF Lifecycle!Next
  <2> QED BY <2>1, <2>2, StepShape
<1> QED BY <1>1, <1>2, TypeCorrect, PTL DEF Spec, ExpiresOnTime, Lifecycle!Spec
=============================================================================
