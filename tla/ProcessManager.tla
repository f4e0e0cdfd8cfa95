--------------------------- MODULE ProcessManager ---------------------------
(***************************************************************************)
(* process.Manager: the children of the daemon, at most one for each job.  *)
(*                                                                         *)
(* A call runs in several steps, the mutex is held only for the looks at   *)
(* the table: Start looks, spawns and looks again; Stop and Kill look,     *)
(* signal and wait.  A goroutine waits for every child that was started;   *)
(* an adopted one, which survived an earlier daemon, is polled for by the  *)
(* calls that end it.                                                      *)
(***************************************************************************)
EXTENDS Naturals

CONSTANTS Jobs, Children, Callers, Nothing,
          MaxLives    \* bound: how often the daemon is started

VARIABLES
    table,  \* Manager.procs
    child,  \* the processes of the operating system
    call,   \* the call each caller is in
    life    \* which start of the daemon this is

vars == <<table, child, call, life>>

Ended == {"exited", "killed"}
Entry == [child : Children, status : {"running", "stopping", "adopted"} \cup Ended,
          own : BOOLEAN, done : BOOLEAN]
\* No entry of the table is taken for none.
ManagerConstants == Nothing \notin Entry
Unborn == [state |-> "unborn", life |-> 0]
\* dead: a child that nobody has waited for yet; gone: no process of that number.
Child == [state : {"unborn", "alive", "dead", "gone"}, life : Nat]

Idle == [step |-> "idle"]
Alive(x) == child[x].state = "alive"
Dies(x) == [child EXCEPT ![x].state = IF child[x].life = life THEN "dead" ELSE "gone"]
Return(c) == call' = [call EXCEPT ![c] = Idle]

-----------------------------------------------------------------------------
(* Start and Adopt.                                                        *)

StartLooks(c, j) ==
    /\ call[c].step = "idle"
    /\ table[j] = Nothing
    /\ call' = [call EXCEPT ![c] = [step |-> "spawn", job |-> j]]
    /\ UNCHANGED <<table, child, life>>

Spawn(c) ==
    /\ call[c].step = "spawn"
    /\ \/ \E x \in Children :
            /\ child[x].state = "unborn"
            /\ child' = [child EXCEPT ![x] = [state |-> "alive", life |-> life]]
            /\ call' = [call EXCEPT ![c] = [step |-> "insert", job |-> call[c].job, child |-> x]]
       \/ Return(c) /\ UNCHANGED child
    /\ UNCHANGED <<table, life>>

\* The second look at the table is missing.
InsertWithoutLooking(c) ==
    /\ call[c].step = "insert"
    /\ table' = [table EXCEPT ![call[c].job] = [child |-> call[c].child, status |-> "running",
                                                own |-> TRUE, done |-> FALSE]]
    /\ Return(c)
    /\ UNCHANGED <<child, life>>

\* The one that comes second kills its child and waits for it.
Insert(c) ==
    /\ call[c].step = "insert"
    /\ LET j == call[c].job
           x == call[c].child
       IN IF table[j] = Nothing
          THEN /\ table' = [table EXCEPT ![j] = [child |-> x, status |-> "running",
                                                 own |-> TRUE, done |-> FALSE]]
               /\ UNCHANGED child
          ELSE /\ child' = [child EXCEPT ![x].state = "gone"]
               /\ UNCHANGED table
    /\ Return(c)
    /\ UNCHANGED life

\* Kill(pid, 0), then the look at the table.
AdoptProbes(c, j, x) ==
    /\ call[c].step = "idle"
    /\ Alive(x) /\ child[x].life < life
    /\ call' = [call EXCEPT ![c] = [step |-> "adopt", job |-> j, child |-> x]]
    /\ UNCHANGED <<table, child, life>>

AdoptInserts(c) ==
    /\ call[c].step = "adopt"
    /\ table' = [table EXCEPT ![call[c].job] =
                    IF @ # Nothing THEN @
                    ELSE [child |-> call[c].child, status |-> "adopted",
                          own |-> FALSE, done |-> FALSE]]
    /\ Return(c)
    /\ UNCHANGED <<child, life>>

-----------------------------------------------------------------------------
(* terminate: Stop sends SIGTERM and allows a grace period, Kill does not. *)

TerminateLooks(c, j, signal) ==
    /\ call[c].step = "idle"
    /\ table[j] # Nothing
    /\ table[j].status \notin Ended
    /\ table' = IF signal = "TERM" THEN [table EXCEPT ![j].status = "stopping"] ELSE table
    /\ call' = [call EXCEPT ![c] = [step |-> "signal", job |-> j, signal |-> signal]]
    /\ UNCHANGED <<child, life>>

\* A child may ignore SIGTERM.  Only a child of its own makes Stop escalate.
Signal(c) ==
    /\ call[c].step = "signal"
    /\ LET e == table[call[c].job]
       IN /\ \/ /\ Alive(e.child)
                /\ child' = Dies(e.child)
             \/ /\ call[c].signal = "TERM" \/ ~Alive(e.child)
                /\ UNCHANGED child
          /\ call' = [call EXCEPT ![c].step =
                        IF ~e.own THEN "poll"
                        ELSE IF call[c].signal = "TERM" THEN "grace" ELSE "wait"]
    /\ UNCHANGED <<table, life>>

\* The grace period is over.
Escalate(c) ==
    /\ call[c].step = "grace"
    /\ ~table[call[c].job].done
    /\ LET x == table[call[c].job].child
       IN child' = IF Alive(x) THEN Dies(x) ELSE child
    /\ call' = [call EXCEPT ![c].step = "wait"]
    /\ UNCHANGED <<table, life>>

\* waitForTerminal finds the record as the waiting goroutine left it.
Terminated(c) ==
    /\ call[c].step \in {"grace", "wait"}
    /\ table[call[c].job].done
    /\ Return(c)
    /\ UNCHANGED <<table, child, life>>

\* One look, whatever it finds.
PollOnce(c) ==
    /\ call[c].step = "poll"
    /\ table' = [table EXCEPT ![call[c].job] = [@ EXCEPT
                    !.status = IF call[c].signal = "KILL" THEN "killed" ELSE "exited",
                    !.done = TRUE]]
    /\ Return(c)
    /\ UNCHANGED <<child, life>>

\* waitForAdoptedTerminal.
PollEnds(c) ==
    /\ call[c].step = "poll"
    /\ child[table[call[c].job].child].state = "gone"
    /\ table' = [table EXCEPT ![call[c].job] = [@ EXCEPT
                    !.status = IF call[c].signal = "KILL" THEN "killed" ELSE "exited",
                    !.done = TRUE]]
    /\ Return(c)
    /\ UNCHANGED <<child, life>>

\* The context of the call has ended.
Abandon(c) ==
    /\ call[c].step \in {"grace", "wait", "poll"}
    /\ Return(c)
    /\ UNCHANGED <<table, child, life>>

-----------------------------------------------------------------------------
(* The operating system and the waiting goroutines.                        *)

\* A child ends by itself, or because the context it was started with has ended.
ChildEnds(x) == Alive(x) /\ child' = Dies(x) /\ UNCHANGED <<table, call, life>>

\* As a bug would have it: the record is finished and done stays open.
WaitReturnsQuietly(j) ==
    /\ table[j] # Nothing
    /\ table[j].own /\ ~table[j].done /\ table[j].status # "exited"
    /\ child[table[j].child].state = "dead"
    /\ child' = [child EXCEPT ![table[j].child].state = "gone"]
    /\ table' = [table EXCEPT ![j].status = "exited"]
    /\ UNCHANGED <<call, life>>

WaitReturns(j) ==
    /\ table[j] # Nothing
    /\ table[j].own /\ ~table[j].done
    /\ child[table[j].child].state = "dead"
    /\ child' = [child EXCEPT ![table[j].child].state = "gone"]
    /\ table' = [table EXCEPT ![j] = [@ EXCEPT !.status = "exited", !.done = TRUE]]
    /\ UNCHANGED <<call, life>>

\* The groups of the children outlive the daemon.
Restart ==
    /\ life < MaxLives
    /\ life' = life + 1
    /\ table' = [j \in Jobs |-> Nothing]
    /\ call' = [c \in Callers |-> Idle]
    /\ child' = [x \in Children |-> IF child[x].state = "dead"
                                    THEN [child[x] EXCEPT !.state = "gone"] ELSE child[x]]

Init == /\ table = [j \in Jobs |-> Nothing]
        /\ child = [x \in Children |-> Unborn]
        /\ call = [c \in Callers |-> Idle]
        /\ life = 1

Calls(c) == \/ \E j \in Jobs : StartLooks(c, j)
            \/ Spawn(c) \/ Insert(c)
            \/ \E j \in Jobs, x \in Children : AdoptProbes(c, j, x)
            \/ AdoptInserts(c)
            \/ \E j \in Jobs, s \in {"TERM", "KILL"} : TerminateLooks(c, j, s)
            \/ Signal(c) \/ Escalate(c) \/ Terminated(c) \/ PollEnds(c) \/ Abandon(c)

Next == \/ \E c \in Callers : Calls(c)
        \/ \E x \in Children : ChildEnds(x)
        \/ \E j \in Jobs : WaitReturns(j)
        \/ Restart

Spec == Init /\ [][Next]_vars

-----------------------------------------------------------------------------
(* Properties.                                                             *)

Call == {Idle} \cup [step : {"spawn"}, job : Jobs]
          \cup [step : {"insert", "adopt"}, job : Jobs, child : Children]
          \cup [step : {"signal", "grace", "wait", "poll"}, job : Jobs, signal : {"TERM", "KILL"}]

\* The table, the processes and the calls have the values the code gives them.
ManagerTypeOK == /\ table \in [Jobs -> Entry \cup {Nothing}]
                 /\ child \in [Children -> Child]
                 /\ call \in [Callers -> Call]
                 /\ life \in Nat

\* A living child of this daemon is in the table, or in the hands of the Start that
\* spawned it: two Starts of one job never leave a process nobody can stop.
NoOrphan ==
    \A x \in Children : Alive(x) /\ child[x].life = life =>
        \/ \E j \in Jobs : table[j] # Nothing /\ table[j].child = x
        \/ \E c \in Callers : call[c].step = "insert" /\ call[c].child = x

\* A record says exited or killed only of a process that is gone, and a call that waits
\* for the end of a child still has the entry of that child before it.
EndedIsGone ==
    /\ \A j \in Jobs : table[j] # Nothing /\ table[j].status \in Ended =>
          child[table[j].child].state = "gone"
    /\ \A c \in Callers : call[c].step \in {"signal", "grace", "wait", "poll"} =>
          /\ table[call[c].job] # Nothing
          /\ call[c].step \in {"grace", "wait"} => table[call[c].job].own

\* A Stop or Kill of a child of this daemon comes to an end, even if the child ignores
\* SIGTERM: the grace period runs out, and the goroutine that waits closes done.
StopReturns ==
    \A c \in Callers :
        (call[c].step = "signal" /\ table[call[c].job].own) ~> (call[c].step = "idle")

\* What the scheduler of Go and the kernel see to: calls proceed, timers fire and
\* dead children are waited for.
Fairness == /\ \A c \in Callers : WF_vars(Signal(c) \/ Escalate(c) \/ Terminated(c))
            /\ \A j \in Jobs : WF_vars(WaitReturns(j))
FairSpec == Spec /\ Fairness
=============================================================================
