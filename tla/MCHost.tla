------------------------------- MODULE MCHost -------------------------------
(***************************************************************************)
(* The daemon's host on small instances: its audit log and exports,        *)
(* upgrades and migrations, the repository and its hooks, the privileged   *)
(* helper, rented servers, reads and clones of a repository, the tools and *)
(* the Agent Mail of its agents, the desktop's two tunnels to it, and      *)
(* decisions that are functions of their input.  subject says which of     *)
(* them a behaviour is about and never changes; the variables of that      *)
(* module are v1, v2, ... in the order of its declaration, the others hold *)
(* Nothing.                                                                *)
(***************************************************************************)
EXTENDS Integers, Sequences, FiniteSets

CONSTANTS c1, c2, a1, p1, r1, r2, t1, u1, Bad, Old, Hoopoe, Nothing,
          Subjects   \* the subjects of this run

VARIABLES subject, v1, v2, v3, v4, v5, v6, v7, v8, v9, v10, v11, v12, v13, v14, v15
vars == <<subject, v1, v2, v3, v4, v5, v6, v7, v8, v9, v10, v11, v12, v13, v14, v15>>

Callers == {c1, c2}

Log == INSTANCE AuditLog WITH file <- v1, writer <- v2, faults <- v3, answered <- v4,
         Writers <- Callers, Projects <- {"p"}, Actors <- {"actor", "other"}, Actions <- {"action"},
         Cap <- 2, MaxLines <- 3, MaxFaults <- 1
Export == INSTANCE AuditExport WITH request <- v1, approval <- v2, now <- v3, log <- v4,
            Requests <- {r1, r2}, Approvals <- {a1}, MaxAge <- 1, Week <- 2, MaxTime <- 1

\* A release that every check passes, and what may be wrong with one.
Sound == [manifest |-> TRUE, matches |-> TRUE, sized |-> TRUE,
          keys |-> <<[named |-> TRUE, verifies |-> TRUE]>>,
          parsed |-> TRUE, agrees |-> TRUE, subject |-> TRUE, level |-> 2, minLevel |-> 0,
          requireReproducible |-> "", reproducible |-> TRUE,
          packages |-> {[name |-> "pkg", version |-> "1"]}, reported |-> {}, cves |-> {},
          database |-> TRUE, minDesktop |-> <<1, 2, 9>>]
Forged == [Sound EXCEPT !.keys = <<[named |-> TRUE, verifies |-> FALSE],
                                   [named |-> FALSE, verifies |-> TRUE]>>]
Newer == [Sound EXCEPT !.minDesktop = <<2, 1>>]
Good == INSTANCE Upgrade WITH
          state <- v1, job <- v2, files <- v3, unit <- v4, audits <- v5, spent <- v6,
          Releases <- {r1}, Facts <- [r \in {r1} |-> Sound], Desktop <- <<1, 3>>,
          MaxWrites <- 1, MaxFaults <- 2, MaxRequests <- 2
BadKey == INSTANCE Upgrade WITH
          state <- v1, job <- v2, files <- v3, unit <- v4, audits <- v5, spent <- v6,
          Releases <- {r1}, Facts <- [r \in {r1} |-> Forged], Desktop <- <<1, 3>>,
          MaxWrites <- 1, MaxFaults <- 2, MaxRequests <- 1
TooNew == INSTANCE Upgrade WITH
          state <- v1, job <- v2, files <- v3, unit <- v4, audits <- v5, spent <- v6,
          Releases <- {r1}, Facts <- [r \in {r1} |-> Newer], Desktop <- <<1, 3>>,
          MaxWrites <- 1, MaxFaults <- 2, MaxRequests <- 1

Schema == INSTANCE Migrations WITH fate <- v1, db <- v2, pc <- v3, current <- v4, taken <- v5,
            backups <- v6, spent <- v7, unrestored <- v8,
            Latest <- 3, KeepRecent <- 2, MaxStarts <- 3, MaxFaults <- 2, NoFile <- Nothing
Git == INSTANCE GitWatcher WITH origin <- v1, head <- v2, lastLocal <- v3, lastRemote <- v4,
         pushedAt <- v5, ring <- v6, local <- v7, remote <- v8, push <- v9, done <- v10,
         commitsTold <- v11, told <- v12, view <- v13, now <- v14, spent <- v15,
         Pushers <- {c1}, MaxSha <- 2, MaxTime <- 1, MaxFaults <- 1, MaxPolls <- 2,
         Grace <- 1, TTL <- 1, Cap <- 3
\* The orchestrator as it is used: one call at a time, signals that its state lists.
Tunnel == INSTANCE TunnelOrchestrator WITH
            snapshot <- v1, profile <- v2, current <- v3, timer <- v4, generation <- v5,
            tasks <- v6, live <- v7, opened <- v8, accepted <- v9, heartbeat <- v10,
            Signals <- {"network_offline", "network_online", "network_route_changed",
                        "network_captive_portal_cleared"},
            Beyond <- {}, Probing <- TRUE, MaxGeneration <- 3
Manager == INSTANCE ConnectionManager WITH
            state <- v1, active <- v2, handle <- v3, retry <- v4, calls <- v5, live <- v6,
            tunnels <- v7, hosts <- v8, events <- v9,
            Profiles <- {r1, r2}, Keys <- {c1, c2}, None <- Nothing,
            Beyond <- {}, MaxOpens <- 2, MaxEvents <- 1
Hook == INSTANCE PushHook WITH hook <- v1, backup <- v2, tmp <- v3, pc <- v4, discarded <- v5,
          made <- v6, spent <- v7,
          UserHooks <- {u1, r1, r2}, Managed <- Hoopoe, MaxEdits <- 2, MaxCrashes <- 1
Helper == INSTANCE PrivilegeBoundary WITH now <- v1, allowlist <- v2, claims <- v3, consumed <- v4,
            call <- v5, ran <- v6, lives <- v7,
            Tokens <- {t1}, MaxTime <- 1, MaxRuns <- 2, MaxRestarts <- 1
Rent == INSTANCE Provisioning WITH kind <- v1, servers <- v2, keys <- v3, made <- v4, call <- v5,
          calls <- v6, faults <- v7, leaks <- v8,
          Names <- {"n"}, MaxServers <- 2, MaxCalls <- 3, MaxFaults <- 2
Read == INSTANCE VpsReads WITH head <- v1, index <- v2, work <- v3, dirty <- v4, entries <- v5,
          call <- v6, now <- v7, edits <- v8, calls <- v9,
          Callers <- {c1}, TTL <- 1, Units <- 2, Limit <- 1, MaxTime <- 1, MaxEdits <- 2, MaxCalls <- 2
Clone == INSTANCE CloneSync WITH origin <- v1, ahead <- v2, done <- v3, queue <- v4, seq <- v5,
           lost <- v6, clone <- v7, holder <- v8, overlay <- v9, actor <- v10, calls <- v11,
           faults <- v12,
           Projects <- {p1}, Commits <- {"c", "d"}, Callers <- {a1}, HistoryLimit <- 2,
           MaxOrigin <- 1, MaxEvents <- 2, MaxCalls <- 1, MaxFaults <- 1
Inventory == INSTANCE ToolInventory WITH now <- v1, reports <- v2, lastProbeAt <- v3, calls <- v4,
               Refreshers <- Callers, Tools <- {t1, u1}, MinInterval <- 2, Concurrency <- 1,
               MaxTime <- 5
Adapter == INSTANCE ToolAdapters

Mailed == [urgent |-> FALSE, ack |-> TRUE, own |-> FALSE, broadcast |-> FALSE, to |-> {"x"}]
Granted == [agent |-> "x", pattern |-> <<"a", "**">>, exclusive |-> TRUE]
Posted(r) == IF r = 7 THEN Granted ELSE [Granted EXCEPT !.agent = "y", !.pattern = <<"a", "b">>]
Answered == {[kind |-> "result", content |-> "list"], [kind |-> "result", content |-> "object"],
             [kind |-> "lost", content |-> ""]}
Mail == INSTANCE AgentMail WITH inbox <- v1, held <- v2, now <- v3, seen <- v4, known <- v5,
          conflicts <- v6, call <- v7, told <- v8, ledger <- v9, overlapped <- v10, calls <- v11,
          faults <- v12, Pollers <- {c1}, Forcers <- {a1}, Messages <- {}, MessageOf <- << >>,
          Reservations <- {7, 8}, Grant <- [r \in {7, 8} |-> Posted(r)], Replies <- Answered,
          InboxLimit <- 1, ListLimit <- 2, MaxTime <- 1, MaxCalls <- 2, MaxFaults <- 1
Rounds == INSTANCE AgentMail WITH inbox <- v1, held <- v2, now <- v3, seen <- v4, known <- v5,
          conflicts <- v6, call <- v7, told <- v8, ledger <- v9, overlapped <- v10, calls <- v11,
          faults <- v12, Pollers <- {c1, c2}, Forcers <- {}, Messages <- {1},
          MessageOf <- [m \in {1} |-> Mailed], Reservations <- {7},
          Grant <- [r \in {7} |-> Posted(r)], Replies <- Answered,
          InboxLimit <- 1, ListLimit <- 2, MaxTime <- 1, MaxCalls <- 3, MaxFaults <- 0

ASSUME InstancesAreSound == /\ Schema!MigrationsConstants /\ Git!WatcherConstants
                            /\ Helper!BoundaryConstants /\ Manager!DesktopConstants
                            /\ Good!UpgradeConstants /\ BadKey!UpgradeConstants
                            /\ TooNew!UpgradeConstants /\ Clone!SyncConstants
                            /\ Tunnel!TunnelConstants /\ Hook!HookConstants

-----------------------------------------------------------------------------
(* Inputs of the decisions; v1 says of which, v2 is one, v3 is TRUE once it *)
(* has been decided.                                                        *)

Token == {Nothing} \cup [address : {"x", "y"}, expired : BOOLEAN, used : BOOLEAN]
Binds == [class : {"loopback", "tailnet", "public"}, address : {"x", "y"}, loopback : {"lo"},
          allowed : BOOLEAN, token : Token]
Places == {<<"r">>, <<"r", "f">>, <<"r", "g">>, <<"e">>}
\* Where a link may lead: inside, outside, nowhere.
Links == [Places -> {<<>>, <<"r">>, <<"r", "f">>, <<"e">>}]
Commands == [shell : BOOLEAN, control : BOOLEAN, paths : {{}, {<<"r", "f">>}, {<<"e">>, <<"r", "g">>}},
             real : Links]
Sizes == [price : {9}, storage : {0, 2}, bandwidth : {0, 3}, tb : {1}]


\* Reports of two tools, and features that need some of what they can.
Probes == [outcome : {"report"}, caps : [{"a", "b"} -> Inventory!Statuses]] \cup
          [outcome : {"error", "nil"}, caps : {<< >>}]
Refs == [tool : {"br", "git"}, cap : {"a", "b"}] \cup {[tool |-> "nosuch", cap |-> "a"]}
Features == (Refs \X Refs) \cup {<< >>, <<[tool |-> "git", cap |-> "a"]>>}
\* What CAAM answers.
Answer(rows) == [got : {TRUE}, rows : rows] \cup [got : {FALSE}, rows : {{}}]
Profile == [tool |-> "claude", name |-> "main", cooling |-> FALSE, health |-> "fine"]
Clients ==
    [on : BOOLEAN,
     status : Answer({{}, {[tool |-> "claude", in |-> TRUE, profile |-> "main"]}}),
     list : Answer({{}, {Profile}, {Profile, [Profile EXCEPT !.cooling = TRUE, !.name = "spare"]},
                    {[Profile EXCEPT !.tool = "other"], [Profile EXCEPT !.tool = "codex", !.health = "expired"]}}),
     limits : Answer(SUBSET [provider : {"anthropic", "openai", "else"}, profile : {"main", "else"}]),
     detect : Answer({{}, {"claude"}})]
\* Answers of the tools themselves.
Fields == {"issues", "total", "limit", "offset", "has_more"}
Lists == [fields : {Fields, Fields \ {"total"}}, total : {0, 1}, limit : {-1, 0, 1}, offset : {0},
          issues : {0, 1}]
Reports == [shape : {"object", "list"}, given : BOOLEAN, cycles : {0, 1}, count : {0, 1}]
Rows == [blank : {FALSE}, torn : {FALSE}, id : {"x", "y"}, status : {"open", "closed"},
         owner : {"", "o"}, prio : {1}]
Line == {[blank |-> FALSE, torn |-> FALSE, id |-> "z", status |-> "open", owner |-> "o", prio |-> 0],
         [blank |-> TRUE, torn |-> FALSE, id |-> "", status |-> "", owner |-> "", prio |-> 0],
         [blank |-> FALSE, torn |-> TRUE, id |-> "z", status |-> "", owner |-> "", prio |-> 0]}
Queries == [id : {"", "x"}, status : {"", "open"}, owner : {"", "o"}, prio : BOOLEAN, min : {1}, max : {2}]
Written == [abs : {FALSE}, steps : UNION {[1 .. n -> {"..", ".", "f"}] : n \in 1 .. 3}] \cup
           [abs : {TRUE}, steps : {<<"r">>, <<"r", "f">>, <<"r", "..", "f">>, <<"e", "f">>, <<"r", "..", "r", "f">>}]
Result == [located : BOOLEAN, file : {"f"}, line : {0, 1, 2}, rule : {"s"}, level : {"error", "note"}]
Known == [key : {<<"f", 1, "s">>, <<"f", 2, "s">>}, severity : {"info"}, sources : {{"agent"}, {"ubs"}}]
Repo == {"cloned", "failed", "dirty", "conflict"}
SyncLines == {[torn |-> FALSE, doc |-> FALSE, repos |-> <<r>>, summary |-> Adapter!Summarize(<< >>)] : r \in Repo} \cup
             {[torn |-> FALSE, doc |-> TRUE, repos |-> rs, summary |-> Adapter!Summarize(s)] :
                 rs \in {<<"failed", "pulled">>}, s \in {<< >>, <<"failed", "pulled">>}} \cup
             {[torn |-> TRUE, doc |-> FALSE, repos |-> << >>, summary |-> Adapter!Summarize(<< >>)]}
\* Patterns and files up to three names long; messages in a thread or in none.
Patterns == UNION {[1 .. n -> {"a", "b", "*", "**"}] : n \in 1 .. 3}
Files == UNION {[1 .. n -> {"a", "b"}] : n \in 1 .. 4}
Posts == [id : {1, 2}, thread : {"", "t"}, from : {"", "x", "y"}]

DecisionInit ==
    /\ \/ v1 = "bind" /\ v2 \in Binds
       \/ v1 = "command" /\ v2 \in Commands
       \/ v1 = "price" /\ v2 \in {"contabo", "ovh"} \X Sizes \X {"us", "eu"} \X (0 .. 3)
       \/ v1 = "page" /\ v2 \in (1 .. 4) \X (0 .. 5)
       \/ v1 = "blame" /\ v2 \in UNION {[1 .. n -> {"c", "d"}] : n \in 0 .. 4}
       \/ v1 = "feature" /\ v2 \in [{"br"} -> Probes] \X Features \X {<< >>, <<[tool |-> "br", cap |-> "b"]>>}
       \/ v1 = "accounts" /\ v2 \in Clients
       \/ v1 = "probe" /\ v2 \in (Adapter!Failures \cup {"ok"})
                               \X (Adapter!Failures \cup {Adapter!ListOutcome(a) : a \in Lists})
                               \X {Adapter!CyclesOutcome(x) : x \in Reports} \X BOOLEAN
       \/ v1 = "query" /\ v2 \in {<<a, b, l>> : a, b \in Rows, l \in Line} \X Queries
       \/ v1 = "scan" /\ v2 \in Written
       \/ v1 = "merge" /\ v2 \in ({<< >>} \cup {<<k>> : k \in Known} \cup (Known \X Known))
                               \X ({<<x>> : x \in Result} \cup (Result \X Result))
       \/ v1 = "sync" /\ v2 \in {<< >>} \cup {<<l>> : l \in SyncLines} \cup (SyncLines \X SyncLines)
       \/ v1 = "commit" /\ v2 \in {"", " ", "m"}
       \/ v1 = "argv" /\ v2 \in (DOMAIN Adapter!BrNeeds)
                               \X (SUBSET {"ids", "id", "dependsOn", "title", "query"})
                               \X [{"--force", "--status", "--db"} -> {"", " ", "x"}]
       \/ v1 = "overlap" /\ v2 \in Patterns \X Patterns
       \/ v1 = "threads" /\ v2 \in UNION {[1 .. n -> Posts] : n \in 0 .. 3}
       \/ v1 = "adopt" /\ v2 \in {"prune", "sync", "status", "list", "--schema", "clean"}
                               \X (SUBSET {"--json", "--non-interactive", "--dry-run", "--archive", "--delete"})
    /\ v3 = FALSE
Decide == ~v3 /\ v3' = TRUE /\ UNCHANGED <<v1, v2>>

-----------------------------------------------------------------------------
\* The variables from the n-th on are not used.
Unused(n) ==
    /\ (IF n <= 4 THEN v4 = Nothing ELSE TRUE)    /\ (IF n <= 5 THEN v5 = Nothing ELSE TRUE)
    /\ (IF n <= 6 THEN v6 = Nothing ELSE TRUE)    /\ (IF n <= 7 THEN v7 = Nothing ELSE TRUE)
    /\ (IF n <= 8 THEN v8 = Nothing ELSE TRUE)    /\ (IF n <= 9 THEN v9 = Nothing ELSE TRUE)
    /\ (IF n <= 10 THEN v10 = Nothing ELSE TRUE)  /\ (IF n <= 11 THEN v11 = Nothing ELSE TRUE)
    /\ (IF n <= 12 THEN v12 = Nothing ELSE TRUE)  /\ (IF n <= 13 THEN v13 = Nothing ELSE TRUE)
    /\ (IF n <= 14 THEN v14 = Nothing ELSE TRUE)  /\ (IF n <= 15 THEN v15 = Nothing ELSE TRUE)
Same(n) ==
    /\ (IF n <= 4 THEN UNCHANGED v4 ELSE TRUE)    /\ (IF n <= 5 THEN UNCHANGED v5 ELSE TRUE)
    /\ (IF n <= 6 THEN UNCHANGED v6 ELSE TRUE)    /\ (IF n <= 7 THEN UNCHANGED v7 ELSE TRUE)
    /\ (IF n <= 8 THEN UNCHANGED v8 ELSE TRUE)    /\ (IF n <= 9 THEN UNCHANGED v9 ELSE TRUE)
    /\ (IF n <= 10 THEN UNCHANGED v10 ELSE TRUE)  /\ (IF n <= 11 THEN UNCHANGED v11 ELSE TRUE)
    /\ (IF n <= 12 THEN UNCHANGED v12 ELSE TRUE)  /\ (IF n <= 13 THEN UNCHANGED v13 ELSE TRUE)
    /\ (IF n <= 14 THEN UNCHANGED v14 ELSE TRUE)  /\ (IF n <= 15 THEN UNCHANGED v15 ELSE TRUE)

Init ==
    /\ subject \in Subjects
    /\ \/ (subject = "audit" /\ Log!Init /\ Unused(5))
       \/ (subject = "export" /\ Export!Init /\ Unused(5))
       \/ (subject = "upgrade" /\ Good!Init /\ Unused(7))
       \/ (subject = "forged" /\ BadKey!Init /\ Unused(7))
       \/ (subject = "newer" /\ TooNew!Init /\ Unused(7))
       \/ (subject = "migrations" /\ Schema!Init /\ Unused(9))
       \/ (subject = "pushes" /\ Git!Init)
       \/ (subject = "hooks" /\ Hook!Init /\ Unused(8))
       \/ (subject = "helper" /\ Helper!Init /\ Unused(8))
       \/ (subject = "rent" /\ Rent!Init /\ Unused(9))
       \/ (subject = "reads" /\ Read!Init /\ Unused(10))
       \/ (subject = "clones" /\ Clone!Init /\ Unused(13))
       \/ (subject = "tools" /\ Inventory!Init /\ Unused(5))
       \/ (subject = "mail" /\ Mail!Init /\ Unused(13))
       \/ (subject = "rounds" /\ Rounds!Init /\ Unused(13))
       \/ (subject = "tunnel" /\ Tunnel!Init /\ Unused(11))
       \/ (subject = "manager" /\ Manager!Init /\ Unused(10))
       \/ (subject = "decisions" /\ DecisionInit /\ Unused(4))

\* A step of the subject, whose module has the variables before the n-th.
Of(name, n, A) == subject = name /\ A /\ Same(n) /\ UNCHANGED subject

Next ==
    \/ Of("audit", 5, Log!Next)
    \/ Of("export", 5, Export!Next)
    \/ Of("upgrade", 7, Good!Next)
    \/ Of("forged", 7, BadKey!Next)
    \/ Of("newer", 7, TooNew!Next)
    \/ Of("migrations", 9, Schema!Next)
    \/ Of("pushes", 16, Git!Next)
    \/ Of("hooks", 8, Hook!Next)
    \/ Of("helper", 8, Helper!Next)
    \/ Of("rent", 9, Rent!Next)
    \/ Of("reads", 10, Read!Next)
    \/ Of("clones", 13, Clone!Next)
    \/ Of("tools", 5, Inventory!Next)
    \/ Of("mail", 13, Mail!Next)
    \/ Of("rounds", 13, Rounds!Next)
    \/ Of("tunnel", 11, Tunnel!Next)
    \/ Of("manager", 10, Manager!Next)
    \/ Of("decisions", 4, Decide)

\* CloneSync.Fairness.
OfClones(A) == Of("clones", 13, A)
Fairness == /\ WF_vars(OfClones(Clone!HandleEvent \/ Clone!Tick))
            /\ \A a \in {a1, Clone!Run} : WF_vars(OfClones(Clone!Fetching(a)))
Spec == Init /\ [][Next]_vars /\ Fairness

-----------------------------------------------------------------------------
\* The type invariants of the modules.
HostTypeOK ==
    CASE subject = "audit" -> Log!AuditTypeOK
      [] subject = "export" -> Export!ExportTypeOK
      [] subject = "upgrade" -> Good!UpgradeTypeOK
      [] subject = "migrations" -> Schema!MigrationsTypeOK
      [] subject = "pushes" -> Git!WatcherTypeOK
      [] subject = "hooks" -> Hook!HookTypeOK
      [] subject = "helper" -> Helper!BoundaryTypeOK
      [] subject = "rent" -> Rent!ProvisioningTypeOK
      [] subject = "reads" -> Read!VpsTypeOK
      [] subject = "clones" -> Clone!SyncTypeOK
      [] subject = "tools" -> Inventory!InventoryTypeOK
      [] subject = "mail" -> Mail!MailTypeOK
      [] subject = "rounds" -> Rounds!MailTypeOK
      [] subject = "tunnel" -> Tunnel!TunnelTypeOK
      [] subject = "manager" -> Manager!ManagerTypeOK
      [] OTHER -> v15 = Nothing

\* Entries stay numbered in order across processes, a query is what a scan of the file would
\* give, a wide export has an approval of its own and a line that says so, and so does a forced
\* release of a reservation (audit/writer.go, api/audit_export.go, adapters/agentmail).
AuditHolds ==
    /\ subject = "audit" => Log!SequencesIncrease /\ Log!AcceptedIsWritten /\ Log!QueryIsScan
    /\ subject = "export" => Export!WideSliceIsApproved /\ Export!SliceIsRecorded
    /\ subject = "mail" => Mail!ForceIsRecorded

\* Whatever fails or is cut off, the host runs a release that was trusted and fits, or the old
\* one whole (upgrade/service.go), and a database at a version it can be put back to
\* (migrations/runner.go).  Nothing runs as root that the allowlist and its token do not name
\* (security/privsep), the listener is public only when confirmed (security/bind.go), a retried
\* rental rents no second server and leaves no key, and an estimate is a price (providers).  What the
\* tools can is what a sweep found, and what is asked of them and made of their answers is what
\* it says (capabilities, inventory, adapters); mail and reservations are told once and in the
\* order of their lives (activity).  What the desktop shows of its tunnel is so: ready is up,
\* down stays down, and what is being done is under way (apps/desktop/electron/tunnel); an open
\* tunnel is the one that is shown, to the host that is trusted (apps/desktop/src/main/connection).
MachineHolds ==
    /\ subject = "upgrade" => Good!OnlyTrustedRuns /\ Good!RolledBackIsWhole
    /\ subject = "forged" => BadKey!OnlyTrustedRuns
    /\ subject = "newer" => TooNew!InstalledIsCompatible
    /\ subject = "migrations" => Schema!FailureUndone /\ Schema!TargetKept
    /\ subject = "helper" => Helper!RunsWereAllowed /\ Helper!TokenRunsOnce
    /\ subject = "rent" => Rent!OneServerPerName /\ Rent!NothingLeftBehind /\ Rent!AnswersAreTrue
    /\ subject = "tools" => Inventory!RefreshedIsFresh
    /\ subject = "mail" => Mail!ToldOnce /\ Mail!LivesAreTold
    /\ subject = "tunnel" => /\ Tunnel!ReconnectingIsArmed /\ Tunnel!WorkIsUnderWay
                            /\ Tunnel!ReadyIsUp /\ Tunnel!NoTunnelForgotten
                            /\ Tunnel!StaysDown /\ Tunnel!TicksAreCurrent
    /\ subject = "manager" => /\ Manager!UsableHasHandle /\ Manager!HandlesAreClosed
                             /\ Manager!OpenedIsTrusted
    /\ subject = "rounds" => Rounds!ToldOnce /\ Rounds!LivesAreTold
    /\ (subject = "decisions" /\ v3) =>
          CASE v1 = "feature" -> /\ Inventory!PrecedenceHolds(v2[1], v2[2], v2[3])
                                 /\ Inventory!ListedAsDecided(v2[1], v2[2])
            [] v1 = "accounts" -> Inventory!VerifiedIsKnown(v2)
            [] v1 = "probe" -> Adapter!ReportsAreTrue(v2[1], v2[2], v2[3], v2[4])
            [] v1 = "query" -> Adapter!QueryIsFilter(v2[1], v2[2])
            [] v1 = "scan" -> Adapter!ScansStayInside(<<"r">>, {v2})
            [] v1 = "merge" -> Adapter!MergeIsUnion(v2[1], v2[2])
            [] v1 = "sync" -> Adapter!SyncCountsItsRepos(v2)
            [] v1 = "commit" -> Adapter!SyncCommitsAll(v2)
            [] v1 = "argv" -> Adapter!CommandsAreTyped(v2[1], v2[2], v2[3])
            [] v1 = "overlap" -> Mail!OverlapsAreSeen(v2[1], v2[2], Files)
            [] v1 = "threads" -> Mail!ThreadsAreWhole(v2)
            [] v1 = "adopt" -> Adapter!OnlyAdoptedRuns(v2[1], v2[2])
            [] OTHER -> TRUE
    /\ (subject = "decisions" /\ v1 = "bind" /\ v3) => Helper!PublicIsConfirmed(v2)
    /\ (subject = "decisions" /\ v1 = "price" /\ v3) => Rent!EstimateIsPrice(v2[1], v2[2], v2[3], v2[4])

\* What is said of a repository was so: the poller believes what has been told, a served diff
\* or search is of the request's own time and whole, an overlay and a fetch say what they have,
\* a hook of the user survives, and no command leaves a clone (git/watch, git/hooks, vps/git,
\* clone/watch, clone/sandbox).
GitHolds ==
    /\ subject = "pushes" => Git!SettledWasTold
    /\ subject = "hooks" => Hook!UserHookKept /\ Hook!NeverChainsItself
    /\ subject = "reads" => Read!StagedDiffIsCurrent /\ Read!SearchIsWhole
    /\ subject = "clones" => Clone!OneFetchPerClone /\ Clone!RecordedFetchHasIt /\ Clone!OverlayIsTrue
    /\ (subject = "decisions" /\ v1 = "command" /\ v3) =>
          Clone!CommandsStayInside([shell |-> v2.shell], <<[control |-> v2.control]>>, <<"r">>,
                                   v2.paths, v2.real)
    /\ (subject = "decisions" /\ v1 = "blame" /\ v3) => Read!BlameKeepsLines(v2)
    /\ (subject = "decisions" /\ v1 = "page" /\ v3) => Read!PagesCover(v2[1], v2[2], 2, 3)

\* A poll settles only on commits it has told of (git/watch); the schema moves one migration at
\* a time (migrations/runner.go); the user's own key stays at the provider (providers);
\* a report is replaced only by a newer one (capabilities); a host keeps the key it was trusted
\* with (apps/desktop/src/main/connection).
HostStepsHold ==
    [][/\ subject = "pushes" => Git!SettledCommitsTold
       /\ subject = "migrations" => Schema!OneStepAtATime
       /\ subject = "rent" => Rent!UserKeyStays
       /\ subject = "tools" => Inventory!NewerReportsStay
       /\ subject = "manager" => Manager!TrustIsKept]_vars

\* CloneSync.CatchesUp: a clone that is behind is fetched as long as Run runs.
CatchesUp ==
    (subject = "clones" /\ v7[p1] < v1[p1])
        ~> (subject = "clones" /\ (v7[p1] = v1[p1] \/ v10[Clone!Run].pc = "returned"))

\* AuditLog.LinesAreConsumed, which the code does not keep.
LinesAreConsumed == subject = "audit" => Log!LinesAreConsumed
=============================================================================
