------------------------- MODULE TunnelOrchestrator -------------------------
(***************************************************************************)
(* The desktop's tunnel to a VPS (electron/tunnel: fsm.ts, orchestrator.ts,*)
(* heartbeatTimer.ts).  Calls, timers and answers of drivers run one at a  *)
(* time in the event loop; between two of them every async function that   *)
(* waits is one of tasks.  A call on no open tunnel does not wait.  The    *)
(* table of the machine is kept whole, but for profile_cleared and         *)
(* user_reconnect, which the orchestrator never dispatches.                *)
(***************************************************************************)
EXTENDS Integers, FiniteSets

CONSTANTS Signals,    \* the network signals of this instance, as events
          Beyond,     \* what may happen although the orchestrator is not proof against it
          Probing,    \* is there a captive portal probe
          MaxGeneration

\* What is known of the constants.  The orchestrator is used as it asks for: Beyond = {}.
TunnelConstants ==
    /\ Signals \subseteq {"network_changed", "network_online", "network_offline",
                          "network_route_changed", "network_vpn_state_changed",
                          "network_captive_portal_detected", "network_captive_portal_cleared"}
    /\ Beyond = {} /\ Probing \in BOOLEAN /\ MaxGeneration \in Nat

VARIABLES snapshot,   \* [state, fault, attempts, retry, port]: retry is nextRetryAt being set,
                      \* port the tunnel whose local port is shown, 0 for none
          profile,    \* has one been given
          current,    \* #currentTunnel, 0 for none
          timer,      \* is #reconnectTimer running
          generation,
          tasks,      \* waiting functions: [at, gen, event, tunnel]
          live,       \* tunnels that are open and that nobody has asked to close
          opened,     \* how many have been opened
          accepted,   \* tunnels over which the daemon has accepted the bearer
          heartbeat   \* HeartbeatTimer: [tunnel (0: unbound), armed, gen]

vars == <<snapshot, profile, current, timer, generation, tasks, live, opened, accepted, heartbeat>>

Connecting == {"ssh_probing", "bootstrapping", "tunnel_connecting"}
Working == Connecting \cup {"authenticating"}
Up == {"ready", "degraded"}
Paused == {"awaiting_network", "captive_portal_blocked"}
States == Working \cup Up \cup Paused \cup {"unconfigured", "reconnecting", "disconnected"}
Active == States \ {"unconfigured", "disconnected"}

Fresh == [state |-> "unconfigured", fault |-> "none", attempts |-> 0, retry |-> FALSE, port |-> 0]

\* TRANSITIONS: in which states an event is listed.
Listed(event) ==
    CASE event = "profile_set" -> {"unconfigured", "disconnected"}
      [] event \in {"ssh_probe_succeeded", "ssh_probe_failed"} -> {"ssh_probing"}
      [] event \in {"bootstrap_succeeded", "bootstrap_failed"} -> {"bootstrapping"}
      [] event = "tunnel_opened" -> {"tunnel_connecting"}
      [] event = "tunnel_closed" -> {"tunnel_connecting", "authenticating"} \cup Up
      [] event \in {"auth_succeeded", "auth_failed"} -> {"authenticating"}
      [] event = "heartbeat_ok" -> {"degraded"}
      [] event = "heartbeat_timeout" -> Up
      [] event \in {"version_mismatch", "bearer_expired"} -> {"ready"}
      [] event = "network_changed" -> Active \ {"reconnecting"}
      [] event = "network_online" -> Paused \cup {"reconnecting"}
      [] event = "network_offline" -> Active \ {"awaiting_network"}
      [] event \in {"network_route_changed", "network_vpn_state_changed"} -> Active \ {"captive_portal_blocked"}
      [] event = "network_captive_portal_detected" -> Active \ {"captive_portal_blocked"}
      [] event = "network_captive_portal_cleared" -> {"captive_portal_blocked"}
      [] event \in {"system_sleep", "user_disconnect"} -> Active
      [] event = "system_wake" -> {"disconnected"}
      [] event = "backoff_elapsed" -> {"reconnecting"}

\* startReconnect, startImmediateReconnect; attempts count up to two, no one looks further.
Reconnect(s) == [state |-> "reconnecting", fault |-> "other", retry |-> TRUE, port |-> 0,
                 attempts |-> IF s.attempts < 2 THEN s.attempts + 1 ELSE 2]
Pause(s, state) == [s EXCEPT !.state = state, !.fault = "other", !.retry = FALSE, !.port = 0]

\* dispatch: an event that the state does not list changes nothing.
Dispatch(s, event, port) ==
    IF s.state \notin Listed(event) THEN s ELSE
    CASE event = "profile_set" -> [Fresh EXCEPT !.state = "ssh_probing"]
      [] event \in {"system_wake", "backoff_elapsed"} -> [s EXCEPT !.state = "ssh_probing"]
      [] event = "ssh_probe_succeeded" -> [s EXCEPT !.state = "bootstrapping"]
      [] event = "bootstrap_succeeded" -> [s EXCEPT !.state = "tunnel_connecting"]
      [] event \in {"tunnel_opened", "bearer_expired"} -> [s EXCEPT !.state = "authenticating"]
      [] event = "auth_failed" -> [s EXCEPT !.fault = "auth_rejected"]
      [] event = "auth_succeeded" -> [Fresh EXCEPT !.state = "ready", !.port = port]
      [] event = "heartbeat_ok" -> [Fresh EXCEPT !.state = "ready", !.port = s.port]
      [] event = "version_mismatch" -> [s EXCEPT !.state = "degraded", !.fault = "other"]
      [] event = "system_sleep" -> [s EXCEPT !.state = "disconnected"]
      [] event = "user_disconnect" -> Pause(s, "disconnected")
      [] event = "network_offline" -> Pause(s, "awaiting_network")
      [] event = "network_captive_portal_detected" -> Pause(s, "captive_portal_blocked")
      [] OTHER -> Reconnect(s)

-----------------------------------------------------------------------------
(* What the handlers are made of. *)

\* onSnapshot: whoever wires the heartbeat timer starts it when the tunnel becomes ready and
\* stops it when it no longer is.
Show(s) ==
    /\ snapshot' = s
    /\ heartbeat' =
          IF s.state = "ready" /\ snapshot.state # "ready"
          THEN [tunnel |-> s.port, armed |-> TRUE, gen |-> heartbeat.gen + 1]
          ELSE IF s.state # "ready" /\ heartbeat.tunnel # 0
               THEN [tunnel |-> 0, armed |-> FALSE, gen |-> heartbeat.gen + 1]
               ELSE heartbeat

\* As a bug would have it: nothing is tried again once it has failed twice.
TriedTwice(s) == s.state = "reconnecting" /\ s.retry /\ profile /\ s.attempts < 2
\* #scheduleReconnect, on the snapshot it is called with: does it arm the timer?
TriesAgain(s) == s.state = "reconnecting" /\ s.retry /\ profile

Task(at, gen, event, tunnel) == [at |-> at, gen |-> gen, event |-> event, tunnel |-> tunnel]
Waiting(kinds) == {t \in tasks : t.at \in kinds}
Calls == {"disconnect", "sleep", "network", "bearer"}
\* Nobody else waits in a call, or callers do not care: a call that waits for its tunnel to close
\* has cancelled the timer, and has yet to show what it did.
Alone == Waiting(Calls) = {} \/ "overlap" \in Beyond

Bump == generation < MaxGeneration /\ generation' = generation + 1
Close == /\ live' = live \ {current}
         /\ current' = 0
Connected == <<live, opened, accepted>>

\* What a call does once the tunnel it closed is gone.
AfterClose(s, at, event) ==
    CASE at = "disconnect" -> Dispatch(s, "user_disconnect", 0)
      [] at = "sleep" -> Dispatch(s, "system_sleep", 0)
      [] at = "network" -> Dispatch(s, event, 0)

\* A call that closes the tunnel and goes on when that is done; the heartbeat timer is stopped
\* first, as its caller can.
Closing(at, event) ==
    /\ Alone /\ Bump /\ Close
    /\ IF current # 0
       THEN /\ tasks' = tasks \cup {Task(at, generation', event, 0)}
            /\ timer' = FALSE
            /\ heartbeat' = IF "overlap" \in Beyond THEN heartbeat
                            ELSE [tunnel |-> 0, armed |-> FALSE, gen |-> heartbeat.gen + 1]
            /\ UNCHANGED snapshot
       ELSE /\ Show(AfterClose(snapshot, at, event))
            /\ timer' = (at = "network" /\ TriesAgain(snapshot'))
            /\ UNCHANGED tasks
    /\ UNCHANGED <<profile, opened, accepted>>

\* A pipeline of its own generation, at its first await.
Begin(s) ==
    /\ Bump
    /\ timer' = FALSE
    /\ Show(s)
    /\ tasks' = tasks \cup {Task("probe", generation', "none", 0)}

-----------------------------------------------------------------------------
(* Calls and events. *)

Connect ==
    /\ Alone /\ (snapshot.state \in {"unconfigured", "disconnected"} \/ "connected" \in Beyond)
    /\ profile' = TRUE
    /\ Begin(Dispatch(snapshot, "profile_set", 0))
    /\ UNCHANGED <<current, Connected>>

Disconnect == Closing("disconnect", "none")
HandleSystemSleep == Closing("sleep", "none")

HandleSystemWake ==
    /\ Alone /\ profile /\ (snapshot.state = "disconnected" \/ "connected" \in Beyond)
    /\ Begin(Dispatch(Dispatch(snapshot, "system_wake", 0), "profile_set", 0))
    /\ UNCHANGED <<profile, current, Connected>>

HandleNetworkSignal ==
    \E event \in Signals :
        /\ snapshot.state \in Listed(event) \/ "unlisted" \in Beyond
        /\ Closing("network", event)

\* A call whose tunnel is closed goes on.
Closed(t) ==
    /\ t.at \in {"disconnect", "sleep", "network"}
    /\ Show(AfterClose(snapshot, t.at, t.event))
    /\ timer' = IF t.at = "network" /\ TriesAgain(snapshot') THEN TRUE ELSE timer
    /\ tasks' = tasks \ {t}
    /\ UNCHANGED <<profile, current, generation, Connected>>

\* handleTunnelClosed and handleHeartbeatTimeout: the tunnel is given up, and tried again.
GiveUp(event) ==
    /\ Show(Dispatch(snapshot, event, 0))
    /\ timer' = (timer \/ TriesAgain(snapshot'))

\* A tunnel goes away by itself; only the current one is listened to.
TunnelDrops(n) ==
    /\ n \in live /\ (Waiting({"bearer"}) = {} \/ "bearer" \in Beyond)
    /\ IF n = current THEN Close /\ GiveUp("tunnel_closed")
       ELSE live' = live \ {n} /\ UNCHANGED <<current, snapshot, timer, heartbeat>>
    /\ UNCHANGED <<profile, generation, tasks, opened, accepted>>

\* #retryConnect
TimerFires ==
    /\ timer
    /\ Begin(Dispatch(snapshot, "backoff_elapsed", 0))
    /\ UNCHANGED <<profile, current, Connected>>

\* The daemon no longer takes the bearer.  How often is bounded by the heartbeats there have been.
HandleBearerExpired ==
    /\ Alone /\ profile /\ current # 0 /\ heartbeat.gen < MaxGeneration
    /\ snapshot.state \in Listed("bearer_expired") \/ "bearer" \in Beyond
    /\ Show(Dispatch(snapshot, "bearer_expired", 0))
    /\ tasks' = tasks \cup {Task("bearer", generation, "none", current)}
    /\ UNCHANGED <<profile, current, timer, generation, Connected>>
\* It looks at the tunnel again afterwards, of which there may be none, or another.
BearerAnswers(t) ==
    /\ t.at = "bearer"
    /\ \E ok \in BOOLEAN :
          /\ ok => t.tunnel \in live
          /\ accepted' = IF ok THEN accepted \cup {t.tunnel} ELSE accepted
          /\ Show(Dispatch(snapshot, IF ok /\ current # 0 THEN "auth_succeeded" ELSE "auth_failed", current))
    /\ tasks' = tasks \ {t}
    /\ UNCHANGED <<profile, current, timer, generation, live, opened>>

-----------------------------------------------------------------------------
(* #runConnectPipeline *)

\* As a bug would have it: a pipeline is not asked whether it has been overtaken.
AlwaysCurrent(t) == TRUE
IsCurrent(t) == t.gen = generation

\* What comes after a step, and what is dispatched when it has succeeded.
After(at) == CASE at = "probe" -> "bootstrap" [] at = "bootstrap" -> "open" [] at = "open" -> "auth"
               [] at = "auth" -> "check"
Success(at) == CASE at = "probe" -> "ssh_probe_succeeded" [] at = "bootstrap" -> "bootstrap_succeeded"
                 [] at = "open" -> "tunnel_opened" [] at = "auth" -> "auth_succeeded"

\* #classifyPipelineError
Failure(state) ==
    CASE state = "ssh_probing" -> "ssh_probe_failed" [] state = "bootstrapping" -> "bootstrap_failed"
      [] state = "tunnel_connecting" -> "tunnel_closed" [] state = "authenticating" -> "auth_failed"
      [] OTHER -> "heartbeat_timeout"

Ends(t) == tasks' = tasks \ {t}
Succeeds(t, event, tunnel) ==
    /\ Show(Dispatch(snapshot, event, tunnel))
    /\ tasks' = IF t.at = "check" THEN tasks \ {t} ELSE (tasks \ {t}) \cup {Task(After(t.at), t.gen, "none", tunnel)}
    /\ UNCHANGED timer

Fails(t) ==
    /\ Show(Dispatch(snapshot, Failure(snapshot.state), 0))
    /\ IF Probing /\ snapshot'.state = "reconnecting" /\ snapshot'.attempts = 2
       THEN tasks' = (tasks \ {t}) \cup {Task("captive", t.gen, "none", 0)} /\ UNCHANGED timer
       ELSE Ends(t) /\ timer' = (timer \/ TriesAgain(snapshot'))

\* The answer of probe, bootstrap, authenticate or the first heartbeat.
Answers(t) ==
    /\ t.at \in {"probe", "bootstrap", "auth", "check"}
    /\ \E answer \in {"ok", "failed"} \cup (IF t.at = "check" THEN {"mismatch"} ELSE {}) :
          /\ answer = "failed" /\ t.at = "check" => "heartbeat" \in Beyond
          /\ answer # "failed" /\ t.at \in {"auth", "check"} => t.tunnel \in live
          /\ accepted' = IF answer = "ok" /\ t.at = "auth" THEN accepted \cup {t.tunnel} ELSE accepted
          /\ CASE ~IsCurrent(t) -> Ends(t) /\ UNCHANGED <<snapshot, timer, heartbeat>>
               [] IsCurrent(t) /\ answer = "failed" -> Fails(t)
               [] IsCurrent(t) /\ answer = "ok" ->
                    Succeeds(t, IF t.at = "check" THEN "heartbeat_ok" ELSE Success(t.at), t.tunnel)
               [] IsCurrent(t) /\ answer = "mismatch" -> Succeeds(t, "version_mismatch", t.tunnel)
    /\ UNCHANGED <<profile, current, generation, live, opened>>

\* As a bug would have it: a tunnel that was opened too late is left.
OpensAnyway(t) ==
    /\ t.at = "open" /\ opened' = opened + 1 /\ live' = live \cup {opened'}
    /\ IF IsCurrent(t) THEN current' = opened' /\ Succeeds(t, "tunnel_opened", opened')
       ELSE Ends(t) /\ UNCHANGED <<snapshot, current, timer, heartbeat>>
    /\ UNCHANGED <<profile, generation, accepted>>
\* The answer of open: a tunnel, which is closed at once if nobody waits for it any more.
Opens(t) ==
    /\ t.at = "open" /\ opened' = opened + 1
    /\ IF IsCurrent(t)
       THEN /\ current' = opened' /\ live' = live \cup {opened'}
            /\ Succeeds(t, "tunnel_opened", opened')
       ELSE Ends(t) /\ UNCHANGED <<snapshot, current, timer, heartbeat, live>>
    /\ UNCHANGED <<profile, generation, accepted>>
OpenFails(t) ==
    /\ t.at = "open"
    /\ IF IsCurrent(t) THEN Fails(t) ELSE Ends(t) /\ UNCHANGED <<snapshot, timer, heartbeat>>
    /\ UNCHANGED <<profile, current, generation, Connected>>

\* #maybeProbeCaptivePortal has its answer, and then reconnecting goes on.
CaptiveAnswers(t) ==
    /\ t.at = "captive" /\ Alone
    /\ \/ /\ Ends(t)
          /\ timer' = (timer \/ TriesAgain(snapshot))
          /\ UNCHANGED <<snapshot, heartbeat, generation, current, live>>
       \/ /\ Bump /\ Close
          /\ timer' = FALSE
          /\ IF current # 0
             THEN /\ tasks' = (tasks \ {t}) \cup
                         {Task("network", generation', "network_captive_portal_detected", 0)}
                  /\ UNCHANGED <<snapshot, heartbeat>>
             ELSE Ends(t) /\ Show(Dispatch(snapshot, "network_captive_portal_detected", 0))
    /\ UNCHANGED <<profile, opened, accepted>>

-----------------------------------------------------------------------------
(* HeartbeatTimer *)

TickStarts ==
    /\ heartbeat.armed
    /\ heartbeat' = [heartbeat EXCEPT !.armed = FALSE]
    /\ tasks' = tasks \cup {Task("tick", heartbeat.gen, "none", heartbeat.tunnel)}
    /\ UNCHANGED <<snapshot, profile, current, timer, generation, Connected>>

\* As a bug would have it: an answer is taken for the tunnel there is now.
AnyTick(t) == TRUE
TickIsCurrent(t) == t.gen = heartbeat.gen

\* #runTick after check: whatever is not ok gives the tunnel up.
TickAnswers(t) ==
    /\ t.at = "tick"
    /\ Ends(t)
    /\ \/ ~TickIsCurrent(t) /\ UNCHANGED <<snapshot, current, timer, live, heartbeat>>
       \/ /\ TickIsCurrent(t) /\ t.tunnel \in live
          /\ heartbeat' = [heartbeat EXCEPT !.armed = TRUE]
          /\ UNCHANGED <<snapshot, current, timer, live>>
       \/ TickIsCurrent(t) /\ Close /\ GiveUp("heartbeat_timeout")
    /\ UNCHANGED <<profile, generation, opened, accepted>>

Init ==
    /\ snapshot = Fresh /\ profile = FALSE /\ current = 0 /\ timer = FALSE /\ generation = 0
    /\ tasks = {} /\ live = {} /\ opened = 0 /\ accepted = {}
    /\ heartbeat = [tunnel |-> 0, armed |-> FALSE, gen |-> 0]

Next ==
    \/ Connect \/ Disconnect \/ HandleSystemSleep \/ HandleSystemWake \/ HandleNetworkSignal
    \/ HandleBearerExpired \/ TimerFires \/ TickStarts
    \/ \E n \in live : TunnelDrops(n)
    \/ \E t \in tasks : \/ Closed(t) \/ BearerAnswers(t) \/ Answers(t) \/ Opens(t) \/ OpenFails(t)
                        \/ CaptiveAnswers(t) \/ TickAnswers(t)
Spec == Init /\ [][Next]_vars

-----------------------------------------------------------------------------
Stages == {"probe", "bootstrap", "open", "auth", "check"}

TunnelTypeOK ==
    /\ snapshot \in [state : States, fault : {"none", "auth_rejected", "other"}, attempts : 0 .. 2,
                     retry : BOOLEAN, port : 0 .. opened]
    /\ profile \in BOOLEAN /\ timer \in BOOLEAN /\ generation \in 0 .. MaxGeneration
    /\ live \cup accepted \subseteq 1 .. opened /\ current \in 0 .. opened
    /\ tasks \subseteq [at : Stages \cup Calls \cup {"captive", "tick"}, gen : Nat,
                        event : Signals \cup {"none", "network_captive_portal_detected"}, tunnel : 0 .. opened]
    /\ heartbeat \in [tunnel : 0 .. opened, armed : BOOLEAN, gen : Nat]

\* Nothing waits in a call that has yet to show what it did.
Settled == Waiting({"disconnect", "sleep", "network", "bearer"}) = {}

\* A tunnel that died is tried again: while the state says so, the backoff timer runs or the
\* captive portal is being asked about (types.ts:37, orchestrator.ts:215-227).
ReconnectingIsArmed ==
    Settled /\ snapshot.state = "reconnecting" => profile /\ (timer \/ Waiting({"captive"}) # {})

\* Work that is shown is under way: each working state has the one pipeline that can end it,
\* at its own stage, but for an authentication that was rejected, which rests until something
\* else happens (orchestrator.ts:146-207).
WorkIsUnderWay ==
    Settled /\ snapshot.state \in Working =>
      \/ snapshot.state = "authenticating" /\ snapshot.fault = "auth_rejected"
      \/ \E t \in tasks : /\ t.gen = generation
                          /\ t.at = CASE snapshot.state = "ssh_probing" -> "probe"
                                      [] snapshot.state = "bootstrapping" -> "bootstrap"
                                      [] snapshot.state = "tunnel_connecting" -> "open"
                                      [] snapshot.state = "authenticating" -> "auth"

\* A tunnel that is shown as usable is: it is open, the one whose port is shown, and the daemon
\* has accepted the bearer over it (types.ts:15-40, fsm.ts:92-101).
ReadyIsUp ==
    Settled /\ snapshot.state \in Up => current \in live /\ snapshot.port = current /\ current \in accepted

\* A tunnel that nobody waits for any more is closed, one that was opened too late at once
\* (orchestrator.ts:157-160).  This is so as long as first heartbeats do not fail: the catch
\* (180-185) tries again without closing the tunnel they were sent over.
NoTunnelForgotten == live \subseteq {current}

\* Who was asked to hang up stays so: no timer, no tunnel and nobody at work on one, until the
\* next call (orchestrator.ts:80-95).
StaysDown ==
    Settled /\ snapshot.state = "disconnected" =>
      ~timer /\ current = 0 /\ \A t \in Waiting(Stages) : t.gen # generation

\* A heartbeat is of the tunnel there is: an answer that counts was asked for over it
\* (heartbeatTimer.ts:163-165).
TicksAreCurrent ==
    \A t \in Waiting({"tick"}) : Settled /\ TickIsCurrent(t) => t.tunnel = current /\ snapshot.state = "ready"
=============================================================================
