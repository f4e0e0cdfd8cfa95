-------------------------- MODULE ConnectionManager --------------------------
(***************************************************************************)
(* The desktop main process's own tunnel: ConnectionManager, the driver    *)
(* that opens one over ssh, and KnownHostStore, which trusts the key a host*)
(* shows first (src/main/connection/ConnectionManager.ts).  Calls, events  *)
(* and answers run one at a time; every call that waits is one of calls.   *)
(* Which backoff is drawn and the history of transitions are left out.     *)
(***************************************************************************)
EXTENDS Integers, Sequences, FiniteSets

CONSTANTS Profiles, Keys, \* ssh profiles, each of a host of its own; fingerprints hosts may show
          None,
          Beyond,         \* what may happen although the manager is not proof against it
          MaxOpens, MaxEvents

\* The bound of the events is a number; nobody overlaps with a call, nor reports a mismatch
\* of what is not connected.
DesktopConstants == MaxEvents \in Nat /\ Beyond = {}

VARIABLES state, active,
          handle,         \* this.handle, 0 for none
          retry,          \* is nextRetry set
          calls,          \* calls that wait: [at, then, profile, handle, key, file]
          live,           \* tunnels that are open and that nobody has asked to close
          tunnels,        \* what was opened: a sequence of [profile, key]
          hosts,          \* the known-hosts file: the fingerprint of each host, or None
          events          \* how many events there have been

vars == <<state, active, handle, retry, calls, live, tunnels, hosts, events>>

Paused == {"awaiting_network", "captive_portal_blocked"}
States == {"unconfigured", "ssh_probing", "tunnel_connecting", "ready", "degraded", "reconnecting",
           "disconnected"} \cup Paused

Call(at, then, profile) ==
    [at |-> at, then |-> then, profile |-> profile, handle |-> 0, key |-> None, file |-> hosts]
Waiting(kinds) == {c \in calls : c.at \in kinds}
\* Nobody else waits in connect, retryNow or disconnect, or callers do not care.
Alone == calls = Waiting({"health"}) \/ "overlap" \in Beyond
Goes(c, d) == calls' = (calls \ {c}) \cup d

-----------------------------------------------------------------------------
(* connect, retryNow and disconnect *)

\* Up to the next await; the state says so whatever has happened meanwhile.
Begin(c) ==
    /\ handle' = 0
    /\ CASE c.then = "connect" ->
              /\ active' = c.profile /\ retry' = FALSE /\ state' = "ssh_probing"
              /\ Goes(c, {Call("probe", "connect", c.profile)})
         [] c.then = "retry" ->
              /\ state' = "tunnel_connecting" /\ Goes(c, {Call("open", "retry", active)})
              /\ UNCHANGED <<active, retry>>
         [] c.then = "disconnect" ->
              /\ state' = "disconnected" /\ retry' = FALSE /\ Goes(c, {})
              /\ UNCHANGED active

\* The three of them close the handle first; it stays in its place until that is done.
Starts(then, profile) ==
    /\ Alone
    /\ IF handle # 0
       THEN /\ live' = live \ {handle}
            /\ calls' = calls \cup {Call("close", then, profile)}
            /\ UNCHANGED <<state, active, handle, retry>>
       ELSE Begin(Call("", then, profile)) /\ UNCHANGED live
    /\ UNCHANGED <<tunnels, hosts, events>>

Connect(p) == Len(tunnels) < MaxOpens /\ Starts("connect", p)
RetryNow == active # None /\ Len(tunnels) < MaxOpens /\ Starts("retry", active)
Disconnect == Starts("disconnect", active)

Closed(c) ==
    /\ c.at = "close"
    /\ Begin(c)
    /\ UNCHANGED <<live, tunnels, hosts, events>>

\* probePrivateKey: a key that cannot be read throws, and the state stays ssh_probing.
Probed(c) ==
    /\ c.at = "probe"
    /\ \/ Goes(c, {}) /\ UNCHANGED state
       \/ state' = "tunnel_connecting" /\ Goes(c, {[c EXCEPT !.at = "open"]})
    /\ UNCHANGED <<active, handle, retry, live, tunnels, hosts, events>>

-----------------------------------------------------------------------------
(* Events, and what they and failures do with the handle. *)

\* As a bug would have it: the handle is dropped without being closed.
MarkForgets(to) == handle' = 0 /\ state' = to /\ retry' = (to = "reconnecting") /\ UNCHANGED live
\* As a bug would have it: the handle stays.
MarkKeeps(to) ==
    live' = live \ {handle} /\ state' = to /\ retry' = (to = "reconnecting") /\ UNCHANGED handle
\* markReconnect, markImmediateReconnect and markPausedNetworkState
Mark(to) ==
    /\ live' = live \ {handle} /\ handle' = 0
    /\ state' = to /\ retry' = (to = "reconnecting")

\* A tunnel that closed, a wake, a bearer that expired, a network signal: whenever they come.
Event ==
    /\ events < MaxEvents /\ events' = events + 1
    /\ \E to \in {"reconnecting"} \cup Paused : Mark(to)
    /\ UNCHANGED <<active, calls, tunnels, hosts>>
MarkVersionMismatch ==
    /\ handle # 0 \/ "mismatch" \in Beyond
    /\ state' = "degraded"
    /\ UNCHANGED <<active, handle, retry, calls, live, tunnels, hosts, events>>

CheckHealth ==
    /\ handle # 0 /\ Waiting({"health"}) = {}
    /\ calls' = calls \cup {[Call("health", "", active) EXCEPT !.handle = handle]}
    /\ UNCHANGED <<state, active, handle, retry, live, tunnels, hosts, events>>
\* The answer is taken for the handle there is by now.
HealthAnswers(c) ==
    /\ c.at = "health"
    /\ Goes(c, {})
    /\ \/ c.handle \in live /\ UNCHANGED <<state, handle, retry, live>>
       \/ Mark("reconnecting")
    /\ UNCHANGED <<active, tunnels, hosts, events>>

-----------------------------------------------------------------------------
(* Ssh2TunnelDriver.open and KnownHostStore *)

\* connect tells of a failure and goes to reconnecting; retryNow throws and stays.
Fails(c) ==
    /\ Goes(c, {})
    /\ IF c.then = "connect" THEN Mark("reconnecting") ELSE UNCHANGED <<state, handle, retry, live>>

\* As a bug would have it: another key is trusted like a first one.
AsksAgain(c, key) == c.file[c.profile] # key
IsFirstUse(c, key) == c.file[c.profile] = None
\* As a bug would have it: a host that is on file is taken for the one on file.
IsOnFile(c, key) == c.file[c.profile] # None
IsExpected(c, key) == c.file[c.profile] = key

\* verifyFingerprint reads the file when the host shows its key.
Reads(c) ==
    /\ c.at = "open"
    /\ \E key \in Keys : Goes(c, {[c EXCEPT !.at = "verify", !.key = key, !.file = hosts]})
    /\ UNCHANGED <<state, active, handle, retry, live, tunnels, hosts, events>>
\* A key that is new is written with the file that was read, a known one accepted, and another
\* one refused.
Verifies(c) ==
    /\ c.at = "verify"
    /\ \/ /\ IsFirstUse(c, c.key)
          /\ hosts' = [c.file EXCEPT ![c.profile] = c.key]
          /\ Goes(c, {[c EXCEPT !.at = "listen"]})
          /\ UNCHANGED <<state, handle, retry, live>>
       \/ /\ ~IsFirstUse(c, c.key) /\ IsExpected(c, c.key)
          /\ Goes(c, {[c EXCEPT !.at = "listen"]})
          /\ UNCHANGED <<state, handle, retry, live, hosts>>
       \/ /\ ~IsFirstUse(c, c.key) /\ ~IsExpected(c, c.key)
          /\ Fails(c) /\ UNCHANGED hosts
    /\ UNCHANGED <<active, tunnels, events>>
\* Reading the key or the file, authenticating or listening fails.
OpenFails(c) ==
    /\ c.at \in {"open", "verify", "listen"}
    /\ Fails(c)
    /\ UNCHANGED <<active, tunnels, hosts, events>>

\* The tunnel is stored, and shown as usable, whoever has given up or replaced it meanwhile.
Opened(c) ==
    /\ c.at = "listen"
    /\ tunnels' = Append(tunnels, [profile |-> c.profile, key |-> c.key])
    /\ handle' = Len(tunnels') /\ live' = live \cup {handle'} /\ state' = "ready"
    /\ retry' = (c.then = "connect" /\ retry)
    /\ Goes(c, {})
    /\ UNCHANGED <<active, hosts, events>>

Init ==
    /\ state = "unconfigured" /\ active = None /\ handle = 0 /\ retry = FALSE /\ calls = {}
    /\ live = {} /\ tunnels = <<>> /\ hosts = [p \in Profiles |-> None] /\ events = 0
Next ==
    \/ \E p \in Profiles : Connect(p)
    \/ RetryNow \/ Disconnect \/ Event \/ MarkVersionMismatch \/ CheckHealth
    \/ \E c \in calls : \/ Closed(c) \/ Probed(c) \/ HealthAnswers(c)
                        \/ Reads(c) \/ Verifies(c) \/ OpenFails(c) \/ Opened(c)
Spec == Init /\ [][Next]_vars

-----------------------------------------------------------------------------
ManagerTypeOK ==
    /\ state \in States /\ active \in Profiles \cup {None} /\ retry \in BOOLEAN
    /\ handle \in 0 .. Len(tunnels) /\ live \subseteq 1 .. Len(tunnels)
    /\ calls \subseteq [at : {"close", "probe", "open", "verify", "listen", "health"},
                        then : {"connect", "retry", "disconnect", ""}, profile : Profiles \cup {None},
                        handle : 0 .. Len(tunnels), key : Keys \cup {None},
                        file : [Profiles -> Keys \cup {None}]]
    /\ hosts \in [Profiles -> Keys \cup {None}] /\ events \in 0 .. MaxEvents

\* What is shown as usable is: there is an open tunnel exactly when the state says so
\* (ConnectionManager.ts:734-773, 897-935).
UsableHasHandle ==
    Waiting({"close"}) = {} =>
      /\ handle # 0 <=> state \in {"ready", "degraded"}
      /\ handle # 0 => handle \in live /\ tunnels[handle].profile = active

\* Every open tunnel is the one there is: whatever replaced it has closed it.
HandlesAreClosed == live \subseteq {handle}

\* A tunnel goes to a host whose key is the one on file for it (ConnectionManager.ts:395-461).
OpenedIsTrusted == \A h \in live : tunnels[h].key = hosts[tunnels[h].profile]

\* The key a host was first trusted with is never replaced or forgotten.
TrustIsKept == \A p \in Profiles : hosts[p] # None => hosts'[p] = hosts[p]
=============================================================================
