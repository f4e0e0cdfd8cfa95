---------------------------- MODULE Provisioning ----------------------------
(***************************************************************************)
(* Renting and cancelling servers: the routes of api/providers.go, the     *)
(* registry of plugins, and the Contabo and OVHcloud plugins, which each   *)
(* turn one call into several HTTP requests to a provider that may refuse  *)
(* a request, or carry it out and lose the answer.                         *)
(*                                                                         *)
(* kind says which plugin it is.  The provider itself (servers, keys) is   *)
(* not in the repository: it does what its plugin's requests expect.       *)
(* Assumption: two creates of one name do not overlap.  Nothing in the     *)
(* daemon prevents that; see the hazards.                                  *)
(***************************************************************************)
EXTENDS Integers, FiniteSets, Sequences

CONSTANTS Callers, Names, Nothing,
          MaxServers, MaxCalls, MaxFaults   \* bounds

VARIABLES kind,
          servers,   \* at the provider, in the order they were made
          keys,      \* SSH keys or secrets at the provider; 0 is one the user put there
          made,      \* how many keys were made
          call, calls, faults, leaks

provisioningVars == <<kind, servers, keys, made, call, calls, faults, leaks>>

Ids == 1 .. Len(servers)
Idle == [step |-> "idle", name |-> Nothing, key |-> Nothing, own |-> FALSE,
         id |-> 0, error |-> FALSE, answer |-> ""]
Goto(c, step) == call' = [call EXCEPT ![c].step = step]
\* A request failed: the call goes on to its last step with an error.
Failed(c, step) == call' = [call EXCEPT ![c].step = step, ![c].error = TRUE]

\* do: what comes back of one HTTP request, and whether it took effect.
Effect(reply) == reply \in {"ok", "lost"}
Reply(reply) ==
    /\ reply \in {"ok", "refused", "lost"}
    /\ IF reply = "ok" THEN UNCHANGED faults
       ELSE faults < MaxFaults /\ faults' = faults + 1

---------------------------------------------------------------------------
(* Statuses of the provider, and how they are read. *)

\* classifyStatus and retryableStatus.
Class(code) ==
    CASE code \in {401, 403} -> "auth"
      [] code = 429 -> "rate_limited"
      [] code = 409 -> "conflict"
      [] code >= 500 -> "provider_unavailable"
      [] code \in 400 .. 499 -> "request_rejected"
      [] OTHER -> "unknown"
Retryable(code) == code = 429 \/ code = 408 \/ code >= 500

\* mapStatus.
Status(state) ==
    CASE state \in {"running", "active"} -> "running"
      [] state \in {"error", "failed"} -> "failed"
      [] state \in {"cancelled", "deleted"} -> "destroyed"
      [] OTHER -> "provisioning"

\* The catalogs: what a size costs a month, and what of it is storage and bandwidth.
Contabo == {[size |-> "cloud-vps-30", price |-> 32, storage |-> 2, bandwidth |-> 4, tb |-> 32],
            [size |-> "cloud-vps-40", price |-> 44, storage |-> 2, bandwidth |-> 4, tb |-> 32],
            [size |-> "cloud-vps-50", price |-> 56, storage |-> 2, bandwidth |-> 4, tb |-> 32]}
Ovh == {[size |-> "vps-3", price |-> 24, storage |-> 2, bandwidth |-> 3, tb |-> 32],
        [size |-> "vps-4", price |-> 32, storage |-> 3, bandwidth |-> 3, tb |-> 32],
        [size |-> "vps-5", price |-> 40, storage |-> 4, bandwidth |-> 4, tb |-> 32]}
Surcharge(provider, region) == IF provider = "contabo" /\ region = "us" THEN 10 ELSE 0

\* EstimateMonthlyCost: the lines of the breakdown; tb is the traffic expected.
Breakdown(provider, s, region, tb) ==
    LET compute == s.price - s.storage - s.bandwidth
    IN  << IF compute < 0 THEN 0 ELSE compute, s.storage, s.bandwidth,
           Surcharge(provider, region), IF tb > s.tb THEN tb - s.tb ELSE 0 >>
Total(lines) == lines[1] + lines[2] + lines[3] + lines[4] + lines[5]

\* validateManifest and Register: a plugin joins once, whole, under its own name.
ManifestValid(m) == m.id # "" /\ m.version > 0 /\ m.capabilities # {} /\ ~m.repeats
Registered(plugins, m) ==
    IF ManifestValid(m) /\ \A p \in plugins : p.id # m.id THEN plugins \cup {m} ELSE plugins

\* providerPlugin: what a route answers before it reaches the plugin; "" when it does.
Routed(plugins, id, capability, registry) ==
    LET named == {p \in plugins : p.id = id}
    IN  IF named = {} THEN "not_found"
        ELSE IF \A p \in named : capability \notin p.capabilities THEN "method_unsupported"
        ELSE CASE registry \in {"missing", "untested"} -> "capability_unavailable"
               [] registry = "blocked" -> "capability_blocked"
               [] OTHER -> ""

---------------------------------------------------------------------------
Init ==
    /\ kind \in {"contabo", "ovh"} /\ servers = << >> /\ keys \in {{}, {0}} /\ made = 0
    /\ call = [c \in Callers |-> Idle] /\ calls = 0 /\ faults = 0 /\ leaks = 0

Free(c, n) == \A d \in Callers \ {c} : call[d].step # "idle" => call[d].name # n

\* A valid request reaches CreateInstance.
Create(c, n) ==
    /\ call[c].step = "idle" /\ Free(c, n) /\ calls < MaxCalls /\ calls' = calls + 1
    /\ call' = [call EXCEPT ![c] = [Idle EXCEPT !.step = "find", !.name = n]]
    /\ UNCHANGED <<kind, servers, keys, made, faults, leaks>>

\* findInstanceByDisplayName of Contabo takes a server in any state; findInstanceByName
\* of OVHcloud takes one that is not destroyed.
Existing(n) ==
    {i \in Ids : servers[i].name = n /\ (kind = "ovh" => Status(servers[i].state) # "destroyed")}

First(ids) == CHOOSE i \in ids : \A j \in ids : i <= j

Find(c) ==
    /\ call[c].step = "find"
    /\ \E r \in {"ok", "refused"} :
        /\ Reply(r)
        /\ IF r = "refused" THEN Failed(c, "audit")
           ELSE IF Existing(call[c].name) # {}
           THEN call' = [call EXCEPT ![c].step = "audit", ![c].id = First(Existing(call[c].name))]
           ELSE Goto(c, IF kind = "ovh" THEN "list" ELSE "key")
    /\ UNCHANGED <<kind, servers, keys, made, calls, leaks>>

\* ensureSSHKey of OVHcloud lists the keys first and takes one that is there already.
ListKeys(c) ==
    /\ call[c].step = "list"
    /\ \E r \in {"ok", "refused"} :
        /\ Reply(r)
        /\ IF r = "refused" THEN Failed(c, "audit")
           ELSE IF keys # {}
           THEN call' = [call EXCEPT ![c].step = "compute", ![c].key = First(keys)]
           ELSE Goto(c, "key")
    /\ UNCHANGED <<kind, servers, keys, made, calls, leaks>>

\* createSSHKeySecret, or the POST of ensureSSHKey.
MakeKey(c) ==
    /\ call[c].step = "key"
    /\ \E r \in {"ok", "refused", "lost"} :
        /\ Reply(r)
        /\ keys' = IF Effect(r) THEN keys \cup {made + 1} ELSE keys
        /\ made' = IF Effect(r) THEN made + 1 ELSE made
        /\ leaks' = IF r = "lost" THEN leaks + 1 ELSE leaks
        /\ IF r = "ok"
           THEN call' = [call EXCEPT ![c].step = "compute", ![c].key = made + 1, ![c].own = TRUE]
           ELSE Failed(c, "audit")
    /\ UNCHANGED <<kind, servers, calls>>

\* createComputeInstance; the provider refuses a key it does not have.
Compute(c) ==
    /\ call[c].step = "compute"
    /\ \E r \in {"ok", "refused", "lost"} :
        /\ IF call[c].key \in keys THEN Reply(r) ELSE r = "refused" /\ UNCHANGED faults
        /\ Effect(r) => Len(servers) < MaxServers
        /\ servers' = IF Effect(r)
                      THEN Append(servers, [name |-> call[c].name, key |-> call[c].key, state |-> "active"])
                      ELSE servers
        /\ IF r = "ok"
           THEN call' = [call EXCEPT ![c].step = "audit", ![c].id = Len(servers) + 1]
           ELSE Failed(c, IF call[c].own THEN "cleanup" ELSE "audit")
    /\ UNCHANGED <<kind, keys, made, calls, leaks>>

\* As a bug would have it: only the error is returned.
CleanupNothing(c) ==
    /\ call[c].step = "cleanup" /\ Goto(c, "audit")
    /\ UNCHANGED <<kind, servers, keys, made, calls, faults, leaks>>
\* deleteSecret, deleteSSHKey: the key made for a server that failed goes; an error is dropped.
Cleanup(c) ==
    /\ call[c].step = "cleanup"
    /\ \E r \in {"ok", "refused", "lost"} :
        /\ Reply(r)
        /\ keys' = IF Effect(r) THEN keys \ {call[c].key} ELSE keys
        /\ leaks' = IF r = "refused" THEN leaks + 1 ELSE leaks
    /\ Goto(c, "audit")
    /\ UNCHANGED <<kind, servers, made, calls>>


\* auditProviderAction of Contabo and the audit line of the route: one that fails turns
\* a success into an error, whatever was rented.
Answer(c) ==
    /\ call[c].step = "audit"
    /\ \/ call' = [call EXCEPT ![c].step = "answered",
                               ![c].answer = IF call[c].error THEN "failed" ELSE "created"]
          /\ UNCHANGED faults
       \/ /\ ~call[c].error /\ faults < MaxFaults /\ faults' = faults + 1
          /\ call' = [call EXCEPT ![c].step = "answered", ![c].answer = "failed"]
    /\ UNCHANGED <<kind, servers, keys, made, calls, leaks>>

\* DestroyInstance: a server that is not found counts as destroyed.
Destroy(c) ==
    /\ call[c].step = "idle" /\ calls < MaxCalls /\ calls' = calls + 1
    /\ \E i \in Ids, r \in {"ok", "refused", "lost"} :
        /\ Free(c, servers[i].name) /\ Reply(r)
        /\ servers' = IF Effect(r)
                      THEN [servers EXCEPT ![i].state = IF kind = "ovh" THEN "deleted" ELSE "cancelled"]
                      ELSE servers
        /\ call' = [call EXCEPT ![c] = [Idle EXCEPT !.step = "answered", !.id = i,
                        !.name = servers[i].name,
                        !.answer = IF r = "ok" THEN "destroyed" ELSE "failed"]]
    /\ UNCHANGED <<kind, keys, made, leaks>>

Read(c) == /\ call[c].step = "answered" /\ call' = [call EXCEPT ![c] = Idle]
           /\ UNCHANGED <<kind, servers, keys, made, calls, faults, leaks>>

Next ==
    \E c \in Callers :
        \/ \E n \in Names : Create(c, n)
        \/ Find(c) \/ ListKeys(c) \/ MakeKey(c) \/ Compute(c) \/ Cleanup(c)
        \/ Answer(c) \/ Destroy(c) \/ Read(c)

Spec == Init /\ [][Next]_provisioningVars

---------------------------------------------------------------------------
Live == {i \in Ids : Status(servers[i].state) # "destroyed"}

\* Names, keys and steps are what they may be.
ProvisioningTypeOK ==
    /\ kind \in {"contabo", "ovh"} /\ keys \subseteq 0 .. made /\ faults \in 0 .. MaxFaults
    /\ \A i \in Ids : servers[i].name \in Names /\ servers[i].key \in 0 .. made
    /\ \A c \in Callers : call[c].step \in {"idle", "find", "list", "key", "compute", "cleanup",
                                            "audit", "answered"}

\* A create that is tried again after a lost answer, a failed audit line or a refusal rents
\* no second server of the name: the one that exists is found.
OneServerPerName == \A i, j \in Live : servers[i].name = servers[j].name => i = j

\* A failed create leaves no key behind, unless the answer about that very key was lost or
\* its removal was refused.
NothingLeftBehind ==
    (\A c \in Callers : call[c].step \in {"idle", "answered"}) =>
        Cardinality(keys \ ({servers[i].key : i \in Ids} \cup {0})) <= leaks
\* The key the user had at the provider before is never removed.
UserKeyStays == 0 \in keys => 0 \in keys'

\* What OVHcloud answers to a create is a server that runs under that name, and a destroyed
\* answer means that it is gone.  (Contabo may answer with a cancelled server: see hazards.)
AnswersAreTrue ==
    \A c \in Callers :
        /\ call[c].answer = "created" =>
              /\ servers[call[c].id].name = call[c].name
              /\ kind = "ovh" => call[c].id \in Live
        /\ call[c].answer = "destroyed" => call[c].id \notin Live

\* The estimate is the price of the size and what comes on top of it, for any traffic.
EstimateIsPrice(provider, s, region, tb) ==
    LET total == Total(Breakdown(provider, s, region, tb))
    IN  total >= s.price + Surcharge(provider, region)
        /\ (tb <= s.tb => total = s.price + Surcharge(provider, region))
=============================================================================
