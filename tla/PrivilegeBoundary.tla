------------------------- MODULE PrivilegeBoundary -------------------------
(***************************************************************************)
(* The two places where the daemon oversteps its own user and host         *)
(* (security/privsep, security/bind.go): the setup helper runs an action   *)
(* of an allowlist as root for a one-use token, and a listener is public   *)
(* only for a configured address and a one-use confirmation.               *)
(*                                                                         *)
(* A token is validated in two steps: the claims are held against a clock  *)
(* that was read before, then the store, which forgets what has expired by *)
(* its own clock, consumes it.                                             *)
(***************************************************************************)
EXTENDS Naturals, FiniteSets

CONSTANTS Callers, Tokens, Nothing,
          MaxTime,      \* bound: the clock
          MaxRuns,      \* bound: actions that run
          MaxRestarts   \* bound: restarts of the process that keeps the store

BoundaryConstants == /\ Nothing \notin Tokens
                     /\ MaxTime \in Nat /\ MaxRuns \in Nat /\ MaxRestarts \in Nat

VARIABLES now,
          allowlist,  \* the installed allowlist
          claims,     \* what each minted token says
          consumed,   \* tokens the store remembers, in its memory
          call,       \* per caller: the invocation under way
          ran,        \* what was run as root
          lives
vars == <<now, allowlist, claims, consumed, call, ran, lives>>

\* isKnownAction and BootstrapActionAllowed, told apart by what they do.
BootstrapActions == {"register-helper-allowlist"}
KnownActions == BootstrapActions \cup {"restart-service"}
\* An allowlist stands for its digest: the actions it has entries for.
Allowlists == {KnownActions, KnownActions \ {"register-helper-allowlist"}}

Idle == [pc |-> "idle"]
\* Engine.Run's arguments; the allowlist was loaded before, fits says whether
\* the arguments match the entry's patterns.
Invocation(mode, action, token, fits, expected) ==
  [mode |-> mode, action |-> action, token |-> token, fits |-> fits, expected |-> expected, list |-> allowlist]
Go(c, pc) == call' = [call EXCEPT ![c].pc = pc]
Return(c) == call' = [call EXCEPT ![c] = Idle]

\* Mint: a token names one action under one allowlist, and when it ends.
Mint(t, action, life) ==
  /\ claims[t] = Nothing
  /\ claims' = [claims EXCEPT ![t] = [action |-> action, list |-> allowlist, expires |-> now + life]]
  /\ UNCHANGED <<now, allowlist, consumed, call, ran, lives>>

\* Engine.Run up to the mode: checksum, entry and arguments.
Admitted(i) == /\ i.expected \in {Nothing, i.list}
               /\ i.action \in i.list
               /\ i.fits

\* The bootstrap mode needs no token but takes only its own actions.  What is
\* rejected, here or later, leaves no more than an audit line.
Invoke(c) ==
  /\ call[c] = Idle
  /\ \E mode \in {"bootstrap", "steady"}, action \in KnownActions \cup {"other"}, t \in Tokens \cup {Nothing},
        fits \in BOOLEAN, expected \in Allowlists \cup {Nothing}:
       LET i == Invocation(mode, action, t, fits, expected)
       IN /\ Admitted(i)
          /\ IF mode = "bootstrap" THEN t = Nothing /\ action \in BootstrapActions ELSE t # Nothing
          /\ call' = [call EXCEPT ![c] = [pc |-> IF mode = "bootstrap" THEN "run" ELSE "claims",
                        mode |-> mode, action |-> action, token |-> t, fits |-> fits, list |-> allowlist, read |-> now]]
  /\ UNCHANGED <<now, allowlist, claims, consumed, ran, lives>>

\* As a bug would have it: nobody looks which action a token was minted for.
ValidForAny(i) == i.token # Nothing /\ claims[i.token] # Nothing /\ claims[i.token].expires > i.read

\* ValidateApprovalToken: signature, expiry, action and allowlist.
Valid(i) ==
  /\ i.token # Nothing /\ claims[i.token] # Nothing
  /\ claims[i.token].expires > i.read
  /\ claims[i.token].action = i.action
  /\ claims[i.token].list = i.list

ReadClaims(c) ==
  /\ call[c].pc = "claims"
  /\ IF Valid(call[c]) THEN Go(c, "consume") ELSE Return(c)
  /\ UNCHANGED <<now, allowlist, claims, consumed, ran, lives>>

\* As a bug would have it: what ends in this instant is forgotten with the rest.
RememberedBriefly == {t \in consumed: claims[t].expires > now + 1}

\* Consume forgets what has expired before its clock.
Remembered == {t \in consumed: claims[t].expires >= now}
Consume(c) ==
  /\ call[c].pc = "consume"
  /\ LET t == call[c].token
     IN IF t \in Remembered THEN Return(c) /\ consumed' = Remembered
        ELSE Go(c, "run") /\ consumed' = Remembered \cup {t}
  /\ UNCHANGED <<now, allowlist, claims, ran, lives>>

\* ExecutePrivilegedAction and finish, whose audit may fail; a failed command has used its token all the same.
\* register-helper-allowlist installs another allowlist.
Execute(c) ==
  /\ call[c].pc = "run" /\ Cardinality(ran) < MaxRuns
  /\ \E ok \in BOOLEAN:
       /\ Return(c)
       /\ ran' = ran \cup {[by |-> c, action |-> call[c].action, mode |-> call[c].mode, list |-> call[c].list,
                            token |-> call[c].token, fits |-> call[c].fits, life |-> lives,
                            late |-> call[c].token # Nothing /\ claims[call[c].token].expires < now]}
       /\ IF ok /\ call[c].action = "register-helper-allowlist" THEN \E l \in Allowlists: allowlist' = l
          ELSE UNCHANGED allowlist
  /\ UNCHANGED <<now, claims, consumed, lives>>

Tick == now < MaxTime /\ now' = now + 1 /\ UNCHANGED <<allowlist, claims, consumed, call, ran, lives>>

\* NewMemoryTokenStore: the store ends with its process.
Restart == /\ lives < MaxRestarts /\ lives' = lives + 1
           /\ consumed' = {}
           /\ call' = [c \in Callers |-> Idle]
           /\ UNCHANGED <<now, allowlist, claims, ran>>

Init == /\ now = 0 /\ allowlist \in Allowlists /\ claims = [t \in Tokens |-> Nothing] /\ consumed = {}
        /\ call = [c \in Callers |-> Idle] /\ ran = {} /\ lives = 0

Next == \/ \E t \in Tokens, a \in KnownActions, life \in {1}: Mint(t, a, life)
        \/ \E c \in Callers: Invoke(c) \/ ReadClaims(c) \/ Consume(c) \/ Execute(c)
        \/ Tick \/ Restart
Spec == Init /\ [][Next]_vars

----------------------------------------------------------------------------
(* EvaluateBind, from the class of the address, the configuration and what *)
(* is known of the confirmation: for which address it is, whether it has   *)
(* expired and whether it was used.                                        *)

Confirmed(req) == req.token # Nothing /\ req.token.address = req.address /\ ~req.token.expired /\ ~req.token.used

\* As a bug would have it: the configuration alone is enough.
ListenerByConfig(req) ==
  IF req.class \in {"loopback", "tailnet"} \/ req.allowed THEN [address |-> req.address, class |-> req.class]
  ELSE [address |-> req.loopback, class |-> "loopback"]

\* loopbackFallbackAddress keeps the family of the address that was asked for.
Listener(req) ==
  IF req.class \in {"loopback", "tailnet"} \/ (req.allowed /\ Confirmed(req))
  THEN [address |-> req.address, class |-> req.class]
  ELSE [address |-> req.loopback, class |-> "loopback"]

\* VerifyTOFU: a tunnel needs no pin, a first pin needs an authenticated SSH bootstrap.
PinDecision(mode, presented, pin, bootstrap) ==
  IF mode = "ssh_tunnel" THEN "tunnel_no_pin_needed"
  ELSE IF presented = "malformed" THEN "refused"
  ELSE IF pin # "none" THEN IF pin = presented THEN "pin_matched" ELSE "refused"
  ELSE IF bootstrap THEN "pin_established" ELSE "refused"

\* The listener is public only for a confirmation of exactly that address, and
\* what is refused still listens, on the loopback interface (EvaluateBind).
PublicIsConfirmed(req) ==
  /\ Listener(req).class = "public" => req.allowed /\ Confirmed(req) /\ Listener(req).address = req.address
  /\ Listener(req).class \in {req.class, "loopback"}

----------------------------------------------------------------------------
BoundaryTypeOK ==
  /\ consumed \subseteq {t \in Tokens: claims[t] # Nothing}
  /\ allowlist \in Allowlists /\ now \in 0..MaxTime
  /\ \A r \in ran: r.action \in KnownActions

\* What runs as root is in the allowlist that was loaded, with arguments of its
\* shape; without a token only a bootstrap action runs, and a token runs only the
\* action, under the allowlist, it was minted for (Engine.Run).
RunsWereAllowed ==
  \A r \in ran:
    /\ r.action \in r.list /\ r.fits
    /\ IF r.mode = "bootstrap" THEN r.action \in BootstrapActions
       ELSE r.token # Nothing /\ claims[r.token].action = r.action /\ claims[r.token].list = r.list

\* One process runs a token once as long as it has not expired: two that race for
\* it meet in Consume.
TokenRunsOnce ==
  \A r, s \in ran: r.token # Nothing /\ r.token = s.token /\ r.life = s.life /\ ~r.late /\ ~s.late => r = s
=============================================================================
