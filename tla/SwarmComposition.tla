-------------------------- MODULE SwarmComposition --------------------------
(***************************************************************************)
(* How many agents of which harness a swarm gets, and on which accounts    *)
(* (swarm/composition/composition.go).  An account is [name, tool, health, *)
(* active, favorite, cooling]; accounts come in name order.                *)
(***************************************************************************)
EXTENDS Integers, Sequences, SequencesExt, FiniteSets, FiniteSetsExt

\* Specs, in order; CAAM knows each harness by one tool.
Harnesses == <<"claude", "codex", "gemini">>
DefaultMaxAgents == 12
Cap(maxAgents) == IF maxAgents <= 0 THEN DefaultMaxAgents ELSE maxAgents

\* DefaultAutoTargets.
Targets(ready) ==
  IF ready >= 400 THEN <<4, 4, 2>> ELSE IF ready >= 100 THEN <<3, 3, 2>> ELSE <<1, 1, 1>>

Least(a, b) == IF a <= b THEN a ELSE b
Total(counts) == FoldSeq(LAMBDA c, sum: c + sum, 0, counts)

\* As a bug would have it: a share may round down to none.
SharesRounded(targets, cap) ==
  FoldLeft(LAMBDA shares, base: Append(shares, Least(cap - Total(shares), (base * cap) \div Total(targets))),
           <<>>, targets)
\* capTargets, first pass: a proportional share, at least one while any is left.
Shares(targets, cap) ==
  FoldLeft(LAMBDA shares, base:
             LET left == cap - Total(shares)
                 share == (base * cap) \div Total(targets)
             IN  Append(shares, Least(left, IF share = 0 /\ base > 0 /\ left > 0 THEN 1 ELSE share)),
           <<>>, targets)


\* Second pass: what is left, one each in turn, to those below their target.
Filled(targets, cap) ==
  LET next[s \in UNION {[1..Len(targets) -> 0..cap]}] ==
        IF Total(s) >= cap \/ \A i \in DOMAIN s: s[i] >= targets[i] THEN s
        ELSE LET round == FoldLeft(LAMBDA t, i: IF Total(t) < cap /\ t[i] < targets[i]
                                               THEN [t EXCEPT ![i] = @ + 1] ELSE t,
                                  s, [i \in DOMAIN s |-> i])
             IN  next[round]
  IN  IF Total(targets) <= cap THEN targets ELSE next[Shares(targets, cap)]

\* accountAvailable, availableByTool: by name, then favorites, then active ones.
Available(account) ==
  ~account.cooling /\ account.health \notin {"cooldown", "expired", "unhealthy", "missing", "logged_out", "rate_limited"}
Pool(inventory, tool) ==
  LET mine == SelectSeq(inventory, LAMBDA a: a.tool = tool /\ Available(a))
      rank(a) == IF a.active THEN 0 ELSE IF a.favorite THEN 1 ELSE 2
      of(r) == SelectSeq(mine, LAMBDA a: rank(a) = r)
  IN  of(0) \o of(1) \o of(2)

\* preferredAccountPool: the named ones first, in the order named.
Preferred(pool, names) == SelectSeq(pool, LAMBDA a: a.name \in names) \o SelectSeq(pool, LAMBDA a: a.name \notin names)
NamesKnown(pool, names) == names \subseteq {pool[i].name: i \in DOMAIN pool}

\* selectHarnessAccounts: auto stops at the pool, manual goes round it again.
Chosen(pool, count, pressure) ==
  IF pool = <<>> THEN <<>>
  ELSE [i \in 1..(IF pressure THEN count ELSE Least(count, Len(pool))) |-> pool[((i - 1) % Len(pool)) + 1]]

\* selectAuto.
Auto(inventory, ready, maxAgents) ==
  LET targets == Filled(Targets(ready), Cap(maxAgents))
  IN [i \in DOMAIN Harnesses |->
        LET pool == Pool(inventory, Harnesses[i])
        IN  [harness |-> Harnesses[i], requested |-> targets[i],
             accounts |-> Chosen(pool, Least(targets[i], Len(pool)), FALSE),
             warned |-> pool = <<>> /\ targets[i] > 0]]

\* selectManual: refused beyond the cap or for a name that is not available;
\* the pressure warning compares with all that is available.
Manual(inventory, wanted, names, maxAgents) ==
  LET pool(i) == Pool(inventory, Harnesses[i])
      asked == {i \in DOMAIN Harnesses: wanted[i] > 0 /\ pool(i) # <<>>}
  IN  IF Total(wanted) > Cap(maxAgents) \/ \E i \in asked: ~NamesKnown(pool(i), names[i]) THEN <<>>
      ELSE [i \in DOMAIN Harnesses |->
              [harness |-> Harnesses[i], requested |-> wanted[i],
               accounts |-> Chosen(Preferred(pool(i), names[i]), wanted[i], TRUE),
               warned |-> wanted[i] > Len(pool(i))]]

----------------------------------------------------------------------------
Accounts(selection) == FlattenSeq([i \in DOMAIN selection |-> selection[i].accounts])

\* Automatic selection stays within the cap, never puts two agents on one
\* account, and leaves no harness out that has an account while the cap has
\* room for all of them (capTargets, selectAuto).
AutoIsFair(inventory, ready, maxAgents) ==
  LET chosen == Auto(inventory, ready, maxAgents)
      accounts == Accounts(chosen)
  IN  /\ Len(accounts) <= Cap(maxAgents)
      /\ Cardinality(ToSet(accounts)) = Len(accounts)
      /\ Cap(maxAgents) >= Len(Harnesses) =>
           \A i \in DOMAIN Harnesses: Pool(inventory, Harnesses[i]) # <<>> => chosen[i].accounts # <<>>

\* A manual selection is honoured in full or warned about: agents share an
\* account only where the user was told (selectHarnessAccounts).
SharingIsTold(inventory, wanted, names, maxAgents) ==
  LET chosen == Manual(inventory, wanted, names, maxAgents)
  IN  \A i \in DOMAIN chosen:
        LET accounts == chosen[i].accounts
        IN  \/ chosen[i].warned
            \/ Len(accounts) = chosen[i].requested /\ Cardinality(ToSet(accounts)) = Len(accounts)
=============================================================================
