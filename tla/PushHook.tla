------------------------------- MODULE PushHook -------------------------------
(***************************************************************************)
(* The post-commit hook of a project's repository (git/hooks/hooks.go,     *)
(* Installer): installed when a swarm starts, removed by the manual push   *)
(* policy, with a hook of the user's kept beside it and chained.  Each     *)
(* call is a few file operations; the daemon may die between them, and the *)
(* user edits the hooks directory between calls.                           *)
(***************************************************************************)
EXTENDS Integers, FiniteSets

CONSTANTS UserHooks, Managed, Nothing, MaxEdits, MaxCrashes

\* The marker line tells a managed hook from any of the user's.
HookConstants == Managed \notin UserHooks \cup {Nothing} /\ Nothing \notin UserHooks

VARIABLES hook,    \* the post-commit file
          backup,  \* the preserved user hook beside it
          tmp,     \* the temporary file of writeExecutableHook
          pc,      \* the call under way
          discarded, \* user hooks the user removed or replaced
          made, spent
vars == <<hook, backup, tmp, pc, discarded, made, spent>>

Idle == pc = "idle"

\* As a bug would have it: a user hook aside is replaced.
InstallOver ==
  /\ Idle
  /\ IF hook \in UserHooks THEN backup' = hook /\ hook' = Nothing ELSE UNCHANGED <<hook, backup>>
  /\ pc' = "write"
  /\ UNCHANGED <<tmp, discarded, made, spent>>
\* Install: a managed hook is rendered again, a user's is moved aside unless
\* there is one aside already.
Install ==
  /\ Idle
  /\ \/ /\ hook \in {Managed, Nothing}
        /\ pc' = "write" /\ UNCHANGED <<hook, backup>>
     \/ /\ hook \in UserHooks /\ backup = Nothing
        /\ backup' = hook /\ hook' = Nothing /\ pc' = "write"
     \/ /\ hook \in UserHooks /\ backup # Nothing   \* ErrUserHookBackupExists
        /\ UNCHANGED <<hook, backup, pc>>
  /\ UNCHANGED <<tmp, discarded, made, spent>>


\* writeExecutableHook: a temporary, then the rename.
WriteTemp == /\ pc = "write" /\ tmp' = Managed /\ pc' = "rename"
             /\ UNCHANGED <<hook, backup, discarded, made, spent>>
Rename == /\ pc = "rename" /\ hook' = tmp /\ tmp' = Nothing /\ pc' = "idle"
          /\ UNCHANGED <<backup, discarded, made, spent>>

\* As a bug would have it: what is at the path is removed without looking.
UninstallBlindly ==
  /\ Idle /\ hook' = backup /\ backup' = Nothing
  /\ UNCHANGED <<tmp, pc, discarded, made, spent>>
\* Uninstall: a hook that is not ours is refused; ours gives way to the user's
\* in one rename, or is removed; without ours the user's is put back.
Uninstall ==
  /\ Idle
  /\ IF hook \in UserHooks THEN UNCHANGED <<hook, backup>>
     ELSE hook' = backup /\ backup' = Nothing
  /\ UNCHANGED <<tmp, pc, discarded, made, spent>>


\* The user writes a hook of their own or removes what is there.
UserWrites(h) == /\ Idle /\ h \notin made /\ Cardinality(made) < MaxEdits
                 /\ discarded' = discarded \cup ({hook} \ {Managed, Nothing})
                 /\ hook' = h /\ made' = made \cup {h}
                 /\ UNCHANGED <<backup, tmp, pc, spent>>
UserRemoves == /\ Idle /\ hook # Nothing
               /\ discarded' = discarded \cup ({hook} \ {Managed, Nothing})
               /\ hook' = Nothing
               /\ UNCHANGED <<backup, tmp, pc, made, spent>>

Crash == /\ ~Idle /\ spent < MaxCrashes /\ spent' = spent + 1
         /\ pc' = "idle" /\ UNCHANGED <<hook, backup, tmp, discarded, made>>

Init == /\ hook \in {Nothing} \cup UserHooks /\ backup = Nothing /\ tmp = Nothing
        /\ pc = "idle" /\ discarded = {} /\ made = {hook} \ {Nothing} /\ spent = 0
Next == \/ Install \/ WriteTemp \/ Rename \/ Uninstall \/ UserRemoves \/ Crash
        \/ \E h \in UserHooks: UserWrites(h)
Spec == Init /\ [][Next]_vars

----------------------------------------------------------------------------
HookTypeOK == /\ {hook, backup, tmp} \subseteq UserHooks \cup {Managed, Nothing}
              /\ pc \in {"idle", "write", "rename"}

\* A hook the user wrote and did not remove is at the path or preserved
\* beside it, through any order of installs, uninstalls, edits and crashes.
UserHookKept == \A h \in made \ discarded: h \in {hook, backup}

\* Only a user's hook is ever set aside: chaining never calls itself.
NeverChainsItself == backup # Managed
=============================================================================
