---------------------------- MODULE ProjectImport ----------------------------
(***************************************************************************)
(* Importing a project (projects/projects.go, store.go, initialization.go, *)
(* discovery.go): directories are prepared file by file, then one SQL      *)
(* transaction records the project and the idempotency key.  Service.mu    *)
(* serialises imports and drafts; the user works in the same directories.  *)
(***************************************************************************)
EXTENDS Integers, FiniteSets

CONSTANTS Roots, Keys, Nothing, MaxIds, MaxCalls, MaxEdits

VARIABLES tree,     \* what lies in each root directory
          rows,     \* the projects table
          records,  \* the project_idempotency table, by key
          call,     \* the request that holds Service.mu, or Nothing
          told,     \* history: the project each keyed request was given
          ids, calls, edits
vars == <<tree, rows, records, call, told, ids, calls, edits>>

\* Two directories of the same base name have the same slug.
Slugs == {"base", "other"}
Heads == {"missing", "no_origin", "detached", "branch"}
Empty == [head |-> "branch", dir |-> FALSE, json |-> Nothing, lock |-> FALSE,
          beads |-> FALSE, agents |-> "none"]

\* What project.json holds, and the requests; Nothing is neither.
Meta == [id: Nat, slug: Slugs]
Requests == [op: {"import"}, pc: {"dir", "json", "lock", "beads", "create"},
             req: [root: Roots, key: Keys \cup {Nothing}, slug: Slugs], meta: Meta \cup {Nothing}]
            \cup [op: {"draft"}, pc: {"write", "update"}, req: [root: Roots, id: Nat], meta: {Nothing}]
ImportConstants == Nothing \notin Meta /\ Nothing \notin Requests

Row(id) == {r \in rows: r.id = id}
AtRoot(root) == {r \in rows: r.root = root}

\* requestHash: what two requests under one key must agree on.
RequestHash(req) == [root |-> req.root, slug |-> req.slug]

Importing(pc) == call # Nothing /\ call.op = "import" /\ call.pc = pc
To(pc) == call' = [call EXCEPT !.pc = pc]
\* Every way an import ends without a row: an error, or the daemon going down.
Return == call' = Nothing
Answer(id) ==
  told' = IF call.req.key = Nothing THEN told ELSE told \cup {<<call.req.key, RequestHash(call.req), id>>}

\* Import, up to its first write: a known root without a key is answered from
\* the table, any other goes through every step again.
Import ==
  /\ call = Nothing /\ calls < MaxCalls /\ calls' = calls + 1
  /\ \E root \in Roots, key \in Keys \cup {Nothing}, slug \in Slugs:
       call' = IF (AtRoot(root) # {} /\ key = Nothing) \/ tree[root].head # "branch" THEN Nothing
               ELSE [op |-> "import", pc |-> "dir", req |-> [root |-> root, key |-> key, slug |-> slug], meta |-> Nothing]
  /\ UNCHANGED <<tree, rows, records, told, ids, edits>>

MakeDir ==
  /\ Importing("dir") /\ To("json")
  /\ tree' = [tree EXCEPT ![call.req.root].dir = TRUE]
  /\ UNCHANGED <<rows, records, told, ids, calls, edits>>

\* InitializeHoopoeDir: a project.json that is there decides identity and slug,
\* whatever the request asks for; otherwise one is written with a fresh id.
WriteProjectJSON ==
  /\ Importing("json")
  /\ LET root == call.req.root
         meta == IF tree[root].json # Nothing THEN tree[root].json
                 ELSE [id |-> ids + 1, slug |-> call.req.slug]
     IN /\ (tree[root].json # Nothing \/ ids < MaxIds)
        /\ tree' = [tree EXCEPT ![root].json = meta]
        /\ ids' = IF tree[root].json = Nothing THEN ids + 1 ELSE ids
        /\ call' = [call EXCEPT !.pc = "lock", !.meta = meta]
  /\ UNCHANGED <<rows, records, told, calls, edits>>

\* skills.lock.json and model-context-policy.json, each if missing.
WriteDefaults ==
  /\ Importing("lock") /\ To("beads")
  /\ tree' = [tree EXCEPT ![call.req.root].lock = TRUE]
  /\ UNCHANGED <<rows, records, told, ids, calls, edits>>

\* As a bug would have it: the row is recorded before the directory is whole.
InitBeadsLate ==
  /\ Importing("beads") /\ To("create")
  /\ UNCHANGED <<tree, rows, records, told, ids, calls, edits>>
\* InitializeBeadsIfMissing: br init.
InitBeads ==
  /\ Importing("beads") /\ To("create")
  /\ tree' = [tree EXCEPT ![call.req.root].beads = TRUE]
  /\ UNCHANGED <<rows, records, told, ids, calls, edits>>

NewRow == [id |-> call.meta.id, slug |-> call.meta.slug, root |-> call.req.root,
           agents |-> tree[call.req.root].agents # "none"]
Record(id) ==
  records' = IF call.req.key = Nothing THEN records
             ELSE [k \in DOMAIN records \cup {call.req.key} |->
                     IF k = call.req.key THEN [hash |-> RequestHash(call.req), id |-> id] ELSE records[k]]

\* As a bug would have it: the root is looked up, the key is not.
CreateByRoot ==
  /\ Importing("create") /\ Return
  /\ IF AtRoot(call.req.root) # {}
     THEN LET id == (CHOOSE r \in AtRoot(call.req.root): TRUE).id IN Record(id) /\ Answer(id) /\ UNCHANGED rows
     ELSE IF \E r \in rows: r.id = NewRow.id \/ r.slug = NewRow.slug
     THEN UNCHANGED <<rows, records, told>>
     ELSE rows' = rows \cup {NewRow} /\ Record(NewRow.id) /\ Answer(NewRow.id)
  /\ UNCHANGED <<tree, ids, calls, edits>>
\* SQLStore.Create, one transaction: the key first, then the root, then the
\* insert, which the unique id and slug columns may refuse.
Create ==
  /\ Importing("create") /\ Return
  /\ LET key == call.req.key
         known == key # Nothing /\ key \in DOMAIN records
     IN \/ /\ known /\ records[key].hash = RequestHash(call.req) /\ Row(records[key].id) # {}
           /\ Answer(records[key].id) /\ UNCHANGED <<rows, records>>
        \/ /\ known /\ (records[key].hash # RequestHash(call.req) \/ Row(records[key].id) = {})
           /\ UNCHANGED <<rows, records, told>>
        \/ /\ ~known /\ AtRoot(call.req.root) # {}
           /\ LET id == (CHOOSE r \in AtRoot(call.req.root): TRUE).id IN Record(id) /\ Answer(id)
           /\ UNCHANGED rows
        \/ /\ ~known /\ AtRoot(call.req.root) = {}
           /\ IF \E r \in rows: r.id = NewRow.id \/ r.slug = NewRow.slug
              THEN UNCHANGED <<rows, records, told>>
              ELSE rows' = rows \cup {NewRow} /\ Record(NewRow.id) /\ Answer(NewRow.id)
  /\ UNCHANGED <<tree, ids, calls, edits>>



\* CreateAgentContractDraft, up to the write: a manifest that is there refuses.
Draft ==
  /\ call = Nothing /\ calls < MaxCalls /\ calls' = calls + 1
  /\ \E r \in rows:
       call' = IF tree[r.root].agents # "none" THEN Nothing
               ELSE [op |-> "draft", pc |-> "write", req |-> [root |-> r.root, id |-> r.id], meta |-> Nothing]
  /\ UNCHANGED <<tree, rows, records, told, ids, edits>>

Drafting(pc) == call # Nothing /\ call.op = "draft" /\ call.pc = pc

\* As a bug would have it: the earlier look is trusted and the file truncated.
WriteDraftOver ==
  /\ Drafting("write") /\ To("update")
  /\ tree' = [tree EXCEPT ![call.req.root].agents = "draft"]
  /\ UNCHANGED <<rows, records, told, ids, calls, edits>>
\* writeFileIfAbsent opens with O_EXCL: a manifest the user put there since is
\* left alone and the request is refused.
WriteDraft ==
  /\ Drafting("write")
  /\ IF tree[call.req.root].agents = "none"
     THEN tree' = [tree EXCEPT ![call.req.root].agents = "draft"] /\ To("update")
     ELSE Return /\ UNCHANGED tree
  /\ UNCHANGED <<rows, records, told, ids, calls, edits>>


\* DetectToolEnvironment again, and UpdateToolEnvironment.
UpdateRow ==
  /\ Drafting("update") /\ Return
  /\ rows' = {IF r.id = call.req.id THEN [r EXCEPT !.agents = tree[r.root].agents # "none"] ELSE r: r \in rows}
  /\ UNCHANGED <<tree, records, told, ids, calls, edits>>

\* A step fails, the caller's context ends, or the daemon goes down.
Abandon ==
  /\ call # Nothing /\ edits < MaxEdits /\ edits' = edits + 1 /\ Return
  /\ UNCHANGED <<tree, rows, records, told, ids, calls>>

\* The user writes AGENTS.md, or copies a tree with its .hoopoe to another root.
Edit ==
  /\ edits < MaxEdits /\ edits' = edits + 1
  /\ \E r \in Roots:
       \/ tree' = [tree EXCEPT ![r].agents = "user"]
       \/ \E s \in Roots \ {r}: ~tree[s].dir /\ tree' = [tree EXCEPT ![s] = [tree[r] EXCEPT !.head = tree[s].head]]
  /\ UNCHANGED <<rows, records, call, told, ids, calls>>

Init == /\ tree \in [Roots -> {[Empty EXCEPT !.head = h]: h \in Heads}]
        /\ rows = {} /\ records = <<>> /\ call = Nothing /\ told = {}
        /\ ids = 0 /\ calls = 0 /\ edits = 0
Next == \/ Import \/ MakeDir \/ WriteProjectJSON \/ WriteDefaults \/ InitBeads \/ Create
        \/ Draft \/ WriteDraft \/ UpdateRow \/ Abandon \/ Edit
Spec == Init /\ [][Next]_vars

----------------------------------------------------------------------------
ImportTypeOK ==
  /\ ids \in 0..MaxIds /\ DOMAIN records \subseteq Keys
  /\ \A r \in rows: r.root \in Roots /\ r.slug \in Slugs /\ r.agents \in BOOLEAN

\* A recorded project is whole on disk, and project.json names it: the row is
\* the last thing Import writes, however often it was cut short before.
RowsAreWhole ==
  \A r \in rows: LET t == tree[r.root]
                 IN  t.dir /\ t.lock /\ t.beads /\ t.json # Nothing /\ t.json.id = r.id

\* An idempotency key is answered with one project for one request, across
\* retries, crashes and keys reused for something else (store.Create).
KeyAnswersOnce == \A a, b \in told: a[1] = b[1] => a = b

\* No request replaces an AGENTS.md that the user wrote (writeFileIfAbsent); users may, who copy
\* a tree over it.
UserManifestKept == edits' = edits => \A r \in Roots: tree[r].agents = "user" => tree'[r].agents = "user"
=============================================================================
