------------------------------ MODULE AuditLog ------------------------------
(***************************************************************************)
(* audit.Writer: the JSONL file of audit entries and the index in memory.  *)
(*                                                                         *)
(* Append numbers its records while it holds a lock on the file, after it  *)
(* has read the whole file again: several processes write one file, the    *)
(* daemon and the commands of `hoopoe tending`.  `hoopoe auth` appends to  *)
(* the same file with code of its own.  A file with a line that cannot be  *)
(* decoded can neither be opened nor appended to.                          *)
(***************************************************************************)
EXTENDS Integers, Sequences, FiniteSets

CONSTANTS Writers, Projects, Actors, Actions, Nothing,
          Bad,        \* a line of another schema version, or half a line
          Cap,        \* Config.MaxIndexEntries
          MaxLines,   \* bound: lines of the file
          MaxFaults   \* bound: failed writes

VARIABLES
    file,     \* the lines of audit.jsonl
    writer,   \* the Writer of each process, Nothing before NewWriter
    faults,
    answered  \* the entries Append returned without an error

vars == <<file, writer, faults, answered>>

GlobalProjectID == "global"
Trace == "audit.redaction_trace"
Daemon == "daemon.redaction"

Entry == [project : Projects \cup {GlobalProjectID}, seq : Nat,
          actor : Actors \cup {Daemon}, action : Actions \cup {Trace}]
\* A line of version 1, which has neither a project nor a number.
Legacy == [project |-> GlobalProjectID, seq |-> 0,
           actor |-> CHOOSE a \in Actors : TRUE, action |-> CHOOSE a \in Actions : TRUE]

Keys == Projects \cup {GlobalProjectID} \cup Actors \cup {Daemon} \cup Actions \cup {Trace}
KeysOf(e) == {e.project, e.actor, e.action}

-----------------------------------------------------------------------------
(* The index: the latest entries, and where those of each key are.         *)

EmptyIndex == [entries |-> <<>>, by |-> [k \in Keys |-> {}]]

\* The positions are left as they were when the oldest entries go.
AddedUnshifted(index, e) ==
    LET all == Append(index.entries, e)
        excess == IF Len(all) > Cap THEN Len(all) - Cap ELSE 0
        by == [k \in Keys |-> index.by[k] \cup (IF k \in KeysOf(e) THEN {Len(all)} ELSE {})]
    IN [entries |-> SubSeq(all, excess + 1, Len(all)), by |-> by]

\* addLocked and evictBeyondMaxLocked.
Added(index, e) ==
    LET all == Append(index.entries, e)
        excess == IF Len(all) > Cap THEN Len(all) - Cap ELSE 0
        by == [k \in Keys |-> index.by[k] \cup (IF k \in KeysOf(e) THEN {Len(all)} ELSE {})]
    IN [entries |-> SubSeq(all, excess + 1, Len(all)),
        by |-> [k \in Keys |-> {p - excess : p \in {q \in by[k] : q > excess}}]]

\* The index of the entries es: NewIndexWithConfig.
IndexOf(es) ==
    LET f[n \in 0 .. Len(es)] == IF n = 0 THEN EmptyIndex ELSE Added(f[n - 1], es[n])
    IN f[Len(es)]

\* candidateIndexesLocked: the shortest list of a key the query names.  A key that
\* no entry has does not count.
Candidates(index, query) ==
    LET lists == {index.by[k] : k \in {q \in query : index.by[q] # {}}}
    IN IF lists = {} THEN DOMAIN index.entries
       ELSE CHOOSE l \in lists : \A m \in lists : Cardinality(l) <= Cardinality(m)

Query(index, query) == {p \in Candidates(index, query) : query \subseteq KeysOf(index.entries[p])}

-----------------------------------------------------------------------------
(* The file.                                                               *)

Readable == \A n \in DOMAIN file : file[n] # Bad

Highest(p) == LET seqs == {file[n].seq : n \in {m \in DOMAIN file : file[m].project = p}}
              IN IF seqs = {} THEN 0 ELSE CHOOSE s \in seqs : \A t \in seqs : t <= s

\* NewWriter.
Open(w) ==
    /\ writer[w] = Nothing
    /\ Readable
    /\ writer' = [writer EXCEPT ![w] =
                    [index |-> IndexOf(file), seqs |-> [p \in Projects |-> Highest(p)]]]
    /\ UNCHANGED <<file, faults, answered>>

\* Close, or the end of the process.
Close(w) == /\ writer[w] # Nothing
            /\ writer' = [writer EXCEPT ![w] = Nothing]
            /\ UNCHANGED <<file, faults, answered>>

\* The numbers are those of the process.
UnrefreshedSeq(w, p) == writer[w].seqs[p]

\* refreshSequencesFromFileLocked.
RefreshedSeq(w, p) == LET s == writer[w].seqs[p]
                      IN IF Highest(p) > s THEN Highest(p) ELSE s

\* The entry and a trace of each redaction in it, which is an entry by itself.
Records(w, p, actor, action, traces) ==
    [n \in 1 .. 1 + traces |->
        [project |-> p, seq |-> RefreshedSeq(w, p) + n,
         actor |-> IF n = 1 THEN actor ELSE Daemon,
         action |-> IF n = 1 THEN action ELSE Trace]]

\* n records are written, and half of the next one if torn.  A number is used up by
\* a write that fails.
Written(w, p, records, n, torn) ==
    /\ file' = file \o SubSeq(records, 1, n) \o (IF torn THEN <<Bad>> ELSE <<>>)
    /\ writer' = [writer EXCEPT ![w] = [
            index |-> LET f[k \in 0 .. n] == IF k = 0 THEN writer[w].index
                                             ELSE Added(f[k - 1], records[k])
                      IN f[n],
            seqs |-> [writer[w].seqs EXCEPT ![p] =
                        records[IF n < Len(records) THEN n + 1 ELSE n].seq]]]

AppendEntry(w, p, actor, action, traces) ==
    /\ writer[w] # Nothing
    /\ Readable
    /\ Len(file) + 1 + traces <= MaxLines
    /\ LET records == Records(w, p, actor, action, traces)
       IN \/ /\ Written(w, p, records, Len(records), FALSE)
             /\ answered' = answered \cup {records[1]}
             /\ UNCHANGED faults
          \/ \E n \in 0 .. Len(records), torn \in BOOLEAN :
                /\ faults < MaxFaults
                /\ torn => n < Len(records)
                /\ Written(w, p, records, n, torn)
                /\ faults' = faults + 1
                /\ UNCHANGED answered

\* appendAudit of `hoopoe auth`: a line without a schema version.
AppendOfAuth == /\ Len(file) < MaxLines
                /\ file' = Append(file, Bad)
                /\ UNCHANGED <<writer, faults, answered>>

Init == /\ file \in {<<>>, <<Legacy>>}
        /\ writer = [w \in Writers |-> Nothing]
        /\ faults = 0
        /\ answered = {}

Next == \/ \E w \in Writers :
              \/ Open(w) \/ Close(w)
              \/ \E p \in Projects, a \in Actors, k \in Actions, t \in 0 .. 1 :
                    AppendEntry(w, p, a, k, t)
        \/ AppendOfAuth

Spec == Init /\ [][Next]_vars

-----------------------------------------------------------------------------
(* Properties.                                                             *)

\* Lines, indexes and counters have the values the code gives them.
AuditTypeOK ==
    /\ \A n \in DOMAIN file : file[n] = Bad \/ file[n] \in Entry
    /\ \A w \in Writers : writer[w] # Nothing =>
          /\ \A n \in DOMAIN writer[w].index.entries : writer[w].index.entries[n] \in Entry
          /\ Len(writer[w].index.entries) <= Cap
          /\ writer[w].seqs \in [Projects -> Nat]
    /\ faults \in Nat
    /\ answered \subseteq Entry

\* The entries of a project are numbered upwards in the order of the file, whoever
\* wrote them, whichever writes failed and whatever a restart made of the counters.
SequencesIncrease ==
    \A m, n \in DOMAIN file :
        /\ m < n /\ file[m] # Bad /\ file[n] # Bad
        /\ file[m].project = file[n].project /\ file[n].project \in Projects
        => file[m].seq < file[n].seq

\* An entry that was accepted is in the file.
AcceptedIsWritten == \A e \in answered : \E n \in DOMAIN file : file[n] = e

\* A query that goes through the lists of the index finds what a scan of the entries
\* finds, however many of them have been evicted.
QueryIsScan ==
    \A w \in Writers, query \in SUBSET Keys :
        (writer[w] # Nothing /\ Cardinality(query) <= 2) =>
            LET index == writer[w].index
            IN Query(index, query) =
                {p \in DOMAIN index.entries : query \subseteq KeysOf(index.entries[p])}

\* "The hp-g73 audit-log writer ... is the consumer": unless a write has failed, the
\* lines of the file are lines the writer can decode.
LinesAreConsumed == faults = 0 => Readable
=============================================================================
