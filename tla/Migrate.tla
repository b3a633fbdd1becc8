------------------------------- MODULE Migrate -------------------------------
(***************************************************************************)
(* scripts/migrate.ts: every deployment runs its release's migrations      *)
(* before its server starts.  A runner waits for a session's advisory      *)
(* lock, walks its sorted files, skips the recorded ones, applies a        *)
(* transactional file and its row in one transaction, and builds a         *)
(* concurrent index step by step outside any: create, mark, record.        *)
(*                                                                         *)
(* Any query may fail and a runner may die anywhere; its session, and with *)
(* it the lock, ends with it.  A failed runner is started again.  An       *)
(* operator may create or drop an index by hand.  Files are parsed         *)
(* already: the ones parseMigration refuses never run.                     *)
(***************************************************************************)
EXTENDS Integers, Sequences, FiniteSets

CONSTANTS
    Runners,
    FilesOf,      \* the files of each runner's release, in order
    None,         \* no lock holder, no index, no comment
    MaxFaults     \* bound: crashes, failed queries, interventions

\* A file is its name, its checksum and the index it creates, if any.
Files == UNION {{FilesOf[w][i] : i \in DOMAIN FilesOf[w]} : w \in Runners}
Indexes == {f.index : f \in Files} \ {None}

ASSUME MigrateConstants ==
    /\ MaxFaults \in Nat
    /\ None \notin Runners \cup Files
    /\ None \notin [valid : BOOLEAN, marker : Files \cup {None}]
    /\ FilesOf \in [Runners -> Seq(Files)]
    /\ \A w \in Runners : \A i, j \in DOMAIN FilesOf[w] :
         FilesOf[w][i].name = FilesOf[w][j].name => i = j

VARIABLES
    lock,        \* the runner that holds the advisory lock
    runner,      \* the step of each runner and the file it is at
    migrations,  \* _migrations: the files recorded
    applied,     \* how often the body of each transactional file took effect
    index,       \* pg_index: each index, whether it is valid, and its comment
    leftBy,      \* history: who left the index valid and without a marker
    faults

vars == <<lock, runner, migrations, applied, index, leftBy, faults>>

Init ==
    /\ lock = None
    /\ runner = [w \in Runners |-> [step |-> "stopped", at |-> 1]]
    /\ migrations = {}
    /\ applied = [f \in Files |-> 0]
    /\ index = [x \in Indexes |-> None]
    /\ leftBy = [x \in Indexes |-> None]
    /\ faults = 0

File(w) == FilesOf[w][runner[w].at]
At(w, step) == runner[w].step = step
Go(w, step) == runner' = [runner EXCEPT ![w].step = step]
NextFile(w) == runner' = [runner EXCEPT ![w] = [step |-> "checking", at |-> @.at + 1]]
-----------------------------------------------------------------------------
start(w) ==
    /\ At(w, "stopped")
    /\ runner' = [runner EXCEPT ![w] = [step |-> "locking", at |-> 1]]
    /\ UNCHANGED <<lock, migrations, applied, index, leftBy, faults>>

\* Mutant: the lock does not keep a second runner out.
NotExclusive(w) == TRUE
LockFree(w) == lock = None

acquireLock(w) ==
    /\ At(w, "locking") /\ LockFree(w)
    /\ lock' = w
    /\ Go(w, "checking")
    /\ UNCHANGED <<migrations, applied, index, leftBy, faults>>

\* Mutant: a recorded name is skipped whatever its checksum.
RecordedName(f) == f.name \in {g.name : g \in migrations}
Recorded(f) == f \in migrations

Unrecorded(f) == f.name \notin {g.name : g \in migrations}

\* A recorded file is skipped; with another checksum it stops the runner.
checkFile(w) ==
    /\ At(w, "checking")
    /\ \/ runner[w].at > Len(FilesOf[w]) /\ Go(w, "finishing")
       \/ runner[w].at <= Len(FilesOf[w]) /\ Recorded(File(w)) /\ NextFile(w)
       \/ /\ runner[w].at <= Len(FilesOf[w]) /\ ~ Recorded(File(w))
          /\ Go(w, IF ~ Unrecorded(File(w)) THEN "failing"
                   ELSE IF File(w).index = None THEN "applying" ELSE "preparing")
    /\ UNCHANGED <<lock, migrations, applied, index, leftBy, faults>>

applyTransactional(w) ==
    /\ At(w, "applying") /\ Unrecorded(File(w))
    /\ applied' = [applied EXCEPT ![File(w)] = @ + 1]
    /\ migrations' = migrations \cup {File(w)}
    /\ NextFile(w)
    /\ UNCHANGED <<lock, index, leftBy, faults>>

Invalid == [valid |-> FALSE, marker |-> None]
Built == [valid |-> TRUE, marker |-> None]
Marked(f) == [valid |-> TRUE, marker |-> f]

\* Mutant: an index that was left invalid is an error like any other.
PreparedStrictly(x, f) ==
    CASE x = None -> "creating"
      [] x = Marked(f) -> "recording"
      [] OTHER -> "failing"

\* A valid index is this file's only if it carries its marker; an invalid one
\* is the rest of a build that failed.
Prepared(x, f) ==
    CASE x = None -> "creating"
      [] x = Marked(f) -> "recording"
      [] x = Invalid -> "dropping"
      [] OTHER -> "failing"

prepareConcurrentIndexTarget(w) ==
    /\ At(w, "preparing")
    /\ Go(w, Prepared(index[File(w).index], File(w)))
    /\ UNCHANGED <<lock, migrations, applied, index, leftBy, faults>>

dropIndex(w) ==
    /\ At(w, "dropping")
    /\ index' = [index EXCEPT ![File(w).index] = None]
    /\ Go(w, "creating")
    /\ UNCHANGED <<lock, migrations, applied, leftBy, faults>>

\* CREATE INDEX CONCURRENTLY IF NOT EXISTS shows the index, invalid, while it
\* is built, and is skipped when someone else created it meanwhile.
createIndex(w) ==
    /\ At(w, "creating")
    /\ \/ /\ index[File(w).index] = None
          /\ index' = [index EXCEPT ![File(w).index] = Invalid]
          /\ Go(w, "building")
       \/ /\ index[File(w).index] # None
          /\ Go(w, "marking")
          /\ UNCHANGED index
    /\ UNCHANGED <<lock, migrations, applied, leftBy, faults>>

indexBuilt(w) ==
    /\ At(w, "building")
    /\ index' = [index EXCEPT ![File(w).index] = Built]
    /\ Go(w, "marking")
    /\ UNCHANGED <<lock, migrations, applied, leftBy, faults>>

markConcurrentIndexReady(w) ==
    /\ At(w, "marking")
    /\ LET x == File(w).index
       IN  \/ /\ index[x] \notin {None, Invalid}
              /\ index' = [index EXCEPT ![x] = Marked(File(w))]
              /\ Go(w, "recording")
           \/ /\ index[x] \in {None, Invalid}
              /\ Go(w, "failing")
              /\ UNCHANGED index
    /\ UNCHANGED <<lock, migrations, applied, leftBy, faults>>

recordIndex(w) ==
    /\ At(w, "recording") /\ Unrecorded(File(w))
    /\ migrations' = migrations \cup {File(w)}
    /\ NextFile(w)
    /\ UNCHANGED <<lock, applied, index, leftBy, faults>>

\* The finally block; the process then ends, well or with an error.
unlock(w) ==
    /\ runner[w].step \in {"finishing", "failing"}
    /\ lock' = IF lock = w THEN None ELSE lock
    /\ Go(w, IF At(w, "finishing") THEN "done" ELSE "stopped")
    /\ UNCHANGED <<migrations, applied, index, leftBy, faults>>
-----------------------------------------------------------------------------
Fault == faults < MaxFaults /\ faults' = faults + 1

Working == {"checking", "applying", "preparing", "dropping", "creating", "building",
            "marking", "recording"}

\* A runner that ends after CREATE INDEX and before the marker leaves a valid
\* index that no later run will touch.
Leaves(w) ==
    leftBy' = [x \in Indexes |->
        IF runner[w].step \in {"building", "marking"} /\ x = File(w).index /\ index'[x] = Built
        THEN "runner" ELSE leftBy[x]]

\* A query fails and takes no effect; a build leaves its index invalid.
queryFails(w) ==
    /\ Fault
    /\ runner[w].step \in Working
    /\ Go(w, "failing")
    /\ UNCHANGED <<lock, migrations, applied, index>>
    /\ Leaves(w)

\* The process dies.  A build it started may still succeed; the session and
\* its lock end with the build.
crash(w) ==
    /\ Fault
    /\ runner[w].step \in Working \cup {"locking", "finishing", "failing"}
    /\ Go(w, "stopped")
    /\ lock' = IF lock = w THEN None ELSE lock
    /\ \/ UNCHANGED index
       \/ At(w, "building") /\ index' = [index EXCEPT ![File(w).index] = Built]
    /\ Leaves(w)
    /\ UNCHANGED <<migrations, applied>>

\* An operator builds an index by hand, or drops one that no marker claims.
operatorCreates(x) ==
    /\ Fault
    /\ index[x] = None
    /\ index' = [index EXCEPT ![x] = Built]
    /\ leftBy' = [leftBy EXCEPT ![x] = "operator"]
    /\ UNCHANGED <<lock, runner, migrations, applied>>

operatorDrops(x) ==
    /\ Fault
    /\ index[x] = Built
    /\ index' = [index EXCEPT ![x] = None]
    /\ leftBy' = [leftBy EXCEPT ![x] = None]
    /\ UNCHANGED <<lock, runner, migrations, applied>>

Progress(w) ==
    \/ start(w)
    \/ checkFile(w)
    \/ applyTransactional(w)
    \/ prepareConcurrentIndexTarget(w)
    \/ dropIndex(w)
    \/ createIndex(w)
    \/ indexBuilt(w)
    \/ markConcurrentIndexReady(w)
    \/ recordIndex(w)
    \/ unlock(w)

Next ==
    \/ \E w \in Runners : acquireLock(w) \/ Progress(w) \/ queryFails(w) \/ crash(w)
    \/ \E x \in Indexes : operatorCreates(x) \/ operatorDrops(x)

Spec == Init /\ [][Next]_vars

\* A runner that is not waiting goes on, a stopped one is started again, and
\* PostgreSQL serves the waiters of a lock in their order.
Fairness == \A w \in Runners : WF_vars(Progress(w)) /\ SF_vars(acquireLock(w))

FairSpec == Spec /\ Fairness
-----------------------------------------------------------------------------
Steps == Working \cup {"stopped", "locking", "finishing", "failing", "done"}

TypeOK ==
    /\ lock \in Runners \cup {None}
    /\ runner \in [Runners -> [step : Steps, at : Nat \ {0}]]
    /\ \A w \in Runners : runner[w].at <= Len(FilesOf[w]) + 1
    /\ migrations \subseteq Files
    /\ applied \in [Files -> Nat]
    /\ index \in [Indexes -> {None, Invalid, Built} \cup {Marked(f) : f \in Files}]
    /\ leftBy \in [Indexes -> {None, "runner", "operator"}]
    /\ faults \in 0 .. MaxFaults

\* What a row of _migrations promises is so, whatever crashed or raced: the
\* body of a recorded file took effect exactly once and that of an unrecorded
\* one never did, and a recorded index is valid and carries the file's marker
\* (migrate.ts:120, :145, :147).
RecordedMeansApplied ==
    /\ \A f \in Files : f.index = None => applied[f] = IF f \in migrations THEN 1 ELSE 0
    /\ \A f \in migrations : f.index # None => index[f.index] = Marked(f)

\* A server starts only after its runner succeeded, and then every file of
\* its release is recorded with its checksum and stays recorded: no release
\* that was deployed meanwhile recorded another text under one of its names.
DoneMeansMigrated ==
    \A w \in Runners : At(w, "done") =>
        \A i \in DOMAIN FilesOf[w] : FilesOf[w][i] \in migrations

\* A file was edited after it had been deployed: its name is recorded with
\* another text, or its index carries another file's marker.
Edited(w) ==
    \E i \in DOMAIN FilesOf[w] :
        LET f == FilesOf[w][i]
        IN  \/ \E g \in migrations : g.name = f.name /\ g # f
            \/ f.index # None /\ \E g \in Files \ {f} : index[f.index] = Marked(g)

\* An index is valid and without a marker since an operator built it, or since
\* a runner ended before it could set one.
LeftOver(w) ==
    \E i \in DOMAIN FilesOf[w] :
        LET x == FilesOf[w][i].index
        IN  x # None /\ index[x] = Built /\ leftBy[x] # None

\* Once failures end every runner succeeds: no runner keeps the others out,
\* and an index whose build failed is dropped and built again by a later run
\* (migrate.ts:75, :151).  Three things stop a runner for good: a file edited
\* after it was deployed, an index an operator built, and the valid index of a
\* runner that ended between CREATE INDEX and its marker, which every later
\* run takes for a stranger's (migrate.ts:72, :142, :145).
EventuallyMigrated == \A w \in Runners : <>[](At(w, "done") \/ Edited(w) \/ LeftOver(w))
=============================================================================
