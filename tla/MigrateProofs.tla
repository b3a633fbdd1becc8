---------------------------- MODULE MigrateProofs ----------------------------
(***************************************************************************)
(* Proofs about Migrate, for every set of runners and every release each   *)
(* of them deploys, files that share a name or an index included.          *)
(*                                                                         *)
(* The argument: only the holder of the advisory lock is past "locking",   *)
(* so what it found out about its file when it checked it is still so when *)
(* it acts on it, and the operator never touches an index with a marker.   *)
(***************************************************************************)
EXTENDS Migrate, TLAPS

\* What a runner does to the index of the file it is at.
Indexing == {"preparing", "dropping", "creating", "building", "marking", "recording"}

\* Before its marker is set an index belongs to nobody.
Unclaimed == {None, Invalid, Built}

\* A runner is between its lock and its unlock only as the lock's holder.
LockHeld ==
    \A w \in Runners : runner[w].step \in Working \cup {"finishing", "failing"} => lock = w

\* What checkFile and prepareConcurrentIndexTarget saw is still so.
CheckedHolds ==
    \A w \in Runners :
        /\ runner[w].step \in Indexing \cup {"applying"} =>
             runner[w].at <= Len(FilesOf[w]) /\ Unrecorded(File(w))
        /\ runner[w].step = "applying" => File(w).index = None
        /\ runner[w].step \in Indexing => File(w).index # None
        /\ runner[w].step \in {"dropping", "creating", "building", "marking"} =>
             index[File(w).index] \in Unclaimed
        /\ runner[w].step = "recording" => index[File(w).index] = Marked(File(w))

\* Every file a runner has passed is recorded.
PassedRecorded ==
    \A w \in Runners :
        /\ runner[w].step \in Working \cup {"locking", "finishing", "done"} =>
             \A i \in DOMAIN FilesOf[w] : i < runner[w].at => FilesOf[w][i] \in migrations
        /\ runner[w].step \in {"finishing", "done"} => runner[w].at > Len(FilesOf[w])

MigrateInv ==
    /\ TypeOK
    /\ LockHeld
    /\ CheckedHolds
    /\ PassedRecorded
    /\ RecordedMeansApplied
-----------------------------------------------------------------------------
(* Files and indexes *)

LEMMA FileFacts ==
  ASSUME TypeOK, NEW w \in Runners, runner[w].at <= Len(FilesOf[w])
  PROVE  /\ runner[w].at \in DOMAIN FilesOf[w]
         /\ File(w) \in Files
         /\ File(w).index # None => File(w).index \in Indexes
<1>1. FilesOf[w] \in Seq(Files)
  BY MigrateConstants
<1>2. runner[w].at \in 1 .. Len(FilesOf[w])
  BY <1>1 DEF TypeOK
<1>3. FilesOf[w][runner[w].at] \in Files
  BY <1>1, <1>2
<1> QED
  BY <1>1, <1>2, <1>3 DEF File, Indexes

\* The four things pg_index can say are different.
LEMMA MarksDiffer ==
  ASSUME NEW f \in Files
  PROVE  /\ Marked(f) \notin Unclaimed
         /\ None # Invalid /\ None # Built /\ Built # Invalid
         /\ \A g \in Files : Marked(g) = Marked(f) => g = f
<1>1. /\ Marked(f) \in [valid : BOOLEAN, marker : Files \cup {None}]
      /\ Invalid \in [valid : BOOLEAN, marker : Files \cup {None}]
      /\ Built \in [valid : BOOLEAN, marker : Files \cup {None}]
  BY DEF Marked, Invalid, Built
<1>2. Marked(f) # Invalid /\ Marked(f) # Built /\ Built # Invalid
  BY MigrateConstants DEF Marked, Invalid, Built
<1>3. None # Invalid /\ None # Built /\ None # Marked(f)
  BY <1>1, MigrateConstants
<1>4. \A g \in Files : Marked(g) = Marked(f) => g = f
  BY DEF Marked
<1> QED
  BY <1>2, <1>3, <1>4 DEF Unclaimed

-----------------------------------------------------------------------------
(* The inductive invariant *)

LEMMA MigrateInit == Init => MigrateInv
<1> SUFFICES ASSUME Init PROVE MigrateInv
  OBVIOUS
<1>1. TypeOK
  BY MigrateConstants DEF Init, TypeOK, Steps
<1>2. LockHeld /\ CheckedHolds /\ PassedRecorded
  BY DEF Init, LockHeld, CheckedHolds, PassedRecorded, Working, Indexing
<1>3. RecordedMeansApplied
  BY DEF Init, RecordedMeansApplied
<1> QED
  BY <1>1, <1>2, <1>3 DEF MigrateInv

\* A runner that only changes its step: what has to be shown of the new one.
LEMMA GoType ==
  ASSUME TypeOK, NEW w \in Runners, NEW s \in Steps, Go(w, s),
         lock' \in Runners \cup {None}, UNCHANGED <<migrations, applied>>,
         index' \in [Indexes -> {None, Invalid, Built} \cup {Marked(f) : f \in Files}],
         leftBy' \in [Indexes -> {None, "runner", "operator"}],
         faults' \in 0 .. MaxFaults
  PROVE  /\ TypeOK'
         /\ runner'[w].step = s /\ runner'[w].at = runner[w].at
         /\ \A v \in Runners \ {w} : runner'[v] = runner[v]
  BY DEF TypeOK, Go

LEMMA LeavesType ==
  ASSUME TypeOK, NEW w \in Runners, Leaves(w)
  PROVE  leftBy' \in [Indexes -> {None, "runner", "operator"}]
  BY DEF TypeOK, Leaves

LEMMA NextFileType ==
  ASSUME TypeOK, NEW w \in Runners, NextFile(w), runner[w].at <= Len(FilesOf[w])
  PROVE  /\ runner' \in [Runners -> [step : Steps, at : Nat \ {0}]]
         /\ \A v \in Runners : runner'[v].at <= Len(FilesOf[v]) + 1
         /\ runner'[w].step = "checking" /\ runner'[w].at = runner[w].at + 1
         /\ \A v \in Runners \ {w} : runner'[v] = runner[v]
<1>1. Len(FilesOf[w]) \in Nat
  BY MigrateConstants
<1> QED
  BY <1>1 DEF TypeOK, NextFile, Steps, Working

\* A step of the lock's holder leaves the others where they are, and they are
\* not between lock and unlock.
LEMMA OthersKeep ==
  ASSUME MigrateInv, NEW w \in Runners, lock = w,
         lock' \in {w, None},
         \A v \in Runners \ {w} : runner'[v] = runner[v],
         migrations \subseteq migrations',
         runner'[w].step \in Working \cup {"finishing", "failing"} => lock' = w,
         runner'[w].step \in Indexing \cup {"applying"} =>
             runner'[w].at <= Len(FilesOf[w]) /\ Unrecorded(File(w))',
         runner'[w].step = "applying" => File(w)'.index = None,
         runner'[w].step \in Indexing => File(w)'.index # None,
         runner'[w].step \in {"dropping", "creating", "building", "marking"} =>
             index'[File(w)'.index] \in Unclaimed,
         runner'[w].step = "recording" => index'[File(w)'.index] = Marked(File(w)'),
         runner'[w].step \in Working \cup {"locking", "finishing", "done"} =>
             \A i \in DOMAIN FilesOf[w] : i < runner'[w].at => FilesOf[w][i] \in migrations',
         runner'[w].step \in {"finishing", "done"} => runner'[w].at > Len(FilesOf[w])
  PROVE  LockHeld' /\ CheckedHolds' /\ PassedRecorded'
<1>1. \A v \in Runners \ {w} : runner[v].step \notin Working \cup {"finishing", "failing"}
  BY MigrateConstants DEF MigrateInv, LockHeld
<1>2. LockHeld'
  BY <1>1 DEF LockHeld
<1>3. CheckedHolds'
  BY <1>1 DEF CheckedHolds, Working, Indexing
<1>4. PassedRecorded'
  BY <1>1 DEF MigrateInv, PassedRecorded
<1> QED
  BY <1>2, <1>3, <1>4

\* RecordedMeansApplied survives what leaves the rows and the bodies alone and
\* no marked index.
LEMMA MarkedKept ==
  ASSUME MigrateInv, UNCHANGED <<migrations, applied>>,
         index' \in [Indexes -> {None, Invalid, Built} \cup {Marked(f) : f \in Files}],
         \A x \in Indexes : index[x] \in Unclaimed \/ index'[x] = index[x]
  PROVE  RecordedMeansApplied'
<1>1. ASSUME NEW f \in migrations, f.index # None
      PROVE  index'[f.index] = Marked(f)
  <2>1. f \in Files /\ f.index \in Indexes
    BY <1>1 DEF MigrateInv, TypeOK, Indexes
  <2>2. index[f.index] = Marked(f)
    BY <1>1 DEF MigrateInv, RecordedMeansApplied
  <2> QED
    BY <2>1, <2>2, MarksDiffer
<1> QED
  BY <1>1 DEF MigrateInv, RecordedMeansApplied

LEMMA MigrateNext == MigrateInv /\ [Next]_vars => MigrateInv'
<1> SUFFICES ASSUME MigrateInv, [Next]_vars PROVE MigrateInv'
  OBVIOUS
<1>t. TypeOK
  BY DEF MigrateInv
<1>n. \A w \in Runners : Len(FilesOf[w]) \in Nat /\ DOMAIN FilesOf[w] = 1 .. Len(FilesOf[w])
  BY MigrateConstants
<1>1. ASSUME NEW w \in Runners, start(w) PROVE MigrateInv'
  <2>1. /\ runner'[w].step = "locking" /\ runner'[w].at = 1
        /\ \A v \in Runners \ {w} : runner'[v] = runner[v]
    BY <1>1, <1>t DEF start, TypeOK
  <2>2. TypeOK'
    BY <1>1, <1>t, <1>n DEF start, TypeOK, Steps, Working
  <2>3. LockHeld' /\ CheckedHolds'
    BY <1>1, <2>1 DEF start, MigrateInv, LockHeld, CheckedHolds, Working, Indexing, File, Unrecorded
  <2>4. PassedRecorded'
    BY <1>1, <2>1, <1>n DEF start, MigrateInv, PassedRecorded
  <2>5. RecordedMeansApplied'
    BY <1>1 DEF start, MigrateInv, RecordedMeansApplied
  <2> QED
    BY <2>2, <2>3, <2>4, <2>5 DEF MigrateInv
<1>2. ASSUME NEW w \in Runners, acquireLock(w) PROVE MigrateInv'
  <2>1. /\ TypeOK'
        /\ runner'[w].step = "checking" /\ runner'[w].at = runner[w].at
        /\ \A v \in Runners \ {w} : runner'[v] = runner[v]
    BY <1>2, <1>t, GoType DEF acquireLock, Steps, Working, TypeOK
  <2>2. \A v \in Runners : runner[v].step \notin Working \cup {"finishing", "failing"}
    BY <1>2, MigrateConstants DEF acquireLock, LockFree, MigrateInv, LockHeld
  <2>3. LockHeld' /\ CheckedHolds'
    BY <1>2, <2>1, <2>2 DEF acquireLock, LockHeld, CheckedHolds, Working, Indexing
  <2>4. PassedRecorded'
    BY <1>2, <2>1 DEF acquireLock, At, MigrateInv, PassedRecorded
  <2>5. RecordedMeansApplied'
    BY <1>2 DEF acquireLock, MigrateInv, RecordedMeansApplied
  <2> QED
    BY <2>1, <2>3, <2>4, <2>5 DEF MigrateInv
<1>3. ASSUME NEW w \in Runners, checkFile(w) PROVE MigrateInv'
  <2>0. lock = w
    BY <1>3 DEF checkFile, At, MigrateInv, LockHeld, Working
  <2>k. RecordedMeansApplied'
    BY <1>3 DEF checkFile, MigrateInv, RecordedMeansApplied
  <2>1. CASE runner[w].at > Len(FilesOf[w]) /\ Go(w, "finishing")
    <3>1. /\ TypeOK'
          /\ runner'[w].step = "finishing" /\ runner'[w].at = runner[w].at
          /\ \A v \in Runners \ {w} : runner'[v] = runner[v]
      BY <1>3, <1>t, <2>1, GoType DEF checkFile, Steps, TypeOK
    <3>2. LockHeld' /\ CheckedHolds' /\ PassedRecorded'
      BY <1>3, <2>0, <2>1, <3>1, OthersKeep
         DEF checkFile, At, MigrateInv, PassedRecorded, Working, Indexing
    <3> QED
      BY <2>k, <3>1, <3>2 DEF MigrateInv
  <2>2. CASE runner[w].at <= Len(FilesOf[w]) /\ Recorded(File(w)) /\ NextFile(w)
    <3>1. /\ TypeOK'
          /\ runner'[w].step = "checking" /\ runner'[w].at = runner[w].at + 1
          /\ \A v \in Runners \ {w} : runner'[v] = runner[v]
      BY <1>3, <1>t, <2>2, NextFileType DEF checkFile, TypeOK
    <3>2. \A i \in DOMAIN FilesOf[w] : i < runner'[w].at => FilesOf[w][i] \in migrations'
      <4>1. \A i \in DOMAIN FilesOf[w] : i < runner[w].at => FilesOf[w][i] \in migrations
        BY <1>3 DEF checkFile, At, MigrateInv, PassedRecorded, Working
      <4> QED
        BY <1>3, <1>t, <1>n, <2>2, <3>1, <4>1 DEF checkFile, File, Recorded, TypeOK
    <3>3. LockHeld' /\ CheckedHolds' /\ PassedRecorded'
      BY <1>3, <2>0, <3>1, <3>2, OthersKeep DEF checkFile, Working, Indexing
    <3> QED
      BY <2>k, <3>1, <3>3 DEF MigrateInv
  <2>3. CASE /\ runner[w].at <= Len(FilesOf[w]) /\ ~ Recorded(File(w))
             /\ Go(w, IF ~ Unrecorded(File(w)) THEN "failing"
                      ELSE IF File(w).index = None THEN "applying" ELSE "preparing")
    <3> DEFINE s == IF ~ Unrecorded(File(w)) THEN "failing"
                    ELSE IF File(w).index = None THEN "applying" ELSE "preparing"
    <3>1. /\ TypeOK'
          /\ runner'[w].step = s /\ runner'[w].at = runner[w].at
          /\ \A v \in Runners \ {w} : runner'[v] = runner[v]
      <4>1. s \in Steps
        BY DEF Steps, Working
      <4> HIDE DEF s
      <4>2. Go(w, s)
        BY <2>3 DEF s
      <4> QED
        BY <1>3, <1>t, <4>1, <4>2, GoType DEF checkFile, TypeOK
    <3>2. File(w)' = File(w) /\ Unrecorded(File(w))' = Unrecorded(File(w))
      BY <1>3, <3>1 DEF checkFile, File, Unrecorded
    <3>3. \A i \in DOMAIN FilesOf[w] : i < runner[w].at => FilesOf[w][i] \in migrations
      BY <1>3 DEF checkFile, At, MigrateInv, PassedRecorded, Working
    <3>4. LockHeld' /\ CheckedHolds' /\ PassedRecorded'
      BY <1>3, <2>0, <2>3, <3>1, <3>2, <3>3, OthersKeep DEF checkFile, Working, Indexing
    <3> QED
      BY <2>k, <3>1, <3>4 DEF MigrateInv
  <2> QED
    BY <1>3, <2>1, <2>2, <2>3 DEF checkFile
<1>4. ASSUME NEW w \in Runners, applyTransactional(w) PROVE MigrateInv'
  <2>0. lock = w /\ runner[w].at <= Len(FilesOf[w]) /\ File(w).index = None
    BY <1>4 DEF applyTransactional, At, MigrateInv, LockHeld, CheckedHolds, Working
  <2>1. File(w) \in Files /\ File(w) \notin migrations
    BY <1>4, <1>t, <2>0, FileFacts DEF applyTransactional, Unrecorded
  <2>2. /\ TypeOK'
        /\ runner'[w].step = "checking" /\ runner'[w].at = runner[w].at + 1
        /\ \A v \in Runners \ {w} : runner'[v] = runner[v]
    BY <1>4, <1>t, <2>0, <2>1, NextFileType DEF applyTransactional, TypeOK
  <2>3. \A i \in DOMAIN FilesOf[w] : i < runner'[w].at => FilesOf[w][i] \in migrations'
    <3>1. \A i \in DOMAIN FilesOf[w] : i < runner[w].at => FilesOf[w][i] \in migrations
      BY <1>4 DEF applyTransactional, At, MigrateInv, PassedRecorded, Working
    <3> QED
      BY <1>4, <1>t, <1>n, <2>2, <3>1 DEF applyTransactional, File, TypeOK
  <2>4. LockHeld' /\ CheckedHolds' /\ PassedRecorded'
    BY <1>4, <2>0, <2>2, <2>3, OthersKeep DEF applyTransactional, Working, Indexing
  <2>5. RecordedMeansApplied'
    BY <1>4, <1>t, <2>0, <2>1 DEF applyTransactional, MigrateInv, RecordedMeansApplied, TypeOK
  <2> QED
    BY <2>2, <2>4, <2>5 DEF MigrateInv
<1>5. ASSUME NEW w \in Runners, prepareConcurrentIndexTarget(w) PROVE MigrateInv'
  <2>0. /\ lock = w /\ runner[w].at <= Len(FilesOf[w])
        /\ Unrecorded(File(w)) /\ File(w).index # None
    BY <1>5 DEF prepareConcurrentIndexTarget, At, MigrateInv, LockHeld, CheckedHolds, Working, Indexing
  <2> DEFINE s == Prepared(index[File(w).index], File(w))
  <2>1. /\ s \in {"creating", "recording", "dropping", "failing"}
        /\ s \in {"creating", "dropping"} => index[File(w).index] \in Unclaimed
        /\ s = "recording" => index[File(w).index] = Marked(File(w))
    BY DEF Prepared, Unclaimed
  <2> HIDE DEF s
  <2>2. /\ TypeOK'
        /\ runner'[w].step = s /\ runner'[w].at = runner[w].at
        /\ \A v \in Runners \ {w} : runner'[v] = runner[v]
    <3>1. Go(w, s) /\ s \in Steps
      BY <1>5, <2>1 DEF prepareConcurrentIndexTarget, s, Steps, Working
    <3> QED
      BY <1>5, <1>t, <3>1, GoType DEF prepareConcurrentIndexTarget, TypeOK
  <2>3. File(w)' = File(w) /\ Unrecorded(File(w))'
    BY <1>5, <2>0, <2>2 DEF prepareConcurrentIndexTarget, File, Unrecorded
  <2>4. \A i \in DOMAIN FilesOf[w] : i < runner[w].at => FilesOf[w][i] \in migrations
    BY <1>5 DEF prepareConcurrentIndexTarget, At, MigrateInv, PassedRecorded, Working
  <2>5. LockHeld' /\ CheckedHolds' /\ PassedRecorded'
    BY <1>5, <2>0, <2>1, <2>2, <2>3, <2>4, OthersKeep
       DEF prepareConcurrentIndexTarget, Working, Indexing
  <2>6. RecordedMeansApplied'
    BY <1>5 DEF prepareConcurrentIndexTarget, MigrateInv, RecordedMeansApplied
  <2> QED
    BY <2>2, <2>5, <2>6 DEF MigrateInv
<1>6. ASSUME NEW w \in Runners,
             dropIndex(w) \/ createIndex(w) \/ indexBuilt(w) \/ markConcurrentIndexReady(w)
      PROVE  MigrateInv'
  <2>0. /\ lock = w /\ runner[w].at <= Len(FilesOf[w])
        /\ Unrecorded(File(w)) /\ File(w).index # None
        /\ index[File(w).index] \in Unclaimed
        /\ \A i \in DOMAIN FilesOf[w] : i < runner[w].at => FilesOf[w][i] \in migrations
    <3>1. runner[w].step \in {"dropping", "creating", "building", "marking"}
      BY <1>6 DEF dropIndex, createIndex, indexBuilt, markConcurrentIndexReady, At
    <3> QED
      BY <3>1 DEF MigrateInv, LockHeld, CheckedHolds, PassedRecorded, Working, Indexing
  <2>1. File(w) \in Files /\ File(w).index \in Indexes
    BY <1>t, <2>0, FileFacts
  <2>2. PICK s \in {"creating", "building", "marking", "recording", "failing"} :
          /\ Go(w, s)
          /\ s \in {"creating", "building", "marking"} => index'[File(w).index] \in Unclaimed
          /\ s = "recording" => index'[File(w).index] = Marked(File(w))
    BY <1>6, <1>t, <2>0, <2>1
       DEF dropIndex, createIndex, indexBuilt, markConcurrentIndexReady, Unclaimed, TypeOK
  <2>3. /\ UNCHANGED <<lock, migrations, applied, leftBy, faults>>
        /\ index' \in [Indexes -> {None, Invalid, Built} \cup {Marked(f) : f \in Files}]
        /\ \A x \in Indexes \ {File(w).index} : index'[x] = index[x]
    <3>1. UNCHANGED <<lock, migrations, applied, leftBy, faults>>
      BY <1>6 DEF dropIndex, createIndex, indexBuilt, markConcurrentIndexReady
    <3>2. PICK y \in {None, Invalid, Built} \cup {Marked(f) : f \in Files} :
            index' = [index EXCEPT ![File(w).index] = y] \/ index' = index
      BY <1>6, <2>1 DEF dropIndex, createIndex, indexBuilt, markConcurrentIndexReady
    <3> QED
      BY <1>t, <3>1, <3>2 DEF TypeOK
  <2>4. /\ TypeOK'
        /\ runner'[w].step = s /\ runner'[w].at = runner[w].at
        /\ \A v \in Runners \ {w} : runner'[v] = runner[v]
    BY <1>t, <2>2, <2>3, GoType DEF TypeOK, Steps, Working
  <2>5. File(w)' = File(w) /\ Unrecorded(File(w))'
    BY <2>0, <2>3, <2>4 DEF File, Unrecorded
  <2>6. LockHeld' /\ CheckedHolds' /\ PassedRecorded'
    BY <2>0, <2>2, <2>3, <2>4, <2>5, OthersKeep DEF Working, Indexing
  <2>7. RecordedMeansApplied'
    BY <2>0, <2>3, MarkedKept
  <2> QED
    BY <2>4, <2>6, <2>7 DEF MigrateInv
<1>7. ASSUME NEW w \in Runners, recordIndex(w) PROVE MigrateInv'
  <2>0. /\ lock = w /\ runner[w].at <= Len(FilesOf[w])
        /\ File(w).index # None /\ index[File(w).index] = Marked(File(w))
    BY <1>7 DEF recordIndex, At, MigrateInv, LockHeld, CheckedHolds, Working, Indexing
  <2>1. File(w) \in Files
    BY <1>t, <2>0, FileFacts
  <2>2. /\ TypeOK'
        /\ runner'[w].step = "checking" /\ runner'[w].at = runner[w].at + 1
        /\ \A v \in Runners \ {w} : runner'[v] = runner[v]
    BY <1>7, <1>t, <2>0, <2>1, NextFileType DEF recordIndex, TypeOK
  <2>3. \A i \in DOMAIN FilesOf[w] : i < runner'[w].at => FilesOf[w][i] \in migrations'
    <3>1. \A i \in DOMAIN FilesOf[w] : i < runner[w].at => FilesOf[w][i] \in migrations
      BY <1>7 DEF recordIndex, At, MigrateInv, PassedRecorded, Working
    <3> QED
      BY <1>7, <1>t, <1>n, <2>2, <3>1 DEF recordIndex, File, TypeOK
  <2>4. LockHeld' /\ CheckedHolds' /\ PassedRecorded'
    BY <1>7, <2>0, <2>2, <2>3, OthersKeep DEF recordIndex, Working, Indexing
  <2>5. RecordedMeansApplied'
    BY <1>7, <2>0, <2>1 DEF recordIndex, MigrateInv, RecordedMeansApplied
  <2> QED
    BY <2>2, <2>4, <2>5 DEF MigrateInv
<1>8. ASSUME NEW w \in Runners, unlock(w) PROVE MigrateInv'
  <2>0. lock = w
    BY <1>8 DEF unlock, MigrateInv, LockHeld
  <2>1. PICK s \in {"done", "stopped"} : Go(w, s) /\ (s = "done" => runner[w].step = "finishing")
    BY <1>8 DEF unlock, At
  <2>2. /\ TypeOK'
        /\ runner'[w].step = s /\ runner'[w].at = runner[w].at
        /\ \A v \in Runners \ {w} : runner'[v] = runner[v]
    BY <1>8, <1>t, <2>1, GoType DEF unlock, TypeOK, Steps
  <2>3. LockHeld' /\ CheckedHolds' /\ PassedRecorded'
    BY <1>8, <2>0, <2>1, <2>2, OthersKeep
       DEF unlock, MigrateInv, PassedRecorded, Working, Indexing
  <2>4. RecordedMeansApplied'
    BY <1>8 DEF unlock, MigrateInv, RecordedMeansApplied
  <2> QED
    BY <2>2, <2>3, <2>4 DEF MigrateInv
<1>9. ASSUME NEW w \in Runners, queryFails(w) PROVE MigrateInv'
  <2>0. lock = w
    BY <1>9 DEF queryFails, MigrateInv, LockHeld
  <2>1. /\ TypeOK'
        /\ runner'[w].step = "failing"
        /\ \A v \in Runners \ {w} : runner'[v] = runner[v]
    <3>1. leftBy' \in [Indexes -> {None, "runner", "operator"}] /\ faults' \in 0 .. MaxFaults
      BY <1>9, <1>t, LeavesType, MigrateConstants DEF queryFails, Fault, TypeOK
    <3>2. "failing" \in Steps
      BY DEF Steps
    <3> QED
      BY <1>9, <1>t, <3>1, <3>2, GoType DEF queryFails, TypeOK
  <2>2. LockHeld' /\ CheckedHolds' /\ PassedRecorded'
    BY <1>9, <2>0, <2>1, OthersKeep DEF queryFails, Working, Indexing
  <2>3. RecordedMeansApplied'
    BY <1>9 DEF queryFails, MigrateInv, RecordedMeansApplied
  <2> QED
    BY <2>1, <2>2, <2>3 DEF MigrateInv
<1>10. ASSUME NEW w \in Runners, crash(w) PROVE MigrateInv'
  <2>0. At(w, "building") =>
          /\ File(w).index \in Indexes
          /\ index[File(w).index] \in Unclaimed
    BY <1>t, FileFacts DEF MigrateInv, CheckedHolds, At, Indexing
  <2>1. /\ index' \in [Indexes -> {None, Invalid, Built} \cup {Marked(f) : f \in Files}]
        /\ \A x \in Indexes : index[x] \in Unclaimed \/ index'[x] = index[x]
    BY <1>10, <1>t, <2>0 DEF crash, TypeOK
  <2>2. /\ TypeOK'
        /\ runner'[w].step = "stopped"
        /\ \A v \in Runners \ {w} : runner'[v] = runner[v]
    <3>1. leftBy' \in [Indexes -> {None, "runner", "operator"}] /\ faults' \in 0 .. MaxFaults
      BY <1>10, <1>t, LeavesType, MigrateConstants DEF crash, Fault, TypeOK
    <3>2. "stopped" \in Steps
      BY DEF Steps
    <3> QED
      BY <1>10, <1>t, <2>1, <3>1, <3>2, GoType DEF crash, TypeOK
  <2>3. LockHeld' /\ CheckedHolds' /\ PassedRecorded'
    <3>1. CASE lock = w
      BY <1>10, <2>2, <3>1, OthersKeep DEF crash, Working, Indexing
    <3>2. CASE lock # w
      <4>1. UNCHANGED <<lock, index, migrations>>
        BY <1>10, <3>2 DEF crash, At, MigrateInv, LockHeld, Working
      <4>2. LockHeld'
        BY <2>2, <4>1 DEF MigrateInv, LockHeld, Working
      <4>3. CheckedHolds'
        BY <2>2, <4>1 DEF MigrateInv, CheckedHolds, File, Unrecorded, Indexing
      <4>4. PassedRecorded'
        BY <2>2, <4>1 DEF MigrateInv, PassedRecorded, Working
      <4> QED
        BY <4>2, <4>3, <4>4
    <3> QED
      BY <3>1, <3>2
  <2>4. RecordedMeansApplied'
    BY <1>10, <2>1, MarkedKept DEF crash
  <2> QED
    BY <2>2, <2>3, <2>4 DEF MigrateInv
<1>11. ASSUME NEW x \in Indexes, operatorCreates(x) \/ operatorDrops(x) PROVE MigrateInv'
  <2>1. /\ UNCHANGED <<lock, runner, migrations, applied>>
        /\ index' \in [Indexes -> {None, Invalid, Built} \cup {Marked(f) : f \in Files}]
        /\ \A y \in Indexes : \/ index'[y] = index[y]
                              \/ index[y] \in Unclaimed /\ index'[y] \in Unclaimed
    BY <1>11, <1>t DEF operatorCreates, operatorDrops, TypeOK, Unclaimed
  <2>2. TypeOK'
    BY <1>11, <1>t, <2>1, MigrateConstants DEF operatorCreates, operatorDrops, Fault, TypeOK
  <2>3. LockHeld' /\ PassedRecorded'
    BY <2>1 DEF MigrateInv, LockHeld, PassedRecorded
  <2>4. CheckedHolds'
    <3> SUFFICES ASSUME NEW w \in Runners, runner[w].step \in Indexing
                 PROVE  /\ runner[w].step \in {"dropping", "creating", "building", "marking"} =>
                             index'[File(w).index] \in Unclaimed
                        /\ runner[w].step = "recording" => index'[File(w).index] = Marked(File(w))
      BY <2>1 DEF MigrateInv, CheckedHolds, File, Unrecorded, Indexing
    <3>1. File(w) \in Files /\ File(w).index \in Indexes
      BY <1>t, FileFacts DEF MigrateInv, CheckedHolds
    <3>2. /\ runner[w].step \in {"dropping", "creating", "building", "marking"} =>
               index[File(w).index] \in Unclaimed
          /\ runner[w].step = "recording" => index[File(w).index] = Marked(File(w))
      BY DEF MigrateInv, CheckedHolds
    <3> QED
      BY <2>1, <3>1, <3>2, MarksDiffer
  <2>5. RecordedMeansApplied'
    BY <2>1, MarkedKept
  <2> QED
    BY <2>2, <2>3, <2>4, <2>5 DEF MigrateInv
<1>12. CASE UNCHANGED vars
  BY <1>12 DEF vars, MigrateInv, TypeOK, LockHeld, CheckedHolds, PassedRecorded,
               RecordedMeansApplied, File, Unrecorded
<1> QED
  BY <1>1, <1>2, <1>3, <1>4, <1>5, <1>6, <1>7, <1>8, <1>9, <1>10, <1>11, <1>12
     DEF Next, Progress

LEMMA MigrateAlways == Spec => []MigrateInv
  BY MigrateInit, MigrateNext, PTL DEF Spec

-----------------------------------------------------------------------------
(* Theorems *)

\* Every variable of the runner keeps its type: no runner walks past the end
\* of its files and no index has a state migrate.ts does not know.
THEOREM MigrateTypes == Spec => []TypeOK
<1>1. MigrateInv => TypeOK
  BY DEF MigrateInv
<1> QED
  BY <1>1, MigrateAlways, PTL

\* A row of _migrations tells the truth about the schema, whichever runners
\* raced, failed or died in which step: a body took effect once if and only
\* if it is recorded, and a recorded index is valid and marked.
THEOREM RowsTruthful == Spec => []RecordedMeansApplied
<1>1. MigrateInv => RecordedMeansApplied
  BY DEF MigrateInv
<1> QED
  BY <1>1, MigrateAlways, PTL

\* The server of a release starts only on a schema that holds every file of
\* that release, and the rows are never taken back.
THEOREM ServersMigrated == Spec => []DoneMeansMigrated
<1>1. MigrateInv => DoneMeansMigrated
  <2>1. \A w \in Runners : FilesOf[w] \in Seq(Files)
    BY MigrateConstants
  <2> QED
    BY <2>1 DEF MigrateInv, TypeOK, PassedRecorded, DoneMeansMigrated, At
<1> QED
  BY <1>1, MigrateAlways, PTL
=============================================================================
