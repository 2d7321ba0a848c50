------------------------------ MODULE Snapshot ------------------------------
(***************************************************************************)
(* src/snapshot/mod.rs and the snapshot task of main.rs, beside the engine *)
(* of module Recovery with its crashes and restarts.                       *)
(*                                                                         *)
(* Once a minute the task copies the log, the markets and the checksum     *)
(* under the engine's mutex and writes them, without the mutex, to         *)
(* snapshot_{seq}.json in place: from the moment fs::write has truncated   *)
(* the file until it is complete, the file is torn.  The directory         *)
(* outlives the process.  main never reads a snapshot back; load_snapshot  *)
(* and find_latest_snapshot are what a recovery would call.                *)
(***************************************************************************)
EXTENDS Recovery

CONSTANTS
  MaxFailures,   \* bound: how often a write fails
  NoSnapshot     \* the task has nothing copied

ASSUME SnapshotAssumption == MaxFailures \in Nat

VARIABLES
  files,      \* the directory: the id in a file's name -> its content
  stray,      \* whether it holds a .json file that is not named snapshot_{seq}
  copy,       \* what the task is writing
  failures,   \* how often a write has failed
  restored    \* history: the last sequence id that each start-up after the first restored

snapshot_vars == <<files, stray, copy, failures, restored>>
everything == <<all_vars, snapshot_vars>>

-----------------------------------------------------------------------------
(* Creating a snapshot *)

\* A SHA-256 over exactly these; collision free.
checksum ==
  [filled_amounts |-> filled_amounts, cancelled |-> cancelled, nonces |-> nonces]

\* events.last().map(|e| e.seq_id).unwrap_or(0)
last_seq_id(events) == IF events = << >> THEN 0 ELSE events[Len(events)].seq_id

\* life is history: in which life of the process the snapshot was taken.
Copied ==
  [ snapshot_seq |-> last_seq_id(log), events |-> log, markets |-> markets,
    state_checksum |-> checksum, life |-> crashes ]

\* Faulty: files are numbered by the length of the log.
snapshot_path_by_count(snap) == Len(snap.events)

\* The id in the file's name.
snapshot_path(snap) == snap.snapshot_seq

\* Faulty: the checksum is taken after the mutex is released.
Content_late_checksum(snap) == [whole |-> TRUE, snap |-> [snap EXCEPT !.state_checksum = checksum]]

Content(snap) == [whole |-> TRUE, snap |-> snap]

Torn == [whole |-> FALSE, snap |-> NoSnapshot]

\* Faulty: an empty log is written, too.
nothing_to_write_never(events) == FALSE

nothing_to_write(events) == events = << >>

\* The copy under the mutex; creating the file truncates it.
SnapshotBegins ==
  /\ up /\ stage = "idle" /\ copy = NoSnapshot
  /\ ~nothing_to_write(log)
  /\ copy' = Copied
  /\ files' = put(files, snapshot_path(copy'), Torn)
  /\ UNCHANGED <<all_vars, stray, failures, restored>>

SnapshotWritten ==
  /\ up /\ copy # NoSnapshot
  /\ files' = put(files, snapshot_path(copy), Content(copy))
  /\ copy' = NoSnapshot
  /\ UNCHANGED <<all_vars, stray, failures, restored>>

\* fs::write fails half way and what it left stays; the task only reports it.
SnapshotFails ==
  /\ up /\ copy # NoSnapshot /\ failures < MaxFailures
  /\ failures' = failures + 1
  /\ copy' = NoSnapshot
  /\ UNCHANGED <<all_vars, files, stray, restored>>

-----------------------------------------------------------------------------
(* Reading the directory *)

load_snapshot(file) ==
  IF ~file.whole THEN [error |-> "Json"]
  ELSE LET rs == replayed(file.snap.events) IN
       IF rs.error # "none" THEN [error |-> "ReplayFailed"]
       ELSE IF [ filled_amounts |-> rs.filled_amounts, cancelled |-> rs.cancelled,
                 nonces |-> rs.nonces ] # file.snap.state_checksum
       THEN [error |-> "ChecksumMismatch"]
       ELSE [ error |-> "none", result |-> rs, markets |-> file.snap.markets,
              snapshot_seq |-> file.snap.snapshot_seq ]

\* Faulty: the comparison is the wrong way round.
find_latest_snapshot_lowest ==
  IF stray \/ DOMAIN files = {} THEN 0
  ELSE CHOOSE seq \in DOMAIN files : \A other \in DOMAIN files : seq <= other

\* The id of the file, 0 for None: one stray name ends the search.
find_latest_snapshot ==
  IF stray \/ DOMAIN files = {} THEN 0
  ELSE CHOOSE seq \in DOMAIN files : \A other \in DOMAIN files : other <= seq

-----------------------------------------------------------------------------
(* The environment, and the rest of the process *)

StrayFile ==
  /\ ~stray
  /\ stray' = TRUE
  /\ UNCHANGED <<all_vars, files, copy, failures, restored>>

CallStep == Serve /\ UNCHANGED snapshot_vars

PersistStep ==
  /\ \/ ServeUnchanged
     \/ \E cursor \in cursors : PersistSince(cursor) \/ PersistDropped(cursor)
  /\ UNCHANGED snapshot_vars

\* A crash tears the file that is being written.
RestartStep ==
  /\ RestartEmpty \/ RestartRestored \/ RestartFails
  /\ copy' = NoSnapshot
  /\ restored' = Append(restored, next_seq_id' - 1)
  /\ UNCHANGED <<files, stray, failures>>

SnapshotInit ==
  /\ RecoveryInit
  /\ files = [seq \in {} |-> Torn] /\ stray = FALSE
  /\ copy = NoSnapshot /\ failures = 0 /\ restored = << >>

SnapshotNext ==
  \/ CallStep \/ PersistStep \/ RestartStep
  \/ SnapshotBegins \/ SnapshotWritten \/ SnapshotFails
  \/ StrayFile

\* A call that has begun and a write that has begun come to their end.  The
\* task waits in the mutex's queue, which tokio serves in order, so calls
\* cannot keep it from the mutex for ever.
SnapshotFairness ==
  /\ WF_everything(stage # "idle" /\ CallStep)
  /\ WF_everything(SnapshotWritten \/ SnapshotFails)
  /\ SF_everything(SnapshotBegins)

SnapshotSpec == SnapshotInit /\ [][SnapshotNext]_everything /\ SnapshotFairness
=============================================================================
