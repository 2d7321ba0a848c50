------------------------- MODULE SnapshotProperties -------------------------
(***************************************************************************)
(* What a recovery may rely on in the snapshot directory.                  *)
(***************************************************************************)
EXTENDS Snapshot

Snapshots ==
  [ snapshot_seq : Nat \ {0}, events : Seq(SequencedEvents),
    markets : [Markets -> MarketStatuses],
    state_checksum : [ filled_amounts : [Hashes -> Nat], cancelled : SUBSET Hashes,
                       nonces : [TraderIds -> Nat] ],
    life : 0..MaxCrashes ]

IsContent(file) ==
  \/ file = Torn
  \/ file.whole /\ DOMAIN file = {"whole", "snap"} /\ file.snap \in Snapshots

(* The types of the variables of module Snapshot; snapshot_0.json is never *)
(* written.                                                                *)
SnapshotTypeOK ==
  /\ DOMAIN files \subseteq Nat \ {0}
  /\ \A seq \in DOMAIN files : IsContent(files[seq])
  /\ stray \in BOOLEAN
  /\ copy \in Snapshots \cup {NoSnapshot}
  /\ failures \in 0..MaxFailures
  /\ restored \in Seq(Nat) /\ Len(restored) = crashes

Whole == {seq \in DOMAIN files : files[seq].whole}

(* Every whole file can be loaded, at any later time: its log replays      *)
(* without an error to the state whose checksum it carries, whatever calls *)
(* were served while it was written and whatever restarts, orphaned        *)
(* acceptances or cancellations by the admin came before.                  *)
WholeSnapshotsLoad ==
  \A seq \in Whole : load_snapshot(files[seq]).error = "none"

\* Every start-up since that life of the process has restored this event.
RestoredSince(life, seq_id) == \A k \in life + 1 .. crashes : seq_id <= restored[k]

(* A whole file is named after its last event.  A snapshot of this life of *)
(* the process is a beginning of the running log; one of an earlier life   *)
(* may hold events that were never persisted, whose sequence ids other     *)
(* events have taken since, but only beyond what some restart since then   *)
(* has restored: up to there it agrees with the running log on every event *)
(* they share.                                                             *)
SnapshotsAgree ==
  \A seq \in Whole :
    LET snap == files[seq].snap IN
    /\ seq = snap.events[Len(snap.events)].seq_id
    /\ snap.life = crashes => IsPrefix(snap.events, log)
    /\ up => \A i \in DOMAIN snap.events, j \in DOMAIN log :
         snap.events[i].seq_id = log[j].seq_id /\ RestoredSince(snap.life, log[j].seq_id)
           => snap.events[i] = log[j]

\* The file a recovery would find is of this life, loads and holds event n.
LatestHolds(n) ==
  LET latest == find_latest_snapshot IN
  /\ latest # 0 /\ latest >= n
  /\ load_snapshot(files[latest]).error = "none"
  /\ files[latest].snap.life = crashes

(* In the end, what is logged is in the snapshot that a recovery would     *)
(* find, although writes may fail: unless the process crashes first, a     *)
(* stray file blinds find_latest_snapshot, or an earlier life has left a   *)
(* snapshot with an id that this life has not reached.                     *)
EventsReachSnapshot ==
  \A n \in 1..MaxEvents, life \in 0..MaxCrashes :
    (up /\ crashes = life /\ next_seq_id > n)
      ~> \/ crashes # life \/ ~up \/ stray
         \/ LatestHolds(n)
         \/ find_latest_snapshot >= next_seq_id
=============================================================================
