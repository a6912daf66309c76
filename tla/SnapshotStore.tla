---------------------------- MODULE SnapshotStore ----------------------------
(***************************************************************************)
(* What a destination directory promises whoever reads it: each of its     *)
(* final paths is a register.  A manifest is placed whole; an asset's path *)
(* goes, in one step, to the whole of bytes that an already placed         *)
(* manifest declares for it; nothing is ever seen in between, and nothing  *)
(* is removed.  Downloads, temporary files, checks and failures are below  *)
(* this level.                                                             *)
(***************************************************************************)
EXTENDS SnapshotFiles

VARIABLES
  store,  \* what each final path holds
  placed  \* every manifest placed so far

Init ==
  /\ store \in [Path -> Slot]
  /\ placed = {}

PlaceManifest(m) ==
  /\ store[ManifestName] # NotAFile
  /\ store' = [store EXCEPT ![ManifestName] = Whole(m)]
  /\ placed' = placed \cup {m}

PlaceAsset(m, n) ==
  /\ DeclaredSize(m, n) = Size[DeclaredSha(m, n)]
  /\ store' = [store EXCEPT ![n] = Whole(DeclaredSha(m, n))]
  /\ UNCHANGED placed

Next ==
  \/ \E m \in DOMAIN Manifest : PlaceManifest(m)
  \/ \E m \in placed : \E n \in Declared(m) : PlaceAsset(m, n)

Spec == Init /\ [][Next]_<<store, placed>>

=============================================================================
