-------------------------- MODULE MCSnapshotSystem --------------------------
(***************************************************************************)
(* Small instances of SnapshotSystem.                                      *)
(*                                                                         *)
(* "july" and "recut" are two manifests of one tag.  They declare other    *)
(* bytes of the same length for the history, which a reader of july finds  *)
(* as continuous as its own: a history of the same minutes with other      *)
(* prices.  "august" declares no history, "odd" has a tag no release may   *)
(* have, "worn" is of july's tag and misstates the length of july's        *)
(* history, and "bogus" is anything else.                                  *)
(***************************************************************************)
EXTENDS SnapshotSystem, TLC

MCManifests == {"july", "recut", "august", "odd", "worn"}

MCBody == MCManifests \cup {"csv1", "csv2", "prov", "bogus"}

MCSize == [b \in MCBody |-> IF b \in {"csv1", "csv2"} THEN 2 ELSE 1]

MCRecord(b) == [sha256 |-> b, size_bytes |-> MCSize[b]]

MCManifest ==
  [july   |-> [tag    |-> "2026-07",
               assets |-> "csv" :> MCRecord("csv1") @@ "prov" :> MCRecord("prov")],
   recut  |-> [tag    |-> "2026-07",
               assets |-> "csv" :> MCRecord("csv2") @@ "prov" :> MCRecord("prov")],
   august |-> [tag    |-> "2026-08", assets |-> "prov" :> MCRecord("prov")],
   odd    |-> [tag    |-> "../07", assets |-> "prov" :> MCRecord("prov")],
   worn   |-> [tag    |-> "2026-07",
               assets |-> "csv" :> [sha256 |-> "csv1", size_bytes |-> 1]]]

MCTag == {"2026-07", "2026-08"}

MCBadTag == {"../07"}

MCAssetName == {"csv", "prov"}

Job1 == {[tag |-> "2026-07", existing |-> policy, pin |-> NoPin] : policy \in {"refuse", "replace"}}

MCReading ==
  [m \in MCManifests |->
     [b \in MCBody |->
        CASE m = "july" /\ b \in {"csv1", "csv2"} -> "ok"
          [] m = "recut" /\ b = "csv2"            -> "ok"
          [] b = "bogus"                          -> "no_data"
          [] OTHER                                -> "continuity_error"]]

EmptyDisk == [p \in Path |-> Absent]

(* A directory that holds these files; "dir" stands for a directory.       *)
Holding(m, csv, prov) ==
  [p \in Path |->
     LET b == CASE p = ManifestName -> m [] p = "csv" -> csv [] p = "prov" -> prov IN
     CASE b = ""    -> Absent
       [] b = "dir" -> NotAFile
       [] OTHER     -> Whole(b)]

(* What verify_snapshot_on_disk may be pointed at.                         *)
FoundDisks ==
  {EmptyDisk,
   Holding("july", "csv1", "prov"), Holding("july", "csv2", "prov"),
   Holding("july", "", "prov"),     Holding("july", "dir", "prov"),
   Holding("july", "bogus", "prov"),
   Holding("bogus", "", ""),        Holding("august", "", "prov"),
   Holding("odd", "", "prov"),      Holding("dir", "", ""),
   Holding("worn", "bogus", "")}

(* Nothing, or a history left there: a fetch of worn can only keep one.    *)
StartingDisks == {EmptyDisk, Holding("", "csv1", "")}

AnyDirectory == {"directory"}

=============================================================================
