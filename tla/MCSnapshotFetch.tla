--------------------------- MODULE MCSnapshotFetch ---------------------------
(***************************************************************************)
(* Small instances of SnapshotFetch.                                       *)
(*                                                                         *)
(* Two manifests of one tag: "july" and "recut", the release published     *)
(* again under its tag with another history.  They declare different bytes *)
(* for "csv" and the same bytes for "prov".  "august" is of another tag.   *)
(* "selfish" declares itself, and "lavish" an asset above every cap.       *)
(* "bogus" stands for every byte string no manifest declares; it is longer *)
(* than any cap.                                                           *)
(***************************************************************************)
EXTENDS SnapshotFetch, TLC

MCManifests == {"july", "recut", "august"}

MCMisfits == {"selfish", "lavish"}

MCBody == MCManifests \cup MCMisfits \cup {"csv1", "csv2", "prov", "bogus"}

MCSize == [b \in MCBody |->
             CASE b = "prov"                -> 1
               [] b = "bogus"               -> 3
               [] b \notin {"prov", "bogus"} -> 2]

MCTag == {"2026-07", "2026-08"}

Says(type, what) == [type |-> type, says |-> what]

Entry(b) == Says("object", [bytes |-> Says("integer", MCSize[b]), sha256 |-> Says("text", b)])

Released(tag, csv, more) ==
  Says("object",
       [schema_version      |-> Says("integer", 1),
        tag                 |-> Says("text", tag),
        as_of               |-> Says("text", "2026-08-01T00:00:00+00:00"),
        first_timestamp     |-> Says("integer", 0),
        last_timestamp      |-> Says("integer", 60),
        row_count           |-> Says("integer", 2),
        generation_revision |-> Says("text", "abc"),
        assets |-> Says("object", "csv" :> Entry(csv) @@ "prov" :> Entry("prov") @@ more)])

MCPayload ==
  [b \in MCBody |->
     [length |-> MCSize[b],
      value |->
        CASE b = "july"    -> Released("2026-07", "csv1", <<>>)
          [] b = "recut"   -> Released("2026-07", "csv2", <<>>)
          [] b = "august"  -> Released("2026-08", "csv2", <<>>)
          [] b = "selfish" -> Released("2026-07", "csv1", "manifest.json" :> Entry("selfish"))
          [] b = "lavish"  -> Released("2026-07", "bogus", <<>>)
          [] b \notin MCManifests \cup MCMisfits -> Says("none", "")]]

MCAssetName == {"csv", "prov"}

(* What the host serves is accepted or refused by what it says.            *)
Parsing ==
  INSTANCE ManifestParsing
    WITH Payload <- MCPayload, PlainName <- MCAssetName \cup {ManifestName},
         Digest <- MCBody, Instant <- {"2026-08-01T00:00:00+00:00"}

MCManifest == Parsing!ParsedManifest

(* What two callers of one release tell apart: its two manifests and what  *)
(* they declare, each of one byte.  A temporary file is empty before it is *)
(* whole, and what is not the asset asked for is another of these.         *)
PairBody == {"july", "recut", "csv1", "csv2", "prov"}

PairSize == [b \in PairBody |-> 1]

PairManifest ==
  [m \in PairBody \cap DOMAIN MCManifest |->
     [MCManifest[m] EXCEPT !.assets = [n \in DOMAIN @ |-> [@[n] EXCEPT !.size_bytes = 1]]]]

Call(policy, pin) == [tag |-> "2026-07", existing |-> policy, pin |-> pin]

PlainJobs == {Call("refuse", NoPin), Call("replace", NoPin)}

PinnedJobs == PlainJobs \cup {Call("replace", "july")}

RefuseJobs == {Call("refuse", NoPin)}

EmptyDisk == [p \in Path |-> Absent]

(* Nothing there; a file of the caller's at an asset's path; or something  *)
(* that is not a file at an asset's path or at the manifest's.             *)
AnyDisk == {EmptyDisk,
            [EmptyDisk EXCEPT !["csv"] = Whole("bogus")],
            [EmptyDisk EXCEPT !["csv"] = Whole("csv1")],
            [EmptyDisk EXCEPT !["csv"] = NotAFile],
            [EmptyDisk EXCEPT ![ManifestName] = NotAFile]}

OnlyEmptyDisk == {EmptyDisk}

AnyDirectory == {"missing", "directory", "file"}

ExistingDirectory == {"directory"}

Symmetric == Permutations(Fetcher)

=============================================================================
