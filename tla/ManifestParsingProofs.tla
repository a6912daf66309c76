------------------------ MODULE ManifestParsingProofs ------------------------
(***************************************************************************)
(* What parse_manifest accepts is what the other modules assume of a       *)
(* manifest: FilesAssumption of SnapshotFiles and StatementAssumption of   *)
(* SnapshotContinuity, for any byte strings a host may serve.              *)
(***************************************************************************)
EXTENDS ManifestParsing, TLAPS

(* What the types of JSON say: the type "integer" is of integers.          *)
IntegersAreIntegers(object) ==
  \A key \in DOMAIN object.says :
    object.says[key].type = "integer" => object.says[key].says \in Int

(* What SnapshotFiles assumes of the manifest m: a tag, and at least one   *)
(* asset, none of them named as the manifest, each with a whole record.    *)
MayBeFetched(m) ==
  /\ m.tag # ""
  /\ \E D \in (SUBSET (PlainName \ {ManifestName})) \ {{}} :
       m.assets \in [D -> [sha256 : Digest, size_bytes : 1 .. MaxAssetBytes]]

(* What SnapshotContinuity assumes of it.                                  *)
MayBeHeldAgainst(m) ==
  /\ m.row_count \in Nat \ {0}
  /\ m.first_timestamp \in Int /\ m.last_timestamp \in Int
  /\ m.first_timestamp <= m.last_timestamp

(* An accepted entry of the asset table becomes a record.                  *)
LEMMA EntriesAreRecords ==
  ASSUME NEW name, NEW entry, IsAsset(name, entry)
  PROVE  /\ name \in PlainName \ {ManifestName}
         /\ Record(entry) \in [sha256 : Digest, size_bytes : 1 .. MaxAssetBytes]
  BY DEF IsAsset, IsAssetRecord, Record, At

(* Only what fits under the cap is accepted, every accepted manifest has a *)
(* tag and assets a fetch can place beside it, none of which would replace *)
(* the manifest itself, and a history to hold a file against: so what is   *)
(* proved of fetches and histories holds whatever a host serves            *)
(* (manifest.py: parse_manifest).                                          *)
THEOREM ParsedManifestsAreFetchable ==
  ASSUME \A b \in Body : Payload[b].value.type = "object"
                           => IntegersAreIntegers(Payload[b].value)
  PROVE  /\ DOMAIN ParsedManifest \subseteq Body
         /\ \A m \in DOMAIN ParsedManifest :
              /\ Payload[m].length <= ManifestCap
              /\ MayBeFetched(ParsedManifest[m])
              /\ MayBeHeldAgainst(ParsedManifest[m])
<1>1. DOMAIN ParsedManifest = {b \in Body : Accepts(Payload[b])}
  BY DEF ParsedManifest
<1>2. ASSUME NEW m \in DOMAIN ParsedManifest
      PROVE  /\ Payload[m].length <= ManifestCap
             /\ MayBeFetched(ParsedManifest[m])
             /\ MayBeHeldAgainst(ParsedManifest[m])
  <2> DEFINE object == Payload[m].value
             assets == At(object, "assets")
  <2>1. m \in Body /\ Accepts(Payload[m])
    BY <1>1, <1>2
  <2>2. ParsedManifest[m] = Parsed(Payload[m])
    BY <1>1, <1>2 DEF ParsedManifest
  <2>3. /\ ParsedManifest[m].tag = At(object, "tag")
        /\ ParsedManifest[m].row_count = At(object, "row_count")
        /\ ParsedManifest[m].first_timestamp = At(object, "first_timestamp")
        /\ ParsedManifest[m].last_timestamp = At(object, "last_timestamp")
        /\ ParsedManifest[m].assets = [name \in DOMAIN assets |-> Record(assets[name])]
    BY <2>2 DEF Parsed
  <2>4. MayBeFetched(ParsedManifest[m])
    <3>1. /\ DOMAIN assets # {}
          /\ \A name \in DOMAIN assets : IsAsset(name, assets[name])
      BY <2>1 DEF Accepts, HoldsAssets
    <3>2. \A name \in DOMAIN assets :
            /\ name \in PlainName \ {ManifestName}
            /\ Record(assets[name]) \in [sha256 : Digest, size_bytes : 1 .. MaxAssetBytes]
      BY <3>1, EntriesAreRecords
    <3> HIDE DEF assets
    <3>3. /\ DOMAIN assets \in (SUBSET (PlainName \ {ManifestName})) \ {{}}
          /\ ParsedManifest[m].assets
               \in [DOMAIN assets -> [sha256 : Digest, size_bytes : 1 .. MaxAssetBytes]]
      BY <2>3, <3>1, <3>2
    <3>4. ParsedManifest[m].tag # ""
      BY <2>1, <2>3 DEF Accepts, TextAt
    <3> QED
      BY <3>3, <3>4 DEF MayBeFetched
  <2>5. MayBeHeldAgainst(ParsedManifest[m])
    <3>1. StatesItsHistory(object) /\ IntegersAreIntegers(object)
      BY <2>1 DEF Accepts
    <3>2. \A key \in {"first_timestamp", "last_timestamp", "row_count"} : At(object, key) \in Int
      BY <3>1 DEF StatesItsHistory, IntegersAreIntegers, Holds, At
    <3> QED
      BY <2>3, <3>1, <3>2 DEF MayBeHeldAgainst, StatesItsHistory
  <2> QED
    BY <2>1, <2>4, <2>5 DEF Accepts
<1> QED
  BY <1>1, <1>2

=============================================================================
