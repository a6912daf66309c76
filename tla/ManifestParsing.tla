--------------------------- MODULE ManifestParsing ---------------------------
(***************************************************************************)
(* parse_manifest (snapshot/manifest.py): which byte strings are accepted  *)
(* as a manifest and what they then say.  Every demand is refused with the *)
(* same error and nothing is kept of a refusal, so the demands are one     *)
(* conjunction.                                                            *)
(*                                                                         *)
(* A payload is a byte string's length and its value as JSON.  A value is  *)
(* its type and what it says; an object says a value for each of its keys. *)
(* Bytes that are not JSON have the type "none", and numbers that are not  *)
(* 64-bit integers the type "real", as orjson decodes them.                *)
(***************************************************************************)
EXTENDS Integers

CONSTANTS
  Body,          \* the byte strings that may be served or be on disk
  Payload,       \* what each is, as a payload
  ManifestName,  \* "manifest.json"
  PlainName,     \* the names is_plain_asset_name accepts, ManifestName one of them
  Digest,        \* the texts of 64 lowercase hex characters
  Instant,       \* the texts that name an instant with its offset
  ManifestCap,   \* MAX_MANIFEST_BYTES
  MaxAssetBytes  \* MAX_ASSET_BYTES

SupportedSchemaVersion == 1

(* _require_key; a boolean is not an integer here, nor is a real.          *)
Holds(object, key, type) ==
  key \in DOMAIN object.says /\ object.says[key].type = type

At(object, key) == object.says[key].says

TextAt(object, key) == Holds(object, key, "text") /\ At(object, key) # ""

InstantAt(object, key) == TextAt(object, key) /\ At(object, key) \in Instant

(* The span and the number of rows of the history.                         *)
StatesItsHistory(object) ==
  /\ \A key \in {"first_timestamp", "last_timestamp", "row_count"} : Holds(object, key, "integer")
  /\ At(object, "first_timestamp") <= At(object, "last_timestamp")
  /\ At(object, "row_count") > 0

(* AssetRecord, whoever makes one.                                         *)
IsAssetRecord(name, size, sha256) ==
  /\ name \in PlainName
  /\ size.type = "integer" /\ size.says \in 1 .. MaxAssetBytes
  /\ sha256.type = "text" /\ sha256.says \in Digest

IsAsset(name, entry) ==
  /\ name # ManifestName
  /\ entry.type = "object"
  /\ {"bytes", "sha256"} \subseteq DOMAIN entry.says
  /\ IsAssetRecord(name, entry.says.bytes, entry.says.sha256)

HoldsAssets(object) ==
  /\ Holds(object, "assets", "object")
  /\ DOMAIN At(object, "assets") # {}
  /\ \A name \in DOMAIN At(object, "assets") : IsAsset(name, At(object, "assets")[name])

Accepts(payload) ==
  /\ payload.length <= ManifestCap
  /\ payload.value.type = "object"
  /\ Holds(payload.value, "schema_version", "integer")
  /\ At(payload.value, "schema_version") = SupportedSchemaVersion
  /\ StatesItsHistory(payload.value)
  /\ TextAt(payload.value, "tag")
  /\ InstantAt(payload.value, "as_of")
  /\ TextAt(payload.value, "generation_revision")
  /\ HoldsAssets(payload.value)

Record(entry) == [sha256 |-> At(entry, "sha256"), size_bytes |-> At(entry, "bytes")]

(* The SnapshotManifest of an accepted payload.                            *)
Parsed(payload) ==
  LET object == payload.value
      assets == At(object, "assets") IN
  [tag |-> At(object, "tag"),
   as_of |-> At(object, "as_of"),
   generation_revision |-> At(object, "generation_revision"),
   first_timestamp |-> At(object, "first_timestamp"),
   last_timestamp |-> At(object, "last_timestamp"),
   row_count |-> At(object, "row_count"),
   assets |-> [name \in DOMAIN assets |-> Record(assets[name])]]

(* The manifests among the byte strings, and what they say.                *)
ParsedManifest == [b \in {b \in Body : Accepts(Payload[b])} |-> Parsed(Payload[b])]

=============================================================================
