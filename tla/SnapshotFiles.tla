---------------------------- MODULE SnapshotFiles ----------------------------
(***************************************************************************)
(* The data of the snapshot subpackage: what a release host may serve,     *)
(* what a manifest declares, and what a path of the destination directory  *)
(* may hold.                                                               *)
(*                                                                         *)
(* A byte string is a member of Body.  SHA-256 is taken to be free of      *)
(* collisions, so a digest is identified with the byte string that has it: *)
(* "the file hashes to s" is "the file is the whole of s".  Lengths are    *)
(* counted in an abstract unit, small enough for a download to be several  *)
(* chunks and large enough for a body to outgrow its declared size.        *)
(***************************************************************************)
EXTENDS Naturals

CONSTANTS
  Body,          \* the byte strings that may be served or be on disk
  Size,          \* [Body -> Nat \ {0}], the length of each
  AssetName,     \* plain file names an asset may have
  ManifestName,  \* "manifest.json"
  Tag,           \* release tags inside the grammar of SnapshotRelease
  BadTag,        \* non-empty strings outside it, which parse_manifest accepts
  Manifest,      \* the Body members parse_manifest accepts, and what they say
  ManifestCap,   \* MAX_MANIFEST_BYTES
  MaxAssetBytes, \* MAX_ASSET_BYTES
  Absent,        \* no file at a path
  NotAFile,      \* something at a path that is not a regular file
  NoBody         \* no byte string

AssetRecord == [sha256 : Body, size_bytes : 1..MaxAssetBytes]

(* Manifests are what parse_manifest returns: a non-empty tag, which need  *)
(* not satisfy the release grammar, and at least one asset, none of them   *)
(* named manifest.json and each with a size in 1..MAX_ASSET_BYTES.         *)
ASSUME FilesAssumption ==
  /\ Size \in [Body -> Nat \ {0}]
  /\ ManifestName \notin AssetName
  /\ Tag \cap BadTag = {}
  /\ DOMAIN Manifest \subseteq Body
  /\ \A m \in DOMAIN Manifest :
       /\ Size[m] <= ManifestCap
       /\ Manifest[m].tag \in Tag \cup BadTag
       /\ \E D \in (SUBSET AssetName) \ {{}} : Manifest[m].assets \in [D -> AssetRecord]
  /\ ManifestCap \in Nat \ {0}
  /\ MaxAssetBytes \in Nat \ {0}
  /\ NoBody \notin Body

Path == AssetName \cup {ManifestName}

(* A file is a prefix of a byte string: a download writes it chunk by      *)
(* chunk, and a connection may end early.                                  *)
File == [bytes : Body \cup {NoBody}, len : Nat]

ASSUME SlotAssumption ==
  /\ Absent \notin File
  /\ NotAFile \notin File
  /\ Absent # NotAFile

Slot == File \cup {Absent, NotAFile}

EmptyFile == [bytes |-> NoBody, len |-> 0]

Whole(b) == [bytes |-> b, len |-> Size[b]]

(* parse_manifest(raw) succeeds: a truncated manifest is not JSON, and any *)
(* whole byte string is accepted or refused by its content alone.          *)
Parses(file) == \E m \in DOMAIN Manifest : file = Whole(m)

Declared(m) == DOMAIN Manifest[m].assets

DeclaredSha(m, n) == Manifest[m].assets[n].sha256

DeclaredSize(m, n) == Manifest[m].assets[n].size_bytes

(* _verify_digest: the bytes hash to the declared SHA-256.                 *)
HasDigest(file, m, n) == file = Whole(DeclaredSha(m, n))

(* _verify_size: the file is as long as its record says.                   *)
HasSize(file, m, n) == file.len = DeclaredSize(m, n)

=============================================================================
