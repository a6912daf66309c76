--------------------------- MODULE SnapshotVerify ---------------------------
(***************************************************************************)
(* verify_snapshot_on_disk (snapshot/fetcher.py): any number of callers,   *)
(* each checking the directory against the manifest found in it.  It reads *)
(* the directory one file-system call at a time, while fetches may write   *)
(* there, and changes nothing in it.                                       *)
(***************************************************************************)
EXTENDS SnapshotDirectory

CONSTANTS
  Verifier,  \* the callers of verify_snapshot_on_disk
  MaxChecks  \* bound on the calls of one of them (TLC only)

ASSUME VerifyAssumption == MaxChecks \in Nat

VARIABLES
  vpc,       \* where each call stands
  read,      \* the manifest it parsed, NoBody before
  looked,    \* the asset it is checking
  checked,   \* the assets that passed
  verdict,   \* what the last call returned or raised
  checks     \* how many calls were made

verifierVars == <<vpc, read, looked, checked, verdict, checks>>

VPoint == {"idle", "manifest", "asset", "missing", "size", "digest"}

Verdict == {"none", "ok", "config_error", "manifest_error", "integrity_error"}

VerifierInit ==
  /\ vpc = [v \in Verifier |-> "idle"]
  /\ read = [v \in Verifier |-> NoBody]
  /\ looked = [v \in Verifier |-> ManifestName]
  /\ checked = [v \in Verifier |-> {}]
  /\ verdict = [v \in Verifier |-> "none"]
  /\ checks = [v \in Verifier |-> 0]

-----------------------------------------------------------------------------
Unchecked(v) == Declared(read[v]) \ checked[v]

(* The call is over.                                                       *)
Answer(v, how) ==
  /\ vpc' = [vpc EXCEPT ![v] = "idle"]
  /\ verdict' = [verdict EXCEPT ![v] = how]
  /\ UNCHANGED <<read, looked, checked, checks>>

(* The call goes on to another file-system call.                           *)
Proceed(v, point) ==
  /\ vpc' = [vpc EXCEPT ![v] = point]
  /\ UNCHANGED <<read, checked, verdict, checks>>

(* verify_snapshot_on_disk is called: is there a manifest file at all?     *)
StartVerify(v) ==
  /\ vpc[v] = "idle"
  /\ checks[v] < MaxChecks
  /\ checks' = [checks EXCEPT ![v] = @ + 1]
  /\ read' = [read EXCEPT ![v] = NoBody]
  /\ checked' = [checked EXCEPT ![v] = {}]
  /\ \/ /\ disk[ManifestName] \in File
        /\ vpc' = [vpc EXCEPT ![v] = "manifest"]
        /\ verdict' = [verdict EXCEPT ![v] = "none"]
     \/ /\ disk[ManifestName] \notin File
        /\ verdict' = [verdict EXCEPT ![v] = "config_error"]
        /\ UNCHANGED vpc
  /\ UNCHANGED looked

(* read_bytes, and parse_manifest over them.                               *)
ReadManifest(v) ==
  /\ vpc[v] = "manifest"
  /\ Parses(disk[ManifestName])
  /\ read' = [read EXCEPT ![v] = disk[ManifestName].bytes]
  /\ vpc' = [vpc EXCEPT ![v] = "asset"]
  /\ UNCHANGED <<looked, checked, verdict, checks>>

UnreadableManifest(v) ==
  /\ vpc[v] = "manifest"
  /\ ~Parses(disk[ManifestName])
  /\ Answer(v, "manifest_error")

-----------------------------------------------------------------------------
(* _verified_on_disk: is_file, and exists if it is not one, then the size, *)
(* then the digest, each a look of its own at the path.                    *)

LookAtAsset(v) ==
  /\ vpc[v] = "asset"
  /\ \E n \in Unchecked(v) :
       /\ looked' = [looked EXCEPT ![v] = n]
       /\ Proceed(v, IF disk[n] \in File THEN "size" ELSE "missing")

(* Not a regular file a moment ago: whatever exists there now is refused   *)
(* as not being one.                                                       *)
NotRegular(v) ==
  /\ vpc[v] = "missing"
  /\ disk[looked[v]] # Absent
  /\ Answer(v, "config_error")

Missing(v) ==
  /\ vpc[v] = "missing"
  /\ disk[looked[v]] = Absent
  /\ Answer(v, "integrity_error")

SizeDiffers(v) ==
  /\ vpc[v] = "size"
  /\ ~HasSize(disk[looked[v]], read[v], looked[v])
  /\ Answer(v, "integrity_error")

(* Faulty variant: the comparison of lengths is the wrong way round.       *)
SizeRefusesEqual(v) ==
  /\ vpc[v] = "size"
  /\ HasSize(disk[looked[v]], read[v], looked[v])
  /\ Answer(v, "integrity_error")

SizeMatches(v) ==
  /\ vpc[v] = "size"
  /\ HasSize(disk[looked[v]], read[v], looked[v])
  /\ Proceed(v, "digest")
  /\ UNCHANGED looked

DigestDiffers(v) ==
  /\ vpc[v] = "digest"
  /\ ~HasDigest(disk[looked[v]], read[v], looked[v])
  /\ Answer(v, "integrity_error")

(* Faulty variant: no digest is taken.                                     *)
SizeOnly(v) ==
  /\ vpc[v] = "digest"
  /\ checked' = [checked EXCEPT ![v] = @ \cup {looked[v]}]
  /\ vpc' = [vpc EXCEPT ![v] = "asset"]
  /\ UNCHANGED <<read, looked, verdict, checks>>

(* Faulty variant: the loop does not advance.                              *)
ForgetChecked(v) ==
  /\ vpc[v] = "digest"
  /\ HasDigest(disk[looked[v]], read[v], looked[v])
  /\ vpc' = [vpc EXCEPT ![v] = "asset"]
  /\ UNCHANGED <<read, looked, checked, verdict, checks>>

DigestMatches(v) ==
  /\ vpc[v] = "digest"
  /\ HasDigest(disk[looked[v]], read[v], looked[v])
  /\ checked' = [checked EXCEPT ![v] = @ \cup {looked[v]}]
  /\ vpc' = [vpc EXCEPT ![v] = "asset"]
  /\ UNCHANGED <<read, looked, verdict, checks>>

(* The tag is held against the release grammar last of all.                *)
UnusableTag(v) ==
  /\ vpc[v] = "asset"
  /\ Unchecked(v) = {}
  /\ Manifest[read[v]].tag \in BadTag
  /\ Answer(v, "manifest_error")

AnswerVerified(v) ==
  /\ vpc[v] = "asset"
  /\ Unchecked(v) = {}
  /\ Manifest[read[v]].tag \notin BadTag
  /\ Answer(v, "ok")

VerifyStep(v) ==
  \/ ReadManifest(v) \/ UnreadableManifest(v) \/ LookAtAsset(v)
  \/ NotRegular(v) \/ Missing(v) \/ SizeDiffers(v) \/ SizeMatches(v)
  \/ DigestDiffers(v) \/ DigestMatches(v) \/ UnusableTag(v) \/ AnswerVerified(v)

VerifierNext == \E v \in Verifier : StartVerify(v) \/ VerifyStep(v)

VerifierTypeOK ==
  /\ vpc \in [Verifier -> VPoint]
  /\ read \in [Verifier -> DOMAIN Manifest \cup {NoBody}]
  /\ looked \in [Verifier -> Path]
  /\ checked \in [Verifier -> SUBSET AssetName]
  /\ verdict \in [Verifier -> Verdict]
  /\ checks \in [Verifier -> Nat]

=============================================================================
