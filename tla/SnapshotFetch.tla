---------------------------- MODULE SnapshotFetch ----------------------------
(***************************************************************************)
(* fetch_snapshot (snapshot/fetcher.py) over HttpAssetTransport            *)
(* (snapshot/transport.py): any number of callers, each fetching a release *)
(* of its own into one directory they all share.                           *)
(*                                                                         *)
(* The release host is not trusted and not modelled further than this: a   *)
(* request fails, or is answered with some byte string, of which a prefix  *)
(* arrives.  That covers a release re-cut under its tag, a swapped         *)
(* manifest, a truncated body and a corrupted one.                         *)
(*                                                                         *)
(* A step is one file-system operation another process could come          *)
(* between, or one arrival from the network.  Reading and checking a       *)
(* temporary file is one step with the rename that follows: nobody else    *)
(* knows its name.                                                         *)
(***************************************************************************)
EXTENDS SnapshotDirectory

CONSTANTS
  Fetcher,     \* the callers of fetch_snapshot
  Job,         \* the calls they may make: release tag, policy, pinned identity
  NoPin,       \* expected_manifest_sha256=None
  NoJob,       \* no call made yet
  ChunkBytes,  \* HttpAssetTransport.chunk_bytes
  MaxCalls,    \* bound on the calls of one caller (TLC only)
  InitialDisk, \* what the directory may hold before the first call
  InitialDir   \* what the destination path may be before the first call

ASSUME FetchAssumption ==
  /\ Job \subseteq [tag : Tag, existing : {"refuse", "replace"}, pin : Body \cup {NoPin}]
  /\ NoJob \notin Job
  /\ NoPin \notin Body
  /\ ChunkBytes \in Nat \ {0}
  /\ MaxCalls \in Nat
  /\ InitialDisk \subseteq [Path -> Slot]
  /\ InitialDir \subseteq {"missing", "directory", "file"}

VARIABLES
  pc,         \* where each call stands
  job,        \* its arguments
  manifest,   \* the manifest it placed, NoBody before
  got,        \* what became of each asset of that manifest
  cur,        \* the path it is downloading
  wire,       \* the byte string being streamed to it
  temp,       \* its temporary file
  outcome,    \* what the last call returned or raised
  calls,      \* how many calls it has made
  before,     \* auxiliary: disk in the initial state
  accepted,   \* auxiliary: every manifest placed so far
  found       \* auxiliary: the assets whose paths were taken when a call began

local == <<pc, job, manifest, got, cur, wire, temp, outcome, calls>>

vars == <<directory, disk, local, before, accepted, found>>

Point == {"idle", "temp", "made", "get", "stream", "landed", "cleanup", "pin", "asset"}

(* The points from which an exception passes the finally that unlinks the  *)
(* temporary file.                                                         *)
InTry == {"get", "stream", "landed"}

Outcome == {"none", "ok", "config_error", "manifest_error", "integrity_error",
            "os_error", "transport_error", "killed", "interrupted"}

(* The declared size of what a call is downloading, which doubles as the   *)
(* cap handed to the transport.                                            *)
Cap(f) == IF cur[f] = ManifestName THEN ManifestCap ELSE DeclaredSize(manifest[f], cur[f])

Remaining(f) == {n \in Declared(manifest[f]) : got[f][n] = "none"}

Init ==
  /\ directory \in InitialDir
  /\ disk \in InitialDisk
  /\ directory # "directory" => disk = [p \in Path |-> Absent]
  /\ pc = [f \in Fetcher |-> "idle"]
  /\ job = [f \in Fetcher |-> NoJob]
  /\ manifest = [f \in Fetcher |-> NoBody]
  /\ got = [f \in Fetcher |-> [n \in AssetName |-> "none"]]
  /\ cur = [f \in Fetcher |-> ManifestName]
  /\ wire = [f \in Fetcher |-> NoBody]
  /\ temp = [f \in Fetcher |-> Absent]
  /\ outcome = [f \in Fetcher |-> "none"]
  /\ calls = [f \in Fetcher |-> 0]
  /\ before = disk
  /\ accepted = {}
  /\ found = [f \in Fetcher |-> {}]

-----------------------------------------------------------------------------
(* A call is over, and its variables with it; what there is of a temporary *)
(* file is left.                                                           *)
Leave(f, how) ==
  /\ pc' = [pc EXCEPT ![f] = "idle"]
  /\ outcome' = [outcome EXCEPT ![f] = how]
  /\ wire' = [wire EXCEPT ![f] = NoBody]
  /\ UNCHANGED <<directory, disk, job, manifest, got, cur, temp, calls, before, accepted,
                 found>>

(* An exception inside the try: it is on its way out, and the finally has  *)
(* not run yet.                                                            *)
Raise(f, error) ==
  /\ pc' = [pc EXCEPT ![f] = "cleanup"]
  /\ outcome' = [outcome EXCEPT ![f] = error]
  /\ wire' = [wire EXCEPT ![f] = NoBody]
  /\ UNCHANGED <<directory, disk, job, manifest, got, cur, temp, calls, before, accepted,
                 found>>

(* The finally: the temporary file is unlinked, and the exception leaves.  *)
Unlink(f) ==
  /\ pc[f] = "cleanup"
  /\ temp' = [temp EXCEPT ![f] = Absent]
  /\ pc' = [pc EXCEPT ![f] = "idle"]
  /\ UNCHANGED <<directory, disk, job, manifest, got, cur, wire, outcome, calls,
                 before, accepted, found>>

(* fetch_snapshot is called; _prepare_directory creates the destination,   *)
(* cannot, or refuses it.                                                  *)
Start(f) ==
  /\ pc[f] = "idle"
  /\ calls[f] < MaxCalls
  /\ \E j \in Job : job' = [job EXCEPT ![f] = j]
  /\ calls' = [calls EXCEPT ![f] = @ + 1]
  /\ manifest' = [manifest EXCEPT ![f] = NoBody]
  /\ got' = [got EXCEPT ![f] = [n \in AssetName |-> "none"]]
  /\ cur' = [cur EXCEPT ![f] = ManifestName]
  /\ \/ /\ directory = "file"
        /\ outcome' = [outcome EXCEPT ![f] = "config_error"]
        /\ UNCHANGED <<directory, pc>>
     \/ /\ directory = "missing"
        /\ outcome' = [outcome EXCEPT ![f] = "os_error"]
        /\ UNCHANGED <<directory, pc>>
     \/ /\ directory # "file"
        /\ directory' = "directory"
        /\ outcome' = [outcome EXCEPT ![f] = "none"]
        /\ pc' = [pc EXCEPT ![f] = "temp"]
  /\ temp' = [temp EXCEPT ![f] = Absent]
  /\ found' = [found EXCEPT ![f] = {n \in AssetName : disk[n] # Absent}]
  /\ UNCHANGED <<disk, wire, before, accepted>>

(* _make_temp_path: mkstemp makes an empty file under a name nobody else   *)
(* has.                                                                    *)
MakeTemp(f) ==
  /\ pc[f] = "temp"
  /\ temp' = [temp EXCEPT ![f] = EmptyFile]
  /\ pc' = [pc EXCEPT ![f] = "made"]
  /\ UNCHANGED <<directory, disk, job, manifest, got, cur, wire, outcome, calls,
                 before, accepted, found>>

(* os.close, the return of the name, and only then the try.                *)
CloseTemp(f) ==
  /\ pc[f] = "made"
  /\ pc' = [pc EXCEPT ![f] = "get"]
  /\ UNCHANGED <<directory, disk, job, manifest, got, cur, wire, temp, outcome, calls,
                 before, accepted, found>>

-----------------------------------------------------------------------------
(* HttpAssetTransport.download                                             *)

(* requests.get raises, or the status is not 200.                          *)
RequestFails(f) ==
  /\ pc[f] = "get"
  /\ Raise(f, "integrity_error")

RequestAnswered(f) ==
  /\ pc[f] = "get"
  /\ \E b \in Body : wire' = [wire EXCEPT ![f] = b]
  /\ pc' = [pc EXCEPT ![f] = "stream"]
  /\ UNCHANGED <<directory, disk, job, manifest, got, cur, temp, outcome, calls,
                 before, accepted, found>>

(* The lengths the next chunk of the response may have.                    *)
NextChunk(f) == 1 .. (IF Size[wire[f]] - temp[f].len < ChunkBytes
                      THEN Size[wire[f]] - temp[f].len
                      ELSE ChunkBytes)

(* Faulty variant: the test made only after the chunk was written.         *)
FitsAfterwards(f, k) == temp[f].len <= Cap(f)

(* "written > max_bytes" is tested before the chunk is written.            *)
Fits(f, k) == temp[f].len + k <= Cap(f)

AcceptChunk(f) ==
  /\ pc[f] = "stream"
  /\ \E k \in NextChunk(f) :
       /\ Fits(f, k)
       /\ temp' = [temp EXCEPT ![f] = [bytes |-> wire[f], len |-> temp[f].len + k]]
  /\ UNCHANGED <<directory, disk, pc, job, manifest, got, cur, wire, outcome, calls,
                 before, accepted, found>>

RefuseChunk(f) ==
  /\ pc[f] = "stream"
  /\ \E k \in NextChunk(f) : ~Fits(f, k)
  /\ Raise(f, "integrity_error")

(* The body is over, or the connection closed early and nothing told.      *)
StreamEnds(f) ==
  /\ pc[f] = "stream"
  /\ pc' = [pc EXCEPT ![f] = "landed"]
  /\ wire' = [wire EXCEPT ![f] = NoBody]
  /\ UNCHANGED <<directory, disk, job, manifest, got, cur, temp, outcome, calls,
                 before, accepted, found>>

(* iter_content raises: a reset, a timed-out read or an incomplete body.   *)
(* Only requests.get is inside the try of download, so the exception of    *)
(* requests itself leaves fetch_snapshot.                                  *)
StreamBreaks(f) ==
  /\ pc[f] = "stream"
  /\ Raise(f, "transport_error")

-----------------------------------------------------------------------------
(* _fetch_manifest, after the download                                     *)

(* Faulty variant: the manifest is placed unparsed.                        *)
AnyBytes(f) == temp[f].bytes # NoBody

(* What the bytes must be: a manifest, and of the release asked for.       *)
IsRequestedManifest(f) ==
  \E m \in DOMAIN Manifest : temp[f] = Whole(m) /\ Manifest[m].tag = job[f].tag

RefuseManifest(f) ==
  /\ pc[f] = "landed"
  /\ cur[f] = ManifestName
  /\ ~IsRequestedManifest(f)
  /\ Raise(f, "manifest_error")

(* os.replace onto something that is not a file.                           *)
ManifestPathOccupied(f) ==
  /\ pc[f] = "landed"
  /\ cur[f] = ManifestName
  /\ IsRequestedManifest(f)
  /\ disk[ManifestName] = NotAFile
  /\ Raise(f, "os_error")

PlaceManifest(f) ==
  /\ pc[f] = "landed"
  /\ cur[f] = ManifestName
  /\ IsRequestedManifest(f)
  /\ disk[ManifestName] # NotAFile
  /\ disk' = [disk EXCEPT ![ManifestName] = temp[f]]
  /\ manifest' = [manifest EXCEPT ![f] = temp[f].bytes]
  /\ accepted' = accepted \cup {temp[f].bytes}
  /\ temp' = [temp EXCEPT ![f] = Absent]
  /\ pc' = [pc EXCEPT ![f] = "pin"]
  /\ UNCHANGED <<directory, job, got, cur, wire, outcome, calls, before, found>>

(* expected_manifest_sha256 is compared once the manifest is in place.     *)
PinMatches(f) == job[f].pin \in {NoPin, manifest[f]}

PinRefused(f) ==
  /\ pc[f] = "pin"
  /\ ~PinMatches(f)
  /\ Leave(f, "integrity_error")

PinAccepted(f) ==
  /\ pc[f] = "pin"
  /\ PinMatches(f)
  /\ pc' = [pc EXCEPT ![f] = "asset"]
  /\ UNCHANGED <<directory, disk, job, manifest, got, cur, wire, temp, outcome, calls,
                 before, accepted, found>>
-----------------------------------------------------------------------------
(* _resolve_asset: the path is looked at once, and acted on later.  The    *)
(* loop runs in the manifest's own order, which may be any.                *)

AssetPathOccupied(f) ==
  /\ pc[f] = "asset"
  /\ \E n \in Remaining(f) : disk[n] = NotAFile
  /\ Leave(f, "config_error")

(* Faulty variant: a kept asset gets no record in the result.              *)
KeepUnrecorded(f) ==
  /\ pc[f] = "asset"
  /\ \E n \in Remaining(f) : HasDigest(disk[n], manifest[f], n)
  /\ UNCHANGED vars

(* An already present file is kept on its digest alone.                    *)
KeepAsset(f) ==
  /\ pc[f] = "asset"
  /\ \E n \in Remaining(f) :
       /\ HasDigest(disk[n], manifest[f], n)
       /\ got' = [got EXCEPT ![f][n] = "kept"]
  /\ UNCHANGED <<directory, disk, pc, job, manifest, cur, wire, temp, outcome, calls,
                 before, accepted, found>>

(* A regular file is there and is not the asset.                           *)
Mismatched(f, n) == disk[n] \in File /\ ~HasDigest(disk[n], manifest[f], n)

RefuseAsset(f) ==
  /\ pc[f] = "asset"
  /\ job[f].existing = "refuse"
  /\ \E n \in Remaining(f) : Mismatched(f, n)
  /\ Leave(f, "integrity_error")

(* Faulty variant: whatever is there is replaced, under either policy.     *)
MayDownloadAny(f, n) == disk[n] \in File \cup {Absent}

MayDownload(f, n) ==
  \/ disk[n] = Absent
  \/ Mismatched(f, n) /\ job[f].existing = "replace"

DownloadAsset(f) ==
  /\ pc[f] = "asset"
  /\ \E n \in Remaining(f) :
       /\ MayDownload(f, n)
       /\ cur' = [cur EXCEPT ![f] = n]
  /\ pc' = [pc EXCEPT ![f] = "temp"]
  /\ UNCHANGED <<directory, disk, job, manifest, got, wire, temp, outcome, calls,
                 before, accepted, found>>

(* _download_verified, after the download                                  *)

(* Faulty variant: the length alone is compared.                           *)
VerifiedBySize(f) == HasSize(temp[f], manifest[f], cur[f])

(* Both, in this order: the length is the cheaper to compare.              *)
Verified(f) ==
  /\ HasSize(temp[f], manifest[f], cur[f])
  /\ HasDigest(temp[f], manifest[f], cur[f])

RefuseDownload(f) ==
  /\ pc[f] = "landed"
  /\ cur[f] \in AssetName
  /\ ~Verified(f)
  /\ Raise(f, "integrity_error")

PlaceAsset(f) ==
  /\ pc[f] = "landed"
  /\ cur[f] \in AssetName
  /\ Verified(f)
  /\ disk' = [disk EXCEPT ![cur[f]] = temp[f]]
  /\ got' = [got EXCEPT ![f][cur[f]] = "downloaded"]
  /\ temp' = [temp EXCEPT ![f] = Absent]
  /\ pc' = [pc EXCEPT ![f] = "asset"]
  /\ UNCHANGED <<directory, job, manifest, cur, wire, outcome, calls, before, accepted, found>>

(* Faulty variant: the loop ends before every asset is resolved.           *)
FinishEarly(f) ==
  /\ pc[f] = "asset"
  /\ pc' = [pc EXCEPT ![f] = "idle"]
  /\ outcome' = [outcome EXCEPT ![f] = "ok"]
  /\ UNCHANGED <<directory, disk, job, manifest, got, cur, wire, temp, calls,
                 before, accepted, found>>

(* Every declared asset has its record: the result is returned.            *)
Finish(f) ==
  /\ pc[f] = "asset"
  /\ Remaining(f) = {}
  /\ pc' = [pc EXCEPT ![f] = "idle"]
  /\ outcome' = [outcome EXCEPT ![f] = "ok"]
  /\ UNCHANGED <<directory, disk, job, manifest, got, cur, wire, temp, calls,
                 before, accepted, found>>

-----------------------------------------------------------------------------
(* The process is killed: no finally runs, and its temporary file stays in *)
(* the directory under a name no later call reads.                         *)
Kill(f) ==
  /\ pc[f] # "idle"
  /\ Leave(f, "killed")

(* Something strikes a call wherever it stands.  Inside the try it goes    *)
(* through the finally.  Before it, when the temporary file is made, and   *)
(* in the finally itself, there is nothing more to unlink it.              *)
Strike(f, error) ==
  \/ pc[f] \in InTry /\ Raise(f, error)
  \/ pc[f] \notin InTry \cup {"idle"} /\ Leave(f, error)

(* KeyboardInterrupt, anywhere.                                            *)
Interrupt(f) == Strike(f, "interrupted")

(* A file-system call raises OSError: mkstemp, close, open, write, a read  *)
(* of what is there, replace or unlink.                                    *)
FileOperationFails(f) ==
  /\ pc[f] \notin {"get", "pin"}
  /\ Strike(f, "os_error")

Download(f) ==
  \/ MakeTemp(f) \/ CloseTemp(f) \/ RequestFails(f) \/ RequestAnswered(f)
  \/ AcceptChunk(f) \/ RefuseChunk(f) \/ StreamEnds(f) \/ StreamBreaks(f) \/ Unlink(f)

FetchManifest(f) ==
  \/ RefuseManifest(f) \/ ManifestPathOccupied(f) \/ PlaceManifest(f)
  \/ PinRefused(f) \/ PinAccepted(f)

ResolveAsset(f) ==
  \/ AssetPathOccupied(f) \/ KeepAsset(f) \/ RefuseAsset(f) \/ DownloadAsset(f)
  \/ RefuseDownload(f) \/ PlaceAsset(f) \/ Finish(f)

Step(f) == Download(f) \/ FetchManifest(f) \/ ResolveAsset(f)

Next ==
  \E f \in Fetcher :
    Start(f) \/ Step(f) \/ Kill(f) \/ Interrupt(f) \/ FileOperationFails(f)

Spec == Init /\ [][Next]_vars

(* A call keeps running once made: reads of the network are bounded by     *)
(* timeout_seconds, and nothing in it waits for another process.  That a   *)
(* call is made, or killed, is nobody's duty.                              *)
FairSpec == Spec /\ \A f \in Fetcher : WF_vars(Step(f))

-----------------------------------------------------------------------------
(* What must hold                                                          *)

TypeOK ==
  /\ directory \in {"missing", "directory", "file"}
  /\ disk \in [Path -> Slot]
  /\ pc \in [Fetcher -> Point]
  /\ job \in [Fetcher -> Job \cup {NoJob}]
  /\ manifest \in [Fetcher -> DOMAIN Manifest \cup {NoBody}]
  /\ got \in [Fetcher -> [AssetName -> {"none", "kept", "downloaded"}]]
  /\ cur \in [Fetcher -> Path]
  /\ wire \in [Fetcher -> Body \cup {NoBody}]
  /\ temp \in [Fetcher -> File \cup {Absent}]
  /\ outcome \in [Fetcher -> Outcome]
  /\ calls \in [Fetcher -> Nat]
  /\ before \in [Path -> Slot]
  /\ accepted \subseteq DOMAIN Manifest
  /\ found \in [Fetcher -> SUBSET AssetName]

(* What a call knows at each point of it.  Every part is needed for the    *)
(* next call's step to be what it should be: TypeOK alone is not kept, for *)
(* the path a call downloads to is one its manifest declares only because  *)
(* no asset is resolved before a manifest is placed.                       *)
Coherent(f) ==
  /\ pc[f] # "idle" => job[f] \in Job
  /\ pc[f] \notin {"idle", "cleanup"} => outcome[f] = "none"
  /\ pc[f] = "cleanup" => outcome[f] \notin {"none", "ok"}
  /\ pc[f] \in {"temp", "made"} \cup InTry =>
       IF cur[f] = ManifestName THEN manifest[f] = NoBody
                                ELSE manifest[f] # NoBody /\ cur[f] \in Declared(manifest[f])
  /\ pc[f] \in {"pin", "asset"} => manifest[f] # NoBody
  /\ pc[f] \in {"made", "get"} => temp[f] = EmptyFile
  /\ pc[f] = "stream" => wire[f] \in Body
  /\ pc[f] \in {"stream", "landed"} => temp[f] \in File /\ temp[f].len <= Cap(f)
  /\ pc[f] \in {"temp", "pin", "asset"} => temp[f] = Absent
  /\ pc[f] = "idle" =>
       temp[f] = Absent \/ outcome[f] \in {"killed", "interrupted", "os_error"}
  /\ IF manifest[f] = NoBody
       THEN \A n \in AssetName : got[f][n] = "none"
       ELSE /\ job[f] \in Job
            /\ manifest[f] \in accepted
            /\ Manifest[manifest[f]].tag = job[f].tag
            /\ pc[f] \notin {"idle", "pin"} => PinMatches(f)
  /\ outcome[f] = "ok" => manifest[f] # NoBody /\ PinMatches(f) /\ Remaining(f) = {}

(* The inductive invariant behind the safety properties below.             *)
CallsAreCoherent == TypeOK /\ \A f \in Fetcher : Coherent(f)

(* "A reader that finds a file under an asset's name has found verified    *)
(* bytes, always" (fetcher.py:8): whatever this code put at an asset's     *)
(* path is, in full, the bytes of the digest and the length that a         *)
(* manifest placed no later than it declares for that name.                *)
OnlyVerifiedBytesLand ==
  \A n \in AssetName :
    \/ disk[n] = before[n]
    \/ \E m \in accepted :
         /\ n \in Declared(m)
         /\ HasDigest(disk[n], m, n)
         /\ HasSize(disk[n], m, n)

(* "A manifest on disk is always one this package could read"              *)
(* (fetcher.py:422), the one the caller left there excepted.               *)
ManifestOnDiskReadable ==
  \/ disk[ManifestName] = before[ManifestName]
  \/ \E m \in accepted : disk[ManifestName] = Whole(m)

(* AssetTransport: max_bytes is "a hard cap enforced while reading, not a  *)
(* size checked afterwards" (transport.py:57): no temporary file ever      *)
(* outgrows what its manifest declared, whatever the host sends.           *)
DownloadCapped ==
  \A f \in Fetcher : pc[f] \in {"stream", "landed"} => temp[f].len <= Cap(f)

(* "On any failure the temporary file is removed" (fetcher.py:7), as far   *)
(* as a finally can see to it: a call that leaves its temporary file at    *)
(* its end was killed, or an interrupt or a failing file operation struck  *)
(* it before the try, with the file just made, or in the finally itself.   *)
NoTempAfterReturn ==
  [][\A f \in Fetcher :
       pc[f] # "idle" /\ pc'[f] = "idle" /\ temp'[f] # Absent =>
         \/ outcome'[f] = "killed"
         \/ pc[f] \in {"made", "cleanup"} /\ outcome'[f] \in {"interrupted", "os_error"}]_vars

(* Two manifests declare the same bytes for a name.                        *)
Agree(m1, m2, n) == n \in Declared(m1) => DeclaredSha(m1, n) = DeclaredSha(m2, n)

(* A path a call has resolved still holds the asset it found or put there, *)
(* for as long as no manifest anybody placed declares other bytes for that *)
(* name: neither a failing call, nor a concurrent one, nor a killed one    *)
(* undoes it.  (fetch_snapshot "is deliberately not transactional".)       *)
ResolvedStaysVerified ==
  \A f \in Fetcher :
    manifest[f] # NoBody =>
      \A n \in Declared(manifest[f]) :
        got[f][n] # "none" /\ (\A m \in accepted : Agree(m, manifest[f], n))
          => HasDigest(disk[n], manifest[f], n)

(* A returned result is what was asked for: a manifest of the release, of  *)
(* the pinned identity if one was given, and every asset of it resolved.   *)
ResultIsWhatWasAsked ==
  \A f \in Fetcher :
    outcome[f] = "ok" =>
      /\ manifest[f] \in accepted
      /\ Manifest[manifest[f]].tag = job[f].tag
      /\ PinMatches(f)
      /\ Remaining(f) = {}

(* A mismatch "is refused rather than overwritten unless you pass          *)
(* ExistingAssetPolicy.REPLACE" (README.md:475): whatever was at an        *)
(* asset's path when a REFUSE call began, that call never changes it,      *)
(* though it looks only later, whatever others replace there meanwhile.    *)
RefuseSparesWhatItFound ==
  [][\A n \in AssetName : disk'[n] # disk[n] =>
       \E f \in Fetcher :
         /\ pc[f] # pc'[f]
         /\ cur[f] = n
         /\ job[f].existing = "refuse" => n \notin found[f]]_vars

(* ExistingAssetPolicy.REFUSE (fetcher.py:68): an asset's file that is     *)
(* there changes only in a call that asked for REPLACE.                    *)
RefuseNeverOverwrites ==
  [][\A n \in AssetName : disk[n] \in File /\ disk'[n] # disk[n] =>
       \E f \in Fetcher :
         /\ pc[f] # pc'[f]
         /\ cur[f] = n
         /\ job[f].existing = "replace"]_vars

(* The directory this code writes is the store SnapshotStore promises: the *)
(* final paths are its registers, the manifests placed so far its memory.  *)
Store == INSTANCE SnapshotStore WITH store <- disk, placed <- accepted

ImplementsStore == Store!Spec

(* Every call returns or raises, whatever the host sends.                  *)
EveryCallEnds == \A f \in Fetcher : pc[f] # "idle" ~> pc[f] = "idle"

-----------------------------------------------------------------------------
(* What the documentation says and the code does not do                    *)

(* A transport "must raise SnapshotIntegrityError -- not a library-specific *)
(* error -- when the resource cannot be fetched" (transport.py:58).        *)
TransportErrorsAreWrapped == \A f \in Fetcher : outcome[f] # "transport_error"

=============================================================================
