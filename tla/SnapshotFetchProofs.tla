------------------------- MODULE SnapshotFetchProofs -------------------------
(***************************************************************************)
(* Proofs about SnapshotFetch, for any number of callers, assets, byte     *)
(* strings and manifests.                                                  *)
(***************************************************************************)
EXTENDS SnapshotFetch, TLAPS

(* What a manifest declares has the types the download relies on.          *)
LEMMA DeclaredTypes ==
  ASSUME NEW m \in DOMAIN Manifest, NEW n \in Declared(m)
  PROVE  /\ n \in AssetName
         /\ DeclaredSha(m, n) \in Body
         /\ DeclaredSize(m, n) \in Nat \ {0}
<1>1. PICK D \in (SUBSET AssetName) \ {{}} : Manifest[m].assets \in [D -> AssetRecord]
  BY FilesAssumption
<1>2. n \in D
  BY <1>1 DEF Declared
<1>3. Manifest[m].assets[n] \in AssetRecord
  BY <1>1, <1>2
<1> QED
  BY <1>2, <1>3, FilesAssumption DEF AssetRecord, DeclaredSha, DeclaredSize

LEMMA WholeIsFile ==
  ASSUME NEW b \in Body
  PROVE  /\ Whole(b) \in File
         /\ Whole(b).bytes = b
         /\ Whole(b).len \in Nat \ {0}
BY FilesAssumption DEF Whole, File

LEMMA EmptyIsFile == EmptyFile \in File
BY DEF EmptyFile, File

(* An initial state is well typed, and no call knows anything yet.         *)
LEMMA InitCoherent == Init => CallsAreCoherent
<1> SUFFICES ASSUME Init PROVE CallsAreCoherent
  OBVIOUS
<1>1. TypeOK
  BY FetchAssumption DEF Init, TypeOK, Path, Outcome, Point
<1>2. ASSUME NEW f \in Fetcher PROVE Coherent(f)
  BY DEF Init, Coherent, InTry
<1> QED
  BY <1>1, <1>2 DEF CallsAreCoherent

(* The action of a caller: what Next lets one of them do.                  *)
Act(f) == Start(f) \/ Step(f) \/ Kill(f) \/ Interrupt(f) \/ FileOperationFails(f)

(* What a caller writes through its own variables stays its own.           *)
Untouched(g) ==
  /\ pc'[g] = pc[g]
  /\ job'[g] = job[g]
  /\ manifest'[g] = manifest[g]
  /\ got'[g] = got[g]
  /\ cur'[g] = cur[g]
  /\ wire'[g] = wire[g]
  /\ temp'[g] = temp[g]
  /\ outcome'[g] = outcome[g]
  /\ calls'[g] = calls[g]

LEMMA OthersUntouched ==
  ASSUME TypeOK, NEW f \in Fetcher, NEW g \in Fetcher \ {f}, Act(f)
  PROVE  Untouched(g)
<1>1. CASE Start(f)
  BY <1>1 DEF Start, TypeOK, Untouched
<1>2. CASE Download(f)
  BY <1>2 DEF Download, MakeTemp, CloseTemp, RequestFails, RequestAnswered, AcceptChunk,
     RefuseChunk, StreamEnds, StreamBreaks, Unlink, Raise, TypeOK, Untouched
<1>3. CASE FetchManifest(f)
  BY <1>3 DEF FetchManifest, RefuseManifest, ManifestPathOccupied, PlaceManifest,
     PinRefused, PinAccepted, Leave, Raise, TypeOK, Untouched
<1>4. CASE ResolveAsset(f)
  BY <1>4 DEF ResolveAsset, AssetPathOccupied, KeepAsset, RefuseAsset,
     DownloadAsset, RefuseDownload, PlaceAsset, Finish, Leave, Raise, TypeOK, Untouched
<1>5. CASE Kill(f) \/ Interrupt(f) \/ FileOperationFails(f)
  BY <1>5 DEF Kill, Interrupt, FileOperationFails, Strike, Leave, Raise, TypeOK, Untouched
<1> QED
  BY <1>1, <1>2, <1>3, <1>4, <1>5 DEF Act, Step

(* Nor does it change what another call found when that began.             *)
LEMMA OthersFind ==
  ASSUME TypeOK, NEW f \in Fetcher, NEW g \in Fetcher \ {f}, Act(f)
  PROVE  found'[g] = found[g]
BY DEF Act, Start, Step, Download, FetchManifest, ResolveAsset, MakeTemp, CloseTemp, Unlink,
   RequestFails, RequestAnswered, AcceptChunk, RefuseChunk, StreamEnds, StreamBreaks,
   RefuseManifest, ManifestPathOccupied, PlaceManifest, PinRefused, PinAccepted,
   AssetPathOccupied, KeepAsset, RefuseAsset, DownloadAsset, RefuseDownload,
   PlaceAsset, Finish, Kill, Interrupt, FileOperationFails, Strike, Leave, Raise, TypeOK

(* No manifest placed is ever forgotten.                                   *)
LEMMA AcceptedGrows ==
  ASSUME NEW f \in Fetcher, Act(f)
  PROVE  accepted \subseteq accepted'
BY DEF Act, Start, Step, Download, FetchManifest, ResolveAsset, MakeTemp,
   CloseTemp, Unlink, RequestFails, RequestAnswered, AcceptChunk, RefuseChunk, StreamEnds, StreamBreaks,
   RefuseManifest, ManifestPathOccupied, PlaceManifest, PinRefused, PinAccepted,
   AssetPathOccupied, KeepAsset, RefuseAsset, DownloadAsset, RefuseDownload,
   PlaceAsset, Finish, Kill, Interrupt, FileOperationFails, Strike, Leave, Raise

LEMMA UntouchedStaysCoherent ==
  ASSUME NEW g \in Fetcher, Coherent(g), Untouched(g), accepted \subseteq accepted'
  PROVE  Coherent(g)'
BY DEF Coherent, Untouched, Cap, PinMatches, Remaining, InTry

(* A call that ends in an error keeps what it knew of its manifest.        *)
LEMMA LeaveCoherent ==
  ASSUME TypeOK, NEW f \in Fetcher, Coherent(f),
         NEW how \in Outcome \ {"none", "ok"}, Leave(f, how),
         temp[f] = Absent \/ how \in {"killed", "interrupted", "os_error"}
  PROVE  TypeOK' /\ Coherent(f)'
<1>1. TypeOK'
  BY DEF TypeOK, Point, Leave, Outcome
<1>2. Coherent(f)'
  BY DEF TypeOK, Leave, Coherent, Outcome, PinMatches, InTry
<1> QED
  BY <1>1, <1>2

(* And so does one whose exception is still on its way out.                *)
LEMMA RaiseCoherent ==
  ASSUME TypeOK, NEW f \in Fetcher, Coherent(f), pc[f] \in InTry,
         NEW error \in Outcome \ {"none", "ok"}, Raise(f, error)
  PROVE  TypeOK' /\ Coherent(f)'
<1>1. TypeOK'
  BY DEF TypeOK, Point, Raise, Outcome
<1>2. Coherent(f)'
  BY DEF TypeOK, Raise, Coherent, Outcome, PinMatches, InTry
<1> QED
  BY <1>1, <1>2

LEMMA StartCoherent ==
  ASSUME TypeOK, NEW f \in Fetcher, Coherent(f), Start(f)
  PROVE  TypeOK' /\ Coherent(f)'
<1>1. PICK j \in Job : job' = [job EXCEPT ![f] = j]
  BY DEF Start
<1>2. /\ outcome' \in [Fetcher -> Outcome]
      /\ pc' \in [Fetcher -> Point]
      /\ directory' \in {"missing", "directory", "file"}
  BY DEF TypeOK, Start, Outcome, Point
<1>3. TypeOK'
  BY <1>1, <1>2 DEF TypeOK, Start, Path
<1>4. Coherent(f)'
  BY DEF TypeOK, Start, Coherent, InTry, PinMatches
<1> QED
  BY <1>3, <1>4

LEMMA DownloadCoherent ==
  ASSUME TypeOK, NEW f \in Fetcher, Coherent(f), Download(f)
  PROVE  TypeOK' /\ Coherent(f)'
<1>1. CASE MakeTemp(f)
  <2>1. TypeOK'
    BY <1>1, EmptyIsFile DEF TypeOK, Point, MakeTemp
  <2>2. Coherent(f)'
    BY <1>1 DEF TypeOK, MakeTemp, Coherent, InTry, Cap, PinMatches, Remaining
  <2> QED
    BY <2>1, <2>2
<1>2. CASE RequestFails(f)
  BY <1>2, RaiseCoherent DEF RequestFails, InTry, Outcome
<1>3. CASE RequestAnswered(f)
  <2>1. TypeOK'
    BY <1>3 DEF TypeOK, Point, RequestAnswered
  <2>2. wire'[f] \in Body /\ pc'[f] = "stream"
    BY <1>3 DEF TypeOK, RequestAnswered
  <2>3. Cap(f) \in Nat /\ Cap(f)' = Cap(f)
    BY <1>3, DeclaredTypes, FilesAssumption DEF TypeOK, RequestAnswered, Coherent, InTry, Cap
  <2>4. temp'[f] = EmptyFile /\ temp'[f].len <= Cap(f)'
    BY <1>3, <2>3 DEF TypeOK, RequestAnswered, Coherent, InTry, EmptyFile
  <2>5. Coherent(f)'
    BY <1>3, <2>2, <2>4, EmptyIsFile DEF TypeOK, RequestAnswered, Coherent, InTry, PinMatches, Remaining
  <2> QED
    BY <2>1, <2>5
<1>4. CASE AcceptChunk(f)
  <2>1. PICK k \in NextChunk(f) :
          /\ Fits(f, k)
          /\ temp' = [temp EXCEPT ![f] = [bytes |-> wire[f], len |-> temp[f].len + k]]
    BY <1>4 DEF AcceptChunk
  <2>2. pc[f] = "stream" /\ wire[f] \in Body /\ temp[f] \in File
    BY <1>4 DEF AcceptChunk, Coherent, InTry
  <2>3. k \in Nat
    BY <2>2, FilesAssumption, FetchAssumption DEF NextChunk, File
  <2>4. temp'[f] \in File /\ temp'[f].len = temp[f].len + k
    BY <2>1, <2>2, <2>3 DEF File, TypeOK
  <2>5. TypeOK'
    BY <1>4, <2>1, <2>4 DEF TypeOK, Point, AcceptChunk
  <2>6. temp'[f].len <= Cap(f)'
    BY <1>4, <2>1, <2>4 DEF AcceptChunk, Cap, Fits
  <2>7. Coherent(f)'
    BY <1>4, <2>2, <2>4, <2>6 DEF TypeOK, AcceptChunk, Coherent, InTry, PinMatches, Remaining
  <2> QED
    BY <2>5, <2>7
<1>5. CASE RefuseChunk(f)
  BY <1>5, RaiseCoherent DEF RefuseChunk, InTry, Outcome
<1>6. CASE StreamEnds(f)
  <2>1. TypeOK'
    BY <1>6 DEF TypeOK, Point, StreamEnds
  <2>2. Coherent(f)'
    BY <1>6 DEF TypeOK, StreamEnds, Coherent, InTry, Cap, PinMatches, Remaining
  <2> QED
    BY <2>1, <2>2
<1>7. CASE StreamBreaks(f)
  BY <1>7, RaiseCoherent DEF StreamBreaks, InTry, Outcome
<1>8. CASE CloseTemp(f)
  <2>1. TypeOK'
    BY <1>8 DEF TypeOK, Point, CloseTemp
  <2>2. Coherent(f)'
    BY <1>8 DEF TypeOK, CloseTemp, Coherent, Cap, PinMatches, Remaining, InTry
  <2> QED
    BY <2>1, <2>2
<1>9. CASE Unlink(f)
  <2>1. TypeOK'
    BY <1>9 DEF TypeOK, Point, Unlink
  <2>2. Coherent(f)'
    BY <1>9 DEF TypeOK, Unlink, Coherent, PinMatches, Remaining, InTry
  <2> QED
    BY <2>1, <2>2
<1> QED
  BY <1>1, <1>2, <1>3, <1>4, <1>5, <1>6, <1>7, <1>8, <1>9 DEF Download

LEMMA FetchManifestCoherent ==
  ASSUME TypeOK, NEW f \in Fetcher, Coherent(f), FetchManifest(f)
  PROVE  TypeOK' /\ Coherent(f)'
<1>1. CASE RefuseManifest(f) \/ ManifestPathOccupied(f)
  BY <1>1, RaiseCoherent DEF RefuseManifest, ManifestPathOccupied, InTry, Outcome
<1>2. CASE PlaceManifest(f)
  <2>1. PICK m \in DOMAIN Manifest : temp[f] = Whole(m) /\ Manifest[m].tag = job[f].tag
    BY <1>2 DEF PlaceManifest, IsRequestedManifest
  <2>2. m \in Body /\ temp[f].bytes = m /\ temp[f] \in Slot /\ m # NoBody
    BY <2>1, WholeIsFile, FilesAssumption DEF Slot
  <2>3. manifest[f] = NoBody /\ job[f] \in Job /\ outcome[f] = "none"
    BY <1>2 DEF PlaceManifest, Coherent, InTry
  <2>4. TypeOK'
    BY <1>2, <2>2 DEF TypeOK, Point, PlaceManifest
  <2>5. manifest'[f] = m /\ pc'[f] = "pin" /\ temp'[f] = Absent /\ m \in accepted'
    BY <1>2, <2>2 DEF TypeOK, PlaceManifest
  <2>6. Coherent(f)'
    BY <1>2, <2>1, <2>2, <2>3, <2>5 DEF PlaceManifest, Coherent, InTry
  <2> QED
    BY <2>4, <2>6
<1>3. CASE PinAccepted(f)
  <2>1. TypeOK'
    BY <1>3 DEF TypeOK, Point, PinAccepted
  <2>2. Coherent(f)'
    BY <1>3 DEF TypeOK, PinAccepted, Coherent, InTry, PinMatches, Remaining
  <2> QED
    BY <2>1, <2>2
<1>4. CASE PinRefused(f)
  BY <1>4, LeaveCoherent DEF PinRefused, Coherent, InTry, Outcome
<1> QED
  BY <1>1, <1>2, <1>3, <1>4 DEF FetchManifest

LEMMA ResolveAssetCoherent ==
  ASSUME TypeOK, NEW f \in Fetcher, Coherent(f), ResolveAsset(f)
  PROVE  TypeOK' /\ Coherent(f)'
<1>1. CASE AssetPathOccupied(f) \/ RefuseAsset(f)
  BY <1>1, LeaveCoherent DEF AssetPathOccupied, RefuseAsset, Coherent, InTry, Outcome
<1>2. CASE KeepAsset(f)
  <2>1. PICK n \in Remaining(f) : got' = [got EXCEPT ![f][n] = "kept"]
    BY <1>2 DEF KeepAsset
  <2>2. TypeOK'
    BY <1>2, <2>1 DEF TypeOK, Point, KeepAsset
  <2>3. Coherent(f)'
    BY <1>2 DEF TypeOK, KeepAsset, Coherent, InTry, PinMatches
  <2> QED
    BY <2>2, <2>3
<1>3. CASE DownloadAsset(f)
  <2>1. manifest[f] \in DOMAIN Manifest
    BY <1>3 DEF TypeOK, DownloadAsset, Coherent, InTry
  <2>2. PICK n \in Remaining(f) : cur' = [cur EXCEPT ![f] = n]
    BY <1>3 DEF DownloadAsset
  <2>3. n \in Declared(manifest[f]) /\ n \in AssetName /\ n # ManifestName
    BY <2>1, <2>2, DeclaredTypes, FilesAssumption DEF Remaining
  <2>4. TypeOK'
    BY <1>3, <2>2, <2>3 DEF TypeOK, Point, DownloadAsset, Path
  <2>5. Coherent(f)'
    BY <1>3, <2>2, <2>3 DEF TypeOK, DownloadAsset, Coherent, InTry, PinMatches
  <2> QED
    BY <2>4, <2>5
<1>4. CASE PlaceAsset(f)
  <2>1. cur[f] \in AssetName /\ manifest[f] # NoBody /\ temp[f] \in File
    BY <1>4, FilesAssumption DEF PlaceAsset, Coherent, InTry
  <2>2. TypeOK'
    BY <1>4, <2>1 DEF TypeOK, Point, PlaceAsset, Slot, Path
  <2>3. Coherent(f)'
    BY <1>4, <2>1 DEF TypeOK, PlaceAsset, Coherent, InTry, PinMatches
  <2> QED
    BY <2>2, <2>3
<1>5. CASE Finish(f)
  <2>1. TypeOK'
    BY <1>5 DEF TypeOK, Point, Finish, Outcome
  <2>2. Coherent(f)'
    BY <1>5 DEF TypeOK, Finish, Coherent, InTry, PinMatches, Remaining
  <2> QED
    BY <2>1, <2>2
<1>6. CASE RefuseDownload(f)
  BY <1>6, RaiseCoherent DEF RefuseDownload, InTry, Outcome
<1> QED
  BY <1>1, <1>2, <1>3, <1>4, <1>5, <1>6 DEF ResolveAsset

LEMMA CutOffCoherent ==
  ASSUME TypeOK, NEW f \in Fetcher, Coherent(f),
         Kill(f) \/ Interrupt(f) \/ FileOperationFails(f)
  PROVE  TypeOK' /\ Coherent(f)'
<1>1. CASE Kill(f)
  BY <1>1, LeaveCoherent DEF Kill, Outcome
<1>2. ASSUME NEW error \in {"interrupted", "os_error"}, Strike(f, error)
      PROVE  TypeOK' /\ Coherent(f)'
  <2>1. error \in Outcome \ {"none", "ok"}
    BY DEF Outcome
  <2>2. CASE pc[f] \in InTry /\ Raise(f, error)
    BY <2>1, <2>2, RaiseCoherent
  <2>3. CASE Leave(f, error)
    BY <1>2, <2>1, <2>3, LeaveCoherent
  <2> QED
    BY <1>2, <2>2, <2>3 DEF Strike
<1> QED
  BY <1>1, <1>2 DEF Interrupt, FileOperationFails

(* Every step keeps the inductive invariant.                               *)
LEMMA NextCoherent == CallsAreCoherent /\ [Next]_vars => CallsAreCoherent'
<1> SUFFICES ASSUME CallsAreCoherent, [Next]_vars PROVE CallsAreCoherent'
  OBVIOUS
<1> USE DEF CallsAreCoherent
<1>1. CASE UNCHANGED vars
  BY <1>1 DEF vars, local, TypeOK, Coherent, InTry, Cap, PinMatches, Remaining
<1>2. ASSUME NEW f \in Fetcher, Act(f) PROVE CallsAreCoherent'
  <2>1. TypeOK' /\ Coherent(f)'
    BY <1>2, StartCoherent, DownloadCoherent, FetchManifestCoherent,
       ResolveAssetCoherent, CutOffCoherent DEF Act, Step
  <2>2. ASSUME NEW g \in Fetcher \ {f} PROVE Coherent(g)'
    BY <1>2, OthersUntouched, AcceptedGrows, UntouchedStaysCoherent
  <2> QED
    BY <2>1, <2>2
<1> QED
  BY <1>1, <1>2 DEF Next, Act

(* What every call knows at each point of it holds in every reachable      *)
(* state, however many callers share the directory.                        *)
THEOREM Coherence == Spec => []CallsAreCoherent
BY InitCoherent, NextCoherent, PTL DEF Spec

(* Type correctness follows: it is not inductive by itself.                *)
THEOREM TypeCorrect == Spec => []TypeOK
<1>1. CallsAreCoherent => TypeOK
  BY DEF CallsAreCoherent
<1> QED
  BY <1>1, Coherence, PTL

-----------------------------------------------------------------------------
(* Properties the inductive invariant implies                              *)

(* No temporary file outgrows the cap its manifest declared.               *)
THEOREM DownloadIsCapped == Spec => []DownloadCapped
<1>1. CallsAreCoherent => DownloadCapped
  BY DEF CallsAreCoherent, Coherent, DownloadCapped
<1> QED
  BY <1>1, Coherence, PTL

(* A call that leaves its temporary file at its end was killed, or struck  *)
(* before the try or in the finally: every other end has removed it.       *)
THEOREM TempIsRemoved == Spec => NoTempAfterReturn
<1> DEFINE OutOfReach(f) ==
      \/ outcome'[f] = "killed"
      \/ pc[f] \in {"made", "cleanup"} /\ outcome'[f] \in {"interrupted", "os_error"}
<1>1. ASSUME CallsAreCoherent, [Next]_vars
      PROVE  [\A f \in Fetcher :
                pc[f] # "idle" /\ pc'[f] = "idle" /\ temp'[f] # Absent => OutOfReach(f)]_vars
  <2> SUFFICES ASSUME Next, NEW f \in Fetcher,
                      pc[f] # "idle", pc'[f] = "idle", temp'[f] # Absent
               PROVE  OutOfReach(f)
    BY <1>1
  <2>1. TypeOK /\ Coherent(f)
    BY <1>1 DEF CallsAreCoherent
  <2>2. Act(f)
    <3>1. PICK g \in Fetcher : Act(g)
      BY DEF Next, Act
    <3> QED
      BY <2>1, <3>1, OthersUntouched DEF Untouched
  <2>3. CASE Kill(f)
    BY <2>1, <2>3 DEF Kill, Leave, TypeOK
  <2>4. CASE Interrupt(f) \/ FileOperationFails(f)
    BY <2>1, <2>4 DEF Interrupt, FileOperationFails, Strike, Leave, Raise, TypeOK, Coherent,
       InTry, Point
  <2>5. CASE Unlink(f)
    BY <2>1, <2>5 DEF Unlink, TypeOK
  <2>6. CASE PinRefused(f) \/ AssetPathOccupied(f) \/ RefuseAsset(f) \/ Finish(f)
    BY <2>1, <2>6 DEF PinRefused, AssetPathOccupied, RefuseAsset, Finish, Leave, TypeOK, Coherent, InTry
  <2>7. CASE \/ RequestFails(f) \/ RefuseChunk(f) \/ StreamBreaks(f)
            \/ RefuseManifest(f) \/ ManifestPathOccupied(f) \/ RefuseDownload(f)
    BY <2>1, <2>7 DEF RequestFails, RefuseChunk, StreamBreaks, RefuseManifest,
       ManifestPathOccupied, RefuseDownload, Raise, TypeOK
  <2>8. CASE \/ MakeTemp(f) \/ CloseTemp(f) \/ RequestAnswered(f) \/ AcceptChunk(f)
            \/ StreamEnds(f) \/ PlaceManifest(f) \/ PinAccepted(f) \/ KeepAsset(f)
            \/ DownloadAsset(f) \/ PlaceAsset(f)
    BY <2>1, <2>8 DEF MakeTemp, CloseTemp, RequestAnswered, AcceptChunk, StreamEnds,
       PlaceManifest, PinAccepted, KeepAsset, DownloadAsset, PlaceAsset, TypeOK
  <2> QED
    BY <2>2, <2>3, <2>4, <2>5, <2>6, <2>7, <2>8 DEF Act, Start, Step, Download,
       FetchManifest, ResolveAsset
<1> QED
  BY <1>1, Coherence, PTL DEF Spec, NoTempAfterReturn

(* A returned result is of the release and the identity asked for, and     *)
(* complete.                                                               *)
THEOREM ResultIsRight == Spec => []ResultIsWhatWasAsked
<1>1. CallsAreCoherent => ResultIsWhatWasAsked
  BY DEF CallsAreCoherent, Coherent, InTry, ResultIsWhatWasAsked
<1> QED
  BY <1>1, Coherence, PTL

-----------------------------------------------------------------------------
(* Properties of the directory                                             *)

(* What any step may do to the final paths: nothing, or place a manifest   *)
(* whole, or place the whole of what the acting call's manifest declares   *)
(* for the path it is downloading.                                         *)
Placing(f) ==
  /\ manifest[f] \in accepted
  /\ cur[f] \in Declared(manifest[f])
  /\ HasSize(Whole(DeclaredSha(manifest[f], cur[f])), manifest[f], cur[f])
  /\ disk' = [disk EXCEPT ![cur[f]] = Whole(DeclaredSha(manifest[f], cur[f]))]
  /\ UNCHANGED <<accepted, manifest, cur>>
  /\ got' = [got EXCEPT ![f][cur[f]] = "downloaded"]
  /\ PlaceAsset(f)

PlacingManifest(f) ==
  \E m \in DOMAIN Manifest :
    /\ disk[ManifestName] # NotAFile
    /\ disk' = [disk EXCEPT ![ManifestName] = Whole(m)]
    /\ accepted' = accepted \cup {m}
    /\ PlaceManifest(f)

LEMMA HowTheDiskChanges ==
  ASSUME CallsAreCoherent, NEW f \in Fetcher, Act(f)
  PROVE  \/ UNCHANGED <<disk, accepted>>
         \/ PlacingManifest(f)
         \/ Placing(f)
<1>1. CASE PlaceManifest(f)
  <2>1. PICK m \in DOMAIN Manifest : temp[f] = Whole(m)
    BY <1>1 DEF PlaceManifest, IsRequestedManifest
  <2>2. temp[f].bytes = m
    BY <2>1, WholeIsFile, FilesAssumption
  <2> QED
    BY <1>1, <2>1, <2>2 DEF PlaceManifest, PlacingManifest
<1>2. CASE PlaceAsset(f)
  <2>1. cur[f] \in Declared(manifest[f]) /\ manifest[f] \in accepted
    BY <1>2, FilesAssumption DEF PlaceAsset, CallsAreCoherent, Coherent, InTry
  <2>2. temp[f] = Whole(DeclaredSha(manifest[f], cur[f]))
    BY <1>2 DEF PlaceAsset, Verified, HasDigest
  <2>3. HasSize(Whole(DeclaredSha(manifest[f], cur[f])), manifest[f], cur[f])
    BY <1>2, <2>2 DEF PlaceAsset, Verified
  <2> QED
    BY <1>2, <2>1, <2>2, <2>3 DEF PlaceAsset, Placing
<1>3. CASE ~PlaceManifest(f) /\ ~PlaceAsset(f)
  BY <1>3 DEF Act, Start, Step, Download, FetchManifest, ResolveAsset, MakeTemp,
     CloseTemp, Unlink, RequestFails, RequestAnswered, AcceptChunk, RefuseChunk, StreamEnds,
     StreamBreaks, RefuseManifest, ManifestPathOccupied, PinRefused, PinAccepted,
     AssetPathOccupied, KeepAsset, RefuseAsset, DownloadAsset, RefuseDownload,
     Finish, Kill, Interrupt, FileOperationFails, Strike, Leave, Raise
<1> QED
  BY <1>1, <1>2, <1>3

(* The same, for any step of the specification.                            *)
LEMMA HowAStepChangesTheDisk ==
  ASSUME CallsAreCoherent, [Next]_vars
  PROVE  \/ UNCHANGED <<disk, accepted>>
         \/ \E f \in Fetcher : PlacingManifest(f) \/ Placing(f)
<1>1. CASE UNCHANGED vars
  BY <1>1 DEF vars
<1>2. CASE Next
  BY <1>2, HowTheDiskChanges DEF Next, Act
<1> QED
  BY <1>1, <1>2

(* The caller's own files are remembered as they were.                     *)
LEMMA BeforeIsKept == [Next]_vars => UNCHANGED before
BY DEF Next, vars, Start, Step, Download, FetchManifest, ResolveAsset, MakeTemp,
   CloseTemp, Unlink, RequestFails, RequestAnswered, AcceptChunk, RefuseChunk, StreamEnds,
   StreamBreaks, RefuseManifest, ManifestPathOccupied, PlaceManifest, PinRefused,
   PinAccepted, AssetPathOccupied, KeepAsset, RefuseAsset, DownloadAsset,
   RefuseDownload, PlaceAsset, Finish, Kill, Interrupt, FileOperationFails, Strike, Leave, Raise

(* Whatever this code puts at an asset's path is in full the bytes of the  *)
(* digest and the length an already placed manifest declares.              *)
THEOREM VerifiedBytesOnly == Spec => []OnlyVerifiedBytesLand
<1>1. Init => OnlyVerifiedBytesLand
  BY DEF Init, OnlyVerifiedBytesLand
<1>2. ASSUME OnlyVerifiedBytesLand, CallsAreCoherent, [Next]_vars
      PROVE  OnlyVerifiedBytesLand'
  <2>1. UNCHANGED before /\ disk \in [Path -> Slot]
    BY <1>2, BeforeIsKept DEF CallsAreCoherent, TypeOK
  <2>2. CASE UNCHANGED <<disk, accepted>>
    BY <1>2, <2>1, <2>2 DEF OnlyVerifiedBytesLand
  <2>3. ASSUME NEW f \in Fetcher, PlacingManifest(f)
        PROVE  OnlyVerifiedBytesLand'
    BY <1>2, <2>1, <2>3, FilesAssumption DEF OnlyVerifiedBytesLand, PlacingManifest, Path
  <2>4. ASSUME NEW f \in Fetcher, Placing(f)
        PROVE  OnlyVerifiedBytesLand'
    BY <1>2, <2>1, <2>4 DEF OnlyVerifiedBytesLand, Placing, HasDigest, Path
  <2> QED
    BY <1>2, <2>2, <2>3, <2>4, HowAStepChangesTheDisk
<1> QED
  BY <1>1, <1>2, Coherence, PTL DEF Spec

(* A manifest this code put on disk is one it could read.                  *)
THEOREM ManifestReadable == Spec => []ManifestOnDiskReadable
<1>1. Init => ManifestOnDiskReadable
  BY DEF Init, ManifestOnDiskReadable
<1>2. ASSUME ManifestOnDiskReadable, CallsAreCoherent, [Next]_vars
      PROVE  ManifestOnDiskReadable'
  <2>1. UNCHANGED before /\ disk \in [Path -> Slot]
    BY <1>2, BeforeIsKept DEF CallsAreCoherent, TypeOK
  <2>2. CASE UNCHANGED <<disk, accepted>>
    BY <1>2, <2>1, <2>2 DEF ManifestOnDiskReadable
  <2>3. ASSUME NEW f \in Fetcher, PlacingManifest(f)
        PROVE  ManifestOnDiskReadable'
    BY <2>1, <2>3 DEF ManifestOnDiskReadable, PlacingManifest, Path
  <2>4. ASSUME NEW f \in Fetcher, Placing(f)
        PROVE  ManifestOnDiskReadable'
    <3>1. cur[f] # ManifestName
      BY <2>4, DeclaredTypes, FilesAssumption DEF Placing, CallsAreCoherent, TypeOK, PlaceAsset
    <3> QED
      BY <1>2, <2>1, <2>4, <3>1 DEF ManifestOnDiskReadable, Placing
  <2> QED
    BY <1>2, <2>2, <2>3, <2>4, HowAStepChangesTheDisk
<1> QED
  BY <1>1, <1>2, Coherence, PTL DEF Spec

(* SnapshotStore speaks of the same files and manifests.                   *)
LEMMA StoreVocabulary ==
  /\ Store!Path = Path
  /\ Store!Slot = Slot
  /\ \A b : Store!Whole(b) = Whole(b)
  /\ \A m : Store!Declared(m) = Declared(m)
  /\ \A m, n : Store!DeclaredSha(m, n) = DeclaredSha(m, n)
  /\ \A m, n : Store!DeclaredSize(m, n) = DeclaredSize(m, n)
BY DEF Store!Path, Path, Store!Slot, Slot, Store!File, File, Store!Whole, Whole,
   Store!Declared, Declared, Store!DeclaredSha, DeclaredSha, Store!DeclaredSize,
   DeclaredSize

(* The directory is the store SnapshotStore specifies, whatever the        *)
(* interleaving of calls, failures and crashes.                            *)
THEOREM DirectoryIsAStore == Spec => ImplementsStore
<1>1. Init => Store!Init
  BY FetchAssumption, StoreVocabulary DEF Init, Store!Init
<1>2. ASSUME CallsAreCoherent, [Next]_vars
      PROVE  [Store!Next]_<<disk, accepted>>
  <2>1. ASSUME NEW f \in Fetcher, PlacingManifest(f)
        PROVE  Store!Next
    BY <2>1, StoreVocabulary DEF PlacingManifest, Store!Next, Store!PlaceManifest
  <2>2. ASSUME NEW f \in Fetcher, Placing(f)
        PROVE  Store!Next
    <3>1. DeclaredSize(manifest[f], cur[f]) = Size[DeclaredSha(manifest[f], cur[f])]
      BY <2>2 DEF Placing, HasSize, Whole
    <3>2. Store!PlaceAsset(manifest[f], cur[f])
      BY <2>2, <3>1, StoreVocabulary DEF Placing, Store!PlaceAsset
    <3> QED
      BY <2>2, <3>2, StoreVocabulary DEF Placing, Store!Next
  <2> QED
    BY <1>2, <2>1, <2>2, HowAStepChangesTheDisk
<1> QED
  BY <1>1, <1>2, Coherence, PTL DEF Spec, ImplementsStore, Store!Spec

-----------------------------------------------------------------------------
(* A resolved path                                                         *)

(* How the record of an asset comes about.                                 *)
LEMMA HowAssetsAreResolved ==
  ASSUME CallsAreCoherent, NEW f \in Fetcher, Act(f), manifest'[f] # NoBody,
         NEW n \in Declared(manifest'[f]), got'[f][n] # "none"
  PROVE  /\ manifest'[f] = manifest[f]
         /\ got'[f][n] = got[f][n] \/ HasDigest(disk'[n], manifest[f], n)
<1> USE DEF CallsAreCoherent
<1>1. manifest'[f] \in DOMAIN Manifest /\ n \in AssetName /\ n # ManifestName
  <2>1. CallsAreCoherent'
    BY NextCoherent DEF Act, Next
  <2> QED
    BY <2>1, DeclaredTypes, FilesAssumption DEF TypeOK
<1>2. CASE Start(f)
  BY <1>2 DEF Start, TypeOK
<1>3. CASE PlaceManifest(f)
  BY <1>1, <1>3 DEF PlaceManifest, Coherent, InTry
<1>4. CASE PlaceAsset(f)
  BY <1>1, <1>4 DEF PlaceAsset, TypeOK, Verified, HasDigest, Path
<1>5. CASE KeepAsset(f)
  BY <1>1, <1>5 DEF KeepAsset, TypeOK
<1>6. CASE ~(Start(f) \/ PlaceManifest(f) \/ PlaceAsset(f) \/ KeepAsset(f))
  BY <1>6 DEF Act, Step, Download, FetchManifest, ResolveAsset, MakeTemp,
     CloseTemp, Unlink, RequestFails, RequestAnswered, AcceptChunk, RefuseChunk, StreamEnds,
     StreamBreaks, RefuseManifest, ManifestPathOccupied, PinRefused, PinAccepted,
     AssetPathOccupied, RefuseAsset, DownloadAsset, RefuseDownload,
     Finish, Kill, Interrupt, FileOperationFails, Strike, Leave, Raise
<1> QED
  BY <1>2, <1>3, <1>4, <1>5, <1>6

(* A path a call resolved keeps the asset as long as every manifest placed *)
(* agrees on it.                                                           *)
THEOREM ResolvedIsStable == Spec => []ResolvedStaysVerified
<1>1. Init => ResolvedStaysVerified
  BY DEF Init, ResolvedStaysVerified
<1>2. ASSUME ResolvedStaysVerified, CallsAreCoherent, [Next]_vars
      PROVE  ResolvedStaysVerified'
  <2> SUFFICES ASSUME NEW f \in Fetcher, manifest'[f] # NoBody,
                      NEW n \in Declared(manifest'[f]), got'[f][n] # "none",
                      \A m \in accepted' : Agree(m, manifest'[f], n)
               PROVE  HasDigest(disk'[n], manifest'[f], n)
    BY DEF ResolvedStaysVerified, Agree, HasDigest, Declared, DeclaredSha
  <2>1. CASE UNCHANGED vars
    BY <1>2, <2>1 DEF vars, local, ResolvedStaysVerified
  <2>2. ASSUME NEW g \in Fetcher, Act(g)
        PROVE  HasDigest(disk'[n], manifest'[f], n)
    <3>1. /\ manifest'[f] = manifest[f]
          /\ got'[f][n] = got[f][n] \/ HasDigest(disk'[n], manifest[f], n)
      <4>1. CASE f = g
        BY <1>2, <2>2, <4>1, HowAssetsAreResolved
      <4>2. CASE f # g
        BY <1>2, <2>2, <4>2, OthersUntouched DEF CallsAreCoherent, Untouched
      <4> QED
        BY <4>1, <4>2
    <3>2. CASE HasDigest(disk'[n], manifest[f], n)
      BY <3>1, <3>2
    <3>3. CASE got'[f][n] = got[f][n]
      <4>1. accepted \subseteq accepted'
        BY <2>2, AcceptedGrows
      <4>2. HasDigest(disk[n], manifest[f], n)
        BY <1>2, <3>1, <3>3, <4>1 DEF ResolvedStaysVerified
      <4>3. disk \in [Path -> Slot] /\ n \in Path /\ n # ManifestName
        BY <1>2, <3>1, DeclaredTypes, FilesAssumption DEF CallsAreCoherent, TypeOK, Path
      <4>4. CASE UNCHANGED <<disk, accepted>> \/ PlacingManifest(g)
        BY <3>1, <4>2, <4>3, <4>4 DEF PlacingManifest
      <4>5. CASE Placing(g) /\ cur[g] # n
        BY <3>1, <4>2, <4>3, <4>5 DEF Placing
      <4>6. CASE Placing(g) /\ cur[g] = n
        <5>1. Agree(manifest[g], manifest[f], n)
          BY <3>1, <4>1, <4>6 DEF Placing
        <5> QED
          BY <3>1, <4>3, <4>6, <5>1 DEF Placing, Agree, HasDigest
      <4> QED
        BY <1>2, <2>2, <4>4, <4>5, <4>6, HowTheDiskChanges
    <3> QED
      BY <3>1, <3>2, <3>3
  <2> QED
    BY <1>2, <2>1, <2>2 DEF Next, Act
<1> QED
  BY <1>1, <1>2, Coherence, PTL DEF Spec

-----------------------------------------------------------------------------
(* What a REFUSE call found                                                *)

(* No path is emptied, so what a call found when it began is still taken   *)
(* when it looks, and a REFUSE call does not download to it.               *)
FoundIsSpared ==
  \A f \in Fetcher : pc[f] # "idle" =>
    /\ \A n \in found[f] : disk[n] # Absent
    /\ pc[f] \in {"temp", "made"} \cup InTry /\ job[f].existing = "refuse" => cur[f] \notin found[f]

(* Whatever is at a path, something is there after every later step.       *)
LEMMA NothingIsRemoved ==
  ASSUME CallsAreCoherent, [Next]_vars, NEW n \in AssetName, disk[n] # Absent
  PROVE  disk'[n] # Absent
<1>1. disk \in [Path -> Slot] /\ n \in Path
  BY DEF CallsAreCoherent, TypeOK, Path
<1>2. ASSUME NEW f \in Fetcher, PlacingManifest(f) PROVE disk'[n] # Absent
  BY <1>1, <1>2, FilesAssumption DEF PlacingManifest
<1>3. ASSUME NEW f \in Fetcher, Placing(f) PROVE disk'[n] # Absent
  <2>1. manifest[f] \in DOMAIN Manifest
    BY <1>3 DEF Placing, CallsAreCoherent, TypeOK
  <2>2. Whole(DeclaredSha(manifest[f], cur[f])) \in File
    BY <1>3, <2>1, DeclaredTypes, WholeIsFile DEF Placing
  <2> QED
    BY <1>1, <1>3, <2>2, SlotAssumption DEF Placing
<1> QED
  BY <1>2, <1>3, HowAStepChangesTheDisk

(* What the acting call found, and where it stands.                        *)
LEMMA ActorSparesWhatItFound ==
  ASSUME CallsAreCoherent, FoundIsSpared, NEW f \in Fetcher, Act(f), pc'[f] # "idle"
  PROVE  /\ \A n \in found'[f] : disk'[n] # Absent
         /\ pc'[f] \in {"temp", "made"} \cup InTry /\ job'[f].existing = "refuse"
              => cur'[f] \notin found'[f]
<1> USE DEF CallsAreCoherent
<1>1. CASE Start(f)
  BY <1>1, FilesAssumption DEF Start, TypeOK
<1>2. CASE ~Start(f)
  <2>1. pc[f] # "idle" /\ found' = found /\ job' = job
    BY <1>2 DEF Act, Step, Download, FetchManifest, ResolveAsset, MakeTemp, CloseTemp, Unlink,
       RequestFails, RequestAnswered, AcceptChunk, RefuseChunk, StreamEnds, StreamBreaks,
       RefuseManifest, ManifestPathOccupied, PlaceManifest, PinRefused, PinAccepted,
       AssetPathOccupied, KeepAsset, RefuseAsset, DownloadAsset, RefuseDownload, PlaceAsset,
       Finish, Kill, Interrupt, FileOperationFails, Strike, Leave, Raise, InTry
  <2>2. \A n \in found[f] : n \in AssetName /\ disk[n] # Absent
    BY <2>1 DEF FoundIsSpared, TypeOK
  <2>3. \A n \in found[f] : disk'[n] # Absent
    BY <2>2, NothingIsRemoved DEF Next, Act
  <2>4. CASE DownloadAsset(f)
    BY <2>1, <2>2, <2>4, FetchAssumption, SlotAssumption DEF DownloadAsset, MayDownload, Mismatched, TypeOK
  <2>5. CASE \/ MakeTemp(f) \/ CloseTemp(f) \/ RequestAnswered(f)
            \/ AcceptChunk(f) \/ StreamEnds(f)
    BY <2>1, <2>5 DEF MakeTemp, CloseTemp, RequestAnswered, AcceptChunk, StreamEnds,
       FoundIsSpared, InTry
  <2>6. CASE ~(\/ DownloadAsset(f) \/ MakeTemp(f) \/ CloseTemp(f) \/ RequestAnswered(f)
              \/ AcceptChunk(f) \/ StreamEnds(f))
    <3>1. pc'[f] \notin {"temp", "made"} \cup InTry
      BY <1>2, <2>6 DEF Act, Step, Download, FetchManifest, ResolveAsset, Unlink,
         RequestFails, RefuseChunk, StreamBreaks, RefuseManifest, ManifestPathOccupied,
         PlaceManifest, PinRefused, PinAccepted, AssetPathOccupied, KeepAsset, RefuseAsset,
         RefuseDownload, PlaceAsset, Finish, Kill, Interrupt, FileOperationFails, Strike,
         Leave, Raise, TypeOK, InTry
    <3> QED
      BY <2>1, <2>3, <3>1
  <2> QED
    BY <2>4, <2>5, <2>6
<1> QED
  BY <1>1, <1>2

(* A REFUSE call never changes a path at which something was when it       *)
(* began, whatever the other callers replace there meanwhile.  What comes  *)
(* to a path after that it may overwrite: the run of two callers shows it. *)
THEOREM RefuseSparesFound == Spec => RefuseSparesWhatItFound
<1>1. Init => FoundIsSpared
  BY DEF Init, FoundIsSpared
<1>2. ASSUME FoundIsSpared, CallsAreCoherent, [Next]_vars PROVE FoundIsSpared'
  <2> SUFFICES ASSUME NEW f \in Fetcher, pc'[f] # "idle"
               PROVE  /\ \A n \in found'[f] : disk'[n] # Absent
                      /\ pc'[f] \in {"temp", "made"} \cup InTry /\ job'[f].existing = "refuse"
                           => cur'[f] \notin found'[f]
    BY DEF FoundIsSpared, InTry
  <2>1. CASE UNCHANGED vars
    BY <1>2, <2>1 DEF vars, local, FoundIsSpared, InTry
  <2>2. ASSUME NEW g \in Fetcher, Act(g), g # f
        PROVE  /\ \A n \in found'[f] : disk'[n] # Absent
               /\ pc'[f] \in {"temp", "made"} \cup InTry /\ job'[f].existing = "refuse"
                    => cur'[f] \notin found'[f]
    <3>1. Untouched(f) /\ found'[f] = found[f]
      BY <1>2, <2>2, OthersUntouched, OthersFind DEF CallsAreCoherent
    <3>2. \A n \in found[f] : n \in AssetName /\ disk[n] # Absent
      BY <1>2, <3>1 DEF FoundIsSpared, CallsAreCoherent, TypeOK, Untouched
    <3>3. \A n \in found[f] : disk'[n] # Absent
      BY <1>2, <3>2, NothingIsRemoved
    <3> QED
      BY <1>2, <3>1, <3>3 DEF FoundIsSpared, Untouched
  <2>3. CASE Act(f)
    BY <1>2, <2>3, ActorSparesWhatItFound
  <2> QED
    BY <1>2, <2>1, <2>2, <2>3 DEF Next, Act
<1>3. ASSUME FoundIsSpared, CallsAreCoherent, [Next]_vars
      PROVE  [\A n \in AssetName : disk'[n] # disk[n] =>
                 \E f \in Fetcher :
                   /\ pc[f] # pc'[f]
                   /\ cur[f] = n
                   /\ job[f].existing = "refuse" => n \notin found[f]]_vars
  <2> SUFFICES ASSUME NEW n \in AssetName, disk'[n] # disk[n]
               PROVE  \E f \in Fetcher :
                        /\ pc[f] # pc'[f]
                        /\ cur[f] = n
                        /\ job[f].existing = "refuse" => n \notin found[f]
    OBVIOUS
  <2>1. disk \in [Path -> Slot] /\ n \in Path /\ n # ManifestName
    BY <1>3, FilesAssumption DEF CallsAreCoherent, TypeOK, Path
  <2>2. PICK f \in Fetcher : PlacingManifest(f) \/ Placing(f)
    BY <1>3, HowAStepChangesTheDisk
  <2>3. PlaceAsset(f) /\ cur[f] = n
    BY <2>1, <2>2 DEF PlacingManifest, Placing
  <2>4. pc[f] = "landed" /\ pc'[f] = "asset"
    BY <1>3, <2>3 DEF PlaceAsset, CallsAreCoherent, TypeOK
  <2>5. job[f].existing = "refuse" => n \notin found[f]
    BY <1>3, <2>3, <2>4 DEF FoundIsSpared, InTry
  <2> QED
    BY <2>3, <2>4, <2>5
<1> QED
  BY <1>1, <1>2, <1>3, Coherence, PTL DEF Spec, RefuseSparesWhatItFound

-----------------------------------------------------------------------------
(* A caller alone in its directory                                         *)

Alone == \A f, g \in Fetcher : f = g

(* The path a REFUSE call is downloading to was empty when it looked, and, *)
(* with nobody else about, it still is.                                    *)
StillAbsent ==
  \A f \in Fetcher :
    /\ pc[f] \in {"temp", "made"} \cup InTry
    /\ job[f].existing = "refuse"
    /\ cur[f] \in AssetName
    => disk[cur[f]] = Absent

LEMMA AbsentUntilPlaced ==
  ASSUME Alone, CallsAreCoherent, StillAbsent, NEW f \in Fetcher, Act(f)
  PROVE  StillAbsent'
<1> USE DEF CallsAreCoherent
<1> SUFFICES ASSUME pc'[f] \in {"temp", "made"} \cup InTry,
                    job'[f].existing = "refuse", cur'[f] \in AssetName
             PROVE  disk'[cur'[f]] = Absent
  BY DEF Alone, StillAbsent
<1>1. CASE Start(f)
  BY <1>1, FilesAssumption DEF Start, TypeOK
<1>2. CASE DownloadAsset(f)
  BY <1>2 DEF DownloadAsset, MayDownload, TypeOK
<1>3. CASE \/ MakeTemp(f) \/ CloseTemp(f) \/ RequestAnswered(f)
            \/ AcceptChunk(f) \/ StreamEnds(f)
  BY <1>3 DEF MakeTemp, CloseTemp, RequestAnswered, AcceptChunk, StreamEnds, StillAbsent, InTry
<1>4. CASE ~(\/ Start(f) \/ DownloadAsset(f) \/ MakeTemp(f) \/ CloseTemp(f)
            \/ RequestAnswered(f) \/ AcceptChunk(f) \/ StreamEnds(f))
  BY <1>4 DEF Act, Step, Download, FetchManifest, ResolveAsset, RequestFails,
     RefuseChunk, StreamBreaks, RefuseManifest, ManifestPathOccupied, PlaceManifest,
     PinRefused, PinAccepted, AssetPathOccupied, KeepAsset, RefuseAsset,
     RefuseDownload, PlaceAsset, Finish, Kill, Interrupt, FileOperationFails, Strike, Leave, Raise, TypeOK,
     InTry, Unlink
<1> QED
  BY <1>1, <1>2, <1>3, <1>4

(* With one caller at a time REFUSE keeps its word.  The run of two callers *)
(* shows that it does not otherwise.                                       *)
THEOREM RefuseKeepsItsWordAlone == Alone => (Spec => RefuseNeverOverwrites)
<1> SUFFICES ASSUME Alone PROVE Spec => RefuseNeverOverwrites
  OBVIOUS
<1>1. Init => StillAbsent
  BY DEF Init, StillAbsent, InTry
<1>2. ASSUME StillAbsent, CallsAreCoherent, [Next]_vars PROVE StillAbsent'
  BY <1>2, AbsentUntilPlaced DEF vars, local, Next, Act, StillAbsent
<1>3. ASSUME StillAbsent, CallsAreCoherent, [Next]_vars
      PROVE  [\A n \in AssetName : disk[n] \in File /\ disk'[n] # disk[n] =>
                 \E f \in Fetcher :
                   /\ pc[f] # pc'[f]
                   /\ cur[f] = n
                   /\ job[f].existing = "replace"]_vars
  <2> SUFFICES ASSUME NEW n \in AssetName, disk[n] \in File, disk'[n] # disk[n]
               PROVE  \E f \in Fetcher :
                        /\ pc[f] # pc'[f]
                        /\ cur[f] = n
                        /\ job[f].existing = "replace"
    OBVIOUS
  <2>1. disk \in [Path -> Slot] /\ n \in Path /\ n # ManifestName
    BY <1>3, FilesAssumption DEF CallsAreCoherent, TypeOK, Path
  <2>2. PICK f \in Fetcher : PlacingManifest(f) \/ Placing(f)
    BY <1>3, HowAStepChangesTheDisk
  <2>3. PlaceAsset(f) /\ cur[f] = n
    BY <2>1, <2>2 DEF PlacingManifest, Placing
  <2>4. pc[f] = "landed" /\ pc'[f] = "asset" /\ job[f] \in Job
    BY <1>3, <2>3 DEF PlaceAsset, CallsAreCoherent, TypeOK, Coherent, InTry
  <2>5. job[f].existing # "refuse"
    BY <1>3, <2>3, <2>4, SlotAssumption DEF StillAbsent, InTry
  <2> QED
    BY <2>3, <2>4, <2>5, FetchAssumption
<1> QED
  BY <1>1, <1>2, <1>3, Coherence, PTL DEF Spec, RefuseNeverOverwrites

=============================================================================
