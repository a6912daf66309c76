------------------------ MODULE SnapshotSystemProofs ------------------------
(***************************************************************************)
(* Proofs about SnapshotSystem: any number of fetches, verifications and   *)
(* reads, in any interleaving.  That fetching keeps its own invariants is  *)
(* taken over from SnapshotFetchProofs; here the invariants of those who   *)
(* only read the directory are added to them.                              *)
(***************************************************************************)
EXTENDS SnapshotSystem, SnapshotFetchProofs

(* Verifying and reading change nothing of the fetches or the directory.   *)
LEMMA SystemStepIsFetchStep == [SystemNext]_systemVars => [Next]_vars
BY DEF SystemNext, systemVars, FetchTurn, VerifyTurn, BeginVerify, ReadTurn

THEOREM SystemFetches == SystemSpec => Spec
<1>1. SystemInit => Init
  BY DEF SystemInit
<1> QED
  BY <1>1, SystemStepIsFetchStep, PTL DEF SystemSpec, Spec

(* Every invariant of the fetches is one of the system.                    *)
LEMMA SystemCoherence == SystemSpec => []CallsAreCoherent
BY SystemFetches, Coherence, PTL

-----------------------------------------------------------------------------
(* Type correctness                                                        *)

(* Where a verification stands, it knows the manifest it reads by, and the *)
(* asset it looks at is declared there.                                    *)
VerifierKnows(v) ==
  /\ vpc[v] \in {"asset", "missing", "size", "digest"} => read[v] \in DOMAIN Manifest
  /\ vpc[v] \in {"missing", "size", "digest"} => looked[v] \in Declared(read[v])
  /\ verdict[v] = "ok" => read[v] \in DOMAIN Manifest /\ checked[v] = Declared(read[v])
  /\ read[v] = NoBody => checked[v] = {}
  /\ read[v] # NoBody => checked[v] \subseteq Declared(read[v])
  /\ vpc[v] # "idle" => verdict[v] = "none"
  /\ vpc[v] = "manifest" => read[v] = NoBody
  /\ verdict[v] = "none" /\ vpc[v] = "idle" => read[v] = NoBody

SystemKnows ==
  /\ SystemTypeOK
  /\ \A v \in Verifier : VerifierKnows(v)
  /\ \A m \in accepted : Manifest[m].tag \in Tag
  /\ \A v \in Verifier : promised[v] # NoBody => promised[v] \in accepted
  /\ accepted # {} => \E m \in accepted : disk[ManifestName] = Whole(m)

LEMMA InitKnows == SystemInit => SystemKnows
<1> SUFFICES ASSUME SystemInit PROVE SystemKnows
  OBVIOUS
<1>1. VerifierTypeOK
  BY DEF SystemInit, VerifierInit, VerifierTypeOK, VPoint, Verdict, Path
<1>2. ReaderTypeOK
  BY DEF SystemInit, ReaderInit, ReaderTypeOK
<1>3. promised \in [Verifier -> Body \cup {NoBody}] /\ \A v \in Verifier : promised[v] = NoBody
  BY DEF SystemInit
<1>4. \A v \in Verifier : VerifierKnows(v)
  BY DEF SystemInit, VerifierInit, VerifierKnows
<1>5. accepted = {}
  BY DEF SystemInit, Init
<1> QED
  BY <1>1, <1>2, <1>3, <1>4, <1>5 DEF SystemKnows, SystemTypeOK

(* A fetch's turn keeps what is said of the directory.                     *)
LEMMA FetchTurnKnows ==
  ASSUME CallsAreCoherent, SystemKnows, FetchTurn
  PROVE  SystemKnows'
<1>1. UNCHANGED <<verifierVars, readerVars, promised>>
  BY DEF FetchTurn
<1>2. SystemTypeOK' /\ \A v \in Verifier : VerifierKnows(v)'
  BY <1>1 DEF SystemKnows, SystemTypeOK, VerifierTypeOK, ReaderTypeOK, VerifierKnows,
     verifierVars, readerVars
<1>3. PICK f \in Fetcher : Act(f)
  BY DEF FetchTurn, Next, Act
<1>4. disk \in [Path -> Slot] /\ ManifestName \in Path
  BY DEF CallsAreCoherent, TypeOK, Path
<1>5. CASE UNCHANGED <<disk, accepted>>
  BY <1>1, <1>2, <1>5 DEF SystemKnows
<1>6. CASE PlacingManifest(f)
  <2>1. PICK m \in DOMAIN Manifest : temp[f] = Whole(m) /\ Manifest[m].tag = job[f].tag
    BY <1>6 DEF PlacingManifest, PlaceManifest, IsRequestedManifest
  <2>2. temp[f].bytes = m
    BY <2>1, WholeIsFile, FilesAssumption
  <2>3. accepted' = accepted \cup {m} /\ disk'[ManifestName] = Whole(m)
    BY <1>4, <1>6, <2>1, <2>2 DEF PlacingManifest, PlaceManifest
  <2>4. job[f].tag \in Tag
    BY <1>6, FetchAssumption DEF PlacingManifest, PlaceManifest, CallsAreCoherent, Coherent
  <2> QED
    BY <1>1, <1>2, <2>1, <2>3, <2>4 DEF SystemKnows
<1>7. CASE Placing(f)
  <2>1. cur[f] # ManifestName
    BY <1>7, DeclaredTypes, FilesAssumption DEF Placing, PlaceAsset, CallsAreCoherent, TypeOK
  <2> QED
    BY <1>1, <1>2, <1>4, <1>7, <2>1 DEF SystemKnows, Placing
<1> QED
  BY <1>3, <1>5, <1>6, <1>7, HowTheDiskChanges

(* A verifier's turn keeps what is known of the verifiers.                 *)
LEMMA VerifyTurnTypes ==
  ASSUME VerifierTypeOK, NEW v \in Verifier, VerifierKnows(v),
         StartVerify(v) \/ VerifyStep(v)
  PROVE  VerifierTypeOK' /\ VerifierKnows(v)'
<1> USE DEF VerifierTypeOK, VerifierKnows, VPoint, Verdict
<1>1. CASE StartVerify(v)
  <2>1. VerifierTypeOK'
    BY <1>1 DEF StartVerify
  <2>2. VerifierKnows(v)'
    BY <1>1, FilesAssumption DEF StartVerify
  <2> QED
    BY <2>1, <2>2
<1>2. CASE ReadManifest(v)
  <2>1. PICK m \in DOMAIN Manifest : disk[ManifestName] = Whole(m)
    BY <1>2 DEF ReadManifest, Parses
  <2>2. disk[ManifestName].bytes = m /\ m # NoBody
    BY <2>1, WholeIsFile, FilesAssumption
  <2>3. VerifierTypeOK'
    BY <1>2, <2>2 DEF ReadManifest
  <2>4. VerifierKnows(v)'
    BY <1>2, <2>2 DEF ReadManifest
  <2> QED
    BY <2>3, <2>4
<1>3. CASE UnreadableManifest(v)
  <2>1. vpc[v] = "manifest" /\ Answer(v, "manifest_error")
    BY <1>3 DEF UnreadableManifest
  <2> QED
    BY <2>1, FilesAssumption DEF Answer
<1>4. CASE LookAtAsset(v)
  <2>1. PICK n \in Unchecked(v) :
          looked' = [looked EXCEPT ![v] = n] /\ Proceed(v, IF disk[n] \in File THEN "size" ELSE "missing")
    BY <1>4 DEF LookAtAsset
  <2>2. vpc[v] = "asset" /\ n \in Declared(read[v]) /\ n \in Path
    BY <1>4, <2>1, DeclaredTypes DEF LookAtAsset, Unchecked, Path
  <2>3. VerifierTypeOK'
    BY <2>1, <2>2 DEF Proceed
  <2>4. VerifierKnows(v)'
    BY <2>1, <2>2 DEF Proceed
  <2> QED
    BY <2>3, <2>4
<1>5. CASE NotRegular(v) \/ Missing(v) \/ SizeDiffers(v) \/ DigestDiffers(v)
  <2>1. \E how \in {"config_error", "integrity_error"} : Answer(v, how)
    BY <1>5 DEF NotRegular, Missing, SizeDiffers, DigestDiffers
  <2>2. vpc[v] \in {"missing", "size", "digest"}
    BY <1>5 DEF NotRegular, Missing, SizeDiffers, DigestDiffers
  <2>3. VerifierTypeOK'
    BY <2>1 DEF Answer
  <2>4. VerifierKnows(v)'
    BY <2>1, <2>2, FilesAssumption DEF Answer
  <2> QED
    BY <2>3, <2>4
<1>6. CASE SizeMatches(v)
  BY <1>6 DEF SizeMatches, Proceed
<1>7. CASE DigestMatches(v)
  <2>1. looked[v] \in Declared(read[v]) /\ looked[v] \in AssetName
    BY <1>7, DeclaredTypes DEF DigestMatches
  <2>2. VerifierTypeOK'
    BY <1>7, <2>1 DEF DigestMatches
  <2>3. VerifierKnows(v)'
    BY <1>7, <2>1, FilesAssumption DEF DigestMatches
  <2> QED
    BY <2>2, <2>3
<1>8. CASE UnusableTag(v) \/ AnswerVerified(v)
  <2>1. VerifierTypeOK'
    BY <1>8 DEF UnusableTag, AnswerVerified, Answer
  <2>2. read[v] \in DOMAIN Manifest /\ read[v] # NoBody
    BY <1>8, FilesAssumption DEF UnusableTag, AnswerVerified
  <2>3. checked[v] = Declared(read[v])
    BY <1>8, <2>2 DEF UnusableTag, AnswerVerified, Unchecked
  <2>4. /\ vpc'[v] = "idle" /\ read'[v] = read[v] /\ checked'[v] = checked[v]
        /\ verdict'[v] \in {"ok", "manifest_error"}
    BY <1>8 DEF UnusableTag, AnswerVerified, Answer
  <2>5. VerifierKnows(v)'
    BY <2>2, <2>3, <2>4
  <2> QED
    BY <2>1, <2>5
<1> QED
  BY <1>1, <1>2, <1>3, <1>4, <1>5, <1>6, <1>7, <1>8 DEF VerifyStep

(* The variables of one verifier are its own.                              *)
LEMMA OtherVerifiersUntouched ==
  ASSUME VerifierTypeOK, NEW v \in Verifier, NEW u \in Verifier \ {v},
         StartVerify(v) \/ VerifyStep(v)
  PROVE  /\ vpc'[u] = vpc[u]
         /\ read'[u] = read[u]
         /\ looked'[u] = looked[u]
         /\ checked'[u] = checked[u]
         /\ verdict'[u] = verdict[u]
BY DEF VerifierTypeOK, StartVerify, VerifyStep, ReadManifest, UnreadableManifest,
   LookAtAsset, NotRegular, Missing, SizeDiffers, SizeMatches, DigestDiffers,
   DigestMatches, UnusableTag, AnswerVerified, Answer, Proceed

(* A result that is there to be taken has a manifest.                      *)
LEMMA ResultsHaveManifests ==
  ASSUME CallsAreCoherent, SystemKnows
  PROVE  /\ Fetched \subseteq DOMAIN Manifest \cap accepted
         /\ VerifiedOnDisk \subseteq DOMAIN Manifest
BY DEF CallsAreCoherent, TypeOK, Coherent, SystemKnows, VerifierKnows, Fetched,
   VerifiedOnDisk

LEMMA SystemStepKnows ==
  CallsAreCoherent /\ SystemKnows /\ [SystemNext]_systemVars => SystemKnows'
<1> SUFFICES ASSUME CallsAreCoherent, SystemKnows, [SystemNext]_systemVars
             PROVE  SystemKnows'
  OBVIOUS
<1>1. CASE UNCHANGED systemVars
  BY <1>1 DEF systemVars, vars, verifierVars, readerVars, SystemKnows, SystemTypeOK,
     VerifierTypeOK, ReaderTypeOK, VerifierKnows
<1>2. CASE FetchTurn
  BY <1>2, FetchTurnKnows
<1>3. ASSUME NEW v \in Verifier,
             \/ BeginVerify(v)
             \/ VerifyStep(v) /\ UNCHANGED <<vars, readerVars, promised>>
      PROVE  SystemKnows'
  <2>1. UNCHANGED <<disk, accepted, readerVars>> /\ (StartVerify(v) \/ VerifyStep(v))
    BY <1>3 DEF BeginVerify, vars
  <2>2. VerifierTypeOK' /\ \A u \in Verifier : VerifierKnows(u)'
    <3>1. VerifierTypeOK' /\ VerifierKnows(v)'
      BY <2>1, VerifyTurnTypes DEF SystemKnows, SystemTypeOK
    <3>2. ASSUME NEW u \in Verifier \ {v} PROVE VerifierKnows(u)'
      BY <2>1, OtherVerifiersUntouched DEF SystemKnows, SystemTypeOK, VerifierKnows
    <3> QED
      BY <3>1, <3>2
  <2>3. ReaderTypeOK'
    BY <2>1 DEF SystemKnows, SystemTypeOK, ReaderTypeOK, readerVars
  <2>4. /\ promised' \in [Verifier -> Body \cup {NoBody}]
        /\ \A u \in Verifier : promised'[u] # NoBody => promised'[u] \in accepted
    <3>1. CASE BeginVerify(v)
      BY <3>1, ResultsHaveManifests, FilesAssumption DEF BeginVerify, SystemKnows, SystemTypeOK
    <3>2. CASE UNCHANGED promised
      BY <3>2 DEF SystemKnows, SystemTypeOK
    <3> QED
      BY <1>3, <3>1, <3>2
  <2> QED
    BY <2>1, <2>2, <2>3, <2>4 DEF SystemKnows, SystemTypeOK
<1>4. CASE ReadTurn
  <2>1. UNCHANGED <<disk, accepted, verifierVars, promised>>
    BY <1>4 DEF ReadTurn, vars
  <2>2. ReaderTypeOK'
    <3>1. PICK r \in Reader : \/ \E m \in Fetched \cup VerifiedOnDisk : TakeResult(r, m)
                              \/ HistoryNotDeclared(r)
                              \/ ReadFrame(r)
      BY <1>4 DEF ReadTurn
    <3>2. CASE \E m \in Fetched \cup VerifiedOnDisk : TakeResult(r, m)
      BY <3>2, ResultsHaveManifests DEF TakeResult, SystemKnows, SystemTypeOK, ReaderTypeOK
    <3>3. CASE HistoryNotDeclared(r)
      BY <3>3 DEF HistoryNotDeclared, SystemKnows, SystemTypeOK, ReaderTypeOK
    <3>4. CASE ReadFrame(r)
      <4>1. disk[History] \in File /\ held[r] \in DOMAIN Manifest
        BY <3>4 DEF ReadFrame, SystemKnows, SystemTypeOK, ReaderTypeOK
      <4>2. ReadingOf(held[r], disk[History]) \in Answers
        BY <4>1, ReadAssumption, WholeIsFile DEF ReadingOf, Answers
      <4>3. disk[History].bytes \in Body \cup {NoBody}
        BY <4>1 DEF File
      <4> QED
        BY <3>4, <4>2, <4>3 DEF ReadFrame, SystemKnows, SystemTypeOK, ReaderTypeOK
    <3> QED
      BY <3>1, <3>2, <3>3, <3>4
  <2> QED
    BY <2>1, <2>2 DEF SystemKnows, SystemTypeOK, VerifierTypeOK, VerifierKnows, verifierVars
<1> QED
  BY <1>1, <1>2, <1>3, <1>4 DEF SystemNext, VerifyTurn

(* What every verification and every read knows holds in every reachable   *)
(* state of the system.                                                    *)
LEMMA SystemKnowledge == SystemSpec => []SystemKnows
BY InitKnows, SystemStepKnows, SystemCoherence, PTL DEF SystemSpec

THEOREM SystemTypes == SystemSpec => []SystemTypeOK
<1>1. SystemKnows => SystemTypeOK
  BY DEF SystemKnows
<1> QED
  BY <1>1, SystemKnowledge, PTL

-----------------------------------------------------------------------------
(* Verified files stay verified                                            *)

(* The size is looked at before the digest, and the file may be replaced   *)
(* in between: by one whose size was looked at by the fetch that placed it.*)
CheckedStands ==
  \A v \in Verifier :
    /\ \A n \in checked[v] : Undisputed(accepted, read[v], n) =>
         HasDigest(disk[n], read[v], n) /\ HasSize(disk[n], read[v], n)
    /\ vpc[v] = "digest" /\ Undisputed(accepted, read[v], looked[v]) =>
         HasSize(disk[looked[v]], read[v], looked[v])

(* No step of a fetch spoils a file that meets an undisputed record, be it *)
(* in both respects or in its size alone.                                  *)
LEMMA PlacingKeepsRecords ==
  ASSUME CallsAreCoherent, NEW f \in Fetcher, Act(f), NEW m \in DOMAIN Manifest,
         NEW n \in Declared(m), Undisputed(accepted', m, n)
  PROVE  /\ Undisputed(accepted, m, n)
         /\ HasSize(disk[n], m, n) => HasSize(disk'[n], m, n)
         /\ HasDigest(disk[n], m, n) => HasDigest(disk'[n], m, n)
<1>1. Undisputed(accepted, m, n)
  BY AcceptedGrows DEF Undisputed
<1>2. disk \in [Path -> Slot] /\ n \in Path /\ n # ManifestName
  BY DeclaredTypes, FilesAssumption DEF CallsAreCoherent, TypeOK, Path
<1>3. CASE UNCHANGED <<disk, accepted>> \/ PlacingManifest(f)
  BY <1>1, <1>2, <1>3 DEF PlacingManifest
<1>4. CASE Placing(f) /\ cur[f] # n
  BY <1>1, <1>2, <1>4 DEF Placing
<1>5. CASE Placing(f) /\ cur[f] = n
  <2>1. Manifest[manifest[f]].assets[n] = Manifest[m].assets[n]
    BY <1>1, <1>5 DEF Placing, Undisputed
  <2>2. disk'[n] = Whole(DeclaredSha(m, n)) /\ HasSize(Whole(DeclaredSha(m, n)), m, n)
    BY <1>2, <1>5, <2>1 DEF Placing, DeclaredSha, HasSize, DeclaredSize
  <2> QED
    BY <1>1, <2>2 DEF HasDigest
<1> QED
  BY <1>3, <1>4, <1>5, HowTheDiskChanges

LEMMA FetchTurnChecked ==
  ASSUME CallsAreCoherent, SystemKnows, CheckedStands, FetchTurn
  PROVE  CheckedStands'
<1>1. PICK f \in Fetcher : Act(f)
  BY DEF FetchTurn, Next, Act
<1>2. UNCHANGED <<vpc, read, looked, checked>>
  BY DEF FetchTurn, verifierVars
<1>3. ASSUME NEW v \in Verifier, NEW n \in checked[v], Undisputed(accepted', read[v], n)
      PROVE  HasDigest(disk'[n], read[v], n) /\ HasSize(disk'[n], read[v], n)
  <2>1. read[v] \in DOMAIN Manifest /\ n \in Declared(read[v])
    BY <1>3 DEF SystemKnows, VerifierKnows, SystemTypeOK, VerifierTypeOK
  <2> QED
    BY <1>1, <1>3, <2>1, PlacingKeepsRecords DEF CheckedStands
<1>4. ASSUME NEW v \in Verifier, vpc[v] = "digest", Undisputed(accepted', read[v], looked[v])
      PROVE  HasSize(disk'[looked[v]], read[v], looked[v])
  <2>1. read[v] \in DOMAIN Manifest /\ looked[v] \in Declared(read[v])
    BY <1>4 DEF SystemKnows, VerifierKnows
  <2> QED
    BY <1>1, <1>4, <2>1, PlacingKeepsRecords DEF CheckedStands
<1> QED
  BY <1>2, <1>3, <1>4 DEF CheckedStands, HasDigest, HasSize, DeclaredSha, DeclaredSize,
     Undisputed, Declared

LEMMA VerifierChecked ==
  ASSUME SystemKnows, CheckedStands, NEW v \in Verifier,
         StartVerify(v) \/ VerifyStep(v), UNCHANGED <<disk, accepted>>
  PROVE  CheckedStands'
<1>1. VerifierTypeOK /\ VerifierKnows(v)
  BY DEF SystemKnows, SystemTypeOK
<1> DEFINE Stands(u) ==
      /\ \A n \in checked[u] : Undisputed(accepted, read[u], n) =>
           HasDigest(disk[n], read[u], n) /\ HasSize(disk[n], read[u], n)
      /\ vpc[u] = "digest" /\ Undisputed(accepted, read[u], looked[u]) =>
           HasSize(disk[looked[u]], read[u], looked[u])
<1>2. ASSUME NEW u \in Verifier \ {v} PROVE Stands(u)'
  BY <1>1, OtherVerifiersUntouched DEF CheckedStands, HasDigest, HasSize, DeclaredSha,
     DeclaredSize, Undisputed, Declared
<1>3. ASSUME DigestMatches(v) PROVE Stands(v)'
  <2>1. /\ checked'[v] = checked[v] \cup {looked[v]}
        /\ vpc'[v] = "asset"
        /\ UNCHANGED <<read, looked>>
    BY <1>1, <1>3 DEF DigestMatches, VerifierTypeOK
  <2>2. /\ HasDigest(disk[looked[v]], read[v], looked[v])
        /\ Undisputed(accepted, read[v], looked[v]) =>
             HasSize(disk[looked[v]], read[v], looked[v])
    BY <1>3 DEF DigestMatches, CheckedStands
  <2> QED
    BY <2>1, <2>2 DEF CheckedStands, HasDigest, HasSize, DeclaredSha, DeclaredSize,
       Undisputed, Declared
<1>4. ASSUME SizeMatches(v) PROVE Stands(v)'
  BY <1>1, <1>4 DEF SizeMatches, Proceed, CheckedStands, VerifierTypeOK, HasDigest,
     HasSize, DeclaredSha, DeclaredSize, Undisputed, Declared
<1>5. ASSUME StartVerify(v) PROVE Stands(v)'
  BY <1>1, <1>5 DEF StartVerify, VerifierTypeOK
<1>6. ASSUME ReadManifest(v) PROVE Stands(v)'
  BY <1>1, <1>6 DEF ReadManifest, VerifierTypeOK, VerifierKnows
<1>7. ASSUME ~(\/ DigestMatches(v) \/ SizeMatches(v) \/ StartVerify(v) \/ ReadManifest(v))
      PROVE  Stands(v)'
  <2>1. UNCHANGED <<read, checked>>
    BY <1>1, <1>7 DEF VerifyStep, UnreadableManifest, LookAtAsset, NotRegular, Missing,
       SizeDiffers, DigestDiffers, UnusableTag, AnswerVerified, Answer, Proceed
  <2>2. vpc'[v] # "digest"
    <3>1. CASE LookAtAsset(v)
      <4>1. \E p \in {"size", "missing"} : vpc' = [vpc EXCEPT ![v] = p]
        BY <3>1 DEF LookAtAsset, Proceed
      <4> QED
        BY <1>1, <4>1 DEF VerifierTypeOK
    <3>2. CASE ~LookAtAsset(v)
      <4>1. \E how : Answer(v, how)
        BY <1>7, <3>2 DEF VerifyStep, UnreadableManifest, NotRegular, Missing,
           SizeDiffers, DigestDiffers, UnusableTag, AnswerVerified
      <4> QED
        BY <1>1, <4>1 DEF Answer, VerifierTypeOK
    <3> QED
      BY <3>1, <3>2
  <2> QED
    BY <2>1, <2>2 DEF CheckedStands, HasDigest, HasSize, DeclaredSha, DeclaredSize,
       Undisputed, Declared
<1>8. Stands(v)'
  BY <1>3, <1>4, <1>5, <1>6, <1>7
<1> QED
  BY <1>2, <1>8 DEF CheckedStands

LEMMA CheckedStandsInductive ==
  CallsAreCoherent /\ SystemKnows /\ CheckedStands /\ [SystemNext]_systemVars => CheckedStands'
<1> SUFFICES ASSUME CallsAreCoherent, SystemKnows, CheckedStands, [SystemNext]_systemVars
             PROVE  CheckedStands'
  OBVIOUS
<1>1. CASE UNCHANGED systemVars \/ ReadTurn
  <2>1. UNCHANGED <<disk, accepted, vpc, read, looked, checked>>
    BY <1>1 DEF systemVars, vars, verifierVars, ReadTurn
  <2> QED
    BY <2>1 DEF CheckedStands, HasDigest, HasSize, DeclaredSha, DeclaredSize,
       Undisputed, Declared
<1>2. CASE FetchTurn
  BY <1>2, FetchTurnChecked
<1>3. CASE VerifyTurn
  BY <1>3, VerifierChecked DEF VerifyTurn, BeginVerify, vars
<1> QED
  BY <1>1, <1>2, <1>3 DEF SystemNext

(* What a verification accepted still is what its manifest records, as     *)
(* long as no fetch places a manifest that records something else.         *)
THEOREM VerificationIsStable == SystemSpec => []VerificationStands
<1>1. SystemInit => CheckedStands
  BY DEF SystemInit, VerifierInit, CheckedStands
<1>2. SystemSpec => []CheckedStands
  BY <1>1, CheckedStandsInductive, SystemCoherence, SystemKnowledge, PTL DEF SystemSpec
<1>3. SystemKnows /\ CheckedStands => VerificationStands
  BY DEF SystemKnows, VerifierKnows, CheckedStands, VerificationStands
<1> QED
  BY <1>2, <1>3, SystemKnowledge, PTL

-----------------------------------------------------------------------------
(* Frames                                                                  *)

(* The file behind a result a caller holds, and the frame it was given.    *)
HeldStands ==
  \A r \in Reader :
    held[r] # NoBody /\ History \in Declared(held[r])
                     /\ Undisputed(accepted, held[r], History) =>
      /\ HasDigest(disk[History], held[r], History)
      /\ frame[r] # NoBody => frame[r] = DeclaredSha(held[r], History)

FramesHaveResults ==
  \A r \in Reader : frame[r] # NoBody => held[r] # NoBody /\ History \in Declared(held[r])

(* A result there to be taken is sound at that moment.                     *)
LEMMA ResultsStand ==
  ASSUME CallsAreCoherent, SystemKnows, ResolvedStaysVerified, VerificationStands,
         NEW m \in Fetched \cup VerifiedOnDisk, NEW n \in Declared(m),
         Undisputed(accepted, m, n)
  PROVE  HasDigest(disk[n], m, n)
<1>1. CASE m \in VerifiedOnDisk
  BY <1>1 DEF VerifiedOnDisk, VerificationStands
<1>2. CASE m \in Fetched
  <2>1. PICK f \in Fetcher : outcome[f] = "ok" /\ manifest[f] = m
    BY <1>2 DEF Fetched
  <2>2. m # NoBody /\ got[f][n] # "none"
    BY <2>1 DEF CallsAreCoherent, Coherent, Remaining
  <2>3. \A a \in accepted : Agree(a, m, n)
    BY DEF Undisputed, Agree, DeclaredSha
  <2> QED
    BY <2>1, <2>2, <2>3 DEF ResolvedStaysVerified
<1> QED
  BY <1>1, <1>2

LEMMA HeldStandsInductive ==
  /\ CallsAreCoherent /\ SystemKnows /\ ResolvedStaysVerified /\ VerificationStands
  /\ HeldStands /\ FramesHaveResults /\ [SystemNext]_systemVars
  => HeldStands' /\ FramesHaveResults'
<1> SUFFICES ASSUME CallsAreCoherent, SystemKnows, ResolvedStaysVerified,
                    VerificationStands, HeldStands, FramesHaveResults,
                    [SystemNext]_systemVars
             PROVE  HeldStands' /\ FramesHaveResults'
  OBVIOUS
<1>1. CASE UNCHANGED systemVars \/ VerifyTurn
  <2>1. UNCHANGED <<disk, accepted, held, frame>>
    BY <1>1 DEF systemVars, vars, readerVars, VerifyTurn, BeginVerify
  <2> QED
    BY <2>1 DEF HeldStands, FramesHaveResults, HasDigest, DeclaredSha, Undisputed, Declared
<1>2. CASE FetchTurn
  <2>1. PICK f \in Fetcher : Act(f)
    BY <1>2 DEF FetchTurn, Next, Act
  <2>2. UNCHANGED <<held, frame>>
    BY <1>2 DEF FetchTurn, readerVars
  <2>3. ASSUME NEW r \in Reader, held[r] # NoBody, History \in Declared(held[r]),
               Undisputed(accepted', held[r], History)
        PROVE  /\ HasDigest(disk'[History], held[r], History)
               /\ frame[r] # NoBody => frame[r] = DeclaredSha(held[r], History)
    <3>1. held[r] \in DOMAIN Manifest
      BY <2>3 DEF SystemKnows, SystemTypeOK, ReaderTypeOK
    <3>2. Undisputed(accepted, held[r], History)
      BY <2>1, <2>3, <3>1, PlacingKeepsRecords
    <3>3. HasDigest(disk[History], held[r], History)
      BY <2>3, <3>2 DEF HeldStands
    <3> QED
      BY <2>1, <2>3, <3>1, <3>2, <3>3, PlacingKeepsRecords DEF HeldStands
  <2> QED
    BY <2>2, <2>3 DEF HeldStands, FramesHaveResults, HasDigest, DeclaredSha, Undisputed,
       Declared
<1>3. CASE ReadTurn
  <2>1. UNCHANGED <<disk, accepted>>
    BY <1>3 DEF ReadTurn, vars
  <2>2. ReaderTypeOK
    BY DEF SystemKnows, SystemTypeOK
  <2>3. PICK r \in Reader : \/ \E m \in Fetched \cup VerifiedOnDisk : TakeResult(r, m)
                            \/ HistoryNotDeclared(r)
                            \/ ReadFrame(r)
    BY <1>3 DEF ReadTurn
  <2>4. CASE HistoryNotDeclared(r)
    BY <2>1, <2>4 DEF HistoryNotDeclared, HeldStands, FramesHaveResults, HasDigest,
       DeclaredSha, Undisputed, Declared
  <2>5. ASSUME NEW m \in Fetched \cup VerifiedOnDisk, TakeResult(r, m)
        PROVE  HeldStands' /\ FramesHaveResults'
    <3>1. held' = [held EXCEPT ![r] = m] /\ UNCHANGED frame /\ held[r] = NoBody
      BY <2>5 DEF TakeResult
    <3>2. frame[r] = NoBody
      BY <3>1 DEF FramesHaveResults
    <3>3. History \in Declared(m) /\ Undisputed(accepted, m, History) =>
            HasDigest(disk[History], m, History)
      BY ResultsStand
    <3> QED
      BY <2>1, <2>2, <3>1, <3>2, <3>3 DEF ReaderTypeOK, HeldStands, FramesHaveResults,
         HasDigest, DeclaredSha, Undisputed, Declared
  <2>6. CASE ReadFrame(r)
    <3>1. held[r] # NoBody /\ History \in Declared(held[r]) /\ UNCHANGED held
      BY <2>6 DEF ReadFrame
    <3>2. frame' = [frame EXCEPT ![r] = disk[History].bytes] \/ UNCHANGED frame
      BY <2>2, <2>6 DEF ReadFrame, ReaderTypeOK
    <3>3. held[r] \in DOMAIN Manifest
      BY <2>2, <3>1 DEF ReaderTypeOK
    <3>4. Undisputed(accepted, held[r], History) =>
            disk[History].bytes = DeclaredSha(held[r], History)
      BY <3>1, <3>3, DeclaredTypes, WholeIsFile DEF HeldStands, HasDigest
    <3> QED
      BY <2>1, <2>2, <3>1, <3>2, <3>4 DEF ReaderTypeOK, HeldStands, FramesHaveResults,
         HasDigest, DeclaredSha, Undisputed, Declared
  <2> QED
    BY <2>3, <2>4, <2>5, <2>6
<1> QED
  BY <1>1, <1>2, <1>3 DEF SystemNext

(* A frame is made of the bytes the result's manifest declares, as long as *)
(* no fetch places a manifest that records something else.                 *)
THEOREM FramesAreVerified == SystemSpec => []UndisputedFrameIsVerified
<1>1. SystemInit => HeldStands /\ FramesHaveResults
  BY DEF SystemInit, ReaderInit, HeldStands, FramesHaveResults
<1>2. SystemSpec => []ResolvedStaysVerified
  BY SystemFetches, ResolvedIsStable, PTL
<1>3. SystemSpec => [](HeldStands /\ FramesHaveResults)
  BY <1>1, <1>2, HeldStandsInductive, SystemCoherence, SystemKnowledge,
     VerificationIsStable, PTL DEF SystemSpec
<1>4. HeldStands /\ FramesHaveResults => UndisputedFrameIsVerified
  BY DEF HeldStands, FramesHaveResults, UndisputedFrameIsVerified
<1> QED
  BY <1>3, <1>4, PTL

-----------------------------------------------------------------------------
(* Fetch, then verify                                                      *)

(* With one manifest ever placed, a directory that was fetched is complete *)
(* and stays so.                                                           *)
Settled(manifests, files, m) ==
  manifests = {m} =>
    /\ files[ManifestName] = Whole(m)
    /\ \A n \in Declared(m) : HasDigest(files[n], m, n)

(* A verification that began on such a directory finds nothing wrong but a *)
(* length the manifest misstates.                                          *)
Content(v) ==
  promised[v] # NoBody /\ accepted = {promised[v]} =>
    /\ vpc[v] # "missing"
    /\ verdict[v] \in {"none", "ok", "integrity_error"}
    /\ Truthful(promised[v]) => verdict[v] # "integrity_error"
    /\ read[v] \in {NoBody, promised[v]}

PromisesKept ==
  \A v \in Verifier :
    /\ promised[v] # NoBody => Settled(accepted, disk, promised[v])
    /\ Content(v)

LEMMA SettledStays ==
  ASSUME CallsAreCoherent, SystemKnows, FetchTurn, NEW m \in accepted, Settled(accepted, disk, m)
  PROVE  Settled(accepted', disk', m)
<1> SUFFICES ASSUME accepted' = {m}
             PROVE  /\ disk'[ManifestName] = Whole(m)
                    /\ \A n \in Declared(m) : HasDigest(disk'[n], m, n)
  BY DEF Settled, HasDigest, Declared, DeclaredSha, DeclaredSize, Whole
<1>1. PICK f \in Fetcher : Act(f)
  BY DEF FetchTurn, Next, Act
<1>2. accepted = {m} /\ m \in DOMAIN Manifest
  BY <1>1, AcceptedGrows DEF CallsAreCoherent, TypeOK
<1>3. disk[ManifestName] = Whole(m) /\ \A n \in Declared(m) : HasDigest(disk[n], m, n)
  BY <1>2 DEF Settled
<1>4. ASSUME NEW n \in Declared(m) PROVE HasDigest(disk'[n], m, n)
  BY <1>1, <1>2, <1>3, PlacingKeepsRecords DEF Undisputed
<1>5. disk'[ManifestName] = Whole(m)
  <2>1. SystemKnows'
    BY FetchTurnKnows
  <2> QED
    BY <2>1 DEF SystemKnows, Whole
<1> QED
  BY <1>4, <1>5

LEMMA VerifierIsContent ==
  ASSUME CallsAreCoherent, SystemKnows, NEW v \in Verifier, promised[v] # NoBody,
         Settled(accepted, disk, promised[v]), Content(v), VerifyStep(v),
         UNCHANGED <<disk, accepted, promised>>
  PROVE  Content(v)'
<1> DEFINE m == promised[v]
<1> SUFFICES ASSUME accepted = {m}
             PROVE  /\ vpc'[v] # "missing"
                    /\ verdict'[v] \in {"none", "ok", "integrity_error"}
                    /\ Truthful(m) => verdict'[v] # "integrity_error"
                    /\ read'[v] \in {NoBody, m}
  BY DEF Content, Truthful, Declared, DeclaredSha, DeclaredSize
<1>1. VerifierTypeOK /\ VerifierKnows(v) /\ m \in DOMAIN Manifest
  BY DEF SystemKnows, SystemTypeOK, CallsAreCoherent, TypeOK
<1>2. disk[ManifestName] = Whole(m) /\ \A n \in Declared(m) : HasDigest(disk[n], m, n)
  BY DEF Settled
<1>3. /\ vpc[v] # "missing"
      /\ verdict[v] \in {"none", "ok", "integrity_error"}
      /\ Truthful(m) => verdict[v] # "integrity_error"
      /\ read[v] \in {NoBody, m}
  BY DEF Content
<1>4. Whole(m).bytes = m /\ m \in Body /\ Manifest[m].tag \notin BadTag
  BY <1>1, WholeIsFile, FilesAssumption DEF SystemKnows
<1>5. ASSUME NEW n \in Declared(m) PROVE disk[n] \in File /\ (Truthful(m) => HasSize(disk[n], m, n))
  <2>1. disk[n] = Whole(DeclaredSha(m, n)) /\ DeclaredSha(m, n) \in Body
    BY <1>1, <1>2, <1>5, DeclaredTypes DEF HasDigest
  <2>2. Truthful(m) => Size[DeclaredSha(m, n)] = DeclaredSize(m, n)
    BY <1>5 DEF Truthful
  <2> QED
    BY <2>1, <2>2, WholeIsFile DEF HasSize, Whole
<1>6. CASE ReadManifest(v)
  BY <1>1, <1>2, <1>3, <1>4, <1>6 DEF ReadManifest, VerifierTypeOK
<1>7. CASE UnreadableManifest(v)
  BY <1>1, <1>2, <1>7 DEF UnreadableManifest, Parses
<1>8. vpc[v] \in {"asset", "missing", "size", "digest"} => read[v] = m
  BY <1>1, <1>3, FilesAssumption DEF VerifierKnows
<1>9. CASE LookAtAsset(v)
  <2>1. PICK n \in Unchecked(v) : Proceed(v, IF disk[n] \in File THEN "size" ELSE "missing")
    BY <1>9 DEF LookAtAsset
  <2>2. disk[n] \in File
    BY <1>5, <1>8, <1>9, <2>1 DEF LookAtAsset, Unchecked
  <2> QED
    BY <1>1, <1>3, <2>1, <2>2 DEF Proceed, VerifierTypeOK
<1>10. CASE NotRegular(v) \/ Missing(v)
  BY <1>3, <1>10 DEF NotRegular, Missing
<1>11. CASE SizeDiffers(v)
  BY <1>1, <1>3, <1>5, <1>8, <1>11 DEF SizeDiffers, VerifierKnows, Answer, VerifierTypeOK
<1>12. CASE SizeMatches(v) \/ DigestMatches(v)
  BY <1>1, <1>3, <1>12 DEF SizeMatches, DigestMatches, Proceed, VerifierTypeOK
<1>13. CASE UnusableTag(v)
  BY <1>4, <1>8, <1>13 DEF UnusableTag
<1>14. CASE AnswerVerified(v)
  BY <1>1, <1>3, <1>14 DEF AnswerVerified, Answer, VerifierTypeOK
<1>15. CASE DigestDiffers(v)
  BY <1>1, <1>2, <1>8, <1>15 DEF DigestDiffers, VerifierKnows
<1> QED
  BY <1>6, <1>7, <1>9, <1>10, <1>11, <1>12, <1>13, <1>14, <1>15 DEF VerifyStep

LEMMA VerificationBeginsContent ==
  ASSUME CallsAreCoherent, SystemKnows, ResolvedStaysVerified, VerificationStands,
         NEW v \in Verifier, BeginVerify(v)
  PROVE  (promised'[v] # NoBody => Settled(accepted', disk', promised'[v])) /\ Content(v)'
<1> SUFFICES ASSUME promised'[v] # NoBody
             PROVE  Settled(accepted', disk', promised'[v]) /\ Content(v)'
  BY DEF Content
<1>1. UNCHANGED <<disk, accepted>> /\ StartVerify(v)
  BY DEF BeginVerify, vars
<1>2. PICK m \in Fetched : promised'[v] = m
  BY DEF BeginVerify, SystemKnows, SystemTypeOK
<1>3. m \in DOMAIN Manifest /\ m \in accepted
  BY ResultsHaveManifests
<1>4. Settled(accepted, disk, m)
  <2> SUFFICES ASSUME accepted = {m}
               PROVE  /\ disk[ManifestName] = Whole(m)
                      /\ \A n \in Declared(m) : HasDigest(disk[n], m, n)
    BY DEF Settled
  <2>1. disk[ManifestName] = Whole(m)
    BY DEF SystemKnows
  <2>2. ASSUME NEW n \in Declared(m) PROVE HasDigest(disk[n], m, n)
    BY ResultsStand DEF Undisputed
  <2> QED
    BY <2>1, <2>2
<1>5. Settled(accepted', disk', promised'[v])
  BY <1>1, <1>2, <1>4 DEF Settled, Truthful, HasDigest, Declared, DeclaredSha,
     DeclaredSize, Whole
<1>6. accepted = {m} => vpc'[v] = "manifest" /\ verdict'[v] = "none"
  BY <1>1, <1>3, <1>4, WholeIsFile, FilesAssumption DEF Settled, StartVerify, SystemKnows,
     SystemTypeOK, VerifierTypeOK
<1>7. read'[v] = NoBody
  BY <1>1 DEF StartVerify, SystemKnows, SystemTypeOK, VerifierTypeOK
<1>8. Content(v)'
  BY <1>1, <1>2, <1>6, <1>7 DEF Content, Truthful, Declared, DeclaredSha, DeclaredSize
<1> QED
  BY <1>5, <1>8

LEMMA PromisesInductive ==
  /\ CallsAreCoherent /\ SystemKnows /\ ResolvedStaysVerified /\ VerificationStands
  /\ PromisesKept /\ [SystemNext]_systemVars
  => PromisesKept'
<1> SUFFICES ASSUME CallsAreCoherent, SystemKnows, ResolvedStaysVerified,
                    VerificationStands, PromisesKept, [SystemNext]_systemVars
             PROVE  PromisesKept'
  OBVIOUS
<1> USE DEF PromisesKept
<1>1. CASE UNCHANGED systemVars \/ ReadTurn
  <2>1. UNCHANGED <<disk, accepted, promised, vpc, verdict, read>>
    BY <1>1 DEF systemVars, vars, verifierVars, ReadTurn
  <2> QED
    BY <2>1 DEF Settled, Content, Truthful, HasDigest, Declared, DeclaredSha,
       DeclaredSize, Whole
<1>2. CASE FetchTurn
  <2>1. UNCHANGED <<promised, vpc, verdict, read>>
    BY <1>2 DEF FetchTurn, verifierVars
  <2>2. ASSUME NEW v \in Verifier, promised[v] # NoBody
        PROVE  Settled(accepted', disk', promised'[v]) /\ Content(v)'
    <3>1. promised[v] \in accepted
      BY <2>2 DEF SystemKnows
    <3> DEFINE m == promised[v]
    <3>2. Settled(accepted, disk, m)
      BY <2>2
    <3>3. accepted \subseteq accepted'
      BY <1>2, AcceptedGrows DEF FetchTurn, Next, Act
    <3>4. Content(v)'
      BY <2>1, <2>2, <3>1, <3>3 DEF Content, Truthful, Declared, DeclaredSha, DeclaredSize
    <3>5. ASSUME accepted' = {m}
          PROVE  /\ disk'[ManifestName] = Whole(m)
                 /\ \A n \in Declared(m) : HasDigest(disk'[n], m, n)
      <4> HIDE DEF m
      <4>1. m \in accepted
        BY <3>1 DEF m
      <4>2. Settled(accepted', disk', m)
        BY <1>2, <4>1, <3>2, SettledStays
      <4> QED
        BY <3>5, <4>2 DEF Settled, Truthful, HasDigest, Declared, DeclaredSha,
           DeclaredSize, Whole
    <3> QED
      BY <2>1, <3>4, <3>5 DEF Settled, Truthful, HasDigest, Declared, DeclaredSha,
         DeclaredSize, Whole
  <2> QED
    BY <2>1, <2>2 DEF Content
<1>3. ASSUME NEW v \in Verifier,
             \/ BeginVerify(v)
             \/ VerifyStep(v) /\ UNCHANGED <<vars, readerVars, promised>>
      PROVE  PromisesKept'
  <2>1. UNCHANGED <<disk, accepted>> /\ (StartVerify(v) \/ VerifyStep(v))
    BY <1>3 DEF BeginVerify, vars
  <2>2. promised' = [promised EXCEPT ![v] = promised'[v]]
    BY <1>3 DEF BeginVerify, SystemKnows, SystemTypeOK
  <2>3. ASSUME NEW u \in Verifier \ {v}
        PROVE  (promised'[u] # NoBody => Settled(accepted', disk', promised'[u])) /\ Content(u)'
    <3>1. promised'[u] = promised[u]
      BY <2>2 DEF SystemKnows, SystemTypeOK
    <3>2. promised'[u] # NoBody => Settled(accepted', disk', promised'[u])
      BY <2>1, <3>1 DEF SystemKnows, Settled
    <3>3. vpc'[u] = vpc[u] /\ read'[u] = read[u] /\ verdict'[u] = verdict[u]
      BY <2>1, OtherVerifiersUntouched DEF SystemKnows, SystemTypeOK
    <3>4. Content(u)'
      BY <2>1, <3>1, <3>3 DEF Content
    <3> QED
      BY <3>2, <3>4
  <2>4. (promised'[v] # NoBody => Settled(accepted', disk', promised'[v])) /\ Content(v)'
    <3>1. CASE BeginVerify(v)
      BY <3>1, VerificationBeginsContent
    <3>2. CASE VerifyStep(v) /\ UNCHANGED promised
      <4>1. promised'[v] # NoBody => Settled(accepted', disk', promised'[v])
        BY <2>1, <3>2 DEF Settled, Truthful, HasDigest, Declared, DeclaredSha,
           DeclaredSize, Whole
      <4>2. Content(v)'
        BY <2>1, <3>2, VerifierIsContent DEF Content
      <4> QED
        BY <4>1, <4>2
    <3> QED
      BY <1>3, <3>1, <3>2
  <2> QED
    BY <2>3, <2>4
<1> QED
  BY <1>1, <1>2, <1>3 DEF SystemNext, VerifyTurn

(* What a fetch returned, a later verification accepts as the same         *)
(* snapshot, whatever else is fetched of that manifest meanwhile.          *)
THEOREM FetchThenVerify == SystemSpec => []FetchedThenVerified
<1>1. SystemInit => PromisesKept
  BY DEF SystemInit, PromisesKept, Content
<1>2. SystemSpec => []ResolvedStaysVerified
  BY SystemFetches, ResolvedIsStable, PTL
<1>3. SystemSpec => []PromisesKept
  BY <1>1, <1>2, PromisesInductive, SystemCoherence, SystemKnowledge,
     VerificationIsStable, PTL DEF SystemSpec
<1>4. ASSUME SystemKnows, PromisesKept, VerificationStands PROVE FetchedThenVerified
  <2> SUFFICES ASSUME NEW v \in Verifier, promised[v] # NoBody, accepted = {promised[v]}
               PROVE  /\ verdict[v] \in {"none", IF Truthful(promised[v]) THEN "ok" ELSE "integrity_error"}
                      /\ verdict[v] = "ok" => read[v] = promised[v]
    BY DEF FetchedThenVerified
  <2>1. /\ verdict[v] \in {"none", "ok", "integrity_error"}
        /\ Truthful(promised[v]) => verdict[v] # "integrity_error"
        /\ verdict[v] = "ok" => read[v] = promised[v]
    BY <1>4, FilesAssumption DEF SystemKnows, VerifierKnows, PromisesKept, Content
  <2>2. ASSUME verdict[v] = "ok" PROVE Truthful(promised[v])
    <3> DEFINE m == promised[v]
    <3>1. read[v] = m
      BY <2>1, <2>2
    <3>2. ASSUME NEW n \in Declared(m) PROVE Size[DeclaredSha(m, n)] = DeclaredSize(m, n)
      <4>1. Undisputed(accepted, m, n)
        BY DEF Undisputed
      <4>2. HasDigest(disk[n], m, n) /\ HasSize(disk[n], m, n)
        BY <1>4, <2>2, <3>1, <3>2, <4>1 DEF VerificationStands
      <4> QED
        BY <4>2 DEF HasDigest, HasSize, Whole
    <3> QED
      BY <3>2 DEF Truthful
  <2> QED
    BY <2>1, <2>2
<1> QED
  BY <1>3, <1>4, SystemKnowledge, VerificationIsStable, PTL

=============================================================================
