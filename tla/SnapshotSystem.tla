--------------------------- MODULE SnapshotSystem ---------------------------
(***************************************************************************)
(* The snapshot subpackage as a whole: fetches, verifications and reads of *)
(* one directory, by any number of callers, in any order.  They share the  *)
(* directory and nothing else, and no call of one waits for another.       *)
(***************************************************************************)
EXTENDS SnapshotFetch, SnapshotVerify, SnapshotRead

VARIABLE
  promised  \* auxiliary: the manifest of a fetch that had returned when a
            \* verification began, NoBody if there was none

systemVars == <<vars, verifierVars, readerVars, promised>>

SystemInit ==
  /\ Init
  /\ VerifierInit
  /\ ReaderInit
  /\ promised = [v \in Verifier |-> NoBody]

Fetched == {manifest[f] : f \in {g \in Fetcher : outcome[g] = "ok"}}

VerifiedOnDisk == {read[v] : v \in {u \in Verifier : verdict[u] = "ok"}}

FetchTurn ==
  /\ Next
  /\ UNCHANGED <<verifierVars, readerVars, promised>>

BeginVerify(v) ==
  /\ StartVerify(v)
  /\ \E m \in (IF Fetched = {} THEN {NoBody} ELSE Fetched) :
       promised' = [promised EXCEPT ![v] = m]
  /\ UNCHANGED <<vars, readerVars>>

VerifyTurn ==
  \E v \in Verifier :
    \/ BeginVerify(v)
    \/ VerifyStep(v) /\ UNCHANGED <<vars, readerVars, promised>>

ReadTurn ==
  \E r \in Reader :
    /\ \/ \E m \in Fetched \cup VerifiedOnDisk : TakeResult(r, m)
       \/ HistoryNotDeclared(r)
       \/ ReadFrame(r)
    /\ UNCHANGED <<vars, verifierVars, promised>>

SystemNext == FetchTurn \/ VerifyTurn \/ ReadTurn

SystemSpec == SystemInit /\ [][SystemNext]_systemVars

(* A verification, once begun, keeps running, whatever the others do.      *)
FairSystemSpec ==
  /\ SystemSpec
  /\ \A v \in Verifier : WF_systemVars(VerifyStep(v) /\ UNCHANGED <<vars, readerVars, promised>>)

-----------------------------------------------------------------------------
(* What must hold                                                          *)

SystemTypeOK == VerifierTypeOK /\ ReaderTypeOK /\ promised \in [Verifier -> Body \cup {NoBody}]

(* Every one of these manifests that declares a name records for it what   *)
(* this one does.                                                          *)
Undisputed(manifests, m, n) ==
  \A a \in manifests : n \in Declared(a) => Manifest[a].assets[n] = Manifest[m].assets[n]

(* "These bytes are the bytes this manifest describes" (fetcher.py:231):   *)
(* what a verification has passed still is what its manifest declares,     *)
(* however many fetches write around it, unless some fetch placed a        *)
(* manifest with another record under that name.                           *)
VerificationStands ==
  \A v \in Verifier : verdict[v] = "ok" =>
    \A n \in Declared(read[v]) :
      Undisputed(accepted, read[v], n) =>
        /\ HasDigest(disk[n], read[v], n)
        /\ HasSize(disk[n], read[v], n)

(* A manifest that states the lengths of its assets as they are.           *)
Truthful(m) == \A n \in Declared(m) : Size[DeclaredSha(m, n)] = DeclaredSize(m, n)

(* What a fetch returned, a verification that begins afterwards accepts,   *)
(* and reports as the same snapshot, as long as no fetch of another        *)
(* manifest has come to the directory.  The one exception is a manifest    *)
(* that misstates a length: a fetch can return it, for a file that was     *)
(* there is kept on its digest alone (fetcher.py:471), and a verification  *)
(* then always refuses, for it compares lengths too.                       *)
FetchedThenVerified ==
  \A v \in Verifier : promised[v] # NoBody /\ accepted = {promised[v]} =>
    /\ verdict[v] \in {"none", IF Truthful(promised[v]) THEN "ok" ELSE "integrity_error"}
    /\ verdict[v] = "ok" => read[v] = promised[v]

(* A frame is made of the bytes the result's manifest declares, unless     *)
(* some fetch placed a manifest that declares others.                      *)
UndisputedFrameIsVerified ==
  \A r \in Reader : frame[r] # NoBody /\ Undisputed(accepted, held[r], History) =>
    frame[r] = DeclaredSha(held[r], History)

(* Every verification ends, even while fetches keep replacing files.       *)
EveryVerificationEnds == \A v \in Verifier : vpc[v] # "idle" ~> vpc[v] = "idle"

-----------------------------------------------------------------------------
(* What the documentation says and the code does not do                    *)

(* "There is no way to obtain a history from this subpackage without both  *)
(* its bytes and its continuity having been checked" (continuity.py:206).  *)
FrameBytesWereChecked ==
  \A r \in Reader : frame[r] # NoBody => frame[r] = DeclaredSha(held[r], History)

=============================================================================
