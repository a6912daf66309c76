---------------------------- MODULE SnapshotRead ----------------------------
(***************************************************************************)
(* read_snapshot_frame (snapshot/continuity.py): any number of callers,    *)
(* each holding the result of a fetch or of a verification, opens the      *)
(* history's path again and checks what it reads against the result's      *)
(* manifest.  What that check says of a byte string is a constant here,    *)
(* and module SnapshotContinuity's subject.                                *)
(***************************************************************************)
EXTENDS SnapshotDirectory

CONSTANTS
  Reader,   \* the callers of read_snapshot_frame
  History,  \* asset_name: the asset that holds the history
  Reading   \* what reading a byte string against a manifest comes to

Answers == {"ok", "no_data", "continuity_error"}

ASSUME ReadAssumption ==
  /\ History \in AssetName
  /\ Reading \in [DOMAIN Manifest -> [Body -> Answers]]

VARIABLES
  held,    \* the manifest of the result it holds, NoBody before
  answer,  \* what its call returned or raised
  frame    \* the bytes of the frame it was given

readerVars == <<held, answer, frame>>

ReaderInit ==
  /\ held = [r \in Reader |-> NoBody]
  /\ answer = [r \in Reader |-> "none"]
  /\ frame = [r \in Reader |-> NoBody]

(* A caller keeps a result, for as long as it likes.                       *)
TakeResult(r, m) ==
  /\ held[r] = NoBody
  /\ held' = [held EXCEPT ![r] = m]
  /\ UNCHANGED <<answer, frame>>

(* The release does not hold the asset asked for.                          *)
HistoryNotDeclared(r) ==
  /\ held[r] # NoBody
  /\ answer[r] = "none"
  /\ History \notin Declared(held[r])
  /\ answer' = [answer EXCEPT ![r] = "integrity_error"]
  /\ UNCHANGED <<held, frame>>

(* An empty file holds no data, and a truncated one fewer rows than its    *)
(* manifest states.                                                        *)
ReadingOf(m, file) ==
  CASE file.len = 0                    -> "no_data"
    [] \E b \in Body : file = Whole(b) -> Reading[m][file.bytes]
    [] OTHER                           -> "continuity_error"

(* The path is opened anew: neither its digest nor its size is looked at.  *)
ReadFrame(r) ==
  /\ held[r] # NoBody
  /\ answer[r] = "none"
  /\ History \in Declared(held[r])
  /\ disk[History] \in File
  /\ LET reading == ReadingOf(held[r], disk[History]) IN
       /\ answer' = [answer EXCEPT ![r] = reading]
       /\ frame' = [frame EXCEPT ![r] = IF reading = "ok" THEN disk[History].bytes ELSE @]
  /\ UNCHANGED held

ReaderTypeOK ==
  /\ held \in [Reader -> DOMAIN Manifest \cup {NoBody}]
  /\ answer \in [Reader -> Answers \cup {"none", "integrity_error"}]
  /\ frame \in [Reader -> Body \cup {NoBody}]

=============================================================================
